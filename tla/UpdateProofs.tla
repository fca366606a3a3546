---------------------------- MODULE UpdateProofs ----------------------------
(***************************************************************************)
(* Proofs about VerifiedRelease, for any number of requests, editions and  *)
(* retries and any set of genuine editions.                                *)
(*                                                                         *)
(* The selected build stays sound because the pointer and the launcher's   *)
(* memory name the same builds at every stage but one, the child is the    *)
(* build the stage says or none, and the queue's lock keeps one request    *)
(* from its publication to its end: a candidate is therefore never a build *)
(* that is there already, so what the old build does after the backup      *)
(* cannot be what the candidate does.                                      *)
(***************************************************************************)
EXTENDS VerifiedRelease, TLAPS

\* Stages by the build whose child may run.
Childless == {"down", "loading", "noting", "unlocking", "launching", "falling", "saving", "trying"}
OnCandidate == {"proving", "committing"}
OnCurrent == {"checking", "repointing", "renoting", "waiting", "preparing", "prepared",
              "halting", "reproving", "restoring", "reporting", "finishing", "releasing"}

\* Stages of an update: before its commit, and until its request is removed.
Untried == {"prepared", "halting", "saving", "trying", "proving", "committing"}
Uncommitted == {"preparing"} \union Untried
Requested == Uncommitted \union {"reverting", "reproving", "restoring", "reporting", "finishing"}

ChildIsExpected ==
  /\ pc \in Childless => child = NoBuild
  /\ pc \in OnCandidate => child \in {candidate, NoBuild}
  /\ pc \in OnCurrent => child \in {current, NoBuild}
  /\ pc = "rechecking" => child \in {previous, NoBuild}

BuildsAreThere ==
  /\ Root \in builds /\ {pointer.path, pointer.previous} \subseteq builds
  /\ pc # "down" => {current, previous} \subseteq builds
  /\ pc \in Untried => candidate \in builds

PointerIsMemory ==
  /\ pc \notin {"down", "repointing"} => pointer.path = current
  /\ pc # "down" => pointer.previous \in {previous, Root}

ProvenFirst ==
  /\ pointer.path \in proven
  /\ pc = "repointing" => current \in proven
  /\ pc = "committing" => candidate \in proven

RequestsAreNew ==
  /\ builds \subseteq started \union {Root} /\ started \subseteq 1 .. issued
  /\ request # Unreadable => request <= issued
  /\ request = Unreadable => pc \in {"down", "loading"}
  /\ (pc \notin {"down", "loading"} \union Requested /\ request # NoRequest) => request \notin started
  /\ pc \in Uncommitted => candidate # current /\ candidate \in started

LockIsHeld ==
  /\ posting => child # NoBuild /\ issued < MaxRequests /\ queueLock
  /\ request # NoRequest => ~posting /\ queueLock
  /\ pc \in {"noting", "unlocking"} => request = NoRequest
  /\ pc \in Requested => request # NoRequest
  /\ pc = "releasing" => request = NoRequest /\ ~posting /\ queueLock

Snapshot == pc \in {"trying", "proving", "committing"} => ~unsaved

LauncherInv ==
  /\ LauncherTypeOK
  /\ ChildIsExpected
  /\ BuildsAreThere
  /\ PointerIsMemory
  /\ ProvenFirst
  /\ RequestsAreNew
  /\ LockIsHeld
  /\ Snapshot

(* The numbers used for no build, for the installed one and for the next.  *)
LEMMA Numbers ==
  /\ 0 \in Build /\ NoBuild \notin Build /\ Unreadable \notin Build
  /\ LauncherInv /\ posting => issued + 1 \in Build
<1>1. 0 \in Build /\ NoBuild \notin Build /\ Unreadable \notin Build
  BY LauncherAssumption DEF Build, NoBuild, Unreadable
<1>2. ASSUME LauncherInv, posting PROVE issued + 1 \in Build
  BY <1>2, LauncherAssumption DEF LauncherInv, LauncherTypeOK, LockIsHeld, Build
<1> QED
  BY <1>1, <1>2

(* One lemma for each few steps of the launcher.                            *)
LEMMA LoadingInv ==
  ASSUME LauncherInv, Load \/ DropRequest \/ CannotLoad \/ NoteInterrupted \/ Unlock
  PROVE  LauncherInv'
<1>1. LauncherTypeOK'
  <2> USE DEF LauncherTypeOK, Goto, Stages, files, flags, ghosts, halt, memory
  <2>1. CASE Load
    BY Numbers, <2>1 DEF LauncherInv, Load, SafeBuild, Root
  <2>2. CASE DropRequest
    BY Numbers, <2>2 DEF LauncherInv, DropRequest, Dropped, NoRequest
  <2>3. CASE NoteInterrupted
    BY <2>3 DEF LauncherInv, NoteInterrupted
  <2>4. CASE Unlock
    BY <2>4 DEF LauncherInv, Unlock
  <2>5. CASE CannotLoad
    BY <2>5 DEF LauncherInv, CannotLoad
  <2> QED
    BY <2>1, <2>2, <2>3, <2>4, <2>5
<1> USE DEF LauncherInv, Load, DropRequest, CannotLoad, NoteInterrupted, Unlock, At, Dropped, Goto,
    SafeBuild, files, flags, ghosts, halt, memory
<1> USE Numbers, LauncherAssumption DEF LauncherTypeOK, ChildIsExpected, BuildsAreThere,
    PointerIsMemory, ProvenFirst, RequestsAreNew, LockIsHeld, Snapshot, Stages, Root, NoRequest,
    NoBuild, Unreadable, Build, Childless, OnCandidate, OnCurrent, Requested, Uncommitted, Untried
<1>2. ChildIsExpected'
  OBVIOUS
<1>3. BuildsAreThere'
  OBVIOUS
<1>4. PointerIsMemory'
  OBVIOUS
<1>5. ProvenFirst'
  OBVIOUS
<1>6. RequestsAreNew'
  <2>1. CASE Load
    BY <2>1
  <2>2. CASE DropRequest
    BY <2>2
  <2>3. CASE NoteInterrupted
    BY <2>3
  <2>4. CASE Unlock
    BY <2>4
  <2>5. CASE CannotLoad
    BY <2>5
  <2> QED
    BY <2>1, <2>2, <2>3, <2>4, <2>5
<1>7. LockIsHeld'
  OBVIOUS
<1>8. Snapshot'
  OBVIOUS
<1> QED
  BY <1>1, <1>2, <1>3, <1>4, <1>5, <1>6, <1>7, <1>8

LEMMA LaunchingInv ==
  ASSUME LauncherInv, LaunchSelected \/ StartupHealthy \/ StartupUnhealthy \/ LaunchPrevious
  PROVE  LauncherInv'
<1>1. LauncherTypeOK'
  <2> USE DEF LauncherTypeOK, Goto, Stages, files, flags, ghosts, halt, memory
  <2>1. CASE LaunchSelected
    BY Numbers, <2>1 DEF LauncherInv, LaunchSelected, ChildIs
  <2>2. CASE StartupHealthy
    BY <2>2 DEF LauncherInv, StartupHealthy, Healthy
  <2>3. CASE StartupUnhealthy
    BY Numbers, <2>3 DEF LauncherInv, StartupUnhealthy, Unhealthy, ChildStops
  <2>4. CASE LaunchPrevious
    BY Numbers, <2>4 DEF LauncherInv, LaunchPrevious, ChildIs
  <2> QED
    BY <2>1, <2>2, <2>3, <2>4
<1> USE DEF LauncherInv, LaunchSelected, StartupHealthy, StartupUnhealthy, LaunchPrevious, At,
    ChildIs, ChildStops, Goto, Healthy, Unhealthy, files, flags, ghosts, halt, memory
<1> USE Numbers, LauncherAssumption DEF LauncherTypeOK, ChildIsExpected, BuildsAreThere,
    PointerIsMemory, ProvenFirst, RequestsAreNew, LockIsHeld, Snapshot, Stages, Root, NoRequest,
    NoBuild, Unreadable, Build, Childless, OnCandidate, OnCurrent, Requested, Uncommitted, Untried
<1>2. ChildIsExpected'
  OBVIOUS
<1>3. BuildsAreThere'
  OBVIOUS
<1>4. PointerIsMemory'
  OBVIOUS
<1>5. ProvenFirst'
  OBVIOUS
<1>6. RequestsAreNew'
  OBVIOUS
<1>7. LockIsHeld'
  OBVIOUS
<1>8. Snapshot'
  OBVIOUS
<1> QED
  BY <1>1, <1>2, <1>3, <1>4, <1>5, <1>6, <1>7, <1>8

LEMMA FallingInv ==
  ASSUME LauncherInv, PreviousHealthy \/ PreviousUnhealthy \/ Repoint \/ NoteRolledBack
  PROVE  LauncherInv'
<1>1. LauncherTypeOK'
  <2> USE DEF LauncherTypeOK, Goto, Stages, files, flags, ghosts, halt, memory
  <2>1. CASE PreviousHealthy
    BY <2>1 DEF LauncherInv, PreviousHealthy, Healthy
  <2>2. CASE PreviousUnhealthy
    BY <2>2 DEF LauncherInv, PreviousUnhealthy, Unhealthy
  <2>3. CASE Repoint
    BY Numbers, <2>3 DEF LauncherInv, Repoint, Repointed, Root
  <2>4. CASE NoteRolledBack
    BY <2>4 DEF LauncherInv, NoteRolledBack
  <2> QED
    BY <2>1, <2>2, <2>3, <2>4
<1> USE DEF LauncherInv, PreviousHealthy, PreviousUnhealthy, Repoint, NoteRolledBack, At, Goto,
    Healthy, Repointed, Unhealthy, files, flags, ghosts, halt, memory
<1> USE Numbers, LauncherAssumption DEF LauncherTypeOK, ChildIsExpected, BuildsAreThere,
    PointerIsMemory, ProvenFirst, RequestsAreNew, LockIsHeld, Snapshot, Stages, Root, NoRequest,
    NoBuild, Unreadable, Build, Childless, OnCandidate, OnCurrent, Requested, Uncommitted, Untried
<1>2. ChildIsExpected'
  OBVIOUS
<1>3. BuildsAreThere'
  OBVIOUS
<1>4. PointerIsMemory'
  OBVIOUS
<1>5. ProvenFirst'
  OBVIOUS
<1>6. RequestsAreNew'
  OBVIOUS
<1>7. LockIsHeld'
  OBVIOUS
<1>8. Snapshot'
  OBVIOUS
<1> QED
  BY <1>1, <1>2, <1>3, <1>4, <1>5, <1>6, <1>7, <1>8

LEMMA PreparingInv ==
  ASSUME LauncherInv, ReadError \/ Prepare \/ PrepareFails \/ GoAhead
  PROVE  LauncherInv'
<1>1. LauncherTypeOK'
  <2> USE DEF LauncherTypeOK, Goto, Stages, files, flags, ghosts, halt, memory
  <2>1. CASE ReadError
    BY Numbers, <2>1 DEF LauncherInv, ReadError, NoRequest
  <2>2. CASE Prepare
    BY <2>2 DEF LauncherInv, Prepare
  <2>3. CASE PrepareFails
    BY <2>3 DEF LauncherInv, PrepareFails
  <2>4. CASE GoAhead
    BY <2>4 DEF LauncherInv, GoAhead
  <2> QED
    BY <2>1, <2>2, <2>3, <2>4
<1> USE DEF LauncherInv, ReadError, Prepare, PrepareFails, GoAhead, At, Goto, files, flags,
    ghosts, halt, memory
<1> USE Numbers, LauncherAssumption DEF LauncherTypeOK, ChildIsExpected, BuildsAreThere,
    PointerIsMemory, ProvenFirst, RequestsAreNew, LockIsHeld, Snapshot, Stages, Root, NoRequest,
    NoBuild, Unreadable, Build, Childless, OnCandidate, OnCurrent, Requested, Uncommitted, Untried
<1>2. ChildIsExpected'
  OBVIOUS
<1>3. BuildsAreThere'
  OBVIOUS
<1>4. PointerIsMemory'
  OBVIOUS
<1>5. ProvenFirst'
  OBVIOUS
<1>6. RequestsAreNew'
  <2>1. CASE ReadError
    BY <2>1
  <2>2. CASE Prepare
    BY <2>2
  <2>3. CASE PrepareFails
    BY <2>3
  <2>4. CASE GoAhead
    BY <2>4
  <2> QED
    BY <2>1, <2>2, <2>3, <2>4
<1>7. LockIsHeld'
  OBVIOUS
<1>8. Snapshot'
  OBVIOUS
<1> QED
  BY <1>1, <1>2, <1>3, <1>4, <1>5, <1>6, <1>7, <1>8

LEMMA HaltingInv ==
  ASSUME LauncherInv, Halt \/ Save \/ SaveFails \/ Try
  PROVE  LauncherInv'
<1>1. LauncherTypeOK'
  <2> USE DEF LauncherTypeOK, Goto, Stages, files, flags, ghosts, halt, memory
  <2>1. CASE Halt
    BY Numbers, <2>1 DEF LauncherInv, Halt, ChildIsStopped, ChildStops
  <2>2. CASE Save
    BY <2>2 DEF LauncherInv, Save
  <2>3. CASE SaveFails
    BY <2>3 DEF LauncherInv, SaveFails
  <2>4. CASE Try
    BY Numbers, <2>4 DEF LauncherInv, Try, ChildIs
  <2> QED
    BY <2>1, <2>2, <2>3, <2>4
<1> USE DEF LauncherInv, Halt, Save, SaveFails, Try, At, ChildIs, ChildIsStopped, ChildStops,
    Goto, files, flags, ghosts, halt, memory
<1> USE Numbers, LauncherAssumption DEF LauncherTypeOK, ChildIsExpected, BuildsAreThere,
    PointerIsMemory, ProvenFirst, RequestsAreNew, LockIsHeld, Snapshot, Stages, Root, NoRequest,
    NoBuild, Unreadable, Build, Childless, OnCandidate, OnCurrent, Requested, Uncommitted, Untried
<1>2. ChildIsExpected'
  OBVIOUS
<1>3. BuildsAreThere'
  OBVIOUS
<1>4. PointerIsMemory'
  OBVIOUS
<1>5. ProvenFirst'
  OBVIOUS
<1>6. RequestsAreNew'
  OBVIOUS
<1>7. LockIsHeld'
  OBVIOUS
<1>8. Snapshot'
  OBVIOUS
<1> QED
  BY <1>1, <1>2, <1>3, <1>4, <1>5, <1>6, <1>7, <1>8

LEMMA ProvingInv ==
  ASSUME LauncherInv, Proved \/ Unproved \/ CommitFails
  PROVE  LauncherInv'
<1>1. LauncherTypeOK'
  <2> USE DEF LauncherTypeOK, Goto, Stages, files, flags, ghosts, halt, memory
  <2>1. CASE Proved
    BY <2>1 DEF LauncherInv, Proved, Healthy
  <2>2. CASE Unproved
    BY <2>2 DEF LauncherInv, Unproved, Unhealthy
  <2>3. CASE CommitFails
    BY <2>3 DEF LauncherInv, CommitFails
  <2> QED
    BY <2>1, <2>2, <2>3
<1> USE DEF LauncherInv, Proved, Unproved, CommitFails, At, Goto, Healthy, Unhealthy, files,
    flags, ghosts, halt, memory
<1> USE Numbers, LauncherAssumption DEF LauncherTypeOK, ChildIsExpected, BuildsAreThere,
    PointerIsMemory, ProvenFirst, RequestsAreNew, LockIsHeld, Snapshot, Stages, Root, NoRequest,
    NoBuild, Unreadable, Build, Childless, OnCandidate, OnCurrent, Requested, Uncommitted, Untried
<1>2. ChildIsExpected'
  OBVIOUS
<1>3. BuildsAreThere'
  OBVIOUS
<1>4. PointerIsMemory'
  OBVIOUS
<1>5. ProvenFirst'
  OBVIOUS
<1>6. RequestsAreNew'
  OBVIOUS
<1>7. LockIsHeld'
  OBVIOUS
<1>8. Snapshot'
  OBVIOUS
<1> QED
  BY <1>1, <1>2, <1>3, <1>4, <1>5, <1>6, <1>7, <1>8

LEMMA RevertingInv ==
  ASSUME LauncherInv, Revert \/ Reproved \/ NotReproved \/ Restored
  PROVE  LauncherInv'
<1>1. LauncherTypeOK'
  <2> USE DEF LauncherTypeOK, Goto, Stages, files, flags, ghosts, halt, memory
  <2>1. CASE Revert
    BY Numbers, <2>1 DEF LauncherInv, Revert, ChildIs
  <2>2. CASE Reproved
    BY <2>2 DEF LauncherInv, Reproved, Healthy
  <2>3. CASE NotReproved
    BY Numbers, <2>3 DEF LauncherInv, NotReproved, Unhealthy, ChildIs
  <2>4. CASE Restored
    BY <2>4 DEF LauncherInv, Restored, Healthy, Unhealthy
  <2> QED
    BY <2>1, <2>2, <2>3, <2>4
<1> USE DEF LauncherInv, Revert, Reproved, NotReproved, Restored, At, ChildIs, Goto, Healthy,
    Unhealthy, files, flags, ghosts, halt, memory
<1> USE Numbers, LauncherAssumption DEF LauncherTypeOK, ChildIsExpected, BuildsAreThere,
    PointerIsMemory, ProvenFirst, RequestsAreNew, LockIsHeld, Snapshot, Stages, Root, NoRequest,
    NoBuild, Unreadable, Build, Childless, OnCandidate, OnCurrent, Requested, Uncommitted, Untried
<1>2. ChildIsExpected'
  OBVIOUS
<1>3. BuildsAreThere'
  OBVIOUS
<1>4. PointerIsMemory'
  OBVIOUS
<1>5. ProvenFirst'
  OBVIOUS
<1>6. RequestsAreNew'
  OBVIOUS
<1>7. LockIsHeld'
  OBVIOUS
<1>8. Snapshot'
  OBVIOUS
<1> QED
  BY <1>1, <1>2, <1>3, <1>4, <1>5, <1>6, <1>7, <1>8

LEMMA FinishingInv ==
  ASSUME LauncherInv, Report \/ Finish \/ Release
  PROVE  LauncherInv'
<1>1. LauncherTypeOK'
  <2> USE DEF LauncherTypeOK, Goto, Stages, files, flags, ghosts, halt, memory
  <2>1. CASE Report
    BY <2>1 DEF LauncherInv, Report
  <2>2. CASE Finish
    BY Numbers, <2>2 DEF LauncherInv, Finish, Dropped, NoRequest
  <2>3. CASE Release
    BY <2>3 DEF LauncherInv, Release
  <2> QED
    BY <2>1, <2>2, <2>3
<1> USE DEF LauncherInv, Report, Finish, Release, At, Dropped, Goto, flags, ghosts, halt, memory
<1> USE Numbers, LauncherAssumption DEF LauncherTypeOK, ChildIsExpected, BuildsAreThere,
    PointerIsMemory, ProvenFirst, RequestsAreNew, LockIsHeld, Snapshot, Stages, Root, NoRequest,
    NoBuild, Unreadable, Build, Childless, OnCandidate, OnCurrent, Requested, Uncommitted, Untried
<1>2. ChildIsExpected'
  OBVIOUS
<1>3. BuildsAreThere'
  OBVIOUS
<1>4. PointerIsMemory'
  OBVIOUS
<1>5. ProvenFirst'
  OBVIOUS
<1>6. RequestsAreNew'
  <2>1. CASE Report
    BY <2>1
  <2>2. CASE Finish
    BY <2>2
  <2>3. CASE Release
    BY <2>3
  <2> QED
    BY <2>1, <2>2, <2>3
<1>7. LockIsHeld'
  OBVIOUS
<1>8. Snapshot'
  OBVIOUS
<1> QED
  BY <1>1, <1>2, <1>3, <1>4, <1>5, <1>6, <1>7, <1>8

LEMMA PostingInv ==
  ASSUME LauncherInv, Reserve \/ Publish \/ CannotPublish \/ Serve
  PROVE  LauncherInv'
<1>1. LauncherTypeOK'
  <2> USE DEF LauncherTypeOK, files, flags, ghosts, halt, memory
  <2>1. CASE Reserve
    <3>1. posting' \in BOOLEAN /\ queueLock' \in BOOLEAN
      BY <2>1 DEF Reserve
    <3> QED
      BY <2>1, <3>1 DEF LauncherInv, Reserve
  <2>2. CASE Publish
    <3>1. posting' \in BOOLEAN /\ issued' \in Build /\ request' \in Build
      BY Numbers, <2>2 DEF Publish, LauncherInv
    <3> QED
      BY <2>2, <3>1 DEF LauncherInv, Publish
  <2>3. CASE CannotPublish
    <3>1. posting' \in BOOLEAN /\ queueLock' \in BOOLEAN
      BY <2>3 DEF CannotPublish
    <3> QED
      BY <2>3, <3>1 DEF LauncherInv, CannotPublish
  <2>4. CASE Serve
    BY <2>4 DEF LauncherInv, Serve
  <2> QED
    BY <2>1, <2>2, <2>3, <2>4
<1> USE DEF LauncherInv, Reserve, Publish, CannotPublish, Serve, MakesLock, files, flags,
    ghosts, halt, memory
<1> USE Numbers, LauncherAssumption DEF LauncherTypeOK, ChildIsExpected, BuildsAreThere,
    PointerIsMemory, ProvenFirst, RequestsAreNew, LockIsHeld, Snapshot, Stages, Root, NoRequest,
    NoBuild, Unreadable, Build, Childless, OnCandidate, OnCurrent, Requested, Uncommitted, Untried
<1>2. ChildIsExpected'
  OBVIOUS
<1>3. BuildsAreThere'
  OBVIOUS
<1>4. PointerIsMemory'
  OBVIOUS
<1>5. ProvenFirst'
  OBVIOUS
<1>6. RequestsAreNew'
  <2>1. CASE Reserve
    BY <2>1
  <2>2. CASE Publish
    BY <2>2
  <2>3. CASE CannotPublish
    BY <2>3
  <2>4. CASE Serve
    BY <2>4
  <2> QED
    BY <2>1, <2>2, <2>3, <2>4
<1>7. LockIsHeld'
  OBVIOUS
<1>8. Snapshot'
  OBVIOUS
<1> QED
  BY <1>1, <1>2, <1>3, <1>4, <1>5, <1>6, <1>7, <1>8

LEMMA StoppingInv ==
  ASSUME LauncherInv, ChildExits \/ Signal \/ Die \/ Spoil \/ Leave \/ Exit
  PROVE  LauncherInv'
<1>1. LauncherTypeOK'
  <2> USE DEF LauncherTypeOK, Goto, Stages, files, flags, ghosts, halt, memory
  <2>1. CASE ChildExits
    <3>1. posting' \in BOOLEAN /\ stopping' \in BOOLEAN /\ child' \in Build \union {NoBuild}
      BY <2>1 DEF ChildExits, ChildStops, LauncherInv
    <3> QED
      BY <2>1, <3>1 DEF LauncherInv, ChildExits
  <2>2. CASE Signal
    BY <2>2 DEF LauncherInv, Signal
  <2>3. CASE Die
    BY Numbers, <2>3 DEF LauncherInv, Die, ChildStops
  <2>4. CASE Spoil
    BY Numbers, <2>4 DEF LauncherInv, Spoil
  <2>5. CASE Leave
    BY <2>5 DEF LauncherInv, Leave
  <2>6. CASE Exit
    BY Numbers, <2>6 DEF LauncherInv, Exit, ChildStops
  <2> QED
    BY <2>1, <2>2, <2>3, <2>4, <2>5, <2>6
<1> USE DEF LauncherInv, ChildExits, Signal, Die, Spoil, Leave, Exit, At, ChildStops, Goto, files,
    flags, ghosts, halt, memory
<1> USE Numbers, LauncherAssumption DEF LauncherTypeOK, ChildIsExpected, BuildsAreThere,
    PointerIsMemory, ProvenFirst, RequestsAreNew, LockIsHeld, Snapshot, Stages, Root, NoRequest,
    NoBuild, Unreadable, Build, Childless, OnCandidate, OnCurrent, Requested, Uncommitted, Untried
<1>2. ChildIsExpected'
  OBVIOUS
<1>3. BuildsAreThere'
  OBVIOUS
<1>4. PointerIsMemory'
  OBVIOUS
<1>5. ProvenFirst'
  OBVIOUS
<1>6. RequestsAreNew'
  OBVIOUS
<1>7. LockIsHeld'
  OBVIOUS
<1>8. Snapshot'
  OBVIOUS
<1> QED
  BY <1>1, <1>2, <1>3, <1>4, <1>5, <1>6, <1>7, <1>8

LEMMA TakeInv == ASSUME LauncherInv, Take PROVE LauncherInv'
<1> USE DEF LauncherInv, Take, At, Goto, Retained, flags, halt
<1>1. LauncherTypeOK'
  BY Numbers DEF LauncherTypeOK, LockIsHeld, Stages, Root, NoRequest
<1> USE Numbers, LauncherAssumption DEF LauncherTypeOK, ChildIsExpected, BuildsAreThere,
    PointerIsMemory, ProvenFirst, RequestsAreNew, LockIsHeld, Snapshot, Stages, Root, NoRequest,
    NoBuild, Unreadable, Build, Childless, OnCandidate, OnCurrent, Requested, Uncommitted, Untried
<1>2. ChildIsExpected' /\ PointerIsMemory' /\ ProvenFirst'
  OBVIOUS
<1>3. BuildsAreThere'
  OBVIOUS
<1>4. RequestsAreNew'
  <2>1. request \notin started \union {Root} /\ request \in 1 .. issued
    OBVIOUS
  <2> QED
    BY <2>1
<1>5. LockIsHeld' /\ Snapshot'
  OBVIOUS
<1> QED
  BY <1>1, <1>2, <1>3, <1>4, <1>5

LEMMA CommitInv == ASSUME LauncherInv, Commit PROVE LauncherInv'
<1> USE DEF LauncherInv, Commit, At, Goto, flags, halt, ghosts
<1>1. LauncherTypeOK'
  BY Numbers DEF LauncherTypeOK, LockIsHeld, Stages, Root, NoRequest
<1> USE Numbers, LauncherAssumption DEF LauncherTypeOK, ChildIsExpected, BuildsAreThere,
    PointerIsMemory, ProvenFirst, RequestsAreNew, LockIsHeld, Snapshot, Stages, Root, NoRequest,
    NoBuild, Unreadable, Build, Childless, OnCandidate, OnCurrent, Requested, Uncommitted, Untried
<1>2. ChildIsExpected' /\ PointerIsMemory' /\ ProvenFirst'
  OBVIOUS
<1>3. BuildsAreThere'
  OBVIOUS
<1>4. RequestsAreNew'
  OBVIOUS
<1>5. LockIsHeld' /\ Snapshot'
  OBVIOUS
<1> QED
  BY <1>1, <1>2, <1>3, <1>4, <1>5

(* Together: every step of the launcher, its server and whatever stops it. *)
LEMMA LauncherStep == LauncherInv /\ [LauncherNext]_launcherVars => LauncherInv'
<1> SUFFICES ASSUME LauncherInv, [LauncherNext]_launcherVars PROVE LauncherInv'
  OBVIOUS
<1>1. CASE UNCHANGED launcherVars
  BY <1>1 DEF launcherVars, memory, flags, halt, files, ghosts, LauncherInv, LauncherTypeOK,
    ChildIsExpected, BuildsAreThere, PointerIsMemory, ProvenFirst, RequestsAreNew, LockIsHeld, Snapshot
<1>2. CASE Startup
  BY <1>2, LoadingInv, LaunchingInv, FallingInv DEF Startup
<1>3. CASE Update
  BY <1>3, TakeInv, PreparingInv, HaltingInv, ProvingInv, CommitInv, RevertingInv, FinishingInv
  DEF Update, Activation
<1>4. CASE Cleanup \/ Server \/ ChildExits \/ Signal \/ Die \/ Spoil
  BY <1>4, FinishingInv, PostingInv, StoppingInv DEF Cleanup, Server
<1> QED
  BY <1>1, <1>2, <1>3, <1>4 DEF LauncherNext, Launcher

LEMMA LauncherInitInv == LauncherInit => LauncherInv
<1> SUFFICES ASSUME LauncherInit PROVE LauncherInv
  OBVIOUS
<1> USE Numbers, LauncherAssumption DEF LauncherInit, Root, NoRequest
<1>1. LauncherTypeOK
  BY DEF LauncherTypeOK, Stages
<1> QED
  BY <1>1 DEF LauncherInv, ChildIsExpected, BuildsAreThere, PointerIsMemory, ProvenFirst,
    RequestsAreNew, LockIsHeld, Snapshot, Childless, OnCandidate, OnCurrent, Requested, Uncommitted, Untried
-----------------------------------------------------------------------------
(* The preparation: what was cloned is genuine once its tag is verified,   *)
(* what was downloaded was released, and what is built is both.            *)
Downloaded == {"checksum", "signature", "fetched", "building"}

(* For the launcher, each step of a release is one of its own, or none.    *)
LEMMA ReleaseIsLauncher == ReleaseNext => [LauncherNext]_launcherVars
  BY DEF ReleaseNext, LauncherSteps, Begin, Preparation, Clone, VerifyTag, VerifyFiles, To, Download,
    DownloadAgain, Built, Abandoned, GoesOn, Around, Tag, Upload, LauncherNext, Launcher, Update

\* All of the invariant but what the launcher does.
StagedInv ==
  /\ assets \in [Files -> Nat] /\ fetched \in [Files -> Nat] /\ source \in [Build -> Nat]
  /\ assets["archive"] \in released \union {Missing}
  /\ step \in {"archive"} \union Downloaded => tree \in Genuine
  /\ step \in Downloaded => fetched["archive"] \in released
  /\ step = "building" => fetched["archive"] = tree
  /\ tag \in Nat /\ tree \in Nat

LEMMA PlaceInv ==
  ASSUME StagedInv, (\E e \in Editions : Tag(e)) \/ (\E f \in Files : Upload(f))
  PROVE  StagedInv' /\ released \subseteq released'
<1>1. ASSUME NEW e \in Editions, Tag(e) PROVE StagedInv' /\ released' = released
  BY <1>1, ReleaseAssumption DEF Tag, StagedInv, staging
<1>2. ASSUME NEW f \in Files, Upload(f) PROVE StagedInv' /\ released \subseteq released'
  <2>1. assets' \in [Files -> Nat] /\ released \subseteq released'
    BY <1>2 DEF Upload, StagedInv
  <2>2. assets'["archive"] \in released' \union {Missing}
    BY <1>2 DEF Upload, StagedInv, Files
  <2> QED
    BY <1>2, <2>1, <2>2 DEF Upload, StagedInv, staging
<1> QED
  BY <1>1, <1>2

LEMMA PreparationInv == ASSUME StagedInv, Preparation PROVE StagedInv'
<1>1. CASE Clone
  BY <1>1 DEF Clone, From, To, StagedInv, place, Downloaded
<1>2. CASE VerifyTag
  BY <1>2 DEF VerifyTag, VerifySigner, From, To, StagedInv, place, Downloaded
<1>3. CASE VerifyFiles
  BY <1>3 DEF VerifyFiles, TreeIsPublished, From, To, StagedInv, place, Downloaded
<1>4. ASSUME NEW f \in Files, DownloadAgain(f) PROVE StagedInv'
  BY <1>4 DEF DownloadAgain, StagedInv, place
<1>5. ASSUME NEW f \in Files, Download(f) PROVE StagedInv'
  <2>1. step = f /\ step' = After[f] /\ UNCHANGED <<place, source, tree>>
    BY <1>5 DEF Download, From, To
  <2>2. fetched' \in [Files -> Nat]
    BY <1>5 DEF Download, StagedInv
  <2>3. tree \in Genuine /\ step' \in {"checksum", "signature", "fetched"}
    BY <2>1 DEF StagedInv, Downloaded, Files, After
  <2>4. fetched'["archive"] \in released
    <3>1. CASE f = "archive"
      BY <1>5, <3>1 DEF Download, StagedInv, Files
    <3>2. CASE f # "archive"
      BY <1>5, <2>1, <3>2 DEF Download, StagedInv, Downloaded, Files
    <3> QED
      BY <3>1, <3>2
  <2> QED
    BY <2>1, <2>2, <2>3, <2>4 DEF StagedInv, place
<1> QED
  BY <1>1, <1>2, <1>3, <1>4, <1>5 DEF Preparation

ReleaseInv == LauncherInv /\ StagedInv /\ BuiltIsReleased

(* Once nothing is staged, nothing is to be said of it.                    *)
LEMMA UnstagedInv == ASSUME StagedInv, Unstaged, UNCHANGED place, source' \in [Build -> Nat] PROVE StagedInv'
  BY DEF StagedInv, Unstaged, place, NoFiles, Missing, Downloaded, Files

(* Only a preparation adds a build.                                        *)
LEMMA BuildsStep ==
  ASSUME \/ Startup \/ Take \/ ReadError \/ PrepareFails \/ GoAhead \/ Activation \/ Cleanup
         \/ Server \/ ChildExits \/ Signal \/ Die \/ Spoil \/ UNCHANGED launcherVars
  PROVE  builds' \subseteq builds
<1> USE DEF files, ghosts
<1>1. CASE Startup
  BY <1>1 DEF Startup, Load, DropRequest, CannotLoad, NoteInterrupted, Unlock, LaunchSelected, StartupHealthy,
    StartupUnhealthy, LaunchPrevious, PreviousHealthy, PreviousUnhealthy, Repoint, NoteRolledBack
<1>2. CASE Take \/ ReadError \/ PrepareFails \/ GoAhead \/ Activation
  BY <1>2 DEF Take, ReadError, PrepareFails, GoAhead, Activation, Halt, Save, SaveFails, Try,
    Proved, Unproved, Commit, CommitFails, Revert, Reproved, NotReproved, Restored, Report
<1>3. CASE Cleanup \/ Server \/ ChildExits \/ Signal \/ Die \/ Spoil
  BY <1>3 DEF Cleanup, Finish, Release, Leave, Exit, Server, Reserve, Publish, CannotPublish, Serve,
    ChildExits, Signal, Die, Spoil
<1> QED
  BY <1>1, <1>2, <1>3 DEF launcherVars

LEMMA BuiltInv == ASSUME ReleaseInv, Built PROVE StagedInv' /\ BuiltIsReleased'
<1>1. /\ builds' = builds \union {candidate} /\ step = "building" /\ candidate \in Build
      /\ source' = [source EXCEPT ![candidate] = tree] /\ released' = released
      /\ builds \subseteq Build
  BY DEF Built, Prepare, place, ReleaseInv, LauncherInv, LauncherTypeOK
<1>2. tree \in Genuine \intersect released /\ tree \in Nat
  BY <1>1 DEF ReleaseInv, StagedInv, Downloaded
<1>3. source' \in [Build -> Nat] /\ \A b \in Build : source'[b] = IF b = candidate THEN tree ELSE source[b]
  BY <1>1, <1>2 DEF ReleaseInv, StagedInv
<1>4. BuiltIsReleased'
  BY <1>1, <1>2, <1>3 DEF BuiltIsReleased, ReleaseInv
<1> QED
  BY <1>3, <1>4, UnstagedInv DEF Built, ReleaseInv

LEMMA ReleaseStep == ReleaseInv /\ [ReleaseNext]_releaseVars => ReleaseInv'
<1> SUFFICES ASSUME ReleaseInv, [ReleaseNext]_releaseVars PROVE ReleaseInv'
  OBVIOUS
<1>1. LauncherInv'
  BY ReleaseIsLauncher, LauncherStep DEF ReleaseInv, releaseVars
<1>2. ASSUME UNCHANGED source, builds' \subseteq builds, released \subseteq released'
      PROVE  BuiltIsReleased'
  BY <1>2 DEF BuiltIsReleased, ReleaseInv
<1>3. CASE Built
  BY <1>1, <1>3, BuiltInv DEF ReleaseInv
<1>4. CASE Begin
  <2>1. StagedInv' /\ released' = released /\ UNCHANGED source
    BY <1>4 DEF Begin, place, StagedInv, ReleaseInv, Downloaded
  <2> QED
    BY <1>1, <1>2, <1>4, <2>1, BuildsStep DEF ReleaseInv, Begin
<1>5. CASE Preparation
  <2>1. UNCHANGED <<launcherVars, place, source>>
    BY <1>5 DEF Preparation, Clone, VerifyTag, VerifyFiles, Download, DownloadAgain, To
  <2>2. BuiltIsReleased'
    BY <2>1 DEF BuiltIsReleased, ReleaseInv, launcherVars, files, place
  <2> QED
    BY <1>1, <1>5, <2>2, PreparationInv DEF ReleaseInv
<1>6. CASE Abandoned
  <2>1. UNCHANGED <<place, source>> /\ Unstaged /\ builds' \subseteq builds
    BY <1>6, BuildsStep DEF Abandoned
  <2> QED
    BY <1>1, <1>2, <2>1, UnstagedInv DEF ReleaseInv, StagedInv, place
<1>7. CASE (\E e \in Editions : Tag(e)) \/ (\E f \in Files : Upload(f))
  <2>1. UNCHANGED <<launcherVars, source>>
    BY <1>7 DEF Tag, Upload
  <2> QED
    BY <1>1, <1>2, <1>7, <2>1, BuildsStep, PlaceInv DEF ReleaseInv
<1>8. CASE GoesOn \/ Around \/ UNCHANGED releaseVars
  <2>1. UNCHANGED <<place, staging, source>> /\ builds' \subseteq builds
    BY <1>8, BuildsStep DEF GoesOn, Around, releaseVars
  <2>2. StagedInv'
    BY <2>1 DEF place, staging, StagedInv, ReleaseInv
  <2> QED
    BY <1>1, <1>2, <2>1, <2>2 DEF ReleaseInv, place
<1> QED
  BY <1>3, <1>4, <1>5, <1>6, <1>7, <1>8 DEF ReleaseNext, LauncherSteps

LEMMA ReleaseInvariant == ReleaseSpec => []ReleaseInv
<1>1. ReleaseInit => ReleaseInv
  BY LauncherInitInv DEF ReleaseInit, LauncherInit, ReleaseInv, StagedInv, BuiltIsReleased, NoFiles, Missing,
    Downloaded, Files
<1>2. ReleaseInv /\ [ReleaseNext]_releaseVars => ReleaseInv'
  BY ReleaseStep
<1> QED
  BY <1>1, <1>2, PTL DEF ReleaseSpec
-----------------------------------------------------------------------------
(* The selected build has passed its health check and is there, with the   *)
(* one to fall back to, whatever stops, dies or is interrupted, for any    *)
(* number of updates (update-switch.mjs:2, start-standalone.mjs:123-130).  *)
THEOREM SelectionIsSound == ReleaseSpec => []SelectedBuildIsProven
<1>1. ReleaseInv => SelectedBuildIsProven
  BY DEF ReleaseInv, LauncherInv, SelectedBuildIsProven, ProvenFirst, BuildsAreThere, PointerIsMemory,
    ChildIsExpected, OnCurrent, At
<1> QED
  BY <1>1, ReleaseInvariant, PTL

(* No candidate touches the vaults before all the old build did is saved   *)
(* (update-switch.mjs:7).                                                  *)
THEOREM BackupIsWhole == ReleaseSpec => []SnapshotIsComplete
<1>1. ReleaseInv => SnapshotIsComplete
  BY DEF ReleaseInv, LauncherInv, SnapshotIsComplete, Snapshot, At
<1> QED
  BY <1>1, ReleaseInvariant, PTL

(* Every build was made of a genuine and released tree, however often a    *)
(* release is published again under its version (verified-update.mjs:147). *)
THEOREM OnlyReleasesAreBuilt == ReleaseSpec => []BuiltIsReleased
<1>1. ReleaseInv => BuiltIsReleased
  BY DEF ReleaseInv
<1> QED
  BY <1>1, ReleaseInvariant, PTL

(* A request appears only where a POST was under way.                      *)
LEMMA RequestSteps ==
  ASSUME [LauncherNext]_launcherVars
  PROVE  /\ request' \in {request, NoRequest, Unreadable} \/ posting
         /\ At("waiting") /\ pc' = "preparing" => request # NoRequest
<1> USE DEF files, ghosts, Goto, At, Dropped
<1>1. CASE Startup
  BY <1>1 DEF Startup, Load, DropRequest, CannotLoad, NoteInterrupted, Unlock, LaunchSelected, StartupHealthy,
    StartupUnhealthy, LaunchPrevious, PreviousHealthy, PreviousUnhealthy, Repoint, NoteRolledBack
<1>2. CASE Update
  BY <1>2 DEF Update, Take, ReadError, Prepare, PrepareFails, GoAhead, Activation, Halt, Save, SaveFails,
    Try, Proved, Unproved, Commit, CommitFails, Revert, Reproved, NotReproved, Restored, Report
<1>3. CASE Cleanup
  BY <1>3 DEF Cleanup, Finish, Release, Leave, Exit
<1>4. CASE Server \/ ChildExits \/ Signal \/ Die \/ Spoil \/ UNCHANGED launcherVars
  BY <1>4 DEF Server, Reserve, Publish, CannotPublish, Serve, ChildExits, Signal, Die, Spoil, launcherVars
<1> QED
  BY <1>1, <1>2, <1>3, <1>4 DEF LauncherNext, Launcher

(* No request is taken twice, and none is replaced before its end          *)
(* (start-standalone.mjs:95, app/api/local-update/route.ts).               *)
THEOREM NoRequestTwice == ReleaseSpec => TakenOnce
<1> DEFINE Once == /\ (At("waiting") /\ pc' = "preparing") => request \notin started
                   /\ request # NoRequest => request' \in {request, NoRequest, Unreadable}
<1>1. LauncherInv /\ [LauncherNext]_launcherVars => Once
  <2> SUFFICES ASSUME LauncherInv, [LauncherNext]_launcherVars PROVE Once
    OBVIOUS
  <2>1. At("waiting") /\ request # NoRequest => request \notin started
    BY DEF LauncherInv, RequestsAreNew, Requested, Uncommitted, Untried, At
  <2>2. posting => request = NoRequest
    BY DEF LauncherInv, LockIsHeld
  <2> QED
    BY <2>1, <2>2, RequestSteps
<1>2. ReleaseInv /\ [ReleaseNext]_releaseVars => [Once]_launcherVars
  BY <1>1, ReleaseIsLauncher DEF ReleaseInv, releaseVars
<1> QED
  BY <1>2, ReleaseInvariant, PTL DEF ReleaseSpec, TakenOnce
=============================================================================
