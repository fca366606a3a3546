--------------------------- MODULE UpdateLauncher ---------------------------
(***************************************************************************)
(* The native launcher and its update queue: scripts/start-standalone.mjs, *)
(* scripts/update-switch.mjs and POST of app/api/local-update/route.ts.    *)
(*                                                                         *)
(* The launcher runs the server as a child process.  The server queues a   *)
(* request behind a directory lock; the launcher takes it, prepares a      *)
(* candidate build, stops the server, backs the vaults up, tries the       *)
(* candidate and either selects it in current.json or goes back.  A signal *)
(* may ask it to stop, the child may exit at any moment, and the launcher  *)
(* may die between any two awaits: only the files survive, and the service *)
(* manager starts it again.  A build is named by the request it was        *)
(* prepared for; Root is the installed one.  Preparing is one step here,   *)
(* that may fail; VerifiedRelease has its steps.                           *)
(***************************************************************************)
EXTENDS Naturals, FiniteSets

CONSTANTS
  MaxRequests,  \* bound: update requests accepted
  Spoils        \* request.json may become unreadable

ASSUME LauncherAssumption == MaxRequests \in Nat /\ Spoils \in BOOLEAN

Root == 0
Build == 0 .. MaxRequests
NoBuild == MaxRequests + 1
NoRequest == 0
Unreadable == MaxRequests + 1   \* a request.json that cannot be read or parsed

VARIABLES
  pc,         \* where the launcher is; "down" when it does not run
  current, previous, candidate,   \* its builds (memory)
  switching, stopping,            \* its flags (memory)
  cancelled,  \* a signal has aborted what it prepares (memory)
  child,      \* the build its child process runs, or NoBuild
  outcome,    \* the phase it is about to report
  builds,     \* builds on disk
  pointer,    \* current.json
  request,    \* request.json
  queueLock,  \* queue.lock exists
  status,     \* phase of status.json, "working" for those in progress
  posting,    \* the server is between mkdir queue.lock and request.json
  issued,     \* requests accepted so far
  started,    \* requests the launcher has ever taken
  proven,     \* builds that passed a health check at least once
  unsaved     \* the vaults changed since the last backup

memory == <<current, previous, candidate, outcome>>
halt == <<stopping, cancelled>>
flags == <<switching, halt>>
files == <<builds, pointer, request, queueLock, status>>
ghosts == <<issued, started, proven, unsaved>>
launcherVars == <<pc, memory, flags, child, files, posting, ghosts>>

Stages == {"down", "loading", "noting", "unlocking", "launching", "checking",
           "falling", "rechecking", "repointing", "renoting", "waiting",
           "preparing", "prepared", "halting", "saving", "trying", "proving", "committing",
           "reverting", "reproving", "restoring", "reporting", "finishing",
           "releasing", "exiting"}

LauncherInit ==
  /\ pc = "down"
  /\ current = Root /\ previous = Root /\ candidate = Root
  /\ switching = FALSE /\ stopping = FALSE /\ cancelled = FALSE
  /\ child = NoBuild
  /\ outcome = "none"
  /\ builds = {Root} /\ pointer = [path |-> Root, previous |-> Root]
  /\ request = NoRequest /\ queueLock = FALSE /\ status = "none"
  /\ posting = FALSE
  /\ issued = 0 /\ started = {} /\ proven = {Root} /\ unsaved = FALSE

Goto(stage) == pc' = stage
At(stage) == pc = stage

\* stop(child): it is over only when the child has exited.
ChildStops == child' = NoBuild /\ posting' = FALSE
ChildIs(b) == child' = b /\ posting' = FALSE
-----------------------------------------------------------------------------
(* Startup: the saved selection, if its builds are still there.            *)
SafeBuild(b) == IF b \in builds THEN b ELSE Root
Load ==
  /\ At("down")
  /\ current' = SafeBuild(pointer.path)
  /\ previous' = IF pointer.path \in builds THEN SafeBuild(pointer.previous) ELSE Root
  /\ candidate' = Root /\ outcome' = "none"
  /\ switching' = FALSE /\ stopping' = FALSE /\ cancelled' = FALSE
  /\ Goto("loading")
  /\ UNCHANGED <<child, files, posting, ghosts>>

(* An interrupted request is dropped, and then noted.  It is read before   *)
(* it is removed: what cannot be read stays, and ends the launcher before  *)
(* it has started anything (as an error that passes does, see Die).        *)
Retried == request
Dropped == NoRequest
DropRequest ==
  /\ At("loading") /\ request # Unreadable
  /\ request' = Dropped
  /\ Goto(IF request = NoRequest THEN "unlocking" ELSE "noting")
  /\ UNCHANGED <<memory, flags, child, builds, pointer, queueLock, status, posting, ghosts>>

CannotLoad ==
  /\ At("loading") /\ request = Unreadable
  /\ Goto("down")
  /\ UNCHANGED <<memory, flags, child, files, posting, ghosts>>

NoteInterrupted ==
  /\ At("noting")
  /\ status' = "interrupted"
  /\ Goto("unlocking")
  /\ UNCHANGED <<memory, flags, child, builds, pointer, request, queueLock, posting, ghosts>>

Unlock ==
  /\ At("unlocking")
  /\ queueLock' = FALSE
  /\ switching' = TRUE
  /\ Goto("launching")
  /\ UNCHANGED <<memory, halt, child, builds, pointer, request, status, posting, ghosts>>

LaunchSelected ==
  /\ At("launching")
  /\ ChildIs(current)
  /\ Goto("checking")
  /\ UNCHANGED <<memory, flags, files, ghosts>>

(* healthy(): a stopping launcher or a dead child is never healthy.        *)
Unhealthy == UNCHANGED proven
Healthy ==
  /\ ~stopping /\ child # NoBuild
  /\ proven' = proven \union {child}

StartupHealthy ==
  /\ At("checking")
  /\ Healthy
  /\ switching' = FALSE
  /\ Goto("waiting")
  /\ UNCHANGED <<memory, halt, child, files, posting, issued, started, unsaved>>

StartupUnhealthy ==
  /\ At("checking")
  /\ Unhealthy
  /\ ChildStops
  /\ Goto(IF previous = current \/ stopping THEN "exiting" ELSE "falling")
  /\ UNCHANGED <<memory, flags, files, issued, started, unsaved>>

LaunchPrevious ==
  /\ At("falling")
  /\ ChildIs(previous)
  /\ Goto("rechecking")
  /\ UNCHANGED <<memory, flags, files, ghosts>>

PreviousHealthy ==
  /\ At("rechecking")
  /\ Healthy
  /\ current' = previous
  /\ Goto("repointing")
  /\ UNCHANGED <<previous, candidate, outcome, flags, child, files, posting, issued, started, unsaved>>

PreviousUnhealthy ==
  /\ At("rechecking")
  /\ Unhealthy
  /\ Goto("exiting")
  /\ UNCHANGED <<memory, flags, child, files, posting, issued, started, unsaved>>

\* The pointer then names no previous build, which reads as Root.
Repointed == [path |-> current, previous |-> Root]
Repoint ==
  /\ At("repointing")
  /\ pointer' = Repointed
  /\ Goto("renoting")
  /\ UNCHANGED <<memory, flags, child, builds, request, queueLock, status, posting, ghosts>>

NoteRolledBack ==
  /\ At("renoting")
  /\ status' = "rolled_back"
  /\ switching' = FALSE
  /\ Goto("waiting")
  /\ UNCHANGED <<memory, halt, child, builds, pointer, request, queueLock, posting, ghosts>>
-----------------------------------------------------------------------------
(* A waiting launcher takes a request, even if it is asked to stop while   *)
(* it sleeps.  Builds that are neither current nor previous go first.      *)
ReplacedOnly == {previous}
Retained == {current, previous}
Take ==
  /\ At("waiting")
  /\ request \notin {NoRequest, Unreadable}
  /\ builds' = builds \intersect (Retained \union {Root})
  /\ candidate' = request
  /\ started' = started \union {request}
  /\ status' = "working"
  /\ Goto("preparing")
  /\ UNCHANGED <<current, previous, outcome, flags, child, pointer, request, queueLock,
                 posting, issued, proven, unsaved>>

(* request.json cannot be read, for once or for good: it is removed, its   *)
(* lock is not.                                                            *)
ReadError ==
  /\ At("waiting")
  /\ request # NoRequest
  /\ request' = NoRequest
  /\ status' = "failed"
  /\ UNCHANGED <<pc, memory, flags, child, builds, pointer, queueLock, posting, ghosts>>

(* Each command of the preparation fails once a signal has aborted it; the *)
(* exit of the server aborts nothing and is looked at when all is built.   *)
Prepare ==
  /\ At("preparing") /\ ~cancelled
  /\ builds' = builds \union {candidate}
  /\ Goto("prepared")
  /\ UNCHANGED <<memory, flags, child, pointer, request, queueLock, status, posting, ghosts>>

PrepareFails ==
  /\ At("preparing") \/ (At("prepared") /\ ~stopping)
  /\ outcome' = "failed"
  /\ Goto("reporting")
  /\ UNCHANGED <<current, previous, candidate, flags, child, files, posting, ghosts>>

GoAhead ==
  /\ At("prepared")
  /\ switching' = ~stopping
  /\ Goto(IF stopping THEN "finishing" ELSE "halting")
  /\ UNCHANGED <<memory, halt, child, files, posting, ghosts>>

(* activateCandidate(): stop, back up, start, check, commit, or go back.   *)
ChildGoesOn == UNCHANGED <<child, posting>>
ChildIsStopped == ChildStops
Halt ==
  /\ At("halting")
  /\ ChildIsStopped
  /\ Goto("saving")
  /\ UNCHANGED <<memory, flags, files, ghosts>>

Save ==
  /\ At("saving")
  /\ unsaved' = FALSE
  /\ Goto("trying")
  /\ UNCHANGED <<memory, flags, child, files, posting, issued, started, proven>>

SaveFails ==
  /\ At("saving")
  /\ Goto("reverting")
  /\ UNCHANGED <<memory, flags, child, files, posting, ghosts>>

Try ==
  /\ At("trying")
  /\ ChildIs(candidate)
  /\ Goto("proving")
  /\ UNCHANGED <<memory, flags, files, ghosts>>

Proved ==
  /\ At("proving")
  /\ Healthy
  /\ Goto("committing")
  /\ UNCHANGED <<memory, flags, child, files, posting, issued, started, unsaved>>

Unproved ==
  /\ At("proving")
  /\ Unhealthy
  /\ Goto("reverting")
  /\ UNCHANGED <<memory, flags, child, files, posting, issued, started, unsaved>>

Commit ==
  /\ At("committing")
  /\ pointer' = [path |-> candidate, previous |-> current]
  /\ previous' = current /\ current' = candidate
  /\ outcome' = "complete"
  /\ Goto("reporting")
  /\ UNCHANGED <<candidate, flags, child, builds, request, queueLock, status, posting, ghosts>>

CommitFails ==
  /\ At("committing")
  /\ Goto("reverting")
  /\ UNCHANGED <<memory, flags, child, files, posting, ghosts>>

Revert ==
  /\ At("reverting")
  /\ ChildIs(current)
  /\ Goto("reproving")
  /\ UNCHANGED <<memory, flags, files, ghosts>>

Reproved ==
  /\ At("reproving")
  /\ Healthy
  /\ outcome' = "rolled_back"
  /\ Goto("reporting")
  /\ UNCHANGED <<current, previous, candidate, flags, child, files, posting, issued, started, unsaved>>

(* The old build is not healthy either: the loop's catch starts it again,  *)
(* unless it has been asked to stop.                                       *)
NotReproved ==
  /\ At("reproving")
  /\ Unhealthy
  /\ IF stopping
     THEN outcome' = "failed" /\ Goto("reporting") /\ UNCHANGED <<child, posting>>
     ELSE ChildIs(current) /\ Goto("restoring") /\ UNCHANGED outcome
  /\ UNCHANGED <<current, previous, candidate, flags, files, issued, started, unsaved>>

Restored ==
  /\ At("restoring")
  /\ \/ Healthy /\ outcome' = "rolled_back"
     \/ Unhealthy /\ outcome' = "failed"
  /\ Goto("reporting")
  /\ UNCHANGED <<current, previous, candidate, flags, child, files, posting, issued, started, unsaved>>

Report ==
  /\ At("reporting")
  /\ status' = outcome
  /\ switching' = FALSE
  /\ Goto("finishing")
  /\ UNCHANGED <<memory, halt, child, builds, pointer, request, queueLock, posting, ghosts>>

(* The finally block: the request goes before its lock.                    *)
Finish ==
  /\ At("finishing")
  /\ request' = Dropped
  /\ Goto("releasing")
  /\ UNCHANGED <<memory, flags, child, builds, pointer, queueLock, status, posting, ghosts>>

Release ==
  /\ At("releasing")
  /\ queueLock' = FALSE
  /\ Goto("waiting")
  /\ UNCHANGED <<memory, flags, child, builds, pointer, request, status, posting, ghosts>>

Leave ==
  /\ At("waiting") /\ stopping
  /\ Goto("exiting")
  /\ UNCHANGED <<memory, flags, child, files, posting, ghosts>>

Exit ==
  /\ At("exiting")
  /\ ChildStops
  /\ Goto("down")
  /\ UNCHANGED <<memory, flags, files, ghosts>>
-----------------------------------------------------------------------------
(* The server: a POST makes the lock, then publishes its request.          *)
MakesLock == ~queueLock
Reserve ==
  /\ child # NoBuild /\ ~posting /\ MakesLock
  /\ issued < MaxRequests
  /\ posting' = TRUE /\ queueLock' = TRUE
  /\ UNCHANGED <<pc, memory, flags, child, builds, pointer, request, status, ghosts>>

Publish ==
  /\ posting
  /\ posting' = FALSE
  /\ issued' = issued + 1 /\ request' = issued'
  /\ UNCHANGED <<pc, memory, flags, child, builds, pointer, queueLock, status, started, proven, unsaved>>

CannotPublish ==
  /\ posting
  /\ posting' = FALSE /\ queueLock' = FALSE
  /\ UNCHANGED <<pc, memory, flags, child, builds, pointer, request, status, ghosts>>

\* The selected build works on the vaults.
Serve ==
  /\ child = current
  /\ unsaved' = TRUE
  /\ UNCHANGED <<pc, memory, flags, child, files, posting, issued, started, proven>>

(* The child exits by itself: the launcher hears of it unless it switches. *)
ChildExits ==
  /\ child # NoBuild
  /\ ChildStops
  /\ stopping' = (stopping \/ ~switching)
  /\ UNCHANGED <<pc, memory, switching, cancelled, files, ghosts>>

Signal ==
  /\ pc \notin {"down", "loading", "noting", "unlocking"}
  /\ stopping' = TRUE /\ cancelled' = TRUE
  /\ UNCHANGED <<pc, memory, switching, child, files, posting, ghosts>>

(* The launcher dies, and the service manager kills what it had started.   *)
Die ==
  /\ ~At("down")
  /\ Goto("down")
  /\ ChildStops
  /\ UNCHANGED <<memory, flags, files, ghosts>>

(* While no launcher runs: request.json was renamed but its contents never *)
(* flushed before the power failed (route.ts:100-101 does not wait for     *)
(* that), or it is damaged.  For a launcher that waits see ReadError; one  *)
(* that works on an update has read it.                                    *)
Spoil ==
  /\ At("down") /\ Spoils /\ request \notin {NoRequest, Unreadable}
  /\ request' = Unreadable
  /\ UNCHANGED <<pc, memory, flags, child, builds, pointer, queueLock, status, posting, ghosts>>

Startup ==
  \/ Load \/ DropRequest \/ CannotLoad \/ NoteInterrupted \/ Unlock \/ LaunchSelected
  \/ StartupHealthy \/ StartupUnhealthy \/ LaunchPrevious
  \/ PreviousHealthy \/ PreviousUnhealthy \/ Repoint \/ NoteRolledBack
Activation ==
  \/ Halt \/ Save \/ SaveFails \/ Try \/ Proved \/ Unproved \/ Commit \/ CommitFails
  \/ Revert \/ Reproved \/ NotReproved \/ Restored \/ Report
Update == Take \/ ReadError \/ Prepare \/ PrepareFails \/ GoAhead \/ Activation
Cleanup == Finish \/ Release \/ Leave \/ Exit
Launcher == Startup \/ Update \/ Cleanup
Server == Reserve \/ Publish \/ CannotPublish \/ Serve

LauncherNext == Launcher \/ Server \/ ChildExits \/ Signal \/ Die \/ Spoil

LauncherSpec == LauncherInit /\ [][LauncherNext]_launcherVars

(* The launcher keeps going and is started again (INSTALLATION.md:198, a   *)
(* unit that restarts); a POST in progress comes to its end; and it does   *)
(* not die every time before it has looked for an interrupted request, if  *)
(* that can be read.                                                       *)
FairLauncherSpec ==
  /\ LauncherSpec
  /\ WF_launcherVars(Launcher) /\ WF_launcherVars(Publish \/ CannotPublish)
  /\ SF_launcherVars(DropRequest)
-----------------------------------------------------------------------------
LauncherTypeOK ==
  /\ pc \in Stages
  /\ current \in Build /\ previous \in Build /\ candidate \in Build
  /\ outcome \in {"none", "complete", "rolled_back", "failed"}
  /\ switching \in BOOLEAN /\ stopping \in BOOLEAN /\ cancelled \in BOOLEAN
  /\ child \in Build \union {NoBuild}
  /\ builds \subseteq Build
  /\ pointer \in [path : Build, previous : Build]
  /\ request \in Build \union {Unreadable} /\ queueLock \in BOOLEAN
  /\ status \in {"none", "working", "complete", "rolled_back", "failed", "interrupted"}
  /\ posting \in BOOLEAN
  /\ issued \in Build /\ started \subseteq Build /\ proven \subseteq Build
  /\ unsaved \in BOOLEAN

(* "Keep the old build selected until the replacement passes its health      *)
(* check" (update-switch.mjs:2), whatever stops, dies or is interrupted; it  *)
(* and the build to fall back to are never discarded with the old staging    *)
(* directories (start-standalone.mjs:123-130), and a waiting launcher runs   *)
(* the build it would start again.                                           *)
SelectedBuildIsProven ==
  /\ pointer.path \in proven /\ {pointer.path, pointer.previous} \subseteq builds
  /\ (At("waiting") /\ child # NoBuild) => (child = current /\ pointer.path = current)

(* "Snapshot only after the server stops" (update-switch.mjs:7): when a    *)
(* candidate first touches the vaults, all the old build did is saved.     *)
SnapshotIsComplete ==
  ((At("proving") \/ At("committing")) /\ child # NoBuild) => ~unsaved

(* An interrupted request is not silently retried: no request is taken       *)
(* twice (start-standalone.mjs:95, INSTALLATION.md:321), and one that was    *)
(* accepted is never replaced by another before its end.                     *)
TakenOnce ==
  [][/\ (At("waiting") /\ pc' = "preparing") => request \notin started
     /\ request # NoRequest => request' \in {request, NoRequest, Unreadable}]_launcherVars

(* A launcher that starts and finds a request it cannot read exits at      *)
(* line 100, with the request still there: it never gets any further.      *)
DiesAtStart == request = Unreadable /\ pc \in {"down", "loading"}

(* Every accepted request comes to an end ("not silently retried",         *)
(* start-standalone.mjs:95): whatever stops, dies or is interrupted, and   *)
(* also if it becomes unreadable where a launcher waits; but not if a      *)
(* launcher that starts finds it unreadable.                               *)
RequestEnds == (request # NoRequest) ~> (request = NoRequest \/ DiesAtStart)

(* "Failed activation restores the previous server" (INSTALLATION.md:320): *)
(* a launcher that is not asked to stop does not wait without a server.    *)
WaitsWithServer == (At("waiting") /\ ~stopping) => child # NoBuild

(* "If an update fails, retry using the button" (USER_GUIDE.md:45), which  *)
(* is disabled while status.json tells of work (LocalUpdate.tsx:70): work  *)
(* never stays reported for ever.                                          *)
WorkIsReported == (status = "working") ~> (status # "working")
=============================================================================
