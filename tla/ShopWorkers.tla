---------------------------- MODULE ShopWorkers -----------------------------
(* The workers of linked shops (lib/server-workspace.ts): a scan reads the   *)
(* list of grants that browser requests write (lib/workspace.ts,             *)
(* scripts/workspace-store.mjs) and gives each shop that joins a generation  *)
(* of loops; the source loop asks for a heartbeat before every pull.  A shop *)
(* that leaves keeps its loops until they next look at active().  What a     *)
(* heartbeat does is in Heartbeat: here it is true, if the Cloud grants the  *)
(* shop, or false for any reason.                                            *)
EXTENDS Naturals, FiniteSets

CONSTANTS
  Shops,  \* linked shops, each with a directory of its own
  MaxGen  \* bound: generations of workers a shop has

ASSUME WorkersAssumption == MaxGen \in Nat

Workers == Shops \X (1..MaxGen)

VARIABLES
  granted,  \* shops the Cloud authorises
  grants,   \* workspace-grants.json
  linked,    \* shops whose vault is complete and bound to their installation
  worker,   \* active generation of each shop, 0 when it has none
  source,   \* source loop of each generation; refused: the heartbeat of its last turn was
  ready     \* whether the vault of a shop is open for reading (source_sync.ready)

cloudVars == <<granted, grants, linked>>
loopVars == <<worker, source, ready>>
workersVars == <<cloudVars, loopVars>>

NotMade ==
  [at |-> "none", requested |-> FALSE, forced |-> FALSE, refused |-> FALSE, waiting |-> FALSE, timers |-> 0]
Left == [NotMade EXCEPT !.at = "ended"]

WorkersInit ==
  /\ granted = Shops /\ grants = {} /\ linked = {}
  /\ worker = [s \in Shops |-> 0]
  /\ source = [c \in Workers |-> NotMade]
  /\ ready = [s \in Shops |-> FALSE]

Active(c) == worker[c[1]] = c[2]

-----------------------------------------------------------------------------
(* Browser requests and the Cloud.                                           *)

GrantOrRevoke(s) ==
  /\ granted' = IF s \in granted THEN granted \ {s} ELSE granted \union {s}
  /\ UNCHANGED <<loopVars, grants, linked>>

(* authorizedWorkspaceDirectory: an answer of the Cloud replaces the file.   *)
(* It may be of any age: requests overlap, and grants come and go.           *)
SaveGrants(answer) ==
  /\ grants' = answer
  /\ UNCHANGED <<granted, linked>>

Look(answer) == SaveGrants(answer) /\ UNCHANGED loopVars

Rearmed(loop) ==
  [loop EXCEPT !.requested = TRUE,
               !.timers = IF loop.at # "idle" THEN @ ELSE IF @ > 0 THEN @ ELSE 1]

(* The request of the synchronisation page for one of the shops: a turn of   *)
(* its source loop, now.                                                     *)
RequestRun(answer, s) ==
  LET c == <<s, worker[s]>>
  IN /\ s \in answer \cap linked
     /\ SaveGrants(answer)
     /\ worker[s] # 0
     /\ source' = [source EXCEPT ![c] = Rearmed(source[c])]
     /\ UNCHANGED <<worker, ready>>

(* bootstrapWorkspaceDirectory, then configureAutomaticSource.               *)
Bind(s) ==
  /\ s \in granted \ linked
  /\ linked' = linked \union {s}
  /\ UNCHANGED <<loopVars, granted, grants>>

-----------------------------------------------------------------------------
(* The scan and the loops.                                                   *)

Made(s) == Cardinality({g \in 1..MaxGen : source[<<s, g>>].at # "none"})
Starting(s) == <<s, Made(s) + 1>>
FirstTurn == [NotMade EXCEPT !.at = "heartbeat"]

(* workspaceChildDirectories lists the granted shops whose vault is bound.  *)
(* Each one that joins has its reads paused and its loops begun.             *)
Scan ==
  LET listed == grants \cap linked
      left == {s \in Shops \ listed : worker[s] # 0}
      joining == {s \in listed : worker[s] = 0 /\ Made(s) < MaxGen}
      new == {Starting(s) : s \in joining}
  IN /\ left \union joining # {}
     /\ worker' = [s \in Shops |-> IF s \in left THEN 0
                                    ELSE IF s \in joining THEN Starting(s)[2] ELSE worker[s]]
     /\ ready' = [s \in Shops |-> ready[s] /\ s \notin joining]
     /\ source' = [c \in Workers |-> IF c \in new THEN FirstTurn ELSE source[c]]
     /\ UNCHANGED cloudVars

(* A timer of the source loop fires.                                         *)
TurnForgets(loop) ==
  [loop EXCEPT !.at = "heartbeat", !.forced = FALSE, !.requested = FALSE, !.refused = FALSE]
Turn(loop) ==
  [loop EXCEPT !.at = "heartbeat", !.forced = loop.requested, !.requested = FALSE, !.refused = FALSE]
FireSource(c) ==
  LET fired == [source[c] EXCEPT !.timers = @ - 1]
  IN /\ source[c].timers > 0
     /\ source' = [source EXCEPT ![c] =
          IF ~Active(c) THEN Left
          ELSE IF fired.at = "idle" THEN Turn(fired)
          ELSE [fired EXCEPT !.requested = TRUE]]
     /\ UNCHANGED <<worker, ready, cloudVars>>

(* The end of a turn arms the next one, if the generation is still active.   *)
TurnEnds(c, loop) ==
  source' = [source EXCEPT ![c] =
    IF Active(c) THEN [loop EXCEPT !.at = "idle", !.forced = FALSE, !.timers = @ + 1] ELSE Left]

PullsNow(loop) == loop.forced \/ ~loop.waiting

Authorised(c) ==
  /\ source[c].at = "heartbeat" /\ c[1] \in granted
  /\ IF PullsNow(source[c])
     THEN source' = [source EXCEPT ![c].at = "pull"]
     ELSE TurnEnds(c, source[c])
  /\ UNCHANGED <<worker, ready, cloudVars>>

(* heartbeatOnce returned false, for whatever reason: reads are paused.      *)
LeftOpen(s) == ready
PausedReads(s) == [ready EXCEPT ![s] = FALSE]
NotAuthorised(c) ==
  /\ source[c].at = "heartbeat"
  /\ ready' = PausedReads(c[1])
  /\ TurnEnds(c, [source[c] EXCEPT !.refused = TRUE])
  /\ UNCHANGED <<worker, cloudVars>>

(* pullSourceOnce ends.  A page that completes a pass opens the reads, a     *)
(* claim may have closed them.                                               *)
PullEnds(c) ==
  /\ source[c].at = "pull"
  /\ \E open \in BOOLEAN : ready' = [ready EXCEPT ![c[1]] = open]
  /\ TurnEnds(c, [source[c] EXCEPT !.waiting = TRUE])
  /\ UNCHANGED <<worker, cloudVars>>

(* Date.now() reaches sourceNextAttemptAt.                                   *)
RetryIsDue(c) ==
  /\ source[c].waiting
  /\ source' = [source EXCEPT ![c].waiting = FALSE]
  /\ UNCHANGED <<worker, ready, cloudVars>>

LoopStep(c) ==
  FireSource(c) \/ Authorised(c) \/ NotAuthorised(c) \/ PullEnds(c)

WorkersNext ==
  \/ \E s \in Shops : GrantOrRevoke(s) \/ Bind(s)
  \/ \E answer \in SUBSET Shops : Look(answer) \/ \E s \in Shops : RequestRun(answer, s)
  \/ Scan
  \/ \E c \in Workers : LoopStep(c) \/ RetryIsDue(c)

(* Timers fire and every call has a timeout, so the scan and the loops go    *)
(* on.  Nothing is assumed of requests, of the Cloud's grants, or of the end *)
(* of a back-off.                                                            *)
WorkersFairness ==
  /\ WF_workersVars(Scan)
  /\ \A c \in Workers : WF_workersVars(LoopStep(c))

WorkersSpec == WorkersInit /\ [][WorkersNext]_workersVars
FairWorkersSpec == WorkersSpec /\ WorkersFairness

-----------------------------------------------------------------------------
Turning(c) == source[c].at \in {"heartbeat", "pull"}

(* server-workspace.ts:34-84: an active generation has exactly one source    *)
(* turn, under way or armed, and one that was left has at most one, however  *)
(* requests, scans and ends of turns interleave.                             *)
OneTurnPerLoop ==
  \A c \in Workers :
    /\ Active(c) => source[c].timers + (IF Turning(c) THEN 1 ELSE 0) = 1
    /\ source[c].timers + (IF Turning(c) THEN 1 ELSE 0) <= 1

(* server-workspace.ts:60: once the Cloud no longer grants a shop that still *)
(* has a worker, its reads close for good, even when an older generation's   *)
(* pull opens them meanwhile.                                                *)
RevokedReadsClose ==
  \A c \in Workers : <>[](c[1] \notin granted /\ Active(c)) => <>[](~ready[c[1]])

\* A turn that was asked for before it began, at its heartbeat.
AskedTurn(c) == source[c].at = "heartbeat" /\ source[c].forced

(* server-workspace.ts:55-62, 77-83, source-pull-client.mjs:136-138: a run   *)
(* that is asked for while its loop is busy, or waits out a back-off that    *)
(* may never end, gets a turn that begins after it, and that turn pulls      *)
(* unless its own heartbeat is refused.                                      *)
RequestedRunPulls ==
  \A c \in Workers :
    /\ (Active(c) /\ source[c].requested) ~>
         ((AskedTurn(c) /\ ~source[c].requested) \/ ~Active(c))
    /\ (Active(c) /\ AskedTurn(c)) ~>
         (source[c].at = "pull" \/ source[c].refused \/ ~Active(c))
=============================================================================
