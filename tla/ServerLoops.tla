---------------------------- MODULE ServerLoops -----------------------------
(* The loops the server starts for its own vault: the relay                  *)
(* (lib/server-data-relay.ts), the pull (lib/server-source-pull.ts) and the  *)
(* heartbeat (lib/server-availability.ts).  Each is a chain of runs, every   *)
(* one armed by the end of the one before; the first two can also be asked   *)
(* for by the synchronisation page.                                          *)
EXTENDS Naturals

CONSTANTS
  Loops,      \* the loops of the server
  Requested   \* those a request can hurry

ASSUME LoopsAssumption == Requested \subseteq Loops

VARIABLE
  loop  \* for each: started, running, requested, and how many timers are armed

NotStarted == [started |-> FALSE, running |-> FALSE, requested |-> FALSE, timers |-> 0]

LoopsInit == loop = [l \in Loops |-> NotStarted]

(* Clear the timer that is armed, if any, and arm one for now.               *)
NotCleared(timers) == timers + 1
Hurried(timers) == IF timers > 0 THEN timers ELSE 1

(* register() may be called again by another bundle of the server: the       *)
(* runtime lives in globalThis.                                              *)
Started(state) == IF state.started THEN state ELSE [state EXCEPT !.started = TRUE, !.timers = @ + 1]
Start(l) == loop' = [loop EXCEPT ![l] = Started(@)]

(* requestDataRelayRun, requestSourcePullRun.                                *)
Asked(state) ==
  [state EXCEPT !.requested = TRUE, !.timers = IF state.running THEN @ ELSE Hurried(@)]
Request(l) ==
  /\ l \in Requested /\ loop[l].started
  /\ loop' = [loop EXCEPT ![l] = Asked(@)]

(* tick: a run begins, unless one is going on.                               *)
Ticked(state) ==
  IF state.running
  THEN [state EXCEPT !.timers = @ - 1, !.requested = TRUE]
  ELSE [state EXCEPT !.timers = @ - 1, !.running = TRUE, !.requested = FALSE]
TimerRuns(l) ==
  /\ loop[l].timers > 0
  /\ loop' = [loop EXCEPT ![l] = Ticked(@)]

(* The run ends, well or not, and arms the next one: at once when it was     *)
(* requested meanwhile.                                                      *)
RunOver(state) == [state EXCEPT !.running = FALSE, !.timers = @ + 1]
RunEnds(l) ==
  /\ loop[l].running
  /\ loop' = [loop EXCEPT ![l] = RunOver(@)]

LoopsNext == \E l \in Loops : Start(l) \/ Request(l) \/ TimerRuns(l) \/ RunEnds(l)

(* Timers fire and every call has a timeout.                                 *)
LoopsFairness == \A l \in Loops : WF_loop(TimerRuns(l)) /\ WF_loop(RunEnds(l))

LoopsSpec == LoopsInit /\ [][LoopsNext]_loop /\ LoopsFairness
-----------------------------------------------------------------------------
RunsAhead(state) == state.timers + (IF state.running THEN 1 ELSE 0)

(* A loop that was started has exactly one run under way or armed, however   *)
(* requests, repeated starts and ends of runs interleave.                    *)
OneRunAhead == \A l \in Loops : RunsAhead(loop[l]) = IF loop[l].started THEN 1 ELSE 0
=============================================================================
