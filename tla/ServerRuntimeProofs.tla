------------------------- MODULE ServerRuntimeProofs -------------------------
(* Proofs about ServerRuntime, for any shops, generations, loops, scopes and *)
(* callers: no loop runs twice at once, and neither do two heartbeats of one *)
(* attempt state.                                                            *)
EXTENDS ServerRuntime, FiniteSetTheorems, TLAPS

(* The loops of the server's own vault.                                      *)
LoopStates == [started : BOOLEAN, running : BOOLEAN, requested : BOOLEAN, timers : Nat]

LoopOK(state) == RunsAhead(state) = IF state.started THEN 1 ELSE 0

LoopsInv == loop \in [Loops -> LoopStates] /\ OneRunAhead

LEMMA LoopsInitInv == LoopsInit => LoopsInv
  BY DEF LoopsInit, LoopsInv, LoopStates, NotStarted, OneRunAhead, RunsAhead

(* Each step keeps the number of runs that are under way or armed.           *)
LEMMA StartedOK == ASSUME NEW s \in LoopStates, LoopOK(s) PROVE Started(s) \in LoopStates /\ LoopOK(Started(s))
<1>1. s.timers + 1 \in Nat
  BY DEF LoopStates
<1>2. Started(s) \in LoopStates
  BY <1>1 DEF Started, LoopStates
<1> QED
  BY <1>1, <1>2 DEF Started, LoopOK, RunsAhead, LoopStates

LEMMA AskedOK == ASSUME NEW s \in LoopStates, LoopOK(s), s.started PROVE Asked(s) \in LoopStates /\ LoopOK(Asked(s))
<1>1. Hurried(s.timers) \in Nat
  BY DEF Hurried, LoopStates
<1>2. Asked(s) \in LoopStates
  BY <1>1 DEF Asked, LoopStates
<1>3. ~s.running => s.timers = 1
  BY DEF LoopOK, RunsAhead, LoopStates
<1> QED
  BY <1>1, <1>2, <1>3 DEF Asked, Hurried, LoopOK, RunsAhead, LoopStates

LEMMA TickedOK == ASSUME NEW s \in LoopStates, LoopOK(s), s.timers > 0 PROVE Ticked(s) \in LoopStates /\ LoopOK(Ticked(s))
<1>1. s.timers - 1 \in Nat /\ ~s.running /\ s.started /\ s.timers = 1
  BY DEF LoopOK, RunsAhead, LoopStates
<1>2. Ticked(s) \in LoopStates
  BY <1>1 DEF Ticked, LoopStates
<1> QED
  BY <1>1, <1>2 DEF Ticked, LoopOK, RunsAhead, LoopStates

LEMMA RunOverOK == ASSUME NEW s \in LoopStates, LoopOK(s), s.running PROVE RunOver(s) \in LoopStates /\ LoopOK(RunOver(s))
<1>1. s.timers + 1 \in Nat /\ s.timers = 0 /\ s.started
  BY DEF LoopOK, RunsAhead, LoopStates
<1>2. RunOver(s) \in LoopStates
  BY <1>1 DEF RunOver, LoopStates
<1> QED
  BY <1>1, <1>2 DEF RunOver, LoopOK, RunsAhead, LoopStates

LEMMA LoopsStep == LoopsInv /\ [LoopsNext]_loop => LoopsInv'
<1> SUFFICES ASSUME LoopsInv, [LoopsNext]_loop PROVE LoopsInv'
  OBVIOUS
<1>1. loop \in [Loops -> LoopStates] /\ \A l \in Loops : LoopOK(loop[l])
  BY DEF LoopsInv, OneRunAhead, LoopOK
<1>2. ASSUME NEW l \in Loops, NEW s, s \in LoopStates, LoopOK(s), loop' = [loop EXCEPT ![l] = s]
      PROVE  LoopsInv'
  BY <1>1, <1>2 DEF LoopsInv, OneRunAhead, LoopOK
<1>3. CASE UNCHANGED loop
  BY <1>3 DEF LoopsInv, OneRunAhead
<1>4. ASSUME NEW l \in Loops, Start(l) PROVE LoopsInv'
  BY <1>1, <1>2, <1>4, StartedOK DEF Start
<1>5. ASSUME NEW l \in Loops, Request(l) PROVE LoopsInv'
  BY <1>1, <1>2, <1>5, AskedOK DEF Request
<1>6. ASSUME NEW l \in Loops, TimerRuns(l) PROVE LoopsInv'
  BY <1>1, <1>2, <1>6, TickedOK DEF TimerRuns
<1>7. ASSUME NEW l \in Loops, RunEnds(l) PROVE LoopsInv'
  BY <1>1, <1>2, <1>7, RunOverOK DEF RunEnds
<1> QED
  BY <1>3, <1>4, <1>5, <1>6, <1>7 DEF LoopsNext
-----------------------------------------------------------------------------
(* The workers of linked shops.                                              *)
WorkerStates ==
  [at : {"none", "ended", "idle", "heartbeat", "pull"}, requested : BOOLEAN, forced : BOOLEAN,
   refused : BOOLEAN, waiting : BOOLEAN, timers : Nat]

AtTurn(state) == state.at \in {"heartbeat", "pull"}
TurnsAhead(state) == state.timers + (IF AtTurn(state) THEN 1 ELSE 0)

(* A generation, active or not, that has the turns it should have.           *)
WorkerOK(state, isActive) ==
  /\ TurnsAhead(state) <= 1
  /\ isActive => TurnsAhead(state) = 1 /\ state.at \in {"idle", "heartbeat", "pull"}

WorkersInv ==
  /\ worker \in [Shops -> 0..MaxGen]
  /\ source \in [Workers -> WorkerStates]
  /\ \A c \in Workers : WorkerOK(source[c], Active(c))

LEMMA WorkersInitInv == WorkersInit => WorkersInv
<1> SUFFICES ASSUME WorkersInit PROVE WorkersInv
  OBVIOUS
<1>1. NotMade \in WorkerStates /\ WorkerOK(NotMade, FALSE)
  BY DEF NotMade, WorkerStates, WorkerOK, TurnsAhead, AtTurn
<1>2. worker \in [Shops -> 0..MaxGen] /\ source \in [Workers -> WorkerStates]
  BY <1>1, WorkersAssumption DEF WorkersInit
<1>3. \A c \in Workers : ~Active(c)
  BY WorkersAssumption DEF WorkersInit, Workers, Active
<1>4. \A c \in Workers : source[c] = NotMade
  BY DEF WorkersInit
<1> QED
  BY <1>1, <1>2, <1>3, <1>4 DEF WorkersInv, WorkerOK

(* What a step may make of one generation.                                   *)
LEMMA LeftOK == ASSUME NEW b \in BOOLEAN, ~b PROVE Left \in WorkerStates /\ WorkerOK(Left, b)
<1>1. NotMade \in WorkerStates /\ NotMade.timers = 0
  BY DEF NotMade, WorkerStates
<1>2. Left \in WorkerStates /\ Left.timers = 0 /\ Left.at = "ended"
  BY <1>1 DEF Left, WorkerStates
<1> QED
  BY <1>2 DEF WorkerOK, TurnsAhead, AtTurn

LEMMA RearmedOK ==
  ASSUME NEW s \in WorkerStates, WorkerOK(s, TRUE)
  PROVE  Rearmed(s) \in WorkerStates /\ WorkerOK(Rearmed(s), TRUE)
<1>1. s.at = "idle" => s.timers = 1
  BY DEF WorkerOK, TurnsAhead, AtTurn, WorkerStates
<1>2. Rearmed(s) \in WorkerStates
  BY <1>1 DEF Rearmed, WorkerStates
<1> QED
  BY <1>1, <1>2 DEF Rearmed, WorkerStates, WorkerOK, TurnsAhead, AtTurn

LEMMA EndedOK ==
  ASSUME NEW s \in WorkerStates, WorkerOK(s, TRUE), AtTurn(s)
  PROVE  LET e == [s EXCEPT !.at = "idle", !.forced = FALSE, !.timers = @ + 1]
         IN  e \in WorkerStates /\ WorkerOK(e, TRUE)
<1>1. s.timers + 1 \in Nat /\ s.timers = 0
  BY DEF WorkerOK, TurnsAhead, WorkerStates
<1>2. [s EXCEPT !.at = "idle", !.forced = FALSE, !.timers = @ + 1] \in WorkerStates
  BY <1>1 DEF WorkerStates
<1> QED
  BY <1>1, <1>2 DEF WorkerStates, WorkerOK, TurnsAhead, AtTurn

LEMMA FiredOK ==
  ASSUME NEW s \in WorkerStates, WorkerOK(s, TRUE), s.timers > 0
  PROVE  LET f == [s EXCEPT !.timers = @ - 1]
         IN  f.at = "idle" /\ Turn(f) \in WorkerStates /\ WorkerOK(Turn(f), TRUE)
<1>1. s.timers - 1 \in Nat /\ s.timers = 1 /\ s.at = "idle"
  BY DEF WorkerOK, TurnsAhead, AtTurn, WorkerStates
<1> DEFINE f == [s EXCEPT !.timers = @ - 1]
<1>2. f \in WorkerStates /\ f.timers = 0 /\ f.at = "idle"
  BY <1>1 DEF WorkerStates
<1> HIDE DEF f
<1>3. Turn(f) \in WorkerStates /\ Turn(f).timers = 0 /\ Turn(f).at = "heartbeat"
  BY <1>2 DEF WorkerStates, Turn
<1>4. WorkerOK(Turn(f), TRUE)
  BY <1>3 DEF WorkerOK, TurnsAhead, AtTurn
<1> QED
  BY <1>2, <1>3, <1>4 DEF f

(* An action that changes one generation, and leaves the others.             *)
LEMMA OneGeneration ==
  ASSUME WorkersInv, NEW c, NEW s, UNCHANGED worker,
         c \in Workers => s \in WorkerStates /\ WorkerOK(s, Active(c)),
         source' = [source EXCEPT ![c] = s]
  PROVE  WorkersInv'
<1>1. \A d \in Workers : Active(d)' = Active(d)
  BY DEF Active
<1>2. source' \in [Workers -> WorkerStates]
  BY DEF WorkersInv
<1>3. \A d \in Workers : WorkerOK(source'[d], Active(d))
  BY DEF WorkersInv
<1> QED
  BY <1>1, <1>2, <1>3 DEF WorkersInv

LEMMA MadeIsNat == ASSUME NEW s \in Shops PROVE Made(s) \in Nat
<1> DEFINE Gens == {g \in 1..MaxGen : source[<<s, g>>].at # "none"}
<1>1. IsFiniteSet(1..MaxGen)
  BY FS_Interval, WorkersAssumption
<1>2. IsFiniteSet(Gens)
  BY <1>1, FS_Subset
<1> QED
  BY <1>2, FS_CardinalityType DEF Made

(* A scan: a shop that joins has one new generation, in its first turn.      *)
LEMMA ScanInv == ASSUME WorkersInv, Scan PROVE WorkersInv'
<1> DEFINE listed == grants \cap linked
           left == {s \in Shops \ listed : worker[s] # 0}
           joining == {s \in listed : worker[s] = 0 /\ Made(s) < MaxGen}
           new == {Starting(s) : s \in joining}
<1>1. worker' = [s \in Shops |-> IF s \in left THEN 0
                                  ELSE IF s \in joining THEN Starting(s)[2] ELSE worker[s]]
  BY DEF Scan
<1>2. source' = [c \in Workers |-> IF c \in new THEN FirstTurn ELSE source[c]]
  BY DEF Scan
<1>3. FirstTurn \in WorkerStates /\ \A b : WorkerOK(FirstTurn, b)
  <2>1. NotMade \in WorkerStates /\ NotMade.timers = 0
    BY DEF NotMade, WorkerStates
  <2>2. FirstTurn \in WorkerStates /\ FirstTurn.timers = 0 /\ FirstTurn.at = "heartbeat"
    BY <2>1 DEF FirstTurn, WorkerStates
  <2> QED
    BY <2>2 DEF WorkerOK, TurnsAhead, AtTurn
<1>4. worker' \in [Shops -> 0..MaxGen]
  <2>1. \A s \in Shops : s \in joining => Starting(s)[2] \in 0..MaxGen
    BY MadeIsNat, WorkersAssumption DEF Starting
  <2> QED
    BY <1>1, <2>1, WorkersAssumption DEF WorkersInv
<1>5. source' \in [Workers -> WorkerStates]
  BY <1>2, <1>3 DEF WorkersInv
<1>6. ASSUME NEW c \in Workers PROVE WorkerOK(source'[c], Active(c)')
  <2>1. CASE c \in new
    BY <1>2, <1>3, <2>1
  <2>2. CASE c \notin new
    <3>1. PICK s \in Shops, g \in 1..MaxGen : c = <<s, g>>
      BY DEF Workers
    <3>2. Active(c)' => Active(c)
      BY <1>1, <2>2, <3>1, WorkersAssumption DEF Active, Starting
    <3>3. source'[c] = source[c]
      BY <1>2, <2>2
    <3> QED
      BY <3>2, <3>3 DEF WorkersInv, WorkerOK
  <2> QED
    BY <2>1, <2>2
<1> QED
  BY <1>4, <1>5, <1>6 DEF WorkersInv

LEMMA LoopStepInv == ASSUME WorkersInv, NEW c \in Workers, LoopStep(c) \/ RetryIsDue(c) PROVE WorkersInv'
<1>0. source[c] \in WorkerStates /\ WorkerOK(source[c], Active(c))
  BY DEF WorkersInv
<1>1. CASE FireSource(c)
  <2>1. CASE ~Active(c)
    BY <1>1, <2>1, LeftOK, OneGeneration DEF FireSource, Active
  <2>2. CASE Active(c)
    <3>1. WorkerOK(source[c], TRUE)
      BY <1>0, <2>2
    <3>2. source' = [source EXCEPT ![c] = Turn([source[c] EXCEPT !.timers = @ - 1])]
      BY <1>0, <1>1, <2>2, <3>1, FiredOK DEF FireSource
    <3> QED
      BY <1>0, <1>1, <2>2, <3>1, <3>2, FiredOK, OneGeneration DEF FireSource
  <2> QED
    BY <2>1, <2>2
<1>2. ASSUME NEW s \in WorkerStates, WorkerOK(s, Active(c)), AtTurn(s),
             UNCHANGED worker, TurnEnds(c, s)
      PROVE  WorkersInv'
  <2>1. CASE ~Active(c)
    BY <1>2, <2>1, LeftOK, OneGeneration DEF TurnEnds, Active
  <2>2. CASE Active(c)
    <3>1. WorkerOK(s, TRUE)
      BY <1>2, <2>2
    <3> QED
      BY <1>2, <2>2, <3>1, EndedOK, OneGeneration DEF TurnEnds
  <2> QED
    BY <2>1, <2>2
<1>3. CASE Authorised(c)
  <2>1. CASE PullsNow(source[c])
    <3> DEFINE s == [source[c] EXCEPT !.at = "pull"]
    <3>1. s \in WorkerStates /\ WorkerOK(s, Active(c))
      BY <1>0, <1>3 DEF Authorised, WorkerStates, WorkerOK, TurnsAhead, AtTurn
    <3>2. source' = [source EXCEPT ![c] = s] /\ UNCHANGED worker
      BY <1>3, <2>1 DEF Authorised
    <3> QED
      BY <3>1, <3>2, OneGeneration
  <2>2. CASE ~PullsNow(source[c])
    BY <1>0, <1>2, <1>3, <2>2 DEF Authorised, AtTurn
  <2> QED
    BY <2>1, <2>2
<1>4. CASE NotAuthorised(c)
  <2> DEFINE s == [source[c] EXCEPT !.refused = TRUE]
  <2>1. s \in WorkerStates /\ WorkerOK(s, Active(c)) /\ AtTurn(s)
    BY <1>0, <1>4 DEF NotAuthorised, WorkerStates, WorkerOK, TurnsAhead, AtTurn
  <2>2. TurnEnds(c, s) /\ UNCHANGED worker
    BY <1>4 DEF NotAuthorised
  <2> HIDE DEF s
  <2> QED
    BY <1>2, <2>1, <2>2
<1>5. CASE PullEnds(c)
  <2> DEFINE s == [source[c] EXCEPT !.waiting = TRUE]
  <2>1. s \in WorkerStates /\ WorkerOK(s, Active(c)) /\ AtTurn(s)
    BY <1>0, <1>5 DEF PullEnds, WorkerStates, WorkerOK, TurnsAhead, AtTurn
  <2>2. TurnEnds(c, s) /\ UNCHANGED worker
    BY <1>5 DEF PullEnds
  <2> HIDE DEF s
  <2> QED
    BY <1>2, <2>1, <2>2
<1>6. CASE RetryIsDue(c)
  <2> DEFINE s == [source[c] EXCEPT !.waiting = FALSE]
  <2>1. s \in WorkerStates /\ WorkerOK(s, Active(c))
    BY <1>0 DEF WorkerStates, WorkerOK, TurnsAhead, AtTurn
  <2>2. source' = [source EXCEPT ![c] = s] /\ UNCHANGED worker
    BY <1>6 DEF RetryIsDue
  <2> QED
    BY <2>1, <2>2, OneGeneration
<1> QED
  BY <1>1, <1>3, <1>4, <1>5, <1>6 DEF LoopStep

LEMMA WorkersStep == WorkersInv /\ [WorkersNext]_workersVars => WorkersInv'
<1> SUFFICES ASSUME WorkersInv, [WorkersNext]_workersVars PROVE WorkersInv'
  OBVIOUS
<1>1. ASSUME UNCHANGED <<worker, source>> PROVE WorkersInv'
  BY <1>1 DEF WorkersInv, Active
<1>2. CASE UNCHANGED workersVars
  BY <1>1, <1>2 DEF workersVars, loopVars
<1>3. ASSUME NEW s \in Shops, GrantOrRevoke(s) \/ Bind(s) PROVE WorkersInv'
  BY <1>1, <1>3 DEF GrantOrRevoke, Bind, loopVars
<1>4. ASSUME NEW answer \in SUBSET Shops, Look(answer) PROVE WorkersInv'
  BY <1>1, <1>4 DEF Look, loopVars
<1>5. ASSUME NEW answer \in SUBSET Shops, NEW s \in Shops, RequestRun(answer, s) PROVE WorkersInv'
  <2> DEFINE c == <<s, worker[s]>>
  <2>1. c \in Workers /\ Active(c)
    BY <1>5, WorkersAssumption DEF RequestRun, WorkersInv, Workers, Active
  <2>2. source[c] \in WorkerStates /\ WorkerOK(source[c], TRUE)
    BY <2>1 DEF WorkersInv
  <2>3. source' = [source EXCEPT ![c] = Rearmed(source[c])] /\ UNCHANGED worker
    BY <1>5 DEF RequestRun
  <2> QED
    BY <2>1, <2>2, <2>3, RearmedOK, OneGeneration
<1> QED
  BY <1>2, <1>3, <1>4, <1>5, ScanInv, LoopStepInv DEF WorkersNext
-----------------------------------------------------------------------------
(* The heartbeats.  A caller that owns a state is past the reading of its    *)
(* credential, and a state is running exactly when somebody owns it.         *)
States == [ver : Nat, running : BOOLEAN, failures : Nat, left : Int, age : Nat]
Calls ==
  [at : {"idle", "read", "health", "cloud"}, scope : Scopes \union {NoState}, ver : Nat, owns : BOOLEAN]

HeartbeatInv ==
  /\ stored \in [Scopes -> Nat]
  /\ attempts \in [Scopes -> States \union {NoState}]
  /\ calls \in [Beaters -> Calls]
  /\ \A c \in Beaters : calls[c].at # "idle" => calls[c].scope \in Scopes
  /\ \A c \in Beaters : calls[c].owns => InFlight(c)
  /\ OneAttemptPerState

LEMMA NoStateIsNone == NoState \notin States
  BY HeartbeatAssumption DEF States

LEMMA HeartbeatInitInv == HeartbeatInit => HeartbeatInv
  BY DEF HeartbeatInit, HeartbeatInv, Idle, Calls, OneAttemptPerState

(* The sweep alone.                                                          *)
LEMMA SweptOK ==
  ASSUME HeartbeatInv
  PROVE  /\ Swept(attempts) \in [Scopes -> States \union {NoState}]
         /\ \A t \in Scopes :
              \/ Swept(attempts)[t] = attempts[t]
              \/ attempts[t] # NoState /\ ~attempts[t].running /\ Swept(attempts)[t] = NoState
  BY DEF Swept, HeartbeatInv

(* What a lookup leaves of the states: those that run are neither swept nor  *)
(* replaced, unless by a state of another credential.                        *)
LEMMA Found ==
  ASSUME HeartbeatInv, NEW s \in Scopes, NEW v \in Nat
  PROVE  /\ StateFor(s, v) \in [Scopes -> States \union {NoState}]
         /\ StateFor(s, v)[s] \in States
         /\ \A t \in Scopes \ {s} :
              \/ StateFor(s, v)[t] = attempts[t]
              \/ attempts[t] # NoState /\ ~attempts[t].running /\ StateFor(s, v)[t] = NoState
         /\ attempts[s] # NoState /\ attempts[s].ver = v =>
              \/ StateFor(s, v)[s] = attempts[s]
              \/ ~attempts[s].running /\ StateFor(s, v)[s] = NewState(v)
         /\ attempts[s] = NoState \/ attempts[s].ver # v => StateFor(s, v)[s] = NewState(v)
         /\ NewState(v) \in States /\ ~NewState(v).running
<1>1. NewState(v) \in States /\ ~NewState(v).running
  BY DEF NewState, States
<1>2. StateFor(s, v) = [Swept(attempts) EXCEPT ![s] =
        IF Swept(attempts)[s] = NoState \/ Swept(attempts)[s].ver # v THEN NewState(v) ELSE Swept(attempts)[s]]
  BY DEF StateFor
<1> QED
  BY <1>1, <1>2, SweptOK

LEMMA TurnedAwayInv == ASSUME HeartbeatInv, NEW c \in Beaters, TurnedAway(c) PROVE HeartbeatInv'
<1> DEFINE s == calls[c].scope
           v == calls[c].ver
<1>1. s \in Scopes /\ v \in Nat /\ ~calls[c].owns
  BY DEF TurnedAway, HeartbeatInv, Calls, InFlight
<1>2. calls' = [calls EXCEPT ![c] = Idle] /\ UNCHANGED stored
  BY DEF TurnedAway
<1>3. Idle \in Calls /\ Idle.at = "idle" /\ ~Idle.owns
  BY DEF Idle, Calls
<1>4. /\ attempts' \in [Scopes -> States \union {NoState}]
      /\ \A t \in Scopes : \/ attempts'[t] = attempts[t]
                           \/ ~attempts[t].running /\ attempts'[t] = NoState
  <2>1. CASE Full(s)
    BY <2>1, SweptOK DEF TurnedAway
  <2>2. CASE ~Full(s)
    <3>1. attempts' = StateFor(s, v) /\ ~Free(StateFor(s, v)[s])
      BY <2>2 DEF TurnedAway
    <3>2. Free(NewState(v))
      BY DEF Free, NewState
    <3> QED
      BY <1>1, <3>1, <3>2, Found
  <2> QED
    BY <2>1, <2>2
<1>5. \A d \in Beaters : d # c => calls'[d] = calls[d]
  BY <1>2 DEF HeartbeatInv
<1>6. calls'[c] = Idle
  BY <1>2 DEF HeartbeatInv
<1>7. OneAttemptPerState'
  BY <1>1, <1>3, <1>4, <1>5, <1>6 DEF HeartbeatInv, OneAttemptPerState
<1> QED
  BY <1>2, <1>3, <1>4, <1>5, <1>6, <1>7 DEF HeartbeatInv, InFlight

LEMMA BeginAttemptInv == ASSUME HeartbeatInv, NEW c \in Beaters, BeginAttempt(c) PROVE HeartbeatInv'
<1> DEFINE s == calls[c].scope
           v == calls[c].ver
           found == StateFor(s, v)
           kept == attempts[s] # NoState /\ attempts[s].ver = v
<1>1. s \in Scopes /\ v \in Nat /\ ~calls[c].owns
  BY DEF BeginAttempt, HeartbeatInv, Calls, InFlight
<1>2. /\ Free(found[s]) /\ UNCHANGED stored
      /\ attempts' = [t \in Scopes |-> IF t = s THEN [found[t] EXCEPT !.running = TRUE] ELSE found[t]]
      /\ calls' = [d \in Beaters |->
           [calls[d] EXCEPT !.at = IF d = c THEN "health" ELSE @,
                            !.owns = d = c \/ (@ /\ (kept \/ calls[d].scope # s))]]
  BY DEF BeginAttempt
<1>3. \A d \in Beaters :
        /\ calls'[d] \in Calls /\ calls'[d].scope = calls[d].scope
        /\ calls'[d].at = IF d = c THEN "health" ELSE calls[d].at
        /\ calls'[d].owns = (d = c \/ (calls[d].owns /\ (kept \/ calls[d].scope # s)))
  <2>1. \A d \in Beaters : calls[d] \in Calls
    BY DEF HeartbeatInv
  <2> HIDE DEF kept, s
  <2> QED
    BY <1>2, <2>1 DEF Calls
<1>4. /\ found \in [Scopes -> States \union {NoState}] /\ found[s] \in States /\ ~found[s].running
      /\ \A t \in Scopes \ {s} : \/ found[t] = attempts[t]
                                 \/ ~attempts[t].running /\ found[t] = NoState
      /\ kept => ~attempts[s].running
  <2>1. kept => ~attempts[s].running
    BY <1>1, <1>2, Found DEF Free
  <2> QED
    BY <1>1, <1>2, <2>1, Found DEF Free
<1> HIDE DEF found
<1>5. /\ attempts' \in [Scopes -> States \union {NoState}]
      /\ attempts'[s] \in States /\ attempts'[s].running
      /\ \A t \in Scopes \ {s} : attempts'[t] = found[t]
  <2>1. [found[s] EXCEPT !.running = TRUE] \in States /\ [found[s] EXCEPT !.running = TRUE].running
    BY <1>4 DEF States
  <2> QED
    BY <1>1, <1>2, <1>4, <2>1
<1>6. \A d \in Beaters : calls'[d].owns /\ calls[d].scope = s => d = c
  <2> SUFFICES ASSUME NEW d \in Beaters, calls'[d].owns, calls[d].scope = s, d # c PROVE FALSE
    OBVIOUS
  <2>1. calls[d].owns /\ kept
    BY <1>3
  <2>2. ~attempts[s].running /\ attempts[s] # NoState
    BY <1>4, <2>1
  <2> QED
    BY <1>1, <2>1, <2>2 DEF HeartbeatInv, OneAttemptPerState
<1>7. \A d \in Beaters : calls'[d].owns /\ d # c => calls[d].owns
  BY <1>3
<1>8. \A d \in Beaters : calls[d].scope # s => (calls'[d].owns <=> calls[d].owns)
  BY <1>3
<1>9. calls'[c].owns
  BY <1>3
<1> HIDE DEF kept, s
<1>10. OneAttemptPerState'
  <2>1. \A d, e \in Beaters : calls'[d].owns /\ calls'[e].owns /\ calls'[d].scope = calls'[e].scope => d = e
    BY <1>3, <1>6, <1>8 DEF HeartbeatInv, OneAttemptPerState
  <2>2. ASSUME NEW t \in Scopes
        PROVE  (attempts'[t] # NoState /\ attempts'[t].running)
                 <=> \E d \in Beaters : calls'[d].owns /\ calls'[d].scope = t
    <3>1. CASE t = s
      BY <1>3, <1>5, <1>9, <3>1, NoStateIsNone DEF s
    <3>2. CASE t # s
      <4>1. attempts'[t] = attempts[t] \/ (~attempts[t].running /\ attempts'[t] = NoState)
        BY <1>4, <1>5, <3>2
      <4>2. (attempts'[t] # NoState /\ attempts'[t].running) <=> (attempts[t] # NoState /\ attempts[t].running)
        BY <4>1
      <4> QED
        BY <1>3, <1>8, <3>2, <4>2 DEF HeartbeatInv, OneAttemptPerState
    <3> QED
      BY <3>1, <3>2
  <2> QED
    BY <2>1, <2>2 DEF OneAttemptPerState
<1>11. calls' \in [Beaters -> Calls]
  BY <1>2, <1>3
<1>12. \A d \in Beaters : calls'[d].at # "idle" => calls'[d].scope \in Scopes
  BY <1>1, <1>3 DEF HeartbeatInv, s
<1>13. \A d \in Beaters : calls'[d].owns => InFlight(d)'
  BY <1>3, <1>7 DEF HeartbeatInv, InFlight
<1> QED
  BY <1>2, <1>5, <1>10, <1>11, <1>12, <1>13 DEF HeartbeatInv

LEMMA EndAttemptInv ==
  ASSUME HeartbeatInv, NEW c \in Beaters, InFlight(c), NEW new, EndAttempt(c, new),
         calls[c].owns => new \in States
  PROVE  HeartbeatInv'
<1> DEFINE s == calls[c].scope
<1>1. s \in Scopes /\ calls[c] \in Calls
  BY DEF HeartbeatInv, InFlight
<1>2. calls' = [calls EXCEPT ![c] = Idle] /\ UNCHANGED stored
  BY DEF EndAttempt
<1>3. Idle \in Calls /\ Idle.at = "idle" /\ ~Idle.owns
  BY DEF Idle, Calls
<1>4. calls'[c] = Idle /\ \A d \in Beaters : d # c => calls'[d] = calls[d]
  BY <1>2 DEF HeartbeatInv
<1>5. CASE ~calls[c].owns
  <2>1. UNCHANGED attempts
    BY <1>5 DEF EndAttempt
  <2>2. OneAttemptPerState'
    BY <1>3, <1>4, <1>5, <2>1 DEF HeartbeatInv, OneAttemptPerState
  <2> QED
    BY <1>2, <1>3, <1>4, <2>1, <2>2 DEF HeartbeatInv, InFlight
<1>6. CASE calls[c].owns
  <2>1. attempts' = [attempts EXCEPT ![s] = [new EXCEPT !.running = FALSE]]
    BY <1>6 DEF EndAttempt
  <2>2. [new EXCEPT !.running = FALSE] \in States /\ ~[new EXCEPT !.running = FALSE].running
    BY <1>6 DEF States
  <2>3. /\ attempts' \in [Scopes -> States \union {NoState}] /\ ~attempts'[s].running
        /\ \A t \in Scopes \ {s} : attempts'[t] = attempts[t]
    BY <1>1, <2>1, <2>2 DEF HeartbeatInv
  <2>4. OneAttemptPerState'
    BY <1>3, <1>4, <1>6, <2>3 DEF HeartbeatInv, OneAttemptPerState
  <2> QED
    BY <1>2, <1>3, <1>4, <2>3, <2>4 DEF HeartbeatInv, InFlight
<1> QED
  BY <1>5, <1>6

LEMMA OtherCallsInv ==
  ASSUME HeartbeatInv,
         \/ \E s \in Scopes : SaveCredential(s) \/ \E c \in Beaters : ReadCredential(c, s)
         \/ \E c \in Beaters : HealthOk(c)
         \/ Elapse
  PROVE  HeartbeatInv'
<1>1. ASSUME NEW s \in Scopes, SaveCredential(s) PROVE HeartbeatInv'
  BY <1>1 DEF SaveCredential, HeartbeatInv, InFlight, OneAttemptPerState
<1>2. ASSUME NEW c \in Beaters, UNCHANGED <<stored, attempts>>, NEW call, call \in Calls,
             calls' = [calls EXCEPT ![c] = call], call.owns = calls[c].owns,
             call.scope = calls[c].scope \/ ~call.owns, call.scope \in Scopes,
             call.owns => call.at \in {"health", "cloud"}
      PROVE  HeartbeatInv'
  <2>1. calls'[c] = call /\ \A d \in Beaters : d # c => calls'[d] = calls[d]
    BY <1>2 DEF HeartbeatInv
  <2>2. OneAttemptPerState'
    BY <1>2, <2>1 DEF HeartbeatInv, OneAttemptPerState
  <2> QED
    BY <1>2, <2>1, <2>2 DEF HeartbeatInv, InFlight
<1>3. ASSUME NEW s \in Scopes, NEW c \in Beaters, ReadCredential(c, s) PROVE HeartbeatInv'
  <2> DEFINE call == [at |-> "read", scope |-> s, ver |-> stored[s], owns |-> FALSE]
  <2>1. call \in Calls /\ call.owns = calls[c].owns /\ ~call.owns
    BY <1>3 DEF ReadCredential, HeartbeatInv, Calls, InFlight
  <2>2. calls' = [calls EXCEPT ![c] = call] /\ UNCHANGED <<stored, attempts>>
    BY <1>3 DEF ReadCredential
  <2>3. call.scope \in Scopes
    OBVIOUS
  <2> HIDE DEF call
  <2> QED
    BY <1>2, <2>1, <2>2, <2>3
<1>4. ASSUME NEW c \in Beaters, HealthOk(c) PROVE HeartbeatInv'
  <2> DEFINE call == [calls[c] EXCEPT !.at = "cloud"]
  <2>1. calls[c] \in Calls /\ calls[c].scope \in Scopes
    BY <1>4 DEF HealthOk, HeartbeatInv
  <2>2. call \in Calls /\ call.owns = calls[c].owns /\ call.scope = calls[c].scope /\ call.at = "cloud"
    BY <2>1 DEF Calls
  <2>3. calls' = [calls EXCEPT ![c] = call] /\ UNCHANGED <<stored, attempts>>
    BY <1>4 DEF HealthOk
  <2> HIDE DEF call
  <2> QED
    BY <1>2, <2>1, <2>2, <2>3
<1>5. CASE Elapse
  <2>1. ASSUME NEW s \in Scopes
        PROVE  \/ attempts'[s] = NoState /\ attempts[s] = NoState
               \/ /\ attempts[s] \in States /\ attempts'[s] \in States
                  /\ attempts'[s].running = attempts[s].running
    <3>1. CASE attempts[s] = NoState
      BY <1>5, <3>1 DEF Elapse
    <3>2. CASE attempts[s] # NoState
      <4> DEFINE left == IF attempts[s].left > 0 THEN attempts[s].left - 1 ELSE 0
                 age == Least(attempts[s].age + 1, IdleLimit + 1)
      <4>1. attempts[s] \in States
        BY <3>2 DEF HeartbeatInv
      <4>2. left \in Int /\ age \in Nat
        BY <4>1, HeartbeatAssumption DEF States, Least
      <4>3. attempts'[s] = [attempts[s] EXCEPT !.left = left, !.age = age]
        BY <1>5, <3>2 DEF Elapse
      <4> HIDE DEF left, age
      <4> QED
        BY <4>1, <4>2, <4>3 DEF States
    <3> QED
      BY <3>1, <3>2
  <2>2. attempts' \in [Scopes -> States \union {NoState}] /\ UNCHANGED <<stored, calls>>
    BY <1>5, <2>1 DEF Elapse
  <2>3. OneAttemptPerState'
    BY <2>1, <2>2, NoStateIsNone DEF HeartbeatInv, OneAttemptPerState
  <2> QED
    BY <2>2, <2>3 DEF HeartbeatInv, InFlight
<1> QED
  BY <1>1, <1>3, <1>4, <1>5

(* What an end of an attempt leaves in the state.                            *)
LEMMA EndsWell ==
  ASSUME NEW state \in States, NEW rejected \in BOOLEAN
  PROVE  Paused(state, rejected) \in States /\ Rested(state) \in States
<1> DEFINE n == Least(state.failures + 1, MaxFailures)
           left == Least(IF rejected THEN RejectedLimit ELSE Limit, 2 ^ (n - 1))
<1>1. n \in Nat /\ n - 1 \in Nat
  BY HeartbeatAssumption DEF States, Least
<1>2. 2 ^ (n - 1) \in Int
  BY <1>1
<1>3. left \in Int
  BY <1>2, HeartbeatAssumption DEF Least
<1>4. Paused(state, rejected) = [state EXCEPT !.failures = n, !.age = 0, !.left = left]
  BY DEF Paused
<1> HIDE DEF n, left
<1>5. Paused(state, rejected) \in States
  <2>1. \A k \in Nat, l \in Int : [state EXCEPT !.failures = k, !.age = 0, !.left = l] \in States
    <3> SUFFICES ASSUME NEW k \in Nat, NEW l \in Int
                 PROVE  [state EXCEPT !.failures = k, !.age = 0, !.left = l] \in States
      OBVIOUS
    <3>1. 0 \in Nat
      OBVIOUS
    <3> QED
      BY <3>1 DEF States
  <2> QED
    BY <1>1, <1>3, <1>4, <2>1
<1>6. Rested(state) \in States
  <2>1. 0 \in Nat /\ 0 \in Int
    OBVIOUS
  <2> QED
    BY <2>1 DEF Rested, States
<1> QED
  BY <1>5, <1>6

LEMMA HeartbeatStep == HeartbeatInv /\ [HeartbeatNext]_heartbeatVars => HeartbeatInv'
<1> SUFFICES ASSUME HeartbeatInv, [HeartbeatNext]_heartbeatVars PROVE HeartbeatInv'
  OBVIOUS
<1>1. CASE UNCHANGED heartbeatVars
  BY <1>1 DEF heartbeatVars, HeartbeatInv, InFlight, OneAttemptPerState
<1>2. ASSUME NEW c \in Beaters, WrongService(c) \/ CallFails(c) \/ CloudAccepts(c) \/ CloudRefuses(c)
      PROVE  HeartbeatInv'
  <2>1. InFlight(c) /\ (calls[c].owns => attempts[calls[c].scope] \in States)
    <3>1. InFlight(c)
      BY <1>2 DEF WrongService, CallFails, CloudAccepts, CloudRefuses, InFlight
    <3>2. calls[c].scope \in Scopes
      BY <3>1 DEF InFlight, HeartbeatInv
    <3> QED
      BY <3>1, <3>2 DEF HeartbeatInv, OneAttemptPerState
  <2>2. CASE WrongService(c)
    BY <2>1, <2>2, EndAttemptInv DEF WrongService
  <2>3. CASE CallFails(c)
    BY <2>1, <2>3, EndAttemptInv, EndsWell DEF CallFails
  <2>4. CASE CloudAccepts(c)
    <3>1. calls[c].owns => Rested(attempts[calls[c].scope]) \in States
      BY <2>1, EndsWell
    <3> QED
      BY <2>1, <2>4, <3>1, EndAttemptInv DEF CloudAccepts
  <2>5. CASE CloudRefuses(c)
    BY <2>1, <2>5, EndAttemptInv, EndsWell DEF CloudRefuses
  <2> QED
    BY <1>2, <2>2, <2>3, <2>4, <2>5
<1> QED
  BY <1>1, <1>2, TurnedAwayInv, BeginAttemptInv, OtherCallsInv DEF HeartbeatNext
-----------------------------------------------------------------------------
RuntimeInv == WorkersInv /\ LoopsInv /\ HeartbeatInv

LEMMA RuntimeStep == RuntimeInv /\ [RuntimeNext]_runtimeVars => RuntimeInv'
<1> SUFFICES ASSUME RuntimeInv, [RuntimeNext]_runtimeVars PROVE RuntimeInv'
  OBVIOUS
<1>1. [WorkersNext]_workersVars /\ [LoopsNext]_loop /\ [HeartbeatNext]_heartbeatVars
  BY DEF RuntimeNext, runtimeVars
<1> QED
  BY <1>1, WorkersStep, LoopsStep, HeartbeatStep DEF RuntimeInv

LEMMA RuntimeInvariant == RuntimeSpec => []RuntimeInv
<1>1. RuntimeInit => RuntimeInv
  BY WorkersInitInv, LoopsInitInv, HeartbeatInitInv DEF RuntimeInit, RuntimeInv
<1> QED
  BY <1>1, RuntimeStep, PTL DEF RuntimeSpec

(* server-workspace.ts:34-84, server-data-relay.ts:35-71,                    *)
(* server-source-pull.ts:19-64: every loop has exactly one run under way or  *)
(* armed, for any number of shops and generations.                           *)
THEOREM OneTurnForEach == RuntimeSpec => []OneTurnAhead
<1>1. RuntimeInv => OneTurnAhead
  BY DEF RuntimeInv, WorkersInv, WorkerOK, TurnsAhead, AtTurn, Turning, LoopsInv, OneTurnAhead, OneTurnPerLoop
<1> QED
  BY <1>1, RuntimeInvariant, PTL

(* server-availability.mjs:74-75: two attempts never share a state, for any  *)
(* number of callers and whatever is saved meanwhile.                        *)
THEOREM AttemptsDoNotOverlap == RuntimeSpec => []OneAttemptPerState
<1>1. RuntimeInv => OneAttemptPerState
  BY DEF RuntimeInv, HeartbeatInv
<1> QED
  BY <1>1, RuntimeInvariant, PTL
=============================================================================
