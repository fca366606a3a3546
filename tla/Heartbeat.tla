----------------------------- MODULE Heartbeat ------------------------------
(* The heartbeat of scripts/server-availability.mjs: a caller reads the      *)
(* stored credential, finds the attempt state of its directory, checks the   *)
(* local server and asks the Cloud, which also tells whether the shop is     *)
(* still authorised.  A failed attempt starts a cool-down.  Times are kept   *)
(* as what is left of a cool-down and as the age of a state, which a tick of *)
(* half a minute moves.                                                      *)
EXTENDS Integers, FiniteSets

CONSTANTS
  Scopes,        \* directories, each with a credential file and a scope
  Beaters,       \* who calls heartbeatOnce
  NoState,       \* no attempt state
  MaxVersions,   \* bound: times a credential is saved
  Room,          \* attempt states that are kept (256)
  MaxFailures,   \* failures counted by a state
  Limit,         \* longest cool-down after a failure
  RejectedLimit, \* longest cool-down after the Cloud rejected the credential
  IdleLimit      \* age after which a state is swept

ASSUME HeartbeatAssumption ==
  /\ MaxVersions \in Nat /\ Room \in Nat /\ MaxFailures \in Nat \ {0}
  /\ Limit \in Nat \ {0} /\ RejectedLimit \in Nat \ {0} /\ IdleLimit \in Nat
  /\ Limit <= RejectedLimit /\ RejectedLimit <= IdleLimit
  /\ NoState \notin [ver : Nat, running : BOOLEAN, failures : Nat, left : Int, age : Nat]

VARIABLES
  stored,    \* version of availability.enc in each directory, 0 when there is none
  attempts,  \* attempt state of each scope
  calls      \* what each caller is doing: at, scope, version read, whether it owns the state

heartbeatVars == <<stored, attempts, calls>>

Idle == [at |-> "idle", scope |-> NoState, ver |-> 0, owns |-> FALSE]

HeartbeatInit ==
  /\ stored = [s \in Scopes |-> 0]
  /\ attempts = [s \in Scopes |-> NoState]
  /\ calls = [c \in Beaters |-> Idle]

InFlight(c) == calls[c].at \in {"health", "cloud"}

(* saveAvailabilityCredential: a fresh initialisation vector makes every     *)
(* file that is written a new version.                                       *)
SaveCredential(s) ==
  /\ stored[s] < MaxVersions
  /\ stored' = [stored EXCEPT ![s] = @ + 1]
  /\ UNCHANGED <<attempts, calls>>

(* The file is read; what follows runs when the read is delivered.  Without  *)
(* a file the call returns false at once.                                    *)
ReadCredential(c, s) ==
  /\ calls[c].at = "idle" /\ stored[s] > 0
  /\ calls' = [calls EXCEPT ![c] = [at |-> "read", scope |-> s, ver |-> stored[s], owns |-> FALSE]]
  /\ UNCHANGED <<stored, attempts>>

Swept(t) == [s \in Scopes |->
  IF t[s] # NoState /\ ~t[s].running /\ t[s].age > IdleLimit THEN NoState ELSE t[s]]

NewState(v) == [ver |-> v, running |-> FALSE, failures |-> 0, left |-> 0, age |-> 0]

(* attemptState: sweep, then the state of the scope, replaced when it        *)
(* belongs to another credential.                                            *)
StateFor(s, v) ==
  LET kept == Swept(attempts)
  IN [kept EXCEPT ![s] = IF kept[s] = NoState \/ kept[s].ver # v THEN NewState(v) ELSE kept[s]]

(* There is none, and no room for another.                                   *)
Full(s) ==
  LET kept == Swept(attempts)
  IN kept[s] = NoState /\ Cardinality({t \in Scopes : kept[t] # NoState}) >= Room

FreeWhenRested(state) == state.left = 0
Free(state) == ~state.running /\ state.left = 0

(* The call returns false before it has begun: there is no room, or the      *)
(* state is busy or cooling down.                                            *)
TurnedAway(c) ==
  LET s == calls[c].scope  v == calls[c].ver
      found == StateFor(s, v)
  IN /\ calls[c].at = "read" /\ calls' = [calls EXCEPT ![c] = Idle]
     /\ \/ Full(s) /\ attempts' = Swept(attempts)
        \/ ~Full(s) /\ ~Free(found[s]) /\ attempts' = found
     /\ UNCHANGED stored

(* The attempt begins; a caller whose state was replaced goes on with a      *)
(* state nobody will find again.                                             *)
BeginAttempt(c) ==
  LET s == calls[c].scope  v == calls[c].ver
      found == StateFor(s, v)
      kept == attempts[s] # NoState /\ attempts[s].ver = v
  IN /\ calls[c].at = "read"
     /\ ~Full(s) /\ Free(found[s])
     /\ attempts' = [t \in Scopes |-> IF t = s THEN [found[t] EXCEPT !.running = TRUE] ELSE found[t]]
     /\ calls' = [d \in Beaters |->
          [calls[d] EXCEPT !.at = IF d = c THEN "health" ELSE @,
                           !.owns = d = c \/ (@ /\ (kept \/ calls[d].scope # s))]]
     /\ UNCHANGED stored

HealthOk(c) ==
  /\ calls[c].at = "health"
  /\ calls' = [calls EXCEPT ![c].at = "cloud"]
  /\ UNCHANGED <<stored, attempts>>

Least(m, n) == IF m < n THEN m ELSE n

(* pauseAttempt: the cool-down doubles with each failure up to its limit.    *)
Paused(state, rejected) ==
  LET n == Least(state.failures + 1, MaxFailures)
  IN [state EXCEPT !.failures = n, !.age = 0,
                   !.left = Least(IF rejected THEN RejectedLimit ELSE Limit, 2 ^ (n - 1))]

Rested(state) == [state EXCEPT !.failures = 0, !.left = 0, !.age = 0]

(* The end of a call leaves `new` in its state, if that is still the one the *)
(* scope has, and clears running.                                            *)
EndAttempt(c, new) ==
  LET s == calls[c].scope
  IN /\ attempts' = IF calls[c].owns
                    THEN [attempts EXCEPT ![s] = [new EXCEPT !.running = FALSE]]
                    ELSE attempts
     /\ calls' = [calls EXCEPT ![c] = Idle]
     /\ UNCHANGED stored

(* Another service answers on the local port: no cool-down.                  *)
WrongService(c) == calls[c].at = "health" /\ EndAttempt(c, attempts[calls[c].scope])

(* The local check or the Cloud's call throws or times out.                  *)
CallFails(c) == InFlight(c) /\ EndAttempt(c, Paused(attempts[calls[c].scope], FALSE))

CloudAccepts(c) == calls[c].at = "cloud" /\ EndAttempt(c, Rested(attempts[calls[c].scope]))

CloudRefuses(c) ==
  /\ calls[c].at = "cloud"
  /\ \E rejected \in BOOLEAN : EndAttempt(c, Paused(attempts[calls[c].scope], rejected))

(* Half a minute goes by.                                                    *)
Elapse ==
  /\ attempts' = [s \in Scopes |->
       IF attempts[s] = NoState THEN NoState
       ELSE [attempts[s] EXCEPT !.left = IF @ > 0 THEN @ - 1 ELSE 0,
                                !.age = Least(@ + 1, IdleLimit + 1)]]
  /\ UNCHANGED <<stored, calls>>

-----------------------------------------------------------------------------
AttemptStates ==
  {NoState} \union [ver : 1..MaxVersions, running : BOOLEAN, failures : 0..MaxFailures,
                 left : 0..RejectedLimit, age : 0..(IdleLimit + 1)]

(* Types, and that only a call in flight owns a state.                       *)
HeartbeatTypeOK ==
  /\ stored \in [Scopes -> 0..MaxVersions]
  /\ attempts \in [Scopes -> AttemptStates]
  /\ calls \in [Beaters -> [at : {"idle", "read", "health", "cloud"}, scope : Scopes \union {NoState},
                            ver : 0..MaxVersions, owns : BOOLEAN]]
  /\ \A c \in Beaters : calls[c].at # "idle" => calls[c].scope \in Scopes
  /\ \A c \in Beaters : calls[c].owns => InFlight(c)

(* server-availability.mjs:74-75: the attempts that share one state never    *)
(* overlap, whatever credential is saved and whoever calls.                  *)
OneAttemptPerState ==
  /\ \A c, d \in Beaters :
       calls[c].owns /\ calls[d].owns /\ calls[c].scope = calls[d].scope => c = d
  /\ \A s \in Scopes :
       (attempts[s] # NoState /\ attempts[s].running) <=> \E c \in Beaters : calls[c].owns /\ calls[c].scope = s
=============================================================================
