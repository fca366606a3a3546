--------------------------- MODULE ServerRuntime ----------------------------
(* What instrumentation.ts starts: the loops of the server's own vault, the  *)
(* workers of linked shops and the heartbeats and relay runs both make.      *)
(* They share no state a property here speaks of, so each behaviour          *)
(* exercises one of them.                                                    *)
EXTENDS ShopWorkers, ServerLoops, Heartbeat, OutboxRelay

VARIABLE part  \* the one a behaviour exercises

runtimeVars == <<part, workersVars, loop, heartbeatVars, relayVars>>

RuntimeInit ==
  /\ part \in {"workers", "loops", "heartbeat", "relay"}
  /\ WorkersInit /\ LoopsInit /\ HeartbeatInit /\ RelayInit

HeartbeatNext ==
  \/ \E s \in Scopes : SaveCredential(s) \/ \E c \in Beaters : ReadCredential(c, s)
  \/ \E c \in Beaters :
       \/ TurnedAway(c) \/ BeginAttempt(c) \/ HealthOk(c) \/ WrongService(c)
       \/ CallFails(c) \/ CloudAccepts(c) \/ CloudRefuses(c)
  \/ Elapse

RuntimeNext ==
  /\ UNCHANGED part
  /\ \/ part = "workers" /\ WorkersNext /\ UNCHANGED <<loop, heartbeatVars, relayVars>>
     \/ part = "loops" /\ LoopsNext /\ UNCHANGED <<workersVars, heartbeatVars, relayVars>>
     \/ part = "heartbeat" /\ HeartbeatNext /\ UNCHANGED <<workersVars, loop, relayVars>>
     \/ part = "relay" /\ RelayNext /\ UNCHANGED <<workersVars, loop, heartbeatVars>>

(* The fairness of each part, in the behaviours that exercise it.            *)
InWorkers(A) == part = "workers" /\ A /\ UNCHANGED <<part, loop, heartbeatVars, relayVars>>
InRelay(A) == part = "relay" /\ A /\ UNCHANGED <<part, workersVars, loop, heartbeatVars>>

RuntimeFairness ==
  /\ WF_runtimeVars(InWorkers(Scan))
  /\ \A c \in Workers : WF_runtimeVars(InWorkers(LoopStep(c)))
  /\ WF_runtimeVars(InRelay(Begins)) /\ WF_runtimeVars(InRelay(Ends))
  /\ SF_runtimeVars(InRelay(Collects)) /\ SF_runtimeVars(InRelay(Accepts))
  /\ SF_runtimeVars(InRelay(Hears))

RuntimeSpec == RuntimeInit /\ [][RuntimeNext]_runtimeVars /\ RuntimeFairness
-----------------------------------------------------------------------------
(* server-workspace.ts:34-84, server-data-relay.ts:35-71,                    *)
(* server-source-pull.ts:19-64: no loop ever runs twice at once or stops,    *)
(* whatever is requested, started again or scanned.                          *)
OneTurnAhead == OneTurnPerLoop /\ OneRunAhead
=============================================================================
