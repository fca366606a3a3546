---------------------------- MODULE OutboxRelay -----------------------------
(***************************************************************************)
(* One relay run of a vault: relayOnce of scripts/server-data-relay.mjs.   *)
(*                                                                         *)
(* A run offers the oldest signals of the outbox to the Cloud, deletes the *)
(* ones it accepted, polls for one command, executes it and replies.  The  *)
(* server loop, a workspace worker and a manual retry share the process    *)
(* and its set of active relays.  Every await may fail, and the process    *)
(* may stop at any of them.  The Cloud is external: it accepts any part of *)
(* a batch, and its commands read records it was told about.  The vault is *)
(* fed by its ingestion endpoint; the pulled one writes the same outbox.   *)
(***************************************************************************)
EXTENDS LocalVault

CONSTANTS
  Callers,    \* activities that may call relayOnce
  NoSignal    \* no command

ASSUME RelayAssumption == NoSignal \notin Signal

VARIABLES
  active,     \* activeRelays holds this directory (process memory)
  pc,         \* where each caller is in performRelayOnce
  batch,      \* the signals each caller has offered
  accepted,   \* accepted_ids of the answer it has received
  command,    \* the command it has polled: a signal to read, or NoSignal
  result,     \* the status it is about to reply
  late,       \* signals the Cloud may still receive although nobody waits
  taken       \* signals the Cloud has accepted

runs == <<active, pc, batch, accepted, command, result>>
cloud == <<late, taken>>
relayVars == <<vaultVars, runs, cloud>>

Stages == {"idle", "starting", "sending", "acking", "polling", "executing", "replying"}

RelayInit ==
  /\ VaultInit
  /\ active = FALSE
  /\ pc = [c \in Callers |-> "idle"]
  /\ batch = [c \in Callers |-> {}]
  /\ accepted = [c \in Callers |-> {}]
  /\ command = [c \in Callers |-> NoSignal]
  /\ result = [c \in Callers |-> "none"]
  /\ late = {} /\ taken = {}

\* Whether a directory stays in activeRelays when its run returns.
StaysHeld == active
Held == FALSE

\* performRelayOnce returns, and its finally blocks forget the run.
Ended(c) ==
  /\ active' = Held
  /\ pc' = [pc EXCEPT ![c] = "idle"]
  /\ batch' = [batch EXCEPT ![c] = {}]
  /\ accepted' = [accepted EXCEPT ![c] = {}]
  /\ command' = [command EXCEPT ![c] = NoSignal]
  /\ result' = [result EXCEPT ![c] = "none"]

\* Signals under way whose callers stop waiting: the Cloud may have them yet.
Abandoned(cs) == UNION {batch[c] : c \in {d \in cs : pc[d] = "sending"}} \ taken
-----------------------------------------------------------------------------
(* relayOnce(): a second caller returns at once while a run is active.     *)
WheneverCalled == TRUE
MayBegin == ~active
Begin(c) ==
  /\ pc[c] = "idle"
  /\ MayBegin
  /\ active' = TRUE
  /\ pc' = [pc EXCEPT ![c] = "starting"]
  /\ UNCHANGED <<vaultVars, batch, accepted, command, result, cloud>>

(* The credential is loaded and the server has answered its health check:  *)
(* the outbox is read, and an empty one is not offered.                    *)
Collect(c) ==
  /\ pc[c] = "starting"
  /\ batch' = [batch EXCEPT ![c] = Signals]
  /\ pc' = [pc EXCEPT ![c] = IF Signals = {} THEN "polling" ELSE "sending"]
  /\ UNCHANGED <<vaultVars, active, accepted, command, result, cloud>>

\* The Cloud accepts part of the batch and its answer arrives.
Post(c, part) ==
  /\ pc[c] = "sending"
  /\ part \subseteq batch[c]
  /\ taken' = taken \union part
  /\ late' = late \ part
  /\ accepted' = [accepted EXCEPT ![c] = {s.id : s \in part}]
  /\ pc' = [pc EXCEPT ![c] = "acking"]
  /\ UNCHANGED <<vaultVars, active, batch, command, result>>

(* The answer names signals of the batch only: those are deleted.          *)
WholeBatch(c) == {s.id : s \in batch[c]}
Acknowledged(c) == accepted[c]
Ack(c) ==
  /\ pc[c] = "acking"
  /\ Acknowledge(Acknowledged(c))
  /\ pc' = [pc EXCEPT ![c] = "polling"]
  /\ UNCHANGED <<active, batch, accepted, command, result, cloud>>

(* The long poll ends with no command, or with one to read a record.       *)
PollEmpty(c) ==
  /\ pc[c] = "polling"
  /\ Ended(c)
  /\ UNCHANGED <<vaultVars, cloud>>

Poll(c, s) ==
  /\ pc[c] = "polling"
  /\ command' = [command EXCEPT ![c] = s]
  /\ pc' = [pc EXCEPT ![c] = "executing"]
  /\ UNCHANGED <<vaultVars, active, batch, accepted, result, cloud>>

(* The status a read is answered with: its refusals, in the order of read. *)
ReadStatus(r, minimum) ==
  CASE records[r] = None \/ Expired(records[r]) -> "missing"
    [] records[r].rev < minimum -> "not_ready"
    [] records[r].op = "delete" -> "deleted"
    [] OTHER -> "ok"

Execute(c) ==
  /\ pc[c] = "executing"
  /\ result' = [result EXCEPT ![c] = ReadStatus(command[c].ref, command[c].rev)]
  /\ pc' = [pc EXCEPT ![c] = "replying"]
  /\ UNCHANGED <<vaultVars, active, batch, accepted, command, cloud>>

Reply(c) ==
  /\ pc[c] = "replying"
  /\ Ended(c)
  /\ UNCHANGED <<vaultVars, cloud>>

(* Any await of the run throws, or an answer is refused: nothing it has    *)
(* already done is undone, and what it sent may still arrive.              *)
Fail(c) ==
  /\ pc[c] # "idle"
  /\ late' = late \union Abandoned({c})
  /\ Ended(c)
  /\ UNCHANGED <<vaultVars, taken>>

(* The server stops and starts again: its memory is gone, the vault stays. *)
Restart ==
  /\ active
  /\ active' = FALSE
  /\ pc' = [c \in Callers |-> "idle"]
  /\ batch' = [c \in Callers |-> {}]
  /\ accepted' = [c \in Callers |-> {}]
  /\ command' = [c \in Callers |-> NoSignal]
  /\ result' = [c \in Callers |-> "none"]
  /\ late' = late \union Abandoned(Callers)
  /\ UNCHANGED <<vaultVars, taken>>

\* A request nobody waits for any more reaches the Cloud.
TakeLate(part) ==
  /\ taken' = taken \union part
  /\ late' = late \ part
  /\ UNCHANGED <<vaultVars, runs>>

\* The vault goes on beside the runs.
Announced == (\E c \in Incoming : Put(c)) /\ UNCHANGED <<runs, cloud>>
Passing == Tick /\ UNCHANGED <<runs, cloud>>

RunStep(c) ==
  \/ Begin(c) \/ Collect(c)
  \/ \E part \in SUBSET batch[c] : Post(c, part)
  \/ Ack(c) \/ PollEmpty(c)
  \/ \E s \in taken : Poll(c, s)
  \/ Execute(c) \/ Reply(c) \/ Fail(c)

RelayNext ==
  \/ \E c \in Callers : RunStep(c)
  \/ Restart
  \/ \E part \in SUBSET late : TakeLate(part)
  \/ Announced \/ Passing

RelaySpec == RelayInit /\ [][RelayNext]_relayVars

(* A loop always schedules its next run (lib/server-data-relay.ts:63-66),  *)
(* and a started run always comes to an end, by its timeouts at the latest.*)
(* Of the Cloud it is assumed that, offered batches for ever, it accepts a *)
(* whole one now and then, and that now and then the loop hears of it.     *)
Begins == \E c \in Callers : Begin(c)
Collects == \E c \in Callers : Collect(c)
Accepts == \E c \in Callers : Post(c, batch[c])
Hears == \E c \in Callers : accepted[c] = WholeBatch(c) /\ Ack(c)
Ends == \E c \in Callers : Collect(c) \/ PollEmpty(c) \/ Execute(c) \/ Reply(c) \/ Fail(c)
RelayFairness ==
  /\ WF_relayVars(Begins) /\ WF_relayVars(Ends)
  /\ SF_relayVars(Collects) /\ SF_relayVars(Accepts) /\ SF_relayVars(Hears)

FairRelaySpec == RelaySpec /\ RelayFairness
-----------------------------------------------------------------------------
RelayTypeOK ==
  /\ VaultTypeOK
  /\ active \in BOOLEAN
  /\ pc \in [Callers -> Stages]
  /\ batch \in [Callers -> SUBSET Signal]
  /\ accepted \in [Callers -> SUBSET Nat]
  /\ command \in [Callers -> Signal \union {NoSignal}]
  /\ result \in [Callers -> {"none", "ok", "deleted", "missing", "not_ready"}]
  /\ late \subseteq Signal
  /\ taken \subseteq Signal

(* "A second caller must never consume another poll/reply or acknowledge   *)
(* its outbox batch" (server-data-relay.mjs:88-89): the runs of a vault do *)
(* not overlap, and the scope is held exactly as long as one goes on.      *)
OneRunAtATime ==
  /\ \A c, d \in Callers : (pc[c] # "idle" /\ pc[d] # "idle") => c = d
  /\ active <=> \E c \in Callers : pc[c] # "idle"

(* No signal is lost between the vault and the Cloud: one that leaves the  *)
(* outbox has been accepted, or is past its retention.  Refused and        *)
(* unanswered batches, late deliveries, restarts and puts that clean up in *)
(* the middle of a run included (server-data-relay.mjs:113-126).           *)
NoSignalIsLost ==
  [][\A s \in outbox \ outbox' : s \in taken \/ Expired(s)]_relayVars

(* A read the Cloud asks for because it took a signal is served: it never  *)
(* comes back as missing or not ready while that change is within its      *)
(* retention, however late the signal was taken and the command polled     *)
(* (local-data-store.mjs:200-207, server-data-relay.mjs:130-171).          *)
InvitedReadIsServed ==
  [][\A c \in Callers :
       (result'[c] \in {"missing", "not_ready"} /\ result[c] = "none")
         => Expired(command[c])]_relayVars

(* Signals do not wait for ever: each one is acknowledged or expires, also *)
(* behind older ones that failed many times (server-data-relay.mjs:113).   *)
Live(i) == \E s \in KeptSignals : s.id = i
OutboxDrains == \A i \in 1 .. MaxRev * Cardinality(Refs) : Live(i) ~> ~Live(i)

Offered == late \union UNION {batch[c] : c \in {d \in Callers : pc[d] = "sending"}}

(* The runs and the vault together deliver signals as SignalDelivery says. *)
Delivery == INSTANCE SignalDelivery WITH
  pending <- outbox, offered <- Offered, known <- taken,
  dead <- {s \in outbox : Expired(s)}
DeliversSignals == Delivery!DeliverySpec
=============================================================================
