--------------------------- MODULE SignedRequests ---------------------------
(***************************************************************************)
(* Signed calls of one role to the vault endpoints: handleLocalData of     *)
(* scripts/local-data-handler.mjs and consumeNonce of                      *)
(* scripts/local-data-store.mjs.                                           *)
(*                                                                         *)
(* A client signs a message with its own clock and a fresh nonce.  The     *)
(* network may deliver copies of it at any time, several at once.  The     *)
(* handler checks the time, waits for the body, checks the signature, and  *)
(* then consumes the nonce and does the work.  A message stands for its    *)
(* nonce; the copies a handler could not tell from it carry the same one.  *)
(***************************************************************************)
EXTENDS Integers, FiniteSets

CONSTANTS
  Messages,   \* signed messages, one nonce each
  Handlers,   \* concurrent calls of handleLocalData
  Window,     \* accepted distance of the client's time (120 s)
  Body,       \* longest wait for a body (5 s)
  Keep,       \* a nonce is kept for this long (360 s)
  RateSpan,   \* the span the rate limit looks at (60 s)
  Rate,       \* nonces accepted within it (120)
  MaxTime     \* bound: last instant of the clock

ASSUME RequestAssumption ==
  /\ Window \in Nat /\ Body \in Nat /\ Keep \in Nat
  /\ RateSpan \in Nat /\ Rate \in Nat /\ MaxTime \in Nat
  /\ Keep >= 2 * Window + Body
  /\ RateSpan <= Keep
ASSUME MessagesAssumption == IsFiniteSet(Messages)

Unsigned == -1
NoNonce == -1
Time == 0 .. MaxTime

VARIABLES
  now,        \* the server's clock
  signedAt,   \* x-nc-data-time of each message
  stage,      \* where each handler is
  message,    \* the message it handles
  since,      \* when it checked the time
  nonces,     \* table nonces: created_at
  runs,       \* how often each message was carried out
  lastRun     \* when it was last carried out

handling == <<stage, message, since>>
requestVars == <<now, signedAt, handling, nonces, runs, lastRun>>

RequestInit ==
  /\ now = 0
  /\ signedAt = [m \in Messages |-> Unsigned]
  /\ stage = [h \in Handlers |-> "idle"]
  /\ message \in [Handlers -> Messages]
  /\ since = [h \in Handlers |-> 0]
  /\ nonces = [m \in Messages |-> NoNonce]
  /\ runs = [m \in Messages |-> 0]
  /\ lastRun = [m \in Messages |-> 0]
-----------------------------------------------------------------------------
\* A client signs a message; its clock may be wrong.
Sign(m, t) ==
  /\ signedAt[m] = Unsigned
  /\ signedAt' = [signedAt EXCEPT ![m] = t]
  /\ UNCHANGED <<now, handling, nonces, runs, lastRun>>

(* A copy arrives and its time is accepted; others are refused at once.    *)
NotTooOld(m) == now - signedAt[m] <= Window
InTime(m) == now - signedAt[m] <= Window /\ signedAt[m] - now <= Window
TimeOfClient(m) == signedAt[m]
CheckedAt(m) == now
Arrive(h, m) ==
  /\ stage[h] = "idle"
  /\ signedAt[m] # Unsigned
  /\ InTime(m)
  /\ stage' = [stage EXCEPT ![h] = "reading"]
  /\ message' = [message EXCEPT ![h] = m]
  /\ since' = [since EXCEPT ![h] = CheckedAt(m)]
  /\ UNCHANGED <<now, signedAt, nonces, runs, lastRun>>

Done(h) ==
  /\ stage' = [stage EXCEPT ![h] = "idle"]
  /\ UNCHANGED <<message, since>>

\* The body does not arrive in time, or is refused, or its signature is.
Drop(h) ==
  /\ stage[h] = "reading"
  /\ Done(h)
  /\ UNCHANGED <<now, signedAt, nonces, runs, lastRun>>

(* consumeNonce(): old nonces go first, then the replay and rate checks.   *)
KeptForWindow == [m \in Messages |-> IF nonces[m] < now - Window THEN NoNonce ELSE nonces[m]]
KeptNonces == [m \in Messages |-> IF nonces[m] < now - Keep THEN NoNonce ELSE nonces[m]]
Recent == {m \in Messages : KeptNonces[m] # NoNonce /\ KeptNonces[m] >= now - RateSpan}
RateReached == Cardinality(Recent) >= Rate

\* The rest of the handler does not wait: the message is carried out.
Execute(h) ==
  /\ stage[h] = "reading"
  /\ KeptNonces[message[h]] = NoNonce
  /\ ~ RateReached
  /\ nonces' = [KeptNonces EXCEPT ![message[h]] = now]
  /\ runs' = [runs EXCEPT ![message[h]] = @ + 1]
  /\ lastRun' = [lastRun EXCEPT ![message[h]] = now]
  /\ Done(h)
  /\ UNCHANGED <<now, signedAt>>

\* A replay, or one call too many: the transaction is rolled back.
Refuse(h) ==
  /\ stage[h] = "reading"
  /\ KeptNonces[message[h]] # NoNonce \/ RateReached
  /\ Done(h)
  /\ UNCHANGED <<now, signedAt, nonces, runs, lastRun>>

\* No handler waits for a body longer than Body.
Tick ==
  /\ now < MaxTime
  /\ \A h \in Handlers : stage[h] = "reading" => now < since[h] + Body
  /\ now' = now + 1
  /\ UNCHANGED <<signedAt, handling, nonces, runs, lastRun>>

RequestNext ==
  \/ \E m \in Messages : \E t \in Time : Sign(m, t)
  \/ \E h \in Handlers : \E m \in Messages : Arrive(h, m)
  \/ \E h \in Handlers : Drop(h) \/ Execute(h) \/ Refuse(h)
  \/ Tick

RequestSpec == RequestInit /\ [][RequestNext]_requestVars
-----------------------------------------------------------------------------
(* Types; a handler's deadline starts at the server's own clock.           *)
RequestTypeOK ==
  /\ now \in Nat
  /\ signedAt \in [Messages -> Int]
  /\ stage \in [Handlers -> {"idle", "reading"}]
  /\ message \in [Handlers -> Messages]
  /\ since \in [Handlers -> 0 .. now]
  /\ nonces \in [Messages -> Int]
  /\ runs \in [Messages -> Nat]
  /\ lastRun \in [Messages -> Nat]

(* A signed message is carried out at most once, however many copies of it *)
(* arrive, however late, however far apart the clocks are and however long *)
(* a body takes (local-data-handler.mjs:47-53, local-data-store.mjs:122).  *)
ExecutedOnce == \A m \in Messages : runs[m] <= 1

(* Never more than Rate messages within a span, even while old nonces are  *)
(* swept (local-data-store.mjs:125-128).                                   *)
RateHolds ==
  Cardinality({m \in Messages : runs[m] > 0 /\ lastRun[m] >= now - RateSpan}) <= Rate
=============================================================================
