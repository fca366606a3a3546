------------------------- MODULE LocalCallsProofs --------------------------
(***************************************************************************)
(* Proofs about LocalCalls, for any number of messages, handlers, writes,  *)
(* products and reads and any clocks of the clients.  Each part keeps an   *)
(* invariant of its own, which the steps of the others leave alone.        *)
(*                                                                         *)
(* Signed requests: a message that was carried out once is remembered by   *)
(* its nonce, or so long ago that no handler can still hold a copy whose   *)
(* time was accepted: Keep >= 2 * Window + Body leaves no gap between the  *)
(* two.                                                                    *)
(***************************************************************************)
EXTENDS LocalCalls, FiniteSetTheorems, TLAPS

\* A handler that waits for a body checked the time at most Body ago.
Accepted(h) ==
  /\ signedAt[message[h]] # Unsigned
  /\ since[h] - signedAt[message[h]] <= Window
  /\ signedAt[message[h]] - since[h] <= Window
  /\ now <= since[h] + Body
ReadersAccepted == \A h \in Handlers : stage[h] = "reading" => Accepted(h)

\* What was carried out is remembered, or longer ago than nonces are kept.
Carried(m) ==
  /\ signedAt[m] # Unsigned
  /\ lastRun[m] >= signedAt[m] - Window
  /\ lastRun[m] <= now
  /\ nonces[m] = lastRun[m] \/ (nonces[m] = NoNonce /\ now > lastRun[m] + Keep)
RunsRemembered == \A m \in Messages : runs[m] > 0 => Carried(m)

CarriedLately == {m \in Messages : runs[m] > 0 /\ lastRun[m] >= now - RateSpan}

RequestInv ==
  /\ RequestTypeOK
  /\ ReadersAccepted
  /\ RunsRemembered
  /\ ExecutedOnce
  /\ RateHolds
-----------------------------------------------------------------------------
(* The swept table keeps every nonce of the last Keep instants.            *)
LEMMA KeptNoncesValue ==
  ASSUME NEW m \in Messages
  PROVE  KeptNonces[m] = IF nonces[m] < now - Keep THEN NoNonce ELSE nonces[m]
  BY DEF KeptNonces

(* Every message carried out within the rate's span has a nonce that the   *)
(* rate limit counts.                                                      *)
LEMMA LatelyIsRecent ==
  ASSUME RequestTypeOK, RunsRemembered
  PROVE  CarriedLately \subseteq Recent
<1> SUFFICES ASSUME NEW m \in Messages, runs[m] > 0, lastRun[m] >= now - RateSpan
             PROVE  m \in Recent
  BY DEF CarriedLately
<1> USE RequestAssumption
<1>1. /\ now \in Nat
      /\ lastRun[m] \in Nat
      /\ nonces[m] \in Int
  BY DEF RequestTypeOK
<1>2. nonces[m] = lastRun[m]
  BY <1>1 DEF RunsRemembered, Carried
<1>3. KeptNonces[m] = nonces[m]
  BY <1>1, <1>2, KeptNoncesValue
<1> QED
  BY <1>1, <1>2, <1>3 DEF Recent, NoNonce

(* No second execution: a copy that a handler still holds was accepted so  *)
(* recently that the nonce of the first one is still there.                *)
LEMMA FirstRun ==
  ASSUME RequestInv, NEW h \in Handlers, Execute(h)
  PROVE  runs[message[h]] = 0
<1> DEFINE m == message[h]
<1> USE RequestAssumption
<1>1. /\ m \in Messages
      /\ now \in Nat
      /\ signedAt[m] \in Int
      /\ since[h] \in Nat
      /\ nonces[m] \in Int
      /\ runs[m] \in Nat
      /\ lastRun[m] \in Nat
  BY DEF RequestInv, RequestTypeOK
<1>2. Accepted(h)
  BY DEF RequestInv, ReadersAccepted, Execute
<1>3. now <= signedAt[m] + Window + Body
  BY <1>1, <1>2 DEF Accepted
<1>4. ASSUME runs[m] > 0 PROVE FALSE
  <2>1. Carried(m)
    BY <1>1, <1>4 DEF RequestInv, RunsRemembered
  <2>2. KeptNonces[m] = NoNonce
    BY DEF Execute
  <2>3. now > lastRun[m] + Keep
    BY <1>1, <2>1, <2>2, KeptNoncesValue DEF Carried, NoNonce
  <2> QED
    BY <1>1, <1>3, <2>1, <2>3 DEF Carried
<1> QED
  BY <1>1, <1>4
-----------------------------------------------------------------------------
LEMMA RequestInitInv == RequestInit => RequestInv
<1> SUFFICES ASSUME RequestInit PROVE RequestInv
  OBVIOUS
<1>1. RequestTypeOK
  BY DEF RequestInit, RequestTypeOK, Unsigned, NoNonce
<1>2. ReadersAccepted /\ RunsRemembered /\ ExecutedOnce
  BY DEF RequestInit, ReadersAccepted, RunsRemembered, ExecutedOnce
<1>3. CarriedLately = {}
  BY DEF RequestInit, CarriedLately
<1>4. RateHolds
  BY <1>3, FS_EmptySet, RequestAssumption DEF RateHolds, CarriedLately
<1> QED
  BY <1>1, <1>2, <1>4 DEF RequestInv

LEMMA RequestTypeStep ==
  ASSUME RequestInv, [RequestNext]_requestVars
  PROVE  RequestTypeOK'
<1> USE DEF RequestInv, RequestTypeOK, handling
<1> USE RequestAssumption
<1>1. ASSUME NEW m \in Messages, NEW t \in Time, Sign(m, t) PROVE RequestTypeOK'
  BY <1>1 DEF Sign, Time
<1>2. ASSUME NEW h \in Handlers, NEW m \in Messages, Arrive(h, m) PROVE RequestTypeOK'
  BY <1>2 DEF Arrive, CheckedAt
<1>3. ASSUME NEW h \in Handlers, Drop(h) \/ Refuse(h) PROVE RequestTypeOK'
  BY <1>3 DEF Drop, Refuse, Done
<1>4. ASSUME NEW h \in Handlers, Execute(h) PROVE RequestTypeOK'
  <2>1. KeptNonces \in [Messages -> Int]
    BY DEF KeptNonces, NoNonce
  <2> QED
    BY <1>4, <2>1 DEF Execute, Done
<1>5. CASE Tick
  BY <1>5 DEF Tick
<1>6. CASE UNCHANGED requestVars
  BY <1>6 DEF requestVars
<1> QED
  BY <1>1, <1>2, <1>3, <1>4, <1>5, <1>6 DEF RequestNext

LEMMA ReadersStep ==
  ASSUME RequestInv, [RequestNext]_requestVars
  PROVE  ReadersAccepted'
<1> USE DEF RequestInv, RequestTypeOK, handling, ReadersAccepted, Accepted
<1> USE RequestAssumption
<1>1. ASSUME NEW m \in Messages, NEW t \in Time, Sign(m, t) PROVE ReadersAccepted'
  BY <1>1 DEF Sign
<1>2. ASSUME NEW h \in Handlers, NEW m \in Messages, Arrive(h, m) PROVE ReadersAccepted'
  BY <1>2 DEF Arrive, InTime, CheckedAt
<1>3. ASSUME NEW h \in Handlers, Drop(h) \/ Refuse(h) \/ Execute(h) PROVE ReadersAccepted'
  BY <1>3 DEF Drop, Refuse, Execute, Done
<1>4. CASE Tick
  BY <1>4 DEF Tick
<1>5. CASE UNCHANGED requestVars
  BY <1>5 DEF requestVars
<1> QED
  BY <1>1, <1>2, <1>3, <1>4, <1>5 DEF RequestNext

LEMMA RunsStep ==
  ASSUME RequestInv, [RequestNext]_requestVars
  PROVE  RunsRemembered' /\ ExecutedOnce'
<1> USE RequestAssumption
<1> USE DEF RunsRemembered, ExecutedOnce, Carried
<1>1. ASSUME NEW m \in Messages, NEW t \in Time, Sign(m, t) PROVE RunsRemembered' /\ ExecutedOnce'
  BY <1>1 DEF Sign, RequestInv, RequestTypeOK
<1>2. ASSUME NEW h \in Handlers, Drop(h) \/ Refuse(h) \/ \E m \in Messages : Arrive(h, m)
      PROVE  RunsRemembered' /\ ExecutedOnce'
  BY <1>2 DEF Drop, Refuse, Arrive, RequestInv
<1>3. ASSUME NEW h \in Handlers, Execute(h) PROVE RunsRemembered' /\ ExecutedOnce'
  <2>1. runs[message[h]] = 0
    BY <1>3, FirstRun
  <2>2. Accepted(h)
    BY <1>3 DEF RequestInv, ReadersAccepted, Execute
  <2>3. SUFFICES ASSUME NEW m \in Messages PROVE runs'[m] <= 1 /\ (runs'[m] > 0 => Carried(m)')
    OBVIOUS
  <2>4. /\ now \in Nat /\ now' = now /\ signedAt' = signedAt
        /\ signedAt[m] \in Int /\ nonces[m] \in Int /\ lastRun[m] \in Nat /\ runs[m] \in Nat
        /\ since[h] \in 0 .. now /\ message[h] \in Messages
    BY <1>3 DEF Execute, RequestInv, RequestTypeOK
  <2>5. /\ runs' = [runs EXCEPT ![message[h]] = @ + 1]
        /\ lastRun' = [lastRun EXCEPT ![message[h]] = now]
        /\ nonces' = [KeptNonces EXCEPT ![message[h]] = now]
    BY <1>3 DEF Execute
  <2>6. CASE m = message[h]
    <3>1. runs'[m] = 1 /\ lastRun'[m] = now
      BY <2>1, <2>4, <2>5, <2>6 DEF RequestInv, RequestTypeOK
    <3>2. nonces'[m] = now
      BY <2>5, <2>6 DEF KeptNonces
    <3> QED
      BY <2>2, <2>4, <2>6, <3>1, <3>2 DEF Accepted
  <2>7. CASE m # message[h]
    <3>1. runs'[m] = runs[m] /\ lastRun'[m] = lastRun[m]
      BY <2>5, <2>7 DEF RequestInv, RequestTypeOK
    <3>2. nonces'[m] = KeptNonces[m]
      BY <2>5, <2>7 DEF KeptNonces
    <3>3. runs[m] <= 1 /\ (runs[m] > 0 => Carried(m))
      BY DEF RequestInv
    <3> QED
      BY <2>4, <3>1, <3>2, <3>3, KeptNoncesValue DEF NoNonce
  <2> QED
    BY <2>6, <2>7
<1>4. CASE Tick
  BY <1>4 DEF Tick, RequestInv, RequestTypeOK
<1>5. CASE UNCHANGED requestVars
  BY <1>5 DEF requestVars, RequestInv
<1> QED
  BY <1>1, <1>2, <1>3, <1>4, <1>5 DEF RequestNext

LEMMA RateStep ==
  ASSUME RequestInv, [RequestNext]_requestVars
  PROVE  RateHolds'
<1> USE RequestAssumption
<1>1. IsFiniteSet(CarriedLately)
  BY MessagesAssumption, FS_Subset DEF CarriedLately
<1>2. Cardinality(CarriedLately) <= Rate
  BY DEF RequestInv, RateHolds, CarriedLately
<1>3. SUFFICES Cardinality(CarriedLately') <= Rate
  BY DEF RateHolds, CarriedLately
<1>4. CASE CarriedLately' \subseteq CarriedLately
  <2>1. Cardinality(CarriedLately') <= Cardinality(CarriedLately)
    BY <1>1, <1>4, FS_Subset
  <2>2. Cardinality(CarriedLately') \in Nat /\ Cardinality(CarriedLately) \in Nat
    BY <1>1, <1>4, FS_Subset, FS_CardinalityType
  <2> QED
    BY <1>2, <2>1, <2>2
<1>5. ASSUME NEW h \in Handlers, Execute(h) PROVE Cardinality(CarriedLately') <= Rate
  <2>1. IsFiniteSet(Recent)
    BY MessagesAssumption, FS_Subset DEF Recent
  <2>2. CarriedLately' \subseteq Recent \cup {message[h]}
    <3>1. CarriedLately' \subseteq CarriedLately \cup {message[h]}
      BY <1>5 DEF Execute, CarriedLately, RequestInv, RequestTypeOK
    <3>2. CarriedLately \subseteq Recent
      BY LatelyIsRecent DEF RequestInv
    <3> QED
      BY <3>1, <3>2
  <2>3. /\ IsFiniteSet(Recent \cup {message[h]})
        /\ Cardinality(Recent \cup {message[h]}) <= Cardinality(Recent) + 1
    <3>1. Cardinality(Recent) \in Nat
      BY <2>1, FS_CardinalityType
    <3>2. IsFiniteSet(Recent \cup {message[h]})
      BY <2>1, FS_AddElement
    <3>3. Cardinality(Recent \cup {message[h]}) \in {Cardinality(Recent), Cardinality(Recent) + 1}
      BY <2>1, FS_AddElement
    <3> QED
      BY <3>1, <3>2, <3>3
  <2>4. Cardinality(Recent) < Rate /\ Cardinality(Recent) \in Nat
    BY <1>5, <2>1, FS_CardinalityType DEF Execute, RateReached
  <2>5. Cardinality(CarriedLately') <= Cardinality(Recent \cup {message[h]})
    BY <2>2, <2>3, FS_Subset
  <2>6. Cardinality(CarriedLately') \in Nat /\ Cardinality(Recent \cup {message[h]}) \in Nat
    BY <2>2, <2>3, FS_Subset, FS_CardinalityType
  <2> QED
    BY <2>3, <2>4, <2>5, <2>6
<1>6. ASSUME NEW m \in Messages, NEW t \in Time, Sign(m, t) PROVE CarriedLately' \subseteq CarriedLately
  BY <1>6 DEF Sign, CarriedLately
<1>7. ASSUME NEW h \in Handlers, Drop(h) \/ Refuse(h) \/ \E m \in Messages : Arrive(h, m)
      PROVE  CarriedLately' \subseteq CarriedLately
  BY <1>7 DEF Drop, Refuse, Arrive, CarriedLately
<1>8. CASE Tick
  <2>1. CarriedLately' \subseteq CarriedLately
    BY <1>8 DEF Tick, CarriedLately, RequestInv, RequestTypeOK
  <2> QED
    BY <1>4, <2>1
<1>9. CASE UNCHANGED requestVars
  <2>1. CarriedLately' \subseteq CarriedLately
    BY <1>9 DEF requestVars, CarriedLately
  <2> QED
    BY <1>4, <2>1
<1> QED
  BY <1>4, <1>5, <1>6, <1>7, <1>8, <1>9 DEF RequestNext

LEMMA RequestStep == RequestInv /\ [RequestNext]_requestVars => RequestInv'
  BY RequestTypeStep, ReadersStep, RunsStep, RateStep DEF RequestInv

LEMMA RequestInvariant == CallsSpec => []RequestInv
<1>1. CallsInit => RequestInv
  BY RequestInitInv DEF CallsInit
<1>2. RequestInv /\ [CallsNext]_callsVars => RequestInv'
  BY RequestStep DEF CallsNext, callsVars
<1> QED
  BY <1>1, <1>2, PTL DEF CallsSpec
(* The variables keep their types (local-data-handler.mjs:37).             *)
THEOREM RequestTypeCorrect == CallsSpec => []RequestTypeOK
<1>1. RequestInv => RequestTypeOK
  BY DEF RequestInv
<1> QED
  BY <1>1, RequestInvariant, PTL

(* A signed message is carried out at most once, for any copies, handlers  *)
(* and clocks (local-data-handler.mjs:47-53, local-data-store.mjs:122).    *)
THEOREM NoReplay == CallsSpec => []ExecutedOnce
<1>1. RequestInv => ExecutedOnce
  BY DEF RequestInv
<1> QED
  BY <1>1, RequestInvariant, PTL

(* The rate limit holds over every span (local-data-store.mjs:125-128).    *)
THEOREM RateIsLimited == CallsSpec => []RateHolds
<1>1. RequestInv => RateHolds
  BY DEF RequestInv
<1> QED
  BY <1>1, RequestInvariant, PTL
-----------------------------------------------------------------------------
(* Private states: what was written and may still be repeated is not older *)
(* than its request, and the state it replaced is not there any more.      *)
State == Writes \union {None}
Order == [key : Keys, base : State, age : Nat]

PrivateTypeOK ==
  /\ row \in [Keys -> State] /\ age \in [Keys -> Nat]
  /\ order \in [Writes -> Order \union {None}]
  /\ seen \in [Keys -> SUBSET State] /\ wrote \subseteq Writes

KnownWereStored == \A k \in Keys : {row[k]} \union seen[k] \subseteq wrote \union {None}

BasesWereStored ==
  \A w \in Writes : order[w] # None => order[w].base \in (wrote \union {None}) \ {w}

Superseded(w) == age[order[w].key] <= order[w].age /\ row[order[w].key] \notin {None, order[w].base}
StoredOnce == \A w \in wrote : order[w] # None /\ (order[w].age <= Patience => Superseded(w))

PrivateInv == PrivateTypeOK /\ KnownWereStored /\ BasesWereStored /\ StoredOnce

LEMMA NoneIsNoOrder == None \notin Writes /\ None \notin Order /\ None \notin Keys \X State
  BY PrivateStateAssumption DEF State, Order

LEMMA PrivateInitInv == PrivateInit => PrivateInv
  BY DEF PrivateInit, PrivateInv, PrivateTypeOK, KnownWereStored, BasesWereStored, StoredOnce, State

LEMMA CurrentIs ==
  ASSUME PrivateInv, NEW k \in Keys
  PROVE  Current(k) \in {row[k], None} /\ Current(k) \in wrote \union {None} /\ Current(k) \in State
  BY DEF PrivateInv, PrivateTypeOK, KnownWereStored, Current, State

(* An answer shows the Cloud nothing that was not stored.                  *)
LEMMA AnswerShows ==
  ASSUME PrivateInv, NEW k \in Keys, NEW s \in State, NEW T \in SUBSET Writes,
         s \in T \union {None}, wrote \subseteq T, Answered(k, s)
  PROVE  seen' \in [Keys -> SUBSET State] /\ \A j \in Keys : seen'[j] \subseteq T \union {None}
<1>1. seen \in [Keys -> SUBSET State] /\ \A j \in Keys : seen[j] \subseteq T \union {None}
  BY DEF PrivateInv, PrivateTypeOK, KnownWereStored
<1>2. [seen EXCEPT ![k] = @ \union {s}] \in [Keys -> SUBSET State]
  BY <1>1
<1>3. \A j \in Keys : [seen EXCEPT ![k] = @ \union {s}][j] \subseteq T \union {None}
  BY <1>1
<1> QED
  BY <1>1, <1>2, <1>3 DEF Answered

(* While a write may be repeated, the key it was stored under is not stale *)
(* and holds another state than the one it replaces.                       *)
LEMMA NotAgain ==
  ASSUME PrivateInv, NEW w \in wrote, Arrives(w)
  PROVE  Conflicts(w) /\ Current(order[w].key) = row[order[w].key]
<1>1. order[w] \in Order /\ Superseded(w) /\ order[w].age <= Patience
  BY DEF PrivateInv, PrivateTypeOK, StoredOnce, Arrives
<1>2. age[order[w].key] \in Nat /\ order[w].age \in Nat
  BY <1>1 DEF PrivateInv, PrivateTypeOK, Order
<1>3. age[order[w].key] <= KeepState
  BY <1>1, <1>2, PrivateStateAssumption DEF Superseded
<1> QED
  BY <1>1, <1>3 DEF Conflicts, Current, Superseded

LEMMA StoreInv == ASSUME PrivateInv, NEW w \in Writes, StoreWrite(w) PROVE PrivateInv' /\ w \notin wrote
<1> DEFINE k == order[w].key
<1>1. order[w] \in Order /\ k \in Keys /\ w \notin wrote
  BY NotAgain DEF StoreWrite, Arrives, PrivateInv, PrivateTypeOK, Order
<1>2. row' = [Cleaned EXCEPT ![k] = w] /\ age' = [age EXCEPT ![k] = 0] /\ order' = order
      /\ wrote' = wrote \union {w}
  BY DEF StoreWrite
<1>3. /\ \A j \in Keys \ {k} : row'[j] = Current(j) /\ age'[j] = age[j]
      /\ row'[k] = w /\ age'[k] = 0
  BY <1>1, <1>2 DEF Cleaned, PrivateInv, PrivateTypeOK
<1>4. seen' \in [Keys -> SUBSET State] /\ \A j \in Keys : seen'[j] \subseteq wrote' \union {None}
  <2>1. w \in State /\ wrote' \in SUBSET Writes /\ Answered(k, w)
    BY <1>2 DEF StoreWrite, State, PrivateInv, PrivateTypeOK
  <2> QED
    BY <1>1, <1>2, <2>1, AnswerShows
<1>5. PrivateTypeOK'
  <2>1. Cleaned \in [Keys -> State]
    BY CurrentIs DEF Cleaned
  <2> QED
    BY <1>2, <1>4, <2>1 DEF PrivateInv, PrivateTypeOK, State
<1>6. KnownWereStored'
  BY <1>2, <1>3, <1>4, CurrentIs DEF KnownWereStored
<1>7. BasesWereStored'
  BY <1>2 DEF BasesWereStored, PrivateInv
<1>8. StoredOnce'
  <2> SUFFICES ASSUME NEW v \in wrote', order'[v].age <= Patience
               PROVE  Superseded(v)' /\ order'[v] # None
    BY <1>1, <1>2, NoneIsNoOrder DEF StoredOnce, PrivateInv
  <2>1. v \in Writes /\ order[v] # None /\ order[v] \in Order
    BY <1>1, <1>2, NoneIsNoOrder DEF PrivateInv, PrivateTypeOK, StoredOnce
  <2>2. CASE order[v].key = k
    <3>1. order[v].base \in (wrote \union {None}) \ {v}
      BY <2>1 DEF PrivateInv, BasesWereStored
    <3>2. w \notin {None, order[v].base}
      BY <1>1, <3>1, NoneIsNoOrder
    <3>3. order[v].age \in Nat
      BY <2>1 DEF Order
    <3> QED
      BY <1>2, <1>3, <2>1, <2>2, <3>2, <3>3 DEF Superseded
  <2>3. CASE order[v].key # k
    <3>1. v \in wrote /\ Arrives(v)
      BY <1>2, <2>1, <2>3 DEF Arrives
    <3>2. Superseded(v) /\ Current(order[v].key) = row[order[v].key]
      BY <1>2, <3>1, NotAgain DEF PrivateInv, StoredOnce
    <3>3. order[v].key \in Keys
      BY <2>1 DEF Order
    <3> QED
      BY <1>2, <1>3, <2>1, <2>3, <3>2, <3>3 DEF Superseded
  <2> QED
    BY <2>2, <2>3
<1> QED
  BY <1>1, <1>5, <1>6, <1>7, <1>8 DEF PrivateInv

(* A clean-up leaves what could be read as it was.                         *)
LEMMA CleanedInv ==
  ASSUME PrivateInv, row' = Cleaned, UNCHANGED <<age, order, wrote>>,
         seen' \in [Keys -> SUBSET State], \A j \in Keys : seen'[j] \subseteq wrote \union {None}
  PROVE  PrivateInv'
<1>1. \A j \in Keys : row'[j] = Current(j)
  BY DEF Cleaned
<1>2. PrivateTypeOK'
  <2>1. Cleaned \in [Keys -> State]
    BY CurrentIs DEF Cleaned
  <2> QED
    BY <2>1 DEF PrivateInv, PrivateTypeOK
<1>3. KnownWereStored'
  BY <1>1, CurrentIs DEF KnownWereStored
<1>4. BasesWereStored'
  BY DEF PrivateInv, BasesWereStored
<1>5. StoredOnce'
  <2> SUFFICES ASSUME NEW v \in wrote, order[v].age <= Patience
               PROVE  Superseded(v)'
    BY DEF StoredOnce, PrivateInv
  <2>1. order[v] # None /\ Superseded(v) /\ order[v].key \in Keys
    BY NoneIsNoOrder DEF PrivateInv, PrivateTypeOK, StoredOnce, Order
  <2>2. Current(order[v].key) = row[order[v].key]
    BY <2>1, NotAgain DEF Arrives
  <2> QED
    BY <1>1, <2>1, <2>2 DEF Superseded
<1> QED
  BY <1>2, <1>3, <1>4, <1>5 DEF PrivateInv

LEMMA RepeatInv == ASSUME PrivateInv, NEW w \in Writes, RepeatWrite(w) PROVE PrivateInv'
<1>1. order[w].key \in Keys /\ w \in State /\ w \in wrote
  BY NoneIsNoOrder, CurrentIs DEF RepeatWrite, Arrives, Repeated, PrivateInv, PrivateTypeOK, Order, State
<1>2. seen' \in [Keys -> SUBSET State] /\ \A j \in Keys : seen'[j] \subseteq wrote \union {None}
  BY <1>1, AnswerShows DEF RepeatWrite, PrivateInv, PrivateTypeOK
<1> QED
  BY <1>2, CleanedInv DEF RepeatWrite

LEMMA ReadInv == ASSUME PrivateInv, NEW k \in Keys, ReadState(k) PROVE PrivateInv'
<1>1. seen' \in [Keys -> SUBSET State] /\ \A j \in Keys : seen'[j] \subseteq wrote \union {None}
  BY CurrentIs, AnswerShows DEF ReadState, PrivateInv, PrivateTypeOK
<1> QED
  BY <1>1 DEF ReadState, PrivateInv, PrivateTypeOK, KnownWereStored, BasesWereStored, StoredOnce, Superseded

LEMMA DeriveInv ==
  ASSUME PrivateInv, NEW w \in Writes, NEW k \in Keys, NEW base \in seen[k], Derive(w, k, base)
  PROVE  PrivateInv'
<1> DEFINE asking == [key |-> k, base |-> base, age |-> 0]
<1>1. w \notin wrote /\ base \in (wrote \union {None}) \ {w} /\ base \in State
  BY NoneIsNoOrder DEF PrivateInv, PrivateTypeOK, KnownWereStored, StoredOnce, Derive, State
<1>2. asking \in Order
  BY <1>1 DEF Order
<1>3. order' = [order EXCEPT ![w] = asking] /\ UNCHANGED <<row, age, seen, wrote>>
  BY DEF Derive
<1>4. order' \in [Writes -> Order \union {None}]
  BY <1>2, <1>3 DEF PrivateInv, PrivateTypeOK
<1>5. \A v \in Writes : order'[v] = IF v = w THEN asking ELSE order[v]
  BY <1>3 DEF PrivateInv, PrivateTypeOK
<1>6. BasesWereStored'
  BY <1>1, <1>3, <1>5 DEF BasesWereStored, PrivateInv
<1>7. StoredOnce'
  BY <1>1, <1>3, <1>5 DEF StoredOnce, Superseded, PrivateInv, PrivateTypeOK
<1> QED
  BY <1>3, <1>4, <1>6, <1>7 DEF PrivateInv, PrivateTypeOK, KnownWereStored

LEMMA PassesInv == ASSUME PrivateInv, Passes PROVE PrivateInv'
<1>1. age' \in [Keys -> Nat] /\ \A k \in Keys : age'[k] <= age[k] + 1
  BY PrivateStateAssumption DEF Passes, Least, PrivateInv, PrivateTypeOK
<1>2. \A w \in Writes : order[w] # None =>
        /\ order'[w] \in Order
        /\ order'[w].key = order[w].key /\ order'[w].base = order[w].base
        /\ order'[w].age <= Patience => order'[w].age = order[w].age + 1
  <2> SUFFICES ASSUME NEW w \in Writes, order[w] # None
               PROVE  /\ order'[w] \in Order
                      /\ order'[w].key = order[w].key /\ order'[w].base = order[w].base
                      /\ order'[w].age <= Patience => order'[w].age = order[w].age + 1
    OBVIOUS
  <2>1. order[w] \in Order /\ order[w].age \in Nat
    BY DEF PrivateInv, PrivateTypeOK, Order
  <2>2. Least(order[w].age + 1, Patience + 1) \in Nat
    BY <2>1, PrivateStateAssumption DEF Least
  <2>3. order'[w] = [order[w] EXCEPT !.age = Least(@ + 1, Patience + 1)]
    BY DEF Passes
  <2>4. order'[w].age = Least(order[w].age + 1, Patience + 1)
    BY <2>1, <2>3 DEF Order
  <2> QED
    BY <2>1, <2>2, <2>3, <2>4, PrivateStateAssumption DEF Order, Least
<1>3. \A w \in Writes : order[w] = None => order'[w] = None
  BY DEF Passes
<1>4. PrivateTypeOK'
  <2>1. order' \in [Writes -> Order \union {None}]
    BY <1>2, <1>3 DEF Passes
  <2> QED
    BY <1>1, <2>1 DEF PrivateInv, PrivateTypeOK, Passes
<1>5. BasesWereStored'
  BY <1>2, <1>3 DEF BasesWereStored, PrivateInv, Passes
<1>6. StoredOnce'
  <2>0. wrote' = wrote /\ \A v \in wrote : order'[v] # None
    BY <1>2, NoneIsNoOrder DEF PrivateInv, PrivateTypeOK, StoredOnce, Passes
  <2> SUFFICES ASSUME NEW v \in wrote, order'[v].age <= Patience
               PROVE  Superseded(v)'
    BY <2>0 DEF StoredOnce
  <2>1. v \in Writes /\ order[v] # None /\ order[v] \in Order
    BY NoneIsNoOrder DEF PrivateInv, PrivateTypeOK, StoredOnce
  <2>2. order'[v].age = order[v].age + 1 /\ order'[v].key = order[v].key /\ order'[v].base = order[v].base
        /\ order'[v] # None
    BY <1>2, <2>1, NoneIsNoOrder
  <2>3. order[v].age \in Nat /\ order[v].key \in Keys /\ age[order[v].key] \in Nat /\ age'[order[v].key] \in Nat
    BY <1>1, <2>1 DEF Order, PrivateInv, PrivateTypeOK
  <2>4. Superseded(v)
    BY <2>2, <2>3, PrivateStateAssumption DEF PrivateInv, StoredOnce
  <2> QED
    BY <1>1, <2>2, <2>3, <2>4 DEF Superseded, Passes
<1> QED
  BY <1>4, <1>5, <1>6 DEF PrivateInv, KnownWereStored, Passes

LEMMA PrivateStep == PrivateInv /\ [PrivateNext]_privateVars => PrivateInv'
<1> SUFFICES ASSUME PrivateInv, [PrivateNext]_privateVars PROVE PrivateInv'
  OBVIOUS
<1>1. ASSUME NEW w \in Writes, RefuseWrite(w) PROVE PrivateInv'
  BY <1>1 DEF RefuseWrite, privateVars, PrivateInv, PrivateTypeOK, KnownWereStored, BasesWereStored, StoredOnce, Superseded
<1>2. CASE UNCHANGED privateVars
  BY <1>2 DEF privateVars, PrivateInv, PrivateTypeOK, KnownWereStored, BasesWereStored, StoredOnce, Superseded
<1> QED
  BY <1>1, <1>2, ReadInv, DeriveInv, RepeatInv, StoreInv, PassesInv DEF PrivateNext

(* Each step is one of the register's, or none.                            *)
Asked == [w \in Writes |-> IF order[w] = None THEN None ELSE <<order[w].key, order[w].base>>]
Value == [k \in Keys |-> Current(k)]

LEMMA OnceInitially == PrivateInit => Once!OnceInit
  BY DEF PrivateInit, Once!OnceInit, Current

LEMMA StoreIsWrite == ASSUME PrivateInv, NEW w \in Writes, StoreWrite(w) PROVE Once!Write(w)
<1> DEFINE k == order[w].key
<1>1. order[w] \in Order /\ k \in Keys /\ w \notin wrote /\ order[w] # None
  BY StoreInv DEF StoreWrite, Arrives, PrivateInv, PrivateTypeOK, Order
<1>2. Asked[w] = <<k, order[w].base>> /\ Asked[w] # None /\ Asked' = Asked
  <2>1. <<k, order[w].base>> # None
    BY <1>1, NoneIsNoOrder DEF Order
  <2> QED
    BY <1>1, <2>1 DEF Asked, StoreWrite
<1>3. Value[k] = order[w].base
  BY <1>1 DEF Value, StoreWrite, Conflicts
<1>4. row' = [Cleaned EXCEPT ![k] = w] /\ age' = [age EXCEPT ![k] = 0]
  BY DEF StoreWrite
<1>5. \A j \in Keys : Current(j)' = IF j = k THEN w ELSE Current(j)
  <2>1. \A j \in Keys : row'[j] = IF j = k THEN w ELSE Current(j)
    BY <1>4 DEF Cleaned
  <2>2. \A j \in Keys : age'[j] = IF j = k THEN 0 ELSE age[j]
    BY <1>4 DEF PrivateInv, PrivateTypeOK
  <2> QED
    BY <2>1, <2>2, PrivateStateAssumption DEF Current
<1>6. Value' = [Value EXCEPT ![k] = w]
  BY <1>5 DEF Value
<1> QED
  BY <1>1, <1>2, <1>3, <1>6 DEF Once!Write, Asked, Value, StoreWrite

LEMMA DeriveIsAsk ==
  ASSUME PrivateInv, NEW w \in Writes, NEW k \in Keys, NEW base \in seen[k], Derive(w, k, base)
  PROVE  Once!Ask(w)
<1>1. base \in State
  BY DEF PrivateInv, PrivateTypeOK
<1>2. [key |-> k, base |-> base, age |-> 0] # None
  BY <1>1, NoneIsNoOrder DEF Order
<1>3. Asked' = [Asked EXCEPT ![w] = <<k, base>>]
  BY <1>2 DEF Asked, Derive, PrivateInv, PrivateTypeOK
<1>4. Value' = Value
  BY DEF Value, Current, Derive
<1> QED
  BY <1>1, <1>3, <1>4 DEF Once!Ask, Asked, Value, Derive, State

LEMMA PassesForgets == ASSUME PrivateInv, Passes PROVE Once!Forget
<1>1. Asked' = Asked
  <2> SUFFICES ASSUME NEW w \in Writes, order[w] # None
               PROVE  order'[w] # None /\ order'[w].key = order[w].key /\ order'[w].base = order[w].base
    BY DEF Asked, Passes
  <2>1. order[w] \in Order
    BY DEF PrivateInv, PrivateTypeOK
  <2>2. order'[w] = [order[w] EXCEPT !.age = Least(@ + 1, Patience + 1)]
    BY DEF Passes
  <2>3. order'[w] \in Order
    BY PassesInv, <2>1, <2>2, PrivateStateAssumption DEF Order, Least
  <2> QED
    BY <2>1, <2>2, <2>3, NoneIsNoOrder DEF Order
<1>2. \A k \in Keys : Current(k)' \in {Current(k), None} /\ Current(k)' \in State
  <2> SUFFICES ASSUME NEW k \in Keys PROVE Current(k)' \in {Current(k), None} /\ Current(k)' \in State
    OBVIOUS
  <2>1. age[k] \in Nat /\ row' = row /\ row[k] \in State /\ age'[k] = Least(age[k] + 1, KeepState + 1)
    BY DEF Passes, PrivateInv, PrivateTypeOK
  <2>2. age'[k] <= KeepState => age[k] <= KeepState
    BY <2>1, PrivateStateAssumption DEF Least
  <2> QED
    BY <2>1, <2>2 DEF Current, State
<1>3. Value' \in {f \in [Keys -> Writes \union {None}] : \A k \in Keys : f[k] \in {Value[k], None}}
  BY <1>2 DEF Value, State
<1> QED
  BY <1>1, <1>3 DEF Once!Forget, Asked, Value, Passes

LEMMA OnceStep == PrivateInv /\ [PrivateNext]_privateVars => [Once!OnceNext]_(Once!onceVars)
<1> SUFFICES ASSUME PrivateInv, [PrivateNext]_privateVars PROVE [Once!OnceNext]_(Once!onceVars)
  OBVIOUS
<1>1. ASSUME NEW k \in Keys, ReadState(k) PROVE UNCHANGED Once!onceVars
  BY <1>1 DEF ReadState, Once!onceVars, Current
<1>2. ASSUME NEW w \in Writes, RepeatWrite(w) PROVE UNCHANGED Once!onceVars
  <2>1. \A k \in Keys : Current(k)' = Current(k)
    BY <1>2 DEF RepeatWrite, Cleaned, Current
  <2> QED
    BY <1>2, <2>1 DEF RepeatWrite, Once!onceVars
<1>3. ASSUME NEW w \in Writes, RefuseWrite(w) PROVE UNCHANGED Once!onceVars
  BY <1>3 DEF RefuseWrite, privateVars, Once!onceVars, Current
<1>4. CASE UNCHANGED privateVars
  BY <1>4 DEF privateVars, Once!onceVars, Current
<1>5. CASE Passes
  BY <1>5, PassesForgets DEF Once!OnceNext
<1>6. ASSUME NEW w \in Writes, StoreWrite(w) PROVE Once!OnceNext
  BY <1>6, StoreIsWrite DEF Once!OnceNext
<1>7. ASSUME NEW w \in Writes, NEW k \in Keys, NEW base \in seen[k], Derive(w, k, base) PROVE Once!OnceNext
  BY <1>7, DeriveIsAsk DEF Once!OnceNext
<1> QED
  BY <1>1, <1>2, <1>3, <1>4, <1>5, <1>6, <1>7 DEF PrivateNext

(* Whatever answers are lost, writes repeated and states expired, for any  *)
(* writers, keys and capacity, each write takes effect at most once and    *)
(* only on the state it was derived from (private-state-store.mjs:37-49).  *)
THEOREM WritesHappenOnce == CallsSpec => WritesOnce
<1>1. CallsInit => PrivateInv /\ Once!OnceInit
  BY PrivateInitInv, OnceInitially DEF CallsInit
<1>2. PrivateInv /\ [CallsNext]_callsVars => PrivateInv' /\ [Once!OnceNext]_(Once!onceVars)
  <2> SUFFICES ASSUME PrivateInv, [CallsNext]_callsVars
               PROVE  PrivateInv' /\ [Once!OnceNext]_(Once!onceVars)
    OBVIOUS
  <2>1. [PrivateNext]_privateVars
    BY DEF CallsNext, callsVars
  <2> QED
    BY <2>1, PrivateStep, OnceStep
<1> QED
  BY <1>1, <1>2, PTL DEF CallsSpec, WritesOnce, Once!OnceSpec
-----------------------------------------------------------------------------
(* The catalogue: a reader under way has, of the manifest its cursor names, *)
(* the products up to the last it was given.                               *)
UpTo(manifest, last) == [p \in {q \in DOMAIN manifest : q <= last} |-> manifest[p]]

ReaderInv ==
  /\ DOMAIN records \subseteq Products
  /\ ~reader.whole =>
       /\ reader.cursor = Start => reader.got = <<>>
       /\ reader.cursor # Start => reader.got = UpTo(reader.cursor.generation, reader.cursor.after)
CatalogInv == ReaderInv /\ ChainIsOneCatalog

LEMMA NothingRead == DOMAIN <<>> = {} /\ Reading(Start, <<>>).whole = FALSE
                     /\ Reading(Start, <<>>).cursor = Start /\ Reading(Start, <<>>).got = <<>>
  BY DEF Reading

LEMMA CatalogInitInv == CatalogInit => CatalogInv
  BY NothingRead DEF CatalogInit, CatalogInv, ReaderInv, ChainIsOneCatalog

LEMMA ManifestIs ==
  /\ DOMAIN Manifest \subseteq DOMAIN records
  /\ Manifest = [p \in DOMAIN Manifest |-> Manifest[p]]
  BY DEF Manifest, Restrict

(* Before a page, the reader has the products of the manifest up to its    *)
(* cursor.                                                                 *)
LEMMA GotIsPrefix ==
  ASSUME CatalogInv, ~reader.whole, Continues(reader.cursor)
  PROVE  /\ DOMAIN reader.got = {p \in DOMAIN Manifest : p <= reader.cursor.after}
         /\ \A p \in DOMAIN reader.got : reader.got[p] = Manifest[p]
<1>1. DOMAIN Manifest \subseteq Nat \ {0}
  BY ManifestIs, CatalogAssumption DEF CatalogInv, ReaderInv
<1>2. CASE reader.cursor = Start
  <2>1. reader.got = <<>> /\ reader.cursor.after = 0
    BY <1>2 DEF CatalogInv, ReaderInv, Start
  <2> QED
    BY <1>1, <2>1, NothingRead
<1>3. CASE reader.cursor # Start
  <2>1. reader.cursor.generation = Manifest
    BY <1>3 DEF Continues
  <2>2. reader.got = UpTo(Manifest, reader.cursor.after)
    BY <1>3, <2>1 DEF CatalogInv, ReaderInv
  <2> QED
    BY <2>2 DEF UpTo
<1> QED
  BY <1>2, <1>3

LEMMA ReadPageInv == ASSUME CatalogInv, ReadPage PROVE CatalogInv'
<1> DEFINE cursor == reader.cursor
           before == {p \in DOMAIN Manifest : p <= cursor.after}
<1>1. ~reader.whole /\ Continues(cursor)
  BY DEF ReadPage
<1>2. DOMAIN reader.got = before /\ \A p \in before : reader.got[p] = Manifest[p]
  BY <1>1, GotIsPrefix
<1>3. DOMAIN Manifest \subseteq Nat \ {0} /\ cursor.after \in Nat
  <2>1. DOMAIN Manifest \subseteq Nat \ {0}
    BY ManifestIs, CatalogAssumption DEF CatalogInv, ReaderInv
  <2> QED
    BY <1>1, <2>1 DEF Continues, Start
<1>4. records' = records
  BY DEF ReadPage
<1>5. PICK page \in Pages(cursor) :
        \/ /\ page = Remaining(cursor)
           /\ reader' = [Reading(cursor, With(page)) EXCEPT !.whole = TRUE, !.then = Manifest]
        \/ /\ page # Remaining(cursor)
           /\ \E last \in page :
                /\ \A p \in page : p <= last
                /\ reader' = Reading(Continuation(cursor, last), With(page))
  BY DEF ReadPage
<1>6. page \subseteq Remaining(cursor) /\ \A p \in page, q \in Remaining(cursor) \ page : p < q
  BY DEF Pages
<1>7. With(page) = [p \in before \union page |-> Manifest[p]]
  BY <1>2 DEF With
<1> HIDE DEF cursor
<1>8. CASE page = Remaining(cursor)
  <2>1. reader' = [Reading(cursor, With(page)) EXCEPT !.whole = TRUE, !.then = Manifest]
    BY <1>5, <1>8
  <2>2. reader'.whole /\ reader'.got = With(page) /\ reader'.then = Manifest
    BY <2>1 DEF Reading
  <2>3. before \union page = DOMAIN Manifest
    BY <1>3, <1>8 DEF Remaining
  <2>4. With(page) = Manifest
    BY <1>7, <2>3, ManifestIs
  <2> QED
    BY <1>4, <2>2, <2>4 DEF CatalogInv, ReaderInv, ChainIsOneCatalog
<1>9. CASE page # Remaining(cursor)
  <2>1. PICK last \in page : /\ \A p \in page : p <= last
                             /\ reader' = Reading(Continuation(cursor, last), With(page))
    BY <1>5, <1>9
  <2> DEFINE next == Continuation(cursor, last)
  <2>2. ~reader'.whole /\ reader'.got = With(page) /\ reader'.cursor = next
    BY <2>1 DEF Reading
  <2>3. next.after = last /\ next.generation = Manifest
    BY DEF Continuation
  <2>4. last # 0 /\ last \in Nat /\ last > cursor.after
    BY <1>3, <1>6 DEF Remaining
  <2>5. next # Start
    BY <2>3, <2>4 DEF Start
  <2>6. before \union page = {p \in DOMAIN Manifest : p <= last}
    <3>1. ASSUME NEW p \in DOMAIN Manifest, p <= last PROVE p \in before \union page
      BY <1>3, <1>6, <2>1, <2>4, <3>1 DEF Remaining
    <3>2. \A p \in before \union page : p \in DOMAIN Manifest
      BY <1>6 DEF Remaining
    <3>3. \A p \in before : p <= last
      BY <1>3, <2>4
    <3> QED
      BY <2>1, <3>1, <3>2, <3>3
  <2>7. With(page) = UpTo(Manifest, last)
    BY <1>7, <2>6 DEF UpTo
  <2> HIDE DEF next
  <2> QED
    BY <1>4, <2>2, <2>3, <2>5, <2>7 DEF CatalogInv, ReaderInv, ChainIsOneCatalog
<1> QED
  BY <1>8, <1>9

LEMMA CatalogStep == CatalogInv /\ [CatalogNext]_catalogVars => CatalogInv'
<1> SUFFICES ASSUME CatalogInv, [CatalogNext]_catalogVars PROVE CatalogInv'
  OBVIOUS
<1>1. ASSUME NEW p \in Products, PutProduct(p) PROVE CatalogInv'
  BY <1>1 DEF PutProduct, CatalogInv, ReaderInv, ChainIsOneCatalog
<1>2. ASSUME NEW p \in Products, DeleteProduct(p) PROVE CatalogInv'
  BY <1>2 DEF DeleteProduct, CatalogInv, ReaderInv, ChainIsOneCatalog, Restrict
<1>3. CASE OpenOrClose \/ Later \/ UNCHANGED catalogVars
  BY <1>3 DEF OpenOrClose, Later, catalogVars, CatalogInv, ReaderInv, ChainIsOneCatalog
<1>4. CASE BeginAgain
  BY <1>4, NothingRead DEF BeginAgain, CatalogInv, ReaderInv, ChainIsOneCatalog
<1> QED
  BY <1>1, <1>2, <1>3, <1>4, ReadPageInv DEF CatalogNext

(* The pages of one chain are together the catalogue as it was at the last *)
(* of them, for any catalogue, any sizes of pages and any life of a cursor *)
(* (local-catalog-reader.mjs:36-44).                                       *)
THEOREM PagesAreOneCatalog == CallsSpec => []ChainIsOneCatalog
<1>1. CallsInit => CatalogInv
  BY CatalogInitInv DEF CallsInit
<1>2. CatalogInv /\ [CallsNext]_callsVars => CatalogInv'
  BY CatalogStep DEF CallsNext, callsVars
<1>3. CatalogInv => ChainIsOneCatalog
  BY DEF CatalogInv
<1> QED
  BY <1>1, <1>2, <1>3, PTL DEF CallsSpec
-----------------------------------------------------------------------------
(* Live reads: the call under way was begun for a platform the shop has.   *)
Operations == {"prices", "history", "carts"}
CallTypeOK == call # NoCall => call.operation \in Operations /\ call.to.platform \in Platforms
LiveInv == CallTypeOK /\ connector \in Connectors /\ ServedIsCurrent

LEMMA FitsIs ==
  ASSUME call.operation \in Operations, call.to.platform \in Platforms, NEW a, Fits(a)
  PROVE  About(a) /\ a.flaw \notin {"partial", "incoherent", "discounts"}
<1> DEFINE p == call.to.platform
<1>1. CASE call.operation = "prices"
  <2>1. [magento |-> PricesFit(a), woo |-> WooPricesFit(a), presta |-> PrestaPricesFit(a)][p]
    BY <1>1 DEF Fits
  <2>2. PricesFit(a) \/ WooPricesFit(a) \/ PrestaPricesFit(a)
    BY <2>1 DEF Platforms
  <2> QED
    BY <2>2 DEF PricesFit, WooPricesFit, PrestaPricesFit
<1>2. CASE call.operation = "history"
  <2>1. [magento |-> HistoryFits(a), woo |-> WooHistoryFits(a), presta |-> PrestaHistoryFits(a)][p]
    BY <1>2 DEF Fits
  <2>2. HistoryFits(a) \/ WooHistoryFits(a) \/ PrestaHistoryFits(a)
    BY <2>1 DEF Platforms
  <2> QED
    BY <2>2 DEF HistoryFits, WooHistoryFits, PrestaHistoryFits, WithDiscounts
<1>3. CASE call.operation = "carts"
  <2>1. CartsFit(a)
    BY <1>3 DEF Fits
  <2> QED
    BY <2>1 DEF CartsFit
<1> QED
  BY <1>1, <1>2, <1>3 DEF Operations

LEMMA LiveStep == LiveInv /\ [LiveNext]_liveVars => LiveInv'
<1> SUFFICES ASSUME LiveInv, [LiveNext]_liveVars PROVE LiveInv'
  OBVIOUS
<1>1. ASSUME NEW a \in Answers, Serve(a) PROVE LiveInv'
  <2>1. About(a) /\ a.flaw \notin {"partial", "incoherent", "discounts"}
    BY <1>1, FitsIs DEF LiveInv, CallTypeOK, Serve
  <2> QED
    BY <1>1, <2>1 DEF LiveInv, CallTypeOK, ServedIsCurrent, Serve, Signed, StillCurrent, About
<1>2. ASSUME NEW operation \in Operations, NEW platform \in Platforms, NEW account \in Accounts,
             BeginRead(operation, platform, account)
      PROVE  LiveInv'
  BY <1>2 DEF BeginRead, LiveInv, CallTypeOK, ServedIsCurrent
<1>3. ASSUME NEW c \in Connectors, Configure(c) PROVE LiveInv'
  BY <1>3 DEF Configure, LiveInv, CallTypeOK, ServedIsCurrent
<1>4. CASE PassOrPause
  BY <1>4 DEF PassOrPause, LiveInv, CallTypeOK, ServedIsCurrent
<1>5. CASE Unavailable
  BY <1>5 DEF Unavailable, LiveInv, CallTypeOK, ServedIsCurrent
<1>6. CASE Passing
  <2>1. call # NoCall => call' = NoCall \/ (call'.operation = call.operation /\ call'.to = call.to)
    BY <1>6 DEF Passing, LiveInv, CallTypeOK
  <2> QED
    BY <1>6, <2>1 DEF Passing, LiveInv, CallTypeOK, ServedIsCurrent
<1>7. CASE UNCHANGED liveVars
  BY <1>7 DEF liveVars, LiveInv, CallTypeOK, ServedIsCurrent
<1> QED
  BY <1>1, <1>2, <1>3, <1>4, <1>5, <1>6, <1>7 DEF LiveNext, Operations

(* What is served answers this very request, with the secret in force, for *)
(* any answers the shop has ever signed and any secrets, accounts and ages *)
(* (customer-price-reader.mjs:59-89, customer-history-reader.mjs,          *)
(* customer-carts-reader.mjs).                                             *)
THEOREM OnlyCurrentIsServed == CallsSpec => []ServedIsCurrent
<1>1. CallsInit => LiveInv
  BY DEF CallsInit, LiveInit, LiveInv, CallTypeOK, ServedIsCurrent
<1>2. LiveInv /\ [CallsNext]_callsVars => LiveInv'
  BY LiveStep DEF CallsNext, callsVars
<1>3. LiveInv => ServedIsCurrent
  BY DEF LiveInv
<1> QED
  BY <1>1, <1>2, <1>3, PTL DEF CallsSpec
=============================================================================
