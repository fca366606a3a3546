-------------------------- MODULE LocalVaultProofs --------------------------
(***************************************************************************)
(* What holds of the vault for every shop, clock and limit.                *)
(***************************************************************************)
EXTENDS LocalVault, TLAPS

(* A signal never runs ahead of the watermark of its reference: what makes *)
(* the order of signals and the promise behind them inductive.             *)
SignalsBehindMarks ==
  \A s \in outbox :
    /\ s.id < nextId
    /\ watermarks[s.ref] # None
    /\ s.rev <= watermarks[s.ref].rev
    /\ s.at <= watermarks[s.ref].at

(* A payload leaves the vault only by expiring.                            *)
RowsLeaveByExpiry ==
  \A r \in Refs :
    (watermarks[r] # None /\ records[r] = None) => watermarks[r].at + Retention <= now

VaultInv ==
  /\ VaultTypeOK
  /\ RowIsTheWatermark
  /\ SignalsBehindMarks
  /\ SignalsInOrder
  /\ RowsLeaveByExpiry

\* A page names no reference twice: apply() refuses one that does.
Distinct(page) == \A i, j \in DOMAIN page : page[i].ref = page[j].ref => i = j

LEMMA NoneIsNoRow == ASSUME NEW c \in Change PROVE c # None /\ MarkOf(c) \in Mark /\ MarkOf(c) # None
  BY NoneAssumption DEF Change, Mark, MarkOf

LEMMA MarkFields == ASSUME NEW c PROVE MarkOf(c).rev = c.rev /\ MarkOf(c).at = c.at
  BY DEF MarkOf

(* The constructor of a new or a legacy vault establishes the invariant    *)
(* (local-data-store.mjs:93-100).                                          *)
LEMMA VaultInitInv == VaultInit => VaultInv
<1> SUFFICES ASSUME VaultInit PROVE VaultInv
  OBVIOUS
<1> USE DEF VaultInit
<1>1. records \in [Refs -> Change \union {None}] /\ \A r \in Refs : records[r] # None => records[r].ref = r
  BY LegacyAssumption
<1>2. \A r \in Refs : watermarks[r] = IF records[r] # None THEN MarkOf(records[r]) ELSE None
  BY DEF Backfilled
<1>3. VaultTypeOK
  <2>1. watermarks \in [Refs -> Mark \union {None}]
    BY <1>1, <1>2, NoneIsNoRow DEF Backfilled
  <2> QED BY <1>1, <2>1 DEF VaultTypeOK
<1>4. RowIsTheWatermark
  BY <1>1, <1>2 DEF RowIsTheWatermark
<1>5. SignalsBehindMarks /\ SignalsInOrder
  BY DEF SignalsBehindMarks, SignalsInOrder
<1>6. RowsLeaveByExpiry
  BY <1>1, <1>2, NoneIsNoRow DEF RowsLeaveByExpiry
<1> QED BY <1>3, <1>4, <1>5, <1>6 DEF VaultInv

(* What cleanup() leaves is a part of what it found.                       *)
LEMMA KeptFacts ==
  ASSUME VaultInv
  PROVE  /\ Kept \in [Refs -> Change \union {None}]
         /\ \A r \in Refs : Kept[r] # None => Kept[r] = records[r] /\ ~Expired(records[r])
         /\ \A r \in Refs : (records[r] # None /\ Kept[r] = None) => Expired(records[r])
         /\ KeptSignals \subseteq outbox
  BY DEF VaultInv, VaultTypeOK, Kept, KeptSignals

(* Each reference takes at most one row from a page, and it is a newer one *)
(* (local-data-store.mjs:167-187).                                         *)
LEMMA PutPageRows ==
  ASSUME VaultInv, NEW p \in Seq(Change), Distinct(p), Acceptable(p), PutPage(p), NEW r \in Refs
  PROVE  \/ /\ InsertedAt(p, r) = {}
            /\ records'[r] = Kept[r] /\ watermarks'[r] = watermarks[r]
         \/ \E i \in Inserts(p) :
              /\ InsertedAt(p, r) = {i}
              /\ p[i] \in Change /\ p[i].ref = r
              /\ records'[r] = p[i] /\ watermarks'[r] = MarkOf(p[i])
              /\ ~Conflicts(p[i])
<1>1. CASE InsertedAt(p, r) = {}
  BY <1>1 DEF PutPage, NewId
<1>2. CASE InsertedAt(p, r) # {}
  <2>1. PICK i \in InsertedAt(p, r) : TRUE
    BY <1>2
  <2>2. i \in Inserts(p) /\ i \in DOMAIN p /\ p[i].ref = r /\ p[i] \in Change
    BY <2>1 DEF InsertedAt, Inserts
  <2>3. InsertedAt(p, r) = {i}
    BY <2>1, <2>2 DEF InsertedAt, Inserts, Distinct
  <2>4. (CHOOSE j \in InsertedAt(p, r) : TRUE) = i
    BY <2>3
  <2>5. records'[r] = p[i] /\ watermarks'[r] = MarkOf(p[i])
    BY <1>2, <2>4 DEF PutPage, NewId
  <2>6. ~Conflicts(p[i])
    BY <2>2 DEF Acceptable
  <2> QED BY <2>2, <2>3, <2>5, <2>6
<1> QED BY <1>1, <1>2

(* One accepted transaction keeps the invariant.                           *)
LEMMA PutPageInv ==
  ASSUME VaultInv, NEW p \in Seq(Change), Distinct(p), Acceptable(p), PutPage(p),
         now' = now, bound' \in BOOLEAN
  PROVE  VaultInv'
<1> DEFINE new(i) == [id |-> nextId + i - 1, ref |-> p[i].ref, rev |-> p[i].rev,
                      op |-> p[i].op, at |-> p[i].at]
<1> USE VaultAssumption
<1>1. /\ outbox' = KeptSignals \union {new(i) : i \in Inserts(p)}
      /\ KeptSignals \subseteq outbox
      /\ \A i \in Inserts(p) : i \in 1 .. Len(p) /\ p[i] \in Change /\ ~Conflicts(p[i])
      /\ Len(p) \in Nat
  BY KeptFacts DEF PutPage, NewId, Inserts, Acceptable
<1>2. /\ now \in Nat /\ nextId \in Nat
      /\ outbox \subseteq Signal
      /\ watermarks \in [Refs -> Mark \union {None}]
      /\ nextId' \in Nat /\ nextId <= nextId'
      /\ \A i \in Inserts(p) : new(i).id < nextId' /\ new(i).id >= nextId
  BY <1>1 DEF VaultInv, VaultTypeOK, PutPage, NewId
<1>3. \A r \in Refs :
        \/ records'[r] = Kept[r] /\ watermarks'[r] = watermarks[r]
        \/ \E i \in Inserts(p) :
             p[i].ref = r /\ records'[r] = p[i] /\ watermarks'[r] = MarkOf(p[i])
  BY PutPageRows
<1>4. VaultTypeOK'
  <2>1. records' \in [Refs -> Change \union {None}]
    BY <1>1, <1>3, KeptFacts DEF PutPage, NewId
  <2>2. watermarks' \in [Refs -> Mark \union {None}]
    BY <1>1, <1>2, <1>3, NoneIsNoRow DEF PutPage, NewId
  <2>3. \A i \in Inserts(p) : new(i) \in Signal
    BY <1>1, <1>2 DEF Signal, Change
  <2> QED BY <1>1, <1>2, <2>1, <2>2, <2>3 DEF VaultTypeOK, VaultInv
<1>5. RowIsTheWatermark'
  <2> SUFFICES ASSUME NEW r \in Refs, records'[r] # None
               PROVE  records'[r].ref = r /\ watermarks'[r] = MarkOf(records'[r])
    BY DEF RowIsTheWatermark, MarkOf
  <2>1. CASE records'[r] = Kept[r] /\ watermarks'[r] = watermarks[r]
    BY <2>1, KeptFacts DEF VaultInv, RowIsTheWatermark
  <2>2. CASE \E i \in Inserts(p) :
               p[i].ref = r /\ records'[r] = p[i] /\ watermarks'[r] = MarkOf(p[i])
    BY <2>2
  <2> QED BY <1>3, <2>1, <2>2
<1>6. SignalsBehindMarks'
  <2>1. ASSUME NEW s \in outbox
        PROVE  /\ s.id < nextId' /\ watermarks'[s.ref] # None
               /\ s.rev <= watermarks'[s.ref].rev /\ s.at <= watermarks'[s.ref].at
    <3>1. /\ s.ref \in Refs /\ s.rev \in Nat /\ s.at \in Nat /\ s.id \in Nat
          /\ s.id < nextId /\ watermarks[s.ref] # None
          /\ s.rev <= watermarks[s.ref].rev /\ s.at <= watermarks[s.ref].at
          /\ watermarks[s.ref] \in Mark
      BY <1>2 DEF VaultInv, SignalsBehindMarks, Signal
    <3>2. CASE watermarks'[s.ref] = watermarks[s.ref]
      BY <1>2, <3>1, <3>2
    <3>3. ASSUME NEW i \in Inserts(p), p[i].ref = s.ref, watermarks'[s.ref] = MarkOf(p[i])
          PROVE  /\ s.id < nextId' /\ watermarks'[s.ref] # None
                 /\ s.rev <= watermarks'[s.ref].rev /\ s.at <= watermarks'[s.ref].at
      <4>1. p[i].rev \in Nat /\ p[i].at \in Nat /\ MarkOf(p[i]) # None
        BY <1>1, NoneIsNoRow DEF Change
      <4>2. p[i].rev > watermarks[s.ref].rev /\ p[i].at >= watermarks[s.ref].at
        BY <1>1, <3>1, <3>3, <4>1 DEF Conflicts, Mark
      <4> QED BY <1>2, <3>1, <3>3, <4>1, <4>2 DEF MarkOf, Mark
    <3> QED BY <1>3, <3>1, <3>2, <3>3
  <2>2. ASSUME NEW i \in Inserts(p)
        PROVE  /\ new(i).id < nextId' /\ watermarks'[new(i).ref] # None
               /\ new(i).rev <= watermarks'[new(i).ref].rev
               /\ new(i).at <= watermarks'[new(i).ref].at
    <3>1. p[i].ref \in Refs /\ p[i].rev \in Nat /\ p[i].at \in Nat
      BY <1>1 DEF Change
    <3>2. i \in InsertedAt(p, p[i].ref)
      BY DEF InsertedAt
    <3>3. watermarks'[p[i].ref] = MarkOf(p[i])
      BY <3>1, <3>2, PutPageRows
    <3> QED BY <1>1, <1>2, <3>1, <3>3, NoneIsNoRow DEF MarkOf
  <2> QED BY <1>1, <2>1, <2>2 DEF SignalsBehindMarks
<1>7. SignalsInOrder'
  <2>1. \A s \in outbox' : s.id < nextId'
    BY <1>6 DEF SignalsBehindMarks
  <2>2. ASSUME NEW s \in outbox', NEW t \in outbox'
        PROVE  (s # t => s.id # t.id) /\ ((s.ref = t.ref /\ s.id < t.id) => s.rev < t.rev)
    <3>1. CASE s \in outbox /\ t \in outbox
      BY <3>1 DEF VaultInv, SignalsInOrder
    <3>2. ASSUME NEW q \in outbox, NEW i \in Inserts(p)
          PROVE  q.id < new(i).id /\ (q.ref = new(i).ref => q.rev < new(i).rev)
      <4>1. /\ q.id < nextId /\ watermarks[q.ref] # None /\ q.rev <= watermarks[q.ref].rev
            /\ q.ref \in Refs /\ q.id \in Nat /\ q.rev \in Nat /\ watermarks[q.ref] \in Mark
        BY <1>2 DEF VaultInv, SignalsBehindMarks, Signal
      <4>2. p[i].rev \in Nat /\ p[i].at \in Nat
        BY <1>1 DEF Change
      <4>3. q.ref = p[i].ref => p[i].rev > watermarks[q.ref].rev
        BY <1>1, <4>1, <4>2 DEF Conflicts, Mark
      <4> QED BY <1>1, <1>2, <4>1, <4>2, <4>3 DEF Mark
    <3>3. ASSUME NEW i \in Inserts(p), NEW j \in Inserts(p), new(i).id = new(j).id \/ new(i).ref = new(j).ref
          PROVE  i = j
      BY <1>1, <1>2, <3>3 DEF Distinct
    <3>4. /\ s \in outbox \/ \E i \in Inserts(p) : s = new(i)
          /\ t \in outbox \/ \E i \in Inserts(p) : t = new(i)
      BY <1>1
    <3>5. \A q \in outbox : q.id \in Nat
      BY <1>2 DEF Signal
    <3>6. CASE s \in outbox /\ \E i \in Inserts(p) : t = new(i)
      BY <1>1, <1>2, <3>2, <3>5, <3>6
    <3>7. CASE t \in outbox /\ \E i \in Inserts(p) : s = new(i)
      BY <1>1, <1>2, <3>2, <3>5, <3>7
    <3>8. CASE (\E i \in Inserts(p) : s = new(i)) /\ (\E i \in Inserts(p) : t = new(i))
      BY <1>1, <1>2, <3>3, <3>8
    <3> QED BY <3>1, <3>4, <3>6, <3>7, <3>8
  <2> QED BY <2>1, <2>2 DEF SignalsInOrder
<1>8. RowsLeaveByExpiry'
  <2> SUFFICES ASSUME NEW r \in Refs, watermarks'[r] # None, records'[r] = None
               PROVE  watermarks'[r].at + Retention <= now
    BY DEF RowsLeaveByExpiry
  <2>1. Kept[r] = None /\ watermarks'[r] = watermarks[r]
    BY <1>1, <1>3, NoneIsNoRow
  <2>2. CASE records[r] = None
    BY <2>1, <2>2 DEF VaultInv, RowsLeaveByExpiry
  <2>3. CASE records[r] # None
    <3>1. Expired(records[r])
      BY <2>1, <2>3, KeptFacts
    <3>2. watermarks[r].at = records[r].at
      BY <2>3, MarkFields DEF VaultInv, RowIsTheWatermark
    <3> QED BY <2>1, <3>1, <3>2 DEF Expired
  <2> QED BY <2>2, <2>3
<1> QED BY <1>4, <1>5, <1>6, <1>7, <1>8 DEF VaultInv

(* Deleting signals, and the passing of time, keep it too.                 *)
LEMMA AcknowledgeInv == ASSUME VaultInv, NEW ids, Acknowledge(ids) PROVE VaultInv'
<1> USE DEF VaultInv, Acknowledge
<1>1. outbox' \subseteq outbox
  OBVIOUS
<1>2. VaultTypeOK' /\ RowIsTheWatermark' /\ RowsLeaveByExpiry'
  BY <1>1 DEF VaultTypeOK, RowIsTheWatermark, RowsLeaveByExpiry, MarkOf
<1>3. SignalsBehindMarks' /\ SignalsInOrder'
  BY <1>1 DEF SignalsBehindMarks, SignalsInOrder
<1> QED BY <1>2, <1>3

LEMMA TickInv == ASSUME VaultInv, Tick PROVE VaultInv'
<1> USE DEF VaultInv, Tick
<1>1. VaultTypeOK' /\ RowIsTheWatermark' /\ SignalsBehindMarks' /\ SignalsInOrder'
  BY DEF VaultTypeOK, RowIsTheWatermark, SignalsBehindMarks, SignalsInOrder, MarkOf
<1>2. RowsLeaveByExpiry'
  <2>1. \A r \in Refs : watermarks[r] # None => watermarks[r].at \in Nat
    BY DEF VaultTypeOK, Mark
  <2> QED BY <2>1, VaultAssumption DEF VaultTypeOK, RowsLeaveByExpiry
<1> QED BY <1>1, <1>2

LEMMA PutInv == ASSUME VaultInv, NEW c \in Change, Put(c) PROVE VaultInv'
<1>1. <<c>> \in Seq(Change) /\ Distinct(<<c>>)
  BY DEF Distinct
<1>2. bound' \in BOOLEAN /\ now' = now
  BY DEF Put, VaultInv, VaultTypeOK
<1> QED BY <1>1, <1>2, PutPageInv DEF Put

LEMMA VaultNextInv == VaultInv /\ [VaultNext]_vaultVars => VaultInv'
<1> SUFFICES ASSUME VaultInv, [VaultNext]_vaultVars PROVE VaultInv'
  OBVIOUS
<1>1. ASSUME NEW c \in Incoming, Put(c) PROVE VaultInv'
  <2>1. c \in Change
    BY VaultAssumption DEF Incoming, Change, Time
  <2> QED BY <1>1, <2>1, PutInv
<1>2. ASSUME NEW s \in SUBSET Signals, Acknowledge({t.id : t \in s}) PROVE VaultInv'
  BY <1>2, AcknowledgeInv
<1>3. CASE Tick
  BY <1>3, TickInv
<1>4. CASE UNCHANGED vaultVars
  BY <1>4 DEF vaultVars, VaultInv, VaultTypeOK, RowIsTheWatermark, SignalsBehindMarks,
              SignalsInOrder, RowsLeaveByExpiry, MarkOf
<1> QED BY <1>1, <1>2, <1>3, <1>4 DEF VaultNext

(* The invariant holds of every vault that only its handlers touch.        *)
THEOREM VaultInvariant == VaultSpec => []VaultInv
  BY VaultInitInv, VaultNextInv, PTL DEF VaultSpec

(* Every table keeps its type, and the newest accepted revision is the only*)
(* one a reader can be served.                                             *)
THEOREM VaultTypeCorrect == VaultSpec => [](VaultTypeOK /\ RowIsTheWatermark)
<1>1. VaultInv => VaultTypeOK /\ RowIsTheWatermark
  BY DEF VaultInv
<1> QED BY <1>1, VaultInvariant, PTL

(* Signals carry distinct ids and leave in the order of the revisions.     *)
THEOREM SignalOrder == VaultSpec => []SignalsInOrder
<1>1. VaultInv => SignalsInOrder
  BY DEF VaultInv
<1> QED BY <1>1, VaultInvariant, PTL

(* No signal ever invites the Cloud to read a row that is gone or older:   *)
(* the watermark orders observations, so the row outlives its signals      *)
(* (local-data-store.mjs:141, 170, 206-207, 240).                          *)
LEMMA ReadableFromInv == VaultInv => SignalsAreReadable
<1> SUFFICES ASSUME VaultInv, NEW s \in KeptSignals
             PROVE  records[s.ref] # None /\ ~Expired(records[s.ref]) /\ records[s.ref].rev >= s.rev
  BY DEF SignalsAreReadable
<1>1. /\ s \in outbox /\ s.ref \in Refs /\ s.rev \in Nat /\ s.at \in Nat
      /\ ~(s.at + Retention <= now)
      /\ watermarks[s.ref] # None /\ watermarks[s.ref] \in Mark
      /\ s.rev <= watermarks[s.ref].rev /\ s.at <= watermarks[s.ref].at
      /\ now \in Nat /\ Retention \in Nat
  BY VaultAssumption
     DEF VaultInv, VaultTypeOK, KeptSignals, Expired, SignalsBehindMarks, Signal
<1>2. ~(watermarks[s.ref].at + Retention <= now)
  BY <1>1 DEF Mark
<1>3. records[s.ref] # None
  BY <1>1, <1>2 DEF VaultInv, RowsLeaveByExpiry
<1>4. records[s.ref].rev = watermarks[s.ref].rev /\ records[s.ref].at = watermarks[s.ref].at
  BY <1>1, <1>3, MarkFields DEF VaultInv, RowIsTheWatermark
<1> QED BY <1>1, <1>2, <1>3, <1>4 DEF Expired, Mark

THEOREM SignalsStayReadable == VaultSpec => []SignalsAreReadable
  BY ReadableFromInv, VaultInvariant, PTL

(* Once accepted, a revision is never replaced by an older one, nor does an*)
(* older one come back after the payload expired                           *)
(* (local-data-store.mjs:12-13, 169-170).                                  *)
LEMMA PutPageNewer ==
  ASSUME VaultInv, NEW p \in Seq(Change), Distinct(p), Acceptable(p), PutPage(p)
  PROVE  NoResurrection
<1> SUFFICES ASSUME NEW r \in Refs, watermarks[r] # None,
                    records'[r] # None, records'[r] # records[r]
             PROVE  records'[r].rev > watermarks[r].rev
  BY DEF NoResurrection
<1>1. PICK i \in Inserts(p) : p[i] \in Change /\ p[i].ref = r /\ records'[r] = p[i] /\ ~Conflicts(p[i])
  BY PutPageRows, KeptFacts
<1>2. watermarks[r] \in Mark
  BY DEF VaultInv, VaultTypeOK
<1> QED BY <1>1, <1>2 DEF Conflicts, Change, Mark

LEMMA VaultNextNewer == VaultInv /\ [VaultNext]_vaultVars => NoResurrection
<1> SUFFICES ASSUME VaultInv, [VaultNext]_vaultVars PROVE NoResurrection
  OBVIOUS
<1>1. ASSUME NEW c \in Incoming, Put(c) PROVE NoResurrection
  <2>1. <<c>> \in Seq(Change) /\ Distinct(<<c>>)
    BY VaultAssumption DEF Distinct, Incoming, Change, Time
  <2> QED BY <1>1, <2>1, PutPageNewer DEF Put
<1>2. ASSUME NEW ids, Acknowledge(ids) PROVE NoResurrection
  BY <1>2 DEF Acknowledge, NoResurrection
<1>3. CASE Tick
  BY <1>3 DEF Tick, NoResurrection
<1>4. CASE UNCHANGED vaultVars
  BY <1>4 DEF vaultVars, NoResurrection
<1> QED BY <1>1, <1>2, <1>3, <1>4 DEF VaultNext

THEOREM NoOldRevisionReturns == VaultSpec => NeverResurrected
<1>1. VaultInv /\ [VaultNext]_vaultVars => [NoResurrection]_vaultVars
  BY VaultNextNewer
<1> QED BY <1>1, VaultInvariant, PTL DEF VaultSpec, NeverResurrected
=============================================================================
