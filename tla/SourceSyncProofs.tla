-------------------------- MODULE SourceSyncProofs --------------------------
(***************************************************************************)
(* What holds of the connector pull for every number of pullers, every     *)
(* length of lease and deadline, and every stream a connector sends.       *)
(***************************************************************************)
EXTENDS SourceSync, LocalVaultProofs, SequenceTheorems

(* A stream that has not started is empty, and the cursor is a place of    *)
(* the stream it belongs to.                                               *)
CursorInLog ==
  /\ \A s \in 1 .. MaxStream : s > stream => log[s] = <<>>
  /\ streamId <= stream
  /\ cursor > 0 => (streamId # 0 /\ cursor <= Len(log[streamId]))

(* The lease in the row is the last one claimed, or none.                  *)
LeaseIsLast ==
  /\ leaseToken \in {0, issued}
  /\ \A p \in Pullers : pc[p] # "idle" => lease[p].token \in 1 .. issued

(* Before its configuration the connector has touched nothing.             *)
UnboundIsUntouched ==
  ~bound => /\ streamId = 0 /\ cursor = 0 /\ ~ready
            /\ \A p \in Pullers : pc[p] = "idle"

\* Every change the connector observed before instant g is in the first n
\* places of stream s.
Covers(s, n, g) ==
  \A i \in DOMAIN log[stream] : log[stream][i].at < g => (s = stream /\ i <= n)

(* An answer is a part of a stream, no older than its lease, and a complete*)
(* one has everything observed before it was made.                         *)
PagesAreAnswers ==
  \A p \in Pullers :
    /\ (pc[p] = "asking" /\ leaseToken = lease[p].token) => leaseUntil <= now + Lease
    /\ pc[p] = "answered" =>
         /\ page[p].stream \in 1 .. stream
         /\ page[p].from <= page[p].next
         /\ page[p].next <= Len(log[page[p].stream])
         /\ page[p].made <= now
         /\ leaseToken = lease[p].token => leaseUntil <= page[p].made + Lease
         /\ page[p].complete => Covers(page[p].stream, page[p].next, page[p].made)

(* While the row says ready, the vault covers some instant less than a     *)
(* lease before the recorded completion.                                   *)
ReadyCovers ==
  ready => \E g \in Nat :
    /\ g <= now /\ lastComplete < g + Lease
    /\ Covers(streamId, cursor, g)

SyncInv ==
  /\ SyncTypeOK
  /\ VaultInv
  /\ CursorInLog
  /\ LeaseIsLast
  /\ UnboundIsUntouched
  /\ PagesAreAnswers
  /\ ReadyCovers
  /\ VaultMatchesCursor

-----------------------------------------------------------------------------
LEMMA SyncInitInv == SyncInit => SyncInv
<1> SUFFICES ASSUME SyncInit PROVE SyncInv
  OBVIOUS
<1> USE SourceAssumption DEF SyncInit
<1>1. VaultInv
  BY VaultInitInv
<1>2. SyncTypeOK
  <2>1. log \in [1 .. MaxStream -> Seq(Change)]
    OBVIOUS
  <2>2. page \in [Pullers -> [stream : 0 .. MaxStream, from : Nat, next : Nat,
                             complete : BOOLEAN, made : Nat]]
    BY DEF NoPage
  <2>3. lease \in [Pullers -> [token : Nat, cursor : Nat]]
    BY DEF NoLease
  <2>4. stream \in 1 .. MaxStream /\ streamId \in 0 .. MaxStream
    OBVIOUS
  <2>5. VaultTypeOK
    BY <1>1 DEF VaultInv
  <2> QED BY <2>1, <2>2, <2>3, <2>4, <2>5 DEF SyncTypeOK
<1>3. CursorInLog
  BY DEF CursorInLog
<1>6. LeaseIsLast
  BY DEF LeaseIsLast
<1>5. PagesAreAnswers /\ ReadyCovers
  BY DEF PagesAreAnswers, ReadyCovers
<1>4. UnboundIsUntouched /\ VaultMatchesCursor
  BY DEF UnboundIsUntouched, VaultMatchesCursor, VaultInit
<1> QED BY <1>1, <1>2, <1>3, <1>4, <1>5, <1>6 DEF SyncInv

LEMMA Slice ==
  ASSUME NEW S, NEW s \in Seq(S), NEW f \in Nat, NEW n \in Nat, f <= n, n <= Len(s)
  PROVE  /\ SubSeq(s, f + 1, n) \in Seq(S)
         /\ Len(SubSeq(s, f + 1, n)) = n - f
         /\ \A k \in 1 .. n - f : SubSeq(s, f + 1, n)[k] = s[f + k]
<1>1. \A i \in f + 1 .. n : s[i] \in S
  OBVIOUS
<1>2. /\ SubSeq(s, f + 1, n) \in Seq(S)
      /\ Len(SubSeq(s, f + 1, n)) = IF f + 1 <= n THEN n - (f + 1) + 1 ELSE 0
      /\ \A k \in 1 .. n - (f + 1) + 1 : SubSeq(s, f + 1, n)[k] = s[f + 1 + k - 1]
  BY <1>1, SubSeqProperties
<1>3. \A k \in 1 .. n - f : f + 1 + k - 1 = f + k /\ k \in 1 .. n - (f + 1) + 1
  OBVIOUS
<1> QED BY <1>2, <1>3

(* The changes of an answer, one by one.                                   *)
LEMMA CarriedChanges ==
  ASSUME SyncInv, NEW p \in Pullers, pc[p] = "answered"
  PROVE  /\ Carried(p) \in Seq(Change)
         /\ Len(Carried(p)) = page[p].next - page[p].from
         /\ \A k \in 1 .. Len(Carried(p)) :
              Carried(p)[k] = log[page[p].stream][page[p].from + k]
<1> DEFINE L == log[page[p].stream]
           f == page[p].from
           n == page[p].next
<1>1. f \in Nat /\ n \in Nat /\ L \in Seq(Change) /\ f <= n /\ n <= Len(L)
  BY DEF SyncInv, SyncTypeOK, PagesAreAnswers
<1>2. Carried(p) = SubSeq(L, f + 1, n)
  BY DEF Carried
<1> HIDE DEF L, f, n
<1>3. /\ SubSeq(L, f + 1, n) \in Seq(Change)
      /\ Len(SubSeq(L, f + 1, n)) = n - f
      /\ \A k \in 1 .. n - f : SubSeq(L, f + 1, n)[k] = L[f + k]
  BY <1>1, Slice
<1>4. /\ Carried(p) \in Seq(Change) /\ Len(Carried(p)) = n - f
      /\ \A k \in 1 .. Len(Carried(p)) : Carried(p)[k] = L[f + k]
  BY <1>2, <1>3
<1> QED BY <1>4 DEF L, f, n

(* A step that leaves the vault, its binding, the cursor and the stream    *)
(* alone keeps the vault and the cursor together.                          *)
LEMMA SameVault ==
  ASSUME SyncInv, UNCHANGED <<vaultVars, streamId, cursor>>,
         \A i \in Consumed : log'[streamId][i] = log[streamId][i]
  PROVE  VaultInv' /\ VaultMatchesCursor'
<1>1. VaultInv'
  BY DEF SyncInv, vaultVars, VaultInv, VaultTypeOK, RowIsTheWatermark, SignalsBehindMarks,
         SignalsInOrder, RowsLeaveByExpiry, MarkOf
<1>2. VaultMatchesCursor'
  <2>1. \A i \in Consumed : Consume(i)' = Consume(i)
    BY DEF Consume
  <2>2. Consumed' = Consumed /\ now' = now /\ bound' = bound
        /\ records' = records /\ watermarks' = watermarks
    BY DEF Consumed, vaultVars
  <2>3. \A r \in Refs, i \in Consumed : IsLast(r, i)' <=> IsLast(r, i)
    BY <2>1, <2>2 DEF IsLast
  <2>4. \A i \in Consumed : Expired(Consume(i))' <=> Expired(Consume(i))
    BY <2>1, <2>2 DEF Expired
  <2>5. \A i \in Consumed : MarkOf(Consume(i))' = MarkOf(Consume(i))
    BY <2>1 DEF MarkOf
  <2> SUFFICES ASSUME bound, NEW r \in Refs
               PROVE  \/ /\ \A i \in Consumed : Consume(i)'.ref # r
                         /\ watermarks[r] = None /\ records[r] = None
                      \/ \E i \in Consumed :
                           /\ IsLast(r, i)'
                           /\ watermarks[r] = MarkOf(Consume(i))'
                           /\ \/ records[r] = Consume(i)'
                              \/ records[r] = None /\ Expired(Consume(i))'
    BY <2>2 DEF VaultMatchesCursor
  <2>6. \/ /\ \A i \in Consumed : Consume(i).ref # r
           /\ watermarks[r] = None /\ records[r] = None
        \/ \E i \in Consumed :
             /\ IsLast(r, i)
             /\ watermarks[r] = MarkOf(Consume(i))
             /\ \/ records[r] = Consume(i)
                \/ records[r] = None /\ Expired(Consume(i))
    BY DEF SyncInv, VaultMatchesCursor
  <2> QED BY <2>1, <2>3, <2>4, <2>5, <2>6
<1> QED BY <1>1, <1>2

(* apply() is the step that matters: the page continues the stream where   *)
(* the cursor stands, and its rows and the cursor arrive together          *)
(* (local-source-sync.mjs:96-122).                                         *)
LEMMA ApplyVault ==
  ASSUME SyncInv, NEW p \in Pullers, Apply(p)
  PROVE  VaultInv'
<1>1. Carried(p) \in Seq(Change)
  BY CarriedChanges DEF Apply
<1>2. Distinct(Carried(p)) /\ Acceptable(Carried(p)) /\ PutPage(Carried(p))
  BY DEF Apply, CanApply, WellFormed, Distinct
<1>3. now' = now /\ bound' \in BOOLEAN
  BY DEF Apply, SyncInv, VaultInv, VaultTypeOK
<1> QED BY <1>1, <1>2, <1>3, PutPageInv DEF SyncInv

LEMMA ApplyMatches ==
  ASSUME SyncInv, NEW p \in Pullers, Apply(p)
  PROVE  VaultMatchesCursor'
<1> DEFINE C == Carried(p)
           L == log[page[p].stream]
           f == page[p].from
           n == page[p].next
<1>1. /\ f \in Nat /\ n \in Nat /\ f <= n /\ n <= Len(L) /\ cursor = f
      /\ page[p].stream \in 1 .. stream /\ stream \in 1 .. MaxStream /\ streamId \in 0 .. MaxStream
      /\ streamId' = page[p].stream /\ cursor' = n /\ log' = log /\ now' = now /\ bound' = bound
      /\ streamId = 0 \/ log[streamId] = L
      /\ cursor > 0 => streamId # 0
  BY SourceAssumption DEF Apply, CanApply, Holds, SyncInv, SyncTypeOK, CursorInLog, PagesAreAnswers
<1>2. C \in Seq(Change) /\ Distinct(C) /\ Acceptable(C) /\ PutPage(C)
  BY CarriedChanges DEF Apply, CanApply, WellFormed, Distinct
<1>3. Len(C) = n - f /\ \A k \in 1 .. n - f : k \in DOMAIN C /\ C[k] = L[f + k]
  BY <1>1, CarriedChanges DEF Apply
<1>4. VaultInv
  BY DEF SyncInv
<1> SUFFICES ASSUME bound, NEW r \in Refs
             PROVE  \/ /\ \A i \in 1 .. n : L[i].ref # r
                       /\ watermarks'[r] = None /\ records'[r] = None
                    \/ \E i \in 1 .. n :
                         /\ L[i].ref = r
                         /\ \A j \in 1 .. n : L[j].ref = r => j <= i
                         /\ watermarks'[r] = MarkOf(L[i])
                         /\ \/ records'[r] = L[i]
                            \/ records'[r] = None /\ Expired(L[i])
  BY <1>1 DEF VaultMatchesCursor, Consumed, Consume, IsLast, Expired, MarkOf
<1> HIDE DEF C, L, f, n
\* What the vault held of the first f places of the stream.
<1>5. \/ /\ \A i \in 1 .. f : L[i].ref # r
         /\ watermarks[r] = None /\ records[r] = None
      \/ \E i \in 1 .. f :
           /\ L[i].ref = r
           /\ \A j \in 1 .. f : L[j].ref = r => j <= i
           /\ watermarks[r] = MarkOf(L[i])
           /\ \/ records[r] = L[i]
              \/ records[r] = None /\ Expired(L[i])
  <2>1. CASE streamId = 0
    BY <1>1, <2>1 DEF SyncInv, VaultMatchesCursor, Consumed
  <2>2. CASE streamId # 0
    BY <1>1, <2>2 DEF SyncInv, VaultMatchesCursor, Consumed, Consume, IsLast
  <2> QED BY <2>1, <2>2
<1>6. CASE \E k \in 1 .. n - f : C[k].ref = r
  <2>1. PICK k \in 1 .. n - f : C[k].ref = r
    BY <1>6
  <2>2. /\ f + k \in 1 .. n /\ L[f + k] = C[k] /\ L[f + k].ref = r
        /\ C[k] \in Change /\ k \in DOMAIN C
    BY <1>1, <1>2, <1>3, <2>1
  <2>3. ASSUME NEW j \in 1 .. n, L[j].ref = r PROVE j <= f + k
    <3>1. CASE j <= f
      BY <1>1, <3>1
    <3>2. CASE j > f
      <4>1. j - f \in 1 .. n - f /\ f + (j - f) = j
        BY <1>1, <3>2
      <4>2. C[j - f].ref = r /\ j - f \in DOMAIN C
        BY <1>3, <2>3, <4>1
      <4>3. j - f = k
        BY <1>2, <2>1, <2>2, <4>2 DEF Distinct
      <4> QED BY <1>1, <4>1, <4>3
    <3> QED BY <1>1, <3>1, <3>2
  <2>4. CASE k \in Inserts(C)
    <3>1. k \in InsertedAt(C, r)
      BY <2>1, <2>4 DEF InsertedAt
    <3>2. records'[r] = C[k] /\ watermarks'[r] = MarkOf(C[k])
      BY <1>2, <1>4, <3>1, PutPageRows
    <3> QED BY <2>2, <2>3, <3>2
  <2>5. CASE k \notin Inserts(C)
    <3>1. Kept[r] = C[k]
      BY <2>1, <2>2, <2>5 DEF Inserts, Repeated
    <3>2. InsertedAt(C, r) = {}
      BY <1>2, <2>1, <2>2, <2>5 DEF InsertedAt, Inserts, Distinct
    <3>3. records'[r] = Kept[r] /\ watermarks'[r] = watermarks[r]
      BY <1>2, <1>4, <3>2, PutPageRows
    <3>4. records[r] = C[k] /\ watermarks[r] = MarkOf(C[k])
      BY <1>4, <2>2, <3>1, KeptFacts, NoneIsNoRow DEF VaultInv, RowIsTheWatermark
    <3> QED BY <2>2, <2>3, <3>1, <3>3, <3>4
  <2> QED BY <2>4, <2>5
<1>7. CASE ~ \E k \in 1 .. n - f : C[k].ref = r
  <2>1. ASSUME NEW j \in 1 .. n, L[j].ref = r PROVE j \in 1 .. f
    <3>1. CASE j > f
      <4>1. j - f \in 1 .. n - f /\ f + (j - f) = j
        BY <1>1, <3>1
      <4> QED BY <1>3, <1>7, <2>1, <4>1
    <3> QED BY <1>1, <3>1
  <2>2. InsertedAt(C, r) = {}
    BY <1>2, <1>3, <1>7 DEF InsertedAt, Inserts
  <2>3. records'[r] = Kept[r] /\ watermarks'[r] = watermarks[r]
    BY <1>2, <1>4, <2>2, PutPageRows
  <2>4. Kept[r] = records[r] \/ (Kept[r] = None /\ records[r] # None /\ Expired(records[r]))
    BY <1>4, KeptFacts
  <2>5. 1 .. f \subseteq 1 .. n
    BY <1>1
  <2> QED BY <1>5, <2>1, <2>3, <2>4, <2>5
<1> QED BY <1>6, <1>7

LEMMA ApplyInv == ASSUME SyncInv, NEW p \in Pullers, Apply(p) PROVE SyncInv'
<1> USE SourceAssumption
<1>1. VaultInv' /\ VaultMatchesCursor'
  BY ApplyVault, ApplyMatches
<1>2. /\ page[p].stream \in 1 .. stream /\ page[p].next <= Len(log[page[p].stream])
      /\ page[p].next \in Nat /\ page[p].complete \in BOOLEAN /\ page[p].made \in Nat
      /\ page[p].made <= now /\ now \in Nat
      /\ leaseUntil <= page[p].made + Lease /\ leaseUntil > now /\ leaseUntil \in Nat
      /\ page[p].complete => Covers(page[p].stream, page[p].next, page[p].made)
      /\ bound
  BY DEF SyncInv, SyncTypeOK, VaultInv, VaultTypeOK, PagesAreAnswers, Apply, CanApply, Holds, UnboundIsUntouched
<1>3. SyncTypeOK'
  <2>1. /\ log' = log /\ stream' = stream /\ issued' = issued
        /\ streamId' \in 0 .. MaxStream /\ cursor' \in Nat /\ ready' \in BOOLEAN
        /\ lastComplete' \in Nat /\ leaseToken' = 0 /\ leaseUntil' = 0
    BY <1>2 DEF Apply, SyncInv, SyncTypeOK, EndsPass
  <2>2. /\ pc' \in [Pullers -> {"idle", "asking", "answered", "failing"}]
        /\ lease' \in [Pullers -> [token : Nat, cursor : Nat]]
        /\ page' \in [Pullers -> [stream : 0 .. MaxStream, from : Nat, next : Nat,
                                  complete : BOOLEAN, made : Nat]]
    BY DEF Apply, Return, NoLease, NoPage, SyncInv, SyncTypeOK
  <2> QED BY <1>1, <2>1, <2>2 DEF SyncTypeOK, SyncInv, VaultInv
<1>4. CursorInLog'
  BY <1>2 DEF Apply, SyncInv, CursorInLog
<1>5. LeaseIsLast' /\ UnboundIsUntouched'
  BY <1>2 DEF Apply, Return, SyncInv, SyncTypeOK, LeaseIsLast, UnboundIsUntouched
<1>6. PagesAreAnswers'
  <2> SUFFICES ASSUME NEW q \in Pullers, q # p
               PROVE  /\ (pc'[q] = "asking" /\ leaseToken' = lease'[q].token) => leaseUntil' <= now' + Lease
                      /\ pc'[q] = "answered" =>
                           /\ page'[q].stream \in 1 .. stream'
                           /\ page'[q].from <= page'[q].next
                           /\ page'[q].next <= Len(log'[page'[q].stream])
                           /\ page'[q].made <= now'
                           /\ leaseToken' = lease'[q].token => leaseUntil' <= page'[q].made + Lease
                           /\ page'[q].complete => Covers(page[q].stream, page[q].next, page[q].made)'
    BY DEF Apply, Return, SyncInv, SyncTypeOK, PagesAreAnswers, Covers
  <2>1. /\ pc'[q] = pc[q] /\ lease'[q] = lease[q] /\ page'[q] = page[q]
        /\ leaseUntil' = 0 /\ log' = log /\ stream' = stream /\ now' = now
        /\ page[q].made \in Nat
    BY DEF Apply, Return, SyncInv, SyncTypeOK
  <2> QED BY <1>2, <2>1 DEF SyncInv, PagesAreAnswers, Covers
<1>7. ReadyCovers'
  <2> SUFFICES ASSUME ready'
               PROVE  \E g \in Nat :
                        /\ g <= now' /\ lastComplete' < g + Lease
                        /\ \A i \in DOMAIN log'[stream'] :
                             log'[stream'][i].at < g => (streamId' = stream' /\ i <= cursor')
    BY DEF ReadyCovers, Covers
  <2>1. /\ page[p].complete /\ lastComplete' = now /\ now' = now
        /\ log' = log /\ stream' = stream /\ streamId' = page[p].stream /\ cursor' = page[p].next
    BY DEF Apply, EndsPass
  <2>2. now < page[p].made + Lease
    BY <1>2
  <2>3. \A i \in DOMAIN log[stream] :
          log[stream][i].at < page[p].made => (page[p].stream = stream /\ i <= page[p].next)
    BY <1>2, <2>1 DEF Covers
  <2> QED BY <1>2, <2>1, <2>2, <2>3
<1> QED BY <1>1, <1>3, <1>4, <1>5, <1>6, <1>7 DEF SyncInv

(* The steps that leave the vault and the stream alone.                    *)
LEMMA ClaimInv == ASSUME SyncInv, NEW p \in Pullers, Claim(p) PROVE SyncInv'
<1> USE SourceAssumption
<1>1. VaultInv' /\ VaultMatchesCursor'
  BY SameVault DEF Claim
<1>2. SyncTypeOK'
  <2>1. issued' \in Nat /\ leaseToken' \in Nat /\ leaseUntil' \in Nat /\ ready' \in BOOLEAN
    BY DEF Claim, KeepsSnapshot, SyncInv, SyncTypeOK, VaultTypeOK
  <2>2. lease' \in [Pullers -> [token : Nat, cursor : Nat]]
        /\ pc' \in [Pullers -> {"idle", "asking", "answered", "failing"}]
    BY <2>1 DEF Claim, SyncInv, SyncTypeOK
  <2> QED BY <1>1, <2>1, <2>2 DEF Claim, SyncInv, SyncTypeOK, VaultInv
<1>3. CursorInLog'
  BY DEF Claim, SyncInv, CursorInLog
<1>4. LeaseIsLast' /\ UnboundIsUntouched'
  BY DEF Claim, SyncInv, SyncTypeOK, LeaseIsLast, UnboundIsUntouched, vaultVars
<1>5. PagesAreAnswers'
  <2> SUFFICES ASSUME NEW q \in Pullers
               PROVE  /\ (pc'[q] = "asking" /\ leaseToken' = lease'[q].token) => leaseUntil' <= now' + Lease
                      /\ pc'[q] = "answered" =>
                           /\ page'[q].stream \in 1 .. stream'
                           /\ page'[q].from <= page'[q].next
                           /\ page'[q].next <= Len(log'[page'[q].stream])
                           /\ page'[q].made <= now'
                           /\ leaseToken' = lease'[q].token => leaseUntil' <= page'[q].made + Lease
                           /\ page'[q].complete => Covers(page[q].stream, page[q].next, page[q].made)'
    BY DEF PagesAreAnswers, Covers
  <2>1. /\ log' = log /\ stream' = stream /\ now' = now /\ page' = page
        /\ leaseUntil' = now + Lease /\ now \in Nat /\ leaseToken' = issued + 1 /\ issued \in Nat
    BY DEF Claim, SyncInv, SyncTypeOK, VaultTypeOK, vaultVars
  <2>2. CASE q = p
    BY <2>1, <2>2 DEF Claim, SyncInv, SyncTypeOK
  <2>3. CASE q # p
    <3>1. pc'[q] = pc[q] /\ lease'[q] = lease[q]
      BY <2>3 DEF Claim, SyncInv, SyncTypeOK
    <3>2. pc[q] # "idle" => lease[q].token # leaseToken'
      BY <2>1 DEF SyncInv, LeaseIsLast
    <3> QED BY <2>1, <3>1, <3>2 DEF SyncInv, PagesAreAnswers, Covers
  <2> QED BY <2>2, <2>3
<1>6. ReadyCovers'
  BY DEF Claim, KeepsSnapshot, SyncInv, ReadyCovers, Covers, vaultVars
<1> QED BY <1>1, <1>2, <1>3, <1>4, <1>5, <1>6 DEF SyncInv

LEMMA AnswerInv == ASSUME SyncInv, NEW p \in Pullers, Answer(p) PROVE SyncInv'
<1> USE SourceAssumption
<1>1. VaultInv' /\ VaultMatchesCursor'
  BY SameVault DEF Answer, syncRow
<1>2. PICK next \in lease[p].cursor .. Len(log[stream]) :
        page' = [page EXCEPT ![p] =
          [stream |-> stream, from |-> lease[p].cursor, next |-> next,
           made |-> now, complete |-> next = Len(log[stream])]]
  BY DEF Answer
<1>3. /\ stream \in 1 .. MaxStream /\ lease[p].cursor \in Nat /\ now \in Nat /\ next \in Nat
      /\ lease[p].cursor <= next /\ next <= Len(log[stream]) /\ log[stream] \in Seq(Change)
      /\ log' = log /\ stream' = stream /\ now' = now /\ lease' = lease /\ bound' = bound
      /\ leaseToken' = leaseToken /\ leaseUntil' = leaseUntil /\ ready' = ready
      /\ streamId' = streamId /\ cursor' = cursor /\ lastComplete' = lastComplete /\ issued' = issued
      /\ pc' = [pc EXCEPT ![p] = "answered"] /\ pc[p] = "asking"
  BY DEF Answer, SyncInv, SyncTypeOK, VaultTypeOK, vaultVars, syncRow
<1>4. SyncTypeOK'
  <2>1. page' \in [Pullers -> [stream : 0 .. MaxStream, from : Nat, next : Nat,
                              complete : BOOLEAN, made : Nat]]
    BY <1>2, <1>3 DEF SyncInv, SyncTypeOK
  <2> QED BY <1>1, <1>3, <2>1 DEF SyncInv, SyncTypeOK, VaultInv
<1>5. CursorInLog' /\ ReadyCovers'
  BY <1>3 DEF SyncInv, CursorInLog, ReadyCovers, Covers
<1>6. LeaseIsLast' /\ UnboundIsUntouched'
  BY <1>3 DEF SyncInv, SyncTypeOK, LeaseIsLast, UnboundIsUntouched
<1>7. PagesAreAnswers'
  <2> SUFFICES ASSUME NEW q \in Pullers
               PROVE  /\ (pc'[q] = "asking" /\ leaseToken' = lease'[q].token) => leaseUntil' <= now' + Lease
                      /\ pc'[q] = "answered" =>
                           /\ page'[q].stream \in 1 .. stream'
                           /\ page'[q].from <= page'[q].next
                           /\ page'[q].next <= Len(log'[page'[q].stream])
                           /\ page'[q].made <= now'
                           /\ leaseToken' = lease'[q].token => leaseUntil' <= page'[q].made + Lease
                           /\ page'[q].complete => Covers(page[q].stream, page[q].next, page[q].made)'
    BY DEF PagesAreAnswers, Covers
  <2>1. CASE q = p
    <3>1. /\ page'[p].stream = stream /\ page'[p].from = lease[p].cursor
          /\ page'[p].next = next /\ page'[p].made = now
          /\ page'[p].complete => next = Len(log[stream])
          /\ pc'[p] = "answered"
      BY <1>2, <1>3 DEF SyncInv, SyncTypeOK
    <3>2. leaseToken = lease[p].token => leaseUntil <= now + Lease
      BY <1>3 DEF SyncInv, PagesAreAnswers
    <3>3. next = Len(log[stream]) => \A i \in DOMAIN log[stream] : i <= next
      BY <1>3
    <3>4. page'[p].complete => Covers(page[p].stream, page[p].next, page[p].made)'
      BY <1>3, <3>1, <3>3 DEF Covers
    <3> QED BY <1>3, <2>1, <3>1, <3>2, <3>4
  <2>2. CASE q # p
    <3>1. pc'[q] = pc[q] /\ page'[q] = page[q]
      BY <1>2, <1>3, <2>2 DEF SyncInv, SyncTypeOK
    <3> QED BY <1>3, <3>1 DEF SyncInv, PagesAreAnswers, Covers
  <2> QED BY <2>1, <2>2
<1> QED BY <1>1, <1>4, <1>5, <1>6, <1>7 DEF SyncInv

(* The rest of a pull, its configuration and its pause only close reads,   *)
(* return a lease or end a puller: nothing they leave is a promise more.   *)
LEMMA ClosingInv ==
  ASSUME SyncInv,
         UNCHANGED <<vaultVars, log, stream, streamId, cursor, lastComplete, issued>>,
         ready' \in BOOLEAN, ready' => ready,
         \/ leaseToken' = leaseToken /\ leaseUntil' = leaseUntil
         \/ leaseToken' = 0 /\ leaseUntil' = 0,
         pc' \in [Pullers -> {"idle", "asking", "answered", "failing"}],
         lease' \in [Pullers -> [token : Nat, cursor : Nat]],
         page' \in [Pullers -> [stream : 0 .. MaxStream, from : Nat, next : Nat,
                                complete : BOOLEAN, made : Nat]],
         \A q \in Pullers :
           \/ pc'[q] = "idle"
           \/ pc'[q] = "failing" /\ pc[q] # "idle" /\ lease'[q] = lease[q]
           \/ pc'[q] = pc[q] /\ lease'[q] = lease[q] /\ page'[q] = page[q]
  PROVE  SyncInv'
<1> USE SourceAssumption
<1>1. VaultInv' /\ VaultMatchesCursor'
  BY SameVault
<1>2. SyncTypeOK'
  BY <1>1 DEF SyncInv, SyncTypeOK, VaultInv
<1>3. CursorInLog' /\ ReadyCovers'
  BY DEF SyncInv, CursorInLog, ReadyCovers, Covers, vaultVars
<1>4. LeaseIsLast' /\ UnboundIsUntouched'
  BY DEF SyncInv, SyncTypeOK, LeaseIsLast, UnboundIsUntouched, vaultVars
<1>5. PagesAreAnswers'
  <2> SUFFICES ASSUME NEW q \in Pullers
               PROVE  /\ (pc'[q] = "asking" /\ leaseToken' = lease'[q].token) => leaseUntil' <= now' + Lease
                      /\ pc'[q] = "answered" =>
                           /\ page'[q].stream \in 1 .. stream'
                           /\ page'[q].from <= page'[q].next
                           /\ page'[q].next <= Len(log'[page'[q].stream])
                           /\ page'[q].made <= now'
                           /\ leaseToken' = lease'[q].token => leaseUntil' <= page'[q].made + Lease
                           /\ page'[q].complete => Covers(page[q].stream, page[q].next, page[q].made)'
    BY DEF PagesAreAnswers, Covers
  <2>1. now \in Nat /\ now' = now /\ log' = log /\ stream' = stream /\ page[q].made \in Nat
    BY DEF SyncInv, SyncTypeOK, VaultTypeOK, vaultVars
  <2>2. CASE pc'[q] = pc[q] /\ lease'[q] = lease[q] /\ page'[q] = page[q]
    BY <2>1, <2>2 DEF SyncInv, PagesAreAnswers, Covers
  <2> QED BY <2>2
<1> QED BY <1>1, <1>2, <1>3, <1>4, <1>5 DEF SyncInv

LEMMA EndOfPullInv ==
  ASSUME SyncInv, NEW p \in Pullers, Unanswered(p) \/ Reject(p) \/ Failed(p) \/ Crash(p)
  PROVE  SyncInv'
<1>1. /\ pc \in [Pullers -> {"idle", "asking", "answered", "failing"}]
      /\ lease \in [Pullers -> [token : Nat, cursor : Nat]]
      /\ page \in [Pullers -> [stream : 0 .. MaxStream, from : Nat, next : Nat,
                               complete : BOOLEAN, made : Nat]]
      /\ ready \in BOOLEAN
  BY DEF SyncInv, SyncTypeOK
<1>2. NoPage \in [stream : 0 .. MaxStream, from : Nat, next : Nat, complete : BOOLEAN, made : Nat]
      /\ NoLease \in [token : Nat, cursor : Nat]
  BY SourceAssumption DEF NoPage, NoLease
<1>3. CASE Unanswered(p)
  BY <1>1, <1>3, ClosingInv DEF Unanswered, syncRow
<1>4. CASE Reject(p)
  BY <1>1, <1>2, <1>4, ClosingInv DEF Reject, syncRow
<1>5. CASE Failed(p)
  <2>1. /\ UNCHANGED <<vaultVars, log, stream, streamId, cursor, lastComplete, issued>>
        /\ ready' \in BOOLEAN /\ (ready' => ready)
        /\ \/ leaseToken' = leaseToken /\ leaseUntil' = leaseUntil
           \/ leaseToken' = 0 /\ leaseUntil' = 0
    BY <1>1, <1>5 DEF Failed
  <2> QED BY <1>1, <1>2, <1>5, <2>1, ClosingInv DEF Failed, Return
<1>6. CASE Crash(p)
  BY <1>1, <1>2, <1>6, ClosingInv DEF Crash, Return, syncRow
<1> QED BY <1>3, <1>4, <1>5, <1>6

LEMMA PauseInv == SyncInv /\ Pause => SyncInv'
  BY ClosingInv DEF Pause, pullers, SyncInv, SyncTypeOK

(* A vault that holds nothing when it is bound matches a cursor at nothing.*)
LEMMA ConfigureInv == ASSUME SyncInv, Configure PROVE SyncInv'
<1> USE SourceAssumption
<1>1. /\ now' = now /\ records' = records /\ watermarks' = watermarks /\ outbox' = outbox
      /\ nextId' = nextId /\ log' = log /\ stream' = stream /\ streamId' = streamId
      /\ cursor' = cursor /\ lastComplete' = lastComplete /\ issued' = issued
      /\ pc' = pc /\ lease' = lease /\ page' = page
      /\ ~ready' /\ ready' \in BOOLEAN /\ leaseToken' = 0 /\ leaseUntil' = 0 /\ bound'
  BY DEF Configure, pullers
<1>2. VaultInv'
  <2>1. VaultTypeOK'
    BY <1>1 DEF Configure, SyncInv, VaultInv, VaultTypeOK
  <2>2. RowIsTheWatermark' /\ SignalsBehindMarks' /\ SignalsInOrder' /\ RowsLeaveByExpiry'
    BY <1>1 DEF SyncInv, VaultInv, RowIsTheWatermark, SignalsBehindMarks, SignalsInOrder,
                RowsLeaveByExpiry, MarkOf
  <2> QED BY <2>1, <2>2 DEF VaultInv
<1>3. SyncTypeOK'
  BY <1>1, <1>2 DEF SyncInv, SyncTypeOK, VaultInv
<1>4. CursorInLog' /\ ReadyCovers' /\ LeaseIsLast' /\ UnboundIsUntouched'
  BY <1>1 DEF SyncInv, CursorInLog, ReadyCovers, LeaseIsLast, UnboundIsUntouched
<1>5. PagesAreAnswers'
  <2>1. \A p \in Pullers : page[p].made \in Nat /\ lease[p].token \in Nat
        /\ (pc[p] # "idle" => lease[p].token # 0)
    BY DEF SyncInv, SyncTypeOK, LeaseIsLast
  <2>2. now \in Nat
    BY DEF SyncInv, SyncTypeOK, VaultTypeOK
  <2> QED BY <1>1, <2>1, <2>2 DEF SyncInv, PagesAreAnswers, Covers
<1>6. VaultMatchesCursor'
  <2>1. CASE bound
    BY <1>1, <2>1 DEF SyncInv, VaultMatchesCursor, Consumed, Consume, IsLast, Expired, MarkOf
  <2>2. CASE ~bound
    <3>1. cursor = 0 /\ Rows(watermarks) = {}
      BY <2>2 DEF SyncInv, UnboundIsUntouched, Configure
    <3>2. \A r \in Refs : watermarks[r] = None
      BY <3>1 DEF Rows
    <3>3. \A r \in Refs : records[r] = None
      BY <3>2, NoneIsNoRow DEF SyncInv, VaultInv, VaultTypeOK, RowIsTheWatermark
    <3> QED BY <1>1, <3>1, <3>2, <3>3 DEF VaultMatchesCursor, Consumed
  <2> QED BY <2>1, <2>2
<1> QED BY <1>2, <1>3, <1>4, <1>5, <1>6 DEF SyncInv

-----------------------------------------------------------------------------
(* A new change is observed now: what was covered before stays covered.    *)
LEMMA ShopChangeInv == ASSUME SyncInv, ShopChange PROVE SyncInv'
<1> USE SourceAssumption
<1>1. PICK c \in Incoming : c.at = now /\ log' = [log EXCEPT ![stream] = Append(log[stream], c)]
  BY DEF ShopChange
<1>2. /\ c \in Change /\ c.at \in Nat /\ now \in Nat
      /\ stream \in 1 .. MaxStream /\ log \in [1 .. MaxStream -> Seq(Change)]
      /\ log[stream] \in Seq(Change)
  BY <1>1, VaultAssumption DEF Incoming, Change, Time, SyncInv, SyncTypeOK, VaultTypeOK
<1>3. /\ now' = now /\ stream' = stream /\ streamId' = streamId /\ cursor' = cursor
      /\ ready' = ready /\ lastComplete' = lastComplete /\ leaseToken' = leaseToken
      /\ leaseUntil' = leaseUntil /\ issued' = issued /\ pc' = pc /\ lease' = lease
      /\ page' = page /\ bound' = bound
  BY DEF ShopChange, vaultVars, syncRow, pullers
<1>4. /\ log'[stream] = Append(log[stream], c)
      /\ \A s \in 1 .. MaxStream : s # stream => log'[s] = log[s]
      /\ log' \in [1 .. MaxStream -> Seq(Change)]
      /\ Len(log'[stream]) = Len(log[stream]) + 1
      /\ \A i \in DOMAIN log[stream] : log'[stream][i] = log[stream][i]
      /\ \A i \in DOMAIN log'[stream] : i \in DOMAIN log[stream] \/ log'[stream][i] = c
  BY <1>1, <1>2
<1>5. \A i \in Consumed : log'[streamId][i] = log[streamId][i]
  <2> SUFFICES ASSUME NEW i \in Consumed PROVE log'[streamId][i] = log[streamId][i]
    OBVIOUS
  <2>1. /\ cursor \in Nat /\ i \in 1 .. cursor /\ cursor <= Len(log[streamId])
        /\ streamId \in 1 .. MaxStream
    BY DEF Consumed, SyncInv, SyncTypeOK, CursorInLog
  <2>2. CASE streamId = stream
    <3>1. i \in 1 .. Len(log[stream])
      BY <1>2, <2>1, <2>2
    <3>2. i \in DOMAIN log[stream]
      BY <1>2, <3>1
    <3> QED BY <1>4, <2>2, <3>2
  <2>3. CASE streamId # stream
    BY <1>4, <2>1, <2>3
  <2> QED BY <2>2, <2>3
<1>6. VaultInv' /\ VaultMatchesCursor'
  BY <1>5, SameVault DEF ShopChange, syncRow
<1>7. SyncTypeOK'
  BY <1>3, <1>4, <1>6 DEF SyncInv, SyncTypeOK, VaultInv
<1>8. LeaseIsLast' /\ UnboundIsUntouched'
  BY <1>3 DEF SyncInv, LeaseIsLast, UnboundIsUntouched
<1>9. CursorInLog'
  BY <1>2, <1>3, <1>4 DEF SyncInv, SyncTypeOK, CursorInLog
<1>10. \A s, n, g : (Covers(s, n, g) /\ g \in Nat /\ g <= now) => Covers(s, n, g)'
  BY <1>1, <1>2, <1>3, <1>4 DEF Covers
<1>11. ReadyCovers'
  BY <1>3, <1>10 DEF SyncInv, ReadyCovers, Covers
<1>12. PagesAreAnswers'
  <2>1. ASSUME NEW s \in 1 .. MaxStream
        PROVE  Len(log[s]) \in Nat /\ Len(log'[s]) \in Nat /\ Len(log'[s]) >= Len(log[s])
    <3>1. log[s] \in Seq(Change) /\ log'[s] \in Seq(Change)
      BY <1>2, <1>4
    <3>2. Len(log[s]) \in Nat /\ Len(log'[s]) \in Nat
      BY <3>1
    <3>3. CASE s = stream
      BY <1>4, <3>2, <3>3
    <3>4. CASE s # stream
      BY <1>4, <3>2, <3>4
    <3> QED BY <3>2, <3>3, <3>4
  <2>2. \A p \in Pullers : page[p].made \in Nat /\ page[p].next \in Nat
    BY DEF SyncInv, SyncTypeOK
  <2>3. ASSUME NEW p \in Pullers, pc[p] = "answered"
        PROVE  /\ page[p].next <= Len(log'[page[p].stream])
               /\ page[p].complete => Covers(page[p].stream, page[p].next, page[p].made)'
    <3>1. /\ page[p].stream \in 1 .. MaxStream /\ page[p].next <= Len(log[page[p].stream])
          /\ page[p].made <= now
          /\ page[p].complete => Covers(page[p].stream, page[p].next, page[p].made)
      BY <1>2, <2>3 DEF SyncInv, PagesAreAnswers
    <3>2. page[p].next <= Len(log'[page[p].stream])
      BY <2>1, <2>2, <3>1
    <3>3. page' = page
      BY <1>3
    <3>4. page[p].complete => Covers(page[p].stream, page[p].next, page[p].made)'
      BY <1>10, <2>2, <3>1, <3>3 DEF Covers
    <3> QED BY <3>2, <3>4
  <2> QED BY <1>3, <2>3 DEF SyncInv, PagesAreAnswers, Covers
<1> QED BY <1>6, <1>7, <1>8, <1>9, <1>11, <1>12 DEF SyncInv

LEMMA NewStreamInv == ASSUME SyncInv, NewStream PROVE SyncInv'
<1> USE SourceAssumption
<1>1. /\ stream' = stream + 1 /\ stream \in 1 .. MaxStream /\ stream' \in 1 .. MaxStream
      /\ log' = log /\ log[stream'] = <<>>
  BY DEF NewStream, SyncInv, SyncTypeOK, CursorInLog
<1>2. /\ now' = now /\ streamId' = streamId /\ cursor' = cursor
      /\ ready' = ready /\ lastComplete' = lastComplete /\ leaseToken' = leaseToken
      /\ leaseUntil' = leaseUntil /\ issued' = issued /\ pc' = pc /\ lease' = lease
      /\ page' = page /\ bound' = bound
  BY DEF NewStream, vaultVars, syncRow, pullers
<1>3. VaultInv' /\ VaultMatchesCursor'
  BY SameVault DEF NewStream, syncRow
<1>4. SyncTypeOK'
  BY <1>1, <1>2, <1>3 DEF SyncInv, SyncTypeOK, VaultInv
<1>5. LeaseIsLast' /\ UnboundIsUntouched'
  BY <1>2 DEF SyncInv, LeaseIsLast, UnboundIsUntouched
<1>6. CursorInLog'
  BY <1>1, <1>2 DEF SyncInv, SyncTypeOK, CursorInLog
<1>7. \A s, n, g : Covers(s, n, g)'
  BY <1>1 DEF Covers
<1>8. ReadyCovers' /\ PagesAreAnswers'
  BY <1>1, <1>2, <1>7 DEF SyncInv, ReadyCovers, PagesAreAnswers, Covers
<1> QED BY <1>3, <1>4, <1>5, <1>6, <1>8 DEF SyncInv

(* What goes on beside the pulls.                                          *)
LEMMA BesideInv == ASSUME SyncInv, Ingest \/ Relayed \/ Passing PROVE SyncInv'
<1> USE SourceAssumption
<1>1. UNCHANGED <<log, stream, syncRow, issued, pullers>> /\ bound' = bound
  BY DEF Ingest, Relayed, Passing, Put, Acknowledge, Tick
<1>2. now \in Nat /\ now' \in Nat /\ now' >= now
  <2>1. now \in Nat
    BY DEF SyncInv, SyncTypeOK, VaultTypeOK
  <2>2. now' = now \/ now' = now + 1
    BY DEF Ingest, Relayed, Passing, Put, Acknowledge, Tick
  <2> QED BY <2>1, <2>2
<1>3. VaultInv'
  <2>1. CASE Ingest
    <3>1. Incoming \subseteq Change
      BY VaultAssumption DEF Incoming, Change, Time
    <3> QED BY <2>1, <3>1, PutInv DEF Ingest, SyncInv
  <2>2. CASE Relayed
    BY <2>2, AcknowledgeInv DEF Relayed, SyncInv
  <2>3. CASE Passing
    BY <2>3, TickInv DEF Passing, SyncInv
  <2> QED BY <2>1, <2>2, <2>3
<1>4. VaultMatchesCursor'
  <2> SUFFICES ASSUME bound PROVE VaultMatchesCursor'
    BY <1>1 DEF VaultMatchesCursor
  <2>1. records' = records /\ watermarks' = watermarks
    BY DEF Ingest, Relayed, Passing, Put, Acknowledge, Tick
  <2>2. /\ Consumed' = Consumed
        /\ \A i \in Consumed : Consume(i)' = Consume(i) /\ MarkOf(Consume(i))' = MarkOf(Consume(i))
    BY <1>1 DEF Consumed, Consume, syncRow, MarkOf
  <2>3. ASSUME NEW i \in Consumed PROVE Consume(i).at \in Nat
    <3>1. streamId \in 1 .. MaxStream /\ cursor \in Nat /\ i \in 1 .. cursor /\ cursor <= Len(log[streamId])
      BY DEF Consumed, SyncInv, SyncTypeOK, CursorInLog
    <3>2. log[streamId] \in Seq(Change)
      BY <3>1 DEF SyncInv, SyncTypeOK
    <3>3. i \in 1 .. Len(log[streamId])
      BY <3>1, <3>2
    <3>4. log[streamId][i] \in Change
      BY <3>2, <3>3
    <3> QED BY <3>4 DEF Consume, Change
  <2>4. \A i \in Consumed : Expired(Consume(i)) => Expired(Consume(i))'
    BY <1>2, <2>2, <2>3, VaultAssumption DEF Expired
  <2>5. \A r \in Refs, i \in Consumed : IsLast(r, i)' <=> IsLast(r, i)
    BY <2>2 DEF IsLast
  <2> SUFFICES ASSUME NEW r \in Refs
               PROVE  \/ /\ \A i \in Consumed : Consume(i)'.ref # r
                         /\ watermarks[r] = None /\ records[r] = None
                      \/ \E i \in Consumed :
                           /\ IsLast(r, i)'
                           /\ watermarks[r] = MarkOf(Consume(i))'
                           /\ \/ records[r] = Consume(i)'
                              \/ records[r] = None /\ Expired(Consume(i))'
    BY <1>1, <2>1, <2>2 DEF VaultMatchesCursor
  <2>6. \/ /\ \A i \in Consumed : Consume(i).ref # r
           /\ watermarks[r] = None /\ records[r] = None
        \/ \E i \in Consumed :
             /\ IsLast(r, i)
             /\ watermarks[r] = MarkOf(Consume(i))
             /\ \/ records[r] = Consume(i)
                \/ records[r] = None /\ Expired(Consume(i))
    BY DEF SyncInv, VaultMatchesCursor
  <2> QED BY <2>2, <2>4, <2>5, <2>6
<1>5. SyncTypeOK'
  BY <1>1, <1>3 DEF SyncInv, SyncTypeOK, VaultInv, syncRow, pullers
<1>6. CursorInLog' /\ LeaseIsLast' /\ UnboundIsUntouched'
  BY <1>1 DEF SyncInv, CursorInLog, LeaseIsLast, UnboundIsUntouched, syncRow, pullers
<1>7. ReadyCovers'
  BY <1>1, <1>2 DEF SyncInv, ReadyCovers, Covers, syncRow
<1>8. PagesAreAnswers'
  <2>1. \A p \in Pullers : page[p].made \in Nat /\ leaseUntil \in Nat
    BY DEF SyncInv, SyncTypeOK
  <2> QED BY <1>1, <1>2, <2>1 DEF SyncInv, PagesAreAnswers, Covers, syncRow, pullers
<1> QED BY <1>3, <1>4, <1>5, <1>6, <1>7, <1>8 DEF SyncInv

LEMMA StutterInv == SyncInv /\ UNCHANGED vars => SyncInv'
  BY ClosingInv DEF vars, syncRow, pullers, SyncInv, SyncTypeOK

LEMMA SyncNextInv == SyncInv /\ [SyncNext]_vars => SyncInv'
<1> SUFFICES ASSUME SyncInv, [SyncNext]_vars PROVE SyncInv'
  OBVIOUS
<1>1. ASSUME NEW p \in Pullers, PullStep(p) PROVE SyncInv'
  BY <1>1, ClaimInv, AnswerInv, ApplyInv, EndOfPullInv DEF PullStep
<1>2. CASE Configure \/ Pause
  BY <1>2, ConfigureInv, PauseInv
<1>3. CASE ShopChange \/ NewStream
  BY <1>3, ShopChangeInv, NewStreamInv
<1>4. CASE Ingest \/ Relayed \/ Passing
  BY <1>4, BesideInv
<1>5. CASE UNCHANGED vars
  BY <1>5, StutterInv
<1> QED BY <1>1, <1>2, <1>3, <1>4, <1>5 DEF SyncNext

THEOREM SyncInvariant == SyncSpec => []SyncInv
  BY SyncInitInv, SyncNextInv, PTL DEF SyncSpec

-----------------------------------------------------------------------------
(* Every variable keeps its type.                                          *)
THEOREM SyncTypeCorrect == SyncSpec => []SyncTypeOK
<1>1. SyncInv => SyncTypeOK
  BY DEF SyncInv
<1> QED BY <1>1, SyncInvariant, PTL

(* The cursor and the vault advance together: whichever pullers die, expire*)
(* or race, the vault is the consumed part of the stream and nothing else  *)
(* (local-source-sync.mjs:87-123).                                         *)
THEOREM CursorAndVaultTogether == SyncSpec => []VaultMatchesCursor
<1>1. SyncInv => VaultMatchesCursor
  BY DEF SyncInv
<1> QED BY <1>1, SyncInvariant, PTL

(* A reader is never served a vault that lacks a change observed longer ago*)
(* than the deadline and one lease, for any deadline and any lease         *)
(* (local-data-store.mjs:191-198).                                         *)
LEMMA StalenessFromInv == SyncInv => BoundedStaleness
<1> SUFFICES ASSUME SyncInv, bound, Readable, NEW i \in DOMAIN log[stream],
                    log[stream][i].at + Fresh + Lease <= now
             PROVE  streamId = stream /\ i <= cursor
  BY DEF BoundedStaleness
<1>1. ready /\ now - lastComplete <= Fresh
  BY DEF Readable
<1>2. PICK g \in Nat : /\ g <= now /\ lastComplete < g + Lease
                       /\ Covers(streamId, cursor, g)
  BY <1>1 DEF SyncInv, ReadyCovers
<1>3. log[stream][i].at \in Nat /\ now \in Nat /\ lastComplete \in Nat
  <2>1. stream \in 1 .. MaxStream /\ log[stream] \in Seq(Change)
    BY DEF SyncInv, SyncTypeOK
  <2>2. log[stream][i] \in Change
    BY <2>1
  <2> QED BY <2>2 DEF Change, SyncInv, SyncTypeOK, VaultTypeOK
<1>4. log[stream][i].at < g
  BY <1>1, <1>2, <1>3, SourceAssumption
<1> QED BY <1>2, <1>4 DEF Covers

THEOREM StalenessIsBounded == SyncSpec => []BoundedStaleness
  BY StalenessFromInv, SyncInvariant, PTL

(* A row never differs from the watermark of its reference, in revision or *)
(* in time, whatever page is applied and in whatever order: the back-fill  *)
(* (local-data-store.mjs:97-100) and every upsert keep them equal, so      *)
(* refusing by the watermark is refusing by the row.                       *)
THEOREM PulledRowsAreTheirMarks == SyncSpec => []RowIsTheWatermark
<1>1. SyncInv => RowIsTheWatermark
  BY DEF SyncInv, VaultInv
<1> QED BY <1>1, SyncInvariant, PTL

(* The promises of the vault survive the pulls: signals stay readable and  *)
(* no old revision returns, although a whole page is written at once.      *)
THEOREM PulledSignalsStayReadable == SyncSpec => []SignalsAreReadable
<1>1. SyncInv => SignalsAreReadable
  BY ReadableFromInv DEF SyncInv
<1> QED BY <1>1, SyncInvariant, PTL

LEMMA SyncNextNewer == SyncInv /\ [SyncNext]_vars => NoResurrection
<1> SUFFICES ASSUME SyncInv, [SyncNext]_vars PROVE NoResurrection
  OBVIOUS
<1>1. CASE UNCHANGED records
  BY <1>1 DEF NoResurrection
<1>2. ASSUME NEW p \in Pullers, Apply(p) PROVE NoResurrection
  <2>1. Carried(p) \in Seq(Change)
    BY <1>2, CarriedChanges DEF Apply
  <2>2. Distinct(Carried(p)) /\ Acceptable(Carried(p)) /\ PutPage(Carried(p))
    BY <1>2 DEF Apply, CanApply, WellFormed, Distinct
  <2> QED BY <2>1, <2>2, PutPageNewer DEF SyncInv
<1>3. ASSUME NEW c \in Incoming, Put(c) PROVE NoResurrection
  <2>1. <<c>> \in Seq(Change) /\ Distinct(<<c>>)
    BY VaultAssumption DEF Distinct, Incoming, Change, Time
  <2> QED BY <1>3, <2>1, PutPageNewer DEF Put, SyncInv
<1>4. \/ UNCHANGED records
      \/ \E p \in Pullers : Apply(p)
      \/ \E c \in Incoming : Put(c)
  BY DEF SyncNext, PullStep, Claim, Answer, Unanswered, Reject, Failed, Crash, Configure,
         Pause, ShopChange, NewStream, Ingest, Relayed, Passing, Acknowledge, Tick,
         vars, vaultVars
<1> QED BY <1>1, <1>2, <1>3, <1>4

THEOREM PullsNeverResurrect == SyncSpec => NeverResurrected
<1>1. SyncInv /\ [SyncNext]_vars => [NoResurrection]_vaultVars
  BY SyncNextNewer
<1> QED BY <1>1, SyncInvariant, PTL DEF SyncSpec, NeverResurrected
-----------------------------------------------------------------------------
(* Which steps may open reads, or move the cursor.                         *)
LEMMA OpeningSteps ==
  ASSUME SyncInv, [SyncNext]_vars, bound, ~Readable, Readable'
  PROVE  \E p \in Pullers : pc[p] = "answered" /\ page[p].complete /\ Apply(p)
<1>1. now \in Nat /\ lastComplete \in Nat /\ leaseUntil \in Nat /\ bound'
  BY DEF SyncInv, SyncTypeOK, VaultTypeOK, SyncNext, PullStep, Claim, Answer, Unanswered, Apply,
         Reject, Failed, Crash, Configure, Pause, ShopChange, NewStream, Ingest, Relayed, Passing,
         Put, Acknowledge, Tick, vars, vaultVars
<1>2. ready' /\ now' - lastComplete' <= Fresh /\ (leaseToken' # 0 => leaseUntil' > now')
  BY <1>1 DEF Readable
<1>3. CASE UNCHANGED <<now, bound, ready, lastComplete, leaseToken, leaseUntil>>
  BY <1>3 DEF Readable
<1>4. ASSUME NEW p \in Pullers, Claim(p) PROVE FALSE
  BY <1>1, <1>2, <1>4 DEF Claim, KeepsSnapshot, Readable, vaultVars
<1>5. ASSUME NEW p \in Pullers, Failed(p) PROVE UNCHANGED <<now, bound, ready, lastComplete, leaseToken, leaseUntil>>
  BY <1>2, <1>5 DEF Failed, vaultVars
<1>6. ASSUME NEW p \in Pullers, Apply(p) PROVE pc[p] = "answered" /\ page[p].complete
  BY <1>2, <1>6 DEF Apply, EndsPass
<1>7. CASE Configure \/ Pause
  BY <1>2, <1>7 DEF Configure, Pause
<1>8. CASE Passing
  BY <1>1, <1>2, <1>8, SourceAssumption DEF Passing, Tick, Readable, syncRow
<1>9. \/ UNCHANGED <<now, bound, ready, lastComplete, leaseToken, leaseUntil>>
      \/ \E p \in Pullers : Claim(p) \/ Failed(p) \/ Apply(p)
      \/ Configure \/ Pause \/ Passing
  BY DEF SyncNext, PullStep, Answer, Unanswered, Reject, Crash, ShopChange, NewStream,
         Ingest, Relayed, Put, Acknowledge, vars, vaultVars, syncRow
<1> QED BY <1>3, <1>4, <1>5, <1>6, <1>7, <1>8, <1>9

(* Whatever closed reads, only a complete page applied under a live lease  *)
(* opens them again (docs/DEVELOPMENT.md, "Source synchronization").       *)
THEOREM OnlyACompletePassOpens == SyncSpec => ReopenedByCompletePass
<1>1. SyncInv /\ [SyncNext]_vars =>
        [(bound /\ ~Readable /\ Readable') =>
           \E p \in Pullers : pc[p] = "answered" /\ page[p].complete /\ Apply(p)]_vars
  BY OpeningSteps
<1> QED BY <1>1, SyncInvariant, PTL DEF SyncSpec, ReopenedByCompletePass

(* Only the puller that claimed last moves the cursor.                     *)
THEOREM TheLastClaimWins == SyncSpec => LastClaimWins
<1>1. ASSUME SyncInv, [SyncNext]_vars, NEW p \in Pullers,
             pc[p] = "answered", cursor' # cursor, pc'[p] = "idle"
      PROVE  lease[p].token = issued
  <2>1. PICK q \in Pullers : Apply(q)
    BY <1>1 DEF SyncNext, PullStep, Claim, Answer, Unanswered, Reject, Failed, Crash, Configure,
                Pause, ShopChange, NewStream, Ingest, Relayed, Passing, vars, syncRow
  <2>2. /\ pc' = [pc EXCEPT ![q] = "idle"]
        /\ pc \in [Pullers -> {"idle", "asking", "answered", "failing"}]
    BY <1>1, <2>1 DEF Apply, Return, SyncInv, SyncTypeOK
  <2>3. p = q
    <3>1. CASE p # q
      <4>1. pc'[p] = pc[p]
        BY <2>2, <3>1
      <4> QED BY <1>1, <4>1
    <3> QED BY <3>1
  <2>4. leaseToken = lease[p].token /\ lease[p].token \in 1 .. issued /\ issued \in Nat
    BY <1>1, <2>1, <2>3 DEF Apply, CanApply, Holds, SyncInv, SyncTypeOK, LeaseIsLast
  <2> QED BY <1>1, <2>4 DEF SyncInv, LeaseIsLast
<1>2. SyncInv /\ [SyncNext]_vars =>
        [\A p \in Pullers : (pc[p] = "answered" /\ cursor' # cursor /\ pc'[p] = "idle")
            => lease[p].token = issued]_vars
  BY <1>1
<1> QED BY <1>2, SyncInvariant, PTL DEF SyncSpec, LastClaimWins

(* While reads stay open, the vault moves by whole passes only             *)
(* (local-source-sync.mjs:100-118).                                        *)
THEOREM ReadersSeeSnapshots == SyncSpec => OpenReadsSeeSnapshots
<1>1. ASSUME SyncInv, [SyncNext]_vars, bound, Readable', cursor' # cursor
      PROVE  \E p \in Pullers : page[p].complete /\ cursor' = page[p].next
  <2>1. PICK q \in Pullers : Apply(q)
    BY <1>1 DEF SyncNext, PullStep, Claim, Answer, Unanswered, Reject, Failed, Crash, Configure,
                Pause, ShopChange, NewStream, Ingest, Relayed, Passing, vars, syncRow
  <2>2. bound' /\ ready' = page[q].complete /\ cursor' = page[q].next
    BY <1>1, <2>1 DEF Apply, EndsPass
  <2>3. page[q].complete
    BY <1>1, <2>2 DEF Readable
  <2> QED BY <2>2, <2>3
<1>2. SyncInv /\ [SyncNext]_vars =>
        [(bound /\ Readable /\ Readable' /\ cursor' # cursor) =>
           \E p \in Pullers : page[p].complete /\ cursor' = page[p].next]_vars
  BY <1>1
<1> QED BY <1>2, SyncInvariant, PTL DEF SyncSpec, OpenReadsSeeSnapshots
=============================================================================
