---------------------------- MODULE CopiesProofs ----------------------------
(***************************************************************************)
(* Proofs about ServerCopies, for any number of deliveries, accounts,      *)
(* workers and bindings and any limits and lives.                          *)
(*                                                                         *)
(* Emails: while the copy of a delivery is there, the last answer about it *)
(* named that copy, and what was sent is what was answered.  Whoever is    *)
(* not among the first n of a table has n before it that are: a copy that  *)
(* is not too old goes only for later ones.                                *)
(*                                                                         *)
(* Order histories: the accounts with orders all along that a pass has     *)
(* passed by are stored under its cycle, since it began; those ahead of it *)
(* that its page reaches are pending; and only the turn that holds the     *)
(* row's lease can save, about the pass the row speaks of.                 *)
(*                                                                         *)
(* Installation: while no setup has lost one, there is one secret, and all *)
(* that holds, has read or has copied a secret has that one or none.       *)
(***************************************************************************)
EXTENDS ServerCopies, FiniteSetTheorems, WellFoundedInduction, TLAPS

RowType == [copy : Copies \union {NoCopy}, created : Int, sent : Int]
Kept == Copies \union {NoCopy}

CopyInv ==
  /\ now \in Nat /\ sentAt \in [Ids -> Int]
  /\ archive \in [Ids -> RowType]
  /\ answer \in [Ids -> Kept] /\ mail \in [Ids -> Kept]
  /\ \A i \in Ids : archive[i] # NoRow /\ answer[i] # NoCopy => archive[i].copy = answer[i]
  /\ \A i \in Ids : mail[i] # NoCopy => answer[i] = mail[i]

\* Every copy of t is one of the archive.
ArchiveKeeps(t) == \A i \in Ids : t[i] = NoRow \/ (archive[i] # NoRow /\ t[i].copy = archive[i].copy)

(* Cleaning removes copies, and a confirmation changes none.               *)
LEMMA CleanedKeeps ==
  ASSUME NEW t \in [Ids -> RowType], NEW times, ArchiveKeeps(t)
  PROVE  Cleaned(t, times).rows \in [Ids -> RowType] /\ ArchiveKeeps(Cleaned(t, times).rows)
<1>1. NoRow \in RowType
  BY DEF NoRow, RowType, Never
<1>2. Cleaned(t, times).rows \in [Ids -> RowType]
      /\ \A i \in Ids : Cleaned(t, times).rows[i] \in {t[i], NoRow}
  BY <1>1 DEF Cleaned
<1> QED
  BY <1>2 DEF ArchiveKeeps

LEMMA MarkedKeeps ==
  ASSUME NEW t \in [Ids -> RowType], NEW i \in Ids, t[i] # NoRow, ArchiveKeeps(t), sentAt[i] \in Int
  PROVE  Marked(t, i) \in [Ids -> RowType] /\ ArchiveKeeps(Marked(t, i))
  BY DEF Marked, ArchiveKeeps, RowType, Never

(* What finds no more than the archive has, and lets the Cloud know only   *)
(* what it finds, keeps the invariant.                                     *)
LEMMA KeptInv ==
  ASSUME CopyInv, archive' \in [Ids -> RowType], ArchiveKeeps(archive'), UNCHANGED <<now, cloud>>
  PROVE  CopyInv'
  BY DEF CopyInv, ArchiveKeeps, cloud

LEMMA OpenedKeeps ==
  ASSUME CopyInv
  PROVE  Opened.rows \in [Ids -> RowType] /\ ArchiveKeeps(Opened.rows)
<1>1. ArchiveKeeps(archive)
  BY DEF ArchiveKeeps
<1> QED
  BY <1>1, CleanedKeeps DEF Opened, CopyInv

LEMMA ConfirmedKeeps ==
  ASSUME CopyInv, NEW i \in Ids, Opened.rows[i] # NoRow, NEW times
  PROVE  LET rows == Cleaned(Marked(Opened.rows, i), times).rows
         IN  rows \in [Ids -> RowType] /\ ArchiveKeeps(rows)
<1>1. Marked(Opened.rows, i) \in [Ids -> RowType] /\ ArchiveKeeps(Marked(Opened.rows, i))
  BY OpenedKeeps, MarkedKeeps DEF CopyInv
<1> QED
  BY <1>1, CleanedKeeps

LEMMA ArchiveStep == CopyInv /\ [ArchiveNext]_archiveVars => CopyInv'
<1> SUFFICES ASSUME CopyInv, [ArchiveNext]_archiveVars PROVE CopyInv'
  OBVIOUS
<1>1. ASSUME NEW i \in Ids, NEW copy \in Copies, Retry(Opened, i, copy) PROVE CopyInv'
  <2>1. archive' = Opened.rows /\ mail[i] = NoCopy /\ archive'[i] # NoRow
        /\ UNCHANGED <<now, mail, sentAt>>
    BY <1>1 DEF Retry, Becomes, Replied
  <2>2. answer' \in {[answer EXCEPT ![i] = archive'[i].copy], [answer EXCEPT ![i] = NoCopy]}
    BY <1>1 DEF Retry, Becomes, Replied, AnsweredCopy
  <2>3. archive'[i].copy \in Kept
    BY <2>1, OpenedKeeps DEF RowType, Kept
  <2> QED
    BY <2>1, <2>2, <2>3, OpenedKeeps DEF CopyInv, ArchiveKeeps
<1>2. ASSUME NEW i \in Ids, NEW copy \in Copies, Store(Opened, i, copy) PROVE CopyInv'
  <2> DEFINE new == [copy |-> copy, created |-> now, sent |-> Never]
  <2>1. archive' = [Opened.rows EXCEPT ![i] = new] /\ mail[i] = NoCopy /\ UNCHANGED <<now, mail, sentAt>>
    BY <1>2 DEF Store, Replied
  <2>2. answer' \in {[answer EXCEPT ![i] = copy], [answer EXCEPT ![i] = NoCopy]}
    BY <1>2 DEF Store, Replied
  <2>3. new \in RowType /\ new.copy = copy
    BY DEF RowType, CopyInv, Never
  <2> HIDE DEF new
  <2> QED
    BY <2>1, <2>2, <2>3, OpenedKeeps DEF CopyInv, ArchiveKeeps, Kept
<1>3. ASSUME NEW i \in Ids, Refuse(Opened, i) PROVE CopyInv'
  <2>1. archive' = Opened.rows /\ mail[i] = NoCopy /\ UNCHANGED <<now, mail, sentAt>>
        /\ answer' = [answer EXCEPT ![i] = NoCopy]
    BY <1>3 DEF Refuse, Becomes, Replied
  <2> QED
    BY <2>1, OpenedKeeps DEF CopyInv, ArchiveKeeps, Kept
<1>4. ASSUME NEW i \in Ids, Confirm(Opened, i) PROVE CopyInv'
  <2>1. archive' \in [Ids -> RowType] /\ ArchiveKeeps(archive')
    <3>1. CASE Opened.rows[i] = NoRow
      BY <1>4, <3>1, OpenedKeeps DEF Confirm, Becomes
    <3>2. CASE Opened.rows[i] # NoRow
      BY <1>4, <3>2, ConfirmedKeeps DEF Confirm, Becomes
    <3> QED
      BY <3>1, <3>2
  <2> QED
    BY <1>4, <2>1, KeptInv DEF Confirm
<1>5. ASSUME NEW i \in Ids, ViewFound(Opened, i) \/ ViewMissing(Opened, i) PROVE CopyInv'
  BY <1>5, OpenedKeeps, ConfirmedKeeps, KeptInv DEF ViewFound, ViewMissing, Becomes
<1>6. ASSUME NEW i \in Ids, Send(i) PROVE CopyInv'
  BY <1>6 DEF Send, CopyInv, tables
<1>7. ASSUME NEW i \in Ids, Convert(i) PROVE CopyInv'
  BY <1>7 DEF Convert, CopyInv, tables
<1>8. CASE Tick \/ UNCHANGED archiveVars
  BY <1>8 DEF Tick, CopyInv, tables, cloud, archiveVars
<1> QED
  BY <1>1, <1>2, <1>3, <1>4, <1>5, <1>6, <1>7, <1>8 DEF ArchiveNext

(* What the history shows is what the Cloud has sent, for any deliveries,  *)
(* copies and limits, whatever answers and confirmations are lost, late or *)
(* repeated (email-archive.mjs:57).                                        *)
THEOREM HistoryShowsTheMail == CopiesSpec => []ShowsWhatWasSent
<1>1. CopiesInit => CopyInv
  BY DEF CopiesInit, ArchiveInit, CopyInv, RowType, Kept, NoRow, Never
<1>2. CopyInv /\ [CopiesNext]_copiesVars => CopyInv'
  BY ArchiveStep DEF CopiesNext, copiesVars
<1>3. CopyInv => ShowsWhatWasSent
  BY DEF CopyInv, ShowsWhatWasSent
<1> QED
  BY <1>1, <1>2, <1>3, PTL DEF CopiesSpec
-----------------------------------------------------------------------------
(* Least and greatest members, as the connector's index takes them.        *)
LEMMA LeastExists == \A T \in SUBSET Nat : T # {} => \E x \in T : \A y \in T : x <= y
<1> SUFFICES ASSUME NEW T \in SUBSET Nat, T # {} PROVE \E x \in T : \A y \in T : x <= y
  OBVIOUS
<1>1. \E x \in T : \A y \in T : ~(y < x)
  <2>1. PICK x \in T : \A y \in T : ~(<<y, x>> \in OpToRel(<, Nat))
    BY NatLessThanWellFounded, WFMin
  <2> QED
    BY <2>1 DEF OpToRel
<1> QED
  BY <1>1

LEMMA MinIsLeast ==
  ASSUME NEW S \in SUBSET Nat, S # {}
  PROVE  Min(S) \in S /\ \A y \in S : Min(S) <= y
  BY LeastExists DEF Min

LEMMA MaxIsGreatest ==
  ASSUME NEW n \in Nat, NEW S \in SUBSET (0 .. n), S # {}
  PROVE  Max(S) \in S /\ \A y \in S : Max(S) >= y
<1> DEFINE T == {x \in 0 .. n : n - x \in S}
<1>1. T \in SUBSET Nat /\ T # {}
  <2>1. PICK s \in S : TRUE
    OBVIOUS
  <2>2. n - s \in T
    BY <2>1
  <2> QED
    BY <2>2
<1>2. PICK x \in T : \A y \in T : x <= y
  BY <1>1, LeastExists
<1>3. n - x \in S /\ \A y \in S : n - x >= y
  <2>1. \A y \in S : n - y \in T
    OBVIOUS
  <2> QED
    BY <1>2, <2>1
<1> QED
  BY <1>3 DEF Max
-----------------------------------------------------------------------------
Progress == [cycle : Nat, after : 0 .. Total, ceiling : 0 .. Total \union {NotYet},
             pending : SUBSET Accounts, last : BOOLEAN]
Turn == [lease : Nat \ {NoLease}, binding : Bindings, state : Progress]
SyncRow == [binding : Bindings, state : Progress, due : Int, complete : Int,
            lease : Nat, until : Int, error : BOOLEAN]
Stored == [cycle : Nat, read : Int, by : Bindings \union {NoBinding}]

HistoryTypes ==
  /\ clock \in Nat /\ claims \in Nat /\ began \in Nat /\ began <= clock
  /\ steady \subseteq Accounts /\ bound \in Bindings
  /\ row \in SyncRow /\ row.lease <= claims
  /\ accounts \in [Accounts -> Stored]
  /\ turns \in [Workers -> Turn \union {Idle}]
  /\ \A w \in Workers : turns[w] # Idle => turns[w].lease <= claims

\* What a pass knows of the accounts ahead of it.
Ahead(state) ==
  /\ state.cycle # 0
  /\ state.ceiling # NotYet => \A a \in steady : a <= state.ceiling
  /\ \A p \in state.pending : state.after < p
  /\ \A a \in steady :
       (state.after < a /\ (state.last \/ \E p \in state.pending : a <= p)) => a \in state.pending

\* Until histories of its beginning are gone, those behind it are stored.
Recent == clock - began <= Retention
Behind(state) ==
  Recent => \A a \in steady : a <= state.after => accounts[a].cycle = state.cycle /\ accounts[a].read >= began

HistoryInv ==
  /\ HistoryTypes
  /\ row.state # NoState => Ahead(row.state) /\ Behind(row.state)
  /\ \A w \in Workers : turns[w] # Idle /\ turns[w].lease = row.lease =>
       /\ turns[w].binding = row.binding
       /\ Ahead(turns[w].state) /\ Behind(turns[w].state)
  /\ (row.state = NoState /\ row.complete # NotYet /\ Recent) =>
       \A a \in steady : accounts[a] # NoAccount /\ accounts[a].read >= began
  /\ \A a \in Accounts : accounts[a] # NoAccount => accounts[a].by = row.binding

LEMMA NoAccountIs == NoAccount \in Stored /\ NoAccount.read = -1 /\ NoAccount.cycle = 0
  BY DEF NoAccount, Stored, NotYet

LEMMA NoStateIs == NoState \in Progress /\ NoState.cycle = 0 /\ NoState.pending = {} /\ NoState.after = 0
                   /\ NoState.ceiling = NotYet /\ NoState.last = FALSE
  BY HistoryAssumption DEF NoState, Progress, NotYet

(* Opening the history takes nothing of a pass that is recent.             *)
LEMMA PurgedKeeps ==
  ASSUME HistoryTypes
  PROVE  /\ Purged(accounts) \in [Accounts -> Stored]
         /\ \A a \in Accounts : Purged(accounts)[a] \in {accounts[a], NoAccount}
         /\ \A a \in Accounts : Recent /\ accounts[a].read >= began => Purged(accounts)[a] = accounts[a]
<1> USE HistoryAssumption, NoAccountIs
<1>1. \A a \in Accounts : Purged(accounts)[a] =
        IF accounts[a].read < clock - Retention THEN NoAccount ELSE accounts[a]
  BY DEF Purged
<1>2. ASSUME NEW a \in Accounts, Recent, accounts[a].read >= began
      PROVE  ~(accounts[a].read < clock - Retention)
  BY <1>2 DEF Recent, HistoryTypes, Stored
<1>3. Purged(accounts) \in [Accounts -> Stored]
  BY DEF Purged, HistoryTypes
<1> QED
  BY <1>1, <1>2, <1>3

LEMMA HeartbeatInv == ASSUME HistoryInv, Heartbeat PROVE HistoryInv'
<1>1. accounts' = Purged(accounts) /\ UNCHANGED <<clock, row, bound, turns, claims, began, steady>>
  BY DEF Heartbeat, pass
<1>2. HistoryTypes'
  BY <1>1, PurgedKeeps DEF HistoryInv, HistoryTypes
<1>3. ASSUME NEW state, Behind(state) PROVE Behind(state)'
  BY <1>1, <1>3, PurgedKeeps DEF Behind, Recent, HistoryInv, HistoryTypes
<1>4. ASSUME NEW state, Ahead(state) PROVE Ahead(state)'
  BY <1>1, <1>4 DEF Ahead
<1> QED
  BY <1>1, <1>2, <1>3, <1>4, PurgedKeeps DEF HistoryInv, HistoryTypes, Recent

(* A turn begins where the row's pass is, or a new pass.                   *)
LEMMA ClaimInv == ASSUME HistoryInv, NEW w \in Workers, Claim(w) PROVE HistoryInv'
<1>0. PICK c, state, turn :
        /\ c = Current /\ state = Begun(c.row.state)
        /\ turn = [lease |-> claims + 1, binding |-> bound, state |-> state]
  OBVIOUS
<1>1. /\ row' = [c.row EXCEPT !.state = state, !.lease = claims + 1, !.until = clock + Lease]
      /\ turns' = [turns EXCEPT ![w] = turn]
      /\ accounts' = c.accounts
      /\ IF c.row.state = NoState THEN began' = clock /\ steady' \in SUBSET Accounts
                                  ELSE UNCHANGED <<began, steady>>
      /\ claims' = claims + 1 /\ UNCHANGED <<clock, bound>>
  BY <1>0 DEF Claim, pass
<1>2. /\ c.row \in SyncRow /\ c.row.binding = bound
      /\ c.row.state # NoState => c.row = row /\ c.accounts = Purged(accounts)
  <2>1. CASE row.binding = bound
    BY <1>0, <2>1 DEF Current, HistoryInv, HistoryTypes
  <2>2. CASE row.binding # bound
    BY <1>0, <2>2, NoStateIs DEF Current, HistoryInv, HistoryTypes, NewRow, SyncRow, NoLease, NotYet
  <2> QED
    BY <2>1, <2>2
<1>3. /\ c.accounts \in [Accounts -> Stored]
      /\ \A a \in Accounts : c.accounts[a] # NoAccount => c.accounts[a].by = bound
  <2>1. CASE row.binding = bound
    BY <1>0, <2>1, PurgedKeeps DEF Current, HistoryInv
  <2>2. CASE row.binding # bound
    BY <1>0, <2>2, NoAccountIs DEF Current
  <2> QED
    BY <2>1, <2>2
<1>4. /\ state \in Progress /\ state.cycle # 0
      /\ c.row.state # NoState => state = c.row.state
      /\ c.row.state = NoState => state = [NoState EXCEPT !.cycle = claims + 1]
  <2>1. CASE c.row.state = NoState
    BY <1>0, <2>1, NoStateIs DEF Begun, HistoryInv, HistoryTypes, Progress
  <2>2. CASE c.row.state # NoState
    BY <1>0, <1>2, <2>2 DEF Begun, HistoryInv, SyncRow, Ahead
  <2> QED
    BY <2>1, <2>2
<1>5. /\ row' \in SyncRow /\ row'.state = state /\ row'.lease = claims + 1 /\ row'.binding = bound
      /\ row'.state # NoState
  <2>1. claims + 1 \in Nat /\ clock + Lease \in Int
    BY HistoryAssumption DEF HistoryInv, HistoryTypes
  <2> QED
    BY <1>1, <1>2, <1>4, <2>1, NoStateIs DEF SyncRow
<1>6. turn \in Turn
  BY <1>0, <1>4 DEF Turn, HistoryInv, HistoryTypes, NoLease
<1>7. Ahead(state)' /\ Behind(state)'
  <2>1. CASE c.row.state = NoState
    <3>1. /\ state.cycle # 0 /\ state.after = 0 /\ state.ceiling = NotYet
          /\ state.pending = {} /\ state.last = FALSE
      BY <1>4, <2>1, NoStateIs DEF Progress
    <3>2. steady' \subseteq Accounts
      BY <1>1, <2>1
    <3> QED
      BY <3>1, <3>2 DEF Ahead, Behind, Accounts
  <2>2. CASE c.row.state # NoState
    <3>1. state = row.state /\ row.state # NoState /\ accounts' = Purged(accounts)
          /\ UNCHANGED <<clock, began, steady>>
      BY <1>1, <1>2, <1>4, <2>2
    <3>2. Ahead(row.state) /\ Behind(row.state)
      BY <3>1 DEF HistoryInv
    <3> QED
      BY <3>1, <3>2, PurgedKeeps DEF Ahead, Behind, Recent, HistoryInv, HistoryTypes
  <2> QED
    BY <2>1, <2>2
<1>8. HistoryTypes'
  <2>1. clock' \in Nat /\ claims' \in Nat /\ began' \in Nat /\ began' <= clock'
        /\ steady' \subseteq Accounts /\ bound' \in Bindings
    BY <1>1 DEF HistoryInv, HistoryTypes
  <2>2. turns' \in [Workers -> Turn \union {Idle}]
    BY <1>1, <1>6 DEF HistoryInv, HistoryTypes
  <2>3. \A v \in Workers : turns'[v] # Idle => turns'[v].lease <= claims'
    <3>1. turn.lease = claims + 1
      BY <1>0
    <3> QED
      BY <1>1, <3>1 DEF HistoryInv, HistoryTypes, Turn
  <2> QED
    BY <1>1, <1>3, <1>5, <2>1, <2>2, <2>3 DEF HistoryTypes
<1>9. ASSUME NEW v \in Workers, turns'[v] # Idle, turns'[v].lease = row'.lease
      PROVE  turns'[v] = turn
  BY <1>1, <1>5, <1>9 DEF HistoryInv, HistoryTypes, Turn, SyncRow
<1>10. turn.binding = row'.binding /\ turn.state = state
  BY <1>0, <1>5
<1> QED
  BY <1>1, <1>3, <1>5, <1>7, <1>8, <1>9, <1>10 DEF HistoryInv

(* The next page of the index reaches every steady account it passes by.   *)
LEMMA PageIsWhole ==
  ASSUME NEW index \in SUBSET Accounts, NEW after \in 0 .. Total, NEW ceiling \in 0 .. Total,
         NEW a \in index, NEW p \in NextIn(index, after, ceiling), after < a, a <= p
  PROVE  a \in NextIn(index, after, ceiling)
<1> DEFINE ahead == {x \in index : after < x /\ x <= ceiling}
           upTo(x) == {y \in ahead : y <= x}
<1>1. p \in ahead /\ Cardinality(upTo(p)) <= Page
  BY DEF NextIn
<1>2. a \in ahead
  BY <1>1, HistoryAssumption DEF Accounts
<1>3. upTo(a) \subseteq upTo(p)
  <2>1. \A y \in ahead : y \in Nat /\ a \in Nat /\ p \in Nat
    BY <1>1, HistoryAssumption DEF Accounts
  <2>2. \A y \in ahead : y <= a => y <= p
    BY <2>1
  <2> QED
    BY <2>2
<1>4. IsFiniteSet(upTo(p))
  <2>1. IsFiniteSet(1 .. Total)
    BY FS_Interval, HistoryAssumption
  <2>2. upTo(p) \subseteq 1 .. Total
    BY DEF Accounts
  <2> HIDE DEF upTo
  <2> QED
    BY <2>1, <2>2, FS_Subset
<1>5. Cardinality(upTo(a)) <= Cardinality(upTo(p)) /\ Cardinality(upTo(a)) \in Nat /\ Cardinality(upTo(p)) \in Nat
  BY <1>3, <1>4, FS_Subset, FS_CardinalityType
<1> QED
  BY <1>1, <1>2, <1>5, HistoryAssumption DEF NextIn

LEMMA ReadIndexInv == ASSUME HistoryInv, NEW w \in Workers, ReadIndex(w) PROVE HistoryInv'
<1>1. PICK index \in SUBSET Accounts, state \in {turns[w].state}, last \in BOOLEAN :
      \E ceiling \in {CeilingIn(index, state)} :
      \E page \in {NextIn(index, state.after, ceiling)} :
        /\ steady \subseteq index
        /\ IF last THEN \A a \in index \ page : a <= state.after \/ a > ceiling
                   ELSE Cardinality(page) = Page
        /\ turns' = [turns EXCEPT ![w].state =
             [state EXCEPT !.ceiling = ceiling, !.pending = page, !.last = last]]
  BY DEF ReadIndex
<1>2. PICK ceiling, page :
        /\ ceiling = CeilingIn(index, state) /\ page = NextIn(index, state.after, ceiling)
        /\ steady \subseteq index
        /\ last => \A a \in index \ page : a <= state.after \/ a > ceiling
        /\ turns' = [turns EXCEPT ![w].state =
             [state EXCEPT !.ceiling = ceiling, !.pending = page, !.last = last]]
  BY <1>1
<1>3. PICK next : next = [state EXCEPT !.ceiling = ceiling, !.pending = page, !.last = last]
  OBVIOUS
<1>4. turns[w] # Idle /\ turns[w] \in Turn /\ state = turns[w].state /\ state \in Progress
      /\ UNCHANGED <<clock, row, accounts, bound, claims, began, steady>>
  BY DEF ReadIndex, pass, HistoryInv, HistoryTypes, Turn
<1>5. ceiling \in 0 .. Total
      /\ (state.ceiling # NotYet => ceiling = state.ceiling)
      /\ (state.ceiling = NotYet => \A a \in index : a <= ceiling)
  <2>1. CASE state.ceiling = NotYet
    <3>1. index \union {0} \in SUBSET (0 .. Total) /\ index \union {0} # {}
      BY HistoryAssumption DEF Accounts
    <3>2. Max(index \union {0}) \in index \union {0} /\ \A y \in index \union {0} : Max(index \union {0}) >= y
      BY <3>1, MaxIsGreatest, HistoryAssumption
    <3> QED
      BY <1>2, <2>1, <3>1, <3>2, HistoryAssumption DEF CeilingIn, Accounts
  <2>2. CASE state.ceiling # NotYet
    BY <1>2, <1>4, <2>2 DEF CeilingIn, Progress
  <2> QED
    BY <2>1, <2>2
<1>6. page \subseteq index /\ \A p \in page : state.after < p
  BY <1>2 DEF NextIn
<1>7. next \in Progress /\ next.after = state.after /\ next.cycle = state.cycle
      /\ next.ceiling = ceiling /\ next.pending = page /\ next.last = last
  BY <1>3, <1>4, <1>5, <1>6 DEF Progress
<1>8. turns' = [turns EXCEPT ![w].state = next]
  BY <1>2, <1>3
<1>9. PICK turn : turn = [turns[w] EXCEPT !.state = next]
  OBVIOUS
<1>10. turn \in Turn /\ turn.lease = turns[w].lease /\ turn.binding = turns[w].binding /\ turn.state = next
  BY <1>4, <1>7, <1>9 DEF Turn
<1>11. turns' = [turns EXCEPT ![w] = turn]
  BY <1>4, <1>8, <1>9 DEF HistoryInv, HistoryTypes
<1>12. HistoryTypes'
  BY <1>4, <1>10, <1>11 DEF HistoryInv, HistoryTypes
<1>13. ASSUME Ahead(state) PROVE Ahead(next)
  <2>1. \A a \in steady : a <= ceiling
    BY <1>2, <1>5, <1>13 DEF Ahead
  <2>2. ASSUME NEW a \in steady, next.after < a, next.last \/ \E p \in page : a <= p
        PROVE  a \in page
    <3>1. a \in index /\ state.after \in 0 .. Total
      BY <1>2, <1>4 DEF Progress
    <3>2. CASE next.last
      <4>1. ~(a <= state.after) /\ ~(a > ceiling)
        BY <1>5, <1>7, <2>1, <2>2, <3>1, HistoryAssumption DEF Accounts
      <4> QED
        BY <1>2, <1>7, <3>1, <3>2, <4>1
    <3>3. CASE \E p \in page : a <= p
      BY <1>2, <1>5, <1>7, <2>2, <3>1, <3>3, PageIsWhole
    <3> QED
      BY <2>2, <3>2, <3>3
  <2> QED
    BY <1>6, <1>7, <1>13, <2>1, <2>2 DEF Ahead
<1>14. ASSUME NEW s, Ahead(s) PROVE Ahead(s)'
  BY <1>4, <1>14 DEF Ahead
<1>15. ASSUME NEW s, Behind(s) PROVE Behind(s)'
  BY <1>4, <1>15 DEF Behind, Recent
<1>16. ASSUME Behind(state) PROVE Behind(next)
  BY <1>7, <1>16 DEF Behind
<1>17. ASSUME NEW v \in Workers, turns'[v] # Idle, turns'[v].lease = row'.lease
       PROVE  turns'[v].binding = row'.binding /\ (Ahead(turns[v].state) /\ Behind(turns[v].state))'
  <2>0. PICK s : s = turns'[v].state
    OBVIOUS
  <2>1. turns'[v].binding = row'.binding /\ Ahead(s) /\ Behind(s)
    <3>1. CASE v = w
      <4>1. turns'[v] = turn /\ turns[w].lease = row.lease /\ s = next
        BY <1>4, <1>10, <1>11, <1>17, <2>0, <3>1 DEF HistoryInv, HistoryTypes
      <4>2. turns[w].binding = row.binding /\ Ahead(state) /\ Behind(state)
        BY <1>4, <4>1 DEF HistoryInv
      <4> QED
        BY <1>4, <1>10, <1>13, <1>16, <4>1, <4>2
    <3>2. CASE v # w
      BY <1>4, <1>11, <1>17, <2>0, <3>2 DEF HistoryInv, HistoryTypes
    <3> QED
      BY <3>1, <3>2
  <2> QED
    BY <1>4, <2>0, <2>1 DEF Ahead, Behind, Recent
<1>18. row'.state # NoState => (Ahead(row.state) /\ Behind(row.state))'
  BY <1>4 DEF HistoryInv, Ahead, Behind, Recent
<1> QED
  BY <1>4, <1>12, <1>17, <1>18 DEF HistoryInv, Recent

(* A turn that ends without an answer.                                     *)
LEMMA DieInv == ASSUME HistoryInv, NEW w \in Workers, Die(w) PROVE HistoryInv'
<1>1. turns' = [turns EXCEPT ![w] = Idle]
      /\ UNCHANGED <<clock, row, accounts, bound, claims, began, steady>>
  BY DEF Die, pass
<1>2. HistoryTypes'
  BY <1>1 DEF HistoryInv, HistoryTypes
<1>3. \A v \in Workers : turns'[v] # Idle => turns'[v] = turns[v] /\ turns[v] # Idle
  BY <1>1 DEF HistoryInv, HistoryTypes
<1> QED
  BY <1>1, <1>2, <1>3 DEF HistoryInv, Ahead, Behind, Recent

(* Time takes a pass out of the recent ones, never into them.              *)
LEMMA TimePassesInv == ASSUME HistoryInv, TimePasses PROVE HistoryInv'
<1>1. clock' = clock + 1 /\ UNCHANGED <<row, accounts, bound, turns, claims, began, steady>>
  BY DEF TimePasses, pass
<1>2. HistoryTypes'
  BY <1>1 DEF HistoryInv, HistoryTypes
<1>3. Recent' => Recent
  BY <1>1, HistoryAssumption DEF Recent, HistoryInv, HistoryTypes
<1> QED
  BY <1>1, <1>2, <1>3 DEF HistoryInv, Ahead, Behind

LEMMA RebindInv == ASSUME HistoryInv, Rebind PROVE HistoryInv'
<1>1. bound' \in Bindings /\ UNCHANGED <<clock, row, accounts, turns, claims, began, steady>>
  BY DEF Rebind, pass
<1> QED
  BY <1>1 DEF HistoryInv, HistoryTypes, Ahead, Behind, Recent

(* What failed() writes is a row again.                                    *)
LEMMA FailedRow ==
  ASSUME NEW r \in SyncRow, NEW due \in Int, NEW s,
         s = [r EXCEPT !.lease = NoLease, !.until = 0, !.due = due, !.error = TRUE]
  PROVE  /\ s \in SyncRow /\ s.state = r.state /\ s.lease = NoLease /\ s.binding = r.binding
         /\ s.complete = r.complete
<1>1. PICK error \in BOOLEAN :
        s = [binding |-> r.binding, state |-> r.state, due |-> due, complete |-> r.complete,
             lease |-> NoLease, until |-> 0, error |-> error]
  BY DEF SyncRow
<1>2. r.binding \in Bindings /\ r.state \in Progress /\ r.complete \in Int
  BY DEF SyncRow
<1> QED
  BY <1>1, <1>2 DEF SyncRow, NoLease

LEMMA FailInv == ASSUME HistoryInv, NEW w \in Workers, Fail(w) PROVE HistoryInv'
<1>1. turns' = [turns EXCEPT ![w] = Idle]
      /\ UNCHANGED <<clock, accounts, bound, claims, began, steady>>
  BY DEF Fail, pass
<1>2. row' = IF row.lease = turns[w].lease
             THEN [row EXCEPT !.lease = NoLease, !.until = 0, !.due = clock + RetryDelay, !.error = TRUE]
             ELSE row
  BY DEF Fail
<1>3. row' \in SyncRow /\ row'.state = row.state /\ row'.binding = row.binding
      /\ row'.complete = row.complete /\ row'.lease \in {NoLease, row.lease}
  <2>1. clock + RetryDelay \in Int /\ row \in SyncRow
    BY HistoryAssumption DEF HistoryInv, HistoryTypes
  <2>2. CASE row.lease = turns[w].lease
    <3>1. row' = [row EXCEPT !.lease = NoLease, !.until = 0, !.due = clock + RetryDelay, !.error = TRUE]
      BY <1>2, <2>2
    <3> QED
      BY <2>1, <3>1, FailedRow
  <2>3. CASE row.lease # turns[w].lease
    BY <1>2, <2>1, <2>3
  <2> QED
    BY <2>2, <2>3
<1>4. HistoryTypes'
  BY <1>1, <1>3 DEF HistoryInv, HistoryTypes, NoLease, SyncRow
<1>5. ASSUME NEW v \in Workers, turns'[v] # Idle, turns'[v].lease = row'.lease
      PROVE  turns'[v] = turns[v] /\ turns[v] # Idle /\ turns[v].lease = row.lease
  BY <1>1, <1>3, <1>5 DEF HistoryInv, HistoryTypes, Turn
<1> QED
  BY <1>1, <1>3, <1>4, <1>5 DEF HistoryInv, Ahead, Behind, Recent

(* A saved pass: the row and the histories of finish() together.           *)
LEMMA SavedInv ==
  ASSUME HistoryInv, NEW w \in Workers, NEW state \in Progress, NEW as,
         turns[w] # Idle, Holds(turns[w]),
         row' = Saved(state, IsLast(state)), turns' = [turns EXCEPT ![w] = Idle],
         accounts' = OnlyCycle(as, state.cycle, IsLast(state)),
         UNCHANGED <<clock, bound, claims, began, steady>>,
         as \in [Accounts -> Stored],
         \A a \in Accounts : as[a] # NoAccount => as[a].by = row.binding,
         Ahead(state),
         Recent => \A a \in steady : a <= state.after \/ IsLast(state) =>
                     as[a].cycle = state.cycle /\ as[a].read >= began
  PROVE  HistoryInv'
<1> USE HistoryAssumption
<1>0. PICK complete \in BOOLEAN :
        /\ complete <=> IsLast(state)
        /\ row' = Saved(state, complete) /\ accounts' = OnlyCycle(as, state.cycle, complete)
        /\ Recent => \A a \in steady : (a <= state.after \/ complete) =>
             as[a].cycle = state.cycle /\ as[a].read >= began
  <2>1. IsLast(state) \in BOOLEAN
    BY DEF IsLast, Progress
  <2> QED
    BY <2>1, Zenon
<1>1. /\ row' \in SyncRow /\ row'.lease = NoLease /\ row'.binding = row.binding
      /\ row'.state = IF complete THEN NoState ELSE state
  <2>1. clock \in Int /\ clock + Interval \in Int /\ clock + Pause \in Int /\ row \in SyncRow
        /\ row.complete \in Int
    BY DEF HistoryInv, HistoryTypes, SyncRow
  <2>2. CASE complete
    <3>1. PICK error \in BOOLEAN :
            row' = [binding |-> row.binding, state |-> NoState, due |-> clock + Interval, complete |-> clock,
                    lease |-> NoLease, until |-> 0, error |-> error]
      BY <1>0, <2>1, <2>2 DEF Saved, SyncRow
    <3>2. row' \in SyncRow /\ row'.state = NoState /\ row'.lease = NoLease /\ row'.binding = row.binding
      BY <2>1, <3>1, NoStateIs DEF SyncRow, NoLease
    <3> QED
      BY <2>2, <3>2
  <2>3. CASE ~complete
    <3>1. PICK error \in BOOLEAN :
            row' = [binding |-> row.binding, state |-> state, due |-> clock + Pause, complete |-> row.complete,
                    lease |-> NoLease, until |-> 0, error |-> error]
      BY <1>0, <2>1, <2>3 DEF Saved, SyncRow
    <3>2. row' \in SyncRow /\ row'.state = state /\ row'.lease = NoLease /\ row'.binding = row.binding
      BY <2>1, <3>1, NoStateIs DEF SyncRow, NoLease
    <3> QED
      BY <2>3, <3>2
  <2> QED
    BY <2>2, <2>3
<1>2. /\ accounts' \in [Accounts -> Stored]
      /\ \A a \in Accounts : accounts'[a] \in {as[a], NoAccount}
      /\ \A a \in Accounts : as[a].cycle = state.cycle => accounts'[a] = as[a]
  BY <1>0, NoAccountIs DEF OnlyCycle
<1>3. HistoryTypes'
  <2>1. turns' \in [Workers -> Turn \union {Idle}]
        /\ \A v \in Workers : turns'[v] # Idle => turns'[v].lease <= claims'
    BY DEF HistoryInv, HistoryTypes
  <2>2. clock' \in Nat /\ claims' \in Nat /\ began' \in Nat /\ began' <= clock'
        /\ steady' \subseteq Accounts /\ bound' \in Bindings
    BY DEF HistoryInv, HistoryTypes
  <2>3. row' \in SyncRow /\ row'.lease <= claims'
    BY <1>1, <2>2 DEF NoLease
  <2> QED
    BY <1>2, <2>1, <2>2, <2>3 DEF HistoryTypes
<1>4. ASSUME NEW v \in Workers, turns'[v] # Idle PROVE turns'[v].lease # row'.lease
  BY <1>1, <1>4 DEF HistoryInv, HistoryTypes, Turn
<1>5. steady \subseteq Accounts /\ Recent' = Recent
  BY DEF HistoryInv, HistoryTypes, Recent
<1>6. ASSUME ~complete PROVE (Ahead(row.state) /\ Behind(row.state))'
  <2>1. row'.state = state
    BY <1>1, <1>6
  <2>2. \A a \in steady : Recent /\ a <= state.after => accounts'[a].cycle = state.cycle /\ accounts'[a].read >= began
    BY <1>0, <1>2, <1>5
  <2> QED
    BY <1>5, <1>6, <2>1, <2>2 DEF Ahead, Behind
<1>7. ASSUME complete, Recent
      PROVE  \A a \in steady : accounts'[a] # NoAccount /\ accounts'[a].read >= began
  <2>1. state.cycle # 0
    BY DEF Ahead
  <2> QED
    BY <1>0, <1>2, <1>5, <1>7, <2>1, NoAccountIs
<1>8. ~complete => row'.state # NoState
  BY <1>1, NoStateIs DEF Ahead
<1>9. \A a \in Accounts : accounts'[a] # NoAccount => accounts'[a].by = row'.binding
  BY <1>1, <1>2
<1> QED
  BY <1>1, <1>3, <1>4, <1>5, <1>6, <1>7, <1>8, <1>9 DEF HistoryInv

(* The turn that holds the lease is of the row's pass.                     *)
LEMMA HoldsTheRow ==
  ASSUME HistoryInv, NEW w \in Workers, turns[w] # Idle, Holds(turns[w])
  PROVE  /\ turns[w] \in Turn /\ turns[w].state \in Progress /\ turns[w].binding = row.binding
         /\ Ahead(turns[w].state) /\ Behind(turns[w].state)
  BY DEF HistoryInv, HistoryTypes, Holds, Turn

LEMMA FinishEmptyInv == ASSUME HistoryInv, NEW w \in Workers, FinishEmpty(w) PROVE HistoryInv'
<1>1. PICK state : state = turns[w].state
  OBVIOUS
<1>2. /\ turns[w] # Idle /\ Holds(turns[w]) /\ state.pending = {} /\ state.last
      /\ row' = Saved(state, IsLast(state)) /\ accounts' = OnlyCycle(accounts, state.cycle, IsLast(state))
      /\ turns' = [turns EXCEPT ![w] = Idle] /\ UNCHANGED <<clock, bound, claims, began, steady>>
  BY <1>1 DEF FinishEmpty, pass, IsLast, Saved, OnlyCycle
<1>3. state \in Progress /\ Ahead(state) /\ Behind(state)
  BY <1>1, <1>2, HoldsTheRow
<1>4. \A a \in steady : a <= state.after
  <2>1. \A a \in steady : a \in Nat /\ state.after \in Nat
    BY <1>3, HistoryAssumption DEF Progress, HistoryInv, HistoryTypes, Accounts
  <2> QED
    BY <1>2, <1>3, <2>1 DEF Ahead
<1>5. Recent => \A a \in steady : accounts[a].cycle = state.cycle /\ accounts[a].read >= began
  BY <1>3, <1>4 DEF Behind
<1>6. /\ accounts \in [Accounts -> Stored]
      /\ \A a \in Accounts : accounts[a] # NoAccount => accounts[a].by = row.binding
  BY DEF HistoryInv, HistoryTypes
<1> QED
  BY <1>2, <1>3, <1>5, <1>6, SavedInv

(* The account read is the least pending: none steady is passed over.      *)
LEMMA ReadHistoryInv == ASSUME HistoryInv, NEW w \in Workers, ReadHistory(w) PROVE HistoryInv'
<1> USE HistoryAssumption
<1>1. PICK old, a, state, as :
        /\ old = turns[w].state /\ a = Min(old.pending) /\ state = Advanced(old, a)
        /\ as = [accounts EXCEPT ![a] = [cycle |-> state.cycle, read |-> clock, by |-> turns[w].binding]]
  OBVIOUS
<1>2. /\ turns[w] # Idle /\ Holds(turns[w]) /\ old.pending # {}
      /\ row' = Saved(state, IsLast(state)) /\ accounts' = OnlyCycle(as, state.cycle, IsLast(state))
      /\ turns' = [turns EXCEPT ![w] = Idle] /\ UNCHANGED <<clock, bound, claims, began, steady>>
  BY <1>1 DEF ReadHistory, pass
<1>3. old \in Progress /\ Ahead(old) /\ Behind(old) /\ turns[w].binding = row.binding
      /\ row.binding \in Bindings
  BY <1>1, <1>2, HoldsTheRow DEF HistoryInv, HistoryTypes, SyncRow
<1>4. a \in old.pending /\ a \in Accounts /\ \A p \in old.pending : a <= p
  <2>1. old.pending \in SUBSET Nat /\ old.pending \subseteq Accounts
    BY <1>3 DEF Progress, Accounts
  <2> QED
    BY <1>1, <1>2, <2>1, MinIsLeast
<1>5. /\ state \in Progress /\ state.cycle = old.cycle /\ state.after = a /\ state.ceiling = old.ceiling
      /\ state.pending = old.pending \ {a} /\ state.last = old.last
  <2>1. state = [cycle |-> old.cycle, after |-> a, ceiling |-> old.ceiling,
                 pending |-> old.pending \ {a}, last |-> old.last]
    BY <1>1, <1>3 DEF Advanced, Progress
  <2>2. /\ old.cycle \in Nat /\ a \in 0 .. Total /\ old.ceiling \in 0 .. Total \union {NotYet}
        /\ old.pending \ {a} \in SUBSET Accounts /\ old.last \in BOOLEAN
    BY <1>3, <1>4 DEF Progress, Accounts
  <2>3. state \in Progress
    BY <2>1, <2>2 DEF Progress
  <2> QED
    BY <2>1, <2>3
<1>6. /\ as \in [Accounts -> Stored]
      /\ as[a].cycle = state.cycle /\ as[a].read = clock /\ as[a].by = row.binding
      /\ \A b \in Accounts \ {a} : as[b] = accounts[b]
  <2>1. accounts \in [Accounts -> Stored] /\ clock \in Int /\ state.cycle \in Nat
    BY <1>5 DEF HistoryInv, HistoryTypes, Progress
  <2>2. [cycle |-> state.cycle, read |-> clock, by |-> turns[w].binding] \in Stored
    BY <1>3, <2>1 DEF Stored
  <2> QED
    BY <1>1, <1>3, <1>4, <2>1, <2>2
<1>7. steady \subseteq Accounts /\ began <= clock /\ old.after < a /\ old.after \in Nat
  BY <1>3, <1>4 DEF HistoryInv, HistoryTypes, Ahead, Progress
<1>8. Ahead(state)
  <2>1. \A p \in state.pending : state.after < p
    <3>1. \A p \in state.pending : p \in Nat /\ a \in Nat
      BY <1>4, <1>5 DEF Progress, Accounts
    <3> QED
      BY <1>4, <1>5, <3>1
  <2>2. ASSUME NEW b \in steady, state.after < b, state.last \/ \E p \in state.pending : b <= p
        PROVE  b \in state.pending
    <3>1. old.after < b /\ b # a
      BY <1>4, <1>5, <1>7, <2>2 DEF Accounts
    <3> QED
      BY <1>3, <1>5, <2>2, <3>1 DEF Ahead
  <2> QED
    BY <1>3, <1>5, <2>1, <2>2 DEF Ahead
<1>9. ASSUME Recent, NEW b \in steady, b <= state.after \/ IsLast(state)
      PROVE  as[b].cycle = state.cycle /\ as[b].read >= began
  <2>1. b \in Nat /\ a \in Nat /\ b \in Accounts
    BY <1>4, <1>7 DEF Accounts
  <2>2. b <= a
    <3>1. state.last /\ state.pending = {} => b <= a
      BY <1>5, <1>8, <2>1 DEF Ahead
    <3> QED
      BY <1>5, <1>9, <3>1 DEF IsLast
  <2>3. CASE b = a
    BY <1>6, <1>7, <2>3 DEF HistoryInv, HistoryTypes
  <2>4. CASE b # a
    <3>1. b < a
      BY <2>1, <2>2, <2>4
    <3>2. b <= old.after
      BY <1>3, <1>4, <1>7, <2>1, <3>1 DEF Ahead
    <3> QED
      BY <1>3, <1>5, <1>6, <1>9, <2>1, <2>4, <3>2 DEF Behind
  <2> QED
    BY <2>3, <2>4
<1>10. \A b \in Accounts : as[b] # NoAccount => as[b].by = row.binding
  BY <1>6 DEF HistoryInv
<1>11. Recent => \A b \in steady : b <= state.after \/ IsLast(state) =>
                   as[b].cycle = state.cycle /\ as[b].read >= began
  BY <1>9
<1> QED
  BY <1>2, <1>5, <1>6, <1>8, <1>10, <1>11, SavedInv

LEMMA HistoryInitInv == HistoryInit => HistoryInv
<1> SUFFICES ASSUME HistoryInit PROVE HistoryInv
  OBVIOUS
<1>1. row \in SyncRow /\ row.lease = 0 /\ row.state = NoState /\ row.complete = NotYet
  BY NoStateIs, HistoryAssumption DEF HistoryInit, NewRow, SyncRow, NoLease, NotYet
<1>2. HistoryTypes
  BY <1>1, NoAccountIs DEF HistoryInit, HistoryTypes
<1> QED
  BY <1>1, <1>2 DEF HistoryInit, HistoryInv

LEMMA HistoryStep == ASSUME HistoryInv, HistoryNext PROVE HistoryInv'
  BY ClaimInv, ReadIndexInv, FinishEmptyInv, ReadHistoryInv, FailInv, DieInv, HeartbeatInv, RebindInv,
     TimePassesInv DEF HistoryNext

LEMMA HistoryStutters == ASSUME HistoryInv, UNCHANGED historyVars PROVE HistoryInv'
  BY DEF historyVars, pass, HistoryInv, HistoryTypes, Ahead, Behind, Recent

(* What the heartbeat reports as a complete pass is one, whatever turns    *)
(* expired, failed or were overtaken, for every number of accounts,        *)
(* workers and page: every account that had orders all along is stored,    *)
(* and nothing of another binding is.                                      *)
THEOREM ReportsAreWhole == CopiesSpec => []ReportIsWhole
<1>1. CopiesInit => HistoryInv
  BY HistoryInitInv DEF CopiesInit
<1>2. HistoryInv /\ [CopiesNext]_copiesVars => HistoryInv'
  BY HistoryStep, HistoryStutters DEF CopiesNext, copiesVars
<1>3. HistoryInv => ReportIsWhole
  BY DEF HistoryInv, ReportIsWhole, Reported, Recent
<1> QED
  BY <1>1, <1>2, <1>3, PTL DEF CopiesSpec
-----------------------------------------------------------------------------
SetupRun == [at : {"idle", "asks", "writes"}, secret : Nat, read : Nat]
Directory == [at : {"free", "state", "config", "verified", "refused"}, secret : Nat \union {Torn}, sealed : Nat]

FilesTypes ==
  /\ setups \in [Setups -> SetupRun] /\ places \in [Places -> Directory]
  /\ env \in Nat \union {Torn} /\ running \in Nat \union {Down} /\ sealed \in Nat
  /\ created \in Nat /\ saved \in BOOLEAN /\ lost \in BOOLEAN

(* The secret s is the only one there is: what a file holds, a server or a *)
(* setup has read and a directory has copied is that one or none.          *)
OnlySecret(s) ==
  /\ env \in {0, Torn, s} /\ sealed \in {0, s} /\ running \in {Down, 0, s}
  /\ \A c \in Setups : /\ setups[c].read \in {0, s}
                       /\ setups[c].at = "writes" /\ setups[c].read # 0 => setups[c].secret = s
  /\ \A p \in Places : places[p].secret \in {0, Torn, s} /\ places[p].sealed \in {0, s}

FilesInv == /\ FilesTypes
            /\ ~lost => \E s \in Nat : OnlySecret(s) /\ (~saved => s = 0)

(* The setup: the first secret written is the only one.                    *)
LEMMA SetupsInv ==
  ASSUME FilesInv, NEW c \in Setups,
         ReadsFile(c) \/ Declines(c) \/ Truncates(c) \/ Writes(c) \/ Interrupted(c)
  PROVE  FilesInv'
<1> USE FilesAssumption
<1>1. ASSUME ~lost'
      PROVE  ~lost
  BY <1>1 DEF ReadsFile, Declines, Truncates, Writes, Interrupted
<1>2. CASE ReadsFile(c)
  <2>1. PICK run : run = [at |-> "asks", secret |-> 0, read |-> env]
    OBVIOUS
  <2>2. setups' = [setups EXCEPT ![c] = run] /\ env # Torn
        /\ UNCHANGED <<env, created, running, sealed, places, saved, lost>>
    BY <1>2, <2>1 DEF ReadsFile
  <2>3. env \in Nat /\ run \in SetupRun
    BY <2>1, <2>2 DEF FilesInv, FilesTypes, SetupRun
  <2> QED
    BY <2>1, <2>2, <2>3 DEF FilesInv, FilesTypes, OnlySecret
<1>3. CASE Declines(c)
  <2>1. setups' = [setups EXCEPT ![c] = IdleRun]
        /\ UNCHANGED <<env, created, running, sealed, places, saved, lost>>
    BY <1>3 DEF Declines
  <2> QED
    BY <2>1 DEF FilesInv, FilesTypes, OnlySecret, IdleRun, SetupRun
<1>4. CASE Truncates(c)
  <2>1. PICK secret, mid : /\ secret = SessionSecret(setups[c].read)
                           /\ mid = [setups EXCEPT ![c].at = "writes"]
    OBVIOUS
  <2>2. /\ secret \in Nat /\ (setups[c].read # 0 => secret = setups[c].read)
        /\ mid \in [Setups -> SetupRun] /\ \A d \in Setups : mid[d].read = setups[d].read
        /\ \A d \in Setups \ {c} : mid[d] = setups[d]
    BY <2>1 DEF FilesInv, FilesTypes, SetupRun, SessionSecret
  <2>3. setups' = [mid EXCEPT ![c].secret = secret] /\ created' \in {secret, created}
        /\ env' = 0 /\ UNCHANGED <<running, sealed, places, saved, lost>>
    BY <1>4, <2>1 DEF Truncates
  <2>4. /\ setups' \in [Setups -> SetupRun] /\ \A d \in Setups : setups'[d].read = setups[d].read
        /\ setups'[c].secret = secret /\ \A d \in Setups \ {c} : setups'[d] = setups[d]
    BY <2>2, <2>3 DEF SetupRun
  <2>5. ASSUME NEW s \in Nat, OnlySecret(s) PROVE OnlySecret(s)'
    BY <2>2, <2>3, <2>4, <2>5 DEF OnlySecret
  <2>6. FilesTypes'
    BY <2>2, <2>3, <2>4 DEF FilesInv, FilesTypes
  <2> QED
    BY <2>3, <2>5, <2>6 DEF FilesInv
<1>5. CASE Writes(c) \/ Interrupted(c)
  <2>1. setups' = [setups EXCEPT ![c] = IdleRun] /\ UNCHANGED <<running, sealed, places>>
    BY <1>5 DEF Writes, Interrupted
  <2>2. FilesTypes'
    <3>1. setups[c].secret \in Nat /\ IdleRun \in SetupRun
      BY DEF FilesInv, FilesTypes, SetupRun, IdleRun
    <3>2. env' \in Nat \union {Torn} /\ created' \in Nat
      BY <1>5, <3>1 DEF Writes, Interrupted, Unread, FilesInv, FilesTypes
    <3>3. saved' \in BOOLEAN /\ lost' \in BOOLEAN
      BY <1>5 DEF Writes, Interrupted, FilesInv, FilesTypes
    <3> QED
      BY <2>1, <3>1, <3>2, <3>3 DEF FilesInv, FilesTypes
  <2>3. ASSUME ~lost' PROVE \E s \in Nat : OnlySecret(s)' /\ (~saved' => s = 0)
    <3>1. PICK s \in Nat : OnlySecret(s) /\ (~saved => s = 0)
      BY <1>1, <2>3 DEF FilesInv
    <3>2. CASE saved
      <4>1. Writes(c) /\ setups[c].read # 0 /\ setups[c].at = "writes" /\ saved'
        BY <1>5, <2>3, <3>2 DEF Writes, Interrupted
      <4>2. env' = s
        BY <3>1, <4>1 DEF Writes, OnlySecret
      <4> QED
        BY <2>1, <3>1, <4>1, <4>2 DEF OnlySecret, FilesInv, FilesTypes, IdleRun
    <3>3. CASE ~saved
      <4>1. s = 0
        BY <3>1, <3>3
      <4>2. PICK t \in Nat : env' \in {0, Torn, t} /\ (~saved' => t = 0)
        BY <1>5, <2>2 DEF Writes, Interrupted, Unread, FilesTypes
      <4>3. \A d \in Setups : setups[d].read = 0
        BY <3>1, <4>1 DEF OnlySecret
      <4>4. OnlySecret(t)'
        BY <2>1, <3>1, <4>1, <4>2, <4>3 DEF OnlySecret, FilesInv, FilesTypes, IdleRun
      <4> QED
        BY <4>2, <4>4
    <3> QED
      BY <3>2, <3>3
  <2> QED
    BY <2>2, <2>3 DEF FilesInv
<1> QED
  BY <1>2, <1>3, <1>4, <1>5

(* The server and the owner only pass the secret on.                       *)
LEMMA ServiceInv ==
  ASSUME FilesInv, RemovesTorn \/ Starts \/ Stops \/ Seals \/ UNCHANGED filesVars
  PROVE  FilesInv'
<1>1. UNCHANGED <<created, setups, places, saved, lost>>
  BY DEF RemovesTorn, Starts, Stops, Seals, filesVars
<1>2. \A s \in Nat : OnlySecret(s) => OnlySecret(s)'
  BY <1>1, FilesAssumption DEF RemovesTorn, Starts, Stops, Seals, filesVars, OnlySecret
<1> QED
  <2>1. FilesTypes'
    BY <1>1, FilesAssumption DEF RemovesTorn, Starts, Stops, Seals, filesVars, FilesInv, FilesTypes
  <2> QED
    BY <1>1, <1>2, <2>1 DEF FilesInv

LEMMA BackupInv ==
  ASSUME FilesInv, NEW p \in Places,
         \/ CopiesState(p) \/ CopiesConfig(p) \/ Lists(p) \/ Abandons(p) \/ Adopts(p)
         \/ \E q \in Places : Restores(p, q)
  PROVE  FilesInv'
<1> USE FilesAssumption
<1>1. CASE Adopts(p)
  <2>1. env' = places[p].secret /\ sealed' = places[p].sealed
        /\ UNCHANGED <<created, setups, running, places, saved, lost>>
    BY <1>1 DEF Adopts
  <2>2. FilesTypes'
    BY <2>1 DEF FilesInv, FilesTypes, Directory
  <2>3. \A s \in Nat : OnlySecret(s) => OnlySecret(s)'
    BY <2>1 DEF OnlySecret
  <2> QED
    BY <2>1, <2>2, <2>3 DEF FilesInv
<1>2. CASE ~Adopts(p)
  <2>1. UNCHANGED <<env, created, setups, running, sealed, saved, lost>>
    BY <1>2 DEF CopiesState, CopiesConfig, Lists, Abandons, Restores
  <2>2. /\ places' \in [Places -> Directory]
        /\ \A q \in Places : \E r \in Places :
             /\ places'[q].secret \in {0, env, places[r].secret}
             /\ places'[q].sealed \in {sealed, places[r].sealed}
    <3>1. CASE CopiesState(p)
      BY <3>1 DEF CopiesState, FilesInv, FilesTypes, Directory
    <3>2. CASE CopiesConfig(p)
      <4>1. PICK mid : mid = [places EXCEPT ![p].at = "config"]
        OBVIOUS
      <4>2. mid \in [Places -> Directory]
            /\ \A q \in Places : mid[q].secret = places[q].secret /\ mid[q].sealed = places[q].sealed
        BY <4>1 DEF FilesInv, FilesTypes, Directory
      <4>3. places' = [mid EXCEPT ![p].secret = env] /\ env \in Nat \union {Torn}
        BY <3>2, <4>1 DEF CopiesConfig, FilesInv, FilesTypes
      <4> QED
        BY <4>2, <4>3 DEF Directory
    <3>3. CASE Lists(p)
      BY <3>3 DEF Lists, FilesInv, FilesTypes, Directory
    <3>4. CASE Abandons(p)
      BY <3>4 DEF Abandons, FilesInv, FilesTypes, Directory
    <3>5. CASE \E q \in Places : Restores(p, q)
      <4>1. PICK q \in Places, end \in {"verified", "refused"} :
              places' = [places EXCEPT ![q] = [places[p] EXCEPT !.at = end]]
        BY <3>5 DEF Restores
      <4> QED
        BY <4>1 DEF FilesInv, FilesTypes, Directory
    <3> QED
      BY <1>2, <3>1, <3>2, <3>3, <3>4, <3>5
  <2>3. ASSUME NEW s \in Nat, OnlySecret(s) PROVE OnlySecret(s)'
    <3>1. \A q \in Places : places'[q].secret \in {0, Torn, s} /\ places'[q].sealed \in {0, s}
      BY <2>2, <2>3 DEF OnlySecret
    <3> QED
      BY <2>1, <2>3, <3>1 DEF OnlySecret
  <2>4. FilesTypes'
    BY <2>1, <2>2 DEF FilesInv, FilesTypes
  <2> QED
    BY <2>1, <2>3, <2>4 DEF FilesInv
<1> QED
  BY <1>1, <1>2

(* What is sealed under a secret stays with it, for any setups, backups    *)
(* and restores, unless a setup lost a saved secret.                       *)
THEOREM SealsAreKept == CopiesSpec => []SealedStaysReadable
<1>1. CopiesInit => FilesInv
  <2> SUFFICES ASSUME FilesInit PROVE FilesInv
    BY DEF CopiesInit
  <2>1. FilesTypes
    BY DEF FilesInit, FilesTypes, IdleRun, Free, SetupRun, Directory
  <2>2. OnlySecret(0)
    BY DEF FilesInit, OnlySecret, IdleRun, Free
  <2> QED
    BY <2>1, <2>2 DEF FilesInv
<1>2. FilesInv /\ [CopiesNext]_copiesVars => FilesInv'
  <2>1. FilesInv /\ FilesNext => FilesInv'
    BY SetupsInv, ServiceInv, BackupInv DEF FilesNext
  <2> QED
    BY <2>1, ServiceInv DEF CopiesNext, copiesVars
<1>3. FilesInv => SealedStaysReadable
  BY FilesAssumption DEF FilesInv, SealedStaysReadable, OnlySecret, Pairs, Unread
<1> QED
  BY <1>1, <1>2, <1>3, PTL DEF CopiesSpec
-----------------------------------------------------------------------------
(* What cleaning may take.  Whoever is not among the first n of a table has  *)
(* n of them before it: of those before it and not among them, take one with *)
(* the fewest before itself.                                                 *)
Before(S, key, i) == {j \in S : Later(key, j, i)}

LEMMA TopCovers ==
  ASSUME NEW S \in SUBSET Ids, NEW key, \A j \in S : key[j] \in Int, NEW n \in Nat,
         NEW i \in S, i \notin Top(S, key, n)
  PROVE  Cardinality({j \in Top(S, key, n) : key[j] >= key[i]}) >= n
<1> DEFINE Out == {j \in S : j \notin Top(S, key, n) /\ (j = i \/ Later(key, j, i))}
           Counts == {Cardinality(Before(S, key, j)) : j \in Out}
<1>1. /\ IsFiniteSet(S) /\ S \subseteq Int
      /\ \A j \in S : IsFiniteSet(Before(S, key, j)) /\ Cardinality(Before(S, key, j)) \in Nat
  <2>1. IsFiniteSet(Ids) /\ Ids \subseteq Int
    BY FS_Interval, ArchiveAssumption DEF Ids
  <2>2. IsFiniteSet(S)
    BY <2>1, FS_Subset
  <2>3. ASSUME NEW j \in S PROVE IsFiniteSet(Before(S, key, j))
    BY <2>2, FS_Subset DEF Before
  <2> QED
    BY <2>1, <2>2, <2>3, FS_CardinalityType
<1>2. \A j \in S : j \in Top(S, key, n) <=> Cardinality(Before(S, key, j)) < n
  BY DEF Top, Before
<1>3. PICK m \in Out : \A j \in Out : Cardinality(Before(S, key, m)) <= Cardinality(Before(S, key, j))
  <2>1. Counts \in SUBSET Nat /\ Counts # {}
    BY <1>1
  <2>2. PICK x \in Counts : \A y \in Counts : x <= y
    BY <2>1, LeastExists
  <2> QED
    BY <2>2
<1>4. Before(S, key, m) \subseteq {j \in Top(S, key, n) : key[j] >= key[i]}
  <2> SUFFICES ASSUME NEW j \in Before(S, key, m) PROVE j \in Top(S, key, n) /\ key[j] >= key[i]
    OBVIOUS
  <2>1. j \in S /\ m \in S /\ Later(key, j, m) /\ (m = i \/ Later(key, m, i))
    BY <1>3 DEF Before
  <2>2. Later(key, j, i) /\ key[j] >= key[i]
    BY <1>1, <2>1 DEF Later
  <2>3. ASSUME j \notin Top(S, key, n) PROVE FALSE
    <3>1. j \in Out
      BY <2>1, <2>2, <2>3
    <3>2. Before(S, key, j) \subseteq Before(S, key, m) /\ j \in Before(S, key, m) /\ j \notin Before(S, key, j)
      <4>1. /\ key[j] \in Int /\ key[m] \in Int /\ key[i] \in Int
            /\ j \in Int /\ m \in Int /\ i \in Int
        BY <1>1, <2>1
      <4>2. ASSUME NEW x \in Before(S, key, j) PROVE x \in Before(S, key, m)
        <5>1. x \in S /\ x \in Int /\ key[x] \in Int /\ Later(key, x, j)
          BY <1>1 DEF Before
        <5>2. Later(key, x, m)
          BY <2>1, <4>1, <5>1 DEF Later
        <5> QED
          BY <5>1, <5>2 DEF Before
      <4>3. ~Later(key, j, j)
        BY <4>1 DEF Later
      <4> QED
        BY <2>1, <4>2, <4>3 DEF Before
    <3>3. Cardinality(Before(S, key, j)) <= Cardinality(Before(S, key, m))
          /\ (Cardinality(Before(S, key, m)) = Cardinality(Before(S, key, j)) => Before(S, key, m) = Before(S, key, j))
      BY <1>1, <2>1, <3>2, FS_Subset
    <3> QED
      BY <1>1, <1>3, <2>1, <3>1, <3>2, <3>3
  <2> QED
    BY <2>2, <2>3
<1>5. IsFiniteSet(Top(S, key, n)) /\ IsFiniteSet({j \in Top(S, key, n) : key[j] >= key[i]})
  <2>1. IsFiniteSet(Top(S, key, n))
    BY <1>1, FS_Subset DEF Top
  <2> QED
    BY <2>1, FS_Subset
<1>6. Cardinality(Before(S, key, m)) >= n
  BY <1>1, <1>2, <1>3
<1>7. Cardinality(Before(S, key, m)) <= Cardinality({j \in Top(S, key, n) : key[j] >= key[i]})
  BY <1>4, <1>5, FS_Subset
<1>8. Cardinality({j \in Top(S, key, n) : key[j] >= key[i]}) \in Nat
  BY <1>5, FS_CardinalityType
<1> QED
  BY <1>1, <1>3, <1>6, <1>7, <1>8

LEMMA MoreIds ==
  ASSUME NEW S \in SUBSET Ids, NEW T \in SUBSET S, NEW n \in Nat, Cardinality(T) >= n
  PROVE  Cardinality(S) >= n
<1>1. IsFiniteSet(S) /\ IsFiniteSet(T)
  <2>1. IsFiniteSet(Ids)
    BY FS_Interval, ArchiveAssumption DEF Ids
  <2> QED
    BY <2>1, FS_Subset
<1> QED
  BY <1>1, FS_Subset, FS_CardinalityType

(* The copies confirmed at t or later, and those converted at t or later.    *)
SentSince(rows, t) == {j \in Sent(rows) : rows[j].sent >= t}
ConvertedSince(rows, times, t) == {j \in Sent(rows) : times[j] # Never /\ times[j] >= t}

(* A confirmed copy that is not too old is taken only for later ones.        *)
LEMMA CleanedTakes ==
  ASSUME NEW t \in [Ids -> RowType], NEW times \in [Ids -> Int], now \in Nat,
         NEW c, c = Cleaned(t, times),
         NEW i \in Sent(t), t[i].sent >= now - Month, c.rows[i] = NoRow
  PROVE  /\ Cardinality(SentSince(c.rows, t[i].sent)) >= MaxSent
         /\ times[i] # Never => Cardinality(ConvertedSince(c.rows, c.times, times[i])) >= MaxConverted
<1> DEFINE young == {j \in Held(t) : ~TooOld(t[j])}
           sent == young \intersect Sent(t)
           conv == {j \in sent : times[j] # Never}
           moments == [j \in Ids |-> t[j].sent]
           kept == (young \ sent) \union Retained(t, times, sent)
<1>1. /\ c.rows = [j \in Ids |-> IF j \in kept THEN t[j] ELSE NoRow]
      /\ c.times = [j \in Ids |-> IF j \in kept THEN times[j] ELSE Never]
  BY DEF Cleaned
<1>2. kept = (young \ sent) \union (Top(sent, moments, MaxSent) \union Top(conv, times, MaxConverted))
  BY DEF Retained
<1>3. /\ i \in Ids /\ t[i] # NoRow /\ t[i].sent # Never
      /\ i \in sent /\ sent \subseteq Ids /\ conv \subseteq sent
      /\ \A j \in sent : t[j] # NoRow /\ t[j].sent # Never
  <2>1. i \in Ids /\ t[i] # NoRow /\ t[i].sent # Never /\ i \in Held(t)
    BY DEF Sent, Held
  <2>2. ~TooOld(t[i])
    BY <2>1, ArchiveAssumption DEF TooOld, Touched, RowType
  <2> QED
    BY <2>1, <2>2 DEF Sent, Held
<1>4. i \notin kept
  BY <1>1, <1>3
<1> HIDE DEF kept, young, sent
<1>5. ASSUME NEW j \in sent, j \in kept
      PROVE  j \in Sent(c.rows) /\ c.rows[j] = t[j] /\ c.times[j] = times[j]
  BY <1>1, <1>3, <1>5 DEF Sent, Held
<1>6. SentSince(c.rows, t[i].sent) \subseteq Ids /\ ConvertedSince(c.rows, c.times, times[i]) \subseteq Ids
  BY DEF SentSince, ConvertedSince, Sent, Held
<1>7. Cardinality(SentSince(c.rows, t[i].sent)) >= MaxSent
  <2>1. i \notin Top(sent, moments, MaxSent)
    BY <1>2, <1>4
  <2>2. \A j \in sent : moments[j] \in Int
    BY <1>3 DEF RowType
  <2>3. Cardinality({j \in Top(sent, moments, MaxSent) : moments[j] >= moments[i]}) >= MaxSent
    <3>1. sent \in SUBSET Ids /\ i \in sent
      BY <1>3
    <3> HIDE DEF moments
    <3> QED
      BY <3>1, <2>1, <2>2, TopCovers, ArchiveAssumption
  <2>4. {j \in Top(sent, moments, MaxSent) : moments[j] >= moments[i]} \subseteq SentSince(c.rows, t[i].sent)
    <3> SUFFICES ASSUME NEW j \in Top(sent, moments, MaxSent), moments[j] >= moments[i]
                 PROVE  j \in SentSince(c.rows, t[i].sent)
      OBVIOUS
    <3>1. j \in sent /\ j \in kept /\ j \in Ids
      BY <1>2, <1>3 DEF Top
    <3> QED
      BY <1>3, <1>5, <3>1 DEF SentSince
  <2> QED
    BY <1>6, <2>3, <2>4, MoreIds, ArchiveAssumption
<1>8. ASSUME times[i] # Never PROVE Cardinality(ConvertedSince(c.rows, c.times, times[i])) >= MaxConverted
  <2>1. i \notin Top(conv, times, MaxConverted) /\ i \in conv
    BY <1>2, <1>3, <1>4, <1>8
  <2>2. \A j \in conv : times[j] \in Int
    BY <1>3
  <2>3. Cardinality({j \in Top(conv, times, MaxConverted) : times[j] >= times[i]}) >= MaxConverted
    <3>1. conv \in SUBSET Ids
      BY <1>3
    <3> HIDE DEF conv
    <3> QED
      BY <3>1, <2>1, <2>2, TopCovers, ArchiveAssumption
  <2>4. {j \in Top(conv, times, MaxConverted) : times[j] >= times[i]} \subseteq ConvertedSince(c.rows, c.times, times[i])
    <3> SUFFICES ASSUME NEW j \in Top(conv, times, MaxConverted), times[j] >= times[i]
                 PROVE  j \in ConvertedSince(c.rows, c.times, times[i])
      OBVIOUS
    <3>1. j \in sent /\ j \in kept /\ times[j] # Never
      BY <1>2 DEF Top
    <3> QED
      BY <1>5, <3>1 DEF ConvertedSince
  <2> QED
    BY <1>6, <2>3, <2>4, MoreIds, ArchiveAssumption
<1> QED
  BY <1>7, <1>8

(* A copy or a conversion that is kept is as it was, and neither too old.    *)
LEMMA CleanedIs ==
  ASSUME NEW t \in [Ids -> RowType], NEW times \in [Ids -> Int], now \in Nat, NEW c, c = Cleaned(t, times)
  PROVE  /\ c.rows \in [Ids -> RowType] /\ c.times \in [Ids -> Int]
         /\ \A j \in Ids : /\ c.rows[j] # NoRow => c.rows[j] = t[j] /\ c.times[j] = times[j] /\ t[j] # NoRow
                           /\ c.times[j] \in {times[j], Never}
         /\ \A j \in Sent(c.rows) : t[j].sent >= now - Month
<1> DEFINE young == {j \in Held(t) : ~TooOld(t[j])}
           sent == young \intersect Sent(t)
           kept == (young \ sent) \union Retained(t, times, sent)
<1>1. /\ c.rows = [j \in Ids |-> IF j \in kept THEN t[j] ELSE NoRow]
      /\ c.times = [j \in Ids |-> IF j \in kept THEN times[j] ELSE Never]
  BY DEF Cleaned
<1>2. kept \subseteq young
  BY DEF Retained, Top
<1>3. \A j \in kept : j \in Ids /\ t[j] # NoRow /\ ~TooOld(t[j])
  BY <1>2 DEF Held
<1> HIDE DEF kept, young, sent
<1>4. NoRow \in RowType /\ Never \in Int
  BY DEF NoRow, RowType, Never
<1>5. \A j \in Sent(c.rows) : j \in kept /\ t[j].sent # Never
  BY <1>1 DEF Sent, Held
<1>6. \A j \in Sent(c.rows) : t[j].sent >= now - Month
  BY <1>3, <1>5, ArchiveAssumption DEF TooOld, Touched, RowType
<1> QED
  BY <1>1, <1>3, <1>4, <1>6

(* A confirmation cleans twice.  What the first cleaning took made room for  *)
(* later ones; if the second takes one of those, it is for ones later still. *)
Converted(c) == {j \in Sent(c.rows) : c.times[j] # Never}

LEMMA TwiceCleanedTakes ==
  ASSUME NEW t \in [Ids -> RowType], NEW times \in [Ids -> Int], now \in Nat,
         NEW o, o = Cleaned(t, times),
         NEW u \in [Ids -> RowType], NEW v \in [Ids -> Int],
         \A j \in Sent(o.rows) : u[j] = o.rows[j] /\ (o.times[j] # Never => v[j] # Never),
         NEW c, c = Cleaned(u, v),
         NEW i \in Sent(t), t[i].sent >= now - Month, c.rows[i] = NoRow
  PROVE  /\ Cardinality(SentSince(c.rows, t[i].sent)) >= MaxSent
         /\ times[i] # Never => Cardinality(Converted(c)) >= MaxConverted
<1>1. /\ o.rows \in [Ids -> RowType] /\ o.times \in [Ids -> Int]
      /\ \A j \in Ids : o.rows[j] # NoRow => o.rows[j] = t[j] /\ o.times[j] = times[j]
      /\ \A j \in Sent(o.rows) : t[j].sent >= now - Month
  BY CleanedIs
<1>2. /\ c.rows \in [Ids -> RowType] /\ c.times \in [Ids -> Int]
      /\ \A j \in Ids : c.rows[j] # NoRow => c.rows[j] = u[j] /\ c.times[j] = v[j]
  BY CleanedIs
<1>3. \A j \in Sent(o.rows) : j \in Sent(u) /\ u[j] = t[j] /\ j \in Ids
  BY <1>1 DEF Sent, Held
<1>4. Converted(c) \in SUBSET Ids /\ \A s \in Int : SentSince(c.rows, s) \in SUBSET Ids
  BY DEF Converted, SentSince, Sent, Held
<1>5. t[i].sent \in Int /\ i \in Ids /\ t[i] # NoRow /\ t[i].sent # Never
  BY DEF Sent, Held, RowType
\* What the second cleaning takes of the first's rows.
<1>6. ASSUME NEW a \in Sent(o.rows), c.rows[a] = NoRow
      PROVE  /\ Cardinality(SentSince(c.rows, t[a].sent)) >= MaxSent
             /\ v[a] # Never => Cardinality(Converted(c)) >= MaxConverted
  <2>1. a \in Sent(u) /\ u[a].sent >= now - Month /\ u[a] = t[a]
    BY <1>1, <1>3
  <2>2. /\ Cardinality(SentSince(c.rows, u[a].sent)) >= MaxSent
        /\ v[a] # Never => Cardinality(ConvertedSince(c.rows, c.times, v[a])) >= MaxConverted
    BY <2>1, <1>6, CleanedTakes
  <2>3. ConvertedSince(c.rows, c.times, v[a]) \in SUBSET Converted(c)
    BY DEF ConvertedSince, Converted
  <2> QED
    BY <1>4, <2>1, <2>2, <2>3, MoreIds, ArchiveAssumption
<1>7. CASE o.rows[i] # NoRow
  <2>1. i \in Sent(o.rows) /\ o.times[i] = times[i]
    BY <1>1, <1>5, <1>7 DEF Sent, Held
  <2> QED
    BY <1>6, <2>1
<1>8. CASE o.rows[i] = NoRow
  <2>1. /\ Cardinality(SentSince(o.rows, t[i].sent)) >= MaxSent
        /\ times[i] # Never => Cardinality(ConvertedSince(o.rows, o.times, times[i])) >= MaxConverted
    BY <1>8, CleanedTakes
  <2>2. Cardinality(SentSince(c.rows, t[i].sent)) >= MaxSent
    <3>1. CASE \E a \in SentSince(o.rows, t[i].sent) : c.rows[a] = NoRow
      <4>1. PICK a \in SentSince(o.rows, t[i].sent) : c.rows[a] = NoRow
        BY <3>1
      <4>2. a \in Sent(o.rows) /\ t[a].sent >= t[i].sent /\ t[a].sent \in Int
        BY <1>1, <1>3, <4>1 DEF SentSince, RowType
      <4>3. SentSince(c.rows, t[a].sent) \in SUBSET SentSince(c.rows, t[i].sent)
        <5>1. \A j \in Sent(c.rows) : c.rows[j].sent \in Int
          BY <1>2 DEF Sent, Held, RowType
        <5> QED
          BY <1>5, <4>2, <5>1 DEF SentSince
      <4> QED
        BY <1>4, <1>5, <1>6, <4>1, <4>2, <4>3, MoreIds, ArchiveAssumption
    <3>2. CASE \A a \in SentSince(o.rows, t[i].sent) : c.rows[a] # NoRow
      <4>1. SentSince(o.rows, t[i].sent) \in SUBSET SentSince(c.rows, t[i].sent)
        BY <1>2, <1>3, <3>2 DEF SentSince, Sent, Held
      <4> QED
        BY <1>4, <1>5, <2>1, <4>1, MoreIds, ArchiveAssumption
    <3> QED
      BY <3>1, <3>2
  <2>3. ASSUME times[i] # Never PROVE Cardinality(Converted(c)) >= MaxConverted
    <3> DEFINE first == ConvertedSince(o.rows, o.times, times[i])
    <3>1. \A a \in first : a \in Sent(o.rows) /\ v[a] # Never
      BY DEF ConvertedSince
    <3>2. CASE \E a \in first : c.rows[a] = NoRow
      BY <1>6, <3>1, <3>2
    <3>3. CASE \A a \in first : c.rows[a] # NoRow
      <4>1. first \in SUBSET Converted(c)
        <5> HIDE DEF first
        <5> QED
          BY <1>2, <1>3, <3>1, <3>3 DEF Converted, Sent, Held
      <4> QED
        BY <1>4, <2>1, <2>3, <4>1, MoreIds, ArchiveAssumption
    <3> QED
      BY <3>2, <3>3
  <2> QED
    BY <2>2, <2>3
<1> QED
  BY <1>7, <1>8

(* Beside the copies: a conversion that is noted is the Cloud's, and what    *)
(* the Cloud has sent it sent at some time.                                  *)
Moments == Nat \union {Never}
KeepInv ==
  /\ CopyInv
  /\ conversions \in [Ids -> Moments] /\ convertedAt \in [Ids -> Moments]
  /\ \A i \in Ids : conversions[i] \in {Never, convertedAt[i]}
  /\ \A i \in Ids : mail[i] # NoCopy => sentAt[i] \in Nat

\* Every conversion of times is the Cloud's.
TimesKeep(times) ==
  times \in [Ids -> Moments] /\ \A i \in Ids : times[i] \in {Never, convertedAt[i]}

LEMMA TimesStayInts == ASSUME NEW times \in [Ids -> Moments] PROVE times \in [Ids -> Int]
  BY DEF Moments, Never

LEMMA CleanedTimesKeep ==
  ASSUME NEW t, NEW times, TimesKeep(times)
  PROVE  TimesKeep(Cleaned(t, times).times)
<1>1. /\ Never \in Moments
      /\ Cleaned(t, times).times \in [Ids -> Moments]
      /\ \A j \in Ids : Cleaned(t, times).times[j] \in {times[j], Never}
  BY DEF Cleaned, TimesKeep, Moments
<1> QED
  BY <1>1 DEF TimesKeep

LEMMA NotedKeep ==
  ASSUME NEW times, NEW i \in Ids, TimesKeep(times), convertedAt \in [Ids -> Moments]
  PROVE  /\ TimesKeep(Noted(times, i))
         /\ \A j \in Ids : times[j] # Never => Noted(times, i)[j] # Never
         /\ convertedAt[i] # Never => Noted(times, i)[i] = convertedAt[i]
  BY DEF Noted, TimesKeep

LEMMA OpenedTimesKeep == KeepInv => TimesKeep(Opened.times)
  BY CleanedTimesKeep DEF KeepInv, TimesKeep, Opened

LEMMA KeepStep == KeepInv /\ [ArchiveNext]_archiveVars => KeepInv'
<1> SUFFICES ASSUME KeepInv, [ArchiveNext]_archiveVars PROVE KeepInv'
  OBVIOUS
<1>1. CopyInv'
  BY ArchiveStep DEF KeepInv
<1>2. ASSUME UNCHANGED <<convertedAt, mail, sentAt>>, TimesKeep(conversions') PROVE KeepInv'
  BY <1>1, <1>2 DEF KeepInv, TimesKeep
<1>3. ASSUME NEW i \in Ids, NEW copy \in Copies, Retry(Opened, i, copy) \/ Store(Opened, i, copy)
      PROVE  KeepInv'
  BY <1>2, <1>3, OpenedTimesKeep DEF Retry, Store, Becomes, Replied
<1>4. ASSUME NEW i \in Ids, Refuse(Opened, i) \/ ViewMissing(Opened, i) PROVE KeepInv'
  BY <1>2, <1>4, OpenedTimesKeep DEF Refuse, ViewMissing, Becomes, Replied, cloud
<1>5. ASSUME NEW i \in Ids, Confirm(Opened, i) PROVE KeepInv'
  BY <1>2, <1>5, OpenedTimesKeep, CleanedTimesKeep DEF Confirm, Becomes, cloud
<1>6. ASSUME NEW i \in Ids, ViewFound(Opened, i) PROVE KeepInv'
  <2>1. TimesKeep(Noted(Opened.times, i))
    BY OpenedTimesKeep, NotedKeep DEF KeepInv
  <2> QED
    BY <1>2, <1>6, <2>1, CleanedTimesKeep DEF ViewFound, TimesBeforeConfirming, Becomes, cloud
<1>7. ASSUME NEW i \in Ids, Send(i) PROVE KeepInv'
  BY <1>1, <1>7 DEF Send, KeepInv, CopyInv, tables
<1>8. ASSUME NEW i \in Ids, Convert(i) PROVE KeepInv'
  <2>1. convertedAt' = [convertedAt EXCEPT ![i] = now] /\ convertedAt[i] = Never /\ now \in Nat
        /\ UNCHANGED <<conversions, mail, sentAt>>
    BY <1>8 DEF Convert, KeepInv, CopyInv, tables
  <2> QED
    BY <1>1, <2>1 DEF KeepInv, Moments
<1>9. CASE Tick \/ UNCHANGED archiveVars
  BY <1>1, <1>9 DEF Tick, KeepInv, tables, cloud, archiveVars
<1> QED
  BY <1>3, <1>4, <1>5, <1>6, <1>7, <1>8, <1>9 DEF ArchiveNext

(* What an action's second cleaning finds is what the first left, but for    *)
(* the delivery it is about.                                                 *)
LEMMA ConfirmedFinds ==
  ASSUME KeepInv, NEW i \in Ids, mail[i] # NoCopy, Opened.rows[i] # NoRow,
         NEW times \in {Opened.times, Noted(Opened.times, i)}
  PROVE  /\ Marked(Opened.rows, i) \in [Ids -> RowType] /\ times \in [Ids -> Int]
         /\ \A j \in Sent(Opened.rows) : /\ Marked(Opened.rows, i)[j] = Opened.rows[j]
                                         /\ Opened.times[j] # Never => times[j] # Never
         /\ i \in Sent(Marked(Opened.rows, i))
         /\ i \notin Sent(Opened.rows) => Marked(Opened.rows, i)[i].sent = sentAt[i]
<1>1. Opened.rows \in [Ids -> RowType] /\ sentAt[i] \in Nat /\ sentAt[i] # Never
  BY OpenedKeeps DEF KeepInv, Never
<1>2. /\ Marked(Opened.rows, i) \in [Ids -> RowType]
      /\ \A j \in Sent(Opened.rows) : Marked(Opened.rows, i)[j] = Opened.rows[j]
      /\ i \in Sent(Marked(Opened.rows, i))
      /\ i \notin Sent(Opened.rows) => Marked(Opened.rows, i)[i].sent = sentAt[i]
  BY <1>1 DEF Marked, Sent, Held, RowType, NoRow
<1>3. TimesKeep(times) /\ \A j \in Ids : Opened.times[j] # Never => times[j] # Never
  BY OpenedTimesKeep, NotedKeep DEF KeepInv
<1>4. \A j \in Sent(Opened.rows) : j \in Ids
  BY DEF Sent, Held
<1>5. times \in [Ids -> Int]
  BY <1>3, TimesStayInts DEF TimesKeep
<1> QED
  BY <1>2, <1>3, <1>4, <1>5

Leaves(i) == i \in Sent(archive) /\ archive'[i] = NoRow /\ archive[i].sent >= now - Month
LaterTookThePlaces(i) ==
  /\ Cardinality({j \in Sent(archive') : archive'[j].sent >= archive[i].sent}) >= MaxSent
  /\ \/ conversions[i] = Never
     \/ Cardinality({j \in Sent(archive') : conversions'[j] # Never}) >= MaxConverted

LEMMA OpeningTakes ==
  ASSUME KeepInv, NEW i, Leaves(i), conversions' = Opened.times,
         Sent(archive') = Sent(Opened.rows), Opened.rows[i] = NoRow,
         \A j \in Sent(archive') : archive'[j] = Opened.rows[j]
  PROVE  LaterTookThePlaces(i)
<1>1. archive \in [Ids -> RowType] /\ conversions \in [Ids -> Int] /\ now \in Nat
  BY TimesStayInts DEF KeepInv, CopyInv
<1>2. /\ Cardinality(SentSince(Opened.rows, archive[i].sent)) >= MaxSent
      /\ conversions[i] # Never =>
           Cardinality(ConvertedSince(Opened.rows, Opened.times, conversions[i])) >= MaxConverted
  BY <1>1, CleanedTakes DEF Opened, Leaves
<1>3. SentSince(Opened.rows, archive[i].sent) = {j \in Sent(archive') : archive'[j].sent >= archive[i].sent}
  BY DEF SentSince
<1>4. /\ {j \in Sent(archive') : conversions'[j] # Never} \in SUBSET Ids
      /\ ConvertedSince(Opened.rows, Opened.times, conversions[i])
           \in SUBSET {j \in Sent(archive') : conversions'[j] # Never}
  BY DEF ConvertedSince, Sent, Held
<1> QED
  BY <1>2, <1>3, <1>4, MoreIds, ArchiveAssumption DEF LaterTookThePlaces

LEMMA ConfirmingTakes ==
  ASSUME KeepInv, NEW i, Leaves(i), NEW k \in Ids, mail[k] # NoCopy, Opened.rows[k] # NoRow,
         NEW times \in {Opened.times, Noted(Opened.times, k)},
         Becomes(Cleaned(Marked(Opened.rows, k), times))
  PROVE  LaterTookThePlaces(i)
<1>1. archive \in [Ids -> RowType] /\ conversions \in [Ids -> Int] /\ now \in Nat
  BY TimesStayInts DEF KeepInv, CopyInv
<1>2. PICK o, u, c : o = Opened /\ u = Marked(Opened.rows, k) /\ c = Cleaned(u, times)
  OBVIOUS
<1>3. /\ u \in [Ids -> RowType] /\ times \in [Ids -> Int]
      /\ \A j \in Sent(o.rows) : u[j] = o.rows[j] /\ (o.times[j] # Never => times[j] # Never)
  BY <1>2, ConfirmedFinds
<1>4. o = Cleaned(archive, conversions) /\ archive' = c.rows /\ conversions' = c.times
  BY <1>2 DEF Opened, Becomes
<1>5. /\ Cardinality(SentSince(c.rows, archive[i].sent)) >= MaxSent
      /\ conversions[i] # Never => Cardinality(Converted(c)) >= MaxConverted
  <2>1. i \in Sent(archive) /\ archive[i].sent >= now - Month /\ c.rows[i] = NoRow
    BY <1>4 DEF Leaves
  <2> QED
    BY <1>1, <1>2, <1>3, <1>4, <2>1, TwiceCleanedTakes
<1> QED
  BY <1>4, <1>5 DEF LaterTookThePlaces, SentSince, Converted

LEMMA TakesForLaterOnes ==
  ASSUME KeepInv, [ArchiveNext]_archiveVars, NEW i, Leaves(i)
  PROVE  LaterTookThePlaces(i)
<1>1. i \in Ids /\ archive[i] # NoRow /\ archive'[i] = NoRow
  BY DEF Leaves, Sent, Held
<1>2. ASSUME Becomes(Opened) PROVE LaterTookThePlaces(i)
  BY <1>1, <1>2, OpeningTakes DEF Becomes
<1>3. ASSUME NEW k \in Ids, NEW copy \in Copies, Store(Opened, k, copy) PROVE LaterTookThePlaces(i)
  <2> DEFINE new == [copy |-> copy, created |-> now, sent |-> Never]
  <2>1. /\ archive' = [Opened.rows EXCEPT ![k] = new] /\ Opened.rows \in [Ids -> RowType]
        /\ conversions' = Opened.times /\ Opened.rows[k] = NoRow
    BY <1>3, OpenedKeeps DEF Store, KeepInv
  <2>2. new # NoRow /\ new.sent = Never
    BY ArchiveAssumption DEF NoRow
  <2> HIDE DEF new
  <2>3. i # k /\ Opened.rows[i] = NoRow
    BY <1>1, <2>1, <2>2
  <2>4. Sent(archive') = Sent(Opened.rows) /\ \A j \in Sent(archive') : archive'[j] = Opened.rows[j]
    BY <2>1, <2>2 DEF Sent, Held
  <2> QED
    BY <2>1, <2>3, <2>4, OpeningTakes
<1>4. ASSUME NEW k \in Ids, Confirm(Opened, k) PROVE LaterTookThePlaces(i)
  BY <1>2, <1>4, ConfirmingTakes DEF Confirm
<1>5. ASSUME NEW k \in Ids, ViewFound(Opened, k) PROVE LaterTookThePlaces(i)
  BY <1>5, ConfirmingTakes DEF ViewFound, TimesBeforeConfirming
<1>6. ASSUME NEW k \in Ids, \/ \E copy \in Copies : Retry(Opened, k, copy)
                            \/ Refuse(Opened, k) \/ ViewMissing(Opened, k)
      PROVE  LaterTookThePlaces(i)
  BY <1>2, <1>6 DEF Retry, Refuse, ViewMissing
<1>7. ~UNCHANGED archive
  BY <1>1
<1> QED
  BY <1>3, <1>4, <1>5, <1>6, <1>7 DEF ArchiveNext, Send, Convert, Tick, archiveVars, tables

(* A view that notes the conversion before it confirms the delivery keeps    *)
(* the copy, or has as many later conversions to keep.                       *)
LEMMA ViewKeepsTheConverted ==
  ASSUME KeepInv, NEW i \in Ids, convertedAt[i] # Never, sentAt[i] >= now - Month,
         ViewFound(Opened, i), archive'[i] = NoRow
  PROVE  Cardinality({j \in Sent(archive') : conversions'[j] >= convertedAt[i]}) >= MaxConverted
<1>1. PICK o, u, v, c : /\ o = Opened /\ u = Marked(Opened.rows, i) /\ v = Noted(Opened.times, i)
                        /\ c = Cleaned(u, v)
  OBVIOUS
<1>2. /\ mail[i] # NoCopy /\ o.rows[i] # NoRow /\ archive' = c.rows /\ conversions' = c.times
  BY <1>1 DEF ViewFound, TimesBeforeConfirming, Becomes
<1>3. /\ u \in [Ids -> RowType] /\ v \in [Ids -> Int] /\ i \in Sent(u)
      /\ \A j \in Sent(o.rows) : u[j] = o.rows[j]
      /\ i \notin Sent(o.rows) => u[i].sent = sentAt[i]
  BY <1>1, <1>2, ConfirmedFinds
<1>4. v[i] = convertedAt[i]
  BY <1>1, OpenedTimesKeep, NotedKeep DEF KeepInv
<1>5. u[i].sent >= now - Month
  <2>1. archive \in [Ids -> RowType] /\ conversions \in [Ids -> Int] /\ now \in Nat
    BY TimesStayInts DEF KeepInv, CopyInv
  <2>2. \A j \in Sent(o.rows) : archive[j].sent >= now - Month /\ o.rows[j] = archive[j]
    BY <1>1, <2>1, CleanedIs DEF Opened, Sent, Held
  <2> QED
    BY <1>3, <2>2
<1>6. Cardinality(ConvertedSince(c.rows, c.times, convertedAt[i])) >= MaxConverted
  <2>1. now \in Nat /\ c.rows[i] = NoRow /\ v[i] # Never
    BY <1>2, <1>4 DEF KeepInv, CopyInv
  <2> QED
    BY <1>1, <1>3, <1>4, <1>5, <2>1, CleanedTakes
<1>7. /\ ConvertedSince(c.rows, c.times, convertedAt[i])
           \in SUBSET {j \in Sent(archive') : conversions'[j] >= convertedAt[i]}
      /\ {j \in Sent(archive') : conversions'[j] >= convertedAt[i]} \in SUBSET Ids
  BY <1>2 DEF ConvertedSince, Sent, Held
<1> QED
  BY <1>6, <1>7, MoreIds, ArchiveAssumption

(* For any number of deliveries and any limits, whatever is confirmed late,  *)
(* viewed again or converted meanwhile: a confirmed copy leaves only when it *)
(* is too old or later ones have taken every place it could have, and what   *)
(* is shown as converted gives way only to later conversions                 *)
(* (email-archive.mjs:25-33, email-history-archive.ts:43-47).                *)
THEOREM ConfirmedCopiesAreKept == CopiesSpec => CopiesAreKept
<1> DEFINE
      LatestKept ==
        \A i \in Sent(archive) : archive'[i] = NoRow =>
          \/ archive[i].sent < now - Month
          \/ /\ Cardinality({j \in Sent(archive') : archive'[j].sent >= archive[i].sent}) >= MaxSent
             /\ \/ conversions[i] = Never
                \/ Cardinality({j \in Sent(archive') : conversions'[j] # Never}) >= MaxConverted
      ViewedKept ==
        \A i \in Ids :
          (/\ convertedAt[i] # Never /\ sentAt[i] >= now - Month
           /\ ViewFound(Opened, i)) =>
             \/ archive'[i] # NoRow
             \/ Cardinality({j \in Sent(archive') : conversions'[j] >= convertedAt[i]}) >= MaxConverted
<1>1. CopiesInit => KeepInv
  BY DEF CopiesInit, ArchiveInit, KeepInv, CopyInv, RowType, Kept, Moments, NoRow, Never
<1>2. [CopiesNext]_copiesVars => [ArchiveNext]_archiveVars
  BY DEF CopiesNext, copiesVars
<1>3. KeepInv /\ [CopiesNext]_copiesVars => KeepInv'
  BY <1>2, KeepStep
<1>4. KeepInv /\ [CopiesNext]_copiesVars => [LatestKept]_archiveVars
  <2> SUFFICES ASSUME KeepInv, [ArchiveNext]_archiveVars,
                      NEW i \in Sent(archive), archive'[i] = NoRow, ~(archive[i].sent < now - Month)
               PROVE  LaterTookThePlaces(i)
    BY <1>2 DEF LaterTookThePlaces
  <2>1. archive[i].sent \in Int /\ now \in Nat
    BY DEF KeepInv, CopyInv, RowType, Sent, Held
  <2>2. Leaves(i)
    BY <2>1, ArchiveAssumption DEF Leaves
  <2> QED
    BY <2>2, TakesForLaterOnes
<1>5. KeepInv /\ [CopiesNext]_copiesVars => [ViewedKept]_archiveVars
  BY <1>2, ViewKeepsTheConverted
<1>6. CopiesSpec => [][LatestKept]_archiveVars /\ [][ViewedKept]_archiveVars
  BY <1>1, <1>3, <1>4, <1>5, PTL DEF CopiesSpec
<1> QED
  BY <1>6, PTL DEF CopiesAreKept, LatestAreKept, ViewedConversionIsKept
=============================================================================
