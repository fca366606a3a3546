------------------------- MODULE OutboxRelayProofs --------------------------
(***************************************************************************)
(* Proofs about OutboxRelay, for any callers, batches, failures and        *)
(* restarts.                                                               *)
(*                                                                         *)
(* The relay is correct because an id means one signal for ever: what the  *)
(* Cloud names in an answer can only be the signal it was offered, however *)
(* much later the answer is applied.                                       *)
(***************************************************************************)
EXTENDS OutboxRelay, LocalVaultProofs

\* Every signal that exists anywhere.
Everywhere == outbox \union taken \union late \union UNION {batch[c] : c \in Callers}

\* An id names one signal, and AUTOINCREMENT is past all of them.
IdsNameSignals ==
  /\ \A s \in Everywhere : s.id < nextId
  /\ \A s, t \in Everywhere : s.id = t.id => s = t

\* Wherever a signal is, the vault has seen its change.
MarksAreAhead ==
  \A s \in Everywhere :
    /\ watermarks[s.ref] # None
    /\ s.rev <= watermarks[s.ref].rev
    /\ s.at <= watermarks[s.ref].at

\* Answers name signals the Cloud took; commands read what it was told of.
AnswersAreTrue ==
  \A c \in Callers :
    /\ \A i \in accepted[c] : \E s \in taken : s.id = i
    /\ pc[c] = "executing" => command[c] \in taken

RelayInv ==
  /\ VaultInv
  /\ RelayTypeOK
  /\ OneRunAtATime
  /\ IdsNameSignals
  /\ MarksAreAhead
  /\ AnswersAreTrue

\* The steps of a run that leave the vault and the Cloud's memory alone.
OwnStep(c) ==
  \/ Begin(c) \/ Collect(c) \/ PollEmpty(c) \/ \E s \in taken : Poll(c, s)
  \/ Execute(c) \/ Reply(c) \/ Fail(c)
-----------------------------------------------------------------------------
LEMMA SignalsFromOutbox == ASSUME VaultInv PROVE Signals \subseteq outbox
  BY KeptFacts DEF Signals

LEMMA RelayInitInv == RelayInit => RelayInv
<1> SUFFICES ASSUME RelayInit PROVE RelayInv
  OBVIOUS
<1> USE DEF RelayInit
<1>1. VaultInv
  BY VaultInitInv
<1>2. outbox = {}
  BY DEF VaultInit
<1>3. RelayTypeOK
  BY <1>1 DEF RelayTypeOK, VaultInv, Stages
<1>4. OneRunAtATime /\ AnswersAreTrue
  BY DEF OneRunAtATime, AnswersAreTrue
<1>5. Everywhere = {}
  BY <1>2 DEF Everywhere
<1> QED
  BY <1>1, <1>3, <1>4, <1>5 DEF RelayInv, IdsNameSignals, MarksAreAhead

(* A run's own steps spread no signal the vault does not have.             *)
LEMMA OwnStepFacts ==
  ASSUME RelayInv, NEW c \in Callers, OwnStep(c)
  PROVE  /\ UNCHANGED vaultVars /\ taken' = taken
         /\ Everywhere' \subseteq Everywhere
         /\ Offered' \subseteq Offered \union outbox
<1> USE DEF RelayInv, RelayTypeOK
<1>1. CASE Begin(c) \/ PollEmpty(c) \/ Reply(c) \/ Execute(c) \/ \E s \in taken : Poll(c, s)
  <2>1. /\ UNCHANGED vaultVars /\ taken' = taken /\ late' = late
        /\ \A d \in Callers : batch'[d] = batch[d] \/ batch'[d] = {}
        /\ \A d \in Callers : pc'[d] = "sending" => pc[d] = "sending" /\ batch'[d] = batch[d]
    BY <1>1 DEF Begin, PollEmpty, Reply, Execute, Poll, Ended, cloud
  <2>2. outbox' = outbox
    BY <2>1 DEF vaultVars
  <2> QED
    BY <2>1, <2>2 DEF Everywhere, Offered
<1>2. CASE Collect(c)
  <2>1. /\ UNCHANGED vaultVars /\ taken' = taken /\ late' = late
        /\ \A d \in Callers : batch'[d] = batch[d] \/ batch'[d] = Signals
        /\ \A d \in Callers : pc'[d] = "sending" =>
             (pc[d] = "sending" /\ batch'[d] = batch[d]) \/ batch'[d] = Signals
    BY <1>2 DEF Collect, cloud
  <2>2. outbox' = outbox
    BY <2>1 DEF vaultVars
  <2>3. Signals \subseteq outbox
    BY SignalsFromOutbox
  <2> QED
    BY <2>1, <2>2, <2>3 DEF Everywhere, Offered
<1>3. CASE Fail(c)
  <2>1. /\ UNCHANGED vaultVars /\ taken' = taken
        /\ late' = late \union Abandoned({c})
        /\ \A d \in Callers : batch'[d] = batch[d] \/ batch'[d] = {}
        /\ \A d \in Callers : pc'[d] = "sending" => pc[d] = "sending" /\ batch'[d] = batch[d]
    BY <1>3 DEF Fail, Ended
  <2>2. outbox' = outbox
    BY <2>1 DEF vaultVars
  <2>3. Abandoned({c}) \subseteq Everywhere /\ Abandoned({c}) \subseteq Offered
    BY DEF Abandoned, Everywhere, Offered
  <2>4. Everywhere' \subseteq Everywhere
    <3>1. UNION {batch'[d] : d \in Callers} \subseteq UNION {batch[d] : d \in Callers}
      BY <2>1
    <3> QED
      BY <2>1, <2>2, <2>3, <3>1 DEF Everywhere
  <2>5. Offered' \subseteq Offered
    <3>1. UNION {batch'[d] : d \in {e \in Callers : pc'[e] = "sending"}} \subseteq
          UNION {batch[d] : d \in {e \in Callers : pc[e] = "sending"}}
      BY <2>1
    <3> QED
      BY <2>1, <2>3, <3>1 DEF Offered
  <2> QED
    BY <2>1, <2>4, <2>5
<1> QED
  BY <1>1, <1>2, <1>3 DEF OwnStep

LEMMA PostFacts ==
  ASSUME RelayInv, NEW c \in Callers, NEW part \in SUBSET batch[c], Post(c, part)
  PROVE  /\ UNCHANGED vaultVars
         /\ part \subseteq Offered
         /\ Everywhere' \subseteq Everywhere /\ Offered' \subseteq Offered
<1> USE DEF RelayInv, RelayTypeOK
<1>1. /\ UNCHANGED vaultVars /\ batch' = batch /\ late' \subseteq late
      /\ taken' = taken \union part /\ pc[c] = "sending"
      /\ \A d \in Callers : pc'[d] = "sending" => pc[d] = "sending"
  BY DEF Post
<1>2. outbox' = outbox
  BY <1>1 DEF vaultVars
<1>3. part \subseteq Offered /\ part \subseteq Everywhere
  BY <1>1 DEF Offered, Everywhere
<1> QED
  BY <1>1, <1>2, <1>3 DEF Everywhere, Offered

LEMMA AckFacts ==
  ASSUME RelayInv, NEW c \in Callers, Ack(c)
  PROVE  /\ outbox' \subseteq outbox
         /\ \A s \in outbox \ outbox' : s \in taken
         /\ Everywhere' \subseteq Everywhere /\ Offered' = Offered
<1> USE DEF RelayInv, RelayTypeOK
<1>1. /\ outbox' = {s \in outbox : s.id \notin accepted[c]}
      /\ taken' = taken /\ late' = late /\ batch' = batch
      /\ \A d \in Callers : pc'[d] = "sending" <=> pc[d] = "sending"
  BY DEF Ack, Acknowledge, Acknowledged, cloud
<1>2. \A s \in outbox \ outbox' : s \in taken
  BY <1>1 DEF AnswersAreTrue, IdsNameSignals, Everywhere
<1> QED
  BY <1>1, <1>2 DEF Everywhere, Offered

LEMMA RestartFacts ==
  ASSUME RelayInv, Restart
  PROVE  /\ UNCHANGED vaultVars /\ taken' = taken
         /\ Everywhere' \subseteq Everywhere /\ Offered' \subseteq Offered
<1>1. /\ UNCHANGED vaultVars /\ taken' = taken
      /\ late' = late \union Abandoned(Callers)
      /\ \A d \in Callers : batch'[d] = {} /\ pc'[d] = "idle"
  BY DEF Restart
<1>2. outbox' = outbox
  BY <1>1 DEF vaultVars
<1>3. Abandoned(Callers) \subseteq Everywhere /\ Abandoned(Callers) \subseteq Offered
  BY DEF Abandoned, Everywhere, Offered
<1> QED
  BY <1>1, <1>2, <1>3 DEF Everywhere, Offered

LEMMA TakeLateFacts ==
  ASSUME NEW part \in SUBSET late, TakeLate(part)
  PROVE  /\ UNCHANGED vaultVars
         /\ part \subseteq Offered
         /\ Everywhere' \subseteq Everywhere /\ Offered' \subseteq Offered
<1>1. /\ UNCHANGED vaultVars /\ batch' = batch /\ pc' = pc
      /\ taken' = taken \union part /\ late' \subseteq late
  BY DEF TakeLate, runs
<1>2. outbox' = outbox
  BY <1>1 DEF vaultVars
<1> QED
  BY <1>1, <1>2 DEF Everywhere, Offered

(* A put either announces one signal that was never seen before, or only   *)
(* clears away expired ones.                                               *)
LEMMA PutFacts ==
  ASSUME RelayInv, NEW p \in Incoming, Put(p), UNCHANGED <<runs, cloud>>
  PROVE  /\ now' = now /\ taken' = taken /\ Offered' = Offered
         /\ \/ outbox' = KeptSignals /\ nextId' = nextId
            \/ \E s \in Signal :
                 /\ s.id = nextId /\ nextId' = nextId + 1
                 /\ s.ref = p.ref /\ s.rev = p.rev /\ s.at = p.at
                 /\ outbox' = KeptSignals \union {s}
                 /\ watermarks'[p.ref] = MarkOf(p) /\ MarkOf(p) # None
         /\ \A r \in Refs : watermarks[r] # None =>
              /\ watermarks'[r] # None
              /\ watermarks'[r].rev >= watermarks[r].rev
              /\ watermarks'[r].at >= watermarks[r].at
<1> DEFINE page == <<p>>
<1>1. p \in Change /\ p \in [ref : Refs, rev : 1 .. MaxRev, op : Ops, at : Time]
  BY VaultAssumption DEF Incoming, Change, Time
<1>2. /\ page \in Seq(Change) /\ Distinct(page) /\ Acceptable(page) /\ PutPage(page)
      /\ Len(page) = 1 /\ DOMAIN page = {1} /\ page[1] = p
  BY <1>1 DEF Put, Distinct
<1>3. VaultInv
  BY DEF RelayInv
<1>4. Inserts(page) = {} \/ Inserts(page) = {1}
  BY <1>2 DEF Inserts
<1>5. now' = now /\ taken' = taken /\ Offered' = Offered
  BY DEF Put, runs, cloud, Offered
<1>6. ASSUME Inserts(page) = {} PROVE outbox' = KeptSignals /\ nextId' = nextId
  <2>1. outbox' = KeptSignals \union
          {[id |-> NewId + i - 1, ref |-> page[i].ref, rev |-> page[i].rev,
            op |-> page[i].op, at |-> page[i].at] : i \in Inserts(page)}
    BY <1>2 DEF PutPage
  <2>2. nextId' = nextId
    BY <1>2, <1>6 DEF PutPage
  <2> HIDE DEF page
  <2> QED
    BY <1>6, <2>1, <2>2
<1>7. ASSUME Inserts(page) = {1}
      PROVE  \E s \in Signal :
               /\ s.id = nextId /\ nextId' = nextId + 1
               /\ s.ref = p.ref /\ s.rev = p.rev /\ s.at = p.at
               /\ outbox' = KeptSignals \union {s}
               /\ watermarks'[p.ref] = MarkOf(p) /\ MarkOf(p) # None
  <2> DEFINE s == [id |-> nextId, ref |-> p.ref, rev |-> p.rev, op |-> p.op, at |-> p.at]
  <2>1. nextId \in Nat
    BY <1>3 DEF VaultInv, VaultTypeOK
  <2>2. s \in Signal
    BY <1>1, <2>1 DEF Signal, Change
  <2>3. NewId + 1 - 1 = nextId /\ nextId' = nextId + 1
    BY <1>2, <1>7, <2>1 DEF PutPage, NewId
  <2>4. outbox' = KeptSignals \union
          {[id |-> NewId + i - 1, ref |-> page[i].ref, rev |-> page[i].rev,
            op |-> page[i].op, at |-> page[i].at] : i \in {1}}
    BY <1>2, <1>7 DEF PutPage
  <2>5. outbox' = KeptSignals \union {s}
    BY <1>2, <2>3, <2>4
  <2>6. InsertedAt(page, p.ref) = {1}
    BY <1>2, <1>7 DEF InsertedAt
  <2>7. watermarks'[p.ref] = MarkOf(p)
    <3>1. p.ref \in Refs
      BY <1>1 DEF Change
    <3>2. \E i \in Inserts(page) : watermarks'[p.ref] = MarkOf(page[i])
      BY <1>2, <1>3, <2>6, <3>1, PutPageRows
    <3> QED
      BY <1>2, <1>7, <3>2
  <2>8. MarkOf(p) # None
    BY <1>1, NoneIsNoRow
  <2> QED
    BY <2>2, <2>3, <2>5, <2>7, <2>8
<1>8. ASSUME NEW r \in Refs, watermarks[r] # None
      PROVE  /\ watermarks'[r] # None
             /\ watermarks'[r].rev >= watermarks[r].rev
             /\ watermarks'[r].at >= watermarks[r].at
  <2>1. watermarks[r] \in Mark
    BY <1>3, <1>8 DEF VaultInv, VaultTypeOK
  <2>2. CASE watermarks'[r] = watermarks[r]
    BY <1>8, <2>1, <2>2 DEF Mark
  <2>3. ASSUME NEW i \in Inserts(page), page[i] \in Change, page[i].ref = r,
               watermarks'[r] = MarkOf(page[i]), ~Conflicts(page[i])
        PROVE  /\ watermarks'[r] # None
               /\ watermarks'[r].rev >= watermarks[r].rev
               /\ watermarks'[r].at >= watermarks[r].at
    <3>1. page[i].rev \in Nat /\ page[i].at \in Nat
      BY <2>3 DEF Change
    <3>2. page[i].rev > watermarks[r].rev /\ page[i].at >= watermarks[r].at
      BY <1>8, <2>1, <2>3, <3>1 DEF Conflicts, Mark
    <3> QED
      BY <2>1, <2>3, <3>1, <3>2, NoneIsNoRow, MarkFields DEF Mark
  <2> QED
    BY <1>2, <1>3, <2>2, <2>3, PutPageRows
<1> QED
  BY <1>4, <1>5, <1>6, <1>7, <1>8
-----------------------------------------------------------------------------
(* While nothing new is announced, ids and marks stay as they are.         *)
LEMMA NothingNew ==
  ASSUME IdsNameSignals, MarksAreAhead, Everywhere' \subseteq Everywhere,
         nextId' = nextId, watermarks' = watermarks
  PROVE  IdsNameSignals' /\ MarksAreAhead'
  BY DEF IdsNameSignals, MarksAreAhead

LEMMA PutNames ==
  ASSUME RelayInv, NEW p \in Incoming, Put(p), UNCHANGED <<runs, cloud>>
  PROVE  IdsNameSignals' /\ MarksAreAhead'
<1>1. VaultInv /\ RelayTypeOK /\ IdsNameSignals /\ MarksAreAhead
  BY DEF RelayInv
<1>2. Everywhere \subseteq Signal /\ nextId \in Nat /\ watermarks \in [Refs -> Mark \union {None}]
  BY <1>1 DEF RelayTypeOK, Everywhere, VaultTypeOK
<1>3. KeptSignals \subseteq outbox
  BY <1>1, KeptFacts
<1>4. taken' = taken /\ late' = late /\ batch' = batch
  BY DEF runs, cloud
<1>5. ASSUME NEW s \in Everywhere
      PROVE  /\ watermarks'[s.ref] # None
             /\ s.rev <= watermarks'[s.ref].rev
             /\ s.at <= watermarks'[s.ref].at
  <2>1. /\ s.ref \in Refs /\ s.rev \in Nat /\ s.at \in Nat
        /\ watermarks[s.ref] # None /\ watermarks[s.ref] \in Mark
        /\ s.rev <= watermarks[s.ref].rev /\ s.at <= watermarks[s.ref].at
    BY <1>1, <1>2 DEF Signal, MarksAreAhead
  <2>2. /\ watermarks'[s.ref] # None
        /\ watermarks'[s.ref].rev >= watermarks[s.ref].rev
        /\ watermarks'[s.ref].at >= watermarks[s.ref].at
    BY <2>1, PutFacts
  <2>3. VaultInv'
    <3>1. p \in Change
      BY VaultAssumption DEF Incoming, Change, Time
    <3> QED
      BY <1>1, <3>1, PutInv
  <2>4. watermarks'[s.ref] \in Mark
    BY <2>1, <2>2, <2>3 DEF VaultInv, VaultTypeOK
  <2> QED
    BY <2>1, <2>2, <2>4 DEF Mark
<1>6. CASE outbox' = KeptSignals /\ nextId' = nextId
  <2>1. Everywhere' \subseteq Everywhere
    BY <1>3, <1>4, <1>6 DEF Everywhere
  <2> QED
    BY <1>1, <1>5, <1>6, <2>1 DEF IdsNameSignals, MarksAreAhead
<1>7. ASSUME NEW s \in Signal, s.id = nextId, nextId' = nextId + 1,
             s.ref = p.ref, s.rev = p.rev, s.at = p.at,
             outbox' = KeptSignals \union {s},
             watermarks'[p.ref] = MarkOf(p), MarkOf(p) # None
      PROVE  IdsNameSignals' /\ MarksAreAhead'
  <2>1. Everywhere' \subseteq Everywhere \union {s}
    BY <1>3, <1>4, <1>7 DEF Everywhere
  <2>2. \A t \in Everywhere : t.id \in Nat /\ t.id < nextId
    BY <1>1, <1>2 DEF IdsNameSignals, Signal
  <2>3. IdsNameSignals'
    BY <1>1, <1>2, <1>7, <2>1, <2>2 DEF IdsNameSignals
  <2>4. s.rev \in Nat /\ s.at \in Nat
    BY <1>7 DEF Signal
  <2>5. MarksAreAhead'
    BY <1>5, <1>7, <2>1, <2>4, MarkFields DEF MarksAreAhead
  <2> QED
    BY <2>3, <2>5
<1> QED
  BY <1>6, <1>7, PutFacts
-----------------------------------------------------------------------------
LEMMA RelayStepVault ==
  ASSUME RelayInv, [RelayNext]_relayVars
  PROVE  VaultInv'
<1>1. VaultInv
  BY DEF RelayInv
<1>2. CASE UNCHANGED vaultVars
  BY <1>1, <1>2 DEF vaultVars, VaultInv, VaultTypeOK, RowIsTheWatermark, SignalsBehindMarks,
                    SignalsInOrder, RowsLeaveByExpiry, MarkOf
<1>3. ASSUME NEW c \in Callers, RunStep(c) PROVE VaultInv'
  <2>1. CASE Ack(c)
    BY <1>1, <2>1, AcknowledgeInv DEF Ack
  <2>2. CASE OwnStep(c)
    BY <1>2, <2>2, OwnStepFacts
  <2>3. ASSUME NEW part \in SUBSET batch[c], Post(c, part) PROVE VaultInv'
    BY <1>2, <2>3, PostFacts
  <2> QED
    BY <1>3, <2>1, <2>2, <2>3 DEF RunStep, OwnStep
<1>4. CASE Restart
  BY <1>2, <1>4, RestartFacts
<1>5. ASSUME NEW part \in SUBSET late, TakeLate(part) PROVE VaultInv'
  BY <1>2, <1>5 DEF TakeLate
<1>6. CASE Announced
  <2>1. PICK p \in Incoming : Put(p)
    BY <1>6 DEF Announced
  <2>2. p \in Change
    BY VaultAssumption DEF Incoming, Change, Time
  <2> QED
    BY <1>1, <2>1, <2>2, PutInv
<1>7. CASE Passing
  BY <1>1, <1>7, TickInv DEF Passing
<1>8. CASE UNCHANGED relayVars
  BY <1>2, <1>8 DEF relayVars
<1> QED
  BY <1>3, <1>4, <1>5, <1>6, <1>7, <1>8 DEF RelayNext

LEMMA RelayStepNames ==
  ASSUME RelayInv, [RelayNext]_relayVars
  PROVE  IdsNameSignals' /\ MarksAreAhead'
<1>1. IdsNameSignals /\ MarksAreAhead
  BY DEF RelayInv
<1>2. ASSUME UNCHANGED vaultVars, Everywhere' \subseteq Everywhere
      PROVE  IdsNameSignals' /\ MarksAreAhead'
  BY <1>1, <1>2, NothingNew DEF vaultVars
<1>3. ASSUME NEW c \in Callers, RunStep(c) PROVE IdsNameSignals' /\ MarksAreAhead'
  <2>1. CASE Ack(c)
    BY <1>1, <2>1, AckFacts, NothingNew DEF Ack, Acknowledge
  <2>2. CASE OwnStep(c)
    BY <1>2, <2>2, OwnStepFacts
  <2>3. ASSUME NEW part \in SUBSET batch[c], Post(c, part) PROVE IdsNameSignals' /\ MarksAreAhead'
    BY <1>2, <2>3, PostFacts
  <2> QED
    BY <1>3, <2>1, <2>2, <2>3 DEF RunStep, OwnStep
<1>4. CASE Restart
  BY <1>2, <1>4, RestartFacts
<1>5. ASSUME NEW part \in SUBSET late, TakeLate(part) PROVE IdsNameSignals' /\ MarksAreAhead'
  BY <1>2, <1>5, TakeLateFacts
<1>6. CASE Announced
  BY <1>6, PutNames DEF Announced
<1>7. CASE Passing
  <2>1. Everywhere' = Everywhere /\ nextId' = nextId /\ watermarks' = watermarks
    BY <1>7 DEF Passing, Tick, runs, cloud, Everywhere
  <2> QED
    BY <1>1, <2>1, NothingNew
<1>8. CASE UNCHANGED relayVars
  BY <1>2, <1>8 DEF relayVars, vaultVars, runs, cloud, Everywhere
<1> QED
  BY <1>3, <1>4, <1>5, <1>6, <1>7, <1>8 DEF RelayNext

LEMMA ReadStatusType ==
  ASSUME NEW r, NEW minimum
  PROVE  ReadStatus(r, minimum) \in {"ok", "deleted", "missing", "not_ready"}
  BY DEF ReadStatus

LEMMA RelayStepTypes ==
  ASSUME RelayInv, [RelayNext]_relayVars
  PROVE  RelayTypeOK'
<1> USE DEF RelayTypeOK
<1>1. VaultTypeOK'
  BY RelayStepVault DEF VaultInv
<1>2. RelayTypeOK /\ VaultInv
  BY DEF RelayInv
<1>3. ASSUME NEW c \in Callers, RunStep(c) PROVE RelayTypeOK'
  <2>1. CASE Begin(c)
    BY <1>1, <1>2, <2>1 DEF Begin, cloud, Stages
  <2>2. CASE Collect(c)
    <3>1. Signals \in SUBSET Signal
      BY <1>2, SignalsFromOutbox DEF VaultInv, VaultTypeOK
    <3> QED
      BY <1>1, <1>2, <2>2, <3>1 DEF Collect, cloud, Stages
  <2>3. ASSUME NEW part \in SUBSET batch[c], Post(c, part) PROVE RelayTypeOK'
    <3>1. part \subseteq Signal /\ {s.id : s \in part} \in SUBSET Nat
      BY <1>2 DEF Signal
    <3> QED
      BY <1>1, <1>2, <2>3, <3>1 DEF Post, Stages
  <2>4. CASE Ack(c)
    BY <1>1, <1>2, <2>4 DEF Ack, cloud, Stages
  <2>5. CASE PollEmpty(c) \/ Reply(c)
    BY <1>1, <1>2, <2>5 DEF PollEmpty, Reply, Ended, Held, cloud, Stages
  <2>6. ASSUME NEW s \in taken, Poll(c, s) PROVE RelayTypeOK'
    BY <1>1, <1>2, <2>6 DEF Poll, cloud, Stages
  <2>7. CASE Execute(c)
    BY <1>1, <1>2, <2>7, ReadStatusType DEF Execute, cloud, Stages
  <2>8. CASE Fail(c)
    <3>1. Abandoned({c}) \subseteq Signal
      BY <1>2 DEF Abandoned
    <3> QED
      BY <1>1, <1>2, <2>8, <3>1 DEF Fail, Ended, Held, Stages
  <2> QED
    BY <1>3, <2>1, <2>2, <2>3, <2>4, <2>5, <2>6, <2>7, <2>8 DEF RunStep
<1>4. CASE Restart
  <2>1. Abandoned(Callers) \subseteq Signal
    BY <1>2 DEF Abandoned
  <2> QED
    BY <1>1, <1>2, <1>4, <2>1 DEF Restart, Stages
<1>5. ASSUME NEW part \in SUBSET late, TakeLate(part) PROVE RelayTypeOK'
  BY <1>1, <1>2, <1>5 DEF TakeLate, runs
<1>6. CASE Announced \/ Passing
  BY <1>1, <1>2, <1>6 DEF Announced, Passing, runs, cloud
<1>7. CASE UNCHANGED relayVars
  BY <1>1, <1>2, <1>7 DEF relayVars, runs, cloud
<1> QED
  BY <1>3, <1>4, <1>5, <1>6, <1>7 DEF RelayNext

LEMMA RelayStepRuns ==
  ASSUME RelayInv, [RelayNext]_relayVars
  PROVE  OneRunAtATime' /\ AnswersAreTrue'
<1> USE DEF RelayInv, RelayTypeOK, OneRunAtATime, AnswersAreTrue
<1>1. ASSUME NEW c \in Callers, RunStep(c) PROVE OneRunAtATime' /\ AnswersAreTrue'
  <2>1. CASE Begin(c)
    BY <2>1 DEF Begin, MayBegin, cloud
  <2>2. CASE Collect(c)
    BY <2>2 DEF Collect, cloud
  <2>3. ASSUME NEW part \in SUBSET batch[c], Post(c, part) PROVE OneRunAtATime' /\ AnswersAreTrue'
    BY <2>3 DEF Post
  <2>4. CASE Ack(c)
    BY <2>4 DEF Ack, cloud
  <2>5. CASE PollEmpty(c) \/ Reply(c)
    BY <2>5 DEF PollEmpty, Reply, Ended, Held, cloud
  <2>6. ASSUME NEW s \in taken, Poll(c, s) PROVE OneRunAtATime' /\ AnswersAreTrue'
    BY <2>6 DEF Poll, cloud
  <2>7. CASE Execute(c)
    BY <2>7 DEF Execute, cloud
  <2>8. CASE Fail(c)
    BY <2>8 DEF Fail, Ended, Held
  <2> QED
    BY <1>1, <2>1, <2>2, <2>3, <2>4, <2>5, <2>6, <2>7, <2>8 DEF RunStep
<1>2. CASE Restart
  BY <1>2 DEF Restart
<1>3. ASSUME NEW part \in SUBSET late, TakeLate(part) PROVE OneRunAtATime' /\ AnswersAreTrue'
  BY <1>3 DEF TakeLate, runs
<1>4. CASE Announced \/ Passing
  BY <1>4 DEF Announced, Passing, runs, cloud
<1>5. CASE UNCHANGED relayVars
  BY <1>5 DEF relayVars, runs, cloud
<1> QED
  BY <1>1, <1>2, <1>3, <1>4, <1>5 DEF RelayNext

LEMMA RelayStepInv == RelayInv /\ [RelayNext]_relayVars => RelayInv'
  BY RelayStepVault, RelayStepNames, RelayStepTypes, RelayStepRuns DEF RelayInv

LEMMA RelayInvariant == RelaySpec => []RelayInv
  BY RelayInitInv, RelayStepInv, PTL DEF RelaySpec
-----------------------------------------------------------------------------
(* The variables of the runs and of the Cloud keep their types             *)
(* (server-data-relay.mjs:88-189).                                         *)
THEOREM RelayTypeCorrect == RelaySpec => []RelayTypeOK
<1>1. RelayInv => RelayTypeOK
  BY DEF RelayInv
<1> QED
  BY <1>1, RelayInvariant, PTL

(* Runs of one vault never overlap (server-data-relay.mjs:88-96).          *)
THEOREM RunsDoNotOverlap == RelaySpec => []OneRunAtATime
<1>1. RelayInv => OneRunAtATime
  BY DEF RelayInv
<1> QED
  BY <1>1, RelayInvariant, PTL

(* Only an accepted or an expired signal leaves the outbox                 *)
(* (server-data-relay.mjs:113-126, local-data-store.mjs:136-142, 243-254). *)
LEMMA LostNever ==
  RelayInv /\ [RelayNext]_relayVars => \A s \in outbox \ outbox' : s \in taken \/ Expired(s)
<1> SUFFICES ASSUME RelayInv, [RelayNext]_relayVars
             PROVE  \A s \in outbox \ outbox' : s \in taken \/ Expired(s)
  OBVIOUS
<1>1. CASE UNCHANGED vaultVars
  BY <1>1 DEF vaultVars
<1>2. ASSUME NEW c \in Callers, RunStep(c) PROVE \A s \in outbox \ outbox' : s \in taken \/ Expired(s)
  <2>1. CASE Ack(c)
    BY <2>1, AckFacts
  <2>2. CASE OwnStep(c)
    BY <1>1, <2>2, OwnStepFacts
  <2>3. ASSUME NEW part \in SUBSET batch[c], Post(c, part) PROVE UNCHANGED vaultVars
    BY <2>3, PostFacts
  <2> QED
    BY <1>1, <1>2, <2>1, <2>2, <2>3 DEF RunStep, OwnStep
<1>3. CASE Restart
  BY <1>1, <1>3, RestartFacts
<1>4. ASSUME NEW part \in SUBSET late, TakeLate(part) PROVE UNCHANGED vaultVars
  BY <1>4 DEF TakeLate
<1>5. CASE Announced
  <2>1. PICK p \in Incoming : Put(p) /\ UNCHANGED <<runs, cloud>>
    BY <1>5 DEF Announced
  <2>2. KeptSignals \subseteq outbox'
    BY <2>1, PutFacts
  <2> QED
    BY <2>2 DEF KeptSignals
<1>6. CASE Passing
  BY <1>6 DEF Passing, Tick
<1>7. CASE UNCHANGED relayVars
  BY <1>1, <1>7 DEF relayVars
<1> QED
  BY <1>1, <1>2, <1>3, <1>4, <1>5, <1>6, <1>7 DEF RelayNext

THEOREM SignalsAreNotLost == RelaySpec => NoSignalIsLost
<1>1. RelayInv /\ [RelayNext]_relayVars =>
        [\A s \in outbox \ outbox' : s \in taken \/ Expired(s)]_relayVars
  BY LostNever
<1> QED
  BY <1>1, RelayInvariant, PTL DEF RelaySpec, NoSignalIsLost
-----------------------------------------------------------------------------
(* A read of a change the vault announced finds it, until it expires.      *)
LEMMA AnnouncedIsReadable ==
  ASSUME RelayInv, NEW s \in taken, ReadStatus(s.ref, s.rev) \in {"missing", "not_ready"}
  PROVE  Expired(s)
<1>1. /\ s.ref \in Refs /\ s.rev \in Nat /\ s.at \in Nat
      /\ watermarks[s.ref] # None /\ watermarks[s.ref] \in Mark
      /\ s.rev <= watermarks[s.ref].rev /\ s.at <= watermarks[s.ref].at
  BY DEF RelayInv, RelayTypeOK, VaultTypeOK, MarksAreAhead, Everywhere, Signal
<1>2. now \in Nat /\ Retention \in Nat
  BY VaultAssumption DEF RelayInv, VaultInv, VaultTypeOK
<1>3. CASE records[s.ref] = None
  <2>1. watermarks[s.ref].at + Retention <= now
    BY <1>1, <1>3 DEF RelayInv, VaultInv, RowsLeaveByExpiry
  <2> QED
    BY <1>1, <1>2, <2>1 DEF Expired, Mark
<1>4. CASE records[s.ref] # None
  <2>1. records[s.ref].rev = watermarks[s.ref].rev /\ records[s.ref].at = watermarks[s.ref].at
    BY <1>1, <1>4, MarkFields DEF RelayInv, VaultInv, RowIsTheWatermark
  <2>2. ~(records[s.ref].rev < s.rev)
    BY <1>1, <2>1 DEF Mark
  <2>3. Expired(records[s.ref])
    BY <1>4, <2>2 DEF ReadStatus
  <2> QED
    BY <1>1, <1>2, <2>1, <2>3 DEF Expired, Mark
<1> QED
  BY <1>3, <1>4

LEMMA ServedStep ==
  RelayInv /\ [RelayNext]_relayVars =>
    \A c \in Callers : (result'[c] \in {"missing", "not_ready"} /\ result[c] = "none")
                         => Expired(command[c])
<1> SUFFICES ASSUME RelayInv, [RelayNext]_relayVars, NEW c \in Callers,
                    result'[c] \in {"missing", "not_ready"}, result[c] = "none"
             PROVE  Expired(command[c])
  OBVIOUS
<1>1. RelayTypeOK /\ AnswersAreTrue
  BY DEF RelayInv
<1>2. CASE result' = result
  BY <1>2
<1>3. ASSUME NEW d \in Callers, RunStep(d) PROVE Expired(command[c])
  <2>1. CASE Execute(d)
    <3>1. c = d
      BY <1>1, <2>1 DEF Execute, RelayTypeOK
    <3>2. command[c] \in taken
      BY <1>1, <2>1, <3>1 DEF Execute, AnswersAreTrue
    <3>3. ReadStatus(command[c].ref, command[c].rev) \in {"missing", "not_ready"}
      BY <1>1, <2>1, <3>1 DEF Execute, RelayTypeOK
    <3> QED
      BY <3>2, <3>3, AnnouncedIsReadable
  <2>2. CASE PollEmpty(d) \/ Reply(d) \/ Fail(d)
    BY <1>1, <2>2 DEF PollEmpty, Reply, Fail, Ended, RelayTypeOK
  <2>3. CASE Begin(d) \/ Collect(d) \/ Ack(d)
    BY <1>2, <2>3 DEF Begin, Collect, Ack
  <2>4. CASE (\E part \in SUBSET batch[d] : Post(d, part)) \/ \E s \in taken : Poll(d, s)
    BY <1>2, <2>4 DEF Post, Poll
  <2> QED
    BY <1>3, <2>1, <2>2, <2>3, <2>4 DEF RunStep
<1>4. CASE Restart
  BY <1>4 DEF Restart
<1>5. CASE (\E part \in SUBSET late : TakeLate(part)) \/ Announced \/ Passing
  BY <1>2, <1>5 DEF TakeLate, Announced, Passing, runs
<1>6. CASE UNCHANGED relayVars
  BY <1>2, <1>6 DEF relayVars, runs
<1> QED
  BY <1>3, <1>4, <1>5, <1>6 DEF RelayNext

(* Whatever is lost, late or restarted on the way, a read the Cloud makes  *)
(* because it took a signal never misses the change before it expires      *)
(* (server-data-relay.mjs:130-171, local-data-store.mjs:200-207).          *)
THEOREM InvitedReadsAreServed == RelaySpec => InvitedReadIsServed
<1>1. RelayInv /\ [RelayNext]_relayVars =>
        [\A c \in Callers : (result'[c] \in {"missing", "not_ready"} /\ result[c] = "none")
                             => Expired(command[c])]_relayVars
  BY ServedStep
<1> QED
  BY <1>1, RelayInvariant, PTL DEF RelaySpec, InvitedReadIsServed
-----------------------------------------------------------------------------
(* What a relay run, the vault and the Cloud do, seen as a delivery.       *)
LEMMA DeliveryInitial == RelayInit => Delivery!DeliveryInit
  BY DEF RelayInit, VaultInit, Delivery!DeliveryInit, Offered

LEMMA OfferStep ==
  ASSUME UNCHANGED vaultVars, taken' = taken, Offered' \subseteq Offered \union outbox
  PROVE  Delivery!Offer
<1>1. outbox' = outbox /\ now' = now
  BY DEF vaultVars
<1> QED
  BY <1>1 DEF Delivery!Offer, Expired

LEMMA LearnStep ==
  ASSUME UNCHANGED vaultVars, NEW part, part \subseteq Offered, taken' = taken \union part,
         Offered' \subseteq Offered
  PROVE  Delivery!Learn
<1>1. outbox' = outbox /\ now' = now
  BY DEF vaultVars
<1> QED
  BY <1>1 DEF Delivery!Learn, Expired

LEMMA AnnounceStep ==
  ASSUME RelayInv, NEW p \in Incoming, Put(p), UNCHANGED <<runs, cloud>>
  PROVE  Delivery!Announce \/ Delivery!Settle
<1> DEFINE old == {s \in outbox : Expired(s)}
<1>1. now' = now /\ taken' = taken /\ Offered' = Offered
  BY PutFacts
<1>2. KeptSignals = outbox \ old
  BY DEF KeptSignals
<1>3. CASE outbox' = KeptSignals
  BY <1>1, <1>2, <1>3 DEF Delivery!Settle, Expired
<1>4. ASSUME NEW s \in Signal, s.id = nextId, outbox' = KeptSignals \union {s}
      PROVE  Delivery!Announce
  <2>1. nextId \in Nat
    BY DEF RelayInv, VaultInv, VaultTypeOK
  <2>2. outbox \union Offered \union taken \subseteq Everywhere
    BY DEF Offered, Everywhere
  <2>3. s \notin Everywhere
    BY <1>4, <2>1 DEF RelayInv, IdsNameSignals
  <2>4. s \in outbox' \ (outbox \union Offered \union taken)
    BY <1>4, <2>2, <2>3
  <2>5. {t \in outbox' : Expired(t)'} \subseteq (old \ old) \union {s}
    BY <1>1, <1>4 DEF KeptSignals, Expired
  <2>6. outbox' = (outbox \ old) \union {s}
    BY <1>2, <1>4
  <2>7. old \in SUBSET {t \in outbox : Expired(t)}
    OBVIOUS
  <2> HIDE DEF old
  <2>8. /\ \E t \in outbox' \ (outbox \union Offered \union taken) :
             \E gone \in SUBSET {u \in outbox : Expired(u)} :
               /\ outbox' = (outbox \ gone) \union {t}
               /\ {u \in outbox' : Expired(u)'} \subseteq ({u \in outbox : Expired(u)} \ gone) \union {t}
        /\ Offered' = Offered /\ taken' = taken
    BY <1>1, <2>4, <2>5, <2>6, <2>7 DEF old
  <2> QED
    BY <2>8 DEF Delivery!Announce
<1> QED
  BY <1>3, <1>4, PutFacts

LEMMA DeliveryStep ==
  RelayInv /\ [RelayNext]_relayVars => [Delivery!DeliveryNext]_(Delivery!delivery)
<1> SUFFICES ASSUME RelayInv, [RelayNext]_relayVars
             PROVE  Delivery!DeliveryNext \/ UNCHANGED Delivery!delivery
  OBVIOUS
<1> USE DEF Delivery!DeliveryNext
<1>1. ASSUME NEW c \in Callers, RunStep(c) PROVE Delivery!DeliveryNext
  <2>1. CASE OwnStep(c)
    BY <2>1, OwnStepFacts, OfferStep
  <2>2. ASSUME NEW part \in SUBSET batch[c], Post(c, part) PROVE Delivery!DeliveryNext
    <3>1. taken' = taken \union part
      BY <2>2 DEF Post
    <3> QED
      BY <2>2, <3>1, PostFacts, LearnStep
  <2>3. CASE Ack(c)
    <3>1. now' = now /\ taken' = taken
      BY <2>3 DEF Ack, Acknowledge, cloud
    <3> QED
      BY <2>3, <3>1, AckFacts DEF Delivery!Settle, Expired
  <2> QED
    BY <1>1, <2>1, <2>2, <2>3 DEF RunStep, OwnStep
<1>2. CASE Restart
  BY <1>2, RestartFacts, OfferStep
<1>3. ASSUME NEW part \in SUBSET late, TakeLate(part) PROVE Delivery!DeliveryNext
  <2>1. taken' = taken \union part
    BY <1>3 DEF TakeLate
  <2> QED
    BY <1>3, <2>1, TakeLateFacts, LearnStep
<1>4. CASE Announced
  BY <1>4, AnnounceStep DEF Announced
<1>5. CASE Passing
  <2>1. outbox' = outbox /\ taken' = taken /\ Offered' = Offered /\ now' = now + 1
    BY <1>5 DEF Passing, Tick, runs, cloud, Offered
  <2>2. \A s \in outbox : Expired(s) => Expired(s)'
    <3>1. now \in Nat /\ \A s \in outbox : s.at \in Nat
      BY DEF RelayInv, VaultInv, VaultTypeOK, Signal
    <3> QED
      BY <2>1, <3>1, VaultAssumption DEF Expired
  <2> QED
    BY <2>1, <2>2 DEF Delivery!Age
<1>6. CASE UNCHANGED relayVars
  BY <1>6, OfferStep DEF relayVars, runs, cloud, Offered
<1> QED
  BY <1>1, <1>2, <1>3, <1>4, <1>5, <1>6 DEF RelayNext

(* The relay delivers signals as SignalDelivery promises                   *)
(* (server-data-relay.mjs:88-189).                                         *)
THEOREM RelayDelivers == RelaySpec => DeliversSignals
  BY DeliveryInitial, DeliveryStep, RelayInvariant, PTL
  DEF RelaySpec, DeliversSignals, Delivery!DeliverySpec
=============================================================================
