----------------------------- MODULE LocalVault -----------------------------
(***************************************************************************)
(* The local vault of one shop: scripts/local-data-store.mjs.              *)
(*                                                                         *)
(* Every handler that changes the vault runs in one SQLite transaction     *)
(* (BEGIN IMMEDIATE ... COMMIT or ROLLBACK), so each is one action here.   *)
(* A change is [ref, rev, op, at]: the opaque reference, the revision, the *)
(* operation and the instant the shop observed it.  Payload, digest and    *)
(* ciphertext are functions of these four.  Not modelled: the history      *)
(* table (the code writes it and never reads it back) and the byte limits. *)
(***************************************************************************)
EXTENDS Integers, Sequences, FiniteSets

CONSTANTS
  Refs,           \* opaque references (kind and reference, one key)
  None,           \* no row
  Ops,            \* operations a run lets a shop perform
  MaxRev,         \* bound: highest revision a shop assigns
  MaxTime,        \* bound: last instant of the clock
  Retention,      \* RETENTION_MS: a payload lives this long after observation
  Ahead,          \* an observation may be this far in the future (60 s)
  MaxRows,        \* MAX_ROWS
  MaxWatermarks,  \* MAX_WATERMARKS
  MaxOutbox,      \* MAX_OUTBOX
  Batch,          \* most signals one relay run offers (100)
  Legacy          \* the rows a database of an older version may hold

ASSUME VaultAssumption ==
  /\ MaxRev \in Nat \ {0} /\ MaxTime \in Nat
  /\ Retention \in Nat \ {0} /\ Ahead \in Nat
  /\ MaxRows \in Nat /\ MaxWatermarks \in Nat /\ MaxOutbox \in Nat
  /\ Batch \in Nat \ {0}
  /\ IsFiniteSet(Refs) /\ Ops \subseteq {"upsert", "delete"}

Time == 0 .. MaxTime
Change == [ref : Refs, rev : 1 .. MaxRev, op : Ops, at : Nat]
Incoming == [ref : Refs, rev : 1 .. MaxRev, op : Ops, at : Time]
Mark == [rev : 1 .. MaxRev, at : Nat]
Signal == [id : Nat, ref : Refs, rev : 1 .. MaxRev, op : Ops, at : Nat]
MarkWithoutRevision(c) == [rev |-> 0, at |-> c.at]
MarkOf(c) == [rev |-> c.rev, at |-> c.at]

ASSUME NoneAssumption == None \notin Change /\ None \notin Mark
ASSUME LegacyAssumption ==
  Legacy \subseteq {t \in [Refs -> Change \union {None}] :
                      \A r \in Refs : t[r] # None => t[r].ref = r}

VARIABLES
  now,         \* the clock every handler reads
  bound,       \* meta.source_pull_bound: the vault is fed by the connector only
  records,     \* table records: the current row of each reference
  watermarks,  \* table watermarks: the last revision ever accepted
  outbox,      \* table outbox: signals not yet accepted by the Cloud
  nextId       \* AUTOINCREMENT of outbox.id

vaultVars == <<now, bound, records, watermarks, outbox, nextId>>

\* What a new database holds; one of an older version may hold rows.
NewVault == {[r \in Refs |-> None]}

NotBackfilled(rows, marks) == marks

(* The constructor gives every row it finds a watermark, unless it already *)
(* has one as recent, before any cleanup can discard the row.              *)
Backfilled(rows, marks) == [r \in Refs |->
  IF rows[r] # None /\ (marks[r] = None \/ rows[r].rev > marks[r].rev)
  THEN MarkOf(rows[r]) ELSE marks[r]]

VaultInit ==
  /\ now = 0
  /\ bound = FALSE
  /\ records \in Legacy
  /\ watermarks = Backfilled(records, [r \in Refs |-> None])
  /\ outbox = {}
  /\ nextId = 1
-----------------------------------------------------------------------------
(* cleanup() runs first in every put: what its DELETEs leave.              *)
Expired(c) == c.at + Retention <= now
Kept == [r \in Refs |-> IF records[r] # None /\ Expired(records[r]) THEN None ELSE records[r]]
EverySignal == outbox
KeptSignals == {s \in outbox : ~Expired(s)}

Rows(t) == {r \in Refs : t[r] # None}

Stale(c) == c.at > now + Ahead \/ Expired(c)
Repeated(c) == Kept[c.ref] = c

ConflictsUnlessNewerOrEqual(c) ==
  watermarks[c.ref] # None /\ (c.rev < watermarks[c.ref].rev \/ c.at < watermarks[c.ref].at)
ConflictsByRevision(c) == watermarks[c.ref] # None /\ c.rev <= watermarks[c.ref].rev
ConflictsWithRow(c) == Kept[c.ref] # None /\ c.rev <= Kept[c.ref].rev
Conflicts(c) ==
  /\ watermarks[c.ref] # None
  /\ c.rev <= watermarks[c.ref].rev \/ c.at < watermarks[c.ref].at

\* The places of a page that insert a row: the others are deduplicated.
Inserts(page) == {i \in DOMAIN page : ~Repeated(page[i])}
InsertedAt(page, r) == {i \in Inserts(page) : page[i].ref = r}

(* Whether putInTransaction accepts every record of a page of distinct     *)
(* references.  One refused record rolls the whole transaction back.       *)
Fits(page) ==
  LET new == {page[i].ref : i \in Inserts(page)}
  IN  /\ Cardinality(Rows(Kept) \union new) <= MaxRows
      /\ Cardinality(Rows(watermarks) \union new) <= MaxWatermarks
      /\ Cardinality(KeptSignals) + Cardinality(Inserts(page)) <= MaxOutbox

Acceptable(page) ==
  /\ \A i \in DOMAIN page : ~Stale(page[i])
  /\ \A i \in Inserts(page) : ~Conflicts(page[i])
  /\ Fits(page)

\* The id the next signal gets; AUTOINCREMENT never gives one twice.
PastTheLiveOnes ==
  CHOOSE n \in 1 .. nextId :
    /\ \A s \in KeptSignals : s.id < n
    /\ \A k \in 1 .. n - 1 : \E s \in KeptSignals : k <= s.id
NewId == nextId

(* The rows, watermarks and signals after putInTransaction of each record. *)
(* Ids only order signals, so a deduplicated place may leave a gap.        *)
PutPage(page) ==
  LET put(r) == page[CHOOSE i \in InsertedAt(page, r) : TRUE]
  IN  /\ records' = [r \in Refs |->
           IF InsertedAt(page, r) = {} THEN Kept[r] ELSE put(r)]
      /\ watermarks' = [r \in Refs |->
           IF InsertedAt(page, r) = {} THEN watermarks[r] ELSE MarkOf(put(r))]
      /\ outbox' = KeptSignals \union
           {[id |-> NewId + i - 1, ref |-> page[i].ref, rev |-> page[i].rev,
             op |-> page[i].op, at |-> page[i].at] : i \in Inserts(page)}
      /\ nextId' = IF Inserts(page) = {} THEN nextId ELSE NewId + Len(page)
-----------------------------------------------------------------------------
(* put(): the ingestion endpoint writes one record, unless the vault is    *)
(* managed by the connector.  A refused put rolls back and changes nothing.*)
Put(c) ==
  /\ ~bound
  /\ Acceptable(<<c>>)
  /\ PutPage(<<c>>)
  /\ UNCHANGED <<now, bound>>

(* signals(): the oldest live signals, at most a batch of them.            *)
Older(s) == {t \in KeptSignals : t.id < s.id}
Signals == {s \in KeptSignals : Cardinality(Older(s)) < Batch}

(* acknowledgeSignals(): deletes the named rows that are still there.      *)
Acknowledge(ids) ==
  /\ outbox' = {s \in outbox : s.id \notin ids}
  /\ UNCHANGED <<now, bound, records, watermarks, nextId>>

(* read(): the row a reader is served, or None for every refusal.          *)
Served(r, minimum) ==
  IF /\ records[r] # None
     /\ ~Expired(records[r])
     /\ records[r].rev >= minimum
     /\ records[r].op # "delete"
  THEN records[r] ELSE None

Tick ==
  /\ now < MaxTime
  /\ now' = now + 1
  /\ UNCHANGED <<bound, records, watermarks, outbox, nextId>>

VaultNext ==
  \/ \E c \in Incoming : Put(c)
  \/ \E s \in SUBSET Signals : Acknowledge({t.id : t \in s})
  \/ Tick

VaultSpec == VaultInit /\ [][VaultNext]_vaultVars
-----------------------------------------------------------------------------
VaultTypeOK ==
  /\ now \in Nat
  /\ bound \in BOOLEAN
  /\ records \in [Refs -> Change \union {None}]
  /\ watermarks \in [Refs -> Mark \union {None}]
  /\ outbox \subseteq Signal
  /\ nextId \in Nat

(* The row of a reference is the change its watermark names, so the newest *)
(* accepted revision is the only one a reader can be served                *)
(* (local-data-store.mjs:167-187).                                         *)
RowIsTheWatermark ==
  \A r \in Refs : records[r] # None =>
    records[r].ref = r /\ watermarks[r] = MarkOf(records[r])

(* What watermarks are for (local-data-store.mjs:12): even after its       *)
(* payload has expired an old revision never comes back.                   *)
NoResurrection ==
  \A r \in Refs :
    (watermarks[r] # None /\ records'[r] # None /\ records'[r] # records[r])
      => records'[r].rev > watermarks[r].rev
NeverResurrected == [][NoResurrection]_vaultVars

(* Two signals never carry the same id, and the signals of one reference   *)
(* leave in the order of its revisions (outbox.id orders signals()).       *)
SignalsInOrder ==
  /\ \A s \in outbox : s.id < nextId
  /\ \A s, t \in outbox :
       /\ s # t => s.id # t.id
       /\ (s.ref = t.ref /\ s.id < t.id) => s.rev < t.rev

(* A signal that may be offered to the Cloud names a row that is still     *)
(* there, at that revision or a later one: the read it invites is never    *)
(* refused as missing or not ready (read, local-data-store.mjs:205-207).   *)
SignalsAreReadable ==
  \A s \in KeptSignals :
    /\ records[s.ref] # None
    /\ ~Expired(records[s.ref])
    /\ records[s.ref].rev >= s.rev
=============================================================================
