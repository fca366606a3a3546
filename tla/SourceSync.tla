----------------------------- MODULE SourceSync -----------------------------
(***************************************************************************)
(* The connector pull of one vault: scripts/local-source-sync.mjs and      *)
(* pullSourceOnce of scripts/source-pull-client.mjs.                       *)
(*                                                                         *)
(* A puller claims the lease of the source_sync row, asks the shop's       *)
(* connector for the page after the stored cursor, and applies the answer  *)
(* in one transaction or records a failure.  Several pullers (the server   *)
(* loop, a workspace worker, another process) share the row; any of them   *)
(* may die at an await.  The connector is external: its answers are what   *)
(* apply() accepts from it, a log of changes that a cursor is a place in.  *)
(***************************************************************************)
EXTENDS LocalVault

CONSTANTS
  Pullers,      \* activities that may run pullSourceOnce
  Lease,        \* a claim lasts this long (30 s)
  Fresh,        \* a complete pass may be read for this long (60 s)
  PageRecords,  \* SOURCE_PAGE_RECORDS
  MaxClaims,    \* bound: claims of the lease
  MaxLog,       \* bound: changes of one stream
  MaxStream     \* bound: streams the connector starts

ASSUME SourceAssumption ==
  /\ Lease \in Nat \ {0} /\ Fresh \in Nat /\ PageRecords \in Nat \ {0}
  /\ MaxClaims \in Nat /\ MaxLog \in Nat /\ MaxStream \in Nat \ {0}

VARIABLES
  log,           \* connector: the changes of each of its streams
  stream,        \* connector: the stream it serves
  streamId,      \* source_sync.stream_id, 0 for NULL
  cursor,        \* source_sync.cursor: how much of the stream is in the vault
  ready,         \* source_sync.ready
  lastComplete,  \* source_sync.last_complete_at
  leaseToken,    \* source_sync.lease_token, 0 for NULL
  leaseUntil,    \* source_sync.lease_until
  issued,        \* claims so far: a random token is the number of its claim
  pc,            \* where each puller is in pullSourceOnce
  lease,         \* the lease each puller holds in memory
  page           \* the answer each puller has received

syncRow == <<streamId, cursor, ready, lastComplete, leaseToken, leaseUntil>>
pullers == <<pc, lease, page>>
vars == <<vaultVars, log, stream, syncRow, issued, pullers>>

NoLease == [token |-> 0, cursor |-> 0]
NoPage == [stream |-> 0, from |-> 0, next |-> 0, complete |-> FALSE, made |-> 0]

SyncInit ==
  /\ VaultInit
  /\ log = [s \in 1 .. MaxStream |-> <<>>]
  /\ stream = 1
  /\ streamId = 0 /\ cursor = 0 /\ ready = FALSE /\ lastComplete = 0
  /\ leaseToken = 0 /\ leaseUntil = 0
  /\ issued = 0
  /\ pc = [p \in Pullers |-> "idle"]
  /\ lease = [p \in Pullers |-> NoLease]
  /\ page = [p \in Pullers |-> NoPage]

\* pullSourceOnce returns, or its process dies: nothing of it remains.
Return(p) ==
  /\ pc' = [pc EXCEPT ![p] = "idle"]
  /\ lease' = [lease EXCEPT ![p] = NoLease]
  /\ page' = [page EXCEPT ![p] = NoPage]
-----------------------------------------------------------------------------
(* configure(): binds the vault to its connector, or rotates the secret of *)
(* the binding it has.  A vault that already holds data needs a migration. *)
Configure ==
  /\ bound \/ Rows(watermarks) = {}
  /\ bound' = TRUE
  /\ ready' = FALSE /\ leaseToken' = 0 /\ leaseUntil' = 0
  /\ UNCHANGED <<now, records, watermarks, outbox, nextId, log, stream,
                 streamId, cursor, lastComplete, issued, pullers>>

(* pauseSourceReads(): closes reads, whatever the lease.                   *)
Pause ==
  /\ bound
  /\ ready' = FALSE
  /\ UNCHANGED <<vaultVars, log, stream, streamId, cursor, lastComplete,
                 leaseToken, leaseUntil, issued, pullers>>

\* Whether the last snapshot stays readable while the next page is fetched.
KeepsSnapshot == ready /\ leaseToken = 0

(* claim(): takes an expired or free lease.  A lease that nobody returned  *)
(* closes reads; otherwise the last snapshot stays readable meanwhile.     *)
Claim(p) ==
  /\ pc[p] = "idle"
  /\ bound
  /\ leaseUntil <= now
  /\ issued < MaxClaims
  /\ issued' = issued + 1
  /\ ready' = KeepsSnapshot
  /\ leaseToken' = issued'
  /\ leaseUntil' = now + Lease
  /\ lease' = [lease EXCEPT ![p] = [token |-> issued', cursor |-> cursor]]
  /\ pc' = [pc EXCEPT ![p] = "asking"]
  /\ UNCHANGED <<vaultVars, log, stream, streamId, cursor, lastComplete, page>>

(* The connector answers the cursor it was asked for, at any later time:   *)
(* some changes of its stream after the cursor, complete when it has none  *)
(* left.  A connector that restarted its stream names the new one.         *)
Answer(p) ==
  /\ pc[p] = "asking"
  /\ \E next \in lease[p].cursor .. Len(log[stream]) :
       /\ next - lease[p].cursor <= PageRecords
       /\ page' = [page EXCEPT ![p] =
            [stream |-> stream, from |-> lease[p].cursor, next |-> next,
             made |-> now, complete |-> next = Len(log[stream])]]
  /\ pc' = [pc EXCEPT ![p] = "answered"]
  /\ UNCHANGED <<vaultVars, log, stream, syncRow, issued, lease>>

(* No answer, or one that is not signed for this request, is no page: the  *)
(* transport and verification errors of pullSourceOnce.                    *)
Unanswered(p) ==
  /\ pc[p] = "asking"
  /\ pc' = [pc EXCEPT ![p] = "failing"]
  /\ UNCHANGED <<vaultVars, log, stream, syncRow, issued, lease, page>>

\* The changes a page carries.
Carried(p) == SubSeq(log[page[p].stream], page[p].from + 1, page[p].next)

(* What apply() demands of a page, of the lease it came with and of the    *)
(* row it finds; every other case is an error.                             *)
WellFormed(p) ==
  /\ now - page[p].made <= Lease
  /\ page[p].complete \/ page[p].next # page[p].from
  /\ \A i, j \in DOMAIN Carried(p) :
       Carried(p)[i].ref = Carried(p)[j].ref => i = j

HoldsAnyLease(p) == leaseUntil > now /\ streamId \in {0, page[p].stream}
HoldsAnyStream(p) ==
  leaseToken = lease[p].token /\ leaseUntil > now /\ cursor = page[p].from
HoldsSameCursor(p) == HoldsAnyLease(p) /\ cursor = page[p].from
Holds(p) ==
  /\ leaseToken = lease[p].token
  /\ leaseUntil > now
  /\ cursor = page[p].from
  /\ streamId \in {0, page[p].stream}

CanApply(p) == WellFormed(p) /\ Holds(p) /\ Acceptable(Carried(p))

\* Whether the page ends a pass, which is what opens reads.
EveryPageEndsPass(p) == TRUE
EndsPass(p) == page[p].complete

(* apply(): the records of the page, the cursor and the return of the      *)
(* lease are one transaction.                                              *)
Apply(p) ==
  /\ pc[p] = "answered"
  /\ CanApply(p)
  /\ PutPage(Carried(p))
  /\ streamId' = page[p].stream
  /\ cursor' = page[p].next
  /\ ready' = EndsPass(p)
  /\ lastComplete' = IF EndsPass(p) THEN now ELSE lastComplete
  /\ leaseToken' = 0 /\ leaseUntil' = 0
  /\ Return(p)
  /\ UNCHANGED <<now, bound, log, stream, issued>>

(* apply() throws: the transaction is rolled back.                         *)
Reject(p) ==
  /\ pc[p] = "answered"
  /\ ~CanApply(p)
  /\ pc' = [pc EXCEPT ![p] = "failing"]
  /\ page' = [page EXCEPT ![p] = NoPage]
  /\ UNCHANGED <<vaultVars, log, stream, syncRow, issued, lease>>

(* failed(): closes reads and returns the lease, if it is still this one.  *)
Failed(p) ==
  /\ pc[p] = "failing"
  /\ IF leaseToken = lease[p].token
     THEN ready' = FALSE /\ leaseToken' = 0 /\ leaseUntil' = 0
     ELSE UNCHANGED <<ready, leaseToken, leaseUntil>>
  /\ Return(p)
  /\ UNCHANGED <<vaultVars, log, stream, streamId, cursor, lastComplete, issued>>

(* The process of a puller dies: its lease stays in the row.               *)
Crash(p) ==
  /\ pc[p] # "idle"
  /\ Return(p)
  /\ UNCHANGED <<vaultVars, log, stream, syncRow, issued>>

(* requireSourceFresh(): whether a reader is served at all.                *)
ReadableWhenReady == ~bound \/ ready
Readable ==
  \/ ~bound
  \/ /\ ready
     /\ now - lastComplete <= Fresh
     /\ leaseToken # 0 => leaseUntil > now
-----------------------------------------------------------------------------
(* The shop changes a record, or its connector is reinstalled and starts   *)
(* another stream from nothing.                                            *)
ShopChange ==
  /\ Len(log[stream]) < MaxLog
  /\ \E c \in Incoming :
       /\ c.at = now
       /\ log' = [log EXCEPT ![stream] = Append(@, c)]
  /\ UNCHANGED <<vaultVars, stream, syncRow, issued, pullers>>

NewStream ==
  /\ stream < MaxStream
  /\ stream' = stream + 1
  /\ UNCHANGED <<vaultVars, log, syncRow, issued, pullers>>

\* The actions of the vault that go on beside the pulls.
Ingest == (\E c \in Incoming : Put(c)) /\ UNCHANGED <<log, stream, syncRow, issued, pullers>>
Relayed ==
  /\ \E s \in SUBSET Signals : Acknowledge({t.id : t \in s})
  /\ UNCHANGED <<log, stream, syncRow, issued, pullers>>
Passing == Tick /\ UNCHANGED <<log, stream, syncRow, issued, pullers>>

PullStep(p) ==
  \/ Claim(p) \/ Answer(p) \/ Unanswered(p)
  \/ Apply(p) \/ Reject(p) \/ Failed(p) \/ Crash(p)

SyncNext ==
  \/ \E p \in Pullers : PullStep(p)
  \/ Configure \/ Pause
  \/ ShopChange \/ NewStream
  \/ Ingest \/ Relayed \/ Passing

SyncSpec == SyncInit /\ [][SyncNext]_vars
-----------------------------------------------------------------------------
SyncTypeOK ==
  /\ VaultTypeOK
  /\ log \in [1 .. MaxStream -> Seq(Change)]
  /\ stream \in 1 .. MaxStream
  /\ streamId \in 0 .. MaxStream
  /\ cursor \in Nat
  /\ ready \in BOOLEAN
  /\ lastComplete \in Nat /\ leaseToken \in Nat /\ leaseUntil \in Nat
  /\ issued \in Nat
  /\ pc \in [Pullers -> {"idle", "asking", "answered", "failing"}]
  /\ lease \in [Pullers -> [token : Nat, cursor : Nat]]
  /\ page \in [Pullers -> [stream : 0 .. MaxStream, from : Nat, next : Nat,
                            complete : BOOLEAN, made : Nat]]

\* The places of its stream that the vault says it has, and the last of them
\* that changes a reference.
Consumed == 1 .. cursor
Consume(i) == log[streamId][i]
IsLast(r, i) ==
  /\ i \in Consumed /\ Consume(i).ref = r
  /\ \A j \in Consumed : Consume(j).ref = r => j <= i

(* The cursor and the rows move together: a bound vault holds, for every   *)
(* reference, exactly the last change of the consumed part of the stream,  *)
(* until its retention ends.  No page is lost, skipped, half applied or    *)
(* applied out of order, whatever pullers die, expire or race              *)
(* (local-source-sync.mjs:87-123).                                         *)
VaultMatchesCursor ==
  bound => \A r \in Refs :
    \/ /\ \A i \in Consumed : Consume(i).ref # r
       /\ watermarks[r] = None /\ records[r] = None
    \/ \E i \in Consumed :
         /\ IsLast(r, i)
         /\ watermarks[r] = MarkOf(Consume(i))
         /\ \/ records[r] = Consume(i)
            \/ records[r] = None /\ Expired(Consume(i))

(* What the 60 s deadline is worth to a reader: while reads are open, the  *)
(* vault has every change the connector observed longer ago than the       *)
(* deadline and one lease.  Starting a refresh never extends the deadline, *)
(* and a page that was long under way never stands for a fresh one         *)
(* (local-data-store.mjs:191-198, local-source-sync.mjs:67-81, 98).        *)
BoundedStaleness ==
  (bound /\ Readable) =>
    \A i \in DOMAIN log[stream] :
      log[stream][i].at + Fresh + Lease <= now => (streamId = stream /\ i <= cursor)

(* Partial data, source changes, failed pulls and abandoned leases close   *)
(* reads until a pass completes: nothing else opens them again             *)
(* (docs/DEVELOPMENT.md, "Source synchronization").                        *)
ReopenedByCompletePass ==
  [][(bound /\ ~Readable /\ Readable') =>
       \E p \in Pullers : pc[p] = "answered" /\ page[p].complete /\ Apply(p)]_vars

(* A reader never sees half a pass: while reads stay open the vault only   *)
(* moves from one complete snapshot to the next.                           *)
OpenReadsSeeSnapshots ==
  [][(bound /\ Readable /\ Readable' /\ cursor' # cursor) =>
       \E p \in Pullers : page[p].complete /\ cursor' = page[p].next]_vars

(* The claim that came last wins: a puller that was late to apply its page *)
(* changes nothing once another has claimed the lease.                     *)
LastClaimWins ==
  [][\A p \in Pullers :
       (pc[p] = "answered" /\ cursor' # cursor /\ pc'[p] = "idle")
         => lease[p].token = issued]_vars
=============================================================================
