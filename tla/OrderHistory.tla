---------------------------- MODULE OrderHistory ----------------------------
(***************************************************************************)
(* The weekly copy of the accounts' order histories:                       *)
(* scripts/local-order-history.mjs over the connector's paged index        *)
(* (scripts/customer-history-index.mjs) and account reads                  *)
(* (scripts/customer-history-reader.mjs), and the completion report the    *)
(* heartbeat sends.                                                        *)
(*                                                                         *)
(* A pass reads one account per lease.  Every await may end late, fail or  *)
(* never end, and the source may be rebound meanwhile (a new secret or     *)
(* installation).  A source that is not readable, a foreign or malformed   *)
(* answer and a full table are all one Fail.  The shop is external: its    *)
(* index changes at any time, and an answer lists at least the accounts    *)
(* that have orders all along.                                             *)
(***************************************************************************)
EXTENDS Integers, FiniteSets, FiniteSetsExt

CONSTANTS
  Total,      \* accounts; the index orders them
  Page,       \* accounts in a page of the index (8)
  Bindings,   \* source configurations and installations
  NoBinding,  \* none
  Workers,    \* loops, of one process or of several
  Idle,       \* a worker between two turns
  Lease,      \* life of a lease (60 s)
  Pause,      \* from one account to the next (1 s)
  RetryDelay, \* after a failure (30 s)
  Interval,   \* from a complete pass to the next (7 days)
  Retention,  \* life of a stored history (30 days)
  MaxClaims,  \* bound: turns
  MaxClock    \* bound: last instant of the clock

ASSUME HistoryAssumption ==
  /\ Total \in Nat /\ Page \in Nat \ {0}
  /\ {Lease, Pause, RetryDelay, Interval, Retention, MaxClaims, MaxClock} \subseteq Nat
  /\ Interval > Pause /\ Interval > RetryDelay
  /\ NoBinding \notin Bindings

Accounts == 1 .. Total
NotYet == -1
NoLease == 0
NoState == [cycle |-> 0, after |-> 0, ceiling |-> NotYet, pending |-> {}, last |-> FALSE]

VARIABLES
  clock,
  row,       \* table order_history_sync
  accounts,  \* table order_history_accounts
  bound,     \* the source and installation the vault is bound to
  turns,     \* what each worker holds between its awaits
  claims,    \* leases given: the lease tokens, and the cycles they begin
  began,     \* when the pass began
  steady     \* the shop: accounts with orders throughout the pass

pass == <<began, steady>>
historyVars == <<clock, row, accounts, bound, turns, claims, pass>>

\* "by", the binding it was read under, is not in the table.
NoAccount == [cycle |-> 0, read |-> NotYet, by |-> NoBinding]

\* The row as claim() inserts it.
NewRow(b) == [binding |-> b, state |-> NoState, due |-> 0, complete |-> NotYet,
              lease |-> NoLease, until |-> 0, error |-> FALSE]

HistoryInit ==
  /\ clock = 0
  /\ bound \in Bindings
  /\ row = NewRow(bound)
  /\ accounts = [a \in Accounts |-> NoAccount]
  /\ turns = [w \in Workers |-> Idle]
  /\ claims = 0
  /\ began = 0 /\ steady = {}
-----------------------------------------------------------------------------
\* Opening the history, which every turn and every heartbeat does.
Purged(as) == [a \in Accounts |-> IF as[a].read < clock - Retention THEN NoAccount ELSE as[a]]
Heartbeat == /\ accounts' = Purged(accounts)
             /\ UNCHANGED <<clock, row, bound, turns, claims, pass>>

(* claim(): a row of another binding is dropped with all it had read.      *)
Current == IF row.binding = bound
           THEN [row |-> row, accounts |-> Purged(accounts)]
           ELSE [row |-> NewRow(bound), accounts |-> [a \in Accounts |-> NoAccount]]

Begun(state) == IF state = NoState THEN [NoState EXCEPT !.cycle = claims + 1] ELSE state

Claim(w) ==
  /\ claims < MaxClaims
  /\ turns[w] = Idle
  /\ row.until <= clock
  /\ \E c \in {Current} :
       /\ c.row.due <= clock
       /\ \E state \in {Begun(c.row.state)} :
            /\ row' = [c.row EXCEPT !.state = state, !.lease = claims + 1, !.until = clock + Lease]
            /\ turns' = [turns EXCEPT ![w] =
                 [lease |-> claims + 1, binding |-> bound, state |-> state]]
       /\ accounts' = c.accounts
       /\ IF c.row.state = NoState THEN began' = clock /\ steady' \in SUBSET Accounts
                                   ELSE UNCHANGED pass
  /\ claims' = claims + 1
  /\ UNCHANGED <<clock, bound>>

(* The connector: the next accounts of its index up to the ceiling, which  *)
(* the first page fixes.  A page that is not the last is full.             *)
CeilingIn(index, state) ==
  IF state.ceiling = NotYet THEN Max(index \union {0}) ELSE state.ceiling
NextIn(index, after, ceiling) ==
  LET ahead == {a \in index : after < a /\ a <= ceiling}
  IN  {a \in ahead : Cardinality({b \in ahead : b <= a}) <= Page}
ReadIndex(w) ==
  /\ turns[w] # Idle
  /\ turns[w].state.pending = {} /\ ~turns[w].state.last
  /\ bound = turns[w].binding
  /\ \E index \in SUBSET Accounts, state \in {turns[w].state}, last \in BOOLEAN :
     \E ceiling \in {CeilingIn(index, state)} :
     \E page \in {NextIn(index, state.after, ceiling)} :
       /\ steady \subseteq index
       /\ IF last THEN \A a \in index \ page : a <= state.after \/ a > ceiling
                  ELSE Cardinality(page) = Page
       /\ turns' = [turns EXCEPT ![w].state =
            [state EXCEPT !.ceiling = ceiling, !.pending = page, !.last = last]]
  /\ UNCHANGED <<clock, row, accounts, bound, claims, pass>>

(* finish(): payload and cursor together, if the lease still is the row's. *)
AnyLease(t) == row.binding = t.binding
Holds(t) == row.lease = t.lease /\ row.until > clock /\ row.binding = t.binding

Saved(state, complete) ==
  [row EXCEPT !.state = IF complete THEN NoState ELSE state,
              !.due = clock + IF complete THEN Interval ELSE Pause,
              !.complete = IF complete THEN clock ELSE @,
              !.lease = NoLease, !.until = 0, !.error = FALSE]
OnlyCycle(as, cycle, complete) ==
  [a \in Accounts |-> IF complete /\ as[a].cycle # cycle THEN NoAccount ELSE as[a]]

\* The last page was empty.
FinishEmpty(w) ==
  /\ turns[w] # Idle
  /\ turns[w].state.pending = {} /\ turns[w].state.last
  /\ bound = turns[w].binding /\ Holds(turns[w])
  /\ row' = Saved(turns[w].state, TRUE)
  /\ accounts' = OnlyCycle(accounts, turns[w].state.cycle, TRUE)
  /\ turns' = [turns EXCEPT ![w] = Idle]
  /\ UNCHANGED <<clock, bound, claims, pass>>

\* The history of the first pending account arrives.
IsLast(state) == state.last /\ state.pending = {}
Advanced(state, a) == [state EXCEPT !.after = a, !.pending = @ \ {a}]
ReadHistory(w) ==
  /\ turns[w] # Idle
  /\ turns[w].state.pending # {}
  /\ bound = turns[w].binding /\ Holds(turns[w])
  /\ \E a \in {Min(turns[w].state.pending)} :
     \E state \in {Advanced(turns[w].state, a)} :
       /\ row' = Saved(state, IsLast(state))
       /\ accounts' = OnlyCycle(
            [accounts EXCEPT ![a] =
              [cycle |-> state.cycle, read |-> clock, by |-> turns[w].binding]],
            state.cycle, IsLast(state))
  /\ turns' = [turns EXCEPT ![w] = Idle]
  /\ UNCHANGED <<clock, bound, claims, pass>>

\* failed(): whatever went wrong after the claim.
Fail(w) ==
  /\ turns[w] # Idle
  /\ row' = IF row.lease = turns[w].lease
            THEN [row EXCEPT !.lease = NoLease, !.until = 0, !.due = clock + RetryDelay, !.error = TRUE]
            ELSE row
  /\ turns' = [turns EXCEPT ![w] = Idle]
  /\ UNCHANGED <<clock, accounts, bound, claims, pass>>

\* The worker dies, or its answer never comes.
Die(w) == /\ turns[w] # Idle
          /\ turns' = [turns EXCEPT ![w] = Idle]
          /\ UNCHANGED <<clock, row, accounts, bound, claims, pass>>

Rebind == /\ \E b \in Bindings \ {bound} : bound' = b
          /\ UNCHANGED <<clock, row, accounts, turns, claims, pass>>

TimePasses == /\ clock < MaxClock
              /\ clock' = clock + 1
              /\ UNCHANGED <<row, accounts, bound, turns, claims, pass>>

HistoryNext ==
  \/ \E w \in Workers : \/ Claim(w) \/ ReadIndex(w) \/ FinishEmpty(w) \/ ReadHistory(w)
                        \/ Fail(w) \/ Die(w)
  \/ Heartbeat \/ Rebind \/ TimePasses

HistorySpec == HistoryInit /\ [][HistoryNext]_historyVars
-----------------------------------------------------------------------------
States == [cycle : 0 .. MaxClaims, after : 0 .. Total, ceiling : 0 .. Total \union {NotYet},
           pending : SUBSET Accounts, last : BOOLEAN]
Leases == 0 .. MaxClaims
Instants == 0 .. MaxClock + Lease + Pause + RetryDelay + Interval

(* Types; and the cursor of a saved pass is short of what it still has to  *)
(* read: an account is never read twice in one pass                        *)
(* (local-order-history.mjs:72-76).                                        *)
HistoryTypeOK ==
  /\ clock \in 0 .. MaxClock /\ bound \in Bindings /\ claims \in 0 .. MaxClaims
  /\ row \in [binding : Bindings, state : States, due : Instants, complete : Instants \union {NotYet},
              lease : Leases, until : Instants, error : BOOLEAN]
  /\ accounts \in [Accounts -> [cycle : Leases, read : 0 .. MaxClock, by : Bindings] \union {NoAccount}]
  /\ \A w \in Workers : turns[w] \in
       {Idle} \union [lease : Leases, binding : Bindings, state : States]
  /\ began \in 0 .. MaxClock /\ steady \subseteq Accounts
  /\ \A a \in row.state.pending : row.state.after < a /\ a <= row.state.ceiling

\* completionReport(): what the heartbeat reports as a complete pass.
Reported ==
  /\ row.binding = bound /\ ~row.error /\ row.lease = NoLease
  /\ row.complete # NotYet /\ clock - row.complete < Interval
  /\ row.due = row.complete + Interval
  /\ row.state = NoState

(* "Report only a committed whole pass for the current source/installation" *)
(* (local-order-history.mjs:88): when a pass is reported, every account that *)
(* had orders all along since it began is stored, whatever turns failed,     *)
(* expired or answered late (but for a pass of over a month, whose first     *)
(* histories are gone); and none stored was read under another binding, also *)
(* when the source was rebound in the middle of the pass.                    *)
ReportIsWhole ==
  Reported => /\ clock - began <= Retention => \A a \in steady : accounts[a] # NoAccount
              /\ \A a \in Accounts : accounts[a] # NoAccount => accounts[a].by = bound
=============================================================================
