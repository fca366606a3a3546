---------------------------- MODULE PrivateState ----------------------------
(* The private states the Cloud keeps at the shop                            *)
(* (scripts/private-state-store.mjs), read and written by commands the relay *)
(* fetches (scripts/server-data-relay.mjs:130-183).  Processes of the Cloud  *)
(* read a key, derive a new state and write it, naming the revision it       *)
(* replaces; an answer may be lost, and the write is then repeated.  A write *)
(* stands for the revision and the value it carries.                         *)
EXTENDS Naturals, FiniteSets

CONSTANTS
  Writes,    \* the states written, each with a revision of its own
  Keys,
  None,      \* no state, no write
  KeepState, \* a state is kept for this long (90 days)
  Patience,  \* the Cloud repeats a write for this long
  Capacity   \* states kept at most (10,000)

ASSUME PrivateStateAssumption ==
  /\ KeepState \in Nat /\ Patience \in Nat /\ Patience <= KeepState
  /\ Capacity \in Nat
  /\ None \notin Writes \union [key : Keys, base : Writes \union {None}, age : Nat]
  /\ None \notin Keys \X (Writes \union {None})

VARIABLES
  row,    \* the state stored under each key
  age,    \* how long ago it was stored
  order,  \* of each write: its key, the revision it expects, and its age
  seen,   \* revisions the Cloud has read under each key
  wrote   \* the writes that were stored

privateVars == <<row, age, order, seen, wrote>>

PrivateInit ==
  /\ row = [k \in Keys |-> None]
  /\ age = [k \in Keys |-> 0]
  /\ order = [w \in Writes |-> None]
  /\ seen = [k \in Keys |-> {}]
  /\ wrote = {}

Least(m, n) == IF m < n THEN m ELSE n

(* get: an expired row is as good as none.                                   *)
Current(k) == IF age[k] <= KeepState THEN row[k] ELSE None

(* The answer reaches the Cloud, or is lost.                                 *)
Answered(k, state) ==
  \E lost \in BOOLEAN : seen' = IF lost THEN seen ELSE [seen EXCEPT ![k] = @ \union {state}]

ReadState(k) == Answered(k, Current(k)) /\ UNCHANGED <<row, age, order, wrote>>

(* The Cloud derives a new state from one it has read, any time ago.         *)
Derive(w, k, base) ==
  /\ order[w] = None /\ base \in seen[k]
  /\ order' = [order EXCEPT ![w] = [key |-> k, base |-> base, age |-> 0]]
  /\ UNCHANGED <<row, age, seen, wrote>>

(* A write command arrives, for the first time or once more.                 *)
Arrives(w) == order[w] # None /\ order[w].age <= Patience

Repeated(w) == Current(order[w].key) = w
UnlessNone(w) == Current(order[w].key) \notin {None, order[w].base}
Conflicts(w) == Current(order[w].key) # order[w].base
Full(w) == Current(order[w].key) = None /\ Cardinality({k \in Keys : Current(k) # None}) >= Capacity

(* Expired rows are deleted with what the write does.                        *)
Cleaned == [k \in Keys |-> Current(k)]

RepeatWrite(w) ==
  /\ Arrives(w) /\ Repeated(w)
  /\ row' = Cleaned
  /\ Answered(order[w].key, w)
  /\ UNCHANGED <<age, order, wrote>>

StoreWrite(w) ==
  /\ Arrives(w) /\ ~Repeated(w) /\ ~Conflicts(w) /\ ~Full(w)
  /\ row' = [Cleaned EXCEPT ![order[w].key] = w]
  /\ age' = [age EXCEPT ![order[w].key] = 0]
  /\ wrote' = wrote \union {w}
  /\ Answered(order[w].key, w)
  /\ UNCHANGED order

(* The transaction is rolled back; the Cloud learns only that it failed.     *)
RefuseWrite(w) ==
  /\ Arrives(w) /\ ~Repeated(w) /\ (Conflicts(w) \/ Full(w))
  /\ UNCHANGED privateVars

Passes ==
  /\ age' = [k \in Keys |-> Least(age[k] + 1, KeepState + 1)]
  /\ order' = [w \in Writes |-> IF order[w] = None THEN None
                                ELSE [order[w] EXCEPT !.age = Least(@ + 1, Patience + 1)]]
  /\ UNCHANGED <<row, seen, wrote>>

PrivateNext ==
  \/ \E k \in Keys : ReadState(k)
  \/ \E w \in Writes, k \in Keys : \E base \in seen[k] : Derive(w, k, base)
  \/ \E w \in Writes : RepeatWrite(w) \/ StoreWrite(w) \/ RefuseWrite(w)
  \/ Passes

PrivateSpec == PrivateInit /\ [][PrivateNext]_privateVars
-----------------------------------------------------------------------------
Once == INSTANCE OnceRegister WITH
  asked <- [w \in Writes |-> IF order[w] = None THEN None ELSE <<order[w].key, order[w].base>>],
  value <- [k \in Keys |-> Current(k)],
  done <- wrote

(* private-state-store.mjs:37-49: whatever answers are lost, writes repeated *)
(* and states expired, each write takes effect at most once, and only on the *)
(* state it was derived from: no update of another process is lost.          *)
WritesOnce == Once!OnceSpec
=============================================================================
