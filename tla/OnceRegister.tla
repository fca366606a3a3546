---------------------------- MODULE OnceRegister ----------------------------
(* What the store of private states promises the Cloud: under each key a     *)
(* register that a write takes over at most once, and only from the state it *)
(* was derived from, and that is forgotten after a long time.                *)
CONSTANTS
  Writes,  \* the states written, each with a revision of its own
  Keys,
  None     \* no state, no write

VARIABLES
  asked,  \* what each write asks for: its key and the state it replaces
  value,  \* the state under each key
  done    \* writes that took effect

onceVars == <<asked, value, done>>

OnceInit ==
  /\ asked = [w \in Writes |-> None]
  /\ value = [k \in Keys |-> None]
  /\ done = {}

Ask(w) ==
  /\ asked[w] = None
  /\ \E k \in Keys, b \in Writes \union {None} : asked' = [asked EXCEPT ![w] = <<k, b>>]
  /\ UNCHANGED <<value, done>>

Write(w) ==
  /\ asked[w] # None /\ w \notin done
  /\ value[asked[w][1]] = asked[w][2]
  /\ value' = [value EXCEPT ![asked[w][1]] = w]
  /\ done' = done \union {w}
  /\ UNCHANGED asked

Forget ==
  /\ value' \in {f \in [Keys -> Writes \union {None}] : \A k \in Keys : f[k] \in {value[k], None}}
  /\ UNCHANGED <<asked, done>>

OnceNext == (\E w \in Writes : Ask(w) \/ Write(w)) \/ Forget

OnceSpec == OnceInit /\ [][OnceNext]_onceVars
=============================================================================
