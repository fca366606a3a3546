--------------------------- MODULE MCOutboxRelay ----------------------------
(* Callers and references are interchangeable.                             *)
EXTENDS OutboxRelay, TLC

Symmetric == Permutations(Callers) \union Permutations(Refs)
=============================================================================
