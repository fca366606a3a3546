---------------------------- MODULE MCSourceSync ----------------------------
(* Model values of the connector pull.                                     *)
EXTENDS SourceSync, TLC

Row(r, v) == [ref |-> r, rev |-> v, op |-> "upsert", at |-> 0]

\* A new vault, or one that already holds a row the connector never sent.
MCLegacy ==
  NewVault \union
  {[r \in Refs |-> IF r = old THEN Row(r, 1) ELSE None] : old \in Refs}

Symmetry == Permutations(Pullers) \union Permutations(Refs)
=============================================================================
