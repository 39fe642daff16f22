--------------------------- MODULE MCDuckDbSession ---------------------------
(* DuckDbSession for TLC: key tuples, and schemas, are only ever compared. *)
EXTENDS DuckDbSession, TLC

Symmetry == Permutations(Keys) \union Permutations(Schemas)
=============================================================================
