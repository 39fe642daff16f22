-------------------------- MODULE MCParquetDataset --------------------------
(* ParquetDataset for TLC: sessions, and schemas, are each other's equals. *)
EXTENDS ParquetDataset, TLC

Symmetry == Permutations(Writers) \union Permutations(Schemas)
=============================================================================
