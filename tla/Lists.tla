-------------------------------- MODULE Lists --------------------------------
(***************************************************************************)
(* Lists of anything, and what is picked from them.                        *)
(***************************************************************************)
EXTENDS Integers, Sequences, FiniteSets, Functions

Listed(list) == list \in Seq(Range(list))

\* The elements of a list at the given indices, in order.
Picked(list, indices) ==
  [n \in 1 .. Cardinality(indices) |->
     list[CHOOSE k \in indices : Cardinality({j \in indices : j <= k}) = n]]
=============================================================================
