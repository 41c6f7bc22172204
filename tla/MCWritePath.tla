---------------------------- MODULE MCWritePath ----------------------------
(***************************************************************************)
(* Small instances of the mounted write path: one file, of no writes yet,  *)
(* at every path of Existing.                                              *)
(***************************************************************************)
EXTENDS WritePath

CONSTANTS Existing

Symmetry == Permutations(Threads) \cup Permutations(Handles)

MCInitTree == [p \in Paths |-> IF p \in Existing THEN <<{}>> ELSE <<>>]
=============================================================================
