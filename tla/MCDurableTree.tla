---------------------------- MODULE MCDurableTree ----------------------------
(* Instances of DurableTree for TLC. *)
EXTENDS DurableTree, TLC

Symmetry == Permutations(Txn)
=============================================================================
