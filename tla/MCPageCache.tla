----------------------------- MODULE MCPageCache -----------------------------
(* Instances of PageCache for TLC. *)
EXTENDS PageCache, TLC

Symmetry == Permutations(Val)
=============================================================================
