---------------------------- MODULE MCLockManager ----------------------------
(* Instances of LockManager for TLC. *)
EXTENDS LockManager, TLC

Symmetry == Permutations(Txn) \cup Permutations(Key)
=============================================================================
