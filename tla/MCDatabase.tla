------------------------------ MODULE MCDatabase ------------------------------
(* Instances of Database for TLC. *)
EXTENDS Database, TLC

\* The tables have the same columns, and the indexes are on the same column.
Symmetry == {pt @@ pi : pt \in Permutations(Table), pi \in Permutations(Index)}

\* INT takes negative numbers, of which the engines make no key.
Values1 == {-1, 1, 2}
=============================================================================
