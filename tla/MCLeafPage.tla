------------------------------ MODULE MCLeafPage ------------------------------
(* Instances of LeafPage for TLC. *)
EXTENDS LeafPage

\* INT takes negative numbers, of which a leaf makes no key.
SomeKeys == -1..4
=============================================================================
