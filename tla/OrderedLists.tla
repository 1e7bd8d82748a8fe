----------------------------- MODULE OrderedLists -----------------------------
(***************************************************************************)
(* The lists that the catalog, the indexes and the executor build: a scan  *)
(* in the order of the keys, and a comprehension with a condition.         *)
(***************************************************************************)
EXTENDS Integers, FiniteSets, Sequences, SequencesExt

\* The members of a finite set of numbers, in their order.
Ascending(S) ==
    [n \in 1..Cardinality(S) |-> CHOOSE x \in S : Cardinality({y \in S : y < x}) = n - 1]

\* [x for x in s if x in S]
Only(s, S) ==
    LET at == Ascending({n \in DOMAIN s : s[n] \in S})
    IN  [n \in DOMAIN at |-> s[at[n]]]
=============================================================================
