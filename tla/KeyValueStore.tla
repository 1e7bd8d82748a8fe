---------------------------- MODULE KeyValueStore ----------------------------
(* What a B+Tree promises: a map from keys to rows. *)
CONSTANTS Key, Row, NoRow

VARIABLE store

Init == store = [k \in Key |-> NoRow]

Put(k, v) == store' = [store EXCEPT ![k] = v]
Delete(k) == store' = [store EXCEPT ![k] = NoRow]

Next == \E k \in Key : Delete(k) \/ \E v \in Row : Put(k, v)

Spec == Init /\ [][Next]_store
=============================================================================
