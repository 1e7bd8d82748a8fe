----------------------------- MODULE SerialStore -----------------------------
(***************************************************************************)
(* What Transaction promises: every transaction takes effect at one        *)
(* instant, at which everything it has read is what the store holds.       *)
(***************************************************************************)
CONSTANTS Txn, Key, Row, NoRow, NotRead

VARIABLES
    store,    \* the committed rows
    read,     \* what each open transaction has read from the store
    staged    \* what it will write: rows, NoRow for a delete, NotRead for none

svars == <<store, read, staged>>

Content == Row \cup {NoRow}
Nothing == [k \in Key |-> NotRead]

Init ==
    /\ store \in [Key -> Content]
    /\ read = [t \in Txn |-> Nothing]
    /\ staged = [t \in Txn |-> Nothing]

Write(t, k, v) ==
    /\ staged' = [staged EXCEPT ![t][k] = v]
    /\ UNCHANGED <<store, read>>

\* What has been read reads the same again.
Read(t, k) ==
    /\ read[t][k] \in {NotRead, store[k]}
    /\ read' = [read EXCEPT ![t][k] = store[k]]
    /\ UNCHANGED <<store, staged>>

\* The reads are valid and the writes become visible in the same instant.
Commit(t) ==
    /\ \A k \in Key : read[t][k] \in {NotRead, store[k]}
    /\ store' = [k \in Key |-> IF staged[t][k] = NotRead THEN store[k] ELSE staged[t][k]]
    /\ read' = [read EXCEPT ![t] = Nothing]
    /\ staged' = [staged EXCEPT ![t] = Nothing]

Abort(t) ==
    /\ read' = [read EXCEPT ![t] = Nothing]
    /\ staged' = [staged EXCEPT ![t] = Nothing]
    /\ UNCHANGED store

Next ==
    \/ \E t \in Txn, k \in Key, v \in Content : Write(t, k, v)
    \/ \E t \in Txn, k \in Key : Read(t, k)
    \/ \E t \in Txn : Commit(t) \/ Abort(t)

Spec == Init /\ [][Next]_svars
=============================================================================
