----------------------------- MODULE LockService -----------------------------
(***************************************************************************)
(* What a key-level lock manager promises its transactions, without        *)
(* queues, wait-for graph, events or time-outs: a transaction has locks,   *)
(* at most one request that is pending, and gives everything up at once.   *)
(***************************************************************************)
CONSTANTS Txn, Key

VARIABLES
    locks,     \* the mode each transaction holds on each key, "none" if none
    pending    \* the requests that have not been answered

svars == <<locks, pending>>

Mode == {"S", "X"}
Request == [txn: Txn, key: Key, mode: Mode]

Admits(l) ==
    \A k \in Key : \A t, u \in Txn : t # u /\ l[k][t] = "X" => l[k][u] = "none"

Init ==
    /\ locks = [k \in Key |-> [t \in Txn |-> "none"]]
    /\ pending = {}

Idle(t) == \A r \in pending : r.txn # t

\* A request is answered at once ...
Grant(t, k, m) ==
    /\ Idle(t)
    /\ locks' = [locks EXCEPT ![k][t] = m]
    /\ Admits(locks')
    /\ UNCHANGED pending

\* ... or it waits ...
Wait(t, k, m) ==
    /\ Idle(t)
    /\ pending' = pending \cup {[txn |-> t, key |-> k, mode |-> m]}
    /\ UNCHANGED locks

\* ... until it is given up ...
Withdraw(r) ==
    /\ pending' = pending \ {r}
    /\ UNCHANGED locks

\* ... or until a transaction ends: its locks are gone in one step, in which
\* some of the pending requests are granted, and nothing else is.
End(t) ==
    /\ Idle(t)
    /\ \E granted \in SUBSET pending :
         /\ pending' = pending \ granted
         /\ locks' = [k \in Key |-> [u \in Txn |->
              IF u = t THEN "none"
              ELSE IF \E r \in granted : r.txn = u /\ r.key = k
                   THEN (CHOOSE r \in granted : r.txn = u /\ r.key = k).mode
                   ELSE locks[k][u]]]
         /\ Admits(locks')

Next ==
    \/ \E t \in Txn, k \in Key, m \in Mode : Grant(t, k, m) \/ Wait(t, k, m)
    \/ \E r \in pending : Withdraw(r)
    \/ \E t \in Txn : End(t)

Spec == Init /\ [][Next]_svars
=============================================================================
