--------------------------- MODULE LockManagerProofs ---------------------------
(***************************************************************************)
(* Theorems about LockManager for any set of slots and keys: types,        *)
(* compatible locks, and where a request is while its thread waits: in one *)
(* queue, or granted and about to be signalled.                            *)
(***************************************************************************)
EXTENDS LockManager, FiniteSetTheorems, SequenceTheorems, TLAPS

(* The set of granted positions is finite, so that its cardinality, which  *)
(* release_all uses to cut the queue, is a natural number.                 *)
LEMMA GrantableFinite ==
    ASSUME NEW h, NEW q \in Seq(Request)
    PROVE  /\ Grantable(h, q) \subseteq 1..Len(q)
           /\ IsFiniteSet(Grantable(h, q))
           /\ Cardinality(Grantable(h, q)) \in 0..Len(q)
<1>1. Grantable(h, q) \subseteq 1..Len(q)
  BY DEF Grantable
<1>2. IsFiniteSet(1..Len(q)) /\ Cardinality(1..Len(q)) = Len(q)
  <2>1. Len(q) \in Nat
    OBVIOUS
  <2> QED
    BY <2>1, FS_Interval, SMTT(20)
<1>3. IsFiniteSet(Grantable(h, q)) /\ Cardinality(Grantable(h, q)) <= Len(q)
  BY <1>1, <1>2, FS_Subset
<1>4. Cardinality(Grantable(h, q)) \in Nat
  BY <1>3, FS_CardinalityType
<1> QED
  BY <1>1, <1>3, <1>4

\* Granting requests keeps the type of the holders.
LEMMA AfterGrantsType ==
    ASSUME NEW h \in [Txn -> Mode \cup {"none"}], NEW q, NEW n
    PROVE  AfterGrants(h, q, n) \in [Txn -> Mode \cup {"none"}]
BY DEF AfterGrants, Mode

\* Dropping the lock of a transaction keeps it too.
LEMMA DroppedType ==
    ASSUME TypeOK, NEW t \in Txn, NEW k \in Key
    PROVE  Dropped(t, k) \in [Txn -> Mode \cup {"none"}]
BY DEF Dropped, TypeOK, Mode

-----------------------------------------------------------------------------
\* The types are right at first.
LEMMA InitType == Init => TypeOK
BY DEF Init, TypeOK, PC, Mode

\* Every step keeps the types.
LEMMA StepType == TypeOK /\ [Next]_vars => TypeOK'
<1> SUFFICES ASSUME TypeOK, [Next]_vars
             PROVE  TypeOK'
  OBVIOUS
<1>1. ASSUME NEW t \in Txn, Begin(t)
      PROVE  TypeOK'
  BY <1>1 DEF Begin, TypeOK, PC
<1>2. ASSUME NEW t \in Txn, NEW k \in Key, NEW m \in Mode, Acquire(t, k, m)
      PROVE  TypeOK'
  <2>1. CASE AcquireHeld(t, k, m)
    BY <2>1 DEF AcquireHeld, Asks, TypeOK
  <2>2. CASE AcquireFree(t, k, m)
    BY <2>2 DEF AcquireFree, Asks, TypeOK
  <2>3. CASE AcquireWait(t, k, m)
    <3>1. OtherHolders(t, k) \subseteq Txn
      BY DEF OtherHolders
    <3>2. [txn |-> t, mode |-> m] \in Request
      BY DEF Request
    <3>3. waiters' \in [Key -> Seq(Request)]
      BY <2>3, <3>2 DEF AcquireWait, TypeOK
    <3> QED
      BY <2>3, <3>1, <3>3 DEF AcquireWait, Asks, EdgesFor, TypeOK, PC
  <2>4. CASE AcquireRefused(t, k, m)
    BY <2>4 DEF AcquireRefused, Asks, TypeOK, PC
  <2> QED
    BY <1>2, <2>1, <2>2, <2>3, <2>4 DEF Acquire
<1>3. ASSUME NEW t \in Txn, Expire(t)
      PROVE  TypeOK'
  BY <1>3 DEF Expire, TypeOK, PC
<1>4. ASSUME NEW t \in Txn, CleanUp(t)
      PROVE  TypeOK'
  <2>1. waiters' \in [Key -> Seq(Request)]
    <3>1. CASE waiters' = waiters
      BY <3>1 DEF TypeOK
    <3>2. ASSUME NEW k \in Key, NEW i \in 1..Len(waiters[k]),
                 waiters' = [waiters EXCEPT ![k] =
                     SubSeq(@, 1, i - 1) \o SubSeq(@, i + 1, Len(@))]
          PROVE  waiters' \in [Key -> Seq(Request)]
      <4>1. waiters[k] \in Seq(Request)
        BY DEF TypeOK
      <4>2. SubSeq(waiters[k], 1, i - 1) \in Seq(Request)
        BY <4>1
      <4>3. SubSeq(waiters[k], i + 1, Len(waiters[k])) \in Seq(Request)
        BY <4>1
      <4>4. SubSeq(waiters[k], 1, i - 1) \o SubSeq(waiters[k], i + 1, Len(waiters[k]))
                \in Seq(Request)
        BY <4>2, <4>3
      <4> QED
        BY <3>2, <4>4 DEF TypeOK
    <3> QED
      BY <1>4, <3>1, <3>2 DEF CleanUp
  <2> QED
    BY <1>4, <2>1 DEF CleanUp, TypeOK, PC
<1>5. ASSUME NEW t \in Txn, ReleaseAll(t)
      PROVE  TypeOK'
  <2>1. holders' \in [Key -> [Txn -> Mode \cup {"none"}]]
    <3>1. ASSUME NEW k \in Key
          PROVE  AfterGrants(Dropped(t, k), waiters[k], Cardinality(Advanced(t, k)))
                     \in [Txn -> Mode \cup {"none"}]
      BY DroppedType, AfterGrantsType
    <3> QED
      BY <1>5, <3>1 DEF ReleaseAll, TypeOK
  <2>2. waiters' \in [Key -> Seq(Request)]
    <3>1. ASSUME NEW k \in Key
          PROVE  SubSeq(waiters[k], Cardinality(Advanced(t, k)) + 1, Len(waiters[k]))
                     \in Seq(Request)
      <4>1. waiters[k] \in Seq(Request)
        BY DEF TypeOK
      <4>2. Cardinality(Advanced(t, k)) \in 0..Len(waiters[k])
        BY <4>1, GrantableFinite DEF Advanced
      <4> QED
        BY <4>1, <4>2
    <3> QED
      BY <1>5, <3>1 DEF ReleaseAll, TypeOK
  <2>3. Woken(t) \subseteq Txn
    BY DEF Woken
  <2> QED
    BY <1>5, <2>1, <2>2, <2>3 DEF ReleaseAll, TypeOK, PC
<1>6. ASSUME NEW t \in Txn, NEW u \in Txn, SetEvent(t, u)
      PROVE  TypeOK'
  BY <1>6 DEF SetEvent, TypeOK, PC
<1>7. CASE UNCHANGED vars
  BY <1>7 DEF vars, TypeOK
<1> QED
  BY <1>1, <1>2, <1>3, <1>4, <1>5, <1>6, <1>7 DEF Next, NextUntimed

\* Every variable keeps its type: in particular release_all always cuts a queue
\* at a position it has (lock_manager.py:210-219).
THEOREM TypeCorrect == Spec => []TypeOK
<1>1. Init => TypeOK
  BY InitType
<1>2. TypeOK /\ [Next]_vars => TypeOK'
  BY StepType
<1> QED
  BY <1>1, <1>2, PTL DEF Spec

-----------------------------------------------------------------------------
\* _advance_waiters grants a prefix of the queue: as many requests as can be
\* granted, from the head and without a gap.
LEMMA GrantablePrefix ==
    ASSUME NEW h, NEW q \in Seq(Request)
    PROVE  Grantable(h, q) = 1..Cardinality(Grantable(h, q))
<1> DEFINE G == Grantable(h, q)
           n == Cardinality(G)
<1>1. G \subseteq 1..Len(q) /\ IsFiniteSet(G) /\ n \in Nat
  BY GrantableFinite
<1>2. \A i \in G : 1..i \subseteq G
  BY DEF Grantable
<1>3. ASSUME NEW i \in G
      PROVE  i <= n
  <2>1. i \in Nat /\ i >= 1 /\ 1..i \subseteq G
    BY <1>1, <1>2, <1>3
  <2>2. Cardinality(1..i) = i
    BY <2>1, FS_Interval
  <2> HIDE DEF G
  <2> QED
    BY <2>1, <2>2, <1>1, FS_Subset
<1>4. G \subseteq 1..n
  BY <1>1, <1>3
<1>5. IsFiniteSet(1..n) /\ Cardinality(1..n) = n
  BY <1>1, FS_Interval
<1> HIDE DEF G
<1>6. G = 1..n
  BY <1>4, <1>5, FS_Subset
<1> QED
  BY <1>6 DEF G

\* Granting a prefix of the queue, each request compatible with the holders and
\* the grants before it, keeps a compatible holder table compatible.
LEMMA GrantsCompatible ==
    ASSUME NEW h \in [Txn -> Mode \cup {"none"}], NEW q \in Seq(Request),
           \A t, u \in Txn : t # u /\ h[t] = "X" => h[u] = "none",
           NEW t \in Txn, NEW u \in Txn, t # u,
           AfterGrants(h, q, Cardinality(Grantable(h, q)))[t] = "X"
    PROVE  AfterGrants(h, q, Cardinality(Grantable(h, q)))[u] = "none"
<1> DEFINE n == Cardinality(Grantable(h, q))
           A(i) == AfterGrants(h, q, i)
<1>1. n \in 0..Len(q) /\ Grantable(h, q) = 1..n
  BY GrantableFinite, GrantablePrefix
<1>2. \A i \in 1..n : q[i] \in Request /\ i - 1 \in Nat
  BY <1>1
<1>3. \A i \in 1..n : \A v \in Txn \ {q[i].txn} :
        A(i - 1)[v] = "none" \/ (A(i - 1)[v] = "S" /\ q[i].mode = "S")
  BY <1>1 DEF Grantable, CanGrant
<1> DEFINE R(v, m) == [txn |-> v, mode |-> m]
<1>4. \A i \in 0..n : \A v \in Txn :
        A(i)[v] = IF \E j \in 1..i : q[j] = R(v, "X") THEN "X"
                  ELSE IF \E j \in 1..i : q[j] = R(v, "S") THEN "S"
                  ELSE h[v]
  BY DEF AfterGrants
<1>r. \A m, p : R(t, m).txn = t /\ R(u, p).txn = u /\ R(t, m) # R(u, p)
  OBVIOUS
<1>s. \A m : R(t, m).mode = m /\ R(u, m).mode = m
  OBVIOUS
<1> HIDE DEF A, n, R
<1>5. n \in Nat /\ A(n)[t] = "X"
  BY <1>1 DEF A, n
<1>6. ASSUME A(n)[u] # "none"
      PROVE  FALSE
  <2>1. CASE \E i \in 1..n : q[i] = R(t, "X")
    <3>1. PICK i \in 1..n : q[i] = R(t, "X")
      BY <2>1
    <3>2. A(i - 1)[u] = "none"
      BY <3>1, <1>3, <1>r, <1>s
    <3>3. h[u] = "none" /\ ~\E j \in 1..(i - 1) : q[j] = R(u, "X") \/ q[j] = R(u, "S")
      <4>1. i - 1 \in 0..n
        BY <1>5
      <4> QED
        BY <4>1, <3>2, <1>4
    <3>4. PICK j \in 1..n : q[j] = R(u, "X") \/ q[j] = R(u, "S")
      BY <1>4, <1>5, <1>6, <3>3
    <3>5. j # i
      BY <3>1, <3>4, <1>r
    <3>6. i \in 1..(j - 1)
      BY <3>3, <3>4, <3>5, <1>5
    <3>7. j - 1 \in 0..n
      BY <1>5
    <3>8. A(j - 1)[t] = "X"
      BY <3>1, <3>6, <3>7, <1>4
    <3> QED
      BY <3>4, <3>8, <1>3, <1>r
  <2>2. CASE ~\E i \in 1..n : q[i] = R(t, "X")
    <3>1. h[t] = "X" /\ ~\E i \in 1..n : q[i] = R(t, "S")
      BY <2>2, <1>4, <1>5
    <3>2. h[u] = "none"
      BY <3>1
    <3>3. PICK j \in 1..n : q[j] = R(u, "X") \/ q[j] = R(u, "S")
      BY <1>4, <1>5, <1>6, <3>2
    <3>4. A(j - 1)[t] = "X"
      <4>1. j - 1 \in 0..n /\ 1..(j - 1) \subseteq 1..n
        BY <1>5
      <4> QED
        BY <4>1, <3>1, <2>2, <1>4
    <3> QED
      BY <3>3, <3>4, <1>3, <1>r
  <2> QED
    BY <2>1, <2>2
<1> QED
  BY <1>6 DEF A, n

\* Every step keeps the locks compatible.
LEMMA StepCompatible == TypeOK /\ Compatible /\ [Next]_vars => Compatible'
<1> SUFFICES ASSUME TypeOK, Compatible, [Next]_vars
             PROVE  Compatible'
  OBVIOUS
<1>1. CASE holders' = holders
  BY <1>1 DEF Compatible
<1>2. ASSUME NEW t \in Txn, NEW k \in Key, NEW m \in Mode, AcquireFree(t, k, m)
      PROVE  Compatible'
  <2> SUFFICES ASSUME NEW l \in Key, NEW v \in Txn, NEW u \in Txn,
                      v # u, holders'[l][v] = "X"
               PROVE  holders'[l][u] = "none"
    BY DEF Compatible
  <2>1. CASE l # k
    BY <1>2, <2>1 DEF AcquireFree, Compatible, TypeOK
  <2>2. CASE l = k /\ v = t
    BY <1>2, <2>2 DEF AcquireFree, CanGrant, TypeOK
  <2>3. CASE l = k /\ v # t
    BY <1>2, <2>3 DEF AcquireFree, CanGrant, TypeOK
  <2> QED
    BY <2>1, <2>2, <2>3
<1>3. ASSUME NEW t \in Txn, ReleaseAll(t)
      PROVE  Compatible'
  <2> SUFFICES ASSUME NEW k \in Key, NEW v \in Txn, NEW u \in Txn,
                      v # u, holders'[k][v] = "X"
               PROVE  holders'[k][u] = "none"
    BY DEF Compatible
  <2>1. CASE k \notin txnKeys[t]
    BY <1>3, <2>1 DEF ReleaseAll, Compatible, TypeOK
  <2>2. CASE k \in txnKeys[t]
    <3>1. holders'[k] =
            AfterGrants(Dropped(t, k), waiters[k], Cardinality(Grantable(Dropped(t, k), waiters[k])))
      BY <1>3, <2>2 DEF ReleaseAll, Advanced
    <3>2. Dropped(t, k) \in [Txn -> Mode \cup {"none"}] /\ waiters[k] \in Seq(Request)
      BY DroppedType DEF TypeOK
    <3>3. \A x, y \in Txn : x # y /\ Dropped(t, k)[x] = "X" => Dropped(t, k)[y] = "none"
      BY DEF Dropped, Compatible, TypeOK
    <3> QED
      BY <3>1, <3>2, <3>3, GrantsCompatible
  <2> QED
    BY <2>1, <2>2
<1>4. \/ holders' = holders
      \/ \E t \in Txn, k \in Key, m \in Mode : AcquireFree(t, k, m)
      \/ \E t \in Txn : ReleaseAll(t)
  BY ZenonT(30) DEF Next, NextUntimed, vars, Begin, Acquire, AcquireHeld, AcquireWait,
         AcquireRefused, SetEvent, Expire, CleanUp
<1> QED
  BY <1>1, <1>2, <1>3, <1>4

\* No two transactions ever hold incompatible locks on a key, however grants,
\* upgrades, queue advances and time-outs interleave (lock_manager.py:13-17).
THEOREM LockCompatibility == Spec => []Compatible
<1>1. Init => Compatible
  BY DEF Init, Compatible
<1>2. TypeOK /\ Compatible /\ [Next]_vars => Compatible'
  BY StepCompatible
<1> QED
  BY <1>1, <1>2, TypeCorrect, PTL DEF Spec

-----------------------------------------------------------------------------
(* Requests, queues and signals.                                            *)

Positions(k) == 1..Len(waiters[k])

\* A slot has at most one request in all the queues together.
OneRequest ==
    \A k, l \in Key : \A i \in Positions(k), j \in Positions(l) :
        waiters[k][i].txn = waiters[l][j].txn => k = l /\ i = j

\* Who has a request in a queue is in acquire for that key, and an S request is
\* queued only by a slot that has no lock on the key.
QueuedWait ==
    \A k \in Key : \A i \in Positions(k) :
        LET r == waiters[k][i]
        IN  /\ pc[r.txn] \in {"blocked", "expired"}
            /\ k \in txnKeys[r.txn]
            /\ r.mode = "S" => holders[k][r.txn] = "none"

\* Whom a finished transaction has yet to signal is in acquire, is in no queue
\* any more and expects no other signal.
SignalsDue ==
    \A t \in Txn : \A u \in toSignal[t] :
        /\ pc[t] = "idle" /\ pc[u] \in {"blocked", "expired"}
        /\ \A k \in Key : ~Queued(u, k)
        /\ \A s \in Txn : u \in toSignal[s] => s = t

BlockedServed ==
    \A t \in Txn : pc[t] = "blocked" =>
        (\E k \in Key : Queued(t, k)) \/ (\E u \in Txn : t \in toSignal[u])

HoldsListed == \A t \in Txn, k \in Key : holders[k][t] # "none" => k \in txnKeys[t]

IdleClean == \A t \in Txn : pc[t] = "idle" => txnKeys[t] = {} /\ waitFor[t] = {}

QueueInv ==
    /\ TypeOK /\ Compatible
    /\ OneRequest /\ QueuedWait /\ SignalsDue /\ BlockedServed
    /\ HoldsListed /\ IdleClean

\* An edge of _wait_for to a transaction that has not ended is a conflict that
\* is still there.
EdgesConflict ==
    \A t \in Txn : \A u \in waitFor[t] : pc[u] # "idle" => u \in HoldersAgainst(t)
-----------------------------------------------------------------------------
(* What the two operations that shorten queues make of them. *)

LEMMA SuffixOf ==
    ASSUME NEW S, NEW s \in Seq(S), NEW n \in 0..Len(s)
    PROVE  LET r == SubSeq(s, n + 1, Len(s))
           IN  /\ r \in Seq(S) /\ Len(r) = Len(s) - n
               /\ \A i \in 1..Len(r) : i + n \in 1..Len(s) /\ r[i] = s[i + n]
<1> DEFINE r == SubSeq(s, n + 1, Len(s))
<1>1. Len(s) \in Nat /\ n \in Nat /\ n <= Len(s)
  OBVIOUS
<1>2. r \in Seq(S) /\ Len(r) = Len(s) - n
  BY <1>1
<1>3. \A i \in 1..(Len(s) - n) : r[i] = s[i + n]
  BY <1>1
<1> HIDE DEF r
<1>4. \A i \in 1..Len(r) : i + n \in 1..Len(s)
  BY <1>1, <1>2
<1> QED
  BY <1>2, <1>3, <1>4 DEF r

\* A sequence without the element at one position.
LEMMA WithoutPosition ==
    ASSUME NEW S, NEW s \in Seq(S), NEW p \in 1..Len(s)
    PROVE  LET r == SubSeq(s, 1, p - 1) \o SubSeq(s, p + 1, Len(s))
           IN  /\ r \in Seq(S) /\ Len(r) = Len(s) - 1
               /\ \A i \in 1..Len(r) :
                    LET old == IF i < p THEN i ELSE i + 1
                    IN  old \in 1..Len(s) /\ r[i] = s[old]
<1> DEFINE a == SubSeq(s, 1, p - 1)
           b == SubSeq(s, p + 1, Len(s))
           r == a \o b
<1>1. Len(s) \in Nat /\ p \in Nat /\ 1 <= p /\ p <= Len(s)
  OBVIOUS
<1>2. a \in Seq(S) /\ Len(a) = p - 1 /\ \A i \in 1..(p - 1) : a[i] = s[i]
  BY <1>1
<1>3. b \in Seq(S) /\ Len(b) = Len(s) - p /\ \A i \in 1..(Len(s) - p) : b[i] = s[i + p]
  BY <1>1, SuffixOf
<1> HIDE DEF a, b
<1>4. r \in Seq(S) /\ Len(r) = Len(s) - 1
  <2>1. r \in Seq(S) /\ Len(r) = Len(a) + Len(b)
    BY <1>2, <1>3, ConcatProperties
  <2> HIDE DEF r
  <2>2. Len(a) = p - 1 /\ Len(b) = Len(s) - p
    BY <1>2, <1>3
  <2> QED
    BY <1>1, <2>1, <2>2
<1>5. \A i \in 1..Len(r) : r[i] = IF i <= p - 1 THEN a[i] ELSE b[i - (p - 1)]
  <2>1. \A i \in 1..(Len(a) + Len(b)) : r[i] = IF i <= Len(a) THEN a[i] ELSE b[i - Len(a)]
    BY <1>2, <1>3, ConcatProperties
  <2> HIDE DEF r
  <2>2. Len(a) = p - 1 /\ Len(b) = Len(s) - p /\ Len(r) = Len(s) - 1
    BY <1>2, <1>3, <1>4
  <2>3. Len(r) = Len(a) + Len(b)
    BY <1>1, <2>2
  <2> QED
    BY <2>1, <2>2, <2>3
<1> HIDE DEF r
<1>6. ASSUME NEW i \in 1..Len(r), i < p
      PROVE  i \in 1..Len(s) /\ r[i] = s[i]
  BY <1>1, <1>2, <1>4, <1>5, <1>6
<1>7. ASSUME NEW i \in 1..Len(r), ~(i < p)
      PROVE  i + 1 \in 1..Len(s) /\ r[i] = s[i + 1]
  <2>1. i \in Nat /\ i - (p - 1) \in 1..(Len(s) - p) /\ ~(i <= p - 1)
    BY <1>1, <1>4, <1>7
  <2>2. r[i] = s[(i - (p - 1)) + p]
    BY <2>1, <1>3, <1>5
  <2>3. (i - (p - 1)) + p = i + 1
    BY <2>1, <1>1
  <2> QED
    BY <1>1, <1>4, <2>1, <2>2, <2>3
<1> QED
  BY <1>4, <1>6, <1>7 DEF r, a, b

\* A position of a queue has a request in it.
LEMMA RequestAt ==
    ASSUME TypeOK, NEW k \in Key, NEW i \in Positions(k)
    PROVE  /\ waiters[k][i] \in Request
           /\ waiters[k][i].txn \in Txn /\ waiters[k][i].mode \in Mode
           /\ waiters[k][i] = [txn |-> waiters[k][i].txn, mode |-> waiters[k][i].mode]
           /\ Queued(waiters[k][i].txn, k)
<1>1. waiters[k] \in Seq(Request)
  BY DEF TypeOK
<1>2. waiters[k][i] \in Request
  BY <1>1 DEF Positions
<1> QED
  BY <1>2 DEF Request, Queued, Positions

\* How many requests of the queue of k release_all(t) grants.
Granted(t, k) == IF k \in txnKeys[t] THEN Cardinality(Advanced(t, k)) ELSE 0

\* What a release grants is the front of the queue.
LEMMA GrantedRange ==
    ASSUME TypeOK, NEW t \in Txn, NEW k \in Key
    PROVE  /\ Granted(t, k) \in 0..Len(waiters[k])
           /\ k \in txnKeys[t] => Advanced(t, k) = 1..Granted(t, k)
<1>1. waiters[k] \in Seq(Request)
  BY DEF TypeOK
<1>2. /\ Cardinality(Advanced(t, k)) \in 0..Len(waiters[k])
      /\ Advanced(t, k) = 1..Cardinality(Advanced(t, k))
  BY <1>1, GrantableFinite, GrantablePrefix DEF Advanced
<1> QED
  BY <1>1, <1>2 DEF Granted

\* release_all takes the granted requests off the head of each queue.
LEMMA ReleasedQueue ==
    ASSUME TypeOK, NEW t \in Txn, ReleaseAll(t), NEW k \in Key
    PROVE  /\ Granted(t, k) \in 0..Len(waiters[k])
           /\ Len(waiters'[k]) = Len(waiters[k]) - Granted(t, k)
           /\ \A i \in 1..Len(waiters'[k]) :
                i + Granted(t, k) \in Positions(k) /\ waiters'[k][i] = waiters[k][i + Granted(t, k)]
<1>1. PICK n : n = Granted(t, k)
  OBVIOUS
<1>2. waiters[k] \in Seq(Request) /\ n \in 0..Len(waiters[k])
  BY <1>1, GrantedRange DEF TypeOK
<1>3. PICK q : q = waiters'[k]
  OBVIOUS
<1>4. q = SubSeq(waiters[k], n + 1, Len(waiters[k]))
  <2>1. CASE k \in txnKeys[t]
    BY <1>1, <1>3, <2>1 DEF ReleaseAll, Granted
  <2>2. CASE k \notin txnKeys[t]
    BY <1>1, <1>2, <1>3, <2>2 DEF ReleaseAll, Granted
  <2> QED
    BY <2>1, <2>2
<1>5. Len(q) = Len(waiters[k]) - n /\ \A i \in 1..Len(q) : i + n \in Positions(k) /\ q[i] = waiters[k][i + n]
  BY <1>2, <1>4, SuffixOf DEF Positions
<1> QED
  BY <1>1, <1>2, <1>3, <1>5

\* It gives the lock to whom it took off the queue and to nobody else.
LEMMA ReleasedHolders ==
    ASSUME TypeOK, OneRequest, QueuedWait, HoldsListed,
           NEW t \in Txn, ReleaseAll(t), NEW k \in Key, NEW u \in Txn
    PROVE  /\ u = t => holders'[k][u] = "none"
           /\ \A i \in 1..Granted(t, k) :
                waiters[k][i].txn = u => u # t /\ holders'[k][u] = waiters[k][i].mode
           /\ u # t /\ (\A i \in 1..Granted(t, k) : waiters[k][i].txn # u)
                => holders'[k][u] = holders[k][u]
<1> DEFINE n == Granted(t, k)
           q == waiters[k]
<1>1. q \in Seq(Request) /\ n \in 0..Len(q)
  BY GrantedRange DEF TypeOK
<1>2. \A i \in 1..n : i \in Positions(k)
  BY <1>1 DEF Positions
<1>3. \A i \in 1..n : q[i].txn # t
  BY <1>2 DEF QueuedWait, ReleaseAll
<1>4. CASE k \notin txnKeys[t]
  <2>1. n = 0 /\ holders'[k] = holders[k]
    BY <1>4 DEF ReleaseAll, Granted
  <2>2. holders[k][t] = "none"
    BY <1>4 DEF HoldsListed
  <2> QED
    BY <2>1, <2>2
<1>5. CASE k \in txnKeys[t]
  <2>1. holders'[k] = AfterGrants(Dropped(t, k), q, n)
    BY <1>5 DEF ReleaseAll, Granted
  <2>2. Dropped(t, k) = [holders[k] EXCEPT ![t] = "none"] /\ holders[k] \in [Txn -> Mode \cup {"none"}]
    BY DEF Dropped, TypeOK
  <2>3. holders'[k][u] =
          IF \E i \in 1..n : q[i] = [txn |-> u, mode |-> "X"] THEN "X"
          ELSE IF \E i \in 1..n : q[i] = [txn |-> u, mode |-> "S"] THEN "S"
          ELSE Dropped(t, k)[u]
    BY <2>1 DEF AfterGrants
  <2>4. \A i \in 1..n : q[i] = [txn |-> q[i].txn, mode |-> q[i].mode] /\ q[i].mode \in Mode
    BY <1>2, RequestAt
  <2>5. ASSUME NEW i \in 1..n, q[i].txn = u
        PROVE  holders'[k][u] = q[i].mode
    <3>1. \A j \in 1..n : q[j].txn = u => j = i
      BY <1>2, <2>5 DEF OneRequest
    <3>2. q[i] = [txn |-> u, mode |-> q[i].mode] /\ q[i].mode \in {"S", "X"}
      BY <2>4, <2>5 DEF Mode
    <3>3. \A j \in 1..n, m \in {"S", "X"} : q[j] = [txn |-> u, mode |-> m] => j = i /\ m = q[i].mode
      <4>1. \A m : [txn |-> u, mode |-> m].txn = u /\ [txn |-> u, mode |-> m].mode = m
        OBVIOUS
      <4> QED
        BY <3>1, <4>1
    <3> HIDE DEF n, q
    <3>4. CASE q[i].mode = "X"
      BY <2>3, <3>2, <3>4
    <3>5. CASE q[i].mode = "S"
      <4>1. ~\E j \in 1..n : q[j] = [txn |-> u, mode |-> "X"]
        BY <3>3, <3>5
      <4> QED
        BY <2>3, <3>2, <3>5, <4>1
    <3> QED
      BY <3>2, <3>4, <3>5
  <2>6. ASSUME \A i \in 1..n : q[i].txn # u
        PROVE  holders'[k][u] = Dropped(t, k)[u]
    BY <2>3, <2>4, <2>6
  <2> QED
    BY <1>3, <2>2, <2>5, <2>6
<1> QED
  BY <1>4, <1>5

\* Who is woken was taken off some queue.
LEMMA WokenGranted ==
    ASSUME TypeOK, NEW t \in Txn, NEW u \in Txn
    PROVE  u \in Woken(t) <=> \E k \in Key : \E i \in 1..Granted(t, k) : waiters[k][i].txn = u
<1>1. txnKeys[t] \subseteq Key
  BY DEF TypeOK
<1>2. \A k \in txnKeys[t] : Advanced(t, k) = 1..Granted(t, k)
  BY <1>1, GrantedRange
<1>3. \A k \in Key \ txnKeys[t] : Granted(t, k) = 0
  BY DEF Granted
<1>4. \A i \in 1..0 : FALSE
  OBVIOUS
<1> QED
  BY <1>1, <1>2, <1>3, <1>4 DEF Woken

\* The clean-up of a time-out takes one request off one queue, or nothing.
LEMMA CleanedQueue ==
    ASSUME TypeOK, OneRequest, NEW t \in Txn, CleanUp(t), NEW k \in Key
    PROVE  \/ /\ waiters'[k] = waiters[k]
              /\ ~Queued(t, k)
           \/ \E p \in Positions(k) :
                /\ waiters[k][p].txn = t
                /\ Len(waiters'[k]) = Len(waiters[k]) - 1
                /\ \A i \in 1..Len(waiters'[k]) :
                     LET old == IF i < p THEN i ELSE i + 1
                     IN  old \in Positions(k) /\ waiters'[k][i] = waiters[k][old]
<1>1. waiters[k] \in Seq(Request)
  BY DEF TypeOK
<1>2. CASE waiters' = waiters /\ \A l \in Key : ~Queued(t, l)
  BY <1>2
<1>3. ASSUME NEW l \in Key, NEW p \in Positions(l), waiters[l][p].txn = t,
             waiters' = [waiters EXCEPT ![l] = SubSeq(@, 1, p - 1) \o SubSeq(@, p + 1, Len(@))]
      PROVE  \/ /\ waiters'[k] = waiters[k]
                /\ ~Queued(t, k)
             \/ \E x \in Positions(k) :
                  /\ waiters[k][x].txn = t
                  /\ Len(waiters'[k]) = Len(waiters[k]) - 1
                  /\ \A i \in 1..Len(waiters'[k]) :
                       LET old == IF i < x THEN i ELSE i + 1
                       IN  old \in Positions(k) /\ waiters'[k][i] = waiters[k][old]
  <2>1. CASE l = k
    <3>1. waiters'[k] = SubSeq(waiters[k], 1, p - 1) \o SubSeq(waiters[k], p + 1, Len(waiters[k]))
      BY <1>3, <2>1 DEF TypeOK
    <3>2. p \in 1..Len(waiters[k])
      BY <2>1 DEF Positions
    <3>3. /\ Len(waiters'[k]) = Len(waiters[k]) - 1
          /\ \A i \in 1..Len(waiters'[k]) :
               LET old == IF i < p THEN i ELSE i + 1
               IN  old \in Positions(k) /\ waiters'[k][i] = waiters[k][old]
      <4>1. PICK q \in Seq(Request) : q = waiters[k]
        BY <1>1
      <4>2. PICK r : r = SubSeq(q, 1, p - 1) \o SubSeq(q, p + 1, Len(q))
        OBVIOUS
      <4>3. p \in 1..Len(q)
        BY <3>2, <4>1
      <4>4. /\ Len(r) = Len(q) - 1
            /\ \A i \in 1..Len(r) :
                 LET old == IF i < p THEN i ELSE i + 1
                 IN  old \in 1..Len(q) /\ r[i] = q[old]
        BY <4>2, <4>3, WithoutPosition
      <4>5. waiters'[k] = r
        BY <3>1, <4>1, <4>2
      <4> QED
        BY <4>1, <4>4, <4>5 DEF Positions
    <3> QED
      BY <1>3, <2>1, <3>3
  <2>2. CASE l # k
    <3>1. waiters'[k] = waiters[k]
      BY <1>3, <2>2 DEF TypeOK
    <3>2. ~Queued(t, k)
      BY <1>3, <2>2 DEF OneRequest, Queued, Positions
    <3> QED
      BY <3>1, <3>2
  <2> QED
    BY <2>1, <2>2
<1> QED
  BY <1>2, <1>3 DEF CleanUp, Positions
-----------------------------------------------------------------------------
(* One lemma per action: what it leaves of the invariant. *)

Placed == OneRequest /\ QueuedWait /\ SignalsDue /\ BlockedServed /\ HoldsListed /\ IdleClean

\* To be queued is to have a request at some position.
LEMMA QueuedType ==
    ASSUME NEW t, NEW k
    PROVE  Queued(t, k) <=> \E i \in Positions(k) : waiters[k][i].txn = t
BY DEF Queued, Positions

\* A new transaction has no request and no lock.
LEMMA BeginPlaced ==
    ASSUME QueueInv, NEW t \in Txn, Begin(t)
    PROVE  Placed'
<1> USE DEF QueueInv, Begin
<1>1. waiters' = waiters /\ toSignal' = toSignal /\ holders' = holders /\ txnKeys' = txnKeys
  OBVIOUS
<1>2. \A k : Positions(k)' = Positions(k)
  BY <1>1 DEF Positions
<1>3. \A u \in Txn : u # t => pc'[u] = pc[u] /\ waitFor'[u] \subseteq waitFor[u]
  BY DEF TypeOK
<1>4. pc[t] = "idle" /\ pc'[t] = "running" /\ toSignal[t] = {}
  BY DEF TypeOK
<1>5. OneRequest'
  BY <1>1, <1>2 DEF OneRequest
<1>6. QueuedWait'
  BY <1>1, <1>2, <1>3, <1>4, RequestAt DEF QueuedWait
<1>7. SignalsDue'
  BY <1>1, <1>3, <1>4 DEF SignalsDue, TypeOK, Queued
<1>8. BlockedServed'
  BY <1>1, <1>3, <1>4 DEF BlockedServed, Queued
<1>9. HoldsListed'
  BY <1>1 DEF HoldsListed
<1>10. IdleClean'
  BY <1>1, <1>3, <1>4 DEF IdleClean
<1> QED
  BY <1>5, <1>6, <1>7, <1>8, <1>9, <1>10 DEF Placed

\* acquire keeps requests and locks in their places.
LEMMA AcquirePlaced ==
    ASSUME QueueInv, NEW t \in Txn, NEW k \in Key, NEW m \in Mode, Acquire(t, k, m)
    PROVE  Placed'
<1> USE DEF QueueInv
<1>1. pc[t] = "running" /\ toSignal' = toSignal
  BY DEF Acquire, AcquireHeld, AcquireFree, AcquireWait, AcquireRefused, Asks
<1>2. \A u \in Txn : u # t => pc'[u] = pc[u] /\ waitFor'[u] = waitFor[u] /\ txnKeys'[u] = txnKeys[u]
  BY DEF Acquire, AcquireHeld, AcquireFree, AcquireWait, AcquireRefused, Asks, EdgesFor, TypeOK
<1>3. txnKeys'[t] = txnKeys[t] \cup {k} /\ pc'[t] \in {"running", "blocked", "failed"}
  BY DEF Acquire, AcquireHeld, AcquireFree, AcquireWait, AcquireRefused, Asks, TypeOK
<1>4. \A l \in Key : ~Queued(t, l)
  BY <1>1, QueuedType DEF QueuedWait
<1>5. \A u \in Txn : t \notin toSignal[u]
  BY <1>1 DEF SignalsDue
<1>6. IdleClean'
  BY <1>2, <1>3 DEF IdleClean
<1>7. CASE waiters' = waiters
  <2>1. \A l : Positions(l)' = Positions(l)
    BY <1>7 DEF Positions
  <2>2. pc'[t] \in {"running", "failed"}
    <3>1. ~AcquireWait(t, k, m)
      <4>1. ASSUME waiters' = [waiters EXCEPT ![k] = Append(@, [txn |-> t, mode |-> m])]
            PROVE  FALSE
        <5>1. Len(waiters'[k]) = Len(waiters[k]) + 1 /\ Len(waiters[k]) \in Nat
          BY <4>1 DEF TypeOK
        <5> QED
          BY <5>1, <1>7
      <4> QED
        BY <4>1 DEF AcquireWait
    <3> QED
      BY <3>1 DEF Acquire, AcquireHeld, AcquireFree, AcquireRefused, Asks, TypeOK
  <2>h. holders' = holders \/ holders' = [holders EXCEPT ![k][t] = m]
    BY DEF Acquire, AcquireHeld, AcquireFree, AcquireWait, AcquireRefused
  <2>3. ASSUME NEW u \in Txn, NEW l \in Key, u # t
        PROVE  holders'[l][u] = holders[l][u]
    <3>1. CASE holders' = [holders EXCEPT ![k][t] = m] /\ l = k
      BY <2>3, <3>1 DEF TypeOK
    <3>2. CASE holders' = [holders EXCEPT ![k][t] = m] /\ l # k
      BY <2>3, <3>2 DEF TypeOK
    <3> QED
      BY <2>h, <3>1, <3>2
  <2>4. \A l \in Key : holders'[l][t] # holders[l][t] => l = k
    BY <2>h DEF TypeOK
  <2>5. OneRequest'
    BY <1>7, <2>1 DEF OneRequest
  <2>6. QueuedWait'
    <3> SUFFICES ASSUME NEW l \in Key, NEW i \in Positions(l)
                 PROVE  LET r == waiters[l][i]
                        IN  /\ pc'[r.txn] \in {"blocked", "expired"}
                            /\ l \in txnKeys'[r.txn]
                            /\ r.mode = "S" => holders'[l][r.txn] = "none"
      BY <1>7, <2>1 DEF QueuedWait
    <3>1. waiters[l][i].txn \in Txn /\ waiters[l][i].txn # t
      BY <1>4, QueuedType, RequestAt
    <3> QED
      BY <3>1, <1>2, <2>3 DEF QueuedWait
  <2>7. SignalsDue'
    BY <1>1, <1>2, <1>5, <1>7 DEF SignalsDue, TypeOK, Queued
  <2>8. BlockedServed'
    BY <1>1, <1>2, <1>7, <2>2 DEF BlockedServed, Queued
  <2>9. HoldsListed'
    BY <1>2, <1>3, <2>3, <2>4 DEF HoldsListed
  <2> QED
    BY <1>6, <2>5, <2>6, <2>7, <2>8, <2>9 DEF Placed
<1>8. CASE AcquireWait(t, k, m)
  <2> DEFINE new == [txn |-> t, mode |-> m]
  <2>1. /\ holders' = holders /\ pc'[t] = "blocked"
        /\ \A l \in Key : l # k => waiters'[l] = waiters[l]
    BY <1>8 DEF AcquireWait, TypeOK
  <2>2. /\ Len(waiters[k]) \in Nat /\ Len(waiters'[k]) = Len(waiters[k]) + 1
        /\ waiters'[k][Len(waiters[k]) + 1] = new
        /\ \A i \in Positions(k) : waiters'[k][i] = waiters[k][i]
    <3>1. waiters[k] \in Seq(Request) /\ waiters'[k] = Append(waiters[k], new)
      BY <1>8 DEF AcquireWait, TypeOK
    <3>2. new \in Request
      BY DEF Request
    <3> HIDE DEF new
    <3> QED
      BY <3>1, <3>2 DEF Positions
  <2>3. \A l \in Key : \A i \in Positions(l)' :
          \/ i \in Positions(l) /\ waiters'[l][i] = waiters[l][i] /\ waiters[l][i].txn \in Txn \ {t}
          \/ l = k /\ i = Len(waiters[k]) + 1 /\ waiters'[l][i] = new
    <3>1. \A l \in Key : \A i \in Positions(l) : waiters[l][i].txn \in Txn \ {t}
      BY <1>4, QueuedType, RequestAt
    <3> HIDE DEF new
    <3> QED
      BY <3>1, <2>1, <2>2 DEF Positions
  <2>4. \A l \in Key, u \in Txn \ {t} : Queued(u, l)' <=> Queued(u, l)
    <3>1. \A l \in Key : Positions(l) \subseteq Positions(l)'
      BY <2>1, <2>2 DEF Positions
    <3>2. new.txn = t
      OBVIOUS
    <3>3. \A l \in Key : \A u : Queued(u, l)' <=> \E i \in Positions(l)' : waiters'[l][i].txn = u
      BY DEF Queued, Positions
    <3> HIDE DEF new
    <3> QED
      BY <2>1, <2>2, <2>3, <3>1, <3>2, <3>3, QueuedType
  <2>5. new.txn = t /\ new.mode = m
    OBVIOUS
  <2>6. m = "S" => holders[k][t] = "none"
    BY <1>8 DEF AcquireWait, AlreadyHolds, TypeOK, Mode
  <2> HIDE DEF new
  <2>7. OneRequest'
    BY <2>2, <2>3, <2>5, SMTT(20) DEF OneRequest
  <2>8. QueuedWait'
    BY <1>2, <1>3, <2>1, <2>3, <2>5, <2>6 DEF QueuedWait
  <2>9. SignalsDue'
    <3> SUFFICES ASSUME NEW s \in Txn, NEW u \in toSignal[s]
                 PROVE  /\ pc'[s] = "idle" /\ pc'[u] \in {"blocked", "expired"}
                        /\ \A l \in Key : ~Queued(u, l)'
                        /\ \A v \in Txn : u \in toSignal[v] => v = s
      BY <1>1 DEF SignalsDue
    <3>1. u # t /\ u \in Txn /\ s # t
      BY <1>1, <1>5 DEF TypeOK, SignalsDue
    <3> QED
      BY <3>1, <1>2, <2>4 DEF SignalsDue
  <2>10. BlockedServed'
    <3>1. Queued(t, k)'
      BY <2>2, <2>5 DEF Queued
    <3> QED
      BY <1>1, <1>2, <2>4, <3>1 DEF BlockedServed
  <2>11. HoldsListed'
    BY <1>2, <1>3, <2>1 DEF HoldsListed
  <2> QED
    BY <1>6, <2>7, <2>8, <2>9, <2>10, <2>11 DEF Placed
<1> QED
  BY <1>7, <1>8 DEF Acquire, AcquireHeld, AcquireFree, AcquireRefused
\* So does a wait that ends by time-out,
LEMMA ExpirePlaced ==
    ASSUME QueueInv, NEW t \in Txn, Expire(t)
    PROVE  Placed'
<1> USE DEF QueueInv, Expire
<1>1. \A k : Positions(k)' = Positions(k)
  BY DEF Positions
<1>2. pc[t] = "blocked" /\ pc'[t] = "expired" /\ \A u \in Txn : u # t => pc'[u] = pc[u]
  BY DEF TypeOK
<1>3. OneRequest'
  BY <1>1 DEF OneRequest
<1>4. QueuedWait'
  BY <1>1, <1>2, RequestAt DEF QueuedWait
<1>5. SignalsDue'
  BY <1>2 DEF SignalsDue, TypeOK, Queued
<1>6. BlockedServed'
  BY <1>2 DEF BlockedServed, Queued
<1>7. HoldsListed' /\ IdleClean'
  BY <1>2 DEF HoldsListed, IdleClean
<1> QED
  BY <1>3, <1>4, <1>5, <1>6, <1>7 DEF Placed

\* and one whose event is set;
LEMMA SetEventPlaced ==
    ASSUME QueueInv, NEW t \in Txn, NEW u \in Txn, SetEvent(t, u)
    PROVE  Placed'
<1> USE DEF QueueInv, SetEvent
<1>1. \A k : Positions(k)' = Positions(k)
  BY DEF Positions
<1>2. /\ u \in toSignal[t] /\ pc[t] = "idle" /\ pc[u] \in {"blocked", "expired"}
      /\ \A k \in Key : ~Queued(u, k)
  BY DEF SignalsDue
<1>3. /\ pc'[u] \in {"running", "expired"}
      /\ \A v \in Txn : v # u => pc'[v] = pc[v]
  BY <1>2 DEF TypeOK
<1>4. /\ \A s \in Txn : toSignal'[s] = IF s = t THEN toSignal[s] \ {u} ELSE toSignal[s]
      /\ \A s \in Txn : u \notin toSignal'[s]
  <2>1. \A s \in Txn : toSignal'[s] = IF s = t THEN toSignal[s] \ {u} ELSE toSignal[s]
    BY DEF TypeOK
  <2> QED
    BY <1>2, <2>1 DEF SignalsDue
<1>5. OneRequest'
  BY <1>1 DEF OneRequest
<1>6. QueuedWait'
  <2> SUFFICES ASSUME NEW k \in Key, NEW i \in Positions(k)
               PROVE  pc'[waiters[k][i].txn] \in {"blocked", "expired"}
    BY <1>1 DEF QueuedWait
  <2>1. waiters[k][i].txn # u /\ waiters[k][i].txn \in Txn
    BY <1>2, RequestAt
  <2> QED
    BY <1>3, <2>1 DEF QueuedWait
<1>7. SignalsDue'
  BY <1>2, <1>3, <1>4 DEF SignalsDue, TypeOK, Queued
<1>8. BlockedServed'
  BY <1>3, <1>4 DEF BlockedServed, Queued
<1>9. HoldsListed' /\ IdleClean'
  BY <1>3 DEF HoldsListed, IdleClean
<1> QED
  BY <1>5, <1>6, <1>7, <1>8, <1>9 DEF Placed

\* The request that has left, or never was in a queue, is the slot's only one.
LEMMA CleanedNowhere ==
    ASSUME QueueInv, NEW t \in Txn, CleanUp(t)
    PROVE  /\ \A k \in Key : ~Queued(t, k)'
           /\ \A k \in Key : \A i \in Positions(k)' :
                \E j \in Positions(k) : waiters'[k][i] = waiters[k][j] /\ waiters[k][j].txn # t
           /\ \A k \in Key : \A i, j \in Positions(k)' :
                waiters'[k][i].txn = waiters'[k][j].txn => i = j
           /\ \A k \in Key : \A u \in Txn \ {t} : Queued(u, k)' <=> Queued(u, k)
<1> SUFFICES ASSUME NEW k \in Key
             PROVE  /\ ~Queued(t, k)'
                    /\ \A i \in Positions(k)' :
                         \E j \in Positions(k) : waiters'[k][i] = waiters[k][j] /\ waiters[k][j].txn # t
                    /\ \A i, j \in Positions(k)' :
                         waiters'[k][i].txn = waiters'[k][j].txn => i = j
                    /\ \A u \in Txn \ {t} : Queued(u, k)' <=> Queued(u, k)
  OBVIOUS
<1>1. Len(waiters[k]) \in Nat
  BY DEF QueueInv, TypeOK
<1>2. CASE waiters'[k] = waiters[k] /\ ~Queued(t, k)
  BY <1>2 DEF Queued, Positions, QueueInv, OneRequest
<1>3. ASSUME NEW p \in Positions(k),
             waiters[k][p].txn = t,
             Len(waiters'[k]) = Len(waiters[k]) - 1,
             \A i \in 1..Len(waiters'[k]) :
                 LET old == IF i < p THEN i ELSE i + 1
                 IN  old \in Positions(k) /\ waiters'[k][i] = waiters[k][old]
      PROVE  /\ ~Queued(t, k)'
             /\ \A i \in Positions(k)' :
                  \E j \in Positions(k) : waiters'[k][i] = waiters[k][j] /\ waiters[k][j].txn # t
             /\ \A i, j \in Positions(k)' :
                  waiters'[k][i].txn = waiters'[k][j].txn => i = j
             /\ \A u \in Txn \ {t} : Queued(u, k)' <=> Queued(u, k)
  <2>1. \A j \in Positions(k) : waiters[k][j].txn = t => j = p
    BY <1>3 DEF QueueInv, OneRequest
  <2>2. ASSUME NEW i \in Positions(k)'
        PROVE  \E j \in Positions(k) :
                 waiters'[k][i] = waiters[k][j] /\ waiters[k][j].txn # t
    <3>1. i \in 1..Len(waiters'[k]) /\ i \in Nat /\ p \in Nat
      BY <1>1, <1>3, <2>2 DEF Positions
    <3>2. (IF i < p THEN i ELSE i + 1) # p
      BY <3>1
    <3> QED
      BY <1>3, <2>1, <3>1, <3>2
  <2>3. \A j \in Positions(k) \ {p} : \E i \in Positions(k)' : waiters'[k][i] = waiters[k][j]
    <3> SUFFICES ASSUME NEW j \in Positions(k) \ {p}
                 PROVE  \E i \in Positions(k)' : waiters'[k][i] = waiters[k][j]
      OBVIOUS
    <3>1. p \in 1..Len(waiters[k]) /\ j \in 1..Len(waiters[k]) /\ j # p
      BY DEF Positions
    <3>2. CASE j < p
      <4>1. j \in 1..Len(waiters'[k])
        BY <1>1, <1>3, <3>1, <3>2
      <4> QED
        BY <1>3, <3>2, <4>1 DEF Positions
    <3>3. CASE j > p
      <4>1. j - 1 \in 1..Len(waiters'[k]) /\ ~(j - 1 < p) /\ (j - 1) + 1 = j
        BY <1>1, <1>3, <3>1, <3>3
      <4> QED
        BY <1>3, <4>1 DEF Positions
    <3> QED
      BY <3>1, <3>2, <3>3
  <2>4. \A u : Queued(u, k)' <=> \E i \in Positions(k)' : waiters'[k][i].txn = u
    BY DEF Queued, Positions
  <2>5. \A u : Queued(u, k) <=> \E i \in Positions(k) : waiters[k][i].txn = u
    BY DEF Queued, Positions
  <2>6. ~Queued(t, k)'
    BY <2>2, <2>4
  <2>7. ASSUME NEW u \in Txn \ {t}, Queued(u, k)
        PROVE  Queued(u, k)'
    <3>1. PICK j \in Positions(k) : waiters[k][j].txn = u
      BY <2>5, <2>7
    <3> QED
      BY <1>3, <2>3, <2>4, <3>1
  <2>8. ASSUME NEW u \in Txn \ {t}, Queued(u, k)'
        PROVE  Queued(u, k)
    BY <2>2, <2>4, <2>5, <2>8
  <2>9. ASSUME NEW i \in Positions(k)', NEW j \in Positions(k)',
               waiters'[k][i].txn = waiters'[k][j].txn
        PROVE  i = j
    <3>1. i \in 1..Len(waiters'[k]) /\ j \in 1..Len(waiters'[k]) /\ p \in Nat
      BY <1>1, <1>3, <2>9 DEF Positions
    <3> DEFINE a == IF i < p THEN i ELSE i + 1
               b == IF j < p THEN j ELSE j + 1
    <3>2. /\ a \in Positions(k) /\ waiters'[k][i] = waiters[k][a]
          /\ b \in Positions(k) /\ waiters'[k][j] = waiters[k][b]
      BY <1>3, <3>1
    <3> HIDE DEF a, b
    <3>3. a = b
      BY <2>9, <3>2 DEF QueueInv, OneRequest
    <3> QED
      BY <3>1, <3>3 DEF a, b
  <2> QED
    BY <2>2, <2>6, <2>7, <2>8, <2>9
<1> QED
  BY <1>2, <1>3, CleanedQueue DEF QueueInv

\* so does the clean-up after a time-out,
LEMMA CleanUpPlaced ==
    ASSUME QueueInv, NEW t \in Txn, CleanUp(t)
    PROVE  Placed'
<1> USE DEF QueueInv
<1>1. /\ pc[t] = "expired" /\ pc'[t] = "failed" /\ holders' = holders /\ txnKeys' = txnKeys
      /\ \A u \in Txn : u # t => pc'[u] = pc[u] /\ waitFor'[u] = waitFor[u]
      /\ \A u \in Txn : toSignal'[u] = toSignal[u] \ {t}
  BY DEF CleanUp, TypeOK
<1>2. OneRequest'
  BY CleanedNowhere DEF OneRequest
<1>3. QueuedWait'
  <2> SUFFICES ASSUME NEW k \in Key, NEW i \in Positions(k)'
               PROVE  LET r == waiters'[k][i]
                      IN  /\ pc'[r.txn] \in {"blocked", "expired"}
                          /\ k \in txnKeys'[r.txn]
                          /\ r.mode = "S" => holders'[k][r.txn] = "none"
    BY DEF QueuedWait
  <2>1. PICK j \in Positions(k) : waiters'[k][i] = waiters[k][j] /\ waiters[k][j].txn # t
    BY CleanedNowhere
  <2>2. waiters[k][j].txn \in Txn \ {t}
    BY <2>1, RequestAt
  <2> QED
    BY <1>1, <2>1, <2>2 DEF QueuedWait
<1>4. SignalsDue'
  <2> SUFFICES ASSUME NEW s \in Txn, NEW u \in toSignal'[s]
               PROVE  /\ pc'[s] = "idle" /\ pc'[u] \in {"blocked", "expired"}
                      /\ \A k \in Key : ~Queued(u, k)'
                      /\ \A v \in Txn : u \in toSignal'[v] => v = s
    BY DEF SignalsDue
  <2>1. u \in Txn \ {t} /\ u \in toSignal[s]
    BY <1>1 DEF TypeOK
  <2> QED
    BY <1>1, <2>1, CleanedNowhere DEF SignalsDue
<1>5. BlockedServed'
  <2> SUFFICES ASSUME NEW u \in Txn, pc'[u] = "blocked"
               PROVE  (\E k \in Key : Queued(u, k)') \/ (\E s \in Txn : u \in toSignal'[s])
    BY DEF BlockedServed
  <2>1. u \in Txn \ {t} /\ pc[u] = "blocked"
    BY <1>1
  <2> QED
    BY <1>1, <2>1, CleanedNowhere DEF BlockedServed
<1>6. HoldsListed' /\ IdleClean'
  BY <1>1 DEF HoldsListed, IdleClean
<1> QED
  BY <1>2, <1>3, <1>4, <1>5, <1>6 DEF Placed

\* and release_all.
LEMMA ReleaseAllPlaced ==
    ASSUME QueueInv, NEW t \in Txn, ReleaseAll(t)
    PROVE  Placed'
<1> USE DEF QueueInv
<1>1. /\ pc[t] \in {"running", "failed"} /\ pc'[t] = "idle"
      /\ txnKeys'[t] = {} /\ waitFor'[t] = {}
      /\ \A u \in Txn : u # t => /\ pc'[u] = pc[u] /\ txnKeys'[u] = txnKeys[u]
                                 /\ waitFor'[u] \in {{}, waitFor[u]}
      /\ \A u \in Txn : toSignal'[u] = IF u = t THEN Woken(t) ELSE toSignal[u]
  <2>1. Woken(t) \subseteq Txn
    BY DEF Woken
  <2> QED
    BY <2>1 DEF ReleaseAll, TypeOK
<1>2. \A k \in Key : ~Queued(t, k)
  BY <1>1, QueuedType DEF QueuedWait
<1>3. \A u \in Txn : t \notin toSignal[u]
  BY <1>1 DEF SignalsDue
<1>4. /\ \A k \in Key : \A i \in Positions(k)' :
           /\ i + Granted(t, k) \in Positions(k)
           /\ waiters'[k][i] = waiters[k][i + Granted(t, k)]
      /\ \A k \in Key : Granted(t, k) \in 0..Len(waiters[k])
      /\ \A k \in Key : Len(waiters[k]) \in Nat /\ Len(waiters'[k]) = Len(waiters[k]) - Granted(t, k)
  BY ReleasedQueue DEF Positions, TypeOK
<1>5. \A k \in Key : \A i \in 1..Granted(t, k) : i \in Positions(k)
  BY <1>4 DEF Positions
<1>6. \A k, l \in Key : \A i \in 1..Granted(t, k), j \in Positions(l)' :
        waiters[k][i].txn # waiters'[l][j].txn
  <2> SUFFICES ASSUME NEW k \in Key, NEW l \in Key, NEW i \in 1..Granted(t, k),
                      NEW j \in Positions(l)', waiters[k][i].txn = waiters'[l][j].txn
               PROVE  FALSE
    OBVIOUS
  <2>1. k = l /\ i = j + Granted(t, l)
    BY <1>4, <1>5, SMTT(20) DEF OneRequest
  <2>2. j \in Nat /\ j >= 1 /\ Granted(t, l) \in Nat /\ i <= Granted(t, l)
    BY <1>4, <2>1 DEF Positions
  <2> QED
    BY <2>1, <2>2
<1>7. \A k \in Key : \A j \in Positions(k) :
        \/ j \in 1..Granted(t, k)
        \/ \E i \in Positions(k)' : waiters'[k][i] = waiters[k][j]
  <2> SUFFICES ASSUME NEW k \in Key, NEW j \in Positions(k), j \notin 1..Granted(t, k)
               PROVE  \E i \in Positions(k)' : waiters'[k][i] = waiters[k][j]
    OBVIOUS
  <2>1. j - Granted(t, k) \in Positions(k)' /\ (j - Granted(t, k)) + Granted(t, k) = j
    BY <1>4 DEF Positions
  <2> QED
    BY <1>4, <2>1
<1>8. OneRequest'
  <2> SUFFICES ASSUME NEW k \in Key, NEW l \in Key, NEW i \in Positions(k)', NEW j \in Positions(l)',
                      waiters'[k][i].txn = waiters'[l][j].txn
               PROVE  k = l /\ i = j
    BY DEF OneRequest
  <2>1. k = l /\ i + Granted(t, k) = j + Granted(t, l)
    <3> DEFINE a == i + Granted(t, k)
               b == j + Granted(t, l)
    <3>1. /\ a \in Positions(k) /\ waiters'[k][i] = waiters[k][a]
          /\ b \in Positions(l) /\ waiters'[l][j] = waiters[l][b]
      BY <1>4
    <3> HIDE DEF a, b
    <3>2. k = l /\ a = b
      BY <3>1 DEF OneRequest
    <3> QED
      BY <3>2 DEF a, b
  <2>2. i \in Nat /\ j \in Nat /\ Granted(t, k) \in Nat
    BY <1>4 DEF Positions
  <2>3. i + Granted(t, k) = j + Granted(t, k)
    BY <2>1
  <2> QED
    BY <2>1, <2>2, <2>3
<1>9. QueuedWait'
  <2> SUFFICES ASSUME NEW k \in Key, NEW i \in Positions(k)'
               PROVE  LET r == waiters'[k][i]
                      IN  /\ pc'[r.txn] \in {"blocked", "expired"}
                          /\ k \in txnKeys'[r.txn]
                          /\ r.mode = "S" => holders'[k][r.txn] = "none"
    BY DEF QueuedWait
  <2> DEFINE j == i + Granted(t, k)
  <2>1. j \in Positions(k) /\ waiters'[k][i] = waiters[k][j]
    BY <1>4
  <2> HIDE DEF j
  <2>2. waiters[k][j].txn \in Txn \ {t}
    BY <1>2, <2>1, RequestAt
  <2>3. holders'[k][waiters[k][j].txn] = holders[k][waiters[k][j].txn]
    BY <1>6, <2>1, <2>2, ReleasedHolders
  <2> QED
    BY <1>1, <2>1, <2>2, <2>3 DEF QueuedWait
<1>10. \A u \in Woken(t) :
         /\ u \in Txn \ {t} /\ pc[u] \in {"blocked", "expired"}
         /\ \A k \in Key : ~Queued(u, k)'
         /\ \A s \in Txn : u \notin toSignal[s]
  <2> SUFFICES ASSUME NEW u \in Woken(t)
               PROVE  /\ u \in Txn \ {t} /\ pc[u] \in {"blocked", "expired"}
                      /\ \A k \in Key : ~Queued(u, k)'
                      /\ \A s \in Txn : u \notin toSignal[s]
    OBVIOUS
  <2>1. PICK l \in Key : \E i \in 1..Granted(t, l) : waiters[l][i].txn = u
    BY WokenGranted DEF Woken
  <2>2. PICK i \in 1..Granted(t, l) : waiters[l][i].txn = u
    BY <2>1
  <2>3. Queued(u, l) /\ u \in Txn /\ u # t /\ pc[u] \in {"blocked", "expired"}
    BY <1>2, <1>5, <2>2, RequestAt DEF QueuedWait
  <2>4. \A k \in Key : ~Queued(u, k)'
    <3>1. \A k \in Key : \A j \in Positions(k)' : waiters'[k][j].txn # u
      BY <1>6, <2>2
    <3> QED
      BY <3>1 DEF Queued, Positions
  <2> QED
    BY <2>3, <2>4 DEF SignalsDue
<1>10a. \A u \in Woken(t), s \in Txn : u \notin toSignal[s]
  BY <1>10
<1>11. \A u \in Txn, k \in Key : Queued(u, k)' => Queued(u, k)
  <2>1. \A u, k : Queued(u, k)' <=> \E i \in Positions(k)' : waiters'[k][i].txn = u
    BY DEF Queued, Positions
  <2> QED
    BY <1>4, <2>1, QueuedType
<1>12. SignalsDue'
  <2> SUFFICES ASSUME NEW s \in Txn, NEW u \in toSignal'[s]
               PROVE  /\ pc'[s] = "idle" /\ pc'[u] \in {"blocked", "expired"}
                      /\ \A k \in Key : ~Queued(u, k)'
                      /\ \A v \in Txn : u \in toSignal'[v] => v = s
    BY DEF SignalsDue
  <2>1. CASE s = t
    <3>1. u \in Woken(t)
      BY <1>1, <2>1
    <3>2. \A v \in Txn : u \in toSignal'[v] => v = t
      BY <1>1, <1>10a, <3>1
    <3> QED
      BY <1>1, <1>10, <2>1, <3>1, <3>2
  <2>2. CASE s # t
    <3>1. u \in toSignal[s]
      BY <1>1, <2>2
    <3>2. u \in Txn \ {t} /\ u \notin Woken(t)
      BY <1>3, <1>10a, <3>1 DEF TypeOK
    <3> QED
      BY <1>1, <1>11, <2>2, <3>1, <3>2 DEF SignalsDue
  <2> QED
    BY <2>1, <2>2
<1>13. BlockedServed'
  <2> SUFFICES ASSUME NEW u \in Txn, pc'[u] = "blocked", u \notin Woken(t)
               PROVE  (\E k \in Key : Queued(u, k)') \/ (\E s \in Txn : u \in toSignal'[s])
    BY <1>1 DEF BlockedServed
  <2>1. u # t /\ pc[u] = "blocked" /\ toSignal[t] = {}
    BY <1>1 DEF SignalsDue
  <2>2. CASE \E s \in Txn : u \in toSignal[s]
    BY <1>1, <2>1, <2>2
  <2>3. ASSUME NEW k \in Key, Queued(u, k)
        PROVE  Queued(u, k)'
    <3>1. PICK j \in Positions(k) : waiters[k][j].txn = u
      BY <2>3, QueuedType
    <3>2. j \notin 1..Granted(t, k)
      BY <3>1, WokenGranted
    <3> QED
      BY <1>7, <3>1, <3>2 DEF Queued, Positions
  <2> QED
    BY <2>1, <2>2, <2>3 DEF BlockedServed
<1>14. HoldsListed'
  <2> SUFFICES ASSUME NEW u \in Txn, NEW k \in Key, holders'[k][u] # "none"
               PROVE  k \in txnKeys'[u]
    BY DEF HoldsListed
  <2>1. u # t
    BY ReleasedHolders
  <2>2. CASE \E i \in 1..Granted(t, k) : waiters[k][i].txn = u
    BY <1>1, <1>5, <2>1, <2>2 DEF QueuedWait
  <2>3. CASE \A i \in 1..Granted(t, k) : waiters[k][i].txn # u
    BY <1>1, <2>1, <2>3, ReleasedHolders DEF HoldsListed
  <2> QED
    BY <2>2, <2>3
<1>15. IdleClean'
  BY <1>1 DEF IdleClean
<1> QED
  BY <1>8, <1>9, <1>12, <1>13, <1>14, <1>15 DEF Placed

\* Every step keeps the invariant of the queues.
LEMMA StepQueueInv == QueueInv /\ [Next]_vars => QueueInv'
<1> SUFFICES ASSUME QueueInv, [Next]_vars
             PROVE  QueueInv'
  OBVIOUS
<1>1. TypeOK' /\ Compatible'
  BY StepType, StepCompatible DEF QueueInv
<1>2. CASE UNCHANGED vars
  BY <1>1, <1>2 DEF vars, QueueInv, OneRequest, QueuedWait, SignalsDue, BlockedServed,
                    HoldsListed, IdleClean, Positions, Queued
<1>3. CASE Next
  <2>1. Placed'
    BY <1>3, BeginPlaced, AcquirePlaced, ExpirePlaced, SetEventPlaced, CleanUpPlaced,
       ReleaseAllPlaced DEF Next, NextUntimed
  <2> QED
    BY <1>1, <2>1 DEF QueueInv, Placed
<1> QED
  BY <1>2, <1>3

\* The invariant of the queues holds at first.
LEMMA InitQueueInv == Init => QueueInv
BY InitType DEF Init, QueueInv, Compatible, OneRequest, QueuedWait, SignalsDue, BlockedServed,
                HoldsListed, IdleClean, Positions

\* A waiting thread has one request in one queue or one signal coming, and what
\* it holds or asks for is on its key list (lock_manager.py:113-175).
THEOREM QueueInvariant == Spec => []QueueInv
<1>1. Init => QueueInv
  BY InitQueueInv
<1>2. QueueInv /\ [Next]_vars => QueueInv'
  BY StepQueueInv
<1> QED
  BY <1>1, <1>2, PTL DEF Spec

-----------------------------------------------------------------------------
(* What the lock manager guarantees: each theorem is a consequence of       *)
(* QueueInv, some with an invariant more.                                   *)

\* Every lock and every queued request is on a key that release_all will visit,
\* and a transaction that has ended has left nothing (lock_manager.py:137-144).
THEOREM NothingIsLeaked == Spec => []NothingLeaks
<1>1. ASSUME QueueInv
      PROVE  NothingLeaks
  <2>1. ASSUME NEW t \in Txn, NEW k \in Key, Queued(t, k)
        PROVE  k \in txnKeys[t]
    <3>1. PICK i \in Positions(k) : waiters[k][i].txn = t
      BY <2>1, QueuedType
    <3> QED
      BY <1>1, <3>1 DEF QueueInv, QueuedWait
  <2>2. \A t \in Txn, k \in Key : holders[k][t] # "none" => k \in txnKeys[t]
    BY <1>1 DEF QueueInv, HoldsListed
  <2>3. \A t \in Txn : pc[t] = "idle" => txnKeys[t] = {} /\ waitFor[t] = {}
    BY <1>1 DEF QueueInv, IdleClean
  <2> QED
    BY <2>1, <2>2, <2>3 DEF NothingLeaks
<1> QED
  BY <1>1, QueueInvariant, PTL

\* A thread that waits has its request in one queue, or one releaser about to
\* set its event, never neither and never both (lock_manager.py:173-175).
THEOREM NoSignalIsLost == Spec => []NoLostSignal
<1>1. ASSUME QueueInv
      PROVE  NoLostSignal
  <2> SUFFICES ASSUME NEW t \in Txn, pc[t] = "blocked"
               PROVE  Cardinality({k \in Key : Queued(t, k)})
                          + Cardinality({u \in Txn : t \in toSignal[u]}) = 1
    BY DEF NoLostSignal
  <2> DEFINE K == {k \in Key : Queued(t, k)}
             U == {u \in Txn : t \in toSignal[u]}
  <2>1. \A k, l \in K : k = l
    <3> SUFFICES ASSUME NEW k \in K, NEW l \in K
                 PROVE  k = l
      OBVIOUS
    <3>1. PICK i \in Positions(k) : waiters[k][i].txn = t
      BY QueuedType
    <3>2. PICK j \in Positions(l) : waiters[l][j].txn = t
      BY QueuedType
    <3> QED
      BY <1>1, <3>1, <3>2 DEF QueueInv, OneRequest
  <2>2. \A u, v \in U : u = v
    BY <1>1 DEF QueueInv, SignalsDue
  <2>3. \A u \in U : K = {}
    BY <1>1 DEF QueueInv, SignalsDue
  <2>4. K # {} \/ U # {}
    BY <1>1 DEF QueueInv, BlockedServed
  <2> HIDE DEF K, U
  <2>5. CASE U # {}
    <3>1. PICK u : U = {u}
      BY <2>2, <2>5
    <3>2. Cardinality(U) = 1 /\ Cardinality(K) = 0
      BY <2>3, <3>1, FS_Singleton, FS_EmptySet
    <3>3. Cardinality(K) + Cardinality(U) = 1
      BY <3>2
    <3> QED
      BY <3>3 DEF K, U
  <2>6. CASE U = {}
    <3>1. PICK k : K = {k}
      BY <2>1, <2>4, <2>6
    <3>2. Cardinality(K) = 1 /\ Cardinality(U) = 0
      BY <2>6, <3>1, FS_Singleton, FS_EmptySet
    <3>3. Cardinality(K) + Cardinality(U) = 1
      BY <3>2
    <3> QED
      BY <3>3 DEF K, U
  <2> QED
    BY <2>5, <2>6
<1> QED
  BY <1>1, QueueInvariant, PTL

-----------------------------------------------------------------------------
\* A lock that a transaction has is not weakened by the end of another.
LEMMA ReleaseKeepsLocks ==
    ASSUME QueueInv, NEW t \in Txn, ReleaseAll(t), NEW k \in Key, NEW u \in Txn \ {t},
           holders[k][u] # "none"
    PROVE  holders'[k][u] \in {holders[k][u], "X"}
<1>1. CASE \A i \in 1..Granted(t, k) : waiters[k][i].txn # u
  BY <1>1, ReleasedHolders DEF QueueInv
<1>2. ASSUME NEW i \in 1..Granted(t, k), waiters[k][i].txn = u
      PROVE  holders'[k][u] = "X"
  <2>1. i \in Positions(k)
    BY <1>2, GrantedRange DEF QueueInv, TypeOK, Positions
  <2>2. waiters[k][i].mode = "X"
    BY <1>2, <2>1, RequestAt DEF QueueInv, QueuedWait, Mode
  <2> QED
    BY <1>2, <2>2, ReleasedHolders DEF QueueInv
<1> QED
  BY <1>1, <1>2

\* What a step may do to the locks of a transaction that does not end in it.
LEMMA StepKeepsLocks ==
    ASSUME QueueInv, [Next]_vars, NEW k \in Key, NEW u \in Txn, holders[k][u] # "none"
    PROVE  holders'[k][u] \in {holders[k][u], "X"} \/ ReleaseAll(u)
<1>1. CASE holders' = holders
  BY <1>1
<1>2. ASSUME NEW t \in Txn, NEW l \in Key, NEW m \in Mode, AcquireFree(t, l, m)
      PROVE  holders'[k][u] \in {holders[k][u], "X"}
  <2>1. CASE l = k /\ t = u
    <3>1. holders'[k][u] = m /\ holders[k][u] \in {"S", "X"} /\ m \in {"S", "X"}
      BY <1>2, <2>1 DEF AcquireFree, QueueInv, TypeOK, Mode
    <3> QED
      BY <1>2, <2>1, <3>1 DEF AcquireFree, AlreadyHolds
  <2>2. CASE l = k /\ t # u
    BY <1>2, <2>2 DEF AcquireFree, QueueInv, TypeOK
  <2>3. CASE l # k
    BY <1>2, <2>3 DEF AcquireFree, QueueInv, TypeOK
  <2> QED
    BY <2>1, <2>2, <2>3
<1>3. ASSUME NEW t \in Txn, ReleaseAll(t), t # u
      PROVE  holders'[k][u] \in {holders[k][u], "X"}
  BY <1>3, ReleaseKeepsLocks
<1>4. \/ holders' = holders
      \/ \E t \in Txn, l \in Key, m \in Mode : AcquireFree(t, l, m)
      \/ \E t \in Txn : ReleaseAll(t)
  BY ZenonT(30) DEF Next, NextUntimed, vars, Begin, Acquire, AcquireHeld, AcquireWait,
         AcquireRefused, SetEvent, Expire, CleanUp
<1> QED
  BY <1>1, <1>2, <1>3, <1>4

\* Strict two-phase locking: a step that takes or weakens one lock of a
\* transaction takes all of them (lock_manager.py:9-11).
THEOREM LocksGoTogether == Spec => StrictTwoPhase
<1>1. ASSUME QueueInv, [Next]_vars, NEW t \in Txn,
             \E k \in Key : \/ holders[k][t] # "none" /\ holders'[k][t] = "none"
                            \/ holders[k][t] = "X" /\ holders'[k][t] = "S"
      PROVE  \A k \in Key : holders'[k][t] = "none"
  <2>1. ReleaseAll(t)
    BY <1>1, StepKeepsLocks
  <2> QED
    BY <1>1, <2>1, ReleasedHolders DEF QueueInv
<1>2. QueueInv /\ [Next]_vars =>
        [\A t \in Txn :
            (\E k \in Key : \/ holders[k][t] # "none" /\ holders'[k][t] = "none"
                            \/ holders[k][t] = "X" /\ holders'[k][t] = "S")
            => \A k \in Key : holders'[k][t] = "none"]_vars
  BY <1>1
<1> QED
  BY <1>2, QueueInvariant, PTL DEF Spec, StrictTwoPhase

-----------------------------------------------------------------------------
\* A request stays in its queue until it is granted or its wait has failed.
LEMMA StepKeepsRequest ==
    ASSUME QueueInv, [Next]_vars, NEW k \in Key, NEW i \in Positions(k)
    PROVE  LET r == waiters[k][i]
           IN  \/ \E j \in Positions(k)' : waiters'[k][j] = r
               \/ holders'[k][r.txn] = r.mode
               \/ pc'[r.txn] = "failed"
<1> DEFINE r == waiters[k][i]
<1>1. r.txn \in Txn /\ r.mode \in Mode
  BY RequestAt DEF QueueInv
<1>2. CASE waiters'[k] = waiters[k]
  BY <1>2 DEF Positions
<1>3. ASSUME NEW t \in Txn, NEW l \in Key, NEW m \in Mode, AcquireWait(t, l, m), l = k
      PROVE  \E j \in Positions(k)' : waiters'[k][j] = r
  <2> DEFINE new == [txn |-> t, mode |-> m]
  <2>1. new \in Request
    BY DEF Request
  <2>2. waiters'[k] = Append(waiters[k], new) /\ waiters[k] \in Seq(Request)
    BY <1>3 DEF AcquireWait, QueueInv, TypeOK
  <2> HIDE DEF new
  <2>3. i \in 1..Len(waiters'[k]) /\ waiters'[k][i] = waiters[k][i]
    BY <2>1, <2>2 DEF Positions
  <2> QED
    BY <2>3 DEF Positions
<1>4. ASSUME NEW t \in Txn, CleanUp(t)
      PROVE  (\E j \in Positions(k)' : waiters'[k][j] = r) \/ pc'[r.txn] = "failed"
  <2>1. CASE r.txn = t
    BY <1>4, <2>1 DEF CleanUp, QueueInv, TypeOK
  <2>2. CASE r.txn # t
    <3>1. PICK u \in Txn : u = r.txn
      BY <1>1
    <3>2. Queued(u, k)'
      BY <1>4, <2>2, <3>1, CleanedNowhere DEF Queued, Positions
    <3>3. PICK j : j \in 1..Len(waiters'[k]) /\ waiters'[k][j].txn = r.txn
      BY <3>1, <3>2 DEF Queued
    <3>4. PICK p \in Positions(k) : waiters'[k][j] = waiters[k][p]
      BY <1>4, <3>3, CleanedNowhere DEF Positions
    <3>5. p = i
      BY <3>3, <3>4 DEF QueueInv, OneRequest
    <3> QED
      BY <3>3, <3>4, <3>5 DEF Positions
  <2> QED
    BY <2>1, <2>2
<1>5. ASSUME NEW t \in Txn, ReleaseAll(t)
      PROVE  (\E j \in Positions(k)' : waiters'[k][j] = r) \/ holders'[k][r.txn] = r.mode
  <2> DEFINE n == Granted(t, k)
  <2>1. /\ n \in 0..Len(waiters[k]) /\ Len(waiters[k]) \in Nat
        /\ Len(waiters'[k]) = Len(waiters[k]) - n
        /\ \A p \in 1..Len(waiters'[k]) :
             p + n \in Positions(k) /\ waiters'[k][p] = waiters[k][p + n]
    BY <1>5, ReleasedQueue DEF QueueInv, TypeOK
  <2>2. \A j \in 1..n : waiters[k][j].txn = r.txn => holders'[k][r.txn] = waiters[k][j].mode
    BY <1>1, <1>5, ReleasedHolders DEF QueueInv
  <2> HIDE DEF n
  <2>3. i \in 1..Len(waiters[k])
    BY DEF Positions
  <2>4. CASE i <= n
    BY <2>1, <2>2, <2>3, <2>4
  <2>5. CASE i > n
    <3>1. i - n \in 1..Len(waiters'[k]) /\ (i - n) + n = i
      BY <2>1, <2>3, <2>5
    <3>2. waiters'[k][i - n] = waiters[k][i]
      BY <2>1, <3>1
    <3> QED
      BY <3>1, <3>2 DEF Positions
  <2> QED
    BY <2>1, <2>3, <2>4, <2>5
<1>6. \/ waiters'[k] = waiters[k]
      \/ \E t \in Txn, l \in Key, m \in Mode : AcquireWait(t, l, m) /\ l = k
      \/ \E t \in Txn : CleanUp(t) \/ ReleaseAll(t)
  <2>1. CASE UNCHANGED vars
    BY <2>1 DEF vars
  <2>2. ASSUME NEW t \in Txn, Begin(t) \/ Expire(t) \/ \E u \in Txn : SetEvent(t, u)
        PROVE  waiters' = waiters
    BY <2>2 DEF Begin, Expire, SetEvent
  <2>3. ASSUME NEW t \in Txn, NEW l \in Key, NEW m \in Mode, Acquire(t, l, m)
        PROVE  waiters'[k] = waiters[k] \/ (AcquireWait(t, l, m) /\ l = k)
    <3>1. ASSUME AcquireWait(t, l, m), l # k
          PROVE  waiters'[k] = waiters[k]
      BY <3>1 DEF AcquireWait, QueueInv, TypeOK
    <3>2. ASSUME AcquireHeld(t, l, m) \/ AcquireFree(t, l, m) \/ AcquireRefused(t, l, m)
          PROVE  waiters' = waiters
      BY <3>2 DEF AcquireHeld, AcquireFree, AcquireRefused
    <3> QED
      BY <2>3, <3>1, <3>2 DEF Acquire
  <2> QED
    BY <2>1, <2>2, <2>3 DEF Next, NextUntimed
<1> QED
  BY <1>2, <1>3, <1>4, <1>5, <1>6

-----------------------------------------------------------------------------
\* Whose request leaves a queue was granted with all that were ahead of it, or
\* its own wait has failed.
LEMMA StepServesInOrder ==
    ASSUME QueueInv, [Next]_vars, NEW k \in Key, NEW earlier \in Txn, NEW later \in Txn,
           NEW i \in Positions(k), NEW j \in Positions(k), j < i,
           waiters[k][j].txn = earlier, waiters[k][i].txn = later,
           Queued(earlier, k)', ~Queued(later, k)'
    PROVE  pc'[later] = "failed"
<1>1. Queued(later, k)
  BY QueuedType
<1>2. CASE waiters'[k] = waiters[k]
  BY <1>1, <1>2 DEF Queued
<1>3. ASSUME NEW t \in Txn, NEW l \in Key, NEW m \in Mode, AcquireWait(t, l, m)
      PROVE  FALSE
  <2>1. l = k
    BY <1>1, <1>3 DEF AcquireWait, QueueInv, TypeOK, Queued
  <2> DEFINE new == [txn |-> t, mode |-> m]
  <2>2. new \in Request
    BY DEF Request
  <2>3. waiters'[k] = Append(waiters[k], new) /\ waiters[k] \in Seq(Request)
    BY <1>3, <2>1 DEF AcquireWait, QueueInv, TypeOK
  <2> HIDE DEF new
  <2>4. i \in 1..Len(waiters'[k]) /\ waiters'[k][i] = waiters[k][i]
    BY <2>2, <2>3 DEF Positions
  <2> QED
    BY <2>4 DEF Queued
<1>4. ASSUME NEW t \in Txn, CleanUp(t)
      PROVE  pc'[later] = "failed"
  <2>1. later = t
    BY <1>1, <1>4, CleanedNowhere
  <2> QED
    BY <1>4, <2>1 DEF CleanUp, QueueInv, TypeOK
<1>5. ASSUME NEW t \in Txn, ReleaseAll(t)
      PROVE  FALSE
  <2> DEFINE n == Granted(t, k)
  <2>1. /\ n \in 0..Len(waiters[k]) /\ Len(waiters[k]) \in Nat
        /\ Len(waiters'[k]) = Len(waiters[k]) - n
        /\ \A p \in 1..Len(waiters'[k]) :
             p + n \in Positions(k) /\ waiters'[k][p] = waiters[k][p + n]
    BY <1>5, ReleasedQueue DEF QueueInv, TypeOK
  <2> HIDE DEF n
  <2>2. i \in 1..Len(waiters[k]) /\ j \in 1..Len(waiters[k])
    BY DEF Positions
  <2>3. i <= n
    <3> SUFFICES ASSUME i > n
                 PROVE  FALSE
      BY <2>1, <2>2
    <3>1. i - n \in 1..Len(waiters'[k]) /\ (i - n) + n = i
      BY <2>1, <2>2
    <3>2. waiters'[k][i - n] = waiters[k][i]
      BY <2>1, <3>1
    <3> QED
      BY <3>1, <3>2 DEF Queued
  <2>4. PICK p \in 1..Len(waiters'[k]) : waiters'[k][p].txn = earlier
    BY DEF Queued
  <2>5. p + n \in Positions(k) /\ waiters[k][p + n].txn = earlier
    BY <2>1, <2>4
  <2>6. p + n = j
    BY <2>5 DEF QueueInv, OneRequest
  <2> QED
    BY <2>1, <2>2, <2>3, <2>4, <2>6
<1>6. \/ waiters' = waiters
      \/ \E t \in Txn, l \in Key, m \in Mode : AcquireWait(t, l, m)
      \/ \E t \in Txn : CleanUp(t) \/ ReleaseAll(t)
  BY DEF Next, NextUntimed, vars, Begin, Acquire, AcquireHeld, AcquireFree,
         AcquireRefused, SetEvent, Expire
<1> QED
  BY <1>2, <1>3, <1>4, <1>5, <1>6

\* Waiters are served in the order of their arrival (lock_manager.py:39-41).
THEOREM WaitersServedInOrder == Spec => ServedInOrder
<1>1. ASSUME QueueInv, [Next]_vars, NEW k \in Key, NEW earlier \in Txn, NEW later \in Txn,
             \E i, j \in 1..Len(waiters[k]) :
                 j < i /\ waiters[k][j].txn = earlier /\ waiters[k][i].txn = later,
             Queued(earlier, k)', ~Queued(later, k)'
      PROVE  pc'[later] = "failed"
  BY <1>1, StepServesInOrder DEF Positions
<1>2. QueueInv /\ [Next]_vars =>
        [\A k \in Key : \A earlier, later \in Txn :
            LET Ahead == \E i, j \in 1..Len(waiters[k]) :
                    j < i /\ waiters[k][j].txn = earlier /\ waiters[k][i].txn = later
            IN  Ahead /\ Queued(earlier, k)' /\ ~Queued(later, k)' =>
                    pc'[later] = "failed"]_vars
  BY <1>1
<1> QED
  BY <1>2, QueueInvariant, PTL DEF Spec, ServedInOrder
-----------------------------------------------------------------------------
\* What release_all leaves at the head of a queue cannot be granted.
LEMMA ReleaseLeavesNothingStalled ==
    ASSUME QueueInv, NEW t \in Txn, ReleaseAll(t), NEW k \in txnKeys[t]
    PROVE  ~Stalled(k)'
<1> SUFFICES ASSUME Stalled(k)'
             PROVE  FALSE
  OBVIOUS
<1> DEFINE n == Granted(t, k)
           q == waiters[k]
           h == Dropped(t, k)
<1>1. k \in Key
  BY DEF QueueInv, TypeOK
<1>2. /\ q \in Seq(Request) /\ n \in 0..Len(q) /\ Len(q) \in Nat
      /\ Len(waiters'[k]) = Len(q) - n
      /\ \A i \in 1..Len(waiters'[k]) : waiters'[k][i] = q[i + n]
  <2>1. TypeOK /\ waiters[k] \in Seq(Request)
    BY <1>1 DEF QueueInv, TypeOK
  <2>2. /\ Granted(t, k) \in 0..Len(waiters[k])
        /\ Len(waiters'[k]) = Len(waiters[k]) - Granted(t, k)
        /\ \A i \in 1..Len(waiters'[k]) : waiters'[k][i] = waiters[k][i + Granted(t, k)]
    BY <1>1, <2>1, ReleasedQueue
  <2> QED
    BY <2>1, <2>2
<1>3. Advanced(t, k) = 1..n
  BY <1>1, GrantedRange DEF QueueInv
<1>4. holders'[k] = AfterGrants(h, q, n)
  BY <1>1 DEF ReleaseAll, Granted
<1>5. waiters'[k] \in Seq(Request) /\ waiters'[k] # <<>>
  BY <1>1, StepType DEF QueueInv, TypeOK, Next, NextUntimed, Stalled
<1>6. Len(waiters'[k]) \in Nat /\ Len(waiters'[k]) # 0
  BY <1>5
<1> HIDE DEF n, q, h
<1>7. 1 \in 1..Len(waiters'[k]) /\ n + 1 \in 1..Len(q) /\ n \in Nat
  BY <1>2, <1>6
<1>8. waiters'[k][1] = q[n + 1]
  BY <1>2, <1>7
<1>9. CanGrant(AfterGrants(h, q, n), q[n + 1].txn, q[n + 1].mode)
  BY <1>4, <1>8 DEF Stalled, CanGrant
<1>10. \A i \in 1..n : CanGrant(AfterGrants(h, q, i - 1), q[i].txn, q[i].mode)
  <2>1. \A i \in 1..n : i \in Advanced(t, k) /\ i \in 1..i
    BY <1>3, <1>7
  <2> QED
    BY <2>1 DEF Advanced, Grantable, h, q
<1>11. n + 1 \in Advanced(t, k)
  <2>1. (n + 1) - 1 = n /\ \A j \in 1..(n + 1) : j \in 1..n \/ j = n + 1
    BY <1>7
  <2>2. \A j \in 1..(n + 1) : CanGrant(AfterGrants(h, q, j - 1), q[j].txn, q[j].mode)
    BY <1>9, <1>10, <2>1
  <2> QED
    BY <1>7, <2>2 DEF Advanced, Grantable, h, q
<1> QED
  BY <1>3, <1>7, <1>11

\* A grant that does not come from the queue makes no request of it grantable.
LEMMA AcquireFreeKeepsStalled ==
    ASSUME QueueInv, NEW t \in Txn, NEW l \in Key, NEW m \in Mode, AcquireFree(t, l, m),
           NEW k \in Key, Stalled(k)'
    PROVE  Stalled(k)
<1> USE DEF QueueInv
<1>1. waiters' = waiters /\ waiters[k] # <<>> /\ waiters[k] \in Seq(Request)
  BY DEF AcquireFree, Stalled, TypeOK
<1>2. 1 \in Positions(k)
  BY <1>1 DEF Positions
<1> DEFINE r == waiters[k][1]
<1>3. r.txn \in Txn /\ r.txn # t /\ r.mode \in Mode
  BY <1>2, RequestAt DEF QueuedWait, AcquireFree, Asks
<1>4. CanGrant(holders'[k], r.txn, r.mode)
  BY <1>1 DEF Stalled, CanGrant
<1> HIDE DEF r
<1>5. CASE k # l
  <2>1. holders'[k] = holders[k]
    BY <1>5 DEF AcquireFree, TypeOK
  <2> QED
    BY <1>1, <1>4, <2>1 DEF Stalled, r
<1>6. CASE k = l
  <2>1. /\ holders'[k][t] = m
        /\ \A u \in Txn : u # t => holders'[k][u] = holders[k][u]
    BY <1>6 DEF AcquireFree, TypeOK
  <2>2. m = "S" /\ r.mode = "S"
    BY <1>3, <1>4, <2>1 DEF CanGrant, Mode
  <2>3. holders[k][t] = "none"
    BY <1>6, <2>2 DEF AcquireFree, AlreadyHolds, TypeOK, Mode
  <2>4. CanGrant(holders[k], r.txn, r.mode)
    BY <1>3, <1>4, <2>1, <2>3 DEF CanGrant
  <2> QED
    BY <1>1, <2>4 DEF Stalled, r
<1> QED
  BY <1>5, <1>6

\* A request joins the queue only behind what keeps it, or the head, waiting.
LEMMA AcquireWaitKeepsStalled ==
    ASSUME QueueInv, NEW t \in Txn, NEW l \in Key, NEW m \in Mode, AcquireWait(t, l, m),
           NEW k \in Key, Stalled(k)'
    PROVE  Stalled(k)
<1> USE DEF QueueInv
<1>1. holders' = holders
  BY DEF AcquireWait
<1>2. CASE k # l
  <2>1. waiters'[k] = waiters[k]
    BY <1>2 DEF AcquireWait, TypeOK
  <2> QED
    BY <1>1, <2>1 DEF Stalled, CanGrant
<1>3. CASE k = l
  <2> DEFINE new == [txn |-> t, mode |-> m]
  <2>1. new \in Request /\ new.txn = t /\ new.mode = m
    BY DEF Request
  <2>2. waiters'[k] = Append(waiters[k], new) /\ waiters[k] \in Seq(Request)
    BY <1>3 DEF AcquireWait, TypeOK
  <2> HIDE DEF new
  <2>3. CASE waiters[k] = <<>>
    <3>1. waiters'[k][1] = new
      BY <2>1, <2>2, <2>3
    <3> QED
      BY <1>1, <1>3, <2>1, <3>1 DEF Stalled, CanGrant, AcquireWait
  <2>4. CASE waiters[k] # <<>>
    <3>1. waiters'[k][1] = waiters[k][1]
      BY <2>1, <2>2, <2>4
    <3> QED
      BY <1>1, <2>4, <3>1 DEF Stalled, CanGrant
  <2> QED
    BY <2>3, <2>4
<1> QED
  BY <1>2, <1>3

\* Every step keeps NoLostWakeup.
LEMMA StepNoLostWakeup == QueueInv /\ NoLostWakeup /\ [Next]_vars => NoLostWakeup'
<1> SUFFICES ASSUME QueueInv, NoLostWakeup, [Next]_vars, NEW k \in Key, Stalled(k)'
             PROVE  \E t \in Txn : pc'[t] = "failed" /\ k \in txnKeys'[t]
  BY DEF NoLostWakeup
<1>1. ASSUME Stalled(k), ~\E t \in Txn : ReleaseAll(t)
      PROVE  \E t \in Txn : pc'[t] = "failed" /\ k \in txnKeys'[t]
  <2>1. PICK t \in Txn : pc[t] = "failed" /\ k \in txnKeys[t]
    BY <1>1 DEF NoLostWakeup
  <2>2. pc'[t] = "failed" /\ k \in txnKeys'[t]
    <3>1. CASE UNCHANGED vars
      BY <2>1, <3>1 DEF vars
    <3>2. ASSUME NEW u \in Txn, NEW l \in Key, NEW m \in Mode, Acquire(u, l, m)
          PROVE  pc'[t] = "failed" /\ k \in txnKeys'[t]
      <4>1. u # t
        BY <2>1, <3>2 DEF Acquire, AcquireHeld, AcquireFree, AcquireWait, AcquireRefused, Asks
      <4> QED
        BY <2>1, <3>2, <4>1 DEF Acquire, AcquireHeld, AcquireFree, AcquireWait, AcquireRefused,
                                Asks, QueueInv, TypeOK
    <3>3. ASSUME NEW u \in Txn, Begin(u) \/ Expire(u) \/ CleanUp(u)
          PROVE  pc'[t] = "failed" /\ k \in txnKeys'[t]
      BY <2>1, <3>3 DEF Begin, Expire, CleanUp, QueueInv, TypeOK
    <3>4. ASSUME NEW u \in Txn, NEW v \in Txn, SetEvent(u, v)
          PROVE  pc'[t] = "failed" /\ k \in txnKeys'[t]
      BY <2>1, <3>4 DEF SetEvent, QueueInv, TypeOK
    <3> QED
      BY <1>1, <3>1, <3>2, <3>3, <3>4 DEF Next, NextUntimed
  <2> QED
    BY <2>2
<1>2. CASE waiters'[k] = waiters[k] /\ holders'[k] = holders[k] /\ ~\E t \in Txn : ReleaseAll(t)
  <2>1. Stalled(k)
    BY <1>2 DEF Stalled, CanGrant
  <2> QED
    BY <1>1, <1>2, <2>1
<1>3. ASSUME NEW t \in Txn, NEW l \in Key, NEW m \in Mode,
             AcquireFree(t, l, m) \/ AcquireWait(t, l, m)
      PROVE  \E u \in Txn : pc'[u] = "failed" /\ k \in txnKeys'[u]
  <2>1. Stalled(k)
    BY <1>3, AcquireFreeKeepsStalled, AcquireWaitKeepsStalled
  <2>2. pc[t] = "running"
    BY <1>3 DEF AcquireFree, AcquireWait, Asks
  <2>3. PICK u \in Txn : pc[u] = "failed" /\ k \in txnKeys[u]
    BY <2>1 DEF NoLostWakeup
  <2> QED
    BY <1>3, <2>2, <2>3 DEF AcquireFree, AcquireWait, Asks, QueueInv, TypeOK
<1>4. ASSUME NEW t \in Txn, CleanUp(t)
      PROVE  \E u \in Txn : pc'[u] = "failed" /\ k \in txnKeys'[u]
  <2>1. CASE waiters'[k] = waiters[k]
    <3>1. Stalled(k)
      BY <1>4, <2>1 DEF Stalled, CanGrant, CleanUp
    <3>2. PICK u \in Txn : pc[u] = "failed" /\ k \in txnKeys[u]
      BY <3>1 DEF NoLostWakeup
    <3> QED
      BY <1>4, <3>2 DEF CleanUp, QueueInv, TypeOK
  <2>2. CASE \E p \in Positions(k) : waiters[k][p].txn = t
    <3>1. pc'[t] = "failed" /\ k \in txnKeys[t] /\ txnKeys' = txnKeys
      BY <1>4, <2>2 DEF CleanUp, QueueInv, QueuedWait, TypeOK
    <3> QED
      BY <3>1
  <2> QED
    BY <1>4, <2>1, <2>2, CleanedQueue DEF QueueInv
<1>5. ASSUME NEW t \in Txn, ReleaseAll(t)
      PROVE  \E u \in Txn : pc'[u] = "failed" /\ k \in txnKeys'[u]
  <2>1. k \notin txnKeys[t]
    BY <1>5, ReleaseLeavesNothingStalled
  <2>2. Stalled(k)
    BY <1>5, <2>1 DEF ReleaseAll, Stalled, CanGrant, QueueInv, TypeOK
  <2>3. PICK u \in Txn : pc[u] = "failed" /\ k \in txnKeys[u]
    BY <2>2 DEF NoLostWakeup
  <2> QED
    BY <1>5, <2>1, <2>3 DEF ReleaseAll, QueueInv, TypeOK
<1>6. \/ waiters' = waiters /\ holders' = holders
      \/ \E t \in Txn, l \in Key, m \in Mode : AcquireFree(t, l, m) \/ AcquireWait(t, l, m)
      \/ \E t \in Txn : CleanUp(t) \/ ReleaseAll(t)
  BY DEF Next, NextUntimed, vars, Begin, Acquire, AcquireHeld, AcquireRefused, SetEvent, Expire
<1> QED
  BY <1>2, <1>3, <1>4, <1>5, <1>6

\* The head of a queue could be granted only while a failed transaction has yet
\* to roll back and advance that queue (lock_manager.py:139-144, 160-165).
THEOREM NoWakeupIsLost == Spec => []NoLostWakeup
<1>1. Init => NoLostWakeup
  BY DEF Init, NoLostWakeup, Stalled
<1>2. QueueInv /\ NoLostWakeup /\ [Next]_vars => NoLostWakeup'
  BY StepNoLostWakeup
<1> QED
  BY <1>1, <1>2, QueueInvariant, PTL DEF Spec
-----------------------------------------------------------------------------
(* The wait-for graph.  An edge is never recomputed; what makes it right   *)
(* for as long as it is there is that the transaction it leads to loses    *)
(* its lock only when it ends, and then has a new id.                      *)

LEMMA AgainstIn ==
    ASSUME NEW t \in Txn, NEW u \in Txn
    PROVE  u \in HoldersAgainst(t) <=>
             \E k \in Key : \E i \in Positions(k) :
                /\ waiters[k][i].txn = t /\ u # t /\ holders[k][u] # "none"
                /\ ~(holders[k][u] = "S" /\ waiters[k][i].mode = "S")
BY DEF HoldersAgainst, Conflicting, Positions

\* A conflict outlives every step in which neither request nor lock goes.
LEMMA ConflictStays ==
    ASSUME QueueInv, [Next]_vars, NEW t \in Txn, NEW u \in Txn, u \in HoldersAgainst(t),
           ~ReleaseAll(u), \A k \in Key : Queued(t, k) => Queued(t, k)'
    PROVE  u \in HoldersAgainst(t)'
<1>0. PICK k \in Key : \E i \in Positions(k) :
        /\ waiters[k][i].txn = t /\ u # t /\ holders[k][u] # "none"
        /\ ~(holders[k][u] = "S" /\ waiters[k][i].mode = "S")
  BY AgainstIn
<1>1. PICK i \in Positions(k) :
        /\ waiters[k][i].txn = t /\ u # t /\ holders[k][u] # "none"
        /\ ~(holders[k][u] = "S" /\ waiters[k][i].mode = "S")
  BY <1>0
<1>2. holders'[k][u] \in {holders[k][u], "X"}
  BY <1>1, StepKeepsLocks
<1>3. Queued(t, k)'
  BY <1>1, QueuedType
<1>4. PICK j \in Positions(k)' : waiters'[k][j].txn = t
  BY <1>3 DEF Queued, Positions
<1>5. waiters'[k][j] = waiters[k][i]
  <2>1. CASE waiters'[k] = waiters[k]
    <3>1. j \in Positions(k) /\ waiters[k][j].txn = t
      BY <1>4, <2>1 DEF Positions
    <3>2. j = i
      BY <1>1, <3>1 DEF QueueInv, OneRequest
    <3> QED
      BY <2>1, <3>2
  <2>2. ASSUME NEW v \in Txn, NEW l \in Key, NEW m \in Mode, AcquireWait(v, l, m), l = k
        PROVE  waiters'[k][j] = waiters[k][i]
    <3> DEFINE new == [txn |-> v, mode |-> m]
    <3>1. new \in Request /\ new.txn = v /\ v # t
      <4>1. pc[v] = "running" /\ pc[t] \in {"blocked", "expired"}
        BY <1>1, <2>2 DEF AcquireWait, Asks, QueueInv, QueuedWait
      <4> QED
        BY <4>1 DEF Request
    <3>2. waiters'[k] = Append(waiters[k], new) /\ waiters[k] \in Seq(Request)
      BY <2>2 DEF AcquireWait, QueueInv, TypeOK
    <3> HIDE DEF new
    <3>3. j \in Positions(k) /\ waiters'[k][j] = waiters[k][j]
      BY <1>4, <3>1, <3>2 DEF Positions
    <3>4. j = i
      BY <1>1, <1>4, <3>3 DEF QueueInv, OneRequest
    <3> QED
      BY <3>3, <3>4
  <2>3. ASSUME NEW v \in Txn, CleanUp(v)
        PROVE  waiters'[k][j] = waiters[k][i]
    <3>1. PICK p \in Positions(k) : waiters'[k][j] = waiters[k][p]
      BY <1>4, <2>3, CleanedNowhere
    <3>2. p = i
      BY <1>1, <1>4, <3>1 DEF QueueInv, OneRequest
    <3> QED
      BY <3>1, <3>2
  <2>4. ASSUME NEW v \in Txn, ReleaseAll(v)
        PROVE  waiters'[k][j] = waiters[k][i]
    <3> DEFINE p == j + Granted(v, k)
    <3>1. p \in Positions(k) /\ waiters'[k][j] = waiters[k][p]
      BY <1>4, <2>4, ReleasedQueue DEF QueueInv, Positions
    <3> HIDE DEF p
    <3>2. p = i
      BY <1>1, <1>4, <3>1 DEF QueueInv, OneRequest
    <3> QED
      BY <3>1, <3>2
  <2>5. \/ waiters'[k] = waiters[k]
        \/ \E v \in Txn, l \in Key, m \in Mode : AcquireWait(v, l, m) /\ l = k
        \/ \E v \in Txn : CleanUp(v) \/ ReleaseAll(v)
    <3>1. \/ waiters' = waiters
          \/ \E v \in Txn, l \in Key, m \in Mode : AcquireWait(v, l, m)
          \/ \E v \in Txn : CleanUp(v) \/ ReleaseAll(v)
      BY DEF Next, NextUntimed, vars, Begin, Acquire, AcquireHeld, AcquireFree,
             AcquireRefused, SetEvent, Expire
    <3>2. ASSUME NEW v \in Txn, NEW l \in Key, NEW m \in Mode, AcquireWait(v, l, m), l # k
          PROVE  waiters'[k] = waiters[k]
      BY <3>2 DEF AcquireWait, QueueInv, TypeOK
    <3> QED
      BY <3>1, <3>2
  <2> QED
    BY <2>1, <2>2, <2>3, <2>4, <2>5
<1>6. /\ waiters'[k][j].txn = t /\ u # t /\ holders'[k][u] # "none"
      /\ ~(holders'[k][u] = "S" /\ waiters'[k][j].mode = "S")
  BY <1>1, <1>2, <1>4, <1>5
<1> QED
  BY <1>4, <1>6 DEF HoldersAgainst, Conflicting, Positions

\* The holders that a refused or waiting request finds in its way conflict with
\* it, all of them: S is kept waiting by one X holder.
LEMMA HoldersConflict ==
    ASSUME QueueInv, NEW t \in Txn, NEW k \in Key, NEW m \in Mode,
           ~CanGrant(holders[k], t, m)
    PROVE  OtherHolders(t, k) \subseteq Conflicting(t, k, m)
<1>1. PICK v \in Txn \ {t} : holders[k][v] # "none" /\ ~(holders[k][v] = "S" /\ m = "S")
  BY DEF CanGrant
<1>2. CASE m = "X"
  BY <1>2 DEF OtherHolders, Conflicting
<1>3. CASE m = "S"
  <2>1. holders[k][v] = "X"
    BY <1>1, <1>3 DEF QueueInv, TypeOK, Mode
  <2> QED
    BY <1>1, <1>3, <2>1 DEF OtherHolders, Conflicting, QueueInv, Compatible
<1> QED
  BY <1>2, <1>3 DEF Mode

\* Every step keeps EdgesConflict.
LEMMA StepEdgesConflict == QueueInv /\ EdgesConflict /\ [Next]_vars => EdgesConflict'
<1> SUFFICES ASSUME QueueInv, EdgesConflict, [Next]_vars,
                    NEW t \in Txn, NEW u \in waitFor'[t], pc'[u] # "idle"
             PROVE  u \in HoldersAgainst(t)'
  BY DEF EdgesConflict
<1>t. u \in Txn
  BY StepType DEF QueueInv, TypeOK
<1>0. \/ waitFor'[t] \subseteq waitFor[t]
      \/ \E k \in Key, m \in Mode : AcquireWait(t, k, m)
  <2>1. CASE UNCHANGED vars
    BY <2>1 DEF vars
  <2>2. ASSUME NEW v \in Txn, NEW k \in Key, NEW m \in Mode, Acquire(v, k, m)
        PROVE  waitFor'[t] \subseteq waitFor[t] \/ AcquireWait(t, k, m)
    BY <2>2 DEF Acquire, AcquireHeld, AcquireFree, AcquireWait, AcquireRefused, EdgesFor,
                QueueInv, TypeOK
  <2>3. ASSUME NEW v \in Txn,
               Begin(v) \/ Expire(v) \/ CleanUp(v) \/ ReleaseAll(v) \/ \E w \in Txn : SetEvent(v, w)
        PROVE  waitFor'[t] \subseteq waitFor[t]
    BY <2>3, ZenonT(30) DEF Begin, Expire, CleanUp, ReleaseAll, SetEvent, QueueInv, TypeOK
  <2> QED
    BY <2>1, <2>2, <2>3 DEF Next, NextUntimed
<1>1. ASSUME NEW k \in Key, NEW m \in Mode, AcquireWait(t, k, m)
      PROVE  u \in HoldersAgainst(t)'
  <2> DEFINE new == [txn |-> t, mode |-> m]
  <2>1. new \in Request /\ new.txn = t /\ new.mode = m
    BY DEF Request
  <2>2. waiters'[k] = Append(waiters[k], new) /\ waiters[k] \in Seq(Request)
    BY <1>1 DEF AcquireWait, QueueInv, TypeOK
  <2> HIDE DEF new
  <2>3. /\ Len(waiters[k]) + 1 \in 1..Len(waiters'[k])
        /\ waiters'[k][Len(waiters[k]) + 1] = new
    BY <2>1, <2>2
  <2>4. u \in OtherHolders(t, k) /\ holders' = holders
    BY <1>1 DEF AcquireWait, EdgesFor, QueueInv, TypeOK
  <2>5. u \in Conflicting(t, k, m)
    BY <1>1, <2>4, HoldersConflict DEF AcquireWait
  <2> QED
    BY <2>1, <2>3, <2>4, <2>5 DEF HoldersAgainst, Conflicting
<1>2. CASE u \in waitFor[t] /\ ~\E k \in Key, m \in Mode : AcquireWait(t, k, m)
  <2>1. pc[u] # "idle"
    <3> SUFFICES ASSUME pc[u] = "idle"
                 PROVE  FALSE
      OBVIOUS
    <3>1. CASE UNCHANGED vars
      BY <3>1 DEF vars
    <3>2. ASSUME NEW v \in Txn, Begin(v)
          PROVE  FALSE
      BY <1>t, <3>2 DEF Begin, QueueInv, TypeOK
    <3>3. ASSUME NEW v \in Txn, NEW k \in Key, NEW m \in Mode, Acquire(v, k, m)
          PROVE  FALSE
      <4>1. pc' = pc \/ (pc[v] = "running" /\ \E s : pc' = [pc EXCEPT ![v] = s])
        BY <3>3 DEF Acquire, AcquireHeld, AcquireFree, AcquireWait, AcquireRefused, Asks
      <4> QED
        BY <1>t, <4>1 DEF QueueInv, TypeOK
    <3>4. ASSUME NEW v \in Txn, Expire(v) \/ CleanUp(v) \/ ReleaseAll(v)
          PROVE  FALSE
      BY <1>t, <3>4 DEF Expire, CleanUp, ReleaseAll, QueueInv, TypeOK
    <3>5. ASSUME NEW v \in Txn, NEW w \in Txn, SetEvent(v, w)
          PROVE  FALSE
      BY <1>t, <3>5 DEF SetEvent, QueueInv, TypeOK
    <3> QED
      BY <3>1, <3>2, <3>3, <3>4, <3>5 DEF Next, NextUntimed
  <2>2. u \in HoldersAgainst(t)
    BY <1>2, <2>1 DEF EdgesConflict
  <2>3. ~ReleaseAll(u)
    BY <1>t DEF ReleaseAll, QueueInv, TypeOK
  <2>4. ASSUME NEW k \in Key, Queued(t, k)
        PROVE  Queued(t, k)'
    <3>1. PICK i \in Positions(k) : waiters[k][i].txn = t
      BY <2>4, QueuedType
    <3>2. CASE waiters' = waiters
      BY <2>4, <3>2 DEF Queued
    <3>3. ASSUME NEW v \in Txn, NEW l \in Key, NEW m \in Mode, AcquireWait(v, l, m)
          PROVE  Queued(t, k)'
      <4> DEFINE new == [txn |-> v, mode |-> m]
      <4>1. CASE l = k
        <5>1. new \in Request
          BY DEF Request
        <5>2. waiters'[k] = Append(waiters[k], new) /\ waiters[k] \in Seq(Request)
          BY <3>3, <4>1 DEF AcquireWait, QueueInv, TypeOK
        <5> HIDE DEF new
        <5>3. i \in 1..Len(waiters'[k]) /\ waiters'[k][i] = waiters[k][i]
          BY <5>1, <5>2 DEF Positions
        <5> QED
          BY <3>1, <5>3 DEF Queued
      <4>2. CASE l # k
        BY <2>4, <3>3, <4>2 DEF AcquireWait, QueueInv, TypeOK, Queued
      <4> QED
        BY <4>1, <4>2
    <3>4. ASSUME NEW v \in Txn, CleanUp(v)
          PROVE  Queued(t, k)'
      <4>1. v # t
        BY <3>4 DEF CleanUp, QueueInv, TypeOK
      <4> QED
        BY <2>4, <3>4, <4>1, CleanedNowhere
    <3>5. ASSUME NEW v \in Txn, ReleaseAll(v)
          PROVE  Queued(t, k)'
      <4> DEFINE n == Granted(v, k)
      <4>1. t \notin Woken(v)
        BY <3>5 DEF ReleaseAll
      <4>2. i \notin 1..n
        BY <3>1, <4>1, WokenGranted DEF QueueInv
      <4>3. /\ n \in 0..Len(waiters[k]) /\ Len(waiters[k]) \in Nat
            /\ Len(waiters'[k]) = Len(waiters[k]) - n
            /\ \A p \in 1..Len(waiters'[k]) : waiters'[k][p] = waiters[k][p + n]
        BY <3>5, ReleasedQueue DEF QueueInv, TypeOK
      <4> HIDE DEF n
      <4>4. i - n \in 1..Len(waiters'[k]) /\ (i - n) + n = i
        BY <4>2, <4>3 DEF Positions
      <4>5. waiters'[k][i - n] = waiters[k][i]
        BY <4>3, <4>4
      <4> QED
        BY <3>1, <4>4, <4>5 DEF Queued
    <3> QED
      BY <3>2, <3>3, <3>4, <3>5
         DEF Next, NextUntimed, vars, Begin, Acquire, AcquireHeld, AcquireFree,
             AcquireRefused, SetEvent, Expire
  <2> QED
    BY <1>t, <2>2, <2>3, <2>4, ConflictStays
<1> QED
  BY <1>0, <1>1, <1>2

\* Every edge of the wait-for graph to a transaction that has not ended is a
\* conflict: it holds a lock that a request of the waiter is still queued behind
\* (lock_manager.py:116-129, :162-215).
THEOREM EdgesAreConflicts == Spec => []EdgesConflict
<1>1. Init => EdgesConflict
  BY DEF Init, EdgesConflict
<1>2. QueueInv /\ EdgesConflict /\ [Next]_vars => EdgesConflict'
  BY StepEdgesConflict
<1> QED
  BY <1>1, <1>2, QueueInvariant, PTL DEF Spec

\* A cycle of the graph is a set of transactions each of which conflicts with a
\* lock of another: those from which t cannot be avoided.
LEMMA CycleIsConflict ==
    ASSUME QueueInv, EdgesConflict, NEW t \in Txn, NEW k \in Key, NEW m \in Mode,
           AcquireRefused(t, k, m)
    PROVE  \E S \in SUBSET Txn :
              /\ t \in S
              /\ Conflicting(t, k, m) \cap S # {}
              /\ \A u \in S \ {t} : HoldersAgainst(u) \cap S # {}
<1> DEFINE g == EdgesFor(t, k)
           Closed(B) == \A u \in B : g[u] \subseteq B
           Away == UNION {B \in SUBSET Txn : t \notin B /\ Closed(B)}
           S == Txn \ Away
<1>1. g[t] = OtherHolders(t, k) /\ \A u \in Txn : u # t => g[u] = waitFor[u]
  BY DEF EdgesFor, QueueInv, TypeOK
<1>2. \A u \in Txn : g[u] \subseteq Txn
  BY <1>1 DEF OtherHolders, QueueInv, TypeOK
<1>3. HasCycle(g, t) /\ ~CanGrant(holders[k], t, m) /\ pc[t] = "running"
  BY DEF AcquireRefused, Asks
<1> HIDE DEF g
<1>4. Away \in SUBSET Txn /\ t \notin Away /\ Closed(Away)
  OBVIOUS
<1>5. t \in S /\ g[t] \cap S # {}
  <2>1. ~(g[t] \subseteq Away)
    BY <1>3, <1>4 DEF HasCycle
  <2> QED
    BY <1>2, <1>4, <2>1
<1>6. ASSUME NEW u \in S \ {t}
      PROVE  g[u] \cap S # {}
  <2> SUFFICES ASSUME g[u] \subseteq Away
               PROVE  FALSE
    BY <1>2
  <2> DEFINE B == Away \cup {u}
  <2>1. B \in SUBSET Txn /\ t \notin B /\ Closed(B)
    BY <1>4, <1>6
  <2>2. u \in B
    OBVIOUS
  <2> HIDE DEF B
  <2>3. B \subseteq Away
    BY <2>1
  <2> QED
    BY <1>6, <2>2, <2>3
<1> HIDE DEF S
<1>7. Conflicting(t, k, m) \cap S # {}
  BY <1>1, <1>3, <1>5, HoldersConflict
<1>8. ASSUME NEW u \in S \ {t}
      PROVE  HoldersAgainst(u) \cap S # {}
  <2>1. PICK v \in S : v \in g[u]
    BY <1>6, <1>8
  <2>2. u \in Txn /\ v \in Txn /\ v \in waitFor[u]
    BY <1>1, <1>8, <2>1 DEF S
  <2>3. pc[v] # "idle"
    <3>1. CASE v = t
      BY <1>3, <3>1
    <3>2. CASE v # t
      <4>1. waitFor[v] # {}
        BY <1>1, <1>6, <2>1, <2>2, <3>2
      <4> QED
        BY <2>2, <4>1 DEF QueueInv, IdleClean
    <3> QED
      BY <3>1, <3>2
  <2> QED
    BY <2>1, <2>2, <2>3 DEF EdgesConflict
<1> QED
  BY <1>5, <1>7, <1>8 DEF S

\* DeadlockError is raised only where waiting would have closed a real cycle:
\* the edges left behind by earlier waits mislead nobody (lock_manager.py:31-35).
THEOREM NoNeedlessDeadlockError == Spec => DeadlockErrorJustified
<1>1. QueueInv /\ EdgesConflict /\ [Next]_vars =>
        [\A t \in Txn, k \in Key, m \in Mode : AcquireRefused(t, k, m) =>
            \E S \in SUBSET Txn :
                /\ t \in S
                /\ Conflicting(t, k, m) \cap S # {}
                /\ \A u \in S \ {t} : HoldersAgainst(u) \cap S # {}]_vars
  BY CycleIsConflict
<1> QED
  BY <1>1, QueueInvariant, EdgesAreConflicts, PTL DEF Spec, DeadlockErrorJustified

-----------------------------------------------------------------------------
(* The lock manager implements LockService: every step is one step of the  *)
(* service or changes nothing that the service knows of, for any set of    *)
(* slots and keys.                                                         *)

RequestOf(k, i) == [txn |-> waiters[k][i].txn, key |-> k, mode |-> waiters[k][i].mode]

\* The requests that the refinement mapping calls pending.
Pending == UNION {{RequestOf(k, i) : i \in Positions(k)} : k \in Key}

\* A pending request stands at a position of a queue.
LEMMA PendingAt ==
    ASSUME NEW r
    PROVE  r \in Pending <=> \E k \in Key : \E i \in Positions(k) : r = RequestOf(k, i)
BY DEF Pending

\* Who has a pending request waits.
LEMMA PendingType ==
    ASSUME QueueInv, NEW r \in Pending
    PROVE  r.txn \in Txn /\ r.key \in Key /\ Queued(r.txn, r.key) /\ pc[r.txn] \in {"blocked", "expired"}
<1>1. PICK k \in Key : \E i \in Positions(k) : r = RequestOf(k, i)
  BY PendingAt
<1>2. PICK i \in Positions(k) : r = RequestOf(k, i)
  BY <1>1
<1> QED
  BY <1>2, RequestAt DEF RequestOf, QueueInv, QueuedWait

\* A slot has at most one pending request.
LEMMA PendingUnique ==
    ASSUME QueueInv, NEW r \in Pending, NEW s \in Pending, r.txn = s.txn
    PROVE  r = s
<1>1. PICK k \in Key : \E i \in Positions(k) : r = RequestOf(k, i)
  BY PendingAt
<1>2. PICK i \in Positions(k) : r = RequestOf(k, i)
  BY <1>1
<1>3. PICK l \in Key : \E j \in Positions(l) : s = RequestOf(l, j)
  BY PendingAt
<1>4. PICK j \in Positions(l) : s = RequestOf(l, j)
  BY <1>3
<1>5. waiters[k][i].txn = waiters[l][j].txn
  BY <1>2, <1>4 DEF RequestOf
<1>6. k = l /\ i = j
  BY <1>5 DEF QueueInv, OneRequest
<1> QED
  BY <1>2, <1>4, <1>6

-----------------------------------------------------------------------------
\* A lock that is granted at once is a grant of the service.
LEMMA GrantMaps ==
    ASSUME QueueInv, NEW t \in Txn, NEW k \in Key, NEW m \in Mode, AcquireFree(t, k, m)
    PROVE  Service!Grant(t, k, m)
<1>1. \A r \in Pending : r.txn # t
  BY PendingType DEF AcquireFree, Asks
<1>2. Compatible'
  BY StepCompatible DEF QueueInv, Next, NextUntimed, Acquire
<1>3. holders' = [holders EXCEPT ![k][t] = m] /\ waiters' = waiters
  BY DEF AcquireFree
<1> QED
  BY <1>1, <1>2, <1>3
     DEF Service!Grant, Service!Idle, Service!Admits, Compatible, Pending, RequestOf, Positions

\* A request that is queued is one that waits at the service.
LEMMA WaitMaps ==
    ASSUME QueueInv, NEW t \in Txn, NEW k \in Key, NEW m \in Mode, AcquireWait(t, k, m)
    PROVE  Service!Wait(t, k, m)
<1> DEFINE new == [txn |-> t, mode |-> m]
<1>1. \A r \in Pending : r.txn # t
  BY PendingType DEF AcquireWait, Asks
<1>2. new \in Request /\ new.txn = t /\ new.mode = m
  BY DEF Request
<1>3. /\ waiters' = [waiters EXCEPT ![k] = Append(@, new)] /\ waiters[k] \in Seq(Request)
      /\ holders' = holders
  BY DEF AcquireWait, QueueInv, TypeOK
<1> HIDE DEF new
<1>4. /\ \A l \in Key : l # k => waiters'[l] = waiters[l]
      /\ waiters'[k] = Append(waiters[k], new)
  BY <1>3 DEF QueueInv, TypeOK
<1>5. /\ Len(waiters'[k]) = Len(waiters[k]) + 1 /\ Len(waiters[k]) \in Nat
      /\ \A i \in 1..Len(waiters[k]) : waiters'[k][i] = waiters[k][i]
      /\ waiters'[k][Len(waiters[k]) + 1] = new
  BY <1>2, <1>3, <1>4
<1>6. \A l \in Key : \A i \in Positions(l) : i \in Positions(l)' /\ RequestOf(l, i)' = RequestOf(l, i)
  BY <1>4, <1>5 DEF Positions, RequestOf
<1>n. PICK n : n = Len(waiters[k]) + 1
  OBVIOUS
<1>7. \A l \in Key : \A i \in Positions(l)' : i \in Positions(l) \/ (l = k /\ i = n)
  BY <1>4, <1>5, <1>n DEF Positions
<1>8. n \in Positions(k)' /\ RequestOf(k, n)' = [txn |-> t, key |-> k, mode |-> m]
  BY <1>2, <1>5, <1>n DEF Positions, RequestOf
<1>9. Pending' = Pending \cup {[txn |-> t, key |-> k, mode |-> m]}
  BY <1>6, <1>7, <1>8 DEF Pending
<1> QED
  BY <1>1, <1>3, <1>9 DEF Service!Wait, Service!Idle, Pending, RequestOf, Positions

\* The clean-up of a time-out withdraws the request, if it is still pending.
LEMMA CleanUpMaps ==
    ASSUME QueueInv, NEW t \in Txn, CleanUp(t)
    PROVE  (\E r \in Pending : Service!Withdraw(r)) \/ (holders' = holders /\ Pending' = Pending)
<1>1. ASSUME NEW r \in Pending'
      PROVE  r \in Pending /\ r.txn # t
  <2>1. PICK k \in Key : \E i \in Positions(k)' : r = RequestOf(k, i)'
    BY DEF Pending
  <2>2. PICK i \in Positions(k)' : r = RequestOf(k, i)'
    BY <2>1
  <2>3. PICK j \in Positions(k) : waiters'[k][i] = waiters[k][j] /\ waiters[k][j].txn # t
    BY CleanedNowhere
  <2>4. r = RequestOf(k, j)
    BY <2>2, <2>3 DEF RequestOf
  <2> QED
    BY <2>3, <2>4, PendingAt DEF RequestOf
<1>2. ASSUME NEW r \in Pending, r.txn # t
      PROVE  r \in Pending'
  <2>1. PICK k \in Key : \E j \in Positions(k) : r = RequestOf(k, j)
    BY PendingAt
  <2>2. PICK j \in Positions(k) : r = RequestOf(k, j)
    BY <2>1
  <2>3. r.txn = waiters[k][j].txn /\ r.txn \in Txn /\ Queued(r.txn, k)
    BY <2>2, RequestAt DEF RequestOf, QueueInv
  <2>4. Queued(r.txn, k)'
    BY <1>2, <2>3, CleanedNowhere
  <2>5. PICK i \in Positions(k)' : waiters'[k][i].txn = r.txn
    BY <2>4 DEF Queued, Positions
  <2>6. PICK p \in Positions(k) : waiters'[k][i] = waiters[k][p]
    BY CleanedNowhere
  <2>7. p = j
    BY <2>3, <2>5, <2>6 DEF QueueInv, OneRequest
  <2>8. r = RequestOf(k, i)'
    BY <2>2, <2>6, <2>7 DEF RequestOf
  <2> QED
    BY <2>8 DEF Pending
<1>3. holders' = holders
  BY DEF CleanUp
<1>4. CASE \E r \in Pending : r.txn = t
  <2>1. PICK r \in Pending : r.txn = t
    BY <1>4
  <2>2. Pending' = Pending \ {r}
    BY <1>1, <1>2, <2>1, PendingUnique
  <2> QED
    BY <1>3, <2>1, <2>2 DEF Service!Withdraw, Pending, RequestOf, Positions
<1>5. CASE \A r \in Pending : r.txn # t
  BY <1>1, <1>2, <1>3, <1>5
<1> QED
  BY <1>4, <1>5

\* release_all ends the transaction at the service.
LEMMA ReleaseMaps ==
    ASSUME QueueInv, NEW t \in Txn, ReleaseAll(t)
    PROVE  Service!End(t)
<1> DEFINE granted == UNION {{RequestOf(k, i) : i \in 1..Granted(t, k)} : k \in Key}
<1>0. /\ \A k \in Key : Granted(t, k) \in 0..Len(waiters[k]) /\ Len(waiters[k]) \in Nat
      /\ \A k \in Key : 1..Granted(t, k) \subseteq Positions(k)
  BY GrantedRange DEF QueueInv, TypeOK, Positions
<1>1. /\ granted \subseteq Pending
      /\ \A r \in Pending : r.txn # t
  <2>1. granted \subseteq Pending
    BY <1>0 DEF Pending
  <2> QED
    BY <2>1, PendingType DEF ReleaseAll
<1>2. ASSUME NEW r \in Pending'
      PROVE  r \in Pending \ granted
  <2>1. PICK k \in Key : \E i \in Positions(k)' : r = RequestOf(k, i)'
    BY DEF Pending
  <2>2. PICK i \in Positions(k)' : r = RequestOf(k, i)'
    BY <2>1
  <2> DEFINE j == i + Granted(t, k)
  <2>3. j \in Positions(k) /\ waiters'[k][i] = waiters[k][j]
    BY ReleasedQueue DEF QueueInv, Positions
  <2>4. j \notin 1..Granted(t, k)
    BY <1>0 DEF Positions
  <2> HIDE DEF j
  <2>5. r = RequestOf(k, j) /\ r.txn = waiters[k][j].txn
    BY <2>2, <2>3 DEF RequestOf
  <2>6. r \in Pending
    BY <2>3, <2>5, PendingAt
  <2>7. ASSUME NEW l \in Key, NEW p \in 1..Granted(t, l), r = RequestOf(l, p)
        PROVE  FALSE
    <3>1. waiters[l][p].txn = waiters[k][j].txn /\ p \in Positions(l)
      BY <1>0, <2>5, <2>7 DEF RequestOf
    <3>2. l = k /\ p = j
      BY <2>3, <3>1 DEF QueueInv, OneRequest
    <3> QED
      BY <2>4, <3>2
  <2> QED
    BY <2>6, <2>7
<1>3. ASSUME NEW r \in Pending \ granted
      PROVE  r \in Pending'
  <2>1. PICK k \in Key : \E j \in Positions(k) : r = RequestOf(k, j)
    BY PendingAt
  <2>2. PICK j \in Positions(k) : r = RequestOf(k, j)
    BY <2>1
  <2>3. j \notin 1..Granted(t, k)
    BY <1>3, <2>2
  <2>4. /\ Len(waiters'[k]) = Len(waiters[k]) - Granted(t, k)
        /\ \A i \in 1..Len(waiters'[k]) : waiters'[k][i] = waiters[k][i + Granted(t, k)]
    BY ReleasedQueue DEF QueueInv
  <2>i. PICK i : i = j - Granted(t, k)
    OBVIOUS
  <2>5. i \in 1..Len(waiters'[k]) /\ i + Granted(t, k) = j
    BY <1>0, <2>3, <2>4, <2>i DEF Positions
  <2>6. i \in Positions(k)' /\ waiters'[k][i] = waiters[k][j]
    BY <2>4, <2>5 DEF Positions
  <2>7. r = RequestOf(k, i)'
    BY <2>2, <2>6 DEF RequestOf
  <2> QED
    BY <2>6, <2>7 DEF Pending
<1>4. ASSUME NEW k \in Key, NEW u \in Txn
      PROVE  holders'[k][u] =
               IF u = t THEN "none"
               ELSE IF \E r \in granted : r.txn = u /\ r.key = k
                    THEN (CHOOSE r \in granted : r.txn = u /\ r.key = k).mode
                    ELSE holders[k][u]
  <2>1. CASE u = t
    BY <2>1, ReleasedHolders DEF QueueInv
  <2>2. ASSUME u # t, NEW r \in granted, r.txn = u, r.key = k
        PROVE  /\ holders'[k][u] = r.mode
               /\ r = CHOOSE s \in granted : s.txn = u /\ s.key = k
    <3>1. PICK l \in Key : \E i \in 1..Granted(t, l) : r = RequestOf(l, i)
      OBVIOUS
    <3>2. PICK i \in 1..Granted(t, l) : r = RequestOf(l, i)
      BY <3>1
    <3>3. l = k /\ waiters[k][i].txn = u /\ waiters[k][i].mode = r.mode
      BY <2>2, <3>2 DEF RequestOf
    <3>4. holders'[k][u] = r.mode
      BY <3>3, ReleasedHolders DEF QueueInv
    <3>5. \A s \in granted : s.txn = u => s = r
      BY <1>1, <2>2, PendingUnique
    <3> HIDE DEF granted
    <3> QED
      BY <2>2, <3>4, <3>5
  <2>3. CASE u # t /\ ~\E r \in granted : r.txn = u /\ r.key = k
    <3>1. \A i \in 1..Granted(t, k) : waiters[k][i].txn # u
      <4>1. \A i \in 1..Granted(t, k) : RequestOf(k, i) \in granted
        OBVIOUS
      <4> HIDE DEF granted
      <4> QED
        BY <2>3, <4>1 DEF RequestOf
    <3> QED
      BY <2>3, <3>1, ReleasedHolders DEF QueueInv
  <2> HIDE DEF granted
  <2> QED
    BY <2>1, <2>2, <2>3
<1> HIDE DEF granted
<1>5. holders' = [k \in Key |-> [u \in Txn |->
          IF u = t THEN "none"
          ELSE IF \E r \in granted : r.txn = u /\ r.key = k
               THEN (CHOOSE r \in granted : r.txn = u /\ r.key = k).mode
               ELSE holders[k][u]]]
  <2>1. holders' \in [Key -> [Txn -> Mode \cup {"none"}]]
    BY StepType DEF QueueInv, TypeOK, Next, NextUntimed
  <2> QED
    BY <1>4, <2>1
<1>6. Compatible'
  BY StepCompatible DEF QueueInv, Next, NextUntimed
<1>7. Pending' = Pending \ granted
  BY <1>2, <1>3
<1>8. Service!Admits(holders')
  BY <1>6 DEF Compatible, Service!Admits
<1> QED
  BY <1>1, <1>5, <1>7, <1>8 DEF Service!End, Service!Idle, Pending, RequestOf, Positions

-----------------------------------------------------------------------------
\* Every step is a step of the service or none.
LEMMA StepMaps == QueueInv /\ [Next]_vars => [Service!Next]_(Service!svars)
<1> SUFFICES ASSUME QueueInv, [Next]_vars
             PROVE  Service!Next \/ (holders' = holders /\ Pending' = Pending)
  BY DEF Service!svars, Pending, RequestOf, Positions
<1>1. CASE holders' = holders /\ waiters' = waiters
  BY <1>1 DEF Pending, RequestOf, Positions
<1>2. ASSUME NEW t \in Txn, NEW k \in Key, NEW m \in Mode, AcquireFree(t, k, m) \/ AcquireWait(t, k, m)
      PROVE  Service!Next
  BY <1>2, GrantMaps, WaitMaps DEF Service!Next, Service!Mode, Mode
<1>3. ASSUME NEW t \in Txn, ReleaseAll(t)
      PROVE  Service!Next
  BY <1>3, ReleaseMaps DEF Service!Next
<1>4. ASSUME NEW t \in Txn, CleanUp(t)
      PROVE  Service!Next \/ (holders' = holders /\ Pending' = Pending)
  BY <1>4, CleanUpMaps DEF Service!Next, Pending, RequestOf, Positions
<1>5. \/ holders' = holders /\ waiters' = waiters
      \/ \E t \in Txn, k \in Key, m \in Mode : AcquireFree(t, k, m) \/ AcquireWait(t, k, m)
      \/ \E t \in Txn : CleanUp(t) \/ ReleaseAll(t)
  BY DEF Next, NextUntimed, vars, Begin, Acquire, AcquireHeld, AcquireRefused, SetEvent, Expire
<1> QED
  BY <1>1, <1>2, <1>3, <1>4, <1>5

\* Seen from its locks and its unanswered requests alone, the lock manager is the
\* lock service: locks are granted one request at a time or when another
\* transaction ends, and go all at once (lock_manager.py:9-25).
THEOREM LockServiceImplemented == Spec => ImplementsService
<1>1. Init => Service!Init
  BY DEF Init, Service!Init
<1>2. QueueInv /\ [Next]_vars => [Service!Next]_(Service!svars)
  BY StepMaps
<1> QED
  BY <1>1, <1>2, QueueInvariant, PTL DEF Spec, ImplementsService, Service!Spec
=============================================================================
