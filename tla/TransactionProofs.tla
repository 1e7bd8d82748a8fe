--------------------------- MODULE TransactionProofs ---------------------------
(***************************************************************************)
(* Theorems about Transaction for any set of slots, keys and rows.  What a *)
(* transaction step does to the locks is a step of the lock manager, whose *)
(* invariant and step lemmas are used here under the name LMP.             *)
(***************************************************************************)
EXTENDS Transaction, TLAPS

LMP == INSTANCE LockManagerProofs

\* A transaction is in a call only while it is open, and has then applied
\* nothing yet.
CallsOpen ==
    \A t \in Txn :
        /\ call[t] # NoCall => phase[t] = "open"
        /\ call[t].op \in {"put", "delete"} => Len(ops[t]) < MaxOps
        /\ phase[t] = "open" => applied[t] = 0
        /\ applied[t] <= Len(ops[t])

ExclusiveOrQueued(t, k) ==
    \/ holders[k][t] = "X"
    \/ \E i \in 1..Len(waiters[k]) : waiters[k][i] = [txn |-> t, mode |-> "X"]

LockedOrQueued(t, k) == holders[k][t] # "none" \/ LMP!Queued(t, k)

\* A call that has not failed has its lock or the request for it in the queue.
CallsServed ==
    \A t \in Txn : pc[t] # "failed" =>
        /\ call[t].op \in {"put", "delete"} => ExclusiveOrQueued(t, call[t].key)
        /\ call[t].op = "get" => LockedOrQueued(t, call[t].key)
        /\ call[t].op = "scan" =>
             \A k \in Key \ call[t].todo : call[t].row[k] # NoRow => LockedOrQueued(t, k)

\* What is staged is locked exclusively until the commit has gone through.
OpsLocked ==
    \A t \in Txn :
        \/ phase[t] \in {"open", "committing"}
        \/ phase[t] = "done" /\ 0 < applied[t] /\ applied[t] < Len(ops[t])
        => \A i \in 1..Len(ops[t]) : holders[ops[t][i].key][t] = "X"

\* The overlay shows the last operation staged for each key.
OverlayIsLast ==
    \A t \in Txn, k \in Key : overlay[t][k] # NotRead =>
        \E i \in 1..Len(ops[t]) :
            /\ ops[t][i] = [key |-> k, row |-> overlay[t][k]]
            /\ \A j \in (i + 1)..Len(ops[t]) : ops[t][j].key # k

TxnInv ==
    /\ TypeOK /\ LMP!QueueInv
    /\ CallsOpen /\ CallsServed /\ OpsLocked /\ ReadsLocked /\ OverlayIsLast

-----------------------------------------------------------------------------
(* The lock manager under the names of Transaction and of its proofs. *)

LEMMA SameInit == LM!Init => LMP!Init
BY DEF LM!Init, LMP!Init

\* The lock manager has the same types in both instances,
LEMMA SameType == LM!TypeOK <=> LMP!TypeOK
BY DEF LM!TypeOK, LMP!TypeOK, LM!Request, LMP!Request, LM!Mode, LMP!Mode, LM!PC, LMP!PC

\* and the same actions: begin,
LEMMA SameBegin == \A t : LM!Begin(t) <=> LMP!Begin(t)
BY DEF LM!Begin, LMP!Begin

\* acquire,
LEMMA SameAcquire == \A t, k, m : LM!Acquire(t, k, m) <=> LMP!Acquire(t, k, m)
BY DEF LM!Acquire, LMP!Acquire, LM!AcquireHeld, LMP!AcquireHeld, LM!AcquireFree, LMP!AcquireFree,
       LM!AcquireWait, LMP!AcquireWait, LM!AcquireRefused, LMP!AcquireRefused, LM!Asks, LMP!Asks,
       LM!AlreadyHolds, LMP!AlreadyHolds, LM!CanGrant, LMP!CanGrant, LM!HasCycle, LMP!HasCycle,
       LM!EdgesFor, LMP!EdgesFor, LM!OtherHolders, LMP!OtherHolders

\* and release_all;
LEMMA SameReleaseAll == \A t : LM!ReleaseAll(t) <=> LMP!ReleaseAll(t)
<1>1. \A h, q : LM!Grantable(h, q) = LMP!Grantable(h, q)
  BY DEF LM!Grantable, LMP!Grantable, LM!AfterGrants, LMP!AfterGrants, LM!CanGrant, LMP!CanGrant
<1>2. \A t, k : /\ LM!Dropped(t, k) = LMP!Dropped(t, k)
                /\ LM!Advanced(t, k) = LMP!Advanced(t, k)
  BY <1>1 DEF LM!Advanced, LMP!Advanced, LM!Dropped, LMP!Dropped
<1>3. \A t : LM!Woken(t) = LMP!Woken(t)
  BY <1>2 DEF LM!Woken, LMP!Woken
<1>4. \A h, q, n : LM!AfterGrants(h, q, n) = LMP!AfterGrants(h, q, n)
  BY DEF LM!AfterGrants, LMP!AfterGrants
<1>5. \A s : LM!Cardinality(s) = LMP!Cardinality(s)
  BY DEF LM!Cardinality, LMP!Cardinality, LM!IsFiniteSet, LMP!IsFiniteSet
<1> QED
  BY <1>2, <1>3, <1>4, <1>5 DEF LM!ReleaseAll, LMP!ReleaseAll

\* The steps inside the lock manager are the same in both instances.
LEMMA SameLockStep ==
    /\ \A t, u : LM!SetEvent(t, u) <=> LMP!SetEvent(t, u)
    /\ \A t : LM!Expire(t) <=> LMP!Expire(t)
    /\ \A t : LM!CleanUp(t) <=> LMP!CleanUp(t)
BY DEF LM!SetEvent, LMP!SetEvent, LM!Expire, LMP!Expire, LM!CleanUp, LMP!CleanUp,
       LM!Queued, LMP!Queued

\* The key and the row of a call have their types.
LEMMA CallType ==
    ASSUME TypeOK, NEW t \in Txn
    PROVE  /\ call[t] = NoCall \/ call[t].op \in {"put", "delete", "get", "scan"}
           /\ call[t].op \in {"put", "delete", "get"} => call[t].key \in Key /\ call[t].row \in Content
           /\ call[t].op = "scan" => call[t].todo \in SUBSET Key /\ call[t].row \in [Key -> Content]
<1>1. call[t] \in Call \cup {NoCall}
  BY DEF TypeOK
<1> QED
  BY <1>1 DEF Call, NoCall

\* Every step does to the locks what the lock manager allows.
LEMMA StepLocks == TypeOK /\ [Next]_vars => [LMP!Next]_(LMP!vars)
<1> SUFFICES ASSUME TypeOK, Next
             PROVE  LMP!Next \/ UNCHANGED locks
  BY DEF vars, locks, LMP!vars
<1>1. \A t \in Txn, k \in Key : (LM!Acquire(t, k, "S") \/ LM!Acquire(t, k, "X")) => LMP!Next
  BY SameAcquire DEF LMP!Next, LMP!NextUntimed, LMP!Mode
<1>2. \A t \in Txn : LM!Begin(t) \/ LM!ReleaseAll(t) => LMP!Next
  BY SameBegin, SameReleaseAll DEF LMP!Next, LMP!NextUntimed
<1>3. LockStep => LMP!Next
  BY SameLockStep DEF LockStep, LMP!Next, LMP!NextUntimed
<1> QED
  <2>1. ASSUME NEW t \in Txn, NEW k \in Key, NEW v \in Content, CallWrite(t, k, v)
        PROVE  LMP!Next
    BY <1>1, <2>1 DEF CallWrite
  <2>2. ASSUME NEW t \in Txn, NEW k \in Key, CallGet(t, k)
        PROVE  LMP!Next
    BY <1>1, <2>2 DEF CallGet
  <2>3. ASSUME NEW t \in Txn, ScanLock(t)
        PROVE  LMP!Next
    BY <1>1, <2>3, CallType DEF ScanLock
  <2>4. ASSUME NEW t \in Txn, BeginTxn(t) \/ CommitEnd(t) \/ Rollback(t)
        PROVE  LMP!Next
    BY <1>2, <2>4 DEF BeginTxn, CommitEnd, Rollback
  <2>5. ASSUME NEW t \in Txn,
               \/ Stage(t) \/ Get(t) \/ CallScan(t) \/ ScanReturn(t)
               \/ CommitReadOnly(t) \/ CommitStart(t) \/ ApplyOp(t) \/ ApplyFails(t)
        PROVE  UNCHANGED locks
    BY <2>5 DEF Stage, Get, CallScan, ScanReturn, CommitReadOnly, CommitStart, ApplyOp, ApplyFails
  <2> QED
    BY <1>3, <2>1, <2>2, <2>3, <2>4, <2>5 DEF Next

\* What the lemmas of the lock manager assume of its constants.
LEMMA LockAssumptions == ReadOnly \subseteq Txn /\ LMP!IsFiniteSet(Txn)
BY ReadOnlyAssumption, FiniteTxnAssumption DEF IsFiniteSet, LMP!IsFiniteSet

\* Every step keeps the invariant of the queues.
LEMMA StepQueue == TypeOK /\ LMP!QueueInv /\ [Next]_vars => LMP!QueueInv'
BY StepLocks, LockAssumptions, LMP!StepQueueInv

\* A request that was refused or has timed out leaves nothing to do but to end.
LEMMA FailedStays ==
    ASSUME LMP!QueueInv, [LMP!Next]_(LMP!vars), NEW t \in Txn, ~LMP!ReleaseAll(t), pc[t] = "failed"
    PROVE  pc'[t] = "failed"
<1>1. pc \in [Txn -> LMP!PC]
  BY DEF LMP!QueueInv, LMP!TypeOK
<1>2. ASSUME NEW u \in Txn, LMP!ReleaseAll(u)
      PROVE  pc'[t] = "failed"
  BY <1>1, <1>2 DEF LMP!ReleaseAll
<1>3. ASSUME NEW u \in Txn, NEW l, NEW m, LMP!Acquire(u, l, m)
      PROVE  pc'[t] = "failed"
  BY <1>1, <1>3 DEF LMP!Acquire, LMP!AcquireHeld, LMP!AcquireFree, LMP!AcquireWait,
                    LMP!AcquireRefused, LMP!Asks
<1>4. ASSUME NEW u \in Txn, NEW v \in Txn,
             LMP!Begin(u) \/ LMP!SetEvent(u, v) \/ LMP!Expire(u) \/ LMP!CleanUp(u)
      PROVE  pc'[t] = "failed"
  BY <1>1, <1>4 DEF LMP!Begin, LMP!SetEvent, LMP!Expire, LMP!CleanUp
<1> QED
  BY <1>2, <1>3, <1>4 DEF LMP!Next, LMP!NextUntimed, LMP!vars

\* Only the end of its own transaction takes a lock or a request from a slot.
LEMMA LocksStay ==
    ASSUME LMP!QueueInv, [LMP!Next]_(LMP!vars), NEW t \in Txn, ~LMP!ReleaseAll(t), NEW k \in Key
    PROVE  /\ holders[k][t] # "none" => holders'[k][t] \in {holders[k][t], "X"}
           /\ pc'[t] # "failed" /\ ExclusiveOrQueued(t, k) => ExclusiveOrQueued(t, k)'
           /\ pc'[t] # "failed" /\ LockedOrQueued(t, k) => LockedOrQueued(t, k)'
<1>1. holders[k][t] # "none" => holders'[k][t] \in {holders[k][t], "X"}
  BY LockAssumptions, LMP!StepKeepsLocks
<1>2. ASSUME pc'[t] # "failed", NEW i \in 1..Len(waiters[k]), waiters[k][i].txn = t
      PROVE  \/ \E j \in 1..Len(waiters'[k]) : waiters'[k][j] = waiters[k][i]
             \/ holders'[k][t] = waiters[k][i].mode
  BY <1>2, LockAssumptions, LMP!StepKeepsRequest DEF LMP!Positions
<1>3. \A i \in 1..Len(waiters[k]) : waiters[k][i].mode \in {"S", "X"}
  BY LockAssumptions, LMP!RequestAt DEF LMP!Positions, LMP!Mode, LMP!QueueInv
<1>4. pc'[t] # "failed" /\ ExclusiveOrQueued(t, k) => ExclusiveOrQueued(t, k)'
  BY <1>1, <1>2 DEF ExclusiveOrQueued
<1>5. pc'[t] # "failed" /\ LockedOrQueued(t, k) => LockedOrQueued(t, k)'
  BY <1>1, <1>2, <1>3 DEF LockedOrQueued, LMP!Queued
<1> QED
  BY <1>1, <1>4, <1>5

\* Whoever is between two calls of the lock manager has no request in a queue.
LEMMA RunningUnqueued ==
    ASSUME LMP!QueueInv, NEW t \in Txn, pc[t] = "running", NEW k \in Key
    PROVE  /\ ExclusiveOrQueued(t, k) => holders[k][t] = "X"
           /\ LockedOrQueued(t, k) => holders[k][t] # "none"
<1>1. \A i \in 1..Len(waiters[k]) : waiters[k][i].txn # t
  BY DEF LMP!QueueInv, LMP!QueuedWait, LMP!Positions
<1> QED
  BY <1>1 DEF ExclusiveOrQueued, LockedOrQueued, LMP!Queued

\* acquire raises, or leaves its lock or its request behind.
LEMMA AcquireServes ==
    ASSUME LMP!QueueInv, NEW t \in Txn, NEW k \in Key, NEW m \in LMP!Mode, LMP!Acquire(t, k, m)
    PROVE  /\ pc'[t] \in {"running", "blocked", "failed"} /\ ~LMP!ReleaseAll(t)
           /\ pc'[t] # "failed" /\ m = "X" => ExclusiveOrQueued(t, k)'
           /\ pc'[t] # "failed" => LockedOrQueued(t, k)'
<1>1. pc'[t] \in {"running", "blocked", "failed"} /\ ~LMP!ReleaseAll(t)
  BY DEF LMP!QueueInv, LMP!TypeOK, LMP!Acquire, LMP!AcquireHeld, LMP!AcquireFree, LMP!AcquireWait,
         LMP!AcquireRefused, LMP!Asks, LMP!ReleaseAll
<1>2. CASE LMP!AcquireHeld(t, k, m) \/ LMP!AcquireFree(t, k, m)
  <2>1. holders'[k][t] # "none" /\ (m = "X" => holders'[k][t] = "X")
    BY <1>2 DEF LMP!AcquireHeld, LMP!AcquireFree, LMP!AlreadyHolds, LMP!QueueInv, LMP!TypeOK, LMP!Mode
  <2> QED
    BY <1>1, <2>1 DEF ExclusiveOrQueued, LockedOrQueued
<1>3. CASE LMP!AcquireWait(t, k, m)
  <2> DEFINE r == [txn |-> t, mode |-> m]
  <2>1. r \in LMP!Request /\ waiters[k] \in Seq(LMP!Request)
    BY DEF LMP!Request, LMP!QueueInv, LMP!TypeOK
  <2>2. waiters'[k] = Append(waiters[k], r)
    BY <1>3 DEF LMP!AcquireWait, LMP!QueueInv, LMP!TypeOK
  <2>3. r.txn = t
    OBVIOUS
  <2> HIDE DEF r
  <2>4. Len(waiters'[k]) \in 1..Len(waiters'[k]) /\ waiters'[k][Len(waiters'[k])] = r
    BY <2>1, <2>2
  <2> QED
    BY <1>1, <2>3, <2>4 DEF r, ExclusiveOrQueued, LockedOrQueued, LMP!Queued
<1>4. CASE LMP!AcquireRefused(t, k, m)
  BY <1>1, <1>4 DEF LMP!AcquireRefused, LMP!QueueInv, LMP!TypeOK
<1> QED
  BY <1>1, <1>2, <1>3, <1>4 DEF LMP!Acquire

-----------------------------------------------------------------------------
(* What a step leaves of one transaction. *)

Own(t) ==
    \/ \E k \in Key, v \in Content : CallWrite(t, k, v)
    \/ \E k \in Key : CallGet(t, k)
    \/ BeginTxn(t) \/ Stage(t) \/ Get(t)
    \/ CallScan(t) \/ ScanLock(t) \/ ScanReturn(t)
    \/ CommitReadOnly(t) \/ CommitStart(t) \/ ApplyOp(t) \/ ApplyFails(t)
    \/ CommitEnd(t) \/ Rollback(t)

Untouched(t) ==
    /\ phase'[t] = phase[t] /\ call'[t] = call[t] /\ ops'[t] = ops[t]
    /\ overlay'[t] = overlay[t] /\ applied'[t] = applied[t] /\ read'[t] = read[t]
    /\ ~LMP!ReleaseAll(t)

\* Who ends leaves the lock manager idle; nothing else makes a slot idle.
LEMMA EndsIdle ==
    ASSUME LM!TypeOK, NEW t \in Txn
    PROVE  /\ UNCHANGED locks => ~LMP!ReleaseAll(t)
           /\ LockStep => ~LMP!ReleaseAll(t)
           /\ \A u \in Txn \ {t} : LM!Begin(u) \/ LM!ReleaseAll(u) => ~LMP!ReleaseAll(t)
           /\ \A u \in Txn \ {t} : \A k, m : LM!Acquire(u, k, m) => ~LMP!ReleaseAll(t)
<1>1. pc \in [Txn -> LM!PC]
  BY DEF LM!TypeOK
<1>2. LMP!ReleaseAll(t) => pc[t] \in {"running", "failed"} /\ pc'[t] = "idle"
  BY <1>1 DEF LMP!ReleaseAll
<1>3. UNCHANGED locks => ~LMP!ReleaseAll(t)
  BY <1>2 DEF locks
<1>4. ASSUME NEW v \in Txn, NEW w \in Txn, LM!SetEvent(v, w) \/ LM!Expire(v) \/ LM!CleanUp(v)
      PROVE  ~LMP!ReleaseAll(t)
  BY <1>1, <1>2, <1>4 DEF LM!SetEvent, LM!Expire, LM!CleanUp
<1>5. ASSUME NEW u \in Txn \ {t}, LM!Begin(u) \/ LM!ReleaseAll(u)
      PROVE  ~LMP!ReleaseAll(t)
  BY <1>1, <1>2, <1>5 DEF LM!Begin, LM!ReleaseAll
<1>6. ASSUME NEW u \in Txn \ {t}, NEW k, NEW m, LM!Acquire(u, k, m)
      PROVE  ~LMP!ReleaseAll(t)
  BY <1>1, <1>2, <1>6 DEF LM!Acquire, LM!AcquireHeld, LM!AcquireFree, LM!AcquireWait,
                          LM!AcquireRefused
<1> QED
  BY <1>3, <1>4, <1>5, <1>6 DEF LockStep

\* A step that is not of a transaction leaves its state alone.
LEMMA OwnStep ==
    ASSUME TypeOK, [Next]_vars, NEW t \in Txn
    PROVE  Own(t) \/ Untouched(t)
<1> SUFFICES ASSUME ~Own(t)
             PROVE  Untouched(t)
  OBVIOUS
<1>1. CASE UNCHANGED vars \/ LockStep
  <2>1. ~LMP!ReleaseAll(t)
    BY <1>1, EndsIdle DEF vars, TypeOK
  <2> QED
    BY <1>1, <2>1 DEF Untouched, vars, local, LockStep
<1>2. ASSUME NEW u \in Txn, u # t, NEW k \in Key, NEW v \in Content, CallWrite(u, k, v)
      PROVE  Untouched(t)
  <2>1. ~LMP!ReleaseAll(t)
    BY <1>2, EndsIdle DEF CallWrite, TypeOK
  <2> QED
    BY <1>2, <2>1 DEF CallWrite, Untouched, TypeOK
<1>3. ASSUME NEW u \in Txn, u # t, NEW k \in Key, CallGet(u, k)
      PROVE  Untouched(t)
  <2>1. ~LMP!ReleaseAll(t)
    BY <1>3, EndsIdle DEF CallGet, TypeOK
  <2> QED
    BY <1>3, <2>1 DEF CallGet, Untouched, TypeOK
<1>4. ASSUME NEW u \in Txn, u # t, BeginTxn(u) \/ CommitEnd(u) \/ Rollback(u)
      PROVE  Untouched(t)
  <2>1. CASE BeginTxn(u)
    <3>1. ~LMP!ReleaseAll(t)
      BY <1>4, <2>1, EndsIdle DEF BeginTxn, TypeOK
    <3> QED
      BY <1>4, <2>1, <3>1 DEF BeginTxn, Untouched, TypeOK
  <2>2. CASE CommitEnd(u)
    <3>1. ~LMP!ReleaseAll(t)
      BY <1>4, <2>2, EndsIdle DEF CommitEnd, TypeOK
    <3> QED
      BY <1>4, <2>2, <3>1 DEF CommitEnd, Untouched, TypeOK
  <2>3. CASE Rollback(u)
    <3>1. ~LMP!ReleaseAll(t)
      BY <1>4, <2>3, EndsIdle DEF Rollback, TypeOK
    <3> QED
      BY <1>4, <2>3, <3>1 DEF Rollback, Untouched, TypeOK
  <2> QED
    BY <1>4, <2>1, <2>2, <2>3
<1>5. ASSUME NEW u \in Txn, u # t, ScanLock(u)
      PROVE  Untouched(t)
  <2>1. ~LMP!ReleaseAll(t)
    BY <1>5, EndsIdle DEF ScanLock, TypeOK
  <2> QED
    BY <1>5, <2>1 DEF ScanLock, Untouched, TypeOK
<1>6. ASSUME NEW u \in Txn, u # t, Stage(u) \/ Get(u) \/ CallScan(u) \/ ScanReturn(u)
      PROVE  Untouched(t)
  <2>1. CASE Stage(u)
    <3>1. ~LMP!ReleaseAll(t)
      BY <1>6, <2>1, EndsIdle DEF Stage, TypeOK
    <3> QED
      BY <1>6, <2>1, <3>1 DEF Stage, Untouched, TypeOK
  <2>2. CASE Get(u)
    <3>1. ~LMP!ReleaseAll(t)
      BY <1>6, <2>2, EndsIdle DEF Get, TypeOK
    <3> QED
      BY <1>6, <2>2, <3>1 DEF Get, Untouched, TypeOK
  <2>3. CASE CallScan(u)
    <3>1. ~LMP!ReleaseAll(t)
      BY <1>6, <2>3, EndsIdle DEF CallScan, TypeOK
    <3> QED
      BY <1>6, <2>3, <3>1 DEF CallScan, Untouched, TypeOK
  <2>4. CASE ScanReturn(u)
    <3>1. ~LMP!ReleaseAll(t)
      BY <1>6, <2>4, EndsIdle DEF ScanReturn, TypeOK
    <3> QED
      BY <1>6, <2>4, <3>1 DEF ScanReturn, Untouched, TypeOK
  <2> QED
    BY <1>6, <2>1, <2>2, <2>3, <2>4
<1>7. ASSUME NEW u \in Txn, u # t,
             CommitReadOnly(u) \/ CommitStart(u) \/ ApplyOp(u) \/ ApplyFails(u)
      PROVE  Untouched(t)
  <2>1. ~LMP!ReleaseAll(t)
    BY <1>7, EndsIdle DEF CommitReadOnly, CommitStart, ApplyOp, ApplyFails, TypeOK
  <2> QED
    BY <1>7, <2>1 DEF CommitReadOnly, CommitStart, ApplyOp, ApplyFails, Untouched, TypeOK
<1> QED
  BY <1>1, <1>2, <1>3, <1>4, <1>5, <1>6, <1>7 DEF Next, Own

-----------------------------------------------------------------------------
Op == [key: Key, row: Content]

\* The part of the type invariant that is about the transactions.
LocalType ==
    /\ tree \in [Key -> Content]
    /\ phase \in [Txn -> {"none", "open", "committing", "done"}]
    /\ call \in [Txn -> Call \cup {NoCall}]
    /\ ops \in [Txn -> Seq(Op)]
    /\ \A t \in Txn : Len(ops[t]) <= MaxOps
    /\ overlay \in [Txn -> [Key -> Content \cup {NotRead}]]
    /\ applied \in [Txn -> 0..MaxOps]
    /\ read \in [Txn -> [Key -> Content \cup {NotRead}]]

\* The types are those of the lock manager and those of the transactions,
LEMMA TypeParts == TypeOK <=> LMP!TypeOK /\ LocalType
BY SameType DEF TypeOK, LocalType, Op

\* before a step and after it.
LEMMA TypePartsNext == (TypeOK <=> LMP!TypeOK /\ LocalType)'
BY TypeParts, PTL

\* Every step keeps the types of the transactions.
LEMMA StepLocalType ==
    ASSUME TypeOK, CallsOpen, [Next]_vars
    PROVE  LocalType'
<1>1. LocalType
  BY TypeParts
<1>2. CASE UNCHANGED vars \/ LockStep
  BY <1>1, <1>2 DEF vars, local, LockStep, LocalType
<1>3. ASSUME NEW t \in Txn, NEW k \in Key, NEW v \in Content, CallWrite(t, k, v)
      PROVE  LocalType'
  <2>1. [op |-> IF v = NoRow THEN "delete" ELSE "put", key |-> k, row |-> v] \in Call
    BY DEF Call
  <2> QED
    BY <1>1, <1>3, <2>1 DEF CallWrite, LocalType
<1>4. ASSUME NEW t \in Txn, NEW k \in Key, CallGet(t, k)
      PROVE  LocalType'
  <2>1. [op |-> "get", key |-> k, row |-> NoRow] \in Call
    BY DEF Call, Content
  <2> QED
    BY <1>1, <1>4, <2>1 DEF CallGet, LocalType
<1>5. ASSUME NEW t \in Txn, BeginTxn(t)
      PROVE  LocalType'
  <2>1. <<>> \in Seq(Op) /\ Len(<<>>) <= MaxOps /\ 0 \in 0..MaxOps
    BY MaxOpsAssumption
  <2>2. Nothing \in [Key -> Content \cup {NotRead}]
    BY DEF Nothing
  <2> QED
    BY <1>1, <1>5, <2>1, <2>2 DEF BeginTxn, LocalType
<1>6. ASSUME NEW t \in Txn, Stage(t)
      PROVE  LocalType'
  <2>1. [key |-> call[t].key, row |-> call[t].row] \in Op /\ Len(ops[t]) < MaxOps
        /\ call[t].key \in Key /\ call[t].row \in Content
    BY <1>6, CallType DEF Stage, Op, CallsOpen
  <2> DEFINE new == Append(ops[t], [key |-> call[t].key, row |-> call[t].row])
  <2>2. ops[t] \in Seq(Op) /\ Len(ops[t]) \in Nat
    BY <1>1 DEF LocalType
  <2>3. new \in Seq(Op) /\ Len(new) <= MaxOps
    BY <2>1, <2>2, MaxOpsAssumption
  <2>4. ops' = [ops EXCEPT ![t] = new]
    BY <1>6 DEF Stage
  <2> HIDE DEF new
  <2>5. ops' \in [Txn -> Seq(Op)] /\ \A u \in Txn : Len(ops'[u]) <= MaxOps
    BY <1>1, <2>3, <2>4 DEF LocalType
  <2> QED
    BY <1>1, <1>6, <2>1, <2>5 DEF Stage, LocalType
<1>7. ASSUME NEW t \in Txn, Get(t)
      PROVE  LocalType'
  <2>1. call[t].key \in Key
    BY <1>7, CallType DEF Get
  <2> QED
    BY <1>1, <1>7, <2>1 DEF Get, LocalType
<1>8. ASSUME NEW t \in Txn, CallScan(t)
      PROVE  LocalType'
  <2>1. Overlaid(t) \in [Key -> Content]
    BY <1>1 DEF Overlaid, LocalType
  <2>2. [op |-> "scan", row |-> Overlaid(t), todo |-> {k \in Key : Overlaid(t)[k] # NoRow}] \in Call
    BY <2>1 DEF Call
  <2> QED
    BY <1>1, <1>8, <2>2 DEF CallScan, LocalType
<1>9. ASSUME NEW t \in Txn, ScanLock(t)
      PROVE  LocalType'
  <2>1. PICK k \in call[t].todo : call' = [call EXCEPT ![t].todo = @ \ {k}]
    BY <1>9 DEF ScanLock
  <2>2. [call[t] EXCEPT !.todo = @ \ {k}] \in Call
    <3>1. call[t] \in Call \cup {NoCall} /\ call[t].op = "scan"
      BY <1>1, <1>9 DEF ScanLock, LocalType
    <3>2. call[t] \in [op: {"scan"}, todo: SUBSET Key, row: [Key -> Content]]
      BY <3>1 DEF Call, NoCall
    <3>3. [call[t] EXCEPT !.todo = @ \ {k}] \in [op: {"scan"}, todo: SUBSET Key, row: [Key -> Content]]
      BY <3>2
    <3> QED
      BY <3>3 DEF Call
  <2> QED
    BY <1>1, <1>9, <2>1, <2>2 DEF ScanLock, LocalType
<1>10. ASSUME NEW t \in Txn, ScanReturn(t)
       PROVE  LocalType'
  <2>1. call[t].row \in [Key -> Content]
    BY <1>10, CallType DEF ScanReturn
  <2> QED
    BY <1>1, <1>10, <2>1 DEF ScanReturn, LocalType
<1>11. ASSUME NEW t \in Txn, ApplyOp(t)
       PROVE  LocalType'
  <2>1. applied[t] \in Nat /\ ops[t] \in Seq(Op) /\ Len(ops[t]) <= MaxOps /\ applied[t] < Len(ops[t])
    BY <1>1, <1>11 DEF ApplyOp, LocalType
  <2>2. applied[t] + 1 \in 0..MaxOps /\ NextOp(t) \in Op
    BY <2>1, MaxOpsAssumption DEF NextOp
  <2> QED
    BY <1>1, <1>11, <2>2 DEF ApplyOp, LocalType, Op
<1>12. ASSUME NEW t \in Txn, ApplyFails(t)
       PROVE  LocalType'
  <2>1. tree' \in [Key -> Content]
    BY <1>1, <1>12 DEF ApplyFails, LocalType, Content
  <2> QED
    BY <1>1, <1>12, <2>1 DEF ApplyFails, LocalType
<1>13. ASSUME NEW t \in Txn, CommitReadOnly(t) \/ CommitStart(t) \/ CommitEnd(t) \/ Rollback(t)
       PROVE  LocalType'
  BY <1>1, <1>13 DEF CommitReadOnly, CommitStart, CommitEnd, Rollback, LocalType
<1> QED
  BY <1>2, <1>3, <1>4, <1>5, <1>6, <1>7, <1>8, <1>9, <1>10, <1>11, <1>12, <1>13 DEF Next

-----------------------------------------------------------------------------
(* The inductive invariant, one lemma per part. *)

LEMMA EndsOnce ==
    ASSUME TypeOK, LMP!QueueInv, [Next]_vars, NEW t \in Txn, LMP!ReleaseAll(t)
    PROVE  CommitEnd(t) \/ Rollback(t)
<1>1. Own(t)
  BY OwnStep DEF Untouched
<1>2. pc[t] \in {"running", "failed"}
  BY DEF LMP!ReleaseAll
<1>3. ~BeginTxn(t)
  BY <1>2 DEF BeginTxn, LM!Begin
<1>4. \A k \in Key : ~LM!Acquire(t, k, "S") /\ ~LM!Acquire(t, k, "X")
  BY AcquireServes, SameAcquire DEF LMP!Mode
<1>5. ~UNCHANGED locks
  BY EndsIdle DEF TypeOK
<1>6. \A k \in Key : ~CallGet(t, k) /\ \A v \in Content : ~CallWrite(t, k, v)
  BY <1>4 DEF CallWrite, CallGet
<1>7. ~ScanLock(t)
  BY <1>4, CallType DEF ScanLock
<1>8. ~Stage(t) /\ ~Get(t) /\ ~CallScan(t) /\ ~ScanReturn(t)
  BY <1>5 DEF Stage, Get, CallScan, ScanReturn
<1>9. ~CommitReadOnly(t) /\ ~CommitStart(t) /\ ~ApplyOp(t) /\ ~ApplyFails(t)
  BY <1>5 DEF CommitReadOnly, CommitStart, ApplyOp, ApplyFails
<1> QED
  BY <1>1, <1>3, <1>6, <1>7, <1>8, <1>9 DEF Own

\* Until it commits or rolls back, a transaction keeps what it holds.
LEMMA LocksKept ==
    ASSUME TypeOK, LMP!QueueInv, [Next]_vars, NEW t \in Txn, ~CommitEnd(t), ~Rollback(t)
    PROVE  /\ pc[t] = "failed" => pc'[t] = "failed"
           /\ \A k \in Key :
                /\ holders[k][t] # "none" => holders'[k][t] \in {holders[k][t], "X"}
                /\ pc'[t] # "failed" /\ ExclusiveOrQueued(t, k) => ExclusiveOrQueued(t, k)'
                /\ pc'[t] # "failed" /\ LockedOrQueued(t, k) => LockedOrQueued(t, k)'
<1>1. ~LMP!ReleaseAll(t)
  BY EndsOnce
<1>2. [LMP!Next]_(LMP!vars)
  BY StepLocks
<1> QED
  BY <1>1, <1>2, LocksStay, FailedStays

\* Every step keeps CallsOpen.
LEMMA StepCallsOpen ==
    ASSUME TypeOK, CallsOpen, [Next]_vars
    PROVE  CallsOpen'
<1> SUFFICES ASSUME NEW t \in Txn
             PROVE  /\ call'[t] # NoCall => phase'[t] = "open"
                    /\ call'[t].op \in {"put", "delete"} => Len(ops'[t]) < MaxOps
                    /\ phase'[t] = "open" => applied'[t] = 0
                    /\ applied'[t] <= Len(ops'[t])
  BY DEF CallsOpen
<1>1. LocalType
  BY TypeParts
<1>2. CASE Untouched(t)
  BY <1>2 DEF Untouched, CallsOpen
<1>3. NoCall.op = "none"
  BY DEF NoCall
<1>4. CASE \E k \in Key, v \in Content : CallWrite(t, k, v)
  BY <1>1, <1>4 DEF CallWrite, Ready, CallsOpen, LocalType
<1>5. CASE \E k \in Key : CallGet(t, k)
  BY <1>1, <1>5 DEF CallGet, Ready, CallsOpen, LocalType
<1>6. CASE BeginTxn(t)
  <2>1. call'[t] = NoCall /\ applied'[t] = 0 /\ ops'[t] = <<>>
    BY <1>1, <1>6 DEF BeginTxn, CallsOpen, LocalType
  <2> QED
    BY <1>3, <2>1
<1>7. CASE Stage(t)
  <2>1. [key |-> call[t].key, row |-> call[t].row] \in Op
    BY <1>7, CallType DEF Stage, Op
  <2>2. ops'[t] = Append(ops[t], [key |-> call[t].key, row |-> call[t].row])
    BY <1>1, <1>7 DEF Stage, LocalType
  <2>3. ops[t] \in Seq(Op) /\ applied[t] \in Nat
    BY <1>1 DEF LocalType
  <2>4. Len(ops'[t]) = Len(ops[t]) + 1 /\ Len(ops[t]) \in Nat
    BY <2>1, <2>2, <2>3
  <2> QED
    BY <1>1, <1>3, <1>7, <2>3, <2>4 DEF Stage, CallsOpen, LocalType
<1>8. CASE Get(t) \/ CallScan(t) \/ ScanLock(t) \/ ScanReturn(t)
  <2>1. CASE Get(t) \/ ScanReturn(t)
    BY <1>1, <1>3, <2>1 DEF Get, ScanReturn, CallsOpen, LocalType
  <2>2. CASE CallScan(t)
    BY <1>1, <2>2 DEF CallScan, Ready, CallsOpen, LocalType
  <2>3. CASE ScanLock(t)
    <3>1. call[t] # NoCall
      BY <1>3, <2>3 DEF ScanLock
    <3>2. PICK k \in call[t].todo : call' = [call EXCEPT ![t].todo = @ \ {k}]
      BY <2>3 DEF ScanLock
    <3>3. call'[t].op = "scan"
      <4>1. call[t] \in Call \cup {NoCall} /\ call[t].op = "scan"
        BY <1>1, <2>3 DEF ScanLock, LocalType
      <4>2. call[t] \in [op: {"scan"}, todo: SUBSET Key, row: [Key -> Content]]
        BY <4>1 DEF Call, NoCall
      <4>3. call'[t] = [call[t] EXCEPT !.todo = @ \ {k}]
        BY <1>1, <3>2 DEF LocalType
      <4> QED
        BY <4>2, <4>3
    <3> QED
      BY <1>1, <2>3, <3>1, <3>3 DEF ScanLock, CallsOpen
  <2> QED
    BY <1>8, <2>1, <2>2, <2>3
<1>9. CASE ApplyOp(t)
  <2>1. applied'[t] = applied[t] + 1 /\ applied[t] \in Nat /\ Len(ops[t]) \in Nat
    BY <1>1, <1>9 DEF ApplyOp, LocalType
  <2> QED
    BY <1>9, <2>1 DEF ApplyOp, CallsOpen
<1>10. CASE ApplyFails(t) \/ CommitReadOnly(t) \/ CommitStart(t) \/ CommitEnd(t) \/ Rollback(t)
  BY <1>1, <1>3, <1>10 DEF ApplyFails, CommitReadOnly, CommitStart, CommitEnd, Rollback, Ready,
     CallsOpen, LocalType
<1> QED
  BY <1>2, <1>4, <1>5, <1>6, <1>7, <1>8, <1>9, <1>10, OwnStep DEF Own

\* A request that a call makes is in the queue or granted as long as it runs.
LEMMA StepCallsServed ==
    ASSUME TypeOK, LMP!QueueInv, CallsOpen, CallsServed, [Next]_vars
    PROVE  CallsServed'
<1> SUFFICES ASSUME NEW t \in Txn, pc'[t] # "failed"
             PROVE  /\ call'[t].op \in {"put", "delete"} => ExclusiveOrQueued(t, call[t].key)'
                    /\ call'[t].op = "get" => LockedOrQueued(t, call[t].key)'
                    /\ call'[t].op = "scan" =>
                         \A k \in Key \ call'[t].todo : call'[t].row[k] # NoRow => LockedOrQueued(t, k)'
  BY DEF CallsServed
<1>1. LocalType
  BY TypeParts
<1>2. NoCall.op = "none"
  BY DEF NoCall
<1>3. ASSUME call'[t].op = "none"
      PROVE  /\ call'[t].op \in {"put", "delete"} => ExclusiveOrQueued(t, call[t].key)'
             /\ call'[t].op = "get" => LockedOrQueued(t, call[t].key)'
             /\ call'[t].op = "scan" =>
                  \A k \in Key \ call'[t].todo : call'[t].row[k] # NoRow => LockedOrQueued(t, k)'
  BY <1>3
<1>4. CASE call'[t] = call[t] /\ ~CommitEnd(t) /\ ~Rollback(t)
  <2>1. pc[t] # "failed"
    BY <1>4, LocksKept
  <2> QED
    BY <1>4, <2>1, LocksKept, CallType, SMTT(20) DEF CallsServed, ExclusiveOrQueued, LockedOrQueued, LMP!Queued
<1>5. ASSUME NEW k \in Key, NEW v \in Content, CallWrite(t, k, v)
      PROVE  call'[t].op \in {"put", "delete"} /\ call'[t].key = k /\ ExclusiveOrQueued(t, k)'
  <2>1. LMP!Acquire(t, k, "X")
    BY <1>5, SameAcquire DEF CallWrite
  <2>2. ExclusiveOrQueued(t, k)'
    BY <2>1, AcquireServes DEF LMP!Mode
  <2> QED
    BY <1>1, <1>5, <2>2 DEF CallWrite, LocalType
<1>6. ASSUME NEW k \in Key, CallGet(t, k)
      PROVE  call'[t].op = "get" /\ call'[t].key = k /\ LockedOrQueued(t, k)'
  <2>1. LMP!Acquire(t, k, "S")
    BY <1>6, SameAcquire DEF CallGet
  <2>2. LockedOrQueued(t, k)'
    BY <2>1, AcquireServes DEF LMP!Mode
  <2> QED
    BY <1>1, <1>6, <2>2 DEF CallGet, LocalType
<1>7. CASE CallScan(t)
  <2>1. call'[t] = [op |-> "scan", row |-> Overlaid(t), todo |-> {k \in Key : Overlaid(t)[k] # NoRow}]
    BY <1>1, <1>7 DEF CallScan, LocalType
  <2> QED
    BY <2>1
<1>8. CASE ScanLock(t)
  <2>1. PICK k \in call[t].todo : LM!Acquire(t, k, "S") /\ call' = [call EXCEPT ![t].todo = @ \ {k}]
    BY <1>8 DEF ScanLock
  <2>2. k \in Key /\ call[t] \in [op: {"scan"}, todo: SUBSET Key, row: [Key -> Content]]
    <3>1. call[t] \in Call \cup {NoCall} /\ call[t].op = "scan"
      BY <1>1, <1>8 DEF ScanLock, LocalType
    <3> QED
      BY <3>1 DEF Call, NoCall
  <2>3. call'[t] = [call[t] EXCEPT !.todo = @ \ {k}]
    BY <1>1, <2>1 DEF LocalType
  <2>4. call'[t].op = "scan" /\ call'[t].todo = call[t].todo \ {k} /\ call'[t].row = call[t].row
    BY <2>2, <2>3
  <2>5. LockedOrQueued(t, k)'
    BY <2>1, <2>2, AcquireServes, SameAcquire DEF LMP!Mode
  <2>6. pc[t] # "failed" /\ ~CommitEnd(t) /\ ~Rollback(t)
    <3>1. phase'[t] = phase[t] /\ phase[t] # "done" /\ pc[t] = "running"
      BY <1>2, <1>8 DEF ScanLock, CallsOpen
    <3> QED
      BY <1>1, <3>1 DEF CommitEnd, Rollback, LocalType
  <2>7. \A l \in Key \ call[t].todo : call[t].row[l] # NoRow => LockedOrQueued(t, l)'
    BY <1>8, <2>6, LocksKept DEF ScanLock, CallsServed
  <2> QED
    BY <2>4, <2>5, <2>7
<1>9. ASSUME \/ BeginTxn(t) \/ Stage(t) \/ Get(t) \/ ScanReturn(t) \/ CommitReadOnly(t)
             \/ CommitStart(t) \/ ApplyOp(t) \/ ApplyFails(t) \/ CommitEnd(t) \/ Rollback(t)
      PROVE  call'[t].op = "none"
  <2>1. CASE BeginTxn(t) \/ Stage(t) \/ Get(t) \/ ScanReturn(t) \/ Rollback(t)
    BY <1>1, <1>2, <2>1 DEF BeginTxn, Stage, Get, ScanReturn, Rollback, CallsOpen, LocalType
  <2>2. CASE CommitReadOnly(t) \/ CommitStart(t) \/ ApplyOp(t) \/ ApplyFails(t) \/ CommitEnd(t)
    BY <1>1, <1>2, <2>2 DEF CommitReadOnly, CommitStart, ApplyOp, ApplyFails, CommitEnd, Ready,
       CallsOpen, LocalType
  <2> QED
    BY <1>9, <2>1, <2>2
<1>10. CASE Untouched(t)
  <2>1. ~CommitEnd(t) /\ ~Rollback(t)
    BY <1>10, SameReleaseAll DEF Untouched, CommitEnd, Rollback
  <2> QED
    BY <1>4, <1>10, <2>1 DEF Untouched
<1>11. CASE Own(t)
  <2>1. CASE \E k \in Key, v \in Content : CallWrite(t, k, v)
    BY <1>5, <2>1
  <2>2. CASE \E k \in Key : CallGet(t, k)
    BY <1>6, <2>2
  <2> QED
    BY <1>3, <1>7, <1>8, <1>9, <1>11, <2>1, <2>2 DEF Own
<1> QED
  BY <1>10, <1>11, OwnStep

\* Staging appends to the operations of a transaction.
LEMMA StageAppends ==
    ASSUME TypeOK, NEW t \in Txn, Stage(t)
    PROVE  /\ call[t].key \in Key /\ call[t].row \in Content
           /\ Len(ops'[t]) = Len(ops[t]) + 1 /\ Len(ops[t]) \in Nat
           /\ \A i \in 1..Len(ops[t]) : ops'[t][i] = ops[t][i]
           /\ ops'[t][Len(ops[t]) + 1] = [key |-> call[t].key, row |-> call[t].row]
           /\ overlay'[t] = [overlay[t] EXCEPT ![call[t].key] = call[t].row]
<1> DEFINE o == [key |-> call[t].key, row |-> call[t].row]
<1>1. LocalType
  BY TypeParts
<1>2. o \in Op /\ call[t].key \in Key /\ call[t].row \in Content
  BY CallType DEF Stage, Op
<1>3. ops'[t] = Append(ops[t], o) /\ ops[t] \in Seq(Op)
  BY <1>1 DEF Stage, LocalType
<1>4. overlay'[t] = [overlay[t] EXCEPT ![call[t].key] = call[t].row]
  BY <1>1 DEF Stage, LocalType
<1> HIDE DEF o
<1>5. /\ Len(ops'[t]) = Len(ops[t]) + 1 /\ Len(ops[t]) \in Nat
      /\ \A i \in 1..Len(ops[t]) : ops'[t][i] = ops[t][i]
      /\ ops'[t][Len(ops[t]) + 1] = o
  BY <1>2, <1>3
<1> QED
  BY <1>2, <1>4, <1>5 DEF o

\* Only Begin and Stage change what is staged.
LEMMA OpsAfter ==
    ASSUME TypeOK, [Next]_vars, NEW t \in Txn
    PROVE  \/ ops'[t] = ops[t] /\ overlay'[t] = overlay[t]
           \/ BeginTxn(t) /\ ops'[t] = <<>> /\ overlay'[t] = Nothing
           \/ Stage(t)
<1>1. LocalType
  BY TypeParts
<1>2. CASE BeginTxn(t)
  BY <1>1, <1>2 DEF BeginTxn, LocalType
<1>3. CASE Own(t) /\ ~Stage(t) /\ ~BeginTxn(t)
  BY <1>3 DEF Own, CallWrite, CallGet, Get, CallScan, ScanLock, ScanReturn, CommitReadOnly,
              CommitStart, ApplyOp, ApplyFails, CommitEnd, Rollback
<1> QED
  BY <1>2, <1>3, OwnStep DEF Untouched

\* How a step may change the phase of a transaction.
LEMMA PhaseAfter ==
    ASSUME TypeOK, CallsOpen, [Next]_vars, NEW t \in Txn
    PROVE  \/ phase'[t] = phase[t] /\ applied'[t] = applied[t] /\ ~CommitEnd(t) /\ ~Rollback(t)
           \/ BeginTxn(t) /\ phase'[t] = "open"
           \/ CommitReadOnly(t) /\ phase[t] = "open" /\ phase'[t] = "done" /\ applied'[t] = 0
           \/ CommitStart(t) /\ phase[t] = "open" /\ phase'[t] = "committing" /\ applied'[t] = 0
           \/ ApplyOp(t) /\ phase[t] = "committing" /\ phase'[t] = "committing"
           \/ ApplyFails(t) /\ phase[t] = "committing" /\ phase'[t] = "done" /\ applied'[t] = applied[t]
           \/ CommitEnd(t) /\ phase'[t] = "done" /\ applied'[t] = Len(ops'[t])
           \/ Rollback(t) /\ phase'[t] = "done" /\ applied'[t] = 0
<1>1. LocalType
  BY TypeParts
<1>2. CASE Untouched(t)
  BY <1>2, SameReleaseAll DEF Untouched, CommitEnd, Rollback
<1>3. CASE BeginTxn(t) \/ CommitReadOnly(t) \/ CommitStart(t) \/ Rollback(t)
  BY <1>1, <1>3 DEF BeginTxn, CommitReadOnly, CommitStart, Rollback, Ready, CallsOpen, LocalType
<1>4. CASE ApplyOp(t) \/ ApplyFails(t) \/ CommitEnd(t)
  BY <1>1, <1>4 DEF ApplyOp, ApplyFails, CommitEnd, LocalType
<1>5. CASE Own(t) /\ ~(BeginTxn(t) \/ CommitReadOnly(t) \/ CommitStart(t) \/ Rollback(t)
                      \/ ApplyOp(t) \/ ApplyFails(t) \/ CommitEnd(t))
  BY <1>5 DEF Own, CallWrite, Stage, CallGet, Get, CallScan, ScanLock, ScanReturn
<1> QED
  BY <1>2, <1>3, <1>4, <1>5, OwnStep

\* Every step keeps OpsLocked.
LEMMA StepOpsLocked ==
    ASSUME TypeOK, LMP!QueueInv, CallsOpen, CallsServed, OpsLocked, [Next]_vars
    PROVE  OpsLocked'
<1> SUFFICES ASSUME NEW t \in Txn,
                    \/ phase'[t] \in {"open", "committing"}
                    \/ phase'[t] = "done" /\ 0 < applied'[t] /\ applied'[t] < Len(ops'[t]),
                    NEW i \in 1..Len(ops'[t])
             PROVE  holders'[ops'[t][i].key][t] = "X"
  BY DEF OpsLocked
<1>1. LocalType
  BY TypeParts
<1>2. CASE BeginTxn(t)
  BY <1>1, <1>2 DEF BeginTxn, LocalType
<1>3. ~CommitEnd(t) /\ ~Rollback(t)
  <2>1. CASE CommitEnd(t)
    BY <1>1, <2>1 DEF CommitEnd, LocalType
  <2>2. CASE Rollback(t)
    BY <1>1, <2>2 DEF Rollback, CallsOpen, LocalType
  <2> QED
    BY <2>1, <2>2
<1>4. ASSUME ~BeginTxn(t), NEW j \in 1..Len(ops[t])
      PROVE  holders'[ops[t][j].key][t] = "X"
  <2>1. ops[t][j].key \in Key
    <3>1. ops[t] \in Seq(Op)
      BY <1>1 DEF LocalType
    <3>2. ops[t][j] \in Op
      BY <3>1
    <3> QED
      BY <3>2 DEF Op
  <2>2. \/ phase[t] \in {"open", "committing"}
        \/ phase[t] = "done" /\ 0 < applied[t] /\ applied[t] < Len(ops[t])
    <3>1. CASE CommitReadOnly(t)
      BY <1>1, <3>1 DEF CommitReadOnly, Ready
    <3>2. CASE phase'[t] = phase[t] /\ applied'[t] = applied[t]
      <4>1. CASE ops'[t] = ops[t]
        BY <3>2, <4>1
      <4>2. CASE Stage(t)
        <5>1. call[t] # NoCall
          BY <4>2 DEF Stage, NoCall
        <5> QED
          BY <5>1 DEF CallsOpen
      <4> QED
        BY <1>4, <4>1, <4>2, OpsAfter
    <3> QED
      BY <1>3, <1>4, <3>1, <3>2, PhaseAfter
  <2>3. holders[ops[t][j].key][t] = "X"
    BY <2>2 DEF OpsLocked
  <2> QED
    BY <1>3, <2>1, <2>3, LocksKept
<1>5. CASE ops'[t] = ops[t] /\ ~BeginTxn(t)
  BY <1>4, <1>5
<1>6. CASE Stage(t) /\ ~BeginTxn(t)
  <2>1. /\ Len(ops'[t]) = Len(ops[t]) + 1 /\ Len(ops[t]) \in Nat
        /\ \A j \in 1..Len(ops[t]) : ops'[t][j] = ops[t][j]
        /\ ops'[t][Len(ops[t]) + 1].key = call[t].key
        /\ call[t].key \in Key
    <3>1. ops'[t][Len(ops[t]) + 1] = [key |-> call[t].key, row |-> call[t].row]
      BY <1>6, StageAppends
    <3>2. ops'[t][Len(ops[t]) + 1].key = call[t].key
      BY <3>1
    <3> QED
      BY <1>6, <3>2, StageAppends
  <2>2. holders'[call[t].key][t] = "X"
    BY <1>6, <2>1, RunningUnqueued DEF Stage, CallsServed, locks
  <2>3. CASE i = Len(ops[t]) + 1
    BY <2>1, <2>2, <2>3
  <2>4. CASE i \in 1..Len(ops[t])
    BY <1>4, <1>6, <2>1, <2>4
  <2> QED
    BY <2>1, <2>3, <2>4
<1> QED
  BY <1>2, <1>5, <1>6, OpsAfter

\* What get and scan have handed out stays locked by the reader.
LEMMA StepReadsLocked ==
    ASSUME TypeOK, LMP!QueueInv, CallsOpen, CallsServed, ReadsLocked, [Next]_vars
    PROVE  ReadsLocked'
<1> SUFFICES ASSUME NEW t \in Txn, NEW k \in Key, phase'[t] = "open", read'[t][k] # NotRead
             PROVE  holders'[k][t] # "none"
  BY DEF ReadsLocked
<1>1. LocalType
  BY TypeParts
<1>2. ~BeginTxn(t)
  BY <1>1 DEF BeginTxn, Nothing, LocalType
<1>3. ~CommitEnd(t) /\ ~Rollback(t)
  BY <1>1 DEF CommitEnd, Rollback, LocalType
<1>4. phase[t] = "open"
  BY <1>2, <1>3, PhaseAfter
<1>5. holders[k][t] # "none" => holders'[k][t] # "none"
  <2>1. "X" # "none"
    OBVIOUS
  <2> QED
    BY <1>3, <2>1, LocksKept
<1>6. CASE read'[t] = read[t]
  BY <1>4, <1>5, <1>6 DEF ReadsLocked
<1>7. CASE Get(t)
  <2>1. call[t].key \in Key /\ pc[t] = "running"
    BY <1>7, CallType DEF Get
  <2>2. holders[call[t].key][t] # "none"
    BY <1>7, <2>1, RunningUnqueued DEF Get, CallsServed
  <2>3. read'[t][k] = read[t][k] \/ k = call[t].key
    BY <1>1, <1>7 DEF Get, LocalType
  <2> QED
    BY <1>4, <1>5, <2>2, <2>3 DEF ReadsLocked
<1>8. CASE ScanReturn(t)
  <2>1. pc[t] = "running" /\ call[t].todo = {} /\ call[t].op = "scan"
    BY <1>8 DEF ScanReturn
  <2>2. call[t].row[k] # NoRow => holders[k][t] # "none"
    BY <2>1, RunningUnqueued DEF CallsServed
  <2>3. read'[t][k] = read[t][k] \/ call[t].row[k] # NoRow
    BY <1>1, <1>8 DEF ScanReturn, LocalType
  <2> QED
    BY <1>4, <1>5, <2>2, <2>3 DEF ReadsLocked
<1>9. CASE Own(t) /\ ~BeginTxn(t) /\ ~Get(t) /\ ~ScanReturn(t)
  <2>1. read' = read
    BY <1>9 DEF Own, CallWrite, CallGet, Stage, CallScan, ScanLock, CommitReadOnly,
                CommitStart, ApplyOp, ApplyFails, CommitEnd, Rollback
  <2> QED
    BY <1>6, <2>1
<1> QED
  BY <1>2, <1>6, <1>7, <1>8, <1>9, OwnStep DEF Untouched

\* Every step keeps OverlayIsLast.
LEMMA StepOverlayIsLast ==
    ASSUME TypeOK, OverlayIsLast, [Next]_vars
    PROVE  OverlayIsLast'
<1> SUFFICES ASSUME NEW t \in Txn, NEW k \in Key, overlay'[t][k] # NotRead
             PROVE  \E i \in 1..Len(ops'[t]) :
                        /\ ops'[t][i] = [key |-> k, row |-> overlay'[t][k]]
                        /\ \A j \in (i + 1)..Len(ops'[t]) : ops'[t][j].key # k
  BY DEF OverlayIsLast
<1>1. CASE ops'[t] = ops[t] /\ overlay'[t] = overlay[t]
  BY <1>1 DEF OverlayIsLast
<1>2. CASE overlay'[t] = Nothing
  BY <1>2 DEF Nothing
<1>3. CASE Stage(t)
  <2> DEFINE n == Len(ops[t])
  <2>1. /\ call[t].key \in Key
        /\ n \in Nat /\ Len(ops'[t]) = n + 1
        /\ \A i \in 1..n : ops'[t][i] = ops[t][i]
        /\ ops'[t][n + 1] = [key |-> call[t].key, row |-> call[t].row]
        /\ overlay'[t] = [overlay[t] EXCEPT ![call[t].key] = call[t].row]
    BY <1>3, StageAppends
  <2>2. overlay[t] \in [Key -> Content \cup {NotRead}]
    BY DEF TypeOK
  <2> HIDE DEF n
  <2>3. CASE k = call[t].key
    <3>1. ops'[t][n + 1] = [key |-> k, row |-> overlay'[t][k]]
      BY <2>1, <2>2, <2>3
    <3>2. n + 1 \in 1..Len(ops'[t]) /\ \A j \in ((n + 1) + 1)..Len(ops'[t]) : FALSE
      BY <2>1
    <3> QED
      BY <3>1, <3>2
  <2>4. CASE k # call[t].key
    <3>1. overlay'[t][k] = overlay[t][k]
      BY <2>1, <2>2, <2>4
    <3>2. PICK i \in 1..n : /\ ops[t][i] = [key |-> k, row |-> overlay[t][k]]
                            /\ \A j \in (i + 1)..n : ops[t][j].key # k
      BY <3>1 DEF OverlayIsLast, n
    <3>3. ops'[t][n + 1].key # k
      BY <2>1, <2>4
    <3>4. \A j \in (i + 1)..Len(ops'[t]) : ops'[t][j].key # k
      <4>1. \A j \in (i + 1)..Len(ops'[t]) : j = n + 1 \/ (j \in (i + 1)..n /\ j \in 1..n)
        BY <2>1
      <4> QED
        BY <2>1, <3>2, <3>3, <4>1
    <3>5. i \in 1..Len(ops'[t]) /\ ops'[t][i] = [key |-> k, row |-> overlay'[t][k]]
      BY <2>1, <3>1, <3>2
    <3> QED
      BY <3>4, <3>5
  <2> QED
    BY <2>3, <2>4
<1> QED
  BY <1>1, <1>2, <1>3, OpsAfter

\* The invariant of the transactions holds at first.
LEMMA InitTxnInv == Init => TxnInv
<1> SUFFICES ASSUME Init
             PROVE  TxnInv
  OBVIOUS
<1>1. LMP!QueueInv
  BY SameInit, LockAssumptions, LMP!InitQueueInv DEF Init
<1>2. LocalType
  <2>1. <<>> \in Seq(Op) /\ Len(<<>>) = 0 /\ 0 \in 0..MaxOps
    BY MaxOpsAssumption
  <2>2. Nothing \in [Key -> Content \cup {NotRead}]
    BY DEF Nothing
  <2> QED
    BY <2>1, <2>2, MaxOpsAssumption DEF Init, LocalType
<1>3. TypeOK
  BY <1>1, <1>2, TypeParts DEF LMP!QueueInv
<1>4. CallsOpen /\ CallsServed
  BY DEF Init, CallsOpen, CallsServed, NoCall
<1>5. OpsLocked /\ ReadsLocked
  BY DEF Init, OpsLocked, ReadsLocked
<1>6. OverlayIsLast
  BY DEF Init, OverlayIsLast, Nothing
<1> QED
  BY <1>1, <1>3, <1>4, <1>5, <1>6 DEF TxnInv

\* Every step keeps the invariant of the transactions.
LEMMA StepTxnInv == TxnInv /\ [Next]_vars => TxnInv'
<1> SUFFICES ASSUME TxnInv, [Next]_vars
             PROVE  TxnInv'
  OBVIOUS
<1>1. LMP!QueueInv'
  BY StepQueue DEF TxnInv
<1>2. TypeOK'
  <2>1. LMP!TypeOK'
    BY <1>1 DEF LMP!QueueInv
  <2>2. LocalType'
    BY StepLocalType DEF TxnInv
  <2> QED
    BY <2>1, <2>2, TypePartsNext
<1>3. CallsOpen' /\ CallsServed' /\ OpsLocked' /\ ReadsLocked' /\ OverlayIsLast'
  BY StepCallsOpen, StepCallsServed, StepOpsLocked, StepReadsLocked, StepOverlayIsLast DEF TxnInv
<1> QED
  BY <1>1, <1>2, <1>3 DEF TxnInv

\* Under every interleaving of calls, grants, time-outs and failing commits, a
\* transaction's staged operations and its reads are covered by the locks it holds,
\* and the last operation staged for a key is the overlay's (transaction.py:74-187).
THEOREM TxnInvariant == Spec => []TxnInv
BY InitTxnInv, StepTxnInv, PTL DEF Spec

\* Every row that a call has handed out is locked by its reader until it ends,
\* for any mix of refusals, time-outs and failed commits (transaction.py:145-147).
THEOREM HandedOutIsLocked == Spec => []ReadsLocked
<1>1. TxnInv => ReadsLocked
  BY DEF TxnInv
<1> QED
  BY <1>1, TxnInvariant, PTL

\* Whatever a commit that has failed half-way was to write stays exclusively
\* locked, so that no get returns a torn write (transaction.py:188-218).
THEOREM TornCommitIsolated == Spec => []TornCommitStaysLocked
<1>1. TxnInv => TornCommitStaysLocked
  BY DEF TxnInv, OpsLocked, TornCommitStaysLocked
<1> QED
  BY <1>1, TxnInvariant, PTL

-----------------------------------------------------------------------------
(***************************************************************************)
(* What Transaction guarantees while the tree refuses no record: commits   *)
(* install what they showed.  While, besides, no transaction scans: reads  *)
(* repeat and the whole is serializable.  scan reads before it locks, and  *)
(* a refused record tears the leaf it was to go to: neither of the two     *)
(* hypotheses can be dropped.                                              *)
(***************************************************************************)

AllStorable == Unstorable = {}

Undisturbed == AllStorable /\ Scans = FALSE

NoScan == \A t \in Txn : call[t].op # "scan"

\* The tree holds the last operation applied to each key by a running commit.
AppliedIsLast ==
    \A t \in Txn : phase[t] = "committing" =>
        \A i \in 1..applied[t] :
            (\A j \in (i + 1)..applied[t] : ops[t][j].key # ops[t][i].key)
                => tree[ops[t][i].key] = ops[t][i].row

\* The overlay hides the tree for every key that an operation is staged for.
OpsCovered ==
    \A t \in Txn : \A i \in 1..Len(ops[t]) : overlay[t][ops[t][i].key] # NotRead

CommitInv == TxnInv /\ AppliedIsLast

SerialInv == TxnInv /\ NoScan /\ ReadsStable /\ AppliedIsLast /\ OpsCovered

-----------------------------------------------------------------------------
\* A staged operation has a key and a row.
LEMMA OpAt ==
    ASSUME TypeOK, NEW t \in Txn, NEW i \in 1..Len(ops[t])
    PROVE  ops[t][i] \in Op /\ ops[t][i].key \in Key /\ ops[t][i].row \in Content
<1>1. ops[t] \in Seq(Op)
  BY DEF TypeOK, Op
<1>2. ops[t][i] \in Op
  BY <1>1
<1> QED
  BY <1>2 DEF Op

\* Where one transaction has an operation to commit, no other has a lock.
LEMMA OpsExclusive ==
    ASSUME TxnInv, NEW t \in Txn, phase[t] \in {"open", "committing"}, NEW i \in 1..Len(ops[t]),
           NEW u \in Txn, u # t
    PROVE  holders[ops[t][i].key][u] = "none"
<1>1. holders[ops[t][i].key][t] = "X" /\ ops[t][i].key \in Key
  BY OpAt DEF TxnInv, OpsLocked
<1> QED
  BY <1>1 DEF TxnInv, LMP!QueueInv, LMP!Compatible

\* Where nobody scans, every step keeps it so.
LEMMA StepNoScan ==
    ASSUME Undisturbed, TypeOK, NoScan, [Next]_vars
    PROVE  NoScan'
<1> SUFFICES ASSUME NEW t \in Txn
             PROVE  call'[t].op # "scan"
  BY DEF NoScan
<1>1. LocalType
  BY TypeParts
<1>2. CASE call'[t] = call[t]
  BY <1>2 DEF NoScan
<1>3. CASE call'[t] = NoCall
  BY <1>3 DEF NoCall
<1>4. CASE \E k \in Key, v \in Content : CallWrite(t, k, v)
  <2>1. PICK k \in Key, v \in Content : CallWrite(t, k, v)
    BY <1>4
  <2>2. call'[t] = [op |-> IF v = NoRow THEN "delete" ELSE "put", key |-> k, row |-> v]
    BY <1>1, <2>1 DEF CallWrite, LocalType
  <2> QED
    BY <2>2
<1>5. CASE \E k \in Key : CallGet(t, k)
  <2>1. PICK k \in Key : CallGet(t, k)
    BY <1>5
  <2>2. call'[t] = [op |-> "get", key |-> k, row |-> NoRow]
    BY <1>1, <2>1 DEF CallGet, LocalType
  <2> QED
    BY <2>2
<1>6. CASE \/ BeginTxn(t) \/ CommitReadOnly(t) \/ CommitStart(t) \/ ApplyOp(t)
           \/ ApplyFails(t) \/ CommitEnd(t)
  BY <1>2, <1>6 DEF BeginTxn, CommitReadOnly, CommitStart, ApplyOp, ApplyFails, CommitEnd
<1>7. CASE Stage(t) \/ Get(t) \/ Rollback(t)
  BY <1>1, <1>3, <1>7 DEF Stage, Get, Rollback, LocalType
<1>8. ~CallScan(t) /\ ~ScanLock(t) /\ ~ScanReturn(t)
  BY DEF CallScan, ScanLock, ScanReturn, NoScan, Undisturbed
<1> QED
  BY <1>2, <1>4, <1>5, <1>6, <1>7, <1>8, OwnStep DEF Own, Untouched

\* Only a commit changes the tree, one operation at a time.
LEMMA TreeAfter ==
    ASSUME AllStorable, TypeOK, [Next]_vars
    PROVE  tree' = tree \/ \E u \in Txn : ApplyOp(u)
<1>1. \A u \in Txn : ~ApplyFails(u)
  BY DEF ApplyFails, AllStorable
<1> QED
  BY <1>1 DEF Next, vars, LockStep, CallWrite, CallGet, BeginTxn, Stage, Get, CallScan, ScanLock,
     ScanReturn, CommitReadOnly, CommitStart, CommitEnd, Rollback

\* What the commit makes of the tree with one operation.
LEMMA ApplyOpAt ==
    ASSUME TypeOK, NEW u \in Txn, ApplyOp(u)
    PROVE  /\ phase[u] = "committing" /\ applied[u] \in Nat /\ Len(ops[u]) \in Nat
           /\ applied[u] + 1 \in 1..Len(ops[u]) /\ applied'[u] = applied[u] + 1
           /\ NextOp(u).key \in Key
           /\ tree'[NextOp(u).key] = NextOp(u).row
           /\ \A k \in Key : k # NextOp(u).key => tree'[k] = tree[k]
<1>1. phase[u] = "committing" /\ applied[u] < Len(ops[u])
  BY DEF ApplyOp
<1>2. applied[u] \in Nat /\ Len(ops[u]) \in Nat /\ applied'[u] = applied[u] + 1
  BY DEF ApplyOp, TypeOK
<1>3. applied[u] + 1 \in 1..Len(ops[u])
  BY <1>1, <1>2
<1>4. NextOp(u).key \in Key
  BY <1>3, OpAt DEF NextOp
<1> QED
  BY <1>1, <1>2, <1>3, <1>4 DEF ApplyOp, TypeOK

\* What a reader has read, no commit changes under it.
LEMMA StepReadsStable ==
    ASSUME Undisturbed, TxnInv, NoScan, ReadsStable, [Next]_vars
    PROVE  ReadsStable'
<1> SUFFICES ASSUME NEW t \in Txn, NEW k \in Key, phase'[t] = "open", read'[t][k] # NotRead
             PROVE  read'[t][k] = tree'[k]
  BY DEF ReadsStable
<1>1. TypeOK /\ LocalType
  BY TypeParts DEF TxnInv
<1>2. ~BeginTxn(t)
  BY <1>1 DEF BeginTxn, Nothing, LocalType
<1>3. phase[t] = "open"
  BY <1>1, <1>2, PhaseAfter DEF TxnInv
<1>4. CASE read'[t] = read[t]
  <2>1. read[t][k] = tree[k] /\ holders[k][t] # "none"
    BY <1>3, <1>4 DEF ReadsStable, TxnInv, ReadsLocked
  <2>2. ASSUME NEW u \in Txn, ApplyOp(u)
        PROVE  tree'[k] = tree[k]
    <3>1. u # t /\ phase[u] = "committing" /\ applied[u] + 1 \in 1..Len(ops[u])
      BY <1>1, <1>3, <2>2, ApplyOpAt
    <3>2. NextOp(u).key # k
      BY <2>1, <3>1, OpsExclusive DEF NextOp
    <3> QED
      BY <1>1, <2>2, <3>2, ApplyOpAt
  <2> QED
    BY <1>1, <1>4, <2>1, <2>2, TreeAfter DEF Undisturbed
<1>5. CASE Get(t)
  <2>1. call[t].key \in Key /\ tree' = tree
    BY <1>1, <1>5, CallType DEF Get
  <2>2. read'[t][k] = read[t][k] \/ read'[t][k] = tree[k]
    BY <1>1, <1>5, <2>1 DEF Get, LocalType
  <2> QED
    BY <1>3, <2>1, <2>2 DEF ReadsStable
<1>6. ~ScanReturn(t)
  BY DEF ScanReturn, NoScan
<1>7. CASE Own(t) /\ ~BeginTxn(t) /\ ~Get(t) /\ ~ScanReturn(t)
  <2>1. read' = read
    BY <1>7 DEF Own, CallWrite, CallGet, Stage, CallScan, ScanLock, CommitReadOnly,
                CommitStart, ApplyOp, ApplyFails, CommitEnd, Rollback
  <2> QED
    BY <1>4, <2>1
<1> QED
  BY <1>1, <1>2, <1>4, <1>5, <1>6, <1>7, OwnStep DEF Untouched

\* Every step keeps AppliedIsLast.
LEMMA StepAppliedIsLast ==
    ASSUME AllStorable, TxnInv, AppliedIsLast, [Next]_vars
    PROVE  AppliedIsLast'
<1> SUFFICES ASSUME NEW t \in Txn, phase'[t] = "committing", NEW i \in 1..applied'[t],
                    \A j \in (i + 1)..applied'[t] : ops'[t][j].key # ops'[t][i].key
             PROVE  tree'[ops'[t][i].key] = ops'[t][i].row
  BY DEF AppliedIsLast
<1>1. TypeOK /\ LocalType
  BY TypeParts DEF TxnInv
<1>2. phase[t] = "committing" /\ (ApplyOp(t) \/ applied'[t] = applied[t])
  <2>1. ~CommitStart(t)
    BY <1>1 DEF CommitStart, Ready, TxnInv, CallsOpen, LocalType
  <2> QED
    BY <2>1, <1>1, PhaseAfter DEF TxnInv
<1>3. ops'[t] = ops[t]
  <2>1. ~Stage(t) /\ ~BeginTxn(t)
    BY <1>2 DEF Stage, BeginTxn, NoCall, TxnInv, CallsOpen
  <2> QED
    BY <1>1, <2>1, OpsAfter
<1>4. applied[t] \in Nat /\ applied[t] <= Len(ops[t]) /\ Len(ops[t]) \in Nat
  BY <1>1 DEF LocalType, TxnInv, CallsOpen
<1>5. CASE ApplyOp(t)
  <2> DEFINE n == applied[t]
  <2>1. /\ n + 1 \in 1..Len(ops[t]) /\ applied'[t] = n + 1
        /\ tree'[ops[t][n + 1].key] = ops[t][n + 1].row
        /\ \A k \in Key : k # ops[t][n + 1].key => tree'[k] = tree[k]
    BY <1>1, <1>5, ApplyOpAt DEF NextOp
  <2> HIDE DEF n
  <2>2. CASE i = n + 1
    BY <1>3, <2>1, <2>2
  <2>3. CASE i \in 1..n
    <3>1. n + 1 \in (i + 1)..applied'[t]
      BY <1>4, <2>1, <2>3 DEF n
    <3>2. ops[t][n + 1].key # ops[t][i].key
      BY <1>3, <3>1
    <3>3. i \in 1..Len(ops[t]) /\ \A j \in (i + 1)..n : j \in (i + 1)..applied'[t]
      BY <1>4, <2>1, <2>3 DEF n
    <3>4. tree[ops[t][i].key] = ops[t][i].row
      BY <1>2, <1>3, <2>3, <3>3 DEF AppliedIsLast, n
    <3>5. ops[t][i].key \in Key
      BY <1>1, <3>3, OpAt
    <3> QED
      BY <1>3, <2>1, <3>2, <3>4, <3>5
  <2> QED
    BY <1>4, <2>1, <2>2, <2>3 DEF n
<1>6. CASE applied'[t] = applied[t] /\ ~ApplyOp(t)
  <2>1. tree[ops[t][i].key] = ops[t][i].row /\ i \in 1..Len(ops[t])
    BY <1>2, <1>3, <1>4, <1>6 DEF AppliedIsLast
  <2>2. ASSUME NEW u \in Txn, ApplyOp(u)
        PROVE  tree'[ops[t][i].key] = tree[ops[t][i].key]
    <3>1. u # t /\ phase[u] = "committing" /\ applied[u] + 1 \in 1..Len(ops[u])
      BY <1>1, <1>6, <2>2, ApplyOpAt
    <3>2. holders[NextOp(u).key][t] = "none"
      BY <3>1, OpsExclusive DEF NextOp
    <3>3. holders[ops[t][i].key][t] = "X"
      BY <1>2, <2>1 DEF TxnInv, OpsLocked
    <3>4. NextOp(u).key # ops[t][i].key
      BY <3>2, <3>3
    <3>5. ops[t][i].key \in Key
      BY <1>1, <2>1, OpAt
    <3> QED
      BY <1>1, <2>2, <3>4, <3>5, ApplyOpAt
  <2> QED
    BY <1>1, <1>3, <2>1, <2>2, TreeAfter
<1> QED
  BY <1>2, <1>5, <1>6

\* Every step keeps OpsCovered.
LEMMA StepOpsCovered ==
    ASSUME TypeOK, OpsCovered, [Next]_vars
    PROVE  OpsCovered'
<1> SUFFICES ASSUME NEW t \in Txn, NEW i \in 1..Len(ops'[t])
             PROVE  overlay'[t][ops'[t][i].key] # NotRead
  BY DEF OpsCovered
<1>1. CASE ops'[t] = ops[t] /\ overlay'[t] = overlay[t]
  BY <1>1 DEF OpsCovered
<1>2. CASE ops'[t] = <<>>
  BY <1>2
<1>3. CASE Stage(t)
  <2> DEFINE n == Len(ops[t])
  <2>1. /\ call[t].key \in Key /\ call[t].row \in Content
        /\ n \in Nat /\ Len(ops'[t]) = n + 1
        /\ \A j \in 1..n : ops'[t][j] = ops[t][j]
        /\ ops'[t][n + 1] = [key |-> call[t].key, row |-> call[t].row]
        /\ overlay'[t] = [overlay[t] EXCEPT ![call[t].key] = call[t].row]
    BY <1>3, StageAppends
  <2>2. ops'[t][n + 1].key = call[t].key
    BY <2>1
  <2>3. overlay[t] \in [Key -> Content \cup {NotRead}] /\ call[t].row # NotRead
    BY <2>1, NoRowAssumption DEF TypeOK, Content
  <2>4. \A j \in 1..n : ops[t][j].key \in Key /\ overlay[t][ops[t][j].key] # NotRead
    BY OpAt DEF OpsCovered
  <2> HIDE DEF n
  <2>5. CASE i = n + 1
    BY <2>1, <2>2, <2>3, <2>5
  <2>6. CASE i \in 1..n
    BY <2>1, <2>3, <2>4, <2>6
  <2> QED
    BY <2>1, <2>5, <2>6
<1> QED
  BY <1>1, <1>2, <1>3, OpsAfter

\* The invariant holds at first.
LEMMA InitSerialInv == Init => SerialInv
<1> SUFFICES ASSUME Init
             PROVE  SerialInv
  OBVIOUS
<1>1. TxnInv
  BY InitTxnInv
<1>2. NoScan /\ AppliedIsLast /\ OpsCovered /\ ReadsStable
  BY DEF Init, NoScan, NoCall, AppliedIsLast, OpsCovered, ReadsStable
<1> QED
  BY <1>1, <1>2 DEF SerialInv

\* Every step keeps the invariant.
LEMMA StepSerialInv ==
    ASSUME Undisturbed
    PROVE  SerialInv /\ [Next]_vars => SerialInv'
<1> SUFFICES ASSUME SerialInv, [Next]_vars
             PROVE  SerialInv'
  OBVIOUS
<1>1. TxnInv /\ TypeOK
  BY DEF SerialInv, TxnInv
<1>2. TxnInv'
  BY <1>1, StepTxnInv
<1> QED
  BY <1>1, <1>2, StepNoScan, StepReadsStable, StepAppliedIsLast, StepOpsCovered DEF SerialInv, Undisturbed

\* When every row fits in a page and nothing is scanned, what an open transaction
\* has read is what the tree, or its own overlay, still says, and the operations
\* that commit has applied are the last ones of their keys (transaction.py:95-187).
THEOREM SerialInvariant == Undisturbed => (Spec => []SerialInv)
<1> SUFFICES ASSUME Undisturbed
             PROVE  Spec => []SerialInv
  OBVIOUS
<1>1. Init => SerialInv
  BY InitSerialInv
<1>2. SerialInv /\ [Next]_vars => SerialInv'
  BY StepSerialInv
<1> QED
  BY <1>1, <1>2, PTL DEF Spec

\* What get has returned is what the tree holds until the reader ends: no
\* commit changes or uncovers a row under a reader (transaction.py:128-129).
THEOREM ReadsRepeat == Undisturbed => (Spec => []RepeatableReads)
<1>1. SerialInv => RepeatableReads
  BY DEF SerialInv, TxnInv, RepeatableReads
<1> QED
  BY <1>1, SerialInvariant, PTL

\* At its end a commit leaves in the tree what its overlay has shown.
LEMMA CommitEndInstalls ==
    ASSUME CommitInv, NEW t \in Txn, CommitEnd(t), NEW k \in Key
    PROVE  overlay[t][k] \in {NotRead, tree[k]}
<1> SUFFICES ASSUME overlay[t][k] # NotRead
             PROVE  overlay[t][k] = tree[k]
  OBVIOUS
<1>1. PICK i \in 1..Len(ops[t]) :
        /\ ops[t][i] = [key |-> k, row |-> overlay[t][k]]
        /\ \A j \in (i + 1)..Len(ops[t]) : ops[t][j].key # k
  BY DEF CommitInv, TxnInv, OverlayIsLast
<1>2. ops[t][i].key = k /\ ops[t][i].row = overlay[t][k]
  BY <1>1
<1>3. phase[t] = "committing" /\ applied[t] = Len(ops[t])
  BY DEF CommitEnd
<1> QED
  BY <1>1, <1>2, <1>3 DEF CommitInv, AppliedIsLast

\* When every row fits in a page, a commit that is under way has applied its
\* operations in their order: the tree has the last one applied to each key
\* (transaction.py:196-206).
THEOREM CommitInvariant == AllStorable => (Spec => []CommitInv)
<1> SUFFICES ASSUME AllStorable
             PROVE  Spec => []CommitInv
  OBVIOUS
<1>1. Init => CommitInv
  BY InitTxnInv DEF Init, CommitInv, AppliedIsLast
<1>2. CommitInv /\ [Next]_vars => CommitInv'
  BY StepTxnInv, StepAppliedIsLast DEF CommitInv
<1> QED
  BY <1>1, <1>2, PTL DEF Spec

\* When a commit releases its locks, the tree holds for every key it wrote what
\* its overlay showed, also while others scan (transaction.py:41-43).
THEOREM CommitsInstallOverlays == AllStorable => (Spec => CommitInstallsOverlay)
<1>1. CommitInv /\ [Next]_vars =>
        [\A t \in Txn : CommitEnd(t) =>
            \A k \in Key : overlay[t][k] \in {NotRead, tree[k]}]_vars
  BY CommitEndInstalls
<1> QED
  BY <1>1, CommitInvariant, PTL DEF Spec, CommitInstallsOverlay

-----------------------------------------------------------------------------
(* Serializability.  The store of the abstract specification is the tree   *)
(* seen through the overlay of the commit that is under way; it changes at *)
(* once when the commit starts, and not at all while the commit applies    *)
(* its operations one by one.                                              *)

Covers(t, k) == phase[t] = "committing" /\ overlay[t][k] # NotRead

Store == [k \in Key |->
    IF \E t \in Txn : phase[t] = "committing" /\ overlay[t][k] # NotRead
    THEN overlay[CHOOSE t \in Txn : phase[t] = "committing" /\ overlay[t][k] # NotRead][k]
    ELSE tree[k]]

ReadView == [t \in Txn |-> IF phase[t] = "open" THEN read[t] ELSE Nothing]

StagedView == [t \in Txn |-> IF phase[t] = "open" THEN overlay[t] ELSE Nothing]

\* Who shows a row in its overlay has that key exclusively.
LEMMA CoverLocked ==
    ASSUME TxnInv, NEW t \in Txn, phase[t] \in {"open", "committing"},
           NEW k \in Key, overlay[t][k] # NotRead
    PROVE  /\ holders[k][t] = "X"
           /\ \A u \in Txn \ {t} : holders[k][u] = "none"
<1>1. PICK i \in 1..Len(ops[t]) : ops[t][i] = [key |-> k, row |-> overlay[t][k]]
  BY DEF TxnInv, OverlayIsLast
<1>2. ops[t][i].key = k
  BY <1>1
<1> QED
  BY <1>2, OpsExclusive DEF TxnInv, OpsLocked

\* A key is covered by one transaction at most.
LEMMA CoverUnique ==
    ASSUME TxnInv, NEW t \in Txn, NEW u \in Txn, NEW k \in Key, Covers(t, k), Covers(u, k)
    PROVE  t = u
<1>1. holders[k][t] = "X" /\ \A v \in Txn \ {t} : holders[k][v] = "none"
  BY CoverLocked DEF Covers
<1>2. holders[k][u] = "X"
  BY CoverLocked DEF Covers
<1> QED
  BY <1>1, <1>2

StoreDetermined ==
    \A k \in Key :
        /\ (\A t \in Txn : ~Covers(t, k)) => Store[k] = tree[k]
        /\ \A t \in Txn : Covers(t, k) => Store[k] = overlay[t][k]

\* The serial store is determined by the tree and what covers it.
LEMMA StoreAt == TxnInv => StoreDetermined
<1> SUFFICES ASSUME TxnInv, NEW k \in Key
             PROVE  /\ (\A t \in Txn : ~Covers(t, k)) => Store[k] = tree[k]
                    /\ \A t \in Txn : Covers(t, k) => Store[k] = overlay[t][k]
  BY DEF StoreDetermined
<1>1. (\A t \in Txn : ~Covers(t, k)) => Store[k] = tree[k]
  BY DEF Store, Covers
<1>2. ASSUME NEW t \in Txn, Covers(t, k)
      PROVE  Store[k] = overlay[t][k]
  <2> DEFINE u == CHOOSE v \in Txn : phase[v] = "committing" /\ overlay[v][k] # NotRead
  <2>1. u \in Txn /\ Covers(u, k)
    BY <1>2 DEF Covers
  <2>2. u = t
    BY <1>2, <2>1, CoverUnique
  <2>3. Store[k] = overlay[u][k]
    BY <1>2 DEF Store, Covers
  <2> QED
    BY <2>2, <2>3
<1> QED
  BY <1>1, <1>2

\* A step that leaves the phases, the overlays and the tree leaves the store.
LEMMA StoreKept ==
    ASSUME TxnInv, TxnInv', NEW k \in Key, tree'[k] = tree[k],
           \A t \in Txn : Covers(t, k)' <=> Covers(t, k),
           \A t \in Txn : Covers(t, k) => overlay'[t][k] = overlay[t][k]
    PROVE  Store'[k] = Store[k]
<1>1. /\ (\A t \in Txn : ~Covers(t, k)') => Store'[k] = tree'[k]
      /\ \A t \in Txn : Covers(t, k)' => Store'[k] = overlay'[t][k]
  <2>1. TxnInv' => StoreDetermined'
    BY StoreAt, PTL
  <2> QED
    BY <2>1 DEF StoreDetermined
<1> QED
  BY <1>1, StoreAt DEF StoreDetermined

\* The initial states map to the initial state of the serial store.
LEMMA InitMaps == Init => Serial!Init
<1> SUFFICES ASSUME Init
             PROVE  Serial!Init
  OBVIOUS
<1>1. Store = tree
  BY DEF Init, Store, Content
<1>2. tree \in [Key -> Serial!Content]
  BY DEF Init, Content, Serial!Content
<1>3. ReadView = [t \in Txn |-> Nothing] /\ StagedView = [t \in Txn |-> Nothing]
  BY DEF Init, ReadView, StagedView
<1> QED
  BY <1>1, <1>2, <1>3 DEF Serial!Init, Serial!Nothing, Nothing, Store, ReadView, StagedView

\* Who commits after a step, and what its overlay shows, was so before it,
\* unless the step begins or ends that commit.
LEMMA CoversAfter ==
    ASSUME Undisturbed, TxnInv, [Next]_vars, NEW t \in Txn, ~CommitStart(t), ~CommitEnd(t),
           NEW k \in Key
    PROVE  /\ Covers(t, k)' <=> Covers(t, k)
           /\ Covers(t, k) => overlay'[t][k] = overlay[t][k]
<1>1. TypeOK /\ CallsOpen
  BY DEF TxnInv
<1>2. ~ApplyFails(t)
  BY DEF ApplyFails, AllStorable, Undisturbed
<1>3. BeginTxn(t) => phase[t] \in {"none", "done"} /\ phase'[t] = "open"
  BY <1>1 DEF BeginTxn, TypeOK
<1>4. Stage(t) => phase[t] = "open" /\ phase'[t] = "open"
  BY <1>1 DEF Stage, CallsOpen, NoCall
<1>5. Rollback(t) => phase[t] = "open"
  BY DEF Rollback
<1>6. phase'[t] = "committing" <=> phase[t] = "committing"
  BY <1>1, <1>2, <1>3, <1>5, PhaseAfter
<1>7. overlay'[t] = overlay[t] \/ phase[t] # "committing"
  BY <1>1, <1>3, <1>4, OpsAfter
<1> QED
  BY <1>6, <1>7 DEF Covers

\* A commit changes the store at once when it starts.
LEMMA CommitStartStores ==
    ASSUME Undisturbed, SerialInv, SerialInv', [Next]_vars, NEW t \in Txn, CommitStart(t)
    PROVE  Store' = [k \in Key |-> IF overlay[t][k] = NotRead THEN Store[k] ELSE overlay[t][k]]
<1>1. TxnInv /\ TxnInv' /\ TypeOK
  BY DEF SerialInv, TxnInv
<1>2. StoreDetermined /\ StoreDetermined'
  <2>1. TxnInv' => StoreDetermined'
    BY StoreAt, PTL
  <2> QED
    BY <1>1, <2>1, StoreAt
<1>3. /\ tree' = tree /\ overlay' = overlay
      /\ phase[t] = "open" /\ phase' = [phase EXCEPT ![t] = "committing"]
  BY DEF CommitStart, Ready
<1>4. ASSUME NEW k \in Key
      PROVE  Store'[k] = IF overlay[t][k] = NotRead THEN Store[k] ELSE overlay[t][k]
  <2>1. Covers(t, k)' <=> overlay[t][k] # NotRead
    BY <1>1, <1>3 DEF Covers, TypeOK
  <2>2. \A u \in Txn \ {t} : Covers(u, k)' <=> Covers(u, k)
    BY <1>1, <1>3 DEF Covers, TypeOK
  <2>3. ~Covers(t, k)
    BY <1>3 DEF Covers
  <2>4. CASE overlay[t][k] # NotRead
    BY <1>2, <1>3, <2>1, <2>4 DEF StoreDetermined
  <2>5. CASE overlay[t][k] = NotRead
    BY <1>1, <1>3, <2>1, <2>2, <2>3, <2>5, StoreKept
  <2> QED
    BY <2>4, <2>5
<1>5. Store' = [k \in Key |-> Store'[k]]
  BY DEF Store
<1> QED
  BY <1>4, <1>5

\* Nothing else that a transaction does changes it.
LEMMA StoreStays ==
    ASSUME Undisturbed, SerialInv, SerialInv', [Next]_vars, \A t \in Txn : ~CommitStart(t)
    PROVE  Store' = Store
<1>1. TxnInv /\ TxnInv' /\ TypeOK
  BY DEF SerialInv, TxnInv
<1>2. StoreDetermined /\ StoreDetermined'
  <2>1. TxnInv' => StoreDetermined'
    BY StoreAt, PTL
  <2> QED
    BY <1>1, <2>1, StoreAt
<1>3. SUFFICES ASSUME NEW k \in Key
               PROVE  Store'[k] = Store[k]
  BY DEF Store
<1>4. CASE tree'[k] = tree[k] /\ \A t \in Txn : ~CommitEnd(t)
  BY <1>1, <1>4, CoversAfter, StoreKept
<1>5. ASSUME NEW t \in Txn, ApplyOp(t), tree'[k] # tree[k]
      PROVE  Store'[k] = Store[k]
  <2>1. /\ phase[t] = "committing" /\ applied[t] + 1 \in 1..Len(ops[t])
        /\ k = ops[t][applied[t] + 1].key
    BY <1>1, <1>5, ApplyOpAt DEF NextOp
  <2>2. Covers(t, k)
    BY <2>1 DEF SerialInv, OpsCovered, Covers
  <2>3. ~CommitEnd(t)
    BY <1>1, <1>5 DEF ApplyOp, CommitEnd, TypeOK
  <2>4. Covers(t, k)' /\ overlay'[t][k] = overlay[t][k]
    BY <1>1, <2>2, <2>3, CoversAfter
  <2> QED
    BY <1>2, <2>2, <2>4 DEF StoreDetermined
<1>6. ASSUME NEW t \in Txn, CommitEnd(t)
      PROVE  Store'[k] = Store[k]
  <2>1. /\ tree' = tree /\ overlay' = overlay /\ phase' = [phase EXCEPT ![t] = "done"]
        /\ phase[t] = "committing"
    BY <1>6 DEF CommitEnd
  <2>2. ~Covers(t, k)' /\ \A u \in Txn \ {t} : Covers(u, k)' <=> Covers(u, k)
    BY <1>1, <2>1 DEF Covers, TypeOK
  <2>3. CASE Covers(t, k)
    <3>1. \A u \in Txn : ~Covers(u, k)'
      BY <1>1, <2>2, <2>3, CoverUnique
    <3>2. Store'[k] = tree[k]
      BY <1>2, <2>1, <3>1 DEF StoreDetermined
    <3>3. Store[k] = overlay[t][k] /\ overlay[t][k] # NotRead
      BY <1>2, <2>3 DEF StoreDetermined, Covers
    <3> QED
      BY <1>6, <3>2, <3>3, CommitEndInstalls DEF SerialInv, CommitInv
  <2>4. CASE ~Covers(t, k)
    BY <1>1, <2>1, <2>2, <2>4, StoreKept
  <2> QED
    BY <2>3, <2>4
<1> QED
  BY <1>1, <1>4, <1>5, <1>6, TreeAfter DEF Undisturbed

\* The actions of the abstract specification, over the three views.
LEMMA SerialActions ==
    ASSUME NEW t \in Txn
    PROVE  /\ \A k \in Key, v \in Content :
                /\ StagedView' = [StagedView EXCEPT ![t][k] = v]
                /\ Store' = Store /\ ReadView' = ReadView
                => Serial!Next
           /\ \A k \in Key :
                /\ ReadView[t][k] \in {NotRead, Store[k]}
                /\ ReadView' = [ReadView EXCEPT ![t][k] = Store[k]]
                /\ Store' = Store /\ StagedView' = StagedView
                => Serial!Next
           /\ /\ \A k \in Key : ReadView[t][k] \in {NotRead, Store[k]}
              /\ Store' = [k \in Key |-> IF StagedView[t][k] = NotRead THEN Store[k] ELSE StagedView[t][k]]
              /\ ReadView' = [ReadView EXCEPT ![t] = Nothing]
              /\ StagedView' = [StagedView EXCEPT ![t] = Nothing]
              => Serial!Next
           /\ /\ ReadView' = [ReadView EXCEPT ![t] = Nothing]
              /\ StagedView' = [StagedView EXCEPT ![t] = Nothing]
              /\ Store' = Store
              => Serial!Next
<1>1. Content = Serial!Content /\ Nothing = Serial!Nothing
  BY DEF Content, Serial!Content, Nothing, Serial!Nothing
<1>2. \A k \in Key, v \in Content :
        /\ StagedView' = [StagedView EXCEPT ![t][k] = v]
        /\ Store' = Store /\ ReadView' = ReadView
        => Serial!Write(t, k, v)
  BY DEF Serial!Write, Store, ReadView, StagedView
<1>3. \A k \in Key :
        /\ ReadView[t][k] \in {NotRead, Store[k]}
        /\ ReadView' = [ReadView EXCEPT ![t][k] = Store[k]]
        /\ Store' = Store /\ StagedView' = StagedView
        => Serial!Read(t, k)
  BY DEF Serial!Read, Store, ReadView, StagedView
<1>4. /\ \A k \in Key : ReadView[t][k] \in {NotRead, Store[k]}
      /\ Store' = [k \in Key |-> IF StagedView[t][k] = NotRead THEN Store[k] ELSE StagedView[t][k]]
      /\ ReadView' = [ReadView EXCEPT ![t] = Nothing]
      /\ StagedView' = [StagedView EXCEPT ![t] = Nothing]
      => Serial!Commit(t)
  BY <1>1 DEF Serial!Commit, Store, ReadView, StagedView
<1>5. /\ ReadView' = [ReadView EXCEPT ![t] = Nothing]
      /\ StagedView' = [StagedView EXCEPT ![t] = Nothing]
      /\ Store' = Store
      => Serial!Abort(t)
  BY <1>1 DEF Serial!Abort, Store, ReadView, StagedView
<1> QED
  BY <1>1, <1>2, <1>3, <1>4, <1>5 DEF Serial!Next

\* Whatever an open transaction has read is what the store holds.
LEMMA ReadsCurrent ==
    ASSUME SerialInv, NEW t \in Txn, phase[t] = "open", NEW k \in Key, holders[k][t] # "none"
    PROVE  /\ Store[k] = tree[k]
           /\ read[t][k] \in {NotRead, Store[k]}
<1>1. ASSUME NEW u \in Txn
      PROVE  ~Covers(u, k)
  BY <1>1, CoverLocked DEF SerialInv, Covers
<1>2. Store[k] = tree[k]
  BY <1>1, StoreAt DEF SerialInv, StoreDetermined
<1> QED
  BY <1>2 DEF SerialInv, ReadsStable

\* What an open transaction has read is what the serial store has.
LEMMA ReadsValid ==
    ASSUME SerialInv, NEW t \in Txn, phase[t] = "open", NEW k \in Key
    PROVE  ReadView[t][k] \in {NotRead, Store[k]}
<1>1. ReadView[t] = read[t]
  BY DEF ReadView
<1> QED
  BY <1>1, ReadsCurrent DEF SerialInv, TxnInv, ReadsLocked

\* A step of a transaction that neither reads nor writes shows in no view.
LEMMA ViewsStay ==
    ASSUME \A t \in Txn :
             \/ phase'[t] = phase[t] /\ read'[t] = read[t] /\ overlay'[t] = overlay[t]
             \/ phase[t] # "open" /\ phase'[t] # "open"
             \/ phase[t] # "open" /\ read'[t] = Nothing /\ overlay'[t] = Nothing
    PROVE  ReadView' = ReadView /\ StagedView' = StagedView
<1>1. \A t \in Txn : ReadView'[t] = ReadView[t] /\ StagedView'[t] = StagedView[t]
  BY DEF ReadView, StagedView, Nothing
<1> QED
  BY <1>1 DEF ReadView, StagedView

\* Every step is a step of the serial store or none.
LEMMA StepMaps ==
    ASSUME Undisturbed, SerialInv, SerialInv', [Next]_vars
    PROVE  Serial!Next \/ (Store' = Store /\ ReadView' = ReadView /\ StagedView' = StagedView)
<1>1. TxnInv /\ TypeOK /\ CallsOpen /\ LocalType
  BY TypeParts DEF SerialInv, TxnInv
<1>2. ASSUME NEW t \in Txn, CommitStart(t)
      PROVE  Serial!Next
  <2>1. phase[t] = "open" /\ phase' = [phase EXCEPT ![t] = "committing"] /\ UNCHANGED <<overlay, read>>
    BY <1>2 DEF CommitStart, Ready
  <2>2. ReadView' = [ReadView EXCEPT ![t] = Nothing] /\ StagedView' = [StagedView EXCEPT ![t] = Nothing]
    BY <1>1, <2>1 DEF ReadView, StagedView, LocalType
  <2>3. StagedView[t] = overlay[t]
    BY <2>1 DEF StagedView
  <2>4. Store' = [k \in Key |-> IF StagedView[t][k] = NotRead THEN Store[k] ELSE StagedView[t][k]]
    BY <1>2, <2>3, CommitStartStores
  <2>5. \A k \in Key : ReadView[t][k] \in {NotRead, Store[k]}
    BY <2>1, ReadsValid
  <2> QED
    BY <2>2, <2>4, <2>5, SerialActions
<1> SUFFICES ASSUME \A t \in Txn : ~CommitStart(t)
             PROVE  Serial!Next \/ (Store' = Store /\ ReadView' = ReadView /\ StagedView' = StagedView)
  BY <1>2
<1>3. Store' = Store
  BY StoreStays
<1>4. ASSUME NEW t \in Txn, CommitReadOnly(t) \/ Rollback(t)
      PROVE  Serial!Next
  <2>1. phase[t] = "open" /\ phase' = [phase EXCEPT ![t] = "done"] /\ UNCHANGED <<overlay, read>>
    BY <1>4 DEF CommitReadOnly, Rollback, Ready
  <2>2. ReadView' = [ReadView EXCEPT ![t] = Nothing] /\ StagedView' = [StagedView EXCEPT ![t] = Nothing]
    BY <1>1, <2>1 DEF ReadView, StagedView, LocalType
  <2> QED
    BY <1>3, <2>2, SerialActions
<1>5. ASSUME NEW t \in Txn, Stage(t)
      PROVE  Serial!Next
  <2>1. call[t].key \in Key /\ call[t].row \in Content
    BY <1>1, <1>5, StageAppends
  <2>2. /\ phase[t] = "open" /\ UNCHANGED <<phase, read>>
        /\ overlay' = [overlay EXCEPT ![t][call[t].key] = call[t].row]
    BY <1>1, <1>5 DEF Stage, CallsOpen, NoCall
  <2>3. StagedView' = [StagedView EXCEPT ![t][call[t].key] = call[t].row] /\ ReadView' = ReadView
    BY <1>1, <2>1, <2>2 DEF ReadView, StagedView, LocalType
  <2> QED
    BY <1>3, <2>1, <2>3, SerialActions
<1>6. ASSUME NEW t \in Txn, Get(t), read' # read
      PROVE  Serial!Next
  <2>1. call[t].key \in Key /\ pc[t] = "running" /\ call[t].op = "get"
    BY <1>1, <1>6, CallType DEF Get
  <2>2. /\ phase[t] = "open" /\ UNCHANGED <<phase, overlay>>
        /\ read' = [read EXCEPT ![t][call[t].key] = tree[call[t].key]]
    BY <1>1, <1>6 DEF Get, CallsOpen, NoCall
  <2>3. holders[call[t].key][t] # "none"
    BY <1>1, <2>1, RunningUnqueued DEF TxnInv, CallsServed
  <2>4. Store[call[t].key] = tree[call[t].key]
    BY <2>1, <2>2, <2>3, ReadsCurrent
  <2>5. ReadView' = [ReadView EXCEPT ![t][call[t].key] = Store[call[t].key]] /\ StagedView' = StagedView
    BY <1>1, <2>1, <2>2, <2>4 DEF ReadView, StagedView, LocalType
  <2>6. ReadView[t][call[t].key] \in {NotRead, Store[call[t].key]}
    BY <2>1, <2>2, ReadsValid
  <2> QED
    BY <1>3, <2>1, <2>5, <2>6, SerialActions
<1>7. ASSUME NEW t \in Txn, BeginTxn(t)
      PROVE  ReadView' = ReadView /\ StagedView' = StagedView
  <2>1. /\ phase[t] # "open" /\ phase' = [phase EXCEPT ![t] = "open"]
        /\ read' = [read EXCEPT ![t] = Nothing] /\ overlay' = [overlay EXCEPT ![t] = Nothing]
    BY <1>7 DEF BeginTxn
  <2> QED
    BY <1>1, <2>1, ViewsStay DEF LocalType
<1>8. ASSUME NEW t \in Txn, ApplyFails(t) \/ CommitEnd(t)
      PROVE  ReadView' = ReadView /\ StagedView' = StagedView
  <2>1. phase[t] # "open" /\ phase' = [phase EXCEPT ![t] = "done"] /\ UNCHANGED <<overlay, read>>
    BY <1>8 DEF ApplyFails, CommitEnd
  <2> QED
    BY <1>1, <2>1, ViewsStay DEF LocalType
<1>9. CASE UNCHANGED <<phase, overlay, read>>
  BY <1>3, <1>9 DEF ReadView, StagedView
<1>10. ASSUME NEW t \in Txn, ScanReturn(t)
       PROVE  FALSE
  BY <1>10 DEF ScanReturn, SerialInv, NoScan
<1>11. \/ UNCHANGED <<phase, overlay, read>>
       \/ \E t \in Txn : CommitReadOnly(t) \/ Rollback(t) \/ Stage(t) \/ BeginTxn(t)
       \/ \E t \in Txn : ApplyFails(t) \/ CommitEnd(t) \/ ScanReturn(t)
       \/ \E t \in Txn : Get(t) /\ read' # read
  BY DEF Next, vars, local, LockStep, CallWrite, CallGet, Get, CallScan, ScanLock, ApplyOp
<1> QED
  BY <1>3, <1>4, <1>5, <1>6, <1>7, <1>8, <1>9, <1>10, <1>11

\* Transactions that use put, delete and get are serializable: each takes effect
\* at one instant, at which all it has read is current (lock_manager.py:9-11).
THEOREM TransactionsSerializable == Undisturbed => (Spec => Serializable)
<1> SUFFICES ASSUME Undisturbed
             PROVE  Spec => Serializable
  OBVIOUS
<1>1. Init => Serial!Init
  BY InitMaps
<1>2. SerialInv /\ SerialInv' /\ [Next]_vars => [Serial!Next]_(Serial!svars)
  <2>1. Store' = Store /\ ReadView' = ReadView /\ StagedView' = StagedView => UNCHANGED Serial!svars
    BY DEF Serial!svars, Store, ReadView, StagedView
  <2> QED
    BY <2>1, StepMaps
<1> QED
  BY <1>1, <1>2, SerialInvariant, PTL DEF Spec, Serializable, Serial!Spec
=============================================================================
