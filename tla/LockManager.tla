----------------------------- MODULE LockManager -----------------------------
(***************************************************************************)
(* The key-level two-phase lock manager of src/src/lock_manager.py.        *)
(*                                                                         *)
(* A member of Txn is a slot of the client program: it runs one            *)
(* transaction after another, each with a fresh id (alloc_txn_id is a      *)
(* counter and never gives an id twice).  Every critical section under     *)
(* LockManager._mu is one action; the event.set() calls that release_all   *)
(* makes after leaving the mutex, the expiry of event.wait and the         *)
(* clean-up that follows it under the mutex are actions of their own.      *)
(***************************************************************************)
EXTENDS Naturals, Sequences, FiniteSets

CONSTANTS
    Txn,       \* slots that run transactions
    Key,       \* lockable keys
    ReadOnly   \* slots whose transactions ask for S locks only

ASSUME ReadOnlyAssumption == ReadOnly \subseteq Txn
ASSUME FiniteTxnAssumption == IsFiniteSet(Txn)

VARIABLES
    holders,   \* _LockEntry.holders of every key; no entry reads "none"
    waiters,   \* _LockEntry.waiters of every key, the event named by its txn
    txnKeys,   \* LockManager._txn_keys
    waitFor,   \* LockManager._wait_for; no entry reads {}
    pc,        \* what the thread of the slot is doing
    toSignal   \* events the thread of a finished transaction has yet to set

vars == <<holders, waiters, txnKeys, waitFor, pc, toSignal>>

Mode == {"S", "X"}
Request == [txn: Txn, mode: Mode]

(* "idle": no open transaction; "running": between two calls; "blocked":   *)
(* in event.wait; "expired": event.wait returned False, the clean-up is    *)
(* still to come; "failed": acquire raised, only the rollback remains.     *)
PC == {"idle", "running", "blocked", "expired", "failed"}

TypeOK ==
    /\ holders \in [Key -> [Txn -> Mode \cup {"none"}]]
    /\ waiters \in [Key -> Seq(Request)]
    /\ txnKeys \in [Txn -> SUBSET Key]
    /\ waitFor \in [Txn -> SUBSET Txn]
    /\ pc \in [Txn -> PC]
    /\ toSignal \in [Txn -> SUBSET Txn]

Init ==
    /\ holders = [k \in Key |-> [t \in Txn |-> "none"]]
    /\ waiters = [k \in Key |-> <<>>]
    /\ txnKeys = [t \in Txn |-> {}]
    /\ waitFor = [t \in Txn |-> {}]
    /\ pc = [t \in Txn |-> "idle"]
    /\ toSignal = [t \in Txn |-> {}]

-----------------------------------------------------------------------------
(* Helpers on a holder table h (txn -> mode), a queue q and a graph g. *)

\* Mutant of CanGrant: a shared request is admitted beside an exclusive lock.
CanGrant_IgnoresHolderMode(h, t, m) ==
    \A u \in Txn \ {t} : h[u] = "none" \/ m = "S"

\* X excludes every other holder, S excludes other X holders; the caller's own
\* hold is transparent, which is what makes an upgrade possible.
CanGrant(h, t, m) ==
    \A u \in Txn \ {t} : h[u] = "none" \/ (h[u] = "S" /\ m = "S")

AlreadyHolds(t, k, m) == holders[k][t] = "X" \/ (holders[k][t] = "S" /\ m = "S")

\* The holder table once the first n requests of the queue have been granted.
AfterGrants(h, q, n) ==
    [t \in Txn |->
        IF \E i \in 1..n : q[i] = [txn |-> t, mode |-> "X"] THEN "X"
        ELSE IF \E i \in 1..n : q[i] = [txn |-> t, mode |-> "S"] THEN "S"
        ELSE h[t]]

\* Mutant of Grantable: only the head of the queue is looked at.
Grantable_HeadOnly(h, q) ==
    {i \in 1..Len(q) : i = 1 /\ CanGrant(h, q[1].txn, q[1].mode)}

\* Positions of the queue that _advance_waiters grants: it scans from the head
\* and stops at the first request the holders, old and new, do not admit.
Grantable(h, q) ==
    {i \in 1..Len(q) : \A j \in 1..i :
        CanGrant(AfterGrants(h, q, j - 1), q[j].txn, q[j].mode)}

\* The wait-for graph has a cycle through t: every set of transactions that
\* holds the successors of t and is closed under the edges contains t.
HasCycle(g, t) ==
    \A S \in SUBSET Txn :
        (g[t] \subseteq S /\ \A u \in S : g[u] \subseteq S) => t \in S

\* Mutant of OtherHolders: the edges of an upgrade lead back to itself.
OtherHolders_WithSelf(t, k) == {u \in Txn : holders[k][u] # "none"}

OtherHolders(t, k) == {u \in Txn \ {t} : holders[k][u] # "none"}

Queued(t, k) == \E i \in 1..Len(waiters[k]) : waiters[k][i].txn = t

-----------------------------------------------------------------------------
(* A new transaction starts in the slot.  Its id is new: an edge of the    *)
(* wait-for graph that still names the slot's previous transaction leads   *)
(* to an id without edges, and is dropped here.                            *)
Begin(t) ==
    /\ pc[t] = "idle" /\ toSignal[t] = {}
    /\ pc' = [pc EXCEPT ![t] = "running"]
    /\ waitFor' = [u \in Txn |-> waitFor[u] \ {t}]
    /\ UNCHANGED <<holders, waiters, txnKeys, toSignal>>

\* Mutant of Asks: the key joins _txn_keys only when the lock is granted at once.
Asks_OnGrantOnly(t, k, m) ==
    /\ pc[t] = "running"
    /\ m = "X" => t \notin ReadOnly
    /\ txnKeys' = IF CanGrant(holders[k], t, m)
                  THEN [txnKeys EXCEPT ![t] = @ \cup {k}]
                  ELSE txnKeys

\* What every call of acquire does first: the key joins _txn_keys before it is
\* known whether the lock is free.
Asks(t, k, m) ==
    /\ pc[t] = "running"
    /\ m = "X" => t \notin ReadOnly
    /\ txnKeys' = [txnKeys EXCEPT ![t] = @ \cup {k}]

AcquireHeld(t, k, m) ==
    /\ Asks(t, k, m)
    /\ AlreadyHolds(t, k, m)
    /\ UNCHANGED <<holders, waiters, waitFor, pc, toSignal>>

\* Only the holders decide: the queue of the key is not looked at.
AcquireFree(t, k, m) ==
    /\ Asks(t, k, m)
    /\ ~AlreadyHolds(t, k, m)
    /\ CanGrant(holders[k], t, m)
    /\ holders' = [holders EXCEPT ![k][t] = m]
    /\ UNCHANGED <<waiters, waitFor, pc, toSignal>>

\* The graph with the edges of the request: to the holders, never to the queue.
EdgesFor(t, k) == [waitFor EXCEPT ![t] = OtherHolders(t, k)]

AcquireWait(t, k, m) ==
    /\ Asks(t, k, m)
    /\ ~AlreadyHolds(t, k, m)
    /\ ~CanGrant(holders[k], t, m)
    /\ ~HasCycle(EdgesFor(t, k), t)
    /\ waiters' = [waiters EXCEPT ![k] = Append(@, [txn |-> t, mode |-> m])]
    /\ waitFor' = EdgesFor(t, k)
    /\ pc' = [pc EXCEPT ![t] = "blocked"]
    /\ UNCHANGED <<holders, toSignal>>

\* DeadlockError: the request is taken off the queue and its edges deleted.
AcquireRefused(t, k, m) ==
    /\ Asks(t, k, m)
    /\ ~AlreadyHolds(t, k, m)
    /\ ~CanGrant(holders[k], t, m)
    /\ HasCycle(EdgesFor(t, k), t)
    /\ waitFor' = [waitFor EXCEPT ![t] = {}]
    /\ pc' = [pc EXCEPT ![t] = "failed"]
    /\ UNCHANGED <<holders, waiters, toSignal>>

Acquire(t, k, m) ==
    \/ AcquireHeld(t, k, m)
    \/ AcquireFree(t, k, m)
    \/ AcquireWait(t, k, m)
    \/ AcquireRefused(t, k, m)

\* event.wait(30.0) returns False; the thread does not hold the mutex yet.
Expire(t) ==
    /\ pc[t] = "blocked"
    /\ pc' = [pc EXCEPT ![t] = "expired"]
    /\ UNCHANGED <<holders, waiters, txnKeys, waitFor, toSignal>>

\* Mutant of CleanUp: the last request of the queue is taken off, whosever it is.
CleanUp_PopsLast(t) ==
    /\ pc[t] = "expired"
    /\ \/ \E k \in Key :
            /\ Queued(t, k)
            /\ waiters' = [waiters EXCEPT ![k] = SubSeq(@, 1, Len(@) - 1)]
       \/ /\ \A k \in Key : ~Queued(t, k)
          /\ waiters' = waiters
    /\ waitFor' = [waitFor EXCEPT ![t] = {}]
    /\ pc' = [pc EXCEPT ![t] = "failed"]
    /\ toSignal' = [u \in Txn |-> toSignal[u] \ {t}]
    /\ UNCHANGED <<holders, txnKeys>>

\* Mutant of CleanUp: a timed-out upgrade loses the shared lock it held.
CleanUp_DropsHold(t) ==
    /\ pc[t] = "expired"
    /\ \E k \in Key : \E i \in 1..Len(waiters[k]) :
         /\ waiters[k][i].txn = t
         /\ waiters' = [waiters EXCEPT ![k] =
              SubSeq(@, 1, i - 1) \o SubSeq(@, i + 1, Len(@))]
         /\ holders' = [holders EXCEPT ![k][t] = "none"]
    /\ waitFor' = [waitFor EXCEPT ![t] = {}]
    /\ pc' = [pc EXCEPT ![t] = "failed"]
    /\ UNCHANGED <<txnKeys, toSignal>>

\* The clean-up of a timed-out request: it leaves the queue unless a releaser
\* has granted it meanwhile, and the queue is not advanced.  The event dies
\* with the call, so a releaser that still has to set it wakes nobody.
CleanUp(t) ==
    /\ pc[t] = "expired"
    /\ \/ \E k \in Key : \E i \in 1..Len(waiters[k]) :
            /\ waiters[k][i].txn = t
            /\ waiters' = [waiters EXCEPT ![k] =
                 SubSeq(@, 1, i - 1) \o SubSeq(@, i + 1, Len(@))]
       \/ /\ \A k \in Key : ~Queued(t, k)
          /\ waiters' = waiters
    /\ waitFor' = [waitFor EXCEPT ![t] = {}]
    /\ pc' = [pc EXCEPT ![t] = "failed"]
    /\ toSignal' = [u \in Txn |-> toSignal[u] \ {t}]
    /\ UNCHANGED <<holders, txnKeys>>

\* The queue of key k when t gives up its hold: positions granted, transactions
\* woken.
Dropped(t, k) == [holders[k] EXCEPT ![t] = "none"]
Advanced(t, k) == Grantable(Dropped(t, k), waiters[k])

\* Mutant of Woken: the events of one key only (assigned, not extended).
Woken_OneKey(t) ==
    {u \in Txn : \E k \in txnKeys[t] : \E i \in Advanced(t, k) :
        waiters[k][i].txn = u /\ k = CHOOSE l \in txnKeys[t] : TRUE}

\* Mutant of Woken: queue entries where their events are meant.
Woken_Entries(t) ==
    UNION {{waiters[k][i] : i \in Advanced(t, k)} : k \in txnKeys[t]}

Woken(t) ==
    {u \in Txn : \E k \in txnKeys[t] : \E i \in Advanced(t, k) :
        waiters[k][i].txn = u}

\* release_all under the mutex: every key of the transaction at once.
ReleaseAll(t) ==
    /\ pc[t] \in {"running", "failed"}
    /\ holders' = [k \in Key |->
         IF k \in txnKeys[t]
         THEN AfterGrants(Dropped(t, k), waiters[k], Cardinality(Advanced(t, k)))
         ELSE holders[k]]
    /\ waiters' = [k \in Key |->
         IF k \in txnKeys[t]
         THEN SubSeq(waiters[k], Cardinality(Advanced(t, k)) + 1, Len(waiters[k]))
         ELSE waiters[k]]
    /\ txnKeys' = [txnKeys EXCEPT ![t] = {}]
    /\ waitFor' = [u \in Txn |-> IF u = t \/ u \in Woken(t) THEN {} ELSE waitFor[u]]
    /\ toSignal' = [toSignal EXCEPT ![t] = Woken(t)]
    /\ pc' = [pc EXCEPT ![t] = "idle"]

\* One ev.set() of release_all, after the mutex: event.wait returns True in the
\* woken thread unless its wait has expired already.
SetEvent(t, u) ==
    /\ u \in toSignal[t]
    /\ toSignal' = [toSignal EXCEPT ![t] = @ \ {u}]
    /\ pc' = [pc EXCEPT ![u] = IF @ = "blocked" THEN "running" ELSE @]
    /\ UNCHANGED <<holders, waiters, txnKeys, waitFor>>

\* Every step but the 30 s safety net.
NextUntimed ==
    \/ \E t \in Txn : Begin(t) \/ ReleaseAll(t)
    \/ \E t \in Txn, k \in Key, m \in Mode : Acquire(t, k, m)
    \/ \E t, u \in Txn : SetEvent(t, u)

Next ==
    \/ NextUntimed
    \/ \E t \in Txn : Expire(t) \/ CleanUp(t)

Spec == Init /\ [][Next]_vars

(* A thread that is between two steps of the lock manager takes the next   *)
(* one, and a client ends every transaction it starts: the contract of     *)
(* Transaction, whose __exit__ commits or rolls back.                      *)
Fairness ==
    /\ \A t \in Txn : WF_vars(ReleaseAll(t)) /\ WF_vars(CleanUp(t))
    /\ \A t, u \in Txn : WF_vars(SetEvent(t, u))

FairSpec == Spec /\ Fairness

\* The same scheduling with the safety net out of the picture.
UntimedSpec == Init /\ [][NextUntimed]_vars /\ Fairness

-----------------------------------------------------------------------------
(* Safety *)

\* An exclusive lock is held by one transaction and beside no shared lock,
\* whatever mix of immediate grants, upgrades, queue grants, time-outs and
\* refusals led there (lock compatibility, lock_manager.py:13-17).
Compatible ==
    \A k \in Key : \A t, u \in Txn :
        t # u /\ holders[k][t] = "X" => holders[k][u] = "none"

\* Every lock held and every request queued is on a key of _txn_keys, so that
\* release_all finds it; when the transaction has ended nothing of it is left,
\* even where it was granted its lock while its wait timed out (:137-144).
NothingLeaks ==
    /\ \A t \in Txn, k \in Key :
         holders[k][t] # "none" \/ Queued(t, k) => k \in txnKeys[t]
    /\ \A t \in Txn : pc[t] = "idle" => txnKeys[t] = {} /\ waitFor[t] = {}

Stalled(k) ==
    waiters[k] # <<>> /\ CanGrant(holders[k], waiters[k][1].txn, waiters[k][1].mode)

\* The head of a queue could be granted only while a transaction whose request
\* failed still has that key to release: the clean-up of a time-out does not
\* advance the queue (:139-144), the rollback that must follow does (:160-165).
NoLostWakeup ==
    \A k \in Key : Stalled(k) => \E t \in Txn : pc[t] = "failed" /\ k \in txnKeys[t]

\* A thread in event.wait is in one queue, or exactly one releaser is about to
\* set its event: no wake-up is lost between the mutex and ev.set() (:173-175).
NoLostSignal ==
    \A t \in Txn : pc[t] = "blocked" =>
        Cardinality({k \in Key : Queued(t, k)})
            + Cardinality({u \in Txn : t \in toSignal[u]}) = 1

\* Strict two-phase locking (:9-11): when a transaction loses a lock, or has X
\* weakened to S, that step takes every lock it has.
StrictTwoPhase ==
    [][\A t \in Txn :
        (\E k \in Key : \/ holders[k][t] # "none" /\ holders'[k][t] = "none"
                        \/ holders[k][t] = "X" /\ holders'[k][t] = "S")
        => \A k \in Key : holders'[k][t] = "none"]_vars

\* Waiters of a key are served in arrival order (:39-41): no request leaves the
\* queue ahead of an earlier one, unless its own wait failed.
ServedInOrder ==
    [][\A k \in Key : \A earlier, later \in Txn :
        LET Ahead == \E i, j \in 1..Len(waiters[k]) :
                j < i /\ waiters[k][j].txn = earlier /\ waiters[k][i].txn = later
        IN  Ahead /\ Queued(earlier, k)' /\ ~Queued(later, k)' =>
                pc'[later] = "failed"]_vars

Conflicting(t, k, m) ==
    {u \in Txn \ {t} : holders[k][u] # "none" /\ ~(holders[k][u] = "S" /\ m = "S")}

\* Whom a queued request waits for: the holders it conflicts with, and the
\* requests ahead of it in the queue.
HoldersAgainst(t) ==
    {u \in Txn : \E k \in Key : \E i \in 1..Len(waiters[k]) :
        waiters[k][i].txn = t /\ u \in Conflicting(t, k, waiters[k][i].mode)}
QueueAheadOf(t) ==
    {u \in Txn \ {t} : \E k \in Key : \E i, j \in 1..Len(waiters[k]) :
        j < i /\ waiters[k][i].txn = t /\ waiters[k][j].txn = u}

\* DeadlockError is raised only where blocking would close a cycle of requests
\* each of which conflicts with a lock that the next one holds: the edges of
\* _wait_for, never recomputed, mislead the check into no needless error.
DeadlockErrorJustified ==
    [][\A t \in Txn, k \in Key, m \in Mode : AcquireRefused(t, k, m) =>
        \E S \in SUBSET Txn :
            /\ t \in S
            /\ Conflicting(t, k, m) \cap S # {}
            /\ \A u \in S \ {t} : HoldersAgainst(u) \cap S # {}]_vars

-----------------------------------------------------------------------------
(* Liveness *)

\* A queue whose head could be granted does not stay that way: the rollback of
\* the transaction that timed out advances it.
StalledQueueMoves == \A k \in Key : Stalled(k) ~> ~Stalled(k)

-----------------------------------------------------------------------------
(* Refinement *)

\* A request is pending while it is in a queue.
Service == INSTANCE LockService WITH
    locks   <- holders,
    pending <- UNION {{[txn |-> waiters[k][i].txn, key |-> k, mode |-> waiters[k][i].mode] :
                          i \in 1..Len(waiters[k])} : k \in Key}

\* The lock manager is an implementation of the lock service: locks grow only by
\* the transaction's own request and vanish together, in one step.
ImplementsService == Service!Spec

-----------------------------------------------------------------------------
(* What the documentation says of deadlocks, upgrades and starvation *)

Upgrading(t) == \E k \in Key : Queued(t, k) /\ holders[k][t] = "S"

\* "If a cycle is found, DeadlockError is raised immediately for the transaction
\* that would complete the cycle" (:31-35): no set of blocked transactions waits
\* for one another (upgrades have a statement of their own, below).
NoUndetectedDeadlock ==
    \A S \in SUBSET {t \in Txn : ~Upgrading(t)} \ {{}} :
        \E t \in S : (HoldersAgainst(t) \cup QueueAheadOf(t)) \cap S = {}

\* An upgrade "waits (keeping its S lock) until all other S holders release"
\* (:22-24): a queued upgrade has another holder to wait for.
UpgradeWaitsForHolders ==
    \A t \in Txn, k \in Key :
        Queued(t, k) /\ holders[k][t] = "S" =>
            OtherHolders(t, k) # {} \/ \E u \in Txn : pc[u] = "failed"

\* "This prevents exclusive-lock starvation" (:41): a queued request for X is
\* not passed over for ever while every transaction ends.
NoStarvation ==
    \A t \in Txn, k \in Key :
        Queued(t, k) /\ t \notin ReadOnly ~> ~Queued(t, k)
=============================================================================
