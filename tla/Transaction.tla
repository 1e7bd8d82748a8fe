----------------------------- MODULE Transaction -----------------------------
(***************************************************************************)
(* Transactions over one Engine (src/src/transaction.py), each run by a    *)
(* thread of its own, composed with the lock manager they share.  The      *)
(* B+Tree is a function from keys to rows here, and one tree operation is  *)
(* one step; logging and recovery are the subject of DurableTree.          *)
(***************************************************************************)
EXTENDS Integers, Sequences, FiniteSets

CONSTANTS
    Txn, ReadOnly,  \* as in LockManager
    Key,            \* keys, numbers: scan locks them in ascending order
    Row,            \* rows that a put may write
    NoRow,          \* no row
    NotRead,        \* neither read nor written
    Unstorable,     \* rows whose record no page can hold: tree.insert raises
    Scans,          \* whether transactions call scan
    MaxOps          \* bound on the operations staged by a transaction

ASSUME ReadOnlyAssumption == ReadOnly \subseteq Txn
ASSUME FiniteTxnAssumption == IsFiniteSet(Txn)
ASSUME KeyAssumption == Key \subseteq Nat
ASSUME UnstorableAssumption == Unstorable \subseteq Row
ASSUME NoRowAssumption == NoRow \notin Row /\ NotRead \notin Row \cup {NoRow}
ASSUME ScansAssumption == Scans \in BOOLEAN
ASSUME MaxOpsAssumption == MaxOps \in Nat

VARIABLES
    holders, waiters, txnKeys, waitFor, pc, toSignal,   \* LockManager
    tree,      \* rows of the B+Tree
    phase,     \* "none", "open", "committing" or "done" (Transaction._done)
    call,      \* the call of the transaction that is in acquire, or NoCall
    ops,       \* Transaction._ops
    overlay,   \* _overlay and _deleted: NoRow a deleted key, NotRead neither
    applied,   \* how many operations commit has applied to the tree
    read       \* what get and scan have returned from the tree (history)

locks == <<holders, waiters, txnKeys, waitFor, pc, toSignal>>
local == <<phase, call, ops, overlay, applied, read>>
vars == <<locks, tree, local>>

LM == INSTANCE LockManager

Content == Row \cup {NoRow}
Nothing == [k \in Key |-> NotRead]
Call == [op: {"put", "delete", "get"}, key: Key, row: Content]
        \cup [op: {"scan"}, todo: SUBSET Key, row: [Key -> Content]]
NoCall == [op |-> "none"]

TypeOK ==
    /\ LM!TypeOK
    /\ tree \in [Key -> Content]
    /\ phase \in [Txn -> {"none", "open", "committing", "done"}]
    /\ call \in [Txn -> Call \cup {NoCall}]
    /\ ops \in [Txn -> Seq([key: Key, row: Content])]
    /\ \A t \in Txn : Len(ops[t]) <= MaxOps
    /\ overlay \in [Txn -> [Key -> Content \cup {NotRead}]]
    /\ applied \in [Txn -> 0..MaxOps]
    /\ read \in [Txn -> [Key -> Content \cup {NotRead}]]

Init ==
    /\ LM!Init
    /\ tree \in [Key -> Content \ Unstorable]
    /\ phase = [t \in Txn |-> "none"]
    /\ call = [t \in Txn |-> NoCall]
    /\ ops = [t \in Txn |-> <<>>]
    /\ overlay = [t \in Txn |-> Nothing]
    /\ applied = [t \in Txn |-> 0]
    /\ read = [t \in Txn |-> Nothing]

-----------------------------------------------------------------------------
\* Transaction(engine): alloc_txn_id and empty buffers.
BeginTxn(t) ==
    /\ phase[t] \in {"none", "done"}
    /\ LM!Begin(t)
    /\ phase' = [phase EXCEPT ![t] = "open"]
    /\ ops' = [ops EXCEPT ![t] = <<>>]
    /\ overlay' = [overlay EXCEPT ![t] = Nothing]
    /\ applied' = [applied EXCEPT ![t] = 0]
    /\ read' = [read EXCEPT ![t] = Nothing]
    /\ UNCHANGED <<tree, call>>

\* _check_open, by a thread that is not inside another call.
Ready(t) == phase[t] = "open" /\ call[t] = NoCall /\ pc[t] = "running"

\* put and delete: the X lock first.
CallWrite(t, k, v) ==
    /\ Ready(t)
    /\ Len(ops[t]) < MaxOps
    /\ LM!Acquire(t, k, "X")
    /\ call' = [call EXCEPT ![t] =
         [op |-> IF v = NoRow THEN "delete" ELSE "put", key |-> k, row |-> v]]
    /\ UNCHANGED <<tree, phase, ops, overlay, applied, read>>

\* Mutant of Stage: a delete leaves an earlier put of the key in the overlay.
Stage_KeepsDeletedPut(t) ==
    /\ call[t].op \in {"put", "delete"} /\ pc[t] = "running"
    /\ ops' = [ops EXCEPT ![t] = Append(@, [key |-> call[t].key, row |-> call[t].row])]
    /\ overlay' = [overlay EXCEPT ![t][call[t].key] =
         IF call[t].op = "delete" /\ @ # NotRead THEN @ ELSE call[t].row]
    /\ call' = [call EXCEPT ![t] = NoCall]
    /\ UNCHANGED <<locks, tree, phase, applied, read>>

\* The lock is there: the operation is staged and shows in the overlay.
Stage(t) ==
    /\ call[t].op \in {"put", "delete"} /\ pc[t] = "running"
    /\ ops' = [ops EXCEPT ![t] = Append(@, [key |-> call[t].key, row |-> call[t].row])]
    /\ overlay' = [overlay EXCEPT ![t][call[t].key] = call[t].row]
    /\ call' = [call EXCEPT ![t] = NoCall]
    /\ UNCHANGED <<locks, tree, phase, applied, read>>

\* Mutant of CallGet: a read that takes no lock.
CallGet_WithoutLock(t, k) ==
    /\ Ready(t)
    /\ call' = [call EXCEPT ![t] = [op |-> "get", key |-> k, row |-> NoRow]]
    /\ UNCHANGED <<locks, tree, phase, ops, overlay, applied, read>>

CallGet(t, k) ==
    /\ Ready(t)
    /\ LM!Acquire(t, k, "S")
    /\ call' = [call EXCEPT ![t] = [op |-> "get", key |-> k, row |-> NoRow]]
    /\ UNCHANGED <<tree, phase, ops, overlay, applied, read>>

\* get with its lock: the overlay decides, and the tree where it is silent.
Get(t) ==
    /\ call[t].op = "get" /\ pc[t] = "running"
    /\ call' = [call EXCEPT ![t] = NoCall]
    /\ read' = IF overlay[t][call[t].key] = NotRead
               THEN [read EXCEPT ![t][call[t].key] = tree[call[t].key]]
               ELSE read
    /\ UNCHANGED <<locks, tree, phase, ops, overlay, applied>>

\* What scan makes of the tree it read and the overlay.
Overlaid(t) == [k \in Key |-> IF overlay[t][k] = NotRead THEN tree[k] ELSE overlay[t][k]]

\* Mutant of CallScan: the last row of the result is left unlocked.
CallScan_LastUnlocked(t) ==
    /\ Scans
    /\ Ready(t)
    /\ call' = [call EXCEPT ![t] =
         [op |-> "scan", row |-> Overlaid(t),
          todo |-> {k \in Key : \E j \in Key :
                      k < j /\ Overlaid(t)[k] # NoRow /\ Overlaid(t)[j] # NoRow}]]
    /\ UNCHANGED <<locks, tree, phase, ops, overlay, applied, read>>

\* scan reads the whole range before it asks for a single lock.
CallScan(t) ==
    /\ Scans
    /\ Ready(t)
    /\ call' = [call EXCEPT ![t] =
         [op |-> "scan", row |-> Overlaid(t),
          todo |-> {k \in Key : Overlaid(t)[k] # NoRow}]]
    /\ UNCHANGED <<locks, tree, phase, ops, overlay, applied, read>>

\* One lock of the loop over the result.
ScanLock(t) ==
    /\ call[t].op = "scan" /\ pc[t] = "running"
    /\ \E k \in call[t].todo :
         /\ \A j \in call[t].todo : k <= j
         /\ LM!Acquire(t, k, "S")
         /\ call' = [call EXCEPT ![t].todo = @ \ {k}]
    /\ UNCHANGED <<tree, phase, ops, overlay, applied, read>>

\* Every lock is held: the rows read at the start are returned.
ScanReturn(t) ==
    /\ call[t].op = "scan" /\ pc[t] = "running" /\ call[t].todo = {}
    /\ read' = [read EXCEPT ![t] = [k \in Key |->
         IF call[t].row[k] # NoRow /\ overlay[t][k] = NotRead
         THEN call[t].row[k] ELSE read[t][k]]]
    /\ call' = [call EXCEPT ![t] = NoCall]
    /\ UNCHANGED <<locks, tree, phase, ops, overlay, applied>>

-----------------------------------------------------------------------------
\* commit without a staged operation returns at once, and releases nothing.
CommitReadOnly(t) ==
    /\ Ready(t) /\ ops[t] = <<>>
    /\ phase' = [phase EXCEPT ![t] = "done"]
    /\ UNCHANGED <<locks, tree, call, ops, overlay, applied, read>>

\* Mutant of CommitStart: the locks go before the operations are applied.
CommitStart_ReleasesFirst(t) ==
    /\ Ready(t) /\ ops[t] # <<>>
    /\ LM!ReleaseAll(t)
    /\ phase' = [phase EXCEPT ![t] = "committing"]
    /\ UNCHANGED <<tree, call, ops, overlay, applied, read>>

CommitStart(t) ==
    /\ Ready(t) /\ ops[t] # <<>>
    /\ phase' = [phase EXCEPT ![t] = "committing"]
    /\ UNCHANGED <<locks, tree, call, ops, overlay, applied, read>>

NextOp(t) == ops[t][applied[t] + 1]

\* One operation of the loop of commit reaches the tree.
ApplyOp(t) ==
    /\ phase[t] = "committing" /\ applied[t] < Len(ops[t])
    /\ NextOp(t).row \notin Unstorable
    /\ tree' = [tree EXCEPT ![NextOp(t).key] = NextOp(t).row]
    /\ applied' = [applied EXCEPT ![t] = @ + 1]
    /\ UNCHANGED <<locks, phase, call, ops, overlay, read>>

\* Mutant of ApplyFails: the finally clause releases the locks as well.
ApplyFails_Releases(t) ==
    /\ phase[t] = "committing" /\ applied[t] < Len(ops[t])
    /\ NextOp(t).row \in Unstorable
    /\ LM!ReleaseAll(t)
    /\ phase' = [phase EXCEPT ![t] = "done"]
    /\ UNCHANGED <<tree, call, ops, overlay, applied, read>>

\* tree.insert raises: the finally clause runs, the release does not, and
\* rollback will find _done set.  The leaf was being rebuilt in key order and
\* keeps only what precedes the row; where the leaf ends, k, is any key.
ApplyFails(t) ==
    /\ phase[t] = "committing" /\ applied[t] < Len(ops[t])
    /\ NextOp(t).row \in Unstorable
    /\ \E k \in Key :
         /\ NextOp(t).key <= k
         /\ tree' = [j \in Key |-> IF j \in NextOp(t).key..k THEN NoRow ELSE tree[j]]
    /\ phase' = [phase EXCEPT ![t] = "done"]
    /\ UNCHANGED <<locks, call, ops, overlay, applied, read>>

\* The commit record is durable; every lock goes.
CommitEnd(t) ==
    /\ phase[t] = "committing" /\ applied[t] = Len(ops[t])
    /\ LM!ReleaseAll(t)
    /\ phase' = [phase EXCEPT ![t] = "done"]
    /\ UNCHANGED <<tree, call, ops, overlay, applied, read>>

\* rollback, also from __exit__ after DeadlockError or TimeoutError.
Rollback(t) ==
    /\ phase[t] = "open"
    /\ Ready(t) \/ pc[t] = "failed"
    /\ LM!ReleaseAll(t)
    /\ phase' = [phase EXCEPT ![t] = "done"]
    /\ call' = [call EXCEPT ![t] = NoCall]
    /\ UNCHANGED <<tree, ops, overlay, applied, read>>

\* The steps of the lock manager that no call of a transaction makes.
LockStep ==
    /\ \/ \E t, u \in Txn : LM!SetEvent(t, u)
       \/ \E t \in Txn : LM!Expire(t) \/ LM!CleanUp(t)
    /\ UNCHANGED <<tree, local>>

Next ==
    \/ \E t \in Txn, k \in Key, v \in Content : CallWrite(t, k, v)
    \/ \E t \in Txn, k \in Key : CallGet(t, k)
    \/ \E t \in Txn :
         \/ BeginTxn(t) \/ Stage(t) \/ Get(t)
         \/ CallScan(t) \/ ScanLock(t) \/ ScanReturn(t)
         \/ CommitReadOnly(t) \/ CommitStart(t) \/ ApplyOp(t) \/ ApplyFails(t)
         \/ CommitEnd(t) \/ Rollback(t)
    \/ LockStep

Spec == Init /\ [][Next]_vars

-----------------------------------------------------------------------------
\* What get returned is what the tree holds until the transaction ends: no
\* other transaction, committing operation by operation, changes or uncovers a
\* row under a reader (transaction.py:128-129).
ReadsStable ==
    \A t \in Txn, k \in Key :
        phase[t] = "open" => read[t][k] \in {NotRead, tree[k]}

\* The type invariant with it.
RepeatableReads == TypeOK /\ ReadsStable

\* Every row that get or scan has handed out is locked by the reader until it
\* ends (transaction.py:145-147), through refused and timed-out requests too.
ReadsLocked ==
    \A t \in Txn, k \in Key :
        phase[t] = "open" /\ read[t][k] # NotRead => holders[k][t] # "none"

\* A commit that failed half-way keeps every key it was to write exclusively
\* locked for good: no other transaction gets to read a torn write through get.
TornCommitStaysLocked ==
    \A t \in Txn : phase[t] = "done" /\ applied[t] < Len(ops[t]) /\ applied[t] > 0 =>
        \A i \in 1..Len(ops[t]) : holders[ops[t][i].key][t] = "X"

\* When a commit releases its locks, the tree holds for every key it wrote
\* exactly what its overlay showed the transaction: the operation list and the
\* overlay agree, and no other commit has come between (transaction.py:41-43).
CommitInstallsOverlay ==
    [][\A t \in Txn : CommitEnd(t) =>
        \A k \in Key : overlay[t][k] \in {NotRead, tree[k]}]_vars

\* Reading the tree through the overlays of the transactions that are
\* committing gives a store in which every transaction takes effect at once,
\* when its commit starts.
Serial == INSTANCE SerialStore WITH
    store <- [k \in Key |->
        IF \E t \in Txn : phase[t] = "committing" /\ overlay[t][k] # NotRead
        THEN overlay[CHOOSE t \in Txn : phase[t] = "committing" /\ overlay[t][k] # NotRead][k]
        ELSE tree[k]],
    read   <- [t \in Txn |-> IF phase[t] = "open" THEN read[t] ELSE Nothing],
    staged <- [t \in Txn |-> IF phase[t] = "open" THEN overlay[t] ELSE Nothing]

\* Serializability (lock_manager.py:9-11), for transactions that use put, delete
\* and get: each takes effect at one instant at which its reads are current.
Serializable == Serial!Spec

\* "Locks are released all-at-once on commit or rollback" (lock_manager.py:10).
ReleasedWhenDone ==
    \A t \in Txn : phase[t] = "done" => \A k \in Key : holders[k][t] = "none"

\* "Apply all staged operations atomically" (transaction.py:175): a commit that
\* does not get through leaves the tree as it found it.
FailedCommitChangesNothing ==
    [][\A t \in Txn :
        phase[t] = "committing" /\ phase'[t] = "done" /\ applied[t] < Len(ops[t])
            => applied[t] = 0 /\ tree' = tree]_vars
=============================================================================
