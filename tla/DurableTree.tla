---------------------------- MODULE DurableTree ------------------------------
(***************************************************************************)
(* The pager (src/src/bplus_pager.py) between the B+Tree, the log and the  *)
(* data file: logging, eviction, flush, commit brackets, crash, recovery.  *)
(* A tree operation is one step for the process, its calls of the pager    *)
(* are taken from BPlusTree's record of them; what a crash leaves of it    *)
(* depends on how much of the log, and which of the data-file writes since *)
(* the last fsync, had reached the disk.                                   *)
(*                                                                         *)
(* An LSN is the position of a record in the log since its last            *)
(* truncation: page_lsn is the position of the page's last record.         *)
(***************************************************************************)
EXTENDS Integers, Sequences, FiniteSets, SequencesExt, Wal

CONSTANTS
    Key, Row, NoRow, Order,   \* as in BPlusTree
    Txn,          \* slots that run explicit transactions
    Unknown,      \* not a row: no promise made, or no answer
    Stocked,      \* the sets of keys the store may start with
    Fresh,        \* whether it may start with a file just created, or must (subset of BOOLEAN)
    AutoPut,      \* the keys that the engine's own put may be called for
    AutoDelete,   \* and its delete
    Evicts,       \* when pages may be evicted: "never", "idle" (no commit going on), "always"
    Threads,      \* whether transactions commit in several threads at once
    Resumes,      \* whether the database is written to after a recovery
    MaxTxnOps,    \* bound on the operations of a transaction
    MaxOps,       \* bound on the tree operations, transactions' included
    MaxCrashes    \* bound on the crashes

VARIABLES
    tree,       \* the B+Tree with the pages as the process sees them
    dirty,      \* pages of the pool that are marked dirty
    log,        \* the log since its last truncation: WAL file, then WAL._buf
    synced,     \* how many of its records are in the WAL file
    disk,       \* what is certain to be in the data file
    file,       \* the data file as a read returns it
    written,    \* writes to the data file since its last fsync
    io,         \* the point reached in flush or in recovery
    phase,      \* of each commit: "idle", "applying", "syncing" or "raised"
    todo,       \* the operations it commits
    applied,    \* how many of them it has applied
    target,     \* the records that its fsync writes
    txnWriting, \* BPlusPager._txn_writing
    deferred,   \* BPlusPager._deferred_evictions
    out,        \* pages put aside there that nobody has read again
    versions,   \* contents that a crash may go back to (history)
    promised,   \* rows that a commit that returned vouches for (history)
    ops, crashes

store == <<dirty, log, synced, disk, file, written>>
commits == <<phase, todo, applied, target, txnWriting, deferred, out>>
history == <<versions, promised>>
vars == <<tree, store, io, commits, history, ops, crashes>>

T == INSTANCE BPlusTree

Content == Row \cup {NoRow}
Op == [key: Key, row: Content]
Meta == -2            \* the meta page among the pages of the data file
NoFile == <<>>
Closed == [pages |-> <<>>, root |-> T!NoPage, next |-> 0, log |-> <<>>]

Now == versions[Len(versions)]

\* The descent ends at an index page without children, where reading raises.
Raises(s, k) == ~s.pages[T!FindLeaf(s, k)].leaf

\* What search returns for every key; Unknown stands for an exception.
ContentOf(s) == [k \in Key |-> IF Raises(s, k) THEN Unknown ELSE T!Search(s, k)]
Idle == \A t \in Txn : phase[t] = "idle"
InUse == io = "none" /\ (Resumes \/ crashes = 0)

-----------------------------------------------------------------------------
(* The pager under the tree's calls *)

\* to_bytes and from_bytes: an index page without keys comes back without
\* children.
OnDisk(p) == IF ~p.leaf /\ p.keys = <<>> THEN T!Index(<<>>, <<>>) ELSE p

\* mark_dirty and log_meta_update append a record, the allocation of a page none.
Records(calls) ==
    LET cs == SelectSeq(calls, LAMBDA c : c.call # "new")
    IN  [i \in 1..Len(cs) |->
            IF cs[i].call = "dirty" THEN PageWrite(cs[i].page, OnDisk(cs[i].image))
            ELSE MetaUpdate(cs[i].page)]

Called(calls, c) == {calls[i] : i \in {j \in 1..Len(calls) : calls[j].call = c}}

Write(f, ws) ==
    [p \in DOMAIN f \cup {w.page : w \in ws} |->
        IF \E w \in ws : w.page = p THEN (CHOOSE w \in ws : w.page = p).image ELSE f[p]]

Image(p, image) == [page |-> p, image |-> image]
NewImages(calls) == {Image(c.page, c.image) : c \in Called(calls, "new")}

\* The effect of a tree operation that turns the tree into s: new pages are
\* written to the data file at once, changed pages are logged and marked dirty.
Performs(s) ==
    /\ tree' = T!Forget(s)
    /\ log' = log \o Records(s.log)
    /\ dirty' = dirty \cup {c.page : c \in Called(s.log, "dirty")}
    /\ file' = Write(file, NewImages(s.log))
    /\ written' = written \cup NewImages(s.log)
    /\ UNCHANGED <<synced, disk>>

After(s, op) == IF op.row = NoRow THEN T!Deleted(s, op.key) ELSE T!Inserted(s, op.key, op.row)

PageLsn(p) ==
    LET own == {i \in 1..Len(log) : log[i].type = "page" /\ log[i].page = p}
    IN  IF own = {} THEN 0 ELSE CHOOSE i \in own : \A j \in own : j <= i

MetaImage == Image(Meta, [root |-> tree.root, next |-> tree.next])

-----------------------------------------------------------------------------
RECURSIVE Stock(_, _)
Stock(s, ks) ==
    IF ks = {} THEN s
    ELSE LET k == CHOOSE k \in ks : \A j \in ks : k <= j
         IN  Stock(T!Inserted(s, k, CHOOSE v \in Row : TRUE), ks \ {k})

OnFile(s) ==
    [p \in DOMAIN s.pages \cup {Meta} |->
        IF p = Meta THEN [root |-> s.root, next |-> s.next] ELSE OnDisk(s.pages[p])]

\* A database that was flushed and whose log is empty.
InitFlushed ==
    \E ks \in Stocked :
        /\ tree = T!Forget(Stock(T!EmptyTree, ks))
        /\ disk = OnFile(tree) /\ file = disk /\ written = {}
        /\ log = <<>>

\* Engine(path) on a path that did not exist: _create_new writes the meta page,
\* without fsync, and BPlusTree() allocates the root.
InitFresh ==
    /\ tree = T!Forget(T!EmptyTree)
    /\ disk = NoFile
    /\ written = {Image(Meta, [root |-> T!NoPage, next |-> 0])} \cup NewImages(T!EmptyTree.log)
    /\ file = Write(NoFile, written)
    /\ log = Records(T!EmptyTree.log)

Init ==
    /\ \/ TRUE \in Fresh /\ InitFresh
       \/ FALSE \in Fresh /\ InitFlushed
    /\ dirty = {} /\ synced = 0 /\ io = "none"
    /\ phase = [t \in Txn |-> "idle"]
    /\ todo = [t \in Txn |-> <<>>]
    /\ applied = [t \in Txn |-> 0]
    /\ target = [t \in Txn |-> <<>>]
    /\ txnWriting = FALSE /\ deferred = <<>> /\ out = {}
    /\ versions = <<ContentOf(tree)>>
    /\ promised = [k \in Key |-> Unknown]
    /\ ops = 0 /\ crashes = 0

-----------------------------------------------------------------------------
\* Engine.put and Engine.delete, outside any transaction.
AutoOp(op) ==
    /\ InUse /\ Idle /\ ops < MaxOps
    /\ op.key \in IF op.row = NoRow THEN AutoDelete ELSE AutoPut
    /\ ~Raises(tree, op.key)
    /\ Performs(After(tree, op))
    /\ versions' = Append(versions, [Now EXCEPT ![op.key] = op.row])
    /\ promised' = [promised EXCEPT ![op.key] = Unknown]
    /\ ops' = ops + 1
    /\ UNCHANGED <<io, commits, crashes>>

\* Mutant of Evict: the page is written without the log before it.
Evict_NoFsync(p) ==
    /\ InUse /\ (Evicts = "always" \/ (Evicts = "idle" /\ Idle))
    /\ p \in dirty
    /\ dirty' = dirty \ {p}
    /\ LET image == Image(p, OnDisk(tree.pages[p])) IN
       IF txnWriting
       THEN /\ deferred' = Append(deferred, image)
            /\ out' = out \cup {p}
            /\ UNCHANGED <<file, written>>
       ELSE /\ file' = Write(file, {image})
            /\ written' = written \cup {image}
            /\ UNCHANGED <<deferred, out>>
    /\ UNCHANGED <<tree, log, synced, disk, io, phase, todo, applied, target, txnWriting, history, ops, crashes>>

\* An eviction between two operations: the log is written up to the page's last
\* record, then the page; while a transaction is being applied the page is only
\* put aside.
Evict(p) ==
    /\ InUse /\ (Evicts = "always" \/ (Evicts = "idle" /\ Idle))
    /\ p \in dirty
    /\ dirty' = dirty \ {p}
    /\ LET image == Image(p, OnDisk(tree.pages[p])) IN
       IF txnWriting
       THEN /\ deferred' = Append(deferred, image)
            /\ out' = out \cup {p}
            /\ UNCHANGED <<synced, file, written>>
       ELSE /\ synced' = IF PageLsn(p) > synced THEN PageLsn(p) ELSE synced
            /\ file' = Write(file, {image})
            /\ written' = written \cup {image}
            /\ UNCHANGED <<deferred, out>>
    /\ UNCHANGED <<tree, log, disk, io, phase, todo, applied, target, txnWriting, history, ops, crashes>>

-----------------------------------------------------------------------------
(* Transaction.commit *)

Sets(m, list) ==
    [k \in Key |->
        LET own == {i \in 1..Len(list) : list[i].key = k}
        IN  IF own = {} THEN m[k] ELSE list[CHOOSE i \in own : \A j \in own : j <= i].row]

KeysOf(list) == {list[i].key : i \in 1..Len(list)}

\* Mutant of CommitBegin: no TXN_BEGIN is logged.
CommitBegin_NoRecord(t, list) ==
    /\ InUse /\ phase[t] = "idle" /\ (Threads \/ Idle)
    /\ ops + Len(list) <= MaxOps
    /\ \A u \in Txn : phase[u] # "idle" => KeysOf(todo[u]) \cap KeysOf(list) = {}
    /\ phase' = [phase EXCEPT ![t] = "applying"]
    /\ todo' = [todo EXCEPT ![t] = list]
    /\ applied' = [applied EXCEPT ![t] = 0]
    /\ txnWriting' = TRUE /\ deferred' = <<>>
    /\ versions' = Append(versions, Sets(Now, list))
    /\ promised' = [k \in Key |-> IF k \in KeysOf(list) THEN Unknown ELSE promised[k]]
    /\ ops' = ops + Len(list)
    /\ UNCHANGED <<tree, store, io, target, out, crashes>>

\* commit up to the loop; the locks keep the keys of two commits apart.
CommitBegin(t, list) ==
    /\ InUse /\ phase[t] = "idle" /\ (Threads \/ Idle)
    /\ ops + Len(list) <= MaxOps
    /\ \A u \in Txn : phase[u] # "idle" => KeysOf(todo[u]) \cap KeysOf(list) = {}
    /\ log' = Append(log, TxnBegin(t))
    /\ phase' = [phase EXCEPT ![t] = "applying"]
    /\ todo' = [todo EXCEPT ![t] = list]
    /\ applied' = [applied EXCEPT ![t] = 0]
    /\ txnWriting' = TRUE /\ deferred' = <<>>
    /\ versions' = Append(versions, Sets(Now, list))
    /\ promised' = [k \in Key |-> IF k \in KeysOf(list) THEN Unknown ELSE promised[k]]
    /\ ops' = ops + Len(list)
    /\ UNCHANGED <<tree, dirty, synced, disk, file, written, io, target, out, crashes>>

NextOp(t) == todo[t][applied[t] + 1]
PathOf(op) == {step.id : step \in ToSet(T!FindPath(tree, op.key))}
ChangedBy(op) == {c.page : c \in Called(After(tree, op).log, "dirty")}

\* The next operation comes to a page that was put aside, or to a sibling of one
\* on its path: get_page reads the data file, which does not have the page yet.
Reread(t) ==
    /\ phase[t] = "applying" /\ applied[t] < Len(todo[t])
    /\ \E p \in out :
         /\ \E q \in PathOf(NextOp(t)) :
              p = q \/ (~tree.pages[q].leaf /\ p \in ToSet(tree.pages[q].kids))
         /\ tree' = [tree EXCEPT !.pages[p] = file[p]]
         /\ out' = out \ {p}
    /\ UNCHANGED <<store, io, phase, todo, applied, target, txnWriting, deferred, history, ops, crashes>>

\* One operation of the loop reaches the tree.
ApplyOp(t) ==
    /\ phase[t] = "applying" /\ applied[t] < Len(todo[t])
    /\ PathOf(NextOp(t)) \cap out = {} /\ ~Raises(tree, NextOp(t).key)
    /\ ChangedBy(NextOp(t)) \cap out = {}
    /\ Performs(After(tree, NextOp(t)))
    /\ applied' = [applied EXCEPT ![t] = @ + 1]
    /\ UNCHANGED <<io, phase, todo, target, txnWriting, deferred, out, history, ops, crashes>>

\* WAL._buf.
Unsynced(l) == SubSeq(l, synced + 1, Len(l))
InWalFile == SubSeq(log, 1, synced)

\* Mutant of CommitLog: the TXN_COMMIT is logged after the fsync has begun.
CommitLog_SyncFirst(t) ==
    /\ phase[t] = "applying" /\ applied[t] = Len(todo[t])
    /\ log' = Append(log, TxnCommit(t))
    /\ target' = [target EXCEPT ![t] = Unsynced(log)]
    /\ phase' = [phase EXCEPT ![t] = "syncing"]
    /\ UNCHANGED <<tree, dirty, synced, disk, file, written, io, todo, applied,
                   txnWriting, deferred, out, history, ops, crashes>>

\* The TXN_COMMIT record, and the start of wal.fsync(), which takes the
\* records that are buffered now.
CommitLog(t) ==
    /\ phase[t] = "applying" /\ applied[t] = Len(todo[t])
    /\ log' = Append(log, TxnCommit(t))
    /\ target' = [target EXCEPT ![t] = Unsynced(log')]
    /\ phase' = [phase EXCEPT ![t] = "syncing"]
    /\ UNCHANGED <<tree, dirty, synced, disk, file, written, io, todo, applied,
                   txnWriting, deferred, out, history, ops, crashes>>

\* The page images of the deferred evictions, the last one of each page.
DeferredImages ==
    {deferred[i] : i \in {j \in 1..Len(deferred) :
        \A n \in 1..Len(deferred) : deferred[n].page = deferred[j].page => n <= j}}

\* The fsync returns: fsync_up_to replaces the list of buffered records by what
\* remained when it began, so what other threads logged meanwhile is gone.
\* end_txn_write writes the deferred evictions, whoever deferred them, and
\* commit returns.
CommitEnd(t) ==
    /\ phase[t] = "syncing"
    /\ log' = InWalFile \o target[t] /\ synced' = Len(log')
    /\ txnWriting' = FALSE /\ deferred' = <<>>
    /\ file' = Write(file, DeferredImages)
    /\ tree' = [tree EXCEPT !.pages = [p \in DOMAIN @ |-> IF p \in out THEN file'[p] ELSE @[p]]]
    /\ out' = {}
    /\ written' = written \cup DeferredImages
    /\ phase' = [phase EXCEPT ![t] = "idle"]
    /\ versions' = <<Now>>
    /\ promised' = Sets(promised, todo[t])
    /\ target' = [target EXCEPT ![t] = <<>>]
    /\ UNCHANGED <<dirty, disk, io, todo, applied, ops, crashes>>

\* The descent comes to an index page that was read before its children were
\* written: commit raises.  Its TXN_BEGIN stays open and its locks held, and
\* end_txn_write writes what was deferred, the log first.
ApplyRaises(t) ==
    /\ phase[t] = "applying" /\ applied[t] < Len(todo[t])
    /\ PathOf(NextOp(t)) \cap out = {} /\ Raises(tree, NextOp(t).key)
    /\ phase' = [phase EXCEPT ![t] = "raised"]
    /\ synced' = CHOOSE n \in {synced} \cup {PageLsn(d.page) : d \in DeferredImages} :
           synced <= n /\ \A d \in DeferredImages : PageLsn(d.page) <= n
    /\ txnWriting' = FALSE /\ deferred' = <<>>
    /\ file' = Write(file, DeferredImages)
    /\ written' = written \cup DeferredImages
    /\ tree' = [tree EXCEPT !.pages = [p \in DOMAIN @ |-> IF p \in out THEN file'[p] ELSE @[p]]]
    /\ out' = {}
    /\ UNCHANGED <<log, dirty, disk, io, todo, applied, target, history, ops, crashes>>

\* rollback of a transaction that had staged operations logs a TXN_ABORT, no
\* TXN_BEGIN having been logged.
Rollback(t) ==
    /\ InUse /\ phase[t] = "idle" /\ (Threads \/ Idle)
    /\ ops < MaxOps
    /\ ops' = ops + 1
    /\ log' = Append(log, TxnAbort(t))
    /\ UNCHANGED <<tree, dirty, synced, disk, file, written, io, commits, history, crashes>>

-----------------------------------------------------------------------------
(* BPlusPager.flush: one step for what happens between two fsyncs *)

FlushStart ==
    /\ io = "none" /\ Idle /\ (log # <<>> \/ dirty # {})
    /\ io' = "wal"
    /\ UNCHANGED <<tree, store, commits, history, ops, crashes>>

DirtyImages == {Image(p, OnDisk(tree.pages[p])) : p \in dirty}

FlushPages ==
    /\ io = "wal"
    /\ synced' = Len(log)
    /\ file' = Write(file, DirtyImages)
    /\ written' = written \cup DirtyImages
    /\ dirty' = {}
    /\ io' = "pages"
    /\ versions' = <<Now>>
    /\ UNCHANGED <<tree, log, disk, commits, promised, ops, crashes>>

FlushMeta ==
    /\ io = "pages"
    /\ disk' = file
    /\ file' = Write(file, {MetaImage})
    /\ written' = {MetaImage}
    /\ io' = "meta"
    /\ UNCHANGED <<tree, dirty, log, synced, commits, history, ops, crashes>>

\* The second fsync of the data file, the CHECKPOINT record and its fsync.
FlushCheckpoint ==
    /\ io = "meta"
    /\ disk' = file /\ written' = {}
    /\ log' = Append(log, Checkpoint) /\ synced' = Len(log')
    /\ io' = "checkpoint"
    /\ UNCHANGED <<tree, dirty, file, commits, history, ops, crashes>>

\* The log file is truncated; the flush is over and everything is promised.
FlushTruncate ==
    /\ io = "checkpoint"
    /\ log' = <<>> /\ synced' = 0
    /\ io' = "none"
    /\ promised' = Now
    /\ UNCHANGED <<tree, dirty, disk, file, written, commits, versions, ops, crashes>>

-----------------------------------------------------------------------------
(* Crash and recovery *)

\* The highest LSN an eviction that is going on may have asked for.
EvictLsn == CHOOSE n \in {synced} \cup {PageLsn(p) : p \in dirty} :
    n >= synced /\ \A p \in dirty : PageLsn(p) <= n

\* The records of the fsync that may be running.
InFlight ==
    IF io \in {"wal", "meta"} THEN {Unsynced(log)}
    ELSE IF Evicts # "never" /\ ~txnWriting /\ io = "none" THEN {SubSeq(log, synced + 1, EvictLsn)}
    ELSE {target[t] : t \in Txn}

\* The machine stops.  Any prefix of the records being written is in the WAL
\* file, any selection of the pages written since the last fsync in the data
\* file; the process has lost the rest.
Crash ==
    /\ crashes < MaxCrashes
    /\ crashes' = crashes + 1
    /\ \E records \in InFlight \cup {<<>>} : \E n \in 0..Len(records) :
         log' = InWalFile \o SubSeq(records, 1, n)
    /\ synced' = Len(log')
    /\ \E ws \in SUBSET written :
         /\ \A v, w \in ws : v.page = w.page => v = w
         /\ disk' = Write(disk, ws)
    /\ file' = disk' /\ written' = {}
    /\ tree' = Closed /\ dirty' = {}
    /\ io' = "down"
    /\ phase' = [t \in Txn |-> "idle"]
    /\ todo' = [t \in Txn |-> <<>>]
    /\ applied' = [t \in Txn |-> 0]
    /\ target' = [t \in Txn |-> <<>>]
    /\ txnWriting' = FALSE /\ deferred' = <<>> /\ out' = {}
    /\ UNCHANGED <<history, ops>>

\* A page that a reachable page names and that was never written raises when it is
\* read, like an index page without children, which stands for it.
Loaded(root, next) ==
    LET there == DOMAIN file \ {Meta}
        named == ({root} \ {T!NoPage}) \cup UNION {ToSet(file[p].kids) : p \in {q \in there : ~file[q].leaf}}
    IN  [pages |-> [p \in there \cup named |->
                      IF p \in there THEN file[p] ELSE T!Index(<<>>, <<>>)],
         root |-> root, next |-> next, log |-> <<>>]

\* Mutant of Replay: the page counter is taken from the meta page.
Replay_StaleNext ==
    /\ io = "down" /\ Meta \in DOMAIN file
    /\ log # <<>>
    /\ LET root == RecoveredRoot(log, file[Meta].root)
           next == file[Meta].next
           ws   == {Image(log[i].page, log[i].image) : i \in Writes(log)}
           meta == Image(Meta, [root |-> root, next |-> next])
       IN  /\ file' = Write(Replayed(log, file), {meta})
           /\ written' = ws \cup {meta}
    /\ io' = "replayed"
    /\ UNCHANGED <<tree, dirty, log, synced, disk, commits, history, ops, crashes>>

\* BPlusPager(path) with a log that is not empty: replay, then the meta page.
Replay ==
    /\ io = "down" /\ Meta \in DOMAIN file
    /\ log # <<>>
    /\ LET root == RecoveredRoot(log, file[Meta].root)
           next == RecoveredNext(log, file[Meta].next)
           ws   == {Image(log[i].page, log[i].image) : i \in Writes(log)}
           meta == Image(Meta, [root |-> root, next |-> next])
       IN  /\ file' = Write(Replayed(log, file), {meta})
           /\ written' = ws \cup {meta}
    /\ io' = "replayed"
    /\ UNCHANGED <<tree, dirty, log, synced, disk, commits, history, ops, crashes>>

\* fsync of the data file, then the CHECKPOINT record and its fsync.
ReplaySync ==
    /\ io = "replayed"
    /\ disk' = file /\ written' = {}
    /\ log' = Append(log, Checkpoint) /\ synced' = Len(log')
    /\ io' = "recovered"
    /\ UNCHANGED <<tree, dirty, file, commits, history, ops, crashes>>

\* The log is truncated, or was empty, and BPlusTree(pager) opens the tree; a
\* pager without a root gets a new empty one.
Open ==
    /\ \/ io = "recovered"
       \/ io = "down" /\ Meta \in DOMAIN file /\ log = <<>>
    /\ io' = "none"
    /\ LET s == Loaded(file[Meta].root, file[Meta].next)
           opened == IF s.root = T!NoPage
                     THEN T!SetRoot(T!NewPage(s, T!Leaf(<<>>, T!NoPage)), s.next) ELSE s
       IN  /\ tree' = T!Forget(opened)
           /\ log' = Records(opened.log) /\ synced' = 0
           /\ file' = Write(file, NewImages(opened.log))
           /\ written' = NewImages(opened.log)
    /\ versions' = <<ContentOf(tree')>>
    /\ UNCHANGED <<dirty, disk, commits, promised, ops, crashes>>

\* _read_meta raises ValueError: there is no database any more.
OpenFails ==
    /\ io = "down" /\ Meta \notin DOMAIN file
    /\ io' = "unreadable"
    /\ UNCHANGED <<tree, store, commits, history, ops, crashes>>

-----------------------------------------------------------------------------
OpLists == UNION {[1..n -> Op] : n \in 1..MaxTxnOps}

Next ==
    \/ \E op \in Op : AutoOp(op)
    \/ \E p \in dirty : Evict(p)
    \/ \E t \in Txn, list \in OpLists : CommitBegin(t, list)
    \/ \E t \in Txn : Reread(t) \/ ApplyOp(t) \/ ApplyRaises(t) \/ CommitLog(t) \/ CommitEnd(t) \/ Rollback(t)
    \/ FlushStart \/ FlushPages \/ FlushMeta \/ FlushCheckpoint \/ FlushTruncate
    \/ Crash \/ Replay \/ ReplaySync \/ Open \/ OpenFails

Spec == Init /\ [][Next]_vars

-----------------------------------------------------------------------------
\* Whether the process runs.
Up == io \notin {"down", "replayed", "recovered", "unreadable"}

\* "After this returns, the changes are visible in the engine"
\* (transaction.py:177): between two calls the tree holds the present version.
Visible == Up /\ Idle => ContentOf(tree) = Now

\* Crashes lose whole operations and transactions at the end of the history and
\* nothing else, and none that a commit or a flush has vouched for.
Durable == INSTANCE DurableStore
Recoverable == Durable!Spec

\* "... and survive crashes" (transaction.py:177-178): once commit has returned
\* its rows are found after any crash, until they are written again.
CommittedSurvives ==
    /\ io = "none" /\ Idle => \A k \in Key : promised[k] \in {Unknown, ContentOf(tree)[k]}
    /\ io = "unreadable" => \A k \in Key : promised[k] = Unknown

\* The page counter has passed every page below the root, whatever part of the
\* log and of the data file the crash has left (bplus_pager.py:153-156): no page
\* in use is given away again.  (The root of a new database is an exception.)
IdsUnused ==
    Up => \A k \in Key : \A p \in PathOf([key |-> k]) : p = tree.root \/ p < tree.next

\* Nothing reaches the data file before the log tells of it (wal.py:6-7): every
\* row and every child of a page that was written is in a record of that page
\* that is on disk.
NothingUnlogged ==
    \A w \in written : w.page # Meta =>
        IF w.image.leaf
        THEN \A k \in DOMAIN w.image.rows : \E i \in 1..synced :
               /\ log[i].type = "page" /\ log[i].page = w.page
               /\ k \in DOMAIN log[i].image.rows /\ log[i].image.rows[k] = w.image.rows[k]
        ELSE \A j \in 1..Len(w.image.kids) : \E i \in 1..synced :
               /\ log[i].type = "page" /\ log[i].page = w.page
               /\ w.image.kids[j] \in ToSet(log[i].image.kids)

\* "Before any modified page reaches the data file, a PAGE_WRITE record
\* describing that page's new state must be fsynced to the WAL file"
\* (wal.py:6-7), that state and no other.
LoggedBeforeWritten ==
    \A w \in written :
        \/ w.page = Meta \/ w.image \in {T!Leaf(<<>>, T!NoPage), T!Index(<<>>, <<>>)}
        \/ \E i \in 1..synced : log[i] = PageWrite(w.page, w.image)
=============================================================================
