------------------------------ MODULE PageCache ------------------------------
(***************************************************************************)
(* BPlusPager between the tree and the data file                           *)
(* (src/src/bplus_pager.py:200-424) over BufferPool: which object a page   *)
(* id stands for, and which of its contents reach the file.  A page object *)
(* outlives its frame: an operation of the tree goes on with the objects   *)
(* that get_page gave it, evicted or not.  The order of log and file       *)
(* matters up to the LSNs; crashes are the subject of DurableTree.         *)
(*                                                                         *)
(* The operations are what BPlusTree calls: it reads pages, changes one    *)
(* that it has read and marks it dirty, or changes it, allocates another,  *)
(* moves half of the content there, and marks only the new one dirty       *)
(* (bplus_tree.py:382-393).                                                *)
(***************************************************************************)
EXTENDS BufferPool, FiniteSets

CONSTANTS
    Backed,     \* whether there is a data file
    Val,        \* contents that operations give to pages
    Blank,      \* the content of a new page
    Torn,       \* what is left of a page when an insert into it raises
    Absent,     \* no such page in the file
    Pages,      \* pages of the file when it is opened
    MaxPages, MaxTouched, MaxLsn, MaxPins, MaxTorn, MaxCopies
                \* bounds: pages, pages per operation, changes, pins of a page,
                \* pages torn at a time, objects for a page at a time

ASSUME BackedAssumption == Backed \in BOOLEAN
ASSUME BoundAssumption ==
    /\ {Pages, MaxPages, MaxTouched, MaxLsn, MaxPins, MaxTorn, MaxCopies} \subseteq Nat
    /\ Pages <= MaxPages
ASSUME AbsentAssumption == Absent \notin [content: Val \cup {Blank, Torn}, lsn: Nat]

VARIABLES
    pool,
    heap,       \* content and page_lsn of the page objects in use
    file,       \* content and page_lsn of each page in the data file
    nextId,
    lsn,        \* LSN of the last record
    flushed,    \* WAL._flushed_lsn
    writing,    \* _txn_writing
    deferred,   \* _deferred_evictions
    op,         \* the operation of the tree: objects it holds and has marked, ids
    current,    \* the content each page was given last (history)
    torn,       \* pages that an insert left torn, until they are written (history)
    slipped     \* an object was read or written that is not the page any more (history)

log == <<lsn, flushed>>
txn == <<writing, deferred>>
history == <<current, torn, slipped>>
vars == <<pool, heap, file, nextId, log, txn, op, history>>

Id == 0..(MaxPages - 1)
Content == Val \cup {Blank, Torn}
Idle == [held |-> {}, marked |-> {}, ids |-> {}]

Objects == DOMAIN heap
IdOf(o) == o[1]
InPool(o) == Cached(pool, IdOf(o)) /\ pool.frames[IdOf(o)].page = o
\* Another object for a page: a page id and a number.
Fresh(id) == <<id, CHOOSE n \in 1..(Cardinality(Objects) + 1) :
                     <<id, n>> \notin Objects /\ \A m \in 1..(n - 1) : <<id, m>> \in Objects>>

TypeOK ==
    /\ DOMAIN pool.frames = ToSet(pool.order) /\ Cardinality(ToSet(pool.order)) = Size(pool)
    /\ \A id \in DOMAIN pool.frames :
         pool.frames[id].page \in Objects /\ IdOf(pool.frames[id].page) = id
    /\ \A o \in Objects :
         IdOf(o) \in 0..(nextId - 1) /\ heap[o].content \in Content /\ heap[o].lsn \in 0..lsn
    /\ \A id \in Id : file[id] = Absent \/ (file[id].content \in Content /\ file[id].lsn \in 0..lsn)
    /\ nextId \in 0..MaxPages /\ flushed \in 0..lsn
    /\ op.marked \subseteq op.held /\ op.held \subseteq Objects
    /\ ToSet(deferred) \subseteq Objects

Init ==
    /\ pool = EmptyPool /\ heap = <<>>
    /\ nextId = IF Backed THEN Pages ELSE 0
    /\ \E v \in Val : current = [id \in Id |-> IF id < nextId THEN v ELSE Blank]
    /\ file = [id \in Id |-> IF id < nextId THEN [content |-> current[id], lsn |-> 0] ELSE Absent]
    /\ lsn = 0 /\ flushed = 0
    /\ writing = FALSE /\ deferred = <<>>
    /\ op = Idle
    /\ torn = {} /\ slipped = FALSE

-----------------------------------------------------------------------------
(* _pool_put: a dirty victim is logged and written, or put aside; without a *)
(* file it goes nowhere.                                                    *)

DirtyVictims(id) == Victims(pool, id) \cap DirtyIds(pool)
Out(id) == heap[pool.frames[id].page]

FileAfterPut(id) ==
    IF writing \/ ~Backed THEN file
    ELSE [i \in Id |-> IF i \in DirtyVictims(id) THEN Out(i) ELSE file[i]]

FlushedAfterPut_Unforced(id) == flushed

FlushedAfterPut(id) ==
    IF writing \/ ~Backed THEN flushed
    ELSE CHOOSE n \in {flushed} \cup {Out(v).lsn : v \in DirtyVictims(id)} :
            n >= flushed /\ \A v \in DirtyVictims(id) : n >= Out(v).lsn

DeferredAfterPut(id) ==
    IF writing /\ Backed THEN deferred \o SetToSeq({pool.frames[v].page : v \in DirtyVictims(id)})
    ELSE deferred

Put(o, id, dirty) ==
    /\ pool' = Stored(pool, id, o, dirty)
    /\ file' = FileAfterPut(id)
    /\ flushed' = FlushedAfterPut(id)
    /\ deferred' = DeferredAfterPut(id)

\* The objects that somebody still refers to.
Collect(objects) ==
    heap' = Restrict(objects, {pool'.frames[id].page : id \in DOMAIN pool'.frames}
                              \cup op'.held \cup ToSet(deferred'))

With(o, page) == [p \in Objects \cup {o} |-> IF p = o THEN page ELSE heap[p]]

Logged(page, content) ==
    [page EXCEPT !.content = content, !.lsn = IF Backed THEN lsn + 1 ELSE 0]
Logs == lsn < MaxLsn /\ lsn' = IF Backed THEN lsn + 1 ELSE 0

Holding(o, id) == [op EXCEPT !.held = @ \cup {o}, !.ids = @ \cup {id}]
\* Bounds: pages per operation; and nothing is claimed, or explored, once an
\* object has slipped.
May(id) == ~slipped /\ Cardinality(op.ids \cup {id}) <= MaxTouched

\* The object is not the page: another has its frame, or it missed a change.
Slips(o) == \/ IdOf(o) \notin torn /\ heap[o].content # current[IdOf(o)]
            \/ Cached(pool, IdOf(o)) /\ ~InPool(o)

-----------------------------------------------------------------------------
\* get_page of a page in the pool
Hit(id) ==
    /\ May(id) /\ Cached(pool, id)
    /\ pool' = Touched(pool, id)
    /\ op' = Holding(pool.frames[id].page, id)
    /\ UNCHANGED <<heap, file, nextId, log, txn, history>>

\* get_page of a page in the file
Miss(id) ==
    /\ May(id) /\ id < nextId /\ ~Cached(pool, id) /\ file[id] # Absent
    /\ Fresh(id)[2] <= MaxCopies
    /\ Put(Fresh(id), id, FALSE)
    /\ op' = Holding(Fresh(id), id)
    /\ Collect(With(Fresh(id), file[id]))
    /\ slipped' = (slipped \/ (id \notin torn /\ file[id].content # current[id]))
    /\ UNCHANGED <<nextId, lsn, writing, current, torn>>

\* mark_dirty: a page that was evicted meanwhile is put back.
MarkDirty_BackClean(o) ==
    IF Cached(pool, IdOf(o))
    THEN pool' = MarkedDirty(pool, IdOf(o)) /\ UNCHANGED <<file, flushed, deferred>>
    ELSE Put(o, IdOf(o), FALSE)

MarkDirty(o) ==
    IF Cached(pool, IdOf(o))
    THEN pool' = MarkedDirty(pool, IdOf(o)) /\ UNCHANGED <<file, flushed, deferred>>
    ELSE Put(o, IdOf(o), TRUE)

\* A page is changed and marked dirty.
Write(o, content) ==
    /\ o \in op.held /\ May(IdOf(o)) /\ heap[o].content # content
    /\ Logs
    /\ MarkDirty(o)
    /\ current' = [current EXCEPT ![IdOf(o)] = content]
    /\ torn' = torn \ {IdOf(o)}
    /\ op' = [op EXCEPT !.marked = @ \cup {o}]
    /\ Collect(With(o, Logged(heap[o], content)))
    /\ slipped' = (slipped \/ Slips(o))
    /\ UNCHANGED <<nextId, writing>>

\* LeafPage.insert raises half-way: the object has changed and is not marked.
WriteRaises(o) ==
    /\ o \in op.held /\ May(IdOf(o)) /\ heap[o].content # Torn /\ Cardinality(torn) < MaxTorn
    /\ torn' = torn \cup {IdOf(o)}
    /\ op' = Idle
    /\ UNCHANGED <<pool, file, nextId, log, txn, current, slipped>>
    /\ Collect([heap EXCEPT ![o].content = Torn])

BlankPage == [content |-> Blank, lsn |-> 0]

\* new_leaf_page or new_index_page, and what the operation puts there.
New(content) ==
    LET id == nextId
        o == Fresh(id)
    IN  /\ May(id) /\ id < MaxPages
        /\ Logs
        /\ pool' = MarkedDirty(Stored(pool, id, o, FALSE), id)
        /\ file' = IF Backed THEN [FileAfterPut(id) EXCEPT ![id] = BlankPage] ELSE file
        /\ flushed' = FlushedAfterPut(id)
        /\ deferred' = DeferredAfterPut(id)
        /\ nextId' = id + 1
        /\ op' = [Holding(o, id) EXCEPT !.marked = @ \cup {o}]

Allocate(content) ==
    /\ New(content)
    /\ Collect(With(Fresh(nextId), Logged(BlankPage, content)))
    /\ current' = [current EXCEPT ![nextId] = content]
    /\ UNCHANGED <<writing, torn, slipped>>

\* A page that was marked in this operation is split: it changes once more and
\* is not marked again.
Split(o, left, right) ==
    /\ o \in op.marked /\ heap[o].content # left
    /\ New(right)
    /\ Collect([With(Fresh(nextId), Logged(BlankPage, right)) EXCEPT ![o].content = left])
    /\ current' = [current EXCEPT ![IdOf(o)] = left, ![nextId] = right]
    /\ slipped' = (slipped \/ Slips(o) \/ ~InPool(o)')
    /\ UNCHANGED <<writing, torn>>

\* The operation returns.
Return ==
    /\ op # Idle /\ op' = Idle
    /\ UNCHANGED <<pool, file, nextId, log, txn, history>>
    /\ Collect(heap)

-----------------------------------------------------------------------------
Between == op = Idle /\ ~slipped

Flush ==
    /\ Between /\ ~writing /\ Backed
    /\ flushed' = lsn
    /\ file' = [id \in Id |-> IF id \in DirtyIds(pool) THEN Out(id) ELSE file[id]]
    /\ pool' = Cleaned(pool)
    /\ UNCHANGED <<heap, nextId, lsn, txn, op, history>>

\* begin_txn_write
BeginTxnWrite ==
    /\ Between /\ ~writing
    /\ writing' = TRUE /\ deferred' = <<>>
    /\ UNCHANGED <<pool, heap, file, nextId, log, op, history>>

\* end_txn_write, after the fsync of the commit or after an exception.  The
\* pages put aside are written in their order.
EndTxnWrite(committed) ==
    /\ Between /\ writing
    /\ LET last(id) == SelectLastInSeq(deferred, LAMBDA o : IdOf(o) = id)
           synced == IF committed THEN lsn ELSE flushed
           lsns == {synced} \cup {heap[o].lsn : o \in ToSet(deferred)}
       IN  /\ flushed' = IF Backed THEN CHOOSE n \in lsns : \A other \in lsns : n >= other ELSE flushed
           /\ file' = [id \in Id |-> IF last(id) = 0 THEN file[id] ELSE heap[deferred[last(id)]]]
    /\ writing' = FALSE /\ deferred' = <<>>
    /\ UNCHANGED <<pool, op, nextId, lsn, history>>
    /\ Collect(heap)

\* The pager pins nothing; other callers may, between its operations.
Pin(id) ==
    /\ Between /\ Cached(pool, id) /\ pool.frames[id].pins < MaxPins
    /\ pool' = Pinned(pool, id)
    /\ UNCHANGED <<heap, file, nextId, log, txn, op, history>>

Unpin(id) ==
    /\ Between /\ Cached(pool, id)
    /\ pool' = Unpinned(pool, id)
    /\ UNCHANGED <<heap, file, nextId, log, txn, op, history>>

Next ==
    \/ \E id \in Id : Hit(id) \/ Miss(id) \/ Pin(id) \/ Unpin(id)
    \/ \E o \in Objects, content \in Val : Write(o, content)
    \/ \E o \in Objects, left, right \in Val : Split(o, left, right)
    \/ \E o \in Objects : WriteRaises(o)
    \/ \E content \in Val : Allocate(content)
    \/ Return \/ Flush \/ BeginTxnWrite
    \/ \E committed \in BOOLEAN : EndTxnWrite(committed)

Spec == Init /\ [][Next]_vars

-----------------------------------------------------------------------------
\* What get_page finds, with the pages put aside where they will be.
Visible(id) ==
    IF Cached(pool, id) THEN heap[pool.frames[id].page].content
    ELSE IF \E n \in DOMAIN deferred : IdOf(deferred[n]) = id
    THEN heap[deferred[SelectLastInSeq(deferred, LAMBDA o : IdOf(o) = id)]].content
    ELSE IF file[id] = Absent THEN Absent ELSE file[id].content

\* Through every order of hits, misses, evictions, flushes and commits a page is
\* what was last put there, as long as no operation has worked with an object
\* that its page had left (bplus_pager.py:296, :415).
Coherent == ~slipped => \A id \in 0..(nextId - 1) : id \notin torn => Visible(id) = current[id]

\* A page that is not dirty may be dropped: the file has it.
CleanPagesInFile ==
    ~slipped => \A id \in DOMAIN pool.frames :
        ~pool.frames[id].dirty /\ id \notin torn => file[id].content = current[id]

\* What may be dropped and what may not.
CacheCoherent == TypeOK /\ Coherent /\ CleanPagesInFile

\* "Enforced by the pager's eviction path, which calls wal.fsync_up_to(page.page_lsn)
\* before each page write" (wal.py:67-68): no image in the file is newer than
\* the log on disk.
FileBehindLog == \A id \in 0..(nextId - 1) : file[id] # Absent => file[id].lsn <= flushed

\* The least recently used frame is none of those that the running operation
\* has read, as long as these and the pinned ones fit in the pool.
WorkingSetStays ==
    Cardinality(op.ids \cup PinnedIds(pool)) <= Capacity =>
        \A o \in op.held : InPool(o)

\* "a pinned page is never evicted" (buffer_pool.py:12), and the pool grows past
\* its capacity only if all its frames are pinned (:75).
PinsRespected ==
    [][ /\ PinnedIds(pool) \subseteq DOMAIN pool'.frames
        /\ Size(pool') > Size(pool) /\ Size(pool) >= Capacity =>
             PinnedIds(pool) = DOMAIN pool.frames ]_vars

\* An operation holds the objects that are the pages: "The pager pins each page it
\* hands to the tree" (buffer_pool.py:13).
HeldPagesStay == \A o \in op.held : InPool(o)

\* "KeyError - in-memory mode, page_id was never allocated" (bplus_pager.py:261):
\* a page that was allocated is found.
PagesFound == \A id \in 0..(nextId - 1) : Cached(pool, id) \/ file[id] # Absent
=============================================================================
