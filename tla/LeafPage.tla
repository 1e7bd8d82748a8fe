------------------------------- MODULE LeafPage -------------------------------
(***************************************************************************)
(* LeafPage (src/src/bplus_page.py:65-225): a leaf rewrites its slotted    *)
(* page at every change, and a change that does not fit raises when part   *)
(* of the rows is back.  A leaf is used as the tree does it                *)
(* (bplus_tree.py:382-393): it is split as soon as it is full.  The other  *)
(* calls of SlottedPage, which the tree does not make, are checked on a    *)
(* page of their own.                                                      *)
(***************************************************************************)
EXTENDS SlottedPage, Functions

CONSTANTS
    BodySize,   \* LEAF_BODY_SIZE
    MaxKeys,    \* max_keys
    Keys,       \* keys that callers name
    Lengths,    \* lengths of rows
    NoPage,     \* no sibling
    MaxSlots    \* bound on the slots of the page that is used by itself

ASSUME LeafAssumption ==
    /\ BodySize \in Nat /\ BodySize >= HeaderSize
    /\ MaxKeys \in Nat \ {0} /\ Keys \subseteq Int /\ Lengths \subseteq Nat

VARIABLES
    user,   \* who uses a page: a "leaf", or a "caller" of SlottedPage
    page,   \* the page of the caller
    left,   \* the leaf
    right,  \* its right half, after a split
    rows    \* the rows that the leaf was given and has not lost (history)

vars == <<user, page, left, right, rows>>

KeySize == 4
NewLeaf == [body |-> NewPage(BodySize), next |-> NoPage]

\* What struct.pack('<I', key) takes.
IsKey(key) == key \in Nat

Cell(key, len) == [key |-> key, len |-> KeySize + len]

\* _entries
Entries(leaf) ==
    LET Listed(cells, n) == IF n \in Live(leaf.body) THEN Append(cells, Read(leaf.body, n)) ELSE cells
    IN  FoldLeftDomain(Listed, <<>>, leaf.body.slots)

Rebuilt_Skips(cells) ==
    LET Added(to, cell) ==
          IF ~IsKey(cell.key) \/ ~Room(to.body, cell) THEN [to EXCEPT !.raised = TRUE]
          ELSE [to EXCEPT !.body = Inserted(@, cell)]
    IN  FoldLeft(Added, [body |-> NewPage(BodySize), raised |-> FALSE], cells)

\* _rebuild: [body, raised]; what has been inserted by then stays.
Rebuilt(cells) ==
    LET Added(to, cell) ==
          IF to.raised \/ ~IsKey(cell.key) \/ ~Room(to.body, cell)
          THEN [to EXCEPT !.raised = TRUE]
          ELSE [to EXCEPT !.body = Inserted(@, cell)]
    IN  FoldLeft(Added, [body |-> NewPage(BodySize), raised |-> FALSE], cells)

NumKeys(leaf) == Len(leaf.body.slots)
IsFull(leaf) == NumKeys(leaf) > MaxKeys

Changed_Appends(leaf, key, len) ==
    LET cells == Entries(leaf)
    IN  InsertAt(cells, 1 + Cardinality({n \in DOMAIN cells : cells[n].key < key}), Cell(key, len))

\* The entries that insert hands to _rebuild: they are in the order of their
\* keys, and the sort moves the one that was appended to its place.

Changed(leaf, key, len) ==
    LET cells == Entries(leaf)
    IN  IF \E n \in DOMAIN cells : cells[n].key = key
        THEN [n \in DOMAIN cells |-> IF cells[n].key = key THEN Cell(key, len) ELSE cells[n]]
        ELSE InsertAt(cells, 1 + Cardinality({n \in DOMAIN cells : cells[n].key < key}),
                      Cell(key, len))

\* The entries that delete_key hands to _rebuild.
Others(cells, key) ==
    LET Kept(others, cell) == IF cell.key # key THEN Append(others, cell) ELSE others
    IN  FoldLeft(Kept, <<>>, cells)

\* search: the record is found by bisection of the entries, lo and hi inclusive.
Found(leaf, key) ==
    LET cells == Entries(leaf)
        Bisect[range \in (1..(Len(cells) + 1)) \X (0..Len(cells))] ==
            LET lo == range[1]
                hi == range[2]
                mid == (lo + hi) \div 2
            IN  IF lo > hi THEN {}
                ELSE IF cells[mid].key = key THEN {cells[mid]}
                ELSE IF cells[mid].key < key THEN Bisect[<<mid + 1, hi>>]
                ELSE Bisect[<<lo, mid - 1>>]
    IN  Bisect[<<1, Len(cells)>>]

-----------------------------------------------------------------------------
Init ==
    /\ user \in {"leaf", "caller"}
    /\ page = NewPage(BodySize)
    /\ left = NewLeaf /\ right = NewLeaf
    /\ rows = <<>>

RowsOf(leaf) ==
    LET cells == Entries(leaf)
    IN  [key \in {cells[n].key : n \in DOMAIN cells} |->
            (CHOOSE cell \in ToSet(cells) : cell.key = key).len - KeySize]

Insert(key, len) ==
    /\ user = "leaf" /\ ~IsFull(left)
    /\ LET to == Rebuilt(Changed(left, key, len)) IN
       /\ left' = [left EXCEPT !.body = to.body]
       /\ rows' = IF to.raised THEN RowsOf(left')
                  ELSE [k \in DOMAIN rows \cup {key} |-> IF k = key THEN len ELSE rows[k]]
    /\ UNCHANGED <<user, page, right>>

\* delete_key; without the row, the page is not touched.
DeleteKey(key) ==
    /\ user = "leaf" /\ ~IsFull(left)
    /\ key \in DOMAIN RowsOf(left)
    /\ left' = [left EXCEPT !.body = Rebuilt(Others(Entries(left), key)).body]
    /\ rows' = Restrict(rows, DOMAIN rows \ {key})
    /\ UNCHANGED <<user, page, right>>

Upper_AfterMiddle(cells) == SubSeq(cells, Len(cells) \div 2 + 2, Len(cells))

Lower(cells) == SubSeq(cells, 1, Len(cells) \div 2)
Upper(cells) == SubSeq(cells, Len(cells) \div 2 + 1, Len(cells))

\* split into a new page; the leaf goes on with what is left.
Split ==
    /\ user = "leaf" /\ IsFull(left)
    /\ left' = [body |-> Rebuilt(Lower(Entries(left))).body, next |-> "right"]
    /\ right' = [body |-> Rebuilt(Upper(Entries(left))).body, next |-> left.next]
    /\ rows' = Restrict(rows, DOMAIN RowsOf(left'))
    /\ UNCHANGED <<user, page>>

CallerInserts(key, len) ==
    /\ user = "caller" /\ Len(page.slots) < MaxSlots
    /\ Room(page, Cell(key, len))
    /\ page' = Inserted(page, Cell(key, len))
    /\ UNCHANGED <<user, left, right, rows>>

CallerDeletes(n) ==
    /\ user = "caller"
    /\ page' = WithoutSlot(page, n)
    /\ UNCHANGED <<user, left, right, rows>>

CallerCompacts ==
    /\ user = "caller"
    /\ page' = Compacted(page)
    /\ UNCHANGED <<user, left, right, rows>>

Next ==
    \/ \E key \in Keys, len \in Lengths : Insert(key, len) \/ CallerInserts(key, len)
    \/ \E key \in Keys : DeleteKey(key)
    \/ \E n \in DOMAIN page.slots : CallerDeletes(n)
    \/ Split \/ CallerCompacts

Spec == Init /\ [][Next]_vars

-----------------------------------------------------------------------------
Bodies == {page, left.body, right.body}

TypeOK ==
    /\ user \in {"leaf", "caller"}
    /\ \A body \in Bodies :
         /\ body.size = BodySize /\ body.freeEnd \in 0..BodySize
         /\ body.freeStart = HeaderSize + SlotSize * Len(body.slots)
         /\ \A n \in Live(body) : body.slots[n] \in DOMAIN body.records
    /\ DOMAIN rows \subseteq Keys

\* "A page is full when the two regions would overlap" (slotted_page.py:63): the
\* slots end before the records, and no two records share a byte, after any
\* sequence of inserts, deletions, compactions, rebuilds and splits.
RecordsDisjoint ==
    \A body \in Bodies :
        /\ body.freeStart <= body.freeEnd
        /\ \A m, n \in Live(body) :
             LET end(k) == body.slots[k] + Occupies(Read(body, k)) IN
             /\ body.freeEnd <= body.slots[m] /\ end(m) <= BodySize
             /\ m # n => end(m) <= body.slots[n] \/ end(n) <= body.slots[m]

\* "Slot IDs are stable" (slotted_page.py:31): a slot keeps its record, or stays
\* deleted, whatever happens to the others; a deleted slot is never given out again.
SlotsStable ==
    [][\A n \in DOMAIN page.slots :
         /\ n \in DOMAIN page'.slots
         /\ n \in Live(page') => n \in Live(page) /\ Read(page', n) = Read(page, n)
         /\ n \in Live(page) \ Live(page') => \A m \in Live(page) \ {n} : m \in Live(page')]_vars

\* "After compaction, free_end - free_start is maximised" (slotted_page.py:233):
\* nothing but the live records and the slots takes space.
CompactReclaims ==
    Free(Compacted(page)) =
        BodySize - HeaderSize - SlotSize * Len(page.slots)
            - MapThenSumSet(LAMBDA n : Occupies(Read(page, n)), Live(page))

\* All the space of a page is a header, slots, records and what is free.
SpaceAccounted == TypeOK /\ RecordsDisjoint /\ CompactReclaims

\* A leaf is the map of the rows it was given, in the order of the keys, and the
\* bisection finds what is there and nothing else, also after inserts that
\* raised (bplus_page.py:132, :162).
LeafIsMap ==
    LET cells == Entries(left) IN
    /\ RowsOf(left) = rows
    /\ \A m, n \in DOMAIN cells : m < n => cells[m].key < cells[n].key
    /\ \A key \in Keys : Found(left, key) = {cell \in ToSet(cells) : cell.key = key}

\* An insert that raises loses no row below one that it leaves, and what it
\* leaves was there or was being inserted (bplus_page.py:146-149).
FailedInsertKeepsLowRows ==
    [][\A lost \in DOMAIN rows \ DOMAIN rows' :
         ~IsFull(left) /\ DOMAIN rows' # DOMAIN rows \ {lost} =>
             /\ \A key \in DOMAIN rows' : key < lost
             /\ Cardinality({key \in DOMAIN rows' :
                    key \notin DOMAIN rows \/ rows'[key] # rows[key]}) <= 1]_vars

\* A split never runs out of space: every row goes to one half, the lower ones to
\* the left, each half has one, and the leaves stay linked (bplus_page.py:204-225).
SplitPartitions ==
    [][IsFull(left) =>
         LET low == RowsOf(left') high == RowsOf(right') IN
         /\ rows = [key \in DOMAIN low \cup DOMAIN high |->
                      IF key \in DOMAIN low THEN low[key] ELSE high[key]]
         /\ DOMAIN low # {} /\ DOMAIN high # {}
         /\ \A a \in DOMAIN low, b \in DOMAIN high : a < b
         /\ left'.next = "right" /\ right'.next = left.next]_vars
=============================================================================
