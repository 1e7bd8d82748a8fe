------------------------------ MODULE BPlusTree ------------------------------
(***************************************************************************)
(* The B+Tree of src/src/bplus_tree.py over the pages of bplus_page.py,    *)
(* one call at a time.  The pager's pages, page counter and root are one   *)
(* record, which also keeps the calls the tree makes of the pager, in      *)
(* order, for the module that adds the log and crashes:                    *)
(*   [pages |-> id -> page, root |-> id, next |-> id, log |-> calls]       *)
(* A leaf is a function from its keys to rows: LeafPage keeps its entries  *)
(* sorted on every rebuild.  Positions are counted from 1.                 *)
(***************************************************************************)
EXTENDS Integers, Sequences, FiniteSets, SequencesExt, OrderedLists

CONSTANTS
    Key,        \* keys, natural numbers
    Row, NoRow, \* rows, and the answer to a search for an absent key
    Order       \* max_keys of every page

ASSUME OrderAssumption == Order \in Nat /\ Order >= 2
\* Keys are packed in 32 bits.
ASSUME KeyAssumption == Key \subseteq Nat /\ Key # {} /\ IsFiniteSet(Key)
ASSUME NoRowAssumption == NoRow \notin Row

VARIABLE tree

NoPage == -1    \* next_page_id None
MinKeys == Order \div 2

Leaf(rows, next) == [leaf |-> TRUE, rows |-> rows, next |-> next]
Index(keys, kids) == [leaf |-> FALSE, keys |-> keys, kids |-> kids]

NumKeys(p) == IF p.leaf THEN Cardinality(DOMAIN p.rows) ELSE Len(p.keys)
IsFull(p) == NumKeys(p) > Order

\* Function f with x mapped to y, and two functions in one.
With(f, x, y) == [z \in DOMAIN f \cup {x} |-> IF z = x THEN y ELSE f[z]]
Both(f, g) == [z \in DOMAIN f \cup DOMAIN g |-> IF z \in DOMAIN f THEN f[z] ELSE g[z]]

\* The n smallest keys of a set.
Lowest(n, S) == {k \in S : Cardinality({j \in S : j < k}) < n}

(* The pager as the tree sees it. *)
NewPage(s, p) ==
    [s EXCEPT !.pages = With(@, s.next, p), !.next = @ + 1,
              !.log = Append(@, [call |-> "new", page |-> s.next, image |-> p])]
MarkDirty(s, id) ==
    [s EXCEPT !.log = Append(@, [call |-> "dirty", page |-> id, image |-> s.pages[id]])]
SetRoot(s, id) ==
    [s EXCEPT !.root = id, !.log = Append(@, [call |-> "root", page |-> id])]
SetPage(s, id, p) == [s EXCEPT !.pages[id] = p]

EmptyTree ==
    SetRoot(NewPage([pages |-> <<>>, root |-> NoPage, next |-> 0, log |-> <<>>],
                    Leaf(<<>>, NoPage)), 0)

-----------------------------------------------------------------------------
(* Descent *)

\* Mutant of ChildPos: a key equal to a separator goes to the left of it.
ChildPos_Inclusive(p, k) ==
    IF \E i \in 1..Len(p.keys) : k <= p.keys[i]
    THEN CHOOSE i \in 1..Len(p.keys) :
            k <= p.keys[i] /\ \A j \in 1..(i - 1) : p.keys[j] < k
    ELSE Len(p.kids)

\* find_child: the first separator above the key decides, else the last child.
ChildPos(p, k) ==
    IF \E i \in 1..Len(p.keys) : k < p.keys[i]
    THEN CHOOSE i \in 1..Len(p.keys) :
            k < p.keys[i] /\ \A j \in 1..(i - 1) : p.keys[j] <= k
    ELSE Len(p.kids)

\* _find_path: the pages from the root to the leaf, each with its position in the
\* one above.  (A descent that came to an index page without children would raise
\* there.)
FindPath(s, k) ==
    LET step[n \in 0..Cardinality(DOMAIN s.pages)] ==
          IF n = 0 THEN [id |-> s.root, pos |-> 0]
          ELSE LET p == s.pages[step[n - 1].id]
                   i == ChildPos(p, k)
               IN  [id |-> p.kids[i], pos |-> i]
        AtEnd(n) == LET p == s.pages[step[n].id] IN p.leaf \/ p.kids = <<>>
        depth == CHOOSE n \in DOMAIN step : AtEnd(n) /\ \A m \in 0..(n - 1) : ~AtEnd(m)
    IN  [n \in 1..(depth + 1) |-> step[n - 1]]

FindLeaf(s, k) == Last(FindPath(s, k)).id

Search(s, k) ==
    LET rows == s.pages[FindLeaf(s, k)].rows
    IN  IF k \in DOMAIN rows THEN rows[k] ELSE NoRow

\* range_scan: from the leaf of lo along the links to the first key above hi.
ScanFrom(s, id, lo, hi) ==
    LET scan[n \in 0..Cardinality(DOMAIN s.pages)] ==
          IF n = 0 THEN [at |-> id, found |-> <<>>]
          ELSE LET before == scan[n - 1]
                   p == s.pages[before.at]
                   hits == Ascending({k \in DOMAIN p.rows : lo <= k /\ k <= hi})
               IN  IF before.at = NoPage THEN before
                   ELSE [at |-> IF \E k \in DOMAIN p.rows : k > hi THEN NoPage ELSE p.next,
                         found |-> before.found \o [i \in 1..Len(hits) |-> <<hits[i], p.rows[hits[i]]>>]]
    IN  scan[Cardinality(DOMAIN s.pages)].found

\* Mutant of RangeScan: the scan starts at the leaf of the upper bound.
RangeScan_FromEnd(s, lo, hi) == ScanFrom(s, FindLeaf(s, hi), lo, hi)

RangeScan(s, lo, hi) == ScanFrom(s, FindLeaf(s, lo), lo, hi)

-----------------------------------------------------------------------------
(* Insertion *)

NoSplit == [key |-> -1, page |-> NoPage]

\* Mutant of SplitLeaf: the new leaf does not take over the link.
SplitLeaf_DropsLink(s, id) ==
    LET p    == s.pages[id]
        low  == Lowest(NumKeys(p) \div 2, DOMAIN p.rows)
        high == DOMAIN p.rows \ low
        new  == s.next
        s1   == NewPage(s, Leaf(<<>>, NoPage))
        s2   == SetPage(s1, id, Leaf(Restrict(p.rows, low), new))
        s3   == SetPage(s2, new, Leaf(Restrict(p.rows, high), NoPage))
    IN  [s |-> MarkDirty(s3, new), split |-> [key |-> Min(high), page |-> new]]

\* The upper half of a full leaf moves to a new right sibling, which alone is
\* marked dirty after the move.
SplitLeaf(s, id) ==
    LET p    == s.pages[id]
        low  == Lowest(NumKeys(p) \div 2, DOMAIN p.rows)
        high == DOMAIN p.rows \ low
        new  == s.next
        s1   == NewPage(s, Leaf(<<>>, NoPage))
        s2   == SetPage(s1, id, Leaf(Restrict(p.rows, low), new))
        s3   == SetPage(s2, new, Leaf(Restrict(p.rows, high), p.next))
    IN  [s |-> MarkDirty(s3, new), split |-> [key |-> Min(high), page |-> new]]

\* The middle key of a full index page is pushed up, the keys above it move.
SplitIndex(s, id) ==
    LET p   == s.pages[id]
        mid == Len(p.keys) \div 2
        new == s.next
        s1  == NewPage(s, Index(<<>>, <<>>))
        s2  == SetPage(s1, id, Index(SubSeq(p.keys, 1, mid), SubSeq(p.kids, 1, mid + 1)))
        s3  == SetPage(s2, new, Index(SubSeq(p.keys, mid + 2, Len(p.keys)),
                                      SubSeq(p.kids, mid + 2, Len(p.kids))))
    IN  [s |-> MarkDirty(s3, new), split |-> [key |-> p.keys[mid + 1], page |-> new]]

\* Mutant of AddSeparator: the separator goes to the end, whatever its key.
AddSeparator_AtEnd(p, sep) ==
    Index(Append(p.keys, sep.key), Append(p.kids, sep.page))

\* insert_key: the separator goes before the first one that is not below it.
AddSeparator(p, sep) ==
    LET i == Cardinality({j \in 1..Len(p.keys) : p.keys[j] < sep.key}) + 1
    IN  Index(InsertAt(p.keys, i, sep.key), InsertAt(p.kids, i + 1, sep.page))

\* _insert at the leaf.
InsertAtLeaf(s, id, k, v) ==
    LET p  == s.pages[id]
        s1 == MarkDirty(SetPage(s, id, Leaf(With(p.rows, k, v), p.next)), id)
    IN  IF IsFull(s1.pages[id]) THEN SplitLeaf(s1, id) ELSE [s |-> s1, split |-> NoSplit]

\* _insert at an index page, once it is through with the child.
Absorb(below, id) ==
    LET s1 == MarkDirty(SetPage(below.s, id, AddSeparator(below.s.pages[id], below.split)), id)
    IN  IF below.split = NoSplit THEN below
        ELSE IF IsFull(s1.pages[id]) THEN SplitIndex(s1, id)
        ELSE [s |-> s1, split |-> NoSplit]

\* _insert: down to the leaf, and back up to the root.
InsertBelow(s, k, v) ==
    LET path == FindPath(s, k)
        up[d \in 1..Len(path)] ==
          IF d = Len(path) THEN InsertAtLeaf(s, path[d].id, k, v)
          ELSE Absorb(up[d + 1], path[d].id)
    IN  up[1]

\* insert: a split that reaches the root puts a new root above both halves.
Inserted(s, k, v) ==
    LET r == InsertBelow(s, k, v) IN
    IF r.split = NoSplit THEN r.s
    ELSE LET new == r.s.next
             s1  == NewPage(r.s, Index(<<>>, <<>>))
             s2  == SetPage(s1, new, Index(<<r.split.key>>, <<s.root, r.split.page>>))
         IN  SetRoot(MarkDirty(s2, new), new)

-----------------------------------------------------------------------------
(* Deletion *)

Dirty3(s, a, b, c) == MarkDirty(MarkDirty(MarkDirty(s, a), b), c)

\* The right sibling's first key comes over; between leaves the separator becomes
\* its new first key, between index pages the separator rotates.
BorrowFromRight(s, id, right, i, parent) ==
    LET p == s.pages[id]
        r == s.pages[right]
        q == s.pages[parent]
        k == Min(DOMAIN r.rows)
        rest == DOMAIN r.rows \ {k}
        s1 == IF p.leaf
              THEN SetPage(SetPage(SetPage(s,
                     id, Leaf(With(p.rows, k, r.rows[k]), p.next)),
                     right, Leaf(Restrict(r.rows, rest), r.next)),
                     parent, Index(ReplaceAt(q.keys, i, Min(rest)), q.kids))
              ELSE SetPage(SetPage(SetPage(s,
                     id, Index(Append(p.keys, q.keys[i]), Append(p.kids, r.kids[1]))),
                     right, Index(Tail(r.keys), Tail(r.kids))),
                     parent, Index(ReplaceAt(q.keys, i, r.keys[1]), q.kids))
    IN  Dirty3(s1, id, right, parent)

\* The mirror image: the left sibling's last key comes over and is the separator.
BorrowFromLeft(s, id, left, i, parent) ==
    LET p == s.pages[id]
        l == s.pages[left]
        q == s.pages[parent]
        k == Max(DOMAIN l.rows)
        s1 == IF p.leaf
              THEN SetPage(SetPage(SetPage(s,
                     id, Leaf(With(p.rows, k, l.rows[k]), p.next)),
                     left, Leaf(Restrict(l.rows, DOMAIN l.rows \ {k}), l.next)),
                     parent, Index(ReplaceAt(q.keys, i - 1, k), q.kids))
              ELSE SetPage(SetPage(SetPage(s,
                     id, Index(<<q.keys[i - 1]>> \o p.keys, <<Last(l.kids)>> \o p.kids)),
                     left, Index(Front(l.keys), Front(l.kids))),
                     parent, Index(ReplaceAt(q.keys, i - 1, Last(l.keys)), q.kids))
    IN  Dirty3(s1, id, left, parent)

\* right is absorbed into left and leaves the parent with separator sep; its page
\* is neither cleared nor freed.
MergePages(s, left, right, sep, parent) ==
    LET l == s.pages[left]
        r == s.pages[right]
        q == s.pages[parent]
        merged == IF l.leaf
                  THEN Leaf(Both(l.rows, r.rows), r.next)
                  ELSE Index(l.keys \o <<q.keys[sep]>> \o r.keys, l.kids \o r.kids)
        s1 == SetPage(SetPage(s, left, merged),
                      parent, Index(RemoveAt(q.keys, sep), RemoveAt(q.kids, sep + 1)))
    IN  MarkDirty(MarkDirty(s1, left), parent)

\* An index root without separators gives way to its only child.
CollapseRoot(s) ==
    LET p == s.pages[s.root] IN
    IF ~p.leaf /\ p.keys = <<>> THEN SetRoot(s, p.kids[1]) ELSE s

\* _fix_underflow at depth d, with _borrow_or_merge: a page that has enough keys, or
\* that borrows one from the right or else from the left, ends it; a merge goes on
\* in the page above.
Rebalance(s, path, d) ==
    LET id     == path[d].id
        i      == path[d].pos
        parent == path[d - 1].id
        kids   == s.pages[parent].kids
        hasRight == i < Len(kids)
        hasLeft  == i > 1
        Spares(j) == NumKeys(s.pages[kids[j]]) > MinKeys
        Ends(t) == [s |-> t, more |-> FALSE]
        GoesOn(t) == [s |-> t, more |-> TRUE]
    IN  IF NumKeys(s.pages[id]) >= MinKeys THEN Ends(s)
        ELSE IF hasRight /\ Spares(i + 1)
             THEN Ends(BorrowFromRight(s, id, kids[i + 1], i, parent))
        ELSE IF hasLeft /\ Spares(i - 1)
             THEN Ends(BorrowFromLeft(s, id, kids[i - 1], i, parent))
        ELSE IF hasRight THEN GoesOn(MergePages(s, id, kids[i + 1], i, parent))
        ELSE GoesOn(MergePages(s, kids[i - 1], id, i - 1, parent))

\* _fix_underflow: from the leaf up the path as far as pages merge.
FixUnderflow(s, path) ==
    LET up[d \in 1..Len(path)] ==
          IF d = Len(path) THEN [s |-> s, more |-> TRUE]
          ELSE LET below == up[d + 1]
               IN  IF below.more THEN Rebalance(below.s, path, d + 1) ELSE below
    IN  IF up[1].more THEN CollapseRoot(up[1].s) ELSE up[1].s

\* delete: nothing happens to a tree without the key.
Deleted(s, k) ==
    LET path == FindPath(s, k)
        id   == Last(path).id
        p    == s.pages[id]
    IN  IF k \notin DOMAIN p.rows THEN s
        ELSE FixUnderflow(
               MarkDirty(SetPage(s, id, Leaf(Restrict(p.rows, DOMAIN p.rows \ {k}), p.next)), id),
               path)

-----------------------------------------------------------------------------
Forget(s) == [s EXCEPT !.log = <<>>]

Init == tree = Forget(EmptyTree)

Insert(k, v) == tree' = Forget(Inserted(tree, k, v))

Delete(k) == tree' = Forget(Deleted(tree, k))

Next == \E k \in Key : Delete(k) \/ \E v \in Row : Insert(k, v)

Spec == Init /\ [][Next]_tree

-----------------------------------------------------------------------------
(* Properties *)

PageOK(p) ==
    IF p.leaf THEN /\ DOMAIN p.rows \subseteq Key
                   /\ \A k \in DOMAIN p.rows : p.rows[k] \in Row
                   /\ p.next \in DOMAIN tree.pages \cup {NoPage}
    ELSE /\ p.keys \in Seq(Key)
         /\ p.kids \in Seq(DOMAIN tree.pages)

TypeOK ==
    /\ DOMAIN tree.pages = 0..(tree.next - 1)
    /\ tree.root \in DOMAIN tree.pages
    /\ \A id \in DOMAIN tree.pages : PageOK(tree.pages[id])

\* The children of an entry [id, lo, hi]: pages, each with the bounds that the
\* separators on the way to it put on its keys.
ChildrenOf(e) ==
    LET p == tree.pages[e.id]
        Child(i) == [id |-> p.kids[i],
                     lo |-> IF i = 1 THEN e.lo ELSE p.keys[i - 1],
                     hi |-> IF i = Len(p.kids) THEN e.hi ELSE p.keys[i]]
    IN  IF p.leaf THEN {} ELSE {Child(i) : i \in 1..Len(p.kids)}

Height == Len(FindPath(tree, Min(Key))) - 1
Bottom == Min(Key)
Top == Max(Key) + 1

\* The pages that the index leads to, level by level.
Levels ==
    LET down[d \in 0..Height] ==
          IF d = 0 THEN {[id |-> tree.root, lo |-> Bottom, hi |-> Top]}
          ELSE UNION {ChildrenOf(e) : e \in down[d - 1]}
    IN  down
Leaves == Levels[Height]

\* Every leaf is at the same depth, and every page holds only keys between the
\* separators that lead to it, after any sequence of splits, borrows and merges.
Ordered ==
    \A d \in 0..Height : \A e \in Levels[d] :
        LET p == tree.pages[e.id] IN
        /\ e.lo < e.hi
        /\ p.leaf <=> d = Height
        /\ \A k \in IF p.leaf THEN DOMAIN p.rows ELSE ToSet(p.keys) : e.lo <= k /\ k < e.hi

\* Every page but the root keeps its minimum occupancy and none is over-full; an
\* index page has one child more than separators (bplus_tree.py:149-154).
Occupied ==
    \A d \in 0..Height : \A e \in Levels[d] :
        LET p == tree.pages[e.id]
        IN  /\ NumKeys(p) <= Order
            /\ e.id # tree.root => NumKeys(p) >= MinKeys
            /\ ~p.leaf => Len(p.kids) = Len(p.keys) + 1 /\ Len(p.keys) >= 1

\* The shape of the tree, all of it.
WellFormed == TypeOK /\ Ordered /\ Occupied

\* The next_page_id links visit exactly the leaves the index leads to, in order:
\* a scan by links and a search from the root see the same tree.
ChainMatchesTree ==
    \A e \in Leaves :
        LET next == tree.pages[e.id].next
        IN  IF e.hi = Top THEN next = NoPage
            ELSE \E f \in Leaves : f.lo = e.hi /\ next = f.id

\* range_scan returns, in ascending order, the rows that search finds in the range.
ScanAgreesWithSearch ==
    \A lo, hi \in Key :
        RangeScan(tree, lo, hi) =
            LET ks == Ascending({k \in lo..hi : k \in Key /\ Search(tree, k) # NoRow})
            IN  [i \in 1..Len(ks) |-> <<ks[i], Search(tree, ks[i])>>]

\* The tree is a map: insert and delete of a key change what search finds for
\* that key and for no other.
Map == INSTANCE KeyValueStore WITH store <- [k \in Key |-> Search(tree, k)]
IsMap == Map!Spec
=============================================================================
