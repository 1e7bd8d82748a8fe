------------------------------- MODULE Cursor --------------------------------
(***************************************************************************)
(* The cursor of src/src/cursor.py over the B+Tree: a leaf, the index of   *)
(* an entry of it, and the key found there.  What its calls do to it is a  *)
(* function of the tree; changing the tree under an open cursor is outside *)
(* its contract (cursor.py:34-36).                                         *)
(***************************************************************************)
EXTENDS BPlusTree

NoKey == -1    \* the cursor is exhausted: _key is None

\* LeafPage._entries, the keys of it.
Entries(s, leaf) == SetToSortSeq(DOMAIN s.pages[leaf].rows, <)

At(leaf, idx, key) == [leaf |-> leaf, idx |-> idx, key |-> key]

\* Mutant of Advance: the scan ends with the leaf it is in.
RECURSIVE Advance_StopsAtLeaf(_, _, _, _, _)
Advance_StopsAtLeaf(s, leaf, idx, lo, hi) ==
    LET es == Entries(s, leaf) IN
    IF idx <= Len(es)
    THEN IF es[idx] > hi THEN At(leaf, idx, NoKey)
         ELSE IF es[idx] >= lo THEN At(leaf, idx, es[idx])
         ELSE Advance_StopsAtLeaf(s, leaf, idx + 1, lo, hi)
    ELSE At(leaf, idx, NoKey)

\* _advance: on to the first entry of the range, through the leaves to the right.
RECURSIVE Advance(_, _, _, _, _)
Advance(s, leaf, idx, lo, hi) ==
    LET es   == Entries(s, leaf)
        next == s.pages[leaf].next
    IN  IF idx <= Len(es)
        THEN IF es[idx] > hi THEN At(leaf, idx, NoKey)
             ELSE IF es[idx] >= lo THEN At(leaf, idx, es[idx])
             ELSE Advance(s, leaf, idx + 1, lo, hi)
        ELSE IF next = NoPage THEN At(leaf, idx, NoKey)
        ELSE Advance(s, next, 1, lo, hi)

\* _first_valid_idx: past the end where every entry is below the range.
FirstValidIdx(s, leaf, lo) ==
    LET es == Entries(s, leaf)
    IN  Min({i \in 1..Len(es) : lo <= es[i]} \cup {Len(es) + 1})

\* Cursor(tree, lo, hi), and reset.
Opened(s, lo, hi) ==
    LET leaf == FindLeaf(s, lo) IN Advance(s, leaf, FirstValidIdx(s, leaf, lo), lo, hi)

\* next.
Stepped(s, c, lo, hi) ==
    IF c.key = NoKey THEN c ELSE Advance(s, c.leaf, c.idx + 1, lo, hi)

\* prev: a scan of the range below the current key gives the key to go to.
SteppedBack(s, c, lo, hi) ==
    IF c.key = NoKey \/ c.key <= lo THEN c
    ELSE LET before == RangeScan(s, lo, c.key - 1)
         IN  IF before = <<>> THEN c
             ELSE LET k == before[Len(before)][1]
                      leaf == FindLeaf(s, k)
                  IN  At(leaf, CHOOSE i \in 1..Len(Entries(s, leaf)) : Entries(s, leaf)[i] = k, k)

-----------------------------------------------------------------------------
\* On every tree that inserts and deletes can build, with whatever empty or thin
\* leaves: a cursor opens at the first key of its range; next goes to the key
\* after the present one, prev to the key before it, both to the very position
\* that opening the cursor there gives, so that no mix of calls skips or repeats
\* a row; past the end it stays exhausted, before the beginning it stays put.
CursorFollowsKeys ==
    \A lo, hi \in Key : lo <= hi =>
        LET keys     == {k \in lo..hi : k \in Key /\ Search(tree, k) # NoRow}
            Above(k) == {j \in keys : k < j}
            Below(k) == {j \in keys : j < k}
            OnlyAt(c, ks, k) ==
                IF ks = {} THEN c.key = NoKey /\ Stepped(tree, c, lo, hi) = c
                ELSE c = Opened(tree, k, k)
        IN  /\ OnlyAt(Opened(tree, lo, hi), keys, Min(keys \cup {hi}))
            /\ \A k \in keys :
                 LET c == Opened(tree, k, k) IN
                 /\ c.key = k
                 /\ OnlyAt(Stepped(tree, c, lo, hi), Above(k), Min(Above(k) \cup {hi}))
                 /\ IF Below(k) = {} THEN SteppedBack(tree, c, lo, hi) = c
                    ELSE SteppedBack(tree, c, lo, hi) = Opened(tree, Max(Below(k)), Max(Below(k)))
=============================================================================
