----------------------------- MODULE MCBPlusTree -----------------------------
(* Instances of BPlusTree, with Cursor, for TLC. *)
EXTENDS Cursor

(* The view under which TLC tells trees apart: page ids are only names, and *)
(* a page that was merged away is never read again.  What is left of a tree *)
(* is its nesting, its separators and rows, and where the links lead.  The  *)
(* page counter is then unbounded and the state space finite.               *)
RECURSIVE ShapeOf(_)
ShapeOf(id) ==
    LET p == tree.pages[id]
    IN  IF p.leaf THEN <<p.rows>>
        ELSE <<p.keys, [i \in 1..Len(p.kids) |-> ShapeOf(p.kids[i])]>>

Links == {<<e.lo, {f.lo : f \in {g \in Leaves : g.id = tree.pages[e.id].next}}>> : e \in Leaves}

Shape == <<ShapeOf(tree.root), Links>>
=============================================================================
