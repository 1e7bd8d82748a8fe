--------------------------- MODULE BPlusTreeProofs ---------------------------
(***************************************************************************)
(* Theorems about BPlusTree, for every order, every finite set of keys and *)
(* any sequence of inserts and deletes.                                    *)
(*                                                                         *)
(* The code stores no levels and no bounds.  The proofs name them: a layout *)
(* g says which pages are in the tree, how many levels of pages are below  *)
(* each, and between which bounds its keys are.  A tree is sound when some *)
(* layout fits it page by page.                                            *)
(***************************************************************************)
EXTENDS BPlusTree, ListLemmas

\* The bounds of the i-th child of an index page with bounds a and b.
LowOf(p, a, i) == IF i = 1 THEN a ELSE p.keys[i - 1]
HighOf(p, b, i) == IF i = Len(p.kids) THEN b ELSE p.keys[i]

\* A leaf has its keys between its bounds.
LeafFits(p, a, b) ==
    /\ p.leaf
    /\ DOMAIN p.rows \subseteq Key
    /\ \A k \in DOMAIN p.rows : p.rows[k] \in Row /\ a <= k /\ k < b

\* An index page splits its bounds among its children.
IndexFits(g, p, l, a, b) ==
    /\ ~p.leaf
    /\ p.keys \in Seq(Key) /\ p.kids \in Seq(g.at) /\ Len(p.kids) = Len(p.keys) + 1
    /\ \A i \in 1..Len(p.kids) :
          /\ g.level[p.kids[i]] = l - 1
          /\ g.lo[p.kids[i]] = LowOf(p, a, i)
          /\ g.hi[p.kids[i]] = HighOf(p, b, i)

\* A page fits its place: a leaf at level 0, an index page above.
Fits(g, p, l, a, b) ==
    IF l = 0 THEN LeafFits(p, a, b) ELSE IndexFits(g, p, l, a, b)

\* The pages of a level share out the keys.
Layout(g, root, h) ==
    /\ h \in Nat
    /\ root \in g.at /\ g.level[root] = h /\ g.lo[root] = Bottom /\ g.hi[root] = Top
    /\ \A p \in g.at : /\ g.level[p] \in 0..h
                       /\ g.lo[p] \in Int /\ g.hi[p] \in Int
                       /\ Bottom <= g.lo[p] /\ g.lo[p] < g.hi[p] /\ g.hi[p] <= Top
    /\ \A p, q \in g.at : p # q /\ g.level[p] = g.level[q] => g.hi[p] <= g.lo[q] \/ g.hi[q] <= g.lo[p]

\* The link of a leaf leads to the leaf where its bounds end.
LinkFits(g, p, next) ==
    IF g.hi[p] = Top THEN next = NoPage
    ELSE next \in g.at /\ g.level[next] = 0 /\ g.lo[next] = g.hi[p]

\* The pages fit the layout, and the links of the leaves follow it.
Shape(pg, g, root, h) ==
    /\ Layout(g, root, h)
    /\ g.at \subseteq DOMAIN pg
    /\ \A p \in g.at : Fits(g, pg[p], g.level[p], g.lo[p], g.hi[p])
    /\ \A p \in g.at : g.level[p] = 0 => LinkFits(g, p, pg[p].next)

-----------------------------------------------------------------------------
(* Keys and bounds *)

\* Keys are integers between the outermost bounds.
LEMMA KeyBounds ==
    /\ Key \subseteq Int /\ Bottom \in Key /\ Top \in Int /\ Bottom < Top
    /\ \A k \in Key : Bottom <= k /\ k < Top
<1>1. Key \in SUBSET Int /\ IsFiniteSet(Key) /\ Key # {}
  BY KeyAssumption
<1>2. PICK x \in Key : \A y \in Key : y <= x
  BY <1>1, GreatestMember
<1>3. Max(Key) \in Key /\ \A y \in Key : y <= Max(Key)
  <2>1. \E x0 \in Key : \A y \in Key : x0 >= y
    BY <1>1, <1>2
  <2>2. Max(Key) \in Key /\ \A y \in Key : Max(Key) >= y
    BY <2>1 DEF Max
  <2> QED
    BY <1>1, <2>2
<1>4. Min(Key) \in Key /\ \A y \in Key : Min(Key) <= y
  <2>1. IsWellFoundedOn(OpToRel(<, Nat), Nat)
    BY NatLessThanWellFounded
  <2>2. PICK m \in Key : \A y \in Key : ~(<<y, m>> \in OpToRel(<, Nat))
    BY <2>1, KeyAssumption, WFMin
  <2>3. \A y \in Key : ~(y < m)
    BY <2>2, KeyAssumption DEF OpToRel
  <2>4. \E x0 \in Key : \A y \in Key : x0 <= y
    BY <1>1, <2>3
  <2> QED
    BY <2>4 DEF Min
<1>5. Max(Key) \in Int /\ Min(Key) \in Int
  BY <1>1, <1>3, <1>4
<1>6. \A k \in Key : k \in Int /\ Min(Key) <= k /\ k < Max(Key) + 1
  <2> TAKE k \in Key
  <2>1. k \in Int
    BY <1>1
  <2>2. k <= Max(Key)
    BY <1>3
  <2> QED
    BY <1>4, <1>5, <2>1, <2>2
<1>7. Min(Key) < Max(Key) + 1
  BY <1>4, <1>6
<1> QED
  BY <1>1, <1>4, <1>5, <1>6, <1>7 DEF Bottom, Top

\* The bounds of the children of an index page follow each other.
LEMMA Edges ==
    ASSUME NEW g, NEW root, NEW h, Layout(g, root, h),
           NEW p, NEW l, NEW a \in Int, NEW b \in Int, a < b, IndexFits(g, p, l, a, b)
    PROVE  /\ Len(p.keys) \in Nat /\ Len(p.kids) \in Nat /\ Len(p.kids) = Len(p.keys) + 1
           /\ \A i \in 1..Len(p.keys) : p.keys[i] \in Key /\ p.keys[i] \in Int /\ a < p.keys[i] /\ p.keys[i] < b
           /\ \A i, j \in 1..Len(p.keys) : i < j => p.keys[i] < p.keys[j]
           /\ \A i \in 1..Len(p.kids) : /\ p.kids[i] \in g.at
                                        /\ a <= LowOf(p, a, i) /\ HighOf(p, b, i) <= b
                                        /\ LowOf(p, a, i) < HighOf(p, b, i)
<1> DEFINE N == Len(p.keys)
<1>1. N \in Nat /\ Len(p.kids) = N + 1 /\ \A i \in 1..N : p.keys[i] \in Key
  BY DEF IndexFits
<1>2. \A i \in 1..N : p.keys[i] \in Int
  BY <1>1, KeyBounds
<1>3. ASSUME NEW i \in 1..(N + 1)
      PROVE  p.kids[i] \in g.at /\ LowOf(p, a, i) < HighOf(p, b, i)
  <2>1. i \in 1..Len(p.kids) /\ p.kids[i] \in g.at
    BY <1>1 DEF IndexFits
  <2>2. g.lo[p.kids[i]] = LowOf(p, a, i) /\ g.hi[p.kids[i]] = HighOf(p, b, i)
    BY <2>1 DEF IndexFits
  <2> QED
    BY <2>1, <2>2 DEF Layout
<1>4. \A i \in 1..(N - 1) : p.keys[i] < p.keys[i + 1]
  <2> TAKE i \in 1..(N - 1)
  <2>1. i + 1 \in 1..(N + 1) /\ i + 1 # N + 1 /\ i + 1 # 1 /\ (i + 1) - 1 = i
    BY <1>1
  <2>2. LowOf(p, a, i + 1) < HighOf(p, b, i + 1)
    BY <1>3, <2>1
  <2> QED
    BY <1>1, <2>1, <2>2 DEF LowOf, HighOf
<1>5. N >= 1 => a < p.keys[1] /\ p.keys[N] < b
  <2>1. N >= 1 => LowOf(p, a, 1) < HighOf(p, b, 1) /\ LowOf(p, a, N + 1) < HighOf(p, b, N + 1)
    BY <1>1, <1>3
  <2> QED
    BY <1>1, <2>1 DEF LowOf, HighOf
<1> DEFINE Sorted == {n \in 0..N : \A i, j \in 1..n : i < j => p.keys[i] < p.keys[j]}
<1>6. 0 \in Sorted
  BY <1>1
<1>7. ASSUME NEW n \in 1..N, n - 1 \in Sorted
      PROVE  n \in Sorted
  <2> SUFFICES ASSUME NEW i \in 1..n, NEW j \in 1..n, i < j
               PROVE  p.keys[i] < p.keys[j]
    OBVIOUS
  <2>1. CASE j # n
    BY <1>7, <2>1
  <2>2. CASE j = n /\ i = n - 1
    <3>1. i \in 1..(N - 1) /\ i + 1 = j
      BY <1>1, <2>2
    <3> QED
      BY <1>4, <3>1
  <2>3. CASE j = n /\ i # n - 1
    <3>1. i \in 1..(n - 1) /\ n - 1 \in 1..(n - 1) /\ i < n - 1 /\ n - 1 \in 1..(N - 1) /\ (n - 1) + 1 = n
      BY <1>1, <2>3
    <3>2. p.keys[i] < p.keys[n - 1] /\ p.keys[n - 1] < p.keys[n]
      <4>1. \A i1, j1 \in 1..(n - 1) : i1 < j1 => p.keys[i1] < p.keys[j1]
        BY <1>7
      <4> QED
        BY <1>4, <3>1, <4>1
    <3>3. p.keys[i] \in Int /\ p.keys[n - 1] \in Int /\ p.keys[n] \in Int
      BY <1>2, <3>1, <1>1, SMTT(20)
    <3> QED
      BY <2>3, <3>2, <3>3
  <2> QED
    BY <2>1, <2>2, <2>3
<1> HIDE DEF Sorted
<1>8. N \in Sorted
  <2>1. \A n \in 1..N : n - 1 \in Sorted => n \in Sorted
    BY <1>7
  <2>2. PICK m \in Nat : m = N
    BY <1>1
  <2>3. 0..m \subseteq Sorted
    BY <1>6, <2>1, <2>2, CountUp
  <2> QED
    BY <2>2, <2>3
<1>9. \A i, j \in 1..N : i < j => p.keys[i] < p.keys[j]
  BY <1>8 DEF Sorted
<1> HIDE DEF N
<1>10. ASSUME NEW i \in 1..N
       PROVE  a < p.keys[i] /\ p.keys[i] < b
  <2>1. 1 \in 1..N /\ N \in 1..N /\ N >= 1
    BY <1>1
  <2>2. p.keys[1] <= p.keys[i] /\ p.keys[i] <= p.keys[N]
    BY <1>2, <1>9, <2>1
  <2> QED
    BY <1>2, <1>5, <2>1, <2>2
<1>11. ASSUME NEW i \in 1..(N + 1)
       PROVE  a <= LowOf(p, a, i) /\ HighOf(p, b, i) <= b
  <2>1. i # 1 => i - 1 \in 1..N
    BY <1>1
  <2>2. i # N + 1 => i \in 1..N
    BY <1>1
  <2> QED
    BY <1>1, <1>2, <1>10, <2>1, <2>2 DEF LowOf, HighOf
<1> QED
  BY <1>1, <1>2, <1>3, <1>9, <1>10, <1>11 DEF N

\* Every key within the bounds belongs to one child, the one that find_child takes.
LEMMA ChildPosIs ==
    ASSUME NEW g, NEW root, NEW h, Layout(g, root, h),
           NEW p, NEW l, NEW a \in Int, NEW b \in Int, IndexFits(g, p, l, a, b),
           NEW k \in Int, a <= k, k < b
    PROVE  /\ ChildPos(p, k) \in 1..Len(p.kids)
           /\ LowOf(p, a, ChildPos(p, k)) <= k /\ k < HighOf(p, b, ChildPos(p, k))
<1> DEFINE N == Len(p.keys)
<1>1. /\ N \in Nat /\ Len(p.kids) = N + 1 /\ \A i \in 1..N : p.keys[i] \in Int
      /\ \A i, j \in 1..N : i < j => p.keys[i] < p.keys[j]
  BY Edges
<1>2. CASE \E i \in 1..N : k < p.keys[i]
  <2> DEFINE First(n) == n \in 1..N /\ k < p.keys[n] /\ \A j \in 1..(n - 1) : p.keys[j] <= k
             Upto == {n \in 0..N : (\A j \in 1..n : p.keys[j] <= k) \/ \E i \in 1..n : First(i)}
  <2>1. 0 \in Upto
    BY <1>1
  <2>2. ASSUME NEW n \in 1..N, n - 1 \in Upto
        PROVE  n \in Upto
    <3>1. CASE \E i \in 1..(n - 1) : First(i)
      BY <3>1
    <3>2. CASE \A j \in 1..(n - 1) : p.keys[j] <= k
      <4>1. CASE k < p.keys[n]
        BY <3>2, <4>1
      <4>2. CASE p.keys[n] <= k
        BY <3>2, <4>2
      <4> QED
        BY <1>1, <4>1, <4>2
    <3> QED
      BY <2>2, <3>1, <3>2
  <2>3. N \in Upto
    <3> HIDE DEF Upto
    <3>1. \A n \in 1..N : n - 1 \in Upto => n \in Upto
      BY <2>2
    <3>2. PICK m \in Nat : m = N
      BY <1>1
    <3>3. 0..m \subseteq Upto
      BY <2>1, <3>1, <3>2, CountUp
    <3> QED
      BY <3>2, <3>3
  <2>4. PICK i \in 1..N : First(i)
    BY <1>1, <1>2, <2>3
  <2>5. \A n : First(n) => n = i
    BY <1>1, <2>4, SMTT(20)
  <2>6. ChildPos(p, k) = i
    <3>1. ChildPos(p, k) = CHOOSE n \in 1..Len(p.keys) : k < p.keys[n] /\ \A j \in 1..(n - 1) : p.keys[j] <= k
      BY <1>2 DEF ChildPos
    <3>2. i \in 1..Len(p.keys) /\ k < p.keys[i] /\ \A j \in 1..(i - 1) : p.keys[j] <= k
      BY <2>4
    <3>3. \A n \in 1..Len(p.keys) : (k < p.keys[n] /\ \A j \in 1..(n - 1) : p.keys[j] <= k) => n = i
      BY <2>5
    <3> QED
      BY <3>1, <3>2, <3>3
  <2>7. i # 1 => i - 1 \in 1..(i - 1) /\ p.keys[i - 1] <= k
    BY <2>4
  <2> QED
    BY <1>1, <2>4, <2>6, <2>7 DEF LowOf, HighOf
<1>3. CASE ~\E i \in 1..N : k < p.keys[i]
  <2>1. ChildPos(p, k) = N + 1
    BY <1>1, <1>3 DEF ChildPos
  <2>2. N >= 1 => N \in 1..N /\ p.keys[N] <= k
    BY <1>1, <1>3
  <2> QED
    BY <1>1, <2>1, <2>2 DEF LowOf, HighOf
<1> QED
  BY <1>2, <1>3

\* No two pages of a level have a key of the tree in common.
LEMMA OnePage ==
    ASSUME NEW g, NEW root, NEW h, Layout(g, root, h),
           NEW p \in g.at, NEW q \in g.at, g.level[p] = g.level[q],
           NEW k \in Int, g.lo[p] <= k, k < g.hi[p], g.lo[q] <= k, k < g.hi[q]
    PROVE  p = q
<1>1. g.lo[p] \in Int /\ g.hi[p] \in Int /\ g.lo[q] \in Int /\ g.hi[q] \in Int
  BY DEF Layout
<1>2. p # q => g.hi[p] <= g.lo[q] \/ g.hi[q] <= g.lo[p]
  BY DEF Layout
<1> QED
  BY <1>1, <1>2

\* What an index page of a sound tree says of its children.
LEMMA ChildIs ==
    ASSUME NEW pg, NEW g, NEW root, NEW h, Shape(pg, g, root, h),
           NEW p \in g.at, g.level[p] # 0
    PROVE  /\ IndexFits(g, pg[p], g.level[p], g.lo[p], g.hi[p])
           /\ Len(pg[p].keys) \in Nat /\ Len(pg[p].kids) = Len(pg[p].keys) + 1
           /\ \A i \in 1..Len(pg[p].keys) : pg[p].keys[i] \in Key /\ pg[p].keys[i] \in Int
           /\ \A i, j \in 1..Len(pg[p].keys) : i < j => pg[p].keys[i] < pg[p].keys[j]
           /\ \A i \in 1..Len(pg[p].kids) :
                 LET c == pg[p].kids[i]
                 IN  /\ c \in g.at /\ g.level[c] = g.level[p] - 1
                     /\ g.lo[c] = LowOf(pg[p], g.lo[p], i) /\ g.hi[c] = HighOf(pg[p], g.hi[p], i)
                     /\ g.lo[p] <= g.lo[c] /\ g.hi[c] <= g.hi[p] /\ g.lo[c] < g.hi[c]
<1>1. g.lo[p] \in Int /\ g.hi[p] \in Int /\ g.lo[p] < g.hi[p] /\ Layout(g, root, h)
  BY DEF Shape, Layout
<1>2. IndexFits(g, pg[p], g.level[p], g.lo[p], g.hi[p])
  BY DEF Shape, Fits
<1> DEFINE P == pg[p]
<1>3. /\ Len(P.keys) \in Nat /\ Len(P.kids) \in Nat /\ Len(P.kids) = Len(P.keys) + 1
      /\ \A i \in 1..Len(P.keys) : P.keys[i] \in Key /\ P.keys[i] \in Int
      /\ \A i, j \in 1..Len(P.keys) : i < j => P.keys[i] < P.keys[j]
      /\ \A i \in 1..Len(P.kids) : /\ P.kids[i] \in g.at
                                   /\ g.lo[p] <= LowOf(P, g.lo[p], i) /\ HighOf(P, g.hi[p], i) <= g.hi[p]
                                   /\ LowOf(P, g.lo[p], i) < HighOf(P, g.hi[p], i)
  BY <1>1, <1>2, Edges
<1>4. \A i \in 1..Len(P.kids) : /\ g.level[P.kids[i]] = g.level[p] - 1
                                /\ g.lo[P.kids[i]] = LowOf(P, g.lo[p], i)
                                /\ g.hi[P.kids[i]] = HighOf(P, g.hi[p], i)
  BY <1>2 DEF IndexFits
<1> HIDE DEF P
<1>5. \A i \in 1..Len(P.kids) :
                 LET c == P.kids[i]
                 IN  /\ c \in g.at /\ g.level[c] = g.level[p] - 1
                     /\ g.lo[c] = LowOf(P, g.lo[p], i) /\ g.hi[c] = HighOf(P, g.hi[p], i)
                     /\ g.lo[p] <= g.lo[c] /\ g.hi[c] <= g.hi[p] /\ g.lo[c] < g.hi[c]
  BY <1>3, <1>4
<1> QED
  BY <1>2, <1>3, <1>5 DEF P

\* A page is the child of one page, at one position.
LEMMA OneParent ==
    ASSUME NEW pg, NEW g, NEW root, NEW h, Shape(pg, g, root, h),
           NEW p \in g.at, NEW q \in g.at, g.level[p] # 0, g.level[q] # 0,
           NEW i \in 1..Len(pg[p].kids), NEW j \in 1..Len(pg[q].kids),
           pg[p].kids[i] = pg[q].kids[j]
    PROVE  p = q /\ i = j
<1>1. PICK c : c = pg[p].kids[i]
  OBVIOUS
<1>2. /\ c \in g.at /\ g.level[c] = g.level[p] - 1
      /\ g.lo[c] = LowOf(pg[p], g.lo[p], i) /\ g.hi[c] = HighOf(pg[p], g.hi[p], i)
      /\ g.lo[p] <= g.lo[c] /\ g.hi[c] <= g.hi[p] /\ g.lo[c] < g.hi[c]
  BY <1>1, ChildIs, SMTT(20)
<1>3. /\ g.level[c] = g.level[q] - 1
      /\ g.lo[c] = LowOf(pg[q], g.lo[q], j) /\ g.hi[c] = HighOf(pg[q], g.hi[q], j)
      /\ g.lo[q] <= g.lo[c] /\ g.hi[c] <= g.hi[q]
  BY <1>1, ChildIs
<1>4. /\ g.lo[p] \in Int /\ g.hi[p] \in Int /\ g.level[p] \in Int
      /\ g.lo[q] \in Int /\ g.hi[q] \in Int /\ g.level[q] \in Int
      /\ g.lo[c] \in Int /\ g.hi[c] \in Int
      /\ Layout(g, root, h)
  <2>1. Layout(g, root, h)
    BY DEF Shape
  <2>2. \A r \in g.at : g.lo[r] \in Int /\ g.hi[r] \in Int /\ g.level[r] \in Int
    BY <2>1 DEF Layout
  <2> QED
    BY <1>2, <2>1, <2>2
<1>5. p = q
  <2>1. g.level[p] = g.level[q]
    BY <1>2, <1>3, <1>4, SMTT(20)
  <2>2. PICK k \in Int : k = g.lo[c]
    BY <1>4
  <2>3. g.lo[p] <= k /\ k < g.hi[p] /\ g.lo[q] <= k /\ k < g.hi[q]
    BY <1>2, <1>3, <1>4, <2>2, SMTT(20)
  <2> QED
    BY <1>4, <2>1, <2>2, <2>3, OnePage
<1>6. i = j
  <2> DEFINE P == pg[p]
  <2>1. /\ Len(P.keys) \in Nat /\ Len(P.kids) = Len(P.keys) + 1
        /\ \A x, y \in 1..Len(P.keys) : x < y => P.keys[x] < P.keys[y]
        /\ \A x \in 1..Len(P.keys) : P.keys[x] \in Int
    BY ChildIs
  <2>2. g.lo[c] = LowOf(P, g.lo[p], i) /\ g.hi[c] = HighOf(P, g.hi[p], i)
    BY <1>2
  <2>3. g.lo[c] = LowOf(P, g.lo[p], j) /\ g.hi[c] = HighOf(P, g.hi[p], j)
    BY <1>3, <1>5
  <2>4. g.lo[c] < g.hi[c] /\ g.lo[c] \in Int /\ g.hi[c] \in Int
    BY <1>2, <1>4
  <2>5. j \in 1..Len(P.kids)
    BY <1>5
  <2> HIDE DEF P
  <2>6. ASSUME NEW x \in 1..(Len(P.keys) + 1), NEW y \in 1..(Len(P.keys) + 1), x < y
        PROVE  HighOf(P, g.hi[p], x) <= LowOf(P, g.lo[p], y)
    <3>0. PICK n \in Nat : n = Len(P.keys)
      BY <2>1
    <3>1. x \in 1..n /\ y - 1 \in 1..n /\ x <= y - 1 /\ y # 1 /\ x # n + 1
      BY <3>0, <2>6
    <3>2. PICK ks : ks = P.keys
      OBVIOUS
    <3>3. \A u, v \in 1..n : u < v => ks[u] < ks[v]
      BY <2>1, <3>0, <3>2
    <3>4. \A u \in 1..n : ks[u] \in Int
      BY <2>1, <3>0, <3>2
    <3>5. ks[x] <= ks[y - 1]
      <4>1. CASE x = y - 1
        BY <3>1, <3>4, <4>1
      <4>2. CASE x < y - 1
        BY <3>1, <3>3, <3>4, <4>2
      <4> QED
        BY <3>1, <4>1, <4>2
    <3>6. Len(P.kids) = n + 1
      BY <2>1, <3>0
    <3> QED
      BY <3>1, <3>2, <3>5, <3>6 DEF LowOf, HighOf
  <2>7. i \in 1..(Len(P.keys) + 1) /\ j \in 1..(Len(P.keys) + 1)
    BY <2>1, <2>5 DEF P
  <2>8. ~(i < j) /\ ~(j < i)
    <3>1. i < j => g.hi[c] <= g.lo[c]
      BY <2>2, <2>3, <2>6, <2>7
    <3>2. j < i => g.hi[c] <= g.lo[c]
      BY <2>2, <2>3, <2>6, <2>7
    <3> QED
      BY <2>4, <3>1, <3>2
  <2> QED
    BY <2>1, <2>7, <2>8
<1> QED
  BY <1>5, <1>6

-----------------------------------------------------------------------------
(* Sequences with one element more, less or other *)

\* A slice of a sequence.
LEMMA SliceIs ==
    ASSUME NEW T, NEW s \in Seq(T), NEW m \in 1..(Len(s) + 1), NEW n \in (m - 1)..Len(s)
    PROVE  /\ SubSeq(s, m, n) \in Seq(T) /\ Len(SubSeq(s, m, n)) = n - m + 1
           /\ \A x \in 1..(n - m + 1) : SubSeq(s, m, n)[x] = s[m + x - 1]
<1>1. m \in Int /\ n \in Int /\ m <= n + 1 /\ 1 <= m /\ n <= Len(s) /\ Len(s) \in Nat
  OBVIOUS
<1>2. \A i \in m..n : s[i] \in T
  BY <1>1
<1>3. SubSeq(s, m, n) \in Seq(T) /\ Len(SubSeq(s, m, n)) = IF m <= n THEN n - m + 1 ELSE 0
  BY <1>1, <1>2, SubSeqProperties
<1>4. \A x \in 1..(n - m + 1) : SubSeq(s, m, n)[x] = s[m + x - 1]
  BY <1>1, <1>2, SubSeqProperties
<1> QED
  BY <1>1, <1>3, <1>4

\* What list.insert makes of a sequence.
LEMMA InsertAtIs ==
    ASSUME NEW T, NEW s \in Seq(T), NEW i \in 1..(Len(s) + 1), NEW e \in T
    PROVE  /\ InsertAt(s, i, e) \in Seq(T) /\ Len(InsertAt(s, i, e)) = Len(s) + 1
           /\ \A x \in 1..(Len(s) + 1) :
                 InsertAt(s, i, e)[x] = IF x < i THEN s[x] ELSE IF x = i THEN e ELSE s[x - 1]
<1>1. PICK n \in Nat : n = Len(s)
  OBVIOUS
<1>2. i \in 1..(n + 1) /\ \A x \in 1..n : s[x] \in T
  BY <1>1
<1>3. PICK u, v : u = SubSeq(s, 1, i - 1) /\ v = SubSeq(s, i, n)
  OBVIOUS
<1>4. u \in Seq(T) /\ Len(u) = i - 1 /\ \A x \in 1..(i - 1) : u[x] = s[x]
  <2>1. \A x \in 1..(i - 1) : s[x] \in T
    BY <1>2
  <2> QED
    BY <1>2, <1>3, <2>1, SubSeqProperties
<1>5. v \in Seq(T) /\ Len(v) = n - i + 1 /\ \A x \in 1..(n - i + 1) : v[x] = s[i + x - 1]
  <2>1. \A x \in i..n : s[x] \in T
    BY <1>2
  <2> QED
    BY <1>2, <1>3, <2>1, SubSeqProperties
<1>6. <<e>> \in Seq(T) /\ Len(<<e>>) = 1 /\ <<e>>[1] = e
  OBVIOUS
<1>7. PICK w : w = u \o <<e>>
  OBVIOUS
<1>8. w \in Seq(T) /\ Len(w) = i /\ \A x \in 1..i : w[x] = IF x <= i - 1 THEN u[x] ELSE <<e>>[x - (i - 1)]
  BY <1>2, <1>4, <1>6, <1>7, ConcatProperties
<1>9. PICK z : z = w \o v
  OBVIOUS
<1>10. z \in Seq(T) /\ Len(z) = n + 1 /\ \A x \in 1..(n + 1) : z[x] = IF x <= i THEN w[x] ELSE v[x - i]
  <2>1. /\ z \in Seq(T) /\ Len(z) = Len(w) + Len(v)
        /\ \A x \in 1..Len(w) + Len(v) : z[x] = IF x <= Len(w) THEN w[x] ELSE v[x - Len(w)]
    BY <1>5, <1>8, <1>9, ConcatProperties
  <2>2. Len(w) + Len(v) = n + 1 /\ Len(w) = i
    BY <1>2, <1>5, <1>8
  <2> QED
    BY <2>1, <2>2
<1>11. z = InsertAt(s, i, e)
  BY <1>1, <1>3, <1>7, <1>9 DEF InsertAt
<1>12. ASSUME NEW x \in 1..(n + 1)
       PROVE  z[x] = IF x < i THEN s[x] ELSE IF x = i THEN e ELSE s[x - 1]
  <2>1. CASE x < i
    BY <1>2, <1>4, <1>8, <1>10, <2>1
  <2>2. CASE x = i
    BY <1>2, <1>6, <1>8, <1>10, <2>2
  <2>3. CASE i < x
    <3>1. x - i \in 1..(n - i + 1) /\ i + (x - i) - 1 = x - 1
      BY <1>2, <2>3
    <3>2. z[x] = v[x - i]
      BY <1>2, <1>10, <2>3
    <3> QED
      BY <1>2, <1>5, <2>3, <3>1, <3>2, SMTT(20)
  <2> QED
    BY <1>2, <2>1, <2>2, <2>3
<1> QED
  BY <1>1, <1>10, <1>11, <1>12

\* What list.pop makes of a sequence.
LEMMA RemoveAtIs ==
    ASSUME NEW T, NEW s \in Seq(T), NEW i \in 1..Len(s)
    PROVE  /\ RemoveAt(s, i) \in Seq(T) /\ Len(RemoveAt(s, i)) = Len(s) - 1
           /\ \A x \in 1..(Len(s) - 1) : RemoveAt(s, i)[x] = IF x < i THEN s[x] ELSE s[x + 1]
<1>1. PICK n \in Nat : n = Len(s)
  OBVIOUS
<1>2. i \in 1..n /\ \A x \in 1..n : s[x] \in T
  BY <1>1
<1>3. PICK u, v : u = SubSeq(s, 1, i - 1) /\ v = SubSeq(s, i + 1, n)
  OBVIOUS
<1>4. u \in Seq(T) /\ Len(u) = i - 1 /\ \A x \in 1..(i - 1) : u[x] = s[x]
  <2>1. \A x \in 1..(i - 1) : s[x] \in T
    BY <1>2
  <2> QED
    BY <1>2, <1>3, <2>1, SubSeqProperties
<1>5. v \in Seq(T) /\ Len(v) = n - i /\ \A x \in 1..(n - i) : v[x] = s[(i + 1) + x - 1]
  <2>1. \A x \in (i + 1)..n : s[x] \in T
    BY <1>2
  <2> QED
    BY <1>2, <1>3, <2>1, SubSeqProperties
<1>6. PICK z : z = u \o v
  OBVIOUS
<1>7. z \in Seq(T) /\ Len(z) = n - 1 /\ \A x \in 1..(n - 1) : z[x] = IF x <= i - 1 THEN u[x] ELSE v[x - (i - 1)]
  <2>1. /\ z \in Seq(T) /\ Len(z) = Len(u) + Len(v)
        /\ \A x \in 1..Len(u) + Len(v) : z[x] = IF x <= Len(u) THEN u[x] ELSE v[x - Len(u)]
    BY <1>4, <1>5, <1>6, ConcatProperties
  <2>2. Len(u) + Len(v) = n - 1 /\ Len(u) = i - 1
    BY <1>2, <1>4, <1>5
  <2> QED
    BY <2>1, <2>2
<1>8. z = RemoveAt(s, i)
  BY <1>1, <1>3, <1>6 DEF RemoveAt
<1>9. ASSUME NEW x \in 1..(n - 1)
      PROVE  z[x] = IF x < i THEN s[x] ELSE s[x + 1]
  <2>1. CASE x < i
    BY <1>2, <1>4, <1>7, <2>1
  <2>2. CASE ~(x < i)
    <3>1. x - (i - 1) \in 1..(n - i) /\ (i + 1) + (x - (i - 1)) - 1 = x + 1
      BY <1>2, <2>2
    <3>2. z[x] = v[x - (i - 1)]
      BY <1>2, <1>7, <2>2
    <3> QED
      BY <1>2, <1>5, <2>2, <3>1, <3>2
  <2> QED
    BY <2>1, <2>2
<1> QED
  BY <1>1, <1>7, <1>8, <1>9

-----------------------------------------------------------------------------
(* A page and the layout around it *)

\* An index page fits as long as its children have their level and bounds.
LEMMA SameChildren ==
    ASSUME NEW g, NEW G, NEW p, NEW l, NEW a, NEW b, IndexFits(g, p, l, a, b),
           \A i \in 1..Len(p.kids) : LET c == p.kids[i] IN
              c \in G.at /\ G.level[c] = g.level[c] /\ G.lo[c] = g.lo[c] /\ G.hi[c] = g.hi[c]
    PROVE  IndexFits(G, p, l, a, b)
<1>1. p.kids \in Seq(g.at) /\ Len(p.kids) \in Nat
  BY DEF IndexFits
<1>2. \A i \in 1..Len(p.kids) : p.kids[i] \in G.at
  OBVIOUS
<1>3. p.kids \in Seq(G.at)
  BY <1>1, <1>2
<1> QED
  BY <1>3 DEF IndexFits

\* Page n takes over the keys of page id from m on.
Halved(g, id, n, m) ==
    LET all == g.at \cup {n}
    IN  [at    |-> all,
         level |-> [p \in all |-> IF p = n THEN g.level[id] ELSE g.level[p]],
         lo    |-> [p \in all |-> IF p = n THEN m ELSE g.lo[p]],
         hi    |-> [p \in all |-> IF p = n THEN g.hi[id] ELSE IF p = id THEN m ELSE g.hi[p]]]

\* The layout after page id was split at m.
LEMMA HalvedIs ==
    ASSUME NEW g, NEW id \in g.at, NEW n, n \notin g.at, NEW m, NEW G, G = Halved(g, id, n, m)
    PROVE  /\ G.at = g.at \cup {n}
           /\ \A p \in g.at : /\ G.level[p] = g.level[p] /\ G.lo[p] = g.lo[p]
                              /\ G.hi[p] = IF p = id THEN m ELSE g.hi[p]
           /\ G.level[n] = g.level[id] /\ G.lo[n] = m /\ G.hi[n] = g.hi[id]
BY DEF Halved

\* The page that insert_key makes of an index page whose i-th child was split.
LEMMA SeparatorAdded ==
    ASSUME NEW pg, NEW g, NEW root, NEW h, Shape(pg, g, root, h),
           NEW q \in g.at, g.level[q] # 0, NEW i \in 1..Len(pg[q].kids),
           NEW m \in Key, g.lo[pg[q].kids[i]] < m, m < g.hi[pg[q].kids[i]], NEW n
    PROVE  AddSeparator(pg[q], [key |-> m, page |-> n])
             = Index(InsertAt(pg[q].keys, i, m), InsertAt(pg[q].kids, i + 1, n))
<1> DEFINE Q == pg[q]
<1>1. /\ Len(Q.keys) \in Nat /\ Len(Q.kids) = Len(Q.keys) + 1
      /\ \A x \in 1..Len(Q.keys) : Q.keys[x] \in Int
      /\ \A x, y \in 1..Len(Q.keys) : x < y => Q.keys[x] < Q.keys[y]
      /\ LowOf(Q, g.lo[q], i) < m /\ m < HighOf(Q, g.hi[q], i)
  BY ChildIs
<1>2. m \in Int
  BY KeyBounds
<1>3. i \in 1..Len(Q.kids)
  OBVIOUS
<1> HIDE DEF Q
<1>4. PICK N \in Nat : N = Len(Q.keys)
  BY <1>1
<1>5. ASSUME NEW j \in 1..N
      PROVE  Q.keys[j] < m <=> j < i
  <2>1. i \in 1..(N + 1)
    BY <1>1, <1>3, <1>4
  <2>2. CASE j < i
    <3>1. i - 1 \in 1..N /\ Q.keys[i - 1] < m
      BY <1>1, <1>4, <2>1, <2>2 DEF LowOf
    <3>2. j = i - 1 \/ Q.keys[j] < Q.keys[i - 1]
      BY <1>1, <1>4, <2>2, <3>1
    <3>3. Q.keys[j] \in Int /\ Q.keys[i - 1] \in Int
      BY <1>1, <1>4, <3>1
    <3>4. Q.keys[j] < m
      BY <1>2, <3>1, <3>2, <3>3
    <3> QED
      BY <2>2, <3>4
  <2>3. CASE ~(j < i)
    <3>1. i \in 1..N /\ m < Q.keys[i]
      BY <1>1, <1>4, <2>1, <2>3 DEF HighOf
    <3>2. j = i \/ Q.keys[i] < Q.keys[j]
      BY <1>1, <1>4, <2>3, <3>1
    <3> QED
      BY <1>1, <1>2, <1>4, <2>3, <3>1, <3>2
  <2>4. i \in Int /\ j \in Int
    BY <2>1
  <2> QED
    BY <2>2, <2>3, <2>4
<1>6. {j \in 1..N : Q.keys[j] < m} = 1..(i - 1)
  BY <1>1, <1>3, <1>4, <1>5
<1>7. Cardinality({j \in 1..Len(Q.keys) : Q.keys[j] < m}) + 1 = i
  <2>1. PICK r \in Nat : r = i - 1
    BY <1>1, <1>3
  <2>2. Cardinality(1..r) = r
    BY PositionsCounted
  <2>3. Cardinality({j \in 1..Len(Q.keys) : Q.keys[j] < m}) = r
    BY <1>4, <1>6, <2>1, <2>2
  <2>4. i \in Int
    BY <1>1, <1>3
  <2> QED
    BY <2>1, <2>3, <2>4
<1> QED
  BY <1>7 DEF AddSeparator, Q

-----------------------------------------------------------------------------
(* Splitting a page *)

\* The levels still share out the keys.
LEMMA HalvedLayout ==
    ASSUME NEW g, NEW root, NEW h, Layout(g, root, h),
           NEW id \in g.at, id # root, NEW n, n \notin g.at,
           NEW m \in Int, g.lo[id] < m, m < g.hi[id]
    PROVE  Layout(Halved(g, id, n, m), root, h)
<1>1. PICK G : G = Halved(g, id, n, m)
  OBVIOUS
<1>2. /\ G.at = g.at \cup {n}
      /\ \A p \in g.at : /\ G.level[p] = g.level[p] /\ G.lo[p] = g.lo[p]
                         /\ G.hi[p] = IF p = id THEN m ELSE g.hi[p]
      /\ G.level[n] = g.level[id] /\ G.lo[n] = m /\ G.hi[n] = g.hi[id]
  BY <1>1, HalvedIs
<1>3. Bottom \in Int /\ Top \in Int
  BY KeyBounds
<1>4. ASSUME NEW p \in G.at
      PROVE  /\ G.level[p] \in 0..h /\ G.lo[p] \in Int /\ G.hi[p] \in Int
             /\ Bottom <= G.lo[p] /\ G.lo[p] < G.hi[p] /\ G.hi[p] <= Top
  <2>1. /\ g.level[id] \in 0..h /\ g.lo[id] \in Int /\ g.hi[id] \in Int
        /\ Bottom <= g.lo[id] /\ g.lo[id] < g.hi[id] /\ g.hi[id] <= Top
    BY DEF Layout
  <2>2. CASE p = n
    BY <1>2, <1>3, <2>1, <2>2
  <2>3. CASE p = id
    BY <1>2, <1>3, <2>1, <2>3
  <2>4. CASE p \in g.at /\ p # id
    BY <1>2, <2>4 DEF Layout
  <2> QED
    BY <1>2, <2>2, <2>3, <2>4
<1>5. ASSUME NEW p \in G.at, NEW q \in G.at, p # q, G.level[p] = G.level[q]
      PROVE  G.hi[p] <= G.lo[q] \/ G.hi[q] <= G.lo[p]
  <2>1. g.lo[id] \in Int /\ g.hi[id] \in Int /\ m \in Int /\ g.lo[id] < m /\ m < g.hi[id]
    BY DEF Layout
  <2>2. ASSUME NEW x \in g.at, x # id, g.level[x] = g.level[id]
        PROVE  /\ g.lo[x] \in Int /\ g.hi[x] \in Int
               /\ g.hi[x] <= g.lo[id] \/ g.hi[id] <= g.lo[x]
               /\ G.hi[x] <= G.lo[id] \/ G.hi[id] <= G.lo[x]
               /\ G.hi[x] <= G.lo[n] \/ G.hi[n] <= G.lo[x]
    <3>1. /\ g.lo[x] \in Int /\ g.hi[x] \in Int
          /\ g.hi[x] <= g.lo[id] \/ g.hi[id] <= g.lo[x]
      BY <2>2 DEF Layout
    <3>2. /\ G.lo[id] = g.lo[id] /\ G.hi[id] = m /\ G.lo[x] = g.lo[x] /\ G.hi[x] = g.hi[x]
          /\ G.lo[n] = m /\ G.hi[n] = g.hi[id]
      BY <1>2, <2>2
    <3> QED
      BY <2>1, <3>1, <3>2
  <2>3. G.hi[id] <= G.lo[n]
    BY <1>2
  <2>4. CASE p \in g.at \ {id} /\ q \in g.at \ {id}
    <3>1. g.hi[p] <= g.lo[q] \/ g.hi[q] <= g.lo[p]
      BY <1>2, <1>5, <2>4 DEF Layout
    <3> QED
      BY <1>2, <2>4, <3>1
  <2>5. CASE p \in g.at \ {id} /\ q \in {id, n}
    <3>1. g.level[p] = g.level[id]
      BY <1>2, <1>5, <2>5
    <3> QED
      BY <2>2, <2>5, <3>1
  <2>6. CASE q \in g.at \ {id} /\ p \in {id, n}
    <3>1. g.level[q] = g.level[id]
      BY <1>2, <1>5, <2>6
    <3> QED
      BY <2>2, <2>6, <3>1
  <2>7. CASE p \in {id, n} /\ q \in {id, n}
    BY <1>5, <2>3, <2>7
  <2> QED
    BY <1>2, <2>4, <2>5, <2>6, <2>7
<1>6. /\ h \in Nat /\ root \in G.at /\ G.level[root] = h
      /\ G.lo[root] = Bottom /\ G.hi[root] = Top
  BY <1>2 DEF Layout
<1> QED
  BY <1>1, <1>4, <1>5, <1>6 DEF Layout

\* A page whose i-th child was split has both halves among its children.
LEMMA ParentOfHalves ==
    ASSUME NEW pg, NEW g, NEW root, NEW h, Shape(pg, g, root, h),
           NEW q \in g.at, g.level[q] # 0, NEW i \in 1..Len(pg[q].kids),
           NEW id, id = pg[q].kids[i], NEW n, n \notin g.at,
           NEW m \in Key, g.lo[id] < m, m < g.hi[id]
    PROVE  IndexFits(Halved(g, id, n, m), AddSeparator(pg[q], [key |-> m, page |-> n]),
                     g.level[q], g.lo[q], g.hi[q])
<1> DEFINE Q == pg[q]
           l == g.level[q]
           a == g.lo[q]
           b == g.hi[q]
<1>1. PICK G : G = Halved(g, id, n, m)
  OBVIOUS
<1>2. id \in g.at
  BY ChildIs
<1>3. /\ G.at = g.at \cup {n}
      /\ \A p \in g.at : /\ G.level[p] = g.level[p] /\ G.lo[p] = g.lo[p]
                         /\ G.hi[p] = IF p = id THEN m ELSE g.hi[p]
      /\ G.level[n] = g.level[id] /\ G.lo[n] = m /\ G.hi[n] = g.hi[id]
  BY <1>1, <1>2, HalvedIs
<1>4. IndexFits(g, Q, l, a, b) /\ Len(Q.keys) \in Nat /\ Len(Q.kids) = Len(Q.keys) + 1
  BY ChildIs
<1>4k. \A x \in 1..Len(Q.kids) : /\ Q.kids[x] \in g.at /\ g.level[Q.kids[x]] = l - 1
                                 /\ g.lo[Q.kids[x]] = LowOf(Q, a, x) /\ g.hi[Q.kids[x]] = HighOf(Q, b, x)
  BY ChildIs
<1>5. Q.keys \in Seq(Key) /\ Q.kids \in Seq(g.at)
  BY <1>4 DEF IndexFits
<1>6. \A x \in 1..Len(Q.kids) : Q.kids[x] = id => x = i
  BY OneParent
<1>7. PICK P : P = AddSeparator(Q, [key |-> m, page |-> n])
  OBVIOUS
<1>8. P = Index(InsertAt(Q.keys, i, m), InsertAt(Q.kids, i + 1, n))
  BY <1>7, SeparatorAdded
<1> HIDE DEF Q, l, a, b
<1>9. PICK N \in Nat : N = Len(Q.keys)
  BY <1>4
<1>10. i \in 1..(N + 1) /\ Len(Q.kids) = N + 1 /\ Q.kids[i] = id
  BY <1>4, <1>9 DEF Q
<1>10k. \A x \in 1..(N + 1) : /\ Q.kids[x] \in g.at /\ g.level[Q.kids[x]] = l - 1
                              /\ g.lo[Q.kids[x]] = LowOf(Q, a, x) /\ g.hi[Q.kids[x]] = HighOf(Q, b, x)
                              /\ Q.kids[x] = id => x = i
  BY <1>4k, <1>6, <1>10
<1>11. /\ P.keys \in Seq(Key) /\ Len(P.keys) = N + 1
       /\ \A x \in 1..(N + 1) : P.keys[x] = IF x < i THEN Q.keys[x] ELSE IF x = i THEN m ELSE Q.keys[x - 1]
  <2>1. P.keys = InsertAt(Q.keys, i, m)
    BY <1>8 DEF Index
  <2>2. i \in 1..(Len(Q.keys) + 1) /\ m \in Key /\ Q.keys \in Seq(Key)
    BY <1>5, <1>9, <1>10
  <2>3. /\ InsertAt(Q.keys, i, m) \in Seq(Key) /\ Len(InsertAt(Q.keys, i, m)) = Len(Q.keys) + 1
        /\ \A x \in 1..(Len(Q.keys) + 1) :
              InsertAt(Q.keys, i, m)[x] = IF x < i THEN Q.keys[x] ELSE IF x = i THEN m ELSE Q.keys[x - 1]
    BY <2>2, InsertAtIs, SMTT(20)
  <2> QED
    BY <1>9, <2>1, <2>3
<1>12. /\ P.kids \in Seq(G.at) /\ Len(P.kids) = N + 2
       /\ \A x \in 1..(N + 2) :
             P.kids[x] = IF x < i + 1 THEN Q.kids[x] ELSE IF x = i + 1 THEN n ELSE Q.kids[x - 1]
  <2>1. Q.kids \in Seq(G.at) /\ n \in G.at /\ i + 1 \in 1..(Len(Q.kids) + 1)
    BY <1>3, <1>5, <1>10
  <2>2. P.kids = InsertAt(Q.kids, i + 1, n)
    BY <1>8 DEF Index
  <2>3. Len(Q.kids) + 1 = N + 2
    BY <1>10
  <2>4. PICK at, ks, j : at = G.at /\ ks = Q.kids /\ j = i + 1
    OBVIOUS
  <2>5. ks \in Seq(at) /\ n \in at /\ j \in 1..(Len(ks) + 1)
    BY <2>1, <2>4
  <2>6. /\ InsertAt(ks, j, n) \in Seq(at) /\ Len(InsertAt(ks, j, n)) = Len(ks) + 1
        /\ \A x \in 1..(Len(ks) + 1) :
              InsertAt(ks, j, n)[x] = IF x < j THEN ks[x] ELSE IF x = j THEN n ELSE ks[x - 1]
    BY <2>5, InsertAtIs, SMTT(60)
  <2> QED
    BY <2>2, <2>3, <2>4, <2>6
<1>12k. \A x \in 1..(N + 2) :
             P.kids[x] = IF x < i + 1 THEN Q.kids[x] ELSE IF x = i + 1 THEN n ELSE Q.kids[x - 1]
  BY <1>12
<1>12l. Len(P.kids) = N + 2 /\ Len(Q.kids) = N + 1
  BY <1>10, <1>12
<1>13. ASSUME NEW x \in 1..(N + 2)
       PROVE  /\ G.level[P.kids[x]] = l - 1
              /\ G.lo[P.kids[x]] = LowOf(P, a, x)
              /\ G.hi[P.kids[x]] = HighOf(P, b, x)
  <2>1. CASE x < i
    <3>1. /\ x \in 1..(N + 1) /\ x # i /\ x # N + 1 /\ x # N + 2 /\ x - 1 < i /\ x < i + 1
          /\ x # 1 => x - 1 \in 1..(N + 1)
      BY <1>10, <2>1
    <3>2. P.kids[x] = Q.kids[x] /\ Q.kids[x] # id /\ Q.kids[x] \in g.at
      BY <1>10k, <1>12k, <3>1
    <3>3. /\ G.level[P.kids[x]] = l - 1
          /\ G.lo[P.kids[x]] = LowOf(Q, a, x) /\ G.hi[P.kids[x]] = HighOf(Q, b, x)
      <4>1. /\ G.level[P.kids[x]] = g.level[Q.kids[x]]
            /\ G.lo[P.kids[x]] = g.lo[Q.kids[x]] /\ G.hi[P.kids[x]] = g.hi[Q.kids[x]]
        BY <1>3, <3>2
      <4> QED
        BY <1>10k, <3>1, <4>1
    <3>4. P.keys[x] = Q.keys[x] /\ (x # 1 => P.keys[x - 1] = Q.keys[x - 1])
      BY <1>11, <2>1, <3>1
    <3> QED
      BY <1>12l, <3>1, <3>3, <3>4 DEF LowOf, HighOf
  <2>2. CASE x = i
    <3>1. x \in 1..(N + 1) /\ x # N + 2 /\ x - 1 < i /\ (x # 1 => x - 1 \in 1..(N + 1))
      BY <1>10, <2>2
    <3>2. P.kids[x] = id
      BY <1>10, <1>12k, <2>2
    <3>3. G.level[P.kids[x]] = l - 1 /\ G.lo[P.kids[x]] = LowOf(Q, a, x) /\ G.hi[P.kids[x]] = m
      <4>1. G.level[id] = g.level[id] /\ G.lo[id] = g.lo[id] /\ G.hi[id] = m
        BY <1>2, <1>3
      <4>2. g.level[id] = l - 1 /\ g.lo[id] = LowOf(Q, a, i)
        BY <1>10, <1>10k
      <4> QED
        BY <2>2, <3>2, <4>1, <4>2
    <3>4. P.keys[x] = m /\ (x # 1 => P.keys[x - 1] = Q.keys[x - 1])
      BY <1>11, <2>2, <3>1
    <3> QED
      BY <1>12l, <3>1, <3>3, <3>4 DEF LowOf, HighOf
  <2>3. CASE x = i + 1
    <3>1. P.kids[x] = n /\ x # 1 /\ x - 1 = i /\ i \in 1..(N + 1)
      BY <1>10, <1>12k, <2>3
    <3>2. G.level[P.kids[x]] = l - 1 /\ G.lo[P.kids[x]] = m /\ G.hi[P.kids[x]] = HighOf(Q, b, i)
      <4>1. g.level[id] = l - 1 /\ g.hi[id] = HighOf(Q, b, i)
        BY <1>10, <1>10k
      <4> QED
        BY <1>3, <3>1, <4>1
    <3>3. P.keys[x - 1] = m
      BY <1>11, <3>1
    <3>4. x # N + 2 => x \in 1..(N + 1) /\ i # N + 1 /\ P.keys[x] = Q.keys[i]
      BY <1>10, <1>11, <2>3, <3>1
    <3>5. x = N + 2 => i = N + 1
      BY <1>10, <2>3
    <3> QED
      BY <1>12l, <3>1, <3>2, <3>3, <3>4, <3>5 DEF LowOf, HighOf
  <2>4. CASE i + 1 < x
    <3>1. x - 1 \in 1..(N + 1) /\ x - 1 # i /\ x # 1 /\ x - 1 # 1 /\ (x - 1) - 1 = x - 2 /\ ~(x < i + 1) /\ x # i + 1
      BY <1>10, <2>4
    <3>2. P.kids[x] = Q.kids[x - 1] /\ Q.kids[x - 1] # id /\ Q.kids[x - 1] \in g.at
      BY <1>10k, <1>12k, <3>1
    <3>3. /\ G.level[P.kids[x]] = l - 1
          /\ G.lo[P.kids[x]] = LowOf(Q, a, x - 1) /\ G.hi[P.kids[x]] = HighOf(Q, b, x - 1)
      <4>1. PICK y : y = x - 1
        OBVIOUS
      <4>2. /\ G.level[P.kids[x]] = g.level[Q.kids[y]]
            /\ G.lo[P.kids[x]] = g.lo[Q.kids[y]] /\ G.hi[P.kids[x]] = g.hi[Q.kids[y]]
        BY <1>3, <3>2, <4>1
      <4> QED
        BY <1>10k, <3>1, <4>1, <4>2
    <3>4. P.keys[x - 1] = Q.keys[x - 2]
      BY <1>11, <3>1, <2>4
    <3>5. x # N + 2 => x \in 1..(N + 1) /\ x - 1 # N + 1 /\ P.keys[x] = Q.keys[x - 1]
      <4>1. x # N + 2 => x \in 1..(N + 1) /\ ~(x < i) /\ x # i /\ x - 1 # N + 1
        BY <1>10, <2>4
      <4>2. \A y \in 1..(N + 1) : P.keys[y] = IF y < i THEN Q.keys[y] ELSE IF y = i THEN m ELSE Q.keys[y - 1]
        BY <1>11
      <4> QED
        BY <4>1, <4>2
    <3>6. LowOf(P, a, x) = LowOf(Q, a, x - 1)
      BY <3>1, <3>4 DEF LowOf
    <3>7. HighOf(P, b, x) = HighOf(Q, b, x - 1)
      <4>1. x = N + 2 <=> x - 1 = N + 1
        BY <1>10
      <4> QED
        BY <1>12l, <3>5, <4>1 DEF HighOf
    <3> QED
      BY <3>3, <3>6, <3>7
  <2> QED
    BY <1>10, <2>1, <2>2, <2>3, <2>4
<1>14. ~P.leaf
  BY <1>8 DEF Index
<1>15. IndexFits(G, P, l, a, b)
  BY <1>11, <1>12, <1>13, <1>14 DEF IndexFits
<1> QED
  BY <1>1, <1>7, <1>15 DEF Q, l, a, b

\* A page of a sound tree is no child of any page of another level.
LEMMA ChildElsewhere ==
    ASSUME NEW pg, NEW g, NEW root, NEW h, Shape(pg, g, root, h),
           NEW q \in g.at, g.level[q] # 0, NEW i \in 1..Len(pg[q].kids),
           NEW p \in g.at, p # q, g.level[p] # 0, NEW j \in 1..Len(pg[p].kids)
    PROVE  pg[p].kids[j] # pg[q].kids[i]
BY OneParent

\* Pages pg with page id, the i-th child of page q, in two halves A and B.
SplitUp(pg, g, root, h, q, i, id, n, m, A, B, new) ==
    /\ Shape(pg, g, root, h)
    /\ q \in g.at /\ g.level[q] # 0 /\ i \in 1..Len(pg[q].kids)
    /\ id = pg[q].kids[i] /\ n \notin g.at
    /\ m \in Key /\ g.lo[id] < m /\ m < g.hi[id]
    /\ Fits(g, A, g.level[id], g.lo[id], m) /\ Fits(g, B, g.level[id], m, g.hi[id])
    /\ g.level[id] = 0 => A.next = n /\ B.next = pg[id].next
    /\ g.at \cup {n} \subseteq DOMAIN new
    /\ new[id] = A /\ new[n] = B /\ new[q] = AddSeparator(pg[q], [key |-> m, page |-> n])
    /\ \A p \in g.at \ {id, q} : new[p] = pg[p]

\* A page is split: its upper half moves to page n, and its parent gets m and n.
LEMMA SplitShape ==
    ASSUME NEW pg, NEW g, NEW root, NEW h, NEW q, NEW i, NEW id, NEW n, NEW m, NEW A, NEW B, NEW new,
           SplitUp(pg, g, root, h, q, i, id, n, m, A, B, new)
    PROVE  Shape(new, Halved(g, id, n, m), root, h)
<1>a. /\ Shape(pg, g, root, h)
      /\ q \in g.at /\ g.level[q] # 0 /\ i \in 1..Len(pg[q].kids) /\ id = pg[q].kids[i] /\ n \notin g.at
      /\ m \in Key /\ g.lo[id] < m /\ m < g.hi[id]
  BY DEF SplitUp
<1>b. Fits(g, A, g.level[id], g.lo[id], m) /\ Fits(g, B, g.level[id], m, g.hi[id])
  BY DEF SplitUp
<1>c. g.level[id] = 0 => A.next = n /\ B.next = pg[id].next
  BY DEF SplitUp
<1>d. new[id] = A /\ new[n] = B /\ new[q] = AddSeparator(pg[q], [key |-> m, page |-> n])
  BY DEF SplitUp
<1>e. \A p \in g.at \ {id, q} : new[p] = pg[p]
  BY DEF SplitUp
<1>1. PICK G : G = Halved(g, id, n, m)
  OBVIOUS
<1>2. id \in g.at /\ g.level[id] = g.level[q] - 1
  <2>1. \A x \in 1..Len(pg[q].kids) : pg[q].kids[x] \in g.at /\ g.level[pg[q].kids[x]] = g.level[q] - 1
    BY <1>a, ChildIs
  <2> QED
    BY <1>a, <2>1
<1>3. /\ G.at = g.at \cup {n}
      /\ \A p \in g.at : /\ G.level[p] = g.level[p] /\ G.lo[p] = g.lo[p]
                         /\ G.hi[p] = IF p = id THEN m ELSE g.hi[p]
      /\ G.level[n] = g.level[id] /\ G.lo[n] = m /\ G.hi[n] = g.hi[id]
  BY <1>a, <1>1, <1>2, HalvedIs
<1>4. /\ Layout(g, root, h) /\ h \in Nat /\ root \in g.at /\ g.level[root] = h
      /\ \A p \in g.at : g.level[p] \in 0..h /\ g.lo[p] \in Int /\ g.hi[p] \in Int /\ g.hi[p] <= Top
  BY <1>a DEF Shape, Layout
<1>5. id # root /\ id # q
  BY <1>a, <1>2, <1>4, SMTT(20)
<1>6. m \in Int /\ m # Top
  BY <1>a, KeyBounds
<1>7. Layout(G, root, h)
  BY <1>a, <1>1, <1>2, <1>4, <1>5, <1>6, HalvedLayout
<1>8. ASSUME NEW P, NEW l \in 0..h, l # g.level[q], NEW a, NEW b, Fits(g, P, l, a, b)
      PROVE  Fits(G, P, l, a, b)
  <2>1. CASE l = 0
    BY <1>8, <2>1 DEF Fits
  <2>2. CASE l # 0
    <3>1. IndexFits(g, P, l, a, b)
      BY <1>8, <2>2 DEF Fits
    <3>2. ASSUME NEW j \in 1..Len(P.kids)
          PROVE  /\ P.kids[j] \in g.at /\ P.kids[j] # id
      <4>1. P.kids[j] \in g.at /\ g.level[P.kids[j]] = l - 1
        BY <3>1 DEF IndexFits
      <4>2. g.level[q] \in Int /\ l \in Int
        BY <1>a, <1>4
      <4>3. g.level[P.kids[j]] # g.level[id]
        BY <1>2, <1>8, <4>1, <4>2
      <4> QED
        BY <4>1, <4>3
    <3>3. IndexFits(G, P, l, a, b)
      BY <1>3, <3>1, <3>2, SameChildren
    <3> QED
      BY <2>2, <3>3 DEF Fits
  <2> QED
    BY <2>1, <2>2
<1>9. ASSUME NEW p \in G.at
      PROVE  Fits(G, new[p], G.level[p], G.lo[p], G.hi[p])
  <2>0. g.level[id] \in 0..h /\ g.level[id] # g.level[q]
    BY <1>a, <1>2, <1>4
  <2>1. CASE p = n
    <3>1. Fits(G, B, g.level[id], m, g.hi[id])
      BY <1>b, <1>8, <2>0
    <3> QED
      BY <1>d, <1>3, <2>1, <3>1
  <2>2. CASE p = id
    <3>1. Fits(G, A, g.level[id], g.lo[id], m)
      BY <1>b, <1>8, <2>0
    <3> QED
      BY <1>d, <1>2, <1>3, <2>2, <3>1
  <2>3. CASE p = q
    <3>1. IndexFits(G, new[q], g.level[q], g.lo[q], g.hi[q])
      BY <1>a, <1>d, <1>1, ParentOfHalves
    <3>2. G.level[q] = g.level[q] /\ G.lo[q] = g.lo[q] /\ G.hi[q] = g.hi[q]
      BY <1>a, <1>3, <1>5
    <3> QED
      BY <1>a, <2>3, <3>1, <3>2 DEF Fits
  <2>4. CASE p \in g.at \ {id, q}
    <3>1. Fits(g, pg[p], g.level[p], g.lo[p], g.hi[p])
      BY <1>a, <2>4 DEF Shape
    <3>2. new[p] = pg[p] /\ G.level[p] = g.level[p] /\ G.lo[p] = g.lo[p] /\ G.hi[p] = g.hi[p]
      BY <1>e, <1>3, <2>4
    <3>3. CASE g.level[p] = 0
      BY <3>1, <3>2, <3>3 DEF Fits
    <3>4. CASE g.level[p] # 0
      <4>1. IndexFits(g, pg[p], g.level[p], g.lo[p], g.hi[p])
        BY <3>1, <3>4 DEF Fits
      <4>2. ASSUME NEW j \in 1..Len(pg[p].kids)
            PROVE  pg[p].kids[j] \in g.at /\ pg[p].kids[j] # id
        <5>1. pg[p].kids[j] # pg[q].kids[i]
          BY <1>a, <2>4, <3>4, ChildElsewhere
        <5> QED
          BY <1>a, <4>1, <5>1 DEF IndexFits
      <4>3. IndexFits(G, pg[p], g.level[p], g.lo[p], g.hi[p])
        BY <1>3, <4>1, <4>2, SameChildren
      <4> QED
        BY <3>2, <3>4, <4>3 DEF Fits
    <3> QED
      BY <3>3, <3>4
  <2> QED
    BY <1>3, <2>1, <2>2, <2>3, <2>4
<1>10. ASSUME NEW p \in G.at, G.level[p] = 0
       PROVE  LinkFits(G, p, new[p].next)
  <2>1. CASE p = id
    <3>1. g.level[id] = 0 /\ new[p].next = n /\ G.hi[p] = m
      BY <1>c, <1>d, <1>2, <1>3, <1>10, <2>1
    <3> QED
      BY <1>3, <1>6, <3>1 DEF LinkFits
  <2>2. CASE p = n
    <3>1. g.level[id] = 0 /\ new[p].next = pg[id].next /\ G.hi[p] = g.hi[id]
      BY <1>c, <1>d, <1>2, <1>3, <1>10, <2>2
    <3>2. LinkFits(g, id, pg[id].next)
      BY <1>a, <1>2, <3>1 DEF Shape
    <3> QED
      BY <1>3, <3>1, <3>2 DEF LinkFits
  <2>3. CASE p \in g.at \ {id}
    <3>1. g.level[p] = 0 /\ G.hi[p] = g.hi[p] /\ new[p] = pg[p]
      BY <1>a, <1>e, <1>3, <1>10, <2>3
    <3>2. LinkFits(g, p, pg[p].next)
      BY <1>a, <2>3, <3>1 DEF Shape
    <3> QED
      BY <1>3, <3>1, <3>2 DEF LinkFits
  <2> QED
    BY <1>3, <2>1, <2>2, <2>3
<1>11. G.at \subseteq DOMAIN new
  BY <1>3 DEF SplitUp
<1> QED
  BY <1>1, <1>7, <1>9, <1>10, <1>11 DEF Shape

-----------------------------------------------------------------------------
(* Moving the boundary between two neighbours *)

\* What fits a page of a sound tree.
LEMMA PageFits ==
    ASSUME NEW pg, NEW g, NEW root, NEW h, Shape(pg, g, root, h), NEW p \in g.at
    PROVE  /\ p \in DOMAIN pg /\ g.level[p] \in 0..h /\ g.lo[p] \in Int /\ g.hi[p] \in Int /\ g.lo[p] < g.hi[p]
           /\ pg[p].leaf <=> g.level[p] = 0
           /\ g.level[p] = 0 => LeafFits(pg[p], g.lo[p], g.hi[p])
           /\ g.level[p] # 0 => IndexFits(g, pg[p], g.level[p], g.lo[p], g.hi[p])
<1>1. Fits(g, pg[p], g.level[p], g.lo[p], g.hi[p]) /\ p \in DOMAIN pg
  BY DEF Shape
<1>2. g.level[p] \in 0..h /\ g.lo[p] \in Int /\ g.hi[p] \in Int /\ g.lo[p] < g.hi[p]
  BY DEF Shape, Layout
<1>3. g.level[p] = 0 => LeafFits(pg[p], g.lo[p], g.hi[p]) /\ pg[p].leaf
  BY <1>1 DEF Fits, LeafFits
<1>4. g.level[p] # 0 => IndexFits(g, pg[p], g.level[p], g.lo[p], g.hi[p]) /\ ~pg[p].leaf
  BY <1>1 DEF Fits, IndexFits
<1> QED
  BY <1>1, <1>2, <1>3, <1>4

\* Pages a and b are children i and i + 1 of page q.
Beside(pg, g, root, h, q, i, a, b) ==
    /\ i \in 1..Len(pg[q].keys) /\ i + 1 \in 1..Len(pg[q].kids)
    /\ a \in g.at /\ b \in g.at /\ a # b /\ a # q /\ b # q /\ a # root /\ b # root
    /\ g.level[a] = g.level[q] - 1 /\ g.level[b] = g.level[q] - 1
    /\ g.level[a] \in 0..h /\ g.level[q] \in 1..h
    /\ g.hi[a] = pg[q].keys[i] /\ g.lo[b] = pg[q].keys[i]
    /\ g.lo[a] \in Int /\ g.hi[a] \in Int /\ g.hi[b] \in Int
    /\ g.lo[a] < g.hi[a] /\ g.lo[b] < g.hi[b]
    /\ IndexFits(g, pg[q], g.level[q], g.lo[q], g.hi[q])

\* Neighbours under one parent, and the separator between them.
LEMMA Neighbours ==
    ASSUME NEW pg, NEW g, NEW root, NEW h, Shape(pg, g, root, h),
           NEW q \in g.at, g.level[q] # 0, NEW i \in 1..Len(pg[q].kids), i # Len(pg[q].kids),
           NEW a, a = pg[q].kids[i], NEW b, b = pg[q].kids[i + 1]
    PROVE  Beside(pg, g, root, h, q, i, a, b)
<1> DEFINE Q == pg[q]
<1>1. /\ Len(Q.keys) \in Nat /\ Len(Q.kids) = Len(Q.keys) + 1
      /\ \A x \in 1..Len(Q.kids) : /\ Q.kids[x] \in g.at /\ g.level[Q.kids[x]] = g.level[q] - 1
                                   /\ g.lo[Q.kids[x]] = LowOf(Q, g.lo[q], x) /\ g.hi[Q.kids[x]] = HighOf(Q, g.hi[q], x)
  BY ChildIs
<1>2. i \in 1..Len(Q.kids) /\ i # Len(Q.kids) /\ a = Q.kids[i] /\ b = Q.kids[i + 1]
  OBVIOUS
<1> HIDE DEF Q
<1>3. PICK N \in Nat : N = Len(Q.keys)
  BY <1>1
<1>4. i \in 1..N /\ i + 1 \in 1..(N + 1) /\ i # N + 1 /\ i + 1 # 1 /\ (i + 1) - 1 = i
  BY <1>1, <1>2, <1>3
<1>5. a \in g.at /\ b \in g.at /\ g.level[a] = g.level[q] - 1 /\ g.level[b] = g.level[q] - 1
  BY <1>1, <1>2, <1>3, <1>4
<1>6. g.hi[a] = Q.keys[i] /\ g.lo[b] = Q.keys[i]
  BY <1>1, <1>2, <1>3, <1>4 DEF LowOf, HighOf
<1>7. /\ \A p \in g.at : g.level[p] \in 0..h /\ g.lo[p] \in Int /\ g.hi[p] \in Int /\ g.lo[p] < g.hi[p]
      /\ h \in Nat /\ g.level[root] = h
  BY DEF Shape, Layout
<1>8. a # b
  BY <1>5, <1>6, <1>7, SMTT(20)
<1>9. a # q /\ b # q /\ a # root /\ b # root /\ g.level[q] \in 1..h
  <2>1. g.level[q] \in 0..h /\ g.level[q] # 0
    BY <1>7
  <2>2. g.level[q] \in 1..h
    BY <1>7, <2>1
  <2>3. g.level[a] # g.level[q] /\ g.level[b] # g.level[q] /\ g.level[a] # g.level[root] /\ g.level[b] # g.level[root]
    BY <1>5, <1>7, <2>2
  <2> QED
    BY <2>2, <2>3
<1>10. IndexFits(g, Q, g.level[q], g.lo[q], g.hi[q])
  BY PageFits DEF Q
<1> QED
  BY <1>1, <1>3, <1>4, <1>5, <1>6, <1>7, <1>8, <1>9, <1>10 DEF Q, Beside

\* The boundary between pages a and b moves to m.
Shifted(g, a, b, m) ==
    [at    |-> g.at,
     level |-> g.level,
     lo    |-> [p \in g.at |-> IF p = b THEN m ELSE g.lo[p]],
     hi    |-> [p \in g.at |-> IF p = a THEN m ELSE g.hi[p]]]

\* The layout after pages a and b moved the bound between them to m.
LEMMA ShiftedIs ==
    ASSUME NEW g, NEW a \in g.at, NEW b \in g.at, NEW m, NEW G, G = Shifted(g, a, b, m)
    PROVE  /\ G.at = g.at /\ G.level = g.level
           /\ \A p \in g.at : /\ G.lo[p] = IF p = b THEN m ELSE g.lo[p]
                              /\ G.hi[p] = IF p = a THEN m ELSE g.hi[p]
BY DEF Shifted

\* Moving a bound between neighbours keeps a layout.
LEMMA ShiftedLayout ==
    ASSUME NEW g, NEW root, NEW h, Layout(g, root, h),
           NEW a \in g.at, NEW b \in g.at, a # root, b # root, a # b,
           g.level[a] = g.level[b], g.hi[a] = g.lo[b],
           NEW m \in Int, g.lo[a] < m, m < g.hi[b]
    PROVE  Layout(Shifted(g, a, b, m), root, h)
<1>1. PICK G : G = Shifted(g, a, b, m)
  OBVIOUS
<1>2. /\ G.at = g.at /\ G.level = g.level
      /\ \A p \in g.at : /\ G.lo[p] = IF p = b THEN m ELSE g.lo[p]
                         /\ G.hi[p] = IF p = a THEN m ELSE g.hi[p]
  BY <1>1, ShiftedIs
<1>3. Bottom \in Int /\ Top \in Int
  BY KeyBounds
<1>4. \A p \in g.at : /\ g.level[p] \in 0..h /\ g.lo[p] \in Int /\ g.hi[p] \in Int
                      /\ Bottom <= g.lo[p] /\ g.lo[p] < g.hi[p] /\ g.hi[p] <= Top
  BY DEF Layout
<1>5. ASSUME NEW p \in G.at
      PROVE  /\ G.level[p] \in 0..h /\ G.lo[p] \in Int /\ G.hi[p] \in Int
             /\ Bottom <= G.lo[p] /\ G.lo[p] < G.hi[p] /\ G.hi[p] <= Top
  <2>1. CASE p = a
    BY <1>2, <1>3, <1>4, <2>1
  <2>2. CASE p = b
    BY <1>2, <1>3, <1>4, <2>2
  <2>3. CASE p # a /\ p # b
    BY <1>2, <1>4, <2>3
  <2> QED
    BY <2>1, <2>2, <2>3
<1>6. ASSUME NEW p \in G.at, NEW q \in G.at, p # q, G.level[p] = G.level[q]
      PROVE  G.hi[p] <= G.lo[q] \/ G.hi[q] <= G.lo[p]
  <2>1. G.hi[a] = m /\ G.lo[b] = m /\ G.lo[a] = g.lo[a] /\ G.hi[b] = g.hi[b]
    BY <1>2
  <2>2. ASSUME NEW x \in g.at, x # a, x # b, g.level[x] = g.level[a]
        PROVE  /\ G.hi[x] <= G.lo[a] \/ G.hi[a] <= G.lo[x]
               /\ G.hi[x] <= G.lo[b] \/ G.hi[b] <= G.lo[x]
    <3>1. /\ g.hi[x] <= g.lo[a] \/ g.hi[a] <= g.lo[x]
          /\ g.hi[x] <= g.lo[b] \/ g.hi[b] <= g.lo[x]
      BY <2>2 DEF Layout
    <3>2. G.lo[x] = g.lo[x] /\ G.hi[x] = g.hi[x]
      BY <1>2, <2>2
    <3>3. /\ g.lo[x] \in Int /\ g.hi[x] \in Int /\ g.lo[x] < g.hi[x] /\ g.lo[a] \in Int /\ g.hi[a] \in Int
          /\ g.lo[b] \in Int /\ g.hi[b] \in Int /\ g.lo[a] < g.hi[a] /\ g.lo[b] < g.hi[b]
      BY <1>4, <2>2
    <3>4. g.hi[x] <= g.lo[a] \/ g.hi[b] <= g.lo[x]
      BY <3>1, <3>3
    <3> QED
      BY <2>1, <3>2, <3>3, <3>4
  <2>3. G.hi[a] <= G.lo[b]
    BY <2>1
  <2>4. CASE p \notin {a, b} /\ q \notin {a, b}
    <3>1. g.hi[p] <= g.lo[q] \/ g.hi[q] <= g.lo[p]
      BY <1>2, <1>6, <2>4 DEF Layout
    <3> QED
      BY <1>2, <2>4, <3>1
  <2>5. CASE p \notin {a, b} /\ q \in {a, b}
    <3>1. p \in g.at /\ g.level[p] = g.level[a]
      BY <1>2, <1>6, <2>5
    <3> QED
      BY <2>2, <2>5, <3>1
  <2>6. CASE q \notin {a, b} /\ p \in {a, b}
    <3>1. q \in g.at /\ g.level[q] = g.level[a]
      BY <1>2, <1>6, <2>6
    <3> QED
      BY <2>2, <2>6, <3>1
  <2>7. CASE p \in {a, b} /\ q \in {a, b}
    BY <1>6, <2>3, <2>7
  <2> QED
    BY <2>4, <2>5, <2>6, <2>7
<1>7. /\ h \in Nat /\ root \in G.at /\ G.level[root] = h
      /\ G.lo[root] = Bottom /\ G.hi[root] = Top
  BY <1>2 DEF Layout
<1> QED
  BY <1>1, <1>5, <1>6, <1>7 DEF Layout

\* The parent of two neighbours gets the new separator.
LEMMA ParentOfShifted ==
    ASSUME NEW pg, NEW g, NEW root, NEW h, Shape(pg, g, root, h),
           NEW q \in g.at, g.level[q] # 0, NEW i \in 1..Len(pg[q].kids), i # Len(pg[q].kids),
           NEW a, a = pg[q].kids[i], NEW b, b = pg[q].kids[i + 1], NEW m \in Key
    PROVE  IndexFits(Shifted(g, a, b, m), Index(ReplaceAt(pg[q].keys, i, m), pg[q].kids),
                     g.level[q], g.lo[q], g.hi[q])
<1> DEFINE Q == pg[q]
           l == g.level[q]
           c == g.lo[q]
           d == g.hi[q]
<1>1. PICK G : G = Shifted(g, a, b, m)
  OBVIOUS
<1>2. /\ i \in 1..Len(Q.keys) /\ i + 1 \in 1..Len(Q.kids)
      /\ a \in g.at /\ b \in g.at /\ a # b
  <2>1. Beside(pg, g, root, h, q, i, a, b)
    BY Neighbours
  <2> QED
    BY <2>1 DEF Beside
<1>3. /\ G.at = g.at /\ G.level = g.level
      /\ \A p \in g.at : /\ G.lo[p] = IF p = b THEN m ELSE g.lo[p]
                         /\ G.hi[p] = IF p = a THEN m ELSE g.hi[p]
  BY <1>1, <1>2, ShiftedIs
<1>4. /\ IndexFits(g, Q, l, c, d) /\ Len(Q.keys) \in Nat /\ Len(Q.kids) = Len(Q.keys) + 1
      /\ \A x \in 1..Len(Q.kids) : /\ Q.kids[x] \in g.at /\ g.level[Q.kids[x]] = l - 1
                                   /\ g.lo[Q.kids[x]] = LowOf(Q, c, x) /\ g.hi[Q.kids[x]] = HighOf(Q, d, x)
  BY ChildIs
<1>5. Q.keys \in Seq(Key) /\ Q.kids \in Seq(g.at)
  BY <1>4 DEF IndexFits
<1>6. \A x \in 1..Len(Q.kids) : (Q.kids[x] = a <=> x = i) /\ (Q.kids[x] = b <=> x = i + 1)
  <2>1. \A x, y \in 1..Len(Q.kids) : Q.kids[x] = Q.kids[y] => x = y
    BY OneParent
  <2> QED
    BY <1>2, <2>1
<1>7. PICK P : P = Index(ReplaceAt(Q.keys, i, m), Q.kids)
  OBVIOUS
<1> HIDE DEF Q, l, c, d
<1>8. PICK N \in Nat : N = Len(Q.keys)
  BY <1>4
<1>9. i \in 1..N /\ Len(Q.kids) = N + 1
  BY <1>2, <1>4, <1>8
<1>10. /\ P.keys \in Seq(Key) /\ Len(P.keys) = N
       /\ \A x \in 1..N : P.keys[x] = IF x = i THEN m ELSE Q.keys[x]
  <2>1. P.keys = [Q.keys EXCEPT ![i] = m]
    BY <1>7 DEF Index, ReplaceAt
  <2> QED
    BY <1>5, <1>8, <1>9, <2>1, ExceptSeq
<1>11. P.kids = Q.kids /\ ~P.leaf
  BY <1>7 DEF Index
<1>12. ASSUME NEW x \in 1..(N + 1)
       PROVE  /\ G.level[P.kids[x]] = l - 1
              /\ G.lo[P.kids[x]] = LowOf(P, c, x)
              /\ G.hi[P.kids[x]] = HighOf(P, d, x)
  <2>1. /\ Q.kids[x] \in g.at /\ G.level[Q.kids[x]] = l - 1
        /\ g.lo[Q.kids[x]] = LowOf(Q, c, x) /\ g.hi[Q.kids[x]] = HighOf(Q, d, x)
    BY <1>3, <1>4, <1>9
  <2>2. G.lo[Q.kids[x]] = IF x = i + 1 THEN m ELSE LowOf(Q, c, x)
    BY <1>3, <1>6, <1>9, <2>1
  <2>3. G.hi[Q.kids[x]] = IF x = i THEN m ELSE HighOf(Q, d, x)
    BY <1>3, <1>6, <1>9, <2>1
  <2>4. LowOf(P, c, x) = IF x = i + 1 THEN m ELSE LowOf(Q, c, x)
    <3>1. x # 1 => x - 1 \in 1..N
      OBVIOUS
    <3> QED
      BY <1>9, <1>10, <3>1 DEF LowOf
  <2>5. HighOf(P, d, x) = IF x = i THEN m ELSE HighOf(Q, d, x)
    <3>1. x # N + 1 => x \in 1..N
      OBVIOUS
    <3> QED
      BY <1>9, <1>10, <1>11, <3>1 DEF HighOf
  <2> QED
    BY <1>11, <2>1, <2>2, <2>3, <2>4, <2>5
<1>13. IndexFits(G, P, l, c, d)
  <2>1. P.kids \in Seq(G.at) /\ Len(P.kids) = N + 1
    BY <1>3, <1>5, <1>9, <1>11
  <2> QED
    BY <1>10, <1>11, <1>12, <2>1, SMTT(20) DEF IndexFits
<1> QED
  BY <1>1, <1>7, <1>13 DEF Q, l, c, d

\* Pages pg with A and B for pages a and b, neighbours under page q, which meet at m now.
SharedUp(pg, g, root, h, q, i, a, b, m, A, B, new) ==
    /\ Shape(pg, g, root, h)
    /\ q \in g.at /\ g.level[q] # 0 /\ i \in 1..Len(pg[q].kids) /\ i # Len(pg[q].kids)
    /\ a = pg[q].kids[i] /\ b = pg[q].kids[i + 1]
    /\ m \in Key /\ g.lo[a] < m /\ m < g.hi[b]
    /\ Fits(g, A, g.level[a], g.lo[a], m) /\ Fits(g, B, g.level[a], m, g.hi[b])
    /\ g.level[a] = 0 => A.next = pg[a].next /\ B.next = pg[b].next
    /\ g.at \subseteq DOMAIN new
    /\ new[a] = A /\ new[b] = B /\ new[q] = Index(ReplaceAt(pg[q].keys, i, m), pg[q].kids)
    /\ \A p \in g.at \ {a, b, q} : new[p] = pg[p]

\* Two neighbours share out their keys anew, and their parent gets the new separator.
LEMMA ShiftShape ==
    ASSUME NEW pg, NEW g, NEW root, NEW h, NEW q, NEW i, NEW a, NEW b, NEW m, NEW A, NEW B, NEW new,
           SharedUp(pg, g, root, h, q, i, a, b, m, A, B, new)
    PROVE  Shape(new, Shifted(g, a, b, m), root, h)
<1>a. /\ Shape(pg, g, root, h)
      /\ q \in g.at /\ g.level[q] # 0 /\ i \in 1..Len(pg[q].kids) /\ i # Len(pg[q].kids)
      /\ a = pg[q].kids[i] /\ b = pg[q].kids[i + 1]
      /\ m \in Key /\ g.lo[a] < m /\ m < g.hi[b]
  BY DEF SharedUp
<1>b. Fits(g, A, g.level[a], g.lo[a], m) /\ Fits(g, B, g.level[a], m, g.hi[b])
  BY DEF SharedUp
<1>c. g.level[a] = 0 => A.next = pg[a].next /\ B.next = pg[b].next
  BY DEF SharedUp
<1>d. new[a] = A /\ new[b] = B /\ new[q] = Index(ReplaceAt(pg[q].keys, i, m), pg[q].kids)
  BY DEF SharedUp
<1>e. \A p \in g.at \ {a, b, q} : new[p] = pg[p]
  BY DEF SharedUp
<1>1. PICK G : G = Shifted(g, a, b, m)
  OBVIOUS
<1>2. /\ i \in 1..Len(pg[q].keys) /\ i + 1 \in 1..Len(pg[q].kids)
      /\ a \in g.at /\ b \in g.at /\ a # b /\ a # q /\ b # q /\ a # root /\ b # root
      /\ g.level[a] = g.level[q] - 1 /\ g.level[b] = g.level[q] - 1
      /\ g.level[a] \in 0..h /\ g.level[q] \in 1..h
      /\ g.hi[a] = g.lo[b]
      /\ g.lo[a] \in Int /\ g.hi[a] \in Int /\ g.hi[b] \in Int
      /\ g.lo[a] < g.hi[a] /\ g.lo[b] < g.hi[b]
  <2>1. Beside(pg, g, root, h, q, i, a, b)
    BY <1>a, Neighbours
  <2> QED
    BY <2>1 DEF Beside
<1>3. /\ G.at = g.at /\ G.level = g.level
      /\ \A p \in g.at : /\ G.lo[p] = IF p = b THEN m ELSE g.lo[p]
                         /\ G.hi[p] = IF p = a THEN m ELSE g.hi[p]
  BY <1>1, <1>2, ShiftedIs
<1>4. /\ Layout(g, root, h) /\ h \in Nat
      /\ \A p \in g.at : g.level[p] \in 0..h /\ g.lo[p] \in Int /\ g.hi[p] \in Int /\ g.hi[p] <= Top
      /\ \A p \in g.at : g.lo[p] < g.hi[p]
  BY <1>a DEF Shape, Layout
<1>5. m \in Int /\ m # Top
  BY <1>a, KeyBounds
<1>6. Layout(G, root, h)
  <2>1. g.level[a] = g.level[b]
    BY <1>2
  <2> QED
    BY <1>a, <1>1, <1>2, <1>4, <1>5, <2>1, ShiftedLayout
<1>7. ASSUME NEW P, NEW l \in 0..h, l # g.level[q], NEW c, NEW d, Fits(g, P, l, c, d)
      PROVE  Fits(G, P, l, c, d)
  <2>1. CASE l = 0
    BY <1>7, <2>1 DEF Fits
  <2>2. CASE l # 0
    <3>1. IndexFits(g, P, l, c, d)
      BY <1>7, <2>2 DEF Fits
    <3>2. ASSUME NEW j \in 1..Len(P.kids)
          PROVE  /\ P.kids[j] \in g.at /\ P.kids[j] # a /\ P.kids[j] # b
      <4>1. P.kids[j] \in g.at /\ g.level[P.kids[j]] = l - 1
        BY <3>1 DEF IndexFits
      <4>2. g.level[q] \in Int /\ l \in Int
        BY <1>a, <1>4
      <4>3. g.level[a] = g.level[q] - 1 /\ g.level[b] = g.level[q] - 1
        BY <1>2
      <4>4. g.level[P.kids[j]] # g.level[a] /\ g.level[P.kids[j]] # g.level[b]
        BY <1>7, <4>1, <4>2, <4>3
      <4> QED
        BY <4>1, <4>4
    <3>3. IndexFits(G, P, l, c, d)
      BY <1>3, <3>1, <3>2, SameChildren
    <3> QED
      BY <2>2, <3>3 DEF Fits
  <2> QED
    BY <2>1, <2>2
<1>8. ASSUME NEW p \in G.at
      PROVE  Fits(G, new[p], G.level[p], G.lo[p], G.hi[p])
  <2>0. g.level[a] \in 0..h /\ g.level[a] # g.level[q] /\ g.level[b] = g.level[a]
    BY <1>2
  <2>1. CASE p = b
    <3>1. Fits(G, B, g.level[a], m, g.hi[b])
      BY <1>b, <1>7, <2>0
    <3> QED
      BY <1>d, <1>2, <1>3, <2>0, <2>1, <3>1
  <2>2. CASE p = a
    <3>1. Fits(G, A, g.level[a], g.lo[a], m)
      BY <1>b, <1>7, <2>0
    <3> QED
      BY <1>d, <1>2, <1>3, <2>2, <3>1
  <2>3. CASE p = q
    <3>1. IndexFits(G, new[q], g.level[q], g.lo[q], g.hi[q])
      BY <1>a, <1>d, <1>1, ParentOfShifted
    <3>2. G.level[q] = g.level[q] /\ G.lo[q] = g.lo[q] /\ G.hi[q] = g.hi[q]
      BY <1>a, <1>2, <1>3
    <3> QED
      BY <1>a, <2>3, <3>1, <3>2 DEF Fits
  <2>4. CASE p \in g.at \ {a, b, q}
    <3>1. Fits(g, pg[p], g.level[p], g.lo[p], g.hi[p])
      BY <1>a, <2>4 DEF Shape
    <3>2. new[p] = pg[p] /\ G.level[p] = g.level[p] /\ G.lo[p] = g.lo[p] /\ G.hi[p] = g.hi[p]
      BY <1>e, <1>3, <2>4
    <3>3. CASE g.level[p] = 0
      BY <3>1, <3>2, <3>3 DEF Fits
    <3>4. CASE g.level[p] # 0
      <4>1. IndexFits(g, pg[p], g.level[p], g.lo[p], g.hi[p])
        BY <3>1, <3>4 DEF Fits
      <4>2. ASSUME NEW j \in 1..Len(pg[p].kids)
            PROVE  pg[p].kids[j] \in g.at /\ pg[p].kids[j] # a /\ pg[p].kids[j] # b
        <5>1. pg[p].kids[j] # pg[q].kids[i] /\ pg[p].kids[j] # pg[q].kids[i + 1]
          BY <1>a, <1>2, <2>4, <3>4, ChildElsewhere, SMTT(20)
        <5> QED
          BY <1>a, <4>1, <5>1 DEF IndexFits
      <4>3. IndexFits(G, pg[p], g.level[p], g.lo[p], g.hi[p])
        BY <1>3, <4>1, <4>2, SameChildren
      <4> QED
        BY <3>2, <3>4, <4>3 DEF Fits
    <3> QED
      BY <3>3, <3>4
  <2> QED
    BY <1>3, <2>1, <2>2, <2>3, <2>4
<1>9. ASSUME NEW p \in G.at, G.level[p] = 0
      PROVE  LinkFits(G, p, new[p].next)
  <2>1. p \in g.at /\ g.level[p] = 0
    BY <1>3, <1>9
  <2>2. LinkFits(g, p, pg[p].next)
    BY <1>a, <2>1 DEF Shape
  <2>3. CASE p = a
    <3>0. g.hi[a] < g.hi[b] /\ g.hi[b] <= Top /\ Top \in Int
      BY <1>2, <1>4, KeyBounds
    <3>1. new[p].next = pg[a].next /\ g.hi[a] # Top
      BY <1>c, <1>d, <1>2, <2>1, <2>3, <3>0, SMTT(20)
    <3>2. pg[a].next \in g.at /\ g.level[pg[a].next] = 0 /\ g.lo[pg[a].next] = g.hi[a]
      BY <2>2, <2>3, <3>1 DEF LinkFits
    <3>3. pg[a].next = b
      <4>1. PICK k \in Int : k = g.hi[a]
        BY <1>2
      <4>2. g.level[b] = 0
        BY <1>2, <2>1, <2>3
      <4>3. PICK c : c = pg[a].next
        OBVIOUS
      <4>4. c \in g.at /\ g.level[c] = 0 /\ g.lo[c] = k /\ g.lo[c] < g.hi[c]
        BY <1>4, <3>2, <4>1, <4>3
      <4>5. g.lo[b] <= k /\ k < g.hi[b] /\ g.lo[c] <= k /\ k < g.hi[c]
        BY <1>2, <4>1, <4>4
      <4> QED
        BY <1>2, <1>4, <4>1, <4>2, <4>3, <4>4, <4>5, OnePage
    <3> QED
      BY <1>a, <1>2, <1>3, <1>5, <2>1, <2>3, <3>1, <3>2, <3>3 DEF LinkFits
  <2>4. CASE p # a
    <3>1. new[p].next = pg[p].next /\ G.hi[p] = g.hi[p]
      <4>1. p # q
        BY <1>a, <2>1
      <4>2. p = b => g.level[a] = 0
        BY <1>2, <2>1
      <4>3. G.hi[p] = g.hi[p]
        BY <1>3, <2>1, <2>4
      <4>4. CASE p = b
        BY <1>c, <1>d, <4>2, <4>3, <4>4
      <4>5. CASE p # b
        <5>1. new[p] = pg[p]
          BY <1>e, <2>1, <2>4, <4>1, <4>5
        <5> QED
          BY <4>3, <5>1
      <4> QED
        BY <4>4, <4>5
    <3>2. CASE g.hi[p] = Top
      BY <2>2, <3>1, <3>2 DEF LinkFits
    <3>3. CASE g.hi[p] # Top
      <4>1. pg[p].next \in g.at /\ g.level[pg[p].next] = 0 /\ g.lo[pg[p].next] = g.hi[p]
        BY <2>2, <3>3 DEF LinkFits
      <4>2. pg[p].next # b
        <5> SUFFICES ASSUME pg[p].next = b
                     PROVE  FALSE
          OBVIOUS
        <5>1. g.level[a] = g.level[p] /\ g.hi[p] = g.hi[a]
          BY <1>2, <2>1, <4>1
        <5>2. g.hi[p] <= g.lo[a] \/ g.hi[a] <= g.lo[p]
          BY <1>2, <1>4, <2>1, <2>4, <5>1 DEF Layout
        <5>3. g.lo[p] \in Int /\ g.hi[p] \in Int /\ g.lo[p] < g.hi[p]
          BY <1>4, <2>1, SMTT(20)
        <5> QED
          BY <1>2, <5>1, <5>2, <5>3
      <4> QED
        BY <1>3, <3>1, <3>3, <4>1, <4>2 DEF LinkFits
    <3> QED
      BY <3>2, <3>3
  <2> QED
    BY <2>3, <2>4
<1>10. G.at \subseteq DOMAIN new
  BY <1>3 DEF SharedUp
<1> QED
  BY <1>1, <1>6, <1>8, <1>9, <1>10 DEF Shape

-----------------------------------------------------------------------------
(* Merging two neighbours *)

\* Page a takes over the keys of page b, which leaves the tree.
Joined(g, a, b) ==
    LET all == g.at \ {b}
    IN  [at    |-> all,
         level |-> [p \in all |-> g.level[p]],
         lo    |-> [p \in all |-> g.lo[p]],
         hi    |-> [p \in all |-> IF p = a THEN g.hi[b] ELSE g.hi[p]]]

\* The layout after page a took over page b.
LEMMA JoinedIs ==
    ASSUME NEW g, NEW a, NEW b, NEW G, G = Joined(g, a, b)
    PROVE  /\ G.at = g.at \ {b}
           /\ \A p \in g.at \ {b} : /\ G.level[p] = g.level[p] /\ G.lo[p] = g.lo[p]
                                    /\ G.hi[p] = IF p = a THEN g.hi[b] ELSE g.hi[p]
BY DEF Joined

\* Joining neighbours keeps a layout.
LEMMA JoinedLayout ==
    ASSUME NEW g, NEW root, NEW h, Layout(g, root, h),
           NEW a \in g.at, NEW b \in g.at, a # root, b # root, a # b,
           g.level[a] = g.level[b], g.hi[a] = g.lo[b]
    PROVE  Layout(Joined(g, a, b), root, h)
<1>1. PICK G : G = Joined(g, a, b)
  OBVIOUS
<1>2. /\ G.at = g.at \ {b}
      /\ \A p \in g.at \ {b} : /\ G.level[p] = g.level[p] /\ G.lo[p] = g.lo[p]
                               /\ G.hi[p] = IF p = a THEN g.hi[b] ELSE g.hi[p]
  BY <1>1, JoinedIs
<1>3. Bottom \in Int /\ Top \in Int
  BY KeyBounds
<1>4. \A p \in g.at : /\ g.level[p] \in 0..h /\ g.lo[p] \in Int /\ g.hi[p] \in Int
                      /\ Bottom <= g.lo[p] /\ g.lo[p] < g.hi[p] /\ g.hi[p] <= Top
  BY DEF Layout
<1>5. ASSUME NEW p \in G.at
      PROVE  /\ G.level[p] \in 0..h /\ G.lo[p] \in Int /\ G.hi[p] \in Int
             /\ Bottom <= G.lo[p] /\ G.lo[p] < G.hi[p] /\ G.hi[p] <= Top
  <2>1. CASE p = a
    <3>1. g.lo[a] < g.hi[a] /\ g.hi[a] < g.hi[b] /\ g.lo[a] \in Int /\ g.hi[b] \in Int /\ g.hi[a] \in Int
      BY <1>4
    <3> QED
      BY <1>2, <1>3, <1>4, <2>1, <3>1
  <2>2. CASE p # a
    BY <1>2, <1>4, <2>2
  <2> QED
    BY <2>1, <2>2
<1>6. ASSUME NEW p \in G.at, NEW q \in G.at, p # q, G.level[p] = G.level[q]
      PROVE  G.hi[p] <= G.lo[q] \/ G.hi[q] <= G.lo[p]
  <2>1. ASSUME NEW x \in g.at, x # a, x # b, g.level[x] = g.level[a]
        PROVE  G.hi[x] <= G.lo[a] \/ G.hi[a] <= G.lo[x]
    <3>1. /\ g.hi[x] <= g.lo[a] \/ g.hi[a] <= g.lo[x]
          /\ g.hi[x] <= g.lo[b] \/ g.hi[b] <= g.lo[x]
      BY <2>1 DEF Layout
    <3>2. G.lo[x] = g.lo[x] /\ G.hi[x] = g.hi[x] /\ G.lo[a] = g.lo[a] /\ G.hi[a] = g.hi[b]
      BY <1>2, <2>1
    <3>3. /\ g.lo[x] \in Int /\ g.hi[x] \in Int /\ g.lo[x] < g.hi[x] /\ g.lo[a] \in Int /\ g.hi[a] \in Int
          /\ g.lo[b] \in Int /\ g.hi[b] \in Int /\ g.lo[a] < g.hi[a] /\ g.lo[b] < g.hi[b]
      BY <1>4, <2>1
    <3> QED
      BY <3>1, <3>2, <3>3
  <2>2. CASE p # a /\ q # a
    <3>1. g.hi[p] <= g.lo[q] \/ g.hi[q] <= g.lo[p]
      BY <1>2, <1>6, <2>2 DEF Layout
    <3> QED
      BY <1>2, <2>2, <3>1
  <2>3. CASE p = a
    <3>1. q \in g.at /\ q # a /\ q # b /\ g.level[q] = g.level[a]
      BY <1>2, <1>6, <2>3
    <3> QED
      BY <2>1, <2>3, <3>1
  <2>4. CASE q = a
    <3>1. p \in g.at /\ p # a /\ p # b /\ g.level[p] = g.level[a]
      BY <1>2, <1>6, <2>4
    <3> QED
      BY <2>1, <2>4, <3>1
  <2> QED
    BY <2>2, <2>3, <2>4
<1>7. /\ h \in Nat /\ root \in G.at /\ G.level[root] = h
      /\ G.lo[root] = Bottom /\ G.hi[root] = Top
  BY <1>2 DEF Layout
<1> QED
  BY <1>1, <1>5, <1>6, <1>7 DEF Layout

\* The parent of two neighbours loses the separator and the right one.
LEMMA ParentOfJoined ==
    ASSUME NEW pg, NEW g, NEW root, NEW h, Shape(pg, g, root, h),
           NEW q \in g.at, g.level[q] # 0, NEW i \in 1..Len(pg[q].kids), i # Len(pg[q].kids),
           NEW a, a = pg[q].kids[i], NEW b, b = pg[q].kids[i + 1]
    PROVE  IndexFits(Joined(g, a, b), Index(RemoveAt(pg[q].keys, i), RemoveAt(pg[q].kids, i + 1)),
                     g.level[q], g.lo[q], g.hi[q])
<1> DEFINE Q == pg[q]
           l == g.level[q]
           c == g.lo[q]
           d == g.hi[q]
<1>1. PICK G : G = Joined(g, a, b)
  OBVIOUS
<1>2. /\ i \in 1..Len(Q.keys) /\ i + 1 \in 1..Len(Q.kids)
      /\ a \in g.at /\ b \in g.at /\ a # b
  <2>1. Beside(pg, g, root, h, q, i, a, b)
    BY Neighbours
  <2> QED
    BY <2>1 DEF Beside
<1>3. /\ G.at = g.at \ {b}
      /\ \A p \in g.at \ {b} : /\ G.level[p] = g.level[p] /\ G.lo[p] = g.lo[p]
                               /\ G.hi[p] = IF p = a THEN g.hi[b] ELSE g.hi[p]
  BY <1>1, JoinedIs
<1>4. /\ IndexFits(g, Q, l, c, d) /\ Len(Q.keys) \in Nat /\ Len(Q.kids) = Len(Q.keys) + 1
      /\ \A x \in 1..Len(Q.kids) : /\ Q.kids[x] \in g.at /\ g.level[Q.kids[x]] = l - 1
                                   /\ g.lo[Q.kids[x]] = LowOf(Q, c, x) /\ g.hi[Q.kids[x]] = HighOf(Q, d, x)
  BY ChildIs
<1>5. Q.keys \in Seq(Key) /\ Q.kids \in Seq(g.at)
  BY <1>4 DEF IndexFits
<1>6. \A x \in 1..Len(Q.kids) : (Q.kids[x] = a <=> x = i) /\ (Q.kids[x] = b <=> x = i + 1)
  <2>1. \A x, y \in 1..Len(Q.kids) : Q.kids[x] = Q.kids[y] => x = y
    BY OneParent
  <2> QED
    BY <1>2, <2>1
<1>7. PICK P : P = Index(RemoveAt(Q.keys, i), RemoveAt(Q.kids, i + 1))
  OBVIOUS
<1>8. Q.kids[i + 1] = b
  OBVIOUS
<1> HIDE DEF Q, l, c, d
<1>9. PICK N \in Nat : N = Len(Q.keys)
  BY <1>4
<1>10. i \in 1..N /\ Len(Q.kids) = N + 1 /\ i + 1 \in 1..(N + 1)
  BY <1>2, <1>4, <1>9
<1>11. /\ P.keys \in Seq(Key) /\ Len(P.keys) = N - 1
       /\ \A x \in 1..(N - 1) : P.keys[x] = IF x < i THEN Q.keys[x] ELSE Q.keys[x + 1]
  <2>1. P.keys = RemoveAt(Q.keys, i)
    BY <1>7 DEF Index
  <2> QED
    BY <1>5, <1>9, <1>10, <2>1, RemoveAtIs, ZenonT(30)
<1>12. /\ P.kids \in Seq(g.at) /\ Len(P.kids) = N
       /\ \A x \in 1..N : P.kids[x] = IF x < i + 1 THEN Q.kids[x] ELSE Q.kids[x + 1]
  <2>1. P.kids = RemoveAt(Q.kids, i + 1)
    BY <1>7 DEF Index
  <2>2. PICK j : j = i + 1
    OBVIOUS
  <2>3. j \in 1..Len(Q.kids) /\ Len(Q.kids) - 1 = N
    BY <1>10, <2>2
  <2>4. /\ RemoveAt(Q.kids, j) \in Seq(g.at) /\ Len(RemoveAt(Q.kids, j)) = Len(Q.kids) - 1
        /\ \A x \in 1..(Len(Q.kids) - 1) : RemoveAt(Q.kids, j)[x] = IF x < j THEN Q.kids[x] ELSE Q.kids[x + 1]
    BY <1>5, <2>3, RemoveAtIs
  <2> QED
    BY <2>1, <2>2, <2>3, <2>4
<1>13. ~P.leaf
  BY <1>7 DEF Index
<1>14. ASSUME NEW x \in 1..N
       PROVE  /\ P.kids[x] \in G.at /\ G.level[P.kids[x]] = l - 1
              /\ G.lo[P.kids[x]] = LowOf(P, c, x)
              /\ G.hi[P.kids[x]] = HighOf(P, d, x)
  <2>0. x \in 1..(N + 1) /\ x + 1 \in 1..(N + 1) /\ x + 1 # 1 /\ (x + 1) - 1 = x
    OBVIOUS
  <2>1. CASE x < i
    <3>1. P.kids[x] = Q.kids[x] /\ x # i /\ x # i + 1 /\ x < i + 1 /\ x # N /\ x # N + 1 /\ x \in 1..(N - 1)
      BY <1>10, <1>12, <2>1
    <3>2. /\ Q.kids[x] \in G.at /\ G.level[Q.kids[x]] = l - 1
          /\ G.lo[Q.kids[x]] = LowOf(Q, c, x) /\ G.hi[Q.kids[x]] = HighOf(Q, d, x)
      BY <1>3, <1>4, <1>6, <1>10, <2>0, <3>1, ZenonT(30)
    <3>3. P.keys[x] = Q.keys[x] /\ (x # 1 => P.keys[x - 1] = Q.keys[x - 1])
      <4>1. x # 1 => x - 1 \in 1..(N - 1) /\ x - 1 < i
        BY <2>1, <3>1
      <4> QED
        BY <1>11, <2>1, <3>1, <4>1
    <3> QED
      BY <1>10, <1>12, <3>1, <3>2, <3>3 DEF LowOf, HighOf
  <2>2. CASE x = i
    <3>1. P.kids[x] = a /\ P.kids[x] = Q.kids[x] /\ a # b
      BY <1>2, <1>6, <1>10, <1>12, <2>0, <2>2
    <3>2. /\ P.kids[x] \in G.at /\ G.level[P.kids[x]] = l - 1
          /\ G.lo[P.kids[x]] = LowOf(Q, c, x) /\ G.hi[P.kids[x]] = g.hi[b]
      <4>1. g.level[Q.kids[x]] = l - 1 /\ g.lo[Q.kids[x]] = LowOf(Q, c, x)
        BY <1>4, <1>10, <2>0
      <4> QED
        BY <1>2, <1>3, <3>1, <4>1
    <3>3. g.hi[b] = HighOf(Q, d, x + 1)
      BY <1>4, <1>8, <1>10, <2>0, <2>2
    <3>4. x # 1 => P.keys[x - 1] = Q.keys[x - 1]
      <4>1. x # 1 => x - 1 \in 1..(N - 1) /\ x - 1 < i
        BY <2>2
      <4> QED
        BY <1>11, <4>1
    <3>5. x # N => P.keys[x] = Q.keys[x + 1] /\ x + 1 # N + 1
      <4>1. x # N => x \in 1..(N - 1) /\ ~(x < i)
        BY <2>2
      <4> QED
        BY <1>11, <4>1
    <3> QED
      BY <1>10, <1>12, <3>2, <3>3, <3>4, <3>5 DEF LowOf, HighOf
  <2>3. CASE i < x
    <3>1. P.kids[x] = Q.kids[x + 1] /\ x + 1 # i /\ x + 1 # i + 1 /\ ~(x < i + 1) /\ x # 1 /\ x - 1 \in 1..(N - 1) /\ ~(x - 1 < i)
      BY <1>10, <1>12, <2>3, SMTT(20)
    <3>2. /\ Q.kids[x + 1] \in G.at /\ G.level[Q.kids[x + 1]] = l - 1
          /\ G.lo[Q.kids[x + 1]] = LowOf(Q, c, x + 1) /\ G.hi[Q.kids[x + 1]] = HighOf(Q, d, x + 1)
      BY <1>3, <1>4, <1>6, <1>10, <2>0, <3>1, ZenonT(30)
    <3>3. P.keys[x - 1] = Q.keys[x]
      BY <1>11, <3>1
    <3>4. x # N => P.keys[x] = Q.keys[x + 1] /\ x + 1 # N + 1
      <4>1. x # N => x \in 1..(N - 1) /\ ~(x < i)
        BY <2>3
      <4> QED
        BY <1>11, <4>1
    <3> QED
      BY <1>10, <1>12, <2>0, <3>1, <3>2, <3>3, <3>4 DEF LowOf, HighOf
  <2> QED
    BY <1>10, <2>1, <2>2, <2>3
<1>15. IndexFits(G, P, l, c, d)
  <2>1. P.kids \in Seq(G.at)
    BY <1>12, <1>14, SMTT(20)
  <2> QED
    BY <1>11, <1>12, <1>13, <1>14, <2>1 DEF IndexFits
<1> QED
  BY <1>1, <1>7, <1>15 DEF Q, l, c, d

\* Pages pg with A, which has all keys of pages a and b, for page a.
MergedUp(pg, g, root, h, q, i, a, b, A, new) ==
    /\ Shape(pg, g, root, h)
    /\ q \in g.at /\ g.level[q] # 0 /\ i \in 1..Len(pg[q].kids) /\ i # Len(pg[q].kids)
    /\ a = pg[q].kids[i] /\ b = pg[q].kids[i + 1]
    /\ Fits(g, A, g.level[a], g.lo[a], g.hi[b])
    /\ g.level[a] = 0 => A.next = pg[b].next
    /\ g.at \subseteq DOMAIN new
    /\ new[a] = A /\ new[q] = Index(RemoveAt(pg[q].keys, i), RemoveAt(pg[q].kids, i + 1))
    /\ \A p \in g.at \ {a, b, q} : new[p] = pg[p]

\* Two neighbours become one, and their parent loses the separator between them.
LEMMA MergeShape ==
    ASSUME NEW pg, NEW g, NEW root, NEW h, NEW q, NEW i, NEW a, NEW b, NEW A, NEW new,
           MergedUp(pg, g, root, h, q, i, a, b, A, new)
    PROVE  Shape(new, Joined(g, a, b), root, h)
<1>a. /\ Shape(pg, g, root, h)
      /\ q \in g.at /\ g.level[q] # 0 /\ i \in 1..Len(pg[q].kids) /\ i # Len(pg[q].kids)
      /\ a = pg[q].kids[i] /\ b = pg[q].kids[i + 1]
  BY DEF MergedUp
<1>b. Fits(g, A, g.level[a], g.lo[a], g.hi[b])
  BY DEF MergedUp
<1>c. g.level[a] = 0 => A.next = pg[b].next
  BY DEF MergedUp
<1>d. new[a] = A /\ new[q] = Index(RemoveAt(pg[q].keys, i), RemoveAt(pg[q].kids, i + 1))
  BY DEF MergedUp
<1>e. \A p \in g.at \ {a, b, q} : new[p] = pg[p]
  BY DEF MergedUp
<1>1. PICK G : G = Joined(g, a, b)
  OBVIOUS
<1>2. /\ i \in 1..Len(pg[q].keys) /\ i + 1 \in 1..Len(pg[q].kids)
      /\ a \in g.at /\ b \in g.at /\ a # b /\ a # q /\ b # q /\ a # root /\ b # root
      /\ g.level[a] = g.level[q] - 1 /\ g.level[b] = g.level[q] - 1
      /\ g.level[a] \in 0..h /\ g.level[q] \in 1..h
      /\ g.hi[a] = g.lo[b]
      /\ g.lo[a] \in Int /\ g.hi[a] \in Int /\ g.hi[b] \in Int
      /\ g.lo[a] < g.hi[a] /\ g.lo[b] < g.hi[b]
  <2>1. Beside(pg, g, root, h, q, i, a, b)
    BY <1>a, Neighbours
  <2> QED
    BY <2>1 DEF Beside
<1>3. /\ G.at = g.at \ {b}
      /\ \A p \in g.at \ {b} : /\ G.level[p] = g.level[p] /\ G.lo[p] = g.lo[p]
                               /\ G.hi[p] = IF p = a THEN g.hi[b] ELSE g.hi[p]
  BY <1>1, JoinedIs
<1>4. /\ Layout(g, root, h) /\ h \in Nat
      /\ \A p \in g.at : g.level[p] \in 0..h /\ g.lo[p] \in Int /\ g.hi[p] \in Int /\ g.hi[p] <= Top
      /\ \A p \in g.at : g.lo[p] < g.hi[p]
  BY <1>a DEF Shape, Layout
<1>6. Layout(G, root, h)
  <2>1. g.level[a] = g.level[b]
    BY <1>2
  <2> QED
    BY <1>1, <1>2, <1>4, <2>1, JoinedLayout
<1>7. ASSUME NEW P, NEW l \in 0..h, l # g.level[q], NEW c, NEW d, Fits(g, P, l, c, d)
      PROVE  Fits(G, P, l, c, d)
  <2>1. CASE l = 0
    BY <1>7, <2>1 DEF Fits
  <2>2. CASE l # 0
    <3>1. IndexFits(g, P, l, c, d)
      BY <1>7, <2>2 DEF Fits
    <3>2. ASSUME NEW j \in 1..Len(P.kids)
          PROVE  /\ P.kids[j] \in g.at /\ P.kids[j] # a /\ P.kids[j] # b
      <4>1. P.kids[j] \in g.at /\ g.level[P.kids[j]] = l - 1
        BY <3>1 DEF IndexFits
      <4>2. g.level[q] \in Int /\ l \in Int
        BY <1>a, <1>4
      <4>3. g.level[a] = g.level[q] - 1 /\ g.level[b] = g.level[q] - 1
        BY <1>2
      <4>4. g.level[P.kids[j]] # g.level[a] /\ g.level[P.kids[j]] # g.level[b]
        BY <1>7, <4>1, <4>2, <4>3
      <4> QED
        BY <4>1, <4>4
    <3>3. IndexFits(G, P, l, c, d)
      BY <1>3, <3>1, <3>2, SameChildren
    <3> QED
      BY <2>2, <3>3 DEF Fits
  <2> QED
    BY <2>1, <2>2
<1>8. ASSUME NEW p \in G.at
      PROVE  Fits(G, new[p], G.level[p], G.lo[p], G.hi[p])
  <2>1. CASE p = a
    <3>1. Fits(G, A, g.level[a], g.lo[a], g.hi[b])
      <4>1. g.level[a] \in 0..h /\ g.level[a] # g.level[q]
        BY <1>2
      <4> QED
        BY <1>b, <1>7, <4>1
    <3> QED
      BY <1>d, <1>2, <1>3, <2>1, <3>1
  <2>2. CASE p = q
    <3>1. IndexFits(G, new[q], g.level[q], g.lo[q], g.hi[q])
      BY <1>a, <1>d, <1>1, ParentOfJoined
    <3>2. G.level[q] = g.level[q] /\ G.lo[q] = g.lo[q] /\ G.hi[q] = g.hi[q]
      BY <1>a, <1>2, <1>3
    <3> QED
      BY <1>a, <2>2, <3>1, <3>2 DEF Fits
  <2>3. CASE p \in g.at \ {a, b, q}
    <3>1. Fits(g, pg[p], g.level[p], g.lo[p], g.hi[p])
      BY <1>a, <2>3 DEF Shape
    <3>2. new[p] = pg[p] /\ G.level[p] = g.level[p] /\ G.lo[p] = g.lo[p] /\ G.hi[p] = g.hi[p]
      BY <1>e, <1>3, <2>3
    <3>3. CASE g.level[p] = 0
      BY <3>1, <3>2, <3>3 DEF Fits
    <3>4. CASE g.level[p] # 0
      <4>1. IndexFits(g, pg[p], g.level[p], g.lo[p], g.hi[p])
        BY <3>1, <3>4 DEF Fits
      <4>2. ASSUME NEW j \in 1..Len(pg[p].kids)
            PROVE  pg[p].kids[j] \in g.at /\ pg[p].kids[j] # a /\ pg[p].kids[j] # b
        <5>1. pg[p].kids[j] # pg[q].kids[i] /\ pg[p].kids[j] # pg[q].kids[i + 1]
          BY <1>a, <1>2, <2>3, <3>4, ChildElsewhere, SMTT(20)
        <5> QED
          BY <1>a, <4>1, <5>1 DEF IndexFits
      <4>3. IndexFits(G, pg[p], g.level[p], g.lo[p], g.hi[p])
        BY <1>3, <4>1, <4>2, SameChildren
      <4> QED
        BY <3>2, <3>4, <4>3 DEF Fits
    <3> QED
      BY <3>3, <3>4
  <2> QED
    BY <1>3, <2>1, <2>2, <2>3
<1>9. ASSUME NEW p \in G.at, G.level[p] = 0
      PROVE  LinkFits(G, p, new[p].next)
  <2>1. p \in g.at /\ p # b /\ g.level[p] = 0
    BY <1>3, <1>9
  <2>2. CASE p = a
    <3>1. g.level[b] = 0
      BY <1>2, <2>1, <2>2
    <3>2. LinkFits(g, b, pg[b].next)
      BY <1>a, <1>2, <3>1 DEF Shape
    <3>3. new[p].next = pg[b].next /\ G.hi[p] = g.hi[b]
      BY <1>c, <1>d, <1>2, <1>3, <2>1, <2>2
    <3>4. g.hi[b] # Top => pg[b].next \in g.at \ {b} /\ g.level[pg[b].next] = 0 /\ g.lo[pg[b].next] = g.hi[b]
      BY <1>2, <1>4, <3>2 DEF LinkFits
    <3>5. CASE g.hi[b] = Top
      BY <3>2, <3>3, <3>5 DEF LinkFits
    <3>6. CASE g.hi[b] # Top
      BY <1>3, <3>3, <3>4, <3>6 DEF LinkFits
    <3> QED
      BY <3>5, <3>6
  <2>3. CASE p # a
    <3>1. new[p].next = pg[p].next /\ G.hi[p] = g.hi[p]
      <4>1. p # q
        BY <1>a, <2>1
      <4> QED
        BY <1>e, <1>3, <2>1, <2>3, <4>1
    <3>2. LinkFits(g, p, pg[p].next)
      BY <1>a, <2>1 DEF Shape
    <3>3. CASE g.hi[p] = Top
      BY <3>1, <3>2, <3>3 DEF LinkFits
    <3>4. CASE g.hi[p] # Top
      <4>1. pg[p].next \in g.at /\ g.level[pg[p].next] = 0 /\ g.lo[pg[p].next] = g.hi[p]
        BY <3>2, <3>4 DEF LinkFits
      <4>2. pg[p].next # b
        <5> SUFFICES ASSUME pg[p].next = b
                     PROVE  FALSE
          OBVIOUS
        <5>1. g.level[a] = g.level[p] /\ g.hi[p] = g.hi[a]
          BY <1>2, <2>1, <4>1
        <5>2. g.hi[p] <= g.lo[a] \/ g.hi[a] <= g.lo[p]
          BY <1>2, <1>4, <2>1, <2>3, <5>1 DEF Layout
        <5>3. g.lo[p] \in Int /\ g.hi[p] \in Int /\ g.lo[p] < g.hi[p]
          BY <1>4, <2>1
        <5> QED
          BY <1>2, <5>1, <5>2, <5>3
      <4> QED
        BY <1>3, <3>1, <3>4, <4>1, <4>2 DEF LinkFits
    <3> QED
      BY <3>3, <3>4
  <2> QED
    BY <2>2, <2>3
<1>10. G.at \subseteq DOMAIN new
  BY <1>3 DEF MergedUp
<1> QED
  BY <1>1, <1>6, <1>8, <1>9, <1>10, Zenon DEF Shape

-----------------------------------------------------------------------------
(* Index pages cut in two and put together *)

\* An index page is cut at separator c + 1: what is left of it, and what is right.
LEMMA CutIndex ==
    ASSUME NEW g, NEW p, NEW l, NEW a, NEW b, IndexFits(g, p, l, a, b), NEW c \in 0..(Len(p.keys) - 1)
    PROVE  /\ IndexFits(g, Index(SubSeq(p.keys, 1, c), SubSeq(p.kids, 1, c + 1)), l, a, p.keys[c + 1])
           /\ IndexFits(g, Index(SubSeq(p.keys, c + 2, Len(p.keys)), SubSeq(p.kids, c + 2, Len(p.kids))),
                        l, p.keys[c + 1], b)
           /\ Len(SubSeq(p.keys, 1, c)) = c
           /\ Len(SubSeq(p.keys, c + 2, Len(p.keys))) = Len(p.keys) - c - 1
<1>1. PICK N \in Nat : N = Len(p.keys)
  BY DEF IndexFits
<1>2. /\ p.keys \in Seq(Key) /\ p.kids \in Seq(g.at) /\ Len(p.kids) = N + 1 /\ c \in 0..(N - 1)
      /\ \A x \in 1..(N + 1) : /\ g.level[p.kids[x]] = l - 1
                               /\ g.lo[p.kids[x]] = LowOf(p, a, x)
                               /\ g.hi[p.kids[x]] = HighOf(p, b, x)
  BY <1>1 DEF IndexFits
<1>3. (\A x \in 1..N : p.keys[x] \in Key) /\ (\A x \in 1..(N + 1) : p.kids[x] \in g.at)
  BY <1>1, <1>2
<1>4. PICK A, B : /\ A = Index(SubSeq(p.keys, 1, c), SubSeq(p.kids, 1, c + 1))
                  /\ B = Index(SubSeq(p.keys, c + 2, N), SubSeq(p.kids, c + 2, N + 1))
  OBVIOUS
<1>5. /\ ~A.leaf /\ A.keys = SubSeq(p.keys, 1, c) /\ A.kids = SubSeq(p.kids, 1, c + 1)
      /\ ~B.leaf /\ B.keys = SubSeq(p.keys, c + 2, N) /\ B.kids = SubSeq(p.kids, c + 2, N + 1)
  BY <1>4 DEF Index
<1>6. A.keys \in Seq(Key) /\ Len(A.keys) = c /\ \A x \in 1..c : A.keys[x] = p.keys[x]
  <2>1. \A x \in 1..c : p.keys[x] \in Key
    BY <1>2, <1>3
  <2>2. c \in Nat /\ \A x \in 1..c : 1 + x - 1 = x
    BY <1>2
  <2>3. A.keys \in Seq(Key) /\ Len(A.keys) = IF 1 <= c THEN c - 1 + 1 ELSE 0
    BY <1>5, <2>1, <2>2, SubSeqProperties
  <2>4. \A x \in 1..(c - 1 + 1) : A.keys[x] = p.keys[1 + x - 1]
    BY <1>5, <2>1, <2>2, SubSeqProperties
  <2> QED
    BY <2>2, <2>3, <2>4
<1>7. A.kids \in Seq(g.at) /\ Len(A.kids) = c + 1 /\ \A x \in 1..(c + 1) : A.kids[x] = p.kids[x]
  <2>0. PICK e \in Nat : e = c + 1
    BY <1>2
  <2>1. p.kids \in Seq(g.at) /\ 1 \in 1..(Len(p.kids) + 1) /\ e \in (1 - 1)..Len(p.kids)
    BY <1>2, <2>0
  <2>2. PICK z : z = SubSeq(p.kids, 1, e)
    OBVIOUS
  <2>3. z \in Seq(g.at) /\ Len(z) = e - 1 + 1
    BY <2>1, <2>2, SliceIs
  <2>4. \A x \in 1..(e - 1 + 1) : z[x] = p.kids[1 + x - 1]
    BY <2>1, <2>2, SliceIs
  <2>5. A.kids = z
    BY <1>5, <2>0, <2>2
  <2> QED
    BY <1>2, <2>0, <2>3, <2>4, <2>5
<1>8. B.keys \in Seq(Key) /\ Len(B.keys) = N - c - 1 /\ \A x \in 1..(N - c - 1) : B.keys[x] = p.keys[c + 1 + x]
  <2>0. PICK e \in Nat : e = c + 2
    BY <1>2
  <2>1. \A x \in e..N : p.keys[x] \in Key
    BY <1>2, <1>3, <2>0
  <2>a. PICK z : z = SubSeq(p.keys, e, N)
    OBVIOUS
  <2>b. B.keys = z
    BY <1>5, <2>0, <2>a
  <2>2. z \in Seq(Key) /\ Len(z) = IF e <= N THEN N - e + 1 ELSE 0
    BY <2>1, <2>a, SubSeqProperties
  <2>3. \A x \in 1..(N - e + 1) : z[x] = p.keys[e + x - 1]
    BY <2>1, <2>a, SubSeqProperties
  <2>4. Len(z) = N - c - 1
    BY <1>2, <2>0, <2>2
  <2>5. N - e + 1 = N - c - 1 /\ \A x \in 1..(N - c - 1) : e + x - 1 = c + 1 + x
    BY <1>2, <2>0
  <2> QED
    BY <2>b, <2>2, <2>3, <2>4, <2>5
<1>9. B.kids \in Seq(g.at) /\ Len(B.kids) = N - c /\ \A x \in 1..(N - c) : B.kids[x] = p.kids[c + 1 + x]
  <2>0. PICK e, M \in Nat : e = c + 2 /\ M = N + 1
    BY <1>2
  <2>1. p.kids \in Seq(g.at) /\ e \in 1..(Len(p.kids) + 1) /\ M \in (e - 1)..Len(p.kids)
    BY <1>2, <2>0
  <2>a. PICK z : z = SubSeq(p.kids, e, M)
    OBVIOUS
  <2>b. B.kids = z
    BY <1>5, <2>0, <2>a
  <2>2. z \in Seq(g.at) /\ Len(z) = M - e + 1
    BY <2>1, <2>a, SliceIs
  <2>3. \A x \in 1..(M - e + 1) : z[x] = p.kids[e + x - 1]
    BY <2>1, <2>a, SliceIs
  <2>4. Len(z) = N - c
    BY <1>2, <2>0, <2>2
  <2>5. M - e + 1 = N - c /\ \A x \in 1..(N - c) : e + x - 1 = c + 1 + x
    BY <1>2, <2>0
  <2> QED
    BY <2>b, <2>2, <2>3, <2>4, <2>5
<1>10. IndexFits(g, A, l, a, p.keys[c + 1])
  <2> SUFFICES ASSUME NEW x \in 1..(c + 1)
               PROVE  /\ g.level[A.kids[x]] = l - 1
                      /\ g.lo[A.kids[x]] = LowOf(A, a, x)
                      /\ g.hi[A.kids[x]] = HighOf(A, p.keys[c + 1], x)
    BY <1>5, <1>6, <1>7 DEF IndexFits
  <2>1. x \in 1..(N + 1) /\ x # N + 1 /\ A.kids[x] = p.kids[x]
    BY <1>2, <1>7
  <2>2. x # 1 => x - 1 \in 1..c
    OBVIOUS
  <2>3. LowOf(A, a, x) = LowOf(p, a, x)
    BY <1>6, <2>2 DEF LowOf
  <2>4. HighOf(A, p.keys[c + 1], x) = HighOf(p, b, x)
    BY <1>2, <1>6, <1>7, <2>1 DEF HighOf
  <2> QED
    BY <1>2, <2>1, <2>3, <2>4
<1>11. IndexFits(g, B, l, p.keys[c + 1], b)
  <2>1. Len(B.kids) = Len(B.keys) + 1
    BY <1>2, <1>8, <1>9
  <2> SUFFICES ASSUME NEW x \in 1..(N - c)
               PROVE  /\ g.level[B.kids[x]] = l - 1
                      /\ g.lo[B.kids[x]] = LowOf(B, p.keys[c + 1], x)
                      /\ g.hi[B.kids[x]] = HighOf(B, b, x)
    BY <1>5, <1>8, <1>9, <2>1 DEF IndexFits
  <2>2. PICK y : y = c + 1 + x
    OBVIOUS
  <2>3. y \in 1..(N + 1) /\ y # 1 /\ B.kids[x] = p.kids[y] /\ (y = N + 1 <=> x = N - c) /\ y - 1 = c + x
    BY <1>2, <1>9, <2>2
  <2>4. LowOf(B, p.keys[c + 1], x) = LowOf(p, a, y)
    <3>1. x # 1 => x - 1 \in 1..(N - c - 1) /\ c + 1 + (x - 1) = c + x
      BY <1>2, SMTT(20)
    <3> QED
      BY <1>8, <2>3, <3>1 DEF LowOf
  <2>5. HighOf(B, b, x) = HighOf(p, b, y)
    <3>1. x # N - c => x \in 1..(N - c - 1)
      BY <1>2
    <3> QED
      BY <1>2, <1>8, <1>9, <2>2, <2>3, <3>1 DEF HighOf
  <2> QED
    BY <1>2, <2>3, <2>4, <2>5
<1> QED
  BY <1>1, <1>2, <1>4, <1>5, <1>6, <1>8, <1>10, <1>11

\* Two index pages with a separator between them make one.
LEMMA GlueIndex ==
    ASSUME NEW g, NEW p, NEW r, NEW l, NEW a, NEW m \in Key, NEW b,
           IndexFits(g, p, l, a, m), IndexFits(g, r, l, m, b)
    PROVE  /\ IndexFits(g, Index(p.keys \o <<m>> \o r.keys, p.kids \o r.kids), l, a, b)
           /\ Len(p.keys \o <<m>> \o r.keys) = Len(p.keys) + 1 + Len(r.keys)
<1>1. PICK N, M \in Nat : N = Len(p.keys) /\ M = Len(r.keys)
  BY DEF IndexFits
<1>2. /\ p.keys \in Seq(Key) /\ p.kids \in Seq(g.at) /\ Len(p.kids) = N + 1
      /\ \A x \in 1..(N + 1) : /\ g.level[p.kids[x]] = l - 1
                               /\ g.lo[p.kids[x]] = LowOf(p, a, x)
                               /\ g.hi[p.kids[x]] = HighOf(p, m, x)
  BY <1>1 DEF IndexFits
<1>3. /\ r.keys \in Seq(Key) /\ r.kids \in Seq(g.at) /\ Len(r.kids) = M + 1
      /\ \A x \in 1..(M + 1) : /\ g.level[r.kids[x]] = l - 1
                               /\ g.lo[r.kids[x]] = LowOf(r, m, x)
                               /\ g.hi[r.kids[x]] = HighOf(r, b, x)
  BY <1>1 DEF IndexFits
<1>4. PICK A : A = Index(p.keys \o <<m>> \o r.keys, p.kids \o r.kids)
  OBVIOUS
<1>5. ~A.leaf /\ A.keys = (p.keys \o <<m>>) \o r.keys /\ A.kids = p.kids \o r.kids
  BY <1>4 DEF Index
<1>6. PICK u : u = p.keys \o <<m>>
  OBVIOUS
<1>7. u \in Seq(Key) /\ Len(u) = N + 1 /\ \A x \in 1..(N + 1) : u[x] = IF x <= N THEN p.keys[x] ELSE m
  <2>1. <<m>> \in Seq(Key) /\ Len(<<m>>) = 1 /\ <<m>>[1] = m
    OBVIOUS
  <2>2. /\ u \in Seq(Key) /\ Len(u) = N + 1
        /\ \A x \in 1..(N + 1) : u[x] = IF x <= N THEN p.keys[x] ELSE <<m>>[x - N]
    BY <1>1, <1>2, <1>6, <2>1, ConcatProperties
  <2>3. \A x \in 1..(N + 1) : ~(x <= N) => x - N = 1
    OBVIOUS
  <2> QED
    BY <2>1, <2>2, <2>3
<1>8. /\ A.keys \in Seq(Key) /\ Len(A.keys) = N + 1 + M
      /\ \A x \in 1..(N + 1 + M) : A.keys[x] = IF x <= N THEN p.keys[x] ELSE IF x = N + 1 THEN m ELSE r.keys[x - (N + 1)]
  <2>1. PICK z : z = u \o r.keys
    OBVIOUS
  <2>2. /\ z \in Seq(Key) /\ Len(z) = Len(u) + Len(r.keys)
        /\ \A x \in 1..Len(u) + Len(r.keys) : z[x] = IF x <= Len(u) THEN u[x] ELSE r.keys[x - Len(u)]
    BY <1>3, <1>7, <2>1, ConcatProperties
  <2>3. A.keys = z /\ Len(u) = N + 1 /\ Len(r.keys) = M
    BY <1>1, <1>5, <1>6, <1>7, <2>1
  <2> QED
    BY <1>7, <2>2, <2>3
<1>9. /\ A.kids \in Seq(g.at) /\ Len(A.kids) = N + M + 2
      /\ \A x \in 1..(N + M + 2) : A.kids[x] = IF x <= N + 1 THEN p.kids[x] ELSE r.kids[x - (N + 1)]
  <2>1. PICK z : z = p.kids \o r.kids
    OBVIOUS
  <2>2. p.kids \in Seq(g.at) /\ r.kids \in Seq(g.at)
    BY <1>2, <1>3
  <2>3. /\ z \in Seq(g.at) /\ Len(z) = Len(p.kids) + Len(r.kids)
        /\ \A x \in 1..Len(p.kids) + Len(r.kids) : z[x] = IF x <= Len(p.kids) THEN p.kids[x] ELSE r.kids[x - Len(p.kids)]
    BY <2>1, <2>2, ConcatProperties
  <2>4. A.kids = z /\ Len(p.kids) = N + 1 /\ Len(p.kids) + Len(r.kids) = N + M + 2
    BY <1>2, <1>3, <1>5, <2>1
  <2> QED
    BY <2>3, <2>4
<1>10. ASSUME NEW x \in 1..(N + M + 2)
       PROVE  /\ g.level[A.kids[x]] = l - 1
              /\ g.lo[A.kids[x]] = LowOf(A, a, x)
              /\ g.hi[A.kids[x]] = HighOf(A, b, x)
  <2>1. CASE x <= N + 1
    <3>1. x \in 1..(N + 1) /\ x # N + M + 2 /\ A.kids[x] = p.kids[x]
      BY <1>9, <2>1
    <3>2. LowOf(A, a, x) = LowOf(p, a, x)
      <4>1. x # 1 => x - 1 \in 1..(N + 1 + M) /\ x - 1 <= N
        BY <2>1
      <4> QED
        BY <1>8, <4>1 DEF LowOf
    <3>3. HighOf(A, b, x) = HighOf(p, m, x)
      <4>1. x \in 1..(N + 1 + M) /\ (x # N + 1 => x <= N)
        BY <3>1
      <4> QED
        BY <1>2, <1>8, <1>9, <3>1, <4>1 DEF HighOf
    <3> QED
      BY <1>2, <3>1, <3>2, <3>3
  <2>2. CASE ~(x <= N + 1)
    <3>1. PICK y : y = x - (N + 1)
      OBVIOUS
    <3>2. y \in 1..(M + 1) /\ A.kids[x] = r.kids[y] /\ (y = M + 1 <=> x = N + M + 2) /\ x # 1
      BY <1>9, <2>2, <3>1
    <3>3. LowOf(A, a, x) = LowOf(r, m, y)
      <4>1. x - 1 \in 1..(N + 1 + M) /\ ~(x - 1 <= N) /\ (x - 1 = N + 1 <=> y = 1) /\ (x - 1) - (N + 1) = y - 1
        BY <2>2, <3>1
      <4> QED
        BY <1>8, <3>2, <4>1 DEF LowOf
    <3>4. HighOf(A, b, x) = HighOf(r, b, y)
      <4>1. x # N + M + 2 => x \in 1..(N + 1 + M) /\ ~(x <= N) /\ x # N + 1
        BY <2>2
      <4> QED
        BY <1>3, <1>8, <1>9, <3>1, <3>2, <4>1 DEF HighOf
    <3> QED
      BY <1>3, <3>2, <3>3, <3>4
  <2> QED
    BY <2>1, <2>2
<1>11. IndexFits(g, A, l, a, b)
  <2>1. Len(A.kids) = Len(A.keys) + 1 /\ Len(A.kids) = N + M + 2
    BY <1>8, <1>9
  <2> QED
    BY <1>5, <1>8, <1>9, <1>10, <2>1 DEF IndexFits
<1> QED
  BY <1>1, <1>4, <1>5, <1>8, <1>11

-----------------------------------------------------------------------------
(* Other rows, and other roots *)

\* A leaf may hold any rows within its bounds.
LEMMA RowsShape ==
    ASSUME NEW pg, NEW g, NEW root, NEW h, Shape(pg, g, root, h),
           NEW id \in g.at, g.level[id] = 0,
           NEW A, LeafFits(A, g.lo[id], g.hi[id]), A.next = pg[id].next,
           NEW new, g.at \subseteq DOMAIN new, new[id] = A, \A p \in g.at \ {id} : new[p] = pg[p]
    PROVE  Shape(new, g, root, h)
<1>1. ASSUME NEW p \in g.at
      PROVE  Fits(g, new[p], g.level[p], g.lo[p], g.hi[p]) /\ (g.level[p] = 0 => new[p].next = pg[p].next)
  <2>1. CASE p = id
    BY <2>1 DEF Fits
  <2>2. CASE p # id
    BY <2>2 DEF Shape
  <2> QED
    BY <2>1, <2>2
<1>2. ASSUME NEW p \in g.at, g.level[p] = 0
      PROVE  LinkFits(g, p, new[p].next)
  BY <1>1, <1>2 DEF Shape
<1> QED
  BY <1>1, <1>2 DEF Shape

\* A page V above the root.
Raised(g, V, h) ==
    LET all == g.at \cup {V}
    IN  [at    |-> all,
         level |-> [p \in all |-> IF p = V THEN h + 1 ELSE g.level[p]],
         lo    |-> [p \in all |-> IF p = V THEN Bottom ELSE g.lo[p]],
         hi    |-> [p \in all |-> IF p = V THEN Top ELSE g.hi[p]]]

\* A page with the root for its only child can be the new root.
LEMMA AddRoot ==
    ASSUME NEW pg, NEW g, NEW root, NEW h, Shape(pg, g, root, h), NEW V, V \notin g.at,
           NEW new, g.at \cup {V} \subseteq DOMAIN new,
           new[V] = Index(<<>>, <<root>>), \A p \in g.at : new[p] = pg[p]
    PROVE  Shape(new, Raised(g, V, h), V, h + 1)
<1>1. PICK G : G = Raised(g, V, h)
  OBVIOUS
<1>2. /\ G.at = g.at \cup {V}
      /\ \A p \in g.at : G.level[p] = g.level[p] /\ G.lo[p] = g.lo[p] /\ G.hi[p] = g.hi[p]
      /\ G.level[V] = h + 1 /\ G.lo[V] = Bottom /\ G.hi[V] = Top
  BY <1>1 DEF Raised
<1>3. /\ h \in Nat /\ root \in g.at /\ g.level[root] = h /\ g.lo[root] = Bottom /\ g.hi[root] = Top
      /\ \A p \in g.at : /\ g.level[p] \in 0..h /\ g.lo[p] \in Int /\ g.hi[p] \in Int
                         /\ Bottom <= g.lo[p] /\ g.lo[p] < g.hi[p] /\ g.hi[p] <= Top
      /\ \A p, q \in g.at : p # q /\ g.level[p] = g.level[q] => g.hi[p] <= g.lo[q] \/ g.hi[q] <= g.lo[p]
  BY DEF Shape, Layout
<1>4. Layout(G, V, h + 1)
  <2>1. Bottom \in Int /\ Top \in Int /\ Bottom < Top
    BY KeyBounds
  <2>2. ASSUME NEW p \in G.at
        PROVE  /\ G.level[p] \in 0..(h + 1) /\ G.lo[p] \in Int /\ G.hi[p] \in Int
               /\ Bottom <= G.lo[p] /\ G.lo[p] < G.hi[p] /\ G.hi[p] <= Top
    <3>1. CASE p = V
      BY <1>2, <1>3, <2>1, <3>1
    <3>2. CASE p \in g.at
      BY <1>2, <1>3, <3>2
    <3> QED
      BY <1>2, <3>1, <3>2
  <2>3. ASSUME NEW p \in G.at, NEW q \in G.at, p # q, G.level[p] = G.level[q]
        PROVE  G.hi[p] <= G.lo[q] \/ G.hi[q] <= G.lo[p]
    <3>1. \A x \in g.at : G.level[x] # h + 1
      BY <1>2, <1>3
    <3>2. p \in g.at /\ q \in g.at
      BY <1>2, <2>3, <3>1
    <3> QED
      BY <1>2, <1>3, <2>3, <3>2
  <2>4. h + 1 \in Nat
    BY <1>3
  <2> QED
    BY <1>2, <2>2, <2>3, <2>4 DEF Layout
<1>5. ASSUME NEW p \in G.at
      PROVE  Fits(G, new[p], G.level[p], G.lo[p], G.hi[p])
  <2>1. CASE p = V
    <3>1. PICK P : P = new[V]
      OBVIOUS
    <3>2. /\ ~P.leaf /\ P.keys = <<>> /\ P.kids = <<root>>
      BY <3>1 DEF Index
    <3>3. /\ P.keys \in Seq(Key) /\ P.kids \in Seq(G.at) /\ Len(P.keys) = 0 /\ Len(P.kids) = 1 /\ P.kids[1] = root
      BY <1>2, <1>3, <3>2
    <3>4. IndexFits(G, P, h + 1, Bottom, Top)
      <4>1. G.level[root] = h /\ (h + 1) - 1 = h /\ G.lo[root] = Bottom /\ G.hi[root] = Top
        BY <1>2, <1>3
      <4>2. \A x \in 1..1 : x = 1
        OBVIOUS
      <4> QED
        BY <3>2, <3>3, <4>1, <4>2 DEF IndexFits, LowOf, HighOf
    <3> QED
      BY <1>2, <1>3, <2>1, <3>1, <3>4 DEF Fits
  <2>2. CASE p \in g.at
    <3>1. Fits(g, pg[p], g.level[p], g.lo[p], g.hi[p]) /\ new[p] = pg[p]
      BY <2>2 DEF Shape
    <3>2. CASE g.level[p] = 0
      BY <1>2, <2>2, <3>1, <3>2 DEF Fits
    <3>3. CASE g.level[p] # 0
      <4>1. IndexFits(g, pg[p], g.level[p], g.lo[p], g.hi[p])
        BY <3>1, <3>3 DEF Fits
      <4>2. \A j \in 1..Len(pg[p].kids) : pg[p].kids[j] \in g.at
        BY <4>1 DEF IndexFits
      <4>3. IndexFits(G, pg[p], g.level[p], g.lo[p], g.hi[p])
        BY <1>2, <4>1, <4>2, SameChildren
      <4> QED
        BY <1>2, <2>2, <3>1, <3>3, <4>3 DEF Fits
    <3> QED
      BY <3>2, <3>3
  <2> QED
    BY <1>2, <2>1, <2>2
<1>6. ASSUME NEW p \in G.at, G.level[p] = 0
      PROVE  LinkFits(G, p, new[p].next)
  <2>1. p \in g.at /\ g.level[p] = 0
    <3>1. p # V
      BY <1>2, <1>3, <1>6
    <3> QED
      BY <1>2, <1>6, <3>1
  <2>2. LinkFits(g, p, pg[p].next) /\ new[p] = pg[p]
    BY <2>1 DEF Shape
  <2> QED
    BY <1>2, <2>1, <2>2 DEF LinkFits
<1>7. G.at \subseteq DOMAIN new
  BY <1>2
<1> QED
  BY <1>1, <1>4, <1>5, <1>6, <1>7 DEF Shape

\* The root is the only page of its level.
LEMMA OneRoot ==
    ASSUME NEW g, NEW root, NEW h, Layout(g, root, h), NEW p \in g.at, g.level[p] = h
    PROVE  p = root
<1>1. PICK k \in Int : k = g.lo[p]
  BY DEF Layout
<1>2. Bottom <= k /\ k < g.hi[p] /\ g.hi[p] <= Top /\ g.hi[p] \in Int /\ Top \in Int
  BY <1>1, KeyBounds DEF Layout
<1>3. k < Top
  BY <1>2
<1>4. root \in g.at /\ g.level[root] = h /\ g.lo[root] = Bottom /\ g.hi[root] = Top
  BY DEF Layout
<1> QED
  BY <1>1, <1>2, <1>3, <1>4, OnePage

\* Without the root.
Lowered(g, root) ==
    LET all == g.at \ {root}
    IN  [at |-> all, level |-> [p \in all |-> g.level[p]],
         lo |-> [p \in all |-> g.lo[p]], hi |-> [p \in all |-> g.hi[p]]]

\* A root with one child gives way to it.
LEMMA DropRoot ==
    ASSUME NEW pg, NEW g, NEW root, NEW h, Shape(pg, g, root, h), h # 0, Len(pg[root].keys) = 0
    PROVE  Shape(pg, Lowered(g, root), pg[root].kids[1], h - 1)
<1>1. PICK G : G = Lowered(g, root)
  OBVIOUS
<1>2. /\ G.at = g.at \ {root}
      /\ \A p \in g.at \ {root} : G.level[p] = g.level[p] /\ G.lo[p] = g.lo[p] /\ G.hi[p] = g.hi[p]
  BY <1>1 DEF Lowered
<1>3. /\ h \in Nat /\ root \in g.at /\ g.level[root] = h /\ g.lo[root] = Bottom /\ g.hi[root] = Top
      /\ \A p \in g.at : /\ g.level[p] \in 0..h /\ g.lo[p] \in Int /\ g.hi[p] \in Int
                         /\ Bottom <= g.lo[p] /\ g.lo[p] < g.hi[p] /\ g.hi[p] <= Top
      /\ \A p, q \in g.at : p # q /\ g.level[p] = g.level[q] => g.hi[p] <= g.lo[q] \/ g.hi[q] <= g.lo[p]
      /\ Layout(g, root, h)
  BY DEF Shape, Layout
<1>4. PICK c : c = pg[root].kids[1]
  OBVIOUS
<1>5. c \in g.at /\ g.level[c] = h - 1 /\ g.lo[c] = Bottom /\ g.hi[c] = Top
  <2>0. root \in g.at /\ g.level[root] # 0
    BY <1>3
  <2>a. Len(pg[root].kids) = Len(pg[root].keys) + 1
    BY <2>0, ChildIs
  <2>1. Len(pg[root].kids) = 1 /\ 1 \in 1..1
    BY <2>a
  <2>2. /\ c \in g.at /\ g.level[c] = g.level[root] - 1
        /\ g.lo[c] = LowOf(pg[root], g.lo[root], 1) /\ g.hi[c] = HighOf(pg[root], g.hi[root], 1)
    BY <1>3, <1>4, <2>1, ChildIs
  <2> QED
    BY <1>3, <2>1, <2>2 DEF LowOf, HighOf
<1>6. c # root /\ \A p \in G.at : G.level[p] \in 0..(h - 1)
  <2>1. \A p \in g.at : g.level[p] = h => p = root
    BY <1>3, OneRoot
  <2>2. \A p \in G.at : p \in g.at /\ g.level[p] # h /\ g.level[p] \in 0..h /\ G.level[p] = g.level[p]
    BY <1>2, <1>3, <2>1
  <2>3. c # root
    BY <1>3, <1>5
  <2> QED
    BY <1>3, <2>2, <2>3
<1>7. Layout(G, c, h - 1)
  <2>1. h - 1 \in Nat
    BY <1>3
  <2>2. c \in G.at /\ G.level[c] = h - 1 /\ G.lo[c] = Bottom /\ G.hi[c] = Top
    BY <1>2, <1>5, <1>6
  <2>3. ASSUME NEW p \in G.at
        PROVE  /\ G.level[p] \in 0..(h - 1) /\ G.lo[p] \in Int /\ G.hi[p] \in Int
               /\ Bottom <= G.lo[p] /\ G.lo[p] < G.hi[p] /\ G.hi[p] <= Top
    BY <1>2, <1>3, <1>6
  <2>4. ASSUME NEW p \in G.at, NEW q \in G.at, p # q, G.level[p] = G.level[q]
        PROVE  G.hi[p] <= G.lo[q] \/ G.hi[q] <= G.lo[p]
    BY <1>2, <1>3, <2>4
  <2> QED
    BY <2>1, <2>2, <2>3, <2>4 DEF Layout
<1>8. ASSUME NEW p \in G.at
      PROVE  Fits(G, pg[p], G.level[p], G.lo[p], G.hi[p])
  <2>1. p \in g.at /\ Fits(g, pg[p], g.level[p], g.lo[p], g.hi[p]) /\ g.level[p] \in 0..(h - 1)
    BY <1>2, <1>6 DEF Shape
  <2>2. CASE g.level[p] = 0
    BY <1>2, <2>1, <2>2 DEF Fits
  <2>3. CASE g.level[p] # 0
    <3>1. IndexFits(g, pg[p], g.level[p], g.lo[p], g.hi[p])
      BY <2>1, <2>3 DEF Fits
    <3>2. ASSUME NEW j \in 1..Len(pg[p].kids)
          PROVE  pg[p].kids[j] \in g.at \ {root}
      <4>1. pg[p].kids[j] \in g.at /\ g.level[pg[p].kids[j]] = g.level[p] - 1
        BY <3>1 DEF IndexFits
      <4>2. g.level[p] - 1 # h
        BY <1>3, <2>1
      <4> QED
        BY <1>3, <4>1, <4>2
    <3>3. IndexFits(G, pg[p], g.level[p], g.lo[p], g.hi[p])
      BY <1>2, <3>1, <3>2, SameChildren
    <3> QED
      BY <1>2, <2>1, <2>3, <3>3 DEF Fits
  <2> QED
    BY <2>2, <2>3
<1>9. ASSUME NEW p \in G.at, G.level[p] = 0
      PROVE  LinkFits(G, p, pg[p].next)
  <2>1. p \in g.at /\ g.level[p] = 0 /\ LinkFits(g, p, pg[p].next) /\ G.hi[p] = g.hi[p]
    BY <1>2, <1>9 DEF Shape
  <2>2. g.level[root] # 0
    BY <1>3
  <2> QED
    BY <1>2, <2>1, <2>2 DEF LinkFits
<1>10. G.at \subseteq DOMAIN pg
  BY <1>2 DEF Shape
<1> QED
  BY <1>1, <1>4, <1>7, <1>8, <1>9, <1>10 DEF Shape

-----------------------------------------------------------------------------
(* The rows of a tree *)

\* A leaf has row v for key k.
InPage(P, k, v) == P.leaf /\ k \in DOMAIN P.rows /\ P.rows[k] = v

\* Some page of the tree has row v for key k.
Holds(pg, at, k, v) == \E p \in at : InPage(pg[p], k, v)

\* Pages Y take the place of pages X.
Replaces(pg, at, new, At, X, Y) ==
    /\ X \subseteq at /\ Y \subseteq At /\ at \ X = At \ Y
    /\ \A p \in at \ X : new[p] = pg[p]

\* The pages that changed have the same rows between them.
LEMMA RowsKept ==
    ASSUME NEW pg, NEW at, NEW new, NEW At, NEW X, NEW Y, Replaces(pg, at, new, At, X, Y), NEW k, NEW v,
           (\E p \in X : InPage(pg[p], k, v)) <=> (\E p \in Y : InPage(new[p], k, v))
    PROVE  Holds(pg, at, k, v) <=> Holds(new, At, k, v)
<1> USE DEF Replaces
<1>1. ASSUME NEW p \in at, InPage(pg[p], k, v)
      PROVE  \E q \in At : InPage(new[q], k, v)
  <2>1. CASE p \in X
    BY <1>1, <2>1
  <2>2. CASE p \notin X
    BY <1>1, <2>2
  <2> QED
    BY <2>1, <2>2
<1>2. ASSUME NEW p \in At, InPage(new[p], k, v)
      PROVE  \E q \in at : InPage(pg[q], k, v)
  <2>1. CASE p \in Y
    BY <1>2, <2>1
  <2>2. CASE p \notin Y
    BY <1>2, <2>2
  <2> QED
    BY <2>1, <2>2
<1> QED
  BY <1>1, <1>2 DEF Holds

-----------------------------------------------------------------------------
(* The pager's state *)

\* What every record of the pager looks like.
State(s) ==
    /\ DOMAIN s = {"pages", "root", "next", "log"}
    /\ s.next \in Nat /\ DOMAIN s.pages = 0..(s.next - 1)

\* A new page takes the next id and leaves the others alone.
LEMMA NewPageIs ==
    ASSUME NEW s, State(s), NEW p, NEW t, t = NewPage(s, p)
    PROVE  /\ State(t) /\ t.next = s.next + 1 /\ t.root = s.root
           /\ t.pages[s.next] = p /\ \A id \in DOMAIN s.pages : t.pages[id] = s.pages[id]
           /\ s.next \notin DOMAIN s.pages /\ DOMAIN t.pages = DOMAIN s.pages \cup {s.next}
<1>1. PICK pages : pages = With(s.pages, s.next, p)
  OBVIOUS
<1>2. /\ DOMAIN t = DOMAIN s /\ t.pages = pages /\ t.next = s.next + 1 /\ t.root = s.root
  BY <1>1 DEF NewPage, State
<1>3. DOMAIN pages = {s.next} \cup DOMAIN s.pages
  BY <1>1 DEF With
<1>4. pages[s.next] = p /\ \A id \in DOMAIN s.pages : id # s.next => pages[id] = s.pages[id]
  BY <1>1 DEF With
<1>5. s.next \notin DOMAIN s.pages /\ {s.next} \cup DOMAIN s.pages = 0..((s.next + 1) - 1)
  BY DEF State
<1> QED
  BY <1>2, <1>3, <1>4, <1>5 DEF State

\* A page that is set changes, and no other.
LEMMA SetPageIs ==
    ASSUME NEW s, State(s), NEW id \in DOMAIN s.pages, NEW p, NEW t, t = SetPage(s, id, p)
    PROVE  /\ State(t) /\ t.next = s.next /\ t.root = s.root /\ DOMAIN t.pages = DOMAIN s.pages
           /\ t.pages[id] = p /\ \A q \in DOMAIN s.pages : q # id => t.pages[q] = s.pages[q]
BY DEF SetPage, State

\* A call to the pager to mark a page changes no page.
LEMMA MarkDirtyIs ==
    ASSUME NEW s, State(s), NEW id, NEW t, t = MarkDirty(s, id)
    PROVE  State(t) /\ t.next = s.next /\ t.root = s.root /\ t.pages = s.pages
BY DEF MarkDirty, State

\* A call to set the root changes no page.
LEMMA SetRootIs ==
    ASSUME NEW s, State(s), NEW id, NEW t, t = SetRoot(s, id)
    PROVE  State(t) /\ t.next = s.next /\ t.root = id /\ t.pages = s.pages
BY DEF SetRoot, State

-----------------------------------------------------------------------------
(* Keys in order *)

\* The least of a set of naturals.
LEMMA MinOf ==
    ASSUME NEW S \in SUBSET Nat, S # {}
    PROVE  Min(S) \in S /\ \A y \in S : Min(S) <= y
<1>1. IsWellFoundedOn(OpToRel(<, Nat), Nat)
  BY NatLessThanWellFounded
<1>2. PICK m \in S : \A y \in S : ~(<<y, m>> \in OpToRel(<, Nat))
  BY <1>1, WFMin
<1>3. \A y \in S : ~(y < m)
  BY <1>2 DEF OpToRel
<1>4. \E x0 \in S : \A y \in S : x0 <= y
  BY <1>3
<1> QED
  BY <1>4 DEF Min

\* The greatest of a finite set of naturals.
LEMMA MaxOf ==
    ASSUME NEW S \in SUBSET Int, IsFiniteSet(S), S # {}
    PROVE  Max(S) \in S /\ \A y \in S : y <= Max(S)
<1>1. PICK x \in S : \A y \in S : y <= x
  BY GreatestMember
<1>2. \E x0 \in S : \A y \in S : x0 >= y
  BY <1>1
<1>3. Max(S) \in S /\ \A y \in S : Max(S) >= y
  BY <1>2 DEF Max
<1> QED
  BY <1>3

\* The lowest n of a set are n, all below the others.
LEMMA LowestIs ==
    ASSUME NEW S \in SUBSET Int, IsFiniteSet(S), NEW n \in 0..Cardinality(S)
    PROVE  /\ Lowest(n, S) \in SUBSET S /\ IsFiniteSet(Lowest(n, S)) /\ IsFiniteSet(S \ Lowest(n, S))
           /\ Cardinality(Lowest(n, S)) = n /\ Cardinality(S \ Lowest(n, S)) = Cardinality(S) - n
           /\ \A x \in Lowest(n, S), y \in S \ Lowest(n, S) : x < y
<1>1. PICK N \in Nat : N = Cardinality(S)
  BY FS_CardinalityType
<1>2. PICK s \in [1..N -> S] : Increasing(s)
  BY <1>1, AscendingExists
<1>3. /\ ToSet(s) = S /\ IsInjective(s)
      /\ \A i \in 1..N : Cardinality({y \in S : y < s[i]}) = i - 1
  BY <1>1, <1>2, IncreasingIs
<1>4. PICK L : L = Lowest(n, S)
  OBVIOUS
<1>5. L \in SUBSET S /\ \A i \in 1..N : s[i] \in L <=> i <= n
  BY <1>1, <1>2, <1>3, <1>4 DEF Lowest
<1>6. \A x \in S : \E i \in 1..N : s[i] = x
  BY <1>3 DEF ToSet
<1>7. IsFiniteSet(L) /\ IsFiniteSet(S \ L)
  BY <1>5, FS_Subset
<1>8. Cardinality(L) = n
  <2> DEFINE f == [i \in 1..n |-> s[i]]
  <2>1. n \in Nat /\ \A i \in 1..n : i \in 1..N
    BY <1>1
  <2>2. f \in [1..n -> L]
    BY <1>5, <2>1
  <2>3. \A x \in L : \E i \in 1..n : f[i] = x
    <3> TAKE x \in L
    <3>1. PICK i \in 1..N : s[i] = x
      BY <1>5, <1>6
    <3>2. i <= n
      BY <1>5, <3>1
    <3> QED
      BY <3>1, <3>2
  <2>4. \A i, j \in 1..n : f[i] = f[j] => i = j
    BY <1>2, <1>3, <2>1 DEF IsInjective
  <2> HIDE DEF f
  <2>5. f \in Bijection(1..n, L)
    BY <2>2, <2>3, <2>4 DEF Bijection, Injection, Surjection, IsInjective
  <2>6. IsFiniteSet(1..n) /\ Cardinality(1..n) = n
    BY <2>1, PositionsCounted
  <2> QED
    BY <2>5, <2>6, FS_Bijection DEF ExistsBijection
<1>9. Cardinality(S \ L) = N - n
  <2>1. S \cap L = L
    BY <1>5
  <2>2. Cardinality(S \ L) = Cardinality(S) - Cardinality(S \cap L)
    BY FS_Difference
  <2> QED
    BY <1>1, <1>8, <2>1, <2>2
<1>10. ASSUME NEW x \in L, NEW y \in S \ L
       PROVE  x < y
  <2>1. PICK i \in 1..N : s[i] = x
    BY <1>5, <1>6
  <2>2. PICK j \in 1..N : s[j] = y
    BY <1>6
  <2>3. i <= n /\ ~(j <= n)
    BY <1>5, <2>1, <2>2
  <2>4. i < j
    BY <1>1, <2>3
  <2> QED
    BY <1>2, <2>1, <2>2, <2>4 DEF Increasing
<1> QED
  BY <1>1, <1>4, <1>5, <1>7, <1>8, <1>9, <1>10

-----------------------------------------------------------------------------
(* Halves of a full page *)

\* Half of an overfull page is enough, and not too much.
LEMMA EnoughKeys ==
    /\ Order \in Nat /\ MinKeys \in Nat /\ 1 <= MinKeys /\ 2 * MinKeys <= Order
    /\ (Order + 1) \div 2 \in MinKeys..Order
    /\ (Order + 1) - (Order + 1) \div 2 \in MinKeys..Order
    /\ Order - (Order + 1) \div 2 \in MinKeys..Order
<1>1. Order \in Nat /\ Order >= 2
  BY OrderAssumption
<1>2. PICK x, y \in Int : x = Order \div 2 /\ y = (Order + 1) \div 2
  BY <1>1
<1>3. 2 * x <= Order /\ Order < 2 * x + 2
  BY <1>1, <1>2
<1>4. 2 * y <= Order + 1 /\ Order + 1 < 2 * y + 2
  BY <1>1, <1>2
<1>5. x >= 1 /\ y >= x /\ y <= Order /\ x <= Order + 1 - y /\ x <= Order - y
  BY <1>1, <1>3, <1>4
<1> QED
  BY <1>1, <1>2, <1>3, <1>5 DEF MinKeys

\* r splits the page id of s, with bounds a and b at level l, in two that fit.
Halves(g, s, id, l, a, b, r) ==
    LET n == s.next
        m == r.split.key
        A == r.s.pages[id]
        B == r.s.pages[n]
    IN  /\ State(r.s) /\ r.s.next = n + 1 /\ r.s.root = s.root
        /\ r.split = [key |-> m, page |-> n] /\ m \in Key /\ a < m /\ m < b
        /\ Fits(g, A, l, a, m) /\ Fits(g, B, l, m, b)
        /\ l = 0 => A.next = n /\ B.next = s.pages[id].next
        /\ \A q \in DOMAIN s.pages \ {id} : r.s.pages[q] = s.pages[q]
        /\ NumKeys(A) \in MinKeys..Order /\ NumKeys(B) \in MinKeys..Order
        /\ \A k, v : InPage(s.pages[id], k, v) <=> InPage(A, k, v) \/ InPage(B, k, v)

\* What a leaf of a sound tree has.
LEMMA LeafRows ==
    ASSUME NEW p, NEW a, NEW b, LeafFits(p, a, b)
    PROVE  /\ p.leaf /\ DOMAIN p.rows \in SUBSET Key /\ DOMAIN p.rows \in SUBSET Nat
           /\ DOMAIN p.rows \in SUBSET Int /\ IsFiniteSet(DOMAIN p.rows)
           /\ NumKeys(p) = Cardinality(DOMAIN p.rows) /\ NumKeys(p) \in Nat
<1>1. DOMAIN p.rows \in SUBSET Key /\ p.leaf
  BY DEF LeafFits
<1>2. IsFiniteSet(Key) /\ Key \subseteq Nat
  BY KeyAssumption
<1>3. IsFiniteSet(DOMAIN p.rows)
  BY <1>1, <1>2, FS_Subset
<1>4. NumKeys(p) = Cardinality(DOMAIN p.rows)
  BY <1>1 DEF NumKeys
<1>5. NumKeys(p) \in Nat
  BY <1>3, <1>4, FS_CardinalityType
<1>6. DOMAIN p.rows \in SUBSET Nat
  BY <1>1, <1>2
<1>7. DOMAIN p.rows \in SUBSET Int
  BY <1>6
<1> QED
  BY <1>1, <1>3, <1>4, <1>5, <1>6, <1>7

\* SplitLeaf makes two halves.
LEMMA SplitLeafHalves ==
    ASSUME NEW g, NEW s, State(s), NEW id \in DOMAIN s.pages, NEW a \in Int, NEW b \in Int,
           LeafFits(s.pages[id], a, b), NumKeys(s.pages[id]) = Order + 1
    PROVE  Halves(g, s, id, 0, a, b, SplitLeaf(s, id))
<1> DEFINE p == s.pages[id]
           low == Lowest(NumKeys(p) \div 2, DOMAIN p.rows)
           high == DOMAIN p.rows \ low
           n == s.next
           A == Leaf(Restrict(p.rows, low), n)
           B == Leaf(Restrict(p.rows, high), p.next)
           m == Min(high)
           s1 == NewPage(s, Leaf(<<>>, NoPage))
           s2 == SetPage(s1, id, A)
           s3 == SetPage(s2, n, B)
           s4 == MarkDirty(s3, n)
           r == SplitLeaf(s, id)
<1>1. r = [s |-> s4, split |-> [key |-> m, page |-> n]]
  BY DEF SplitLeaf
<1>2. /\ p.leaf /\ DOMAIN p.rows \in SUBSET Key /\ DOMAIN p.rows \in SUBSET Nat
      /\ DOMAIN p.rows \in SUBSET Int /\ IsFiniteSet(DOMAIN p.rows)
      /\ Cardinality(DOMAIN p.rows) = Order + 1
      /\ \A k \in DOMAIN p.rows : p.rows[k] \in Row /\ a <= k /\ k < b
  BY LeafRows DEF LeafFits
<1>3. PICK x \in Int : x = (Order + 1) \div 2 /\ x \in MinKeys..Order /\ Order + 1 - x \in MinKeys..Order
  BY EnoughKeys
<1>4. x \in 0..Cardinality(DOMAIN p.rows) /\ low = Lowest(x, DOMAIN p.rows) /\ Order \in Nat /\ MinKeys \in Nat /\ 1 <= MinKeys
  BY <1>2, <1>3, EnoughKeys
<1>5. /\ low \in SUBSET (DOMAIN p.rows) /\ IsFiniteSet(low) /\ IsFiniteSet(high)
      /\ Cardinality(low) = x /\ Cardinality(high) = Order + 1 - x
      /\ \A y \in low, z \in high : y < z
  <2>1. PICK S \in SUBSET Int : S = DOMAIN p.rows
    BY <1>2
  <2>2. IsFiniteSet(S) /\ Cardinality(S) = Order + 1 /\ x \in 0..Cardinality(S)
    BY <1>2, <1>4, <2>1
  <2>3. PICK L : L = Lowest(x, S)
    OBVIOUS
  <2>4. /\ L \in SUBSET S /\ IsFiniteSet(L) /\ IsFiniteSet(S \ L)
        /\ Cardinality(L) = x /\ Cardinality(S \ L) = Cardinality(S) - x
        /\ \A y \in L, z \in S \ L : y < z
    BY <2>2, <2>3, LowestIs
  <2>5. low = L /\ high = S \ L
    BY <1>4, <2>1, <2>3
  <2> HIDE DEF low, high
  <2>6. \A y \in low, z \in high : y < z
    BY <2>4, <2>5
  <2>7. Cardinality(high) = Order + 1 - x /\ Cardinality(low) = x
    <3>0. Cardinality(S \ L) = Cardinality(S) - x /\ Cardinality(S) = Order + 1
      BY <2>2, <2>4
    <3>1. Cardinality(S \ L) = Order + 1 - x
      BY <1>4, <3>0
    <3>2. Cardinality(high) = Cardinality(S \ L) /\ Cardinality(low) = Cardinality(L)
      BY <2>5
    <3> QED
      BY <2>4, <3>1, <3>2
  <2>8. low \in SUBSET (DOMAIN p.rows) /\ IsFiniteSet(low) /\ IsFiniteSet(high)
    BY <2>1, <2>4, <2>5
  <2> QED
    BY <2>6, <2>7, <2>8
<1>6. low # {} /\ high # {}
  BY <1>3, <1>4, <1>5, FS_EmptySet
<1>7. m \in high /\ \A z \in high : m <= z
  BY <1>2, <1>6, MinOf
<1>8. /\ A.leaf /\ DOMAIN A.rows = low /\ (\A k \in low : A.rows[k] = p.rows[k]) /\ A.next = n
      /\ B.leaf /\ DOMAIN B.rows = high /\ (\A k \in high : B.rows[k] = p.rows[k]) /\ B.next = p.next
  BY DEF Leaf, Restrict
<1>9. NumKeys(A) = x /\ NumKeys(B) = Order + 1 - x
  BY <1>5, <1>8, Zenon DEF NumKeys
<1>10. /\ State(s4) /\ s4.next = n + 1 /\ s4.root = s.root /\ s4.pages[id] = A /\ s4.pages[n] = B
       /\ \A q \in DOMAIN s.pages \ {id} : s4.pages[q] = s.pages[q]
  <2> HIDE DEF A, B
  <2>1. /\ State(s1) /\ s1.next = n + 1 /\ s1.root = s.root
        /\ \A q \in DOMAIN s.pages : s1.pages[q] = s.pages[q]
        /\ n \notin DOMAIN s.pages /\ DOMAIN s1.pages = DOMAIN s.pages \cup {n}
    BY NewPageIs
  <2> HIDE DEF s1
  <2>2. /\ State(s2) /\ s2.next = s1.next /\ s2.root = s1.root /\ DOMAIN s2.pages = DOMAIN s1.pages
        /\ s2.pages[id] = A /\ \A q \in DOMAIN s1.pages : q # id => s2.pages[q] = s1.pages[q]
    BY <2>1, SetPageIs
  <2> HIDE DEF s2
  <2>3. /\ State(s3) /\ s3.next = s2.next /\ s3.root = s2.root /\ DOMAIN s3.pages = DOMAIN s2.pages
        /\ s3.pages[n] = B /\ \A q \in DOMAIN s2.pages : q # n => s3.pages[q] = s2.pages[q]
    BY <2>1, <2>2, SetPageIs
  <2> HIDE DEF s3
  <2>4. State(s4) /\ s4.next = s3.next /\ s4.root = s3.root /\ s4.pages = s3.pages
    BY <2>3, MarkDirtyIs
  <2> HIDE DEF s4
  <2> QED
    BY <2>1, <2>2, <2>3, <2>4
<1> HIDE DEF s1, s2, s3, s4, A, B, low, high, m, r
<1>11. m \in Key /\ m \in Int /\ a < m /\ m < b
  <2>1. m \in DOMAIN p.rows
    BY <1>5, <1>7 DEF high
  <2>2. PICK y \in low : y < m
    BY <1>5, <1>6, <1>7
  <2>3. y \in Int /\ a <= y
    BY <1>2, <1>5
  <2> QED
    BY <1>2, <2>1, <2>2, <2>3
<1>12. LeafFits(A, a, m)
  <2>1. \A k \in low : k \in DOMAIN p.rows /\ k < m
    BY <1>5, <1>7
  <2> QED
    BY <1>2, <1>8, <2>1 DEF LeafFits
<1>13. LeafFits(B, m, b)
  <2>1. \A k \in high : k \in DOMAIN p.rows /\ m <= k
    BY <1>7 DEF high
  <2> QED
    BY <1>2, <1>8, <2>1 DEF LeafFits
<1>14. ASSUME NEW k, NEW v
       PROVE  InPage(p, k, v) <=> InPage(A, k, v) \/ InPage(B, k, v)
  <2>1. k \in DOMAIN p.rows <=> k \in low \/ k \in high
    BY <1>5 DEF high
  <2> QED
    BY <1>2, <1>8, <2>1 DEF InPage
<1>15. r.s = s4 /\ r.split = [key |-> m, page |-> n] /\ r.split.key = m
  BY <1>1
<1>16. NumKeys(A) \in MinKeys..Order /\ NumKeys(B) \in MinKeys..Order
  BY <1>3, <1>9
<1>17. Fits(g, A, 0, a, m) /\ Fits(g, B, 0, m, b)
  BY <1>12, <1>13 DEF Fits
<1>18. Halves(g, s, id, 0, a, b, r)
  BY <1>8, <1>10, <1>11, <1>14, <1>15, <1>16, <1>17 DEF Halves
<1> QED
  BY <1>18 DEF r

\* SplitIndex makes two halves.
LEMMA SplitIndexHalves ==
    ASSUME NEW g, NEW s, State(s), NEW id \in DOMAIN s.pages, NEW l \in Nat \ {0},
           NEW root, NEW h, Layout(g, root, h), NEW a \in Int, NEW b \in Int, a < b,
           IndexFits(g, s.pages[id], l, a, b), NumKeys(s.pages[id]) = Order + 1
    PROVE  Halves(g, s, id, l, a, b, SplitIndex(s, id))
<1> DEFINE p == s.pages[id]
           c == Len(p.keys) \div 2
           n == s.next
           A == Index(SubSeq(p.keys, 1, c), SubSeq(p.kids, 1, c + 1))
           B == Index(SubSeq(p.keys, c + 2, Len(p.keys)), SubSeq(p.kids, c + 2, Len(p.kids)))
           m == p.keys[c + 1]
           s1 == NewPage(s, Index(<<>>, <<>>))
           s2 == SetPage(s1, id, A)
           s3 == SetPage(s2, n, B)
           s4 == MarkDirty(s3, n)
           r == SplitIndex(s, id)
<1>1. r = [s |-> s4, split |-> [key |-> m, page |-> n]]
  BY DEF SplitIndex
<1>2. ~p.leaf /\ Len(p.keys) = Order + 1
  BY DEF IndexFits, NumKeys
<1>3. /\ Order \in Nat /\ c \in MinKeys..Order /\ Order - c \in MinKeys..Order /\ MinKeys \in Nat /\ 1 <= MinKeys
  BY <1>2, EnoughKeys
<1>4. c \in 0..(Len(p.keys) - 1) /\ c + 1 \in 1..Len(p.keys)
  BY <1>2, <1>3
<1>5. /\ IndexFits(g, A, l, a, m) /\ IndexFits(g, B, l, m, b)
      /\ Len(SubSeq(p.keys, 1, c)) = c /\ Len(SubSeq(p.keys, c + 2, Len(p.keys))) = Len(p.keys) - c - 1
  <2>1. PICK P : P = s.pages[id]
    OBVIOUS
  <2>2. PICK x : x = Len(P.keys) \div 2
    OBVIOUS
  <2>3. IndexFits(g, P, l, a, b) /\ x \in 0..(Len(P.keys) - 1)
    BY <1>4, <2>1, <2>2
  <2>4. /\ IndexFits(g, Index(SubSeq(P.keys, 1, x), SubSeq(P.kids, 1, x + 1)), l, a, P.keys[x + 1])
        /\ IndexFits(g, Index(SubSeq(P.keys, x + 2, Len(P.keys)), SubSeq(P.kids, x + 2, Len(P.kids))),
                     l, P.keys[x + 1], b)
        /\ Len(SubSeq(P.keys, 1, x)) = x
        /\ Len(SubSeq(P.keys, x + 2, Len(P.keys))) = Len(P.keys) - x - 1
    BY <2>3, CutIndex
  <2> QED
    BY <2>1, <2>2, <2>4
<1>6. m \in Key /\ a < m /\ m < b
  <2>1. PICK P : P = s.pages[id]
    OBVIOUS
  <2>2. IndexFits(g, P, l, a, b)
    BY <2>1
  <2>3. \A x \in 1..Len(P.keys) : P.keys[x] \in Key /\ a < P.keys[x] /\ P.keys[x] < b
    BY <2>2, Edges
  <2> QED
    BY <1>4, <2>1, <2>3
<1>7. NumKeys(A) \in MinKeys..Order /\ NumKeys(B) \in MinKeys..Order
  <2>1. ~A.leaf /\ ~B.leaf /\ A.keys = SubSeq(p.keys, 1, c) /\ B.keys = SubSeq(p.keys, c + 2, Len(p.keys))
    BY DEF Index
  <2>2. NumKeys(A) = c /\ NumKeys(B) = Len(p.keys) - c - 1
    BY <1>5, <2>1, Zenon DEF NumKeys
  <2>3. Len(p.keys) - c - 1 = Order - c
    BY <1>2, <1>3
  <2> QED
    BY <1>3, <2>2, <2>3
<1> HIDE DEF A, B, m
<1>10. /\ State(s4) /\ s4.next = n + 1 /\ s4.root = s.root /\ s4.pages[id] = A /\ s4.pages[n] = B
       /\ \A q \in DOMAIN s.pages \ {id} : s4.pages[q] = s.pages[q]
  <2>1. /\ State(s1) /\ s1.next = n + 1 /\ s1.root = s.root
        /\ \A q \in DOMAIN s.pages : s1.pages[q] = s.pages[q]
        /\ n \notin DOMAIN s.pages /\ DOMAIN s1.pages = DOMAIN s.pages \cup {n}
    BY NewPageIs
  <2> HIDE DEF s1
  <2>2. /\ State(s2) /\ s2.next = s1.next /\ s2.root = s1.root /\ DOMAIN s2.pages = DOMAIN s1.pages
        /\ s2.pages[id] = A /\ \A q \in DOMAIN s1.pages : q # id => s2.pages[q] = s1.pages[q]
    BY <2>1, SetPageIs
  <2> HIDE DEF s2
  <2>3. /\ State(s3) /\ s3.next = s2.next /\ s3.root = s2.root /\ DOMAIN s3.pages = DOMAIN s2.pages
        /\ s3.pages[n] = B /\ \A q \in DOMAIN s2.pages : q # n => s3.pages[q] = s2.pages[q]
    BY <2>1, <2>2, SetPageIs
  <2> HIDE DEF s3
  <2>4. State(s4) /\ s4.next = s3.next /\ s4.root = s3.root /\ s4.pages = s3.pages
    BY <2>3, MarkDirtyIs
  <2> HIDE DEF s4
  <2> QED
    BY <2>1, <2>2, <2>3, <2>4
<1> HIDE DEF s1, s2, s3, s4, r
<1>11. \A k, v : InPage(p, k, v) <=> InPage(A, k, v) \/ InPage(B, k, v)
  <2>1. ~A.leaf /\ ~B.leaf
    BY DEF A, B, Index
  <2> QED
    BY <1>2, <2>1 DEF InPage
<1>12. r.s = s4 /\ r.split = [key |-> m, page |-> n] /\ r.split.key = m
  BY <1>1
<1>13. Fits(g, A, l, a, m) /\ Fits(g, B, l, m, b) /\ l # 0
  BY <1>5 DEF Fits
<1>14. Halves(g, s, id, l, a, b, r)
  BY <1>6, <1>7, <1>10, <1>11, <1>12, <1>13 DEF Halves
<1> QED
  BY <1>14 DEF r

-----------------------------------------------------------------------------
(* Sharing out the keys of two neighbours *)

\* An index page with a separator and a child more, at either end.
LEMMA GrowIndex ==
    ASSUME NEW g, NEW p, NEW l, NEW a, NEW m \in Key, NEW b, NEW c, c \in g.at, g.level[c] = l - 1
    PROVE  /\ IndexFits(g, p, l, a, m) /\ g.lo[c] = m /\ g.hi[c] = b
              => /\ IndexFits(g, Index(Append(p.keys, m), Append(p.kids, c)), l, a, b)
                 /\ Len(Append(p.keys, m)) = Len(p.keys) + 1
           /\ IndexFits(g, p, l, m, b) /\ g.lo[c] = a /\ g.hi[c] = m
              => /\ IndexFits(g, Index(<<m>> \o p.keys, <<c>> \o p.kids), l, a, b)
                 /\ Len(<<m>> \o p.keys) = Len(p.keys) + 1
<1>1. PICK r : r = Index(<<>>, <<c>>)
  OBVIOUS
<1>2. /\ ~r.leaf /\ r.keys = <<>> /\ r.kids = <<c>> /\ Len(r.keys) = 0 /\ Len(r.kids) = 1
      /\ r.keys \in Seq(Key) /\ r.kids \in Seq(g.at) /\ r.kids[1] = c
  <2>1. ~r.leaf /\ r.keys = <<>> /\ r.kids = <<c>>
    BY <1>1 DEF Index
  <2>2. PICK s : s = <<c>>
    OBVIOUS
  <2>3. s \in Seq(g.at) /\ Len(s) = 1 /\ s[1] = c
    <3>1. PICK At : At = g.at
      OBVIOUS
    <3>2. c \in At
      BY <3>1
    <3>3. s \in Seq(At)
      BY <2>2, <3>2
    <3>4. Len(s) = 1 /\ s[1] = c
      BY <2>2
    <3> QED
      BY <3>1, <3>3, <3>4
  <2>4. <<>> \in Seq(Key) /\ Len(<<>>) = 0
    OBVIOUS
  <2> QED
    BY <2>1, <2>2, <2>3, <2>4
<1>3. ASSUME NEW x, NEW y, g.lo[c] = x, g.hi[c] = y
      PROVE  IndexFits(g, r, l, x, y)
  BY <1>2, <1>3 DEF IndexFits, LowOf, HighOf
<1>4. ASSUME IndexFits(g, p, l, a, m), g.lo[c] = m, g.hi[c] = b
      PROVE  /\ IndexFits(g, Index(Append(p.keys, m), Append(p.kids, c)), l, a, b)
             /\ Len(Append(p.keys, m)) = Len(p.keys) + 1
  <2>1. p.keys \in Seq(Key) /\ p.kids \in Seq(g.at) /\ Len(p.keys) \in Nat
    BY <1>4 DEF IndexFits
  <2>2. /\ IndexFits(g, Index(p.keys \o <<m>> \o r.keys, p.kids \o r.kids), l, a, b)
        /\ Len(p.keys \o <<m>> \o r.keys) = Len(p.keys) + 1 + Len(r.keys)
    BY <1>3, <1>4, GlueIndex
  <2>3. Append(p.keys, m) = p.keys \o <<m>> /\ Append(p.kids, c) = p.kids \o <<c>>
    BY <2>1, AppendIsConcat
  <2>4. Append(p.keys, m) \in Seq(Key)
    BY <2>1
  <2>5. Append(p.keys, m) \o <<>> = Append(p.keys, m)
    BY <2>4, ConcatEmptySeq
  <2> QED
    BY <1>2, <2>1, <2>2, <2>3, <2>4, <2>5
<1>5. ASSUME IndexFits(g, p, l, m, b), g.lo[c] = a, g.hi[c] = m
      PROVE  /\ IndexFits(g, Index(<<m>> \o p.keys, <<c>> \o p.kids), l, a, b)
             /\ Len(<<m>> \o p.keys) = Len(p.keys) + 1
  <2>1. p.keys \in Seq(Key) /\ p.kids \in Seq(g.at) /\ Len(p.keys) \in Nat
    BY <1>5 DEF IndexFits
  <2>2. /\ IndexFits(g, Index(r.keys \o <<m>> \o p.keys, r.kids \o p.kids), l, a, b)
        /\ Len(r.keys \o <<m>> \o p.keys) = Len(r.keys) + 1 + Len(p.keys)
    BY <1>3, <1>5, GlueIndex
  <2>3. PICK s : s = <<m>>
    OBVIOUS
  <2>5. s \in Seq(Key)
    BY <2>3
  <2>4. <<>> \o s = s
    BY <2>5, ConcatEmptySeq
  <2> QED
    BY <1>2, <2>1, <2>2, <2>3, <2>4
<1> QED
  BY <1>4, <1>5

\* An index page without its first or last child.
LEMMA ShrinkIndex ==
    ASSUME NEW g, NEW p, NEW l, NEW a, NEW b, IndexFits(g, p, l, a, b), Len(p.keys) # 0
    PROVE  /\ IndexFits(g, Index(Tail(p.keys), Tail(p.kids)), l, p.keys[1], b)
           /\ Len(Tail(p.keys)) = Len(p.keys) - 1
           /\ g.lo[p.kids[1]] = a /\ g.hi[p.kids[1]] = p.keys[1]
           /\ p.kids[1] \in g.at /\ g.level[p.kids[1]] = l - 1
           /\ IndexFits(g, Index(Front(p.keys), Front(p.kids)), l, a, Last(p.keys))
           /\ Len(Front(p.keys)) = Len(p.keys) - 1
           /\ g.lo[Last(p.kids)] = Last(p.keys) /\ g.hi[Last(p.kids)] = b
           /\ Last(p.kids) \in g.at /\ g.level[Last(p.kids)] = l - 1
<1>1. PICK N \in Nat : N = Len(p.keys)
  BY DEF IndexFits
<1>2. N >= 1 /\ p.keys \in Seq(Key) /\ p.kids \in Seq(g.at) /\ Len(p.kids) = N + 1
  BY <1>1 DEF IndexFits
<1>3. PICK keys \in Seq(Key), kids \in Seq(g.at) : keys = p.keys /\ kids = p.kids
  BY <1>2
<1>4. Len(keys) = N /\ Len(kids) = N + 1 /\ keys # <<>> /\ kids # <<>>
  BY <1>1, <1>2, <1>3
<1>5. Tail(keys) = SubSeq(keys, 2, N) /\ Tail(kids) = SubSeq(kids, 2, N + 1)
  BY <1>4, TailIsSubSeq
<1>6. Front(keys) = SubSeq(keys, 1, N - 1) /\ Front(kids) = SubSeq(kids, 1, N)
  BY <1>2, <1>4 DEF Front
<1>7. Last(keys) = keys[N] /\ Last(kids) = kids[N + 1]
  BY <1>4 DEF Last
<1>8. /\ IndexFits(g, Index(SubSeq(p.keys, 2, N), SubSeq(p.kids, 2, N + 1)), l, p.keys[1], b)
      /\ Len(SubSeq(p.keys, 2, N)) = N - 1
  <2>1. 0 \in 0..(Len(p.keys) - 1)
    BY <1>1, <1>2
  <2>2. PICK c \in Nat : c = 0 /\ c + 1 = 1 /\ c + 2 = 2 /\ Len(p.keys) - c - 1 = Len(p.keys) - 1
    BY <1>1
  <2>4. c \in 0..(Len(p.keys) - 1)
    BY <2>1, <2>2
  <2>3. /\ IndexFits(g, Index(SubSeq(p.keys, 1, c), SubSeq(p.kids, 1, c + 1)), l, a, p.keys[c + 1])
        /\ IndexFits(g, Index(SubSeq(p.keys, c + 2, Len(p.keys)), SubSeq(p.kids, c + 2, Len(p.kids))),
                     l, p.keys[c + 1], b)
        /\ Len(SubSeq(p.keys, 1, c)) = c
        /\ Len(SubSeq(p.keys, c + 2, Len(p.keys))) = Len(p.keys) - c - 1
    BY <2>4, CutIndex
  <2> QED
    BY <1>1, <1>2, <2>2, <2>3
<1>9. /\ IndexFits(g, Index(SubSeq(p.keys, 1, N - 1), SubSeq(p.kids, 1, N)), l, a, p.keys[N])
      /\ Len(SubSeq(p.keys, 1, N - 1)) = N - 1
  <2>1. PICK c \in Nat : c = N - 1 /\ c + 1 = N
    BY <1>2
  <2>2. c \in 0..(Len(p.keys) - 1)
    BY <1>1, <2>1
  <2>3. /\ IndexFits(g, Index(SubSeq(p.keys, 1, c), SubSeq(p.kids, 1, c + 1)), l, a, p.keys[c + 1])
        /\ Len(SubSeq(p.keys, 1, c)) = c
    BY <2>2, CutIndex
  <2> QED
    BY <2>1, <2>3
<1>10. \A x \in 1..(N + 1) : /\ p.kids[x] \in g.at /\ g.level[p.kids[x]] = l - 1
                             /\ g.lo[p.kids[x]] = LowOf(p, a, x)
                             /\ g.hi[p.kids[x]] = HighOf(p, b, x)
  BY <1>2 DEF IndexFits
<1>11. 1 \in 1..(N + 1) /\ N + 1 \in 1..(N + 1) /\ 1 # N + 1 /\ N + 1 - 1 = N
  BY <1>2
<1>12. LowOf(p, a, 1) = a /\ HighOf(p, b, 1) = p.keys[1] /\ LowOf(p, a, N + 1) = p.keys[N] /\ HighOf(p, b, N + 1) = b
  BY <1>2, <1>11 DEF LowOf, HighOf
<1> QED
  BY <1>1, <1>3, <1>5, <1>6, <1>7, <1>8, <1>9, <1>10, <1>11, <1>12

\* t is s, but for pages a and b, which meet at m now, and their separator in q.
SharedOut(g, s, t, q, i, a, b, m) ==
    LET A == t.pages[a]
        B == t.pages[b]
        l == g.level[a]
    IN  /\ State(t) /\ t.next = s.next /\ t.root = s.root
        /\ m \in Key /\ g.lo[a] < m /\ m < g.hi[b]
        /\ Fits(g, A, l, g.lo[a], m) /\ Fits(g, B, l, m, g.hi[b])
        /\ l = 0 => A.next = s.pages[a].next /\ B.next = s.pages[b].next
        /\ t.pages[q] = Index(ReplaceAt(s.pages[q].keys, i, m), s.pages[q].kids)
        /\ \A p \in DOMAIN s.pages \ {a, b, q} : t.pages[p] = s.pages[p]
        /\ \A k, v : InPage(s.pages[a], k, v) \/ InPage(s.pages[b], k, v) <=> InPage(A, k, v) \/ InPage(B, k, v)

\* t is s, but for three pages.
Replaced(s, t, a, A, b, B, q, Q) ==
    /\ State(t) /\ t.next = s.next /\ t.root = s.root
    /\ t.pages[a] = A /\ t.pages[b] = B /\ t.pages[q] = Q
    /\ \A p \in DOMAIN s.pages \ {a, b, q} : t.pages[p] = s.pages[p]

\* Three pages are replaced and marked.
LEMMA ThreePages ==
    ASSUME NEW s, State(s), NEW a \in DOMAIN s.pages, NEW b \in DOMAIN s.pages, NEW q \in DOMAIN s.pages,
           a # b, a # q, b # q, NEW A, NEW B, NEW Q,
           NEW t, t = Dirty3(SetPage(SetPage(SetPage(s, a, A), b, B), q, Q), a, b, q)
    PROVE  Replaced(s, t, a, A, b, B, q, Q)
<1>1. PICK s1 : s1 = SetPage(s, a, A)
  OBVIOUS
<1>2. PICK s2 : s2 = SetPage(s1, b, B)
  OBVIOUS
<1>3. PICK s3 : s3 = SetPage(s2, q, Q)
  OBVIOUS
<1>4. PICK s4 : s4 = MarkDirty(s3, a)
  OBVIOUS
<1>5. PICK s5 : s5 = MarkDirty(s4, b)
  OBVIOUS
<1>6. t = MarkDirty(s5, q)
  BY <1>1, <1>2, <1>3, <1>4, <1>5 DEF Dirty3
<1>7. /\ State(s1) /\ s1.next = s.next /\ s1.root = s.root /\ DOMAIN s1.pages = DOMAIN s.pages
      /\ s1.pages[a] = A /\ \A p \in DOMAIN s.pages : p # a => s1.pages[p] = s.pages[p]
  BY <1>1, SetPageIs
<1>8. /\ State(s2) /\ s2.next = s1.next /\ s2.root = s1.root /\ DOMAIN s2.pages = DOMAIN s1.pages
      /\ s2.pages[b] = B /\ \A p \in DOMAIN s1.pages : p # b => s2.pages[p] = s1.pages[p]
  <2>1. State(s1) /\ b \in DOMAIN s1.pages /\ s2 = SetPage(s1, b, B)
    BY <1>2, <1>7
  <2> QED
    BY <2>1, SetPageIs
<1>9. /\ State(s3) /\ s3.next = s2.next /\ s3.root = s2.root /\ DOMAIN s3.pages = DOMAIN s2.pages
      /\ s3.pages[q] = Q /\ \A p \in DOMAIN s2.pages : p # q => s3.pages[p] = s2.pages[p]
  <2>1. State(s2) /\ q \in DOMAIN s2.pages /\ s3 = SetPage(s2, q, Q)
    BY <1>3, <1>7, <1>8
  <2> QED
    BY <2>1, SetPageIs
<1>10. State(s4) /\ s4.next = s3.next /\ s4.root = s3.root /\ s4.pages = s3.pages
  BY <1>4, <1>9, MarkDirtyIs
<1>11. State(s5) /\ s5.next = s4.next /\ s5.root = s4.root /\ s5.pages = s4.pages
  BY <1>5, <1>10, MarkDirtyIs
<1>12. State(t) /\ t.next = s5.next /\ t.root = s5.root /\ t.pages = s5.pages
  BY <1>6, <1>11, MarkDirtyIs
<1> QED
  BY <1>7, <1>8, <1>9, <1>10, <1>11, <1>12 DEF Replaced

\* Leaves A and B are leaves p and r, but for the row of k.
RowMoved(p, r, k, A, B) ==
    /\ A.leaf /\ DOMAIN A.rows = DOMAIN p.rows \cup {k} /\ A.next = p.next
    /\ A.rows[k] = r.rows[k] /\ \A x \in DOMAIN p.rows : A.rows[x] = p.rows[x]
    /\ B.leaf /\ DOMAIN B.rows = DOMAIN r.rows \ {k} /\ B.next = r.next
    /\ \A x \in DOMAIN r.rows \ {k} : B.rows[x] = r.rows[x]
    /\ NumKeys(A) = NumKeys(p) + 1 /\ NumKeys(B) = NumKeys(r) - 1
    /\ \A x, v : InPage(p, x, v) \/ InPage(r, x, v) <=> InPage(A, x, v) \/ InPage(B, x, v)

\* One key k, with its row, moves from leaf r to leaf p.
LEMMA RowMoves ==
    ASSUME NEW p, p.leaf, NEW r, r.leaf, IsFiniteSet(DOMAIN p.rows), IsFiniteSet(DOMAIN r.rows),
           NEW k \in DOMAIN r.rows, k \notin DOMAIN p.rows,
           NEW A, A = Leaf(With(p.rows, k, r.rows[k]), p.next),
           NEW B, B = Leaf(Restrict(r.rows, DOMAIN r.rows \ {k}), r.next)
    PROVE  RowMoved(p, r, k, A, B)
<1>1. PICK f : f = With(p.rows, k, r.rows[k])
  OBVIOUS
<1>2. DOMAIN f = DOMAIN p.rows \cup {k} /\ f[k] = r.rows[k] /\ \A x \in DOMAIN p.rows : f[x] = p.rows[x]
  BY <1>1 DEF With
<1>3. A.leaf /\ A.rows = f /\ A.next = p.next
  BY <1>1 DEF Leaf
<1>4. PICK e : e = Restrict(r.rows, DOMAIN r.rows \ {k})
  OBVIOUS
<1>5. DOMAIN e = DOMAIN r.rows \ {k} /\ \A x \in DOMAIN r.rows \ {k} : e[x] = r.rows[x]
  BY <1>4 DEF Restrict
<1>6. B.leaf /\ B.rows = e /\ B.next = r.next
  BY <1>4 DEF Leaf
<1>7. Cardinality(DOMAIN f) = Cardinality(DOMAIN p.rows) + 1
  BY <1>2, FS_AddElement
<1>8. Cardinality(DOMAIN e) = Cardinality(DOMAIN r.rows) - 1
  BY <1>5, FS_RemoveElement
<1>9. NumKeys(A) = NumKeys(p) + 1 /\ NumKeys(B) = NumKeys(r) - 1
  BY <1>3, <1>6, <1>7, <1>8 DEF NumKeys
<1>10. ASSUME NEW x, NEW v
       PROVE  InPage(p, x, v) \/ InPage(r, x, v) <=> InPage(A, x, v) \/ InPage(B, x, v)
  BY <1>2, <1>3, <1>5, <1>6 DEF InPage
<1> QED
  BY <1>2, <1>3, <1>5, <1>6, <1>9, <1>10 DEF RowMoved

\* With the row of k, the boundary of the two leaves moves to m.
Moved(p, r, k, A, B, x, m, z, left, right) ==
    /\ RowMoved(p, r, k, A, B)
    /\ m \in Key /\ x < m /\ m < z /\ LeafFits(left, x, m) /\ LeafFits(right, m, z)

\* The lowest row of a leaf moves to the leaf on its left.
LEMMA LowestMoves ==
    ASSUME NEW x \in Int, NEW y \in Int, NEW z \in Int, x < y,
           NEW p, LeafFits(p, x, y), NEW r, LeafFits(r, y, z), NumKeys(r) > 1,
           NEW k, k = Min(DOMAIN r.rows), NEW m, m = Min(DOMAIN r.rows \ {k}),
           NEW A, A = Leaf(With(p.rows, k, r.rows[k]), p.next),
           NEW B, B = Leaf(Restrict(r.rows, DOMAIN r.rows \ {k}), r.next)
    PROVE  Moved(p, r, k, A, B, x, m, z, A, B)
<1>1. /\ p.leaf /\ IsFiniteSet(DOMAIN p.rows) /\ DOMAIN p.rows \in SUBSET Int
      /\ r.leaf /\ IsFiniteSet(DOMAIN r.rows) /\ DOMAIN r.rows \in SUBSET Nat /\ DOMAIN r.rows \in SUBSET Int
      /\ Cardinality(DOMAIN r.rows) = NumKeys(r)
  BY LeafRows
<1>2. /\ \A j \in DOMAIN p.rows : p.rows[j] \in Row /\ x <= j /\ j < y /\ j \in Key
      /\ \A j \in DOMAIN r.rows : r.rows[j] \in Row /\ y <= j /\ j < z /\ j \in Key
  BY DEF LeafFits
<1>3. DOMAIN r.rows # {}
  BY <1>1, FS_EmptySet
<1>4. k \in DOMAIN r.rows /\ \A j \in DOMAIN r.rows : k <= j
  BY <1>1, <1>3, MinOf
<1>5. PICK rest : rest = DOMAIN r.rows \ {k}
  OBVIOUS
<1>6. rest # {}
  <2>0. PICK S : S = DOMAIN r.rows
    OBVIOUS
  <2>1. Cardinality(rest) = Cardinality(DOMAIN r.rows) - 1
    <3>1. IsFiniteSet(S) /\ k \in S
      BY <1>1, <1>4, <2>0
    <3>2. Cardinality(S \ {k}) = Cardinality(S) - 1
      BY <3>1, FS_RemoveElement
    <3> QED
      BY <1>5, <2>0, <3>2
  <2>2. Cardinality(DOMAIN r.rows) \in Nat
    BY <1>1, FS_CardinalityType
  <2>3. Cardinality(rest) # 0
    BY <1>1, <2>1, <2>2
  <2> QED
    BY <2>3, FS_EmptySet
<1>7. rest \in SUBSET Nat
  BY <1>1, <1>5
<1>8. m \in rest /\ \A j \in rest : m <= j
  BY <1>5, <1>6, <1>7, MinOf
<1>9. m \in DOMAIN r.rows /\ m # k
  BY <1>5, <1>8
<1>10. k \in Int /\ m \in Int
  BY <1>1, <1>4, <1>9
<1>11. k < m /\ m \in Key /\ y <= k /\ m < z
  BY <1>2, <1>4, <1>9, <1>10
<1>12. k \notin DOMAIN p.rows
  BY <1>2, <1>10, <1>11
<1>13. RowMoved(p, r, k, A, B)
  BY <1>1, <1>4, <1>12, RowMoves
<1>14. LeafFits(A, x, m)
  <2>1. \A j \in DOMAIN p.rows : j \in Int /\ x <= j /\ j < m
    BY <1>1, <1>2, <1>10, <1>11
  <2>2. x <= k /\ k < m /\ k \in Key /\ r.rows[k] \in Row
    BY <1>2, <1>4, <1>10, <1>11
  <2> QED
    BY <1>2, <1>13, <2>1, <2>2, ZenonT(30) DEF LeafFits, RowMoved
<1>15. LeafFits(B, m, z)
  BY <1>2, <1>5, <1>8, <1>13, ZenonT(30) DEF LeafFits, RowMoved
<1> QED
  BY <1>10, <1>11, <1>13, <1>14, <1>15 DEF Moved

\* The highest row of a leaf moves to the leaf on its right.
LEMMA HighestMoves ==
    ASSUME NEW x \in Int, NEW y \in Int, NEW z \in Int, y < z,
           NEW r, LeafFits(r, x, y), NumKeys(r) > 1, NEW p, LeafFits(p, y, z),
           NEW k, k = Max(DOMAIN r.rows),
           NEW A, A = Leaf(With(p.rows, k, r.rows[k]), p.next),
           NEW B, B = Leaf(Restrict(r.rows, DOMAIN r.rows \ {k}), r.next)
    PROVE  Moved(p, r, k, A, B, x, k, z, B, A)
<1>1. /\ p.leaf /\ IsFiniteSet(DOMAIN p.rows) /\ DOMAIN p.rows \in SUBSET Int
      /\ r.leaf /\ IsFiniteSet(DOMAIN r.rows) /\ DOMAIN r.rows \in SUBSET Int
      /\ Cardinality(DOMAIN r.rows) = NumKeys(r)
  BY LeafRows
<1>2. /\ \A j \in DOMAIN p.rows : p.rows[j] \in Row /\ y <= j /\ j < z /\ j \in Key
      /\ \A j \in DOMAIN r.rows : r.rows[j] \in Row /\ x <= j /\ j < y /\ j \in Key
  BY DEF LeafFits
<1>3. DOMAIN r.rows # {}
  BY <1>1, FS_EmptySet
<1>4. k \in DOMAIN r.rows /\ \A j \in DOMAIN r.rows : j <= k
  BY <1>1, <1>3, MaxOf
<1>5. PICK rest : rest = DOMAIN r.rows \ {k}
  OBVIOUS
<1>6. PICK m : m \in rest
  <2>0. PICK S : S = DOMAIN r.rows
    OBVIOUS
  <2>1. Cardinality(rest) = Cardinality(DOMAIN r.rows) - 1
    <3>1. IsFiniteSet(S) /\ k \in S
      BY <1>1, <1>4, <2>0
    <3>2. Cardinality(S \ {k}) = Cardinality(S) - 1
      BY <3>1, FS_RemoveElement
    <3> QED
      BY <1>5, <2>0, <3>2
  <2>2. Cardinality(DOMAIN r.rows) \in Nat
    BY <1>1, FS_CardinalityType
  <2>3. Cardinality(rest) # 0
    BY <1>1, <2>1, <2>2
  <2> QED
    BY <2>3, FS_EmptySet
<1>9. m \in DOMAIN r.rows /\ m # k
  BY <1>5, <1>6
<1>10. k \in Int /\ m \in Int
  BY <1>1, <1>4, <1>9
<1>11. m < k /\ k \in Key /\ x <= m /\ k < y
  BY <1>2, <1>4, <1>9, <1>10
<1>12. k \notin DOMAIN p.rows
  BY <1>2, <1>10, <1>11
<1>13. RowMoved(p, r, k, A, B)
  BY <1>1, <1>4, <1>12, RowMoves
<1>14. LeafFits(A, k, z)
  <2>1. \A j \in DOMAIN p.rows : j \in Int /\ k <= j /\ j < z
    BY <1>1, <1>2, <1>10, <1>11
  <2>2. k < z /\ k <= k /\ r.rows[k] \in Row
    BY <1>2, <1>4, <1>10, <1>11
  <2> QED
    BY <1>2, <1>11, <1>13, <2>1, <2>2 DEF LeafFits, RowMoved
<1>15. LeafFits(B, x, k)
  <2>1. \A j \in rest : j \in Int /\ j <= k /\ j # k
    BY <1>1, <1>4, <1>5
  <2>2. \A j \in rest : j < k
    BY <1>10, <2>1
  <2> QED
    BY <1>2, <1>5, <1>13, <2>2, ZenonT(30) DEF LeafFits, RowMoved
<1> QED
  BY <1>10, <1>11, <1>13, <1>14, <1>15 DEF Moved

\* Pages p and r of two neighbours under page Q meet at y.
PairFits(s, g, h, q, i, a, b, p, r, Q, l, x, y, z) ==
    /\ a \in g.at /\ b \in g.at /\ a # b /\ a # q /\ b # q /\ i \in 1..Len(Q.keys)
    /\ a \in DOMAIN s.pages /\ b \in DOMAIN s.pages /\ q \in DOMAIN s.pages
    /\ x \in Int /\ y \in Int /\ y \in Key /\ z \in Int /\ x < y /\ y < z
    /\ Layout(g, s.root, h) /\ l = g.level[q] - 1
    /\ l = 0 => p.leaf /\ r.leaf /\ LeafFits(p, x, y) /\ LeafFits(r, y, z)
    /\ l # 0 => ~p.leaf /\ ~r.leaf /\ IndexFits(g, p, l, x, y) /\ IndexFits(g, r, l, y, z)

\* Two neighbours of a sound tree, with their pages.
LEMMA Pair ==
    ASSUME NEW s, NEW g, NEW h, Shape(s.pages, g, s.root, h),
           NEW q \in g.at, g.level[q] # 0,
           NEW i \in 1..Len(s.pages[q].kids), i # Len(s.pages[q].kids),
           NEW a, a = s.pages[q].kids[i], NEW b, b = s.pages[q].kids[i + 1],
           NEW p, p = s.pages[a], NEW r, r = s.pages[b], NEW Q, Q = s.pages[q],
           NEW l, l = g.level[a], NEW x, x = g.lo[a], NEW y, y = Q.keys[i], NEW z, z = g.hi[b]
    PROVE  PairFits(s, g, h, q, i, a, b, p, r, Q, l, x, y, z)
<1>1. /\ a \in g.at /\ b \in g.at /\ a # b /\ a # q /\ b # q
      /\ g.level[a] = g.level[q] - 1 /\ g.level[b] = g.level[q] - 1
      /\ g.hi[a] = Q.keys[i] /\ g.lo[b] = Q.keys[i] /\ i \in 1..Len(Q.keys)
  <2>1. /\ a \in g.at /\ b \in g.at /\ a # b /\ a # q /\ b # q
        /\ g.level[a] = g.level[q] - 1 /\ g.level[b] = g.level[q] - 1
        /\ g.hi[a] = s.pages[q].keys[i] /\ g.lo[b] = s.pages[q].keys[i]
        /\ i \in 1..Len(s.pages[q].keys)
    <3>1. Beside(s.pages, g, s.root, h, q, i, a, b)
      BY Neighbours, SMTT(20)
    <3> QED
      BY <3>1 DEF Beside
  <2> QED
    BY <2>1
<1>2. /\ a \in DOMAIN s.pages /\ g.lo[a] \in Int /\ g.hi[a] \in Int /\ g.lo[a] < g.hi[a]
      /\ s.pages[a].leaf <=> g.level[a] = 0
      /\ g.level[a] = 0 => LeafFits(s.pages[a], g.lo[a], g.hi[a])
      /\ g.level[a] # 0 => IndexFits(g, s.pages[a], g.level[a], g.lo[a], g.hi[a])
  BY <1>1, PageFits
<1>3. /\ b \in DOMAIN s.pages /\ g.lo[b] \in Int /\ g.hi[b] \in Int /\ g.lo[b] < g.hi[b]
      /\ s.pages[b].leaf <=> g.level[b] = 0
      /\ g.level[b] = 0 => LeafFits(s.pages[b], g.lo[b], g.hi[b])
      /\ g.level[b] # 0 => IndexFits(g, s.pages[b], g.level[b], g.lo[b], g.hi[b])
  BY <1>1, PageFits, ZenonT(30)
<1>4. q \in DOMAIN s.pages /\ Layout(g, s.root, h)
  BY DEF Shape
<1>5. Q.keys[i] \in Key
  <2>1. s.pages[q].keys[i] \in Key
    BY <1>1, ChildIs, ZenonT(30)
  <2> QED
    BY <2>1, SMTT(20)
<1> QED
  BY <1>1, <1>2, <1>3, <1>4, <1>5 DEF PairFits

\* The pages a and b have shared out their keys anew: one key has moved.
Lent(g, s, t, q, i, a, b, from, to) ==
    \E m : /\ SharedOut(g, s, t, q, i, a, b, m)
           /\ NumKeys(t.pages[to]) = NumKeys(s.pages[to]) + 1
           /\ NumKeys(t.pages[from]) = NumKeys(s.pages[from]) - 1

\* BorrowFromRight moves the boundary between a page and its right neighbour up.
LEMMA RightLends ==
    ASSUME NEW s, State(s), NEW g, NEW h, Shape(s.pages, g, s.root, h),
           NEW q \in g.at, g.level[q] # 0,
           NEW i \in 1..Len(s.pages[q].kids), i # Len(s.pages[q].kids),
           NEW a, a = s.pages[q].kids[i], NEW b, b = s.pages[q].kids[i + 1],
           NumKeys(s.pages[b]) > 1,
           NEW t, t = BorrowFromRight(s, a, b, i, q)
    PROVE  Lent(g, s, t, q, i, a, b, b, a)
<1>1. PICK p, r, Q, l, x, y, z :
         /\ p = s.pages[a] /\ r = s.pages[b] /\ Q = s.pages[q]
         /\ l = g.level[a] /\ x = g.lo[a] /\ y = Q.keys[i] /\ z = g.hi[b]
  OBVIOUS
<1>2. /\ a \in g.at /\ b \in g.at /\ a # b /\ a # q /\ b # q /\ i \in 1..Len(Q.keys)
      /\ a \in DOMAIN s.pages /\ b \in DOMAIN s.pages /\ q \in DOMAIN s.pages
      /\ x \in Int /\ y \in Int /\ y \in Key /\ z \in Int /\ x < y /\ y < z
      /\ Layout(g, s.root, h) /\ l = g.level[q] - 1
      /\ l = 0 => p.leaf /\ r.leaf /\ LeafFits(p, x, y) /\ LeafFits(r, y, z)
      /\ l # 0 => ~p.leaf /\ ~r.leaf /\ IndexFits(g, p, l, x, y) /\ IndexFits(g, r, l, y, z)
  <2>1. PairFits(s, g, h, q, i, a, b, p, r, Q, l, x, y, z)
    BY <1>1, Pair
  <2> QED
    BY <2>1 DEF PairFits
<1>3. NumKeys(r) > 1
  BY <1>1
<1>4. \E A, B, m : /\ t = Dirty3(SetPage(SetPage(SetPage(s, a, A), b, B), q, Index(ReplaceAt(Q.keys, i, m), Q.kids)), a, b, q)
                   /\ m \in Key /\ x < m /\ m < z /\ Fits(g, A, l, x, m) /\ Fits(g, B, l, m, z)
                   /\ NumKeys(A) = NumKeys(p) + 1 /\ NumKeys(B) = NumKeys(r) - 1
                   /\ l = 0 => A.next = p.next /\ B.next = r.next
                   /\ \A k, v : InPage(p, k, v) \/ InPage(r, k, v) <=> InPage(A, k, v) \/ InPage(B, k, v)
  <2>1. CASE l = 0
    <3>1. PICK k, m, A, B : /\ k = Min(DOMAIN r.rows) /\ m = Min(DOMAIN r.rows \ {k})
                            /\ A = Leaf(With(p.rows, k, r.rows[k]), p.next)
                            /\ B = Leaf(Restrict(r.rows, DOMAIN r.rows \ {k}), r.next)
      OBVIOUS
    <3>2. p.leaf /\ LeafFits(p, x, y) /\ LeafFits(r, y, z)
      BY <1>2, <2>1
    <3>3. /\ m \in Key /\ x < m /\ m < z /\ LeafFits(A, x, m) /\ LeafFits(B, m, z)
          /\ RowMoved(p, r, k, A, B)
      <4>1. Moved(p, r, k, A, B, x, m, z, A, B)
        BY <1>2, <1>3, <3>1, <3>2, LowestMoves
      <4> QED
        BY <4>1 DEF Moved
    <3>4. t = Dirty3(SetPage(SetPage(SetPage(s, a, A), b, B), q, Index(ReplaceAt(Q.keys, i, m), Q.kids)), a, b, q)
      BY <1>1, <3>1, <3>2, ZenonT(30) DEF BorrowFromRight
    <3>5. Fits(g, A, l, x, m) /\ Fits(g, B, l, m, z)
      BY <2>1, <3>3 DEF Fits
    <3>6. /\ NumKeys(A) = NumKeys(p) + 1 /\ NumKeys(B) = NumKeys(r) - 1
          /\ A.next = p.next /\ B.next = r.next
          /\ \A j, v : InPage(p, j, v) \/ InPage(r, j, v) <=> InPage(A, j, v) \/ InPage(B, j, v)
      BY <3>3 DEF RowMoved
    <3> QED
      BY <3>3, <3>4, <3>5, <3>6
  <2>2. CASE l # 0
    <3>1. PICK A, B, m, c : /\ c = r.kids[1] /\ m = r.keys[1]
                            /\ A = Index(Append(p.keys, y), Append(p.kids, c))
                            /\ B = Index(Tail(r.keys), Tail(r.kids))
      OBVIOUS
    <3>2. ~p.leaf /\ ~r.leaf /\ IndexFits(g, p, l, x, y) /\ IndexFits(g, r, l, y, z)
      BY <1>2, <2>2
    <3>3. Len(p.keys) \in Nat /\ Len(r.keys) \in Nat /\ NumKeys(p) = Len(p.keys) /\ NumKeys(r) = Len(r.keys)
      BY <3>2 DEF IndexFits, NumKeys
    <3>4. Len(r.keys) # 0 /\ 1 \in 1..Len(r.keys)
      BY <1>3, <3>3
    <3>5. /\ IndexFits(g, B, l, m, z) /\ Len(Tail(r.keys)) = Len(r.keys) - 1
          /\ g.lo[c] = y /\ g.hi[c] = m /\ c \in g.at /\ g.level[c] = l - 1
      BY <3>1, <3>2, <3>4, ShrinkIndex
    <3>6. m \in Key /\ m \in Int /\ y < m /\ m < z
      BY <1>2, <3>1, <3>2, <3>4, Edges
    <3>7. IndexFits(g, A, l, x, m) /\ Len(Append(p.keys, y)) = Len(p.keys) + 1
      BY <1>2, <3>1, <3>2, <3>5, GrowIndex, ZenonT(30)
    <3>8. ~A.leaf /\ ~B.leaf /\ A.keys = Append(p.keys, y) /\ B.keys = Tail(r.keys)
      BY <3>1 DEF Index
    <3>9. NumKeys(A) = NumKeys(p) + 1 /\ NumKeys(B) = NumKeys(r) - 1
      BY <3>3, <3>5, <3>7, <3>8 DEF NumKeys
    <3>10. \A j, v : InPage(p, j, v) \/ InPage(r, j, v) <=> InPage(A, j, v) \/ InPage(B, j, v)
      BY <3>2, <3>8 DEF InPage
    <3>11. t = Dirty3(SetPage(SetPage(SetPage(s, a, A), b, B), q, Index(ReplaceAt(Q.keys, i, m), Q.kids)), a, b, q)
      BY <1>1, <3>1, <3>2, Zenon DEF BorrowFromRight
    <3>12. Fits(g, A, l, x, m) /\ Fits(g, B, l, m, z) /\ x < m
      BY <1>2, <2>2, <3>5, <3>6, <3>7, SMTT(20) DEF Fits
    <3> QED
      BY <2>2, <3>6, <3>9, <3>10, <3>11, <3>12
  <2> QED
    BY <2>1, <2>2
<1>5. PICK A, B, m : /\ t = Dirty3(SetPage(SetPage(SetPage(s, a, A), b, B), q, Index(ReplaceAt(Q.keys, i, m), Q.kids)), a, b, q)
                     /\ m \in Key /\ x < m /\ m < z /\ Fits(g, A, l, x, m) /\ Fits(g, B, l, m, z)
                     /\ NumKeys(A) = NumKeys(p) + 1 /\ NumKeys(B) = NumKeys(r) - 1
                     /\ l = 0 => A.next = p.next /\ B.next = r.next
                     /\ \A k, v : InPage(p, k, v) \/ InPage(r, k, v) <=> InPage(A, k, v) \/ InPage(B, k, v)
  BY <1>4
<1>6. /\ State(t) /\ t.next = s.next /\ t.root = s.root
      /\ t.pages[a] = A /\ t.pages[b] = B /\ t.pages[q] = Index(ReplaceAt(Q.keys, i, m), Q.kids)
      /\ \A j \in DOMAIN s.pages \ {a, b, q} : t.pages[j] = s.pages[j]
  <2>1. PICK N : N = Index(ReplaceAt(Q.keys, i, m), Q.kids)
    BY SMTT(20)
  <2>2. Replaced(s, t, a, A, b, B, q, N)
    BY <1>2, <1>5, <2>1, ThreePages
  <2> QED
    BY <2>1, <2>2, Zenon DEF Replaced
<1>7. SharedOut(g, s, t, q, i, a, b, m)
  BY <1>1, <1>5, <1>6, Zenon DEF SharedOut
<1> QED
  BY <1>1, <1>5, <1>6, <1>7, Zenon DEF Lent

\* BorrowFromLeft moves the boundary between a page and its left neighbour down.
LEMMA LeftLends ==
    ASSUME NEW s, State(s), NEW g, NEW h, Shape(s.pages, g, s.root, h),
           NEW q \in g.at, g.level[q] # 0,
           NEW i \in 1..Len(s.pages[q].kids), i # Len(s.pages[q].kids),
           NEW a, a = s.pages[q].kids[i], NEW b, b = s.pages[q].kids[i + 1],
           NumKeys(s.pages[a]) > 1,
           NEW t, t = BorrowFromLeft(s, b, a, i + 1, q)
    PROVE  Lent(g, s, t, q, i, a, b, a, b)
<1>1. PICK r, p, Q, l, x, y, z :
         /\ r = s.pages[a] /\ p = s.pages[b] /\ Q = s.pages[q]
         /\ l = g.level[a] /\ x = g.lo[a] /\ y = Q.keys[i] /\ z = g.hi[b]
  OBVIOUS
<1>2. /\ a \in g.at /\ b \in g.at /\ a # b /\ a # q /\ b # q /\ i \in 1..Len(Q.keys)
      /\ a \in DOMAIN s.pages /\ b \in DOMAIN s.pages /\ q \in DOMAIN s.pages
      /\ x \in Int /\ y \in Int /\ y \in Key /\ z \in Int /\ x < y /\ y < z
      /\ Layout(g, s.root, h) /\ l = g.level[q] - 1
      /\ l = 0 => r.leaf /\ p.leaf /\ LeafFits(r, x, y) /\ LeafFits(p, y, z)
      /\ l # 0 => ~r.leaf /\ ~p.leaf /\ IndexFits(g, r, l, x, y) /\ IndexFits(g, p, l, y, z)
  <2>1. PairFits(s, g, h, q, i, a, b, r, p, Q, l, x, y, z)
    BY <1>1, Pair
  <2> QED
    BY <2>1 DEF PairFits
<1>3. NumKeys(r) > 1
  BY <1>1
<1>0. (i + 1) - 1 = i
  OBVIOUS
<1>4. \E A, B, m : /\ t = Dirty3(SetPage(SetPage(SetPage(s, b, A), a, B), q, Index(ReplaceAt(Q.keys, i, m), Q.kids)), b, a, q)
                   /\ m \in Key /\ x < m /\ m < z /\ Fits(g, A, l, m, z) /\ Fits(g, B, l, x, m)
                   /\ NumKeys(A) = NumKeys(p) + 1 /\ NumKeys(B) = NumKeys(r) - 1
                   /\ l = 0 => A.next = p.next /\ B.next = r.next
                   /\ \A k, v : InPage(p, k, v) \/ InPage(r, k, v) <=> InPage(A, k, v) \/ InPage(B, k, v)
  <2>1. CASE l = 0
    <3>1. PICK k, A, B : /\ k = Max(DOMAIN r.rows)
                         /\ A = Leaf(With(p.rows, k, r.rows[k]), p.next)
                         /\ B = Leaf(Restrict(r.rows, DOMAIN r.rows \ {k}), r.next)
      OBVIOUS
    <3>2. p.leaf /\ LeafFits(p, y, z) /\ LeafFits(r, x, y)
      BY <1>2, <2>1
    <3>3. /\ k \in Key /\ x < k /\ k < z /\ LeafFits(A, k, z) /\ LeafFits(B, x, k)
          /\ RowMoved(p, r, k, A, B)
      <4>1. Moved(p, r, k, A, B, x, k, z, B, A)
        BY <1>2, <1>3, <3>1, <3>2, HighestMoves
      <4> QED
        BY <4>1 DEF Moved
    <3>4. t = Dirty3(SetPage(SetPage(SetPage(s, b, A), a, B), q, Index(ReplaceAt(Q.keys, i, k), Q.kids)), b, a, q)
      BY <1>0, <1>1, <3>1, <3>2, Zenon DEF BorrowFromLeft
    <3>5. Fits(g, A, l, k, z) /\ Fits(g, B, l, x, k)
      BY <2>1, <3>3 DEF Fits
    <3>6. /\ NumKeys(A) = NumKeys(p) + 1 /\ NumKeys(B) = NumKeys(r) - 1
          /\ A.next = p.next /\ B.next = r.next
          /\ \A j, v : InPage(p, j, v) \/ InPage(r, j, v) <=> InPage(A, j, v) \/ InPage(B, j, v)
      BY <3>3 DEF RowMoved
    <3> QED
      BY <3>3, <3>4, <3>5, <3>6
  <2>2. CASE l # 0
    <3>1. PICK A, B, m, c : /\ c = Last(r.kids) /\ m = Last(r.keys)
                            /\ A = Index(<<y>> \o p.keys, <<c>> \o p.kids)
                            /\ B = Index(Front(r.keys), Front(r.kids))
      OBVIOUS
    <3>2. ~p.leaf /\ ~r.leaf /\ IndexFits(g, p, l, y, z) /\ IndexFits(g, r, l, x, y)
      BY <1>2, <2>2
    <3>3. Len(p.keys) \in Nat /\ Len(r.keys) \in Nat /\ NumKeys(p) = Len(p.keys) /\ NumKeys(r) = Len(r.keys)
      BY <3>2 DEF IndexFits, NumKeys
    <3>4. Len(r.keys) # 0 /\ Len(r.keys) \in 1..Len(r.keys)
      BY <1>3, <3>3
    <3>5. /\ IndexFits(g, B, l, x, m) /\ Len(Front(r.keys)) = Len(r.keys) - 1
          /\ g.lo[c] = m /\ g.hi[c] = y /\ c \in g.at /\ g.level[c] = l - 1
      BY <3>1, <3>2, <3>4, ShrinkIndex
    <3>6. m \in Key /\ m \in Int /\ x < m /\ m < y
      <4>1. m = r.keys[Len(r.keys)]
        BY <3>1 DEF Last
      <4> QED
        BY <1>2, <3>2, <3>4, <4>1, Edges
    <3>7. IndexFits(g, A, l, m, z) /\ Len(<<y>> \o p.keys) = Len(p.keys) + 1
      BY <1>2, <3>1, <3>2, <3>5, GrowIndex, ZenonT(30)
    <3>8. ~A.leaf /\ ~B.leaf /\ A.keys = <<y>> \o p.keys /\ B.keys = Front(r.keys)
      BY <3>1 DEF Index
    <3>9. NumKeys(A) = NumKeys(p) + 1 /\ NumKeys(B) = NumKeys(r) - 1
      BY <3>3, <3>5, <3>7, <3>8 DEF NumKeys
    <3>10. \A j, v : InPage(p, j, v) \/ InPage(r, j, v) <=> InPage(A, j, v) \/ InPage(B, j, v)
      BY <3>2, <3>8 DEF InPage
    <3>11. t = Dirty3(SetPage(SetPage(SetPage(s, b, A), a, B), q, Index(ReplaceAt(Q.keys, i, m), Q.kids)), b, a, q)
      BY <1>0, <1>1, <3>1, <3>2, Zenon DEF BorrowFromLeft
    <3>12. Fits(g, A, l, m, z) /\ Fits(g, B, l, x, m) /\ m < z
      BY <1>2, <2>2, <3>5, <3>6, <3>7 DEF Fits
    <3> QED
      BY <2>2, <3>6, <3>9, <3>10, <3>11, <3>12
  <2> QED
    BY <2>1, <2>2
<1>5. PICK A, B, m : /\ t = Dirty3(SetPage(SetPage(SetPage(s, b, A), a, B), q, Index(ReplaceAt(Q.keys, i, m), Q.kids)), b, a, q)
                     /\ m \in Key /\ x < m /\ m < z /\ Fits(g, A, l, m, z) /\ Fits(g, B, l, x, m)
                     /\ NumKeys(A) = NumKeys(p) + 1 /\ NumKeys(B) = NumKeys(r) - 1
                     /\ l = 0 => A.next = p.next /\ B.next = r.next
                     /\ \A k, v : InPage(p, k, v) \/ InPage(r, k, v) <=> InPage(A, k, v) \/ InPage(B, k, v)
  BY <1>4
<1>6. /\ State(t) /\ t.next = s.next /\ t.root = s.root
      /\ t.pages[b] = A /\ t.pages[a] = B /\ t.pages[q] = Index(ReplaceAt(Q.keys, i, m), Q.kids)
      /\ \A j \in DOMAIN s.pages \ {b, a, q} : t.pages[j] = s.pages[j]
  <2>1. PICK N : N = Index(ReplaceAt(Q.keys, i, m), Q.kids)
    OBVIOUS
  <2>2. Replaced(s, t, b, A, a, B, q, N)
    BY <1>2, <1>5, <2>1, ThreePages
  <2> QED
    BY <2>1, <2>2, Zenon DEF Replaced
<1>7. SharedOut(g, s, t, q, i, a, b, m)
  <2>1. \A k, v : InPage(r, k, v) \/ InPage(p, k, v) <=> InPage(B, k, v) \/ InPage(A, k, v)
    BY <1>5
  <2> QED
    BY <1>1, <1>5, <1>6, <2>1, Zenon DEF SharedOut
<1> QED
  BY <1>1, <1>5, <1>6, <1>7, Zenon DEF Lent

\* t is s, but for page a, which has the keys of page b too, and page q.
Merged(g, s, t, q, i, a, b) ==
    LET A == t.pages[a]
        l == g.level[a]
    IN  /\ State(t) /\ t.next = s.next /\ t.root = s.root
        /\ Fits(g, A, l, g.lo[a], g.hi[b])
        /\ l = 0 => A.next = s.pages[b].next
        /\ NumKeys(A) \in (NumKeys(s.pages[a]) + NumKeys(s.pages[b]))..(NumKeys(s.pages[a]) + NumKeys(s.pages[b]) + 1)
        /\ t.pages[q] = Index(RemoveAt(s.pages[q].keys, i), RemoveAt(s.pages[q].kids, i + 1))
        /\ \A p \in DOMAIN s.pages \ {a, q} : t.pages[p] = s.pages[p]
        /\ \A k, v : InPage(s.pages[a], k, v) \/ InPage(s.pages[b], k, v) <=> InPage(A, k, v)

\* Two leaves in one.
LEMMA RowsJoin ==
    ASSUME NEW x \in Int, NEW y \in Int, NEW z \in Int, x < y, y < z,
           NEW p, LeafFits(p, x, y), NEW r, LeafFits(r, y, z),
           NEW A, A = Leaf(Both(p.rows, r.rows), r.next)
    PROVE  /\ LeafFits(A, x, z) /\ A.next = r.next /\ NumKeys(A) = NumKeys(p) + NumKeys(r)
           /\ \A k, v : InPage(p, k, v) \/ InPage(r, k, v) <=> InPage(A, k, v)
<1>1. /\ p.leaf /\ IsFiniteSet(DOMAIN p.rows) /\ DOMAIN p.rows \in SUBSET Int
      /\ r.leaf /\ IsFiniteSet(DOMAIN r.rows) /\ DOMAIN r.rows \in SUBSET Int
      /\ Cardinality(DOMAIN r.rows) = NumKeys(r) /\ Cardinality(DOMAIN p.rows) = NumKeys(p)
      /\ NumKeys(p) \in Nat /\ NumKeys(r) \in Nat
  BY LeafRows
<1>2. /\ \A j \in DOMAIN p.rows : p.rows[j] \in Row /\ x <= j /\ j < y /\ j \in Key
      /\ \A j \in DOMAIN r.rows : r.rows[j] \in Row /\ y <= j /\ j < z /\ j \in Key
  BY DEF LeafFits
<1>3. PICK f : f = Both(p.rows, r.rows)
  OBVIOUS
<1>4. DOMAIN f = DOMAIN p.rows \cup DOMAIN r.rows
  BY <1>3 DEF Both
<1>5. \A j \in DOMAIN f : f[j] = IF j \in DOMAIN p.rows THEN p.rows[j] ELSE r.rows[j]
  BY <1>3 DEF Both
<1>6. A.leaf /\ A.rows = f /\ A.next = r.next
  BY <1>3 DEF Leaf
<1>7. \A j \in DOMAIN p.rows : j \in Int /\ j \notin DOMAIN r.rows
  BY <1>1, <1>2
<1>8. NumKeys(A) = NumKeys(p) + NumKeys(r)
  <2>1. PICK S, T : S = DOMAIN p.rows /\ T = DOMAIN r.rows
    OBVIOUS
  <2>2. IsFiniteSet(S) /\ IsFiniteSet(T) /\ S \cap T = {}
    BY <1>1, <1>7, <2>1
  <2>3. Cardinality(S \cup T) = Cardinality(S) + Cardinality(T) - Cardinality(S \cap T)
    BY <2>2, FS_Union
  <2>4. Cardinality(S \cap T) = 0
    BY <2>2, FS_EmptySet
  <2>5. Cardinality(S \cup T) = NumKeys(p) + NumKeys(r)
    BY <1>1, <2>1, <2>3, <2>4
  <2> QED
    BY <1>4, <1>6, <2>1, <2>5 DEF NumKeys
<1>9. LeafFits(A, x, z)
  <2>1. \A j \in DOMAIN p.rows : x <= j /\ j < z
    BY <1>1, <1>2
  <2>2. \A j \in DOMAIN r.rows : x <= j /\ j < z
    BY <1>1, <1>2
  <2> QED
    BY <1>2, <1>4, <1>5, <1>6, <2>1, <2>2 DEF LeafFits
<1>10. ASSUME NEW k, NEW v
       PROVE  InPage(p, k, v) \/ InPage(r, k, v) <=> InPage(A, k, v)
  BY <1>1, <1>4, <1>5, <1>6, <1>7 DEF InPage
<1> QED
  BY <1>6, <1>8, <1>9, <1>10

\* MergePages joins two neighbours.
LEMMA PagesMerge ==
    ASSUME NEW s, State(s), NEW g, NEW h, Shape(s.pages, g, s.root, h),
           NEW q \in g.at, g.level[q] # 0,
           NEW i \in 1..Len(s.pages[q].kids), i # Len(s.pages[q].kids),
           NEW a, a = s.pages[q].kids[i], NEW b, b = s.pages[q].kids[i + 1],
           NEW t, t = MergePages(s, a, b, i, q)
    PROVE  Merged(g, s, t, q, i, a, b)
<1>1. PICK p, r, Q, l, x, y, z :
         /\ p = s.pages[a] /\ r = s.pages[b] /\ Q = s.pages[q]
         /\ l = g.level[a] /\ x = g.lo[a] /\ y = Q.keys[i] /\ z = g.hi[b]
  OBVIOUS
<1>2. /\ a \in g.at /\ b \in g.at /\ a # b /\ a # q /\ b # q /\ i \in 1..Len(Q.keys)
      /\ a \in DOMAIN s.pages /\ b \in DOMAIN s.pages /\ q \in DOMAIN s.pages
      /\ x \in Int /\ y \in Int /\ y \in Key /\ z \in Int /\ x < y /\ y < z
      /\ l = 0 => p.leaf /\ r.leaf /\ LeafFits(p, x, y) /\ LeafFits(r, y, z)
      /\ l # 0 => ~p.leaf /\ ~r.leaf /\ IndexFits(g, p, l, x, y) /\ IndexFits(g, r, l, y, z)
  <2>1. PairFits(s, g, h, q, i, a, b, p, r, Q, l, x, y, z)
    BY <1>1, Pair
  <2> QED
    BY <2>1 DEF PairFits
<1>3. PICK A, N : /\ A = IF p.leaf THEN Leaf(Both(p.rows, r.rows), r.next)
                         ELSE Index(p.keys \o <<y>> \o r.keys, p.kids \o r.kids)
                  /\ N = Index(RemoveAt(Q.keys, i), RemoveAt(Q.kids, i + 1))
  OBVIOUS
<1>4. PICK s1, s2, s3 : s1 = SetPage(s, a, A) /\ s2 = SetPage(s1, q, N) /\ s3 = MarkDirty(s2, a)
  OBVIOUS
<1>5. t = MarkDirty(s3, q)
  BY <1>1, <1>3, <1>4, Zenon DEF MergePages
<1>6. /\ State(s1) /\ s1.next = s.next /\ s1.root = s.root /\ DOMAIN s1.pages = DOMAIN s.pages
      /\ s1.pages[a] = A /\ \A j \in DOMAIN s.pages : j # a => s1.pages[j] = s.pages[j]
  <2>1. a \in DOMAIN s.pages /\ s1 = SetPage(s, a, A)
    BY <1>2, <1>4
  <2> QED
    BY <2>1, SetPageIs
<1>7. /\ State(s2) /\ s2.next = s1.next /\ s2.root = s1.root /\ DOMAIN s2.pages = DOMAIN s1.pages
      /\ s2.pages[q] = N /\ \A j \in DOMAIN s1.pages : j # q => s2.pages[j] = s1.pages[j]
  <2>1. State(s1) /\ DOMAIN s1.pages = DOMAIN s.pages
    BY <1>6
  <2>2. q \in DOMAIN s.pages
    BY <1>2
  <2>3. State(s1) /\ q \in DOMAIN s1.pages /\ s2 = SetPage(s1, q, N)
    BY <1>4, <2>1, <2>2, Zenon
  <2> QED
    BY <2>3, SetPageIs
<1>8. State(s3) /\ s3.next = s2.next /\ s3.root = s2.root /\ s3.pages = s2.pages
  <2>1. State(s2) /\ s3 = MarkDirty(s2, a)
    BY <1>4, <1>7, Zenon
  <2> QED
    BY <2>1, MarkDirtyIs
<1>9. State(t) /\ t.next = s3.next /\ t.root = s3.root /\ t.pages = s3.pages
  <2>1. State(s3) /\ t = MarkDirty(s3, q)
    BY <1>5, <1>8, Zenon
  <2> QED
    BY <2>1, MarkDirtyIs
<1>10. /\ State(t) /\ t.next = s.next /\ t.root = s.root /\ t.pages[a] = A /\ t.pages[q] = N
       /\ \A j \in DOMAIN s.pages \ {a, q} : t.pages[j] = s.pages[j]
  BY <1>2, <1>6, <1>7, <1>8, <1>9
<1>11. /\ Fits(g, A, l, x, z) /\ (l = 0 => A.next = r.next)
       /\ NumKeys(A) \in (NumKeys(p) + NumKeys(r))..(NumKeys(p) + NumKeys(r) + 1)
       /\ \A k, v : InPage(p, k, v) \/ InPage(r, k, v) <=> InPage(A, k, v)
  <2>1. CASE l = 0
    <3>1. A = Leaf(Both(p.rows, r.rows), r.next) /\ LeafFits(p, x, y) /\ LeafFits(r, y, z)
      BY <1>2, <1>3, <2>1
    <3>2. /\ LeafFits(A, x, z) /\ A.next = r.next /\ NumKeys(A) = NumKeys(p) + NumKeys(r)
          /\ \A k, v : InPage(p, k, v) \/ InPage(r, k, v) <=> InPage(A, k, v)
      BY <1>2, <3>1, RowsJoin
    <3>3. NumKeys(p) \in Nat /\ NumKeys(r) \in Nat
      BY <3>1, LeafRows
    <3>4. NumKeys(A) \in (NumKeys(p) + NumKeys(r))..(NumKeys(p) + NumKeys(r) + 1)
      BY <3>2, <3>3
    <3> QED
      BY <2>1, <3>2, <3>4 DEF Fits
  <2>2. CASE l # 0
    <3>1. /\ ~p.leaf /\ ~r.leaf /\ IndexFits(g, p, l, x, y) /\ IndexFits(g, r, l, y, z)
          /\ A = Index(p.keys \o <<y>> \o r.keys, p.kids \o r.kids)
      BY <1>2, <1>3, <2>2
    <3>2. IndexFits(g, A, l, x, z) /\ Len(p.keys \o <<y>> \o r.keys) = Len(p.keys) + 1 + Len(r.keys)
      BY <1>2, <3>1, GlueIndex
    <3>3. ~A.leaf /\ A.keys = p.keys \o <<y>> \o r.keys
      BY <3>1 DEF Index
    <3>4. Len(p.keys) \in Nat /\ Len(r.keys) \in Nat /\ NumKeys(p) = Len(p.keys) /\ NumKeys(r) = Len(r.keys)
      BY <3>1 DEF IndexFits, NumKeys
    <3>7. NumKeys(A) = Len(p.keys) + 1 + Len(r.keys)
      BY <3>2, <3>3 DEF NumKeys
    <3>5. NumKeys(A) \in (NumKeys(p) + NumKeys(r))..(NumKeys(p) + NumKeys(r) + 1)
      <4>1. PICK m, n \in Nat : m = NumKeys(p) /\ n = NumKeys(r)
        BY <3>4
      <4>2. NumKeys(A) = m + 1 + n
        BY <3>4, <3>7, <4>1
      <4>3. NumKeys(A) \in (m + n)..(m + n + 1)
        BY <4>2
      <4> QED
        BY <4>1, <4>3
    <3>6. \A k, v : InPage(p, k, v) \/ InPage(r, k, v) <=> InPage(A, k, v)
      BY <3>1, <3>3 DEF InPage
    <3> QED
      BY <2>2, <3>2, <3>5, <3>6 DEF Fits
  <2> QED
    BY <2>1, <2>2
<1>12. /\ Fits(g, t.pages[a], l, g.lo[a], g.hi[b]) /\ (l = 0 => t.pages[a].next = s.pages[b].next)
       /\ \A k, v : InPage(s.pages[a], k, v) \/ InPage(s.pages[b], k, v) <=> InPage(t.pages[a], k, v)
  BY <1>1, <1>10, <1>11, Zenon
<1>13. NumKeys(t.pages[a]) \in (NumKeys(s.pages[a]) + NumKeys(s.pages[b]))..(NumKeys(s.pages[a]) + NumKeys(s.pages[b]) + 1)
  BY <1>1, <1>10, <1>11, Zenon
<1>14. t.pages[q] = Index(RemoveAt(s.pages[q].keys, i), RemoveAt(s.pages[q].kids, i + 1))
  BY <1>1, <1>3, <1>10, Zenon
<1> QED
  BY <1>1, <1>10, <1>12, <1>13, <1>14, Zenon DEF Merged

-----------------------------------------------------------------------------
(* The descent *)

\* A page that the tree has or had: its rows, and where it may lead.
PageIn(p, D) ==
    IF p.leaf THEN /\ DOMAIN p.rows \subseteq Key
                   /\ \A k \in DOMAIN p.rows : p.rows[k] \in Row
                   /\ p.next \in D \cup {NoPage}
    ELSE p.keys \in Seq(Key) /\ p.kids \in Seq(D)

\* The pager has a sound tree, and nothing but pages.
Tree(s, g, h) ==
    /\ State(s)
    /\ Shape(s.pages, g, s.root, h)
    /\ \A id \in DOMAIN s.pages \ g.at : PageIn(s.pages[id], DOMAIN s.pages)

\* A tree has no more levels than pages.
LEMMA LevelsCounted ==
    ASSUME NEW s, NEW g, NEW h, Tree(s, g, h)
    PROVE  h \in Nat /\ Cardinality(DOMAIN s.pages) \in Nat /\ h <= Cardinality(DOMAIN s.pages)
<1>1. /\ h \in Nat /\ Layout(g, s.root, h) /\ s.root \in g.at /\ g.level[s.root] = h
      /\ g.at \subseteq DOMAIN s.pages /\ Shape(s.pages, g, s.root, h)
  BY DEF Tree, Shape, Layout
<1>2. PICK M \in Nat : DOMAIN s.pages = 0..(M - 1)
  BY DEF Tree, State
<1>3. IsFiniteSet(0..(M - 1)) /\ Cardinality(0..(M - 1)) = M
  <2>1. 0 \in Int /\ M - 1 \in Int
    OBVIOUS
  <2>2. IsFiniteSet(0..(M - 1)) /\ Cardinality(0..(M - 1)) = IF 0 > M - 1 THEN 0 ELSE (M - 1) - 0 + 1
    BY <2>1, FS_Interval
  <2> QED
    BY <2>2
<1> DEFINE Found == {n \in 0..h : \E p \in g.at : g.level[p] = h - n}
<1>4. 0 \in Found
  BY <1>1
<1>5. ASSUME NEW n \in 1..h, n - 1 \in Found
      PROVE  n \in Found
  <2>1. PICK p \in g.at : g.level[p] = h - (n - 1)
    BY <1>5
  <2>2. g.level[p] # 0
    BY <1>1, <2>1
  <2>3. /\ Len(s.pages[p].keys) \in Nat /\ Len(s.pages[p].kids) = Len(s.pages[p].keys) + 1
        /\ \A i \in 1..Len(s.pages[p].kids) :
              s.pages[p].kids[i] \in g.at /\ g.level[s.pages[p].kids[i]] = g.level[p] - 1
    BY <1>1, <2>2, ChildIs
  <2>4. 1 \in 1..Len(s.pages[p].kids)
    BY <2>3
  <2>5. PICK c \in g.at : g.level[c] = g.level[p] - 1
    BY <2>3, <2>4
  <2>6. g.level[c] = h - n
    BY <1>1, <2>1, <2>5
  <2> QED
    BY <2>6
<1> HIDE DEF Found
<1>6. 0..h \subseteq Found
  BY <1>1, <1>4, <1>5, CountUp
<1>7. \A n \in 0..h : \E p \in g.at : g.level[p] = h - n
  BY <1>6 DEF Found
<1> DEFINE at == [n \in 0..h |-> CHOOSE p \in g.at : g.level[p] = h - n]
<1>8. \A n \in 0..h : at[n] \in g.at /\ g.level[at[n]] = h - n
  BY <1>7
<1> HIDE DEF at
<1>9. at \in [0..h -> DOMAIN s.pages]
  BY <1>1, <1>8 DEF at
<1>10. \A m, n \in 0..h : at[m] = at[n] => m = n
  <2> SUFFICES ASSUME NEW m \in 0..h, NEW n \in 0..h, at[m] = at[n]
               PROVE  m = n
    OBVIOUS
  <2>1. h - m = h - n
    BY <1>8
  <2> QED
    BY <1>1, <2>1
<1>11. at \in Injection(0..h, DOMAIN s.pages)
  BY <1>9, <1>10 DEF Injection, IsInjective
<1>12. IsFiniteSet(0..h) /\ Cardinality(0..h) = h + 1
  <2>1. 0 \in Int /\ h \in Int
    BY <1>1
  <2>2. IsFiniteSet(0..h) /\ Cardinality(0..h) = IF 0 > h THEN 0 ELSE h - 0 + 1
    BY <2>1, FS_Interval
  <2> QED
    BY <1>1, <2>2
<1>13. Cardinality(0..h) <= Cardinality(DOMAIN s.pages)
  BY <1>2, <1>3, <1>11, <1>12, FS_Injection
<1> QED
  BY <1>1, <1>2, <1>3, <1>12, <1>13

\* The steps of _find_path, and where they may end.
Steps(f, s, k) ==
    f = [n \in 0..Cardinality(DOMAIN s.pages) |->
           IF n = 0 THEN [id |-> s.root, pos |-> 0]
           ELSE LET p == s.pages[f[n - 1].id]
                    i == ChildPos(p, k)
                IN  [id |-> p.kids[i], pos |-> i]]
\* The descent ends at a leaf.
EndsAt(f, s, n) == LET p == s.pages[f[n].id] IN p.leaf \/ p.kids = <<>>

\* There are such steps.
LEMMA StepsExist ==
    ASSUME NEW s, NEW k, Cardinality(DOMAIN s.pages) \in Nat
    PROVE  \E f : Steps(f, s, k)
<1> DEFINE N == Cardinality(DOMAIN s.pages)
           Upto(f, M) == f = [n \in 0..M |->
                IF n = 0 THEN [id |-> s.root, pos |-> 0]
                ELSE LET p == s.pages[f[n - 1].id]
                         i == ChildPos(p, k)
                     IN  [id |-> p.kids[i], pos |-> i]]
           Defined == {M \in 0..N : \E f : Upto(f, M)}
<1>1. 0 \in Defined
  <2> DEFINE f == [n \in 0..0 |-> [id |-> s.root, pos |-> 0]]
  <2>1. Upto(f, 0)
    OBVIOUS
  <2>2. 0 \in 0..N
    OBVIOUS
  <2> HIDE DEF f, Upto
  <2> QED
    BY <2>1, <2>2
<1>2. ASSUME NEW M \in 1..N, M - 1 \in Defined
      PROVE  M \in Defined
  <2>1. PICK f : Upto(f, M - 1)
    BY <1>2
  <2> DEFINE E(e) == LET p == s.pages[e.id]
                         i == ChildPos(p, k)
                     IN  [id |-> p.kids[i], pos |-> i]
             e == [n \in 0..M |-> IF n = M THEN E(f[M - 1]) ELSE f[n]]
  <2>2. \A n \in 0..(M - 1) : f[n] = IF n = 0 THEN [id |-> s.root, pos |-> 0] ELSE E(f[n - 1])
    BY <2>1, Zenon
  <2> HIDE DEF E
  <2>3. \A n \in 0..M : e[n] = IF n = 0 THEN [id |-> s.root, pos |-> 0] ELSE E(e[n - 1])
    <3> TAKE n \in 0..M
    <3>1. CASE n = M
      <4>1. n # 0 /\ n - 1 \in 0..M /\ n - 1 # M
        BY <3>1
      <4>2. e[n - 1] = f[n - 1]
        BY <4>1
      <4> QED
        BY <3>1, <4>1, <4>2
    <3>2. CASE n # M
      <4>1. n \in 0..(M - 1) /\ e[n] = f[n]
        BY <3>2
      <4>2. n # 0 => n - 1 \in 0..M /\ n - 1 # M /\ e[n - 1] = f[n - 1]
        BY <3>2
      <4> QED
        BY <2>2, <4>1, <4>2
    <3> QED
      BY <3>1, <3>2
  <2>4. e = [n \in 0..M |-> e[n]]
    OBVIOUS
  <2> HIDE DEF e
  <2>5. e = [n \in 0..M |-> IF n = 0 THEN [id |-> s.root, pos |-> 0] ELSE E(e[n - 1])]
    BY <2>3, <2>4
  <2>6. Upto(e, M)
    BY <2>5, Zenon DEF E
  <2> QED
    BY <2>6
<1> HIDE DEF Defined
<1>3. \A n \in 1..N : n - 1 \in Defined => n \in Defined
  BY <1>2
<1>4. PICK m \in Nat : m = N
  OBVIOUS
<1>5. 0..m \subseteq Defined
  BY <1>1, <1>3, <1>4, CountUp
<1>6. N \in Defined
  BY <1>4, <1>5
<1>7. PICK f : Upto(f, N)
  BY <1>6 DEF Defined
<1> QED
  BY <1>7 DEF Steps

\* path leads from the root to the leaf of key k.
OnPath(s, g, h, k, path) ==
    /\ DOMAIN path = 1..(h + 1) /\ Len(path) = h + 1
    /\ path[1].id = s.root
    /\ \A j \in 1..(h + 1) : /\ path[j].id \in g.at /\ g.level[path[j].id] = h + 1 - j
                             /\ g.lo[path[j].id] <= k /\ k < g.hi[path[j].id]
    /\ \A j \in 2..(h + 1) : LET p == s.pages[path[j - 1].id]
                             IN  path[j].pos \in 1..Len(p.kids) /\ path[j].id = p.kids[path[j].pos]

\* _find_path leads from the root to the leaf of the key.
LEMMA PathIs ==
    ASSUME NEW s, NEW g, NEW h, Tree(s, g, h), NEW k \in Key
    PROVE  OnPath(s, g, h, k, FindPath(s, k))
<1> DEFINE N == Cardinality(DOMAIN s.pages)
           f == CHOOSE e : Steps(e, s, k)
           depth == CHOOSE n \in DOMAIN f : EndsAt(f, s, n) /\ \A m \in 0..(n - 1) : ~EndsAt(f, s, m)
           path == [n \in 1..(depth + 1) |-> f[n - 1]]
<1>1. h \in Nat /\ N \in Nat /\ h <= N
  BY LevelsCounted
<1>2. Steps(f, s, k)
  <2>1. \E e : Steps(e, s, k)
    BY <1>1, StepsExist
  <2> QED
    BY <2>1
<1>3. FindPath(s, k) = path
  BY DEF FindPath, Steps, EndsAt
<1> HIDE DEF f
<1>4. /\ DOMAIN f = 0..N /\ f[0] = [id |-> s.root, pos |-> 0]
      /\ \A n \in 1..N : LET p == s.pages[f[n - 1].id]
                         IN  f[n] = [id |-> p.kids[ChildPos(p, k)], pos |-> ChildPos(p, k)]
  <2>1. \A n \in 0..N : f[n] = IF n = 0 THEN [id |-> s.root, pos |-> 0]
                               ELSE LET p == s.pages[f[n - 1].id]
                                        i == ChildPos(p, k)
                                    IN  [id |-> p.kids[i], pos |-> i]
    BY <1>2, Zenon DEF Steps
  <2>2. DOMAIN f = 0..N
    BY <1>2 DEF Steps
  <2>3. 0 \in 0..N /\ \A n \in 1..N : n \in 0..N /\ n # 0
    BY <1>1
  <2> QED
    BY <2>1, <2>2, <2>3
<1>5. Shape(s.pages, g, s.root, h) /\ Layout(g, s.root, h)
  BY DEF Tree, Shape
<1>6. k \in Int /\ Bottom <= k /\ k < Top
  BY KeyBounds
<1> DEFINE Right(n) ==
              /\ f[n].id \in g.at /\ g.level[f[n].id] = h - n
              /\ g.lo[f[n].id] <= k /\ k < g.hi[f[n].id]
              /\ n # 0 => LET p == s.pages[f[n - 1].id]
                          IN  f[n].pos \in 1..Len(p.kids) /\ f[n].id = p.kids[f[n].pos]
           Along == {n \in 0..h : Right(n)}
<1>7. 0 \in Along
  <2>1. s.root \in g.at /\ g.level[s.root] = h /\ g.lo[s.root] = Bottom /\ g.hi[s.root] = Top
    BY <1>5 DEF Layout
  <2>2. f[0].id = s.root
    BY <1>4
  <2> QED
    BY <1>1, <1>6, <2>1, <2>2
<1>8. ASSUME NEW n \in 1..h, n - 1 \in Along
      PROVE  n \in Along
  <2>1. PICK q, P, i : q = f[n - 1].id /\ P = s.pages[q] /\ i = ChildPos(P, k)
    OBVIOUS
  <2>2. q \in g.at /\ g.level[q] = h - (n - 1) /\ g.lo[q] <= k /\ k < g.hi[q]
    BY <1>8, <2>1
  <2>3. g.level[q] # 0 /\ g.level[q] - 1 = h - n
    BY <1>1, <2>2
  <2>4. g.lo[q] \in Int /\ g.hi[q] \in Int /\ IndexFits(g, P, g.level[q], g.lo[q], g.hi[q])
    BY <1>5, <2>1, <2>2, <2>3, PageFits
  <2>5. i \in 1..Len(P.kids) /\ LowOf(P, g.lo[q], i) <= k /\ k < HighOf(P, g.hi[q], i)
    BY <1>5, <1>6, <2>1, <2>2, <2>4, ChildPosIs
  <2>6. f[n] = [id |-> P.kids[i], pos |-> i]
    <3>1. n \in 1..N
      BY <1>1
    <3> QED
      BY <1>4, <2>1, <3>1
  <2>7. PICK c : c = P.kids[i]
    OBVIOUS
  <2>8. /\ c \in g.at /\ g.level[c] = g.level[q] - 1
        /\ g.lo[c] = LowOf(P, g.lo[q], i) /\ g.hi[c] = HighOf(P, g.hi[q], i)
    <3>1. \A j \in 1..Len(s.pages[q].kids) :
             LET d == s.pages[q].kids[j]
             IN  /\ d \in g.at /\ g.level[d] = g.level[q] - 1
                 /\ g.lo[d] = LowOf(s.pages[q], g.lo[q], j) /\ g.hi[d] = HighOf(s.pages[q], g.hi[q], j)
      <4>1. Shape(s.pages, g, s.root, h) /\ q \in g.at /\ g.level[q] # 0
        BY <1>5, <2>2, <2>3
      <4> QED
        BY <4>1, ChildIs
    <3> QED
      BY <2>1, <2>5, <2>7, <3>1, Zenon
  <2>9. f[n].id = c /\ f[n].pos = i
    BY <2>6, <2>7
  <2>10. Right(n)
    BY <2>1, <2>3, <2>5, <2>7, <2>8, <2>9, Zenon
  <2> HIDE DEF Right
  <2> QED
    BY <2>10
<1> HIDE DEF Along
<1>9. 0..h \subseteq Along
  BY <1>1, <1>7, <1>8, CountUp
<1>10. \A n \in 0..h : Right(n)
  BY <1>9 DEF Along
<1>11. \A n \in 0..h : EndsAt(f, s, n) <=> n = h
  <2> TAKE n \in 0..h
  <2>1. PICK q, P : q = f[n].id /\ P = s.pages[q]
    OBVIOUS
  <2>2. q \in g.at /\ g.level[q] = h - n
    BY <1>10, <2>1
  <2>3. P.leaf <=> n = h
    <3>1. P.leaf <=> g.level[q] = 0
      BY <1>5, <2>1, <2>2, PageFits
    <3> QED
      BY <1>1, <2>2, <3>1
  <2>4. n # h => P.kids # <<>>
    <3>1. ASSUME n # h
          PROVE  Len(P.kids) # 0
      <4>1. g.level[q] # 0
        BY <1>1, <2>2, <3>1
      <4>2. Len(P.keys) \in Nat /\ Len(P.kids) = Len(P.keys) + 1
        <5>1. Shape(s.pages, g, s.root, h) /\ q \in g.at /\ P = s.pages[q]
          BY <1>5, <2>1, <2>2
        <5> QED
          BY <4>1, <5>1, ChildIs, Zenon
      <4> QED
        BY <4>2
    <3> QED
      BY <3>1
  <2> QED
    BY <2>1, <2>3, <2>4 DEF EndsAt
<1>12. depth = h
  <2>1. h \in DOMAIN f /\ EndsAt(f, s, h) /\ \A m \in 0..(h - 1) : ~EndsAt(f, s, m)
    BY <1>1, <1>4, <1>11
  <2>2. depth \in DOMAIN f /\ EndsAt(f, s, depth) /\ \A m \in 0..(depth - 1) : ~EndsAt(f, s, m)
    BY <2>1
  <2> HIDE DEF depth
  <2>3. depth \in Nat
    BY <1>1, <1>4, <2>2
  <2>4. ~(h < depth)
    <3>1. h < depth => h \in 0..(depth - 1)
      BY <1>1, <2>3
    <3> QED
      BY <2>1, <2>2, <3>1
  <2>5. ~(depth < h)
    <3>1. depth < h => depth \in 0..h /\ depth # h
      BY <1>1, <2>3
    <3> QED
      BY <1>11, <2>2, <3>1
  <2> QED
    BY <1>1, <2>3, <2>4, <2>5
<1> HIDE DEF depth
<1>13. DOMAIN path = 1..(h + 1) /\ \A j \in 1..(h + 1) : path[j] = f[j - 1] /\ j - 1 \in 0..h
  BY <1>1, <1>12
<1>14. Len(path) = h + 1
  BY <1>1, <1>12
<1>15. \A j \in 1..(h + 1) : Right(j - 1) /\ h - (j - 1) = h + 1 - j
  BY <1>1, <1>10, <1>13
<1> HIDE DEF path
<1>16. \A j \in 1..(h + 1) : /\ path[j].id \in g.at /\ g.level[path[j].id] = h + 1 - j
                             /\ g.lo[path[j].id] <= k /\ k < g.hi[path[j].id]
  BY <1>13, <1>15
<1>17. \A j \in 2..(h + 1) : LET p == s.pages[path[j - 1].id]
                             IN  path[j].pos \in 1..Len(p.kids) /\ path[j].id = p.kids[path[j].pos]
  <2> TAKE j \in 2..(h + 1)
  <2>1. j \in 1..(h + 1) /\ j - 1 \in 1..(h + 1) /\ j - 1 # 0
    BY <1>1
  <2>2. path[j] = f[j - 1] /\ path[j - 1] = f[(j - 1) - 1] /\ Right(j - 1)
    BY <1>13, <1>15, <2>1
  <2> QED
    BY <2>1, <2>2
<1>18. path[1].id = s.root
  BY <1>1, <1>4, <1>13
<1> QED
  BY <1>3, <1>13, <1>14, <1>16, <1>17, <1>18 DEF OnPath

\* The leaf id at the end of the path is the only one that can hold key k.
LeafFor(s, g, k, path, id) ==
    /\ Last(path).id = id /\ id \in g.at /\ id \in DOMAIN s.pages /\ g.level[id] = 0
    /\ LeafFits(s.pages[id], g.lo[id], g.hi[id]) /\ g.lo[id] <= k /\ k < g.hi[id]
    /\ \A v : Holds(s.pages, g.at, k, v) <=> InPage(s.pages[id], k, v)
    /\ \A v : \A p \in g.at : InPage(s.pages[p], k, v) => p = id

\* The descent ends at the leaf of the key.
LEMMA LeafOf ==
    ASSUME NEW s, NEW g, NEW h, Tree(s, g, h), NEW k \in Key,
           NEW path, path = FindPath(s, k), NEW id, id = path[h + 1].id
    PROVE  LeafFor(s, g, k, path, id)
<1>1. OnPath(s, g, h, k, path)
  BY PathIs
<1>2. h \in Nat /\ Shape(s.pages, g, s.root, h) /\ Layout(g, s.root, h)
  BY LevelsCounted DEF Tree, Shape
<1>3. h + 1 \in 1..(h + 1) /\ h + 1 - (h + 1) = 0
  BY <1>2
<1>4. id \in g.at /\ g.level[id] = 0 /\ g.lo[id] <= k /\ k < g.hi[id]
  BY <1>1, <1>3 DEF OnPath
<1>5. Last(path) = path[h + 1]
  BY <1>1 DEF OnPath, Last
<1>6. id \in DOMAIN s.pages /\ LeafFits(s.pages[id], g.lo[id], g.hi[id])
  BY <1>2, <1>4, PageFits
<1>7. k \in Int
  BY KeyBounds
<1>8. ASSUME NEW p \in g.at, NEW v, InPage(s.pages[p], k, v)
      PROVE  p = id
  <2>1. s.pages[p].leaf /\ k \in DOMAIN s.pages[p].rows
    BY <1>8 DEF InPage
  <2>2. g.level[p] = 0 /\ LeafFits(s.pages[p], g.lo[p], g.hi[p])
    BY <1>2, <2>1, PageFits
  <2>3. g.lo[p] <= k /\ k < g.hi[p] /\ g.level[p] = g.level[id]
    BY <1>4, <2>1, <2>2 DEF LeafFits
  <2> QED
    BY <1>2, <1>4, <1>7, <2>3, OnePage
<1>9. \A v : Holds(s.pages, g.at, k, v) <=> InPage(s.pages[id], k, v)
  BY <1>4, <1>8 DEF Holds
<1> QED
  BY <1>4, <1>5, <1>6, <1>8, <1>9 DEF LeafFor

\* Search finds what the tree holds.
LEMMA SearchIs ==
    ASSUME NEW s, NEW g, NEW h, Tree(s, g, h), NEW k \in Key
    PROVE  \/ Search(s, k) \in Row /\ \A v : Holds(s.pages, g.at, k, v) <=> v = Search(s, k)
           \/ Search(s, k) = NoRow /\ \A v : ~Holds(s.pages, g.at, k, v)
<1>1. PICK path, id, rows : path = FindPath(s, k) /\ id = path[h + 1].id /\ rows = s.pages[id].rows
  OBVIOUS
<1>2. /\ Last(path).id = id /\ LeafFits(s.pages[id], g.lo[id], g.hi[id])
      /\ \A v : Holds(s.pages, g.at, k, v) <=> InPage(s.pages[id], k, v)
  <2>1. LeafFor(s, g, k, path, id)
    BY <1>1, LeafOf
  <2> QED
    BY <2>1 DEF LeafFor
<1>3. Search(s, k) = IF k \in DOMAIN rows THEN rows[k] ELSE NoRow
  BY <1>1, <1>2 DEF Search, FindLeaf
<1>4. s.pages[id].leaf /\ (k \in DOMAIN rows => rows[k] \in Row)
  BY <1>1, <1>2, SMTT(20) DEF LeafFits
<1>5. \A v : Holds(s.pages, g.at, k, v) <=> k \in DOMAIN rows /\ rows[k] = v
  BY <1>1, <1>2, <1>4 DEF InPage
<1> QED
  BY <1>3, <1>4, <1>5

-----------------------------------------------------------------------------
(* Insertion *)

\* Pages are not over-full, and below the root not too empty.
Filled(s, p) ==
    /\ NumKeys(s.pages[p]) \in Nat /\ NumKeys(s.pages[p]) <= Order
    /\ p # s.root => NumKeys(s.pages[p]) >= MinKeys
    /\ ~s.pages[p].leaf => NumKeys(s.pages[p]) >= 1

\* A tree whose pages are filled, but perhaps for page x.
Sound(s, g, h, x) == Tree(s, g, h) /\ \A p \in g.at \ {x} : Filled(s, p)

\* From tree s to tree t, nothing has changed above level l.
Above(s, g, t, G, l) ==
    /\ t.root = s.root
    /\ \A p \in g.at : g.level[p] >= l => p \in G.at /\ G.level[p] = g.level[p]
    /\ \A p \in g.at : g.level[p] > l => t.pages[p] = s.pages[p]

\* Tree t holds what tree s holds, but for row v of key k.
Stored(s, g, t, G, k, v) ==
    \A j, w : Holds(t.pages, G.at, j, w) <=> IF j = k THEN w = v ELSE Holds(s.pages, g.at, j, w)

\* The same rows, told of the pages that changed.
SameRows(s, g, t, G) == \A j, w : Holds(s.pages, g.at, j, w) <=> Holds(t.pages, G.at, j, w)

\* r is tree s with key k stored, up to page id, which was split if it had to be.
Climbed(s, g, h, k, v, id, l, r) ==
    \/ /\ r.split = NoSplit
       /\ \E G : Sound(r.s, G, h, NoPage) /\ Above(s, g, r.s, G, l) /\ Stored(s, g, r.s, G, k, v)
    \/ \E t, G : /\ Sound(t, G, h, id) /\ Above(s, g, t, G, l) /\ Stored(s, g, t, G, k, v)
                 /\ NumKeys(t.pages[id]) = Order + 1
                 /\ id \in G.at /\ Halves(G, t, id, l, G.lo[id], G.hi[id], r)

\* A page that is in order stays so in a bigger pager.
LEMMA PageInMore ==
    ASSUME NEW p, NEW D, NEW E, PageIn(p, D), D \subseteq E
    PROVE  PageIn(p, E)
<1>1. CASE p.leaf
  BY <1>1 DEF PageIn
<1>2. CASE ~p.leaf
  <2>1. p.keys \in Seq(Key) /\ p.kids \in Seq(D)
    BY <1>2 DEF PageIn
  <2>2. p.kids \in Seq(E)
    BY <2>1
  <2> QED
    BY <1>2, <2>1, <2>2 DEF PageIn
<1> QED
  BY <1>1, <1>2

\* The pages of a sound tree are in order.
LEMMA PagesIn ==
    ASSUME NEW s, NEW g, NEW h, Tree(s, g, h), NEW id \in DOMAIN s.pages
    PROVE  PageIn(s.pages[id], DOMAIN s.pages)
<1>1. Shape(s.pages, g, s.root, h) /\ g.at \subseteq DOMAIN s.pages
  BY DEF Tree, Shape
<1>2. CASE id \notin g.at
  BY <1>2 DEF Tree
<1>3. CASE id \in g.at /\ g.level[id] = 0
  <2>1. LeafFits(s.pages[id], g.lo[id], g.hi[id])
    BY <1>1, <1>3, PageFits
  <2>2. s.pages[id].next \in DOMAIN s.pages \cup {NoPage}
    <3>1. LinkFits(g, id, s.pages[id].next)
      BY <1>1, <1>3 DEF Shape
    <3> QED
      BY <1>1, <3>1 DEF LinkFits
  <2> QED
    BY <2>1, <2>2 DEF LeafFits, PageIn
<1>4. CASE id \in g.at /\ g.level[id] # 0
  <2>1. IndexFits(g, s.pages[id], g.level[id], g.lo[id], g.hi[id])
    BY <1>1, <1>4, PageFits
  <2>2. PICK kids : kids = s.pages[id].kids
    OBVIOUS
  <2>3. kids \in Seq(g.at) /\ ~s.pages[id].leaf /\ s.pages[id].keys \in Seq(Key)
    BY <2>1, <2>2 DEF IndexFits
  <2>4. kids \in Seq(DOMAIN s.pages)
    BY <1>1, <2>3
  <2> QED
    BY <2>2, <2>3, <2>4 DEF PageIn
<1> QED
  BY <1>2, <1>3, <1>4

\* u is t with page id in two halves, E says how, and both are children of page q.
Lifted(t, G, id, r, q, u, E, h) ==
    /\ Sound(u, E, h, q) /\ E.at = G.at \cup {t.next} /\ u.root = t.root
    /\ \A p \in G.at : E.level[p] = G.level[p] /\ (p # q /\ p # id => u.pages[p] = t.pages[p])
    /\ ~u.pages[q].leaf /\ NumKeys(u.pages[q]) = NumKeys(t.pages[q]) + 1
    /\ SameRows(t, G, u, E)

\* The parent of a page that was split gets both halves.
LEMMA Lift ==
    ASSUME NEW t, NEW G, NEW h, NEW id, Sound(t, G, h, id),
           id \in G.at, NEW r, Halves(G, t, id, G.level[id], G.lo[id], G.hi[id], r),
           NEW q \in G.at, G.level[q] # 0, NEW i \in 1..Len(t.pages[q].kids), id = t.pages[q].kids[i],
           NEW u, State(u), u.root = t.root, u.next = r.s.next,
           u.pages[q] = AddSeparator(t.pages[q], r.split),
           \A p \in DOMAIN r.s.pages \ {q} : u.pages[p] = r.s.pages[p]
    PROVE  \E E : Lifted(t, G, id, r, q, u, E, h)
<1>1. PICK n, m, A, B, E, l :
         /\ n = t.next /\ m = r.split.key /\ A = r.s.pages[id] /\ B = r.s.pages[n]
         /\ E = Halved(G, id, n, m) /\ l = G.level[id]
  BY ZenonT(30)
<1>2. /\ State(r.s) /\ r.s.next = n + 1 /\ r.s.root = t.root
      /\ r.split = [key |-> m, page |-> n] /\ m \in Key /\ G.lo[id] < m /\ m < G.hi[id]
      /\ Fits(G, A, l, G.lo[id], m) /\ Fits(G, B, l, m, G.hi[id])
      /\ l = 0 => A.next = n /\ B.next = t.pages[id].next
      /\ \A p \in DOMAIN t.pages \ {id} : r.s.pages[p] = t.pages[p]
      /\ NumKeys(A) \in MinKeys..Order /\ NumKeys(B) \in MinKeys..Order
      /\ \A k, v : InPage(t.pages[id], k, v) <=> InPage(A, k, v) \/ InPage(B, k, v)
  BY <1>1, ZenonT(30) DEF Halves
<1>3. /\ State(t) /\ Shape(t.pages, G, t.root, h) /\ G.at \subseteq DOMAIN t.pages /\ Tree(t, G, h)
      /\ \A p \in G.at \ {id} : Filled(t, p)
  BY DEF Sound, Tree, Shape
<1>4. /\ n \in Nat /\ DOMAIN t.pages = 0..(n - 1) /\ DOMAIN u.pages = 0..n /\ DOMAIN r.s.pages = 0..n
  <2>1. u.next = n + 1 /\ r.s.next = n + 1 /\ t.next = n
    BY <1>1, <1>2, Zenon
  <2>2. n \in Nat /\ (n + 1) - 1 = n
    BY <1>3, <2>1 DEF State
  <2> QED
    BY <1>2, <1>3, <2>1, <2>2, Zenon DEF State
<1>5. n \notin DOMAIN t.pages /\ DOMAIN u.pages = DOMAIN t.pages \cup {n} /\ DOMAIN r.s.pages = DOMAIN u.pages
  BY <1>4
<1>6. n \notin G.at /\ q # n /\ id # n
  BY <1>3, <1>5
<1>7. q # id
  <2>0. PICK pg : pg = t.pages
    OBVIOUS
  <2>a. Shape(pg, G, t.root, h)
    BY <1>3, <2>0
  <2>b. \A j \in 1..Len(pg[q].kids) :
           LET c == pg[q].kids[j]
           IN  /\ c \in G.at /\ G.level[c] = G.level[q] - 1
               /\ G.lo[c] = LowOf(pg[q], G.lo[q], j) /\ G.hi[c] = HighOf(pg[q], G.hi[q], j)
               /\ G.lo[q] <= G.lo[c] /\ G.hi[c] <= G.hi[q] /\ G.lo[c] < G.hi[c]
    BY <2>a, ChildIs, ZenonT(30)
  <2>1. \A j \in 1..Len(t.pages[q].kids) : G.level[t.pages[q].kids[j]] = G.level[q] - 1
    BY <2>0, <2>b, Zenon
  <2>2. G.level[id] = G.level[q] - 1 /\ G.level[q] \in 0..h
    BY <1>3, <2>1, PageFits, ZenonT(30)
  <2> QED
    BY <2>2, SMTT(20)
<1>8. u.pages[id] = A /\ u.pages[n] = B /\ \A p \in DOMAIN t.pages \ {id, q} : u.pages[p] = t.pages[p]
  BY <1>1, <1>2, <1>3, <1>5, <1>6, <1>7, ZenonT(30)
<1>9. u.pages[q] = AddSeparator(t.pages[q], [key |-> m, page |-> n])
  BY <1>2, Zenon
<1>10. Shape(u.pages, E, t.root, h)
  <2>1. PICK pg, new : pg = t.pages /\ new = u.pages
    OBVIOUS
  <2>2. SplitUp(pg, G, t.root, h, q, i, id, n, m, A, B, new)
    BY <1>1, <1>2, <1>3, <1>5, <1>6, <1>8, <1>9, <2>1, Zenon DEF SplitUp
  <2>3. Shape(new, Halved(G, id, n, m), t.root, h)
    BY <2>2, SplitShape, SMTT(20)
  <2> QED
    BY <1>1, <2>1, <2>3, ZenonT(30)
<1>11. /\ E.at = G.at \cup {n}
       /\ \A p \in G.at : E.level[p] = G.level[p]
  <2>1. /\ E.at = G.at \cup {n}
        /\ \A p \in G.at : /\ E.level[p] = G.level[p] /\ E.lo[p] = G.lo[p]
                           /\ E.hi[p] = IF p = id THEN m ELSE G.hi[p]
        /\ E.level[n] = G.level[id] /\ E.lo[n] = m /\ E.hi[n] = G.hi[id]
    <3>1. E = Halved(G, id, n, m) /\ n \notin G.at
      BY <1>1, <1>6
    <3> QED
      BY <3>1, ZenonT(30) DEF Halved
  <2> QED
    BY <2>1
<1>12. Tree(u, E, h)
  <2>1. ASSUME NEW x \in DOMAIN u.pages \ E.at
        PROVE  PageIn(u.pages[x], DOMAIN u.pages)
    <3>1. x \in DOMAIN t.pages \ G.at /\ x # id /\ x # q
      BY <1>5, <1>11, <2>1
    <3>2. PageIn(t.pages[x], DOMAIN t.pages)
      BY <1>3, <3>1 DEF Tree
    <3>3. PageIn(t.pages[x], DOMAIN u.pages)
      BY <1>5, <3>2, PageInMore
    <3> QED
      BY <1>8, <3>1, <3>3
  <2> QED
    BY <1>10, <2>1 DEF Tree
<1>13. ASSUME NEW p \in E.at \ {q}
       PROVE  Filled(u, p)
  <2>1. CASE p \in {id, n}
    <3>1. NumKeys(u.pages[p]) \in MinKeys..Order
      BY <1>2, <1>8, <2>1, Zenon
    <3> QED
      BY <3>1, EnoughKeys DEF Filled
  <2>2. CASE p \notin {id, n}
    <3>1. p \in G.at \ {id} /\ u.pages[p] = t.pages[p]
      BY <1>3, <1>8, <1>11, <1>13, <2>2
    <3>2. Filled(t, p)
      BY <1>3, <3>1, SMTT(20)
    <3> QED
      BY <3>1, <3>2, SMTT(20) DEF Filled
  <2> QED
    BY <2>1, <2>2
<1>14. ~u.pages[q].leaf /\ NumKeys(u.pages[q]) = NumKeys(t.pages[q]) + 1 /\ ~t.pages[q].leaf
  <2>1. PICK Q : Q = t.pages[q]
    BY SMTT(20)
  <2>2. IndexFits(G, Q, G.level[q], G.lo[q], G.hi[q])
    BY <1>3, <2>1, PageFits, SMTT(20)
  <2>3. ~Q.leaf /\ Q.keys \in Seq(Key) /\ Len(Q.keys) \in Nat /\ Len(Q.kids) = Len(Q.keys) + 1
    BY <2>2 DEF IndexFits
  <2>4. i \in 1..(Len(Q.keys) + 1)
    BY <2>1, <2>3
  <2>5. u.pages[q] = Index(InsertAt(Q.keys, i, m), InsertAt(Q.kids, i + 1, n))
    <3>1. PICK pg : pg = t.pages
      OBVIOUS
    <3>2. /\ Shape(pg, G, t.root, h) /\ i \in 1..Len(pg[q].kids)
          /\ G.lo[pg[q].kids[i]] < m /\ m < G.hi[pg[q].kids[i]]
          /\ m \in Key /\ q \in G.at /\ G.level[q] # 0
      BY <1>2, <1>3, <3>1, ZenonT(30)
    <3>3. AddSeparator(pg[q], [key |-> m, page |-> n]) = Index(InsertAt(pg[q].keys, i, m), InsertAt(pg[q].kids, i + 1, n))
      BY <3>2, SeparatorAdded
    <3>4. Q = pg[q]
      BY <2>1, <3>1
    <3>5. u.pages[q] = AddSeparator(Q, [key |-> m, page |-> n])
      BY <1>9, <2>1, Zenon
    <3>6. AddSeparator(Q, [key |-> m, page |-> n]) = Index(InsertAt(Q.keys, i, m), InsertAt(Q.kids, i + 1, n))
      BY <3>3, <3>4, Zenon
    <3> QED
      BY <3>5, <3>6, Zenon
  <2>6. Len(InsertAt(Q.keys, i, m)) = Len(Q.keys) + 1
    <3>1. PICK keys \in Seq(Key) : keys = Q.keys
      BY <2>3
    <3>2. i \in 1..(Len(keys) + 1) /\ m \in Key
      BY <1>2, <2>4, <3>1, Zenon
    <3>3. Len(InsertAt(keys, i, m)) = Len(keys) + 1
      BY <3>2, InsertAtIs
    <3> QED
      BY <3>1, <3>3
  <2>7. ~u.pages[q].leaf /\ u.pages[q].keys = InsertAt(Q.keys, i, m)
    BY <2>5 DEF Index
  <2>8. NumKeys(u.pages[q]) = Len(Q.keys) + 1 /\ NumKeys(Q) = Len(Q.keys)
    BY <2>3, <2>6, <2>7, SMTT(20) DEF NumKeys
  <2> QED
    BY <2>1, <2>3, <2>7, <2>8
<1>15. SameRows(t, G, u, E)
  <2> SUFFICES ASSUME NEW k, NEW v
               PROVE  Holds(t.pages, G.at, k, v) <=> Holds(u.pages, E.at, k, v)
    BY DEF SameRows
  <2>1. ~InPage(t.pages[q], k, v) /\ ~InPage(u.pages[q], k, v)
    BY <1>14 DEF InPage
  <2>2. (\E p \in {id, q} : InPage(t.pages[p], k, v)) <=> (\E p \in {id, q, n} : InPage(u.pages[p], k, v))
    BY <1>2, <1>8, <2>1, ZenonT(30)
  <2>3. Replaces(t.pages, G.at, u.pages, E.at, {id, q}, {id, q, n})
    BY <1>3, <1>6, <1>8, <1>11, ZenonT(30) DEF Replaces
  <2> QED
    BY <2>2, <2>3, RowsKept
<1>16. Sound(u, E, h, q)
  BY <1>12, <1>13 DEF Sound
<1>17. \A p \in G.at : p # q /\ p # id => u.pages[p] = t.pages[p]
  BY <1>3, <1>8
<1> QED
  BY <1>1, <1>11, <1>14, <1>15, <1>16, <1>17, ZenonT(30) DEF Lifted

\* What insertion has done below an index page reaches the page and stops there,
\* or splits it too.
LEMMA AbsorbIs ==
    ASSUME NEW s, NEW g, NEW h, Sound(s, g, h, NoPage), NEW k \in Key, NEW v,
           NEW path, OnPath(s, g, h, k, path), NEW j \in 2..(h + 1),
           NEW r, Climbed(s, g, h, k, v, path[j].id, h + 1 - j, r)
    PROVE  Climbed(s, g, h, k, v, path[j - 1].id, h + 1 - (j - 1), Absorb(r, path[j - 1].id))
<1>1. PICK q, id, i, l, a : /\ q = path[j - 1].id /\ id = path[j].id /\ i = path[j].pos
                            /\ l = h + 1 - j /\ a = Absorb(r, q)
  OBVIOUS
<1>2. PICK s1 : s1 = MarkDirty(SetPage(r.s, q, AddSeparator(r.s.pages[q], r.split)), q)
  OBVIOUS
<1>3. a = IF r.split = NoSplit THEN r
          ELSE IF IsFull(s1.pages[q]) THEN SplitIndex(s1, q)
          ELSE [s |-> s1, split |-> NoSplit]
  BY <1>1, <1>2 DEF Absorb
<1>4. h \in Nat /\ j \in 2..(h + 1) /\ l \in Nat /\ h + 1 - (j - 1) = l + 1
  BY <1>1, LevelsCounted DEF Sound
<1>5. /\ q \in g.at /\ g.level[q] = l + 1 /\ id \in g.at /\ g.level[id] = l
      /\ i \in 1..Len(s.pages[q].kids) /\ id = s.pages[q].kids[i]
  <2>1. j \in 1..(h + 1) /\ j - 1 \in 1..(h + 1)
    BY <1>4
  <2>2. q \in g.at /\ g.level[q] = h + 1 - (j - 1) /\ id \in g.at /\ g.level[id] = h + 1 - j
    BY <1>1, <2>1 DEF OnPath
  <2>3. i \in 1..Len(s.pages[q].kids) /\ id = s.pages[q].kids[i]
    BY <1>1 DEF OnPath
  <2> QED
    BY <1>1, <1>4, <2>2, <2>3, Zenon
<1>6. \A p \in g.at : g.level[p] \in Nat
  <2>1. Layout(g, s.root, h)
    BY DEF Sound, Tree, Shape
  <2> QED
    BY <1>4, <2>1 DEF Layout
<1>7. CASE r.split = NoSplit /\ \E G : Sound(r.s, G, h, NoPage) /\ Above(s, g, r.s, G, l) /\ Stored(s, g, r.s, G, k, v)
  <2>1. PICK G : Sound(r.s, G, h, NoPage) /\ Above(s, g, r.s, G, l) /\ Stored(s, g, r.s, G, k, v)
    BY <1>7
  <2>2. Above(s, g, r.s, G, l + 1)
    <3>1. \A p \in g.at : (g.level[p] >= l + 1 => g.level[p] >= l) /\ (g.level[p] > l + 1 => g.level[p] > l)
      BY <1>4, <1>6
    <3> QED
      BY <2>1, <3>1 DEF Above
  <2>3. a = r
    BY <1>3, <1>7
  <2>4. Climbed(s, g, h, k, v, q, l + 1, r)
    BY <1>7, <2>1, <2>2 DEF Climbed
  <2> QED
    BY <1>1, <1>4, <2>3, <2>4
<1>8. ASSUME NEW t, NEW G, Sound(t, G, h, id), Above(s, g, t, G, l), Stored(s, g, t, G, k, v),
             id \in G.at, Halves(G, t, id, l, G.lo[id], G.hi[id], r)
      PROVE  Climbed(s, g, h, k, v, q, l + 1, a)
  <2>1. /\ q \in G.at /\ G.level[q] = l + 1 /\ id \in G.at /\ G.level[id] = l /\ q # id
        /\ t.pages[q] = s.pages[q] /\ t.root = s.root
    <3>1. g.level[q] >= l /\ g.level[q] > l /\ g.level[id] >= l
      BY <1>4, <1>5
    <3>2. q \in G.at /\ G.level[q] = l + 1 /\ G.level[id] = l /\ t.pages[q] = s.pages[q] /\ t.root = s.root
      BY <1>5, <1>8, <3>1 DEF Above
    <3>3. q # id
      BY <1>4, <3>2
    <3> QED
      BY <1>8, <3>2, <3>3
  <2>2. /\ State(t) /\ G.at \subseteq DOMAIN t.pages /\ Shape(t.pages, G, t.root, h)
        /\ \A p \in G.at \ {id} : Filled(t, p)
    BY <1>8 DEF Sound, Tree, Shape
  <2>3. /\ State(r.s) /\ r.s.next = t.next + 1 /\ r.s.root = t.root
        /\ r.split = [key |-> r.split.key, page |-> t.next] /\ r.split.key \in Key
        /\ \A p \in DOMAIN t.pages \ {id} : r.s.pages[p] = t.pages[p]
    BY <1>8 DEF Halves
  <2>4. r.split # NoSplit
    <3>1. r.split.key >= 0
      BY <2>3, KeyAssumption
    <3> QED
      BY <3>1 DEF NoSplit
  <2>5. q \in DOMAIN r.s.pages /\ r.s.pages[q] = t.pages[q]
    <3>1. DOMAIN t.pages \subseteq DOMAIN r.s.pages
      BY <2>2, <2>3 DEF State
    <3> QED
      BY <2>1, <2>2, <2>3, <3>1
  <2>6. PICK u : u = SetPage(r.s, q, AddSeparator(r.s.pages[q], r.split))
    OBVIOUS
  <2>7. /\ State(u) /\ u.next = r.s.next /\ u.root = r.s.root /\ DOMAIN u.pages = DOMAIN r.s.pages
        /\ u.pages[q] = AddSeparator(r.s.pages[q], r.split)
        /\ \A p \in DOMAIN r.s.pages : p # q => u.pages[p] = r.s.pages[p]
    BY <2>3, <2>5, <2>6, SetPageIs
  <2>8. State(s1) /\ s1.next = u.next /\ s1.root = u.root /\ s1.pages = u.pages
    BY <1>2, <2>6, <2>7, MarkDirtyIs, SMTT(20)
  <2>9. PICK E : Lifted(t, G, id, r, q, s1, E, h)
    <3>1. /\ s1.root = t.root /\ s1.next = r.s.next
          /\ s1.pages[q] = AddSeparator(t.pages[q], r.split)
          /\ \A p \in DOMAIN r.s.pages \ {q} : s1.pages[p] = r.s.pages[p]
      BY <2>3, <2>5, <2>7, <2>8
    <3>2. G.level[q] # 0 /\ i \in 1..Len(t.pages[q].kids) /\ id = t.pages[q].kids[i]
      BY <1>4, <1>5, <2>1
    <3>3. Halves(G, t, id, G.level[id], G.lo[id], G.hi[id], r)
      BY <1>8, <2>1
    <3> QED
      BY <1>8, <2>1, <2>8, <3>1, <3>2, <3>3, Lift, ZenonT(30)
  <2>10. /\ Sound(s1, E, h, q) /\ E.at = G.at \cup {t.next} /\ s1.root = t.root
         /\ \A p \in G.at : E.level[p] = G.level[p] /\ (p # q /\ p # id => s1.pages[p] = t.pages[p])
         /\ ~s1.pages[q].leaf /\ NumKeys(s1.pages[q]) = NumKeys(t.pages[q]) + 1
         /\ SameRows(t, G, s1, E)
    BY <2>9 DEF Lifted
  <2>11. Above(s, g, s1, E, l + 1)
    <3>1. ASSUME NEW p \in g.at, g.level[p] >= l + 1
          PROVE  p \in E.at /\ E.level[p] = g.level[p]
      <4>1. g.level[p] >= l
        BY <1>4, <1>6, <3>1
      <4>2. p \in G.at /\ G.level[p] = g.level[p]
        BY <1>8, <4>1 DEF Above
      <4> QED
        BY <2>10, <4>2
    <3>2. ASSUME NEW p \in g.at, g.level[p] > l + 1
          PROVE  s1.pages[p] = s.pages[p]
      <4>0. PICK n \in Nat : n = g.level[p]
        BY <1>6
      <4>a. n >= l /\ n > l /\ n # l + 1 /\ n # l
        BY <1>4, <3>2, <4>0
      <4>1. g.level[p] >= l /\ g.level[p] > l /\ p # q /\ p # id
        BY <1>5, <4>0, <4>a
      <4>2. p \in G.at /\ t.pages[p] = s.pages[p]
        BY <1>8, <4>1 DEF Above
      <4> QED
        BY <2>10, <4>1, <4>2
    <3> QED
      BY <2>1, <2>10, <3>1, <3>2 DEF Above
  <2>12. Stored(s, g, s1, E, k, v)
    BY <1>8, <2>10 DEF Stored, SameRows
  <2>13. PICK n \in Nat : n = NumKeys(t.pages[q]) /\ n <= Order /\ (q # t.root => n >= MinKeys)
    <3>1. Filled(t, q)
      BY <2>1, <2>2
    <3> QED
      BY <3>1 DEF Filled
  <2>14. NumKeys(s1.pages[q]) = n + 1 /\ Order \in Nat /\ MinKeys \in Nat
    BY <2>10, <2>13, EnoughKeys
  <2>15. q \in E.at /\ E.level[q] = l + 1
    BY <2>1, <2>10
  <2>16. CASE IsFull(s1.pages[q])
    <3>1. a = SplitIndex(s1, q)
      BY <1>3, <2>4, <2>16
    <3>2. NumKeys(s1.pages[q]) = Order + 1
      BY <2>13, <2>14, <2>16 DEF IsFull
    <3>3. State(s1) /\ Shape(s1.pages, E, s1.root, h) /\ Layout(E, s1.root, h)
      BY <2>10 DEF Sound, Tree, Shape
    <3>4. /\ q \in DOMAIN s1.pages /\ E.lo[q] \in Int /\ E.hi[q] \in Int /\ E.lo[q] < E.hi[q]
          /\ IndexFits(E, s1.pages[q], l + 1, E.lo[q], E.hi[q])
      <4>1. PICK pg, root : pg = s1.pages /\ root = s1.root
        OBVIOUS
      <4>2. Shape(pg, E, root, h) /\ E.level[q] # 0
        BY <1>4, <2>15, <3>3, <4>1
      <4>3. /\ q \in DOMAIN pg /\ E.lo[q] \in Int /\ E.hi[q] \in Int /\ E.lo[q] < E.hi[q]
            /\ IndexFits(E, pg[q], E.level[q], E.lo[q], E.hi[q])
        BY <2>15, <4>2, PageFits
      <4> QED
        BY <2>15, <4>1, <4>3
    <3>5. l + 1 \in Nat \ {0}
      BY <1>4
    <3>6. Halves(E, s1, q, l + 1, E.lo[q], E.hi[q], a)
      BY <3>1, <3>2, <3>3, <3>4, <3>5, SplitIndexHalves
    <3> QED
      BY <2>10, <2>11, <2>12, <2>15, <3>2, <3>6 DEF Climbed
  <2>17. CASE ~IsFull(s1.pages[q])
    <3>1. a = [s |-> s1, split |-> NoSplit]
      BY <1>3, <2>4, <2>17
    <3>2. n + 1 <= Order
      BY <2>13, <2>14, <2>17 DEF IsFull
    <3>3. Filled(s1, q)
      <4>1. n + 1 \in Nat /\ n + 1 >= 1 /\ (n >= MinKeys => n + 1 >= MinKeys)
        BY <2>13, <2>14
      <4> QED
        BY <2>10, <2>13, <2>14, <3>2, <4>1 DEF Filled
    <3>4. Sound(s1, E, h, NoPage)
      BY <2>10, <3>3 DEF Sound
    <3>5. a.split = NoSplit /\ a.s = s1
      BY <3>1
    <3> QED
      BY <2>11, <2>12, <3>4, <3>5 DEF Climbed
  <2> QED
    BY <2>16, <2>17
<1> QED
  <2>1. Climbed(s, g, h, k, v, id, l, r)
    BY <1>1
  <2>2. Climbed(s, g, h, k, v, q, l + 1, a)
    BY <1>7, <1>8, <1>1, <1>4, <2>1 DEF Climbed
  <2> QED
    BY <1>1, <1>4, <2>2

\* The row of the key is in its leaf, which is split if it is full.
LEMMA InsertAtLeafIs ==
    ASSUME NEW s, NEW g, NEW h, Sound(s, g, h, NoPage), NEW k \in Key, NEW v \in Row,
           NEW id, id = FindPath(s, k)[h + 1].id
    PROVE  Climbed(s, g, h, k, v, id, 0, InsertAtLeaf(s, id, k, v))
<1>1. PICK p, A, u, s1 : /\ p = s.pages[id] /\ A = Leaf(With(p.rows, k, v), p.next)
                         /\ u = SetPage(s, id, A) /\ s1 = MarkDirty(u, id)
  OBVIOUS
<1>2. InsertAtLeaf(s, id, k, v) = IF IsFull(s1.pages[id]) THEN SplitLeaf(s1, id) ELSE [s |-> s1, split |-> NoSplit]
  BY <1>1 DEF InsertAtLeaf
<1>3. Tree(s, g, h) /\ State(s) /\ Shape(s.pages, g, s.root, h) /\ g.at \subseteq DOMAIN s.pages
  BY SMTT(20) DEF Sound, Tree, Shape
<1>4. /\ id \in g.at /\ id \in DOMAIN s.pages /\ g.level[id] = 0
      /\ LeafFits(p, g.lo[id], g.hi[id]) /\ g.lo[id] <= k /\ k < g.hi[id]
      /\ \A w : \A q \in g.at : InPage(s.pages[q], k, w) => q = id
  <2>1. PICK path : path = FindPath(s, k)
    OBVIOUS
  <2>2. Tree(s, g, h) /\ id = path[h + 1].id
    BY <1>3, <2>1
  <2>3. /\ Last(path).id = id /\ id \in g.at /\ id \in DOMAIN s.pages /\ g.level[id] = 0
        /\ LeafFits(s.pages[id], g.lo[id], g.hi[id]) /\ g.lo[id] <= k /\ k < g.hi[id]
        /\ \A w : Holds(s.pages, g.at, k, w) <=> InPage(s.pages[id], k, w)
        /\ \A w : \A q \in g.at : InPage(s.pages[q], k, w) => q = id
    <3>1. LeafFor(s, g, k, path, id)
      BY <2>1, <2>2, LeafOf
    <3> QED
      BY <3>1 DEF LeafFor
  <2> QED
    BY <1>1, <2>3, ZenonT(30)
<1>5. PICK f : f = With(p.rows, k, v)
  OBVIOUS
<1>6. DOMAIN f = DOMAIN p.rows \cup {k} /\ f[k] = v /\ \A x \in DOMAIN p.rows \ {k} : f[x] = p.rows[x]
  BY <1>5 DEF With
<1>7. A.leaf /\ A.rows = f /\ A.next = p.next
  BY <1>1, <1>5 DEF Leaf
<1>8. LeafFits(A, g.lo[id], g.hi[id])
  BY <1>4, <1>6, <1>7 DEF LeafFits
<1>9. /\ State(s1) /\ s1.next = s.next /\ s1.root = s.root /\ DOMAIN s1.pages = DOMAIN s.pages
      /\ s1.pages[id] = A /\ \A q \in DOMAIN s.pages : q # id => s1.pages[q] = s.pages[q]
  <2>1. /\ State(u) /\ u.next = s.next /\ u.root = s.root /\ DOMAIN u.pages = DOMAIN s.pages
        /\ u.pages[id] = A /\ \A q \in DOMAIN s.pages : q # id => u.pages[q] = s.pages[q]
    <3>1. u = SetPage(s, id, A) /\ State(s) /\ id \in DOMAIN s.pages
      BY <1>1, <1>3, <1>4
    <3> QED
      BY <3>1, SetPageIs, SMTT(20)
  <2>2. State(s1) /\ s1.next = u.next /\ s1.root = u.root /\ s1.pages = u.pages
    <3>1. s1 = MarkDirty(u, id) /\ State(u)
      BY <1>1, <2>1, Zenon
    <3> QED
      BY <3>1, MarkDirtyIs
  <2> QED
    BY <2>1, <2>2
<1>10. Shape(s1.pages, g, s1.root, h)
  <2>1. PICK pg, new, root : pg = s.pages /\ new = s1.pages /\ root = s.root
    OBVIOUS
  <2>2. /\ Shape(pg, g, root, h) /\ A.next = pg[id].next
        /\ g.at \subseteq DOMAIN new /\ new[id] = A /\ \A q \in g.at \ {id} : new[q] = pg[q]
    <3>1. A.next = pg[id].next
      BY <1>1, <1>7, <2>1, Zenon
    <3> QED
      BY <1>3, <1>9, <2>1, <3>1
  <2>3. Shape(new, g, root, h)
    BY <1>4, <1>8, <2>2, RowsShape
  <2> QED
    BY <1>9, <2>1, <2>3
<1>11. Tree(s1, g, h)
  BY <1>3, <1>4, <1>9, <1>10 DEF Tree
<1>12. \A q \in g.at \ {id} : Filled(s1, q)
  <2>1. \A q \in g.at \ {id} : Filled(s, q) /\ s1.pages[q] = s.pages[q]
    <3>1. NoPage \notin DOMAIN s.pages
      BY <1>3 DEF State, NoPage
    <3> QED
      BY <1>3, <1>9, <3>1 DEF Sound
  <2> QED
    BY <1>9, <2>1 DEF Filled
<1>13. Above(s, g, s1, g, 0)
  <2>1. \A q \in g.at : g.level[q] > 0 => q # id
    BY <1>4
  <2> QED
    BY <1>3, <1>9, <2>1 DEF Above
<1>14. Stored(s, g, s1, g, k, v)
  <2> SUFFICES ASSUME NEW j, NEW w
               PROVE  Holds(s1.pages, g.at, j, w) <=> IF j = k THEN w = v ELSE Holds(s.pages, g.at, j, w)
    BY DEF Stored
  <2>1. CASE j = k
    <3>1. \A q \in g.at : InPage(s1.pages[q], k, w) <=> q = id /\ w = v
      <4> TAKE q \in g.at
      <4>1. CASE q = id
        BY <1>6, <1>7, <1>9, <4>1 DEF InPage
      <4>2. CASE q # id
        BY <1>3, <1>4, <1>9, <4>2
      <4> QED
        BY <4>1, <4>2
    <3> QED
      BY <1>4, <2>1, <3>1 DEF Holds
  <2>2. CASE j # k
    <3>1. \A q \in g.at : InPage(s1.pages[q], j, w) <=> InPage(s.pages[q], j, w)
      <4> TAKE q \in g.at
      <4>1. CASE q = id
        <5>1. p.leaf
          BY <1>4 DEF LeafFits
        <5>2. s1.pages[q] = A /\ s.pages[q] = p
          BY <1>1, <1>9, <4>1, Zenon
        <5>3. InPage(A, j, w) <=> InPage(p, j, w)
          BY <1>6, <1>7, <2>2, <5>1 DEF InPage
        <5> QED
          BY <5>2, <5>3
      <4>2. CASE q # id
        BY <1>3, <1>9, <4>2, SMTT(20)
      <4> QED
        BY <4>1, <4>2
    <3> QED
      BY <2>2, <3>1 DEF Holds
  <2> QED
    BY <2>1, <2>2
<1>15. PICK n \in Nat : n = NumKeys(p) /\ n <= Order /\ (id # s.root => n >= MinKeys)
  <2>1. id # NoPage
    BY <1>3, <1>4 DEF State, NoPage
  <2>2. Filled(s, id)
    BY <1>4, <2>1 DEF Sound
  <2> QED
    BY <1>1, <2>2 DEF Filled
<1>16. NumKeys(A) = n \/ NumKeys(A) = n + 1
  <2>1. PICK S : S = DOMAIN p.rows
    OBVIOUS
  <2>2. IsFiniteSet(S) /\ Cardinality(S) = n
    BY <1>4, <1>15, <2>1, LeafRows
  <2>3. Cardinality(S \cup {k}) = IF k \in S THEN n ELSE n + 1
    BY <2>2, FS_AddElement
  <2>4. NumKeys(A) = Cardinality(S \cup {k})
    BY <1>6, <1>7, <2>1 DEF NumKeys
  <2> QED
    BY <2>3, <2>4
<1>17. Order \in Nat /\ MinKeys \in Nat
  BY EnoughKeys
<1>18. CASE IsFull(s1.pages[id])
  <2>1. NumKeys(s1.pages[id]) = Order + 1
    BY <1>9, <1>15, <1>16, <1>17, <1>18 DEF IsFull
  <2>2. g.lo[id] \in Int /\ g.hi[id] \in Int
    BY <1>3, <1>4, PageFits
  <2>3. Halves(g, s1, id, 0, g.lo[id], g.hi[id], SplitLeaf(s1, id))
    <3>1. LeafFits(s1.pages[id], g.lo[id], g.hi[id]) /\ id \in DOMAIN s1.pages
      BY <1>4, <1>8, <1>9
    <3> QED
      BY <1>9, <2>1, <2>2, <3>1, SplitLeafHalves
  <2>4. Sound(s1, g, h, id)
    BY <1>11, <1>12 DEF Sound
  <2> QED
    BY <1>2, <1>4, <1>13, <1>14, <1>18, <2>1, <2>3, <2>4 DEF Climbed
<1>19. CASE ~IsFull(s1.pages[id])
  <2>1. PICK r : r = [s |-> s1, split |-> NoSplit]
    OBVIOUS
  <2>2. NumKeys(A) <= Order
    BY <1>9, <1>15, <1>16, <1>17, <1>19 DEF IsFull
  <2>3. NumKeys(A) \in Nat /\ (id # s.root => NumKeys(A) >= MinKeys)
    BY <1>15, <1>16, <1>17
  <2>4. Filled(s1, id)
    BY <1>7, <1>9, <2>2, <2>3 DEF Filled
  <2>5. Sound(s1, g, h, NoPage)
    BY <1>11, <1>12, <2>4 DEF Sound
  <2>6. r.split = NoSplit /\ r.s = s1
    BY <2>1
  <2>7. Climbed(s, g, h, k, v, id, 0, r)
    BY <1>13, <1>14, <2>5, <2>6 DEF Climbed
  <2> QED
    BY <1>2, <1>19, <2>1, <2>7
<1> QED
  BY <1>18, <1>19

\* What insertion does along the path, from the leaf up.
Rises(f, s, path, k, v) ==
    f = [d \in 1..Len(path) |->
           IF d = Len(path) THEN InsertAtLeaf(s, path[d].id, k, v)
           ELSE Absorb(f[d + 1], path[d].id)]

\* There is such a function.
LEMMA RisesExist ==
    ASSUME NEW s, NEW path, NEW k, NEW v, NEW N \in Nat \ {0}, Len(path) = N
    PROVE  \E f : Rises(f, s, path, k, v)
<1> DEFINE From(f, M) == f = [d \in (N - M)..N |->
              IF d = N THEN InsertAtLeaf(s, path[d].id, k, v)
              ELSE Absorb(f[d + 1], path[d].id)]
           Defined == {M \in 0..(N - 1) : \E f : From(f, M)}
<1>1. 0 \in Defined
  <2> DEFINE f == [d \in (N - 0)..N |-> InsertAtLeaf(s, path[d].id, k, v)]
  <2>1. From(f, 0)
    OBVIOUS
  <2>2. 0 \in 0..(N - 1)
    OBVIOUS
  <2> HIDE DEF f, From
  <2> QED
    BY <2>1, <2>2
<1>2. ASSUME NEW M \in 1..(N - 1), M - 1 \in Defined
      PROVE  M \in Defined
  <2>1. PICK f : From(f, M - 1)
    BY <1>2
  <2>2. PICK b \in Int : b = N - M
    OBVIOUS
  <2>3. N - (M - 1) = b + 1 /\ b < N
    BY <2>2
  <2> DEFINE L(d) == InsertAtLeaf(s, path[d].id, k, v)
             U(x, d) == Absorb(x, path[d].id)
             e == [d \in b..N |-> IF d = b THEN U(f[b + 1], b) ELSE f[d]]
  <2>4. \A d \in (b + 1)..N : f[d] = IF d = N THEN L(d) ELSE U(f[d + 1], d)
    <3>1. f = [d \in (b + 1)..N |-> IF d = N THEN L(d) ELSE U(f[d + 1], d)]
      BY <2>1, <2>3
    <3> QED
      BY <3>1
  <2> HIDE DEF L, U
  <2>5. \A d \in b..N : e[d] = IF d = N THEN L(d) ELSE U(e[d + 1], d)
    <3> TAKE d \in b..N
    <3>1. CASE d = b
      <4>1. d + 1 \in b..N /\ d + 1 # b /\ d # N
        BY <2>3, <3>1
      <4>2. e[d + 1] = f[d + 1]
        BY <4>1
      <4> QED
        BY <3>1, <4>1, <4>2
    <3>2. CASE d # b
      <4>1. d \in (b + 1)..N /\ e[d] = f[d]
        BY <2>2, <3>2
      <4>2. d # N => d + 1 \in b..N /\ d + 1 # b /\ e[d + 1] = f[d + 1]
        BY <2>2, <3>2
      <4> QED
        BY <2>4, <4>1, <4>2
    <3> QED
      BY <3>1, <3>2
  <2>6. e = [d \in b..N |-> e[d]]
    OBVIOUS
  <2> HIDE DEF e
  <2>7. e = [d \in b..N |-> IF d = N THEN L(d) ELSE U(e[d + 1], d)]
    BY <2>5, <2>6
  <2>8. From(e, M)
    BY <2>2, <2>7 DEF L, U
  <2> QED
    BY <2>8
<1> HIDE DEF Defined
<1>3. \A n \in 1..(N - 1) : n - 1 \in Defined => n \in Defined
  BY <1>2
<1>4. PICK m \in Nat : m = N - 1
  OBVIOUS
<1>5. 0..m \subseteq Defined
  BY <1>1, <1>3, <1>4, CountUp
<1>6. N - 1 \in Defined /\ N - (N - 1) = 1
  BY <1>4, <1>5
<1>7. PICK f : From(f, N - 1)
  BY <1>6 DEF Defined
<1> QED
  BY <1>6, <1>7 DEF Rises

\* Insertion climbs up to the root.
LEMMA InsertBelowIs ==
    ASSUME NEW s, NEW g, NEW h, Sound(s, g, h, NoPage), NEW k \in Key, NEW v \in Row
    PROVE  Climbed(s, g, h, k, v, s.root, h, InsertBelow(s, k, v))
<1> DEFINE path == FindPath(s, k)
           f == CHOOSE e : Rises(e, s, path, k, v)
<1>1. OnPath(s, g, h, k, path) /\ h \in Nat
  BY PathIs, LevelsCounted DEF Sound
<1>2. Len(path) = h + 1 /\ path[1].id = s.root
  BY <1>1 DEF OnPath
<1>3. InsertBelow(s, k, v) = f[1]
  BY DEF InsertBelow, Rises
<1>4. Rises(f, s, path, k, v)
  <2>1. h + 1 \in Nat \ {0}
    BY <1>1
  <2>2. \E e : Rises(e, s, path, k, v)
    BY <1>2, <2>1, RisesExist
  <2> QED
    BY <2>2
<1> HIDE DEF f, path
<1>5. \A d \in 1..(h + 1) : f[d] = IF d = h + 1 THEN InsertAtLeaf(s, path[d].id, k, v)
                                   ELSE Absorb(f[d + 1], path[d].id)
  BY <1>2, <1>4 DEF Rises
<1> DEFINE Up(n) == Climbed(s, g, h, k, v, path[h + 1 - n].id, n, f[h + 1 - n])
           Done == {n \in 0..h : Up(n)}
<1>6. 0 \in Done
  <2>1. h + 1 - 0 = h + 1 /\ h + 1 \in 1..(h + 1) /\ 0 \in 0..h
    BY <1>1
  <2>2. Climbed(s, g, h, k, v, path[h + 1].id, 0, InsertAtLeaf(s, path[h + 1].id, k, v))
    BY InsertAtLeafIs DEF path
  <2>3. f[h + 1] = InsertAtLeaf(s, path[h + 1].id, k, v)
    BY <1>5, <2>1
  <2> QED
    BY <2>1, <2>2, <2>3
<1>7. ASSUME NEW n \in 1..h, n - 1 \in Done
      PROVE  n \in Done
  <2>1. PICK j \in 2..(h + 1) : j = h + 1 - (n - 1)
    BY <1>1
  <2>2. /\ n \in 0..h /\ h + 1 - j = n - 1 /\ h + 1 - (j - 1) = n /\ h + 1 - n = j - 1
        /\ j - 1 \in 1..(h + 1) /\ j - 1 # h + 1 /\ (j - 1) + 1 = j
    BY <1>1, <2>1
  <2>3. Climbed(s, g, h, k, v, path[j].id, h + 1 - j, f[j])
    <3>1. Up(n - 1)
      BY <1>7
    <3> QED
      BY <2>1, <2>2, <3>1
  <2>4. Climbed(s, g, h, k, v, path[j - 1].id, h + 1 - (j - 1), Absorb(f[j], path[j - 1].id))
    BY <1>1, <2>3, AbsorbIs
  <2>5. f[j - 1] = Absorb(f[j], path[j - 1].id)
    BY <1>5, <2>2
  <2>6. Up(n)
    BY <2>2, <2>4, <2>5
  <2> QED
    BY <2>2, <2>6
<1> HIDE DEF Done
<1>8. 0..h \subseteq Done
  BY <1>1, <1>6, <1>7, CountUp
<1>9. Up(h) /\ h + 1 - h = 1
  BY <1>1, <1>8 DEF Done
<1> QED
  BY <1>2, <1>3, <1>9

\* Tree t, with its layout, is tree s with row v for key k, and all its pages are filled.
After(s, g, t, k, v) == \E G, h : Sound(t, G, h, NoPage) /\ Stored(s, g, t, G, k, v)

\* What fits a layout fits one with more pages.
LEMMA FitsMore ==
    ASSUME NEW g, NEW G, NEW p, NEW l, NEW a, NEW b, Fits(g, p, l, a, b), g.at \subseteq G.at,
           \A x \in g.at : G.level[x] = g.level[x] /\ G.lo[x] = g.lo[x] /\ G.hi[x] = g.hi[x]
    PROVE  Fits(G, p, l, a, b)
<1>1. CASE l = 0
  BY <1>1 DEF Fits
<1>2. CASE l # 0
  <2>1. IndexFits(g, p, l, a, b)
    BY <1>2 DEF Fits
  <2>2. \A i \in 1..Len(p.kids) : p.kids[i] \in g.at
    BY <2>1 DEF IndexFits
  <2>3. \A i \in 1..Len(p.kids) : LET c == p.kids[i] IN
              c \in G.at /\ G.level[c] = g.level[c] /\ G.lo[c] = g.lo[c] /\ G.hi[c] = g.hi[c]
    BY <2>2
  <2>4. IndexFits(G, p, l, a, b)
    BY <2>1, <2>3, SameChildren
  <2> QED
    BY <1>2, <2>4 DEF Fits
<1> QED
  BY <1>1, <1>2

\* The first separator of an index page with one child.
LEMMA FirstSeparator ==
    ASSUME NEW root, NEW m \in Key, NEW n
    PROVE  AddSeparator(Index(<<>>, <<root>>), [key |-> m, page |-> n]) = Index(<<m>>, <<root, n>>)
<1>1. PICK p : p = Index(<<>>, <<root>>)
  OBVIOUS
<1>2. p.keys = <<>> /\ p.kids = <<root>>
  BY <1>1 DEF Index
<1>3. {j \in 1..Len(p.keys) : p.keys[j] < m} = {}
  BY <1>2
<1>4. Cardinality({j \in 1..Len(p.keys) : p.keys[j] < m}) + 1 = 1
  <2>1. PICK S : S = {j \in 1..Len(p.keys) : p.keys[j] < m}
    OBVIOUS
  <2>2. S = {}
    BY <1>3, <2>1
  <2>3. Cardinality(S) = 0
    BY <2>2, FS_EmptySet
  <2>4. Cardinality(S) + 1 = 1
    BY <2>3
  <2> QED
    BY <2>1, <2>4
<1>5. AddSeparator(p, [key |-> m, page |-> n]) = Index(InsertAt(p.keys, 1, m), InsertAt(p.kids, 1 + 1, n))
  BY <1>4 DEF AddSeparator
<1>6. InsertAt(p.keys, 1, m) = <<m>>
  <2>0. PICK keys \in Seq(Key) : keys = p.keys
    <3>1. <<>> \in Seq(Key)
      OBVIOUS
    <3> QED
      BY <1>2, <3>1
  <2>1. PICK new : keys = p.keys /\ new = InsertAt(keys, 1, m)
    BY <2>0
  <2>2. keys \in Seq(Key) /\ Len(keys) = 0 /\ 1 \in 1..(Len(keys) + 1)
    BY <1>2, <2>1
  <2>a. PICK i \in 1..(Len(keys) + 1) : i = 1
    BY <2>2
  <2>3. /\ InsertAt(keys, i, m) \in Seq(Key) /\ Len(InsertAt(keys, i, m)) = Len(keys) + 1
        /\ \A x \in 1..(Len(keys) + 1) :
              InsertAt(keys, i, m)[x] = IF x < i THEN keys[x] ELSE IF x = i THEN m ELSE keys[x - 1]
    BY InsertAtIs
  <2>4. new \in Seq(Key) /\ Len(new) = 1 /\ new[1] = m
    BY <2>1, <2>2, <2>a, <2>3
  <2>5. new = <<m>>
    BY <2>4
  <2> QED
    BY <2>1, <2>5
<1>7. InsertAt(p.kids, 1 + 1, n) = <<root, n>>
  <2> PICK T : root \in T /\ n \in T
    <3>1. root \in {root, n} /\ n \in {root, n}
      OBVIOUS
    <3> QED
      BY <3>1
  <2>0. PICK kids \in Seq(T) : kids = p.kids
    <3>1. <<root>> \in Seq(T)
      OBVIOUS
    <3> QED
      BY <1>2, <3>1
  <2>1. PICK new : kids = p.kids /\ new = InsertAt(kids, 2, n)
    BY <2>0
  <2>2. kids \in Seq(T) /\ Len(kids) = 1 /\ kids[1] = root /\ 2 \in 1..(Len(kids) + 1)
    BY <1>2, <2>1
  <2>a. PICK i \in 1..(Len(kids) + 1) : i = 2
    BY <2>2
  <2>3. /\ InsertAt(kids, i, n) \in Seq(T) /\ Len(InsertAt(kids, i, n)) = Len(kids) + 1
        /\ \A x \in 1..(Len(kids) + 1) :
              InsertAt(kids, i, n)[x] = IF x < i THEN kids[x] ELSE IF x = i THEN n ELSE kids[x - 1]
    BY InsertAtIs
  <2>4. new \in Seq(T) /\ Len(new) = 2 /\ new[1] = root /\ new[2] = n
    BY <2>1, <2>2, <2>a, <2>3
  <2>5. new = <<root, n>>
    BY <2>4
  <2> QED
    BY <2>1, <2>5
<1> QED
  BY <1>1, <1>5, <1>6, <1>7

\* A split that reaches the root gets a new root above both halves.
LEMMA RootSplit ==
    ASSUME NEW s, NEW t, NEW G, NEW h, Sound(t, G, h, s.root), t.root = s.root, s.root \in G.at,
           NEW r, Halves(G, t, s.root, h, G.lo[s.root], G.hi[s.root], r),
           NEW V, V = r.s.next,
           NEW u, u = SetRoot(MarkDirty(SetPage(NewPage(r.s, Index(<<>>, <<>>)), V,
                        Index(<<r.split.key>>, <<s.root, r.split.page>>)), V), V)
    PROVE  \E E : Sound(u, E, h + 1, NoPage) /\ SameRows(t, G, u, E)
<1>1. PICK root, n, m, A, B : /\ root = s.root /\ n = t.next /\ m = r.split.key
                              /\ A = r.s.pages[root] /\ B = r.s.pages[n]
  OBVIOUS
<1>2. /\ State(r.s) /\ r.s.next = n + 1 /\ r.s.root = root
      /\ r.split = [key |-> m, page |-> n] /\ m \in Key /\ G.lo[root] < m /\ m < G.hi[root]
      /\ Fits(G, A, h, G.lo[root], m) /\ Fits(G, B, h, m, G.hi[root])
      /\ h = 0 => A.next = n /\ B.next = t.pages[root].next
      /\ \A p \in DOMAIN t.pages \ {root} : r.s.pages[p] = t.pages[p]
      /\ NumKeys(A) \in MinKeys..Order /\ NumKeys(B) \in MinKeys..Order
      /\ \A k, v : InPage(t.pages[root], k, v) <=> InPage(A, k, v) \/ InPage(B, k, v)
  BY <1>1 DEF Halves
<1>3. /\ State(t) /\ Shape(t.pages, G, root, h) /\ G.at \subseteq DOMAIN t.pages /\ Tree(t, G, h)
      /\ h \in Nat /\ root \in G.at /\ G.level[root] = h
      /\ \A p \in G.at \ {root} : Filled(t, p)
  BY <1>1 DEF Sound, Tree, Shape, Layout
<1>4. n \in Nat /\ V = n + 1 /\ DOMAIN t.pages = 0..(n - 1) /\ DOMAIN r.s.pages = 0..n
  <2>1. n \in Nat /\ DOMAIN t.pages = 0..(n - 1)
    BY <1>1, <1>3 DEF State
  <2>2. V = n + 1 /\ (n + 1) - 1 = n
    BY <1>2, <2>1
  <2> QED
    BY <1>2, <2>1, <2>2 DEF State
<1>5. n \notin DOMAIN t.pages /\ V \notin DOMAIN t.pages /\ V # n /\ DOMAIN r.s.pages = DOMAIN t.pages \cup {n}
  BY <1>4
<1>6. PICK s1, s2, s3, W : /\ W = Index(<<m>>, <<root, n>>) /\ s1 = NewPage(r.s, Index(<<>>, <<>>))
                           /\ s2 = SetPage(s1, V, W) /\ s3 = MarkDirty(s2, V)
  OBVIOUS
<1>7. u = SetRoot(s3, V)
  <2>1. r.split.page = n
    BY <1>2
  <2> QED
    BY <1>1, <1>6, <2>1
<1>8. /\ State(s1) /\ \A p \in DOMAIN r.s.pages : s1.pages[p] = r.s.pages[p]
      /\ DOMAIN s1.pages = DOMAIN r.s.pages \cup {V}
  <2>1. s1 = NewPage(r.s, Index(<<>>, <<>>)) /\ State(r.s)
    BY <1>2, <1>6
  <2>2. /\ State(s1) /\ s1.next = r.s.next + 1 /\ s1.root = r.s.root
        /\ s1.pages[r.s.next] = Index(<<>>, <<>>) /\ \A id \in DOMAIN r.s.pages : s1.pages[id] = r.s.pages[id]
        /\ r.s.next \notin DOMAIN r.s.pages /\ DOMAIN s1.pages = DOMAIN r.s.pages \cup {r.s.next}
    BY <2>1, NewPageIs
  <2> QED
    BY <2>2
<1>9. /\ State(s2) /\ DOMAIN s2.pages = DOMAIN s1.pages
      /\ s2.pages[V] = W /\ \A p \in DOMAIN s1.pages : p # V => s2.pages[p] = s1.pages[p]
  <2>1. State(s1) /\ V \in DOMAIN s1.pages /\ s2 = SetPage(s1, V, W)
    BY <1>6, <1>8
  <2>2. /\ State(s2) /\ s2.next = s1.next /\ s2.root = s1.root /\ DOMAIN s2.pages = DOMAIN s1.pages
        /\ s2.pages[V] = W /\ \A p \in DOMAIN s1.pages : p # V => s2.pages[p] = s1.pages[p]
    BY <2>1, SetPageIs
  <2> QED
    BY <2>2
<1>10. State(s3) /\ s3.pages = s2.pages
  <2>1. s3 = MarkDirty(s2, V)
    BY <1>6
  <2> QED
    BY <1>9, <2>1, MarkDirtyIs
<1>11. State(u) /\ u.pages = s3.pages /\ u.root = V
  BY <1>7, <1>10, SetRootIs, SMTT(20)
<1>12. /\ DOMAIN u.pages = DOMAIN t.pages \cup {n, V}
       /\ u.pages[V] = W /\ u.pages[root] = A /\ u.pages[n] = B
       /\ \A p \in DOMAIN t.pages \ {root} : u.pages[p] = t.pages[p]
  BY <1>1, <1>2, <1>3, <1>5, <1>8, <1>9, <1>10, <1>11
<1>13. PICK pg, new, F : /\ pg = With(t.pages, V, Index(<<>>, <<root>>)) /\ new = u.pages
                         /\ F = Raised(G, V, h)
  OBVIOUS
<1>14. pg[V] = Index(<<>>, <<root>>) /\ DOMAIN pg = DOMAIN t.pages \cup {V} /\ \A p \in DOMAIN t.pages : pg[p] = t.pages[p]
  BY <1>5, <1>13 DEF With
<1>15. Shape(pg, F, V, h + 1)
  <2>1. PICK old : old = t.pages
    OBVIOUS
  <2>2. /\ Shape(old, G, root, h) /\ V \notin G.at /\ G.at \cup {V} \subseteq DOMAIN pg
        /\ pg[V] = Index(<<>>, <<root>>) /\ \A p \in G.at : pg[p] = old[p]
    BY <1>3, <1>5, <1>14, <2>1
  <2>3. Shape(pg, Raised(G, V, h), V, h + 1)
    BY <2>2, AddRoot
  <2> QED
    BY <1>13, <2>3
<1>16. /\ F.at = G.at \cup {V}
       /\ \A p \in G.at : F.level[p] = G.level[p] /\ F.lo[p] = G.lo[p] /\ F.hi[p] = G.hi[p]
       /\ F.level[V] = h + 1
  BY <1>3, <1>5, <1>13 DEF Raised
<1>17. SplitUp(pg, F, V, h + 1, V, 1, root, n, m, A, B, new)
  <2>1. Fits(F, A, h, G.lo[root], m) /\ Fits(F, B, h, m, G.hi[root])
    <3>1. G.at \subseteq F.at
      BY <1>16
    <3> QED
      BY <1>2, <1>16, <3>1, FitsMore
  <2>2. pg[V].kids = <<root>> /\ Len(pg[V].kids) = 1 /\ pg[V].kids[1] = root /\ 1 \in 1..Len(pg[V].kids)
    <3>1. pg[V].kids = <<root>>
      BY <1>14 DEF Index
    <3> QED
      BY <3>1
  <2>3. new[V] = AddSeparator(pg[V], [key |-> m, page |-> n])
    <3>2. AddSeparator(Index(<<>>, <<root>>), [key |-> m, page |-> n]) = Index(<<m>>, <<root, n>>)
      BY <1>2, FirstSeparator
    <3> QED
      BY <1>6, <1>12, <1>13, <1>14, <3>2
  <2>4. F.level[V] # 0 /\ n \notin F.at /\ F.level[root] = h /\ F.lo[root] = G.lo[root] /\ F.hi[root] = G.hi[root] /\ V \in F.at
    BY <1>3, <1>5, <1>16
  <2>5. F.at \cup {n} \subseteq DOMAIN new /\ new[root] = A /\ new[n] = B /\ pg[root] = t.pages[root]
    BY <1>3, <1>12, <1>13, <1>14, <1>16
  <2>6. \A p \in F.at \ {root, V} : new[p] = pg[p]
    BY <1>3, <1>12, <1>13, <1>14, <1>16
  <2> QED
    BY <1>2, <1>15, <2>1, <2>2, <2>3, <2>4, <2>5, <2>6 DEF SplitUp
<1>18. PICK E : E = Halved(F, root, n, m)
  OBVIOUS
<1>19. Shape(new, E, V, h + 1)
  BY <1>17, <1>18, SplitShape
<1>20. E.at = G.at \cup {V, n}
  BY <1>16, <1>18 DEF Halved
<1>21. Tree(u, E, h + 1)
  <2>1. ASSUME NEW x \in DOMAIN u.pages \ E.at
        PROVE  PageIn(u.pages[x], DOMAIN u.pages)
    <3>1. x \in DOMAIN t.pages \ G.at /\ x # root
      BY <1>3, <1>12, <1>20, <2>1
    <3>2. PageIn(t.pages[x], DOMAIN t.pages)
      BY <1>3, <3>1 DEF Tree
    <3>3. PageIn(t.pages[x], DOMAIN u.pages)
      BY <1>12, <3>2, PageInMore
    <3> QED
      BY <1>12, <3>1, <3>3
  <2> QED
    BY <1>11, <1>13, <1>19, <2>1 DEF Tree
<1>22. ~W.leaf /\ NumKeys(W) = 1
  <2>1. ~W.leaf /\ W.keys = <<m>>
    BY <1>6 DEF Index
  <2> QED
    BY <2>1 DEF NumKeys
<1>23. ASSUME NEW p \in E.at
       PROVE  Filled(u, p)
  <2>1. CASE p = V
    <3>1. 1 \in Nat /\ 1 <= Order
      BY EnoughKeys, OrderAssumption
    <3> QED
      BY <1>11, <1>12, <1>22, <2>1, <3>1 DEF Filled
  <2>2. CASE p \in {root, n}
    <3>1. NumKeys(u.pages[p]) \in MinKeys..Order
      BY <1>2, <1>12, <2>2
    <3> QED
      BY <3>1, EnoughKeys DEF Filled
  <2>3. CASE p \notin {V, root, n}
    <3>1. p \in G.at \ {root} /\ u.pages[p] = t.pages[p] /\ p # t.root
      BY <1>1, <1>3, <1>12, <1>20, <2>3
    <3>2. Filled(t, p)
      BY <1>3, <3>1
    <3> QED
      BY <3>1, <3>2 DEF Filled
  <2> QED
    BY <2>1, <2>2, <2>3, SMTT(20)
<1>24. SameRows(t, G, u, E)
  <2> SUFFICES ASSUME NEW k, NEW v
               PROVE  Holds(t.pages, G.at, k, v) <=> Holds(u.pages, E.at, k, v)
    BY SMTT(20) DEF SameRows
  <2>1. ~InPage(u.pages[V], k, v)
    BY <1>12, <1>22 DEF InPage
  <2>2. (\E p \in {root} : InPage(t.pages[p], k, v)) <=> (\E p \in {root, n, V} : InPage(u.pages[p], k, v))
    BY <1>2, <1>12, <2>1
  <2>3. Replaces(t.pages, G.at, u.pages, E.at, {root}, {root, n, V})
    BY <1>3, <1>5, <1>12, <1>20 DEF Replaces
  <2> QED
    BY <2>2, <2>3, RowsKept
<1> QED
  BY <1>21, <1>23, <1>24 DEF Sound

\* Insert stores a row, and the tree stays sound.
LEMMA InsertedIs ==
    ASSUME NEW s, NEW g, NEW h, Sound(s, g, h, NoPage), NEW k \in Key, NEW v \in Row
    PROVE  After(s, g, Inserted(s, k, v), k, v)
<1>1. PICK r, V, u : /\ r = InsertBelow(s, k, v) /\ V = r.s.next
                     /\ u = SetRoot(MarkDirty(SetPage(NewPage(r.s, Index(<<>>, <<>>)), V,
                              Index(<<r.split.key>>, <<s.root, r.split.page>>)), V), V)
  OBVIOUS
<1>2. Inserted(s, k, v) = IF r.split = NoSplit THEN r.s ELSE u
  BY <1>1 DEF Inserted
<1>3. Climbed(s, g, h, k, v, s.root, h, r)
  BY <1>1, InsertBelowIs
<1>4. CASE r.split = NoSplit /\ \E G : Sound(r.s, G, h, NoPage) /\ Above(s, g, r.s, G, h) /\ Stored(s, g, r.s, G, k, v)
  BY <1>2, <1>4 DEF After
<1>5. ASSUME NEW t, NEW G, Sound(t, G, h, s.root), Above(s, g, t, G, h), Stored(s, g, t, G, k, v),
             s.root \in G.at, Halves(G, t, s.root, h, G.lo[s.root], G.hi[s.root], r)
      PROVE  After(s, g, Inserted(s, k, v), k, v)
  <2>1. r.split.key \in Key
    BY <1>5 DEF Halves
  <2>2. r.split # NoSplit
    <3>1. PICK m : m = r.split.key
      OBVIOUS
    <3>2. m \in Nat
      BY <2>1, <3>1, KeyAssumption
    <3>3. m # -1
      BY <3>2
    <3> QED
      BY <3>1, <3>3 DEF NoSplit
  <2>3. t.root = s.root
    BY <1>5 DEF Above
  <2>4. PICK E : Sound(u, E, h + 1, NoPage) /\ SameRows(t, G, u, E)
    BY <1>1, <1>5, <2>3, RootSplit
  <2>5. Stored(s, g, u, E, k, v)
    BY <1>5, <2>4 DEF Stored, SameRows
  <2>6. After(s, g, u, k, v)
    BY <2>4, <2>5 DEF After
  <2> QED
    BY <1>2, <2>2, <2>6
<1> QED
  BY <1>3, <1>4, <1>5 DEF Climbed

-----------------------------------------------------------------------------
(* Deletion *)

\* Tree u is tree t with pages a and b under page q rearranged, and n separators less.
Reshaped(t, G, u, E, h, q, a, b, n) ==
    /\ Tree(u, E, h) /\ u.root = t.root
    /\ E.at \subseteq G.at /\ G.at \ {b} \subseteq E.at
    /\ \A p \in E.at : E.level[p] = G.level[p]
    /\ \A p \in G.at \ {a, b, q} : u.pages[p] = t.pages[p]
    /\ a \in G.at /\ b \in G.at /\ a # b /\ a # q /\ b # q /\ a # t.root /\ b # t.root
    /\ G.level[a] = G.level[q] - 1 /\ G.level[b] = G.level[q] - 1
    /\ ~t.pages[q].leaf /\ ~u.pages[q].leaf
    /\ NumKeys(t.pages[q]) \in Nat /\ NumKeys(u.pages[q]) = NumKeys(t.pages[q]) - n
    /\ SameRows(t, G, u, E)

\* Two neighbours that share out their keys make a sound tree.
LEMMA ShareOut ==
    ASSUME NEW t, NEW G, NEW h, Tree(t, G, h),
           NEW q \in G.at, G.level[q] # 0, NEW i \in 1..Len(t.pages[q].kids), i # Len(t.pages[q].kids),
           NEW a, a = t.pages[q].kids[i], NEW b, b = t.pages[q].kids[i + 1],
           NEW m, NEW u, SharedOut(G, t, u, q, i, a, b, m)
    PROVE  \E E : E.at = G.at /\ Reshaped(t, G, u, E, h, q, a, b, 0)
<1>1. PICK pg, new, root, A, B, Q, l, E : /\ pg = t.pages /\ new = u.pages /\ root = t.root
                                         /\ A = u.pages[a] /\ B = u.pages[b] /\ Q = t.pages[q]
                                         /\ l = G.level[a] /\ E = Shifted(G, a, b, m)
  OBVIOUS
<1>2. /\ State(u) /\ u.next = t.next /\ u.root = t.root
      /\ m \in Key /\ G.lo[a] < m /\ m < G.hi[b]
      /\ Fits(G, A, l, G.lo[a], m) /\ Fits(G, B, l, m, G.hi[b])
      /\ l = 0 => A.next = t.pages[a].next /\ B.next = t.pages[b].next
      /\ u.pages[q] = Index(ReplaceAt(Q.keys, i, m), Q.kids)
      /\ \A p \in DOMAIN t.pages \ {a, b, q} : u.pages[p] = t.pages[p]
      /\ \A k, v : InPage(t.pages[a], k, v) \/ InPage(t.pages[b], k, v) <=> InPage(A, k, v) \/ InPage(B, k, v)
  BY <1>1, Zenon DEF SharedOut
<1>3. State(t) /\ Shape(pg, G, root, h) /\ G.at \subseteq DOMAIN t.pages
  BY <1>1, SMTT(20) DEF Tree, Shape
<1>4. DOMAIN u.pages = DOMAIN t.pages
  <2>1. State(u) /\ u.next = t.next
    BY <1>2, Zenon
  <2>2. State(t)
    BY <1>3
  <2>3. \A n, p : State(p) /\ p.next = n => DOMAIN p.pages = 0..(n - 1)
    BY SMTT(20) DEF State
  <2> QED
    BY <2>1, <2>2, <2>3, Zenon
<1>5. /\ i \in 1..Len(Q.keys) /\ a \in G.at /\ b \in G.at /\ a # b /\ a # q /\ b # q /\ a # root /\ b # root
      /\ G.level[a] = G.level[q] - 1 /\ G.level[b] = G.level[q] - 1
      /\ IndexFits(G, Q, G.level[q], G.lo[q], G.hi[q])
  <2>1. /\ i \in 1..Len(pg[q].kids) /\ i # Len(pg[q].kids) /\ a = pg[q].kids[i] /\ b = pg[q].kids[i + 1]
    BY <1>1
  <2>2. Beside(pg, G, root, h, q, i, a, b)
    BY <1>3, <2>1, Neighbours, SMTT(20)
  <2> QED
    BY <1>1, <2>2 DEF Beside
<1>6. SharedUp(pg, G, root, h, q, i, a, b, m, A, B, new)
  BY <1>1, <1>2, <1>3, <1>4, Zenon DEF SharedUp
<1>7. Shape(new, E, root, h)
  BY <1>1, <1>6, ShiftShape
<1>8. E.at = G.at /\ E.level = G.level
  BY <1>1 DEF Shifted
<1>9. Tree(u, E, h)
  <2>1. ASSUME NEW x \in DOMAIN u.pages \ E.at
        PROVE  PageIn(u.pages[x], DOMAIN u.pages)
    <3>1. x \in DOMAIN t.pages \ G.at /\ x \notin {a, b, q}
      BY <1>4, <1>5, <1>8, <2>1
    <3>2. PageIn(t.pages[x], DOMAIN t.pages)
      BY <3>1 DEF Tree
    <3> QED
      BY <1>2, <1>4, <3>1, <3>2, ZenonT(30)
  <2> QED
    BY <1>1, <1>2, <1>7, <2>1, ZenonT(30) DEF Tree
<1>10. /\ ~Q.leaf /\ ~u.pages[q].leaf /\ NumKeys(Q) \in Nat /\ NumKeys(u.pages[q]) = NumKeys(Q) - 0
  <2>1. ~Q.leaf /\ Len(Q.keys) \in Nat /\ Q.keys \in Seq(Key)
    BY <1>5, SMTT(20) DEF IndexFits
  <2>2. ~u.pages[q].leaf /\ u.pages[q].keys = ReplaceAt(Q.keys, i, m)
    <3>1. u.pages[q] = Index(ReplaceAt(Q.keys, i, m), Q.kids)
      BY <1>2, Zenon
    <3> QED
      BY <3>1 DEF Index
  <2>3. Len(ReplaceAt(Q.keys, i, m)) = Len(Q.keys)
    BY <2>1 DEF ReplaceAt
  <2> QED
    BY <2>1, <2>2, <2>3 DEF NumKeys
<1>11. SameRows(t, G, u, E)
  <2> SUFFICES ASSUME NEW k, NEW v
               PROVE  Holds(t.pages, G.at, k, v) <=> Holds(u.pages, E.at, k, v)
    BY DEF SameRows
  <2>1. ~InPage(Q, k, v) /\ ~InPage(u.pages[q], k, v)
    BY <1>10 DEF InPage
  <2>2. (\E p \in {a, b, q} : InPage(t.pages[p], k, v)) <=> (\E p \in {a, b, q} : InPage(u.pages[p], k, v))
    BY <1>1, <1>2, <2>1, Zenon
  <2>3. Replaces(t.pages, G.at, u.pages, E.at, {a, b, q}, {a, b, q})
    BY <1>2, <1>3, <1>5, <1>8, ZenonT(30) DEF Replaces
  <2> QED
    BY <2>2, <2>3, RowsKept
<1>12. \A p \in G.at \ {a, b, q} : u.pages[p] = t.pages[p]
  BY <1>2, <1>3, ZenonT(30)
<1> QED
  BY <1>1, <1>2, <1>5, <1>8, <1>9, <1>10, <1>11, <1>12, Zenon DEF Reshaped

\* Two neighbours that merge make a sound tree.
LEMMA MergeBoth ==
    ASSUME NEW t, NEW G, NEW h, Tree(t, G, h),
           NEW q \in G.at, G.level[q] # 0, NEW i \in 1..Len(t.pages[q].kids), i # Len(t.pages[q].kids),
           NEW a, a = t.pages[q].kids[i], NEW b, b = t.pages[q].kids[i + 1],
           NEW u, Merged(G, t, u, q, i, a, b)
    PROVE  \E E : E.at = G.at \ {b} /\ Reshaped(t, G, u, E, h, q, a, b, 1)
<1>1. PICK pg, new, root, A, Q, l, E : /\ pg = t.pages /\ new = u.pages /\ root = t.root
                                      /\ A = u.pages[a] /\ Q = t.pages[q]
                                      /\ l = G.level[a] /\ E = Joined(G, a, b)
  OBVIOUS
<1>2. /\ State(u) /\ u.next = t.next /\ u.root = t.root
      /\ Fits(G, A, l, G.lo[a], G.hi[b])
      /\ l = 0 => A.next = t.pages[b].next
      /\ u.pages[q] = Index(RemoveAt(Q.keys, i), RemoveAt(Q.kids, i + 1))
      /\ \A p \in DOMAIN t.pages \ {a, q} : u.pages[p] = t.pages[p]
      /\ \A k, v : InPage(t.pages[a], k, v) \/ InPage(t.pages[b], k, v) <=> InPage(A, k, v)
  BY <1>1, Zenon DEF Merged
<1>3. State(t) /\ Shape(pg, G, root, h) /\ G.at \subseteq DOMAIN t.pages
  BY <1>1, SMTT(20) DEF Tree, Shape
<1>4. DOMAIN u.pages = DOMAIN t.pages
  BY <1>2, <1>3, SMTT(20) DEF State
<1>5. /\ i \in 1..Len(Q.keys) /\ a \in G.at /\ b \in G.at /\ a # b /\ a # q /\ b # q /\ a # root /\ b # root
      /\ G.level[a] = G.level[q] - 1 /\ G.level[b] = G.level[q] - 1
      /\ IndexFits(G, Q, G.level[q], G.lo[q], G.hi[q])
  <2>1. /\ i \in 1..Len(pg[q].kids) /\ i # Len(pg[q].kids) /\ a = pg[q].kids[i] /\ b = pg[q].kids[i + 1]
    BY <1>1
  <2>2. Beside(pg, G, root, h, q, i, a, b)
    BY <1>3, <2>1, Neighbours
  <2> QED
    BY <1>1, <2>2 DEF Beside
<1>6. MergedUp(pg, G, root, h, q, i, a, b, A, new)
  BY <1>1, <1>2, <1>3, <1>4, Zenon DEF MergedUp
<1>7. Shape(new, E, root, h)
  BY <1>1, <1>6, MergeShape
<1>8. E.at = G.at \ {b} /\ \A p \in E.at : E.level[p] = G.level[p]
  BY <1>1 DEF Joined
<1>9. Tree(u, E, h)
  <2>1. ASSUME NEW x \in DOMAIN u.pages \ E.at
        PROVE  PageIn(u.pages[x], DOMAIN u.pages)
    <3>1. x \in DOMAIN t.pages /\ x \notin {a, q}
      BY <1>4, <1>5, <1>8, <2>1
    <3>2. PageIn(t.pages[x], DOMAIN t.pages)
      BY <3>1, PagesIn
    <3> QED
      BY <1>2, <1>4, <3>1, <3>2
  <2> QED
    BY <1>1, <1>2, <1>7, <2>1, ZenonT(30) DEF Tree
<1>10. /\ ~Q.leaf /\ ~u.pages[q].leaf /\ NumKeys(Q) \in Nat /\ NumKeys(u.pages[q]) = NumKeys(Q) - 1
  <2>1. ~Q.leaf /\ Len(Q.keys) \in Nat /\ Q.keys \in Seq(Key)
    BY <1>5, SMTT(20) DEF IndexFits
  <2>2. ~u.pages[q].leaf /\ u.pages[q].keys = RemoveAt(Q.keys, i)
    BY <1>2 DEF Index
  <2>3. Len(RemoveAt(Q.keys, i)) = Len(Q.keys) - 1
    <3>1. PICK keys \in Seq(Key) : keys = Q.keys
      BY <2>1
    <3>2. i \in 1..Len(keys)
      BY <1>5, <3>1
    <3>3. Len(RemoveAt(keys, i)) = Len(keys) - 1
      BY <3>2, RemoveAtIs
    <3> QED
      BY <3>1, <3>3
  <2> QED
    BY <2>1, <2>2, <2>3 DEF NumKeys
<1>11. SameRows(t, G, u, E)
  <2> SUFFICES ASSUME NEW k, NEW v
               PROVE  Holds(t.pages, G.at, k, v) <=> Holds(u.pages, E.at, k, v)
    BY DEF SameRows
  <2>1. ~InPage(Q, k, v) /\ ~InPage(u.pages[q], k, v)
    BY <1>10 DEF InPage
  <2>2. (\E p \in {a, b, q} : InPage(t.pages[p], k, v)) <=> (\E p \in {a, q} : InPage(u.pages[p], k, v))
    BY <1>1, <1>2, <2>1, Zenon
  <2>3. Replaces(t.pages, G.at, u.pages, E.at, {a, b, q}, {a, q})
    BY <1>2, <1>3, <1>5, <1>8, ZenonT(30) DEF Replaces
  <2> QED
    BY <2>2, <2>3, RowsKept
<1>12. \A p \in G.at \ {a, b, q} : u.pages[p] = t.pages[p]
  BY <1>2, <1>3
<1> QED
  BY <1>1, <1>2, <1>5, <1>8, <1>9, <1>10, <1>11, <1>12, Zenon DEF Reshaped

\* Tree t holds what tree s holds, but for key k.
Dropped(s, g, t, G, k) ==
    \A j, w : Holds(t.pages, G.at, j, w) <=> j # k /\ Holds(s.pages, g.at, j, w)

\* Page p has lost one key at most.
Nearly(s, p) ==
    /\ NumKeys(s.pages[p]) \in Nat /\ NumKeys(s.pages[p]) <= Order
    /\ p # s.root => NumKeys(s.pages[p]) + 1 >= MinKeys

\* r is tree s without key k, up to page id, which may be one key short if there is more to do.
Fallen(s, g, h, k, id, l, r) ==
    \E G : /\ Sound(r.s, G, h, IF r.more THEN id ELSE NoPage)
           /\ Above(s, g, r.s, G, l) /\ Dropped(s, g, r.s, G, k)
           /\ r.more => id \in G.at /\ Nearly(r.s, id)

\* Above the pages rearranged nothing changes.
LEMMA Rearranged ==
    ASSUME NEW s, NEW g, NEW t, NEW G, NEW l \in Nat, NEW k, Above(s, g, t, G, l), Dropped(s, g, t, G, k),
           \A p \in g.at : g.level[p] \in Nat,
           NEW h, NEW u, NEW E, NEW q, NEW a, NEW b, NEW n, Reshaped(t, G, u, E, h, q, a, b, n),
           G.level[q] = l + 1
    PROVE  Above(s, g, u, E, l + 1) /\ Dropped(s, g, u, E, k)
<1>1. ASSUME NEW p \in g.at, g.level[p] >= l + 1
      PROVE  /\ p \in E.at /\ E.level[p] = g.level[p]
             /\ g.level[p] > l + 1 => u.pages[p] = s.pages[p]
  <2>1. PICK x \in Nat : x = g.level[p]
    OBVIOUS
  <2>2. x >= l /\ x > l /\ x # l /\ (x > l + 1 => x # l + 1)
    BY <1>1, <2>1
  <2>3. p \in G.at /\ G.level[p] = x /\ t.pages[p] = s.pages[p]
    BY <2>1, <2>2 DEF Above
  <2>4. G.level[a] = l /\ G.level[b] = l
    BY DEF Reshaped
  <2>5. p # a /\ p # b
    BY <2>2, <2>3, <2>4
  <2>6. p \in E.at /\ E.level[p] = x
    BY <2>3, <2>5 DEF Reshaped
  <2>7. x > l + 1 => u.pages[p] = t.pages[p]
    BY <2>2, <2>3, <2>5 DEF Reshaped
  <2> QED
    BY <2>1, <2>3, <2>6, <2>7
<1>2. ASSUME NEW p \in g.at, g.level[p] > l + 1
      PROVE  g.level[p] >= l + 1
  BY <1>2
<1>3. u.root = s.root
  BY DEF Reshaped, Above
<1>4. Above(s, g, u, E, l + 1)
  BY <1>1, <1>2, <1>3 DEF Above
<1>5. Dropped(s, g, u, E, k)
  BY DEF Dropped, Reshaped, SameRows
<1> QED
  BY <1>4, <1>5

\* The pages rearranged are filled again; their parent may have lost a separator.
LEMMA Refilled ==
    ASSUME NEW t, NEW G, NEW h, NEW u, NEW E, NEW q \in G.at, NEW a, NEW b, NEW n, Reshaped(t, G, u, E, h, q, a, b, n),
           \A p \in G.at \ {a, b} : Filled(t, p),
           \A p \in {a, b} \cap E.at : NumKeys(u.pages[p]) \in MinKeys..Order
    PROVE  /\ q \in E.at /\ \A p \in E.at \ {q} : Filled(u, p)
           /\ n = 0 => Filled(u, q)
           /\ n = 1 => Nearly(u, q)
<1>1. ASSUME NEW p \in E.at \ {q}
      PROVE  Filled(u, p)
  <2>1. CASE p \in {a, b}
    <3>1. NumKeys(u.pages[p]) \in MinKeys..Order
      BY <1>1, <2>1
    <3> QED
      BY <3>1, EnoughKeys DEF Filled
  <2>2. CASE p \notin {a, b}
    <3>1. u.pages[p] = t.pages[p] /\ Filled(t, p) /\ u.root = t.root
      BY <1>1, <2>2 DEF Reshaped
    <3> QED
      BY <3>1 DEF Filled
  <2> QED
    BY <2>1, <2>2
<1>2. q \in E.at /\ q \notin {a, b}
  BY DEF Reshaped
<1>3. PICK x \in Nat : x = NumKeys(t.pages[q])
  BY DEF Reshaped
<1>4. x <= Order /\ x >= 1 /\ (q # t.root => x >= MinKeys) /\ ~u.pages[q].leaf /\ u.root = t.root
  <2>1. Filled(t, q) /\ ~t.pages[q].leaf
    BY <1>2 DEF Reshaped
  <2> QED
    BY <1>3, <2>1 DEF Filled, Reshaped
<1>5. NumKeys(u.pages[q]) = x - n
  BY <1>3 DEF Reshaped
<1>6. ASSUME n = 0
      PROVE  Filled(u, q)
  <2>1. NumKeys(u.pages[q]) = x
    BY <1>5, <1>6
  <2> QED
    BY <1>4, <2>1 DEF Filled
<1>7. ASSUME n = 1
      PROVE  Nearly(u, q)
  <2>1. PICK y \in Nat : y = NumKeys(u.pages[q]) /\ y + 1 = x
    BY <1>4, <1>5, <1>7
  <2>2. y <= Order
    BY <1>4, <2>1, EnoughKeys
  <2> QED
    BY <1>4, <2>1, <2>2 DEF Nearly
<1> QED
  BY <1>1, <1>2, <1>6, <1>7

\* The page that is short borrows a key, or merges and leaves its parent short.
LEMMA RebalanceIs ==
    ASSUME NEW s, NEW g, NEW h, Sound(s, g, h, NoPage), NEW k \in Key,
           NEW path, OnPath(s, g, h, k, path), NEW j \in 2..(h + 1),
           NEW r, Fallen(s, g, h, k, path[j].id, h + 1 - j, r), r.more
    PROVE  Fallen(s, g, h, k, path[j - 1].id, h + 1 - (j - 1), Rebalance(r.s, path, j))
<1>1. PICK q, id, i, l, t, res, kids : /\ q = path[j - 1].id /\ id = path[j].id /\ i = path[j].pos
                                       /\ l = h + 1 - j /\ t = r.s /\ res = Rebalance(t, path, j)
                                       /\ kids = t.pages[q].kids
  OBVIOUS
<1>2. res = IF NumKeys(t.pages[id]) >= MinKeys THEN [s |-> t, more |-> FALSE]
            ELSE IF i < Len(kids) /\ NumKeys(t.pages[kids[i + 1]]) > MinKeys
                 THEN [s |-> BorrowFromRight(t, id, kids[i + 1], i, q), more |-> FALSE]
            ELSE IF i > 1 /\ NumKeys(t.pages[kids[i - 1]]) > MinKeys
                 THEN [s |-> BorrowFromLeft(t, id, kids[i - 1], i, q), more |-> FALSE]
            ELSE IF i < Len(kids) THEN [s |-> MergePages(t, id, kids[i + 1], i, q), more |-> TRUE]
            ELSE [s |-> MergePages(t, kids[i - 1], id, i - 1, q), more |-> TRUE]
  BY <1>1, Zenon DEF Rebalance
<1>3. h \in Nat /\ j \in 2..(h + 1) /\ l \in Nat /\ h + 1 - (j - 1) = l + 1 /\ l + 1 <= h
  BY <1>1, LevelsCounted DEF Sound
<1>4. /\ q \in g.at /\ g.level[q] = l + 1 /\ id \in g.at /\ g.level[id] = l
      /\ i \in 1..Len(s.pages[q].kids) /\ id = s.pages[q].kids[i]
  <2>1. j \in 1..(h + 1) /\ j - 1 \in 1..(h + 1)
    BY <1>3
  <2>2. q \in g.at /\ g.level[q] = h + 1 - (j - 1) /\ id \in g.at /\ g.level[id] = h + 1 - j
    BY <1>1, <2>1 DEF OnPath
  <2>3. i \in 1..Len(s.pages[q].kids) /\ id = s.pages[q].kids[i]
    BY <1>1 DEF OnPath
  <2> QED
    BY <1>1, <1>3, <2>2, <2>3, Zenon
<1>5. \A p \in g.at : g.level[p] \in Nat
  <2>1. Layout(g, s.root, h)
    BY DEF Sound, Tree, Shape
  <2> QED
    BY <1>3, <2>1 DEF Layout
<1>6. PICK G : /\ Sound(t, G, h, id) /\ Above(s, g, t, G, l) /\ Dropped(s, g, t, G, k)
               /\ id \in G.at /\ Nearly(t, id)
  BY <1>1 DEF Fallen
<1>7. /\ q \in G.at /\ G.level[q] = l + 1 /\ G.level[id] = l /\ q # id
      /\ i \in 1..Len(kids) /\ id = kids[i]
  <2>1. g.level[q] >= l /\ g.level[q] > l /\ g.level[id] >= l
    BY <1>3, <1>4
  <2>2. q \in G.at /\ G.level[q] = l + 1 /\ G.level[id] = l /\ t.pages[q] = s.pages[q]
    BY <1>4, <1>6, <2>1 DEF Above
  <2>3. q # id
    BY <1>3, <2>2
  <2>4. i \in 1..Len(kids) /\ id = kids[i]
    BY <1>1, <1>4, <2>2, Zenon
  <2> QED
    BY <1>6, <2>2, <2>3, <2>4
<1>8. /\ Tree(t, G, h) /\ State(t) /\ Shape(t.pages, G, t.root, h) /\ G.level[t.root] = h
      /\ \A p \in G.at \ {id} : Filled(t, p)
  BY <1>6 DEF Sound, Tree, Shape, Layout
<1>9. Order \in Nat /\ MinKeys \in Nat /\ 1 <= MinKeys /\ 2 * MinKeys <= Order
  BY EnoughKeys
<1>10. PICK x \in Nat : x = NumKeys(t.pages[id]) /\ x <= Order /\ x + 1 >= MinKeys
  <2>1. id # t.root
    BY <1>3, <1>7, <1>8
  <2> QED
    BY <1>6, <2>1 DEF Nearly
<1>11. CASE x >= MinKeys
  <2>1. res = [s |-> t, more |-> FALSE]
    BY <1>2, <1>10, <1>11
  <2>2. ~res.more /\ res.s = t
    BY <2>1
  <2>3. Filled(t, id)
    BY <1>9, <1>10, <1>11 DEF Filled
  <2>4. Sound(t, G, h, NoPage)
    BY <1>8, <2>3 DEF Sound
  <2>5. Above(s, g, t, G, l + 1)
    <3>1. \A p \in g.at : (g.level[p] >= l + 1 => g.level[p] >= l) /\ (g.level[p] > l + 1 => g.level[p] > l)
      BY <1>3, <1>5
    <3> QED
      BY <1>6, <3>1 DEF Above
  <2> QED
    BY <1>1, <1>3, <1>6, <2>2, <2>4, <2>5 DEF Fallen
<1>12. ASSUME NEW u, NEW E, NEW a, NEW b, NEW n, n \in {0, 1}, Reshaped(t, G, u, E, h, q, a, b, n), id \in {a, b},
              \A p \in {a, b} \cap E.at : NumKeys(u.pages[p]) \in MinKeys..Order,
              res = [s |-> u, more |-> n = 1]
       PROVE  Fallen(s, g, h, k, q, l + 1, res)
  <2>1. Above(s, g, u, E, l + 1) /\ Dropped(s, g, u, E, k)
    BY <1>3, <1>5, <1>6, <1>7, <1>12, Rearranged
  <2>2. /\ q \in E.at /\ \A p \in E.at \ {q} : Filled(u, p)
        /\ n = 0 => Filled(u, q)
        /\ n = 1 => Nearly(u, q)
    <3>1. \A p \in G.at \ {a, b} : Filled(t, p)
      BY <1>8, <1>12
    <3> QED
      BY <1>7, <1>12, <3>1, Refilled
  <2>3. Tree(u, E, h) /\ res.s = u /\ res.more = (n = 1)
    BY <1>12 DEF Reshaped
  <2>4. Sound(u, E, h, IF res.more THEN q ELSE NoPage)
    BY <1>12, <2>2, <2>3 DEF Sound
  <2> QED
    BY <2>1, <2>2, <2>3, <2>4 DEF Fallen
<1>13. Len(kids) \in Nat /\ Len(kids) >= 2 /\ \A c \in 1..Len(kids) : kids[c] \in G.at /\ (c # i => Filled(t, kids[c]) /\ kids[c] # t.root)
  <2>1. PICK pg, root : pg = t.pages /\ root = t.root
    OBVIOUS
  <2>2. Shape(pg, G, root, h) /\ G.level[q] # 0
    BY <1>3, <1>7, <1>8, <2>1
  <2>3. /\ Len(pg[q].keys) \in Nat /\ Len(pg[q].kids) = Len(pg[q].keys) + 1
        /\ \A c \in 1..Len(pg[q].kids) : pg[q].kids[c] \in G.at /\ G.level[pg[q].kids[c]] = G.level[q] - 1
    BY <1>7, <2>2, ChildIs
  <2>4. NumKeys(t.pages[q]) >= 1 /\ ~t.pages[q].leaf
    <3>1. ~t.pages[q].leaf
      <4>1. pg[q].leaf <=> G.level[q] = 0
        BY <1>7, <2>2, PageFits
      <4> QED
        BY <2>1, <2>2, <4>1
    <3>2. Filled(t, q)
      BY <1>7, <1>8
    <3> QED
      BY <3>1, <3>2 DEF Filled
  <2>5. Len(pg[q].keys) >= 1
    BY <2>1, <2>4 DEF NumKeys
  <2>6. ASSUME NEW c \in 1..Len(kids), c # i
        PROVE  kids[c] # id
    <3>1. c \in 1..Len(pg[q].kids) /\ i \in 1..Len(pg[q].kids)
      BY <1>1, <1>7, <2>1, ZenonT(30)
    <3>2. pg[q].kids[c] # pg[q].kids[i]
      BY <1>7, <2>2, <2>6, <3>1, OneParent
    <3> QED
      BY <1>1, <1>7, <2>1, <3>2, ZenonT(30)
  <2>7. \A c \in 1..Len(kids) : kids[c] \in G.at /\ kids[c] # t.root
    <3>1. \A c \in 1..Len(kids) : kids[c] \in G.at /\ G.level[kids[c]] = l
      BY <1>1, <1>3, <1>7, <2>1, <2>3, ZenonT(30)
    <3> QED
      BY <1>3, <1>8, <3>1
  <2>8. Len(kids) = Len(pg[q].keys) + 1
    BY <1>1, <2>1, <2>3, Zenon
  <2> QED
    BY <1>8, <2>3, <2>5, <2>6, <2>7, <2>8
<1>14. ASSUME NEW c \in 1..Len(kids), c # i
       PROVE  NumKeys(t.pages[kids[c]]) \in MinKeys..Order
  BY <1>9, <1>13, <1>14 DEF Filled
<1>15. G.level[q] # 0
  BY <1>3, <1>7
<1>16. CASE x < MinKeys /\ i < Len(kids) /\ NumKeys(t.pages[kids[i + 1]]) > MinKeys
  <2>1. PICK b, u : b = kids[i + 1] /\ u = BorrowFromRight(t, id, b, i, q)
    OBVIOUS
  <2>2. res = [s |-> u, more |-> FALSE]
    BY <1>2, <1>9, <1>10, <1>16, <2>1
  <2>3. i + 1 \in 1..Len(kids) /\ i # Len(kids) /\ i + 1 # i
    BY <1>7, <1>13, <1>16
  <2>4. PICK y \in Nat : y = NumKeys(t.pages[b]) /\ y > MinKeys /\ y <= Order
    BY <1>9, <1>14, <1>16, <2>1, <2>3
  <2>5. PICK m : /\ SharedOut(G, t, u, q, i, id, b, m)
                 /\ NumKeys(u.pages[id]) = x + 1 /\ NumKeys(u.pages[b]) = y - 1
    <3>1. /\ i \in 1..Len(t.pages[q].kids) /\ i # Len(t.pages[q].kids)
          /\ id = t.pages[q].kids[i] /\ b = t.pages[q].kids[i + 1]
      BY <1>1, <1>7, <2>1, <2>3, Zenon
    <3>2. NumKeys(t.pages[b]) > 1
      BY <1>9, <2>4
    <3>3. Lent(G, t, u, q, i, id, b, b, id)
      BY <1>7, <1>8, <1>15, <2>1, <3>1, <3>2, RightLends
    <3> QED
      BY <1>10, <2>4, <3>3 DEF Lent
  <2>6. PICK E : E.at = G.at /\ Reshaped(t, G, u, E, h, q, id, b, 0)
    <3>1. /\ i \in 1..Len(t.pages[q].kids) /\ i # Len(t.pages[q].kids)
          /\ id = t.pages[q].kids[i] /\ b = t.pages[q].kids[i + 1]
      BY <1>1, <1>7, <2>1, <2>3
    <3> QED
      BY <1>7, <1>8, <1>15, <2>5, <3>1, ShareOut
  <2>7. \A p \in {id, b} : NumKeys(u.pages[p]) \in MinKeys..Order
    BY <1>9, <1>10, <1>16, <2>4, <2>5, SMTT(20)
  <2>8. res = [s |-> u, more |-> 0 = 1] /\ 0 \in {0, 1}
    <3>1. (0 = 1) = FALSE
      OBVIOUS
    <3> QED
      BY <2>2, <3>1
  <2> QED
    BY <1>1, <1>3, <1>12, <2>6, <2>7, <2>8
<1>17. CASE x < MinKeys /\ ~(i < Len(kids) /\ NumKeys(t.pages[kids[i + 1]]) > MinKeys)
            /\ i > 1 /\ NumKeys(t.pages[kids[i - 1]]) > MinKeys
  <2>1. PICK a, u, d : a = kids[i - 1] /\ u = BorrowFromLeft(t, id, a, i, q) /\ d = i - 1
    OBVIOUS
  <2>2. res = [s |-> u, more |-> FALSE]
    BY <1>2, <1>9, <1>10, <1>17, <2>1
  <2>3. d \in 1..Len(kids) /\ d # Len(kids) /\ d # i /\ d + 1 = i
    BY <1>7, <1>13, <1>17, <2>1
  <2>4. PICK y \in Nat : y = NumKeys(t.pages[a]) /\ y > MinKeys /\ y <= Order
    BY <1>9, <1>14, <1>17, <2>1, <2>3
  <2>5. PICK m : /\ SharedOut(G, t, u, q, d, a, id, m)
                 /\ NumKeys(u.pages[a]) = y - 1 /\ NumKeys(u.pages[id]) = x + 1
    <3>1. /\ d \in 1..Len(t.pages[q].kids) /\ d # Len(t.pages[q].kids)
          /\ a = t.pages[q].kids[d] /\ id = t.pages[q].kids[d + 1]
      BY <1>1, <1>7, <2>1, <2>3, Zenon
    <3>2. NumKeys(t.pages[a]) > 1
      BY <1>9, <2>4
    <3>3. u = BorrowFromLeft(t, id, a, d + 1, q)
      BY <2>1, <2>3
    <3>4. Lent(G, t, u, q, d, a, id, a, id)
      BY <1>7, <1>8, <1>15, <3>1, <3>2, <3>3, LeftLends
    <3> QED
      BY <1>10, <2>4, <3>4 DEF Lent
  <2>6. PICK E : E.at = G.at /\ Reshaped(t, G, u, E, h, q, a, id, 0)
    <3>1. /\ d \in 1..Len(t.pages[q].kids) /\ d # Len(t.pages[q].kids)
          /\ a = t.pages[q].kids[d] /\ id = t.pages[q].kids[d + 1]
      BY <1>1, <1>7, <2>1, <2>3
    <3> QED
      BY <1>7, <1>8, <1>15, <2>5, <3>1, ShareOut
  <2>7. \A p \in {a, id} : NumKeys(u.pages[p]) \in MinKeys..Order
    BY <1>9, <1>10, <1>17, <2>4, <2>5
  <2>8. res = [s |-> u, more |-> 0 = 1] /\ 0 \in {0, 1}
    <3>1. (0 = 1) = FALSE
      OBVIOUS
    <3> QED
      BY <2>2, <3>1
  <2> QED
    BY <1>1, <1>3, <1>12, <2>6, <2>7, <2>8
<1>18. CASE x < MinKeys /\ i < Len(kids) /\ ~(NumKeys(t.pages[kids[i + 1]]) > MinKeys)
            /\ ~(i > 1 /\ NumKeys(t.pages[kids[i - 1]]) > MinKeys)
  <2>1. PICK b, u : b = kids[i + 1] /\ u = MergePages(t, id, b, i, q)
    OBVIOUS
  <2>2. res = [s |-> u, more |-> TRUE]
    BY <1>2, <1>9, <1>10, <1>18, <2>1
  <2>3. i + 1 \in 1..Len(kids) /\ i # Len(kids) /\ i + 1 # i
    BY <1>7, <1>13, <1>18
  <2>4. NumKeys(t.pages[b]) = MinKeys
    BY <1>9, <1>14, <1>18, <2>1, <2>3
  <2>a. /\ i \in 1..Len(t.pages[q].kids) /\ i # Len(t.pages[q].kids)
        /\ id = t.pages[q].kids[i] /\ b = t.pages[q].kids[i + 1]
    BY <1>1, <1>7, <2>1, <2>3, Zenon
  <2>5. Merged(G, t, u, q, i, id, b)
    BY <1>7, <1>8, <1>15, <2>1, <2>a, PagesMerge
  <2>6. PICK E : E.at = G.at \ {b} /\ Reshaped(t, G, u, E, h, q, id, b, 1)
    BY <1>7, <1>8, <1>15, <2>5, <2>a, MergeBoth
  <2>7. NumKeys(u.pages[id]) \in MinKeys..Order
    <3>1. NumKeys(u.pages[id]) \in (x + MinKeys)..(x + MinKeys + 1)
      BY <1>10, <2>4, <2>5 DEF Merged
    <3> QED
      BY <1>9, <1>10, <1>18, <3>1
  <2>8. \A p \in {id, b} \cap E.at : NumKeys(u.pages[p]) \in MinKeys..Order
    BY <2>6, <2>7
  <2> QED
    BY <1>1, <1>3, <1>12, <2>2, <2>6, <2>8
<1>19. CASE x < MinKeys /\ ~(i < Len(kids)) /\ ~(i > 1 /\ NumKeys(t.pages[kids[i - 1]]) > MinKeys)
  <2>1. PICK a, u, d : a = kids[i - 1] /\ u = MergePages(t, a, id, i - 1, q) /\ d = i - 1
    OBVIOUS
  <2>2. res = [s |-> u, more |-> TRUE]
    BY <1>2, <1>9, <1>10, <1>19, <2>1
  <2>3. d \in 1..Len(kids) /\ d # Len(kids) /\ d # i /\ d + 1 = i /\ i > 1
    BY <1>7, <1>13, <1>19, <2>1
  <2>4. NumKeys(t.pages[a]) = MinKeys
    BY <1>9, <1>14, <1>19, <2>1, <2>3
  <2>a. /\ d \in 1..Len(t.pages[q].kids) /\ d # Len(t.pages[q].kids)
        /\ a = t.pages[q].kids[d] /\ id = t.pages[q].kids[d + 1] /\ u = MergePages(t, a, id, d, q)
    BY <1>1, <1>7, <2>1, <2>3, Zenon
  <2>5. Merged(G, t, u, q, d, a, id)
    BY <1>7, <1>8, <1>15, <2>a, PagesMerge
  <2>6. PICK E : E.at = G.at \ {id} /\ Reshaped(t, G, u, E, h, q, a, id, 1)
    BY <1>7, <1>8, <1>15, <2>5, <2>a, MergeBoth
  <2>7. NumKeys(u.pages[a]) \in MinKeys..Order
    <3>1. NumKeys(u.pages[a]) \in (MinKeys + x)..(MinKeys + x + 1)
      BY <1>10, <2>4, <2>5 DEF Merged
    <3> QED
      BY <1>9, <1>10, <1>19, <3>1, SMTT(20)
  <2>8. \A p \in {a, id} \cap E.at : NumKeys(u.pages[p]) \in MinKeys..Order
    BY <2>6, <2>7
  <2> QED
    BY <1>1, <1>3, <1>12, <2>2, <2>6, <2>8
<1>20. x >= MinKeys \/ x < MinKeys
  BY <1>9
<1> QED
  BY <1>11, <1>16, <1>17, <1>18, <1>19, <1>20

\* A root without separators gives way to its only child, and the rows stay.
LEMMA CollapseIs ==
    ASSUME NEW t, NEW G, NEW h, Sound(t, G, h, t.root), t.root \in G.at, Nearly(t, t.root),
           NEW u, u = CollapseRoot(t)
    PROVE  \E E, H : Sound(u, E, H, NoPage) /\ SameRows(t, G, u, E)
<1>1. PICK root, p : root = t.root /\ p = t.pages[root]
  OBVIOUS
<1>2. u = IF ~p.leaf /\ p.keys = <<>> THEN SetRoot(t, p.kids[1]) ELSE t
  BY <1>1 DEF CollapseRoot
<1>3. /\ Tree(t, G, h) /\ State(t) /\ Shape(t.pages, G, root, h) /\ Layout(G, root, h)
      /\ root \in G.at /\ G.level[root] = h /\ h \in Nat /\ G.at \subseteq DOMAIN t.pages
      /\ \A q \in G.at \ {root} : Filled(t, q)
  BY <1>1 DEF Sound, Tree, Shape, Layout
<1>4. CASE p.leaf \/ p.keys # <<>>
  <2>1. u = t
    BY <1>2, <1>4
  <2>2. ~p.leaf => Len(p.keys) >= 1
    <3>1. ASSUME ~p.leaf
          PROVE  Len(p.keys) >= 1
      <4>1. p.keys \in Seq(Key) /\ p.keys # <<>>
        <5>1. G.level[root] # 0 => IndexFits(G, p, G.level[root], G.lo[root], G.hi[root])
          BY <1>1, <1>3, PageFits
        <5>2. G.level[root] = 0 => LeafFits(p, G.lo[root], G.hi[root])
          BY <1>1, <1>3, PageFits
        <5> QED
          BY <1>4, <3>1, <5>1, <5>2 DEF IndexFits, LeafFits
      <4>2. PICK keys \in Seq(Key) : keys = p.keys /\ keys # <<>>
        BY <4>1
      <4>3. Len(keys) >= 1
        BY <4>2
      <4> QED
        BY <4>2, <4>3
    <3> QED
      BY <3>1
  <2>3. Filled(t, root)
    <3>1. ~p.leaf => NumKeys(p) = Len(p.keys)
      BY DEF NumKeys
    <3> QED
      BY <1>1, <2>2, <3>1 DEF Nearly, Filled
  <2>4. Sound(t, G, h, NoPage)
    BY <1>3, <2>3 DEF Sound
  <2>5. SameRows(t, G, t, G)
    BY DEF SameRows
  <2> QED
    BY <2>1, <2>4, <2>5
<1>5. CASE ~p.leaf /\ p.keys = <<>>
  <2>1. PICK E, c : E = Lowered(G, root) /\ c = p.kids[1]
    OBVIOUS
  <2>2. u = SetRoot(t, c)
    BY <1>2, <1>5, <2>1
  <2>3. State(u) /\ u.root = c /\ u.pages = t.pages
    BY <1>3, <2>2, SetRootIs
  <2>4. h # 0
    <3>1. G.level[root] = 0 => LeafFits(p, G.lo[root], G.hi[root])
      BY <1>1, <1>3, PageFits
    <3> QED
      BY <1>3, <1>5, <3>1 DEF LeafFits
  <2>5. Shape(t.pages, E, c, h - 1)
    <3>1. Len(t.pages[root].keys) = 0
      BY <1>1, <1>5
    <3>2. Shape(t.pages, Lowered(G, root), t.pages[root].kids[1], h - 1)
      BY <1>3, <2>4, <3>1, DropRoot
    <3> QED
      BY <1>1, <2>1, <3>2
  <2>6. E.at = G.at \ {root}
    BY <2>1 DEF Lowered
  <2>7. Tree(u, E, h - 1)
    <3>1. \A id \in DOMAIN t.pages : PageIn(t.pages[id], DOMAIN t.pages)
      BY <1>3, PagesIn
    <3> QED
      BY <2>3, <2>5, <3>1 DEF Tree
  <2>8. \A q \in E.at : Filled(u, q)
    <3>1. ASSUME NEW q \in E.at
          PROVE  Filled(u, q)
      <4>1. Filled(t, q) /\ q # t.root /\ u.pages[q] = t.pages[q]
        BY <1>1, <1>3, <2>3, <2>6
      <4> QED
        BY <4>1 DEF Filled
    <3> QED
      BY <3>1
  <2>9. SameRows(t, G, u, E)
    <3>1. Replaces(t.pages, G.at, u.pages, E.at, {root}, {})
      BY <1>3, <2>3, <2>6 DEF Replaces
    <3>2. \A q \in {root} : ~t.pages[q].leaf
      BY <1>1, <1>5
    <3>3. ASSUME NEW j, NEW w
          PROVE  Holds(t.pages, G.at, j, w) <=> Holds(u.pages, E.at, j, w)
      <4>1. (\E q \in {root} : InPage(t.pages[q], j, w)) <=> (\E q \in {} : InPage(u.pages[q], j, w))
        BY <3>2 DEF InPage
      <4> QED
        BY <3>1, <4>1, RowsKept
    <3> QED
      BY <3>3 DEF SameRows
  <2> QED
    BY <2>7, <2>8, <2>9 DEF Sound
<1> QED
  BY <1>4, <1>5

\* The key leaves its leaf, which may be left one key short.
LEMMA TakenFromLeaf ==
    ASSUME NEW s, NEW g, NEW h, Sound(s, g, h, NoPage), NEW k \in Key,
           NEW path, path = FindPath(s, k), NEW id, id = path[h + 1].id,
           NEW p, p = s.pages[id], k \in DOMAIN p.rows,
           NEW r, r.more, r.s = MarkDirty(SetPage(s, id, Leaf(Restrict(p.rows, DOMAIN p.rows \ {k}), p.next)), id)
    PROVE  Fallen(s, g, h, k, id, 0, r)
<1>1. PICK A, u, t : /\ A = Leaf(Restrict(p.rows, DOMAIN p.rows \ {k}), p.next)
                     /\ u = SetPage(s, id, A) /\ t = MarkDirty(u, id) /\ r.s = t
  OBVIOUS
<1>3. Tree(s, g, h) /\ State(s) /\ Shape(s.pages, g, s.root, h) /\ g.at \subseteq DOMAIN s.pages
  BY DEF Sound, Tree, Shape
<1>4. /\ id \in g.at /\ id \in DOMAIN s.pages /\ g.level[id] = 0
      /\ LeafFits(p, g.lo[id], g.hi[id])
      /\ \A w : \A q \in g.at : InPage(s.pages[q], k, w) => q = id
  <2>1. LeafFor(s, g, k, path, id)
    BY <1>3, LeafOf
  <2> QED
    BY <2>1 DEF LeafFor
<1>5. PICK f : f = Restrict(p.rows, DOMAIN p.rows \ {k})
  OBVIOUS
<1>6. DOMAIN f = DOMAIN p.rows \ {k} /\ \A x \in DOMAIN p.rows \ {k} : f[x] = p.rows[x]
  BY <1>5, ZenonT(30) DEF Restrict
<1>7. A.leaf /\ A.rows = f /\ A.next = p.next
  BY <1>1, <1>5, ZenonT(30) DEF Leaf
<1>8. LeafFits(A, g.lo[id], g.hi[id])
  BY <1>4, <1>6, <1>7, ZenonT(30) DEF LeafFits
<1>9. /\ State(t) /\ t.root = s.root /\ DOMAIN t.pages = DOMAIN s.pages
      /\ t.pages[id] = A /\ \A q \in DOMAIN s.pages : q # id => t.pages[q] = s.pages[q]
  <2>1. /\ State(u) /\ u.root = s.root /\ DOMAIN u.pages = DOMAIN s.pages
        /\ u.pages[id] = A /\ \A q \in DOMAIN s.pages : q # id => u.pages[q] = s.pages[q]
    <3>1. u = SetPage(s, id, A) /\ State(s) /\ id \in DOMAIN s.pages
      BY <1>1, <1>3, <1>4, Zenon
    <3> QED
      BY <3>1, SetPageIs
  <2>2. State(t) /\ t.root = u.root /\ t.pages = u.pages
    <3>1. t = MarkDirty(u, id) /\ State(u)
      BY <1>1, <2>1, Zenon
    <3> QED
      BY <3>1, MarkDirtyIs
  <2> QED
    BY <2>1, <2>2
<1>10. Shape(t.pages, g, t.root, h)
  <2>1. PICK pg, new, root : pg = s.pages /\ new = t.pages /\ root = s.root
    OBVIOUS
  <2>2. /\ Shape(pg, g, root, h) /\ A.next = pg[id].next
        /\ g.at \subseteq DOMAIN new /\ new[id] = A /\ \A q \in g.at \ {id} : new[q] = pg[q]
    <3>1. A.next = pg[id].next
      BY <1>7, <2>1
    <3> QED
      BY <1>3, <1>9, <2>1, <3>1
  <2>3. Shape(new, g, root, h)
    BY <1>4, <1>8, <2>2, RowsShape
  <2> QED
    BY <1>9, <2>1, <2>3
<1>11. Tree(t, g, h)
  BY <1>3, <1>4, <1>9, <1>10 DEF Tree
<1>12. \A q \in g.at \ {id} : Filled(t, q)
  <2>1. \A q \in g.at \ {id} : Filled(s, q) /\ t.pages[q] = s.pages[q]
    <3>1. NoPage \notin DOMAIN s.pages
      BY <1>3 DEF State, NoPage
    <3> QED
      BY <1>3, <1>9, <3>1 DEF Sound
  <2> QED
    BY <1>9, <2>1 DEF Filled
<1>13. Above(s, g, t, g, 0)
  <2>1. \A q \in g.at : g.level[q] > 0 => q # id
    BY <1>4
  <2> QED
    BY <1>3, <1>9, <2>1 DEF Above
<1>14. Dropped(s, g, t, g, k)
  <2> SUFFICES ASSUME NEW j, NEW w
               PROVE  Holds(t.pages, g.at, j, w) <=> j # k /\ Holds(s.pages, g.at, j, w)
    BY DEF Dropped
  <2>1. CASE j = k
    <3>1. \A q \in g.at : ~InPage(t.pages[q], k, w)
      <4> TAKE q \in g.at
      <4>1. CASE q = id
        BY <1>6, <1>7, <1>9, <4>1 DEF InPage
      <4>2. CASE q # id
        BY <1>3, <1>4, <1>9, <4>2
      <4> QED
        BY <4>1, <4>2
    <3> QED
      BY <2>1, <3>1 DEF Holds
  <2>2. CASE j # k
    <3>1. \A q \in g.at : InPage(t.pages[q], j, w) <=> InPage(s.pages[q], j, w)
      <4> TAKE q \in g.at
      <4>1. CASE q = id
        <5>1. p.leaf
          BY <1>4 DEF LeafFits
        <5>2. t.pages[q] = A /\ s.pages[q] = p
          BY <1>9, <4>1, SMTT(20)
        <5>3. InPage(A, j, w) <=> InPage(p, j, w)
          BY <1>6, <1>7, <2>2, <5>1 DEF InPage
        <5> QED
          BY <5>2, <5>3, SMTT(20)
      <4>2. CASE q # id
        BY <1>3, <1>9, <4>2
      <4> QED
        BY <4>1, <4>2
    <3> QED
      BY <2>2, <3>1 DEF Holds
  <2> QED
    BY <2>1, <2>2
<1>15. PICK n \in Nat : n = NumKeys(p) /\ n <= Order /\ (id # s.root => n >= MinKeys)
  <2>1. id # NoPage
    BY <1>3, <1>4 DEF State, NoPage
  <2>2. Filled(s, id)
    BY <1>4, <2>1 DEF Sound
  <2> QED
    BY <2>2 DEF Filled
<1>16. NumKeys(A) \in Nat /\ NumKeys(A) + 1 = n
  <2>1. PICK S : S = DOMAIN p.rows
    OBVIOUS
  <2>2. IsFiniteSet(S) /\ Cardinality(S) = n
    BY <1>4, <1>15, <2>1, LeafRows
  <2>3. Cardinality(S \ {k}) = n - 1 /\ IsFiniteSet(S \ {k})
    BY <2>1, <2>2, FS_RemoveElement
  <2>4. Cardinality(S \ {k}) \in Nat
    BY <2>3, FS_CardinalityType
  <2>5. NumKeys(A) = Cardinality(S \ {k})
    BY <1>6, <1>7, <2>1 DEF NumKeys
  <2> QED
    BY <2>3, <2>4, <2>5
<1>17. Nearly(t, id)
  <2>1. Order \in Nat /\ MinKeys \in Nat
    BY EnoughKeys
  <2> QED
    BY <1>9, <1>15, <1>16, <2>1 DEF Nearly
<1>18. Sound(t, g, h, id)
  BY <1>11, <1>12 DEF Sound
<1> QED
  BY <1>1, <1>4, <1>13, <1>14, <1>17, <1>18, Zenon DEF Fallen

\* What a deletion does along the path, from the leaf up.
Falls(f, s, path) ==
    f = [d \in 1..Len(path) |->
           IF d = Len(path) THEN [s |-> s, more |-> TRUE]
           ELSE LET below == f[d + 1]
                IN  IF below.more THEN Rebalance(below.s, path, d + 1) ELSE below]

\* There is such a function.
LEMMA FallsExist ==
    ASSUME NEW s, NEW path, NEW N \in Nat \ {0}, Len(path) = N
    PROVE  \E f : Falls(f, s, path)
<1> DEFINE From(f, M) == f = [d \in (N - M)..N |->
              IF d = N THEN [s |-> s, more |-> TRUE]
              ELSE LET below == f[d + 1]
                   IN  IF below.more THEN Rebalance(below.s, path, d + 1) ELSE below]
           Defined == {M \in 0..(N - 1) : \E f : From(f, M)}
<1>1. 0 \in Defined
  <2> DEFINE f == [d \in (N - 0)..N |-> [s |-> s, more |-> TRUE]]
  <2>1. From(f, 0)
    OBVIOUS
  <2>2. 0 \in 0..(N - 1)
    OBVIOUS
  <2> HIDE DEF f, From
  <2> QED
    BY <2>1, <2>2
<1>2. ASSUME NEW M \in 1..(N - 1), M - 1 \in Defined
      PROVE  M \in Defined
  <2>1. PICK f : From(f, M - 1)
    BY <1>2
  <2>2. PICK b \in Int : b = N - M
    OBVIOUS
  <2>3. N - (M - 1) = b + 1 /\ b < N
    BY <2>2
  <2> DEFINE L == [s |-> s, more |-> TRUE]
             U(x, d) == IF x.more THEN Rebalance(x.s, path, d + 1) ELSE x
             e == [d \in b..N |-> IF d = b THEN U(f[b + 1], b) ELSE f[d]]
  <2>4. \A d \in (b + 1)..N : f[d] = IF d = N THEN L ELSE U(f[d + 1], d)
    <3>1. f = [d \in (b + 1)..N |-> IF d = N THEN L ELSE U(f[d + 1], d)]
      BY <2>1, <2>3
    <3> QED
      BY <3>1
  <2> HIDE DEF L, U
  <2>5. \A d \in b..N : e[d] = IF d = N THEN L ELSE U(e[d + 1], d)
    <3> TAKE d \in b..N
    <3>1. CASE d = b
      <4>1. d + 1 \in b..N /\ d + 1 # b /\ d # N
        BY <2>3, <3>1
      <4>2. e[d + 1] = f[d + 1]
        BY <4>1
      <4> QED
        BY <3>1, <4>1, <4>2
    <3>2. CASE d # b
      <4>1. d \in (b + 1)..N /\ e[d] = f[d]
        BY <2>2, <3>2
      <4>2. d # N => d + 1 \in b..N /\ d + 1 # b /\ e[d + 1] = f[d + 1]
        BY <2>2, <3>2
      <4> QED
        BY <2>4, <4>1, <4>2
    <3> QED
      BY <3>1, <3>2
  <2>6. e = [d \in b..N |-> e[d]]
    OBVIOUS
  <2> HIDE DEF e
  <2>7. e = [d \in b..N |-> IF d = N THEN L ELSE U(e[d + 1], d)]
    BY <2>5, <2>6
  <2>8. From(e, M)
    BY <2>2, <2>7 DEF L, U
  <2> QED
    BY <2>8
<1> HIDE DEF Defined
<1>3. \A n \in 1..(N - 1) : n - 1 \in Defined => n \in Defined
  BY <1>2
<1>4. PICK m \in Nat : m = N - 1
  OBVIOUS
<1>5. 0..m \subseteq Defined
  BY <1>1, <1>3, <1>4, CountUp
<1>6. N - 1 \in Defined /\ N - (N - 1) = 1
  BY <1>4, <1>5
<1>7. PICK f : From(f, N - 1)
  BY <1>6 DEF Defined
<1> QED
  BY <1>6, <1>7 DEF Falls

\* A page that is not short leaves those above alone.
LEMMA Rests ==
    ASSUME NEW s, NEW g, NEW h, NEW k, NEW l \in Nat, NEW id, NEW q, NEW r, Fallen(s, g, h, k, id, l, r), ~r.more,
           \A p \in g.at : g.level[p] \in Nat
    PROVE  Fallen(s, g, h, k, q, l + 1, r)
<1>1. PICK G : Sound(r.s, G, h, NoPage) /\ Above(s, g, r.s, G, l) /\ Dropped(s, g, r.s, G, k)
  BY DEF Fallen
<1>2. Above(s, g, r.s, G, l + 1)
  <2>1. \A p \in g.at : (g.level[p] >= l + 1 => g.level[p] >= l) /\ (g.level[p] > l + 1 => g.level[p] > l)
    OBVIOUS
  <2> QED
    BY <1>1, <2>1 DEF Above
<1> QED
  BY <1>1, <1>2 DEF Fallen

\* The tree is t, with some layout, and holds what s holds, but for key k.
Without(s, g, t, k) == \E G, h : Sound(t, G, h, NoPage) /\ Dropped(s, g, t, G, k)

\* _fix_underflow makes the tree sound again.
LEMMA FixUnderflowIs ==
    ASSUME NEW s, NEW g, NEW h, Sound(s, g, h, NoPage), NEW k \in Key,
           NEW path, OnPath(s, g, h, k, path),
           NEW t, Fallen(s, g, h, k, path[h + 1].id, 0, [s |-> t, more |-> TRUE])
    PROVE  Without(s, g, FixUnderflow(t, path), k)
<1> DEFINE f == CHOOSE e : Falls(e, t, path)
<1>1. h \in Nat /\ Len(path) = h + 1 /\ path[1].id = s.root
  BY LevelsCounted DEF Sound, OnPath
<1>2. FixUnderflow(t, path) = IF f[1].more THEN CollapseRoot(f[1].s) ELSE f[1].s
  BY DEF FixUnderflow, Falls
<1>3. Falls(f, t, path)
  <2>1. h + 1 \in Nat \ {0}
    BY <1>1
  <2>2. \E e : Falls(e, t, path)
    BY <1>1, <2>1, FallsExist
  <2> QED
    BY <2>2
<1> HIDE DEF f
<1>4. \A d \in 1..(h + 1) : f[d] = IF d = h + 1 THEN [s |-> t, more |-> TRUE]
                                   ELSE IF f[d + 1].more THEN Rebalance(f[d + 1].s, path, d + 1) ELSE f[d + 1]
  BY <1>1, <1>3 DEF Falls
<1>5. \A p \in g.at : g.level[p] \in Nat
  BY <1>1 DEF Sound, Tree, Shape, Layout
<1> DEFINE Up(n) == Fallen(s, g, h, k, path[h + 1 - n].id, n, f[h + 1 - n])
           Done == {n \in 0..h : Up(n)}
<1>6. 0 \in Done
  <2>1. h + 1 - 0 = h + 1 /\ h + 1 \in 1..(h + 1) /\ 0 \in 0..h
    BY <1>1
  <2>2. f[h + 1] = [s |-> t, more |-> TRUE]
    BY <1>4, <2>1
  <2> QED
    BY <2>1, <2>2
<1>7. ASSUME NEW n \in 1..h, n - 1 \in Done
      PROVE  n \in Done
  <2>1. PICK j \in 2..(h + 1) : j = h + 1 - (n - 1)
    BY <1>1
  <2>2. /\ n \in 0..h /\ h + 1 - j = n - 1 /\ h + 1 - (j - 1) = n /\ h + 1 - n = j - 1
        /\ j - 1 \in 1..(h + 1) /\ j - 1 # h + 1 /\ (j - 1) + 1 = j /\ n - 1 \in Nat /\ (n - 1) + 1 = n
    BY <1>1, <2>1, SMTT(20)
  <2>3. PICK r : r = f[j]
    OBVIOUS
  <2>4. Fallen(s, g, h, k, path[j].id, n - 1, r)
    <3>1. Up(n - 1)
      BY <1>7
    <3> QED
      BY <2>1, <2>3, <3>1
  <2>5. f[j - 1] = IF r.more THEN Rebalance(r.s, path, j) ELSE r
    BY <1>4, <2>2, <2>3
  <2>6. CASE r.more
    <3>1. Fallen(s, g, h, k, path[j].id, h + 1 - j, r)
      BY <2>2, <2>4
    <3>2. Fallen(s, g, h, k, path[j - 1].id, h + 1 - (j - 1), Rebalance(r.s, path, j))
      BY <2>6, <3>1, RebalanceIs
    <3>3. Up(n)
      BY <2>2, <2>5, <2>6, <3>2
    <3> QED
      BY <2>2, <3>3
  <2>7. CASE ~r.more
    <3>1. Fallen(s, g, h, k, path[j - 1].id, (n - 1) + 1, r)
      BY <1>5, <2>2, <2>4, <2>7, Rests
    <3>2. Up(n)
      BY <2>2, <2>5, <2>7, <3>1
    <3> QED
      BY <2>2, <3>2
  <2> QED
    BY <2>6, <2>7
<1> HIDE DEF Done
<1>8. 0..h \subseteq Done
  BY <1>1, <1>6, <1>7, CountUp
<1>9. Up(h) /\ h + 1 - h = 1
  BY <1>1, <1>8 DEF Done
<1>10. PICK r : r = f[1]
  OBVIOUS
<1>11. Fallen(s, g, h, k, s.root, h, r)
  BY <1>1, <1>9, <1>10
<1>12. CASE ~r.more
  <2>1. \E G : Sound(r.s, G, h, NoPage) /\ Dropped(s, g, r.s, G, k)
    BY <1>11, <1>12 DEF Fallen
  <2> QED
    BY <1>2, <1>10, <1>12, <2>1 DEF Without
<1>13. CASE r.more
  <2>1. PICK G : /\ Sound(r.s, G, h, s.root) /\ Above(s, g, r.s, G, h) /\ Dropped(s, g, r.s, G, k)
                 /\ s.root \in G.at /\ Nearly(r.s, s.root)
    BY <1>11, <1>13 DEF Fallen
  <2>2. PICK u : u = CollapseRoot(r.s)
    OBVIOUS
  <2>3. r.s.root = s.root
    BY <2>1 DEF Above
  <2>4. \E E, H : Sound(u, E, H, NoPage) /\ SameRows(r.s, G, u, E)
    BY <2>1, <2>2, <2>3, CollapseIs
  <2>5. Without(s, g, u, k)
    BY <2>1, <2>4 DEF Without, SameRows, Dropped
  <2> QED
    BY <1>2, <1>10, <1>13, <2>2, <2>5
<1> QED
  BY <1>12, <1>13

\* Delete removes the row of a key and no other, and the tree stays sound.
LEMMA DeletedIs ==
    ASSUME NEW s, NEW g, NEW h, Sound(s, g, h, NoPage), NEW k \in Key
    PROVE  Without(s, g, Deleted(s, k), k)
<1>1. PICK path, id, p : path = FindPath(s, k) /\ id = path[h + 1].id /\ p = s.pages[id]
  OBVIOUS
<1>2. Tree(s, g, h)
  BY DEF Sound
<1>3. OnPath(s, g, h, k, path)
  BY <1>1, <1>2, PathIs
<1>4. LeafFor(s, g, k, path, id)
  BY <1>1, <1>2, LeafOf
<1>5. PICK r : /\ r.s = MarkDirty(SetPage(s, id, Leaf(Restrict(p.rows, DOMAIN p.rows \ {k}), p.next)), id)
               /\ r.more /\ r = [s |-> r.s, more |-> TRUE]
  <2> DEFINE t == MarkDirty(SetPage(s, id, Leaf(Restrict(p.rows, DOMAIN p.rows \ {k}), p.next)), id)
  <2> HIDE DEF t
  <2>1. [s |-> t, more |-> TRUE].s = t /\ [s |-> t, more |-> TRUE].more
    OBVIOUS
  <2> QED
    BY <2>1 DEF t
<1>6. Deleted(s, k) = IF k \notin DOMAIN p.rows THEN s ELSE FixUnderflow(r.s, path)
  <2>1. Last(path).id = id
    BY <1>4 DEF LeafFor
  <2> QED
    BY <1>1, <1>5, <2>1 DEF Deleted
<1>7. CASE k \notin DOMAIN p.rows
  <2>1. \A v : ~Holds(s.pages, g.at, k, v)
    BY <1>1, <1>4, <1>7 DEF LeafFor, InPage
  <2>2. Dropped(s, g, s, g, k)
    BY <2>1 DEF Dropped
  <2> QED
    BY <1>6, <1>7, <2>2 DEF Without
<1>8. CASE k \in DOMAIN p.rows
  <2>1. Fallen(s, g, h, k, id, 0, r)
    BY <1>1, <1>5, <1>8, TakenFromLeaf, SMTT(20)
  <2>2. PICK t : t = r.s
    OBVIOUS
  <2>3. Fallen(s, g, h, k, path[h + 1].id, 0, [s |-> t, more |-> TRUE])
    BY <1>1, <1>5, <2>1, <2>2
  <2>4. Without(s, g, FixUnderflow(t, path), k)
    BY <1>3, <2>3, FixUnderflowIs
  <2> QED
    BY <1>6, <1>8, <2>2, <2>4
<1> QED
  BY <1>7, <1>8

-----------------------------------------------------------------------------
(* The invariant *)

\* Some layout fits the tree, and all its pages are filled.
TreeSound(s) == \E g, h : Sound(s, g, h, NoPage)

\* Which calls the pager has had is no matter to the tree.
LEMMA ForgetIs ==
    ASSUME NEW s, NEW g, NEW h, Sound(s, g, h, NoPage), NEW t, t = Forget(s)
    PROVE  Sound(t, g, h, NoPage) /\ t.pages = s.pages
<1>1. State(s) /\ Tree(s, g, h)
  BY DEF Sound, Tree
<1>2. State(t) /\ t.pages = s.pages /\ t.root = s.root /\ t.next = s.next
  BY <1>1 DEF State, Forget
<1>3. Tree(t, g, h)
  BY <1>1, <1>2 DEF Tree
<1>4. \A p \in g.at \ {NoPage} : Filled(t, p)
  BY <1>2 DEF Sound, Filled
<1> QED
  BY <1>2, <1>3, <1>4 DEF Sound

\* The empty tree is one leaf, between the outermost bounds.
LEMMA EmptyIs ==
    \E g : Sound(Forget(EmptyTree), g, 0, NoPage) /\ \A k, v : ~Holds(Forget(EmptyTree).pages, g.at, k, v)
<1>1. PICK L, s : L = Leaf(<<>>, NoPage) /\ s = EmptyTree
  OBVIOUS
<1>2. PICK t : t = [pages |-> <<>>, root |-> NoPage, next |-> 0, log |-> <<>>]
  OBVIOUS
<1>3. t.next = 0 /\ DOMAIN t.pages = {} /\ State(t)
  <2>1. 0..(0 - 1) = {}
    OBVIOUS
  <2>2. DOMAIN t = {"pages", "root", "next", "log"} /\ t.next = 0 /\ t.pages = <<>>
    BY <1>2
  <2>3. DOMAIN <<>> = {}
    OBVIOUS
  <2> QED
    BY <2>1, <2>2, <2>3 DEF State
<1>4. PICK u : u = NewPage(t, L)
  OBVIOUS
<1>5. State(u) /\ u.pages[0] = L /\ DOMAIN u.pages = {0}
  <2>1. State(u) /\ u.pages[t.next] = L /\ DOMAIN u.pages = DOMAIN t.pages \cup {t.next}
    BY <1>3, <1>4, NewPageIs
  <2> QED
    BY <1>3, <2>1
<1>6. s = SetRoot(u, 0)
  BY <1>1, <1>2, <1>4 DEF EmptyTree
<1>7. State(s) /\ s.root = 0 /\ s.pages = u.pages
  BY <1>5, <1>6, SetRootIs
<1>8. L.leaf /\ L.rows = <<>> /\ L.next = NoPage /\ DOMAIN L.rows = {}
  BY <1>1 DEF Leaf
<1>9. PICK g : /\ g.at = {0} /\ g.level[0] = 0 /\ g.lo[0] = Bottom /\ g.hi[0] = Top
  <2> DEFINE e == [at |-> {0}, level |-> [p \in {0} |-> 0], lo |-> [p \in {0} |-> Bottom], hi |-> [p \in {0} |-> Top]]
  <2>1. e.at = {0} /\ e.level[0] = 0 /\ e.lo[0] = Bottom /\ e.hi[0] = Top
    OBVIOUS
  <2> HIDE DEF e
  <2> QED
    BY <2>1
<1>10. Layout(g, 0, 0)
  <2>1. Bottom \in Int /\ Top \in Int /\ Bottom < Top
    BY KeyBounds
  <2>2. 0 \in 0..0 /\ Bottom <= Bottom /\ Top <= Top
    BY <2>1
  <2> QED
    BY <1>9, <2>1, <2>2 DEF Layout
<1>11. Shape(s.pages, g, 0, 0)
  <2>1. Fits(g, L, 0, Bottom, Top)
    BY <1>8 DEF Fits, LeafFits
  <2>2. LinkFits(g, 0, L.next)
    BY <1>8, <1>9 DEF LinkFits
  <2> QED
    BY <1>5, <1>7, <1>9, <1>10, <2>1, <2>2 DEF Shape
<1>12. Tree(s, g, 0)
  BY <1>5, <1>7, <1>9, <1>11 DEF Tree
<1>13. Filled(s, 0)
  <2>1. NumKeys(L) = 0
    BY <1>8, FS_EmptySet DEF NumKeys
  <2> QED
    BY <1>5, <1>7, <1>8, <2>1, EnoughKeys DEF Filled
<1>14. Sound(s, g, 0, NoPage)
  BY <1>9, <1>12, <1>13 DEF Sound
<1>15. \A k, v : ~Holds(s.pages, g.at, k, v)
  BY <1>5, <1>7, <1>8, <1>9 DEF Holds, InPage
<1>16. PICK e : e = Forget(s)
  OBVIOUS
<1>17. Sound(e, g, 0, NoPage) /\ e.pages = s.pages
  BY <1>14, <1>16, ForgetIs
<1> QED
  BY <1>1, <1>15, <1>16, <1>17

\* Trees that hold the same rows for a key answer a search for it alike.
LEMMA SameAnswer ==
    ASSUME NEW s, NEW g, NEW h, Tree(s, g, h), NEW t, NEW G, NEW H, Tree(t, G, H), NEW k \in Key,
           \A w : Holds(s.pages, g.at, k, w) <=> Holds(t.pages, G.at, k, w)
    PROVE  Search(s, k) = Search(t, k)
<1>1. \/ Search(s, k) \in Row /\ \A v : Holds(s.pages, g.at, k, v) <=> v = Search(s, k)
      \/ Search(s, k) = NoRow /\ \A v : ~Holds(s.pages, g.at, k, v)
  BY SearchIs
<1>2. \/ Search(t, k) \in Row /\ \A v : Holds(t.pages, G.at, k, v) <=> v = Search(t, k)
      \/ Search(t, k) = NoRow /\ \A v : ~Holds(t.pages, G.at, k, v)
  BY SearchIs
<1> QED
  BY <1>1, <1>2

\* What a search finds in a tree, for every key.
Answers(s) == [k \in Key |-> Search(s, k)]

\* An insertion leaves a sound tree that answers v for k, and else as before.
LEMMA InsertStep ==
    ASSUME NEW s, TreeSound(s), NEW k \in Key, NEW v \in Row, NEW t, t = Forget(Inserted(s, k, v))
    PROVE  TreeSound(t) /\ Answers(t) = [Answers(s) EXCEPT ![k] = v]
<1>1. PICK g, h : Sound(s, g, h, NoPage)
  BY DEF TreeSound
<1>2. PICK u : u = Inserted(s, k, v) /\ t = Forget(u)
  OBVIOUS
<1>3. PICK G, H : Sound(u, G, H, NoPage) /\ Stored(s, g, u, G, k, v)
  <2>1. After(s, g, u, k, v)
    BY <1>1, <1>2, InsertedIs
  <2> QED
    BY <2>1 DEF After
<1>4. Sound(t, G, H, NoPage) /\ t.pages = u.pages
  BY <1>2, <1>3, ForgetIs
<1>5. Tree(s, g, h) /\ Tree(t, G, H)
  BY <1>1, <1>4 DEF Sound
<1>6. \A j, w : Holds(t.pages, G.at, j, w) <=> IF j = k THEN w = v ELSE Holds(s.pages, g.at, j, w)
  BY <1>3, <1>4 DEF Stored
<1>7. Search(t, k) = v
  <2>1. \/ Search(t, k) \in Row /\ \A w : Holds(t.pages, G.at, k, w) <=> w = Search(t, k)
        \/ Search(t, k) = NoRow /\ \A w : ~Holds(t.pages, G.at, k, w)
    BY <1>5, SearchIs
  <2> QED
    BY <1>6, <2>1
<1>8. ASSUME NEW j \in Key, j # k
      PROVE  Search(t, j) = Search(s, j)
  <2>1. \A w : Holds(s.pages, g.at, j, w) <=> Holds(t.pages, G.at, j, w)
    BY <1>6, <1>8
  <2> QED
    BY <1>5, <2>1, SameAnswer
<1> QED
  BY <1>4, <1>7, <1>8 DEF TreeSound, Answers

\* A deletion leaves a sound tree that does not find k, and answers else as before.
LEMMA DeleteStep ==
    ASSUME NEW s, TreeSound(s), NEW k \in Key, NEW t, t = Forget(Deleted(s, k))
    PROVE  TreeSound(t) /\ Answers(t) = [Answers(s) EXCEPT ![k] = NoRow]
<1>1. PICK g, h : Sound(s, g, h, NoPage)
  BY DEF TreeSound
<1>2. PICK u : u = Deleted(s, k) /\ t = Forget(u)
  OBVIOUS
<1>3. PICK G, H : Sound(u, G, H, NoPage) /\ Dropped(s, g, u, G, k)
  <2>1. Without(s, g, u, k)
    BY <1>1, <1>2, DeletedIs
  <2> QED
    BY <2>1 DEF Without
<1>4. Sound(t, G, H, NoPage) /\ t.pages = u.pages
  BY <1>2, <1>3, ForgetIs
<1>5. Tree(s, g, h) /\ Tree(t, G, H)
  BY <1>1, <1>4 DEF Sound
<1>6. \A j, w : Holds(t.pages, G.at, j, w) <=> j # k /\ Holds(s.pages, g.at, j, w)
  BY <1>3, <1>4 DEF Dropped
<1>7. Search(t, k) = NoRow
  <2>1. \/ Search(t, k) \in Row /\ \A w : Holds(t.pages, G.at, k, w) <=> w = Search(t, k)
        \/ Search(t, k) = NoRow /\ \A w : ~Holds(t.pages, G.at, k, w)
    BY <1>5, SearchIs
  <2> QED
    BY <1>6, <2>1
<1>8. ASSUME NEW j \in Key, j # k
      PROVE  Search(t, j) = Search(s, j)
  <2>1. \A w : Holds(s.pages, g.at, j, w) <=> Holds(t.pages, G.at, j, w)
    BY <1>6, <1>8
  <2> QED
    BY <1>5, <2>1, SameAnswer
<1> QED
  BY <1>4, <1>7, <1>8 DEF TreeSound, Answers

\* The inductive invariant.
TreeInvariant == TreeSound(tree)

\* The tree is sound after any sequence of inserts and deletes.
THEOREM SoundTree == Spec => []TreeInvariant
<1>1. Init => TreeInvariant
  BY EmptyIs DEF Init, TreeInvariant, TreeSound
<1>2. TreeInvariant /\ [Next]_tree => TreeInvariant'
  <2> SUFFICES ASSUME TreeInvariant, [Next]_tree
               PROVE  TreeInvariant'
    OBVIOUS
  <2>1. ASSUME NEW k \in Key, NEW v \in Row, Insert(k, v)
        PROVE  TreeInvariant'
    BY <2>1, InsertStep DEF Insert, TreeInvariant
  <2>2. ASSUME NEW k \in Key, Delete(k)
        PROVE  TreeInvariant'
    BY <2>2, DeleteStep DEF Delete, TreeInvariant
  <2>3. CASE UNCHANGED tree
    BY <2>3 DEF TreeInvariant
  <2> QED
    BY <2>1, <2>2, <2>3 DEF Next
<1> QED
  BY <1>1, <1>2, PTL DEF Spec

\* The tree is a map: an insert or a delete changes what search finds for its
\* key, and for no other key, whatever pages it splits, fills up or merges.
THEOREM TreeIsMap == Spec => IsMap
<1>1. Init => Map!Init
  <2> SUFFICES ASSUME Init
               PROVE  Map!Init
    OBVIOUS
  <2>1. PICK g : Sound(tree, g, 0, NoPage) /\ \A k, v : ~Holds(tree.pages, g.at, k, v)
    BY EmptyIs DEF Init
  <2>2. \A k \in Key : Search(tree, k) = NoRow
    <3> TAKE k \in Key
    <3>1. Tree(tree, g, 0)
      BY <2>1 DEF Sound
    <3>2. \/ Search(tree, k) \in Row /\ \A w : Holds(tree.pages, g.at, k, w) <=> w = Search(tree, k)
          \/ Search(tree, k) = NoRow /\ \A w : ~Holds(tree.pages, g.at, k, w)
      BY <3>1, SearchIs
    <3> QED
      BY <2>1, <3>2
  <2> QED
    BY <2>2 DEF Map!Init
<1>2. TreeInvariant /\ [Next]_tree => [Map!Next]_([k \in Key |-> Search(tree, k)])
  <2> SUFFICES ASSUME TreeInvariant, [Next]_tree
               PROVE  Map!Next \/ Answers(tree)' = Answers(tree)
    BY DEF Answers
  <2>1. ASSUME NEW k \in Key, NEW v \in Row, Insert(k, v)
        PROVE  Map!Next
    <3>1. Answers(tree') = [Answers(tree) EXCEPT ![k] = v]
      BY <2>1, InsertStep DEF Insert, TreeInvariant
    <3>2. Map!Put(k, v)
      BY <3>1 DEF Answers, Map!Put
    <3> QED
      BY <3>2 DEF Map!Next
  <2>2. ASSUME NEW k \in Key, Delete(k)
        PROVE  Map!Next
    <3>1. Answers(tree') = [Answers(tree) EXCEPT ![k] = NoRow]
      BY <2>2, DeleteStep DEF Delete, TreeInvariant
    <3>2. Map!Delete(k)
      BY <3>1 DEF Answers, Map!Delete
    <3> QED
      BY <3>2 DEF Map!Next
  <2>3. CASE UNCHANGED tree
    BY <2>3 DEF Answers
  <2> QED
    BY <2>1, <2>2, <2>3 DEF Next
<1> QED
  BY <1>1, <1>2, SoundTree, PTL DEF Spec, IsMap, Map!Spec

-----------------------------------------------------------------------------
(* What the index reaches *)

\* The entries E are pages of level l with their bounds, and leave no gap.
Reached(g, E, l) ==
    /\ \A e \in E : e.id \in g.at /\ g.level[e.id] = l /\ e.lo = g.lo[e.id] /\ e.hi = g.hi[e.id]
    /\ \A x \in Int : Bottom <= x /\ x < Top => \E e \in E : e.lo <= x /\ x < e.hi

\* The children of the pages of a level are pages of the next one.
LEMMA ChildrenReached ==
    ASSUME NEW g, NEW h, Tree(tree, g, h), NEW E, NEW l \in Nat \ {0}, Reached(g, E, l)
    PROVE  Reached(g, UNION {ChildrenOf(e) : e \in E}, l - 1)
<1>1. Shape(tree.pages, g, tree.root, h) /\ Layout(g, tree.root, h)
  BY DEF Tree, Shape
<1> DEFINE C(e, i) == [id |-> tree.pages[e.id].kids[i], lo |-> LowOf(tree.pages[e.id], e.lo, i),
                       hi |-> HighOf(tree.pages[e.id], e.hi, i)]
<1>2. ASSUME NEW e \in E
      PROVE  /\ ChildrenOf(e) = {C(e, i) : i \in 1..Len(tree.pages[e.id].kids)}
             /\ \A i \in 1..Len(tree.pages[e.id].kids) :
                   LET c == tree.pages[e.id].kids[i]
                   IN  c \in g.at /\ g.level[c] = l - 1 /\ C(e, i).lo = g.lo[c] /\ C(e, i).hi = g.hi[c]
             /\ e.lo \in Int /\ e.hi \in Int /\ IndexFits(g, tree.pages[e.id], l, e.lo, e.hi)
  <2>1. PICK q, p : q = e.id /\ p = tree.pages[q]
    OBVIOUS
  <2>2. q \in g.at /\ g.level[q] = l /\ g.level[q] # 0 /\ e.lo = g.lo[q] /\ e.hi = g.hi[q]
    BY <2>1 DEF Reached
  <2>3. IndexFits(g, p, l, e.lo, e.hi) /\ e.lo \in Int /\ e.hi \in Int
    BY <1>1, <2>1, <2>2, PageFits
  <2>4. ~p.leaf
    BY <2>3 DEF IndexFits
  <2>5. ChildrenOf(e) = {C(e, i) : i \in 1..Len(p.kids)}
    BY <2>1, <2>4 DEF ChildrenOf, LowOf, HighOf
  <2>6. \A i \in 1..Len(p.kids) : /\ p.kids[i] \in g.at /\ g.level[p.kids[i]] = l - 1
                                  /\ g.lo[p.kids[i]] = LowOf(p, e.lo, i) /\ g.hi[p.kids[i]] = HighOf(p, e.hi, i)
    BY <2>3 DEF IndexFits
  <2> QED
    BY <2>1, <2>3, <2>5, <2>6
<1>3. ASSUME NEW c \in UNION {ChildrenOf(e) : e \in E}
      PROVE  c.id \in g.at /\ g.level[c.id] = l - 1 /\ c.lo = g.lo[c.id] /\ c.hi = g.hi[c.id]
  <2>1. PICK e \in E : c \in ChildrenOf(e)
    OBVIOUS
  <2>2. PICK i \in 1..Len(tree.pages[e.id].kids) : c = C(e, i)
    BY <1>2, <2>1
  <2> QED
    BY <1>2, <2>2
<1>4. ASSUME NEW x \in Int, Bottom <= x, x < Top
      PROVE  \E c \in UNION {ChildrenOf(e) : e \in E} : c.lo <= x /\ x < c.hi
  <2>1. PICK e \in E : e.lo <= x /\ x < e.hi
    BY <1>4 DEF Reached
  <2>2. PICK p, i : p = tree.pages[e.id] /\ i = ChildPos(p, x)
    OBVIOUS
  <2>3. e.lo \in Int /\ e.hi \in Int /\ IndexFits(g, p, l, e.lo, e.hi)
    BY <1>2, <2>2
  <2>4. i \in 1..Len(p.kids) /\ LowOf(p, e.lo, i) <= x /\ x < HighOf(p, e.hi, i)
    BY <1>1, <2>1, <2>2, <2>3, ChildPosIs
  <2>5. PICK c : c = C(e, i)
    OBVIOUS
  <2>6. c \in ChildrenOf(e)
    BY <1>2, <2>2, <2>4, <2>5
  <2>7. c.lo <= x /\ x < c.hi
    BY <2>2, <2>4, <2>5
  <2> QED
    BY <2>6, <2>7
<1> QED
  BY <1>3, <1>4 DEF Reached

\* The levels of pages, from the root down.
Descends(f) ==
    f = [d \in 0..Height |->
           IF d = 0 THEN {[id |-> tree.root, lo |-> Bottom, hi |-> Top]}
           ELSE UNION {ChildrenOf(e) : e \in f[d - 1]}]

\* There are such levels.
LEMMA DescendsExist ==
    ASSUME Height \in Nat
    PROVE  \E f : Descends(f)
<1> DEFINE N == Height
           R == {[id |-> tree.root, lo |-> Bottom, hi |-> Top]}
           E(X) == UNION {ChildrenOf(e) : e \in X}
           Upto(f, M) == f = [n \in 0..M |-> IF n = 0 THEN R ELSE E(f[n - 1])]
           Defined == {M \in 0..N : \E f : Upto(f, M)}
<1> HIDE DEF R, E
<1>1. 0 \in Defined
  <2> DEFINE f == [n \in 0..0 |-> R]
  <2>1. Upto(f, 0)
    OBVIOUS
  <2>2. 0 \in 0..N
    OBVIOUS
  <2> HIDE DEF f, Upto
  <2> QED
    BY <2>1, <2>2
<1>2. ASSUME NEW M \in 1..N, M - 1 \in Defined
      PROVE  M \in Defined
  <2>1. PICK f : Upto(f, M - 1)
    BY <1>2
  <2> DEFINE e == [n \in 0..M |-> IF n = M THEN E(f[M - 1]) ELSE f[n]]
  <2>2. \A n \in 0..(M - 1) : f[n] = IF n = 0 THEN R ELSE E(f[n - 1])
    BY <2>1
  <2>3. \A n \in 0..M : e[n] = IF n = 0 THEN R ELSE E(e[n - 1])
    <3> TAKE n \in 0..M
    <3>1. CASE n = M
      <4>1. n # 0 /\ n - 1 \in 0..M /\ n - 1 # M
        BY <3>1
      <4>2. e[n - 1] = f[n - 1]
        BY <4>1
      <4> QED
        BY <3>1, <4>1, <4>2
    <3>2. CASE n # M
      <4>1. n \in 0..(M - 1) /\ e[n] = f[n]
        BY <3>2
      <4>2. n # 0 => n - 1 \in 0..M /\ n - 1 # M /\ e[n - 1] = f[n - 1]
        BY <3>2
      <4> QED
        BY <2>2, <4>1, <4>2
    <3> QED
      BY <3>1, <3>2
  <2>4. e = [n \in 0..M |-> e[n]]
    OBVIOUS
  <2> HIDE DEF e
  <2>5. e = [n \in 0..M |-> IF n = 0 THEN R ELSE E(e[n - 1])]
    BY <2>3, <2>4
  <2>6. Upto(e, M)
    BY <2>5
  <2> QED
    BY <2>6
<1> HIDE DEF Defined
<1>3. \A n \in 1..N : n - 1 \in Defined => n \in Defined
  BY <1>2
<1>4. PICK m \in Nat : m = N
  OBVIOUS
<1>5. 0..m \subseteq Defined
  BY <1>1, <1>3, <1>4, CountUp
<1>6. N \in Defined
  BY <1>4, <1>5
<1>7. PICK f : Upto(f, N)
  BY <1>6 DEF Defined
<1> QED
  BY <1>7 DEF Descends, R, E

\* Every page that the index leads to at a level has its place in the layout.
LEMMA LevelsReached ==
    ASSUME NEW g, NEW h, Tree(tree, g, h)
    PROVE  Height = h /\ h \in Nat /\ \A d \in 0..h : Reached(g, Levels[d], h - d)
<1>1. h \in Nat
  BY LevelsCounted
<1>2. Height = h
  <2>1. Min(Key) \in Key
    BY KeyBounds DEF Bottom
  <2>2. OnPath(tree, g, h, Min(Key), FindPath(tree, Min(Key)))
    BY <2>1, PathIs
  <2> QED
    BY <1>1, <2>2 DEF Height, OnPath
<1> DEFINE f == CHOOSE e : Descends(e)
<1>3. Levels = f
  BY DEF Levels, Descends
<1>4. Descends(f)
  <2>1. \E e : Descends(e)
    BY <1>1, <1>2, DescendsExist
  <2> QED
    BY <2>1
<1> HIDE DEF f
<1>5. /\ f[0] = {[id |-> tree.root, lo |-> Bottom, hi |-> Top]}
      /\ \A d \in 1..h : f[d] = UNION {ChildrenOf(e) : e \in f[d - 1]}
  <2>1. \A d \in 0..h : f[d] = IF d = 0 THEN {[id |-> tree.root, lo |-> Bottom, hi |-> Top]}
                               ELSE UNION {ChildrenOf(e) : e \in f[d - 1]}
    BY <1>2, <1>4 DEF Descends
  <2>2. 0 \in 0..h /\ \A d \in 1..h : d \in 0..h /\ d # 0
    BY <1>1
  <2> QED
    BY <2>1, <2>2
<1> DEFINE Done == {d \in 0..h : Reached(g, f[d], h - d)}
<1>6. 0 \in Done
  <2>1. /\ tree.root \in g.at /\ g.level[tree.root] = h /\ g.lo[tree.root] = Bottom /\ g.hi[tree.root] = Top
    BY DEF Tree, Shape, Layout
  <2>2. PICK e : e = [id |-> tree.root, lo |-> Bottom, hi |-> Top]
    OBVIOUS
  <2>3. e.id = tree.root /\ e.lo = Bottom /\ e.hi = Top /\ f[0] = {e}
    BY <1>5, <2>2
  <2>4. Reached(g, f[0], h)
    BY <2>1, <2>3 DEF Reached
  <2>5. h - 0 = h /\ 0 \in 0..h
    BY <1>1
  <2> QED
    BY <2>4, <2>5
<1>7. ASSUME NEW d \in 1..h, d - 1 \in Done
      PROVE  d \in Done
  <2>1. PICK l \in Nat \ {0} : l = h - (d - 1)
    BY <1>1
  <2>2. l - 1 = h - d /\ d \in 0..h
    BY <1>1, <2>1
  <2>3. Reached(g, f[d - 1], l)
    BY <1>7, <2>1
  <2>4. Reached(g, f[d], l - 1)
    BY <1>5, <2>3, ChildrenReached
  <2> QED
    BY <2>2, <2>4
<1> HIDE DEF Done
<1>8. 0..h \subseteq Done
  BY <1>1, <1>6, <1>7, CountUp
<1>9. \A d \in 0..h : Reached(g, f[d], h - d)
  BY <1>8 DEF Done
<1> QED
  BY <1>1, <1>2, <1>3, <1>9

\* The pages of the pager are in order.
LEMMA SoundTypes == ASSUME TreeInvariant PROVE TypeOK
<1>1. PICK g, h : Tree(tree, g, h)
  BY DEF TreeInvariant, TreeSound, Sound
<1>2. DOMAIN tree.pages = 0..(tree.next - 1)
  BY <1>1 DEF Tree, State
<1>3. tree.root \in DOMAIN tree.pages
  BY <1>1 DEF Tree, Shape, Layout
<1>4. \A id \in DOMAIN tree.pages : PageIn(tree.pages[id], DOMAIN tree.pages)
  BY <1>1, PagesIn
<1>5. \A p : PageIn(p, DOMAIN tree.pages) => PageOK(p)
  BY DEF PageIn, PageOK
<1> QED
  BY <1>2, <1>3, <1>4, <1>5 DEF TypeOK

\* Leaves are level, and keys between the separators that lead to them.
LEMMA SoundOrdered == ASSUME TreeInvariant PROVE Ordered
<1>1. PICK g, h : Tree(tree, g, h)
  BY DEF TreeInvariant, TreeSound, Sound
<1>2. Height = h /\ h \in Nat /\ \A d \in 0..h : Reached(g, Levels[d], h - d)
  BY <1>1, LevelsReached
<1>3. Shape(tree.pages, g, tree.root, h) /\ Layout(g, tree.root, h)
  BY <1>1 DEF Tree, Shape
<1> SUFFICES ASSUME NEW d \in 0..h, NEW e \in Levels[d], NEW p, p = tree.pages[e.id]
             PROVE  /\ e.lo < e.hi
                    /\ p.leaf <=> d = h
                    /\ \A k \in IF p.leaf THEN DOMAIN p.rows ELSE ToSet(p.keys) : e.lo <= k /\ k < e.hi
  BY <1>2 DEF Ordered
<1>4. PICK q : q = e.id /\ p = tree.pages[q]
  OBVIOUS
<1>5. q \in g.at /\ g.level[q] = h - d /\ e.lo = g.lo[q] /\ e.hi = g.hi[q]
  BY <1>2, <1>4 DEF Reached
<1>6. /\ e.lo \in Int /\ e.hi \in Int /\ e.lo < e.hi /\ (p.leaf <=> g.level[q] = 0)
      /\ g.level[q] = 0 => LeafFits(p, e.lo, e.hi)
      /\ g.level[q] # 0 => IndexFits(g, p, g.level[q], e.lo, e.hi)
  BY <1>3, <1>4, <1>5, PageFits
<1>7. h - d = 0 <=> d = h
  BY <1>2
<1>8. CASE p.leaf
  BY <1>5, <1>6, <1>7, <1>8 DEF LeafFits
<1>9. CASE ~p.leaf
  <2>1. IndexFits(g, p, g.level[q], e.lo, e.hi)
    BY <1>6, <1>9
  <2>2. \A i \in 1..Len(p.keys) : p.keys[i] \in Int /\ e.lo < p.keys[i] /\ p.keys[i] < e.hi
    <3>1. g.level[q] # 0 /\ e.lo \in Int /\ e.hi \in Int /\ e.lo < e.hi
      BY <1>6, <1>9
    <3> QED
      BY <1>3, <2>1, <3>1, Edges
  <2>3. p.keys \in Seq(Key)
    BY <2>1 DEF IndexFits
  <2>4. \A k \in ToSet(p.keys) : \E i \in 1..Len(p.keys) : k = p.keys[i]
    BY <2>3 DEF ToSet
  <2>5. \A k \in ToSet(p.keys) : e.lo <= k /\ k < e.hi
    BY <1>6, <2>2, <2>4, SMTT(20)
  <2> QED
    BY <1>5, <1>6, <1>7, <1>9, <2>5
<1> QED
  BY <1>8, <1>9

\* No page is over-full, and only the root may have few keys.
LEMMA SoundOccupied == ASSUME TreeInvariant PROVE Occupied
<1>1. PICK g, h : Sound(tree, g, h, NoPage)
  BY DEF TreeInvariant, TreeSound
<1>2. Tree(tree, g, h) /\ Shape(tree.pages, g, tree.root, h) /\ g.at \subseteq DOMAIN tree.pages /\ State(tree)
  BY <1>1 DEF Sound, Tree, Shape
<1>3. Height = h /\ h \in Nat /\ \A d \in 0..h : Reached(g, Levels[d], h - d)
  BY <1>2, LevelsReached
<1> SUFFICES ASSUME NEW d \in 0..h, NEW e \in Levels[d], NEW p, p = tree.pages[e.id]
             PROVE  /\ NumKeys(p) <= Order
                    /\ e.id # tree.root => NumKeys(p) >= MinKeys
                    /\ ~p.leaf => Len(p.kids) = Len(p.keys) + 1 /\ Len(p.keys) >= 1
  BY <1>3 DEF Occupied
<1>4. PICK q : q = e.id /\ p = tree.pages[q]
  OBVIOUS
<1>5. q \in g.at
  BY <1>3, <1>4 DEF Reached
<1>6. Filled(tree, q)
  <2>1. q # NoPage
    BY <1>2, <1>5 DEF State, NoPage
  <2> QED
    BY <1>1, <1>5, <2>1 DEF Sound
<1>7. ~p.leaf => Len(p.kids) = Len(p.keys) + 1 /\ NumKeys(p) = Len(p.keys)
  <2>1. p.leaf <=> g.level[q] = 0
    BY <1>2, <1>4, <1>5, PageFits
  <2>2. g.level[q] # 0 => IndexFits(g, p, g.level[q], g.lo[q], g.hi[q])
    BY <1>2, <1>4, <1>5, PageFits
  <2> QED
    BY <2>1, <2>2 DEF IndexFits, NumKeys
<1> QED
  BY <1>4, <1>6, <1>7 DEF Filled

\* The links of the leaves lead where the index does.
LEMMA SoundChain == ASSUME TreeInvariant PROVE ChainMatchesTree
<1>1. PICK g, h : Tree(tree, g, h)
  BY DEF TreeInvariant, TreeSound, Sound
<1>2. Shape(tree.pages, g, tree.root, h) /\ Layout(g, tree.root, h)
  BY <1>1 DEF Tree, Shape
<1>3. Reached(g, Leaves, 0)
  <2>1. Height = h /\ h \in Nat /\ h \in 0..h /\ h - h = 0 /\ \A d \in 0..h : Reached(g, Levels[d], h - d)
    BY <1>1, LevelsReached
  <2>2. Reached(g, Levels[h], h - h)
    BY <2>1
  <2> QED
    BY <2>1, <2>2 DEF Leaves
<1> SUFFICES ASSUME NEW e \in Leaves, NEW next, next = tree.pages[e.id].next
             PROVE  IF e.hi = Top THEN next = NoPage
                    ELSE \E f \in Leaves : f.lo = e.hi /\ next = f.id
  BY DEF ChainMatchesTree
<1>4. PICK q : q = e.id
  OBVIOUS
<1>5. q \in g.at /\ g.level[q] = 0 /\ e.hi = g.hi[q]
  BY <1>3, <1>4 DEF Reached
<1>6. LinkFits(g, q, next)
  BY <1>2, <1>4, <1>5 DEF Shape
<1>7. CASE e.hi = Top
  BY <1>5, <1>6, <1>7 DEF LinkFits
<1>8. CASE e.hi # Top
  <2>1. next \in g.at /\ g.level[next] = 0 /\ g.lo[next] = g.hi[q]
    BY <1>5, <1>6, <1>8 DEF LinkFits
  <2>2. g.lo[next] \in Int /\ Bottom <= g.lo[next] /\ g.lo[next] < g.hi[next] /\ g.hi[next] \in Int /\ g.hi[next] <= Top
    BY <1>2, <2>1 DEF Layout
  <2>3. PICK x \in Int : x = g.lo[next]
    BY <2>2
  <2>4. x < Top
    BY <2>2, <2>3, KeyBounds
  <2>5. PICK f \in Leaves : f.lo <= x /\ x < f.hi
    BY <1>3, <2>2, <2>3, <2>4 DEF Reached
  <2>6. f.id \in g.at /\ g.level[f.id] = 0 /\ f.lo = g.lo[f.id] /\ f.hi = g.hi[f.id]
    BY <1>3 DEF Reached
  <2>7. PICK r : r = f.id
    OBVIOUS
  <2>8. /\ next \in g.at /\ r \in g.at /\ g.level[next] = g.level[r] /\ x \in Int
        /\ g.lo[next] <= x /\ x < g.hi[next] /\ g.lo[r] <= x /\ x < g.hi[r]
    BY <2>1, <2>2, <2>3, <2>5, <2>6, <2>7
  <2>9. next = r
    BY <1>2, <2>8, OnePage
  <2> QED
    BY <1>5, <1>8, <2>1, <2>6, <2>7, <2>9
<1> QED
  BY <1>7, <1>8

\* After any sequence of inserts and deletes, every leaf is at the same depth, every
\* page is filled as it should be and holds only keys between the separators that
\* lead to it.
THEOREM TreeIsWellFormed == Spec => []WellFormed
<1>1. TreeInvariant => WellFormed
  BY SoundTypes, SoundOrdered, SoundOccupied DEF WellFormed
<1> QED
  BY <1>1, SoundTree, PTL

\* The links between the leaves visit exactly the leaves of the index, in order.
THEOREM LinksFollowTheTree == Spec => []ChainMatchesTree
<1>1. TreeInvariant => ChainMatchesTree
  BY SoundChain
<1> QED
  BY <1>1, SoundTree, PTL

-----------------------------------------------------------------------------
(* The scan *)

\* What lies below lists first.
LEMMA AscendingJoins ==
    ASSUME NEW A \in SUBSET Int, IsFiniteSet(A), NEW B \in SUBSET Int, IsFiniteSet(B),
           \A x \in A, y \in B : x < y
    PROVE  Ascending(A \cup B) = Ascending(A) \o Ascending(B)
<1>1. PICK S, a, b, c : S = A \cup B /\ a = Ascending(A) /\ b = Ascending(B) /\ c = a \o b
  OBVIOUS
<1>2. /\ a \in Seq(A) /\ ToSet(a) = A /\ IsInjective(a) /\ Increasing(a)
      /\ b \in Seq(B) /\ ToSet(b) = B /\ IsInjective(b) /\ Increasing(b)
  BY <1>1, AscendingLists
<1>3. Len(a) = Cardinality(A) /\ Len(b) = Cardinality(B)
  BY <1>2, ElementsCounted
<1>4. S \in SUBSET Int /\ IsFiniteSet(S) /\ Cardinality(S) = Cardinality(A) + Cardinality(B)
  <2>1. A \cap B = {}
    <3>1. ASSUME NEW x \in A, x \in B
          PROVE  FALSE
      <4>1. x < x /\ x \in Int
        BY <3>1
      <4> QED
        BY <4>1
    <3> QED
      BY <3>1
  <2>2. Cardinality(A \cap B) = 0
    BY <2>1, FS_EmptySet
  <2>3. IsFiniteSet(S) /\ Cardinality(S) = Cardinality(A) + Cardinality(B) - Cardinality(A \cap B)
    BY <1>1, FS_Union
  <2>4. Cardinality(A) \in Nat /\ Cardinality(B) \in Nat
    BY FS_CardinalityType
  <2> QED
    BY <1>1, <2>2, <2>3, <2>4
<1>5. PICK n, m \in Nat : n = Len(a) /\ m = Len(b)
  BY <1>2
<1>6. c \in Seq(S) /\ Len(c) = n + m /\ \A i \in 1..(n + m) : c[i] = IF i <= n THEN a[i] ELSE b[i - n]
  <2>1. a \in Seq(S) /\ b \in Seq(S)
    BY <1>1, <1>2
  <2> QED
    BY <1>1, <1>5, <2>1, ConcatProperties
<1>7. Increasing(c)
  <2>1. ASSUME NEW i \in 1..(n + m), NEW j \in 1..(n + m), i < j
        PROVE  c[i] < c[j]
    <3>0. /\ DOMAIN a = 1..n /\ DOMAIN b = 1..m
          /\ \A x \in 1..n : a[x] \in A
          /\ \A x \in 1..m : b[x] \in B
      BY <1>2, <1>5
    <3>1. CASE j <= n
      <4>1. i \in 1..n /\ j \in 1..n /\ c[i] = a[i] /\ c[j] = a[j]
        BY <1>6, <2>1, <3>1
      <4> QED
        BY <1>2, <2>1, <3>0, <4>1 DEF Increasing
    <3>2. CASE i <= n /\ ~(j <= n)
      <4>1. i \in 1..n /\ j - n \in 1..m /\ c[i] = a[i] /\ c[j] = b[j - n]
        BY <1>6, <2>1, <3>2
      <4>2. a[i] \in A /\ b[j - n] \in B
        BY <1>2, <1>5, <4>1
      <4> QED
        BY <4>1, <4>2
    <3>3. CASE ~(i <= n)
      <4>1. /\ i - n \in 1..m /\ j - n \in 1..m /\ i - n < j - n
            /\ c[i] = b[i - n] /\ c[j] = b[j - n]
        BY <1>6, <2>1, <3>3
      <4> QED
        BY <1>2, <3>0, <4>1 DEF Increasing
    <3> QED
      BY <2>1, <3>1, <3>2, <3>3
  <2>2. DOMAIN c = 1..(n + m)
    BY <1>6
  <2> QED
    BY <2>1, <2>2 DEF Increasing
<1>8. c \in [1..Cardinality(S) -> S]
  <2>1. Cardinality(S) = n + m
    BY <1>3, <1>4, <1>5
  <2>2. c \in [1..Len(c) -> S]
    BY <1>6
  <2> QED
    BY <1>6, <2>1, <2>2
<1> QED
  BY <1>1, <1>4, <1>7, <1>8, AscendingIs

\* Keys in order, each with the row that a search finds.
Listed(s, S) == LET ks == Ascending(S) IN [i \in 1..Len(ks) |-> <<ks[i], Search(s, ks[i])>>]

\* Lists of keys that follow each other join.
LEMMA ListedJoins ==
    ASSUME NEW s, NEW A \in SUBSET Int, IsFiniteSet(A), NEW B \in SUBSET Int, IsFiniteSet(B),
           \A x \in A, y \in B : x < y
    PROVE  Listed(s, A \cup B) = Listed(s, A) \o Listed(s, B)
<1>1. PICK a, b, c, P, T : /\ a = Ascending(A) /\ b = Ascending(B) /\ c = a \o b /\ P = [x \in Int |-> <<x, Search(s, x)>>]
                           /\ T = {P[x] : x \in Int}
  OBVIOUS
<1>2. Ascending(A \cup B) = c
  BY <1>1, AscendingJoins
<1>3. a \in Seq(Int) /\ b \in Seq(Int)
  <2>1. a \in Seq(A) /\ b \in Seq(B)
    BY <1>1, AscendingLists
  <2>2. ASSUME NEW X, X \subseteq Int, NEW y \in Seq(X)
        PROVE  y \in Seq(Int)
    <3>1. PICK l \in Nat : l = Len(y)
      OBVIOUS
    <3>2. y \in [1..l -> X]
      BY <3>1
    <3>3. \A i \in 1..l : y[i] \in Int
      BY <2>2, <3>2
    <3>4. y = [i \in 1..l |-> y[i]]
      BY <3>2
    <3>5. y \in [1..l -> Int]
      BY <3>3, <3>4
    <3> QED
      BY <3>5
  <2>3. A \subseteq Int /\ B \subseteq Int
    OBVIOUS
  <2> QED
    BY <2>1, <2>2, <2>3
<1>4. PICK n, m \in Nat : n = Len(a) /\ m = Len(b)
  BY <1>3
<1>5. c \in Seq(Int) /\ Len(c) = n + m /\ \A i \in 1..(n + m) : c[i] = IF i <= n THEN a[i] ELSE b[i - n]
  BY <1>1, <1>3, <1>4, ConcatProperties
<1>6. PICK u, v, w : /\ u = [i \in 1..n |-> P[a[i]]] /\ v = [i \in 1..m |-> P[b[i]]]
                     /\ w = [i \in 1..(n + m) |-> P[c[i]]]
  OBVIOUS
<1>7. Listed(s, A) = u /\ Listed(s, B) = v /\ Listed(s, A \cup B) = w
  <2>1. \A i \in 1..n : P[a[i]] = <<a[i], Search(s, a[i])>>
    BY <1>1, <1>3, <1>4
  <2>2. \A i \in 1..m : P[b[i]] = <<b[i], Search(s, b[i])>>
    BY <1>1, <1>3, <1>4
  <2>3. \A i \in 1..(n + m) : P[c[i]] = <<c[i], Search(s, c[i])>>
    BY <1>1, <1>5, SMTT(20)
  <2>4. Listed(s, A) = u
    BY <1>1, <1>4, <1>6, <2>1 DEF Listed
  <2>5. Listed(s, B) = v
    BY <1>1, <1>4, <1>6, <2>2 DEF Listed
  <2>6. Listed(s, A \cup B) = w
    BY <1>2, <1>5, <1>6, <2>3 DEF Listed
  <2> QED
    BY <2>4, <2>5, <2>6
<1>8. u \in Seq(T) /\ v \in Seq(T) /\ w \in Seq(T) /\ Len(u) = n /\ Len(v) = m /\ Len(w) = n + m
  <2>1. \A x \in Int : P[x] \in T
    BY <1>1
  <2>2. \A i \in 1..n : a[i] \in Int
    BY <1>3, <1>4
  <2>3. \A i \in 1..m : b[i] \in Int
    BY <1>3, <1>4
  <2>4. \A i \in 1..(n + m) : c[i] \in Int
    BY <1>5
  <2>5. u \in [1..n -> T] /\ v \in [1..m -> T] /\ w \in [1..(n + m) -> T]
    BY <1>6, <2>1, <2>2, <2>3, <2>4
  <2>6. n + m \in Nat
    OBVIOUS
  <2> QED
    BY <2>5, <2>6
<1>9. u \o v = w
  <2>1. PICK x : x = u \o v
    OBVIOUS
  <2>2. x \in Seq(T) /\ Len(x) = n + m /\ \A i \in 1..(n + m) : x[i] = IF i <= n THEN u[i] ELSE v[i - n]
    BY <1>8, <2>1, ConcatProperties
  <2>3. \A i \in 1..(n + m) : x[i] = w[i]
    <3> TAKE i \in 1..(n + m)
    <3>1. CASE i <= n
      <4>1. i \in 1..n
        BY <3>1
      <4> QED
        BY <1>5, <1>6, <2>2, <3>1, <4>1
    <3>2. CASE ~(i <= n)
      <4>1. i - n \in 1..m
        BY <3>2
      <4> QED
        BY <1>5, <1>6, <2>2, <3>2, <4>1
    <3> QED
      BY <3>1, <3>2
  <2> QED
    BY <1>8, <2>1, <2>2, <2>3, SeqEqual
<1> QED
  BY <1>7, <1>9

\* Search finds in the leaf of a key what that leaf has.
LEMMA LeafHolds ==
    ASSUME NEW s, NEW g, NEW h, Tree(s, g, h), NEW p \in g.at, g.level[p] = 0,
           NEW k \in Key, g.lo[p] <= k, k < g.hi[p]
    PROVE  /\ Search(s, k) # NoRow <=> k \in DOMAIN s.pages[p].rows
           /\ k \in DOMAIN s.pages[p].rows => s.pages[p].rows[k] = Search(s, k)
<1>1. PICK path, id : path = FindPath(s, k) /\ id = path[h + 1].id
  OBVIOUS
<1>2. LeafFor(s, g, k, path, id)
  BY <1>1, LeafOf
<1>3. Last(path).id = id /\ id \in g.at /\ g.level[id] = 0 /\ g.lo[id] <= k /\ k < g.hi[id]
  BY <1>2 DEF LeafFor
<1>4. id = p
  <2>1. Layout(g, s.root, h) /\ k \in Int
    BY KeyBounds DEF Tree, Shape
  <2> QED
    BY <1>3, <2>1, OnePage
<1>5. \A j \in DOMAIN s.pages[p].rows : s.pages[p].rows[j] \in Row
  BY <1>2, <1>4 DEF LeafFor, LeafFits
<1>6. Search(s, k) = IF k \in DOMAIN s.pages[p].rows THEN s.pages[p].rows[k] ELSE NoRow
  BY <1>1, <1>3, <1>4 DEF Search, FindLeaf
<1> QED
  BY <1>5, <1>6, NoRowAssumption

\* What range_scan finds in a leaf.
Hits(p, lo, hi) ==
    LET hits == Ascending({k \in DOMAIN p.rows : lo <= k /\ k <= hi})
    IN  [i \in 1..Len(hits) |-> <<hits[i], p.rows[hits[i]]>>]

\* A step of range_scan, from one leaf to the next.
Visit(s, before, lo, hi) ==
    LET p == s.pages[before.at]
    IN  IF before.at = NoPage THEN before
        ELSE [at |-> IF \E k \in DOMAIN p.rows : k > hi THEN NoPage ELSE p.next,
              found |-> before.found \o Hits(p, lo, hi)]

\* The steps of range_scan.
Walks(f, s, id, lo, hi) ==
    f = [n \in 0..Cardinality(DOMAIN s.pages) |->
           IF n = 0 THEN [at |-> id, found |-> <<>>] ELSE Visit(s, f[n - 1], lo, hi)]

\* There are such steps.
LEMMA WalksExist ==
    ASSUME NEW s, NEW id, NEW lo, NEW hi, Cardinality(DOMAIN s.pages) \in Nat
    PROVE  \E f : Walks(f, s, id, lo, hi)
<1> DEFINE N == Cardinality(DOMAIN s.pages)
           R == [at |-> id, found |-> <<>>]
           E(x) == Visit(s, x, lo, hi)
           Upto(f, M) == f = [n \in 0..M |-> IF n = 0 THEN R ELSE E(f[n - 1])]
           Defined == {M \in 0..N : \E f : Upto(f, M)}
<1> HIDE DEF R, E
<1>1. 0 \in Defined
  <2> DEFINE f == [n \in 0..0 |-> R]
  <2>1. Upto(f, 0)
    OBVIOUS
  <2>2. 0 \in 0..N
    OBVIOUS
  <2> HIDE DEF f, Upto
  <2> QED
    BY <2>1, <2>2
<1>2. ASSUME NEW M \in 1..N, M - 1 \in Defined
      PROVE  M \in Defined
  <2>1. PICK f : Upto(f, M - 1)
    BY <1>2
  <2> DEFINE e == [n \in 0..M |-> IF n = M THEN E(f[M - 1]) ELSE f[n]]
  <2>2. \A n \in 0..(M - 1) : f[n] = IF n = 0 THEN R ELSE E(f[n - 1])
    BY <2>1
  <2>3. \A n \in 0..M : e[n] = IF n = 0 THEN R ELSE E(e[n - 1])
    <3> TAKE n \in 0..M
    <3>1. CASE n = M
      <4>1. n # 0 /\ n - 1 \in 0..M /\ n - 1 # M
        BY <3>1
      <4>2. e[n - 1] = f[n - 1]
        BY <4>1
      <4> QED
        BY <3>1, <4>1, <4>2
    <3>2. CASE n # M
      <4>1. n \in 0..(M - 1) /\ e[n] = f[n]
        BY <3>2
      <4>2. n # 0 => n - 1 \in 0..M /\ n - 1 # M /\ e[n - 1] = f[n - 1]
        BY <3>2
      <4> QED
        BY <2>2, <4>1, <4>2
    <3> QED
      BY <3>1, <3>2
  <2>4. e = [n \in 0..M |-> e[n]]
    OBVIOUS
  <2> HIDE DEF e
  <2>5. e = [n \in 0..M |-> IF n = 0 THEN R ELSE E(e[n - 1])]
    BY <2>3, <2>4
  <2>6. Upto(e, M)
    BY <2>5
  <2> QED
    BY <2>6
<1> HIDE DEF Defined
<1>3. \A n \in 1..N : n - 1 \in Defined => n \in Defined
  BY <1>2
<1>4. PICK m \in Nat : m = N
  OBVIOUS
<1>5. 0..m \subseteq Defined
  BY <1>1, <1>3, <1>4, CountUp
<1>6. N \in Defined
  BY <1>4, <1>5
<1>7. PICK f : Upto(f, N)
  BY <1>6 DEF Defined
<1> QED
  BY <1>7 DEF Walks, R, E

\* The keys below x that a scan from lo to hi is to find.
Within(s, lo, hi, x) == {k \in Key : lo <= k /\ k <= hi /\ k < x /\ Search(s, k) # NoRow}

\* The leaves to the left of a bound.
LeftOf(g, x) == {p \in g.at : g.level[p] = 0 /\ g.lo[p] < x}

\* After n steps the scan has found all, or all that is left of the n-th leaf or
\* one further on.
Scanned(s, g, lo, hi, n, r) ==
    \/ r.at = NoPage /\ r.found = Listed(s, Within(s, lo, hi, Top))
    \/ /\ r.at \in g.at /\ g.level[r.at] = 0 /\ r.found = Listed(s, Within(s, lo, hi, g.lo[r.at]))
       /\ n <= Cardinality(LeftOf(g, g.lo[r.at]))

\* A leaf adds its keys to those found on its left.
LEMMA HitsAdd ==
    ASSUME NEW s, NEW g, NEW h, Tree(s, g, h), NEW lo \in Key, NEW hi \in Key,
           NEW q \in g.at, g.level[q] = 0, NEW p, p = s.pages[q]
    PROVE  Listed(s, Within(s, lo, hi, g.hi[q])) = Listed(s, Within(s, lo, hi, g.lo[q])) \o Hits(p, lo, hi)
<1>0. PICK H, hits : H = {k \in DOMAIN p.rows : lo <= k /\ k <= hi} /\ hits = Ascending(H)
  OBVIOUS
<1>1. Shape(s.pages, g, s.root, h) /\ lo \in Int /\ hi \in Int /\ Key \subseteq Int
  BY KeyBounds DEF Tree, Shape
<1>2. PICK a, b \in Int : a = g.lo[q] /\ b = g.hi[q] /\ a < b
  BY <1>1, PageFits
<1>3. /\ DOMAIN p.rows \subseteq Key /\ \A k \in DOMAIN p.rows : a <= k /\ k < b
  <2>1. LeafFits(p, g.lo[q], g.hi[q])
    BY <1>1, PageFits
  <2> QED
    BY <1>2, <2>1 DEF LeafFits
<1>4. PICK A, B : A = Within(s, lo, hi, a) /\ B = Within(s, lo, hi, b)
  OBVIOUS
<1>5. /\ A \in SUBSET Key /\ A \in SUBSET Int /\ IsFiniteSet(A)
      /\ H \in SUBSET Key /\ H \in SUBSET Int /\ IsFiniteSet(H)
  <2>1. A \in SUBSET Key
    BY <1>4 DEF Within
  <2>2. H \in SUBSET Key
    BY <1>0, <1>3
  <2>3. IsFiniteSet(A) /\ IsFiniteSet(H)
    BY <2>1, <2>2, KeyAssumption, FS_Subset
  <2> QED
    BY <1>1, <2>1, <2>2, <2>3
<1>6. \A k \in H : a <= k /\ k < b /\ Search(s, k) # NoRow /\ p.rows[k] = Search(s, k)
  <2> TAKE k \in H
  <2>1. k \in Key /\ g.lo[q] <= k /\ k < g.hi[q] /\ k \in DOMAIN s.pages[q].rows
    BY <1>0, <1>2, <1>3
  <2>2. /\ Search(s, k) # NoRow <=> k \in DOMAIN s.pages[q].rows
        /\ k \in DOMAIN s.pages[q].rows => s.pages[q].rows[k] = Search(s, k)
    BY <2>1, LeafHolds
  <2> QED
    BY <1>2, <2>1, <2>2
<1>7. B = A \cup H
  <2>1. ASSUME NEW k \in B
        PROVE  k \in A \cup H
    <3>1. k \in Key /\ k \in Int /\ lo <= k /\ k <= hi /\ k < b /\ Search(s, k) # NoRow
      BY <1>1, <1>4 DEF Within
    <3>2. CASE k < a
      BY <1>4, <3>1, <3>2 DEF Within
    <3>3. CASE ~(k < a)
      <4>1. g.lo[q] <= k /\ k < g.hi[q]
        BY <1>2, <3>1, <3>3
      <4>2. Search(s, k) # NoRow <=> k \in DOMAIN s.pages[q].rows
        BY <3>1, <4>1, LeafHolds
      <4> QED
        BY <1>0, <3>1, <4>2
    <3> QED
      BY <3>2, <3>3
  <2>2. ASSUME NEW k \in A
        PROVE  k \in B
    <3>1. k \in Key /\ k \in Int /\ lo <= k /\ k <= hi /\ k < a /\ Search(s, k) # NoRow
      BY <1>1, <1>4 DEF Within
    <3>2. k < b
      BY <1>2, <3>1
    <3> QED
      BY <1>4, <3>1, <3>2 DEF Within
  <2>3. ASSUME NEW k \in H
        PROVE  k \in B
    BY <1>0, <1>4, <1>5, <1>6 DEF Within
  <2> QED
    BY <2>1, <2>2, <2>3
<1>8. \A x \in A, y \in H : x < y
  <2> TAKE x \in A, y \in H
  <2>1. x \in Int /\ x < a /\ y \in Int /\ a <= y
    BY <1>4, <1>5, <1>6 DEF Within
  <2> QED
    BY <2>1
<1>9. Listed(s, B) = Listed(s, A) \o Listed(s, H)
  BY <1>5, <1>7, <1>8, ListedJoins
<1>10. Listed(s, H) = Hits(p, lo, hi)
  <2>1. hits \in Seq(H)
    BY <1>0, <1>5, AscendingLists
  <2>2. \A i \in 1..Len(hits) : hits[i] \in H
    BY <2>1
  <2>3. \A i \in 1..Len(hits) : p.rows[hits[i]] = Search(s, hits[i])
    BY <1>6, <2>2
  <2> QED
    BY <1>0, <2>3 DEF Listed, Hits
<1> QED
  BY <1>2, <1>4, <1>9, <1>10

\* A step of the scan adds the keys of a leaf, and goes on to the next one.
LEMMA VisitIs ==
    ASSUME NEW s, NEW g, NEW h, Tree(s, g, h), NEW lo \in Key, NEW hi \in Key,
           NEW n \in Nat, NEW r, Scanned(s, g, lo, hi, n, r)
    PROVE  Scanned(s, g, lo, hi, n + 1, Visit(s, r, lo, hi))
<1>1. Shape(s.pages, g, s.root, h) /\ Layout(g, s.root, h) /\ g.at \subseteq DOMAIN s.pages /\ State(s)
  BY DEF Tree, Shape
<1>2. CASE r.at = NoPage /\ r.found = Listed(s, Within(s, lo, hi, Top))
  BY <1>2 DEF Visit, Scanned
<1>3. ASSUME r.at \in g.at, g.level[r.at] = 0, r.found = Listed(s, Within(s, lo, hi, g.lo[r.at])),
             n <= Cardinality(LeftOf(g, g.lo[r.at]))
      PROVE  Scanned(s, g, lo, hi, n + 1, Visit(s, r, lo, hi))
  <2>1. PICK q, p, t : q = r.at /\ p = s.pages[q] /\ t = Visit(s, r, lo, hi)
    OBVIOUS
  <2>3. q \in g.at /\ g.level[q] = 0 /\ q # NoPage
    BY <1>1, <1>3, <2>1 DEF State, NoPage
  <2>4. /\ t.at = IF \E k \in DOMAIN p.rows : k > hi THEN NoPage ELSE p.next
        /\ t.found = r.found \o Hits(p, lo, hi)
    BY <2>1, <2>3 DEF Visit
  <2>5. t.found = Listed(s, Within(s, lo, hi, g.hi[q]))
    <3>1. Listed(s, Within(s, lo, hi, g.hi[q])) = Listed(s, Within(s, lo, hi, g.lo[q])) \o Hits(p, lo, hi)
      <4>1. q \in g.at /\ g.level[q] = 0 /\ p = s.pages[q]
        BY <2>1, <2>3
      <4> QED
        BY <4>1, HitsAdd
    <3>2. r.found = Listed(s, Within(s, lo, hi, g.lo[q]))
      BY <1>3, <2>1
    <3> QED
      BY <2>4, <3>1, <3>2
  <2>6. PICK a, b \in Int : a = g.lo[q] /\ b = g.hi[q] /\ a < b /\ b <= Top
    BY <1>1, <2>3 DEF Layout
  <2>7. Top \in Int /\ Key \subseteq Int /\ hi \in Int
    BY KeyBounds
  <2>8. CASE \E k \in DOMAIN p.rows : k > hi
    <3>1. PICK k \in DOMAIN p.rows : k > hi
      BY <2>8
    <3>2. k < b /\ k \in Int
      <4>1. LeafFits(p, g.lo[q], g.hi[q])
        BY <1>1, <2>1, <2>3, PageFits
      <4> QED
        BY <2>6, <2>7, <4>1 DEF LeafFits
    <3>3. \A j \in Key : j <= hi => j < b /\ j < Top
      <4> TAKE j \in Key
      <4>1. j \in Int
        BY <2>7
      <4> QED
        BY <2>6, <2>7, <3>1, <3>2, <4>1
    <3>4. Within(s, lo, hi, b) = Within(s, lo, hi, Top)
      BY <3>3 DEF Within
    <3> QED
      BY <2>1, <2>4, <2>5, <2>6, <2>8, <3>4 DEF Scanned
  <2>9. CASE ~(\E k \in DOMAIN p.rows : k > hi)
    <3>1. t.at = p.next
      BY <2>4, <2>9
    <3>2. LinkFits(g, q, p.next)
      BY <1>1, <2>1, <2>3 DEF Shape
    <3>3. CASE b = Top
      BY <2>1, <2>5, <2>6, <3>1, <3>2, <3>3 DEF LinkFits, Scanned
    <3>4. CASE b # Top
      <4>1. t.at \in g.at /\ g.level[t.at] = 0 /\ g.lo[t.at] = b
        BY <2>6, <3>1, <3>2, <3>4 DEF LinkFits
      <4>2. PICK X, Y : X = LeftOf(g, a) /\ Y = LeftOf(g, b)
        OBVIOUS
      <4>3. IsFiniteSet(Y)
        <5>1. PICK M \in Nat : DOMAIN s.pages = 0..(M - 1)
          BY <1>1 DEF State
        <5>2. IsFiniteSet(DOMAIN s.pages)
          <6>1. 0 \in Int /\ M - 1 \in Int
            OBVIOUS
          <6> QED
            BY <5>1, <6>1, FS_Interval
        <5>3. Y \in SUBSET (DOMAIN s.pages)
          BY <1>1, <4>2 DEF LeftOf
        <5> QED
          BY <5>2, <5>3, FS_Subset
      <4>4. X \cup {q} \in SUBSET Y /\ q \notin X /\ X \in SUBSET Y
        <5>1. \A x \in X : x \in Y
          <6> TAKE x \in X
          <6>1. x \in g.at /\ g.level[x] = 0 /\ g.lo[x] < a /\ g.lo[x] \in Int
            BY <1>1, <4>2 DEF LeftOf, Layout
          <6> QED
            BY <2>6, <4>2, <6>1 DEF LeftOf
        <5>2. q \in Y
          BY <2>3, <2>6, <4>2 DEF LeftOf
        <5>3. q \notin X
          BY <2>6, <4>2 DEF LeftOf
        <5> QED
          BY <5>1, <5>2, <5>3
      <4>5. Cardinality(X) + 1 <= Cardinality(Y) /\ Cardinality(X) \in Nat /\ Cardinality(Y) \in Nat
        <5>1. IsFiniteSet(X)
          BY <4>3, <4>4, FS_Subset
        <5>2. Cardinality(X \cup {q}) = Cardinality(X) + 1
          BY <4>4, <5>1, FS_AddElement
        <5>3. Cardinality(X \cup {q}) <= Cardinality(Y)
          BY <4>3, <4>4, FS_Subset
        <5> QED
          BY <4>3, <5>1, <5>2, <5>3, FS_CardinalityType
      <4>6. n + 1 <= Cardinality(Y)
        BY <1>3, <2>1, <2>6, <4>2, <4>5
      <4> QED
        BY <2>1, <2>5, <2>6, <4>1, <4>2, <4>6 DEF Scanned
    <3> QED
      BY <3>3, <3>4
  <2> QED
    BY <2>8, <2>9
<1> QED
  BY <1>2, <1>3 DEF Scanned

\* range_scan finds what search finds.
LEMMA ScanIs ==
    ASSUME NEW s, NEW g, NEW h, Tree(s, g, h), NEW lo \in Key, NEW hi \in Key
    PROVE  RangeScan(s, lo, hi) = Listed(s, Within(s, lo, hi, Top))
<1> DEFINE N == Cardinality(DOMAIN s.pages)
           id == FindLeaf(s, lo)
           f == CHOOSE e : Walks(e, s, id, lo, hi)
<1>1. N \in Nat
  BY LevelsCounted
<1>2. RangeScan(s, lo, hi) = f[N].found
  BY DEF RangeScan, ScanFrom, Walks, Visit, Hits
<1>3. Walks(f, s, id, lo, hi)
  <2>1. \E e : Walks(e, s, id, lo, hi)
    BY <1>1, WalksExist
  <2> QED
    BY <2>1
<1> HIDE DEF f
<1>4. f[0] = [at |-> id, found |-> <<>>] /\ \A n \in 1..N : f[n] = Visit(s, f[n - 1], lo, hi)
  <2>1. \A n \in 0..N : f[n] = IF n = 0 THEN [at |-> id, found |-> <<>>] ELSE Visit(s, f[n - 1], lo, hi)
    BY <1>3 DEF Walks
  <2>2. 0 \in 0..N /\ \A n \in 1..N : n \in 0..N /\ n # 0
    BY <1>1
  <2> QED
    BY <2>1, <2>2
<1>5. id \in g.at /\ g.level[id] = 0 /\ g.lo[id] <= lo
  <2>1. PICK path, x : path = FindPath(s, lo) /\ x = path[h + 1].id
    OBVIOUS
  <2>2. LeafFor(s, g, lo, path, x)
    BY <2>1, LeafOf
  <2>3. id = x
    BY <2>1, <2>2 DEF LeafFor, FindLeaf
  <2> QED
    BY <2>2, <2>3 DEF LeafFor
<1>6. /\ Shape(s.pages, g, s.root, h) /\ g.at \subseteq DOMAIN s.pages /\ State(s)
      /\ \A p \in g.at : g.lo[p] \in Int
  BY DEF Tree, Shape, Layout
<1>7. IsFiniteSet(DOMAIN s.pages)
  <2>1. PICK M \in Nat : DOMAIN s.pages = 0..(M - 1)
    BY <1>6 DEF State
  <2>2. 0 \in Int /\ M - 1 \in Int
    OBVIOUS
  <2> QED
    BY <2>1, <2>2, FS_Interval
<1> HIDE DEF id, N
<1> DEFINE Done == {n \in 0..N : Scanned(s, g, lo, hi, n, f[n])}
<1>8. 0 \in Done
  <2>1. PICK r : r = f[0]
    OBVIOUS
  <2>2. r.at = id /\ r.found = <<>>
    BY <1>4, <2>1
  <2>3. Within(s, lo, hi, g.lo[id]) = {}
    <3>1. ASSUME NEW k \in Key, lo <= k, k < g.lo[id]
          PROVE  FALSE
      <4>1. k \in Int /\ lo \in Int /\ g.lo[id] \in Int
        BY <1>5, <1>6, KeyBounds
      <4> QED
        BY <1>5, <3>1, <4>1
    <3> QED
      BY <3>1 DEF Within
  <2>4. Listed(s, {}) = <<>>
    <3>1. PICK a : a = Ascending({})
      OBVIOUS
    <3>2. a = <<>>
      <4>1. {} \in SUBSET Int /\ IsFiniteSet({})
        BY FS_EmptySet
      <4>2. a \in Seq({})
        BY <3>1, <4>1, AscendingLists
      <4> QED
        BY <4>2
    <3> QED
      BY <3>1, <3>2 DEF Listed
  <2>5. 0 <= Cardinality(LeftOf(g, g.lo[id]))
    <3>1. LeftOf(g, g.lo[id]) \in SUBSET (DOMAIN s.pages)
      BY <1>6 DEF LeftOf
    <3>2. IsFiniteSet(LeftOf(g, g.lo[id]))
      BY <1>7, <3>1, FS_Subset
    <3>3. Cardinality(LeftOf(g, g.lo[id])) \in Nat
      BY <3>2, FS_CardinalityType
    <3> QED
      BY <3>3
  <2>6. Scanned(s, g, lo, hi, 0, r)
    BY <1>5, <2>2, <2>3, <2>4, <2>5 DEF Scanned
  <2> QED
    BY <1>1, <2>1, <2>6
<1>9. ASSUME NEW n \in 1..N, n - 1 \in Done
      PROVE  n \in Done
  <2>1. PICK m \in Nat : m = n - 1
    BY <1>1
  <2>2. m + 1 = n /\ n \in 0..N
    BY <1>1, <2>1
  <2>3. Scanned(s, g, lo, hi, m, f[m])
    BY <1>9, <2>1
  <2>4. Scanned(s, g, lo, hi, m + 1, Visit(s, f[m], lo, hi))
    BY <2>3, VisitIs
  <2> QED
    BY <1>4, <2>1, <2>2, <2>4
<1> HIDE DEF Done
<1>10. PICK m \in Nat : m = N
  BY <1>1
<1>11. 0..m \subseteq Done
  BY <1>8, <1>9, <1>10, CountUp
<1>12. Scanned(s, g, lo, hi, N, f[N])
  BY <1>10, <1>11 DEF Done
<1>13. ASSUME NEW r, r = f[N], r.at \in g.at, g.level[r.at] = 0, N <= Cardinality(LeftOf(g, g.lo[r.at]))
       PROVE  FALSE
  <2>1. PICK q, X : q = r.at /\ X = LeftOf(g, g.lo[q])
    OBVIOUS
  <2>2. X \in SUBSET (DOMAIN s.pages) /\ q \in DOMAIN s.pages /\ q \notin X
    <3>1. X \in SUBSET (DOMAIN s.pages) /\ q \in DOMAIN s.pages
      BY <1>6, <1>13, <2>1 DEF LeftOf
    <3>2. g.lo[q] \in Int
      BY <1>6, <1>13, <2>1
    <3>3. ~(g.lo[q] < g.lo[q])
      BY <3>2
    <3> QED
      BY <2>1, <3>1, <3>3 DEF LeftOf
  <2>3. IsFiniteSet(X)
    BY <1>7, <2>2, FS_Subset
  <2>4. Cardinality(X \cup {q}) = Cardinality(X) + 1 /\ Cardinality(X) \in Nat
    BY <2>2, <2>3, FS_AddElement, FS_CardinalityType
  <2>5. X \cup {q} \in SUBSET (DOMAIN s.pages)
    BY <2>2
  <2>6. Cardinality(X \cup {q}) <= m
    BY <1>7, <1>10, <2>5, FS_Subset DEF N
  <2>7. m <= Cardinality(X)
    BY <1>10, <1>13, <2>1
  <2> QED
    BY <2>4, <2>6, <2>7
<1>14. f[N].found = Listed(s, Within(s, lo, hi, Top))
  <2>1. PICK r : r = f[N]
    OBVIOUS
  <2>2. Scanned(s, g, lo, hi, N, r)
    BY <1>12, <2>1
  <2>3. r.at = NoPage /\ r.found = Listed(s, Within(s, lo, hi, Top))
    BY <1>13, <2>1, <2>2 DEF Scanned
  <2> QED
    BY <2>1, <2>3
<1> QED
  BY <1>2, <1>14 DEF N, id

\* What the links lead to in a range is what searches find there, in order.
LEMMA SoundScan == ASSUME TreeInvariant PROVE ScanAgreesWithSearch
<1>1. PICK g, h : Tree(tree, g, h)
  BY DEF TreeInvariant, TreeSound, Sound
<1> SUFFICES ASSUME NEW lo \in Key, NEW hi \in Key
             PROVE  RangeScan(tree, lo, hi) = Listed(tree, {k \in lo..hi : k \in Key /\ Search(tree, k) # NoRow})
  BY DEF ScanAgreesWithSearch, Listed
<1>2. {k \in lo..hi : k \in Key /\ Search(tree, k) # NoRow} = Within(tree, lo, hi, Top)
  <2>1. lo \in Int /\ hi \in Int /\ \A k \in Key : k \in Int /\ k < Top
    BY KeyBounds
  <2>2. ASSUME NEW k \in Key
        PROVE  k \in lo..hi <=> lo <= k /\ k <= hi /\ k < Top
    BY <2>1
  <2> QED
    BY <2>2 DEF Within
<1> QED
  BY <1>1, <1>2, ScanIs

\* After any sequence of inserts and deletes, a scan along the links returns, in
\* order, the rows that searches from the root find in its range.
THEOREM ScansFindWhatSearchFinds == Spec => []ScanAgreesWithSearch
<1>1. TreeInvariant => ScanAgreesWithSearch
  BY SoundScan
<1> QED
  BY <1>1, SoundTree, PTL
=============================================================================
