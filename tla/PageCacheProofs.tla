---------------------------- MODULE PageCacheProofs ----------------------------
(***************************************************************************)
(* Theorems about PageCache, for every capacity and number of pages: no    *)
(* image is in the file before the log that it belongs to, the pages of a  *)
(* running operation stay where they are while they fit, pinned pages are  *)
(* not evicted, and what get_page finds is what was last put there.        *)
(***************************************************************************)
EXTENDS PageCache, FiniteSetTheorems, FunctionTheorems, SequenceTheorems,
        NaturalsInduction, WellFoundedInduction, TLAPS

Image == [content : Content, lsn : Nat]
Frame == [page : Id \X Nat, dirty : BOOLEAN, pins : Nat]

Distinct(s) == \A i, j \in 1..Len(s) : s[i] = s[j] => i = j

PoolShape(p) ==
    /\ p = [order |-> p.order, frames |-> p.frames]
    /\ p.order \in Seq(Id) /\ Distinct(p.order)
    /\ p.frames \in [ToSet(p.order) -> Frame]
    /\ \A id \in ToSet(p.order) : IdOf(p.frames[id].page) = id

PoolTyped ==
    PoolShape(pool) /\ \A id \in DOMAIN pool.frames : pool.frames[id].page \in Objects

HeapTyped ==
    /\ heap \in [Objects -> Image] /\ IsFiniteSet(Objects) /\ Objects \subseteq Id \X Nat
    /\ \A o \in Objects : IdOf(o) < nextId /\ heap[o].lsn <= lsn

FileTyped ==
    /\ file \in [Id -> Image \cup {Absent}]
    /\ \A id \in Id : file[id] # Absent => file[id].lsn <= flushed
    /\ Backed => \A id \in Id : id < nextId => file[id] # Absent

LogTyped == nextId \in 0..MaxPages /\ lsn \in Nat /\ flushed \in 0..lsn /\ (~Backed => lsn = 0)

TxnTyped ==
    /\ writing \in BOOLEAN /\ deferred \in Seq(Objects)
    /\ ~writing \/ ~Backed => deferred = <<>>

OpTyped ==
    /\ op \in [held : SUBSET Objects, marked : SUBSET Objects, ids : SUBSET Id]
    /\ op.marked \subseteq op.held
    /\ \A o \in op.held : IdOf(o) \in op.ids

HistoryTyped == current \in [Id -> Content] /\ torn \subseteq Id /\ slipped \in BOOLEAN

Typed ==
    /\ PoolTyped /\ HeapTyped /\ FileTyped /\ LogTyped
    /\ TxnTyped /\ OpTyped /\ HistoryTyped

\* The running operation has read these pages after all the others.
ReadLast(order, ids) ==
    \A i, j \in 1..Len(order) : i < j /\ order[i] \in ids => order[j] \in ids

OpInv == Typed /\ ReadLast(pool.order, op.ids) /\ WorkingSetStays

\* An object that the operation marked is dirty as long as it is the page.
MarkedDirtyInPool == \A o \in op.marked : InPool(o) => pool.frames[IdOf(o)].dirty

DirtyInPool(id) == Cached(pool, id) /\ pool.frames[id].dirty
LastFor(n, id) ==
    IdOf(deferred[n]) = id /\ \A m \in (n + 1)..Len(deferred) : IdOf(deferred[m]) # id

\* Wherever get_page would find the page, or the file get it from, it is the
\* last one.
PageOK(id) ==
    /\ Cached(pool, id) => heap[pool.frames[id].page].content = current[id]
    /\ Cached(pool, id) /\ ~DirtyInPool(id) => file[id].content = current[id]
    /\ ~DirtyInPool(id) => \A n \in 1..Len(deferred) :
         LastFor(n, id) => heap[deferred[n]].content = current[id]
    /\ ~Cached(pool, id) /\ (\A n \in 1..Len(deferred) : IdOf(deferred[n]) # id)
         => file[id].content = current[id]

CacheInv ==
    /\ OpInv /\ MarkedDirtyInPool
    /\ ~slipped => \A id \in Id \ torn : id < nextId => PageOK(id)

-----------------------------------------------------------------------------
(* Least and greatest numbers, and finite sequences without repetition.     *)

LEMMA LeastNatural ==
    ASSUME NEW S \in SUBSET Nat, S # {}
    PROVE  \E x \in S : \A y \in S : x <= y
<1>1. IsWellFoundedOn(OpToRel(<, Nat), Nat)
  BY NatLessThanWellFounded
<1>2. PICK x \in S : \A y \in S : ~(<<y, x>> \in OpToRel(<, Nat))
  BY <1>1, WFMin
<1>3. \A y \in S : <<y, x>> \in OpToRel(<, Nat) <=> y < x
  BY DEF OpToRel
<1>4. \A y \in S : ~(y < x)
  BY <1>2, <1>3, Zenon
<1> QED
  BY <1>4

\* A set of numbers that is bounded has a greatest.
LEMMA GreatestNatural ==
    ASSUME NEW S \in SUBSET Nat, S # {}, NEW n \in Nat, \A x \in S : x <= n
    PROVE  \E x \in S : \A y \in S : y <= x
<1> DEFINE T == {d \in 0..n : n - d \in S}
<1>1. T \in SUBSET Nat /\ T # {}
  <2>1. PICK x \in S : TRUE
    OBVIOUS
  <2>2. n - x \in 0..n /\ n - (n - x) = x
    OBVIOUS
  <2>3. n - x \in T
    BY <2>1, <2>2
  <2> QED
    BY <2>3
<1>2. PICK d \in T : \A e \in T : d <= e
  <2> HIDE DEF T
  <2> QED
    BY <1>1, LeastNatural
<1>3. ASSUME NEW y \in S
      PROVE  y <= n - d
  <2>1. n - y \in 0..n /\ n - (n - y) = y
    OBVIOUS
  <2>2. n - y \in T
    BY <2>1
  <2>3. d <= n - y
    BY <1>2, <2>2
  <2> QED
    BY <2>3
<1> QED
  BY <1>3

\* The position where Without removes, or the end when there is nothing there.
LEMMA WithoutShape ==
    ASSUME NEW s \in Seq(Id), Distinct(s), NEW id
    PROVE  LET r == Without(s, id)
           IN  /\ r \in Seq(Id) /\ Len(r) \in Nat
               /\ id \notin ToSet(s) => r = s
               /\ id \in ToSet(s) => Len(r) = Len(s) - 1 /\ \E p \in 1..Len(s) :
                    s[p] = id /\ \A i \in 1..Len(r) : r[i] = s[IF i < p THEN i ELSE i + 1]
<1> DEFINE r == Without(s, id)
<1>1. ToSet(s) = {s[i] : i \in 1..Len(s)}
  BY DEF ToSet
<1>2. CASE id \notin ToSet(s)
  <2>1. r = s
    BY <1>1, <1>2 DEF Without, RemoveFirst
  <2> QED
    BY <1>2, <2>1
<1>3. CASE id \in ToSet(s)
  <2>1. PICK p \in 1..Len(s) : s[p] = id
    BY <1>1, <1>3
  <2>2. SelectInSeq(s, LAMBDA v : v = id) = p
    <3> DEFINE I == {i \in 1..Len(s) : s[i] = id}
    <3>1. I = {p}
      BY <2>1 DEF Distinct
    <3>2. p <= p
      OBVIOUS
    <3>3. Min(I) = p
      BY <3>1, <3>2 DEF Min
    <3> QED
      BY <3>1, <3>3 DEF SelectInSeq
  <2>3. r = SubSeq(s, 1, p - 1) \o SubSeq(s, p + 1, Len(s))
    BY <2>1, <2>2 DEF Without, RemoveFirst, RemoveAt
  <2> DEFINE a == SubSeq(s, 1, p - 1)
             b == SubSeq(s, p + 1, Len(s))
  <2>4. Len(s) \in Nat /\ p \in Nat /\ 1 <= p /\ p <= Len(s)
    OBVIOUS
  <2>5. a \in Seq(Id) /\ Len(a) = p - 1 /\ \A i \in 1..(p - 1) : a[i] = s[i]
    BY <2>4
  <2>6. b \in Seq(Id) /\ Len(b) = Len(s) - p /\ \A i \in 1..(Len(s) - p) : b[i] = s[i + p]
    BY <2>4
  <2>7. r = a \o b
    BY <2>3
  <2> HIDE DEF a, b, r
  <2>8. /\ a \o b \in Seq(Id) /\ Len(a \o b) = Len(a) + Len(b)
        /\ \A i \in 1..(Len(a) + Len(b)) :
             (a \o b)[i] = IF i <= Len(a) THEN a[i] ELSE b[i - Len(a)]
    BY <2>5, <2>6, ConcatProperties
  <2>9. /\ r \in Seq(Id) /\ Len(r) = Len(s) - 1
        /\ \A i \in 1..Len(r) : r[i] = IF i <= p - 1 THEN a[i] ELSE b[i - (p - 1)]
    BY <2>4, <2>5, <2>6, <2>7, <2>8
  <2>10. ASSUME NEW i \in 1..Len(r)
         PROVE  r[i] = s[IF i < p THEN i ELSE i + 1]
    <3>1. CASE i < p
      BY <3>1, <2>4, <2>5, <2>9
    <3>2. CASE ~(i < p)
      <4>1. i \in Nat /\ ~(i <= p - 1) /\ i - (p - 1) \in 1..(Len(s) - p)
        BY <3>2, <2>4, <2>9
      <4>2. r[i] = s[(i - (p - 1)) + p]
        BY <4>1, <2>6, <2>9
      <4>3. (i - (p - 1)) + p = i + 1
        BY <4>1, <2>4
      <4> QED
        BY <3>2, <4>2, <4>3
    <3> QED
      BY <3>1, <3>2
  <2>11. Len(r) \in Nat
    BY <2>9
  <2> QED
    BY <1>3, <2>1, <2>9, <2>10, <2>11 DEF r
<1> QED
  BY <1>2, <1>3

\* An order without an id: the others stay as they were.
LEMMA WithoutKeeps ==
    ASSUME NEW s \in Seq(Id), Distinct(s), NEW id
    PROVE  LET r == Without(s, id)
           IN  /\ r \in Seq(Id) /\ Distinct(r) /\ ToSet(r) = ToSet(s) \ {id}
               /\ Len(r) = IF id \in ToSet(s) THEN Len(s) - 1 ELSE Len(s)
               /\ \A ids : ReadLast(s, ids) => ReadLast(r, ids)
<1> DEFINE r == Without(s, id)
<1>1. CASE id \notin ToSet(s)
  <2>1. r = s
    BY <1>1, WithoutShape
  <2> HIDE DEF r
  <2> QED
    BY <1>1, <2>1 DEF r
<1>2. CASE id \in ToSet(s)
  <2>1. /\ r \in Seq(Id) /\ Len(r) \in Nat /\ Len(r) = Len(s) - 1
        /\ \E p \in 1..Len(s) :
             s[p] = id /\ \A i \in 1..Len(r) : r[i] = s[IF i < p THEN i ELSE i + 1]
    BY <1>2, WithoutShape
  <2> HIDE DEF r
  <2>2. PICK p \in 1..Len(s) :
          s[p] = id /\ \A i \in 1..Len(r) : r[i] = s[IF i < p THEN i ELSE i + 1]
    BY <2>1
  <2> DEFINE At(i) == IF i < p THEN i ELSE i + 1
  <2>3. Len(s) \in Nat /\ p \in Nat /\ 1 <= p /\ p <= Len(s)
    OBVIOUS
  <2>4. \A i \in 1..Len(r) : At(i) \in 1..Len(s) /\ At(i) # p /\ r[i] = s[At(i)]
    BY <2>1, <2>2, <2>3
  <2>5. \A i, j \in 1..Len(r) : (At(i) = At(j) => i = j) /\ (i < j => At(i) < At(j))
    BY <2>1, <2>3
  <2>6. \A n \in 1..Len(s) : n # p => \E i \in 1..Len(r) : At(i) = n
    <3> SUFFICES ASSUME NEW n \in 1..Len(s), n # p
                 PROVE  \E i \in 1..Len(r) : At(i) = n
      OBVIOUS
    <3>1. CASE n < p
      <4>1. n \in 1..Len(r) /\ At(n) = n
        BY <2>1, <2>3, <3>1
      <4> QED
        BY <4>1
    <3>2. CASE ~(n < p)
      <4>1. n - 1 \in 1..Len(r) /\ At(n - 1) = n
        BY <2>1, <2>3, <3>2
      <4> QED
        BY <4>1
    <3> QED
      BY <3>1, <3>2
  <2>7. ToSet(s) = {s[i] : i \in 1..Len(s)} /\ ToSet(r) = {r[i] : i \in 1..Len(r)}
    BY <2>1, SMTT(20) DEF ToSet
  <2> HIDE DEF At
  <2>8. Distinct(r)
    BY <2>4, <2>5 DEF Distinct
  <2>9. ToSet(r) = ToSet(s) \ {id}
    <3>1. ASSUME NEW i \in 1..Len(r)
          PROVE  r[i] \in ToSet(s) \ {id}
      BY <2>2, <2>4, <2>7 DEF Distinct
    <3>2. ASSUME NEW n \in 1..Len(s), s[n] # id
          PROVE  s[n] \in ToSet(r)
      <4>1. n # p
        BY <2>2, <3>2
      <4>2. PICK i \in 1..Len(r) : At(i) = n
        BY <2>6, <4>1
      <4>3. r[i] = s[n]
        BY <2>4, <4>2
      <4> QED
        BY <2>7, <4>3
    <3> QED
      BY <2>7, <3>1, <3>2
  <2>10. ASSUME NEW ids, ReadLast(s, ids)
         PROVE  ReadLast(r, ids)
    BY <2>4, <2>5, <2>10 DEF ReadLast
  <2> QED
    BY <1>2, <2>1, <2>8, <2>9, <2>10 DEF r
<1> QED
  BY <1>1, <1>2

\* An order with an id at its end.
LEMMA AppendKeeps ==
    ASSUME NEW s \in Seq(Id), Distinct(s), NEW id \in Id, id \notin ToSet(s)
    PROVE  LET r == Append(s, id)
           IN  /\ r \in Seq(Id) /\ Distinct(r) /\ ToSet(r) = ToSet(s) \cup {id}
               /\ Len(r) = Len(s) + 1
               /\ \A ids : ReadLast(s, ids) => ReadLast(r, ids \cup {id})
<1> DEFINE r == Append(s, id)
<1>1. /\ r \in Seq(Id) /\ Len(s) \in Nat /\ Len(r) = Len(s) + 1
      /\ r[Len(s) + 1] = id /\ \A i \in 1..Len(s) : r[i] = s[i]
  OBVIOUS
<1> HIDE DEF r
<1>2. ToSet(s) = {s[i] : i \in 1..Len(s)} /\ ToSet(r) = {r[i] : i \in 1..Len(r)}
  BY <1>1 DEF ToSet
<1>3. \A i \in 1..Len(r) : i \in 1..Len(s) \/ i = Len(s) + 1
  BY <1>1
<1>4. \A i \in 1..Len(s) : s[i] # id
  BY <1>2
<1>5. Distinct(r)
  BY <1>1, <1>3, <1>4 DEF Distinct
<1>6. ToSet(r) = ToSet(s) \cup {id}
  <2>1. 1..Len(s) \subseteq 1..Len(r) /\ Len(s) + 1 \in 1..Len(r)
    BY <1>1
  <2> QED
    BY <1>1, <1>2, <1>3, <2>1
<1>7. ASSUME NEW ids, ReadLast(s, ids)
      PROVE  ReadLast(r, ids \cup {id})
  <2> SUFFICES ASSUME NEW i \in 1..Len(r), NEW j \in 1..Len(r), i < j, r[i] \in ids \cup {id}
               PROVE  r[j] \in ids \cup {id}
    BY DEF ReadLast
  <2>1. i \in 1..Len(s)
    BY <1>1
  <2>2. CASE j \in 1..Len(s)
    <3>1. s[i] \in ids
      BY <1>1, <1>4, <2>1
    <3>2. s[j] \in ids
      BY <1>7, <2>1, <2>2, <3>1 DEF ReadLast
    <3> QED
      BY <1>1, <2>2, <3>2
  <2>3. CASE j = Len(s) + 1
    BY <1>1, <2>3
  <2> QED
    BY <1>3, <2>2, <2>3
<1> QED
  BY <1>1, <1>5, <1>6, <1>7 DEF r

-----------------------------------------------------------------------------
(* What the calls make of a pool.                                           *)

LEMMA TouchedShape ==
    ASSUME NEW p, PoolShape(p), NEW id \in Id, Cached(p, id)
    PROVE  LET q == Touched(p, id)
           IN  /\ PoolShape(q) /\ q.frames = p.frames /\ Size(q) = Size(p)
               /\ \A ids : ReadLast(p.order, ids) => ReadLast(q.order, ids \cup {id})
<1> DEFINE w == Without(p.order, id)
           q == Touched(p, id)
<1>1. p.order \in Seq(Id) /\ Distinct(p.order) /\ id \in ToSet(p.order)
  BY DEF PoolShape, Cached
<1>2. /\ w \in Seq(Id) /\ Distinct(w) /\ ToSet(w) = ToSet(p.order) \ {id}
      /\ Len(w) = Len(p.order) - 1
      /\ \A ids : ReadLast(p.order, ids) => ReadLast(w, ids)
  BY <1>1, WithoutKeeps
<1>3. q = [order |-> Append(w, id), frames |-> p.frames]
  <2>1. PICK o, f : p = [order |-> o, frames |-> f]
    BY DEF PoolShape
  <2>2. p.order = o /\ p.frames = f
    BY <2>1
  <2>3. [p EXCEPT !.order = Append(w, id)] = [order |-> Append(w, id), frames |-> f]
    BY <2>1
  <2>4. Touched(p, id) = [p EXCEPT !.order = Append(w, id)]
    BY DEF Touched
  <2> QED
    BY <2>2, <2>3, <2>4
<1> HIDE DEF w, q
<1>4. q.order = Append(w, id) /\ q.frames = p.frames /\ q = [order |-> q.order, frames |-> q.frames]
  BY <1>3
<1>5. /\ q.order \in Seq(Id) /\ Distinct(q.order) /\ ToSet(q.order) = ToSet(w) \cup {id}
      /\ Len(q.order) = Len(w) + 1
      /\ \A ids : ReadLast(w, ids) => ReadLast(q.order, ids \cup {id})
  BY <1>2, <1>4, AppendKeeps
<1>6. ToSet(q.order) = ToSet(p.order)
  BY <1>1, <1>2, <1>5
<1>7. PoolShape(q)
  BY <1>4, <1>5, <1>6 DEF PoolShape
<1>8. Size(q) = Size(p)
  <2>1. Len(p.order) \in Nat
    BY <1>1
  <2> QED
    BY <1>2, <1>5, <2>1 DEF Size
<1> QED
  BY <1>2, <1>4, <1>5, <1>7, <1>8 DEF q

\* A victim has no pin; there is none only below capacity or if all are pinned.
LEMMA VictimShape ==
    ASSUME NEW p, PoolShape(p), NEW id, ~Cached(p, id)
    PROVE  \/ /\ Victims(p, id) = {}
              /\ Size(p) >= Capacity => PinnedIds(p) = ToSet(p.order)
           \/ \E v \in ToSet(p.order) :
                /\ Victims(p, id) = {v} /\ p.frames[v].pins = 0 /\ Size(p) >= Capacity
                /\ \A ids : ReadLast(p.order, ids) /\ v \in ids =>
                     ToSet(p.order) \subseteq ids \cup PinnedIds(p)
<1> DEFINE free == {n \in DOMAIN p.order : p.frames[p.order[n]].pins = 0}
<1>1. /\ p.order \in Seq(Id) /\ Len(p.order) \in Nat /\ DOMAIN p.order = 1..Len(p.order)
      /\ ToSet(p.order) = {p.order[i] : i \in 1..Len(p.order)}
      /\ DOMAIN p.frames = ToSet(p.order)
      /\ \A u \in ToSet(p.order) : p.frames[u].pins \in Nat
  BY DEF PoolShape, ToSet, Frame
<1>2. PinnedIds(p) = {u \in ToSet(p.order) : p.frames[u].pins > 0}
  BY <1>1 DEF PinnedIds
<1>3. CASE Size(p) < Capacity
  <2>1. Victims(p, id) = {}
    BY <1>3 DEF Victims
  <2>2. ~(Size(p) >= Capacity)
    BY <1>1, <1>3, CapacityAssumption DEF Size
  <2> QED
    BY <2>1, <2>2
<1>4. CASE ~(Size(p) < Capacity) /\ free = {}
  <2>1. Victims(p, id) = {}
    BY <1>4 DEF Victims
  <2>2. PinnedIds(p) = ToSet(p.order)
    <3>1. ASSUME NEW n \in 1..Len(p.order)
          PROVE  p.frames[p.order[n]].pins > 0
      BY <1>1, <1>4
    <3> QED
      BY <1>1, <1>2, <3>1
  <2> QED
    BY <2>1, <2>2
<1>5. CASE ~(Size(p) < Capacity) /\ free # {}
  <2>1. free \in SUBSET Nat
    BY <1>1
  <2>2. PICK n \in free : \A m \in free : n <= m
    <3> HIDE DEF free
    <3> QED
      BY <1>5, <2>1, LeastNatural
  <2> DEFINE v == p.order[n]
  <2>3. n \in 1..Len(p.order) /\ v \in ToSet(p.order) /\ p.frames[v].pins = 0
    BY <1>1
  <2>4. {m \in free : \A other \in free : m <= other} = {n}
    <3>1. \A m \in free : n <= m /\ (m <= n => m = n)
      BY <2>1, <2>2
    <3> QED
      BY <2>2, <3>1
  <2>5. Victims(p, id) = {v}
    BY <1>5, <2>4 DEF Victims
  <2>6. ASSUME NEW ids, ReadLast(p.order, ids), v \in ids, NEW m \in 1..Len(p.order),
               p.order[m] \notin PinnedIds(p)
        PROVE  p.order[m] \in ids
    <3>1. p.order[m] \in ToSet(p.order) /\ p.frames[p.order[m]].pins = 0
      BY <1>1, <1>2, <2>6
    <3>2. m \in free
      BY <1>1, <3>1
    <3>3. m = n \/ n < m
      BY <2>1, <2>2, <3>2
    <3> QED
      BY <2>3, <2>6, <3>3 DEF ReadLast
  <2>7. Size(p) >= Capacity
    BY <1>1, <1>5, CapacityAssumption DEF Size
  <2>8. ASSUME NEW ids, ReadLast(p.order, ids), v \in ids
        PROVE  ToSet(p.order) \subseteq ids \cup PinnedIds(p)
    BY <1>1, <2>6, <2>8
  <2> QED
    BY <2>3, <2>5, <2>7, <2>8
<1> QED
  BY <1>3, <1>4, <1>5

\* What a put of a page that was not cached makes of the pool.
LEMMA StoredShape ==
    ASSUME NEW p, PoolShape(p), NEW id \in Id, ~Cached(p, id),
           NEW page \in Id \X Nat, IdOf(page) = id, NEW dirty \in BOOLEAN,
           NEW q, q = Stored(p, id, page, dirty)
    PROVE  /\ PoolShape(q)
           /\ DOMAIN q.frames = (DOMAIN p.frames \ Victims(p, id)) \cup {id}
           /\ q.frames[id] = [page |-> page, dirty |-> dirty, pins |-> 0]
           /\ \A u \in DOMAIN p.frames \ Victims(p, id) : q.frames[u] = p.frames[u]
           /\ \A ids : ReadLast(p.order, ids) => ReadLast(q.order, ids \cup {id})
           /\ Size(q) > Size(p) /\ Size(p) >= Capacity => PinnedIds(p) = DOMAIN p.frames
<1> DEFINE gone == Victims(p, id)
           kept == IF gone = {} THEN p.order ELSE Without(p.order, CHOOSE v \in gone : TRUE)
           frame == [page |-> page, dirty |-> dirty, pins |-> 0]
           frames == [other \in (DOMAIN p.frames \ gone) \cup {id} |->
                        IF other = id THEN frame ELSE p.frames[other]]
<1>1. /\ p.order \in Seq(Id) /\ Distinct(p.order) /\ Len(p.order) \in Nat
      /\ p.frames \in [ToSet(p.order) -> Frame] /\ DOMAIN p.frames = ToSet(p.order)
      /\ \A u \in ToSet(p.order) : IdOf(p.frames[u].page) = u
      /\ id \notin ToSet(p.order)
  BY DEF PoolShape, Cached
<1>2. q = [order |-> Append(kept, id), frames |-> frames]
  BY DEF Stored
<1>3. /\ kept \in Seq(Id) /\ Distinct(kept) /\ ToSet(kept) = ToSet(p.order) \ gone
      /\ \A ids : ReadLast(p.order, ids) => ReadLast(kept, ids)
      /\ gone = {} => Len(kept) = Len(p.order)
      /\ gone # {} => Len(kept) = Len(p.order) - 1
      /\ gone = {} /\ Size(p) >= Capacity => PinnedIds(p) = ToSet(p.order)
  <2>1. CASE gone = {} /\ (Size(p) >= Capacity => PinnedIds(p) = ToSet(p.order))
    BY <1>1, <2>1
  <2>2. ASSUME NEW v \in ToSet(p.order), gone = {v}
        PROVE  <1>3
    <3>1. kept = Without(p.order, v)
      <4>1. (CHOOSE u \in {v} : TRUE) = v
        OBVIOUS
      <4> HIDE DEF gone
      <4> QED
        BY <2>2, <4>1
    <3> HIDE DEF kept, gone
    <3>2. /\ kept \in Seq(Id) /\ Distinct(kept) /\ ToSet(kept) = ToSet(p.order) \ {v}
          /\ Len(kept) = Len(p.order) - 1
          /\ \A ids : ReadLast(p.order, ids) => ReadLast(kept, ids)
      BY <1>1, <3>1, WithoutKeeps
    <3> QED
      BY <2>2, <3>2
  <2> HIDE DEF kept, gone
  <2> QED
    BY <2>1, <2>2, VictimShape DEF gone
<1>4. /\ DOMAIN frames = (DOMAIN p.frames \ gone) \cup {id}
      /\ frames[id] = frame
      /\ \A u \in DOMAIN p.frames \ gone : frames[u] = p.frames[u]
  BY <1>1
<1>5. frame \in Frame
  BY DEF Frame
<1> HIDE DEF kept, frames, gone
<1>6. q.order = Append(kept, id) /\ q.frames = frames /\ q = [order |-> q.order, frames |-> q.frames]
  BY <1>2
<1>7. /\ q.order \in Seq(Id) /\ Distinct(q.order) /\ ToSet(q.order) = ToSet(kept) \cup {id}
      /\ Len(q.order) = Len(kept) + 1
      /\ \A ids : ReadLast(kept, ids) => ReadLast(q.order, ids \cup {id})
  BY <1>1, <1>3, <1>6, AppendKeeps
<1>8. ToSet(q.order) = DOMAIN q.frames
  BY <1>1, <1>3, <1>4, <1>6, <1>7
<1>9. \A u \in ToSet(q.order) : q.frames[u] \in Frame /\ IdOf(q.frames[u].page) = u
  <2>1. q.frames[id] \in Frame /\ IdOf(q.frames[id].page) = id
    BY <1>4, <1>5, <1>6
  <2>2. ASSUME NEW u \in ToSet(p.order) \ gone
        PROVE  q.frames[u] \in Frame /\ IdOf(q.frames[u].page) = u
    BY <1>1, <1>4, <1>6
  <2> QED
    BY <1>1, <1>3, <1>7, <2>1, <2>2
<1>10. PoolShape(q)
  <2>1. q.frames \in [ToSet(q.order) -> Frame]
    <3>1. frames = [u \in ToSet(q.order) |-> frames[u]]
      BY <1>6, <1>8 DEF frames
    <3> QED
      BY <1>6, <1>9, <3>1
  <2> QED
    BY <1>6, <1>7, <1>9, <2>1 DEF PoolShape
<1>11. Size(q) > Size(p) /\ Size(p) >= Capacity => PinnedIds(p) = DOMAIN p.frames
  BY <1>1, <1>3, <1>7 DEF Size
<1> QED
  BY <1>3, <1>4, <1>6, <1>7, <1>10, <1>11 DEF gone, frame

\* A pool whose frames change keeps its order.
LEMMA FramesChanged ==
    ASSUME NEW p, PoolShape(p), NEW f \in [ToSet(p.order) -> Frame],
           \A u \in ToSet(p.order) : f[u].page = p.frames[u].page
    PROVE  LET q == [p EXCEPT !.frames = f]
           IN  PoolShape(q) /\ q.order = p.order /\ q.frames = f
<1>1. PICK o, g : p = [order |-> o, frames |-> g]
  BY DEF PoolShape
<1>2. p.order = o /\ p.frames = g
  BY <1>1
<1> DEFINE q == [p EXCEPT !.frames = f]
<1>3. q = [order |-> o, frames |-> f]
  BY <1>1
<1> HIDE DEF q
<1>4. q.order = p.order /\ q.frames = f /\ q = [order |-> q.order, frames |-> q.frames]
  BY <1>2, <1>3
<1>5. PoolShape(q)
  BY <1>4 DEF PoolShape
<1> QED
  BY <1>4, <1>5 DEF q

\* What mark_dirty makes of the pool.
LEMMA MarkedShape ==
    ASSUME NEW p, PoolShape(p), NEW id, Cached(p, id)
    PROVE  LET q == MarkedDirty(p, id)
           IN  /\ PoolShape(q) /\ q.order = p.order /\ DOMAIN q.frames = DOMAIN p.frames
               /\ q.frames[id].dirty
               /\ \A u \in DOMAIN p.frames :
                    /\ u # id => q.frames[u] = p.frames[u]
                    /\ q.frames[u].page = p.frames[u].page /\ q.frames[u].pins = p.frames[u].pins
<1> DEFINE f == [p.frames EXCEPT ![id].dirty = TRUE]
           q == [p EXCEPT !.frames = f]
<1>1. p.frames \in [ToSet(p.order) -> Frame] /\ DOMAIN p.frames = ToSet(p.order)
  BY DEF PoolShape
<1>2. /\ f \in [ToSet(p.order) -> Frame] /\ f[id].dirty
      /\ \A u \in ToSet(p.order) :
           /\ u # id => f[u] = p.frames[u]
           /\ f[u].page = p.frames[u].page /\ f[u].pins = p.frames[u].pins
  BY <1>1 DEF Cached, Frame
<1>3. MarkedDirty(p, id) = q
  <2>1. PICK o, g : p = [order |-> o, frames |-> g]
    BY DEF PoolShape
  <2> QED
    BY <2>1 DEF MarkedDirty
<1> HIDE DEF f
<1>4. PoolShape(q) /\ q.order = p.order /\ q.frames = f
  BY <1>2, FramesChanged
<1> HIDE DEF q
<1> QED
  BY <1>1, <1>2, <1>3, <1>4

\* pin and unpin change the number of pins of a frame, and nothing else.
LEMMA RepinnedShape ==
    ASSUME NEW p, PoolShape(p), NEW id, Cached(p, id), NEW q,
           q = Pinned(p, id) \/ q = Unpinned(p, id)
    PROVE  /\ PoolShape(q) /\ q.order = p.order /\ DOMAIN q.frames = DOMAIN p.frames
           /\ \A u \in DOMAIN p.frames :
                q.frames[u].page = p.frames[u].page /\ q.frames[u].dirty = p.frames[u].dirty
<1>1. p.frames \in [ToSet(p.order) -> Frame] /\ DOMAIN p.frames = ToSet(p.order)
  BY DEF PoolShape
<1>2. PICK n \in Nat : q = [p EXCEPT !.frames[id].pins = n]
  <2>1. p.frames[id] \in Frame
    BY <1>1 DEF Cached
  <2>2. p.frames[id].pins + 1 \in Nat
        /\ (IF p.frames[id].pins > 0 THEN p.frames[id].pins - 1 ELSE 0) \in Nat
    BY <2>1 DEF Frame
  <2> QED
    BY <2>2 DEF Pinned, Unpinned
<1> DEFINE f == [p.frames EXCEPT ![id].pins = n]
           r == [p EXCEPT !.frames = f]
<1>3. /\ f \in [ToSet(p.order) -> Frame]
      /\ \A u \in ToSet(p.order) :
           f[u].page = p.frames[u].page /\ f[u].dirty = p.frames[u].dirty
  BY <1>1 DEF Cached, Frame
<1>4. q = r
  <2>1. PICK o, g : p = [order |-> o, frames |-> g]
    BY DEF PoolShape
  <2> QED
    BY <1>2, <2>1
<1> HIDE DEF f
<1>5. PoolShape(r) /\ r.order = p.order /\ r.frames = f
  BY <1>3, FramesChanged
<1> HIDE DEF r
<1> QED
  BY <1>1, <1>3, <1>4, <1>5

\* What a flush makes of the pool.
LEMMA CleanedShape ==
    ASSUME NEW p, PoolShape(p)
    PROVE  LET q == Cleaned(p)
           IN  /\ PoolShape(q) /\ q.order = p.order /\ DOMAIN q.frames = DOMAIN p.frames
               /\ \A u \in DOMAIN p.frames :
                    /\ q.frames[u].page = p.frames[u].page /\ ~q.frames[u].dirty
                    /\ q.frames[u].pins = p.frames[u].pins
<1> DEFINE f == [u \in DOMAIN p.frames |-> [p.frames[u] EXCEPT !.dirty = FALSE]]
           q == [p EXCEPT !.frames = f]
<1>1. p.frames \in [ToSet(p.order) -> Frame] /\ DOMAIN p.frames = ToSet(p.order)
  BY DEF PoolShape
<1>2. /\ f \in [ToSet(p.order) -> Frame]
      /\ \A u \in ToSet(p.order) :
           f[u].page = p.frames[u].page /\ ~f[u].dirty /\ f[u].pins = p.frames[u].pins
  BY <1>1 DEF Frame
<1>3. Cleaned(p) = q
  <2>1. PICK o, g : p = [order |-> o, frames |-> g]
    BY DEF PoolShape
  <2> QED
    BY <2>1 DEF Cleaned
<1> HIDE DEF f
<1>4. PoolShape(q) /\ q.order = p.order /\ q.frames = f
  BY <1>2, FramesChanged
<1> HIDE DEF q
<1> QED
  BY <1>1, <1>2, <1>3, <1>4

\* The size of the pool counts its frames.
LEMMA SizeIsCount ==
    ASSUME NEW p, PoolShape(p)
    PROVE  /\ DOMAIN p.frames = ToSet(p.order) /\ IsFiniteSet(DOMAIN p.frames)
           /\ Cardinality(ToSet(p.order)) = Size(p) /\ Size(p) \in Nat
<1> DEFINE s == p.order
<1>1. /\ s \in Seq(Id) /\ Distinct(s) /\ Len(s) \in Nat /\ DOMAIN s = 1..Len(s)
      /\ ToSet(s) = {s[i] : i \in 1..Len(s)} /\ DOMAIN p.frames = ToSet(s)
  BY DEF PoolShape, ToSet
<1> HIDE DEF s
<1>2. s \in [1..Len(s) -> ToSet(s)]
  BY <1>1
<1>3. s \in Bijection(1..Len(s), ToSet(s))
  BY <1>1, <1>2 DEF Bijection, Injection, Surjection, IsInjective, Distinct
<1>4. ExistsBijection(1..Len(s), ToSet(s))
  BY <1>3 DEF ExistsBijection
<1>5. IsFiniteSet(1..Len(s)) /\ Cardinality(1..Len(s)) = Len(s)
  BY <1>1, FS_Interval
<1>6. IsFiniteSet(ToSet(s)) /\ Cardinality(ToSet(s)) = Len(s)
  BY <1>4, <1>5, FS_Bijection
<1> QED
  BY <1>1, <1>6 DEF s, Size

\* A new object is none of those there are.
LEMMA FreshShape ==
    ASSUME HeapTyped, NEW id \in Id
    PROVE  Fresh(id) \in Id \X Nat /\ IdOf(Fresh(id)) = id /\ Fresh(id) \notin Objects
<1> DEFINE c == Cardinality(Objects)
           used == {n \in Nat : <<id, n>> \in Objects}
           unused == {n \in 1..(c + 1) : <<id, n>> \notin Objects}
<1>1. c \in Nat /\ IsFiniteSet(Objects)
  BY FS_CardinalityType DEF HeapTyped
<1>2. unused # {}
  <2> SUFFICES ASSUME \A n \in 1..(c + 1) : <<id, n>> \in Objects
               PROVE  FALSE
    OBVIOUS
  <2> DEFINE f == [n \in 1..(c + 1) |-> <<id, n>>]
  <2>1. f \in [1..(c + 1) -> Objects]
    OBVIOUS
  <2>2. IsFiniteSet(1..(c + 1)) /\ Cardinality(1..(c + 1)) = c + 1
    BY <1>1, FS_Interval
  <2>3. Cardinality(Objects) < Cardinality(1..(c + 1))
    BY <1>1, <2>2
  <2> HIDE DEF f
  <2>4. \E x, y \in 1..(c + 1) : x # y /\ f[x] = f[y]
    BY <1>1, <2>1, <2>2, <2>3, FS_PigeonHole
  <2> QED
    BY <2>4 DEF f
<1>3. unused \in SUBSET Nat
  BY <1>1
<1>4. PICK n \in unused : \A m \in unused : n <= m
  <2> HIDE DEF unused
  <2> QED
    BY <1>2, <1>3, LeastNatural
<1>5. n \in 1..(c + 1) /\ <<id, n>> \notin Objects
  OBVIOUS
<1>6. \A m \in 1..(n - 1) : <<id, m>> \in Objects
  <2> SUFFICES ASSUME NEW m \in 1..(n - 1), <<id, m>> \notin Objects
               PROVE  FALSE
    OBVIOUS
  <2>1. m \in 1..(c + 1) /\ ~(n <= m)
    BY <1>1, <1>5
  <2> QED
    BY <1>4, <2>1
<1>7. \E k \in 1..(c + 1) : <<id, k>> \notin Objects /\ \A m \in 1..(k - 1) : <<id, m>> \in Objects
  BY <1>5, <1>6
<1> DEFINE k == CHOOSE j \in 1..(c + 1) :
                   <<id, j>> \notin Objects /\ \A m \in 1..(j - 1) : <<id, m>> \in Objects
<1>8. k \in 1..(c + 1) /\ <<id, k>> \notin Objects
  BY <1>7
<1>9. Fresh(id) = <<id, k>>
  BY DEF Fresh
<1> HIDE DEF k
<1>10. k \in Nat
  BY <1>1, <1>8
<1> QED
  BY <1>8, <1>9, <1>10 DEF IdOf

-----------------------------------------------------------------------------
(* What _pool_put makes of the state.                                       *)

\* The pool has another frame, and has lost at most the victim.
Enters(o, id, dirty) ==
    /\ PoolShape(pool')
    /\ DOMAIN pool'.frames = (DOMAIN pool.frames \ Victims(pool, id)) \cup {id}
    /\ pool'.frames[id].page = o /\ pool'.frames[id].dirty = dirty /\ pool'.frames[id].pins = 0
    /\ \A u \in DOMAIN pool.frames \ Victims(pool, id) :
         u # id /\ pool'.frames[u] = pool.frames[u]
    /\ \A ids : ReadLast(pool.order, ids) => ReadLast(pool'.order, ids \cup {id})
    /\ Size(pool') > Size(pool) /\ Size(pool) >= Capacity => PinnedIds(pool) = DOMAIN pool.frames

\* A put lets a page enter the pool.
LEMMA PutEnters ==
    ASSUME PoolShape(pool), NEW id \in Id, ~Cached(pool, id),
           NEW o \in Id \X Nat, IdOf(o) = id, NEW dirty \in BOOLEAN,
           \/ pool' = Stored(pool, id, o, dirty)
           \/ dirty /\ pool' = MarkedDirty(Stored(pool, id, o, FALSE), id)
    PROVE  Enters(o, id, dirty)
<1>0. id \notin DOMAIN pool.frames
  BY DEF Cached
<1>1. CASE pool' = Stored(pool, id, o, dirty)
  <2>1. PICK q : q = pool'
    OBVIOUS
  <2>2. q = Stored(pool, id, o, dirty)
    BY <1>1, <2>1
  <2>3. /\ PoolShape(q)
        /\ DOMAIN q.frames = (DOMAIN pool.frames \ Victims(pool, id)) \cup {id}
        /\ q.frames[id] = [page |-> o, dirty |-> dirty, pins |-> 0]
        /\ \A u \in DOMAIN pool.frames \ Victims(pool, id) : q.frames[u] = pool.frames[u]
        /\ \A ids : ReadLast(pool.order, ids) => ReadLast(q.order, ids \cup {id})
        /\ Size(q) > Size(pool) /\ Size(pool) >= Capacity => PinnedIds(pool) = DOMAIN pool.frames
    BY <2>2, StoredShape
  <2> QED
    BY <1>0, <2>1, <2>2, <2>3 DEF Enters
<1>2. CASE dirty /\ pool' = MarkedDirty(Stored(pool, id, o, FALSE), id)
  <2>0. PICK clean \in BOOLEAN : clean = FALSE
    OBVIOUS
  <2>1. PICK q : q = Stored(pool, id, o, clean)
    OBVIOUS
  <2>2. /\ PoolShape(q)
        /\ DOMAIN q.frames = (DOMAIN pool.frames \ Victims(pool, id)) \cup {id}
        /\ q.frames[id] = [page |-> o, dirty |-> clean, pins |-> 0]
        /\ \A u \in DOMAIN pool.frames \ Victims(pool, id) : q.frames[u] = pool.frames[u]
        /\ \A ids : ReadLast(pool.order, ids) => ReadLast(q.order, ids \cup {id})
        /\ Size(q) > Size(pool) /\ Size(pool) >= Capacity => PinnedIds(pool) = DOMAIN pool.frames
    BY <2>1, StoredShape
  <2>3. pool' = MarkedDirty(q, id) /\ Cached(q, id)
    BY <1>2, <2>0, <2>1, <2>2 DEF Cached
  <2>4. /\ PoolShape(pool') /\ pool'.order = q.order /\ DOMAIN pool'.frames = DOMAIN q.frames
        /\ pool'.frames[id].dirty
        /\ \A u \in DOMAIN q.frames :
             /\ u # id => pool'.frames[u] = q.frames[u]
             /\ pool'.frames[u].page = q.frames[u].page /\ pool'.frames[u].pins = q.frames[u].pins
    BY <2>2, <2>3, MarkedShape
  <2>5. Size(pool') = Size(q)
    BY <2>4 DEF Size
  <2>6. pool'.frames[id] \in Frame
    BY <2>2, <2>4 DEF PoolShape
  <2>7. pool'.frames[id].dirty = TRUE
    BY <2>4, <2>6 DEF Frame
  <2>8. dirty = TRUE
    BY <1>2
  <2>9. /\ pool'.frames[id].page = o /\ pool'.frames[id].dirty = dirty /\ pool'.frames[id].pins = 0
        /\ \A u \in DOMAIN pool.frames \ Victims(pool, id) :
             u # id /\ pool'.frames[u] = pool.frames[u]
    BY <1>0, <2>2, <2>4, <2>7, <2>8
  <2> QED
    BY <2>2, <2>4, <2>5, <2>9 DEF Enters
<1> QED
  BY <1>1, <1>2

\* An empty set as a sequence.
LEMMA SeqOfNone == SetToSeq({}) = <<>>
<1>1. Cardinality({}) = 0
  BY FS_EmptySet
<1>2. 1..0 = {}
  OBVIOUS
<1>3. \E f \in [1..0 -> {}] : IsInjective(f)
  <2>1. <<>> \in [1..0 -> {}] /\ IsInjective(<<>>)
    BY <1>2 DEF IsInjective
  <2> QED
    BY <2>1
<1>4. \A f \in [1..0 -> {}] : f = <<>>
  BY <1>2
<1> DEFINE g == CHOOSE f \in [1..0 -> {}] : IsInjective(f)
<1>5. g \in [1..0 -> {}]
  BY <1>3
<1>6. SetToSeq({}) = g
  BY <1>1, Zenon DEF SetToSeq
<1> HIDE DEF g
<1> QED
  BY <1>4, <1>5, <1>6

\* A set of one element as a sequence.
LEMMA SeqOfOne ==
    ASSUME NEW x
    PROVE  SetToSeq({x}) = <<x>>
<1>1. Cardinality({x}) = 1
  BY FS_Singleton
<1>2. 1..1 = {1}
  OBVIOUS
<1>3. \E f \in [1..1 -> {x}] : IsInjective(f)
  <2>1. [i \in 1..1 |-> x] \in [1..1 -> {x}] /\ IsInjective([i \in 1..1 |-> x])
    BY <1>2 DEF IsInjective
  <2> QED
    BY <2>1
<1>4. \A f \in [1..1 -> {x}] : f = <<x>>
  <2> SUFFICES ASSUME NEW f \in [1..1 -> {x}]
               PROVE  f = <<x>>
    OBVIOUS
  <2>1. f[1] = x
    OBVIOUS
  <2>2. f = [i \in 1..1 |-> x]
    BY <1>2, <2>1
  <2>3. <<x>> = [i \in 1..1 |-> x]
    BY <1>2
  <2> QED
    BY <2>2, <2>3
<1> DEFINE g == CHOOSE f \in [1..1 -> {x}] : IsInjective(f)
<1>5. g \in [1..1 -> {x}]
  BY <1>3
<1>6. SetToSeq({x}) = g
  BY <1>1, Zenon DEF SetToSeq
<1> HIDE DEF g
<1> QED
  BY <1>4, <1>5, <1>6

\* A frame holds an object of its page, and no image newer than the log.
LEMMA FrameTyped ==
    ASSUME Typed, NEW id \in DOMAIN pool.frames
    PROVE  /\ id \in Id /\ pool.frames[id] \in Frame /\ pool.frames[id].page \in Objects
           /\ pool.frames[id].dirty \in BOOLEAN /\ IdOf(pool.frames[id].page) = id
           /\ id < nextId /\ Out(id) \in Image /\ Out(id).lsn <= lsn
<1>1. /\ pool.order \in Seq(Id) /\ id \in ToSet(pool.order) /\ pool.frames[id] \in Frame
      /\ pool.frames[id].page \in Objects /\ IdOf(pool.frames[id].page) = id
  BY DEF Typed, PoolTyped, PoolShape
<1>2. id \in Id
  BY <1>1 DEF ToSet
<1>3. pool.frames[id].dirty \in BOOLEAN
  BY <1>1 DEF Frame
<1>4. id < nextId /\ Out(id) \in Image /\ Out(id).lsn <= lsn
  BY <1>1 DEF Typed, HeapTyped, Out
<1> QED
  BY <1>1, <1>2, <1>3, <1>4

\* What a put writes: nothing, or the dirty page it evicts.
LEMMA PutWrites ==
    ASSUME Typed, NEW id \in Id, ~Cached(pool, id)
    PROVE  \/ /\ Backed => DirtyVictims(id) = {}
              /\ FileAfterPut(id) = file /\ FlushedAfterPut(id) = flushed
              /\ DeferredAfterPut(id) = deferred
           \/ \E v \in DOMAIN pool.frames :
                /\ Victims(pool, id) = {v} /\ pool.frames[v].dirty /\ Backed
                /\ \/ /\ writing /\ FileAfterPut(id) = file /\ FlushedAfterPut(id) = flushed
                      /\ DeferredAfterPut(id) = Append(deferred, pool.frames[v].page)
                   \/ /\ ~writing /\ FileAfterPut(id) = [file EXCEPT ![v] = Out(v)]
                      /\ FlushedAfterPut(id) \in flushed..lsn
                      /\ FlushedAfterPut(id) >= Out(v).lsn
                      /\ DeferredAfterPut(id) = deferred
<1>1. /\ file \in [Id -> Image \cup {Absent}] /\ lsn \in Nat /\ flushed \in 0..lsn
      /\ deferred \in Seq(Objects) /\ writing \in BOOLEAN
      /\ Backed => \A i \in Id : i < nextId => file[i] # Absent
  BY DEF Typed, FileTyped, LogTyped, TxnTyped
<1>2. file = [i \in Id |-> file[i]]
  BY <1>1
<1>3. deferred \o <<>> = deferred
  BY <1>1
<1>4. CASE ~Backed
  BY <1>4 DEF FileAfterPut, FlushedAfterPut, DeferredAfterPut
<1>5. CASE Backed /\ DirtyVictims(id) = {}
  <2>1. FileAfterPut(id) = file
    BY <1>2, <1>5 DEF FileAfterPut
  <2>2. FlushedAfterPut(id) = flushed
    <3> DEFINE N == {flushed} \cup {Out(v).lsn : v \in DirtyVictims(id)}
    <3>1. N = {flushed}
      BY <1>5
    <3> HIDE DEF N
    <3> DEFINE Good(n) == n >= flushed /\ \A v \in DirtyVictims(id) : n >= Out(v).lsn
    <3>2. Good(flushed)
      BY <1>1, <1>5
    <3>3. CASE writing
      BY <3>3 DEF FlushedAfterPut
    <3>4. CASE ~writing
      <4>1. FlushedAfterPut(id) = CHOOSE n \in N : Good(n)
        BY <1>5, <3>4, Zenon DEF FlushedAfterPut, N
      <4> HIDE DEF Good
      <4>2. (CHOOSE n \in N : Good(n)) \in N
        BY <3>1, <3>2
      <4> QED
        BY <3>1, <4>1, <4>2
    <3> QED
      BY <3>3, <3>4
  <2>3. DeferredAfterPut(id) = deferred
    <3>1. {pool.frames[v].page : v \in DirtyVictims(id)} = {}
      BY <1>5
    <3> QED
      BY <1>3, <3>1, SeqOfNone DEF DeferredAfterPut
  <2> QED
    BY <1>5, <2>1, <2>2, <2>3
<1>6. CASE Backed /\ DirtyVictims(id) # {}
  <2>1. PICK v \in DOMAIN pool.frames : DirtyVictims(id) = {v} /\ Victims(pool, id) = {v} /\ pool.frames[v].dirty
    <3>1. Victims(pool, id) = {} \/ \E v : Victims(pool, id) = {v}
      <4>1. PoolShape(pool)
        BY DEF Typed, PoolTyped
      <4> QED
        BY <4>1, VictimShape
    <3> QED
      BY <1>6, <3>1 DEF DirtyVictims, DirtyIds
  <2>2. v \in Id /\ Out(v) \in Image /\ Out(v).lsn \in Nat /\ Out(v).lsn <= lsn
    BY FrameTyped DEF Image
  <2>3. CASE writing
    <3>1. FileAfterPut(id) = file /\ FlushedAfterPut(id) = flushed
      BY <2>3 DEF FileAfterPut, FlushedAfterPut
    <3>2. {pool.frames[u].page : u \in DirtyVictims(id)} = {pool.frames[v].page}
      BY <2>1
    <3>3. DeferredAfterPut(id) = deferred \o <<pool.frames[v].page>>
      BY <1>6, <2>3, <3>2, SeqOfOne DEF DeferredAfterPut
    <3>4. deferred \o <<pool.frames[v].page>> = Append(deferred, pool.frames[v].page)
      <4>1. pool.frames[v].page \in Objects
        BY FrameTyped
      <4> QED
        BY <1>1, <4>1
    <3> QED
      BY <1>6, <2>1, <2>3, <3>1, <3>3, <3>4
  <2>4. CASE ~writing
    <3>1. FileAfterPut(id) = [file EXCEPT ![v] = Out(v)]
      <4>1. FileAfterPut(id) = [i \in Id |-> IF i = v THEN Out(v) ELSE file[i]]
        BY <1>6, <2>1, <2>4 DEF FileAfterPut
      <4> QED
        BY <1>1, <2>2, <4>1
    <3>2. DeferredAfterPut(id) = deferred
      BY <2>4 DEF DeferredAfterPut
    <3> DEFINE N == {flushed} \cup {Out(u).lsn : u \in DirtyVictims(id)}
               Good(n) == n >= flushed /\ \A u \in DirtyVictims(id) : n >= Out(u).lsn
    <3>3. N = {flushed, Out(v).lsn}
      BY <2>1
    <3>4. \A n : Good(n) <=> n >= flushed /\ n >= Out(v).lsn
      BY <2>1
    <3>5. FlushedAfterPut(id) = CHOOSE n \in N : Good(n)
      BY <1>6, <2>4, Zenon DEF FlushedAfterPut
    <3> HIDE DEF N, Good
    <3>6. \E n \in N : Good(n)
      <4>1. Good(IF flushed >= Out(v).lsn THEN flushed ELSE Out(v).lsn)
        BY <1>1, <2>2, <3>4
      <4> QED
        BY <3>3, <4>1
    <3>7. FlushedAfterPut(id) \in N /\ Good(FlushedAfterPut(id))
      BY <3>5, <3>6
    <3>8. FlushedAfterPut(id) \in flushed..lsn /\ FlushedAfterPut(id) >= Out(v).lsn
      BY <1>1, <2>2, <3>3, <3>4, <3>7
    <3> QED
      BY <1>6, <2>1, <2>4, <3>1, <3>2, <3>8
  <2> QED
    BY <1>1, <2>3, <2>4
<1> QED
  BY <1>4, <1>5, <1>6, BackedAssumption

-----------------------------------------------------------------------------
(* The types.                                                               *)

Live ==
    {pool.frames[id].page : id \in DOMAIN pool.frames} \cup op.held \cup ToSet(deferred)

\* Objects that nobody refers to are collected; the others keep their image.
LEMMA Collected ==
    ASSUME NEW h, Collect(h), h \in [DOMAIN h -> Image], IsFiniteSet(DOMAIN h),
           DOMAIN h \subseteq Id \X Nat, Live' \subseteq DOMAIN h,
           \A x \in DOMAIN h : IdOf(x) < nextId' /\ h[x].lsn <= lsn'
    PROVE  HeapTyped' /\ Objects' = Live' /\ \A x \in Live' : heap'[x] = h[x]
<1>1. heap' = [x \in Live' |-> h[x]]
  BY DEF Collect, Restrict, Live
<1>2. Objects' = Live' /\ \A x \in Live' : heap'[x] = h[x]
  BY <1>1 DEF Objects
<1>3. IsFiniteSet(Live')
  BY FS_Subset
<1>4. heap' \in [Live' -> Image]
  BY <1>1
<1>5. HeapTyped'
  BY <1>2, <1>3, <1>4 DEF HeapTyped
<1> QED
  BY <1>2, <1>5

\* A sequence is one over any set that has its elements.
LEMMA SeqOver ==
    ASSUME NEW S, NEW T, NEW s \in Seq(S), ToSet(s) \subseteq T
    PROVE  s \in Seq(T)
<1>1. /\ Len(s) \in Nat /\ s \in [1..Len(s) -> S] /\ DOMAIN s = 1..Len(s)
      /\ s = [i \in 1..Len(s) |-> s[i]]
  OBVIOUS
<1>2. \A i \in 1..Len(s) : s[i] \in T
  BY <1>1 DEF ToSet
<1>3. s \in [1..Len(s) -> T]
  BY <1>1, <1>2
<1> QED
  BY <1>1, <1>3

\* The elements of a sequence.
LEMMA ToSetOf ==
    ASSUME NEW S, NEW s \in Seq(S)
    PROVE  ToSet(s) \subseteq S /\ \A i \in 1..Len(s) : s[i] \in ToSet(s)
BY DEF ToSet

\* The page id gets a frame for the object o; h holds the objects as the
\* operation leaves them.
Puts(o, id, dirty, h) ==
    /\ ~Cached(pool, id) /\ IdOf(o) = id /\ Enters(o, id, dirty)
    /\ h \in [Objects \cup {o} -> Image] /\ Collect(h)
    /\ \A x \in Objects \cup {o} : h[x].lsn <= lsn'
    /\ lsn' \in Nat /\ lsn <= lsn' /\ (~Backed => lsn' = 0)
    /\ \/ /\ id < nextId /\ nextId' = nextId /\ file' = FileAfterPut(id)
       \/ /\ id = nextId /\ nextId' = nextId + 1
          /\ file' = IF Backed THEN [FileAfterPut(id) EXCEPT ![id] = BlankPage] ELSE file
    /\ flushed' = FlushedAfterPut(id) /\ deferred' = DeferredAfterPut(id) /\ writing' = writing
    /\ op' \in [held : SUBSET (Objects \cup {o}), marked : SUBSET (Objects \cup {o}), ids : SUBSET Id]
    /\ op'.marked \subseteq op'.held /\ \A x \in op'.held : IdOf(x) \in op'.ids

\* An operation that puts a page keeps the types.
LEMMA PutsTyped ==
    ASSUME Typed, HistoryTyped', NEW id \in Id, NEW o \in Id \X Nat, NEW dirty \in BOOLEAN,
           NEW h, Puts(o, id, dirty, h)
    PROVE  Typed'
<1>0. /\ ~Cached(pool, id) /\ IdOf(o) = id /\ Enters(o, id, dirty)
      /\ h \in [Objects \cup {o} -> Image] /\ Collect(h)
      /\ \A x \in Objects \cup {o} : h[x].lsn <= lsn'
      /\ lsn' \in Nat /\ lsn <= lsn' /\ (~Backed => lsn' = 0)
      /\ \/ /\ id < nextId /\ nextId' = nextId /\ file' = FileAfterPut(id)
         \/ /\ id = nextId /\ nextId' = nextId + 1
            /\ file' = IF Backed THEN [FileAfterPut(id) EXCEPT ![id] = BlankPage] ELSE file
      /\ flushed' = FlushedAfterPut(id) /\ deferred' = DeferredAfterPut(id) /\ writing' = writing
      /\ op' \in [held : SUBSET (Objects \cup {o}), marked : SUBSET (Objects \cup {o}), ids : SUBSET Id]
      /\ op'.marked \subseteq op'.held /\ \A x \in op'.held : IdOf(x) \in op'.ids
  BY DEF Puts
<1>a. ~Cached(pool, id)
  BY <1>0
<1>1. /\ PoolShape(pool) /\ (\A u \in DOMAIN pool.frames : pool.frames[u].page \in Objects)
      /\ heap \in [Objects -> Image] /\ IsFiniteSet(Objects) /\ Objects \subseteq Id \X Nat
      /\ (\A x \in Objects : IdOf(x) < nextId /\ heap[x].lsn <= lsn)
      /\ file \in [Id -> Image \cup {Absent}]
      /\ (\A u \in Id : file[u] # Absent => file[u].lsn <= flushed)
      /\ (Backed => \A u \in Id : u < nextId => file[u] # Absent)
      /\ nextId \in 0..MaxPages /\ lsn \in Nat /\ flushed \in 0..lsn
      /\ writing \in BOOLEAN /\ deferred \in Seq(Objects)
      /\ (~writing \/ ~Backed => deferred = <<>>)
  BY DEF Typed, PoolTyped, HeapTyped, FileTyped, LogTyped, TxnTyped
<1>2. /\ id < nextId' /\ nextId' \in Nat /\ nextId <= nextId' /\ nextId' \in 0..MaxPages
  <2>1. MaxPages \in Nat
    BY BoundAssumption
  <2>2. id \in Nat /\ id < MaxPages
    BY <2>1 DEF Id
  <2> QED
    BY <1>0, <1>1, <2>1, <2>2
<1>3. /\ PoolShape(pool')
      /\ DOMAIN pool'.frames = (DOMAIN pool.frames \ Victims(pool, id)) \cup {id}
      /\ pool'.frames[id].page = o
      /\ \A u \in DOMAIN pool.frames \ Victims(pool, id) : pool'.frames[u] = pool.frames[u]
  BY <1>0 DEF Enters
<1>4. \A u \in DOMAIN pool'.frames : pool'.frames[u].page \in Objects \cup {o}
  BY <1>1, <1>3
<1>5. \A v \in DOMAIN pool.frames : v \in Id /\ Out(v) \in Image /\ v < nextId
                                    /\ pool.frames[v].page \in Objects
  BY FrameTyped
<1>6. /\ deferred' \in Seq(Objects) /\ (~writing' \/ ~Backed => deferred' = <<>>)
      /\ ToSet(deferred') \subseteq Objects
  <2>1. CASE deferred' = deferred
    BY <1>0, <1>1, <2>1, ToSetOf
  <2>2. ASSUME NEW v \in DOMAIN pool.frames, Backed, writing,
               deferred' = Append(deferred, pool.frames[v].page)
        PROVE  <1>6
    <3>1. deferred' \in Seq(Objects)
      BY <1>1, <1>5, <2>2
    <3> QED
      BY <1>0, <2>2, <3>1, ToSetOf
  <2> QED
    BY <1>0, <2>1, <2>2, PutWrites
<1>7. Live' \subseteq Objects \cup {o}
  BY <1>0, <1>4, <1>6 DEF Live
<1>8. /\ DOMAIN h = Objects \cup {o} /\ IsFiniteSet(DOMAIN h) /\ DOMAIN h \subseteq Id \X Nat
      /\ \A x \in DOMAIN h : IdOf(x) < nextId' /\ h[x].lsn <= lsn'
  <2>1. DOMAIN h = Objects \cup {o}
    BY <1>0
  <2>2. IsFiniteSet(Objects \cup {o})
    BY <1>1, FS_AddElement
  <2>3. \A x \in Objects : IdOf(x) \in Nat
    BY <1>1 DEF IdOf, Id
  <2>4. \A x \in Objects \cup {o} : IdOf(x) < nextId'
    BY <1>0, <1>1, <1>2, <2>3
  <2> QED
    BY <1>0, <1>1, <2>1, <2>2, <2>4
<1>9. HeapTyped' /\ Objects' = Live' /\ \A x \in Live' : heap'[x] = h[x]
  BY <1>0, <1>7, <1>8, Collected
<1>10. PoolTyped'
  <2>1. \A u \in DOMAIN pool'.frames : pool'.frames[u].page \in Live'
    BY DEF Live
  <2> QED
    BY <1>3, <1>9, <2>1 DEF PoolTyped
<1>11. TxnTyped'
  <2>1. ToSet(deferred') \subseteq Objects'
    BY <1>9 DEF Live
  <2>2. deferred' \in Seq(Objects')
    BY <1>6, <2>1, SeqOver
  <2> QED
    BY <1>0, <1>1, <1>6, <2>2 DEF TxnTyped
<1>12. OpTyped'
  <2>1. op'.held \subseteq Objects'
    BY <1>9 DEF Live
  <2> QED
    BY <1>0, <2>1 DEF OpTyped
<1>13. flushed' \in 0..lsn' /\ flushed <= flushed' /\ LogTyped'
  <2>1. flushed' \in flushed..lsn
    BY <1>0, <1>1, PutWrites
  <2>2. flushed' \in 0..lsn' /\ flushed <= flushed'
    BY <1>0, <1>1, <2>1
  <2> QED
    BY <1>0, <1>2, <2>2 DEF LogTyped
<1>14. FileTyped'
  <2> DEFINE F == FileAfterPut(id)
  <2>1. /\ F \in [Id -> Image \cup {Absent}]
        /\ \A u \in Id : F[u] # Absent => F[u].lsn <= flushed'
        /\ Backed => \A u \in Id : u < nextId => F[u] # Absent
    <3>1. CASE F = file
      <4>1. \A u \in Id : file[u] # Absent => file[u] \in Image /\ file[u].lsn \in Nat
        BY <1>1 DEF Image
      <4>2. \A u \in Id : file[u] # Absent => file[u].lsn <= flushed'
        BY <1>1, <1>13, <4>1
      <4> QED
        BY <1>1, <3>1, <4>2
    <3>2. ASSUME NEW v \in DOMAIN pool.frames, F = [file EXCEPT ![v] = Out(v)],
                 FlushedAfterPut(id) >= Out(v).lsn
          PROVE  <2>1
      <4>1. Out(v) # Absent /\ Out(v).lsn \in Nat
        BY <1>5, AbsentAssumption DEF Image, Content
      <4>2. \A u \in Id : F[u] = IF u = v THEN Out(v) ELSE file[u]
        BY <1>1, <1>5, <3>2
      <4>3. \A u \in Id : file[u] # Absent => file[u] \in Image /\ file[u].lsn \in Nat
        BY <1>1 DEF Image
      <4>4. Out(v).lsn <= flushed'
        BY <1>0, <1>1, <1>13, <3>2, <4>1
      <4>5. F \in [Id -> Image \cup {Absent}]
        BY <1>1, <1>5, <3>2
      <4>6. \A u \in Id : file[u] # Absent => file[u].lsn <= flushed'
        BY <1>1, <1>13, <4>3
      <4> HIDE DEF F
      <4> QED
        BY <1>1, <4>1, <4>2, <4>4, <4>5, <4>6
    <3>3. \/ F = file
          \/ \E v \in DOMAIN pool.frames :
               F = [file EXCEPT ![v] = Out(v)] /\ FlushedAfterPut(id) >= Out(v).lsn
      BY <1>a, PutWrites
    <3> HIDE DEF F
    <3> QED
      BY <3>1, <3>2, <3>3
  <2> HIDE DEF F
  <2>2. BlankPage \in Image /\ BlankPage.lsn = 0 /\ BlankPage # Absent
    <3>1. BlankPage \in Image /\ BlankPage.lsn = 0
      BY DEF BlankPage, Image, Content
    <3> QED
      BY <3>1, AbsentAssumption DEF Image, Content
  <2>3. CASE file' = F /\ nextId' = nextId
    BY <2>1, <2>3 DEF FileTyped
  <2>4. CASE Backed /\ id = nextId /\ nextId' = nextId + 1 /\ file' = [F EXCEPT ![id] = BlankPage]
    <3>1. \A u \in Id : file'[u] = IF u = id THEN BlankPage ELSE F[u]
      BY <2>1, <2>4
    <3>2. file' \in [Id -> Image \cup {Absent}]
      BY <2>1, <2>2, <2>4
    <3>3. \A u \in Id : file'[u] # Absent => file'[u].lsn <= flushed'
      BY <1>1, <1>13, <2>1, <2>2, <3>1
    <3>4. \A u \in Id : u < nextId' => file'[u] # Absent
      <4>1. \A u \in Id : u < nextId + 1 => u = nextId \/ u < nextId
        BY <1>1 DEF Id
      <4> QED
        BY <2>1, <2>2, <2>4, <3>1, <4>1
    <3> QED
      BY <3>2, <3>3, <3>4 DEF FileTyped
  <2>5. CASE ~Backed /\ file' = file
    <3>1. F = file
      BY <1>0, <2>5, PutWrites DEF F
    <3> QED
      BY <2>1, <2>5, <3>1 DEF FileTyped
  <2> QED
    BY <1>0, <2>3, <2>4, <2>5, BackedAssumption DEF F
<1> QED
  BY <1>9, <1>10, <1>11, <1>12, <1>13, <1>14 DEF Typed

\* The image of a page that is logged.
LEMMA ImageOf ==
    ASSUME NEW page \in Image, NEW content \in Content, LogTyped
    PROVE  /\ Logged(page, content) \in Image /\ Logged(page, content).content = content
           /\ lsn' = (IF Backed THEN lsn + 1 ELSE 0) => Logged(page, content).lsn <= lsn'
<1>1. lsn \in Nat
  BY DEF LogTyped
<1>2. PICK n \in Nat : n = IF Backed THEN lsn + 1 ELSE 0
  BY <1>1
<1>3. Logged(page, content) = [content |-> content, lsn |-> n]
  <2> DEFINE W == [content : Content, lsn : Nat]
             first == [page EXCEPT !.content = content]
             both == [first EXCEPT !.lsn = n]
  <2>1. \A r \in W : r = [content |-> r.content, lsn |-> r.lsn]
    OBVIOUS
  <2>2. first \in W /\ first.content = content
    BY DEF Image
  <2> HIDE DEF first
  <2>3. both \in W /\ both.content = content /\ both.lsn = n
    BY <2>2
  <2> HIDE DEF W, both
  <2>4. both = [content |-> content, lsn |-> n]
    BY <2>1, <2>3
  <2>5. both = [page EXCEPT !.content = content, !.lsn = n]
    BY DEF both, first
  <2> QED
    BY <1>2, <2>4, <2>5 DEF Logged
<1> QED
  BY <1>2, <1>3 DEF Image

\* Logging makes the log longer.
LEMMA LogsGrow ==
    ASSUME LogTyped, Logs
    PROVE  lsn' \in Nat /\ lsn <= lsn' /\ (~Backed => lsn' = 0) /\ lsn' = IF Backed THEN lsn + 1 ELSE 0
BY DEF LogTyped, Logs

\* A blank page is an image.
LEMMA BlankImage == BlankPage \in Image /\ BlankPage.content = Blank /\ BlankPage.lsn = 0
BY DEF BlankPage, Image, Content

\* A read that misses puts the page that the file has.
LEMMA MissPuts ==
    ASSUME Typed, NEW id \in Id, Miss(id)
    PROVE  /\ Fresh(id) \in Id \X Nat /\ Fresh(id) \notin Objects
           /\ Puts(Fresh(id), id, FALSE, With(Fresh(id), file[id]))
<1>1. PICK o : o = Fresh(id)
  OBVIOUS
<1>2. o \in Id \X Nat /\ IdOf(o) = id /\ o \notin Objects
  BY <1>1, FreshShape DEF Typed
<1>3. /\ heap \in [Objects -> Image] /\ lsn \in Nat /\ flushed \in 0..lsn
      /\ (\A x \in Objects : heap[x].lsn <= lsn) /\ (~Backed => lsn = 0)
      /\ file[id] \in Image /\ file[id].lsn <= flushed
      /\ op \in [held : SUBSET Objects, marked : SUBSET Objects, ids : SUBSET Id]
      /\ op.marked \subseteq op.held /\ \A x \in op.held : IdOf(x) \in op.ids
  BY DEF Miss, Typed, HeapTyped, LogTyped, FileTyped, OpTyped
<1> DEFINE h == With(o, file[id])
<1>4. h \in [Objects \cup {o} -> Image] /\ \A x \in Objects \cup {o} : h[x].lsn <= lsn
  <2>1. h = [x \in Objects \cup {o} |-> IF x = o THEN file[id] ELSE heap[x]]
    BY DEF With
  <2>2. file[id].lsn \in Nat /\ file[id].lsn <= lsn
    BY <1>3 DEF Image
  <2> QED
    BY <1>3, <2>1, <2>2
<1>5. op' = [held |-> op.held \cup {o}, marked |-> op.marked, ids |-> op.ids \cup {id}]
  BY <1>1, <1>3 DEF Miss, Holding
<1>6. /\ op' \in [held : SUBSET (Objects \cup {o}), marked : SUBSET (Objects \cup {o}), ids : SUBSET Id]
      /\ op'.marked \subseteq op'.held /\ \A x \in op'.held : IdOf(x) \in op'.ids
  <2>1. op.held \subseteq Objects /\ op.marked \subseteq Objects /\ op.ids \subseteq Id
    BY <1>3
  <2> QED
    BY <1>2, <1>3, <1>5, <2>1
<1>7. Enters(o, id, FALSE)
  <2>1. PoolShape(pool) /\ ~Cached(pool, id) /\ pool' = Stored(pool, id, o, FALSE)
    BY <1>1 DEF Miss, Put, Typed, PoolTyped
  <2>2. PICK clean \in BOOLEAN : clean = FALSE
    OBVIOUS
  <2>3. Enters(o, id, clean)
    BY <1>2, <2>1, <2>2, PutEnters
  <2> QED
    BY <2>2, <2>3
<1>8. /\ ~Cached(pool, id) /\ id < nextId /\ nextId' = nextId /\ lsn' = lsn /\ writing' = writing
      /\ file' = FileAfterPut(id) /\ flushed' = FlushedAfterPut(id) /\ deferred' = DeferredAfterPut(id)
      /\ Collect(h)
  BY <1>1 DEF Miss, Put
<1> HIDE DEF h
<1>9. /\ lsn' \in Nat /\ lsn <= lsn' /\ (~Backed => lsn' = 0)
      /\ \A x \in Objects \cup {o} : h[x].lsn <= lsn'
  BY <1>3, <1>4, <1>8
<1>10. Puts(o, id, FALSE, h)
  BY <1>2, <1>4, <1>6, <1>7, <1>8, <1>9 DEF Puts
<1> QED
  BY <1>1, <1>2, <1>10 DEF h

\* A write to a page that was evicted puts it again.
LEMMA WritePuts ==
    ASSUME Typed, NEW o \in Objects, NEW content \in Val, Write(o, content),
           ~Cached(pool, IdOf(o))
    PROVE  Puts(o, IdOf(o), TRUE, With(o, Logged(heap[o], content)))
<1> DEFINE id == IdOf(o)
           h == With(o, Logged(heap[o], content))
<1>1. /\ heap \in [Objects -> Image] /\ LogTyped /\ lsn \in Nat /\ o \in Id \X Nat
      /\ (\A x \in Objects : IdOf(x) < nextId /\ heap[x].lsn <= lsn)
      /\ op \in [held : SUBSET Objects, marked : SUBSET Objects, ids : SUBSET Id]
      /\ op.marked \subseteq op.held /\ (\A x \in op.held : IdOf(x) \in op.ids)
      /\ Objects \cup {o} = Objects /\ content \in Content
  BY DEF Typed, HeapTyped, LogTyped, OpTyped, Content
<1>2. lsn' \in Nat /\ lsn <= lsn' /\ (~Backed => lsn' = 0) /\ lsn' = IF Backed THEN lsn + 1 ELSE 0
  BY <1>1, LogsGrow DEF Write
<1>3. id \in Id /\ id < nextId
  BY <1>1 DEF IdOf
<1>4. h \in [Objects -> Image] /\ \A x \in Objects : h[x].lsn <= lsn'
  <2>1. h = [x \in Objects |-> IF x = o THEN Logged(heap[o], content) ELSE heap[x]]
    BY <1>1 DEF With
  <2>2. Logged(heap[o], content) \in Image /\ Logged(heap[o], content).lsn <= lsn'
    BY <1>1, <1>2, ImageOf
  <2>3. \A x \in Objects : heap[x].lsn \in Nat
    BY <1>1 DEF Image
  <2> HIDE DEF h
  <2> QED
    BY <1>1, <1>2, <2>1, <2>2, <2>3
<1>5. op' = [held |-> op.held, marked |-> op.marked \cup {o}, ids |-> op.ids] /\ o \in op.held
  BY <1>1 DEF Write
<1>6. /\ op' \in [held : SUBSET Objects, marked : SUBSET Objects, ids : SUBSET Id]
      /\ op'.marked \subseteq op'.held /\ \A x \in op'.held : IdOf(x) \in op'.ids
  <2>1. op.held \subseteq Objects /\ op.marked \subseteq Objects /\ op.ids \subseteq Id
    BY <1>1
  <2> QED
    BY <1>1, <1>5, <2>1
<1>7. Put(o, id, TRUE)
  BY DEF Write, MarkDirty
<1>8. Enters(o, id, TRUE)
  <2>1. PoolShape(pool) /\ pool' = Stored(pool, id, o, TRUE)
    BY <1>7 DEF Put, Typed, PoolTyped
  <2>2. PICK d \in BOOLEAN : d = TRUE
    OBVIOUS
  <2>3. Enters(o, id, d)
    BY <1>1, <1>3, <2>1, <2>2, PutEnters
  <2> QED
    BY <2>2, <2>3
<1>9. /\ nextId' = nextId /\ writing' = writing /\ Collect(h)
      /\ file' = FileAfterPut(id) /\ flushed' = FlushedAfterPut(id) /\ deferred' = DeferredAfterPut(id)
  BY <1>7 DEF Write, Put
<1> HIDE DEF h
<1> QED
  BY <1>1, <1>2, <1>3, <1>4, <1>6, <1>8, <1>9 DEF Puts, h

\* The new page of an allocation or a split.
LEMMA NewPuts ==
    ASSUME Typed, NEW content, New(content), NEW h \in [Objects \cup {Fresh(nextId)} -> Image],
           \A x \in Objects \cup {Fresh(nextId)} : h[x].lsn <= lsn',
           Collect(h), writing' = writing
    PROVE  /\ nextId \in Id /\ Fresh(nextId) \in Id \X Nat /\ Fresh(nextId) \notin Objects
           /\ Puts(Fresh(nextId), nextId, TRUE, h)
<1>1. PICK o : o = Fresh(nextId)
  OBVIOUS
<1>2. nextId \in Id
  <2>1. MaxPages \in Nat /\ nextId \in Nat /\ nextId < MaxPages
    BY BoundAssumption DEF Typed, LogTyped, New
  <2> QED
    BY <2>1 DEF Id
<1>3. o \in Id \X Nat /\ IdOf(o) = nextId /\ o \notin Objects
  BY <1>1, <1>2, FreshShape DEF Typed
<1>4. /\ lsn' \in Nat /\ lsn <= lsn' /\ (~Backed => lsn' = 0)
      /\ nextId' = nextId + 1 /\ PoolShape(pool)
      /\ op \in [held : SUBSET Objects, marked : SUBSET Objects, ids : SUBSET Id]
      /\ op.marked \subseteq op.held /\ (\A x \in op.held : IdOf(x) \in op.ids)
  BY LogsGrow DEF New, Typed, PoolTyped, OpTyped
<1>5. ~Cached(pool, nextId)
  <2>1. nextId \in Nat
    BY DEF Typed, LogTyped
  <2> QED
    BY <2>1, FrameTyped DEF Cached
<1>6. Enters(o, nextId, TRUE)
  <2>1. pool' = MarkedDirty(Stored(pool, nextId, o, FALSE), nextId)
    BY <1>1 DEF New
  <2>2. PICK d \in BOOLEAN : d = TRUE
    OBVIOUS
  <2>3. Enters(o, nextId, d)
    BY <1>2, <1>3, <1>4, <1>5, <2>1, <2>2, PutEnters
  <2> QED
    BY <2>2, <2>3
<1>7. op' = [held |-> op.held \cup {o}, marked |-> op.marked \cup {o}, ids |-> op.ids \cup {nextId}]
  BY <1>1, <1>4 DEF New, Holding
<1>8. /\ op' \in [held : SUBSET (Objects \cup {o}), marked : SUBSET (Objects \cup {o}), ids : SUBSET Id]
      /\ op'.marked \subseteq op'.held /\ \A x \in op'.held : IdOf(x) \in op'.ids
  <2>1. op.held \subseteq Objects /\ op.marked \subseteq Objects /\ op.ids \subseteq Id
    BY <1>4
  <2> QED
    BY <1>2, <1>3, <1>4, <1>7, <2>1
<1>9. /\ file' = (IF Backed THEN [FileAfterPut(nextId) EXCEPT ![nextId] = BlankPage] ELSE file)
      /\ flushed' = FlushedAfterPut(nextId) /\ deferred' = DeferredAfterPut(nextId)
  BY DEF New
<1>10. Puts(o, nextId, TRUE, h)
  BY <1>1, <1>3, <1>4, <1>5, <1>6, <1>8, <1>9 DEF Puts
<1> QED
  BY <1>1, <1>2, <1>3, <1>10

\* A new page is put.
LEMMA AllocatePuts ==
    ASSUME Typed, NEW content \in Val, Allocate(content)
    PROVE  /\ nextId \in Id /\ Fresh(nextId) \in Id \X Nat /\ Fresh(nextId) \notin Objects
           /\ Puts(Fresh(nextId), nextId, TRUE, With(Fresh(nextId), Logged(BlankPage, content)))
<1>1. PICK o : o = Fresh(nextId)
  OBVIOUS
<1> DEFINE h == With(o, Logged(BlankPage, content))
<1>2. New(content) /\ writing' = writing /\ Collect(h)
  BY <1>1 DEF Allocate
<1>3. /\ heap \in [Objects -> Image] /\ LogTyped /\ lsn \in Nat /\ content \in Content
      /\ \A x \in Objects : heap[x].lsn <= lsn /\ heap[x].lsn \in Nat
  BY DEF Typed, HeapTyped, LogTyped, Content, Image
<1>4. lsn' \in Nat /\ lsn <= lsn' /\ lsn' = IF Backed THEN lsn + 1 ELSE 0
  BY <1>2, <1>3, LogsGrow DEF New
<1>5. h = [x \in Objects \cup {o} |-> IF x = o THEN Logged(BlankPage, content) ELSE heap[x]]
  BY DEF With
<1>6. Logged(BlankPage, content) \in Image /\ Logged(BlankPage, content).lsn <= lsn'
  BY <1>3, <1>4, BlankImage, ImageOf
<1> HIDE DEF h
<1>7. h \in [Objects \cup {o} -> Image] /\ \A x \in Objects \cup {o} : h[x].lsn <= lsn'
  BY <1>3, <1>4, <1>5, <1>6
<1> QED
  BY <1>1, <1>2, <1>7, NewPuts DEF h

\* The right half of a split is put.
LEMMA SplitPuts ==
    ASSUME Typed, NEW o \in Objects, NEW left \in Val, NEW right \in Val, Split(o, left, right)
    PROVE  /\ nextId \in Id /\ Fresh(nextId) \in Id \X Nat /\ Fresh(nextId) \notin Objects
           /\ Puts(Fresh(nextId), nextId, TRUE,
                   [With(Fresh(nextId), Logged(BlankPage, right)) EXCEPT ![o].content = left])
<1>1. PICK n : n = Fresh(nextId)
  OBVIOUS
<1> DEFINE g == With(n, Logged(BlankPage, right))
           h == [g EXCEPT ![o].content = left]
<1>2. New(right) /\ writing' = writing /\ Collect(h)
  BY <1>1 DEF Split
<1>3. /\ heap \in [Objects -> Image] /\ LogTyped /\ lsn \in Nat
      /\ left \in Content /\ right \in Content
      /\ \A x \in Objects : heap[x].lsn <= lsn /\ heap[x].lsn \in Nat
  BY DEF Typed, HeapTyped, LogTyped, Content, Image
<1>4. lsn' \in Nat /\ lsn <= lsn' /\ lsn' = IF Backed THEN lsn + 1 ELSE 0
  BY <1>2, <1>3, LogsGrow DEF New
<1>5. g = [x \in Objects \cup {n} |-> IF x = n THEN Logged(BlankPage, right) ELSE heap[x]]
  BY DEF With
<1>6. Logged(BlankPage, right) \in Image /\ Logged(BlankPage, right).lsn <= lsn'
  BY <1>3, <1>4, BlankImage, ImageOf
<1> HIDE DEF g
<1>7. g \in [Objects \cup {n} -> Image] /\ \A x \in Objects \cup {n} : g[x].lsn <= lsn'
  BY <1>3, <1>4, <1>5, <1>6
<1>8. h \in [Objects \cup {n} -> Image] /\ \A x \in Objects \cup {n} : h[x].lsn = g[x].lsn
  <2>1. [g[o] EXCEPT !.content = left] \in Image /\ [g[o] EXCEPT !.content = left].lsn = g[o].lsn
    BY <1>3, <1>7 DEF Image
  <2> QED
    BY <1>7, <2>1
<1> HIDE DEF h
<1>9. \A x \in Objects \cup {n} : h[x].lsn <= lsn'
  BY <1>7, <1>8
<1> QED
  BY <1>1, <1>2, <1>8, <1>9, NewPuts DEF h, g

\* Every other step leaves the pages of the frames where they were.
LEMMA KeepsTyped ==
    ASSUME Typed, HistoryTyped', FileTyped', LogTyped', nextId' = nextId, lsn <= lsn',
           writing' \in BOOLEAN, deferred' \in Seq(Objects),
           ~writing' \/ ~Backed => deferred' = <<>>,
           PoolShape(pool'), \A u \in DOMAIN pool'.frames : pool'.frames[u].page \in Objects,
           op' \in [held : SUBSET Objects, marked : SUBSET Objects, ids : SUBSET Id],
           op'.marked \subseteq op'.held, \A x \in op'.held : IdOf(x) \in op'.ids,
           \/ heap' = heap
           \/ \E h \in [Objects -> Image] : Collect(h) /\ \A x \in Objects : h[x].lsn <= lsn'
    PROVE  Typed'
<1>1. /\ heap \in [Objects -> Image] /\ IsFiniteSet(Objects) /\ Objects \subseteq Id \X Nat
      /\ (\A x \in Objects : IdOf(x) < nextId /\ heap[x].lsn <= lsn /\ heap[x].lsn \in Nat)
      /\ lsn \in Nat /\ lsn' \in Nat
  BY DEF Typed, HeapTyped, LogTyped, Image
<1>2. CASE heap' = heap
  <2>1. Objects' = Objects
    BY <1>2 DEF Objects
  <2>2. HeapTyped'
    BY <1>1, <1>2, <2>1 DEF HeapTyped
  <2>3. PoolTyped' /\ TxnTyped' /\ OpTyped'
    BY <2>1 DEF PoolTyped, TxnTyped, OpTyped
  <2> QED
    BY <2>2, <2>3 DEF Typed
<1>3. ASSUME NEW h \in [Objects -> Image], Collect(h), \A x \in Objects : h[x].lsn <= lsn'
      PROVE  Typed'
  <2>1. Live' \subseteq Objects
    <3>1. ToSet(deferred') \subseteq Objects
      BY ToSetOf
    <3> QED
      BY <3>1 DEF Live
  <2>2. DOMAIN h = Objects /\ \A x \in Objects : IdOf(x) < nextId'
    BY <1>1
  <2>3. HeapTyped' /\ Objects' = Live'
    BY <1>1, <1>3, <2>1, <2>2, Collected
  <2>4. PoolTyped'
    <3>1. \A u \in DOMAIN pool'.frames : pool'.frames[u].page \in Live'
      BY DEF Live
    <3> QED
      BY <2>3, <3>1 DEF PoolTyped
  <2>5. TxnTyped'
    <3>1. ToSet(deferred') \subseteq Objects'
      BY <2>3 DEF Live
    <3>2. deferred' \in Seq(Objects')
      BY <3>1, SeqOver
    <3> QED
      BY <3>2 DEF TxnTyped
  <2>6. OpTyped'
    <3>1. op'.held \subseteq Objects'
      BY <2>3 DEF Live
    <3> QED
      BY <3>1 DEF OpTyped
  <2> QED
    BY <2>3, <2>4, <2>5, <2>6 DEF Typed
<1> QED
  BY <1>2, <1>3

\* The last of the pages put aside for a page id.
LastDeferred(id) == SelectLastInSeq(deferred, LAMBDA o : IdOf(o) = id)

\* The last object that a commit put aside for a page.
LEMMA LastShape ==
    ASSUME TxnTyped, NEW id
    PROVE  \/ LastDeferred(id) = 0 /\ \A n \in 1..Len(deferred) : IdOf(deferred[n]) # id
           \/ /\ LastDeferred(id) \in 1..Len(deferred) /\ LastDeferred(id) # 0
              /\ LastFor(LastDeferred(id), id)
<1> DEFINE I == {n \in 1..Len(deferred) : IdOf(deferred[n]) = id}
<1>1. Len(deferred) \in Nat
  BY DEF TxnTyped
<1>2. LastDeferred(id) = IF I # {} THEN Max(I) ELSE 0
  BY DEF LastDeferred, SelectLastInSeq
<1>3. CASE I = {}
  BY <1>2, <1>3
<1>4. CASE I # {}
  <2>1. I \in SUBSET Nat /\ \A n \in I : n <= Len(deferred)
    BY <1>1
  <2> HIDE DEF I
  <2>2. \E n \in I : \A m \in I : m <= n
    BY <1>1, <1>4, <2>1, GreatestNatural
  <2>3. \E n \in I : \A m \in I : n >= m
    BY <2>1, <2>2
  <2>4. Max(I) \in I /\ \A m \in I : Max(I) >= m
    BY <2>3 DEF Max
  <2>5. PICK n : n = Max(I)
    OBVIOUS
  <2>6. n \in 1..Len(deferred) /\ IdOf(deferred[n]) = id /\ LastDeferred(id) = n
    BY <1>2, <1>4, <2>4, <2>5 DEF I
  <2>7. \A m \in (n + 1)..Len(deferred) : IdOf(deferred[m]) # id
    <3> SUFFICES ASSUME NEW m \in (n + 1)..Len(deferred), IdOf(deferred[m]) = id
                 PROVE  FALSE
      OBVIOUS
    <3>1. m \in 1..Len(deferred) /\ ~(n >= m)
      BY <1>1, <2>6
    <3>2. m \in I
      BY <3>1 DEF I
    <3> QED
      BY <2>4, <2>5, <3>1, <3>2
  <2>8. LastFor(n, id)
    BY <2>6, <2>7 DEF LastFor
  <2>9. n # 0
    BY <1>1, <2>6
  <2> QED
    BY <2>6, <2>8, <2>9
<1> QED
  BY <1>3, <1>4

\* What the end of a commit writes.
LEMMA EndWrites ==
    ASSUME Typed, NEW committed \in BOOLEAN, EndTxnWrite(committed)
    PROVE  /\ flushed' \in flushed..lsn
           /\ \A o \in ToSet(deferred) : heap[o].lsn <= flushed'
           /\ file' = [id \in Id |-> IF LastDeferred(id) = 0 THEN file[id]
                                     ELSE heap[deferred[LastDeferred(id)]]]
           /\ \A id \in Id : LastDeferred(id) # 0 =>
                deferred[LastDeferred(id)] \in ToSet(deferred) /\ deferred[LastDeferred(id)] \in Objects
<1> DEFINE synced == IF committed THEN lsn ELSE flushed
           lsns == {synced} \cup {heap[o].lsn : o \in ToSet(deferred)}
<1>1. /\ lsn \in Nat /\ flushed \in 0..lsn /\ deferred \in Seq(Objects)
      /\ (~Backed => deferred = <<>>) /\ TxnTyped
      /\ \A o \in Objects : heap[o].lsn \in Nat /\ heap[o].lsn <= lsn
  BY DEF Typed, LogTyped, HeapTyped, TxnTyped, Image
<1>2. ToSet(deferred) \subseteq Objects /\ \A n \in 1..Len(deferred) : deferred[n] \in ToSet(deferred)
  BY <1>1, ToSetOf
<1>3. synced \in flushed..lsn /\ synced \in lsns
  BY <1>1
<1>4. lsns \in SUBSET Nat /\ \A n \in lsns : n <= lsn
  BY <1>1, <1>2, <1>3
<1>5. flushed' = IF Backed THEN CHOOSE n \in lsns : \A other \in lsns : n >= other ELSE flushed
  BY DEF EndTxnWrite
<1>6. flushed' \in flushed..lsn /\ \A o \in ToSet(deferred) : heap[o].lsn <= flushed'
  <2>1. CASE Backed
    <3>1. \A o \in ToSet(deferred) : heap[o].lsn \in lsns
      OBVIOUS
    <3> HIDE DEF lsns
    <3>2. \E n \in lsns : \A other \in lsns : other <= n
      BY <1>1, <1>3, <1>4, GreatestNatural
    <3>3. \E n \in lsns : \A other \in lsns : n >= other
      BY <1>4, <3>2
    <3>4. flushed' \in lsns /\ \A other \in lsns : flushed' >= other
      BY <1>5, <2>1, <3>3
    <3>5. flushed' \in Nat /\ flushed' <= lsn /\ flushed' >= synced
      BY <1>3, <1>4, <3>4
    <3>6. \A o \in ToSet(deferred) : heap[o].lsn <= flushed'
      BY <1>1, <1>2, <3>1, <3>4, <3>5
    <3> HIDE DEF synced
    <3> QED
      BY <1>1, <1>3, <3>5, <3>6
  <2>2. CASE ~Backed
    <3>1. ToSet(deferred) = {}
      BY <1>1, <2>2 DEF ToSet
    <3> QED
      BY <1>1, <1>5, <2>2, <3>1
  <2> QED
    BY <2>1, <2>2, BackedAssumption
<1>7. file' = [id \in Id |-> IF LastDeferred(id) = 0 THEN file[id]
                             ELSE heap[deferred[LastDeferred(id)]]]
  BY DEF EndTxnWrite, LastDeferred
<1>8. \A id \in Id : LastDeferred(id) # 0 => deferred[LastDeferred(id)] \in ToSet(deferred)
  BY <1>1, <1>2, LastShape
<1> QED
  BY <1>2, <1>6, <1>7, <1>8

\* Every step keeps the types of the history.
LEMMA StepHistory == Typed /\ Next => HistoryTyped'
<1> SUFFICES ASSUME Typed, Next
             PROVE  HistoryTyped'
  OBVIOUS
<1>1. current \in [Id -> Content] /\ torn \subseteq Id /\ slipped \in BOOLEAN
  BY DEF Typed, HistoryTyped
<1>2. \A o \in Objects : IdOf(o) \in Id
  BY DEF Typed, HeapTyped, IdOf
<1>3. Val \subseteq Content
  BY DEF Content
<1>4. ASSUME NEW id \in Id, Hit(id) \/ Pin(id) \/ Unpin(id)
      PROVE  HistoryTyped'
  BY <1>1, <1>4 DEF Hit, Pin, Unpin, history, HistoryTyped
<1>5. ASSUME NEW id \in Id, Miss(id)
      PROVE  HistoryTyped'
  BY <1>1, <1>5 DEF Miss, HistoryTyped
<1>6. ASSUME NEW o \in Objects, NEW content \in Val, Write(o, content)
      PROVE  HistoryTyped'
  BY <1>1, <1>2, <1>3, <1>6 DEF Write, HistoryTyped
<1>7. ASSUME NEW o \in Objects, NEW left \in Val, NEW right \in Val, Split(o, left, right)
      PROVE  HistoryTyped'
  <2>1. /\ current' = [current EXCEPT ![IdOf(o)] = left, ![nextId] = right] /\ torn' = torn
        /\ slipped' = (slipped \/ Slips(o) \/ ~InPool(o)')
    BY <1>7 DEF Split
  <2>2. current' \in [Id -> Content]
    BY <1>1, <1>2, <1>3, <2>1
  <2> QED
    BY <1>1, <2>1, <2>2 DEF HistoryTyped
<1>8. ASSUME NEW o \in Objects, WriteRaises(o)
      PROVE  HistoryTyped'
  BY <1>1, <1>2, <1>8 DEF WriteRaises, HistoryTyped
<1>9. ASSUME NEW content \in Val, Allocate(content)
      PROVE  HistoryTyped'
  BY <1>1, <1>3, <1>9 DEF Allocate, HistoryTyped
<1>10. CASE Return \/ Flush \/ BeginTxnWrite \/ \E committed \in BOOLEAN : EndTxnWrite(committed)
  BY <1>1, <1>10 DEF Return, Flush, BeginTxnWrite, EndTxnWrite, history, HistoryTyped
<1> QED
  BY <1>4, <1>5, <1>6, <1>7, <1>8, <1>9, <1>10 DEF Next

\* What the invariant of types says of its parts.
LEMMA TypedFacts ==
    ASSUME Typed
    PROVE  /\ PoolShape(pool) /\ (\A u \in DOMAIN pool.frames : pool.frames[u].page \in Objects)
           /\ heap \in [Objects -> Image]
           /\ (\A o \in Objects : o \in Id \X Nat /\ IdOf(o) \in Id /\ IdOf(o) < nextId
                                  /\ heap[o].lsn <= lsn /\ heap[o].lsn \in Nat)
           /\ lsn \in Nat /\ flushed \in 0..lsn /\ LogTyped /\ FileTyped
           /\ writing \in BOOLEAN /\ deferred \in Seq(Objects)
           /\ (~writing \/ ~Backed => deferred = <<>>)
           /\ op \in [held : SUBSET Objects, marked : SUBSET Objects, ids : SUBSET Id]
           /\ op.marked \subseteq op.held /\ (\A o \in op.held : IdOf(o) \in op.ids)
<1>1. /\ PoolShape(pool) /\ \A u \in DOMAIN pool.frames : pool.frames[u].page \in Objects
  BY DEF Typed, PoolTyped
<1>2. /\ heap \in [Objects -> Image]
      /\ (\A o \in Objects : o \in Id \X Nat /\ IdOf(o) \in Id /\ IdOf(o) < nextId
                             /\ heap[o].lsn <= lsn /\ heap[o].lsn \in Nat)
  BY DEF Typed, HeapTyped, Image, IdOf
<1>3. lsn \in Nat /\ flushed \in 0..lsn /\ LogTyped /\ FileTyped
  BY DEF Typed, LogTyped
<1>4. /\ writing \in BOOLEAN /\ deferred \in Seq(Objects)
      /\ (~writing \/ ~Backed => deferred = <<>>)
  BY DEF Typed, TxnTyped
<1>5. /\ op \in [held : SUBSET Objects, marked : SUBSET Objects, ids : SUBSET Id]
      /\ op.marked \subseteq op.held /\ (\A o \in op.held : IdOf(o) \in op.ids)
  BY DEF Typed, OpTyped
<1> QED
  BY <1>1, <1>2, <1>3, <1>4, <1>5

\* No operation holds nothing.
LEMMA IdleTyped ==
    /\ Idle \in [held : SUBSET Objects, marked : SUBSET Objects, ids : SUBSET Id]
    /\ Idle.held = {} /\ Idle.marked = {} /\ Idle.ids = {}
BY DEF Idle

\* The steps that leave the pool, the file and the log alone.
LEMMA QuietTyped ==
    ASSUME Typed, HistoryTyped', UNCHANGED <<pool, file, nextId, log>>,
           \/ UNCHANGED <<heap, op>> /\ deferred' = <<>> /\ writing' \in BOOLEAN
           \/ /\ op' = Idle /\ UNCHANGED txn
              /\ \E h \in [Objects -> Image] : Collect(h) /\ \A x \in Objects : h[x].lsn <= lsn
    PROVE  Typed'
<1>1. FileTyped' /\ LogTyped' /\ nextId' = nextId /\ lsn' = lsn /\ lsn <= lsn'
  BY TypedFacts DEF FileTyped, LogTyped, log
<1>2. PoolShape(pool') /\ \A u \in DOMAIN pool'.frames : pool'.frames[u].page \in Objects
  BY TypedFacts
<1>3. CASE UNCHANGED <<heap, op>> /\ deferred' = <<>> /\ writing' \in BOOLEAN
  <2>1. <<>> \in Seq(Objects)
    OBVIOUS
  <2> QED
    BY <1>1, <1>2, <1>3, <2>1, KeepsTyped, TypedFacts
<1>4. ASSUME op' = Idle, UNCHANGED txn,
             NEW h \in [Objects -> Image], Collect(h), \A x \in Objects : h[x].lsn <= lsn
      PROVE  Typed'
  <2>1. /\ writing' \in BOOLEAN /\ deferred' \in Seq(Objects)
        /\ (~writing' \/ ~Backed => deferred' = <<>>)
    BY <1>4, TypedFacts DEF txn
  <2>2. /\ op' \in [held : SUBSET Objects, marked : SUBSET Objects, ids : SUBSET Id]
        /\ op'.marked \subseteq op'.held /\ \A x \in op'.held : IdOf(x) \in op'.ids
    BY <1>4, IdleTyped
  <2>3. \A x \in Objects : h[x].lsn <= lsn'
    BY <1>1, <1>4
  <2> QED
    BY <1>1, <1>2, <1>4, <2>1, <2>2, <2>3, KeepsTyped
<1> QED
  BY <1>3, <1>4

\* Every step keeps the types.
LEMMA StepTyped == Typed /\ [Next]_vars => Typed'
<1> SUFFICES ASSUME Typed, [Next]_vars
             PROVE  Typed'
  OBVIOUS
<1>a. HistoryTyped'
  BY StepHistory DEF Typed, HistoryTyped, vars, history
<1>b. \A x \in Objects : heap[x].lsn <= lsn
  BY TypedFacts
<1>1. CASE UNCHANGED vars
  BY <1>1 DEF vars, log, txn, history, Typed, PoolTyped, HeapTyped, FileTyped, LogTyped,
              TxnTyped, OpTyped, HistoryTyped, Objects
<1>2. ASSUME NEW id \in Id, Hit(id)
      PROVE  Typed'
  <2>1. /\ Cached(pool, id) /\ pool' = Touched(pool, id) /\ op' = Holding(pool.frames[id].page, id)
        /\ UNCHANGED <<heap, file, nextId, log, txn>>
    BY <1>2 DEF Hit
  <2>2. PoolShape(pool') /\ \A u \in DOMAIN pool'.frames : pool'.frames[u].page \in Objects
    <3>1. PICK q : q = pool'
      OBVIOUS
    <3>2. PoolShape(q) /\ q.frames = pool.frames
      BY <2>1, <3>1, TouchedShape, TypedFacts
    <3> QED
      BY <3>1, <3>2, TypedFacts
  <2>3. pool.frames[id].page \in Objects /\ IdOf(pool.frames[id].page) = id
    BY <2>1, FrameTyped DEF Cached
  <2>4. op' = [held |-> op.held \cup {pool.frames[id].page}, marked |-> op.marked,
               ids |-> op.ids \cup {id}]
    BY <2>1, TypedFacts DEF Holding
  <2>5. /\ op' \in [held : SUBSET Objects, marked : SUBSET Objects, ids : SUBSET Id]
        /\ op'.marked \subseteq op'.held /\ \A x \in op'.held : IdOf(x) \in op'.ids
    <3>1. /\ op.held \subseteq Objects /\ op.marked \subseteq Objects /\ op.ids \subseteq Id
          /\ op.marked \subseteq op.held /\ \A x \in op.held : IdOf(x) \in op.ids
      BY TypedFacts
    <3> QED
      BY <2>3, <2>4, <3>1
  <2>6. /\ FileTyped' /\ LogTyped' /\ nextId' = nextId /\ lsn <= lsn' /\ heap' = heap
        /\ writing' \in BOOLEAN /\ deferred' \in Seq(Objects)
        /\ (~writing' \/ ~Backed => deferred' = <<>>)
    BY <2>1, TypedFacts DEF FileTyped, LogTyped, log, txn
  <2> QED
    BY <1>a, <2>2, <2>5, <2>6, KeepsTyped
<1>3. ASSUME NEW id \in Id, Miss(id)
      PROVE  Typed'
  <2>1. PICK o, h : o = Fresh(id) /\ h = With(Fresh(id), file[id])
    OBVIOUS
  <2>2. PICK clean \in BOOLEAN : clean = FALSE
    OBVIOUS
  <2>3. o \in Id \X Nat /\ Puts(o, id, clean, h)
    BY <1>3, <2>1, <2>2, MissPuts
  <2> QED
    BY <1>a, <2>3, PutsTyped
<1>4. ASSUME NEW id \in Id, Pin(id) \/ Unpin(id)
      PROVE  Typed'
  <2>1. /\ Cached(pool, id) /\ (pool' = Pinned(pool, id) \/ pool' = Unpinned(pool, id))
        /\ UNCHANGED <<heap, file, nextId, log, txn, op>>
    BY <1>4 DEF Pin, Unpin
  <2>2. PoolShape(pool') /\ \A u \in DOMAIN pool'.frames : pool'.frames[u].page \in Objects
    <3>1. PICK q : q = pool'
      OBVIOUS
    <3>2. /\ PoolShape(q) /\ DOMAIN q.frames = DOMAIN pool.frames
          /\ \A u \in DOMAIN pool.frames : q.frames[u].page = pool.frames[u].page
      BY <2>1, <3>1, RepinnedShape, TypedFacts
    <3> QED
      BY <3>1, <3>2, TypedFacts
  <2>3. /\ FileTyped' /\ LogTyped' /\ nextId' = nextId /\ lsn <= lsn' /\ heap' = heap
        /\ writing' \in BOOLEAN /\ deferred' \in Seq(Objects)
        /\ (~writing' \/ ~Backed => deferred' = <<>>)
        /\ op' \in [held : SUBSET Objects, marked : SUBSET Objects, ids : SUBSET Id]
        /\ op'.marked \subseteq op'.held /\ \A x \in op'.held : IdOf(x) \in op'.ids
    BY <2>1, TypedFacts DEF FileTyped, LogTyped, log, txn
  <2> QED
    BY <1>a, <2>2, <2>3, KeepsTyped
<1>5. ASSUME NEW o \in Objects, NEW content \in Val, Write(o, content)
      PROVE  Typed'
  <2>0. o \in Id \X Nat /\ IdOf(o) \in Id
    BY TypedFacts
  <2>1. CASE ~Cached(pool, IdOf(o))
    <3>1. PICK id, h : id \in Id /\ id = IdOf(o) /\ h = With(o, Logged(heap[o], content))
      BY <2>0
    <3>2. PICK d \in BOOLEAN : d = TRUE
      OBVIOUS
    <3>3. Puts(o, id, d, h)
      BY <1>5, <2>1, <3>1, <3>2, WritePuts
    <3> QED
      BY <1>a, <2>0, <3>1, <3>3, PutsTyped
  <2>2. CASE Cached(pool, IdOf(o))
    <3> DEFINE h == With(o, Logged(heap[o], content))
    <3>1. /\ pool' = MarkedDirty(pool, IdOf(o)) /\ file' = file /\ flushed' = flushed
          /\ deferred' = deferred /\ o \in op.held /\ Logs /\ Collect(h)
          /\ nextId' = nextId /\ writing' = writing
          /\ op' = [op EXCEPT !.marked = @ \cup {o}]
      BY <1>5, <2>2 DEF Write, MarkDirty
    <3>2. lsn' \in Nat /\ lsn <= lsn' /\ (~Backed => lsn' = 0) /\ lsn' = IF Backed THEN lsn + 1 ELSE 0
      BY <3>1, LogsGrow, TypedFacts
    <3>3. h \in [Objects -> Image] /\ \A x \in Objects : h[x].lsn <= lsn'
      <4>1. h = [x \in Objects |-> IF x = o THEN Logged(heap[o], content) ELSE heap[x]]
        BY DEF With
      <4>2. heap[o] \in Image /\ content \in Content
        BY TypedFacts DEF Content
      <4>3. Logged(heap[o], content) \in Image /\ Logged(heap[o], content).lsn <= lsn'
        BY <3>2, <4>2, ImageOf, TypedFacts
      <4>4. heap \in [Objects -> Image] /\ \A x \in Objects : heap[x].lsn <= lsn'
        BY <3>2, TypedFacts
      <4> HIDE DEF h
      <4> QED
        BY <4>1, <4>3, <4>4
    <3>4. PoolShape(pool') /\ \A u \in DOMAIN pool'.frames : pool'.frames[u].page \in Objects
      <4>1. PICK q : q = pool'
        OBVIOUS
      <4>2. /\ PoolShape(q) /\ DOMAIN q.frames = DOMAIN pool.frames
            /\ \A u \in DOMAIN pool.frames : q.frames[u].page = pool.frames[u].page
        BY <2>2, <3>1, <4>1, MarkedShape, TypedFacts
      <4> QED
        BY <4>1, <4>2, TypedFacts
    <3>5. FileTyped' /\ LogTyped'
      BY <3>1, <3>2, TypedFacts DEF FileTyped, LogTyped
    <3>6. op' = [held |-> op.held, marked |-> op.marked \cup {o}, ids |-> op.ids]
      BY <3>1, TypedFacts
    <3>7. /\ op' \in [held : SUBSET Objects, marked : SUBSET Objects, ids : SUBSET Id]
          /\ op'.marked \subseteq op'.held /\ \A x \in op'.held : IdOf(x) \in op'.ids
      <4>1. /\ op.held \subseteq Objects /\ op.marked \subseteq Objects /\ op.ids \subseteq Id
            /\ op.marked \subseteq op.held /\ \A x \in op.held : IdOf(x) \in op.ids
        BY TypedFacts
      <4> QED
        BY <3>1, <3>6, <4>1
    <3>8. /\ writing' \in BOOLEAN /\ deferred' \in Seq(Objects)
          /\ (~writing' \/ ~Backed => deferred' = <<>>)
      BY <3>1, TypedFacts
    <3> HIDE DEF h
    <3> QED
      BY <1>a, <3>1, <3>2, <3>3, <3>4, <3>5, <3>7, <3>8, KeepsTyped
  <2> QED
    BY <2>1, <2>2
<1>6. ASSUME NEW o \in Objects, NEW left \in Val, NEW right \in Val, Split(o, left, right)
      PROVE  Typed'
  <2>1. PICK id, n, h : /\ id = nextId /\ n = Fresh(nextId)
                        /\ h = [With(Fresh(nextId), Logged(BlankPage, right)) EXCEPT ![o].content = left]
    OBVIOUS
  <2>2. PICK d \in BOOLEAN : d = TRUE
    OBVIOUS
  <2>3. id \in Id /\ n \in Id \X Nat /\ Puts(n, id, d, h)
    BY <1>6, <2>1, <2>2, SplitPuts
  <2> QED
    BY <1>a, <2>3, PutsTyped
<1>7. ASSUME NEW content \in Val, Allocate(content)
      PROVE  Typed'
  <2>1. PICK id, n, h : /\ id = nextId /\ n = Fresh(nextId)
                        /\ h = With(Fresh(nextId), Logged(BlankPage, content))
    OBVIOUS
  <2>2. PICK d \in BOOLEAN : d = TRUE
    OBVIOUS
  <2>3. id \in Id /\ n \in Id \X Nat /\ Puts(n, id, d, h)
    BY <1>7, <2>1, <2>2, AllocatePuts
  <2> QED
    BY <1>a, <2>3, PutsTyped
<1>8. ASSUME NEW o \in Objects, WriteRaises(o)
      PROVE  Typed'
  <2> DEFINE h == [heap EXCEPT ![o].content = Torn]
  <2>1. UNCHANGED <<pool, file, nextId, log, txn>> /\ op' = Idle /\ Collect(h)
    BY <1>8 DEF WriteRaises
  <2>2. h \in [Objects -> Image] /\ \A x \in Objects : h[x].lsn = heap[x].lsn
    <3>1. heap \in [Objects -> Image] /\ heap[o] \in Image /\ Torn \in Content
      BY TypedFacts DEF Content
    <3>2. [heap[o] EXCEPT !.content = Torn] \in Image /\ [heap[o] EXCEPT !.content = Torn].lsn = heap[o].lsn
      BY <3>1 DEF Image
    <3> QED
      BY <3>1, <3>2
  <2> HIDE DEF h
  <2>3. \A x \in Objects : h[x].lsn <= lsn
    BY <1>b, <2>2
  <2> QED
    BY <1>a, <2>1, <2>2, <2>3, QuietTyped
<1>9. CASE Return
  <2>1. UNCHANGED <<pool, file, nextId, log, txn>> /\ op' = Idle /\ Collect(heap)
    BY <1>9 DEF Return
  <2>2. heap \in [Objects -> Image]
    BY TypedFacts
  <2> QED
    BY <1>a, <1>b, <2>1, <2>2, QuietTyped
<1>10. CASE Flush
  <2>1. /\ flushed' = lsn /\ pool' = Cleaned(pool) /\ UNCHANGED <<heap, nextId, lsn, txn, op>>
        /\ file' = [id \in Id |-> IF id \in DirtyIds(pool) THEN Out(id) ELSE file[id]]
    BY <1>10 DEF Flush
  <2>2. PoolShape(pool') /\ \A u \in DOMAIN pool'.frames : pool'.frames[u].page \in Objects
    <3>1. PICK q : q = pool'
      OBVIOUS
    <3>2. /\ PoolShape(q) /\ DOMAIN q.frames = DOMAIN pool.frames
          /\ \A u \in DOMAIN pool.frames : q.frames[u].page = pool.frames[u].page
      BY <2>1, <3>1, CleanedShape, TypedFacts
    <3> QED
      BY <3>1, <3>2, TypedFacts
  <2>3. LogTyped' /\ lsn <= lsn'
    BY <2>1, TypedFacts DEF LogTyped
  <2>4. FileTyped'
    <3>1. \A id \in DirtyIds(pool) : Out(id) \in Image /\ Out(id).lsn <= lsn /\ Out(id) # Absent
      BY FrameTyped, AbsentAssumption DEF DirtyIds, Image, Content
    <3>2. /\ file \in [Id -> Image \cup {Absent}]
          /\ \A id \in Id : file[id] # Absent => file[id].lsn <= flushed /\ file[id].lsn \in Nat
          /\ Backed => \A id \in Id : id < nextId => file[id] # Absent
      BY TypedFacts DEF FileTyped, Image
    <3>3. \A id \in Id : file[id] # Absent => file[id].lsn <= lsn
      BY <3>2, TypedFacts
    <3> QED
      BY <2>1, <3>1, <3>2, <3>3 DEF FileTyped
  <2>5. /\ writing' \in BOOLEAN /\ deferred' \in Seq(Objects)
        /\ (~writing' \/ ~Backed => deferred' = <<>>)
        /\ op' \in [held : SUBSET Objects, marked : SUBSET Objects, ids : SUBSET Id]
        /\ op'.marked \subseteq op'.held /\ \A x \in op'.held : IdOf(x) \in op'.ids
    BY <2>1, TypedFacts DEF txn
  <2> QED
    BY <1>a, <2>1, <2>2, <2>3, <2>4, <2>5, KeepsTyped
<1>11. CASE BeginTxnWrite
  <2>1. UNCHANGED <<pool, heap, file, nextId, log, op>> /\ writing' \in BOOLEAN /\ deferred' = <<>>
    BY <1>11 DEF BeginTxnWrite
  <2> QED
    BY <1>a, <2>1, QuietTyped
<1>12. ASSUME NEW committed \in BOOLEAN, EndTxnWrite(committed)
       PROVE  Typed'
  <2>1. /\ UNCHANGED <<pool, op, nextId, lsn>> /\ Collect(heap)
        /\ writing' \in BOOLEAN /\ deferred' = <<>> /\ deferred' \in Seq(Objects)
    <3>1. <<>> \in Seq(Objects)
      OBVIOUS
    <3> QED
      BY <1>12, <3>1 DEF EndTxnWrite
  <2>2. /\ flushed' \in flushed..lsn
        /\ \A o \in ToSet(deferred) : heap[o].lsn <= flushed'
        /\ file' = [id \in Id |-> IF LastDeferred(id) = 0 THEN file[id]
                                  ELSE heap[deferred[LastDeferred(id)]]]
        /\ \A id \in Id : LastDeferred(id) # 0 =>
             deferred[LastDeferred(id)] \in ToSet(deferred) /\ deferred[LastDeferred(id)] \in Objects
    BY <1>12, EndWrites
  <2>3. LogTyped' /\ lsn <= lsn' /\ flushed' \in Nat /\ flushed <= flushed'
    BY <2>1, <2>2, TypedFacts DEF LogTyped
  <2>4. FileTyped'
    <3>1. \A o \in Objects : heap[o] \in Image /\ heap[o] # Absent
      BY TypedFacts, AbsentAssumption DEF Image, Content
    <3>2. /\ file \in [Id -> Image \cup {Absent}]
          /\ \A id \in Id : file[id] # Absent => file[id].lsn <= flushed /\ file[id].lsn \in Nat
          /\ Backed => \A id \in Id : id < nextId => file[id] # Absent
      BY TypedFacts DEF FileTyped, Image
    <3>3. \A id \in Id : file[id] # Absent => file[id].lsn <= flushed'
      BY <2>3, <3>2, TypedFacts
    <3> QED
      BY <2>1, <2>2, <3>1, <3>2, <3>3 DEF FileTyped
  <2>5. /\ PoolShape(pool') /\ (\A u \in DOMAIN pool'.frames : pool'.frames[u].page \in Objects)
        /\ op' \in [held : SUBSET Objects, marked : SUBSET Objects, ids : SUBSET Id]
        /\ op'.marked \subseteq op'.held /\ \A x \in op'.held : IdOf(x) \in op'.ids
    BY <2>1, TypedFacts
  <2>6. heap \in [Objects -> Image] /\ \A x \in Objects : heap[x].lsn <= lsn'
    BY <2>1, TypedFacts
  <2> QED
    BY <1>a, <2>1, <2>3, <2>4, <2>5, <2>6, KeepsTyped
<1> QED
  BY <1>1, <1>2, <1>3, <1>4, <1>5, <1>6, <1>7, <1>8, <1>9, <1>10, <1>11, <1>12 DEF Next

\* The types are right at first.
LEMMA InitTyped == Init => Typed
<1> SUFFICES ASSUME Init
             PROVE  Typed
  OBVIOUS
<1>1. Pages \in Nat /\ MaxPages \in Nat /\ Pages <= MaxPages
  BY BoundAssumption
<1>2. LogTyped
  BY <1>1, BackedAssumption DEF Init, LogTyped
<1>3. /\ pool.order = <<>> /\ pool.frames = <<>> /\ DOMAIN pool.frames = {}
      /\ pool = [order |-> pool.order, frames |-> pool.frames]
  BY DEF Init, EmptyPool
<1>4. PoolTyped
  <2>1. ToSet(pool.order) = {}
    BY <1>3 DEF ToSet
  <2>2. pool.frames \in [ToSet(pool.order) -> Frame]
    BY <1>3, <2>1
  <2>3. pool.order \in Seq(Id) /\ Distinct(pool.order)
    BY <1>3 DEF Distinct
  <2> QED
    BY <1>3, <2>1, <2>2, <2>3 DEF PoolTyped, PoolShape
<1>5. Objects = {}
  BY DEF Init, Objects
<1>6. HeapTyped
  <2>1. heap = <<>> /\ heap \in [{} -> Image]
    BY DEF Init
  <2>2. IsFiniteSet({})
    BY FS_EmptySet
  <2> QED
    BY <1>5, <2>1, <2>2 DEF HeapTyped
<1>7. current \in [Id -> Content]
  BY DEF Init, Content
<1>8. HistoryTyped
  BY <1>7 DEF Init, HistoryTyped
<1>9. FileTyped
  <2> DEFINE W == Image
             first == [id \in Id |-> [content |-> current[id], lsn |-> 0]]
  <2>1. \A id \in Id : first[id] \in W /\ first[id].lsn = 0 /\ first[id] # Absent
    <3>1. \A id \in Id : first[id] \in W /\ first[id].lsn = 0
      BY <1>7 DEF Image
    <3> QED
      BY <3>1, AbsentAssumption DEF Image, Content
  <2>2. file = [id \in Id |-> IF id < nextId THEN first[id] ELSE Absent] /\ flushed = 0
    BY DEF Init
  <2> HIDE DEF first
  <2>3. \A id \in Id : file[id] = IF id < nextId THEN first[id] ELSE Absent
    BY <2>2
  <2>4. file \in [Id -> W \cup {Absent}]
    BY <2>1, <2>2
  <2> QED
    BY <2>1, <2>2, <2>3, <2>4 DEF FileTyped
<1>10. TxnTyped
  <2>1. <<>> \in Seq(Objects)
    OBVIOUS
  <2> QED
    BY <2>1 DEF Init, TxnTyped
<1>11. OpTyped
  BY IdleTyped DEF Init, OpTyped
<1> QED
  BY <1>2, <1>4, <1>6, <1>8, <1>9, <1>10, <1>11 DEF Typed

-----------------------------------------------------------------------------
\* Whatever the operations, evictions, flushes and commits, and whether or not
\* there is a file: the frames, the objects, the file, the log and the pages that
\* are put aside refer to each other as they should.
THEOREM TypesHold == Spec => []Typed
<1>1. Init => Typed
  BY InitTyped
<1>2. Typed /\ [Next]_vars => Typed'
  BY StepTyped
<1> QED
  BY <1>1, <1>2, PTL DEF Spec

\* No image is in the data file before the log record that it belongs to is on
\* disk, whichever of the three ways it took: an eviction, a flush, or the pages
\* that a commit had put aside (bplus_pager.py _pool_put, flush, end_txn_write).
THEOREM LogGoesFirst == Spec => []FileBehindLog
<1>1. Typed => FileBehindLog
  <2> SUFFICES ASSUME Typed, NEW id \in 0..(nextId - 1), file[id] # Absent
               PROVE  file[id].lsn <= flushed
    BY DEF FileBehindLog
  <2>1. nextId \in 0..MaxPages /\ MaxPages \in Nat
    BY BoundAssumption DEF Typed, LogTyped
  <2>2. id \in Id
    BY <2>1 DEF Id
  <2> QED
    BY <2>2 DEF Typed, FileTyped
<1> QED
  BY <1>1, TypesHold, PTL

-----------------------------------------------------------------------------
(* Pins.                                                                    *)

\* A frame that enters pushes out no pinned one, and nothing when all are pinned.
LEMMA EntersRespects ==
    ASSUME PoolShape(pool), NEW id, NEW o, NEW dirty, ~Cached(pool, id), Enters(o, id, dirty)
    PROVE  /\ PinnedIds(pool) \subseteq DOMAIN pool'.frames
           /\ Size(pool') > Size(pool) /\ Size(pool) >= Capacity =>
                PinnedIds(pool) = DOMAIN pool.frames
<1>1. \A v \in Victims(pool, id) : pool.frames[v].pins = 0
  <2>1. Victims(pool, id) = {} \/ \E v : Victims(pool, id) = {v} /\ pool.frames[v].pins = 0
    BY VictimShape
  <2> QED
    BY <2>1
<1>2. DOMAIN pool'.frames = (DOMAIN pool.frames \ Victims(pool, id)) \cup {id}
  BY DEF Enters
<1>3. Victims(pool, id) \cap PinnedIds(pool) = {}
  BY <1>1 DEF PinnedIds
<1>4. PinnedIds(pool) \subseteq DOMAIN pool.frames
  BY DEF PinnedIds
<1>5. PinnedIds(pool) \subseteq DOMAIN pool'.frames
  BY <1>2, <1>3, <1>4
<1> QED
  BY <1>5 DEF Enters

\* "a pinned page is never evicted" (buffer_pool.py:12), and the pool grows past
\* its capacity only when every frame is pinned (:75).
THEOREM PinsAreRespected == Spec => PinsRespected
<1> DEFINE Respected ==
      /\ PinnedIds(pool) \subseteq DOMAIN pool'.frames
      /\ Size(pool') > Size(pool) /\ Size(pool) >= Capacity =>
           PinnedIds(pool) = DOMAIN pool.frames
<1>1. ASSUME Typed, Next
      PROVE  Respected
  <2>0. PoolShape(pool) /\ Size(pool) \in Nat /\ PinnedIds(pool) \subseteq DOMAIN pool.frames
    BY <1>1, TypedFacts, SizeIsCount DEF PinnedIds
  <2>1. ASSUME DOMAIN pool'.frames = DOMAIN pool.frames, Size(pool') = Size(pool)
        PROVE  Respected
    BY <2>0, <2>1
  <2>2. ASSUME NEW id, NEW o, NEW dirty, NEW h, Puts(o, id, dirty, h)
        PROVE  Respected
    BY <2>0, <2>2, EntersRespects DEF Puts
  <2>3. ASSUME pool' = pool
        PROVE  Respected
    BY <2>1, <2>3
  <2> HIDE DEF Respected
  <2>4. ASSUME NEW id \in Id, Hit(id)
        PROVE  Respected
    <3>1. PICK q : q = pool'
      OBVIOUS
    <3>2. q.frames = pool.frames /\ Size(q) = Size(pool)
      BY <2>0, <2>4, <3>1, TouchedShape DEF Hit
    <3> QED
      BY <2>1, <3>1, <3>2
  <2>5. ASSUME NEW id \in Id, Pin(id) \/ Unpin(id)
        PROVE  Respected
    <3>1. PICK q : q = pool'
      OBVIOUS
    <3>2. Cached(pool, id) /\ (q = Pinned(pool, id) \/ q = Unpinned(pool, id))
      BY <2>5, <3>1 DEF Pin, Unpin
    <3>3. q.order = pool.order /\ DOMAIN q.frames = DOMAIN pool.frames
      BY <2>0, <3>2, RepinnedShape
    <3> QED
      BY <2>1, <3>1, <3>3 DEF Size
  <2>6. ASSUME NEW id \in Id, Miss(id)
        PROVE  Respected
    BY <1>1, <2>2, <2>6, MissPuts
  <2>7. ASSUME NEW o \in Objects, NEW content \in Val, Write(o, content)
        PROVE  Respected
    <3>1. CASE ~Cached(pool, IdOf(o))
      BY <1>1, <2>2, <2>7, <3>1, WritePuts
    <3>2. CASE Cached(pool, IdOf(o))
      <4>1. PICK q : q = pool'
        OBVIOUS
      <4>2. q = MarkedDirty(pool, IdOf(o))
        BY <2>7, <3>2, <4>1 DEF Write, MarkDirty
      <4>3. q.order = pool.order /\ DOMAIN q.frames = DOMAIN pool.frames
        BY <2>0, <3>2, <4>2, MarkedShape
      <4> QED
        BY <2>1, <4>1, <4>3 DEF Size
    <3> QED
      BY <3>1, <3>2
  <2>8. ASSUME NEW o \in Objects, NEW left \in Val, NEW right \in Val, Split(o, left, right)
        PROVE  Respected
    BY <1>1, <2>2, <2>8, SplitPuts
  <2>9. ASSUME NEW content \in Val, Allocate(content)
        PROVE  Respected
    BY <1>1, <2>2, <2>9, AllocatePuts
  <2>10. CASE Flush
    <3>1. PICK q : q = pool'
      OBVIOUS
    <3>2. q = Cleaned(pool)
      BY <2>10, <3>1 DEF Flush
    <3>3. q.order = pool.order /\ DOMAIN q.frames = DOMAIN pool.frames
      BY <2>0, <3>2, CleanedShape
    <3> QED
      BY <2>1, <3>1, <3>3 DEF Size
  <2>11. ASSUME NEW o \in Objects, WriteRaises(o)
         PROVE  Respected
    BY <2>3, <2>11 DEF WriteRaises
  <2>12. CASE Return \/ BeginTxnWrite \/ \E committed \in BOOLEAN : EndTxnWrite(committed)
    BY <2>3, <2>12 DEF Return, BeginTxnWrite, EndTxnWrite
  <2> QED
    BY <1>1, <2>4, <2>5, <2>6, <2>7, <2>8, <2>9, <2>10, <2>11, <2>12 DEF Next
<1>2. Typed /\ [Next]_vars => [Respected]_vars
  BY <1>1
<1>3. [Respected]_vars => [ /\ PinnedIds(pool) \subseteq DOMAIN pool'.frames
                            /\ Size(pool') > Size(pool) /\ Size(pool) >= Capacity =>
                                 PinnedIds(pool) = DOMAIN pool.frames ]_vars
  OBVIOUS
<1> QED
  BY <1>2, <1>3, TypesHold, PTL DEF Spec, PinsRespected

-----------------------------------------------------------------------------
(* The pages of the running operation.                                      *)

LEMMA IdFinite == IsFiniteSet(Id)
<1>1. MaxPages \in Nat
  BY BoundAssumption
<1>2. 0 \in Int /\ MaxPages - 1 \in Int
  BY <1>1
<1> QED
  BY <1>2, FS_Interval DEF Id

\* A page that enters is read last.
LEMMA EntersKeepsReadLast ==
    ASSUME ReadLast(pool.order, op.ids), NEW id, NEW o, NEW dirty, Enters(o, id, dirty),
           op'.ids = op.ids \cup {id}
    PROVE  ReadLast(pool'.order, op'.ids)
BY DEF Enters

\* The victim is a page of the operation only if all that is not pinned is.
LEMMA EntersKeepsWorkingSet ==
    ASSUME Typed, ReadLast(pool.order, op.ids), WorkingSetStays,
           NEW id \in Id, NEW o, NEW dirty, ~Cached(pool, id), IdOf(o) = id, Enters(o, id, dirty),
           op'.ids = op.ids \cup {id}, op'.held \subseteq op.held \cup {o}
    PROVE  WorkingSetStays'
<1> SUFFICES ASSUME Cardinality(op'.ids \cup PinnedIds(pool')) <= Capacity,
                    NEW x \in op'.held
             PROVE  InPool(x)'
  BY DEF WorkingSetStays
<1> DEFINE gone == Victims(pool, id)
           before == op.ids \cup PinnedIds(pool)
           after == op.ids \cup {id} \cup PinnedIds(pool)
           all == ToSet(pool.order)
<1>1. /\ PoolShape(pool) /\ op.ids \subseteq Id
      /\ DOMAIN pool.frames = all /\ IsFiniteSet(all)
      /\ Cardinality(all) = Size(pool) /\ Size(pool) \in Nat
      /\ \A y \in op.held : IdOf(y) \in op.ids
  BY TypedFacts, SizeIsCount
<1>2. /\ DOMAIN pool'.frames = (DOMAIN pool.frames \ gone) \cup {id}
      /\ pool'.frames[id].page = o /\ pool'.frames[id].pins = 0
      /\ \A u \in DOMAIN pool.frames \ gone : u # id /\ pool'.frames[u] = pool.frames[u]
  BY DEF Enters
<1>3. \A v \in gone : pool.frames[v].pins = 0
  <2>1. gone = {} \/ \E v : gone = {v} /\ pool.frames[v].pins = 0
    BY <1>1, VictimShape
  <2> QED
    BY <2>1
<1>4. PinnedIds(pool') = PinnedIds(pool)
  <2>1. id \notin DOMAIN pool.frames
    BY DEF Cached
  <2> QED
    BY <1>2, <1>3, <2>1 DEF PinnedIds
<1>5. Cardinality(after) <= Capacity
  <2>1. after = op'.ids \cup PinnedIds(pool')
    BY <1>4
  <2> QED
    BY <2>1
<1>6. IsFiniteSet(after) /\ before \subseteq after /\ all \cap {id} = {}
  <2>1. IsFiniteSet(Id)
    BY IdFinite
  <2>2. IsFiniteSet(op.ids \cup {id}) /\ IsFiniteSet(PinnedIds(pool))
    BY <1>1, <2>1, FS_Subset DEF PinnedIds
  <2>3. IsFiniteSet(after)
    BY <2>2, FS_Union
  <2> QED
    BY <1>1, <2>3 DEF Cached
<1>7. Cardinality(before) <= Capacity
  <2>1. Cardinality(before) <= Cardinality(after)
    BY <1>6, FS_Subset
  <2>2. Cardinality(before) \in Nat /\ Cardinality(after) \in Nat
    BY <1>6, FS_Subset, FS_CardinalityType
  <2> QED
    BY <1>5, <2>1, <2>2, CapacityAssumption
<1>8. \A y \in op.held : InPool(y)
  BY <1>7 DEF WorkingSetStays
<1>9. gone \cap op.ids = {}
  <2> SUFFICES ASSUME NEW v \in gone, v \in op.ids
               PROVE  FALSE
    OBVIOUS
  <2>1. all \subseteq before /\ Size(pool) >= Capacity
    BY <1>1, VictimShape
  <2>2. Cardinality(all \cup {id}) = Size(pool) + 1
    BY <1>1, <1>6, FS_AddElement
  <2>3. all \cup {id} \subseteq after
    BY <2>1
  <2>4. Cardinality(all \cup {id}) <= Cardinality(after) /\ Cardinality(after) \in Nat
    BY <1>6, <2>3, FS_Subset, FS_CardinalityType
  <2> QED
    BY <1>1, <1>5, <2>1, <2>2, <2>4, CapacityAssumption
<1>10. CASE x = o
  BY <1>2, <1>10 DEF InPool, Cached
<1>11. CASE x \in op.held
  <2>1. InPool(x) /\ IdOf(x) \in DOMAIN pool.frames \ gone
    BY <1>1, <1>8, <1>9, <1>11 DEF InPool, Cached
  <2> QED
    BY <1>2, <2>1 DEF InPool, Cached
<1> QED
  BY <1>10, <1>11

\* The steps that keep every frame with its page and its pins.
LEMMA KeepsWorkingSet ==
    ASSUME Typed, WorkingSetStays, DOMAIN pool'.frames = DOMAIN pool.frames,
           \A u \in DOMAIN pool.frames :
             pool'.frames[u].page = pool.frames[u].page /\ pool'.frames[u].pins = pool.frames[u].pins,
           op.ids \subseteq op'.ids, op'.ids \subseteq Id,
           \A x \in op'.held : x \in op.held \/ InPool(x)
    PROVE  WorkingSetStays'
<1> SUFFICES ASSUME Cardinality(op'.ids \cup PinnedIds(pool')) <= Capacity, NEW x \in op'.held
             PROVE  InPool(x)'
  BY DEF WorkingSetStays
<1> DEFINE before == op.ids \cup PinnedIds(pool)
           after == op'.ids \cup PinnedIds(pool)
<1>1. PinnedIds(pool') = PinnedIds(pool) /\ before \subseteq after
  BY DEF PinnedIds
<1>2. IsFiniteSet(after)
  <2>1. IsFiniteSet(Id)
    BY IdFinite
  <2>2. IsFiniteSet(DOMAIN pool.frames) /\ PinnedIds(pool) \subseteq DOMAIN pool.frames
    BY TypedFacts, SizeIsCount DEF PinnedIds
  <2>3. IsFiniteSet(op'.ids) /\ IsFiniteSet(PinnedIds(pool))
    BY <2>1, <2>2, FS_Subset
  <2> QED
    BY <2>3, FS_Union
<1>3. Cardinality(before) <= Capacity
  <2>1. Cardinality(before) <= Cardinality(after)
    BY <1>1, <1>2, FS_Subset
  <2>2. Cardinality(before) \in Nat /\ Cardinality(after) \in Nat
    BY <1>1, <1>2, FS_Subset, FS_CardinalityType
  <2>3. Cardinality(after) <= Capacity
    BY <1>1
  <2> QED
    BY <2>1, <2>2, <2>3, CapacityAssumption
<1>4. InPool(x)
  BY <1>3 DEF WorkingSetStays
<1> QED
  BY <1>4 DEF InPool, Cached

\* Every step keeps the invariant of the operation.
LEMMA StepOpInv == OpInv /\ [Next]_vars => OpInv'
<1> SUFFICES ASSUME OpInv, [Next]_vars
             PROVE  OpInv'
  OBVIOUS
<1>1. Typed /\ ReadLast(pool.order, op.ids) /\ WorkingSetStays
  BY DEF OpInv
<1>2. Typed' /\ op'.ids \subseteq Id
  <2>1. Typed'
    BY <1>1, StepTyped
  <2> QED
    BY <2>1 DEF Typed, OpTyped
<1> DEFINE Goal == ReadLast(pool'.order, op'.ids) /\ WorkingSetStays'
<1>3. ASSUME op'.held = {}, op'.ids = {}
      PROVE  Goal
  BY <1>3 DEF ReadLast, WorkingSetStays
<1>4. ASSUME NEW id \in Id, NEW o, NEW dirty, NEW h, Puts(o, id, dirty, h),
             op'.ids = op.ids \cup {id}, op'.held \subseteq op.held \cup {o}
      PROVE  Goal
  <2>1. ~Cached(pool, id) /\ IdOf(o) = id /\ Enters(o, id, dirty)
    BY <1>4 DEF Puts
  <2>2. ReadLast(pool'.order, op'.ids)
    BY <1>1, <1>4, <2>1, EntersKeepsReadLast
  <2>3. WorkingSetStays'
    BY <1>1, <1>4, <2>1, EntersKeepsWorkingSet
  <2> QED
    BY <2>2, <2>3
<1>5. ASSUME op = Idle, op' = op
      PROVE  Goal
  <2>1. op'.held = {} /\ op'.ids = {}
    BY <1>5, IdleTyped
  <2> QED
    BY <1>3, <2>1
<1> HIDE DEF Goal
<1>6. ASSUME UNCHANGED vars
      PROVE  Goal
  BY <1>1, <1>6 DEF vars, WorkingSetStays, InPool, Goal
<1>7. ASSUME NEW id \in Id, Hit(id)
      PROVE  Goal
  <2>1. PICK q : q = pool'
    OBVIOUS
  <2>2. /\ Cached(pool, id) /\ q = Touched(pool, id) /\ op' = Holding(pool.frames[id].page, id)
    BY <1>7, <2>1 DEF Hit
  <2>3. op'.held = op.held \cup {pool.frames[id].page} /\ op'.ids = op.ids \cup {id}
    BY <1>1, <2>2, TypedFacts DEF Holding
  <2>4. /\ q.frames = pool.frames
        /\ \A ids : ReadLast(pool.order, ids) => ReadLast(q.order, ids \cup {id})
    BY <1>1, <2>2, TouchedShape, TypedFacts
  <2>5. ReadLast(pool'.order, op'.ids)
    BY <1>1, <2>1, <2>3, <2>4
  <2>6. InPool(pool.frames[id].page)
    BY <1>1, <2>2, FrameTyped DEF InPool, Cached
  <2>7. WorkingSetStays'
    BY <1>1, <1>2, <2>1, <2>3, <2>4, <2>6, KeepsWorkingSet
  <2> QED
    BY <2>5, <2>7 DEF Goal
<1>8. ASSUME NEW id \in Id, Miss(id)
      PROVE  Goal
  <2>1. op'.held = op.held \cup {Fresh(id)} /\ op'.ids = op.ids \cup {id}
    BY <1>1, <1>8, TypedFacts DEF Miss, Holding
  <2> QED
    BY <1>1, <1>4, <1>8, <2>1, MissPuts
<1>9. ASSUME NEW id \in Id, Pin(id) \/ Unpin(id)
      PROVE  Goal
  BY <1>5, <1>9 DEF Pin, Unpin, Between
<1>10. ASSUME NEW o \in Objects, NEW content \in Val, Write(o, content)
       PROVE  Goal
  <2>1. /\ op'.held = op.held /\ op'.ids = op.ids /\ IdOf(o) \in op.ids /\ o \in op.held
        /\ IdOf(o) \in Id
    BY <1>1, <1>10, TypedFacts DEF Write
  <2>2. CASE ~Cached(pool, IdOf(o))
    <3>1. Puts(o, IdOf(o), TRUE, With(o, Logged(heap[o], content)))
      BY <1>1, <1>10, <2>2, WritePuts
    <3>2. op'.ids = op.ids \cup {IdOf(o)} /\ op'.held \subseteq op.held \cup {o}
      BY <2>1
    <3> QED
      BY <1>4, <2>1, <3>1, <3>2
  <2>3. CASE Cached(pool, IdOf(o))
    <3>1. PICK q : q = pool'
      OBVIOUS
    <3>2. q = MarkedDirty(pool, IdOf(o))
      BY <1>10, <2>3, <3>1 DEF Write, MarkDirty
    <3>3. /\ q.order = pool.order /\ DOMAIN q.frames = DOMAIN pool.frames
          /\ \A u \in DOMAIN pool.frames :
               q.frames[u].page = pool.frames[u].page /\ q.frames[u].pins = pool.frames[u].pins
      BY <1>1, <2>3, <3>2, MarkedShape, TypedFacts
    <3>4. WorkingSetStays'
      BY <1>1, <1>2, <2>1, <3>1, <3>3, KeepsWorkingSet
    <3> QED
      BY <1>1, <2>1, <3>1, <3>3, <3>4 DEF Goal
  <2> QED
    BY <2>2, <2>3
<1>11. ASSUME NEW o \in Objects, NEW left \in Val, NEW right \in Val, Split(o, left, right)
       PROVE  Goal
  <2>1. op'.held = op.held \cup {Fresh(nextId)} /\ op'.ids = op.ids \cup {nextId}
    BY <1>1, <1>11, TypedFacts DEF Split, New, Holding
  <2> QED
    BY <1>1, <1>4, <1>11, <2>1, SplitPuts
<1>12. ASSUME NEW content \in Val, Allocate(content)
       PROVE  Goal
  <2>1. op'.held = op.held \cup {Fresh(nextId)} /\ op'.ids = op.ids \cup {nextId}
    BY <1>1, <1>12, TypedFacts DEF Allocate, New, Holding
  <2> QED
    BY <1>1, <1>4, <1>12, <2>1, AllocatePuts
<1>13. ASSUME NEW o \in Objects, WriteRaises(o)
       PROVE  Goal
  BY <1>3, <1>13, IdleTyped DEF WriteRaises
<1>14. ASSUME Return
       PROVE  Goal
  BY <1>3, <1>14, IdleTyped DEF Return
<1>15. ASSUME Flush \/ BeginTxnWrite \/ \E committed \in BOOLEAN : EndTxnWrite(committed)
       PROVE  Goal
  BY <1>5, <1>15 DEF Flush, BeginTxnWrite, EndTxnWrite, Between
<1>16. Goal
  BY <1>6, <1>7, <1>8, <1>9, <1>10, <1>11, <1>12, <1>13, <1>14, <1>15 DEF Next
<1> QED
  BY <1>2, <1>16 DEF OpInv, Goal

\* While an operation runs, get_page moves what it reads to the recently used end:
\* as long as its pages and the pinned ones fit in the pool, the frame that goes
\* is none of its own, and the objects it holds are the pages (buffer_pool.py:75,
\* bplus_pager.py:296).
THEOREM WorkingSetIsKept == Spec => []WorkingSetStays
<1>1. Init => OpInv
  <2> SUFFICES ASSUME Init
               PROVE  OpInv
    OBVIOUS
  <2>1. op.held = {} /\ pool.order = <<>> /\ Len(pool.order) = 0
    BY IdleTyped DEF Init, EmptyPool
  <2>2. ReadLast(pool.order, op.ids) /\ WorkingSetStays
    BY <2>1 DEF ReadLast, WorkingSetStays
  <2> QED
    BY <2>2, InitTyped DEF OpInv
<1>2. OpInv /\ [Next]_vars => OpInv'
  BY StepOpInv
<1>3. OpInv => WorkingSetStays
  BY DEF OpInv
<1> QED
  BY <1>1, <1>2, <1>3, PTL DEF Spec

-----------------------------------------------------------------------------
(* The content that is found.                                               *)

LEMMA CollectedHeap ==
    ASSUME NEW h, Collect(h)
    PROVE  Objects' = Live' /\ \A x \in Objects' : heap'[x] = h[x]
<1>1. heap' = [x \in Live' |-> h[x]]
  BY DEF Collect, Restrict, Live
<1> QED
  BY <1>1 DEF Objects

\* What a page that enters does to the file and to the pages put aside, seen from
\* the page i.
Leaves(i, id) == Cached(pool, i) /\ i \in Victims(pool, id) /\ pool.frames[i].dirty

PutSeenFrom(i, id) ==
    /\ ~Leaves(i, id) /\ (i # id \/ id < nextId) => file'[i] = file[i]
    /\ ~Leaves(i, id) => \A n \in 1..Len(deferred') :
         IdOf(deferred'[n]) = i => n \in 1..Len(deferred) /\ deferred'[n] = deferred[n]
    /\ \A n \in 1..Len(deferred) : n \in 1..Len(deferred') /\ deferred'[n] = deferred[n]
    /\ Leaves(i, id) /\ ~writing => file'[i] = Out(i) /\ deferred' = <<>>
    /\ Leaves(i, id) /\ writing =>
         Len(deferred') = Len(deferred) + 1 /\ deferred'[Len(deferred) + 1] = pool.frames[i].page

\* What a put shows of the other pages.
LEMMA PutElsewhere ==
    ASSUME Typed, Backed, NEW id \in Id, NEW o, NEW dirty, NEW h, Puts(o, id, dirty, h),
           NEW i \in Id
    PROVE  PutSeenFrom(i, id)
<1> DEFINE F == FileAfterPut(id)
<1>1. /\ ~Cached(pool, id) /\ deferred' = DeferredAfterPut(id)
      /\ \/ id < nextId /\ file' = F
         \/ id = nextId /\ file' = [F EXCEPT ![id] = BlankPage]
  BY DEF Puts
<1>2. /\ file \in [Id -> Image \cup {Absent}] /\ deferred \in Seq(Objects) /\ nextId \in Nat
      /\ (~writing => deferred = <<>>) /\ Len(deferred) \in Nat
  BY TypedFacts DEF FileTyped, LogTyped
<1>3. \A v \in DOMAIN pool.frames :
        v \in Id /\ v # id /\ pool.frames[v].page \in Objects /\ IdOf(pool.frames[v].page) = v
  BY <1>1, FrameTyped DEF Cached
<1>4. CASE DirtyVictims(id) = {} /\ F = file /\ DeferredAfterPut(id) = deferred
  <2>1. ~Leaves(i, id)
    BY <1>4 DEF DirtyVictims, DirtyIds, Cached, Leaves
  <2>2. deferred' = deferred /\ (i # id \/ id < nextId => file'[i] = file[i])
    BY <1>1, <1>2, <1>4
  <2> QED
    BY <2>1, <2>2 DEF PutSeenFrom
<1>5. ASSUME NEW v \in DOMAIN pool.frames, Victims(pool, id) = {v}, pool.frames[v].dirty,
             writing, F = file, DeferredAfterPut(id) = Append(deferred, pool.frames[v].page)
      PROVE  PutSeenFrom(i, id)
  <2>1. Leaves(i, id) <=> i = v
    BY <1>5 DEF Leaves, Cached
  <2>2. i # id \/ id < nextId => file'[i] = file[i]
    BY <1>1, <1>2, <1>5
  <2>3. /\ Len(deferred') = Len(deferred) + 1
        /\ deferred'[Len(deferred) + 1] = pool.frames[v].page
        /\ \A n \in 1..Len(deferred) : deferred'[n] = deferred[n]
    <3>1. deferred' = Append(deferred, pool.frames[v].page) /\ pool.frames[v].page \in Objects
      BY <1>1, <1>3, <1>5
    <3> QED
      BY <1>2, <3>1
  <2>4. \A n \in 1..Len(deferred') : n \in 1..Len(deferred) \/ n = Len(deferred) + 1
    BY <1>2, <2>3
  <2>5. \A n \in 1..Len(deferred) : n \in 1..Len(deferred')
    BY <1>2, <2>3
  <2>6. IdOf(pool.frames[v].page) = v
    BY <1>3
  <2> QED
    BY <1>5, <2>1, <2>2, <2>3, <2>4, <2>5, <2>6 DEF PutSeenFrom
<1>6. ASSUME NEW v \in DOMAIN pool.frames, Victims(pool, id) = {v}, pool.frames[v].dirty,
             ~writing, F = [file EXCEPT ![v] = Out(v)], DeferredAfterPut(id) = deferred
      PROVE  PutSeenFrom(i, id)
  <2>1. Leaves(i, id) <=> i = v
    BY <1>6 DEF Leaves, Cached
  <2>2. v \in Id /\ v # id
    BY <1>3
  <2>3. F[i] = IF i = v THEN Out(v) ELSE file[i]
    BY <1>2, <1>6, <2>2
  <2>4. DOMAIN F = Id
    BY <1>2, <1>6
  <2> HIDE DEF F
  <2>5. i # id \/ id < nextId => file'[i] = F[i]
    BY <1>1, <1>2, <2>4
  <2>6. deferred' = deferred /\ deferred = <<>>
    BY <1>1, <1>2, <1>6
  <2> QED
    BY <1>6, <2>1, <2>2, <2>3, <2>5, <2>6 DEF PutSeenFrom
<1>7. \/ DirtyVictims(id) = {} /\ F = file /\ DeferredAfterPut(id) = deferred
      \/ \E v \in DOMAIN pool.frames :
           /\ Victims(pool, id) = {v} /\ pool.frames[v].dirty
           /\ \/ writing /\ F = file /\ DeferredAfterPut(id) = Append(deferred, pool.frames[v].page)
              \/ ~writing /\ F = [file EXCEPT ![v] = Out(v)] /\ DeferredAfterPut(id) = deferred
  BY <1>1, PutWrites
<1> HIDE DEF F
<1> QED
  BY <1>4, <1>5, <1>6, <1>7

\* A page of which nothing changes.
LEMMA SamePage ==
    ASSUME Typed, NEW i \in Id, PageOK(i),
           Cached(pool', i) <=> Cached(pool, i),
           Cached(pool, i) => /\ pool'.frames[i].page = pool.frames[i].page
                              /\ pool'.frames[i].dirty = pool.frames[i].dirty,
           file'[i] = file[i], deferred' = deferred, current'[i] = current[i],
           \A x \in Objects : x \in Live' /\ IdOf(x) = i => heap'[x].content = heap[x].content
    PROVE  PageOK(i)'
<1>1. DirtyInPool(i)' <=> DirtyInPool(i)
  BY DEF DirtyInPool
<1>2. Cached(pool, i) => /\ pool.frames[i].page \in Objects /\ IdOf(pool.frames[i].page) = i
                         /\ pool.frames[i].page \in Live'
  BY FrameTyped DEF Cached, Live
<1>3. Cached(pool', i) => heap'[pool'.frames[i].page].content = current'[i]
  BY <1>2 DEF PageOK
<1>4. Cached(pool', i) /\ ~DirtyInPool(i)' => file'[i].content = current'[i]
  BY <1>1 DEF PageOK
<1>5. ASSUME ~DirtyInPool(i)', NEW n \in 1..Len(deferred'), LastFor(n, i)'
      PROVE  heap'[deferred'[n]].content = current'[i]
  <2>1. n \in 1..Len(deferred) /\ LastFor(n, i) /\ ~DirtyInPool(i)
    BY <1>1, <1>5 DEF LastFor
  <2>2. deferred[n] \in Objects /\ IdOf(deferred[n]) = i
    BY <2>1, TypedFacts DEF LastFor
  <2>3. deferred[n] \in Live'
    <3>1. deferred[n] \in ToSet(deferred)
      BY <2>1, TypedFacts, ToSetOf
    <3> QED
      BY <3>1 DEF Live
  <2> QED
    BY <2>1, <2>2, <2>3 DEF PageOK
<1>6. ~Cached(pool', i) /\ (\A n \in 1..Len(deferred') : IdOf(deferred'[n]) # i)
        => file'[i].content = current'[i]
  BY DEF PageOK
<1> QED
  BY <1>3, <1>4, <1>5, <1>6 DEF PageOK

\* A page other than the one that enters.
LEMMA PutsKeepPage ==
    ASSUME Typed, Backed, NEW id \in Id, NEW o, NEW dirty, NEW h, Puts(o, id, dirty, h),
           NEW i \in Id, i # id, PageOK(i), current'[i] = current[i],
           \A x \in Objects : IdOf(x) = i => h[x].content = heap[x].content
    PROVE  PageOK(i)'
<1>1. ~Cached(pool, id) /\ Enters(o, id, dirty) /\ Collect(h) /\ writing' = writing
  BY DEF Puts
<1>2. PutSeenFrom(i, id)
  BY PutElsewhere
<1>3. Objects' = Live' /\ \A x \in Live' : heap'[x] = h[x]
  BY <1>1, CollectedHeap
<1>4. /\ Cached(pool', i) <=> Cached(pool, i) /\ i \notin Victims(pool, id)
      /\ Cached(pool', i) => pool'.frames[i] = pool.frames[i]
  BY <1>1 DEF Enters, Cached
<1>5. Cached(pool, i) => /\ pool.frames[i].page \in Objects /\ IdOf(pool.frames[i].page) = i
                         /\ Out(i) = heap[pool.frames[i].page]
  BY FrameTyped DEF Cached, Out
<1>6. /\ deferred \in Seq(Objects) /\ Len(deferred) \in Nat
      /\ \A n \in 1..Len(deferred) : deferred[n] \in Objects
      /\ ToSet(deferred') = {deferred'[n] : n \in DOMAIN deferred'}
  BY TypedFacts DEF ToSet
<1>7. deferred' \in Seq(Objects)
  <2>1. deferred' = DeferredAfterPut(id)
    BY DEF Puts
  <2>2. \/ deferred' = deferred
        \/ \E v \in DOMAIN pool.frames : deferred' = Append(deferred, pool.frames[v].page)
    BY <1>1, <2>1, PutWrites
  <2>3. \A v \in DOMAIN pool.frames : pool.frames[v].page \in Objects
    BY FrameTyped
  <2> QED
    BY <1>6, <2>2, <2>3
<1>8. \A n \in 1..Len(deferred') : deferred'[n] \in Live'
  BY <1>7, ToSetOf DEF Live
<1>9. ASSUME ~Leaves(i, id), NEW n \in 1..Len(deferred'), LastFor(n, i)'
      PROVE  /\ n \in 1..Len(deferred) /\ LastFor(n, i)
             /\ heap'[deferred'[n]].content = heap[deferred[n]].content
  <2>1. IdOf(deferred'[n]) = i /\ \A m \in (n + 1)..Len(deferred') : IdOf(deferred'[m]) # i
    BY <1>9 DEF LastFor
  <2>2. n \in 1..Len(deferred) /\ deferred'[n] = deferred[n]
    BY <1>2, <1>9, <2>1 DEF PutSeenFrom
  <2>3. \A m \in (n + 1)..Len(deferred) : m \in (n + 1)..Len(deferred') /\ deferred'[m] = deferred[m]
    <3> SUFFICES ASSUME NEW m \in (n + 1)..Len(deferred)
                 PROVE  m \in (n + 1)..Len(deferred') /\ deferred'[m] = deferred[m]
      OBVIOUS
    <3>1. m \in 1..Len(deferred) /\ m \in Nat /\ n \in Nat /\ n + 1 <= m
      BY <1>6, <2>2
    <3>2. m \in 1..Len(deferred') /\ deferred'[m] = deferred[m]
      BY <1>2, <3>1 DEF PutSeenFrom
    <3>3. Len(deferred') \in Nat
      BY <1>7
    <3> QED
      BY <3>1, <3>2, <3>3
  <2>4. LastFor(n, i)
    BY <2>1, <2>2, <2>3 DEF LastFor
  <2>5. heap'[deferred'[n]].content = heap[deferred[n]].content
    BY <1>3, <1>6, <1>8, <2>1, <2>2
  <2> QED
    BY <2>2, <2>4, <2>5
<1>10. CASE ~Leaves(i, id) /\ Cached(pool', i)
  <2>1. heap'[pool'.frames[i].page].content = current'[i]
    <3>1. pool'.frames[i].page \in Live'
      BY <1>10 DEF Live, Cached
    <3> QED
      BY <1>3, <1>4, <1>5, <1>10, <3>1 DEF PageOK
  <2>2. DirtyInPool(i)' <=> DirtyInPool(i)
    BY <1>4, <1>10 DEF DirtyInPool
  <2>3. file'[i] = file[i]
    BY <1>2, <1>10 DEF PutSeenFrom
  <2> QED
    BY <1>4, <1>9, <1>10, <2>1, <2>2, <2>3 DEF PageOK
<1>11. CASE ~Leaves(i, id) /\ ~Cached(pool', i)
  <2>1. ~DirtyInPool(i) /\ ~DirtyInPool(i)'
    BY <1>4, <1>11 DEF DirtyInPool, Leaves
  <2>2. file'[i] = file[i]
    BY <1>2, <1>11 DEF PutSeenFrom
  <2>3. ASSUME \A n \in 1..Len(deferred') : IdOf(deferred'[n]) # i
        PROVE  \A n \in 1..Len(deferred) : IdOf(deferred[n]) # i
    BY <1>2, <2>3 DEF PutSeenFrom
  <2>4. (\A n \in 1..Len(deferred') : IdOf(deferred'[n]) # i) => file'[i].content = current'[i]
    BY <2>1, <2>2, <2>3 DEF PageOK
  <2> QED
    BY <1>9, <1>11, <2>1, <2>4 DEF PageOK
<1>12. CASE Leaves(i, id)
  <2>1. /\ Cached(pool, i) /\ ~Cached(pool', i)
        /\ Out(i).content = current'[i] /\ h[pool.frames[i].page].content = current'[i]
    BY <1>4, <1>5, <1>12 DEF Leaves, PageOK
  <2>2. CASE ~writing
    <3>1. file'[i] = Out(i) /\ deferred' = <<>>
      BY <1>2, <1>12, <2>2 DEF PutSeenFrom
    <3>2. Len(deferred') = 0
      BY <3>1
    <3> QED
      BY <2>1, <3>1, <3>2 DEF PageOK
  <2>3. CASE writing
    <3> DEFINE last == Len(deferred) + 1
    <3>1. Len(deferred') = last /\ deferred'[last] = pool.frames[i].page
      BY <1>2, <1>12, <2>3 DEF PutSeenFrom
    <3>2. last \in 1..Len(deferred') /\ IdOf(deferred'[last]) = i
      BY <1>5, <1>6, <2>1, <3>1
    <3>3. \A n \in 1..Len(deferred') : n # last => last \in (n + 1)..Len(deferred')
      BY <1>6, <3>1
    <3>4. \A n \in 1..Len(deferred') : LastFor(n, i)' => n = last
      BY <3>2, <3>3 DEF LastFor
    <3>5. heap'[deferred'[last]].content = current'[i]
      BY <1>3, <1>8, <2>1, <3>1, <3>2
    <3> HIDE DEF last
    <3> QED
      BY <2>1, <3>2, <3>4, <3>5 DEF PageOK
  <2> QED
    BY <2>2, <2>3
<1> QED
  BY <1>10, <1>11, <1>12

\* A put keeps what the operation has marked dirty and in the pool.
LEMMA PutsKeepMarked ==
    ASSUME MarkedDirtyInPool, NEW id, NEW o, NEW dirty, NEW h, Puts(o, id, dirty, h),
           op'.marked \subseteq op.marked \cup {o}, o \in op'.marked => dirty = TRUE
    PROVE  MarkedDirtyInPool'
<1>1. /\ ~Cached(pool, id) /\ IdOf(o) = id
      /\ DOMAIN pool'.frames = (DOMAIN pool.frames \ Victims(pool, id)) \cup {id}
      /\ pool'.frames[id].page = o /\ pool'.frames[id].dirty = dirty
      /\ \A u \in DOMAIN pool.frames \ Victims(pool, id) :
           u # id /\ pool'.frames[u] = pool.frames[u]
  BY DEF Puts, Enters
<1> SUFFICES ASSUME NEW x \in op'.marked, InPool(x)'
             PROVE  pool'.frames[IdOf(x)].dirty
  BY DEF MarkedDirtyInPool
<1>2. IdOf(x) \in DOMAIN pool'.frames /\ pool'.frames[IdOf(x)].page = x
  BY DEF InPool, Cached
<1>3. CASE IdOf(x) = id
  BY <1>1, <1>2, <1>3
<1>4. CASE IdOf(x) # id
  <2>1. IdOf(x) \in DOMAIN pool.frames \ Victims(pool, id) /\ x \in op.marked
    BY <1>1, <1>2, <1>4
  <2>2. InPool(x)
    BY <1>1, <1>2, <2>1 DEF InPool, Cached
  <2> QED
    BY <1>1, <2>1, <2>2 DEF MarkedDirtyInPool
<1> QED
  BY <1>3, <1>4

\* Every step keeps it dirty and in the pool.
LEMMA StepMarked == Typed /\ MarkedDirtyInPool /\ [Next]_vars => MarkedDirtyInPool'
<1> SUFFICES ASSUME Typed, MarkedDirtyInPool, [Next]_vars
             PROVE  MarkedDirtyInPool'
  OBVIOUS
<1>1. ASSUME op'.marked = {}
      PROVE  MarkedDirtyInPool'
  BY <1>1 DEF MarkedDirtyInPool
<1>2. ASSUME op'.marked = op.marked, pool'.frames = pool.frames
      PROVE  MarkedDirtyInPool'
  BY <1>2 DEF MarkedDirtyInPool, InPool, Cached
<1>3. CASE UNCHANGED vars
  BY <1>2, <1>3 DEF vars
<1>4. ASSUME NEW id \in Id, Hit(id)
      PROVE  MarkedDirtyInPool'
  <2>1. PICK q : q = pool'
    OBVIOUS
  <2>2. q.frames = pool.frames
    BY <1>4, <2>1, TouchedShape, TypedFacts DEF Hit
  <2>3. op'.marked = op.marked
    BY <1>4, TypedFacts DEF Hit, Holding
  <2> QED
    BY <1>2, <2>1, <2>2, <2>3
<1>5. ASSUME NEW id \in Id, Miss(id)
      PROVE  MarkedDirtyInPool'
  <2>1. op'.marked = op.marked /\ op.marked \subseteq Objects
    BY <1>5, TypedFacts DEF Miss, Holding
  <2>2. Fresh(id) \notin Objects /\ Puts(Fresh(id), id, FALSE, With(Fresh(id), file[id]))
    BY <1>5, MissPuts
  <2>3. op'.marked \subseteq op.marked \cup {Fresh(id)} /\ Fresh(id) \notin op'.marked
    BY <2>1, <2>2
  <2>4. PICK clean : clean = FALSE
    OBVIOUS
  <2>5. Puts(Fresh(id), id, clean, With(Fresh(id), file[id]))
    BY <2>2, <2>4
  <2> QED
    BY <2>3, <2>5, PutsKeepMarked
<1>6. ASSUME NEW id \in Id, Pin(id) \/ Unpin(id)
      PROVE  MarkedDirtyInPool'
  BY <1>1, <1>6, IdleTyped DEF Pin, Unpin, Between
<1>7. ASSUME NEW o \in Objects, NEW content \in Val, Write(o, content)
      PROVE  MarkedDirtyInPool'
  <2>1. op'.marked = op.marked \cup {o}
    BY <1>7, TypedFacts DEF Write
  <2>2. CASE ~Cached(pool, IdOf(o))
    <3>1. Puts(o, IdOf(o), TRUE, With(o, Logged(heap[o], content)))
      BY <1>7, <2>2, WritePuts
    <3> QED
      BY <2>1, <3>1, PutsKeepMarked
  <2>3. CASE Cached(pool, IdOf(o))
    <3>1. PICK q : q = pool'
      OBVIOUS
    <3>2. q = MarkedDirty(pool, IdOf(o))
      BY <1>7, <2>3, <3>1 DEF Write, MarkDirty
    <3>3. /\ DOMAIN q.frames = DOMAIN pool.frames /\ q.frames[IdOf(o)].dirty
          /\ \A u \in DOMAIN pool.frames :
               (u # IdOf(o) => q.frames[u] = pool.frames[u]) /\ q.frames[u].page = pool.frames[u].page
      BY <2>3, <3>2, MarkedShape, TypedFacts
    <3> QED
      BY <2>1, <3>1, <3>3 DEF MarkedDirtyInPool, InPool, Cached
  <2> QED
    BY <2>2, <2>3
<1>8. ASSUME NEW o \in Objects, NEW left \in Val, NEW right \in Val, Split(o, left, right)
      PROVE  MarkedDirtyInPool'
  <2>1. op'.marked = op.marked \cup {Fresh(nextId)}
    BY <1>8, TypedFacts DEF Split, New, Holding
  <2> QED
    BY <1>8, <2>1, SplitPuts, PutsKeepMarked
<1>9. ASSUME NEW content \in Val, Allocate(content)
      PROVE  MarkedDirtyInPool'
  <2>1. op'.marked = op.marked \cup {Fresh(nextId)}
    BY <1>9, TypedFacts DEF Allocate, New, Holding
  <2> QED
    BY <1>9, <2>1, AllocatePuts, PutsKeepMarked
<1>10. ASSUME NEW o \in Objects, WriteRaises(o)
       PROVE  MarkedDirtyInPool'
  BY <1>1, <1>10, IdleTyped DEF WriteRaises
<1>11. CASE Return
  BY <1>1, <1>11, IdleTyped DEF Return
<1>12. CASE Flush \/ BeginTxnWrite \/ \E committed \in BOOLEAN : EndTxnWrite(committed)
  BY <1>1, <1>12, IdleTyped DEF Flush, BeginTxnWrite, EndTxnWrite, Between
<1> QED
  BY <1>3, <1>4, <1>5, <1>6, <1>7, <1>8, <1>9, <1>10, <1>11, <1>12 DEF Next

\* A page that has just been changed, in its frame.
LEMMA DirtyFound ==
    ASSUME NEW i, Cached(pool', i), pool'.frames[i].dirty,
           heap'[pool'.frames[i].page].content = current'[i]
    PROVE  PageOK(i)'
BY DEF PageOK, DirtyInPool

\* A page that enters as it was changed.
LEMMA PutsFound ==
    ASSUME NEW id, NEW o, NEW h, Puts(o, id, TRUE, h), h[o].content = current'[id]
    PROVE  PageOK(id)'
<1>1. /\ Cached(pool', id) /\ pool'.frames[id].page = o /\ pool'.frames[id].dirty
      /\ Collect(h)
  BY DEF Puts, Enters, Cached
<1>2. o \in Live'
  BY <1>1 DEF Live, Cached
<1>3. heap'[o] = h[o]
  BY <1>1, <1>2, CollectedHeap
<1> QED
  BY <1>1, <1>3, DirtyFound

\* A page that enters from the file.
LEMMA MissFound ==
    ASSUME Typed, Backed, NEW id \in Id, Miss(id), PageOK(id), file[id].content = current[id]
    PROVE  PageOK(id)'
<1>1. PICK o : o = Fresh(id)
  OBVIOUS
<1> DEFINE h == With(o, file[id])
<1>2. o \notin Objects /\ Puts(o, id, FALSE, h) /\ h[o] = file[id]
      /\ \A x \in Objects : h[x] = heap[x]
  BY <1>1, MissPuts DEF With
<1>3. id < nextId /\ ~Cached(pool, id) /\ current' = current
  BY DEF Miss
<1> HIDE DEF h
<1>4. /\ Collect(h) /\ DOMAIN pool'.frames = (DOMAIN pool.frames \ Victims(pool, id)) \cup {id}
      /\ pool'.frames[id].page = o
  BY <1>2 DEF Puts, Enters
<1>5. Objects' = Live' /\ \A x \in Objects' : heap'[x] = h[x]
  BY <1>4, CollectedHeap
<1>6. PICK clean : clean = FALSE
  OBVIOUS
<1>7. Puts(o, id, clean, h)
  BY <1>2, <1>6
<1>8. PutSeenFrom(id, id)
  BY <1>7, PutElsewhere
<1>9. file'[id] = file[id]
      /\ \A n \in 1..Len(deferred') :
           IdOf(deferred'[n]) = id => n \in 1..Len(deferred) /\ deferred'[n] = deferred[n]
  BY <1>3, <1>8 DEF PutSeenFrom, Leaves
<1>10. Cached(pool', id) /\ heap'[pool'.frames[id].page].content = current'[id]
  <2>1. o \in Live'
    BY <1>4 DEF Live
  <2> QED
    BY <1>2, <1>3, <1>4, <1>5, <2>1 DEF Cached
<1>11. ASSUME NEW n \in 1..Len(deferred'), LastFor(n, id)'
       PROVE  heap'[deferred'[n]].content = current'[id]
  <2>1. IdOf(deferred'[n]) = id /\ \A m \in (n + 1)..Len(deferred') : IdOf(deferred'[m]) # id
    BY <1>11 DEF LastFor
  <2>2. n \in 1..Len(deferred) /\ deferred'[n] = deferred[n] /\ deferred \in Seq(Objects)
        /\ Len(deferred) \in Nat
    BY <1>9, <2>1, TypedFacts
  <2>3. \A m \in (n + 1)..Len(deferred) : m \in (n + 1)..Len(deferred') /\ deferred'[m] = deferred[m]
    <3> SUFFICES ASSUME NEW m \in (n + 1)..Len(deferred)
                 PROVE  m \in (n + 1)..Len(deferred') /\ deferred'[m] = deferred[m]
      OBVIOUS
    <3>1. m \in 1..Len(deferred) /\ m \in Nat /\ n \in Nat /\ n + 1 <= m
      BY <2>2
    <3>2. m \in 1..Len(deferred') /\ deferred'[m] = deferred[m]
      BY <1>8, <3>1 DEF PutSeenFrom
    <3> QED
      BY <2>2, <3>1, <3>2
  <2>4. LastFor(n, id) /\ ~DirtyInPool(id)
    BY <1>3, <2>1, <2>2, <2>3 DEF LastFor, DirtyInPool
  <2>5. heap[deferred[n]].content = current[id] /\ deferred[n] \in Objects
    BY <2>2, <2>4 DEF PageOK
  <2>6. deferred'[n] \in Live'
    <3>1. n \in DOMAIN deferred'
      <4>1. deferred' = DeferredAfterPut(id)
        BY <1>2 DEF Puts
      <4>2. \/ deferred' = deferred
            \/ \E v \in DOMAIN pool.frames : deferred' = Append(deferred, pool.frames[v].page)
        BY <1>3, <4>1, PutWrites
      <4> QED
        BY <2>2, <4>2
    <3> QED
      BY <3>1 DEF Live, ToSet
  <2> QED
    BY <1>2, <1>3, <1>5, <2>2, <2>5, <2>6
<1> QED
  BY <1>3, <1>9, <1>10, <1>11 DEF PageOK

\* After a write every page is found as it was written last.
LEMMA WriteFound ==
    ASSUME Typed, Backed, NEW o \in Objects, NEW content \in Val, Write(o, content), ~slipped',
           NEW i \in Id, i < nextId, i \notin torn', i # IdOf(o) => PageOK(i)
    PROVE  PageOK(i)'
<1> DEFINE h == With(o, Logged(heap[o], content))
<1>1. /\ IdOf(o) \in Id /\ heap \in [Objects -> Image] /\ LogTyped /\ content \in Content
      /\ current \in [Id -> Content]
  BY TypedFacts DEF Content, Typed, HistoryTyped
<1>2. h[o].content = content
  <2>1. heap[o] \in Image
    BY <1>1
  <2>2. Logged(heap[o], content).content = content
    BY <1>1, <2>1, ImageOf
  <2> QED
    BY <2>2 DEF With
<1>3. \A x \in Objects : x # o => h[x] = heap[x]
  BY DEF With
<1>4. Collect(h) /\ current' = [current EXCEPT ![IdOf(o)] = content] /\ ~Slips(o)
  BY DEF Write
<1> HIDE DEF h
<1>5. current'[i] = IF i = IdOf(o) THEN content ELSE current[i]
  BY <1>1, <1>4
<1>6. \A x \in Objects : IdOf(x) = i /\ i # IdOf(o) => h[x].content = heap[x].content
  BY <1>3
<1>7. CASE ~Cached(pool, IdOf(o))
  <2>1. Puts(o, IdOf(o), TRUE, h)
    BY <1>7, WritePuts DEF h
  <2>2. CASE i = IdOf(o)
    BY <1>2, <1>5, <2>1, <2>2, PutsFound
  <2>3. CASE i # IdOf(o)
    <3>1. PICK dirty : dirty = TRUE
      OBVIOUS
    <3>2. Puts(o, IdOf(o), dirty, h) /\ current'[i] = current[i] /\ PageOK(i)
      BY <1>5, <2>1, <2>3, <3>1
    <3> QED
      BY <1>1, <1>6, <2>3, <3>2, PutsKeepPage
  <2> QED
    BY <2>2, <2>3
<1>8. CASE Cached(pool, IdOf(o))
  <2>1. PICK q : q = pool'
    OBVIOUS
  <2>2. q = MarkedDirty(pool, IdOf(o)) /\ file' = file /\ deferred' = deferred
    BY <1>8, <2>1 DEF Write, MarkDirty
  <2>3. /\ DOMAIN q.frames = DOMAIN pool.frames /\ q.frames[IdOf(o)].dirty
        /\ \A u \in DOMAIN pool.frames :
             (u # IdOf(o) => q.frames[u] = pool.frames[u]) /\ q.frames[u].page = pool.frames[u].page
    BY <1>8, <2>2, MarkedShape, TypedFacts
  <2>4. Objects' = Live' /\ \A x \in Objects' : heap'[x] = h[x]
    BY <1>4, CollectedHeap
  <2>5. CASE i = IdOf(o)
    <3>1. pool.frames[i].page = o
      BY <1>4, <1>8, <2>5 DEF Slips, InPool
    <3>2. Cached(pool', i) /\ pool'.frames[i].dirty /\ pool'.frames[i].page = o
      BY <1>8, <2>1, <2>3, <2>5, <3>1 DEF Cached
    <3>3. o \in Live'
      BY <3>2 DEF Live, Cached
    <3>4. heap'[pool'.frames[i].page].content = current'[i]
      BY <1>2, <1>5, <2>4, <2>5, <3>2, <3>3
    <3> QED
      BY <3>2, <3>4, DirtyFound
  <2>6. CASE i # IdOf(o)
    <3>1. Cached(pool', i) <=> Cached(pool, i)
      BY <2>1, <2>3 DEF Cached
    <3>2. Cached(pool, i) => /\ pool'.frames[i].page = pool.frames[i].page
                             /\ pool'.frames[i].dirty = pool.frames[i].dirty
      BY <2>1, <2>3, <2>6 DEF Cached
    <3>3. \A x \in Objects : x \in Live' /\ IdOf(x) = i => heap'[x].content = heap[x].content
      BY <1>6, <2>4, <2>6
    <3>4. file'[i] = file[i] /\ current'[i] = current[i] /\ PageOK(i)
      BY <1>5, <2>2, <2>6
    <3> QED
      BY <2>2, <3>1, <3>2, <3>3, <3>4, SamePage
  <2> QED
    BY <2>5, <2>6
<1> QED
  BY <1>7, <1>8

\* After a split too,
LEMMA SplitFound ==
    ASSUME Typed, Backed, MarkedDirtyInPool, NEW o \in Objects, NEW left \in Val, NEW right \in Val,
           Split(o, left, right), ~slipped',
           NEW i \in Id, i # nextId /\ i # IdOf(o) => PageOK(i)
    PROVE  PageOK(i)'
<1>1. PICK n : n = Fresh(nextId)
  OBVIOUS
<1> DEFINE g == With(n, Logged(BlankPage, right))
           h == [g EXCEPT ![o].content = left]
<1>2. /\ IdOf(o) \in Id /\ IdOf(o) < nextId /\ nextId \in Nat /\ heap \in [Objects -> Image]
      /\ LogTyped /\ right \in Content /\ left \in Content /\ current \in [Id -> Content]
  BY TypedFacts DEF Content, Typed, HistoryTyped, LogTyped
<1>3. nextId \in Id /\ n \notin Objects /\ Puts(n, nextId, TRUE, h)
  BY <1>1, SplitPuts
<1>4. /\ n # o /\ h[n] = g[n] /\ h[o].content = left
      /\ \A x \in Objects : x # o => h[x] = heap[x]
  <2>1. g = [x \in Objects \cup {n} |-> IF x = n THEN Logged(BlankPage, right) ELSE heap[x]]
    BY DEF With
  <2> HIDE DEF g
  <2>2. g[o] \in Image
    BY <1>2, <1>3, <2>1
  <2>3. [g[o] EXCEPT !.content = left].content = left
    BY <2>2 DEF Image
  <2> QED
    BY <1>3, <2>1, <2>3
<1>5. h[n].content = right
  <2>1. Logged(BlankPage, right).content = right
    BY <1>2, BlankImage, ImageOf
  <2>2. g[n] = Logged(BlankPage, right)
    BY DEF With
  <2> HIDE DEF h, g
  <2> QED
    BY <1>4, <2>1, <2>2
<1> HIDE DEF h, g
<1>6. current' = [current EXCEPT ![IdOf(o)] = left, ![nextId] = right]
      /\ InPool(o)' /\ o \in op.marked
  BY DEF Split
<1>7. /\ Collect(h) /\ pool'.frames[nextId].page = n
      /\ DOMAIN pool'.frames = (DOMAIN pool.frames \ Victims(pool, nextId)) \cup {nextId}
      /\ \A u \in DOMAIN pool.frames \ Victims(pool, nextId) : pool'.frames[u] = pool.frames[u]
  BY <1>3 DEF Puts, Enters
<1>8. CASE i = nextId
  <2>1. current'[i] = right
    BY <1>2, <1>3, <1>6, <1>8
  <2> QED
    BY <1>3, <1>5, <1>8, <2>1, PutsFound
<1>9. CASE i = IdOf(o)
  <2>1. i # nextId /\ current'[i] = left
    BY <1>2, <1>3, <1>6, <1>9
  <2>2. i \in DOMAIN pool'.frames /\ pool'.frames[i].page = o
    BY <1>6, <1>9 DEF InPool, Cached
  <2>3. i \in DOMAIN pool.frames /\ pool'.frames[i] = pool.frames[i]
    BY <1>7, <2>1, <2>2
  <2>4. InPool(o)
    BY <1>9, <2>2, <2>3 DEF InPool, Cached
  <2>5. pool'.frames[i].dirty
    BY <1>6, <1>9, <2>3, <2>4 DEF MarkedDirtyInPool
  <2>6. heap'[o] = h[o]
    <3>1. o \in Live'
      BY <2>2 DEF Live
    <3> QED
      BY <1>7, <3>1, CollectedHeap
  <2>7. heap'[pool'.frames[i].page].content = current'[i] /\ Cached(pool', i)
    BY <1>4, <2>1, <2>2, <2>6 DEF Cached
  <2> QED
    BY <2>5, <2>7, DirtyFound
<1>10. CASE i # nextId /\ i # IdOf(o)
  <2>1. current'[i] = current[i]
    BY <1>2, <1>6, <1>10
  <2>2. \A x \in Objects : IdOf(x) = i => h[x].content = heap[x].content
    BY <1>4, <1>10
  <2> QED
    <3>1. PICK dirty : dirty = TRUE
      OBVIOUS
    <3>2. Puts(n, nextId, dirty, h) /\ PageOK(i)
      BY <1>3, <1>10, <3>1
    <3> QED
      BY <1>3, <1>10, <2>1, <2>2, <3>2, PutsKeepPage
<1> QED
  BY <1>8, <1>9, <1>10

\* after a page was allocated,
LEMMA AllocateFound ==
    ASSUME Typed, Backed, NEW content \in Val, Allocate(content),
           NEW i \in Id, i # nextId => PageOK(i)
    PROVE  PageOK(i)'
<1>1. PICK n : n = Fresh(nextId)
  OBVIOUS
<1> DEFINE h == With(n, Logged(BlankPage, content))
<1>2. LogTyped /\ content \in Content /\ current \in [Id -> Content]
  BY TypedFacts DEF Content, Typed, HistoryTyped
<1>3. nextId \in Id /\ n \notin Objects /\ Puts(n, nextId, TRUE, h)
  BY <1>1, AllocatePuts
<1>4. h[n].content = content /\ \A x \in Objects : h[x] = heap[x]
  <2>1. Logged(BlankPage, content).content = content
    BY <1>2, BlankImage, ImageOf
  <2> QED
    BY <1>3, <2>1 DEF With
<1>5. current' = [current EXCEPT ![nextId] = content]
  BY DEF Allocate
<1> HIDE DEF h
<1>6. CASE i = nextId
  <2>1. current'[i] = content
    BY <1>2, <1>5, <1>6
  <2> QED
    BY <1>3, <1>4, <1>6, <2>1, PutsFound
<1>7. CASE i # nextId
  <2>1. current'[i] = current[i]
    BY <1>2, <1>5, <1>7
  <2> QED
    <3>1. PICK dirty : dirty = TRUE
      OBVIOUS
    <3>2. Puts(n, nextId, dirty, h) /\ PageOK(i)
      BY <1>3, <1>7, <3>1
    <3>3. \A x \in Objects : IdOf(x) = i => h[x].content = heap[x].content
      BY <1>4
    <3> QED
      BY <1>3, <1>7, <2>1, <3>2, <3>3, PutsKeepPage
<1> QED
  BY <1>6, <1>7

\* after a flush,
LEMMA FlushFound ==
    ASSUME Typed, Flush, NEW i \in Id, PageOK(i)
    PROVE  PageOK(i)'
<1>1. PICK q : q = pool'
  OBVIOUS
<1>2. q = Cleaned(pool)
  BY <1>1 DEF Flush
<1>3. /\ DOMAIN q.frames = DOMAIN pool.frames
      /\ \A u \in DOMAIN pool.frames : q.frames[u].page = pool.frames[u].page /\ ~q.frames[u].dirty
  BY <1>2, CleanedShape, TypedFacts
<1>4. /\ file' = [id \in Id |-> IF id \in DirtyIds(pool) THEN Out(id) ELSE file[id]]
      /\ heap' = heap /\ current' = current /\ deferred' = deferred /\ ~writing
  BY DEF Flush, txn, history
<1>5. deferred' = <<>> /\ Len(deferred') = 0
  BY <1>4, TypedFacts
<1>6. file'[i] = IF DirtyInPool(i) THEN heap[pool.frames[i].page] ELSE file[i]
  BY <1>4 DEF DirtyIds, DirtyInPool, Cached, Out
<1>7. /\ Cached(pool', i) <=> Cached(pool, i)
      /\ Cached(pool, i) => pool'.frames[i].page = pool.frames[i].page
  BY <1>1, <1>3 DEF Cached
<1>8. Cached(pool', i) => heap'[pool'.frames[i].page].content = current'[i]
  BY <1>4, <1>7 DEF PageOK
<1>9. Cached(pool, i) => file'[i].content = current'[i]
  BY <1>4, <1>6 DEF PageOK
<1>10. ~Cached(pool, i) => file'[i].content = current'[i]
  <2>1. \A n \in 1..Len(deferred) : IdOf(deferred[n]) # i
    BY <1>4, <1>5
  <2> QED
    BY <1>4, <1>6, <2>1 DEF PageOK, DirtyInPool
<1> QED
  BY <1>5, <1>7, <1>8, <1>9, <1>10 DEF PageOK

\* and after the end of a commit.
LEMMA EndFound ==
    ASSUME Typed, NEW committed \in BOOLEAN, EndTxnWrite(committed), NEW i \in Id, PageOK(i)
    PROVE  PageOK(i)'
<1>1. PICK last : last = LastDeferred(i)
  OBVIOUS
<1>2. file'[i] = IF last = 0 THEN file[i] ELSE heap[deferred[last]]
  BY <1>1, EndWrites
<1>3. \/ last = 0 /\ \A n \in 1..Len(deferred) : IdOf(deferred[n]) # i
      \/ last # 0 /\ last \in 1..Len(deferred) /\ LastFor(last, i)
  BY <1>1, LastShape DEF Typed
<1>4. /\ Collect(heap) /\ pool' = pool /\ current' = current
      /\ deferred' = <<>> /\ Len(deferred') = 0
  BY DEF EndTxnWrite, history
<1>5. Cached(pool', i) => heap'[pool'.frames[i].page].content = current'[i]
  <2>1. Cached(pool', i) => pool'.frames[i].page \in Live'
    BY DEF Live, Cached
  <2> QED
    BY <1>4, <2>1, CollectedHeap DEF PageOK
<1>6. ~DirtyInPool(i) => file'[i].content = current'[i]
  <2>1. CASE last # 0
    BY <1>2, <1>3, <1>4, <2>1 DEF PageOK
  <2>2. CASE last = 0
    BY <1>2, <1>3, <1>4, <2>2 DEF PageOK
  <2> QED
    BY <2>1, <2>2
<1>7. DirtyInPool(i)' <=> DirtyInPool(i)
  BY <1>4 DEF DirtyInPool
<1>8. ~Cached(pool', i) => ~DirtyInPool(i)
  BY <1>4 DEF DirtyInPool
<1> QED
  BY <1>4, <1>5, <1>6, <1>7, <1>8 DEF PageOK

\* The steps that change neither the pool's pages, nor the file, nor what is put
\* aside, nor what the page was given last.
LEMMA QuietFound ==
    ASSUME Typed, [Next]_vars, NEW i \in Id, PageOK(i),
           \/ UNCHANGED vars
           \/ \E id \in Id : Hit(id) \/ Pin(id) \/ Unpin(id)
           \/ \E o \in Objects : WriteRaises(o) /\ i \notin torn'
           \/ Return \/ BeginTxnWrite
    PROVE  PageOK(i)'
<1>1. ASSUME pool' = pool, heap' = heap, file' = file, deferred' = deferred, current' = current
      PROVE  PageOK(i)'
  BY <1>1 DEF PageOK, DirtyInPool, LastFor
<1>2. CASE UNCHANGED vars
  BY <1>1, <1>2 DEF vars, txn, history
<1>3. ASSUME heap' = heap, file' = file, deferred' = deferred, current' = current,
             DOMAIN pool'.frames = DOMAIN pool.frames,
             \A u \in DOMAIN pool.frames :
                pool'.frames[u].page = pool.frames[u].page /\ pool'.frames[u].dirty = pool.frames[u].dirty
      PROVE  PageOK(i)'
  BY <1>3, SamePage DEF Cached
<1>4. ASSUME NEW id \in Id, Hit(id)
      PROVE  PageOK(i)'
  <2>1. PICK q : q = pool'
    OBVIOUS
  <2>2. q.frames = pool.frames
    BY <1>4, <2>1, TouchedShape, TypedFacts DEF Hit
  <2> QED
    BY <1>3, <1>4, <2>1, <2>2 DEF Hit, txn, history
<1>5. ASSUME NEW id \in Id, Pin(id) \/ Unpin(id)
      PROVE  PageOK(i)'
  <2>1. PICK q : q = pool'
    OBVIOUS
  <2>2. Cached(pool, id) /\ (q = Pinned(pool, id) \/ q = Unpinned(pool, id))
    BY <1>5, <2>1 DEF Pin, Unpin
  <2>3. /\ DOMAIN q.frames = DOMAIN pool.frames
        /\ \A u \in DOMAIN pool.frames :
             q.frames[u].page = pool.frames[u].page /\ q.frames[u].dirty = pool.frames[u].dirty
    BY <2>2, RepinnedShape, TypedFacts
  <2> QED
    BY <1>3, <1>5, <2>1, <2>3 DEF Pin, Unpin, txn, history
<1>6. ASSUME NEW o \in Objects, WriteRaises(o), i \notin torn'
      PROVE  PageOK(i)'
  <2> DEFINE h == [heap EXCEPT ![o].content = Torn]
  <2>1. \A x \in Objects : x # o => h[x] = heap[x]
    BY TypedFacts
  <2>2. Collect(h) /\ i # IdOf(o)
    BY <1>6 DEF WriteRaises
  <2> HIDE DEF h
  <2>3. \A x \in Objects : x \in Live' /\ IdOf(x) = i => heap'[x].content = heap[x].content
    BY <2>1, <2>2, CollectedHeap
  <2> QED
    BY <1>6, <2>3, SamePage DEF WriteRaises, txn
<1>7. CASE Return
  <2>1. \A x \in Objects : x \in Live' /\ IdOf(x) = i => heap'[x].content = heap[x].content
    BY <1>7, CollectedHeap DEF Return
  <2> QED
    BY <1>7, <2>1, SamePage DEF Return, txn, history
<1>8. CASE BeginTxnWrite
  <2>1. deferred' = deferred
    BY <1>8, TypedFacts DEF BeginTxnWrite
  <2> QED
    BY <1>1, <1>8, <2>1 DEF BeginTxnWrite, history
<1> QED
  BY <1>2, <1>4, <1>5, <1>6, <1>7, <1>8

\* Every step keeps what the pages are found as.
LEMMA StepPages ==
    ASSUME Backed, Typed, MarkedDirtyInPool, [Next]_vars, ~slipped',
           ~slipped => \A i \in Id \ torn : i < nextId => PageOK(i),
           NEW i \in Id \ torn', i < nextId'
    PROVE  PageOK(i)'
<1>1. ASSUME NEW id \in Id, Miss(id)
      PROVE  PageOK(i)'
  <2>1. /\ ~slipped /\ torn' = torn /\ nextId' = nextId /\ id < nextId /\ current' = current
        /\ i = id => file[id].content = current[id]
    BY <1>1 DEF Miss
  <2>2. PageOK(i)
    BY <2>1
  <2>3. CASE i = id
    BY <1>1, <2>1, <2>2, <2>3, MissFound
  <2>4. CASE i # id
    <3>1. Fresh(id) \notin Objects /\ Puts(Fresh(id), id, FALSE, With(Fresh(id), file[id]))
      BY <1>1, MissPuts
    <3>2. PICK clean : clean = FALSE
      OBVIOUS
    <3>3. PICK o : o = Fresh(id)
      OBVIOUS
    <3>4. \A x \in Objects : With(o, file[id])[x] = heap[x]
      BY <3>1, <3>3 DEF With
    <3>5. PICK h : h = With(o, file[id])
      OBVIOUS
    <3>6. Puts(o, id, clean, h) /\ \A x \in Objects : IdOf(x) = i => h[x].content = heap[x].content
      BY <3>1, <3>2, <3>3, <3>4, <3>5
    <3> QED
      BY <2>1, <2>2, <2>4, <3>6, PutsKeepPage
  <2> QED
    BY <2>3, <2>4
<1>2. ASSUME NEW o \in Objects, NEW content \in Val, Write(o, content)
      PROVE  PageOK(i)'
  <2>1. ~slipped /\ torn' = torn \ {IdOf(o)} /\ nextId' = nextId
    BY <1>2 DEF Write
  <2> QED
    BY <1>2, <2>1, WriteFound
<1>3. ASSUME NEW o \in Objects, NEW left \in Val, NEW right \in Val, Split(o, left, right)
      PROVE  PageOK(i)'
  <2>1. slipped' = (slipped \/ Slips(o) \/ ~InPool(o)') /\ torn' = torn
    BY <1>3 DEF Split
  <2>2. nextId' = nextId + 1 /\ nextId \in Nat
    BY <1>3 DEF Split, New, Typed, LogTyped
  <2>3. i # nextId => i < nextId
    BY <2>2 DEF Id
  <2>4. ~slipped
    BY <2>1
  <2>5. i # nextId => PageOK(i)
    BY <2>1, <2>3, <2>4
  <2> QED
    BY <1>3, <2>5, SplitFound
<1>4. ASSUME NEW content \in Val, Allocate(content)
      PROVE  PageOK(i)'
  <2>1. slipped' = slipped /\ torn' = torn
    BY <1>4 DEF Allocate
  <2>2. nextId' = nextId + 1 /\ nextId \in Nat
    BY <1>4 DEF Allocate, New, Typed, LogTyped
  <2>3. i # nextId => i < nextId
    BY <2>2 DEF Id
  <2>4. i # nextId => PageOK(i)
    BY <2>1, <2>3
  <2> QED
    BY <1>4, <2>4, AllocateFound
<1>5. CASE Flush
  BY <1>5, FlushFound DEF Flush, history
<1>6. ASSUME NEW committed \in BOOLEAN, EndTxnWrite(committed)
      PROVE  PageOK(i)'
  BY <1>6, EndFound DEF EndTxnWrite, history
<1>7. ASSUME \/ UNCHANGED vars
             \/ \E id \in Id : Hit(id) \/ Pin(id) \/ Unpin(id)
             \/ \E o \in Objects : WriteRaises(o)
             \/ Return \/ BeginTxnWrite
      PROVE  PageOK(i)'
  <2>1. torn \subseteq torn' /\ nextId' = nextId /\ slipped' = slipped
    BY <1>7 DEF vars, history, Hit, Pin, Unpin, WriteRaises, Return, BeginTxnWrite
  <2>2. PageOK(i)
    BY <2>1
  <2> QED
    BY <1>7, <2>2, QuietFound
<1> QED
  BY <1>1, <1>2, <1>3, <1>4, <1>5, <1>6, <1>7 DEF Next

\* The invariant of the cache holds at first.
LEMMA InitCacheInv == Backed /\ Init => CacheInv
<1> SUFFICES ASSUME Backed, Init
             PROVE  CacheInv
  OBVIOUS
<1>1. Typed /\ op = Idle /\ pool.order = <<>> /\ Len(pool.order) = 0 /\ DOMAIN pool.frames = {}
  <2>1. pool.order = <<>> /\ pool.frames = <<>>
    BY DEF Init, EmptyPool
  <2> QED
    BY <2>1, InitTyped DEF Init
<1>2. OpInv /\ MarkedDirtyInPool
  BY <1>1, IdleTyped DEF OpInv, MarkedDirtyInPool, ReadLast, WorkingSetStays
<1>3. ASSUME NEW id \in Id, id < nextId
      PROVE  PageOK(id)
  <2>1. deferred = <<>> /\ Len(deferred) = 0
    BY DEF Init
  <2>2. file[id].content = current[id]
    BY <1>3 DEF Init
  <2> QED
    BY <1>1, <2>1, <2>2 DEF PageOK, Cached
<1> QED
  BY <1>2, <1>3 DEF CacheInv

\* A page that the invariant speaks of is read as it was written last.
LEMMA CacheInvFinds == Backed /\ CacheInv => CacheCoherent
<1> SUFFICES ASSUME Backed, CacheInv
             PROVE  CacheCoherent
  OBVIOUS
<1>1. Typed /\ (~slipped => \A id \in Id \ torn : id < nextId => PageOK(id))
  BY DEF CacheInv, OpInv
<1>2. nextId \in 0..MaxPages /\ MaxPages \in Nat /\ lsn \in Nat /\ flushed \in 0..lsn
  BY <1>1, BoundAssumption DEF Typed, LogTyped
<1>3. TypeOK
  <2>1. DOMAIN pool.frames = ToSet(pool.order) /\ Cardinality(ToSet(pool.order)) = Size(pool)
    BY <1>1, SizeIsCount, TypedFacts
  <2>2. \A id \in DOMAIN pool.frames :
          pool.frames[id].page \in Objects /\ IdOf(pool.frames[id].page) = id
    BY <1>1, FrameTyped
  <2>3. ASSUME NEW o \in Objects
        PROVE  /\ IdOf(o) \in 0..(nextId - 1) /\ heap[o].content \in Content
               /\ heap[o].lsn \in 0..lsn
    <3>1. /\ IdOf(o) \in Id /\ IdOf(o) < nextId /\ heap[o] \in Image
          /\ heap[o].lsn \in Nat /\ heap[o].lsn <= lsn
      BY <1>1, TypedFacts
    <3>2. IdOf(o) \in 0..(nextId - 1)
      BY <1>2, <3>1 DEF Id
    <3> QED
      BY <1>2, <3>1, <3>2 DEF Image
  <2>4. ASSUME NEW id \in Id, file[id] # Absent
        PROVE  file[id].content \in Content /\ file[id].lsn \in 0..lsn
    <3>1. file[id] \in Image /\ file[id].lsn <= flushed
      BY <1>1, <2>4 DEF Typed, FileTyped
    <3> QED
      BY <1>2, <3>1 DEF Image
  <2>5. op.marked \subseteq op.held /\ op.held \subseteq Objects /\ ToSet(deferred) \subseteq Objects
    BY <1>1, TypedFacts, ToSetOf
  <2> QED
    BY <1>2, <2>1, <2>2, <2>3, <2>4, <2>5 DEF TypeOK
<1>4. Coherent
  <2> SUFFICES ASSUME ~slipped, NEW id \in 0..(nextId - 1), id \notin torn
               PROVE  Visible(id) = current[id]
    BY DEF Coherent
  <2>1. id \in Id /\ id < nextId
    BY <1>2 DEF Id
  <2>2. PageOK(id) /\ file[id] # Absent
    BY <1>1, <2>1 DEF Typed, FileTyped
  <2>3. CASE Cached(pool, id)
    BY <2>2, <2>3 DEF Visible, PageOK
  <2>4. CASE ~Cached(pool, id)
    <3>1. DOMAIN deferred = 1..Len(deferred)
      BY <1>1, TypedFacts
    <3>2. PICK last : last = LastDeferred(id)
      OBVIOUS
    <3>3. \/ last = 0 /\ \A n \in 1..Len(deferred) : IdOf(deferred[n]) # id
          \/ last \in 1..Len(deferred) /\ LastFor(last, id)
      BY <1>1, <3>2, LastShape DEF Typed
    <3>4. CASE \A n \in 1..Len(deferred) : IdOf(deferred[n]) # id
      BY <2>2, <2>4, <3>1, <3>4 DEF Visible, PageOK
    <3>5. CASE last \in 1..Len(deferred) /\ LastFor(last, id)
      <4>1. heap[deferred[last]].content = current[id]
        BY <2>2, <2>4, <3>5 DEF PageOK, DirtyInPool
      <4>2. \E n \in DOMAIN deferred : IdOf(deferred[n]) = id
        BY <3>1, <3>5 DEF LastFor
      <4>3. Visible(id) = heap[deferred[LastDeferred(id)]].content
        BY <2>4, <4>2 DEF Visible, LastDeferred
      <4> QED
        BY <3>2, <4>1, <4>3
    <3> QED
      BY <3>3, <3>4, <3>5
  <2> QED
    BY <2>3, <2>4
<1>5. CleanPagesInFile
  <2> SUFFICES ASSUME ~slipped, NEW id \in DOMAIN pool.frames,
                      ~pool.frames[id].dirty, id \notin torn
               PROVE  file[id].content = current[id]
    BY DEF CleanPagesInFile
  <2>1. PageOK(id)
    BY <1>1, FrameTyped
  <2> QED
    BY <2>1 DEF PageOK, Cached, DirtyInPool
<1> QED
  BY <1>3, <1>4, <1>5 DEF CacheCoherent

\* Through every order of hits, misses, evictions, flushes and commits, what
\* get_page finds is what the page was given last, and a page that is not dirty
\* is in the file as it is (bplus_pager.py:261-424), when there is a file: without
\* one an evicted dirty page goes nowhere.
THEOREM CacheIsCoherent == Backed => (Spec => []CacheCoherent)
<1> SUFFICES ASSUME Backed
             PROVE  Spec => []CacheCoherent
  OBVIOUS
<1>1. Init => CacheInv
  BY InitCacheInv
<1>2. CacheInv /\ [Next]_vars => CacheInv'
  <2> SUFFICES ASSUME CacheInv, [Next]_vars
               PROVE  CacheInv'
    OBVIOUS
  <2>1. Typed /\ OpInv /\ MarkedDirtyInPool
    BY DEF CacheInv, OpInv
  <2>2. OpInv' /\ MarkedDirtyInPool'
    BY <2>1, StepOpInv, StepMarked
  <2>3. ASSUME ~slipped', NEW id \in Id \ torn', id < nextId'
        PROVE  PageOK(id)'
    BY <2>1, <2>3, StepPages DEF CacheInv
  <2> QED
    BY <2>2, <2>3 DEF CacheInv
<1>3. CacheInv => CacheCoherent
  BY CacheInvFinds
<1> QED
  BY <1>1, <1>2, <1>3, PTL DEF Spec
=============================================================================
