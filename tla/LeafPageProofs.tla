---------------------------- MODULE LeafPageProofs ----------------------------
(***************************************************************************)
(* Theorems about LeafPage and SlottedPage, for every size of a page and   *)
(* every number and length of rows: records never share a byte, slots keep *)
(* their records, compaction gives back all the space, and a leaf is the   *)
(* sorted map of its rows.                                                 *)
(***************************************************************************)
EXTENDS LeafPage, ListLemmas

-----------------------------------------------------------------------------
(* Pages and the cells on them. *)

Cells == [key : Int, len : Nat]
Layouts == [size : Nat, freeStart : Nat, freeEnd : Int, slots : Seq(Int),
            records : UNION {[D -> Cells] : D \in SUBSET Int}]

\* A new page is a page.
LEMMA NewPageType == NewPage(BodySize) \in Layouts
<1>1. <<>> \in [{} -> Cells] /\ {} \in SUBSET Int
  OBVIOUS
<1>2. <<>> \in UNION {[D -> Cells] : D \in SUBSET Int}
  BY <1>1
<1> QED
  BY <1>2, LeafAssumption DEF NewPage, Layouts, HeaderSize

\* A page on which a record is placed is a page.
LEMMA PlacedType ==
    ASSUME NEW page_ \in Layouts, NEW cell \in Cells
    PROVE  Placed(page_, cell) \in Layouts /\ Inserted(page_, cell) \in Layouts
<1>1. PICK D \in SUBSET Int : page_.records \in [D -> Cells]
  BY DEF Layouts
<1> DEFINE offset == page_.freeEnd - Occupies(cell)
           held == [o \in DOMAIN page_.records \cup {offset} |->
                       IF o = offset THEN cell ELSE page_.records[o]]
<1>2. offset \in Int
  BY DEF Occupies, PrefixSize, Layouts, Cells
<1>3. held \in [D \cup {offset} -> Cells] /\ D \cup {offset} \in SUBSET Int
  BY <1>1, <1>2
<1>4. held \in UNION {[E -> Cells] : E \in SUBSET Int}
  BY <1>3
<1>5. Append(page_.slots, offset) \in Seq(Int)
  BY <1>2 DEF Layouts
<1>6. Placed(page_, cell) = [page_ EXCEPT !.freeEnd = offset,
                                          !.slots = Append(page_.slots, offset),
                                          !.records = held]
  BY DEF Placed
<1> HIDE DEF offset, held
<1>7. Placed(page_, cell) \in Layouts
  BY <1>2, <1>4, <1>5, <1>6 DEF Layouts
<1>8. PICK to : to = Placed(page_, cell)
  OBVIOUS
<1>9. [to EXCEPT !.freeStart = @ + SlotSize] \in Layouts
  <2>1. PICK start \in Nat : start = to.freeStart + SlotSize
    BY <1>7, <1>8 DEF SlotSize, Layouts
  <2>2. [to EXCEPT !.freeStart = start] \in Layouts
    BY <1>7, <1>8 DEF Layouts
  <2> QED
    BY <2>1, <2>2
<1> QED
  BY <1>7, <1>8, <1>9 DEF Inserted

\* One step of _rebuild, and what it begins with.
Adding(to, cell) ==
    IF to.raised \/ ~IsKey(cell.key) \/ ~Room(to.body, cell) THEN [to EXCEPT !.raised = TRUE]
    ELSE [to EXCEPT !.body = Inserted(@, cell)]
Start == [body |-> NewPage(BodySize), raised |-> FALSE]
Rebuilding == [body : Layouts, raised : BOOLEAN]

\* One step of _rebuild keeps the type of what it makes.
LEMMA AddingType ==
    /\ Start \in Rebuilding
    /\ \A to \in Rebuilding, cell \in Cells : Adding(to, cell) \in Rebuilding
<1>1. Start \in Rebuilding
  BY NewPageType DEF Start, Rebuilding
<1>2. ASSUME NEW to \in Rebuilding, NEW cell \in Cells
      PROVE  Adding(to, cell) \in Rebuilding
  <2>1. to.body \in Layouts
    BY DEF Rebuilding
  <2>2. Inserted(to.body, cell) \in Layouts
    BY <2>1, PlacedType
  <2> QED
    BY <2>2 DEF Adding, Rebuilding
<1> QED
  BY <1>1, <1>2

\* _rebuild, one entry after the other.
LEMMA RebuiltSteps ==
    ASSUME NEW cells \in Seq(Cells)
    PROVE  \E to : /\ to = [n \in 0..Len(cells) |-> to[n]]
                   /\ to[0] = Start
                   /\ \A n \in 1..Len(cells) : to[n] = Adding(to[n - 1], cells[n])
                   /\ Rebuilt(cells) = to[Len(cells)]
<1> DEFINE N == Len(cells)
           R(it) == it = [s \in SUBSET (1..N) |->
                            IF s = {} THEN Start ELSE Adding(it[s \ {Max(s)}], cells[Max(s)])]
           step == [x \in Rebuilding \X (1..N) |-> Adding(x[1], cells[x[2]])]
<1>1. N \in Nat /\ DOMAIN cells = 1..N /\ \A n \in 1..N : cells[n] \in Cells
  OBVIOUS
<1>2. step \in [Rebuilding \X (1..N) -> Rebuilding]
  BY <1>1, AddingType
<1>3. PICK it \in [SUBSET (1..N) -> Rebuilding] : Folding(it, N, Start, step)
  <2>1. N \in Nat /\ Start \in Rebuilding
    BY <1>1, AddingType
  <2> HIDE DEF step, N, R
  <2> QED
    BY <1>2, <2>1, FoldExists
<1>4. R(it)
  <2>1. ASSUME NEW s \in SUBSET (1..N), s # {}
        PROVE  step[<<it[s \ {Max(s)}], Max(s)>>] = Adding(it[s \ {Max(s)}], cells[Max(s)])
    BY <1>1, <2>1, MaxWithin
  <2> HIDE DEF step, N
  <2> QED
    BY <1>3, <2>1 DEF Folding
<1>5. Rebuilt(cells) = (CHOOSE g : R(g))[1..N]
  BY <1>1 DEF Rebuilt, FoldLeft, MapThenFoldSet, Adding, Start
<1>6. PICK g : R(g) /\ Rebuilt(cells) = g[1..N]
  <2> HIDE DEF R
  <2> QED
    BY <1>4, <1>5, Zenon
<1> DEFINE to == [n \in 0..N |-> g[1..n]]
<1>7. to[0] = Start /\ to[N] = Rebuilt(cells)
  <2>1. 1..0 = {} /\ 0 \in 0..N /\ N \in 0..N
    BY <1>1
  <2> QED
    BY <1>6, <2>1
<1>8. ASSUME NEW n \in 1..N
      PROVE  to[n] = Adding(to[n - 1], cells[n])
  <2>1. Max(1..n) = n /\ (1..n) \ {n} = 1..(n - 1) /\ 1..n # {}
    BY LastOfInterval
  <2>2. n \in 0..N /\ n - 1 \in 0..N /\ 1..n \in SUBSET (1..N)
    BY <1>1
  <2> QED
    BY <1>6, <2>1, <2>2
<1> HIDE DEF to, N
<1>9. to = [n \in 0..N |-> to[n]]
  BY DEF to
<1> QED
  BY <1>7, <1>8, <1>9 DEF N

\* _rebuild of no entries, and of one entry more.
LEMMA RebuiltNone == Rebuilt(<<>>) = Start
<1>1. <<>> \in Seq(Cells) /\ Len(<<>>) = 0
  OBVIOUS
<1> QED
  BY <1>1, RebuiltSteps

\* One entry more is one step more of _rebuild.
LEMMA RebuiltMore ==
    ASSUME NEW cells \in Seq(Cells), NEW cell \in Cells
    PROVE  Rebuilt(Append(cells, cell)) = Adding(Rebuilt(cells), cell)
<1>1. PICK some : some = Append(cells, cell)
  OBVIOUS
<1>2. /\ some \in Seq(Cells) /\ Len(some) = Len(cells) + 1 /\ some[Len(cells) + 1] = cell
      /\ \A n \in 1..Len(cells) : some[n] = cells[n]
      /\ Len(cells) \in Nat
  BY <1>1
<1>3. PICK to : /\ to[0] = Start
                /\ \A n \in 1..Len(cells) : to[n] = Adding(to[n - 1], cells[n])
                /\ Rebuilt(cells) = to[Len(cells)]
  BY RebuiltSteps
<1>4. PICK more : /\ more[0] = Start
                  /\ \A n \in 1..Len(some) : more[n] = Adding(more[n - 1], some[n])
                  /\ Rebuilt(some) = more[Len(some)]
  BY <1>2, RebuiltSteps
<1> DEFINE Same == {n \in 0..Len(cells) : more[n] = to[n]}
<1>5. 0 \in Same
  BY <1>2, <1>3, <1>4
<1>6. ASSUME NEW n \in 1..Len(cells), n - 1 \in Same
      PROVE  n \in Same
  <2>1. n \in 1..Len(some) /\ n \in 0..Len(cells)
    BY <1>2
  <2> QED
    BY <1>2, <1>3, <1>4, <1>6, <2>1
<1> HIDE DEF Same
<1>7. Len(cells) \in Same
  <2>1. Len(cells) \in Nat /\ Len(cells) \in 0..Len(cells)
    BY <1>2
  <2>2. 0..Len(cells) \subseteq Same
    BY <2>1, <1>5, <1>6, CountUp
  <2> QED
    BY <2>1, <2>2
<1>8. more[Len(cells)] = to[Len(cells)]
  BY <1>7 DEF Same
<1>9. more[Len(cells) + 1] = Adding(more[Len(cells)], cell)
  <2>1. Len(cells) + 1 \in 1..Len(some) /\ Len(cells) + 1 - 1 = Len(cells)
    BY <1>2
  <2> QED
    BY <1>2, <1>4, <2>1
<1> QED
  BY <1>1, <1>2, <1>3, <1>4, <1>8, <1>9

-----------------------------------------------------------------------------
(* The space of a page. *)

\* The slots end before the records, and each record lies below those of the
\* slots before it.
SpaceOK(body) ==
    /\ body \in Layouts /\ body.size = BodySize
    /\ body.freeStart = HeaderSize + SlotSize * Len(body.slots)
    /\ body.freeStart <= body.freeEnd /\ body.freeEnd <= BodySize
    /\ \A n \in Live(body) :
         /\ body.slots[n] \in DOMAIN body.records /\ body.freeEnd <= body.slots[n]
         /\ body.slots[n] + Occupies(Read(body, n)) <= BodySize
    /\ \A m, n \in Live(body) : m < n => body.slots[n] + Occupies(Read(body, n)) <= body.slots[m]

\* What a page on which a record has been placed holds.
LEMMA PlacedShape ==
    ASSUME NEW body \in Layouts, NEW cell \in Cells, NEW to, to = Placed(body, cell),
           \A n \in Live(body) : body.slots[n] \in DOMAIN body.records /\ body.freeEnd <= body.slots[n],
           body.freeEnd > Occupies(cell)
    PROVE  /\ to \in Layouts /\ to.size = body.size /\ to.freeStart = body.freeStart
           /\ Len(body.slots) \in Nat /\ Len(to.slots) = Len(body.slots) + 1
           /\ to.freeEnd = body.freeEnd - Occupies(cell) /\ Occupies(cell) \in Nat \ {0}
           /\ Live(to) = Live(body) \cup {Len(body.slots) + 1}
           /\ to.slots[Len(to.slots)] = to.freeEnd /\ Read(to, Len(to.slots)) = cell
           /\ to.freeEnd \in DOMAIN to.records
           /\ \A n \in 1..Len(body.slots) : to.slots[n] = body.slots[n]
           /\ \A n \in Live(body) : /\ Read(to, n) = Read(body, n)
                                    /\ to.slots[n] \in DOMAIN to.records
<1>1. to \in Layouts
  BY PlacedType
<1>2. /\ body.slots \in Seq(Int) /\ body.freeEnd \in Int /\ body.freeStart \in Nat
      /\ Len(body.slots) \in Nat /\ Occupies(cell) \in Nat \ {0}
      /\ body = [size |-> body.size, freeStart |-> body.freeStart, freeEnd |-> body.freeEnd,
                 slots |-> body.slots, records |-> body.records]
  BY DEF Layouts, Occupies, PrefixSize, Cells
<1>3. PICK offset : offset = body.freeEnd - Occupies(cell)
  OBVIOUS
<1>4. /\ to.size = body.size /\ to.freeStart = body.freeStart /\ to.freeEnd = offset
      /\ to.slots = Append(body.slots, offset)
      /\ to.records = [o \in DOMAIN body.records \cup {offset} |->
                          IF o = offset THEN cell ELSE body.records[o]]
  BY <1>2, <1>3 DEF Placed
<1>5. offset \in Nat \ {0} /\ offset < body.freeEnd
  BY <1>2, <1>3
<1>6. /\ Len(to.slots) = Len(body.slots) + 1 /\ to.slots[Len(body.slots) + 1] = offset
      /\ \A n \in 1..Len(body.slots) : to.slots[n] = body.slots[n]
      /\ DOMAIN to.slots = 1..(Len(body.slots) + 1) /\ DOMAIN body.slots = 1..Len(body.slots)
  BY <1>2, <1>4, <1>5
<1>7. Live(to) = Live(body) \cup {Len(body.slots) + 1}
  BY <1>2, <1>5, <1>6 DEF Live, Deleted
<1>8. \A n \in Live(body) : /\ n \in 1..Len(body.slots) /\ to.slots[n] = body.slots[n]
                            /\ body.slots[n] \in Int
  BY <1>2, <1>6 DEF Live
<1>9. \A n \in Live(body) : Read(to, n) = Read(body, n) /\ to.slots[n] \in DOMAIN to.records
  <2> TAKE n \in Live(body)
  <2>1. body.slots[n] # offset
    BY <1>2, <1>5, <1>8
  <2> QED
    BY <1>4, <1>8, <2>1 DEF Read
<1>10. Read(to, Len(to.slots)) = cell /\ to.freeEnd \in DOMAIN to.records
  BY <1>4, <1>6 DEF Read
<1> QED
  BY <1>1, <1>2, <1>3, <1>4, <1>6, <1>7, <1>9, <1>10

\* An insert that fits overlaps nothing, and moves nothing.
LEMMA InsertedSpace ==
    ASSUME NEW body, SpaceOK(body), NEW cell \in Cells, Room(body, cell)
    PROVE  /\ SpaceOK(Inserted(body, cell))
           /\ Len(Inserted(body, cell).slots) = Len(body.slots) + 1
           /\ Live(Inserted(body, cell)) = Live(body) \cup {Len(body.slots) + 1}
           /\ \A n \in Live(body) : Read(Inserted(body, cell), n) = Read(body, n)
           /\ Read(Inserted(body, cell), Len(body.slots) + 1) = cell
           /\ Inserted(body, cell).freeEnd = body.freeEnd - Occupies(cell)
<1>1. PICK to : to = Placed(body, cell)
  OBVIOUS
<1>2. PICK new : new = Inserted(body, cell)
  OBVIOUS
<1>3. body \in Layouts /\ Len(body.slots) \in Nat /\ body.freeEnd \in Int /\ Occupies(cell) \in Nat
  BY DEF SpaceOK, Layouts, Occupies, Cells, PrefixSize
<1>4. body.freeEnd - body.freeStart >= Occupies(cell) + SlotSize /\ body.freeStart >= HeaderSize
  BY <1>3 DEF Room, Free, SpaceOK, SlotSize, HeaderSize
<1>5. body.freeEnd > Occupies(cell)
  BY <1>3, <1>4 DEF SlotSize, HeaderSize, SpaceOK
<1>6. /\ to \in Layouts /\ to.size = body.size /\ to.freeStart = body.freeStart
      /\ Len(to.slots) = Len(body.slots) + 1
      /\ to.freeEnd = body.freeEnd - Occupies(cell) /\ Occupies(cell) \in Nat \ {0}
      /\ Live(to) = Live(body) \cup {Len(body.slots) + 1}
      /\ to.slots[Len(to.slots)] = to.freeEnd /\ Read(to, Len(to.slots)) = cell
      /\ to.freeEnd \in DOMAIN to.records
      /\ \A n \in 1..Len(body.slots) : to.slots[n] = body.slots[n]
      /\ \A n \in Live(body) : Read(to, n) = Read(body, n) /\ to.slots[n] \in DOMAIN to.records
  <2>1. \A n \in Live(body) : body.slots[n] \in DOMAIN body.records /\ body.freeEnd <= body.slots[n]
    BY DEF SpaceOK
  <2> QED
    BY <1>1, <1>3, <1>5, <2>1, PlacedShape
<1>7. new \in Layouts
  BY <1>2, <1>3, PlacedType
<1>8. /\ new.size = to.size /\ new.freeStart = to.freeStart + SlotSize /\ new.freeEnd = to.freeEnd
      /\ new.slots = to.slots /\ new.records = to.records
  BY <1>1, <1>2, <1>6 DEF Inserted, Layouts
<1>9. Live(new) = Live(to) /\ \A n \in DOMAIN to.slots : Read(new, n) = Read(to, n)
  BY <1>8 DEF Live, Read
<1>10. \A n \in Live(body) : /\ n \in 1..Len(body.slots) /\ n \in DOMAIN to.slots
                             /\ body.slots[n] \in Int /\ to.slots[n] = body.slots[n]
                             /\ Occupies(Read(body, n)) \in Int
  <2> TAKE n \in Live(body)
  <2>1. n \in 1..Len(body.slots) /\ body.slots[n] \in Int
    BY <1>3 DEF Live, Layouts
  <2>2. PICK D \in SUBSET Int : body.records \in [D -> Cells]
    BY <1>3 DEF Layouts
  <2>3. Read(body, n) \in Cells
    BY <2>2 DEF SpaceOK, Read
  <2>4. to.slots \in Seq(Int)
    BY <1>6 DEF Layouts
  <2>5. DOMAIN to.slots = 1..(Len(body.slots) + 1)
    BY <1>6, <2>4
  <2>6. Occupies(Read(body, n)) \in Int
    BY <2>3 DEF Occupies, Cells, PrefixSize
  <2>7. to.slots[n] = body.slots[n]
    BY <1>6, <2>1
  <2> QED
    BY <1>3, <2>1, <2>5, <2>6, <2>7
<1>11. Len(to.slots) \in DOMAIN to.slots /\ Len(to.slots) = Len(body.slots) + 1
  <2>1. to.slots \in Seq(Int)
    BY <1>6 DEF Layouts
  <2> QED
    BY <1>3, <1>6, <2>1
<1>12. SpaceOK(new)
  <2>1. new.size = BodySize /\ new.freeStart = HeaderSize + SlotSize * Len(new.slots)
    <3>1. new.size = BodySize
      BY <1>6, <1>8 DEF SpaceOK
    <3>2. body.freeStart = 12 + 4 * Len(body.slots)
      BY DEF SpaceOK, SlotSize, HeaderSize
    <3>3. new.freeStart = body.freeStart + 4 /\ Len(new.slots) = Len(body.slots) + 1
      BY <1>6, <1>8 DEF SlotSize
    <3> QED
      BY <1>3, <3>1, <3>2, <3>3 DEF SlotSize, HeaderSize
  <2>2. new.freeStart <= new.freeEnd /\ new.freeEnd <= BodySize
    BY <1>3, <1>4, <1>6, <1>8, LeafAssumption, SMTT(20) DEF SpaceOK, SlotSize, HeaderSize
  <2>3. \A n \in Live(new) : /\ new.slots[n] \in DOMAIN new.records /\ new.freeEnd <= new.slots[n]
                             /\ new.slots[n] + Occupies(Read(new, n)) <= BodySize
    <3> TAKE n \in Live(new)
    <3>1. CASE n \in Live(body)
      BY <1>3, <1>6, <1>8, <1>9, <1>10, <3>1, LeafAssumption, SMTT(20) DEF SpaceOK
    <3>2. CASE n = Len(body.slots) + 1
      BY <1>3, <1>6, <1>8, <1>9, <1>11, <3>2, LeafAssumption DEF SpaceOK
    <3> QED
      BY <1>6, <1>9, <3>1, <3>2
  <2>4. ASSUME NEW m \in Live(new), NEW n \in Live(new), m < n
        PROVE  new.slots[n] + Occupies(Read(new, n)) <= new.slots[m]
    <3>1. m \in Live(body)
      <4>1. n <= Len(body.slots) + 1
        BY <1>3, <1>6, <1>9, <1>10
      <4> QED
        BY <1>3, <1>6, <1>9, <1>10, <2>4, <4>1
    <3>2. CASE n \in Live(body)
      BY <1>6, <1>8, <1>9, <1>10, <3>1, <3>2, <2>4 DEF SpaceOK
    <3>3. CASE n = Len(body.slots) + 1
      <4>1. body.freeEnd <= body.slots[m]
        BY <3>1 DEF SpaceOK
      <4> QED
        BY <1>3, <1>6, <1>8, <1>9, <1>10, <1>11, <3>1, <3>3, <4>1
    <3> QED
      BY <1>6, <1>9, <3>2, <3>3
  <2> QED
    BY <1>7, <2>1, <2>2, <2>3, <2>4 DEF SpaceOK
<1> QED
  BY <1>2, <1>6, <1>8, <1>9, <1>10, <1>11, <1>12

\* An empty page.
LEMMA NewSpace == SpaceOK(NewPage(BodySize)) /\ Live(NewPage(BodySize)) = {}
                  /\ Len(NewPage(BodySize).slots) = 0
BY NewPageType, LeafAssumption DEF SpaceOK, NewPage, Live, SlotSize, HeaderSize

\* What _rebuild has made of the first n entries: a prefix of them is on the page,
\* all of them unless it raised.
Built(to, cells, n) ==
    /\ to \in Rebuilding /\ SpaceOK(to.body)
    /\ \E j \in 0..n : /\ Len(to.body.slots) = j /\ Live(to.body) = 1..j
                       /\ \A k \in 1..j : Read(to.body, k) = cells[k] /\ IsKey(cells[k].key)
                       /\ to.raised <=> j < n

\* _rebuild makes a page on which no records overlap.
LEMMA RebuiltSpace ==
    ASSUME NEW cells \in Seq(Cells)
    PROVE  Built(Rebuilt(cells), cells, Len(cells))
<1>1. PICK to : /\ to[0] = Start
                /\ \A n \in 1..Len(cells) : to[n] = Adding(to[n - 1], cells[n])
                /\ Rebuilt(cells) = to[Len(cells)]
  BY RebuiltSteps
<1> DEFINE Good == {n \in 0..Len(cells) : Built(to[n], cells, n)}
<1>2. Len(cells) \in Nat /\ Len(cells) \in 0..Len(cells) /\ \A n \in 1..Len(cells) : cells[n] \in Cells
  OBVIOUS
<1>3. 0 \in Good
  <2>1. Built(Start, cells, 0)
    BY NewSpace, AddingType DEF Built, Start
  <2> QED
    BY <1>1, <1>2, <2>1
<1>4. ASSUME NEW n \in 1..Len(cells), n - 1 \in Good
      PROVE  n \in Good
  <2>1. PICK was : was = to[n - 1]
    OBVIOUS
  <2>2. was \in Rebuilding /\ SpaceOK(was.body) /\ to[n] = Adding(was, cells[n]) /\ cells[n] \in Cells
    BY <1>1, <1>2, <1>4, <2>1 DEF Built
  <2>3. PICK j \in 0..(n - 1) :
            /\ Len(was.body.slots) = j /\ Live(was.body) = 1..j
            /\ \A k \in 1..j : Read(was.body, k) = cells[k] /\ IsKey(cells[k].key)
            /\ was.raised <=> j < n - 1
    BY <1>4, <2>1 DEF Built
  <2>4. CASE was.raised \/ ~IsKey(cells[n].key) \/ ~Room(was.body, cells[n])
    <3>1. to[n] = [was EXCEPT !.raised = TRUE]
      BY <2>2, <2>4 DEF Adding
    <3>2. to[n] \in Rebuilding /\ to[n].body = was.body /\ to[n].raised
      BY <2>2, <3>1 DEF Rebuilding
    <3>3. j \in 0..n /\ j < n
      OBVIOUS
    <3> QED
      BY <2>2, <2>3, <3>2, <3>3 DEF Built
  <2>5. CASE ~was.raised /\ IsKey(cells[n].key) /\ Room(was.body, cells[n])
    <3>1. PICK new : new = Inserted(was.body, cells[n])
      OBVIOUS
    <3>2. to[n] = [was EXCEPT !.body = new]
      BY <2>2, <2>5, <3>1 DEF Adding
    <3>3. j = n - 1 /\ n \in 0..n
      BY <2>3, <2>5
    <3>4. /\ SpaceOK(new) /\ Len(new.slots) = n /\ Live(new) = 1..j \cup {n}
          /\ \A k \in 1..j : Read(new, k) = cells[k]
          /\ Read(new, n) = cells[n]
      BY <2>2, <2>3, <2>5, <3>1, <3>3, InsertedSpace
    <3>5. Live(new) = 1..n /\ \A k \in 1..n : Read(new, k) = cells[k] /\ IsKey(cells[k].key)
      BY <2>3, <2>5, <3>3, <3>4
    <3>6. new \in Layouts
      BY <3>4 DEF SpaceOK
    <3>7. to[n] \in Rebuilding /\ to[n].body = new /\ ~to[n].raised
      BY <2>2, <2>5, <3>2, <3>6 DEF Rebuilding
    <3> QED
      BY <3>3, <3>4, <3>5, <3>7 DEF Built
  <2> QED
    BY <2>4, <2>5
<1> HIDE DEF Good
<1>5. 0..Len(cells) \subseteq Good
  BY <1>2, <1>3, <1>4, CountUp
<1> QED
  BY <1>1, <1>2, <1>5 DEF Good

\* A record that is read is a cell.
LEMMA ReadType ==
    ASSUME NEW body, SpaceOK(body), NEW n \in Live(body)
    PROVE  /\ n \in 1..Len(body.slots) /\ body.slots[n] \in Int /\ Read(body, n) \in Cells
           /\ Occupies(Read(body, n)) \in Nat \ {0} /\ Len(body.slots) \in Nat
<1>1. n \in 1..Len(body.slots) /\ body.slots[n] \in Int /\ Len(body.slots) \in Nat
  BY DEF SpaceOK, Live, Layouts
<1>2. PICK D \in SUBSET Int : body.records \in [D -> Cells]
  BY DEF SpaceOK, Layouts
<1>3. Read(body, n) \in Cells
  BY <1>2 DEF SpaceOK, Read
<1> QED
  BY <1>1, <1>3 DEF Occupies, Cells, PrefixSize

\* delete: the slot is deleted and nothing moves.
LEMMA WithoutSpace ==
    ASSUME NEW body, SpaceOK(body), NEW n \in DOMAIN body.slots
    PROVE  /\ SpaceOK(WithoutSlot(body, n))
           /\ Len(WithoutSlot(body, n).slots) = Len(body.slots)
           /\ Live(WithoutSlot(body, n)) = Live(body) \ {n}
           /\ \A m \in Live(body) \ {n} : Read(WithoutSlot(body, n), m) = Read(body, m)
<1>1. PICK new : new = WithoutSlot(body, n)
  OBVIOUS
<1>2. body \in Layouts
  BY DEF SpaceOK
<1>3. [body.slots EXCEPT ![n] = Deleted] \in Seq(Int)
  BY <1>2 DEF Layouts, Deleted
<1>4. /\ new.size = body.size /\ new.freeStart = body.freeStart /\ new.freeEnd = body.freeEnd
      /\ new.records = body.records /\ new.slots = [body.slots EXCEPT ![n] = Deleted]
  BY <1>1, <1>2 DEF WithoutSlot, Layouts
<1>5. new \in Layouts
  BY <1>1, <1>2, <1>3 DEF WithoutSlot, Layouts
<1>6. /\ Len(new.slots) = Len(body.slots) /\ DOMAIN new.slots = DOMAIN body.slots
      /\ \A m \in DOMAIN body.slots : m # n => new.slots[m] = body.slots[m]
      /\ new.slots[n] = Deleted
  BY <1>2, <1>4 DEF Layouts
<1>7. Live(new) = Live(body) \ {n}
  BY <1>6 DEF Live
<1>8. \A m \in Live(new) : new.slots[m] = body.slots[m] /\ Read(new, m) = Read(body, m)
  BY <1>4, <1>6, <1>7 DEF Live, Read
<1> QED
  BY <1>1, <1>4, <1>5, <1>6, <1>7, <1>8 DEF SpaceOK

\* What compact makes of the page to at slot n of body.
Copying(to, body, n) ==
    IF n \in Live(body) THEN Placed(to, Read(body, n)) ELSE [to EXCEPT !.slots = Append(@, Deleted)]

\* One step of compact keeps the type of what it makes.
LEMMA CopyingType ==
    ASSUME NEW body, SpaceOK(body), NEW to \in Layouts, NEW n
    PROVE  Copying(to, body, n) \in Layouts
<1>1. CASE n \in Live(body)
  BY <1>1, ReadType, PlacedType DEF Copying
<1>2. CASE n \notin Live(body)
  <2>1. PICK longer : longer = Append(to.slots, Deleted)
    OBVIOUS
  <2>2. longer \in Seq(Int)
    BY <2>1 DEF Layouts, Deleted
  <2>3. Copying(to, body, n) = [to EXCEPT !.slots = longer]
    BY <1>2, <2>1 DEF Copying
  <2> QED
    BY <2>2, <2>3 DEF Layouts
<1> QED
  BY <1>1, <1>2

\* compact, one slot after the other.
LEMMA CompactedSteps ==
    ASSUME NEW body, SpaceOK(body)
    PROVE  \E to : /\ to[0] = NewPage(BodySize)
                   /\ \A n \in 1..Len(body.slots) : to[n] = Copying(to[n - 1], body, n)
                   /\ Compacted(body) = [to[Len(body.slots)] EXCEPT
                                           !.freeStart = HeaderSize + SlotSize * Len(body.slots)]
<1> DEFINE N == Len(body.slots)
           R(it) == it = [s \in SUBSET (1..N) |->
                            IF s = {} THEN NewPage(BodySize)
                            ELSE Copying(it[s \ {Max(s)}], body, Max(s))]
           step == [x \in Layouts \X (1..N) |-> Copying(x[1], body, x[2])]
<1>1. N \in Nat /\ DOMAIN body.slots = 1..N /\ body.size = BodySize
  BY DEF SpaceOK, Layouts
<1>2. step \in [Layouts \X (1..N) -> Layouts]
  BY CopyingType
<1>3. PICK it \in [SUBSET (1..N) -> Layouts] : Folding(it, N, NewPage(BodySize), step)
  <2>1. N \in Nat /\ NewPage(BodySize) \in Layouts
    BY <1>1, NewPageType
  <2> HIDE DEF step, N, R
  <2> QED
    BY <1>2, <2>1, FoldExists
<1>4. R(it)
  <2>1. ASSUME NEW s \in SUBSET (1..N), s # {}
        PROVE  step[<<it[s \ {Max(s)}], Max(s)>>] = Copying(it[s \ {Max(s)}], body, Max(s))
    BY <1>1, <2>1, MaxWithin
  <2> HIDE DEF step, N
  <2> QED
    BY <1>3, <2>1 DEF Folding
<1>5. PICK numbers : numbers = [i \in DOMAIN body.slots |-> i]
  OBVIOUS
<1>6. DOMAIN numbers = 1..N /\ \A s \in SUBSET (1..N) : s # {} => numbers[Max(s)] = Max(s)
  BY <1>1, <1>5, MaxWithin
<1> DEFINE Q(it_) == it_ = [s \in SUBSET (1..N) |->
                            IF s = {} THEN NewPage(BodySize)
                            ELSE Copying(it_[s \ {Max(s)}], body, numbers[Max(s)])]
<1>7. Compacted(body) = [(CHOOSE g : Q(g))[1..N] EXCEPT
                            !.freeStart = HeaderSize + SlotSize * Len(body.slots)]
  <2>1. DOMAIN [i \in DOMAIN body.slots |-> i] = 1..N
    BY <1>1
  <2> QED
    BY <1>1, <1>5, <2>1 DEF Compacted, FoldLeftDomain, FoldLeft, MapThenFoldSet, Copying
<1>8. \A g : Q(g) <=> R(g)
  BY <1>6
<1>9. PICK g : R(g) /\ Compacted(body) = [g[1..N] EXCEPT
                            !.freeStart = HeaderSize + SlotSize * Len(body.slots)]
  <2>1. Q(CHOOSE h : Q(h))
    <3> HIDE DEF Q, R
    <3> QED
      BY <1>4, <1>8, Zenon
  <2> HIDE DEF R, Q, N
  <2> QED
    BY <1>7, <1>8, <2>1
<1> DEFINE to == [n \in 0..N |-> g[1..n]]
<1>10. to[0] = NewPage(BodySize) /\ to[N] = g[1..N]
  <2>1. 1..0 = {} /\ 0 \in 0..N /\ N \in 0..N
    BY <1>1
  <2> QED
    BY <1>9, <2>1
<1>11. ASSUME NEW n \in 1..N
       PROVE  to[n] = Copying(to[n - 1], body, n)
  <2>1. Max(1..n) = n /\ (1..n) \ {n} = 1..(n - 1) /\ 1..n # {}
    BY LastOfInterval
  <2>2. n \in 0..N /\ n - 1 \in 0..N /\ 1..n \in SUBSET (1..N)
    BY <1>1
  <2> QED
    BY <1>9, <2>1, <2>2
<1> HIDE DEF to, R, Q
<1> QED
  BY <1>9, <1>10, <1>11

\* The page to holds the live records of the first n slots of body, and leaves
\* room for those of the others.
Copied(to, body, n) ==
    /\ to \in Layouts /\ to.size = BodySize /\ Len(to.slots) = n
    /\ Live(to) = {k \in Live(body) : k <= n}
    /\ body.freeEnd <= to.freeEnd /\ to.freeEnd <= BodySize
    /\ \A k \in Live(body) : n < k => body.slots[k] + Occupies(Read(body, k)) <= to.freeEnd
    /\ \A k \in Live(to) : /\ to.slots[k] \in DOMAIN to.records /\ Read(to, k) = Read(body, k)
                           /\ to.freeEnd <= to.slots[k]
                           /\ to.slots[k] + Occupies(Read(to, k)) <= BodySize
    /\ \A m, k \in Live(to) : m < k => to.slots[k] + Occupies(Read(to, k)) <= to.slots[m]

\* One step of compact: what has been copied reads as before, and nothing overlaps.
LEMMA CopyingKeeps ==
    ASSUME NEW body, SpaceOK(body), NEW n \in 1..Len(body.slots), NEW to,
           Copied(to, body, n - 1)
    PROVE  Copied(Copying(to, body, n), body, n)
<1>1. PICK new : new = Copying(to, body, n)
  OBVIOUS
<1>2. /\ Len(body.slots) \in Nat /\ n \in Nat /\ body.freeEnd \in Int /\ to.freeEnd \in Int
      /\ to \in Layouts /\ body.freeEnd >= HeaderSize
  BY DEF SpaceOK, Layouts, Copied, SlotSize, HeaderSize
<1>3. \A k \in Live(body) : /\ k \in 1..Len(body.slots) /\ body.slots[k] \in Int
                            /\ Occupies(Read(body, k)) \in Nat \ {0} /\ Read(body, k) \in Cells
  BY ReadType
<1>4. \A k \in Live(to) : k \in Live(body) /\ k \in 1..(n - 1) /\ to.slots[k] \in Int
  <2>1. to.slots \in Seq(Int) /\ Len(to.slots) = n - 1
    BY <1>2 DEF Layouts, Copied
  <2> QED
    BY <2>1 DEF Copied, Live
<1>5. CASE n \in Live(body)
  <2>1. PICK cell \in Cells : cell = Read(body, n)
    BY <1>3, <1>5
  <2>2. new = Placed(to, cell)
    BY <1>1, <1>5, <2>1 DEF Copying
  <2>3. /\ body.slots[n] + Occupies(cell) <= to.freeEnd /\ Occupies(cell) \in Nat \ {0}
        /\ body.freeEnd <= body.slots[n] /\ body.slots[n] \in Int
    BY <1>2, <1>3, <1>5, <2>1 DEF SpaceOK, Copied
  <2>4. to.freeEnd > Occupies(cell)
    BY <1>2, <2>3 DEF HeaderSize
  <2>5. \A k \in Live(to) : to.slots[k] \in DOMAIN to.records /\ to.freeEnd <= to.slots[k]
    BY DEF Copied
  <2>6. /\ new \in Layouts /\ new.size = to.size
        /\ Len(to.slots) \in Nat /\ Len(new.slots) = Len(to.slots) + 1
        /\ new.freeEnd = to.freeEnd - Occupies(cell)
        /\ Live(new) = Live(to) \cup {Len(to.slots) + 1}
        /\ new.slots[Len(new.slots)] = new.freeEnd /\ Read(new, Len(new.slots)) = cell
        /\ new.freeEnd \in DOMAIN new.records
        /\ \A k \in 1..Len(to.slots) : new.slots[k] = to.slots[k]
        /\ \A k \in Live(to) : Read(new, k) = Read(to, k) /\ new.slots[k] \in DOMAIN new.records
    BY <1>2, <2>2, <2>4, <2>5, PlacedShape
  <2>7. Len(to.slots) = n - 1 /\ to.size = BodySize
    BY DEF Copied
  <2>8. Len(new.slots) = n /\ new.slots[n] = new.freeEnd /\ Read(new, n) = cell
    BY <1>2, <2>6, <2>7
  <2>9. Live(new) = {k \in Live(body) : k <= n}
    <3>1. Len(to.slots) + 1 = n
      BY <1>2, <2>7
    <3>2. Live(new) = {k \in Live(body) : k <= n - 1} \cup {n}
      BY <2>6, <3>1 DEF Copied
    <3>3. \A k \in Live(body) : k <= n <=> k <= n - 1 \/ k = n
      BY <1>2, <1>3
    <3> QED
      BY <1>5, <3>2, <3>3
  <2>10. body.freeEnd <= new.freeEnd /\ new.freeEnd <= BodySize
    <3>1. new.freeEnd = to.freeEnd - Occupies(cell)
      BY <2>6
    <3>2. to.freeEnd <= BodySize /\ BodySize \in Int
      BY LeafAssumption DEF Copied
    <3> QED
      BY <1>2, <2>3, <3>1, <3>2
  <2>11. \A k \in Live(body) : n < k => body.slots[k] + Occupies(Read(body, k)) <= new.freeEnd
    <3> SUFFICES ASSUME NEW k \in Live(body), n < k
                 PROVE  body.slots[k] + Occupies(Read(body, k)) <= new.freeEnd
      OBVIOUS
    <3>1. body.slots[k] + Occupies(Read(body, k)) <= body.slots[n]
      BY <1>5 DEF SpaceOK
    <3>2. body.slots[k] \in Int /\ Occupies(Read(body, k)) \in Int
      BY <1>3
    <3>3. body.slots[n] \in Int /\ body.slots[n] <= new.freeEnd /\ new.freeEnd \in Int
      <4>1. new.freeEnd = to.freeEnd - Occupies(cell)
        BY <2>6
      <4> QED
        BY <1>2, <2>3, <4>1
    <3> QED
      BY <3>1, <3>2, <3>3
  <2>12. \A k \in Live(to) : /\ new.slots[k] = to.slots[k] /\ Read(new, k) = Read(to, k)
                             /\ k < n /\ k \in Live(body) /\ to.slots[k] \in Int
                             /\ to.freeEnd <= to.slots[k] /\ Read(to, k) = Read(body, k)
    BY <1>2, <1>4, <2>6, <2>7 DEF Copied
  <2>13. \A k \in Live(new) : /\ new.slots[k] \in DOMAIN new.records /\ Read(new, k) = Read(body, k)
                              /\ new.freeEnd <= new.slots[k]
                              /\ new.slots[k] + Occupies(Read(new, k)) <= BodySize
    <3> TAKE k \in Live(new)
    <3>1. CASE k \in Live(to)
      BY <1>2, <2>3, <2>6, <2>12, <3>1 DEF Copied
    <3>2. CASE k = n
      BY <1>2, <2>1, <2>3, <2>6, <2>8, <3>2, LeafAssumption DEF Copied
    <3> QED
      BY <1>2, <2>6, <2>7, <3>1, <3>2
  <2>14. \A m, k \in Live(new) : m < k => new.slots[k] + Occupies(Read(new, k)) <= new.slots[m]
    <3> SUFFICES ASSUME NEW m \in Live(new), NEW k \in Live(new), m < k
                 PROVE  new.slots[k] + Occupies(Read(new, k)) <= new.slots[m]
      OBVIOUS
    <3>1. m \in Live(to)
      <4>1. m \in Nat /\ k \in Nat /\ k <= n
        BY <1>3, <2>9
      <4>2. m # n
        BY <1>2, <4>1
      <4>3. Len(to.slots) + 1 = n
        BY <1>2, <2>7
      <4> QED
        BY <2>6, <4>2, <4>3
    <3>2. CASE k \in Live(to)
      BY <2>12, <3>1, <3>2 DEF Copied
    <3>3. CASE k = n
      <4>1. new.freeEnd + Occupies(cell) = to.freeEnd
        BY <1>2, <2>3, <2>6
      <4>2. to.freeEnd <= to.slots[m] /\ new.slots[m] = to.slots[m]
        BY <2>12, <3>1
      <4> QED
        BY <2>8, <3>3, <4>1, <4>2
    <3> QED
      BY <1>2, <2>6, <2>7, <3>2, <3>3
  <2> QED
    BY <1>1, <2>6, <2>7, <2>8, <2>9, <2>10, <2>11, <2>13, <2>14 DEF Copied
<1>6. CASE n \notin Live(body)
  <2>1. PICK longer : longer = Append(to.slots, Deleted)
    OBVIOUS
  <2>2. to.slots \in Seq(Int) /\ Len(to.slots) = n - 1
    BY <1>2 DEF Layouts, Copied
  <2>3. /\ longer \in Seq(Int) /\ Len(longer) = n /\ longer[n] = Deleted
        /\ DOMAIN longer = 1..n /\ DOMAIN to.slots = 1..(n - 1)
        /\ \A k \in 1..(n - 1) : longer[k] = to.slots[k]
    BY <1>2, <2>1, <2>2 DEF Deleted
  <2>4. new = [to EXCEPT !.slots = longer]
    BY <1>1, <1>6, <2>1 DEF Copying
  <2>5. /\ new \in Layouts /\ new.slots = longer /\ new.size = to.size
        /\ new.freeEnd = to.freeEnd /\ new.records = to.records
    BY <1>2, <2>3, <2>4 DEF Layouts
  <2>6. Live(new) = Live(to)
    BY <1>2, <2>3, <2>5 DEF Live
  <2>7. Live(new) = {k \in Live(body) : k <= n}
    BY <1>2, <1>3, <1>6, <2>6 DEF Copied
  <2>8. \A k \in Live(new) : new.slots[k] = to.slots[k] /\ Read(new, k) = Read(to, k)
    BY <1>4, <2>3, <2>5, <2>6 DEF Read
  <2>9. \A k \in Live(body) : n < k => n - 1 < k
    BY <1>2, <1>3
  <2> QED
    BY <1>1, <2>3, <2>5, <2>6, <2>7, <2>8, <2>9 DEF Copied
<1> QED
  BY <1>5, <1>6

\* compact, with what the page holds after every slot.
LEMMA CompactedCopies ==
    ASSUME NEW body, SpaceOK(body)
    PROVE  \E to : /\ to[0] = NewPage(BodySize)
                   /\ \A n \in 1..Len(body.slots) : to[n] = Copying(to[n - 1], body, n)
                   /\ \A n \in 0..Len(body.slots) : Copied(to[n], body, n)
                   /\ Compacted(body) = [to[Len(body.slots)] EXCEPT
                                           !.freeStart = HeaderSize + SlotSize * Len(body.slots)]
<1>1. PICK to : /\ to[0] = NewPage(BodySize)
                /\ \A n \in 1..Len(body.slots) : to[n] = Copying(to[n - 1], body, n)
                /\ Compacted(body) = [to[Len(body.slots)] EXCEPT
                                        !.freeStart = HeaderSize + SlotSize * Len(body.slots)]
  BY CompactedSteps
<1> DEFINE Good == {n \in 0..Len(body.slots) : Copied(to[n], body, n)}
<1>2. /\ Len(body.slots) \in Nat /\ Len(body.slots) \in 0..Len(body.slots) /\ body.freeEnd \in Int
      /\ body.freeEnd <= BodySize /\ body.freeStart = HeaderSize + SlotSize * Len(body.slots)
      /\ body.freeStart <= body.freeEnd /\ body.freeStart \in Nat
  BY DEF SpaceOK, Layouts
<1>3. 0 \in Good
  <2>1. PICK new : new = NewPage(BodySize)
    OBVIOUS
  <2>2. /\ new \in Layouts /\ Live(new) = {} /\ Len(new.slots) = 0
        /\ new.size = BodySize /\ new.freeEnd = BodySize
    BY <2>1, NewSpace DEF SpaceOK, NewPage
  <2>3. {k \in Live(body) : k <= 0} = {}
    BY ReadType
  <2>4. \A k \in Live(body) : body.slots[k] + Occupies(Read(body, k)) <= BodySize
    BY DEF SpaceOK
  <2>5. Copied(new, body, 0)
    BY <1>2, <2>2, <2>3, <2>4, LeafAssumption DEF Copied
  <2> QED
    BY <1>1, <1>2, <2>1, <2>5
<1>4. ASSUME NEW n \in 1..Len(body.slots), n - 1 \in Good
      PROVE  n \in Good
  BY <1>1, <1>4, CopyingKeeps
<1> HIDE DEF Good
<1>5. 0..Len(body.slots) \subseteq Good
  BY <1>2, <1>3, <1>4, CountUp
<1> QED
  BY <1>1, <1>5 DEF Good

\* compact: the space is laid out as it should be, and every slot has what it had.
LEMMA CompactedSpace ==
    ASSUME NEW body, SpaceOK(body)
    PROVE  /\ SpaceOK(Compacted(body))
           /\ Len(Compacted(body).slots) = Len(body.slots)
           /\ Live(Compacted(body)) = Live(body)
           /\ \A n \in Live(body) : Read(Compacted(body), n) = Read(body, n)
<1>1. PICK to : /\ \A n \in 0..Len(body.slots) : Copied(to[n], body, n)
                /\ Compacted(body) = [to[Len(body.slots)] EXCEPT
                                        !.freeStart = HeaderSize + SlotSize * Len(body.slots)]
  BY CompactedCopies
<1>2. /\ Len(body.slots) \in Nat /\ Len(body.slots) \in 0..Len(body.slots) /\ body.freeEnd \in Int
      /\ body.freeEnd <= BodySize /\ body.freeStart = HeaderSize + SlotSize * Len(body.slots)
      /\ body.freeStart <= body.freeEnd /\ body.freeStart \in Nat
  BY DEF SpaceOK, Layouts
<1>6. PICK last : last = to[Len(body.slots)] /\ Copied(last, body, Len(body.slots))
  BY <1>1, <1>2
<1>7. PICK new : new = Compacted(body)
  OBVIOUS
<1>8. /\ new \in Layouts /\ new.size = BodySize /\ new.slots = last.slots
      /\ new.freeEnd = last.freeEnd /\ new.records = last.records
      /\ new.freeStart = HeaderSize + SlotSize * Len(body.slots)
  <2>1. HeaderSize + SlotSize * Len(body.slots) \in Nat
    BY <1>2
  <2> QED
    BY <1>1, <1>6, <1>7, <2>1 DEF Copied, Layouts
<1>9. Live(new) = Live(last) /\ Live(last) = Live(body) /\ Len(new.slots) = Len(body.slots)
  <2>1. Live(last) = Live(body)
    BY <1>2, <1>6, ReadType DEF Copied
  <2> QED
    BY <1>6, <1>8, <2>1 DEF Live, Copied
<1>10. \A n \in Live(body) : Read(new, n) = Read(last, n) /\ Read(last, n) = Read(body, n)
  BY <1>6, <1>8, <1>9 DEF Read, Copied
<1>11. last.freeEnd \in Int
  BY <1>6 DEF Copied, Layouts
<1>12. SpaceOK(new)
  BY <1>2, <1>6, <1>8, <1>9, <1>10, <1>11 DEF Copied, SpaceOK
<1> QED
  BY <1>7, <1>9, <1>10, <1>12

-----------------------------------------------------------------------------
(* Sums over finite sets: MapThenSumSet takes one element after the other,  *)
(* whichever it chooses, and any of them may be taken first.                *)

Some(s) == CHOOSE x \in s : TRUE

Summing(it, S, w) ==
    \A s \in SUBSET S : it[s] = IF s = {} THEN 0 ELSE w[Some(s)] + it[s \ {Some(s)}]

AnyFirst(it, S, w) == \A s \in SUBSET S : \A x \in s : it[s] = w[x] + it[s \ {x}]

\* A set that is not empty has the element that is chosen.
LEMMA SomeOf == \A s : s # {} => Some(s) \in s
BY DEF Some

\* A set without one element is a smaller finite set.
LEMMA FewerByOne ==
    ASSUME NEW S, IsFiniteSet(S), NEW s \in SUBSET S
    PROVE  /\ Cardinality(s) \in Nat /\ IsFiniteSet(s) /\ (Cardinality(s) = 0 <=> s = {})
           /\ Cardinality(s) <= Cardinality(S)
           /\ \A x \in s : s \ {x} \in SUBSET S /\ Cardinality(s \ {x}) = Cardinality(s) - 1
<1>1. IsFiniteSet(s) /\ Cardinality(s) <= Cardinality(S)
  BY FS_Subset
<1>2. Cardinality(s) \in Nat /\ (Cardinality(s) = 0 <=> s = {})
  BY <1>1, FS_CardinalityType, FS_EmptySet
<1>3. \A x \in s : Cardinality(s \ {x}) = Cardinality(s) - 1
  BY <1>1, FS_RemoveElement
<1> QED
  BY <1>1, <1>2, <1>3

\* A sum over the subsets of a finite set, element by element, exists.
LEMMA SumExists ==
    ASSUME NEW S, IsFiniteSet(S), NEW w \in [S -> Nat]
    PROVE  \E it \in [SUBSET S -> Nat] : Summing(it, S, w)
<1> DEFINE N == Cardinality(S)
           Upto(n, it) == \A s \in SUBSET S : Cardinality(s) <= n =>
               it[s] = IF s = {} THEN 0 ELSE w[Some(s)] + it[s \ {Some(s)}]
           Done == {n \in 0..N : \E it \in [SUBSET S -> Nat] : Upto(n, it)}
<1>1. N \in Nat
  BY FS_CardinalityType
<1>2. 0 \in Done
  <2> DEFINE none == [s \in SUBSET S |-> 0]
  <2>1. \A s \in SUBSET S : Cardinality(s) <= 0 => s = {}
    BY FewerByOne
  <2>2. none \in [SUBSET S -> Nat] /\ Upto(0, none)
    BY <2>1
  <2>3. 0 \in 0..N
    BY <1>1
  <2> HIDE DEF none, Upto
  <2> QED
    BY <2>2, <2>3
<1>3. ASSUME NEW n \in 1..N, n - 1 \in Done
      PROVE  n \in Done
  <2>1. PICK it \in [SUBSET S -> Nat] : Upto(n - 1, it)
    BY <1>3
  <2> DEFINE more == [s \in SUBSET S |->
                        IF Cardinality(s) = n THEN w[Some(s)] + it[s \ {Some(s)}] ELSE it[s]]
  <2>2. ASSUME NEW s \in SUBSET S, s # {}
        PROVE  /\ Some(s) \in s /\ s \ {Some(s)} \in SUBSET S /\ w[Some(s)] \in Nat
               /\ Cardinality(s \ {Some(s)}) = Cardinality(s) - 1 /\ Cardinality(s) \in Nat
    BY <2>2, SomeOf, FewerByOne
  <2>3. \A s \in SUBSET S : Cardinality(s) = n => s # {}
    BY FewerByOne
  <2>4. more \in [SUBSET S -> Nat]
    BY <2>2, <2>3
  <2>5. ASSUME NEW s \in SUBSET S, Cardinality(s) <= n
        PROVE  more[s] = IF s = {} THEN 0 ELSE w[Some(s)] + more[s \ {Some(s)}]
    <3>1. CASE Cardinality(s) = n
      <4>1. s # {}
        BY <2>3, <3>1
      <4>2. Cardinality(s \ {Some(s)}) # n
        BY <2>2, <3>1, <4>1
      <4>3. more[s \ {Some(s)}] = it[s \ {Some(s)}]
        BY <2>2, <4>1, <4>2
      <4> QED
        BY <3>1, <4>1, <4>3
    <3>2. CASE Cardinality(s) # n
      <4>1. Cardinality(s) <= n - 1
        BY <2>5, <3>2, FewerByOne
      <4>2. it[s] = IF s = {} THEN 0 ELSE w[Some(s)] + it[s \ {Some(s)}]
        BY <2>1, <4>1
      <4>3. more[s] = it[s]
        BY <3>2
      <4>4. s # {} => more[s \ {Some(s)}] = it[s \ {Some(s)}]
        BY <2>2, <4>1
      <4> QED
        BY <4>2, <4>3, <4>4
    <3> QED
      BY <3>1, <3>2
  <2> HIDE DEF more
  <2>6. Upto(n, more)
    BY <2>5
  <2>7. n \in 0..N
    BY <1>1
  <2> HIDE DEF Upto
  <2> QED
    BY <2>4, <2>6, <2>7
<1> HIDE DEF Done
<1>4. N \in Done
  <2>1. 0..N \subseteq Done
    BY <1>1, <1>2, <1>3, CountUp
  <2> QED
    BY <1>1, <2>1
<1>5. PICK it \in [SUBSET S -> Nat] : Upto(N, it)
  BY <1>4 DEF Done
<1>6. \A s \in SUBSET S : Cardinality(s) <= N
  BY FewerByOne
<1>7. Summing(it, S, w)
  BY <1>5, <1>6 DEF Summing
<1> QED
  BY <1>7

\* Such a sum does not depend on the order of the elements.
LEMMA SumAny ==
    ASSUME NEW S, IsFiniteSet(S), NEW w \in [S -> Nat], NEW it \in [SUBSET S -> Nat],
           Summing(it, S, w)
    PROVE  AnyFirst(it, S, w)
<1> DEFINE N == Cardinality(S)
           Good == {n \in 0..N : \A s \in SUBSET S : Cardinality(s) = n =>
                                    \A x \in s : it[s] = w[x] + it[s \ {x}]}
<1>1. N \in Nat
  BY FS_CardinalityType
<1>2. 0 \in Good
  BY <1>1, FewerByOne
<1>3. ASSUME NEW n \in 1..N, n - 1 \in Good
      PROVE  n \in Good
  <2>1. ASSUME NEW s \in SUBSET S, Cardinality(s) = n, NEW x \in s
        PROVE  it[s] = w[x] + it[s \ {x}]
    <3>1. PICK y : y = Some(s)
      OBVIOUS
    <3>2. y \in s /\ it[s] = w[y] + it[s \ {y}]
      BY <3>1, SomeOf DEF Summing
    <3>3. CASE x = y
      BY <3>2, <3>3
    <3>4. CASE x # y
      <4>1. PICK r : r = s \ {y}
        OBVIOUS
      <4>2. PICK q : q = s \ {x}
        OBVIOUS
      <4>3. /\ r \in SUBSET S /\ Cardinality(r) = n - 1 /\ x \in r
            /\ q \in SUBSET S /\ Cardinality(q) = n - 1 /\ y \in q
            /\ r \ {x} = q \ {y} /\ r \ {x} \in SUBSET S
        BY <2>1, <3>2, <3>4, <4>1, <4>2, FewerByOne
      <4>4. it[r] = w[x] + it[r \ {x}] /\ it[q] = w[y] + it[q \ {y}]
        BY <1>3, <4>3
      <4>5. w[x] \in Nat /\ w[y] \in Nat /\ it[r \ {x}] \in Nat
        BY <3>2, <4>3
      <4>6. it[s] = w[y] + (w[x] + it[r \ {x}])
        BY <3>2, <4>1, <4>4
      <4>7. w[x] + it[s \ {x}] = w[x] + (w[y] + it[r \ {x}])
        BY <4>2, <4>3, <4>4
      <4> QED
        BY <4>5, <4>6, <4>7
    <3> QED
      BY <3>3, <3>4
  <2>2. n \in 0..N
    BY <1>1
  <2> QED
    BY <2>1, <2>2
<1>4. 0..N \subseteq Good
  <2> HIDE DEF Good
  <2> QED
    BY <1>1, <1>2, <1>3, CountUp
<1>5. \A s \in SUBSET S : Cardinality(s) \in 0..N
  BY <1>1, FewerByOne
<1> QED
  BY <1>4, <1>5 DEF AnyFirst

\* What the records of the live slots occupy, as CompactReclaims sums it.
LEMMA LiveBytes ==
    ASSUME NEW body, SpaceOK(body)
    PROVE  \E it \in [SUBSET Live(body) -> Nat] :
               /\ it[{}] = 0
               /\ \A s \in SUBSET Live(body) : \A n \in s :
                      it[s] = Occupies(Read(body, n)) + it[s \ {n}]
               /\ MapThenSumSet(LAMBDA n : Occupies(Read(body, n)), Live(body)) = it[Live(body)]
<1> DEFINE S == Live(body)
           w == [n \in S |-> Occupies(Read(body, n))]
           R(it) == it = [s \in SUBSET S |-> IF s = {} THEN 0
                            ELSE LET n == CHOOSE n \in s : TRUE
                                 IN  Occupies(Read(body, n)) + it[s \ {n}]]
<1>1. IsFiniteSet(S)
  <2>1. S \subseteq 1..Len(body.slots) /\ Len(body.slots) \in Nat
    BY DEF SpaceOK, Layouts, Live
  <2>2. IsFiniteSet(1..Len(body.slots))
    BY <2>1, FS_Interval
  <2> QED
    BY <2>1, <2>2, FS_Subset
<1>2. w \in [S -> Nat]
  BY ReadType
<1>3. PICK sum \in [SUBSET S -> Nat] : Summing(sum, S, w)
  <2> HIDE DEF w, S, R
  <2> QED
    BY <1>1, <1>2, SumExists
<1>4. R(sum)
  <2>1. ASSUME NEW s \in SUBSET S, s # {}
        PROVE  w[Some(s)] = Occupies(Read(body, Some(s)))
    BY <2>1, SomeOf
  <2> HIDE DEF w, S
  <2> QED
    BY <1>3, <2>1 DEF Summing, Some
<1>5. MapThenSumSet(LAMBDA n : Occupies(Read(body, n)), Live(body)) = (CHOOSE it : R(it))[S]
  BY DEF MapThenSumSet, MapThenFoldSet
<1>6. PICK it : /\ R(it)
                /\ MapThenSumSet(LAMBDA n : Occupies(Read(body, n)), Live(body)) = it[S]
  <2>1. R(CHOOSE g : R(g))
    <3> HIDE DEF R
    <3> QED
      BY <1>4, Zenon
  <2> HIDE DEF R, S
  <2> QED
    BY <1>5, <2>1
<1> DEFINE Same == {n \in 0..Cardinality(S) :
                      \A s \in SUBSET S : Cardinality(s) = n => it[s] = sum[s]}
<1>7. it = sum
  <2>1. Cardinality(S) \in Nat
    BY <1>1, FS_CardinalityType
  <2>2. 0 \in Same
    BY <1>1, <1>4, <1>6, <2>1, FewerByOne
  <2>3. ASSUME NEW n \in 1..Cardinality(S), n - 1 \in Same
        PROVE  n \in Same
    <3>1. ASSUME NEW s \in SUBSET S, Cardinality(s) = n
          PROVE  it[s] = sum[s]
      <4>1. PICK x : x = Some(s)
        OBVIOUS
      <4>2. s # {} /\ x \in s
        BY <1>1, <3>1, <4>1, FewerByOne, SomeOf
      <4>3. s \ {x} \in SUBSET S /\ Cardinality(s \ {x}) = n - 1
        BY <1>1, <3>1, <4>2, FewerByOne
      <4>4. it[s \ {x}] = sum[s \ {x}]
        BY <2>3, <4>3
      <4>5. it[s] = Occupies(Read(body, x)) + it[s \ {x}]
        BY <1>6, <4>1, <4>2 DEF Some
      <4>6. sum[s] = Occupies(Read(body, x)) + sum[s \ {x}]
        BY <1>4, <4>1, <4>2 DEF Some
      <4> QED
        BY <4>4, <4>5, <4>6
    <3>2. n \in 0..Cardinality(S)
      BY <2>1
    <3> QED
      BY <3>1, <3>2
  <2>4. 0..Cardinality(S) \subseteq Same
    <3> HIDE DEF Same
    <3> QED
      BY <2>1, <2>2, <2>3, CountUp
  <2>5. \A s \in SUBSET S : it[s] = sum[s]
    BY <1>1, <2>1, <2>4, FewerByOne
  <2> QED
    BY <1>4, <1>6, <2>5
<1>8. \A s \in SUBSET S : \A n \in s : sum[s] = Occupies(Read(body, n)) + sum[s \ {n}]
  <2>1. AnyFirst(sum, S, w)
    <3> HIDE DEF w, S, R, Same
    <3> QED
      BY <1>1, <1>2, <1>3, SumAny
  <2>2. \A s \in SUBSET S : \A n \in s : w[n] = Occupies(Read(body, n))
    OBVIOUS
  <2> HIDE DEF w, S
  <2> QED
    BY <2>1, <2>2 DEF AnyFirst
<1>9. sum[{}] = 0
  BY <1>4
<1> QED
  BY <1>6, <1>7, <1>8, <1>9

\* compact gives back all that no live record and no slot takes.
LEMMA CompactedFree ==
    ASSUME NEW body, SpaceOK(body)
    PROVE  Free(Compacted(body)) =
               BodySize - HeaderSize - SlotSize * Len(body.slots)
                   - MapThenSumSet(LAMBDA n : Occupies(Read(body, n)), Live(body))
<1>1. PICK sum \in [SUBSET Live(body) -> Nat] :
          /\ sum[{}] = 0
          /\ \A s \in SUBSET Live(body) : \A n \in s :
                sum[s] = Occupies(Read(body, n)) + sum[s \ {n}]
          /\ MapThenSumSet(LAMBDA n : Occupies(Read(body, n)), Live(body)) = sum[Live(body)]
  BY LiveBytes
<1>2. PICK to : /\ to[0] = NewPage(BodySize)
                /\ \A n \in 1..Len(body.slots) : to[n] = Copying(to[n - 1], body, n)
                /\ \A n \in 0..Len(body.slots) : Copied(to[n], body, n)
                /\ Compacted(body) = [to[Len(body.slots)] EXCEPT
                                        !.freeStart = HeaderSize + SlotSize * Len(body.slots)]
  BY CompactedCopies
<1> DEFINE First(n) == {k \in Live(body) : k <= n}
           Good == {n \in 0..Len(body.slots) : to[n].freeEnd = BodySize - sum[First(n)]}
<1>3. Len(body.slots) \in Nat /\ Len(body.slots) \in 0..Len(body.slots) /\ BodySize \in Nat
  BY LeafAssumption DEF SpaceOK, Layouts
<1>4. \A k \in Live(body) : /\ k \in 1..Len(body.slots) /\ Read(body, k) \in Cells
                            /\ Occupies(Read(body, k)) \in Nat
  BY ReadType
<1>5. 0 \in Good
  <2>1. First(0) = {}
    BY <1>4
  <2>2. to[0].freeEnd = BodySize
    BY <1>2 DEF NewPage
  <2>3. BodySize = BodySize - sum[{}] /\ 0 \in 0..Len(body.slots)
    BY <1>1, <1>3
  <2> HIDE DEF First
  <2> QED
    BY <2>1, <2>2, <2>3
<1>6. ASSUME NEW n \in 1..Len(body.slots), n - 1 \in Good
      PROVE  n \in Good
  <2>1. PICK was : was = to[n - 1]
    OBVIOUS
  <2>2. /\ was \in Layouts /\ was.freeEnd = BodySize - sum[First(n - 1)]
        /\ to[n] = Copying(was, body, n) /\ n \in 0..Len(body.slots)
    <3>1. n - 1 \in 0..Len(body.slots)
      BY <1>3
    <3> QED
      BY <1>2, <1>3, <1>6, <2>1, <3>1 DEF Copied
  <2>3. CASE n \in Live(body)
    <3>1. n \in First(n) /\ First(n) \in SUBSET Live(body) /\ First(n) \ {n} = First(n - 1)
      <4>1. \A k \in Live(body) : k <= n - 1 <=> k <= n /\ k # n
        BY <1>3, <1>4
      <4>2. n <= n
        BY <1>3
      <4> QED
        BY <2>3, <4>1, <4>2
    <3>2. sum[First(n)] = Occupies(Read(body, n)) + sum[First(n - 1)]
      BY <1>1, <3>1
    <3>3. to[n].freeEnd = was.freeEnd - Occupies(Read(body, n))
      BY <2>2, <2>3 DEF Copying, Placed, Layouts
    <3>4. sum[First(n - 1)] \in Nat /\ Occupies(Read(body, n)) \in Nat
      BY <1>4, <2>3
    <3> HIDE DEF First
    <3>5. to[n].freeEnd = BodySize - sum[First(n)]
      BY <1>3, <2>2, <3>2, <3>3, <3>4
    <3> QED
      BY <2>2, <3>5
  <2>4. CASE n \notin Live(body)
    <3>1. First(n) = First(n - 1)
      BY <1>3, <1>4, <2>4
    <3>2. to[n].freeEnd = was.freeEnd
      BY <2>2, <2>4 DEF Copying, Layouts
    <3> QED
      BY <2>2, <3>1, <3>2
  <2> QED
    BY <2>3, <2>4
<1>7. Len(body.slots) \in Good
  <2> HIDE DEF Good
  <2>1. 0..Len(body.slots) \subseteq Good
    BY <1>3, <1>5, <1>6, CountUp
  <2> QED
    BY <1>3, <2>1
<1>8. First(Len(body.slots)) = Live(body)
  BY <1>3, <1>4
<1>9. PICK last : last = to[Len(body.slots)]
  OBVIOUS
<1>10. last.freeEnd = BodySize - sum[Live(body)] /\ last \in Layouts
  BY <1>2, <1>3, <1>7, <1>8, <1>9 DEF Copied
<1>11. /\ Compacted(body).freeEnd = last.freeEnd
       /\ Compacted(body).freeStart = HeaderSize + SlotSize * Len(body.slots)
  BY <1>2, <1>9, <1>10 DEF Layouts
<1>12. sum[Live(body)] \in Nat
  OBVIOUS
<1>13. Free(Compacted(body)) = BodySize - sum[Live(body)] - (HeaderSize + SlotSize * Len(body.slots))
  BY <1>10, <1>11 DEF Free
<1>14. BodySize - sum[Live(body)] - (HeaderSize + SlotSize * Len(body.slots))
          = BodySize - HeaderSize - SlotSize * Len(body.slots) - sum[Live(body)]
  <2>1. \A a, b \in Int, c, d \in Int : a - b - (c + d) = a - c - d - b
    OBVIOUS
  <2>2. SlotSize * Len(body.slots) \in Int /\ HeaderSize \in Int
    BY <1>3 DEF HeaderSize, SlotSize
  <2> QED
    BY <1>3, <1>12, <2>1, <2>2
<1> HIDE DEF Good, First
<1> QED
  BY <1>1, <1>13, <1>14

-----------------------------------------------------------------------------
(* Which entries fit on a page. *)

Fits(cells) == ~Rebuilt(cells).raised
Space(cells) == Free(Rebuilt(cells).body)
Initial(cells, n) == SubSeq(cells, 1, n)

\* The initial parts of a sequence, one element after the other.
LEMMA InitialMore ==
    ASSUME NEW S, NEW s \in Seq(S)
    PROVE  /\ Len(s) \in Nat /\ Initial(s, 0) = <<>> /\ Initial(s, Len(s)) = s
           /\ \A n \in 0..Len(s) : /\ Initial(s, n) \in Seq(S) /\ Len(Initial(s, n)) = n
                                   /\ \A k \in 1..n : Initial(s, n)[k] = s[k]
           /\ \A n \in 1..Len(s) : /\ s[n] \in S
                                   /\ Initial(s, n) = Append(Initial(s, n - 1), s[n])
<1>1. Len(s) \in Nat
  OBVIOUS
<1>2. \A n \in 0..Len(s) : /\ Initial(s, n) \in Seq(S) /\ Len(Initial(s, n)) = n
                           /\ \A k \in 1..n : Initial(s, n)[k] = s[k]
  BY DEF Initial
<1>3. Initial(s, 0) = <<>>
  BY <1>2
<1>4. Initial(s, Len(s)) = s
  <2>1. Len(s) \in 0..Len(s)
    BY <1>1
  <2>2. PICK r : r = Initial(s, Len(s))
    OBVIOUS
  <2>3. r \in Seq(S) /\ Len(r) = Len(s) /\ \A k \in 1..Len(s) : r[k] = s[k]
    BY <1>2, <2>1, <2>2
  <2> QED
    BY <2>2, <2>3
<1>5. ASSUME NEW n \in 1..Len(s)
      PROVE  s[n] \in S /\ Initial(s, n) = Append(Initial(s, n - 1), s[n])
  <2>1. n \in 0..Len(s) /\ n - 1 \in 0..Len(s) /\ s[n] \in S
    OBVIOUS
  <2>2. PICK r : r = Initial(s, n)
    OBVIOUS
  <2>3. PICK q : q = Initial(s, n - 1)
    OBVIOUS
  <2>4. r \in Seq(S) /\ Len(r) = n /\ \A k \in 1..n : r[k] = s[k]
    BY <1>2, <2>1, <2>2
  <2>5. q \in Seq(S) /\ Len(q) = n - 1 /\ \A k \in 1..(n - 1) : q[k] = s[k]
    BY <1>2, <2>1, <2>3
  <2>6. PICK m : m = Append(q, s[n])
    OBVIOUS
  <2>7. m \in Seq(S) /\ Len(m) = n /\ \A k \in 1..n : m[k] = s[k]
    BY <2>1, <2>5, <2>6
  <2>8. r = m
    BY <2>4, <2>7
  <2> QED
    BY <2>1, <2>2, <2>3, <2>6, <2>8
<1> QED
  BY <1>1, <1>2, <1>3, <1>4, <1>5

\* One entry more fits, if it is a key's and there is room for it and its slot.
LEMMA FitsMore ==
    ASSUME NEW cells \in Seq(Cells), NEW cell \in Cells
    PROVE  /\ Space(cells) \in Int /\ Occupies(cell) + SlotSize \in Nat
           /\ Fits(Append(cells, cell)) <=>
                 /\ Fits(cells) /\ IsKey(cell.key)
                 /\ Space(cells) >= Occupies(cell) + SlotSize
           /\ Fits(Append(cells, cell)) =>
                 Space(Append(cells, cell)) = Space(cells) - (Occupies(cell) + SlotSize)
           /\ ~Fits(Append(cells, cell)) => Rebuilt(Append(cells, cell)).body = Rebuilt(cells).body
<1>1. PICK was : was = Rebuilt(cells)
  OBVIOUS
<1>2. PICK to : to = Rebuilt(Append(cells, cell))
  OBVIOUS
<1>3. was \in Rebuilding /\ SpaceOK(was.body) /\ to = Adding(was, cell)
  BY <1>1, <1>2, RebuiltSpace, RebuiltMore DEF Built
<1>4. /\ was = [body |-> was.body, raised |-> was.raised] /\ was.raised \in BOOLEAN
      /\ was.body \in Layouts
  BY <1>3 DEF Rebuilding
<1>5. was.body.freeEnd \in Int /\ was.body.freeStart \in Nat
  BY <1>4 DEF Layouts
<1>6. Free(was.body) \in Int /\ Occupies(cell) + SlotSize \in Nat /\ Occupies(cell) \in Nat
  BY <1>5 DEF Free, Occupies, PrefixSize, SlotSize, Cells
<1>7. CASE was.raised \/ ~IsKey(cell.key) \/ ~Room(was.body, cell)
  <2>1. to = [was EXCEPT !.raised = TRUE]
    BY <1>3, <1>7 DEF Adding
  <2>2. to.raised /\ to.body = was.body
    BY <1>4, <2>1
  <2>3. ~(~was.raised /\ IsKey(cell.key) /\ Free(was.body) >= Occupies(cell) + SlotSize)
    BY <1>7 DEF Room
  <2> QED
    BY <1>1, <1>2, <1>6, <2>2, <2>3 DEF Fits, Space
<1>8. CASE ~was.raised /\ IsKey(cell.key) /\ Room(was.body, cell)
  <2>1. to = [was EXCEPT !.body = Inserted(was.body, cell)]
    BY <1>3, <1>8 DEF Adding
  <2>2. ~to.raised /\ to.body = Inserted(was.body, cell)
    BY <1>4, <1>8, <2>1
  <2>3. Len(to.body.slots) = Len(was.body.slots) + 1 /\ SpaceOK(to.body)
        /\ to.body.freeEnd = was.body.freeEnd - Occupies(cell)
    BY <1>3, <1>8, <2>2, InsertedSpace
  <2>4. to.body.freeStart = was.body.freeStart + SlotSize
    <3>1. Placed(was.body, cell) \in Layouts /\ Placed(was.body, cell).freeStart = was.body.freeStart
      BY <1>4, PlacedType, ZenonT(30) DEF Placed, Layouts
    <3> QED
      BY <2>2, <3>1 DEF Inserted, Layouts
  <2>5. Free(to.body) = Free(was.body) - (Occupies(cell) + SlotSize)
    <3>1. SlotSize \in Int
      BY DEF SlotSize
    <3>2. Free(to.body) = (was.body.freeEnd - Occupies(cell)) - (was.body.freeStart + SlotSize)
      BY <2>3, <2>4 DEF Free
    <3> QED
      BY <1>5, <1>6, <3>1, <3>2 DEF Free
  <2>6. Free(was.body) >= Occupies(cell) + SlotSize
    BY <1>8 DEF Room
  <2> QED
    BY <1>1, <1>2, <1>6, <1>8, <2>2, <2>5, <2>6 DEF Fits, Space
<1> QED
  BY <1>7, <1>8

\* Each entry takes space, and what does not fit makes no room for what follows.
LEMMA InitialFits ==
    ASSUME NEW cells \in Seq(Cells), NEW m \in 0..Len(cells), NEW n \in m..Len(cells)
    PROVE  /\ Space(Initial(cells, n)) <= Space(Initial(cells, m))
           /\ Space(Initial(cells, n)) \in Int /\ Space(Initial(cells, m)) \in Int
           /\ Fits(Initial(cells, n)) => Fits(Initial(cells, m))
<1> DEFINE Good == {k \in 0..Len(cells) : k >= m =>
                      /\ Space(Initial(cells, k)) <= Space(Initial(cells, m))
                      /\ Space(Initial(cells, k)) \in Int
                      /\ Fits(Initial(cells, k)) => Fits(Initial(cells, m))}
<1>1. Len(cells) \in Nat /\ m \in Nat /\ n \in 0..Len(cells)
  OBVIOUS
<1>2. \A k \in 0..Len(cells) : Initial(cells, k) \in Seq(Cells)
  BY InitialMore
<1>3. \A k \in 0..Len(cells) : Space(Initial(cells, k)) \in Int
  <2>1. \A s \in Seq(Cells) : Space(s) \in Int
    <3> TAKE s \in Seq(Cells)
    <3>1. SpaceOK(Rebuilt(s).body)
      BY RebuiltSpace DEF Built
    <3> QED
      BY <3>1 DEF Space, Free, SpaceOK, Layouts
  <2> QED
    BY <1>2, <2>1
<1>4. 0 \in Good
  BY <1>1, <1>3
<1>5. ASSUME NEW k \in 1..Len(cells), k - 1 \in Good
      PROVE  k \in Good
  <2>1. CASE k <= m
    <3>1. k \in 0..Len(cells) /\ (k >= m => k = m)
      BY <1>1, <2>1
    <3> QED
      BY <1>3, <3>1
  <2>2. CASE k > m
    <3>1. k - 1 >= m /\ k - 1 \in 0..Len(cells) /\ k \in 0..Len(cells)
      BY <1>1, <2>2
    <3>2. PICK front \in Seq(Cells) : front = Initial(cells, k - 1)
      BY <1>2, <3>1
    <3>3. cells[k] \in Cells /\ Initial(cells, k) = Append(front, cells[k])
      BY <3>2, InitialMore
    <3>4. PICK cost \in Nat : cost = Occupies(cells[k]) + SlotSize
      BY <3>3, FitsMore
    <3>5. Fits(Initial(cells, k)) => Fits(front)
      BY <3>3, FitsMore
    <3>6. Space(Initial(cells, k)) = Space(front) - cost \/ Space(Initial(cells, k)) = Space(front)
      BY <3>3, <3>4, FitsMore DEF Space
    <3>7. /\ Space(front) <= Space(Initial(cells, m)) /\ Space(front) \in Int
          /\ Fits(front) => Fits(Initial(cells, m))
      BY <1>5, <3>1, <3>2
    <3>8. Space(Initial(cells, m)) \in Int /\ Space(Initial(cells, k)) \in Int
      BY <1>3, <3>1
    <3> QED
      BY <3>1, <3>5, <3>6, <3>7, <3>8
  <2> QED
    BY <1>1, <2>1, <2>2
<1> HIDE DEF Good
<1>6. n \in Good
  <2>1. 0..Len(cells) \subseteq Good
    BY <1>1, <1>4, <1>5, CountUp
  <2> QED
    BY <1>1, <2>1
<1> QED
  BY <1>1, <1>3, <1>6 DEF Good

\* Fewer entries fit where more did.  place says where an entry of the fewer is
\* among the others.
LEMMA FewerFit ==
    ASSUME NEW cells \in Seq(Cells), NEW fewer \in Seq(Cells), Fits(cells),
           NEW place \in [0..Len(fewer) -> 0..Len(cells)],
           \A k \in 1..Len(fewer) : /\ place[k - 1] < place[k] /\ fewer[k] = cells[place[k]]
    PROVE  Fits(fewer)
<1> DEFINE Good == {k \in 0..Len(fewer) :
                      /\ Fits(Initial(fewer, k))
                      /\ Space(Initial(fewer, k)) >= Space(Initial(cells, place[k]))
                      /\ Space(Initial(fewer, k)) \in Int}
<1>1. Len(cells) \in Nat /\ Len(fewer) \in Nat
  OBVIOUS
<1>2. \A n \in 0..Len(cells) : /\ Fits(Initial(cells, n)) /\ Space(Initial(cells, n)) \in Int
                               /\ Space(Initial(cells, n)) <= Space(Initial(cells, 0))
  <2> TAKE n \in 0..Len(cells)
  <2>1. Len(cells) \in n..Len(cells) /\ 0 \in 0..Len(cells) /\ n \in 0..Len(cells)
    BY <1>1
  <2>2. Fits(Initial(cells, Len(cells)))
    BY InitialMore
  <2> QED
    BY <2>1, <2>2, InitialFits
<1>3. 0 \in Good
  <2>1. Initial(fewer, 0) = <<>> /\ Initial(cells, 0) = <<>> /\ 0 \in 0..Len(fewer) /\ 0 \in 0..Len(cells)
    BY <1>1, InitialMore
  <2>2. place[0] \in 0..Len(cells)
    BY <2>1
  <2> QED
    BY <1>2, <2>1, <2>2
<1>4. ASSUME NEW k \in 1..Len(fewer), k - 1 \in Good
      PROVE  k \in Good
  <2>1. PICK p \in 0..Len(cells) : p = place[k - 1]
    <3>1. k - 1 \in 0..Len(fewer)
      BY <1>1
    <3> QED
      BY <3>1
  <2>2. PICK q \in 1..Len(cells) : q = place[k] /\ p < q
    BY <1>1, <2>1, SMTT(20)
  <2>3. PICK cell \in Cells : cell = cells[q] /\ fewer[k] = cell
    BY <2>2
  <2>4. PICK before \in Seq(Cells) : before = Initial(cells, q - 1)
    BY <2>2, InitialMore
  <2>5. PICK had \in Seq(Cells) : had = Initial(fewer, k - 1)
    BY <1>1, InitialMore
  <2>6. Initial(cells, q) = Append(before, cell) /\ Initial(fewer, k) = Append(had, cell)
    <3>1. Initial(cells, q) = Append(Initial(cells, q - 1), cells[q])
      BY <2>2, InitialMore, ZenonT(30)
    <3>2. Initial(fewer, k) = Append(Initial(fewer, k - 1), fewer[k])
      BY InitialMore
    <3> QED
      BY <2>3, <2>4, <2>5, <3>1, <3>2
  <2>7. q \in 0..Len(cells) /\ q - 1 \in p..Len(cells) /\ k \in 0..Len(fewer)
    BY <1>1, <2>1, <2>2
  <2>8. Fits(had) /\ Space(had) >= Space(Initial(cells, p)) /\ Space(had) \in Int
    BY <1>4, <2>1, <2>5
  <2>9. Space(before) <= Space(Initial(cells, p)) /\ Space(Initial(cells, p)) \in Int
        /\ Space(before) \in Int
    BY <2>4, <2>7, InitialFits
  <2>10. PICK cost \in Nat : cost = Occupies(cell) + SlotSize
    BY FitsMore
  <2>11. /\ Fits(before) /\ IsKey(cell.key) /\ Space(before) >= cost
         /\ Space(Append(before, cell)) = Space(before) - cost
    <3>1. Fits(Append(before, cell))
      BY <1>2, <2>6, <2>7
    <3> QED
      BY <2>10, <3>1, FitsMore
  <2>12. Space(had) >= cost
    BY <2>8, <2>9, <2>10, <2>11
  <2>13. Fits(Append(had, cell)) /\ Space(Append(had, cell)) = Space(had) - cost
    BY <2>8, <2>10, <2>11, <2>12, FitsMore
  <2>14. Space(Append(had, cell)) >= Space(Append(before, cell)) /\ Space(Append(had, cell)) \in Int
    BY <2>8, <2>9, <2>10, <2>11, <2>13
  <2> QED
    BY <2>2, <2>6, <2>7, <2>13, <2>14
<1> HIDE DEF Good
<1>5. Len(fewer) \in Good
  <2>1. 0..Len(fewer) \subseteq Good
    BY <1>1, <1>3, <1>4, CountUp
  <2> QED
    BY <1>1, <2>1
<1> QED
  BY <1>5, InitialMore DEF Good

\* No entries always fit.
LEMMA NothingFits == Fits(<<>>)
BY RebuiltNone DEF Fits, Start

\* _rebuild leaves the page of the longest initial part that fits.
LEMMA RebuiltInitial ==
    ASSUME NEW cells \in Seq(Cells)
    PROVE  \E j \in 0..Len(cells) : /\ Fits(Initial(cells, j))
                                    /\ Rebuilt(cells).body = Rebuilt(Initial(cells, j)).body
                                    /\ Fits(cells) <=> j = Len(cells)
<1> DEFINE Stopped(n) == \E j \in 0..n :
                            /\ Fits(Initial(cells, j))
                            /\ Rebuilt(Initial(cells, n)).body = Rebuilt(Initial(cells, j)).body
                            /\ Fits(Initial(cells, n)) <=> j = n
           Good == {n \in 0..Len(cells) : Stopped(n)}
<1>1. Len(cells) \in Nat
  OBVIOUS
<1>2. 0 \in Good
  BY <1>1, NothingFits, InitialMore
<1>3. ASSUME NEW n \in 1..Len(cells), n - 1 \in Good
      PROVE  n \in Good
  <2>1. n \in 0..Len(cells) /\ n - 1 \in 0..Len(cells) /\ n \in 0..n
    OBVIOUS
  <2>2. CASE Fits(Initial(cells, n))
    BY <2>1, <2>2
  <2>3. CASE ~Fits(Initial(cells, n))
    <3>1. PICK j \in 0..(n - 1) :
              /\ Fits(Initial(cells, j))
              /\ Rebuilt(Initial(cells, n - 1)).body = Rebuilt(Initial(cells, j)).body
              /\ Fits(Initial(cells, n - 1)) <=> j = n - 1
      <4>1. Stopped(n - 1)
        <5> HIDE DEF Stopped
        <5> QED
          BY <1>3
      <4> QED
        BY <4>1
    <3>2. PICK front \in Seq(Cells) : front = Initial(cells, n - 1)
      BY <2>1, InitialMore
    <3>3. cells[n] \in Cells /\ Initial(cells, n) = Append(front, cells[n])
      BY <3>2, InitialMore
    <3>4. Rebuilt(Append(front, cells[n])).body = Rebuilt(front).body
      BY <2>3, <3>3, FitsMore
    <3>5. Rebuilt(Initial(cells, n)).body = Rebuilt(Initial(cells, j)).body
      BY <3>1, <3>2, <3>3, <3>4
    <3>6. j \in 0..n /\ j # n
      OBVIOUS
    <3> QED
      BY <2>1, <2>3, <3>1, <3>5, <3>6
  <2> QED
    BY <2>2, <2>3
<1>4. Len(cells) \in Good
  <2> HIDE DEF Good
  <2>1. 0..Len(cells) \subseteq Good
    BY <1>1, <1>2, <1>3, CountUp
  <2> QED
    BY <1>1, <2>1
<1> QED
  BY <1>4, InitialMore

\* The page holds cells, in the order of its slots, and has no other slot.
Carries(body, cells) ==
    /\ SpaceOK(body) /\ Len(body.slots) = Len(cells) /\ Live(body) = 1..Len(cells)
    /\ \A n \in 1..Len(cells) : Read(body, n) = cells[n]

\* _rebuild of entries that fit leaves a page that carries them.
LEMMA FittingContained ==
    ASSUME NEW cells \in Seq(Cells), Fits(cells)
    PROVE  /\ Carries(Rebuilt(cells).body, cells)
           /\ \A n \in 1..Len(cells) : IsKey(cells[n].key)
<1>1. PICK j \in 0..Len(cells) :
          /\ Len(Rebuilt(cells).body.slots) = j /\ Live(Rebuilt(cells).body) = 1..j
          /\ \A k \in 1..j : Read(Rebuilt(cells).body, k) = cells[k] /\ IsKey(cells[k].key)
          /\ Rebuilt(cells).raised <=> j < Len(cells)
  BY RebuiltSpace DEF Built
<1>2. j = Len(cells)
  BY <1>1 DEF Fits
<1>3. SpaceOK(Rebuilt(cells).body)
  BY RebuiltSpace DEF Built
<1> QED
  BY <1>1, <1>2, <1>3 DEF Carries

-----------------------------------------------------------------------------
(* The entries of a leaf. *)

Listing(cells, body, n) == IF n \in Live(body) THEN Append(cells, Read(body, n)) ELSE cells

\* _entries, one slot after the other.
LEMMA EntriesSteps ==
    ASSUME NEW leaf, SpaceOK(leaf.body)
    PROVE  \E to : /\ to[0] = <<>>
                   /\ \A n \in 1..Len(leaf.body.slots) : to[n] = Listing(to[n - 1], leaf.body, n)
                   /\ Entries(leaf) = to[Len(leaf.body.slots)]
<1> DEFINE N == Len(leaf.body.slots)
           R(it) == it = [s \in SUBSET (1..N) |->
                            IF s = {} THEN <<>> ELSE Listing(it[s \ {Max(s)}], leaf.body, Max(s))]
           step == [x \in Seq(Cells) \X (1..N) |-> Listing(x[1], leaf.body, x[2])]
<1>1. N \in Nat /\ DOMAIN leaf.body.slots = 1..N
  BY DEF SpaceOK, Layouts
<1>2. step \in [Seq(Cells) \X (1..N) -> Seq(Cells)]
  BY ReadType DEF Listing
<1>3. PICK it \in [SUBSET (1..N) -> Seq(Cells)] : Folding(it, N, <<>>, step)
  <2>1. N \in Nat /\ <<>> \in Seq(Cells)
    BY <1>1
  <2> HIDE DEF step, N, R
  <2> QED
    BY <1>2, <2>1, FoldExists
<1>4. R(it)
  <2>1. ASSUME NEW s \in SUBSET (1..N), s # {}
        PROVE  step[<<it[s \ {Max(s)}], Max(s)>>] = Listing(it[s \ {Max(s)}], leaf.body, Max(s))
    BY <1>1, <2>1, MaxWithin
  <2> HIDE DEF step, N
  <2> QED
    BY <1>3, <2>1 DEF Folding
<1>5. PICK numbers : numbers = [i \in DOMAIN leaf.body.slots |-> i]
  OBVIOUS
<1>6. DOMAIN numbers = 1..N /\ \A s \in SUBSET (1..N) : s # {} => numbers[Max(s)] = Max(s)
  BY <1>1, <1>5, MaxWithin
<1> DEFINE Q(it_) == it_ = [s \in SUBSET (1..N) |->
                            IF s = {} THEN <<>>
                            ELSE Listing(it_[s \ {Max(s)}], leaf.body, numbers[Max(s)])]
<1>7. Entries(leaf) = (CHOOSE g : Q(g))[1..N]
  <2>1. DOMAIN [i \in DOMAIN leaf.body.slots |-> i] = 1..N
    BY <1>1
  <2> QED
    BY <1>1, <1>5, <2>1 DEF Entries, FoldLeftDomain, FoldLeft, MapThenFoldSet, Listing
<1>8. \A g : Q(g) <=> R(g)
  BY <1>6
<1>9. PICK g : R(g) /\ Entries(leaf) = g[1..N]
  <2>1. Q(CHOOSE h : Q(h))
    <3> HIDE DEF Q, R
    <3> QED
      BY <1>4, <1>8, Zenon
  <2> HIDE DEF R, Q, N
  <2> QED
    BY <1>7, <1>8, <2>1
<1> DEFINE to == [n \in 0..N |-> g[1..n]]
<1>10. to[0] = <<>> /\ to[N] = g[1..N]
  <2>1. 1..0 = {} /\ 0 \in 0..N /\ N \in 0..N
    BY <1>1
  <2> QED
    BY <1>9, <2>1
<1>11. ASSUME NEW n \in 1..N
       PROVE  to[n] = Listing(to[n - 1], leaf.body, n)
  <2>1. Max(1..n) = n /\ (1..n) \ {n} = 1..(n - 1) /\ 1..n # {}
    BY LastOfInterval
  <2>2. n \in 0..N /\ n - 1 \in 0..N /\ 1..n \in SUBSET (1..N)
    BY <1>1
  <2> QED
    BY <1>9, <2>1, <2>2
<1> HIDE DEF to, R, Q
<1> QED
  BY <1>9, <1>10, <1>11

\* The entries of a leaf without deleted slots are what its page holds.
LEMMA EntriesOf ==
    ASSUME NEW leaf, NEW cells \in Seq(Cells), Carries(leaf.body, cells)
    PROVE  Entries(leaf) = cells
<1>1. PICK to : /\ to[0] = <<>>
                /\ \A n \in 1..Len(leaf.body.slots) : to[n] = Listing(to[n - 1], leaf.body, n)
                /\ Entries(leaf) = to[Len(leaf.body.slots)]
  BY EntriesSteps DEF Carries
<1>2. Len(leaf.body.slots) = Len(cells) /\ Live(leaf.body) = 1..Len(cells) /\ Len(cells) \in Nat
  BY DEF Carries
<1> DEFINE Good == {n \in 0..Len(cells) : to[n] = Initial(cells, n)}
<1>3. 0 \in Good
  BY <1>1, <1>2, InitialMore
<1>4. ASSUME NEW n \in 1..Len(cells), n - 1 \in Good
      PROVE  n \in Good
  <2>1. to[n] = Append(to[n - 1], cells[n])
    <3>1. n \in Live(leaf.body) /\ Read(leaf.body, n) = cells[n]
      BY <1>2 DEF Carries
    <3>2. to[n] = Listing(to[n - 1], leaf.body, n)
      BY <1>1, <1>2
    <3> QED
      BY <3>1, <3>2 DEF Listing
  <2>2. Initial(cells, n) = Append(Initial(cells, n - 1), cells[n])
    BY InitialMore
  <2>3. to[n - 1] = Initial(cells, n - 1) /\ n \in 0..Len(cells)
    BY <1>2, <1>4
  <2> QED
    BY <2>1, <2>2, <2>3
<1>5. Len(cells) \in Good
  <2> HIDE DEF Good
  <2>1. 0..Len(cells) \subseteq Good
    BY <1>2, <1>3, <1>4, CountUp
  <2> QED
    BY <1>2, <2>1
<1> QED
  BY <1>1, <1>2, <1>5, InitialMore

Keeping(others, cell, key) == IF cell.key # key THEN Append(others, cell) ELSE others

\* The entries without those of a key, one after the other.
LEMMA OthersSteps ==
    ASSUME NEW cells \in Seq(Cells), NEW key
    PROVE  \E to : /\ to[0] = <<>>
                   /\ \A n \in 1..Len(cells) : to[n] = Keeping(to[n - 1], cells[n], key)
                   /\ Others(cells, key) = to[Len(cells)]
<1> DEFINE N == Len(cells)
           R(it) == it = [s \in SUBSET (1..N) |->
                            IF s = {} THEN <<>> ELSE Keeping(it[s \ {Max(s)}], cells[Max(s)], key)]
           step == [x \in Seq(Cells) \X (1..N) |-> Keeping(x[1], cells[x[2]], key)]
<1>1. N \in Nat /\ DOMAIN cells = 1..N /\ \A n \in 1..N : cells[n] \in Cells
  OBVIOUS
<1>2. step \in [Seq(Cells) \X (1..N) -> Seq(Cells)]
  BY <1>1 DEF Keeping
<1>3. PICK it \in [SUBSET (1..N) -> Seq(Cells)] : Folding(it, N, <<>>, step)
  <2>1. N \in Nat /\ <<>> \in Seq(Cells)
    BY <1>1
  <2> HIDE DEF step, N, R
  <2> QED
    BY <1>2, <2>1, FoldExists
<1>4. R(it)
  <2>1. ASSUME NEW s \in SUBSET (1..N), s # {}
        PROVE  step[<<it[s \ {Max(s)}], Max(s)>>] = Keeping(it[s \ {Max(s)}], cells[Max(s)], key)
    BY <1>1, <2>1, MaxWithin
  <2> HIDE DEF step, N
  <2> QED
    BY <1>3, <2>1 DEF Folding
<1>5. Others(cells, key) = (CHOOSE g : R(g))[1..N]
  BY <1>1 DEF Others, FoldLeft, MapThenFoldSet, Keeping
<1>6. PICK g : R(g) /\ Others(cells, key) = g[1..N]
  <2>1. R(CHOOSE h : R(h))
    <3> HIDE DEF R
    <3> QED
      BY <1>4, Zenon
  <2> HIDE DEF R, N
  <2> QED
    BY <1>5, <2>1
<1> DEFINE to == [n \in 0..N |-> g[1..n]]
<1>7. to[0] = <<>> /\ to[N] = g[1..N]
  <2>1. 1..0 = {} /\ 0 \in 0..N /\ N \in 0..N
    BY <1>1
  <2> QED
    BY <1>6, <2>1
<1>8. ASSUME NEW n \in 1..N
      PROVE  to[n] = Keeping(to[n - 1], cells[n], key)
  <2>1. Max(1..n) = n /\ (1..n) \ {n} = 1..(n - 1) /\ 1..n # {}
    BY LastOfInterval
  <2>2. n \in 0..N /\ n - 1 \in 0..N /\ 1..n \in SUBSET (1..N)
    BY <1>1
  <2> QED
    BY <1>6, <2>1, <2>2
<1> HIDE DEF to, R
<1> QED
  BY <1>6, <1>7, <1>8

-----------------------------------------------------------------------------
(* Entries in the order of their keys. *)

Sorted(cells) == \A m, n \in 1..Len(cells) : m < n => cells[m].key < cells[n].key
Has(cells) == {cells[n] : n \in 1..Len(cells)}

\* delete_key leaves out one entry, and the others keep their order.
LEMMA OthersShape ==
    ASSUME NEW cells \in Seq(Cells), Sorted(cells), NEW p \in 1..Len(cells),
           NEW others, others = Others(cells, cells[p].key)
    PROVE  /\ others \in Seq(Cells) /\ Len(others) = Len(cells) - 1
           /\ \A k \in 1..(Len(cells) - 1) :
                  others[k] = cells[IF k < p THEN k ELSE k + 1]
<1> DEFINE key == cells[p].key
           at(k) == IF k < p THEN k ELSE k + 1
           Kept(n, s) == /\ s \in Seq(Cells) /\ Len(s) = IF n < p THEN n ELSE n - 1
                         /\ \A k \in 1..Len(s) : s[k] = cells[at(k)]
<1>1. PICK to : /\ to[0] = <<>>
                /\ \A n \in 1..Len(cells) : to[n] = Keeping(to[n - 1], cells[n], key)
                /\ Others(cells, key) = to[Len(cells)]
  BY OthersSteps
<1> DEFINE Good == {n \in 0..Len(cells) : Kept(n, to[n])}
<1>2. Len(cells) \in Nat /\ Len(cells) \in 0..Len(cells) /\ \A n \in 1..Len(cells) : cells[n] \in Cells
  OBVIOUS
<1>3. \A n \in 1..Len(cells) : cells[n].key = key <=> n = p
  <2> TAKE n \in 1..Len(cells)
  <2>1. cells[n].key \in Int /\ key \in Int
    BY <1>2 DEF Cells
  <2>2. n < p => cells[n].key < key
    BY DEF Sorted
  <2>3. p < n => key < cells[n].key
    BY DEF Sorted
  <2> QED
    BY <2>1, <2>2, <2>3
<1>4. 0 \in Good
  <2>1. Kept(0, <<>>)
    OBVIOUS
  <2>2. 0 \in 0..Len(cells)
    BY <1>2
  <2> HIDE DEF Kept
  <2> QED
    BY <1>1, <2>1, <2>2
<1>5. ASSUME NEW n \in 1..Len(cells), n - 1 \in Good
      PROVE  n \in Good
  <2>1. PICK was : was = to[n - 1]
    OBVIOUS
  <2>2. Kept(n - 1, was)
    <3> HIDE DEF Kept
    <3> QED
      BY <1>5, <2>1
  <2>3. n \in 0..Len(cells) /\ cells[n] \in Cells
    BY <1>2
  <2>4. CASE n = p
    <3>1. to[n] = was
      BY <1>1, <1>3, <2>1, <2>4 DEF Keeping
    <3>2. Kept(n, was)
      BY <2>2, <2>4
    <3> HIDE DEF Kept
    <3> QED
      BY <2>3, <3>1, <3>2
  <2>5. CASE n # p
    <3>1. to[n] = Append(was, cells[n])
      BY <1>1, <1>3, <2>1, <2>5 DEF Keeping
    <3>2. PICK new : new = Append(was, cells[n])
      OBVIOUS
    <3>3. /\ new \in Seq(Cells) /\ Len(new) = Len(was) + 1 /\ new[Len(was) + 1] = cells[n]
          /\ \A k \in 1..Len(was) : new[k] = was[k]
      BY <2>2, <2>3, <3>2
    <3>4. Len(new) = (IF n < p THEN n ELSE n - 1) /\ at(Len(new)) = n /\ Len(new) = Len(was) + 1
      BY <2>2, <2>5, <3>3
    <3>5. ASSUME NEW k \in 1..Len(new)
          PROVE  new[k] = cells[at(k)]
      <4>1. CASE k = Len(new)
        BY <3>3, <3>4, <4>1
      <4>2. CASE k # Len(new)
        <5>1. k \in 1..Len(was)
          BY <2>2, <3>4, <4>2
        <5>2. was[k] = cells[at(k)]
          BY <2>2, <5>1
        <5> QED
          BY <3>3, <5>1, <5>2
      <4> QED
        BY <4>1, <4>2
    <3>6. Kept(n, new)
      BY <3>3, <3>4, <3>5
    <3> HIDE DEF Kept
    <3> QED
      BY <2>3, <3>1, <3>2, <3>6
  <2> QED
    BY <2>4, <2>5
<1>6. Kept(Len(cells), others)
  <2> HIDE DEF Good, Kept
  <2>1. 0..Len(cells) \subseteq Good
    BY <1>2, <1>4, <1>5, CountUp
  <2> QED
    BY <1>1, <1>2, <2>1 DEF Good
<1>7. ~(Len(cells) < p)
  BY <1>2
<1> QED
  BY <1>6, <1>7

\* In a sorted list, the entries below a key come first.
LEMMA BelowFirst ==
    ASSUME NEW cells \in Seq(Cells), Sorted(cells), NEW key \in Int
    PROVE  \E r \in 0..Len(cells) :
               /\ {n \in DOMAIN cells : cells[n].key < key} = 1..r
               /\ Cardinality({n \in DOMAIN cells : cells[n].key < key}) = r
<1> DEFINE below == {n \in DOMAIN cells : cells[n].key < key}
<1>1. /\ Len(cells) \in Nat /\ DOMAIN cells = 1..Len(cells)
      /\ \A n \in 1..Len(cells) : cells[n].key \in Int
  <2>1. \A n \in 1..Len(cells) : cells[n] \in Cells
    OBVIOUS
  <2> QED
    BY <2>1 DEF Cells
<1>2. \E r \in 0..Len(cells) : below = 1..r
  <2>1. CASE below = {}
    BY <1>1, <2>1
  <2>2. CASE below # {}
    <3>1. PICK r : r = Max(below)
      OBVIOUS
    <3>2. r \in below /\ \A n \in below : n <= r
      BY <1>1, <2>2, <3>1, MaxWithin
    <3>3. ASSUME NEW n \in 1..r
          PROVE  n \in below
      <4>1. n \in 1..Len(cells) /\ r \in 1..Len(cells)
        BY <1>1, <3>2
      <4>2. n = r \/ cells[n].key < cells[r].key
        BY <4>1 DEF Sorted
      <4> QED
        BY <1>1, <3>2, <4>1, <4>2
    <3>4. r \in 0..Len(cells) /\ below \subseteq 1..r
      BY <1>1, <3>2
    <3> QED
      BY <3>3, <3>4
  <2> QED
    BY <2>1, <2>2
<1>3. PICK r \in 0..Len(cells) : below = 1..r
  BY <1>2
<1>4. Cardinality(1..r) = r
  BY FS_Interval
<1> QED
  BY <1>3, <1>4

\* insert leaves the entries sorted: the others as they were, and the new one.
LEMMA ChangedShape ==
    ASSUME NEW leaf, NEW cells \in Seq(Cells), Sorted(cells), Entries(leaf) = cells,
           NEW key \in Int, NEW len \in Nat
    PROVE  /\ Changed(leaf, key, len) \in Seq(Cells) /\ Sorted(Changed(leaf, key, len))
           /\ Has(Changed(leaf, key, len)) = {c \in Has(cells) : c.key # key} \cup {Cell(key, len)}
<1>1. PICK cell \in Cells : cell = Cell(key, len)
  <2>1. KeySize + len \in Nat
    BY DEF KeySize
  <2>2. Cell(key, len) \in Cells
    BY <2>1 DEF Cell, Cells
  <2> QED
    BY <2>2
<1>2. cell.key = key
  BY <1>1 DEF Cell
<1>3. /\ Len(cells) \in Nat /\ DOMAIN cells = 1..Len(cells)
      /\ \A n \in 1..Len(cells) : cells[n] \in Cells /\ cells[n].key \in Int
  <2>1. \A n \in 1..Len(cells) : cells[n] \in Cells
    OBVIOUS
  <2> QED
    BY <2>1 DEF Cells
<1>4. CASE \E n \in DOMAIN cells : cells[n].key = key
  <2>1. PICK p \in 1..Len(cells) : cells[p].key = key
    BY <1>3, <1>4
  <2>2. \A n \in 1..Len(cells) : cells[n].key = key => n = p
    <3> TAKE n \in 1..Len(cells)
    <3>1. n < p => cells[n].key < cells[p].key
      BY DEF Sorted
    <3>2. p < n => cells[p].key < cells[n].key
      BY DEF Sorted
    <3> QED
      BY <1>3, <2>1, <3>1, <3>2
  <2>3. PICK new : new = Changed(leaf, key, len)
    OBVIOUS
  <2>4. new = [n \in 1..Len(cells) |-> IF cells[n].key = key THEN cell ELSE cells[n]]
    BY <1>1, <1>3, <1>4, <2>3 DEF Changed
  <2>5. /\ new \in Seq(Cells) /\ Len(new) = Len(cells)
        /\ \A n \in 1..Len(cells) : new[n].key = cells[n].key
        /\ new[p] = cell /\ \A n \in 1..Len(cells) : n # p => new[n] = cells[n]
    BY <1>2, <1>3, <2>1, <2>2, <2>4
  <2>6. Sorted(new)
    BY <2>5 DEF Sorted
  <2>7. Has(new) = {c \in Has(cells) : c.key # key} \cup {cell}
    BY <2>1, <2>2, <2>5 DEF Has
  <2> QED
    BY <1>1, <2>3, <2>5, <2>6, <2>7
<1>5. CASE ~\E n \in DOMAIN cells : cells[n].key = key
  <2>1. PICK r \in 0..Len(cells) :
            /\ {n \in DOMAIN cells : cells[n].key < key} = 1..r
            /\ Cardinality({n \in DOMAIN cells : cells[n].key < key}) = r
    BY BelowFirst
  <2>2. PICK new : new = Changed(leaf, key, len)
    OBVIOUS
  <2>3. new = InsertAt(cells, 1 + r, cell)
    BY <1>1, <1>5, <2>1, <2>2 DEF Changed
  <2>4. new = SubSeq(cells, 1, (1 + r) - 1) \o <<cell>> \o SubSeq(cells, 1 + r, Len(cells))
    BY <2>3, Zenon DEF InsertAt
  <2>5. PICK low : low = SubSeq(cells, 1, r)
    OBVIOUS
  <2>6. PICK high : high = SubSeq(cells, r + 1, Len(cells))
    OBVIOUS
  <2>7. low \in Seq(Cells) /\ Len(low) = r /\ \A n \in 1..r : low[n] = cells[n]
    BY <1>3, <2>5
  <2>8. /\ high \in Seq(Cells) /\ Len(high) = Len(cells) - r
        /\ \A n \in 1..(Len(cells) - r) : high[n] = cells[r + n]
    <3>1. r + 1 \in Int /\ Len(cells) \in Int /\ \A n \in (r + 1)..Len(cells) : cells[n] \in Cells
      BY <1>3
    <3>2. /\ high \in Seq(Cells)
          /\ Len(high) = IF r + 1 <= Len(cells) THEN Len(cells) - (r + 1) + 1 ELSE 0
          /\ \A n \in 1..(Len(cells) - (r + 1) + 1) : high[n] = cells[(r + 1) + n - 1]
      BY <2>6, <3>1, SubSeqProperties
    <3>3. Len(high) = Len(cells) - r
      <4>1. CASE r = Len(cells)
        <5>1. ~(r + 1 <= Len(cells)) /\ Len(cells) - r = 0
          BY <1>3, <4>1
        <5> QED
          BY <3>2, <5>1
      <4>2. CASE r # Len(cells)
        <5>1. r + 1 <= Len(cells) /\ Len(cells) - (r + 1) + 1 = Len(cells) - r
          BY <1>3, <4>2
        <5> QED
          BY <3>2, <5>1
      <4> QED
        BY <4>1, <4>2
    <3>4. ASSUME NEW n \in 1..(Len(cells) - r)
          PROVE  high[n] = cells[r + n]
      <4>1. n \in 1..(Len(cells) - (r + 1) + 1) /\ (r + 1) + n - 1 = r + n
        BY <1>3
      <4> QED
        BY <3>2, <4>1
    <3> QED
      BY <3>2, <3>3, <3>4
  <2>9. new = low \o <<cell>> \o high
    <3>1. (1 + r) - 1 = r /\ 1 + r = r + 1
      OBVIOUS
    <3> QED
      BY <2>4, <2>5, <2>6, <3>1
  <2>10. PICK most : most = low \o <<cell>>
    OBVIOUS
  <2>11. /\ most \in Seq(Cells) /\ Len(most) = r + 1 /\ most[r + 1] = cell
         /\ \A n \in 1..r : most[n] = cells[n]
    BY <1>3, <2>7, <2>10
  <2>12. new \in Seq(Cells) /\ Len(new) = Len(cells) + 1
         /\ (\A n \in 1..(r + 1) : new[n] = most[n])
         /\ (\A n \in (r + 2)..(Len(cells) + 1) : new[n] = high[n - (r + 1)])
    BY <1>3, <2>8, <2>9, <2>10, <2>11
  <2>13. /\ \A n \in 1..r : new[n] = cells[n]
         /\ new[r + 1] = cell
         /\ \A n \in (r + 2)..(Len(cells) + 1) : new[n] = cells[n - 1]
    <3>1. \A n \in (r + 2)..(Len(cells) + 1) : /\ n - (r + 1) \in 1..(Len(cells) - r)
                                               /\ r + (n - (r + 1)) = n - 1
      BY <1>3
    <3>2. \A n \in (r + 2)..(Len(cells) + 1) : new[n] = cells[n - 1]
      BY <2>8, <2>12, <3>1
    <3>3. r + 1 \in 1..(r + 1) /\ \A n \in 1..r : n \in 1..(r + 1)
      OBVIOUS
    <3> QED
      BY <2>11, <2>12, <3>2, <3>3
  <2>14. /\ \A n \in 1..r : cells[n].key < key
         /\ \A n \in (r + 1)..Len(cells) : key < cells[n].key
    <3>1. \A n \in 1..Len(cells) : cells[n].key < key <=> n \in 1..r
      BY <1>3, <2>1
    <3>2. \A n \in 1..Len(cells) : cells[n].key # key
      BY <1>3, <1>5
    <3> QED
      BY <1>3, <3>1, <3>2
  <2>15. Sorted(new)
    <3> SUFFICES ASSUME NEW m \in 1..Len(new), NEW n \in 1..Len(new), m < n
                 PROVE  new[m].key < new[n].key
      BY DEF Sorted
    <3>1. CASE n <= r
      <4>1. m \in 1..r /\ n \in 1..r /\ m \in 1..Len(cells) /\ n \in 1..Len(cells)
        BY <1>3, <2>12, <3>1
      <4> QED
        BY <2>13, <4>1 DEF Sorted
    <3>2. CASE n = r + 1
      <4>1. m \in 1..r
        BY <1>3, <2>12, <3>2
      <4> QED
        BY <1>2, <2>13, <2>14, <3>2, <4>1
    <3>3. CASE n > r + 1 /\ m <= r
      <4>1. m \in 1..r /\ n \in (r + 2)..(Len(cells) + 1) /\ m \in 1..Len(cells)
            /\ n - 1 \in 1..Len(cells) /\ m < n - 1
        BY <1>3, <2>12, <3>3
      <4> QED
        BY <2>13, <4>1 DEF Sorted
    <3>4. CASE n > r + 1 /\ m = r + 1
      <4>1. n \in (r + 2)..(Len(cells) + 1) /\ n - 1 \in (r + 1)..Len(cells)
        BY <1>3, <2>12, <3>4
      <4> QED
        BY <1>2, <2>13, <2>14, <3>4, <4>1
    <3>5. CASE n > r + 1 /\ m > r + 1
      <4>1. m \in (r + 2)..(Len(cells) + 1) /\ n \in (r + 2)..(Len(cells) + 1)
            /\ m - 1 \in 1..Len(cells) /\ n - 1 \in 1..Len(cells) /\ m - 1 < n - 1
        BY <1>3, <2>12, <3>5
      <4> QED
        BY <2>13, <4>1 DEF Sorted
    <3> QED
      BY <1>3, <2>12, <3>1, <3>2, <3>3, <3>4, <3>5
  <2>16. Has(new) = Has(cells) \cup {cell}
    <3>1. ASSUME NEW n \in 1..Len(new)
          PROVE  new[n] \in Has(cells) \cup {cell}
      <4>1. n \in 1..r \/ n = r + 1 \/ (n \in (r + 2)..(Len(cells) + 1) /\ n - 1 \in 1..Len(cells))
        BY <1>3, <2>12
      <4>2. n \in 1..r => n \in 1..Len(cells)
        BY <1>3
      <4> QED
        BY <2>13, <4>1, <4>2 DEF Has
    <3>2. ASSUME NEW n \in 1..Len(cells)
          PROVE  cells[n] \in Has(new)
      <4>1. CASE n <= r
        <5>1. n \in 1..r /\ n \in 1..Len(new)
          BY <1>3, <2>12, <4>1
        <5> QED
          BY <2>13, <5>1 DEF Has
      <4>2. CASE n > r
        <5>1. n + 1 \in (r + 2)..(Len(cells) + 1) /\ n + 1 \in 1..Len(new) /\ n + 1 - 1 = n
          BY <1>3, <2>12, <4>2
        <5> QED
          BY <2>13, <5>1 DEF Has
      <4> QED
        BY <1>3, <4>1, <4>2
    <3>3. r + 1 \in 1..Len(new)
      BY <1>3, <2>12
    <3>4. cell \in Has(new)
      BY <2>13, <3>3 DEF Has
    <3> QED
      BY <3>1, <3>2, <3>4 DEF Has
  <2>17. \A c \in Has(cells) : c.key # key
    BY <1>3, <1>5 DEF Has
  <2> QED
    BY <1>1, <2>2, <2>12, <2>15, <2>16, <2>17
<1> QED
  BY <1>4, <1>5

-----------------------------------------------------------------------------
(* search bisects the entries. *)

\* The entries of a key between two positions.
Between(cells, key, lo, hi) == {cells[n] : n \in {k \in lo..hi : cells[k].key = key}}

\* The middle of a range that is not empty lies in it.
LEMMA Middle ==
    ASSUME NEW lo \in Nat \ {0}, NEW hi \in Nat, lo <= hi
    PROVE  (lo + hi) \div 2 \in lo..hi
OBVIOUS

\* One halving of the range lo..hi loses no entry of the key.
Narrowed(cells, key, lo, hi, mid) ==
    /\ mid \in lo..hi /\ mid \in 1..Len(cells)
    /\ mid + 1 \in 1..(Len(cells) + 1) /\ mid - 1 \in 0..Len(cells)
    /\ Between(cells, key, lo, hi) =
          IF cells[mid].key = key THEN {cells[mid]}
          ELSE IF cells[mid].key < key THEN Between(cells, key, mid + 1, hi)
          ELSE Between(cells, key, lo, mid - 1)

\* Looking at the middle entry narrows the search to one side.
LEMMA BisectStep ==
    ASSUME NEW cells \in Seq(Cells), Sorted(cells), NEW key \in Int,
           NEW lo \in 1..(Len(cells) + 1), NEW hi \in 0..Len(cells), lo <= hi,
           NEW mid, mid = (lo + hi) \div 2
    PROVE  Narrowed(cells, key, lo, hi, mid)
<1>1. Len(cells) \in Nat /\ lo \in Nat \ {0} /\ hi \in Nat
  OBVIOUS
<1>2. mid \in lo..hi
  BY <1>1, Middle
<1>3. mid \in 1..Len(cells) /\ mid + 1 \in 1..(Len(cells) + 1) /\ mid - 1 \in 0..Len(cells)
  BY <1>1, <1>2
<1>4. \A n \in 1..Len(cells) : cells[n].key \in Int
  <2>1. \A n \in 1..Len(cells) : cells[n] \in Cells
    OBVIOUS
  <2> QED
    BY <2>1 DEF Cells
<1>5. ASSUME NEW n \in lo..hi
      PROVE  /\ n \in 1..Len(cells) /\ cells[n].key \in Int /\ cells[mid].key \in Int
             /\ n < mid => cells[n].key < cells[mid].key
             /\ mid < n => cells[mid].key < cells[n].key
  <2>1. n \in 1..Len(cells)
    BY <1>1
  <2> QED
    BY <1>3, <1>4, <2>1 DEF Sorted
<1>6. CASE cells[mid].key = key
  <2>1. {k \in lo..hi : cells[k].key = key} = {mid}
    BY <1>1, <1>2, <1>5, <1>6
  <2> QED
    BY <1>2, <1>3, <1>6, <2>1 DEF Between, Narrowed
<1>7. CASE cells[mid].key # key /\ cells[mid].key < key
  <2>1. \A k \in lo..hi : cells[k].key = key => k \in (mid + 1)..hi
    BY <1>1, <1>2, <1>5, <1>7
  <2>2. (mid + 1)..hi \subseteq lo..hi
    BY <1>1, <1>2
  <2>3. {k \in lo..hi : cells[k].key = key} = {k \in (mid + 1)..hi : cells[k].key = key}
    BY <2>1, <2>2
  <2> QED
    BY <1>2, <1>3, <1>7, <2>3 DEF Between, Narrowed
<1>8. CASE cells[mid].key # key /\ ~(cells[mid].key < key)
  <2>1. \A k \in lo..hi : cells[k].key = key => k \in lo..(mid - 1)
    BY <1>1, <1>2, <1>5, <1>8
  <2>2. lo..(mid - 1) \subseteq lo..hi
    BY <1>1, <1>2
  <2>3. {k \in lo..hi : cells[k].key = key} = {k \in lo..(mid - 1) : cells[k].key = key}
    BY <2>1, <2>2
  <2> QED
    BY <1>2, <1>3, <1>8, <2>3 DEF Between, Narrowed
<1> QED
  BY <1>6, <1>7, <1>8

\* Bisection finds the entry of a key, if there is one, and nothing else.
LEMMA FoundShape ==
    ASSUME NEW leaf, NEW cells \in Seq(Cells), Sorted(cells), Entries(leaf) = cells,
           NEW key \in Int
    PROVE  Found(leaf, key) = {c \in Has(cells) : c.key = key}
<1> DEFINE N == Len(cells)
           D == (1..(N + 1)) \X (0..N)
           Halved(f, lo, hi, mid) ==
               IF lo > hi THEN {}
               ELSE IF cells[mid].key = key THEN {cells[mid]}
               ELSE IF cells[mid].key < key THEN f[<<mid + 1, hi>>]
               ELSE f[<<lo, mid - 1>>]
           B(f) == f = [range \in D |-> Halved(f, range[1], range[2], (range[1] + range[2]) \div 2)]
           g == [range \in D |-> Between(cells, key, range[1], range[2])]
<1>1. N \in Nat
  OBVIOUS
<1>2. \A lo \in 1..(N + 1), hi \in 0..N : lo > hi => Between(cells, key, lo, hi) = {}
  BY <1>1 DEF Between
<1>3. B(g)
  <2>1. ASSUME NEW lo \in 1..(N + 1), NEW hi \in 0..N, NEW mid, mid = (lo + hi) \div 2
        PROVE  g[<<lo, hi>>] = Halved(g, lo, hi, mid)
    <3>1. CASE lo > hi
      BY <1>2, <3>1
    <3>2. CASE ~(lo > hi)
      <4>1. lo <= hi
        BY <1>1, <3>2
      <4>2. /\ mid + 1 \in 1..(N + 1) /\ mid - 1 \in 0..N
            /\ Between(cells, key, lo, hi) =
                  IF cells[mid].key = key THEN {cells[mid]}
                  ELSE IF cells[mid].key < key THEN Between(cells, key, mid + 1, hi)
                  ELSE Between(cells, key, lo, mid - 1)
        <5>1. Narrowed(cells, key, lo, hi, mid)
          BY <2>1, <4>1, BisectStep
        <5> QED
          BY <5>1 DEF Narrowed
      <4>3. /\ g[<<mid + 1, hi>>] = Between(cells, key, mid + 1, hi)
            /\ g[<<lo, mid - 1>>] = Between(cells, key, lo, mid - 1)
            /\ g[<<lo, hi>>] = Between(cells, key, lo, hi)
        BY <4>2
      <4> HIDE DEF g
      <4> QED
        BY <3>2, <4>2, <4>3
    <3> QED
      BY <3>1, <3>2
  <2>2. g = [range \in D |-> g[range]]
    OBVIOUS
  <2>3. \A range \in D : /\ range = <<range[1], range[2]>>
                         /\ range[1] \in 1..(N + 1) /\ range[2] \in 0..N
    OBVIOUS
  <2> HIDE DEF g, N, D, Halved
  <2>4. \A range \in D : g[range] = Halved(g, range[1], range[2], (range[1] + range[2]) \div 2)
    BY <2>1, <2>3
  <2> QED
    BY <2>2, <2>4
<1>4. Found(leaf, key) = (CHOOSE f : B(f))[<<1, N>>]
  BY DEF Found
<1>5. PICK f : B(f) /\ Found(leaf, key) = f[<<1, N>>]
  <2>1. B(CHOOSE h : B(h))
    <3> HIDE DEF B
    <3> QED
      BY <1>3, Zenon
  <2> HIDE DEF B, N
  <2> QED
    BY <1>4, <2>1
<1>6. ASSUME NEW lo \in 1..(N + 1), NEW hi \in 0..N
       PROVE  f[<<lo, hi>>] = Halved(f, lo, hi, (lo + hi) \div 2)
  <2>1. <<lo, hi>> \in D /\ <<lo, hi>>[1] = lo /\ <<lo, hi>>[2] = hi
    BY SMTT(20)
  <2>2. f = [range \in D |-> Halved(f, range[1], range[2], (range[1] + range[2]) \div 2)]
    BY <1>5, ZenonT(30)
  <2> HIDE DEF B, D, Halved
  <2> QED
    BY <2>1, <2>2
<1> DEFINE Good == {d \in 0..N : \A lo \in 1..(N + 1), hi \in 0..N :
                      hi < lo + d => f[<<lo, hi>>] = Between(cells, key, lo, hi)}
<1>7. 0 \in Good
  <2>1. \A lo \in 1..(N + 1), hi \in 0..N : hi < lo + 0 => lo > hi
    BY <1>1
  <2>2. \A lo \in 1..(N + 1), hi \in 0..N : hi < lo + 0 => f[<<lo, hi>>] = {}
    BY <1>6, <2>1
  <2>3. 0 \in 0..N
    BY <1>1
  <2> QED
    BY <1>2, <2>1, <2>2, <2>3
<1>8. ASSUME NEW d \in 1..N, d - 1 \in Good
      PROVE  d \in Good
  <2>1. ASSUME NEW lo \in 1..(N + 1), NEW hi \in 0..N, hi < lo + d
        PROVE  f[<<lo, hi>>] = Between(cells, key, lo, hi)
    <3>1. CASE lo > hi
      BY <1>2, <1>6, <3>1
    <3>2. CASE ~(lo > hi)
      <4>1. lo <= hi
        BY <1>1, <3>2
      <4>2. PICK mid : mid = (lo + hi) \div 2
        OBVIOUS
      <4>3. /\ mid \in lo..hi /\ mid + 1 \in 1..(N + 1) /\ mid - 1 \in 0..N
            /\ Between(cells, key, lo, hi) =
                  IF cells[mid].key = key THEN {cells[mid]}
                  ELSE IF cells[mid].key < key THEN Between(cells, key, mid + 1, hi)
                  ELSE Between(cells, key, lo, mid - 1)
        <5>1. Narrowed(cells, key, lo, hi, mid)
          <6> HIDE DEF B, Halved, g
          <6> QED
            BY <4>1, <4>2, BisectStep
        <5> QED
          BY <5>1 DEF Narrowed
      <4>4. hi < (mid + 1) + (d - 1) /\ mid - 1 < lo + (d - 1)
        BY <1>1, <2>1, <4>3
      <4>5. /\ f[<<mid + 1, hi>>] = Between(cells, key, mid + 1, hi)
            /\ f[<<lo, mid - 1>>] = Between(cells, key, lo, mid - 1)
        BY <1>8, <4>3, <4>4
      <4>6. f[<<lo, hi>>] = Halved(f, lo, hi, mid)
        BY <4>2, <1>6
      <4> HIDE DEF B
      <4> QED
        BY <3>2, <4>3, <4>5, <4>6
    <3> QED
      BY <3>1, <3>2
  <2>2. d \in 0..N
    BY <1>1
  <2> QED
    BY <2>1, <2>2
<1>9. N \in Good
  <2> HIDE DEF Good
  <2>1. 0..N \subseteq Good
    BY <1>1, <1>7, <1>8, CountUp
  <2> QED
    BY <1>1, <2>1
<1>10. f[<<1, N>>] = Between(cells, key, 1, N)
  <2>1. 1 \in 1..(N + 1) /\ N \in 0..N /\ N < 1 + N
    BY <1>1
  <2> HIDE DEF B
  <2> QED
    BY <1>9, <2>1
<1>11. Between(cells, key, 1, N) = {c \in Has(cells) : c.key = key}
  BY DEF Between, Has
<1> QED
  BY <1>5, <1>10, <1>11

-----------------------------------------------------------------------------
(* A set of cells as a map from keys to lengths. *)

MapOf(S) == [key \in {c.key : c \in S} |-> (CHOOSE c \in S : c.key = key).len - KeySize]
OnePerKey(S) == \A a, b \in S : a.key = b.key => a = b

\* What a map made of cells says of the key of a cell.
LEMMA MapOfAt ==
    ASSUME NEW S, OnePerKey(S)
    PROVE  /\ DOMAIN MapOf(S) = {c.key : c \in S}
           /\ \A c \in S : MapOf(S)[c.key] = c.len - KeySize
<1>1. DOMAIN MapOf(S) = {c.key : c \in S}
  BY DEF MapOf
<1>2. ASSUME NEW c \in S
      PROVE  MapOf(S)[c.key] = c.len - KeySize
  <2>1. (CHOOSE d \in S : d.key = c.key) = c
    BY DEF OnePerKey
  <2> QED
    BY <2>1 DEF MapOf
<1> QED
  BY <1>1, <1>2

\* Entries in the order of their keys have one cell for each key.
LEMMA SortedOnePerKey ==
    ASSUME NEW cells \in Seq(Cells), Sorted(cells)
    PROVE  OnePerKey(Has(cells)) /\ Has(cells) \subseteq Cells
<1>1. \A n \in 1..Len(cells) : cells[n] \in Cells /\ cells[n].key \in Int
  <2>1. \A n \in 1..Len(cells) : cells[n] \in Cells
    OBVIOUS
  <2> QED
    BY <2>1 DEF Cells
<1>2. ASSUME NEW m \in 1..Len(cells), NEW n \in 1..Len(cells), cells[m].key = cells[n].key
      PROVE  m = n
  <2>1. m < n => cells[m].key < cells[n].key
    BY DEF Sorted
  <2>2. n < m => cells[n].key < cells[m].key
    BY DEF Sorted
  <2> QED
    BY <1>1, <1>2, <2>1, <2>2
<1> QED
  BY <1>1, <1>2 DEF OnePerKey, Has

\* The rows of a leaf are the map made of its entries.
LEMMA RowsOfIs ==
    ASSUME NEW leaf, NEW cells \in Seq(Cells), Entries(leaf) = cells
    PROVE  RowsOf(leaf) = MapOf(Has(cells))
<1>1. DOMAIN cells = 1..Len(cells) /\ ToSet(cells) = Has(cells)
  BY DEF ToSet, Has
<1>2. {cells[n].key : n \in DOMAIN cells} = {c.key : c \in Has(cells)}
  BY <1>1 DEF Has
<1> QED
  <2>1. RowsOf(leaf) = [key \in {cells[n].key : n \in DOMAIN cells} |->
                         (CHOOSE c \in ToSet(cells) : c.key = key).len - KeySize]
    BY DEF RowsOf
  <2>2. \A key : (CHOOSE c \in ToSet(cells) : c.key = key) = (CHOOSE c \in Has(cells) : c.key = key)
    BY <1>1, Zenon
  <2> DEFINE D == {cells[n].key : n \in DOMAIN cells}
             r == [key \in D |-> (CHOOSE c \in ToSet(cells) : c.key = key).len - KeySize]
             m == [key \in {c.key : c \in Has(cells)} |->
                     (CHOOSE c \in Has(cells) : c.key = key).len - KeySize]
  <2>3. \A key \in D : r[key] = m[key]
    <3> TAKE key \in D
    <3>1. r[key] = (CHOOSE c \in ToSet(cells) : c.key = key).len - KeySize
      OBVIOUS
    <3>2. key \in {c.key : c \in Has(cells)}
      BY <1>2
    <3>3. m[key] = (CHOOSE c \in Has(cells) : c.key = key).len - KeySize
      BY <3>2
    <3> HIDE DEF r, m
    <3> QED
      BY <2>2, <3>1, <3>3
  <2>4. r = [key \in D |-> r[key]] /\ m = [key \in D |-> m[key]]
    <3>1. r = [key \in D |-> r[key]]
      OBVIOUS
    <3>2. m = [key \in {c.key : c \in Has(cells)} |-> m[key]]
      OBVIOUS
    <3>3. {c.key : c \in Has(cells)} = D
      BY <1>2
    <3> HIDE DEF r, m, D
    <3> QED
      BY <3>1, <3>2, <3>3
  <2>5. RowsOf(leaf) = r /\ MapOf(Has(cells)) = m
    BY <2>1 DEF MapOf
  <2> HIDE DEF r, m, D
  <2> QED
    BY <2>3, <2>4, <2>5

\* Some of the cells, and a cell more.
LEMMA MapOfPart ==
    ASSUME NEW S, OnePerKey(S), NEW T \in SUBSET S
    PROVE  MapOf(T) = Restrict(MapOf(S), DOMAIN MapOf(T)) /\ OnePerKey(T)
           /\ DOMAIN MapOf(T) \subseteq DOMAIN MapOf(S)
<1>1. OnePerKey(T)
  BY DEF OnePerKey
<1>2. /\ DOMAIN MapOf(S) = {c.key : c \in S} /\ \A c \in S : MapOf(S)[c.key] = c.len - KeySize
      /\ DOMAIN MapOf(T) = {c.key : c \in T} /\ \A c \in T : MapOf(T)[c.key] = c.len - KeySize
  BY <1>1, MapOfAt
<1>3. \A k \in DOMAIN MapOf(T) : MapOf(T)[k] = MapOf(S)[k]
  BY <1>2
<1>4. MapOf(T) = [k \in DOMAIN MapOf(T) |-> MapOf(T)[k]]
  BY DEF MapOf
<1>5. MapOf(T) = [k \in DOMAIN MapOf(T) |-> MapOf(S)[k]]
  BY <1>3, <1>4
<1> QED
  BY <1>1, <1>2, <1>5 DEF Restrict

Put(m, key, len) == [k \in DOMAIN m \cup {key} |-> IF k = key THEN len ELSE m[k]]

\* A cell in the place of those of its key is a row put into the map.
LEMMA MapOfPut ==
    ASSUME NEW S \in SUBSET Cells, OnePerKey(S), NEW key, NEW len \in Nat, NEW T,
           T = {c \in S : c.key # key} \cup {Cell(key, len)}
    PROVE  MapOf(T) = Put(MapOf(S), key, len)
<1>1. Cell(key, len).key = key /\ Cell(key, len).len - KeySize = len
  BY DEF Cell, KeySize
<1>2. OnePerKey(T)
  BY <1>1 DEF OnePerKey
<1>3. /\ DOMAIN MapOf(S) = {c.key : c \in S} /\ \A c \in S : MapOf(S)[c.key] = c.len - KeySize
      /\ DOMAIN MapOf(T) = {c.key : c \in T} /\ \A c \in T : MapOf(T)[c.key] = c.len - KeySize
  BY <1>2, MapOfAt
<1>4. DOMAIN MapOf(T) = DOMAIN MapOf(S) \cup {key}
  <2>1. Cell(key, len) \in T
    OBVIOUS
  <2> QED
    BY <1>1, <1>3, <2>1
<1>5. \A k \in DOMAIN MapOf(T) : MapOf(T)[k] = IF k = key THEN len ELSE MapOf(S)[k]
  <2> TAKE k \in DOMAIN MapOf(T)
  <2>1. PICK c \in T : k = c.key
    BY <1>3
  <2>2. CASE c = Cell(key, len)
    BY <1>1, <1>3, <2>1, <2>2
  <2>3. CASE c # Cell(key, len)
    BY <1>3, <2>1, <2>3
  <2> QED
    BY <2>2, <2>3
<1>6. MapOf(T) = [k \in DOMAIN MapOf(T) |-> MapOf(T)[k]]
  BY DEF MapOf
<1> QED
  BY <1>4, <1>5, <1>6 DEF Put

-----------------------------------------------------------------------------
(* The invariant. *)

Leaves == [body : Layouts, next : {NoPage, "right"}]

\* The page of the leaf holds cells and nothing else; they fit, in order.
LeafHolds(leaf, cells) ==
    /\ leaf \in Leaves /\ cells \in Seq(Cells) /\ Carries(leaf.body, cells)
    /\ Fits(cells) /\ Sorted(cells) /\ \A c \in Has(cells) : c.key \in Keys

PageInv ==
    /\ user \in {"leaf", "caller"} /\ SpaceOK(page)
    /\ right \in Leaves /\ SpaceOK(right.body)
    /\ \E cells : LeafHolds(left, cells) /\ rows = MapOf(Has(cells))
    /\ user = "caller" => left = NewLeaf

\* What _entries and the search see of such a leaf.
LEMMA LeafShows ==
    ASSUME NEW leaf, NEW cells, LeafHolds(leaf, cells)
    PROVE  /\ Entries(leaf) = cells /\ cells \in Seq(Cells)
           /\ RowsOf(leaf) = MapOf(Has(cells))
           /\ OnePerKey(Has(cells)) /\ Has(cells) \subseteq Cells
           /\ NumKeys(leaf) = Len(cells)
<1>1. cells \in Seq(Cells) /\ Carries(leaf.body, cells) /\ Sorted(cells)
  BY DEF LeafHolds
<1>2. Entries(leaf) = cells
  BY <1>1, EntriesOf
<1> QED
  BY <1>1, <1>2, RowsOfIs, SortedOnePerKey DEF Carries, NumKeys

\* _rebuild leaves the first entries, all of them if they fit.
LEMMA RebuiltHolds ==
    ASSUME NEW cells \in Seq(Cells), Sorted(cells), \A c \in Has(cells) : c.key \in Keys,
           NEW leaf, leaf = [body |-> Rebuilt(cells).body, next |-> leaf.next],
           leaf.next \in {NoPage, "right"}
    PROVE  \E j \in 0..Len(cells) : /\ LeafHolds(leaf, Initial(cells, j))
                                    /\ Fits(cells) <=> j = Len(cells)
<1>1. PICK j \in 0..Len(cells) : /\ Fits(Initial(cells, j))
                                 /\ Rebuilt(cells).body = Rebuilt(Initial(cells, j)).body
                                 /\ Fits(cells) <=> j = Len(cells)
  BY RebuiltInitial
<1>2. PICK front : front = Initial(cells, j)
  OBVIOUS
<1>3. front \in Seq(Cells) /\ Len(front) = j /\ \A k \in 1..j : front[k] = cells[k]
  BY <1>2, InitialMore
<1>4. Carries(leaf.body, front)
  <2>1. leaf.body = Rebuilt(front).body
    BY <1>1, <1>2
  <2>2. Carries(Rebuilt(front).body, front)
    BY <1>1, <1>2, <1>3, FittingContained
  <2> QED
    BY <2>1, <2>2
<1>5. leaf \in Leaves
  BY <1>4 DEF Leaves, Carries, SpaceOK
<1>6. \A k \in 1..j : k \in 1..Len(cells)
  OBVIOUS
<1>7. Sorted(front) /\ \A c \in Has(front) : c.key \in Keys
  BY <1>3, <1>6 DEF Sorted, Has
<1> QED
  BY <1>1, <1>2, <1>3, <1>4, <1>5, <1>7 DEF LeafHolds

\* A new leaf holds no entries.
LEMMA EmptyHolds == LeafHolds(NewLeaf, <<>>) /\ Has(<<>>) = {}
<1>1. <<>> \in Seq(Cells) /\ Len(<<>>) = 0 /\ Fits(<<>>)
  BY NothingFits
<1>2. Has(<<>>) = {} /\ Sorted(<<>>)
  BY <1>1 DEF Has, Sorted
<1>3. Carries(NewPage(BodySize), <<>>)
  BY <1>1, NewSpace DEF Carries
<1>4. NewLeaf \in Leaves
  BY NewPageType DEF NewLeaf, Leaves
<1> QED
  BY <1>1, <1>2, <1>3, <1>4 DEF LeafHolds, NewLeaf

\* The invariant holds at first.
LEMMA InitInv == Init => PageInv
<1> SUFFICES ASSUME Init PROVE PageInv
  OBVIOUS
<1>1. LeafHolds(left, <<>>) /\ rows = MapOf(Has(<<>>))
  <2>1. MapOf({}) = <<>>
    BY DEF MapOf
  <2> QED
    BY <2>1, EmptyHolds DEF Init
<1>2. right \in Leaves /\ SpaceOK(right.body) /\ SpaceOK(page)
  BY NewSpace, EmptyHolds DEF Init, NewLeaf, LeafHolds
<1> QED
  BY <1>1, <1>2 DEF Init, PageInv

\* insert leaves an initial part of the changed entries, all of them unless it raised.
Inserts(cells, new, j, key, len) ==
    /\ LeafHolds(left, cells) /\ rows = MapOf(Has(cells))
    /\ new \in Seq(Cells) /\ Sorted(new)
    /\ Has(new) = {c \in Has(cells) : c.key # key} \cup {Cell(key, len)}
    /\ j \in 0..Len(new) /\ LeafHolds(left', Initial(new, j))
    /\ rows' = MapOf(Has(Initial(new, j)))

\* What insert makes of the leaf and its rows.
LEMMA InsertMakes ==
    ASSUME PageInv, NEW key \in Keys, NEW len \in Lengths, Insert(key, len)
    PROVE  \E cells, new, j : Inserts(cells, new, j, key, len)
<1>1. PICK cells : LeafHolds(left, cells) /\ rows = MapOf(Has(cells))
  BY DEF PageInv
<1>2. key \in Int /\ len \in Nat
  BY LeafAssumption
<1>3. PICK new : new = Changed(left, key, len)
  OBVIOUS
<1>4. /\ Entries(left) = cells /\ cells \in Seq(Cells) /\ Sorted(cells)
      /\ OnePerKey(Has(cells)) /\ Has(cells) \in SUBSET Cells
  BY <1>1, LeafShows DEF LeafHolds
<1>5. /\ new \in Seq(Cells) /\ Sorted(new)
      /\ Has(new) = {c \in Has(cells) : c.key # key} \cup {Cell(key, len)}
  BY <1>2, <1>3, <1>4, ChangedShape
<1>6. \A c \in Has(new) : c.key \in Keys
  BY <1>1, <1>5 DEF LeafHolds, Cell
<1>7. /\ left' = [left EXCEPT !.body = Rebuilt(new).body]
      /\ rows' = IF ~Fits(new) THEN RowsOf(left')
                 ELSE [k \in DOMAIN rows \cup {key} |-> IF k = key THEN len ELSE rows[k]]
  BY <1>3 DEF Insert, Fits
<1>8. /\ left' = [body |-> Rebuilt(new).body, next |-> left'.next]
      /\ left'.next \in {NoPage, "right"}
  BY <1>1, <1>7 DEF LeafHolds, Leaves
<1>9. PICK j \in 0..Len(new) : /\ LeafHolds(left', Initial(new, j))
                               /\ Fits(new) <=> j = Len(new)
  BY <1>5, <1>6, <1>8, RebuiltHolds
<1>10. rows' = MapOf(Has(Initial(new, j)))
  <2>1. CASE ~Fits(new)
    BY <1>7, <1>9, <2>1, LeafShows
  <2>2. CASE Fits(new)
    <3>1. Initial(new, j) = new
      BY <1>5, <1>9, <2>2, InitialMore
    <3>2. MapOf(Has(new)) = [k \in DOMAIN rows \cup {key} |-> IF k = key THEN len ELSE rows[k]]
      <4>1. MapOf(Has(new)) = Put(MapOf(Has(cells)), key, len)
        BY <1>2, <1>4, <1>5, MapOfPut
      <4> QED
        BY <1>1, <4>1 DEF Put
    <3> QED
      BY <1>7, <2>2, <3>1, <3>2
  <2> QED
    BY <2>1, <2>2
<1> QED
  BY <1>1, <1>5, <1>9, <1>10 DEF Inserts

\* delete_key leaves the entries of the other keys.
LEMMA DeleteMakes ==
    ASSUME PageInv, NEW key \in Keys, DeleteKey(key)
    PROVE  \E cells : /\ LeafHolds(left', cells) /\ rows' = MapOf(Has(cells))
                      /\ DOMAIN rows' = DOMAIN rows \ {key}
<1>1. PICK cells : LeafHolds(left, cells) /\ rows = MapOf(Has(cells))
  BY DEF PageInv
<1>2. /\ Entries(left) = cells /\ cells \in Seq(Cells) /\ Sorted(cells) /\ Len(cells) \in Nat
      /\ RowsOf(left) = rows /\ OnePerKey(Has(cells)) /\ Has(cells) \subseteq Cells
  BY <1>1, LeafShows DEF LeafHolds
<1>3. DOMAIN rows = {c.key : c \in Has(cells)}
  BY <1>1, <1>2, MapOfAt
<1>4. PICK p \in 1..Len(cells) : cells[p].key = key
  BY <1>2, <1>3 DEF DeleteKey, Has
<1>5. PICK others : others = Others(cells, key)
  OBVIOUS
<1>6. /\ others \in Seq(Cells) /\ Len(others) = Len(cells) - 1
      /\ \A k \in 1..(Len(cells) - 1) : others[k] = cells[IF k < p THEN k ELSE k + 1]
  BY <1>2, <1>4, <1>5, OthersShape, ZenonT(30)
<1>7. Fits(others)
  <2> DEFINE at == [k \in 0..Len(others) |-> IF k < p THEN k ELSE k + 1]
  <2>1. at \in [0..Len(others) -> 0..Len(cells)]
    BY <1>2, <1>4, <1>6
  <2>2. \A k \in 1..Len(others) : at[k - 1] < at[k] /\ others[k] = cells[at[k]]
    BY <1>2, <1>4, <1>6
  <2>3. Fits(cells)
    BY <1>1 DEF LeafHolds
  <2> HIDE DEF at
  <2> QED
    BY <1>2, <1>6, <2>1, <2>2, <2>3, FewerFit
<1>8. Has(others) = {c \in Has(cells) : c.key # key}
  <2>1. \A m, n \in 1..Len(cells) : cells[m].key = cells[n].key => m = n
    <3> TAKE m, n \in 1..Len(cells)
    <3>1. cells[m] \in Cells /\ cells[n] \in Cells
      BY <1>2
    <3>2. cells[m].key \in Int /\ cells[n].key \in Int
      BY <3>1 DEF Cells
    <3>3. (m < n => cells[m].key < cells[n].key) /\ (n < m => cells[n].key < cells[m].key)
      BY <1>2 DEF Sorted
    <3> QED
      BY <3>2, <3>3
  <2>2. ASSUME NEW k \in 1..(Len(cells) - 1)
        PROVE  others[k] \in {c \in Has(cells) : c.key # key}
    <3>1. PICK n \in 1..Len(cells) : n = (IF k < p THEN k ELSE k + 1) /\ n # p
      BY <1>2
    <3>2. others[k] = cells[n]
      BY <1>6, <3>1
    <3> QED
      BY <1>4, <2>1, <3>1, <3>2 DEF Has
  <2>3. ASSUME NEW n \in 1..Len(cells), n # p
        PROVE  cells[n] \in Has(others)
    <3>1. PICK k \in 1..(Len(cells) - 1) : n = IF k < p THEN k ELSE k + 1
      <4>1. CASE n < p
        <5>1. n \in 1..(Len(cells) - 1) /\ n = IF n < p THEN n ELSE n + 1
          BY <1>2, <4>1
        <5> QED
          BY <5>1
      <4>2. CASE n > p
        <5>1. n - 1 \in 1..(Len(cells) - 1) /\ n = IF n - 1 < p THEN n - 1 ELSE n - 1 + 1
          BY <1>2, <4>2
        <5> QED
          BY <5>1
      <4> QED
        BY <2>3, <4>1, <4>2
    <3>2. others[k] = cells[n]
      BY <1>6, <3>1
    <3> QED
      BY <1>6, <3>2 DEF Has
  <2>4. Has(others) \subseteq {c \in Has(cells) : c.key # key}
    BY <1>6, <2>2 DEF Has
  <2>5. {c \in Has(cells) : c.key # key} \subseteq Has(others)
    BY <1>4, <2>3 DEF Has
  <2> QED
    BY <2>4, <2>5
<1>9. Sorted(others)
  <2> SUFFICES ASSUME NEW m \in 1..Len(others), NEW n \in 1..Len(others), m < n
               PROVE  others[m].key < others[n].key
    BY DEF Sorted
  <2>1. PICK a \in 1..Len(cells), b \in 1..Len(cells) :
            /\ a = (IF m < p THEN m ELSE m + 1) /\ b = (IF n < p THEN n ELSE n + 1) /\ a < b
    BY <1>2, <1>6
  <2>2. others[m] = cells[a] /\ others[n] = cells[b]
    BY <1>6, <2>1
  <2> QED
    BY <1>2, <2>1, <2>2 DEF Sorted
<1>10. \A c \in Has(others) : c.key \in Keys
  BY <1>1, <1>8 DEF LeafHolds
<1>11. /\ left' = [body |-> Rebuilt(others).body, next |-> left'.next]
       /\ left'.next \in {NoPage, "right"}
  BY <1>1, <1>2, <1>5 DEF LeafHolds, Leaves, DeleteKey
<1>12. LeafHolds(left', others)
  <2>1. PICK j \in 0..Len(others) : /\ LeafHolds(left', Initial(others, j))
                                    /\ Fits(others) <=> j = Len(others)
    BY <1>6, <1>9, <1>10, <1>11, RebuiltHolds
  <2> QED
    BY <1>6, <1>7, <2>1, InitialMore
<1>13. DOMAIN MapOf(Has(others)) = DOMAIN rows \ {key}
  <2>1. DOMAIN MapOf(Has(others)) = {c.key : c \in Has(others)}
    BY DEF MapOf
  <2> QED
    BY <1>3, <1>8, <2>1
<1>14. MapOf(Has(others)) = Restrict(rows, DOMAIN MapOf(Has(others)))
  <2>1. Has(others) \in SUBSET Has(cells)
    BY <1>8
  <2> QED
    BY <1>1, <1>2, <2>1, MapOfPart
<1>15. rows' = MapOf(Has(others))
  BY <1>13, <1>14 DEF DeleteKey
<1> QED
  BY <1>12, <1>13, <1>15

\* split: the entries go to two leaves, the lower half to the left one.
Splits(cells, low, high) ==
    /\ LeafHolds(left, cells) /\ rows = MapOf(Has(cells))
    /\ LeafHolds(left', low) /\ LeafHolds(right', high)
    /\ rows' = MapOf(Has(low))
    /\ Has(cells) = Has(low) \cup Has(high) /\ Has(low) # {} /\ Has(high) # {}
    /\ \A a \in Has(low), b \in Has(high) : a.key < b.key

\* What split makes of the leaf and its rows.
LEMMA SplitMakes ==
    ASSUME PageInv, Split
    PROVE  \E cells, low, high : Splits(cells, low, high)
<1>1. PICK cells : LeafHolds(left, cells) /\ rows = MapOf(Has(cells))
  BY DEF PageInv
<1>2. /\ Entries(left) = cells /\ cells \in Seq(Cells) /\ Sorted(cells) /\ Len(cells) \in Nat
      /\ RowsOf(left) = rows /\ OnePerKey(Has(cells)) /\ Has(cells) \subseteq Cells
      /\ Len(cells) >= 2
  BY <1>1, LeafShows, LeafAssumption DEF LeafHolds, Split, IsFull
<1>3. PICK mid \in 1..(Len(cells) - 1) : mid = Len(cells) \div 2
  BY <1>2
<1>4. PICK low, high : low = Lower(cells) /\ high = Upper(cells)
  OBVIOUS
<1>5. /\ low = Initial(cells, mid) /\ low \in Seq(Cells) /\ Len(low) = mid
      /\ \A k \in 1..mid : low[k] = cells[k]
  BY <1>2, <1>3, <1>4, InitialMore DEF Lower, Initial
<1>6. /\ high \in Seq(Cells) /\ Len(high) = Len(cells) - mid
      /\ \A k \in 1..(Len(cells) - mid) : high[k] = cells[mid + k]
  <2>1. high = SubSeq(cells, mid + 1, Len(cells))
    BY <1>3, <1>4 DEF Upper
  <2>2. high \in Seq(Cells) /\ Len(high) = Len(cells) - mid
    BY <1>2, <1>3, <2>1
  <2>3. \A k \in 1..(Len(cells) - mid) : high[k] = cells[mid + k]
    BY <1>2, <1>3, <2>1
  <2> QED
    BY <2>2, <2>3
<1>7. Fits(low)
  <2>1. Fits(Initial(cells, Len(cells)))
    BY <1>1, <1>2, InitialMore DEF LeafHolds
  <2>2. mid \in 0..Len(cells) /\ Len(cells) \in mid..Len(cells)
    BY <1>2, <1>3
  <2> QED
    BY <1>2, <1>5, <2>1, <2>2, InitialFits
<1>8. Fits(high)
  <2> DEFINE at == [k \in 0..Len(high) |-> IF k = 0 THEN 0 ELSE mid + k]
  <2>1. at \in [0..Len(high) -> 0..Len(cells)]
    BY <1>2, <1>3, <1>6
  <2>2. \A k \in 1..Len(high) : at[k - 1] < at[k] /\ high[k] = cells[at[k]]
    BY <1>2, <1>3, <1>6
  <2>3. Fits(cells)
    BY <1>1 DEF LeafHolds
  <2> HIDE DEF at
  <2> QED
    BY <1>2, <1>6, <2>1, <2>2, <2>3, FewerFit
<1>9. Sorted(low) /\ Sorted(high)
  <2>1. Sorted(low)
    BY <1>2, <1>3, <1>5 DEF Sorted
  <2>2. ASSUME NEW m \in 1..Len(high), NEW n \in 1..Len(high), m < n
        PROVE  high[m].key < high[n].key
    <3>1. mid + m \in 1..Len(cells) /\ mid + n \in 1..Len(cells) /\ mid + m < mid + n
      BY <1>2, <1>3, <1>6, <2>2
    <3> QED
      BY <1>2, <1>6, <3>1 DEF Sorted
  <2> QED
    BY <2>1, <2>2 DEF Sorted
<1>10. Has(low) = {cells[n] : n \in 1..mid} /\ Has(high) = {cells[n] : n \in (mid + 1)..Len(cells)}
  <2>1. Has(low) = {cells[n] : n \in 1..mid}
    BY <1>5 DEF Has
  <2>2. Has(high) \subseteq {cells[n] : n \in (mid + 1)..Len(cells)}
    <3> SUFFICES ASSUME NEW k \in 1..(Len(cells) - mid)
                 PROVE  high[k] \in {cells[n] : n \in (mid + 1)..Len(cells)}
      BY <1>6 DEF Has
    <3>1. mid + k \in (mid + 1)..Len(cells)
      BY <1>2, <1>3
    <3> QED
      BY <1>6, <3>1
  <2>3. ASSUME NEW n \in (mid + 1)..Len(cells)
        PROVE  cells[n] \in Has(high)
    <3>1. PICK k \in 1..(Len(cells) - mid) : n = mid + k
      <4>1. n - mid \in 1..(Len(cells) - mid) /\ n = mid + (n - mid)
        BY <1>2, <1>3
      <4> QED
        BY <4>1
    <3>2. high[k] = cells[n]
      BY <1>6, <3>1
    <3> QED
      BY <1>6, <3>2 DEF Has
  <2> QED
    BY <2>1, <2>2, <2>3
<1>11. /\ Has(cells) = Has(low) \cup Has(high) /\ Has(low) # {} /\ Has(high) # {}
       /\ \A a \in Has(low), b \in Has(high) : a.key < b.key
  <2>1. 1..Len(cells) = (1..mid) \cup ((mid + 1)..Len(cells))
    BY <1>2, <1>3
  <2>2. 1 \in 1..mid /\ Len(cells) \in (mid + 1)..Len(cells)
    BY <1>2, <1>3
  <2>3. \A m \in 1..mid, n \in (mid + 1)..Len(cells) : cells[m].key < cells[n].key
    BY <1>2, <1>3 DEF Sorted
  <2>4. Has(cells) = Has(low) \cup Has(high)
    BY <1>10, <2>1 DEF Has
  <2>5. Has(low) # {} /\ Has(high) # {}
    BY <1>10, <2>2
  <2>6. \A a \in Has(low), b \in Has(high) : a.key < b.key
    BY <1>10, <2>3
  <2> QED
    BY <2>4, <2>5, <2>6
<1>12. \A c \in Has(low) \cup Has(high) : c.key \in Keys
  BY <1>1, <1>11 DEF LeafHolds
<1>13. LeafHolds(left', low)
  <2>1. left' = [body |-> Rebuilt(low).body, next |-> left'.next] /\ left'.next \in {NoPage, "right"}
    BY <1>2, <1>4 DEF Split
  <2>2. PICK j \in 0..Len(low) : /\ LeafHolds(left', Initial(low, j))
                                 /\ Fits(low) <=> j = Len(low)
    BY <1>5, <1>9, <1>12, <2>1, RebuiltHolds
  <2> QED
    BY <1>5, <1>7, <2>2, InitialMore
<1>14. LeafHolds(right', high)
  <2>1. right' = [body |-> Rebuilt(high).body, next |-> right'.next] /\ right'.next \in {NoPage, "right"}
    BY <1>1, <1>2, <1>4 DEF Split, LeafHolds, Leaves
  <2>2. PICK j \in 0..Len(high) : /\ LeafHolds(right', Initial(high, j))
                                  /\ Fits(high) <=> j = Len(high)
    BY <1>6, <1>9, <1>12, <2>1, RebuiltHolds
  <2> QED
    BY <1>6, <1>8, <2>2, InitialMore
<1>15. rows' = MapOf(Has(low))
  <2>1. RowsOf(left') = MapOf(Has(low))
    BY <1>13, LeafShows
  <2>2. MapOf(Has(low)) = Restrict(rows, DOMAIN MapOf(Has(low)))
    <3>1. Has(low) \in SUBSET Has(cells)
      BY <1>11
    <3> QED
      BY <1>1, <1>2, <3>1, MapOfPart
  <2> QED
    BY <2>1, <2>2 DEF Split
<1> QED
  BY <1>1, <1>11, <1>13, <1>14, <1>15 DEF Splits

\* Every call keeps the invariant.
LEMMA StepInv == PageInv /\ [Next]_vars => PageInv'
<1> SUFFICES ASSUME PageInv, [Next]_vars PROVE PageInv'
  OBVIOUS
<1>1. ASSUME NEW key \in Keys, NEW len \in Lengths, Insert(key, len)
      PROVE  PageInv'
  <2>1. PICK cells, new, j : Inserts(cells, new, j, key, len)
    BY <1>1, InsertMakes
  <2> QED
    BY <1>1, <2>1 DEF PageInv, Inserts, Insert
<1>2. ASSUME NEW key \in Keys, DeleteKey(key)
      PROVE  PageInv'
  <2>1. \E cells : LeafHolds(left', cells) /\ rows' = MapOf(Has(cells))
    BY <1>2, DeleteMakes
  <2> QED
    BY <1>2, <2>1 DEF PageInv, DeleteKey
<1>3. CASE Split
  <2>1. PICK cells, low, high : Splits(cells, low, high)
    BY <1>3, SplitMakes
  <2>2. right' \in Leaves /\ SpaceOK(right'.body)
    BY <2>1 DEF Splits, LeafHolds, Carries
  <2> QED
    BY <1>3, <2>1, <2>2 DEF PageInv, Splits, Split
<1>4. ASSUME NEW key \in Keys, NEW len \in Lengths, CallerInserts(key, len)
      PROVE  PageInv'
  <2>1. Cell(key, len) \in Cells
    <3>1. key \in Int /\ KeySize + len \in Nat
      BY LeafAssumption DEF KeySize
    <3> QED
      BY <3>1 DEF Cell, Cells
  <2>2. SpaceOK(page')
    BY <1>4, <2>1, InsertedSpace DEF CallerInserts, PageInv
  <2> QED
    BY <1>4, <2>2 DEF PageInv, CallerInserts
<1>5. ASSUME NEW n \in DOMAIN page.slots, CallerDeletes(n)
      PROVE  PageInv'
  <2>1. SpaceOK(page')
    BY <1>5, WithoutSpace DEF CallerDeletes, PageInv
  <2> QED
    BY <1>5, <2>1 DEF PageInv, CallerDeletes
<1>6. CASE CallerCompacts
  <2>1. SpaceOK(page')
    BY <1>6, CompactedSpace DEF CallerCompacts, PageInv
  <2> QED
    BY <1>6, <2>1 DEF PageInv, CallerCompacts
<1>7. CASE UNCHANGED vars
  BY <1>7 DEF PageInv, vars
<1> QED
  BY <1>1, <1>2, <1>3, <1>4, <1>5, <1>6, <1>7 DEF Next

\* The invariant holds throughout.
THEOREM LeafInvariant == Spec => []PageInv
BY InitInv, StepInv, PTL DEF Spec

-----------------------------------------------------------------------------
(* What the invariant says of the properties. *)

LEMMA SpaceShows ==
    ASSUME NEW body, SpaceOK(body)
    PROVE  /\ body.size = BodySize /\ body.freeEnd \in 0..BodySize
           /\ body.freeStart = HeaderSize + SlotSize * Len(body.slots)
           /\ \A n \in Live(body) : body.slots[n] \in DOMAIN body.records
           /\ body.freeStart <= body.freeEnd
           /\ \A m, n \in Live(body) :
                LET end(k) == body.slots[k] + Occupies(Read(body, k)) IN
                /\ body.freeEnd <= body.slots[m] /\ end(m) <= BodySize
                /\ m # n => end(m) <= body.slots[n] \/ end(n) <= body.slots[m]
<1>1. Len(body.slots) \in Nat /\ body.freeEnd \in Int /\ Live(body) \subseteq 1..Len(body.slots)
  BY DEF SpaceOK, Layouts, Live
<1>2. body.freeEnd \in 0..BodySize
  BY <1>1, LeafAssumption DEF SpaceOK, HeaderSize, SlotSize
<1>3. ASSUME NEW m \in Live(body), NEW n \in Live(body), m # n
      PROVE  \/ body.slots[m] + Occupies(Read(body, m)) <= body.slots[n]
             \/ body.slots[n] + Occupies(Read(body, n)) <= body.slots[m]
  <2>1. m < n \/ n < m
    BY <1>1, <1>3
  <2> QED
    BY <2>1 DEF SpaceOK
<1> QED
  BY <1>2, <1>3 DEF SpaceOK

\* All the space of a page is a header, slots, records and what is free.
THEOREM SpaceIsAccounted == Spec => []SpaceAccounted
<1>1. PageInv => SpaceAccounted
  <2> SUFFICES ASSUME PageInv PROVE SpaceAccounted
    OBVIOUS
  <2>1. PICK cells : LeafHolds(left, cells) /\ rows = MapOf(Has(cells))
    BY DEF PageInv
  <2>2. \A body \in Bodies : SpaceOK(body)
    BY <2>1 DEF PageInv, Bodies, LeafHolds, Carries
  <2>3. DOMAIN rows \subseteq Keys
    <3>1. DOMAIN MapOf(Has(cells)) = {c.key : c \in Has(cells)}
      BY DEF MapOf
    <3> QED
      BY <2>1, <3>1 DEF LeafHolds
  <2>4. TypeOK
    BY <2>2, <2>3, SpaceShows DEF TypeOK, PageInv
  <2>5. RecordsDisjoint
    BY <2>2, SpaceShows DEF RecordsDisjoint
  <2>6. CompactReclaims
    BY CompactedFree DEF CompactReclaims, PageInv
  <2> QED
    BY <2>4, <2>5, <2>6 DEF SpaceAccounted
<1> QED
  BY <1>1, LeafInvariant, PTL

\* A leaf is the sorted map of its rows, and the search finds what is in it.
THEOREM LeafIsTheMap == Spec => []LeafIsMap
<1>1. PageInv => LeafIsMap
  <2> SUFFICES ASSUME PageInv PROVE LeafIsMap
    OBVIOUS
  <2>1. PICK cells : LeafHolds(left, cells) /\ rows = MapOf(Has(cells))
    BY DEF PageInv
  <2>2. /\ Entries(left) = cells /\ cells \in Seq(Cells) /\ Sorted(cells)
        /\ RowsOf(left) = rows
    BY <2>1, LeafShows DEF LeafHolds
  <2>3. DOMAIN cells = 1..Len(cells) /\ ToSet(cells) = Has(cells)
    BY <2>2 DEF ToSet, Has
  <2>4. \A key \in Keys : Found(left, key) = {cell \in ToSet(cells) : cell.key = key}
    BY <2>2, <2>3, FoundShape, LeafAssumption
  <2>5. \A m, n \in DOMAIN cells : m < n => cells[m].key < cells[n].key
    BY <2>2, <2>3 DEF Sorted
  <2> QED
    BY <2>2, <2>4, <2>5 DEF LeafIsMap
<1> QED
  BY <1>1, LeafInvariant, PTL

\* A slot keeps its record until it is deleted, and is never given out again.
THEOREM SlotsAreStable == Spec => SlotsStable
<1> DEFINE Stable ==
      \A n \in DOMAIN page.slots :
         /\ n \in DOMAIN page'.slots
         /\ n \in Live(page') => n \in Live(page) /\ Read(page', n) = Read(page, n)
         /\ n \in Live(page) \ Live(page') => \A m \in Live(page) \ {n} : m \in Live(page')
<1>1. PageInv /\ [Next]_vars => [Stable]_vars
  <2> SUFFICES ASSUME PageInv, [Next]_vars PROVE Stable
    OBVIOUS
  <2>1. CASE page' = page
    BY <2>1
  <2>2. /\ SpaceOK(page) /\ SpaceOK(page') /\ Live(page) \subseteq DOMAIN page.slots
        /\ DOMAIN page.slots = 1..Len(page.slots) /\ DOMAIN page'.slots = 1..Len(page'.slots)
        /\ Len(page.slots) \in Nat
    <3>1. SpaceOK(page) /\ SpaceOK(page')
      BY StepInv DEF PageInv
    <3>2. page.slots \in Seq(Int) /\ page'.slots \in Seq(Int)
      BY <3>1 DEF SpaceOK, Layouts
    <3>3. Live(page) \subseteq DOMAIN page.slots
      BY DEF Live
    <3> QED
      BY <3>1, <3>2, <3>3
  <2>3. ASSUME NEW key \in Keys, NEW len \in Lengths, CallerInserts(key, len)
        PROVE  Stable
    <3>1. Cell(key, len) \in Cells
      <4>1. key \in Int /\ KeySize + len \in Nat
        BY LeafAssumption DEF KeySize
      <4> QED
        BY <4>1 DEF Cell, Cells
    <3>2. /\ Len(page'.slots) = Len(page.slots) + 1
          /\ Live(page') = Live(page) \cup {Len(page.slots) + 1}
          /\ \A n \in Live(page) : Read(page', n) = Read(page, n)
      BY <2>2, <2>3, <3>1, InsertedSpace DEF CallerInserts
    <3> QED
      BY <2>2, <3>2
  <2>4. ASSUME NEW d \in DOMAIN page.slots, CallerDeletes(d)
        PROVE  Stable
    <3>1. /\ Len(page'.slots) = Len(page.slots) /\ Live(page') = Live(page) \ {d}
          /\ \A n \in Live(page) \ {d} : Read(page', n) = Read(page, n)
      BY <2>2, <2>4, WithoutSpace DEF CallerDeletes
    <3> QED
      BY <2>2, <3>1
  <2>5. CASE CallerCompacts
    <3>1. /\ Len(page'.slots) = Len(page.slots) /\ Live(page') = Live(page)
          /\ \A n \in Live(page) : Read(page', n) = Read(page, n)
      BY <2>2, <2>5, CompactedSpace DEF CallerCompacts
    <3> QED
      BY <2>2, <3>1
  <2>6. ASSUME NEW key \in Keys, NEW len \in Lengths, Insert(key, len)
        PROVE  page' = page
    BY <2>6 DEF Insert
  <2>7. ASSUME NEW key \in Keys, DeleteKey(key)
        PROVE  page' = page
    BY <2>7 DEF DeleteKey
  <2>8. (Split \/ UNCHANGED vars) => page' = page
    BY DEF Split, vars
  <2> QED
    BY <2>1, <2>3, <2>4, <2>5, <2>6, <2>7, <2>8 DEF Next
<1>2. Spec => [][Stable]_vars
  BY <1>1, LeafInvariant, PTL DEF Spec
<1> QED
  BY <1>2 DEF SlotsStable

\* An insert that raises loses rows above those that it leaves, and changes one row at most.
THEOREM FailedInsertKeepsRowsBelow == Spec => FailedInsertKeepsLowRows
<1> DEFINE Changes == {key \in DOMAIN rows' : key \notin DOMAIN rows \/ rows'[key] # rows[key]}
           Low == \A lost \in DOMAIN rows \ DOMAIN rows' :
                    ~IsFull(left) /\ DOMAIN rows' # DOMAIN rows \ {lost} =>
                        /\ \A key \in DOMAIN rows' : key < lost
                        /\ Cardinality(Changes) <= 1
<1>1. PageInv /\ [Next]_vars => [Low]_vars
  <2> SUFFICES ASSUME PageInv, [Next]_vars PROVE Low
    OBVIOUS
  <2>1. ASSUME NEW key \in Keys, NEW len \in Lengths, Insert(key, len)
        PROVE  Low
    <3>1. PICK cells, new, j : Inserts(cells, new, j, key, len)
      BY <2>1, InsertMakes
    <3>2. /\ OnePerKey(Has(cells)) /\ rows = MapOf(Has(cells)) /\ new \in Seq(Cells) /\ Sorted(new)
          /\ Len(new) \in Nat /\ j \in 0..Len(new) /\ rows' = MapOf(Has(Initial(new, j)))
          /\ OnePerKey(Has(Initial(new, j)))
          /\ Has(new) = {c \in Has(cells) : c.key # key} \cup {Cell(key, len)}
      BY <3>1, LeafShows DEF Inserts
    <3>3. /\ DOMAIN rows = {c.key : c \in Has(cells)}
          /\ \A c \in Has(cells) : rows[c.key] = c.len - KeySize
          /\ DOMAIN rows' = {c.key : c \in Has(Initial(new, j))}
          /\ \A c \in Has(Initial(new, j)) : rows'[c.key] = c.len - KeySize
      BY <3>2, MapOfAt
    <3>4. Has(Initial(new, j)) = {new[k] : k \in 1..j}
      <4>1. Len(Initial(new, j)) = j /\ \A k \in 1..j : Initial(new, j)[k] = new[k]
        BY <3>2, InitialMore
      <4> QED
        BY <4>1 DEF Has
    <3>5. Cell(key, len).key = key
      BY DEF Cell
    <3>6. Changes \subseteq {key}
      <4> SUFFICES ASSUME NEW c \in Has(Initial(new, j)), c.key # key
                   PROVE  c.key \in DOMAIN rows /\ rows'[c.key] = rows[c.key]
        BY <3>3
      <4>1. c \in Has(new)
        <5>1. PICK k \in 1..j : c = new[k]
          BY <3>4
        <5>2. k \in 1..Len(new)
          BY <3>2
        <5> QED
          BY <5>1, <5>2 DEF Has
      <4>2. c \in Has(cells)
        BY <3>2, <3>5, <4>1
      <4> QED
        BY <3>3, <4>2
    <3>7. Cardinality(Changes) <= 1
      <4> HIDE DEF Changes
      <4>1. IsFiniteSet({key}) /\ Cardinality({key}) = 1
        BY FS_Singleton
      <4>2. Cardinality(Changes) <= Cardinality({key})
        BY <3>6, <4>1, FS_Subset
      <4> QED
        BY <4>1, <4>2
    <3>8. ASSUME NEW lost \in DOMAIN rows \ DOMAIN rows', NEW below \in DOMAIN rows'
          PROVE  below < lost
      <4>1. PICK m \in 1..Len(new) : new[m].key = lost
        <5>1. PICK c \in Has(cells) : c.key = lost
          BY <3>3
        <5>2. \E d \in Has(new) : d.key = lost
          BY <3>2, <3>5, <5>1
        <5> QED
          BY <5>2 DEF Has
      <4>2. PICK k \in 1..j : new[k].key = below
        BY <3>3, <3>4
      <4>3. m \notin 1..j
        BY <3>3, <3>4, <4>1
      <4>4. k \in 1..Len(new) /\ k < m
        BY <3>2, <4>3
      <4> QED
        BY <3>2, <4>1, <4>2, <4>4 DEF Sorted
    <3> HIDE DEF Changes
    <3> QED
      BY <3>7, <3>8
  <2>2. ASSUME NEW key \in Keys, DeleteKey(key)
        PROVE  Low
    <3>1. DOMAIN rows' = DOMAIN rows \ {key}
      BY <2>2, DeleteMakes
    <3>2. DOMAIN rows \ DOMAIN rows' \subseteq {key}
      BY <3>1
    <3> HIDE DEF Changes
    <3> QED
      BY <3>1, <3>2
  <2>3. Split => IsFull(left)
    BY DEF Split
  <2>4. ASSUME rows' = rows
        PROVE  Low
    BY <2>4
  <2>5. (CallerCompacts \/ UNCHANGED vars) => rows' = rows
    BY DEF CallerCompacts, vars
  <2>6. ASSUME NEW key \in Keys, NEW len \in Lengths, CallerInserts(key, len)
        PROVE  rows' = rows
    BY <2>6 DEF CallerInserts
  <2>7. ASSUME NEW n \in DOMAIN page.slots, CallerDeletes(n)
        PROVE  rows' = rows
    BY <2>7 DEF CallerDeletes
  <2>8. ASSUME IsFull(left)
        PROVE  Low
    BY <2>8
  <2> HIDE DEF Low
  <2> QED
    BY <2>1, <2>2, <2>3, <2>4, <2>5, <2>6, <2>7, <2>8 DEF Next
<1>2. Spec => [][Low]_vars
  BY <1>1, LeafInvariant, PTL DEF Spec
<1> QED
  BY <1>2 DEF FailedInsertKeepsLowRows

\* A split puts every row into one half, the lower ones to the left, and never
\* runs out of space.
THEOREM SplitIsPartition == Spec => SplitPartitions
<1> DEFINE Halves ==
      IsFull(left) =>
         LET low == RowsOf(left') high == RowsOf(right') IN
         /\ rows = [key \in DOMAIN low \cup DOMAIN high |->
                      IF key \in DOMAIN low THEN low[key] ELSE high[key]]
         /\ DOMAIN low # {} /\ DOMAIN high # {}
         /\ \A a \in DOMAIN low, b \in DOMAIN high : a < b
         /\ left'.next = "right" /\ right'.next = left.next
<1>1. PageInv /\ Next => Halves
  <2> SUFFICES ASSUME PageInv, Next, IsFull(left) PROVE Halves
    OBVIOUS
  <2>1. user = "leaf"
    <3>1. NumKeys(NewLeaf) = 0
      BY NewSpace DEF NumKeys, NewLeaf
    <3>2. user = "leaf" \/ ~IsFull(left)
      BY <3>1, LeafAssumption DEF PageInv, IsFull
    <3> QED
      BY <3>2
  <2>2. Split
    <3>1. \A key, len : ~Insert(key, len) /\ ~CallerInserts(key, len) /\ ~DeleteKey(key)
      BY <2>1 DEF Insert, CallerInserts, DeleteKey
    <3>2. ~CallerCompacts /\ \A n : ~CallerDeletes(n)
      BY <2>1 DEF CallerCompacts, CallerDeletes
    <3> QED
      BY <3>1, <3>2 DEF Next
  <2>3. PICK cells, lower, upper : Splits(cells, lower, upper)
    BY <2>2, SplitMakes
  <2>4. PICK low, high : low = RowsOf(left') /\ high = RowsOf(right')
    OBVIOUS
  <2>5. /\ rows = MapOf(Has(cells)) /\ OnePerKey(Has(cells))
        /\ low = MapOf(Has(lower)) /\ OnePerKey(Has(lower))
        /\ high = MapOf(Has(upper)) /\ OnePerKey(Has(upper))
    BY <2>3, <2>4, LeafShows DEF Splits
  <2>6. /\ DOMAIN rows = {c.key : c \in Has(cells)}
        /\ \A c \in Has(cells) : rows[c.key] = c.len - KeySize
        /\ DOMAIN low = {c.key : c \in Has(lower)}
        /\ \A c \in Has(lower) : low[c.key] = c.len - KeySize
        /\ DOMAIN high = {c.key : c \in Has(upper)}
        /\ \A c \in Has(upper) : high[c.key] = c.len - KeySize
    BY <2>5, MapOfAt
  <2>7. /\ Has(cells) = Has(lower) \cup Has(upper) /\ Has(lower) # {} /\ Has(upper) # {}
        /\ \A a \in Has(lower), b \in Has(upper) : a.key < b.key
    BY <2>3 DEF Splits
  <2>8. DOMAIN rows = DOMAIN low \cup DOMAIN high
    BY <2>6, <2>7
  <2>9. ASSUME NEW key \in DOMAIN rows
        PROVE  rows[key] = IF key \in DOMAIN low THEN low[key] ELSE high[key]
    <3>1. \A c \in Has(lower) : rows[c.key] = low[c.key]
      BY <2>6, <2>7
    <3>2. \A c \in Has(upper) : rows[c.key] = high[c.key]
      BY <2>6, <2>7
    <3> QED
      BY <2>6, <2>8, <3>1, <3>2
  <2>10. rows = [key \in DOMAIN rows |-> rows[key]]
    BY <2>5 DEF MapOf
  <2>11. rows = [key \in DOMAIN low \cup DOMAIN high |->
                   IF key \in DOMAIN low THEN low[key] ELSE high[key]]
    BY <2>8, <2>9, <2>10
  <2>12. DOMAIN low # {} /\ DOMAIN high # {} /\ \A a \in DOMAIN low, b \in DOMAIN high : a < b
    BY <2>6, <2>7
  <2>13. left'.next = "right" /\ right'.next = left.next
    BY <2>2 DEF Split
  <2> QED
    BY <2>4, <2>11, <2>12, <2>13
<1>2. Spec => [][Halves]_vars
  <2> HIDE DEF Halves
  <2> QED
    BY <1>1, LeafInvariant, PTL DEF Spec
<1> QED
  BY <1>2, PTL DEF SplitPartitions
=============================================================================
