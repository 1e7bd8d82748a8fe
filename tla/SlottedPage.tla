----------------------------- MODULE SlottedPage -----------------------------
(***************************************************************************)
(* SlottedPage (src/src/slotted_page.py): what each call makes of a page.  *)
(* Offsets and lengths are those of the code.  A record is a cell with a   *)
(* length; records says what the bytes at an offset decode to, where a     *)
(* deleted record is until the page is compacted.  Slot n of the code is   *)
(* slots[n + 1].                                                           *)
(***************************************************************************)
EXTENDS Integers, Sequences, SequencesExt, FiniteSetsExt

HeaderSize == 12
SlotSize == 4
PrefixSize == 4     \* the length that precedes a record
Deleted == 0        \* the offset of a deleted slot

NewPage(size) ==
    [size |-> size, freeStart |-> HeaderSize, freeEnd |-> size, slots |-> <<>>, records |-> <<>>]

Occupies(cell) == PrefixSize + cell.len
Free(page) == page.freeEnd - page.freeStart

Room_WithoutSlot(page, cell) == Free(page) >= Occupies(cell)

Room(page, cell) == Free(page) >= Occupies(cell) + SlotSize

\* The record goes below the others, and its offset to a new slot.
Placed(page, cell) ==
    LET offset == page.freeEnd - Occupies(cell)
    IN  [page EXCEPT !.freeEnd = offset,
                     !.slots = Append(@, offset),
                     !.records = [o \in DOMAIN @ \cup {offset} |-> IF o = offset THEN cell ELSE @[o]]]

\* insert, when it does not raise "Page full"
Inserted(page, cell) == [Placed(page, cell) EXCEPT !.freeStart = @ + SlotSize]

Live(page) == {n \in DOMAIN page.slots : page.slots[n] # Deleted}

\* read, of a slot that is not deleted
Read(page, n) == page.records[page.slots[n]]

\* delete: the bytes stay where they are.
WithoutSlot(page, n) == [page EXCEPT !.slots[n] = Deleted]

\* compact: the live records are copied to an empty page in the order of their
\* slots; deleted slots stay deleted.
Compacted_DropsSlots(page) ==
    LET Copied(to, n) == IF n \in Live(page) THEN Inserted(to, Read(page, n)) ELSE to
    IN  FoldLeftDomain(Copied, NewPage(page.size), page.slots)

Compacted(page) ==
    LET Copied(to, n) == IF n \in Live(page) THEN Placed(to, Read(page, n))
                         ELSE [to EXCEPT !.slots = Append(@, Deleted)]
    IN  [FoldLeftDomain(Copied, NewPage(page.size), page.slots)
            EXCEPT !.freeStart = HeaderSize + SlotSize * Len(page.slots)]
=============================================================================
