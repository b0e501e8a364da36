------------------------------ MODULE Slotted ------------------------------
(***************************************************************************)
(* A slotted page, src/storage/slotted.rs: a directory of slots growing    *)
(* from the header, cells packed from the end.  A cell is a sequence of    *)
(* bytes, a byte whatever its owner says; the directory is kept apart from *)
(* the bytes it takes.  A slot's length is 0 once it is a tombstone.       *)
(* Slots count from 1, bytes from 0 as in the code.                        *)
(***************************************************************************)
EXTENDS Integers, Sequences, FiniteSets, SequencesExt, FiniteSetsExt

CONSTANTS
    PageSize,      \* `USABLE_PAGE_SIZE`
    HeaderLen,     \* `HEADER_LEN`
    SlotLen        \* `SLOT_LEN`

ASSUME SlottedAssumption ==
    PageSize \in Nat /\ HeaderLen \in Nat /\ SlotLen \in Nat \ {0}

Zero == <<>>
Slot(at, len) == [at |-> at, len |-> len]
Tombstone == Slot(0, 0)

(* `SlottedPage::new`.                                                     *)
NewPage == [bytes |-> [i \in 0 .. PageSize - 1 |-> Zero],
            slots |-> <<>>, start |-> PageSize]

DirectoryEnd(page) == HeaderLen + Len(page.slots) * SlotLen
FreeBytes(page) == Max({page.start - DirectoryEnd(page), 0})
SpaceNeeded(n) == SlotLen + n
HasRoomFor(page, n) == FreeBytes(page) >= SpaceNeeded(n)

LiveSlots(page) == {s \in DOMAIN page.slots : page.slots[s].len # 0}
IsEmpty(page) == LiveSlots(page) = {}
GetCell(page, s) ==
    [i \in 1 .. page.slots[s].len |-> page.bytes[page.slots[s].at + i - 1]]

(* `reclaimable_space`; the cells' lengths summed along the directory.      *)
SumTo(f, n) ==
    LET sum[i \in 0 .. n] == IF i = 0 THEN 0 ELSE sum[i - 1] + f[i]
    IN  sum[n]
LiveBytes(page) ==
    SumTo([s \in DOMAIN page.slots |-> page.slots[s].len], Len(page.slots))
ReclaimableSpace(page) == PageSize - DirectoryEnd(page) - LiveBytes(page)

(* `check_layout`: the directory ends before the cells, each of which is   *)
(* on the page.                                                            *)
CheckLayout(page) ==
    /\ page.start <= PageSize
    /\ page.start >= DirectoryEnd(page)
    /\ \A s \in LiveSlots(page) : /\ page.slots[s].at >= page.start
                                  /\ page.slots[s].at + page.slots[s].len
                                       <= PageSize

(* `copy_within`, and a cell's bytes written at a place.                   *)
CopyWithin(bytes, from, n, to) ==
    [i \in DOMAIN bytes |-> IF i \in to .. to + n - 1 THEN bytes[from + i - to]
                            ELSE bytes[i]]
Written(bytes, at, data) ==
    [i \in DOMAIN bytes |-> IF i \in at .. at + Len(data) - 1
                            THEN data[i - at + 1] ELSE bytes[i]]

(* `place_cell`: below the packed cells, for a slot that is there.         *)
PlaceCell(page, s, data) ==
    LET at == page.start - Len(data)
    IN  [bytes |-> Written(page.bytes, at, data),
         slots |-> [page.slots EXCEPT ![s] = Slot(at, Len(data))],
         start |-> at]

(* `insert_cell`, where it has room.                                       *)
InsertCell(page, data) ==
    LET s == Len(page.slots) + 1
    IN  [page |-> PlaceCell([page EXCEPT !.slots = Append(@, Tombstone)],
                            s, data),
         slot |-> s]

DeleteCell(page, s) == [page EXCEPT !.slots[s] = Tombstone]

(* Mutant of HighestFirst: in the directory's order.                       *)
DirectoryOrder(page) ==
    LET live == LiveSlots(page)
    IN  [i \in 1 .. Cardinality(live) |->
           CHOOSE s \in live : Cardinality({t \in live : t < s}) = i - 1]

(* The live slots, the cell nearest the end of the page first.             *)
HighestFirst(page) ==
    LET live == LiveSlots(page)
        at(s) == page.slots[s].at
    IN  [i \in 1 .. Cardinality(live) |->
           CHOOSE s \in live : Cardinality({t \in live : at(t) > at(s)}) = i - 1]

(* The loop of `compact_keeping`: the cells moved in place, one after      *)
(* another, each against the one above.                                    *)
MoveCell(page, s, to) ==
    LET end == to.start - page.slots[s].len
    IN  [bytes |-> CopyWithin(to.bytes, page.slots[s].at, page.slots[s].len, end),
         slots |-> [to.slots EXCEPT ![s] = Slot(end, page.slots[s].len)],
         start |-> end]
Moved(page, slots) ==
    LET order == HighestFirst(page)
        moved[i \in 0 .. Len(order)] ==
          IF i = 0 THEN [bytes |-> page.bytes, slots |-> slots, start |-> PageSize]
          ELSE MoveCell(page, order[i], moved[i - 1])
    IN  moved[Len(order)]

(* `compact_keeping`: the directory loses the tombstones at its end past   *)
(* `minSlots`, the cells are moved up and the gap is zeroed.  Cells that   *)
(* share bytes are on a damaged page only, and left out.                   *)
CompactKeeping(page, minSlots) ==
    LET count == Max(LiveSlots(page) \union {0, minSlots})
        moved == Moved(page, SubSeq(page.slots, 1, count))
        gap == HeaderLen + count * SlotLen .. moved.start - 1
    IN  [moved EXCEPT !.bytes = [i \in DOMAIN @ |-> IF i \in gap THEN Zero
                                                    ELSE @[i]]]

(* `fits`, `fits_reusing_slot`.                                            *)
Tombstones(page) == DOMAIN page.slots \ LiveSlots(page)
FitsReusingSlot(page, n) ==
    IF Tombstones(page) # {} THEN ReclaimableSpace(page) >= n
    ELSE \/ HasRoomFor(page, n)
         \/ ReclaimableSpace(page) >= SpaceNeeded(n)

(* `insert_cell_reusing_slot`, where the cell fits.                        *)
InsertCellReusingSlot(page, data) ==
    LET n == Len(data)
        s == Min(Tombstones(page))
    IN  IF Tombstones(page) = {}
        THEN InsertCell(IF ~HasRoomFor(page, n) THEN CompactKeeping(page, 0)
                        ELSE page, data)
        ELSE [page |-> PlaceCell(IF FreeBytes(page) < n
                                 THEN CompactKeeping(page, s) ELSE page,
                                 s, data),
              slot |-> s]

(* Mutant of GrowCell: the slots of the cells moved keep their places.     *)
GrowUnmoved(page, s, data) ==
    LET cell == page.slots[s]
        grown == Len(data) - cell.len
        to == cell.at - grown
    IN  [bytes |-> Written(CopyWithin(page.bytes, page.start,
                                      cell.at - page.start, page.start - grown),
                           to, data),
         slots |-> [page.slots EXCEPT ![s] = Slot(to, Len(data))],
         start |-> page.start - grown]

(* `grow_cell`: what lies below the cell moves down by what it grew by.    *)
GrowCell(page, s, data) ==
    LET cell == page.slots[s]
        grown == Len(data) - cell.len
        to == cell.at - grown
        below == {t \in LiveSlots(page) :
                    page.slots[t].at \in page.start .. cell.at - 1}
    IN  [bytes |-> Written(CopyWithin(page.bytes, page.start,
                                      cell.at - page.start, page.start - grown),
                           to, data),
         slots |-> [t \in DOMAIN page.slots |->
                      IF t = s THEN Slot(to, Len(data))
                      ELSE IF t \in below
                      THEN Slot(page.slots[t].at - grown, page.slots[t].len)
                      ELSE page.slots[t]],
         start |-> page.start - grown]

(* `update_cell`: whether it could, and the page then.                     *)
CanUpdateCell(page, s, data) ==
    \/ Len(data) <= page.slots[s].len
    \/ FreeBytes(page) >= Len(data) - page.slots[s].len
    \/ ReclaimableSpace(page) + page.slots[s].len >= Len(data)

UpdateCell(page, s, data) ==
    LET cell == page.slots[s]
        gone == DeleteCell(page, s)
    IN  IF Len(data) <= cell.len
        THEN [page EXCEPT !.bytes = Written(@, cell.at, data),
                          !.slots[s].len = Len(data)]
        ELSE IF FreeBytes(page) >= Len(data) - cell.len
        THEN GrowCell(page, s, data)
        ELSE PlaceCell(IF FreeBytes(gone) < Len(data)
                       THEN CompactKeeping(gone, s) ELSE gone, s, data)

(* `overlapping_cells`: in the order of their offsets, a cell that reaches *)
(* into the one after it.                                                  *)
OverlappingCells(page) ==
    LET cells == HighestFirst(page)
    IN  \E i \in 1 .. Len(cells) - 1 :
          page.slots[cells[i + 1]].at + page.slots[cells[i + 1]].len
            > page.slots[cells[i]].at

-----------------------------------------------------------------------------
(* A page as its owner may leave it: it passes `check_layout`, its cells   *)
(* share no byte, and of deleted cells nothing is in the gap.              *)
BytesOf(page, s) == page.slots[s].at .. page.slots[s].at + page.slots[s].len - 1
PageSound(page) ==
    /\ CheckLayout(page)
    /\ \A s, t \in LiveSlots(page) :
          s # t => BytesOf(page, s) \intersect BytesOf(page, t) = {}
    /\ \A i \in DirectoryEnd(page) .. page.start - 1 : page.bytes[i] = Zero

(* ... and a change to the cell of s alone: every other cell is live still *)
(* and reads as it did, wherever it is now.                                *)
OthersKept(before, after, s) ==
    \A t \in LiveSlots(before) \ {s} :
       t \in LiveSlots(after) /\ GetCell(after, t) = GetCell(before, t)

=============================================================================
