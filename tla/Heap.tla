-------------------------------- MODULE Heap --------------------------------
(***************************************************************************)
(* Where a collection's documents are, src/data.rs and src/free_space.rs:  *)
(* data pages (Slotted) that hold a cell per document, chains of overflow  *)
(* pages for those too large for one, the page the next insert goes to     *)
(* and the map of the older pages that have room.                          *)
(*                                                                         *)
(* A document's encoding is as many bytes as its value says, each told     *)
(* from every other, so bytes moved wrongly read as another document.      *)
(* `locs` stands for the primary index, which BTree models.                *)
(***************************************************************************)
EXTENDS Slotted, Functions

CONSTANTS
    Doc,                \* the documents, in the order of their ids
    Value,              \* what a document may be
    SizeOf,             \* the bytes of its encoding
    MaxPages,           \* bound on the pages
    CellHeaderLen,      \* `CELL_HEADER_LEN`
    PointerLen,         \* `OVERFLOW_CELL_LEN` past the header
    OverflowCapacity,   \* `OVERFLOW_CAPACITY`
    MinRoom,            \* `MIN_ROOM`
    MinRoomToStay,      \* `MIN_ROOM_TO_STAY`
    Starts,             \* the documents a collection may begin with, those
                        \* inserted first to last
    MaxSteps            \* bound on the batches that change something

(* A cell has at least its header, an overflow cell fits on any page.      *)
ASSUME HeapAssumption ==
    /\ Doc \subseteq Nat /\ IsFiniteSet(Doc)
    /\ MaxPages \in Nat /\ MaxSteps \in Nat
    /\ CellHeaderLen \in Nat \ {0} /\ PointerLen \in Nat \ {0}
    /\ OverflowCapacity \in Nat \ {0}
    /\ HasRoomFor(NewPage, CellHeaderLen + PointerLen)
    /\ MinRoom \in Nat /\ MinRoomToStay \in Nat /\ MinRoomToStay <= MinRoom
    /\ SizeOf \in [Value -> Nat \ {0}]
    /\ \A start \in Starts : start \in [DOMAIN start -> Value]
                              /\ DOMAIN start \subseteq Doc

PageId == 1 .. MaxPages
NoPage == 0

VARIABLES
    heap,    \* the pages, the current one, the free-space map
    locs,    \* where each document is
    docs,    \* what each was last written as
    steps    \* the batches so far

vars == <<heap, locs, docs, steps>>

FreePage == [kind |-> "free"]
Data(page) == [kind |-> "data", page |-> page]
Overflow(next, bytes) == [kind |-> "overflow", next |-> next, bytes |-> bytes]
Location(p, s) == [page |-> p, slot |-> s]

NewHeap == [pages |-> [p \in PageId |-> FreePage], current |-> NoPage,
            free |-> <<>>]

-----------------------------------------------------------------------------
(* src/free_space.rs: pages with room, each with its free bytes.           *)

SetRoom(free, p, room) ==
    [q \in DOMAIN free \union {p} |-> IF q = p THEN room ELSE free[q]]
RemoveRoom(free, p) == Restrict(free, DOMAIN free \ {p})

(* `find`: the fullest that has `needed`, the first of the equally full;   *)
(* NoPage if none has.                                                     *)
FindRoom(free, needed) ==
    LET enough == {p \in DOMAIN free : free[p] >= needed}
    IN  IF enough = {} THEN NoPage
        ELSE CHOOSE p \in enough :
               \A q \in enough \ {p} : \/ free[p] < free[q]
                                       \/ free[p] = free[q] /\ p < q

(* `note_room`.                                                            *)
NoteRoom(free, current, p, room) ==
    LET enough == IF p \in DOMAIN free THEN MinRoomToStay ELSE MinRoom
    IN  IF p # current /\ room >= enough THEN SetRoom(free, p, room)
        ELSE RemoveRoom(free, p)

-----------------------------------------------------------------------------
(* Overflow chains.                                                        *)

(* External: the page store gives pages that are free (FileStore).         *)
FreePages(ps) == {p \in PageId : ps[p] = FreePage}
Allocated(ps, n) ==
    LET free == FreePages(ps)
    IN  [i \in 1 .. n |->
           CHOOSE p \in free : Cardinality({q \in free : q < p}) = i - 1]
PagesOf(n) == (n + OverflowCapacity - 1) \div OverflowCapacity

Encoded(v) == [i \in 1 .. SizeOf[v] |-> <<v, i>>]

(* `write_chain`: every page allocated before the first is written.        *)
Chunk(bytes, i) ==
    [b \in 1 .. OverflowCapacity |->
       LET at == (i - 1) * OverflowCapacity + b
       IN  IF at <= Len(bytes) THEN bytes[at] ELSE Zero]
Link(ids, i, bytes) ==
    Overflow(IF i = Len(ids) THEN NoPage ELSE ids[i + 1], Chunk(bytes, i))
WriteChain(ps, bytes) ==
    LET ids == Allocated(ps, PagesOf(Len(bytes)))
    IN  [pages |-> [p \in PageId |->
                      IF p \in Range(ids)
                      THEN Link(ids, CHOOSE i \in DOMAIN ids : ids[i] = p, bytes)
                      ELSE ps[p]],
         first |-> ids[1]]

(* `walk_chain`: the pages of a chain and the bytes they hold.  The length *)
(* says where it ends; a page met twice or of another kind, an end too     *)
(* early or a link past the end make it corrupt.                           *)
WalkOn(ps, w) ==
    LET page == ps[w.at]
        n == IF w.left < OverflowCapacity THEN w.left ELSE OverflowCapacity
        left == w.left - n
    IN  IF w.status # "walking" THEN w
        ELSE IF w.at \in Range(w.pages) \/ page.kind # "overflow"
        THEN [w EXCEPT !.status = "corrupt"]
        ELSE [at |-> page.next, left |-> left, pages |-> Append(w.pages, w.at),
              bytes |-> w.bytes \o SubSeq(page.bytes, 1, n),
              status |-> IF left = 0 /\ page.next = NoPage THEN "done"
                         ELSE IF left = 0 \/ page.next = NoPage
                         THEN "corrupt" ELSE "walking"]
WalkChain(ps, first, len) ==
    LET walk[i \in 0 .. MaxPages] ==
          IF i = 0 THEN [at |-> first, left |-> len, pages |-> <<>>,
                         bytes |-> <<>>, status |-> "walking"]
          ELSE WalkOn(ps, walk[i - 1])
    IN  walk[MaxPages]

FreeAll(ps, freed) == [p \in PageId |-> IF p \in freed THEN FreePage ELSE ps[p]]

-----------------------------------------------------------------------------
(* Cells: `[flags, id]`, then the document or where its chain is.          *)

HeaderOf(flags, d) == [i \in 1 .. CellHeaderLen |-> <<flags, d>>]
PointerTo(len, first) == [i \in 1 .. PointerLen |-> <<"chain", len, first>>]

IsInline(v) == HasRoomFor(NewPage, CellHeaderLen + SizeOf[v])

(* `write_cell`.                                                           *)
WriteCell(ps, d, v) ==
    IF IsInline(v)
    THEN [pages |-> ps, cell |-> HeaderOf("inline", d) \o Encoded(v)]
    ELSE LET chain == WriteChain(ps, Encoded(v))
         IN  [pages |-> chain.pages,
              cell |-> HeaderOf("overflow", d)
                         \o PointerTo(SizeOf[v], chain.first)]

(* `Cell::parse`, `live_cell`.                                             *)
LiveCell(ps, loc) == GetCell(ps[loc.page].page, loc.slot)
IsOverflow(cell) == cell[1][1] = "overflow"
Pointer(cell) == cell[CellHeaderLen + 1]
ChainOf(ps, cell) == WalkChain(ps, Pointer(cell)[3], Pointer(cell)[2])

(* `Records::get` and `stored`: the id and the encoding at a location.     *)
Readable(ps, loc) ==
    /\ ps[loc.page].kind = "data" /\ CheckLayout(ps[loc.page].page)
    /\ loc.slot \in LiveSlots(ps[loc.page].page)
Stored(ps, loc) ==
    LET cell == LiveCell(ps, loc)
    IN  [id |-> cell[1][2],
         encoded |-> IF IsOverflow(cell) THEN ChainOf(ps, cell).bytes
                     ELSE SubSeq(cell, CellHeaderLen + 1, Len(cell)),
         status |-> IF IsOverflow(cell) THEN ChainOf(ps, cell).status
                    ELSE "done"]

(* `free_chain`, of the cell at a location: the chain's pages, all read    *)
(* before the first is freed.                                              *)
ChainFreed(ps, loc) ==
    LET cell == LiveCell(ps, loc)
    IN  IF IsOverflow(cell) THEN FreeAll(ps, Range(ChainOf(ps, cell).pages))
        ELSE ps

(* `note_room` of a page just changed.                                     *)
Noted(h, p) == [h EXCEPT !.free = NoteRoom(@, h.current, p,
                                           ReclaimableSpace(h.pages[p].page))]

(* The end of `place_cell`: a page that is no longer current.              *)
RetireCurrent(h, old) ==
    IF old = NoPage THEN h
    ELSE IF IsEmpty(h.pages[old].page)
    THEN [h EXCEPT !.free = RemoveRoom(@, old), !.pages[old] = FreePage]
    ELSE Noted(h, old)

(* `place_cell`: the current page, the fullest older one with room, a new  *)
(* one.                                                                    *)
PlaceInHeap(h, cell) ==
    LET fits(p) == p # NoPage /\ FitsReusingSlot(h.pages[p].page, Len(cell))
        put(p) == InsertCellReusingSlot(h.pages[p].page, cell)
        older == FindRoom(h.free, SpaceNeeded(Len(cell)))
        p == Allocated(h.pages, 1)[1]
        new == InsertCell(NewPage, cell)
        noted == IF older = NoPage THEN h ELSE Noted(h, older)
    IN  IF fits(h.current)
        THEN [heap |-> [h EXCEPT !.pages[h.current] = Data(put(h.current).page)],
              loc |-> Location(h.current, put(h.current).slot)]
        ELSE IF fits(older)
        THEN [heap |-> Noted([h EXCEPT !.pages[older] = Data(put(older).page)],
                             older),
              loc |-> Location(older, put(older).slot)]
        ELSE [heap |-> RetireCurrent([noted EXCEPT !.pages[p] = Data(new.page),
                                                   !.current = p], h.current),
              loc |-> Location(p, new.slot)]

(* `insert_record`.                                                        *)
InsertRecord(h, d, v) ==
    LET w == WriteCell(h.pages, d, v)
    IN  PlaceInHeap([h EXCEPT !.pages = w.pages], w.cell)

(* `write_or_free`.                                                        *)
WriteOrFree(h, p, page) ==
    IF IsEmpty(page) /\ p # h.current
    THEN [h EXCEPT !.free = RemoveRoom(@, p), !.pages[p] = FreePage]
    ELSE Noted([h EXCEPT !.pages[p] = Data(page)], p)

(* Mutant of UpdateRecord: the old chain is left where it is.              *)
UpdateKeepingChain(h, loc, d, v) ==
    LET w == WriteCell(h.pages, d, v)
        page == h.pages[loc.page].page
        written == [h EXCEPT !.pages = w.pages]
    IN  IF CanUpdateCell(page, loc.slot, w.cell)
        THEN [heap |-> Noted([written EXCEPT !.pages[loc.page] =
                                Data(UpdateCell(page, loc.slot, w.cell))],
                             loc.page),
              loc |-> loc]
        ELSE PlaceInHeap(WriteOrFree(written, loc.page,
                                     DeleteCell(page, loc.slot)), w.cell)

(* `update_record`: the old chain freed, the cell rewritten where it is if *)
(* its page has the room, else moved.                                      *)
UpdateRecord(h, loc, d, v) ==
    LET w == WriteCell(ChainFreed(h.pages, loc), d, v)
        page == h.pages[loc.page].page
        written == [h EXCEPT !.pages = w.pages]
    IN  IF CanUpdateCell(page, loc.slot, w.cell)
        THEN [heap |-> Noted([written EXCEPT !.pages[loc.page] =
                                Data(UpdateCell(page, loc.slot, w.cell))],
                             loc.page),
              loc |-> loc]
        ELSE PlaceInHeap(WriteOrFree(written, loc.page,
                                     DeleteCell(page, loc.slot)), w.cell)

(* `delete_record`.                                                        *)
DeleteRecord(h, loc) ==
    LET ps == ChainFreed(h.pages, loc)
        page == h.pages[loc.page].page
        p == loc.page
    IN  IF Cardinality(LiveSlots(page)) = 1 /\ p # h.current
        THEN [h EXCEPT !.free = RemoveRoom(@, p),
                       !.pages = FreeAll(ps, {p})]
        ELSE Noted([h EXCEPT !.pages =
                      [ps EXCEPT ![p] = Data(DeleteCell(page, loc.slot))]], p)

(* `collection_pages`: the data pages, and the pages of the chains.        *)
DataPages(h, at) ==
    {at[d].page : d \in DOMAIN at} \union ({h.current} \ {NoPage})
ChainPages(h, loc) ==
    LET cell == LiveCell(h.pages, loc)
    IN  IF IsOverflow(cell) THEN Range(ChainOf(h.pages, cell).pages) ELSE {}

(* `free_collection_pages`, and the catalog's `dropped`.                   *)
DropCollection(h, at) ==
    [pages |-> FreeAll(h.pages, DataPages(h, at) \union
                                UNION {ChainPages(h, at[d]) : d \in DOMAIN at}),
     current |-> NoPage, free |-> <<>>]

-----------------------------------------------------------------------------
(* Compaction: `rebuild` hands the documents to `insert_record` in id      *)
(* order, into a new image; `PackedBuild` counts what it fills.            *)

InOrder(at) ==
    LET ids == DOMAIN at
    IN  [i \in 1 .. Cardinality(ids) |->
           CHOOSE d \in ids : Cardinality({e \in ids : e < d}) = i - 1]

(* The pages a record may take: a chain, and one for its cell.             *)
RoomFor(ps, v) ==
    Cardinality(FreePages(ps))
      >= 1 + IF IsInline(v) THEN 0 ELSE PagesOf(SizeOf[v])

(* `fits`: within the bound on the pages.                                  *)
InsertNext(acc, d, v) ==
    LET put == InsertRecord(acc.heap, d, v)
    IN  IF acc.fits /\ RoomFor(acc.heap.pages, v)
        THEN [heap |-> put.heap, locs |-> SetRoom(acc.locs, d, put.loc),
              fits |-> TRUE]
        ELSE [acc EXCEPT !.fits = FALSE]
Rebuilt(at, now) ==
    LET ids == InOrder(at)
        built[i \in 0 .. Len(ids)] ==
          IF i = 0 THEN [heap |-> NewHeap, locs |-> <<>>, fits |-> TRUE]
          ELSE InsertNext(built[i - 1], ids[i], now[ids[i]])
    IN  built[Len(ids)]

ASSUME StartsFit == \A start \in Starts : Rebuilt(start, start).fits

NewPacked == [pages |-> 0, current |-> NoPage, room |-> <<>>, free |-> <<>>]

(* `PackedBuild::note_room`.                                               *)
NotePacked(b, p) ==
    LET noted == NoteRoom(b.free, b.current, p, b.room[p])
    IN  [b EXCEPT !.free = noted,
                  !.room = IF p \in DOMAIN noted \union {b.current} THEN @
                           ELSE RemoveRoom(@, p)]

(* Mutant of Push: the pages left behind are forgotten.                    *)
PushForgetful(b, n) ==
    LET needed == SpaceNeeded(n)
        p == b.pages + 1
    IN  IF b.current # NoPage /\ b.room[b.current] >= needed
        THEN [b EXCEPT !.room[b.current] = @ - needed]
        ELSE [b EXCEPT !.pages = p, !.current = p,
                       !.room = SetRoom(@, p, FreeBytes(NewPage) - needed)]

(* `PackedBuild::push`.                                                    *)
Push(b, n) ==
    LET needed == SpaceNeeded(n)
        older == FindRoom(b.free, needed)
        p == b.pages + 1
        new == [b EXCEPT !.pages = p, !.current = p,
                         !.room = SetRoom(@, p, FreeBytes(NewPage) - needed)]
    IN  IF b.current # NoPage /\ b.room[b.current] >= needed
        THEN [b EXCEPT !.room[b.current] = @ - needed]
        ELSE IF older # NoPage
        THEN NotePacked([b EXCEPT !.room[older] = @ - needed], older)
        ELSE IF b.current = NoPage THEN new ELSE NotePacked(new, b.current)

(* `cell_shape`, and what `stats` adds up of the documents with it.        *)
CellShape(ps, loc) ==
    LET cell == LiveCell(ps, loc)
    IN  [cellLen |-> Len(cell),
         documentBytes |-> IF IsOverflow(cell) THEN Pointer(cell)[2]
                           ELSE Len(cell) - CellHeaderLen,
         chainPages |-> IF IsOverflow(cell) THEN PagesOf(Pointer(cell)[2])
                        ELSE 0]
Packed(ps, at) ==
    FoldLeft(LAMBDA b, d : Push(b, CellShape(ps, at[d]).cellLen),
             NewPacked, InOrder(at))

-----------------------------------------------------------------------------
(* The operations, each a batch of the writer's.                           *)

Init ==
    \E start \in Starts :
       /\ docs = start
       /\ LET built == Rebuilt(start, start)
          IN  heap = built.heap /\ locs = built.locs
       /\ steps = 0

Step == steps < MaxSteps /\ steps' = steps + 1

Put(d, v, put) ==
    /\ Step
    /\ heap' = put.heap
    /\ locs' = SetRoom(locs, d, put.loc)
    /\ docs' = SetRoom(docs, d, v)

Insert(d, v) ==
    /\ d \notin DOMAIN locs /\ RoomFor(heap.pages, v)
    /\ Put(d, v, InsertRecord(heap, d, v))

Update(d, v) ==
    /\ d \in DOMAIN locs /\ RoomFor(heap.pages, v)
    /\ Put(d, v, UpdateRecord(heap, locs[d], d, v))

Delete(d) ==
    /\ Step
    /\ d \in DOMAIN locs
    /\ heap' = DeleteRecord(heap, locs[d])
    /\ locs' = RemoveRoom(locs, d)
    /\ docs' = RemoveRoom(docs, d)

Drop ==
    /\ Step
    /\ locs # <<>>
    /\ heap' = DropCollection(heap, locs)
    /\ locs' = <<>> /\ docs' = <<>>

(* Mutant of RolledBack: the map is not the batch's own.                   *)
RolledBackButMap(before, after) == [before EXCEPT !.free = after.free]

(* What a batch that fails leaves: its pages and its copy of the catalog,  *)
(* the map with it, are dropped.                                           *)
RolledBack(before, after) == before

(* A batch that deletes a document, inserts another and then fails.        *)
FailedBatch(d, e, v) ==
    /\ steps < MaxSteps
    /\ d \in DOMAIN locs /\ e \notin DOMAIN locs /\ RoomFor(heap.pages, v)
    /\ LET deleted == DeleteRecord(heap, locs[d])
       IN  heap' = RolledBack(heap, InsertRecord(deleted, e, v).heap)
    /\ UNCHANGED <<locs, docs, steps>>

(* The map is not kept: it is empty after an open.                         *)
Reopen ==
    /\ Step
    /\ heap.free # <<>>
    /\ heap' = [heap EXCEPT !.free = <<>>]
    /\ UNCHANGED <<locs, docs>>

(* `Database::compact`, by its new image.                                  *)
Compact ==
    /\ Step
    /\ locs # <<>>
    /\ Rebuilt(locs, docs).fits
    /\ heap' = [Rebuilt(locs, docs).heap EXCEPT !.free = <<>>]
    /\ locs' = Rebuilt(locs, docs).locs
    /\ UNCHANGED docs

Next ==
    \/ \E d \in Doc : \/ \E v \in Value : Insert(d, v) \/ Update(d, v)
                      \/ Delete(d)
                      \/ \E e \in Doc, v \in Value : FailedBatch(d, e, v)
    \/ Drop \/ Reopen \/ Compact

Spec == Init /\ [][Next]_vars

-----------------------------------------------------------------------------
(* What holds.                                                             *)

(* A document reads back as it was last written, under its own id, however *)
(* the cells around it were moved, grown, packed or chained since.         *)
RecordsRead ==
    \A d \in DOMAIN docs :
       LET read == Stored(heap.pages, locs[d])
       IN  /\ Readable(heap.pages, locs[d])
           /\ read = [id |-> d, encoded |-> Encoded(docs[d]), status |-> "done"]

(* Every page in use is a data page of the collection or in one chain of   *)
(* one document; no page leaks, none is used twice.                        *)
HeapWhole ==
    LET chains == [d \in DOMAIN locs |-> ChainPages(heap, locs[d])]
        used == DataPages(heap, locs) \union UNION Range(chains)
    IN  /\ used = PageId \ FreePages(heap.pages)
        /\ \A d \in DOMAIN locs : chains[d] \intersect DataPages(heap, locs) = {}
        /\ \A d, e \in DOMAIN locs : d # e => chains[d] \intersect chains[e] = {}

(* A changed page still passes `check_layout`, as `into_page` asserts; its *)
(* cells share no byte, and of deleted cells nothing is in the gap.        *)
SlotsSound ==
    \A p \in PageId : heap.pages[p].kind = "data" =>
      PageSound(heap.pages[p].page) /\ ~OverlappingCells(heap.pages[p].page)

(* The map has pages of the collection, never its current one, each with   *)
(* exactly the room it has: `assert_free_space_is_true`.                   *)
FreeSpaceRight ==
    \A p \in DOMAIN heap.free :
       /\ p \in DataPages(heap, locs) /\ p # heap.current
       /\ heap.free[p] = ReclaimableSpace(heap.pages[p].page)
       /\ heap.free[p] >= MinRoomToStay

(* `PackedBuild` counts the data pages a compaction then fills.            *)
PackedCounted ==
    LET built == Rebuilt(locs, docs)
    IN  built.fits =>
          Packed(heap.pages, locs).pages
            = Cardinality(DataPages(built.heap, built.locs))
=============================================================================
