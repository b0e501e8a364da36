------------------------------- MODULE BTree -------------------------------
(***************************************************************************)
(* A B-tree index, src/index/btree.rs: its pages and what is done with     *)
(* them, each operation whole, as the writer's batch runs alone.           *)
(*                                                                         *)
(* A key is a number with a length of its own, which decides where pages   *)
(* split.  A branch's cell routes the keys below its own to `child`, those *)
(* at or above its last to `next`; a leaf's `next` is the leaf after it.   *)
(* Where a document is (`loc`) is left out, the bytes of a page too: of    *)
(* src/storage/slotted.rs only the slots and the room they leave are here. *)
(***************************************************************************)
EXTENDS Integers, Sequences, FiniteSets, SequencesExt, Functions

CONSTANTS
    Key,           \* the keys, above 0
    Lengths,       \* what their lengths may be, functions on Key
    Starts,        \* how an index may have been filled: keys in the order
                   \* of their inserts, and those an older version removed
    Used,          \* the keys the operations use
    MaxPages,      \* bound on the pages: an insert waits for room to split
    MaxDepth,      \* `MAX_DEPTH`, no tree reaches it
    PageRoom,      \* bytes of an empty page
    SlotLen,       \* `SLOT_LEN`
    LeafExtra,     \* `MIN_INDEX_ENTRY_LEN`
    BranchExtra    \* `MIN_BRANCH_ENTRY_LEN`

PageId == 1 .. MaxPages
NoPage == 0
NoKey == 0

(* `MAX_KEY_LEN`: no cell takes more than a quarter of a page; and every   *)
(* one at least two slots, as the bytes beside a key's do already.         *)
ASSUME BTreeAssumption ==
    /\ Key \subseteq Nat \ {NoKey}
    /\ {SlotLen, LeafExtra, BranchExtra, PageRoom} \subseteq Nat
    /\ 0 < SlotLen /\ BranchExtra <= LeafExtra
    /\ \A l \in Lengths :
          /\ l \in [Key -> Nat]
          /\ \A k \in Key : /\ 4 * (SlotLen + l[k] + LeafExtra) <= PageRoom
                            /\ 2 * SlotLen <= l[k] + BranchExtra
    /\ \A start \in Starts : /\ start.keys \in Seq(Key)
                             /\ IsInjective(start.keys)
                             /\ start.dead \subseteq Range(start.keys)
    /\ Used \subseteq Key
    /\ MaxPages \in Nat \ {0} /\ MaxDepth \in Nat \ {0}

VARIABLES
    len,       \* each key's length
    pages,     \* the pages
    root,      \* `BTreeIndex::root`, NoPage while there is no index
    entries,   \* what is in the index: `InMemoryIndex`
    filling,   \* the keys still to be inserted, in this order, and those
    dead,      \* then to be removed as an older version did
    build      \* a `SortedBuild` of the keys inserted, while they come in
               \* order; else NotSorted

vars == <<len, pages, root, entries, filling, dead, build>>

-----------------------------------------------------------------------------
(* Pages: `SlottedPage` as its cells.                                      *)

Cell(key, child) == [key |-> key, child |-> child]
Tombstone == Cell(NoKey, NoPage)
Page(kind, cells, next) == [kind |-> kind, cells |-> cells, next |-> next]
Free == Page("free", <<>>, NoPage)
EmptyLeaf == Page("leaf", <<>>, NoPage)

(* Loops: the members of a sequence that are in `wanted`, and a sum.       *)
Only(seq, wanted) ==
    LET upTo[n \in 0 .. Len(seq)] ==
          IF n = 0 THEN <<>>
          ELSE IF seq[n] \in wanted THEN Append(upTo[n - 1], seq[n])
          ELSE upTo[n - 1]
    IN  upTo[Len(seq)]
SumTo(f, n) ==
    LET upTo[i \in 0 .. n] == IF i = 0 THEN 0 ELSE upTo[i - 1] + f[i]
    IN  upTo[n]

Live(cells) == Only(cells, Range(cells) \ {Tombstone})
Keys(cells) == [i \in DOMAIN cells |-> cells[i].key]

(* `encode_index_entry` and `encode_branch_entry`, by their lengths.       *)
CellLen(kind, key) ==
    len[key] + IF kind = "leaf" THEN LeafExtra ELSE BranchExtra

(* What the cells take of a page, their slots included; a tombstone has    *)
(* but its slot.                                                           *)
Size(kind, cell) ==
    SlotLen + IF cell = Tombstone THEN 0 ELSE CellLen(kind, cell.key)
Taken(kind, cells) ==
    SumTo([i \in DOMAIN cells |-> Size(kind, cells[i])], Len(cells))

(* Mutant of Fits: the new cell's slot is forgotten.                       *)
FitsButSlot(kind, cells) == Taken(kind, cells) - SlotLen <= PageRoom

(* `fits`, and whether `build_leaf_page` or `build_branch_page` succeeds.  *)
Fits(kind, cells) == Taken(kind, cells) <= PageRoom

(* `first_slot_where`, its binary search: one turn of the loop, and the    *)
(* first live slot whose key is in `meets`, 0 for none.                    *)
Probe(cells, meets, at) ==
    LET mid == at.lo + (at.hi - at.lo) \div 2
        alive == {i \in mid .. at.hi - 1 : cells[i] # Tombstone}
        slot == CHOOSE i \in alive : \A j \in alive : i <= j
    IN  IF at.lo >= at.hi THEN at
        ELSE IF alive = {} THEN [at EXCEPT !.hi = mid]
        ELSE IF cells[slot].key \in meets THEN [at EXCEPT !.hi = mid, !.found = slot]
        ELSE [at EXCEPT !.lo = slot + 1]
FirstSlotWhere(cells, meets) ==
    LET upTo[n \in 0 .. Len(cells)] ==
          IF n = 0 THEN [lo |-> 1, hi |-> Len(cells) + 1, found |-> 0]
          ELSE Probe(cells, meets, upTo[n - 1])
    IN  upTo[Len(cells)].found

AtOrAfter(cells, key) == FirstSlotWhere(cells, {k \in Key : k >= key})
After(cells, key) == FirstSlotWhere(cells, {k \in Key : k > key})

(* A branch's children in key order, and which of them has `key`.          *)
Children(page) ==
    Append([i \in DOMAIN page.cells |-> page.cells[i].child], page.next)
ChildAt(page, key) ==
    LET slot == After(page.cells, key)
    IN  IF slot = 0 THEN Len(page.cells) + 1 ELSE slot
FindChild(page, key) == Children(page)[ChildAt(page, key)]

(* `find_leaf`, and the pages on the way: from the root r to key's leaf.   *)
PathTo(ps, r, key) ==
    LET upTo[i \in 0 .. MaxDepth] ==
          IF i = 0 THEN <<r>>
          ELSE LET path == upTo[i - 1]
                   page == ps[Last(path)]
               IN  IF page.kind = "leaf" THEN path
                   ELSE Append(path, FindChild(page, key))
    IN  upTo[MaxDepth]
Leaf(ps, r, key) == Last(PathTo(ps, r, key))

(* `slot_of`: key's slot in its leaf, 0 if it isn't there.                 *)
SlotOf(cells, key) ==
    LET slot == AtOrAfter(cells, key)
    IN  IF slot # 0 /\ cells[slot].key = key THEN slot ELSE 0

-----------------------------------------------------------------------------
(* `insert`.                                                               *)

(* External: the page store gives a page that is free.                     *)
Allocate(ps) ==
    CHOOSE p \in PageId : /\ ps[p] = Free
                          /\ \A q \in PageId : ps[q] = Free => p <= q

(* `InsertOutcome`, with the pages then: the separator is NoKey if done.   *)
Done(ps) == [pages |-> ps, separator |-> NoKey, right |-> NoPage]
Split(ps, p, left, q, right, separator) ==
    [pages |-> [ps EXCEPT ![p] = left, ![q] = right],
     separator |-> separator, right |-> q]

(* `byte_midpoint`: how many of the cells go to the left.                  *)
ByteMidpoint(sizes) ==
    LET total == SumTo(sizes, Len(sizes))
        enough == {i \in 1 .. Len(sizes) : 2 * SumTo(sizes, i) >= total}
    IN  CHOOSE i \in enough : \A j \in enough : i <= j
Midpoint(kind, cells) ==
    ByteMidpoint([i \in DOMAIN cells |-> CellLen(kind, cells[i].key)])

(* `insert_into_leaf`: in place; without the tombstones; or split, where a *)
(* key past the end of the last leaf moves alone.                          *)
InsertIntoLeaf(ps, p, key) ==
    LET page == ps[p]
        slot == AtOrAfter(page.cells, key)
        placed == InsertAt(page.cells,
                           IF slot = 0 THEN Len(page.cells) + 1 ELSE slot,
                           Cell(key, NoPage))
        all == Live(placed)
        appends == Last(all).key = key /\ page.next = NoPage
        mid == IF appends THEN Len(all) - 1 ELSE Midpoint("leaf", all)
        q == Allocate(ps)
    IN  IF Fits("leaf", placed)
        THEN Done([ps EXCEPT ![p].cells = placed])
        ELSE IF Fits("leaf", all)
        THEN Done([ps EXCEPT ![p].cells = all])
        ELSE Split(ps, p, Page("leaf", SubSeq(all, 1, mid), q),
                   q, Page("leaf", SubSeq(all, mid + 1, Len(all)), page.next),
                   all[mid + 1].key)

(* Mutant of InsertIntoBranch: the new page is not routed to.              *)
InsertUnrouted(acc, p, key) ==
    LET page == acc.pages[p]
        at == ChildAt(page, key)
        cells == InsertAt(page.cells, at,
                          Cell(acc.separator, FindChild(page, key)))
    IN  IF acc.separator = NoKey \/ ~Fits("branch", cells) THEN acc
        ELSE Done([acc.pages EXCEPT ![p] = Page("branch", cells, page.next)])

(* `insert_into_branch`, once its child has split: the separator goes in   *)
(* front of the child, and what routed there routes to the new right half. *)
(* A full branch splits and hands its middle entry up.                     *)
InsertIntoBranch(acc, p, key) ==
    LET page == acc.pages[p]
        at == ChildAt(page, key)
        routed == IF at > Len(page.cells) THEN page.cells
                  ELSE [page.cells EXCEPT ![at].child = acc.right]
        next == IF at > Len(page.cells) THEN acc.right ELSE page.next
        cells == InsertAt(routed, at, Cell(acc.separator, FindChild(page, key)))
        mid == Midpoint("branch", cells)
        q == Allocate(acc.pages)
    IN  IF acc.separator = NoKey THEN acc
        ELSE IF Fits("branch", cells)
        THEN Done([acc.pages EXCEPT ![p] = Page("branch", cells, next)])
        ELSE Split(acc.pages,
                   p, Page("branch", SubSeq(cells, 1, mid - 1), cells[mid].child),
                   q, Page("branch", SubSeq(cells, mid + 1, Len(cells)), next),
                   cells[mid].key)

(* `grow_new_root`: the root keeps its place, its page moves.              *)
GrowNewRoot(acc, r) ==
    LET left == Allocate(acc.pages)
    IN  [acc.pages EXCEPT ![left] = acc.pages[r],
                          ![r] = Page("branch", <<Cell(acc.separator, left)>>,
                                      acc.right)]

Inserted(ps, r, key) ==
    LET path == PathTo(ps, r, key)
        upTo[i \in 0 .. Len(path) - 1] ==
          IF i = 0 THEN InsertIntoLeaf(ps, Last(path), key)
          ELSE InsertIntoBranch(upTo[i - 1], path[Len(path) - i], key)
        top == upTo[Len(path) - 1]
    IN  IF top.separator = NoKey THEN top.pages ELSE GrowNewRoot(top, r)

(* `remove`: the slot taken out.  A leaf left empty stays where it is.     *)
Removed(ps, r, key) ==
    LET p == Leaf(ps, r, key)
        slot == SlotOf(ps[p].cells, key)
    IN  IF slot = 0 THEN ps
        ELSE [ps EXCEPT ![p].cells = RemoveAt(@, slot)]

(* The same by a version before §52: the slot stays, a tombstone.          *)
RemovedOnce(ps, r, key) ==
    LET p == Leaf(ps, r, key)
    IN  [ps EXCEPT ![p].cells[SlotOf(ps[p].cells, key)] = Tombstone]

-----------------------------------------------------------------------------
(* Walks, from the key `start` on and below the key `end`, which is NoKey  *)
(* for a range with no end.                                                *)

Within(key, start, end) == key >= start /\ (end = NoKey \/ key < end)

(* Forward: the leaves along their links, from the one `start` would be in.*)
LeavesFrom(ps, r, start) ==
    LET upTo[i \in 0 .. MaxPages] ==
          IF i = 0 THEN <<Leaf(ps, r, start)>>
          ELSE LET leaves == upTo[i - 1]
                   next == ps[Last(leaves)].next
               IN  IF next = NoPage THEN leaves ELSE Append(leaves, next)
    IN  upTo[MaxPages]

LiveKeys(page) == Keys(Live(page.cells))

(* What lies in a sequence of sequences.                                   *)
Joined(seqs) ==
    LET upTo[i \in 0 .. Len(seqs)] ==
          IF i = 0 THEN <<>> ELSE upTo[i - 1] \o seqs[i]
    IN  upTo[Len(seqs)]

(* A range's keys are handed out until the first past its other end; those *)
(* before it are skipped.                                                  *)
TakeUntil(keys, past) ==
    LET at == {i \in DOMAIN keys : keys[i] \in past}
    IN  IF at = {} THEN keys
        ELSE SubSeq(keys, 1, (CHOOSE i \in at : \A j \in at : i <= j) - 1)

Forward(ps, r, start, end) ==
    LET leaves == LeavesFrom(ps, r, start)
        keys == Joined([i \in DOMAIN leaves |-> LiveKeys(ps[leaves[i]])])
    IN  Only(TakeUntil(keys, {k \in Key : end # NoKey /\ k >= end}),
             {k \in Key : k >= start})

(* `descend`: down from page p, towards a key or along the last children,  *)
(* with the branches passed and the child taken in each.                   *)
Descend(ps, path, p, key) ==
    LET upTo[i \in 0 .. MaxDepth] ==
          IF i = 0 THEN [path |-> path, page |-> p]
          ELSE LET above == upTo[i - 1]
                   page == ps[above.page]
                   at == IF key = NoKey THEN Len(page.cells) + 1
                         ELSE ChildAt(page, key)
               IN  IF page.kind = "leaf" THEN above
                   ELSE [path |-> Append(above.path,
                                         [page |-> above.page, at |-> at]),
                         page |-> Children(page)[at]]
    IN  upTo[MaxDepth]

(* Mutant of PreviousLeaf: up one level only.                              *)
PreviousSibling(ps, here) ==
    IF here.path = <<>> \/ Last(here.path).at = 1
    THEN [path |-> <<>>, page |-> NoPage]
    ELSE LET n == Len(here.path)
             path == [here.path EXCEPT ![n].at = @ - 1]
         IN  Descend(ps, path, Children(ps[path[n].page])[path[n].at], NoKey)

(* `read_next_leaf` backward: up to the nearest branch with a child before *)
(* this one, and down its last children.                                   *)
PreviousLeaf(ps, here) ==
    LET up == {i \in DOMAIN here.path : here.path[i].at > 1}
        n == CHOOSE i \in up : \A j \in up : j <= i
        path == [SubSeq(here.path, 1, n) EXCEPT ![n].at = @ - 1]
    IN  IF up = {} THEN [path |-> <<>>, page |-> NoPage]
        ELSE Descend(ps, path, Children(ps[path[n].page])[path[n].at], NoKey)

Backward(ps, r, start, end) ==
    LET upTo[i \in 0 .. MaxPages] ==
          IF i = 0 THEN <<Descend(ps, <<>>, r, end)>>
          ELSE LET back == upTo[i - 1]
                   previous == PreviousLeaf(ps, Last(back))
               IN  IF previous.page = NoPage THEN back ELSE Append(back, previous)
        leaves == upTo[MaxPages]
        keys == Joined([i \in DOMAIN leaves |->
                          Reverse(LiveKeys(ps[leaves[i].page]))])
    IN  Only(TakeUntil(keys, {k \in Key : k < start}),
             {k \in Key : end = NoKey \/ k < end})

(* Mutant of CountLeaf: the range's end isn't looked at.                   *)
CountFrom(keys, start, end) ==
    IF keys # <<>> /\ Head(keys) >= start THEN Len(keys)
    ELSE Len(Only(keys, {k \in Key : Within(k, start, end)}))

(* `count_at_most`, of `cap` leaves: one all inside the range by its slots,*)
(* one at an end key by key; and whether nothing is left.                  *)
CountLeaf(keys, start, end) ==
    IF keys # <<>> /\ Head(keys) >= start /\ (end = NoKey \/ Last(keys) < end)
    THEN Len(keys)
    ELSE Len(Only(keys, {k \in Key : Within(k, start, end)}))
CountAtMost(ps, r, start, end, cap) ==
    LET leaves == LeavesFrom(ps, r, start)
        in == [i \in DOMAIN leaves |->
                 CountLeaf(LiveKeys(ps[leaves[i]]), start, end)]
    IN  [entries |-> SumTo(in, IF cap < Len(in) THEN cap ELSE Len(in)),
         whole |-> \A i \in DOMAIN in : i > cap => in[i] = 0]

-----------------------------------------------------------------------------
(* `SortedBuild`: the pages of a tree built in key order, counted only.    *)

Branches(finished, sizes) == [finished |-> finished, sizes |-> sizes]
Room(sizes) == PageRoom - SumTo([i \in DOMAIN sizes |-> SlotLen + sizes[i]],
                                Len(sizes))

(* Mutant of HasRoom: a page that would be just full is taken for too full.*)
HasRoomToSpare(room, needed) == room > needed
HasRoom(room, needed) == room >= needed

(* `separate` at level i, for the entry of size `up` that the level below  *)
(* hands up, -1 for none.                                                  *)
Separate(acc, i) ==
    LET level == acc.levels[i]
        sizes == Append(level.sizes, acc.up)
        mid == ByteMidpoint(sizes)
    IN  IF acc.up = -1 THEN acc
        ELSE IF i > Len(acc.levels)
        THEN [levels |-> Append(acc.levels, Branches(0, <<acc.up>>)), up |-> -1]
        ELSE IF HasRoom(Room(level.sizes), SlotLen + acc.up)
        THEN [levels |-> [acc.levels EXCEPT ![i].sizes = sizes], up |-> -1]
        ELSE [levels |-> [acc.levels EXCEPT ![i] =
                            Branches(level.finished + 1,
                                     SubSeq(sizes, mid + 1, Len(sizes)))],
              up |-> sizes[mid]]

(* `push`: the leaves are as full as they get, then one begins.            *)
Push(b, key) ==
    LET needed == SlotLen + CellLen("leaf", key)
        first == b.leaves = 0
        room == IF first THEN PageRoom ELSE b.room
        upTo[i \in 0 .. Len(b.levels) + 1] ==
          IF i = 0 THEN [levels |-> b.levels, up |-> CellLen("branch", key)]
          ELSE Separate(upTo[i - 1], i)
    IN  IF HasRoom(room, needed)
        THEN [b EXCEPT !.leaves = IF first THEN 1 ELSE @, !.room = room - needed]
        ELSE [leaves |-> b.leaves + 1, room |-> PageRoom - needed,
              levels |-> upTo[Len(b.levels) + 1].levels]

NotSorted == [leaves |-> -1]
NewBuild == [leaves |-> 0, room |-> 0, levels |-> <<>>]
SortedPages(b) ==
    (IF b.leaves = 0 THEN 1 ELSE b.leaves)
      + SumTo([i \in DOMAIN b.levels |-> b.levels[i].finished + 1], Len(b.levels))

-----------------------------------------------------------------------------
(* `pages`: every page of the tree, the root first.                        *)
Below(ps, p) == IF ps[p].kind = "branch" THEN Children(ps[p]) ELSE <<>>
Reached(ps, r) ==
    LET upTo[i \in 0 .. MaxPages] ==
          IF i = 0 THEN [pending |-> <<r>>, pages |-> <<>>]
          ELSE LET was == upTo[i - 1]
                   p == Last(was.pending)
               IN  IF was.pending = <<>> THEN was
                   ELSE [pending |-> Front(was.pending) \o Below(ps, p),
                         pages |-> Append(was.pages, p)]
    IN  upTo[MaxPages].pages

Ascending(set) ==
    [i \in 1 .. Cardinality(set) |->
       CHOOSE k \in set : Cardinality({j \in set : j < k}) = i - 1]

Empty == [p \in PageId |-> Free]
NewTree(ps, p) == [ps EXCEPT ![p] = EmptyLeaf]

Init ==
    /\ len \in Lengths
    /\ root = 1
    /\ pages = NewTree(Empty, 1)
    /\ entries = {}
    /\ \E start \in Starts : filling = start.keys /\ dead = start.dead
    /\ build = NewBuild

(* Every page on the way may split, and the root grow: the bounds.         *)
RoomFor(key) ==
    LET depth == Len(PathTo(pages, root, key))
    IN  /\ depth <= MaxDepth
        /\ depth < Cardinality({p \in PageId : pages[p] = Free})

(* The next of the keys an index is filled with: `rebuild`'s, in order, or *)
(* those that made it what it is at first.                                 *)
Fill ==
    /\ filling # <<>>
    /\ RoomFor(Head(filling))
    /\ LET key == Head(filling)
           sorted == build # NotSorted /\ \A k \in entries : k < key
       IN  /\ pages' = Inserted(pages, root, key)
           /\ entries' = entries \cup {key}
           /\ build' = IF sorted THEN Push(build, key) ELSE NotSorted
    /\ filling' = Tail(filling)
    /\ UNCHANGED <<len, root, dead>>

RemoveOnce(key) ==
    /\ filling = <<>>
    /\ pages' = RemovedOnce(pages, root, key)
    /\ entries' = entries \ {key}
    /\ dead' = dead \ {key}
    /\ build' = NotSorted
    /\ UNCHANGED <<len, root, filling>>

(* A new index: an empty leaf.                                             *)
Create ==
    /\ root = NoPage
    /\ root' = Allocate(pages)
    /\ pages' = NewTree(pages, Allocate(pages))
    /\ UNCHANGED <<len, entries, filling, dead, build>>

(* An operation: the pages and the entries as it leaves them.              *)
Op(ps, keys) ==
    /\ root # NoPage
    /\ filling = <<>> /\ dead = {}
    /\ pages' = ps
    /\ entries' = keys
    /\ build' = NotSorted
    /\ UNCHANGED <<len, filling, dead>>

(* Keys are unique, the callers see to it (a key ends in its document's    *)
(* id).                                                                    *)
InsertKey(key) ==
    /\ key \notin entries
    /\ root # NoPage /\ RoomFor(key)
    /\ Op(Inserted(pages, root, key), entries \cup {key})
    /\ UNCHANGED root

RemoveKey(key) ==
    /\ Op(Removed(pages, root, key), entries \ {key})
    /\ UNCHANGED root

Freed(gone) == [p \in PageId |-> IF p \in gone THEN Free ELSE pages[p]]

(* Mutant of Clear: the pages below the root stay allocated.               *)
ClearRoot ==
    /\ Op(NewTree(pages, root), {})
    /\ UNCHANGED root

(* `clear`: the root stays, an empty leaf.                                 *)
Clear ==
    /\ Op(NewTree(Freed(Range(Reached(pages, root))), root), {})
    /\ UNCHANGED root

FreeAll ==
    /\ Op(Freed(Range(Reached(pages, root))), {})
    /\ root' = NoPage

(* `compact`: the entries in key order into a tree of a new file.          *)
Compact ==
    /\ root # NoPage
    /\ filling = <<>> /\ dead = {}
    /\ pages' = NewTree(Empty, 1)
    /\ root' = 1
    /\ entries' = {}
    /\ filling' = Ascending(entries)
    /\ build' = NewBuild
    /\ UNCHANGED <<len, dead>>

Next ==
    \/ Fill
    \/ \E key \in dead : RemoveOnce(key)
    \/ Create
    \/ \E key \in Used : InsertKey(key) \/ RemoveKey(key)
    \/ Clear
    \/ FreeAll
    \/ Compact

Spec == Init /\ [][Next]_vars

-----------------------------------------------------------------------------
(* Properties.                                                             *)

CellType == [key : Key \cup {NoKey}, child : PageId \cup {NoPage}]

Bounds == Used \cup {NoKey}

(* A lookup finds the keys in the index and no others: after splits up to  *)
(* the root, removals and tombstones, the way down leads to the one leaf   *)
(* that has the key.                                                       *)
LookupsRight ==
    root # NoPage =>
       \A key \in Used \cup entries :
          SlotOf(pages[Leaf(pages, root, key)].cells, key) # 0
             <=> key \in entries

(* A walk in either direction hands out the range's keys in order, each    *)
(* once: along the leaves' links forward, through the branches backward.   *)
Ranges == (Used \X {NoKey}) \cup ({NoKey} \X Bounds)
WalksRight ==
    root # NoPage =>
       \A range \in Ranges :
          LET in == Ascending({k \in entries : Within(k, range[1], range[2])})
          IN  /\ Forward(pages, root, range[1], range[2]) = in
              /\ Backward(pages, root, range[1], range[2]) = Reverse(in)

(* `count_at_most` counts a range's entries; when it stops at the leaves   *)
(* it may enter, it says that some are left.                               *)
CountsRight ==
    root # NoPage =>
       \A range \in Ranges, cap \in {1, MaxPages} :
          LET n == Cardinality({k \in entries : Within(k, range[1], range[2])})
              counted == CountAtMost(pages, root, range[1], range[2], cap)
          IN  IF counted.whole THEN counted.entries = n
              ELSE counted.entries < n /\ cap < MaxPages

(* No page is lost and none reached twice: those of the tree, each once,   *)
(* are all that were allocated, and the leaves are equally deep (`depth`   *)
(* relies on it).                                                          *)
TreeIsWhole ==
    LET taken == {p \in PageId : pages[p] # Free}
    IN  IF root = NoPage THEN taken = {}
        ELSE /\ IsInjective(Reached(pages, root))
             /\ Range(Reached(pages, root)) = taken
             /\ \A k, l \in Used : Len(PathTo(pages, root, k))
                                     = Len(PathTo(pages, root, l))

(* Every page is sound: its cells fit ("each half of a split fits",        *)
(* whatever the keys' lengths), and a branch has a separator, none of them *)
(* a tombstone, and a child in every place.                                *)
PagesSound ==
    \A p \in PageId :
       LET page == pages[p]
       IN  /\ page.kind \in {"leaf", "branch", "free"}
           /\ Range(page.cells) \subseteq CellType
           /\ Taken(page.kind, page.cells) <= PageRoom
           /\ page.kind = "branch" =>
                 /\ page.cells # <<>>
                 /\ NoPage \notin Range(Children(page))
                 /\ Tombstone \notin Range(page.cells)

(* The pages an index would take compacted, which `stats` counts from the  *)
(* keys' lengths alone, are those a compaction builds.                     *)
CompactionCounted ==
    build # NotSorted =>
       SortedPages(build) = Cardinality({p \in PageId : pages[p] # Free})
=============================================================================
