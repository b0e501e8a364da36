---------------------------- MODULE Heap_proofs ----------------------------
(***************************************************************************)
(* What the operations on a slotted page keep: a page that passes          *)
(* `check_layout` passes it after, and whatever bytes an operation moves,  *)
(* every other cell reads as before.                                       *)
(*                                                                         *)
(* Then what the heap keeps for every size of a page, of a chain's pages   *)
(* and of the documents: each is read as it was written, every page has    *)
(* one owner, the pages are sound and the free-space map is right.         *)
(***************************************************************************)
EXTENDS Heap, SequenceTheorems, FiniteSetTheorems, Induction_proofs, TLAPS

-----------------------------------------------------------------------------
(* Slotted pages.                                                          *)

(* A page of any bytes, Zero among them.                                   *)
PageType(Byte) ==
    [bytes : [0 .. PageSize - 1 -> Byte],
     slots : Seq([at : Nat, len : Nat]), start : Nat]

(* Intervals share no number if one ends before the other begins.          *)
LEMMA IntervalsApart ==
    ASSUME NEW a \in Nat, NEW b \in Nat, NEW m \in Nat \ {0}, NEW n \in Nat \ {0}
    PROVE  (a .. a + m - 1) \cap (b .. b + n - 1) = {} <=> a + m <= b \/ b + n <= a
<1>1. ASSUME (a .. a + m - 1) \cap (b .. b + n - 1) = {}, ~(a + m <= b \/ b + n <= a)
      PROVE  FALSE
  <2>1. CASE a <= b
    <3>1. b \in a .. a + m - 1 /\ b \in b .. b + n - 1
      BY <1>1, <2>1
    <3> QED
      BY <1>1, <3>1
  <2>2. CASE b <= a
    <3>1. a \in a .. a + m - 1 /\ a \in b .. b + n - 1
      BY <1>1, <2>2
    <3> QED
      BY <1>1, <3>1
  <2> QED
    BY <2>1, <2>2
<1>2. ASSUME a + m <= b \/ b + n <= a, NEW x \in (a .. a + m - 1) \cap (b .. b + n - 1)
      PROVE  FALSE
  BY <1>2
<1> QED
  BY <1>1, <1>2

(* What `copy_from_slice` and `copy_within` leave in a page's bytes.       *)
IsWritten(old, at, data, new) ==
    \A i \in 0 .. PageSize - 1 :
       /\ at <= i /\ i < at + Len(data) => new[i] = data[i - at + 1]
       /\ ~(at <= i /\ i < at + Len(data)) => new[i] = old[i]
IsCopied(old, from, n, to, new) ==
    \A i \in 0 .. PageSize - 1 :
       /\ to <= i /\ i < to + n => new[i] = old[from + i - to]
       /\ ~(to <= i /\ i < to + n) => new[i] = old[i]

(* A cell written within the page.                                         *)
LEMMA WrittenRight ==
    ASSUME NEW Byte, NEW bytes \in [0 .. PageSize - 1 -> Byte], NEW at \in Nat,
           NEW data \in Seq(Byte), at + Len(data) <= PageSize
    PROVE  /\ Written(bytes, at, data) \in [0 .. PageSize - 1 -> Byte]
           /\ IsWritten(bytes, at, data, Written(bytes, at, data))
<1>1. PageSize \in Nat /\ Len(data) \in Nat /\ data \in [1 .. Len(data) -> Byte]
  BY SlottedAssumption, LenProperties
<1>2. ASSUME NEW i \in 0 .. PageSize - 1
      PROVE  i \in at .. at + Len(data) - 1 <=> at <= i /\ i < at + Len(data)
  BY <1>1
<1>3. ASSUME NEW i \in 0 .. PageSize - 1, at <= i, i < at + Len(data)
      PROVE  data[i - at + 1] \in Byte
  <2>1. i - at + 1 \in 1 .. Len(data)
    BY <1>1, <1>3
  <2> QED
    BY <1>1, <2>1
<1>4. DOMAIN bytes = 0 .. PageSize - 1
  OBVIOUS
<1>5. \A i \in 0 .. PageSize - 1 : Written(bytes, at, data)[i] =
         IF at <= i /\ i < at + Len(data) THEN data[i - at + 1] ELSE bytes[i]
  BY <1>2, <1>4 DEF Written
<1>6. ASSUME NEW i \in 0 .. PageSize - 1 PROVE Written(bytes, at, data)[i] \in Byte
  BY <1>3, <1>5
<1>7. Written(bytes, at, data) = [i \in 0 .. PageSize - 1 |-> Written(bytes, at, data)[i]]
  BY <1>4 DEF Written
<1> QED
  BY <1>5, <1>6, <1>7 DEF IsWritten

(* Bytes copied from one part of the page to another.                      *)
LEMMA CopyRight ==
    ASSUME NEW Byte, NEW bytes \in [0 .. PageSize - 1 -> Byte], NEW from \in Nat,
           NEW n \in Nat, NEW to \in Nat, from + n <= PageSize, to + n <= PageSize
    PROVE  /\ CopyWithin(bytes, from, n, to) \in [0 .. PageSize - 1 -> Byte]
           /\ IsCopied(bytes, from, n, to, CopyWithin(bytes, from, n, to))
<1>1. PageSize \in Nat
  BY SlottedAssumption
<1>2. ASSUME NEW i \in 0 .. PageSize - 1
      PROVE  i \in to .. to + n - 1 <=> to <= i /\ i < to + n
  OBVIOUS
<1>3. ASSUME NEW i \in 0 .. PageSize - 1, to <= i, i < to + n
      PROVE  bytes[from + i - to] \in Byte
  <2>1. from + i - to \in 0 .. PageSize - 1
    BY <1>1, <1>3
  <2> QED
    BY <2>1
<1>4. DOMAIN bytes = 0 .. PageSize - 1
  OBVIOUS
<1>5. \A i \in 0 .. PageSize - 1 : CopyWithin(bytes, from, n, to)[i] =
         IF to <= i /\ i < to + n THEN bytes[from + i - to] ELSE bytes[i]
  BY <1>2, <1>4 DEF CopyWithin
<1>6. ASSUME NEW i \in 0 .. PageSize - 1 PROVE CopyWithin(bytes, from, n, to)[i] \in Byte
  BY <1>3, <1>5
<1>7. CopyWithin(bytes, from, n, to) =
        [i \in 0 .. PageSize - 1 |-> CopyWithin(bytes, from, n, to)[i]]
  BY <1>4 DEF CopyWithin
<1> QED
  BY <1>5, <1>6, <1>7 DEF IsCopied

(* The cells of a page, as places and lengths.                             *)
LEMMA LiveCells ==
    ASSUME NEW Byte, NEW page \in PageType(Byte), NEW s \in LiveSlots(page)
    PROVE  /\ s \in DOMAIN page.slots /\ s \in 1 .. Len(page.slots)
           /\ page.slots[s].at \in Nat /\ page.slots[s].len \in Nat \ {0}
           /\ CheckLayout(page) => /\ page.slots[s].at >= page.start
                                   /\ page.slots[s].at + page.slots[s].len <= PageSize
<1> DEFINE S == [at : Nat, len : Nat]
<1>1. page.slots \in Seq(S)
  BY DEF PageType
<1>2. s \in DOMAIN page.slots /\ page.slots[s].len # 0
  BY DEF LiveSlots
<1>3. s \in 1 .. Len(page.slots) /\ page.slots[s] \in S
  <2> HIDE DEF S
  <2> QED
    BY <1>1, <1>2, LenProperties
<1> QED
  BY <1>2, <1>3 DEF CheckLayout

(* The directory ends at a byte.                                           *)
LEMMA DirectoryEnds ==
    ASSUME NEW Byte, NEW page \in PageType(Byte)
    PROVE  DirectoryEnd(page) \in Nat /\ Len(page.slots) \in Nat
<1>1. Len(page.slots) \in Nat
  BY DEF PageType
<1>2. ASSUME NEW a \in Nat, NEW b \in Nat PROVE a * b \in Nat
  OBVIOUS
<1>3. Len(page.slots) * SlotLen \in Nat
  BY <1>1, <1>2, SlottedAssumption
<1> QED
  BY <1>1, <1>3, SlottedAssumption DEF DirectoryEnd

(* Two cells share no byte if one ends where the other begins or before.   *)
LEMMA CellsApart ==
    ASSUME NEW Byte, NEW page \in PageType(Byte),
           NEW s \in LiveSlots(page), NEW t \in LiveSlots(page)
    PROVE  BytesOf(page, s) \intersect BytesOf(page, t) = {} <=>
              \/ page.slots[s].at + page.slots[s].len <= page.slots[t].at
              \/ page.slots[t].at + page.slots[t].len <= page.slots[s].at
<1>1. page.slots[s].at \in Nat /\ page.slots[s].len \in Nat \ {0}
  BY LiveCells
<1>2. page.slots[t].at \in Nat /\ page.slots[t].len \in Nat \ {0}
  BY LiveCells
<1> QED
  BY <1>1, <1>2, IntervalsApart DEF BytesOf

-----------------------------------------------------------------------------
(* `insert_cell` and `place_cell`, where there is room below the cells: a  *)
(* cell written under the others for the slot s, live or not before, that  *)
(* the directory has.                                                      *)
LEMMA PlaceCellKeeps ==
    ASSUME NEW Byte, NEW page \in PageType(Byte), PageSound(page),
           NEW s \in DOMAIN page.slots, NEW data \in Seq(Byte), data # <<>>,
           page.start - Len(data) >= DirectoryEnd(page)
    PROVE  /\ PlaceCell(page, s, data) \in PageType(Byte)
           /\ PageSound(PlaceCell(page, s, data))
           /\ s \in LiveSlots(PlaceCell(page, s, data))
           /\ GetCell(PlaceCell(page, s, data), s) = data
           /\ OthersKept(page, PlaceCell(page, s, data), s)
<1>1. PICK n, at, after : /\ n = Len(data) /\ at = page.start - n
                          /\ after = PlaceCell(page, s, data)
  OBVIOUS
<1>2. /\ n \in Nat \ {0} /\ page.start \in Nat /\ page.start <= PageSize
      /\ page.start >= DirectoryEnd(page) /\ PageSize \in Nat
  BY <1>1, SlottedAssumption DEF PageType, PageSound, CheckLayout
<1>3. DirectoryEnd(page) \in Nat
  BY DirectoryEnds
<1>4. at \in Nat /\ at >= DirectoryEnd(page) /\ at + n = page.start
  BY <1>1, <1>2, <1>3
<1>5. /\ page.slots \in Seq([at : Nat, len : Nat])
      /\ page.bytes \in [0 .. PageSize - 1 -> Byte]
  BY DEF PageType
<1>6. /\ after.bytes = Written(page.bytes, at, data)
      /\ after.slots = [page.slots EXCEPT ![s] = [at |-> at, len |-> n]]
      /\ after.start = at
      /\ after = [bytes |-> after.bytes, slots |-> after.slots, start |-> after.start]
  BY <1>1 DEF PlaceCell, Slot
<1>7. /\ Written(page.bytes, at, data) \in [0 .. PageSize - 1 -> Byte]
      /\ \A i \in 0 .. PageSize - 1 :
            /\ at <= i /\ i < at + n => after.bytes[i] = data[i - at + 1]
            /\ ~(at <= i /\ i < at + n) => after.bytes[i] = page.bytes[i]
  <2>1. PICK bytes : bytes = page.bytes
    OBVIOUS
  <2>2. bytes \in [0 .. PageSize - 1 -> Byte]
    BY <1>5, <2>1
  <2>3. at \in Nat /\ at + Len(data) <= PageSize
    BY <1>1, <1>2, <1>4
  <2>4. /\ Written(bytes, at, data) \in [0 .. PageSize - 1 -> Byte]
        /\ IsWritten(bytes, at, data, Written(bytes, at, data))
    BY <2>2, <2>3, WrittenRight
  <2> QED
    BY <1>1, <1>6, <2>1, <2>4 DEF IsWritten
<1>8. after \in PageType(Byte)
  <2>1. after.slots \in Seq([at : Nat, len : Nat])
    <3> DEFINE S == [at : Nat, len : Nat]
    <3>1. PICK e : e = [at |-> at, len |-> n]
      OBVIOUS
    <3>2. e \in S
      BY <1>2, <1>4, <3>1
    <3> HIDE DEF S
    <3>3. s \in 1 .. Len(page.slots) /\ page.slots \in Seq(S)
      BY <1>5, LenProperties DEF S
    <3>4. after.slots = [page.slots EXCEPT ![s] = e]
      BY <1>6, <3>1
    <3>5. after.slots \in Seq(S)
      BY <3>2, <3>3, <3>4, ExceptSeq
    <3> QED
      BY <3>5 DEF S
  <2>3. after.bytes \in [0 .. PageSize - 1 -> Byte]
    BY <1>6, <1>7
  <2> QED
    BY <1>4, <1>6, <2>1, <2>3 DEF PageType
<1>9. /\ DOMAIN after.slots = DOMAIN page.slots /\ Len(after.slots) = Len(page.slots)
      /\ after.slots[s] = [at |-> at, len |-> n]
      /\ \A t \in DOMAIN page.slots \ {s} : after.slots[t] = page.slots[t]
  BY <1>5, <1>6
<1>10. s \in LiveSlots(after) /\ LiveSlots(after) = LiveSlots(page) \cup {s}
  BY <1>2, <1>9 DEF LiveSlots
<1>11. ASSUME NEW t \in LiveSlots(page)
       PROVE  /\ t \in DOMAIN page.slots
              /\ page.slots[t].at \in Nat /\ page.slots[t].len \in Nat \ {0}
              /\ page.slots[t].at >= page.start
              /\ page.slots[t].at + page.slots[t].len <= PageSize
  BY LiveCells DEF PageSound
<1>12. CheckLayout(after)
  <2>1. DirectoryEnd(after) = DirectoryEnd(page)
    BY <1>9 DEF DirectoryEnd
  <2>2. ASSUME NEW t \in LiveSlots(after)
        PROVE  after.slots[t].at >= at /\ after.slots[t].at + after.slots[t].len <= PageSize
    <3>1. CASE t = s
      BY <1>2, <1>4, <1>9, <3>1, SMTT(30)
    <3>2. CASE t # s
      <4>1. t \in LiveSlots(page) /\ after.slots[t] = page.slots[t]
        BY <1>9, <1>10, <1>11, <3>2
      <4> QED
        BY <1>2, <1>4, <1>11, <4>1
    <3> QED
      BY <3>1, <3>2
  <2> QED
    BY <1>2, <1>4, <1>6, <2>1, <2>2 DEF CheckLayout
<1>13. ASSUME NEW t \in LiveSlots(after), NEW u \in LiveSlots(after), t # u
       PROVE  \/ after.slots[t].at + after.slots[t].len <= after.slots[u].at
              \/ after.slots[u].at + after.slots[u].len <= after.slots[t].at
  <2>1. CASE t = s
    <3>1. u \in LiveSlots(page) /\ after.slots[u] = page.slots[u]
      BY <1>9, <1>10, <1>11, <1>13, <2>1
    <3> QED
      BY <1>4, <1>9, <1>11, <2>1, <3>1
  <2>2. CASE u = s
    <3>1. t \in LiveSlots(page) /\ after.slots[t] = page.slots[t]
      BY <1>9, <1>10, <1>11, <1>13, <2>2
    <3> QED
      BY <1>4, <1>9, <1>11, <2>2, <3>1
  <2>3. CASE t # s /\ u # s
    <3>1. /\ t \in LiveSlots(page) /\ after.slots[t] = page.slots[t]
          /\ u \in LiveSlots(page) /\ after.slots[u] = page.slots[u]
      BY <1>9, <1>10, <1>11, <2>3
    <3>2. BytesOf(page, t) \intersect BytesOf(page, u) = {}
      BY <1>13, <3>1 DEF PageSound
    <3> QED
      BY <3>1, <3>2, CellsApart
  <2> QED
    BY <2>1, <2>2, <2>3
<1>14. PageSound(after)
  <2>1. \A t, u \in LiveSlots(after) :
           t # u => BytesOf(after, t) \intersect BytesOf(after, u) = {}
    BY <1>8, <1>13, CellsApart
  <2>2. ASSUME NEW i \in DirectoryEnd(after) .. after.start - 1 PROVE after.bytes[i] = Zero
    <3>1. DirectoryEnd(after) = DirectoryEnd(page)
      BY <1>9 DEF DirectoryEnd
    <3>2. i \in DirectoryEnd(page) .. page.start - 1 /\ i \in 0 .. PageSize - 1
          /\ i < at
      BY <1>2, <1>3, <1>4, <1>6, <3>1
    <3>3. page.bytes[i] = Zero
      BY <3>2 DEF PageSound
    <3>4. ~(at <= i) /\ i \in 0 .. PageSize - 1
      BY <1>4, <3>2
    <3> QED
      BY <1>7, <3>3, <3>4
  <2> QED
    BY <1>12, <2>1, <2>2 DEF PageSound
<1>15. GetCell(after, s) = data
  <2>1. GetCell(after, s) = [i \in 1 .. n |-> after.bytes[at + i - 1]]
    BY <1>9 DEF GetCell
  <2>2. ASSUME NEW i \in 1 .. n PROVE after.bytes[at + i - 1] = data[i]
    <3>1. /\ at + i - 1 \in 0 .. PageSize - 1 /\ at <= at + i - 1 /\ at + i - 1 < at + n
          /\ (at + i - 1) - at + 1 = i
      BY <1>2, <1>4
    <3> QED
      BY <1>7, <3>1
  <2>3. data = [i \in 1 .. n |-> data[i]]
    BY <1>1
  <2> QED
    BY <2>1, <2>2, <2>3
<1>16. ASSUME NEW t \in LiveSlots(page), t # s
       PROVE  t \in LiveSlots(after) /\ GetCell(after, t) = GetCell(page, t)
  <2>1. t \in LiveSlots(after) /\ after.slots[t] = page.slots[t]
    BY <1>9, <1>10, <1>11, <1>16
  <2>2. ASSUME NEW i \in 1 .. page.slots[t].len
        PROVE  after.bytes[page.slots[t].at + i - 1] = page.bytes[page.slots[t].at + i - 1]
    <3>1. PICK c : c = page.slots[t].at + i - 1
      OBVIOUS
    <3>2. /\ page.slots[t].at \in Nat /\ page.slots[t].len \in Nat
          /\ page.slots[t].at >= page.start
          /\ page.slots[t].at + page.slots[t].len <= PageSize
      BY <1>11
    <3>5. PICK a, l : a = page.slots[t].at /\ l = page.slots[t].len
      OBVIOUS
    <3>6. /\ a \in Nat /\ l \in Nat /\ a >= page.start /\ a + l <= PageSize
          /\ i \in 1 .. l /\ c = a + i - 1
      BY <3>1, <3>2, <3>5
    <3>3. c \in 0 .. PageSize - 1 /\ ~(c < at + n)
      BY <1>2, <1>4, <3>6
    <3>4. after.bytes[c] = page.bytes[c]
      BY <1>7, <3>3
    <3> QED
      BY <3>1, <3>4
  <2> QED
    BY <2>1, <2>2 DEF GetCell
<1> QED
  BY <1>1, <1>8, <1>10, <1>14, <1>15, <1>16 DEF OthersKept

(* `SlottedPage::free_bytes`, where it is enough for something.            *)
LEMMA EnoughFree ==
    ASSUME NEW Byte, NEW page \in PageType(Byte), NEW n \in Nat \ {0}, FreeBytes(page) >= n
    PROVE  page.start - DirectoryEnd(page) >= n
<1>1. page.start \in Nat /\ DirectoryEnd(page) \in Nat
  BY DirectoryEnds DEF PageType
<1>2. PICK d : d = page.start - DirectoryEnd(page) /\ d \in Int
  BY <1>1
<1>3. Max({d, 0}) = d \/ Max({d, 0}) = 0
  <2>1. \E x \in {d, 0} : \A y \in {d, 0} : x >= y
    BY <1>2
  <2>2. Max({d, 0}) \in {d, 0}
    BY <2>1 DEF Max
  <2> QED
    BY <2>2
<1>4. Max({d, 0}) >= n
  BY <1>2 DEF FreeBytes
<1> QED
  BY <1>2, <1>3, <1>4

(* A slot more in the directory, which has room for it.                    *)
LEMMA AppendSlotKeeps ==
    ASSUME NEW Byte, NEW page \in PageType(Byte), PageSound(page), NEW more,
           more = [page EXCEPT !.slots = Append(@, Tombstone)],
           page.start - DirectoryEnd(page) >= SlotLen
    PROVE  /\ more \in PageType(Byte)
           /\ PageSound(more)
           /\ more.start = page.start
           /\ DirectoryEnd(more) = DirectoryEnd(page) + SlotLen
           /\ DOMAIN more.slots = 1 .. Len(page.slots) + 1
           /\ LiveSlots(more) = LiveSlots(page)
           /\ \A t \in LiveSlots(page) : GetCell(more, t) = GetCell(page, t)
<1> DEFINE S == [at : Nat, len : Nat]
<1>1. /\ page.slots \in Seq(S) /\ page.start \in Nat
      /\ page.bytes \in [0 .. PageSize - 1 -> Byte] /\ Tombstone \in S /\ Tombstone.len = 0
  BY DEF PageType, Tombstone, Slot
<1>2. /\ more.bytes = page.bytes /\ more.start = page.start
      /\ more.slots = Append(page.slots, Tombstone)
      /\ more = [bytes |-> more.bytes, slots |-> more.slots, start |-> more.start]
  BY DEF PageType
<1>3. /\ more.slots \in Seq(S) /\ Len(more.slots) = Len(page.slots) + 1
      /\ \A t \in 1 .. Len(page.slots) : more.slots[t] = page.slots[t]
      /\ more.slots[Len(page.slots) + 1] = Tombstone
      /\ DOMAIN more.slots = 1 .. Len(page.slots) + 1
      /\ DOMAIN page.slots = 1 .. Len(page.slots) /\ Len(page.slots) \in Nat
  <2> HIDE DEF S
  <2>1. PICK e, q : e = Tombstone /\ q = page.slots
    OBVIOUS
  <2>2. e \in S /\ q \in Seq(S)
    BY <1>1, <2>1
  <2>3. /\ Append(q, e) \in Seq(S) /\ Len(Append(q, e)) = Len(q) + 1
        /\ \A i \in 1 .. Len(q) : Append(q, e)[i] = q[i]
        /\ Append(q, e)[Len(q) + 1] = e
    BY <2>2, AppendProperties
  <2>4. DOMAIN Append(q, e) = 1 .. Len(q) + 1 /\ DOMAIN q = 1 .. Len(q) /\ Len(q) \in Nat
    BY <2>2, <2>3, LenProperties
  <2> QED
    BY <1>2, <2>1, <2>3, <2>4
<1>4. more \in PageType(Byte)
  BY <1>1, <1>2, <1>3 DEF PageType
<1>5. DirectoryEnd(more) = DirectoryEnd(page) + SlotLen
  <2>1. ASSUME NEW k \in Nat, NEW l \in Nat PROVE (k + 1) * l = k * l + l
    OBVIOUS
  <2>2. PICK k : k = Len(page.slots) /\ k \in Nat
    BY <1>3
  <2>3. (k + 1) * SlotLen = k * SlotLen + SlotLen
    BY <2>1, <2>2, SlottedAssumption
  <2>4. k * SlotLen \in Nat
    <3>1. ASSUME NEW a \in Nat, NEW b \in Nat PROVE a * b \in Nat
      OBVIOUS
    <3> QED
      BY <2>2, <3>1, SlottedAssumption
  <2> QED
    BY <1>3, <2>2, <2>3, <2>4, SlottedAssumption, SMTT(30) DEF DirectoryEnd
<1>6. LiveSlots(more) = LiveSlots(page)
  BY <1>1, <1>3 DEF LiveSlots
<1>7. \A t \in LiveSlots(page) : more.slots[t] = page.slots[t]
  BY <1>3 DEF LiveSlots
<1>8. CheckLayout(more)
  <2>1. DirectoryEnd(page) \in Nat
    BY DirectoryEnds
  <2>2. page.start >= DirectoryEnd(more)
    BY <1>1, <1>5, <2>1, SlottedAssumption
  <2> QED
    BY <1>2, <1>6, <1>7, <2>2 DEF CheckLayout, PageSound
<1>9. \A t, u \in LiveSlots(more) :
         t # u => BytesOf(more, t) \intersect BytesOf(more, u) = {}
  BY <1>6, <1>7 DEF PageSound, BytesOf
<1>10. \A i \in DirectoryEnd(more) .. more.start - 1 : more.bytes[i] = Zero
  <2>1. DirectoryEnd(page) \in Nat
    BY DirectoryEnds
  <2>2. \A i \in DirectoryEnd(more) .. page.start - 1 : i \in DirectoryEnd(page) .. page.start - 1
    BY <1>1, <1>5, <2>1, SlottedAssumption
  <2> QED
    BY <1>2, <2>2 DEF PageSound
<1>11. \A t \in LiveSlots(page) : GetCell(more, t) = GetCell(page, t)
  BY <1>2, <1>7 DEF GetCell
<1> QED
  BY <1>2, <1>3, <1>4, <1>5, <1>6, <1>8, <1>9, <1>10, <1>11 DEF PageSound

(* `insert_cell`, where it has room: a sound page with the new cell in a   *)
(* slot of its own, and every other cell as it was.                        *)
THEOREM InsertCellKeeps ==
    ASSUME NEW Byte, NEW page \in PageType(Byte), PageSound(page),
           NEW data \in Seq(Byte), data # <<>>, HasRoomFor(page, Len(data)),
           NEW put, put = InsertCell(page, data)
    PROVE  /\ put.page \in PageType(Byte)
           /\ PageSound(put.page)
           /\ put.slot \notin LiveSlots(page) /\ put.slot \in LiveSlots(put.page)
           /\ GetCell(put.page, put.slot) = data
           /\ OthersKept(page, put.page, put.slot)
<1>1. Len(data) \in Nat \ {0} /\ SlotLen \in Nat \ {0} /\ SlotLen + Len(data) \in Nat \ {0}
  BY SlottedAssumption
<1>2. page.start - DirectoryEnd(page) >= SlotLen + Len(data)
  BY <1>1, EnoughFree DEF HasRoomFor, SpaceNeeded
<1>3. page.start \in Nat /\ DirectoryEnd(page) \in Nat
  BY DirectoryEnds DEF PageType
<1>4. PICK more, s : /\ more = [page EXCEPT !.slots = Append(@, Tombstone)]
                     /\ s = Len(page.slots) + 1
  OBVIOUS
<1>5. page.start - DirectoryEnd(page) >= SlotLen
  BY <1>1, <1>2, <1>3
<1>6. /\ more \in PageType(Byte)
      /\ PageSound(more)
      /\ more.start = page.start
      /\ DirectoryEnd(more) = DirectoryEnd(page) + SlotLen
      /\ DOMAIN more.slots = 1 .. Len(page.slots) + 1
      /\ LiveSlots(more) = LiveSlots(page)
      /\ \A t \in LiveSlots(page) : GetCell(more, t) = GetCell(page, t)
  BY <1>4, <1>5, AppendSlotKeeps
<1>7. Len(page.slots) \in Nat /\ s \in DOMAIN more.slots
  <2>1. Len(page.slots) \in Nat
    BY DirectoryEnds
  <2> QED
    BY <1>4, <1>6, <2>1
<1>8. more.start - Len(data) >= DirectoryEnd(more)
  BY <1>1, <1>2, <1>3, <1>6
<1>9. PICK after : after = PlaceCell(more, s, data)
  OBVIOUS
<1>10. /\ PlaceCell(more, s, data) \in PageType(Byte)
       /\ PageSound(PlaceCell(more, s, data))
       /\ s \in LiveSlots(PlaceCell(more, s, data))
       /\ GetCell(PlaceCell(more, s, data), s) = data
       /\ OthersKept(more, PlaceCell(more, s, data), s)
  BY <1>6, <1>7, <1>8, PlaceCellKeeps
<1>11. put.page = after /\ put.slot = s
  BY <1>4, <1>9 DEF InsertCell
<1>12. s \notin LiveSlots(page)
  <2>1. \A t \in LiveSlots(page) : t \in 1 .. Len(page.slots)
    BY LiveCells
  <2> QED
    BY <1>4, <1>7, <2>1
<1>13. OthersKept(page, after, s)
  BY <1>6, <1>9, <1>10 DEF OthersKept
<1> QED
  BY <1>9, <1>10, <1>11, <1>12, <1>13

(* `delete_cell`: the other cells stay.                                    *)
THEOREM DeleteCellKeeps ==
    ASSUME NEW Byte, NEW page \in PageType(Byte), PageSound(page),
           NEW s \in LiveSlots(page), NEW after, after = DeleteCell(page, s)
    PROVE  /\ after \in PageType(Byte)
           /\ PageSound(after)
           /\ LiveSlots(after) = LiveSlots(page) \ {s}
           /\ OthersKept(page, after, s)
<1> DEFINE S == [at : Nat, len : Nat]
<1>1. /\ page.slots \in Seq(S) /\ page.start \in Nat /\ Tombstone \in S /\ Tombstone.len = 0
      /\ page.bytes \in [0 .. PageSize - 1 -> Byte]
  BY DEF PageType, Tombstone, Slot
<1>2. s \in DOMAIN page.slots /\ s \in 1 .. Len(page.slots)
  BY LiveCells
<1>3. /\ after.bytes = page.bytes /\ after.start = page.start
      /\ after.slots = [page.slots EXCEPT ![s] = Tombstone]
      /\ after = [bytes |-> after.bytes, slots |-> after.slots, start |-> after.start]
  BY DEF PageType, DeleteCell
<1>4. /\ after.slots \in Seq(S) /\ Len(after.slots) = Len(page.slots)
  <2> HIDE DEF S
  <2>1. PICK q, e : q = page.slots /\ e = Tombstone
    OBVIOUS
  <2>2. q \in Seq(S) /\ e \in S /\ s \in 1 .. Len(q)
    BY <1>1, <1>2, <2>1
  <2>3. [q EXCEPT ![s] = e] \in Seq(S) /\ Len([q EXCEPT ![s] = e]) = Len(q)
    BY <2>2, ExceptSeq
  <2> QED
    BY <1>3, <2>1, <2>3
<1>5. /\ DOMAIN after.slots = DOMAIN page.slots /\ after.slots[s] = Tombstone
      /\ \A t \in DOMAIN page.slots \ {s} : after.slots[t] = page.slots[t]
  BY <1>1, <1>2, <1>3
<1>6. after \in PageType(Byte)
  BY <1>1, <1>3, <1>4 DEF PageType
<1>7. LiveSlots(after) = LiveSlots(page) \ {s}
  BY <1>1, <1>5 DEF LiveSlots
<1>8. \A t \in LiveSlots(after) : t \in LiveSlots(page) /\ after.slots[t] = page.slots[t]
  BY <1>5, <1>7 DEF LiveSlots
<1>9. DirectoryEnd(after) = DirectoryEnd(page)
  BY <1>4 DEF DirectoryEnd
<1>10. PageSound(after)
  <2>1. CheckLayout(after)
    BY <1>3, <1>8, <1>9 DEF CheckLayout, PageSound
  <2>2. \A t, u \in LiveSlots(after) :
           t # u => BytesOf(after, t) \intersect BytesOf(after, u) = {}
    BY <1>8 DEF PageSound, BytesOf
  <2>3. \A i \in DirectoryEnd(after) .. after.start - 1 : after.bytes[i] = Zero
    BY <1>3, <1>9 DEF PageSound
  <2> QED
    BY <2>1, <2>2, <2>3 DEF PageSound
<1>11. OthersKept(page, after, s)
  BY <1>3, <1>7, <1>8 DEF OthersKept, GetCell
<1> QED
  BY <1>6, <1>7, <1>10, <1>11

-----------------------------------------------------------------------------
(* A page is sound if its cells are where the layout has them.             *)
LEMMA SoundIfLaidOut ==
    ASSUME NEW Byte, NEW page \in PageType(Byte),
           page.start <= PageSize, page.start >= DirectoryEnd(page),
           \A t \in LiveSlots(page) : /\ page.slots[t].at >= page.start
                                      /\ page.slots[t].at + page.slots[t].len <= PageSize,
           \A t, u \in LiveSlots(page) : t # u =>
              \/ page.slots[t].at + page.slots[t].len <= page.slots[u].at
              \/ page.slots[u].at + page.slots[u].len <= page.slots[t].at,
           \A i \in DirectoryEnd(page) .. page.start - 1 : page.bytes[i] = Zero
    PROVE  PageSound(page)
<1>1. CheckLayout(page)
  BY DEF CheckLayout
<1>2. ASSUME NEW t \in LiveSlots(page), NEW u \in LiveSlots(page), t # u
      PROVE  BytesOf(page, t) \intersect BytesOf(page, u) = {}
  <2>1. \/ page.slots[t].at + page.slots[t].len <= page.slots[u].at
        \/ page.slots[u].at + page.slots[u].len <= page.slots[t].at
    BY <1>2
  <2> QED
    BY <2>1, CellsApart
<1> QED
  BY <1>1, <1>2 DEF PageSound

(* ... and where they are on a sound page, in one go.                      *)
LEMMA LaidOut ==
    ASSUME NEW Byte, NEW page \in PageType(Byte), PageSound(page)
    PROVE  /\ page.start \in Nat /\ page.start <= PageSize /\ PageSize \in Nat
           /\ DirectoryEnd(page) \in Nat /\ page.start >= DirectoryEnd(page)
           /\ page.bytes \in [0 .. PageSize - 1 -> Byte]
           /\ \A t \in LiveSlots(page) :
                 /\ t \in DOMAIN page.slots
                 /\ page.slots[t].at \in Nat /\ page.slots[t].len \in Nat \ {0}
                 /\ page.slots[t].at >= page.start
                 /\ page.slots[t].at + page.slots[t].len <= PageSize
           /\ \A t, u \in LiveSlots(page) : t # u =>
                 \/ page.slots[t].at + page.slots[t].len <= page.slots[u].at
                 \/ page.slots[u].at + page.slots[u].len <= page.slots[t].at
           /\ \A i \in DirectoryEnd(page) .. page.start - 1 : page.bytes[i] = Zero
<1>1. page.start \in Nat /\ page.bytes \in [0 .. PageSize - 1 -> Byte]
  BY DEF PageType
<1>2. DirectoryEnd(page) \in Nat /\ PageSize \in Nat
  BY DirectoryEnds, SlottedAssumption
<1>3. page.start <= PageSize /\ page.start >= DirectoryEnd(page)
  BY DEF PageSound, CheckLayout
<1>4. \A t \in LiveSlots(page) :
         /\ t \in DOMAIN page.slots
         /\ page.slots[t].at \in Nat /\ page.slots[t].len \in Nat \ {0}
         /\ page.slots[t].at >= page.start
         /\ page.slots[t].at + page.slots[t].len <= PageSize
  BY LiveCells DEF PageSound
<1>5. ASSUME NEW t \in LiveSlots(page), NEW u \in LiveSlots(page), t # u
      PROVE  \/ page.slots[t].at + page.slots[t].len <= page.slots[u].at
             \/ page.slots[u].at + page.slots[u].len <= page.slots[t].at
  <2>1. BytesOf(page, t) \intersect BytesOf(page, u) = {}
    BY <1>5 DEF PageSound
  <2> QED
    BY <2>1, CellsApart
<1>6. \A i \in DirectoryEnd(page) .. page.start - 1 : page.bytes[i] = Zero
  BY DEF PageSound
<1> QED
  BY <1>1, <1>2, <1>3, <1>4, <1>5, <1>6

(* `update_cell` with a cell no longer than the one there.                 *)
LEMMA ShrinkKeeps ==
    ASSUME NEW Byte, NEW page \in PageType(Byte), PageSound(page),
           NEW s \in LiveSlots(page), NEW data \in Seq(Byte), data # <<>>,
           Len(data) <= page.slots[s].len, NEW after,
           after = [page EXCEPT !.bytes = Written(@, page.slots[s].at, data),
                                !.slots[s].len = Len(data)]
    PROVE  /\ after \in PageType(Byte)
           /\ PageSound(after)
           /\ s \in LiveSlots(after) /\ GetCell(after, s) = data
           /\ OthersKept(page, after, s)
<1> DEFINE S == [at : Nat, len : Nat]
<1>1. /\ page.start \in Nat /\ page.start <= PageSize /\ PageSize \in Nat
      /\ DirectoryEnd(page) \in Nat /\ page.start >= DirectoryEnd(page)
      /\ page.bytes \in [0 .. PageSize - 1 -> Byte]
      /\ \A t \in LiveSlots(page) :
            /\ t \in DOMAIN page.slots
            /\ page.slots[t].at \in Nat /\ page.slots[t].len \in Nat \ {0}
            /\ page.slots[t].at >= page.start
            /\ page.slots[t].at + page.slots[t].len <= PageSize
      /\ \A t, u \in LiveSlots(page) : t # u =>
            \/ page.slots[t].at + page.slots[t].len <= page.slots[u].at
            \/ page.slots[u].at + page.slots[u].len <= page.slots[t].at
      /\ \A i \in DirectoryEnd(page) .. page.start - 1 : page.bytes[i] = Zero
  BY LaidOut
<1>20. PageSize \in Nat /\ page.start \in Nat
  BY <1>1
<1>2. PICK n, a, l, bytes : /\ n = Len(data) /\ a = page.slots[s].at /\ l = page.slots[s].len
                            /\ bytes = page.bytes
  OBVIOUS
<1>3. /\ n \in Nat \ {0} /\ a \in Nat /\ l \in Nat /\ n <= l
      /\ a >= page.start /\ a + l <= PageSize
  BY <1>1, <1>2
<1>4. /\ Written(bytes, a, data) \in [0 .. PageSize - 1 -> Byte]
      /\ IsWritten(bytes, a, data, Written(bytes, a, data))
  <2>1. bytes \in [0 .. PageSize - 1 -> Byte]
    BY <1>1, <1>2
  <2>2. a + Len(data) <= PageSize /\ a \in Nat
    BY <1>2, <1>3, <1>20
  <2> QED
    BY <2>1, <2>2, WrittenRight
<1>5. PICK e : e = [at |-> a, len |-> n]
  OBVIOUS
<1>6. page.slots \in Seq(S) /\ s \in DOMAIN page.slots /\ e \in S
  BY <1>1, <1>3, <1>5 DEF PageType
<1>7. page.slots[s] = [at |-> a, len |-> l]
  <2>1. page.slots[s] \in S
    <3> HIDE DEF S
    <3> QED
      BY <1>6, LenProperties
  <2> QED
    BY <1>2, <2>1
<1>8. /\ after.bytes = Written(bytes, a, data) /\ after.start = page.start
      /\ after.slots = [page.slots EXCEPT ![s] = e]
      /\ after = [bytes |-> after.bytes, slots |-> after.slots, start |-> after.start]
  <2>1. [page.slots[s] EXCEPT !.len = n] = e
    BY <1>5, <1>7
  <2>2. after.slots = [page.slots EXCEPT ![s].len = n]
    BY <1>2 DEF PageType
  <2>3. after.slots = [page.slots EXCEPT ![s] = e]
    BY <2>1, <2>2
  <2> QED
    BY <1>2, <2>3 DEF PageType
<1>9. after.slots \in Seq(S) /\ Len(after.slots) = Len(page.slots)
      /\ DOMAIN after.slots = DOMAIN page.slots /\ after.slots[s] = e
      /\ \A t \in DOMAIN page.slots \ {s} : after.slots[t] = page.slots[t]
  <2> HIDE DEF S
  <2>1. PICK q : q = page.slots
    OBVIOUS
  <2>2. q \in Seq(S) /\ s \in 1 .. Len(q) /\ DOMAIN q = 1 .. Len(q)
    BY <1>6, <2>1, LenProperties
  <2>3. [q EXCEPT ![s] = e] \in Seq(S) /\ Len([q EXCEPT ![s] = e]) = Len(q)
    BY <1>6, <2>2, ExceptSeq
  <2>4. /\ DOMAIN [q EXCEPT ![s] = e] = DOMAIN q /\ [q EXCEPT ![s] = e][s] = e
        /\ \A t \in DOMAIN q \ {s} : [q EXCEPT ![s] = e][t] = q[t]
    BY <2>2
  <2> QED
    BY <1>8, <2>1, <2>3, <2>4
<1>10. after \in PageType(Byte)
  BY <1>1, <1>4, <1>8, <1>9 DEF PageType
<1>11. LiveSlots(after) = LiveSlots(page) /\ DirectoryEnd(after) = DirectoryEnd(page)
  <2>1. e.len # 0
    BY <1>3, <1>5
  <2> QED
    BY <1>9, <2>1 DEF LiveSlots, DirectoryEnd
<1>12. ASSUME NEW t \in LiveSlots(page)
       PROVE  /\ after.slots[t].at = page.slots[t].at
              /\ after.slots[t].len \in Nat /\ after.slots[t].len <= page.slots[t].len
              /\ t # s => after.slots[t] = page.slots[t]
  <2>1. CASE t = s
    BY <1>2, <1>3, <1>5, <1>9, <2>1
  <2>2. CASE t # s
    <3>1. t \in DOMAIN page.slots /\ page.slots[t].len \in Nat
      BY <1>1
    <3>2. after.slots[t] = page.slots[t]
      BY <1>9, <2>2, <3>1, Zenon
    <3>3. page.slots[t].len <= page.slots[t].len
      BY <3>1
    <3> QED
      BY <3>1, <3>2, <3>3, Zenon
  <2> QED
    BY <2>1, <2>2
<1>13. \A i \in 0 .. PageSize - 1 :
          /\ a <= i /\ i < a + n => after.bytes[i] = data[i - a + 1]
          /\ ~(a <= i /\ i < a + n) => after.bytes[i] = page.bytes[i]
  BY <1>2, <1>4, <1>8 DEF IsWritten
<1>14. PageSound(after)
  <2>1. after.start <= PageSize /\ after.start >= DirectoryEnd(after)
    BY <1>1, <1>8, <1>11
  <2>2. \A t \in LiveSlots(after) : /\ after.slots[t].at >= after.start
                                    /\ after.slots[t].at + after.slots[t].len <= PageSize
    BY <1>1, <1>8, <1>11, <1>12, SMTT(30)
  <2>3. ASSUME NEW t \in LiveSlots(after), NEW u \in LiveSlots(after), t # u
        PROVE  \/ after.slots[t].at + after.slots[t].len <= after.slots[u].at
               \/ after.slots[u].at + after.slots[u].len <= after.slots[t].at
    <3>1. t \in LiveSlots(page) /\ u \in LiveSlots(page)
      BY <1>11
    <3>2. \/ page.slots[t].at + page.slots[t].len <= page.slots[u].at
          \/ page.slots[u].at + page.slots[u].len <= page.slots[t].at
      BY <1>1, <2>3, <3>1
    <3>3. /\ page.slots[t].at \in Nat /\ page.slots[t].len \in Nat
          /\ page.slots[u].at \in Nat /\ page.slots[u].len \in Nat
      BY <1>1, <3>1
    <3>4. /\ after.slots[t].at = page.slots[t].at /\ after.slots[t].len \in Nat
          /\ after.slots[t].len <= page.slots[t].len
          /\ after.slots[u].at = page.slots[u].at /\ after.slots[u].len \in Nat
          /\ after.slots[u].len <= page.slots[u].len
      BY <1>12, <3>1
    <3> QED
      BY <3>2, <3>3, <3>4, SMTT(30)
  <2>4. ASSUME NEW i \in DirectoryEnd(after) .. after.start - 1 PROVE after.bytes[i] = Zero
    <3>1. DirectoryEnd(page) \in Nat /\ page.start <= PageSize
      BY <1>1
    <3>2. i \in DirectoryEnd(page) .. page.start - 1 /\ i \in 0 .. PageSize - 1 /\ ~(a <= i)
      BY <1>3, <1>8, <1>11, <1>20, <3>1, SMTT(30)
    <3>3. page.bytes[i] = Zero
      BY <1>1, <3>2
    <3> QED
      BY <1>13, <3>2, <3>3
  <2> QED
    BY <1>10, <2>1, <2>2, <2>3, <2>4, SoundIfLaidOut
<1>15. GetCell(after, s) = data
  <2>1. GetCell(after, s) = [i \in 1 .. n |-> after.bytes[a + i - 1]]
    <3>2. e.at = a /\ e.len = n
      BY <1>5
    <3>1. after.slots[s].at = a /\ after.slots[s].len = n
      BY <1>9, <3>2
    <3> QED
      BY <3>1 DEF GetCell
  <2>2. ASSUME NEW i \in 1 .. n PROVE after.bytes[a + i - 1] = data[i]
    <3>1. /\ a + i - 1 \in 0 .. PageSize - 1 /\ a <= a + i - 1 /\ a + i - 1 < a + n
          /\ (a + i - 1) - a + 1 = i
      BY <1>1, <1>3, SMTT(30)
    <3> QED
      BY <1>13, <3>1
  <2>3. data = [i \in 1 .. n |-> data[i]]
    BY <1>2
  <2> QED
    BY <2>1, <2>2, <2>3
<1>16. ASSUME NEW t \in LiveSlots(page), t # s
       PROVE  t \in LiveSlots(after) /\ GetCell(after, t) = GetCell(page, t)
  <2>1. PICK b, m : b = page.slots[t].at /\ m = page.slots[t].len
    OBVIOUS
  <2>2. /\ b \in Nat /\ m \in Nat /\ b + m <= PageSize
        /\ b + m <= a \/ a + l <= b
    BY <1>1, <1>2, <1>16, <2>1
  <2>3. ASSUME NEW i \in 1 .. m PROVE after.bytes[b + i - 1] = page.bytes[b + i - 1]
    <3>1. PICK j : j = b + i - 1
      OBVIOUS
    <3>2. j \in 0 .. PageSize - 1
      BY <1>20, <2>2, <3>1
    <3>3. CASE b + m <= a
      <4>1. ~(a <= j)
        BY <1>3, <2>2, <3>1, <3>3
      <4> QED
        BY <1>13, <3>1, <3>2, <4>1
    <3>4. CASE a + l <= b
      <4>1. ~(j < a + n)
        BY <1>3, <2>2, <3>1, <3>4
      <4> QED
        BY <1>13, <3>1, <3>2, <4>1
    <3> QED
      BY <2>2, <3>3, <3>4
  <2>4. after.slots[t] = page.slots[t] /\ t \in LiveSlots(after)
    BY <1>11, <1>12, <1>16
  <2> QED
    BY <2>1, <2>3, <2>4 DEF GetCell
<1> QED
  BY <1>10, <1>11, <1>14, <1>15, <1>16 DEF OthersKept

(* `grow_cell`: the cells below move down, out of the way of the new one.  *)
LEMMA GrowKeeps ==
    ASSUME NEW Byte, NEW page \in PageType(Byte), PageSound(page),
           NEW s \in LiveSlots(page), NEW data \in Seq(Byte),
           Len(data) > page.slots[s].len,
           page.start - DirectoryEnd(page) >= Len(data) - page.slots[s].len,
           NEW after, after = GrowCell(page, s, data)
    PROVE  /\ after \in PageType(Byte)
           /\ PageSound(after)
           /\ s \in LiveSlots(after) /\ GetCell(after, s) = data
           /\ OthersKept(page, after, s)
<1> DEFINE S == [at : Nat, len : Nat]
<1>1. /\ page.start \in Nat /\ page.start <= PageSize /\ PageSize \in Nat
      /\ DirectoryEnd(page) \in Nat /\ page.start >= DirectoryEnd(page)
      /\ page.bytes \in [0 .. PageSize - 1 -> Byte]
      /\ \A t \in LiveSlots(page) :
            /\ t \in DOMAIN page.slots
            /\ page.slots[t].at \in Nat /\ page.slots[t].len \in Nat \ {0}
            /\ page.slots[t].at >= page.start
            /\ page.slots[t].at + page.slots[t].len <= PageSize
      /\ \A t, u \in LiveSlots(page) : t # u =>
            \/ page.slots[t].at + page.slots[t].len <= page.slots[u].at
            \/ page.slots[u].at + page.slots[u].len <= page.slots[t].at
      /\ \A i \in DirectoryEnd(page) .. page.start - 1 : page.bytes[i] = Zero
  BY LaidOut
<1>2. PICK n, a, l, g, o, d, bytes :
         /\ n = Len(data) /\ a = page.slots[s].at /\ l = page.slots[s].len
         /\ g = n - l /\ o = page.start /\ d = DirectoryEnd(page) /\ bytes = page.bytes
  OBVIOUS
<1>3. /\ n \in Nat \ {0} /\ a \in Nat /\ l \in Nat \ {0} /\ g \in Nat \ {0} /\ n = l + g
      /\ o \in Nat /\ d \in Nat /\ PageSize \in Nat
      /\ d <= o - g /\ o <= a /\ a + l <= PageSize
      /\ o - g \in Nat /\ a - g \in Nat /\ a - o \in Nat
  <2>1. n \in Nat /\ l \in Nat \ {0} /\ a \in Nat /\ o \in Nat /\ d \in Nat /\ n > l
    BY <1>1, <1>2
  <2>2. g \in Nat \ {0} /\ n = l + g /\ n \in Nat \ {0}
    <3>1. g = n - l
      BY <1>2
    <3> QED
      BY <2>1, <3>1
  <2>3. o - d >= g /\ o <= a /\ a + l <= PageSize /\ PageSize \in Nat
    BY <1>1, <1>2
  <2> QED
    BY <2>1, <2>2, <2>3
<1>4. PICK mid : mid = CopyWithin(bytes, o, a - o, o - g)
  OBVIOUS
<1>5. /\ mid \in [0 .. PageSize - 1 -> Byte]
      /\ IsCopied(bytes, o, a - o, o - g, mid)
  <2>1. bytes \in [0 .. PageSize - 1 -> Byte]
    BY <1>1, <1>2
  <2>2. PICK k, to : k = a - o /\ to = o - g
    OBVIOUS
  <2>3. k \in Nat /\ to \in Nat /\ o \in Nat /\ o + k <= PageSize /\ to + k <= PageSize
    BY <1>3, <2>2
  <2>4. /\ CopyWithin(bytes, o, k, to) \in [0 .. PageSize - 1 -> Byte]
        /\ IsCopied(bytes, o, k, to, CopyWithin(bytes, o, k, to))
    BY <2>1, <2>3, CopyRight
  <2> QED
    BY <1>4, <2>2, <2>4
<1>6. PICK c : c = a - g
  OBVIOUS
<1>7. c \in Nat /\ c + n = a + l /\ c + g = a
  BY <1>3, <1>6
<1>8. /\ Written(mid, c, data) \in [0 .. PageSize - 1 -> Byte]
      /\ IsWritten(mid, c, data, Written(mid, c, data))
  <2>1. c \in Nat /\ c + Len(data) <= PageSize
    BY <1>2, <1>3, <1>7
  <2> QED
    BY <1>5, <2>1, WrittenRight
<1>9. /\ after.bytes = Written(mid, c, data) /\ after.start = o - g
      /\ after.slots = [t \in DOMAIN page.slots |->
            IF t = s THEN [at |-> c, len |-> n]
            ELSE IF t \in {u \in LiveSlots(page) : page.slots[u].at \in o .. a - 1}
            THEN [at |-> page.slots[t].at - g, len |-> page.slots[t].len]
            ELSE page.slots[t]]
      /\ after = [bytes |-> after.bytes, slots |-> after.slots, start |-> after.start]
  BY <1>2, <1>4, <1>6 DEF GrowCell, Slot
<1>10. ASSUME NEW i \in 0 .. PageSize - 1
       PROVE  /\ c <= i /\ i < a + l => after.bytes[i] = data[i - c + 1]
              /\ o - g <= i /\ i < c => after.bytes[i] = page.bytes[i + g]
              /\ i < o - g \/ a + l <= i => after.bytes[i] = page.bytes[i]
  <2>1. /\ c <= i /\ i < c + n => after.bytes[i] = data[i - c + 1]
        /\ ~(c <= i /\ i < c + n) => after.bytes[i] = mid[i]
    BY <1>2, <1>8, <1>9 DEF IsWritten
  <2>2. /\ o - g <= i /\ i < o - g + (a - o) => mid[i] = bytes[o + i - (o - g)]
        /\ ~(o - g <= i /\ i < o - g + (a - o)) => mid[i] = bytes[i]
    BY <1>5 DEF IsCopied
  <2>3. o - g + (a - o) = c /\ o + i - (o - g) = i + g
    BY <1>3, <1>6
  <2>4. ASSUME c <= i, i < a + l PROVE after.bytes[i] = data[i - c + 1]
    <3>1. i < c + n
      BY <1>7, <2>4
    <3> QED
      BY <2>1, <2>4, <3>1
  <2>5. ASSUME o - g <= i, i < c PROVE after.bytes[i] = page.bytes[i + g]
    <3>1. ~(c <= i)
      BY <1>7, <2>5
    <3> QED
      BY <1>2, <2>1, <2>2, <2>3, <2>5, <3>1
  <2>6. ASSUME i < o - g \/ a + l <= i PROVE after.bytes[i] = page.bytes[i]
    <3>1. ~(c <= i /\ i < c + n)
      BY <1>3, <1>7, <2>6
    <3>2. ~(o - g <= i /\ i < c)
      BY <1>3, <1>7, <2>6
    <3> QED
      BY <1>2, <2>1, <2>2, <2>3, <3>1, <3>2
  <2> QED
    BY <2>4, <2>5, <2>6
<1>11. DOMAIN after.slots = DOMAIN page.slots /\ after.slots[s].at = c /\ after.slots[s].len = n
  <2>1. s \in DOMAIN page.slots
    BY <1>1
  <2> QED
    BY <1>9, <2>1
<1>12. ASSUME NEW t \in LiveSlots(page), t # s
       PROVE  /\ after.slots[t].len = page.slots[t].len
              /\ \/ /\ page.slots[t].at + page.slots[t].len <= a
                    /\ after.slots[t].at = page.slots[t].at - g
                 \/ /\ a + l <= page.slots[t].at
                    /\ after.slots[t].at = page.slots[t].at
  <2>1. PICK b, m : b = page.slots[t].at /\ m = page.slots[t].len
    OBVIOUS
  <2>2. /\ t \in DOMAIN page.slots /\ b \in Nat /\ m \in Nat \ {0} /\ o <= b
        /\ b + m <= a \/ a + l <= b
    BY <1>1, <1>2, <1>12, <2>1
  <2>3. CASE b + m <= a
    <3>1. b \in o .. a - 1
      BY <1>3, <2>2, <2>3
    <3>2. after.slots[t] = [at |-> page.slots[t].at - g, len |-> page.slots[t].len]
      BY <1>9, <1>12, <2>1, <2>2, <3>1
    <3> QED
      BY <2>1, <2>3, <3>2
  <2>4. CASE a + l <= b
    <3>1. b \notin o .. a - 1
      BY <1>3, <2>2, <2>4
    <3>2. after.slots[t] = page.slots[t]
      BY <1>9, <1>12, <2>1, <2>2, <3>1
    <3> QED
      BY <2>1, <2>4, <3>2
  <2> QED
    BY <2>2, <2>3, <2>4
<1>13. /\ page.slots \in Seq(S) /\ Len(page.slots) \in Nat
       /\ DOMAIN page.slots = 1 .. Len(page.slots)
       /\ \A t \in DOMAIN page.slots : page.slots[t] \in S
  <2>1. page.slots \in Seq(S)
    BY DEF PageType
  <2> HIDE DEF S
  <2> QED
    BY <2>1, LenProperties
<1>14. after.slots \in Seq(S) /\ Len(after.slots) = Len(page.slots)
  <2>1. ASSUME NEW t \in DOMAIN page.slots PROVE after.slots[t] \in S
    <3>1. CASE t = s
      <4>1. after.slots[t] = [at |-> c, len |-> n]
        BY <1>9, <3>1
      <4> QED
        BY <1>3, <1>7, <4>1
    <3>2. CASE t # s /\ t \in LiveSlots(page) /\ page.slots[t].at \in o .. a - 1
      <4>1. after.slots[t] = [at |-> page.slots[t].at - g, len |-> page.slots[t].len]
        BY <1>9, <3>2
      <4>2. PICK b : b = page.slots[t].at
        OBVIOUS
      <4>3. b \in Nat /\ o <= b /\ page.slots[t].len \in Nat
        BY <1>1, <1>2, <3>2, <4>2
      <4>4. b - g \in Nat
        BY <1>3, <4>3, SMTT(30)
      <4> QED
        BY <4>1, <4>2, <4>3, <4>4
    <3>3. CASE t # s /\ ~(t \in LiveSlots(page) /\ page.slots[t].at \in o .. a - 1)
      <4>1. after.slots[t] = page.slots[t]
        BY <1>9, <3>3
      <4> QED
        BY <1>13, <4>1
    <3> QED
      BY <3>1, <3>2, <3>3
  <2>2. after.slots = [t \in 1 .. Len(page.slots) |-> after.slots[t]]
    BY <1>9, <1>13
  <2> HIDE DEF S
  <2>3. after.slots \in [1 .. Len(page.slots) -> S]
    BY <1>13, <2>1, <2>2
  <2> QED
    BY <1>13, <2>3, SeqDef, LenProperties, SMTT(30)
<1>15. after \in PageType(Byte)
  BY <1>3, <1>8, <1>9, <1>14 DEF PageType
<1>16. LiveSlots(after) = LiveSlots(page) /\ DirectoryEnd(after) = d
  <2>1. ASSUME NEW t \in DOMAIN page.slots
        PROVE  after.slots[t].len # 0 <=> page.slots[t].len # 0
    <3>1. CASE t = s
      BY <1>1, <1>3, <1>11, <3>1
    <3>2. CASE t # s /\ t \in LiveSlots(page)
      BY <1>12, <3>2
    <3>3. CASE t # s /\ t \notin LiveSlots(page)
      BY <1>9, <3>3
    <3> QED
      BY <3>1, <3>2, <3>3
  <2> QED
    BY <1>2, <1>11, <1>14, <2>1 DEF LiveSlots, DirectoryEnd
<1>17. ASSUME NEW t \in LiveSlots(after)
       PROVE  after.slots[t].at >= o - g /\ after.slots[t].at + after.slots[t].len <= PageSize
  <2>1. CASE t = s
    <3>1. c >= o - g /\ c + n <= PageSize
      BY <1>3, <1>7
    <3> QED
      BY <1>11, <2>1, <3>1
  <2>2. CASE t # s
    <3>1. PICK b, m, x : b = page.slots[t].at /\ m = page.slots[t].len /\ x = after.slots[t].at
      OBVIOUS
    <3>2. b \in Nat /\ m \in Nat /\ o <= b /\ b + m <= PageSize
      BY <1>1, <1>2, <1>16, <3>1
    <3>3. after.slots[t].len = m /\ (x = b - g \/ x = b)
      BY <1>12, <1>16, <2>2, <3>1
    <3>4. x >= o - g /\ x + m <= PageSize
      BY <1>3, <3>2, <3>3
    <3> QED
      BY <3>1, <3>3, <3>4
  <2> QED
    BY <2>1, <2>2
<1>18. ASSUME NEW t \in LiveSlots(page), t # s
       PROVE  \/ after.slots[t].at + after.slots[t].len <= c
              \/ c + n <= after.slots[t].at
  <2>1. PICK b, m, x : b = page.slots[t].at /\ m = page.slots[t].len /\ x = after.slots[t].at
    OBVIOUS
  <2>2. b \in Nat /\ m \in Nat
    BY <1>1, <2>1
  <2>3. after.slots[t].len = m /\ ((b + m <= a /\ x = b - g) \/ (a + l <= b /\ x = b))
    BY <1>12, <1>18, <2>1
  <2>4. x + m <= c \/ c + n <= x
    BY <1>3, <1>7, <2>2, <2>3
  <2> QED
    BY <2>1, <2>3, <2>4
<1>19. ASSUME NEW t \in LiveSlots(after), NEW u \in LiveSlots(after), t # u
       PROVE  \/ after.slots[t].at + after.slots[t].len <= after.slots[u].at
              \/ after.slots[u].at + after.slots[u].len <= after.slots[t].at
  <2>1. CASE t = s
    BY <1>11, <1>16, <1>18, <1>19, <2>1
  <2>2. CASE u = s
    BY <1>11, <1>16, <1>18, <1>19, <2>2
  <2>3. CASE t # s /\ u # s
    <3>1. PICK b, m, x, e, k, y :
             /\ b = page.slots[t].at /\ m = page.slots[t].len /\ x = after.slots[t].at
             /\ e = page.slots[u].at /\ k = page.slots[u].len /\ y = after.slots[u].at
      OBVIOUS
    <3>2. /\ b \in Nat /\ m \in Nat \ {0} /\ e \in Nat /\ k \in Nat \ {0}
          /\ b + m <= e \/ e + k <= b
      BY <1>1, <1>16, <1>19, <3>1
    <3>3. after.slots[t].len = m /\ ((b + m <= a /\ x = b - g) \/ (a + l <= b /\ x = b))
      BY <1>12, <1>16, <2>3, <3>1
    <3>4. after.slots[u].len = k /\ ((e + k <= a /\ y = e - g) \/ (a + l <= e /\ y = e))
      BY <1>12, <1>16, <2>3, <3>1
    <3>5. x + m <= y \/ y + k <= x
      BY <1>3, <3>2, <3>3, <3>4
    <3> QED
      BY <3>1, <3>3, <3>4, <3>5
  <2> QED
    BY <2>1, <2>2, <2>3
<1>20. PageSound(after)
  <2>1. after.start <= PageSize /\ after.start >= DirectoryEnd(after)
    BY <1>3, <1>9, <1>16, SMTT(30)
  <2>2. \A t \in LiveSlots(after) : /\ after.slots[t].at >= after.start
                                    /\ after.slots[t].at + after.slots[t].len <= PageSize
    BY <1>9, <1>17
  <2>3. ASSUME NEW i \in DirectoryEnd(after) .. after.start - 1 PROVE after.bytes[i] = Zero
    <3>1. i \in d .. o - 1 /\ i \in 0 .. PageSize - 1 /\ i < o - g
      BY <1>3, <1>9, <1>16, SMTT(30)
    <3>2. page.bytes[i] = Zero
      BY <1>1, <1>2, <3>1
    <3> QED
      BY <1>10, <3>1, <3>2
  <2> QED
    BY <1>15, <1>19, <2>1, <2>2, <2>3, SoundIfLaidOut
<1>21. GetCell(after, s) = data
  <2>1. GetCell(after, s) = [i \in 1 .. n |-> after.bytes[c + i - 1]]
    BY <1>11 DEF GetCell
  <2>2. ASSUME NEW i \in 1 .. n PROVE after.bytes[c + i - 1] = data[i]
    <3>1. /\ c + i - 1 \in 0 .. PageSize - 1 /\ c <= c + i - 1 /\ c + i - 1 < a + l
          /\ (c + i - 1) - c + 1 = i
      BY <1>3, <1>7
    <3> QED
      BY <1>10, <3>1
  <2>3. data = [i \in 1 .. n |-> data[i]]
    BY <1>2
  <2> QED
    BY <2>1, <2>2, <2>3
<1>22. ASSUME NEW t \in LiveSlots(page), t # s
       PROVE  t \in LiveSlots(after) /\ GetCell(after, t) = GetCell(page, t)
  <2>1. PICK b, m, x : b = page.slots[t].at /\ m = page.slots[t].len /\ x = after.slots[t].at
    OBVIOUS
  <2>2. b \in Nat /\ m \in Nat \ {0} /\ o <= b /\ b + m <= PageSize
    BY <1>1, <1>2, <2>1
  <2>3. after.slots[t].len = m /\ ((b + m <= a /\ x = b - g) \/ (a + l <= b /\ x = b))
    BY <1>12, <1>22, <2>1
  <2>4. ASSUME NEW i \in 1 .. m PROVE after.bytes[x + i - 1] = page.bytes[b + i - 1]
    <3>1. PICK j : j = x + i - 1
      OBVIOUS
    <3>2. CASE b + m <= a /\ x = b - g
      <4>1. j \in 0 .. PageSize - 1 /\ o - g <= j /\ j < c /\ j + g = b + i - 1
        BY <1>3, <1>7, <2>2, <3>1, <3>2
      <4> QED
        BY <1>10, <3>1, <4>1
    <3>3. CASE a + l <= b /\ x = b
      <4>1. j \in 0 .. PageSize - 1 /\ a + l <= j /\ j = b + i - 1
        BY <1>3, <2>2, <3>1, <3>3
      <4> QED
        BY <1>10, <3>1, <4>1
    <3> QED
      BY <2>3, <3>2, <3>3
  <2>5. /\ GetCell(after, t) = [i \in 1 .. m |-> after.bytes[x + i - 1]]
        /\ GetCell(page, t) = [i \in 1 .. m |-> page.bytes[b + i - 1]]
    BY <2>1, <2>3 DEF GetCell
  <2> QED
    BY <1>16, <2>4, <2>5
<1> QED
  BY <1>15, <1>16, <1>20, <1>21, <1>22 DEF OthersKept

(* `update_cell`, wherever it does without packing the page: in the place  *)
(* of the cell there, or grown into the free bytes.                        *)
LEMMA UpdateCellInPlace ==
    ASSUME NEW Byte, NEW page \in PageType(Byte), PageSound(page),
           NEW s \in LiveSlots(page), NEW data \in Seq(Byte), data # <<>>,
           \/ Len(data) <= page.slots[s].len
           \/ FreeBytes(page) >= Len(data) - page.slots[s].len,
           NEW after, after = UpdateCell(page, s, data)
    PROVE  /\ after \in PageType(Byte)
           /\ PageSound(after)
           /\ s \in LiveSlots(after) /\ GetCell(after, s) = data
           /\ OthersKept(page, after, s)
<1>1. Len(data) \in Nat /\ page.slots[s].len \in Nat
  BY LiveCells
<1>2. CASE Len(data) <= page.slots[s].len
  <2>1. after = [page EXCEPT !.bytes = Written(@, page.slots[s].at, data),
                             !.slots[s].len = Len(data)]
    BY <1>2 DEF UpdateCell
  <2> QED
    BY <1>2, <2>1, ShrinkKeeps
<1>3. CASE Len(data) > page.slots[s].len
  <2>1. PICK g : g = Len(data) - page.slots[s].len
    OBVIOUS
  <2>2. g \in Nat \ {0} /\ ~(Len(data) <= page.slots[s].len)
    BY <1>1, <1>3, <2>1
  <2>3. FreeBytes(page) >= g
    BY <2>1, <2>2
  <2>4. page.start - DirectoryEnd(page) >= g
    BY <2>2, <2>3, EnoughFree
  <2>5. after = GrowCell(page, s, data)
    BY <2>1, <2>2, <2>3 DEF UpdateCell
  <2> QED
    BY <1>3, <2>1, <2>4, <2>5, GrowKeeps
<1> QED
  BY <1>1, <1>2, <1>3

-----------------------------------------------------------------------------
(* The sum of lengths along the directory, step by step.                   *)
IsSum(f, n, h) ==
    /\ h \in [0 .. n -> Nat] /\ h[0] = 0
    /\ \A i \in 1 .. n : h[i] = h[i - 1] + f[i]

(* The definition of the sum, step by step.                                *)
LEMMA SumSteps ==
    ASSUME NEW n \in Nat, NEW f \in [1 .. n -> Nat]
    PROVE  \E h : IsSum(f, n, h) /\ SumTo(f, n) = h[n]
<1> DEFINE G == [p \in Nat \X (1 .. n) |-> p[1] + f[p[2]]]
           D(h) == [i \in 0 .. n |-> IF i = 0 THEN 0 ELSE h[i - 1] + f[i]]
           sum == CHOOSE h : h = D(h)
<1>1. G \in [Nat \X (1 .. n) -> Nat]
  OBVIOUS
<1>2. \A x \in Nat, i \in 1 .. n : G[<<x, i>>] = x + f[i]
  OBVIOUS
<1>3. PICK h : IsLoop(h, n, Nat, 0, G)
  <2> HIDE DEF G
  <2>1. 0 \in Nat
    OBVIOUS
  <2> QED
    BY <1>1, <2>1, LoopExists
<1>31. h \in [0 .. n -> Nat] /\ h[0] = 0 /\ \A i \in 1 .. n : h[i] = G[<<h[i - 1], i>>]
  <2> HIDE DEF G
  <2> QED
    BY <1>3 DEF IsLoop
<1>4. \A i \in 1 .. n : h[i] = h[i - 1] + f[i]
  <2> HIDE DEF G
  <2>1. \A i \in 1 .. n : i - 1 \in 0 .. n
    OBVIOUS
  <2> QED
    BY <1>2, <1>31, <2>1
<1>5. h = D(h)
  <2>1. \A i \in 0 .. n : i = 0 \/ i \in 1 .. n
    OBVIOUS
  <2>2. \A i \in 0 .. n : h[i] = D(h)[i]
    BY <1>31, <1>4, <2>1
  <2> QED
    BY <1>31, <2>2
<1>6. sum = D(sum)
  <2> HIDE DEF D
  <2> QED
    BY <1>5
<1>7. SumTo(f, n) = sum[n]
  BY DEF SumTo
<1>8. \A i \in 0 .. n : sum[i] = IF i = 0 THEN 0 ELSE sum[i - 1] + f[i]
  <2> HIDE DEF sum
  <2> QED
    BY <1>6
<1>9. \A k \in Nat : k <= n => sum[k] = h[k]
  <2> HIDE DEF sum
  <2> DEFINE T == {k \in Nat : k <= n => sum[k] = h[k]}
  <2>1. 0 \in T
    BY <1>31, <1>8
  <2>2. ASSUME NEW k \in Nat, k \in T PROVE k + 1 \in T
    <3> SUFFICES ASSUME k + 1 <= n PROVE sum[k + 1] = h[k + 1]
      OBVIOUS
    <3>1. sum[k] = h[k]
      BY <2>2
    <3>2. k + 1 \in 0 .. n /\ k + 1 \in 1 .. n /\ (k + 1) - 1 = k /\ k + 1 # 0
      OBVIOUS
    <3> QED
      BY <1>4, <1>8, <3>1, <3>2
  <2>3. Nat \subseteq T
    <3> HIDE DEF T
    <3> QED
      BY <2>1, <2>2, NatInd
  <2> QED
    BY <2>3
<1>10. SumTo(f, n) = h[n]
  <2> HIDE DEF sum
  <2> QED
    BY <1>7, <1>9
<1> QED
  BY <1>31, <1>4, <1>10 DEF IsSum

(* A sum of lengths is a number.                                           *)
LEMMA SumNat ==
    ASSUME NEW n \in Nat, NEW f \in [1 .. n -> Nat]
    PROVE  SumTo(f, n) \in Nat
<1>1. PICK h : IsSum(f, n, h) /\ SumTo(f, n) = h[n]
  BY SumSteps
<1> QED
  BY <1>1 DEF IsSum

(* Nothing adds up to nothing.                                             *)
LEMMA SumZero ==
    ASSUME NEW n \in Nat, NEW f \in [1 .. n -> Nat], \A i \in 1 .. n : f[i] = 0
    PROVE  SumTo(f, n) = 0
<1>1. PICK h : IsSum(f, n, h) /\ SumTo(f, n) = h[n]
  BY SumSteps
<1> DEFINE T == {k \in Nat : k <= n => h[k] = 0}
<1>2. 0 \in T
  BY <1>1 DEF IsSum
<1>3. ASSUME NEW k \in Nat, k \in T PROVE k + 1 \in T
  <2> SUFFICES ASSUME k + 1 <= n PROVE h[k + 1] = 0
    OBVIOUS
  <2>1. k + 1 \in 1 .. n /\ (k + 1) - 1 = k /\ h[k] = 0
    BY <1>3
  <2>2. h[k + 1] = h[k] + f[k + 1]
    BY <1>1, <2>1 DEF IsSum
  <2> QED
    BY <2>1, <2>2
<1>4. n \in T
  <2> HIDE DEF T
  <2> QED
    BY <1>2, <1>3, NatInd
<1> QED
  BY <1>1, <1>4

(* One length more by d.                                                   *)
MoreBy(f, g, n, t, d) ==
    g[t] = f[t] + d /\ \A i \in 1 .. n : i # t => g[i] = f[i]

(* ... makes the sum more by d.                                            *)
LEMMA SumPlus ==
    ASSUME NEW n \in Nat, NEW f \in [1 .. n -> Nat], NEW g \in [1 .. n -> Nat],
           NEW t \in 1 .. n, NEW d \in Nat, MoreBy(f, g, n, t, d)
    PROVE  SumTo(g, n) = SumTo(f, n) + d
<1> USE DEF MoreBy
<1>1. PICK h : IsSum(f, n, h) /\ SumTo(f, n) = h[n]
  BY SumSteps
<1>2. PICK k : IsSum(g, n, k) /\ SumTo(g, n) = k[n]
  BY SumSteps
<1> DEFINE T == {i \in Nat : i <= n => k[i] = h[i] + (IF i >= t THEN d ELSE 0)}
<1>3. 0 \in T
  BY <1>1, <1>2 DEF IsSum
<1>4. ASSUME NEW i \in Nat, i \in T PROVE i + 1 \in T
  <2> SUFFICES ASSUME i + 1 <= n
               PROVE  k[i + 1] = h[i + 1] + (IF i + 1 >= t THEN d ELSE 0)
    OBVIOUS
  <2>1. i + 1 \in 1 .. n /\ (i + 1) - 1 = i /\ i \in 0 .. n
        /\ k[i] = h[i] + (IF i >= t THEN d ELSE 0)
    BY <1>4
  <2>2. h[i + 1] = h[i] + f[i + 1] /\ h[i] \in Nat /\ f[i + 1] \in Nat
    BY <1>1, <2>1 DEF IsSum
  <2>3. k[i + 1] = k[i] + g[i + 1]
    BY <1>2, <2>1 DEF IsSum
  <2>4. PICK x, y, z : x = h[i] /\ y = f[i + 1] /\ z = g[i + 1]
    OBVIOUS
  <2>5. x \in Nat /\ y \in Nat /\ h[i + 1] = x + y
    BY <2>2, <2>4
  <2>6. k[i + 1] = (x + (IF i >= t THEN d ELSE 0)) + z
    BY <2>1, <2>3, <2>4
  <2>7. CASE i + 1 = t
    <3>1. z = y + d
      BY <2>4, <2>7
    <3>2. ~(i >= t) /\ i + 1 >= t
      BY <2>7
    <3> QED
      BY <2>5, <2>6, <3>1, <3>2
  <2>8. CASE i + 1 # t
    <3>1. z = y
      BY <2>1, <2>4, <2>8
    <3>2. PICK c : c = IF i >= t THEN d ELSE 0
      OBVIOUS
    <3>3. c \in Nat /\ c = IF i + 1 >= t THEN d ELSE 0
      BY <2>8, <3>2
    <3>4. k[i + 1] = (x + y) + c
      BY <2>5, <2>6, <3>1, <3>2, <3>3
    <3> QED
      BY <2>5, <3>3, <3>4
  <2> QED
    BY <2>7, <2>8
<1>5. n \in T
  <2> HIDE DEF T
  <2> QED
    BY <1>3, <1>4, NatInd
<1> QED
  BY <1>1, <1>2, <1>5

-----------------------------------------------------------------------------
(* A finite set in the order of a key, highest first.                      *)
Above(L, key, s) == {t \in L : key[t] > key[s]}

(* Some of a set have the highest key, if keys are bounded.                *)
LEMMA HighestOf ==
    ASSUME NEW L, NEW b \in Nat, NEW key \in [L -> 0 .. b], NEW M \in SUBSET L, M # {}
    PROVE  \E s \in M : \A t \in M : key[t] <= key[s]
<1> DEFINE T == {b - key[s] : s \in M}
<1>1. T \subseteq Nat /\ T # {}
  OBVIOUS
<1>2. PICK n \in T : \A m \in T : n <= m
  <2> HIDE DEF T
  <2> QED
    BY <1>1, NatMin
<1>3. PICK s \in M : n = b - key[s]
  OBVIOUS
<1>4. \A t \in M : b - key[s] <= b - key[t]
  BY <1>2, <1>3
<1>5. \A t \in M : key[t] <= key[s]
  BY <1>4
<1> QED
  BY <1>5

(* Those above one of a finite set can be counted.                         *)
LEMMA AboveFinite ==
    ASSUME NEW L, IsFiniteSet(L), NEW key, NEW s \in L
    PROVE  /\ IsFiniteSet(Above(L, key, s)) /\ Cardinality(Above(L, key, s)) \in Nat
           /\ Cardinality(L) \in Nat
<1>1. Above(L, key, s) \subseteq L
  BY DEF Above
<1> QED
  BY <1>1, FS_Subset, FS_CardinalityType

(* For each number up to the set's there is one with as many above it.     *)
LEMMA RankExists ==
    ASSUME NEW L, IsFiniteSet(L), NEW b \in Nat, NEW key \in [L -> 0 .. b],
           \A s, t \in L : s # t => key[s] # key[t],
           NEW i \in Nat, i < Cardinality(L)
    PROVE  \E s \in L : Cardinality(Above(L, key, s)) = i
<1> DEFINE T == {k \in Nat : k < Cardinality(L) =>
                               \E s \in L : Cardinality(Above(L, key, s)) = k}
<1>0. Cardinality(L) \in Nat
  BY FS_CardinalityType
<1>1. 0 \in T
  <2> SUFFICES ASSUME 0 < Cardinality(L) PROVE \E s \in L : Cardinality(Above(L, key, s)) = 0
    OBVIOUS
  <2>1. L # {}
    BY FS_EmptySet
  <2>2. PICK s \in L : \A t \in L : key[t] <= key[s]
    BY <2>1, HighestOf
  <2>3. Above(L, key, s) = {}
    BY <2>2 DEF Above
  <2> QED
    BY <2>3, FS_EmptySet
<1>2. ASSUME NEW k \in Nat, k \in T PROVE k + 1 \in T
  <2> SUFFICES ASSUME k + 1 < Cardinality(L)
               PROVE  \E s \in L : Cardinality(Above(L, key, s)) = k + 1
    OBVIOUS
  <2>1. PICK s \in L : Cardinality(Above(L, key, s)) = k
    <3>1. k < Cardinality(L)
      BY <1>0
    <3> QED
      BY <1>2, <3>1
  <2>2. PICK A : A = Above(L, key, s)
    OBVIOUS
  <2>3. IsFiniteSet(A) /\ Cardinality(A) = k /\ s \notin A
    BY <2>1, <2>2, AboveFinite DEF Above
  <2>4. Cardinality(A \cup {s}) = k + 1
    BY <2>3, FS_AddElement
  <2>5. PICK M : M = {t \in L : key[t] < key[s]}
    OBVIOUS
  <2>6. M # {}
    <3> SUFFICES ASSUME M = {} PROVE FALSE
      OBVIOUS
    <3>1. ASSUME NEW t \in L PROVE t \in A \cup {s}
      <4>1. key[t] \in Nat /\ key[s] \in Nat /\ ~(key[t] < key[s])
        BY <2>5
      <4>2. t = s \/ key[t] # key[s]
        OBVIOUS
      <4>3. t = s \/ key[t] > key[s]
        BY <4>1, <4>2
      <4> QED
        BY <2>2, <4>3 DEF Above
    <3>2. A \cup {s} = L
      BY <2>2, <3>1 DEF Above
    <3>3. Cardinality(L) = k + 1
      BY <2>4, <3>2, Zenon
    <3> QED
      BY <1>0, <3>3
  <2>7. PICK u \in M : \A t \in M : key[t] <= key[u]
    <3>1. M \in SUBSET L
      BY <2>5
    <3> QED
      BY <2>6, <3>1, HighestOf
  <2>8. u \in L /\ key[u] < key[s] /\ key[u] \in Nat /\ key[s] \in Nat
    BY <2>5
  <2>9. ASSUME NEW t \in L PROVE key[t] > key[u] <=> t \in A \cup {s}
    <3>1. key[t] \in Nat
      OBVIOUS
    <3>2. ASSUME key[t] > key[u] PROVE t \in A \cup {s}
      <4>1. ~(key[t] < key[s])
        BY <2>5, <2>7, <2>8, <3>1, <3>2
      <4>2. t = s \/ key[t] # key[s]
        OBVIOUS
      <4>3. t = s \/ key[t] > key[s]
        BY <2>8, <3>1, <4>1, <4>2
      <4> QED
        BY <2>2, <4>3 DEF Above
    <3>3. ASSUME t \in A \cup {s} PROVE key[t] > key[u]
      <4>1. t = s \/ key[t] > key[s]
        BY <2>2, <3>3 DEF Above
      <4> QED
        BY <2>8, <3>1, <4>1
    <3> QED
      BY <3>2, <3>3
  <2>10. Above(L, key, u) = A \cup {s}
    BY <2>2, <2>9 DEF Above
  <2> QED
    BY <2>4, <2>8, <2>10
<1>3. i \in T
  <2> HIDE DEF T
  <2> QED
    BY <1>1, <1>2, NatInd
<1> QED
  BY <1>3

(* The lower key has more above it.                                        *)
LEMMA RankFalls ==
    ASSUME NEW L, IsFiniteSet(L), NEW key \in [L -> Nat],
           NEW s \in L, NEW t \in L, key[s] < key[t]
    PROVE  Cardinality(Above(L, key, t)) < Cardinality(Above(L, key, s))
<1>1. PICK A, B : A = Above(L, key, t) /\ B = Above(L, key, s)
  OBVIOUS
<1>2. IsFiniteSet(A) /\ IsFiniteSet(B) /\ Cardinality(A) \in Nat /\ Cardinality(B) \in Nat
  BY <1>1, AboveFinite
<1>3. t \notin A
  BY <1>1 DEF Above
<1>4. A \cup {t} \subseteq B
  BY <1>1 DEF Above
<1>5. Cardinality(A \cup {t}) = Cardinality(A) + 1
  BY <1>2, <1>3, FS_AddElement
<1>6. Cardinality(A \cup {t}) <= Cardinality(B)
  BY <1>2, <1>4, FS_Subset
<1> QED
  BY <1>1, <1>2, <1>5, <1>6

(* Not all are above one.                                                  *)
LEMMA RankBounded ==
    ASSUME NEW L, IsFiniteSet(L), NEW key \in [L -> Nat], NEW s \in L
    PROVE  Cardinality(Above(L, key, s)) < Cardinality(L)
<1>1. PICK A : A = Above(L, key, s)
  OBVIOUS
<1>2. IsFiniteSet(A) /\ Cardinality(A) \in Nat /\ Cardinality(L) \in Nat
  BY <1>1, AboveFinite
<1>3. s \notin A /\ A \cup {s} \subseteq L
  BY <1>1 DEF Above
<1>4. Cardinality(A \cup {s}) = Cardinality(A) + 1
  BY <1>2, <1>3, FS_AddElement
<1>5. Cardinality(A \cup {s}) <= Cardinality(L)
  BY <1>3, FS_Subset
<1> QED
  BY <1>1, <1>2, <1>4, <1>5

(* `sort_unstable_by_key` of the live cells, by the offset and downwards.  *)
IsOrder(page, q) ==
    /\ q \in [1 .. Cardinality(LiveSlots(page)) -> LiveSlots(page)]
    /\ \A i, j \in 1 .. Cardinality(LiveSlots(page)) :
          i < j => page.slots[q[i]].at > page.slots[q[j]].at
    /\ \A s \in LiveSlots(page) : \E i \in 1 .. Cardinality(LiveSlots(page)) : q[i] = s

(* The live slots can be counted.                                          *)
LEMMA LiveFinite ==
    ASSUME NEW Byte, NEW page \in PageType(Byte)
    PROVE  IsFiniteSet(LiveSlots(page)) /\ Cardinality(LiveSlots(page)) \in Nat
<1>1. LiveSlots(page) \subseteq 1 .. Len(page.slots)
  BY LiveCells
<1>2. IsFiniteSet(1 .. Len(page.slots))
  <2>1. Len(page.slots) \in Int /\ 1 \in Int
    BY DirectoryEnds
  <2> QED
    BY <2>1, FS_Interval
<1> QED
  BY <1>1, <1>2, FS_Subset, FS_CardinalityType

(* The live slots in order: each once, from the highest to the lowest.     *)
LEMMA OrderRight ==
    ASSUME NEW Byte, NEW page \in PageType(Byte), PageSound(page)
    PROVE  /\ IsOrder(page, HighestFirst(page))
           /\ Len(HighestFirst(page)) = Cardinality(LiveSlots(page))
<1>1. /\ PageSize \in Nat
      /\ \A t \in LiveSlots(page) :
            /\ t \in DOMAIN page.slots
            /\ page.slots[t].at \in Nat /\ page.slots[t].len \in Nat \ {0}
            /\ page.slots[t].at >= page.start
            /\ page.slots[t].at + page.slots[t].len <= PageSize
      /\ \A t, u \in LiveSlots(page) : t # u =>
            \/ page.slots[t].at + page.slots[t].len <= page.slots[u].at
            \/ page.slots[u].at + page.slots[u].len <= page.slots[t].at
  BY LaidOut
<1>2. PICK L, c : L = LiveSlots(page) /\ c = Cardinality(L)
  OBVIOUS
<1>3. IsFiniteSet(L) /\ c \in Nat
  BY <1>2, LiveFinite
<1>4. PICK key : key = [s \in L |-> page.slots[s].at]
  OBVIOUS
<1>5. key \in [L -> 0 .. PageSize] /\ key \in [L -> Nat]
  <2>1. ASSUME NEW s \in L PROVE page.slots[s].at \in 0 .. PageSize
    <3>1. /\ page.slots[s].at \in Nat /\ page.slots[s].len \in Nat
          /\ page.slots[s].at + page.slots[s].len <= PageSize
      BY <1>1, <1>2
    <3> QED
      BY <1>1, <3>1
  <2> QED
    BY <1>4, <2>1
<1>6. ASSUME NEW s \in L, NEW t \in L, s # t PROVE key[s] # key[t]
  <2>1. /\ page.slots[s].at \in Nat /\ page.slots[s].len \in Nat \ {0}
        /\ page.slots[t].at \in Nat /\ page.slots[t].len \in Nat \ {0}
        /\ \/ page.slots[s].at + page.slots[s].len <= page.slots[t].at
           \/ page.slots[t].at + page.slots[t].len <= page.slots[s].at
    BY <1>1, <1>2, <1>6
  <2>2. page.slots[s].at # page.slots[t].at
    BY <2>1
  <2> QED
    BY <1>4, <2>2
<1>7. \A s \in L : {t \in L : page.slots[t].at > page.slots[s].at} = Above(L, key, s)
  BY <1>4 DEF Above
<1>8. PICK q : q = HighestFirst(page)
  OBVIOUS
<1>9. q = [i \in 1 .. c |-> CHOOSE s \in L :
              Cardinality({t \in L : page.slots[t].at > page.slots[s].at}) = i - 1]
  BY <1>2, <1>8 DEF HighestFirst
<1>10. ASSUME NEW i \in 1 .. c
       PROVE  q[i] \in L /\ Cardinality(Above(L, key, q[i])) = i - 1
  <2>1. i - 1 \in Nat /\ i - 1 < c
    BY <1>3
  <2>2. \E s \in L : Cardinality(Above(L, key, s)) = i - 1
    BY <1>1, <1>2, <1>3, <1>5, <1>6, <2>1, RankExists
  <2> DEFINE R(s) == Cardinality({t \in L : page.slots[t].at > page.slots[s].at})
  <2>3. q[i] = CHOOSE s \in L : R(s) = i - 1
    BY <1>9
  <2>4. \A s \in L : R(s) = Cardinality(Above(L, key, s))
    BY <1>7
  <2> HIDE DEF R
  <2>5. \E s \in L : R(s) = i - 1
    BY <2>2, <2>4
  <2>6. q[i] \in L /\ R(q[i]) = i - 1
    BY <2>3, <2>5
  <2> QED
    BY <2>4, <2>6
<1>11. q \in [1 .. c -> L] /\ DOMAIN q = 1 .. c
  BY <1>9, <1>10
<1>12. ASSUME NEW i \in 1 .. c, NEW j \in 1 .. c, i < j
       PROVE  page.slots[q[i]].at > page.slots[q[j]].at
  <2>1. PICK s, t : s = q[i] /\ t = q[j]
    OBVIOUS
  <2>2. /\ s \in L /\ t \in L /\ Cardinality(Above(L, key, s)) = i - 1
        /\ Cardinality(Above(L, key, t)) = j - 1
    BY <1>10, <2>1
  <2>3. s # t
    BY <1>3, <1>12, <2>2
  <2>4. ~(key[s] < key[t])
    <3> SUFFICES ASSUME key[s] < key[t] PROVE FALSE
      OBVIOUS
    <3>1. Cardinality(Above(L, key, t)) < Cardinality(Above(L, key, s))
      BY <1>3, <1>5, <2>2, RankFalls
    <3> QED
      BY <1>3, <1>12, <2>2, <3>1
  <2>5. key[s] \in Nat /\ key[t] \in Nat /\ key[s] # key[t]
    BY <1>5, <1>6, <2>2, <2>3
  <2>6. key[s] > key[t]
    BY <2>4, <2>5
  <2> QED
    BY <1>4, <2>1, <2>2, <2>6
<1>13. ASSUME NEW s \in L PROVE \E i \in 1 .. c : q[i] = s
  <2>1. PICK r : r = Cardinality(Above(L, key, s))
    OBVIOUS
  <2>2. r \in Nat /\ r < c
    BY <1>2, <1>3, <1>5, <2>1, AboveFinite, RankBounded
  <2>3. r + 1 \in 1 .. c /\ (r + 1) - 1 = r
    BY <1>3, <2>2
  <2>4. PICK t : t = q[r + 1]
    OBVIOUS
  <2>5. t \in L /\ Cardinality(Above(L, key, t)) = r
    BY <1>10, <2>3, <2>4
  <2>6. t = s
    <3> SUFFICES ASSUME t # s PROVE FALSE
      OBVIOUS
    <3>1. key[t] \in Nat /\ key[s] \in Nat /\ key[t] # key[s]
      BY <1>5, <1>6, <2>5
    <3>2. CASE key[t] < key[s]
      <4>1. Cardinality(Above(L, key, s)) < Cardinality(Above(L, key, t))
        BY <1>3, <1>5, <2>5, <3>2, RankFalls
      <4> QED
        BY <2>1, <2>2, <2>5, <4>1
    <3>3. CASE key[s] < key[t]
      <4>1. Cardinality(Above(L, key, t)) < Cardinality(Above(L, key, s))
        BY <1>3, <1>5, <2>5, <3>3, RankFalls
      <4> QED
        BY <2>1, <2>2, <2>5, <4>1
    <3> QED
      BY <3>1, <3>2, <3>3
  <2> QED
    BY <2>3, <2>4, <2>6
<1>14. Len(q) = c
  BY <1>3, <1>11
<1> QED
  BY <1>2, <1>8, <1>11, <1>12, <1>13, <1>14 DEF IsOrder

-----------------------------------------------------------------------------
(* The loop of `compact_keeping`, when the cells of `done` are moved: they *)
(* fill the end of the page, the others are where they were and below.     *)
Lens(page, done) ==
    [s \in 1 .. Len(page.slots) |-> IF s \in done THEN page.slots[s].len ELSE 0]
Packing(Byte, page, n, done, x) ==
    /\ x \in PageType(Byte) /\ Len(x.slots) = n
    /\ page.start <= x.start /\ x.start <= PageSize
    /\ \A i \in 0 .. PageSize - 1 : i < x.start => x.bytes[i] = page.bytes[i]
    /\ \A u \in LiveSlots(page) \ done :
          page.slots[u].at + page.slots[u].len <= x.start
    /\ \A t \in 1 .. n : x.slots[t].len = page.slots[t].len
    /\ \A s \in done : /\ x.start <= x.slots[s].at
                       /\ x.slots[s].at + x.slots[s].len <= PageSize
    /\ \A s \in done : GetCell(x, s) = GetCell(page, s)
    /\ \A s, t \in done : s # t => \/ x.slots[s].at + x.slots[s].len <= x.slots[t].at
                                   \/ x.slots[t].at + x.slots[t].len <= x.slots[s].at
    /\ PageSize - x.start = SumTo(Lens(page, done), Len(page.slots))

(* The lengths along the directory, those of `done` only.                  *)
LEMMA LensNat ==
    ASSUME NEW Byte, NEW page \in PageType(Byte), NEW done
    PROVE  Lens(page, done) \in [1 .. Len(page.slots) -> Nat] /\ Len(page.slots) \in Nat
<1> DEFINE S == [at : Nat, len : Nat]
<1>1. page.slots \in Seq(S)
  BY DEF PageType
<1>2. ASSUME NEW s \in 1 .. Len(page.slots) PROVE page.slots[s].len \in Nat
  <2>1. page.slots[s] \in S
    <3> HIDE DEF S
    <3> QED
      BY <1>1, LenProperties
  <2> QED
    BY <2>1
<1> QED
  BY <1>2, DirectoryEnds DEF Lens

(* The next cell to move is the highest of those that are left.            *)
IsNext(page, done, s) ==
    \A u \in LiveSlots(page) \ done : u # s => page.slots[u].at < page.slots[s].at

(* One turn of the loop: the bytes it overwrites are of no cell left.      *)
LEMMA MoveKeeps ==
    ASSUME NEW Byte, NEW page \in PageType(Byte), PageSound(page),
           NEW n \in Nat, n <= Len(page.slots), LiveSlots(page) \subseteq 1 .. n,
           NEW done \in SUBSET LiveSlots(page), NEW s \in LiveSlots(page) \ done,
           IsNext(page, done, s), NEW x, Packing(Byte, page, n, done, x),
           NEW y, y = MoveCell(page, s, x)
    PROVE  Packing(Byte, page, n, done \cup {s}, y)
<1> DEFINE S == [at : Nat, len : Nat]
<1>1. /\ page.start \in Nat /\ page.start <= PageSize /\ PageSize \in Nat
      /\ page.bytes \in [0 .. PageSize - 1 -> Byte]
      /\ \A t \in LiveSlots(page) :
            /\ t \in DOMAIN page.slots
            /\ page.slots[t].at \in Nat /\ page.slots[t].len \in Nat \ {0}
            /\ page.slots[t].at >= page.start
            /\ page.slots[t].at + page.slots[t].len <= PageSize
      /\ \A t, u \in LiveSlots(page) : t # u =>
            \/ page.slots[t].at + page.slots[t].len <= page.slots[u].at
            \/ page.slots[u].at + page.slots[u].len <= page.slots[t].at
  BY LaidOut
<1>2. /\ x \in PageType(Byte) /\ Len(x.slots) = n
      /\ page.start <= x.start /\ x.start <= PageSize
      /\ \A i \in 0 .. PageSize - 1 : i < x.start => x.bytes[i] = page.bytes[i]
      /\ \A u \in LiveSlots(page) \ done :
            page.slots[u].at + page.slots[u].len <= x.start
      /\ \A t \in 1 .. n : x.slots[t].len = page.slots[t].len
      /\ \A t \in done : /\ x.start <= x.slots[t].at
                         /\ x.slots[t].at + x.slots[t].len <= PageSize
      /\ \A t \in done : GetCell(x, t) = GetCell(page, t)
      /\ \A t, u \in done : t # u => \/ x.slots[t].at + x.slots[t].len <= x.slots[u].at
                                     \/ x.slots[u].at + x.slots[u].len <= x.slots[t].at
      /\ PageSize - x.start = SumTo(Lens(page, done), Len(page.slots))
  BY DEF Packing
<1>3. PICK a, l, e, o, xb : /\ a = page.slots[s].at /\ l = page.slots[s].len
                            /\ o = x.start /\ e = o - l /\ xb = x.bytes
  OBVIOUS
<1>4. /\ a \in Nat /\ l \in Nat \ {0} /\ o \in Nat /\ o <= PageSize /\ a + l <= o
      /\ PageSize \in Nat /\ page.start <= a /\ page.start \in Nat
  <2>1. o \in Nat
    BY <1>2, <1>3 DEF PageType
  <2> QED
    BY <1>1, <1>2, <1>3, <2>1
<1>5. e \in Nat /\ e + l = o /\ a <= e /\ page.start <= e /\ e <= PageSize
  <2>1. e = o - l
    BY <1>3
  <2> QED
    BY <1>4, <2>1
<1>6. xb \in [0 .. PageSize - 1 -> Byte] /\ x.slots \in Seq(S) /\ DOMAIN x.slots = 1 .. n
  <2>1. xb \in [0 .. PageSize - 1 -> Byte] /\ x.slots \in Seq(S)
    BY <1>2, <1>3 DEF PageType
  <2> HIDE DEF S
  <2> QED
    BY <1>2, <2>1, LenProperties
<1>7. PICK yb : yb = CopyWithin(xb, a, l, e)
  OBVIOUS
<1>8. yb \in [0 .. PageSize - 1 -> Byte] /\ IsCopied(xb, a, l, e, yb)
  <2>1. a \in Nat /\ l \in Nat /\ e \in Nat /\ a + l <= PageSize /\ e + l <= PageSize
    BY <1>4, <1>5
  <2> QED
    BY <1>6, <1>7, <2>1, CopyRight
<1>9. PICK c : c = [at |-> e, len |-> l]
  OBVIOUS
<1>10. /\ y.bytes = yb /\ y.slots = [x.slots EXCEPT ![s] = c] /\ y.start = e
       /\ y = [bytes |-> y.bytes, slots |-> y.slots, start |-> y.start]
  BY <1>3, <1>7, <1>9 DEF MoveCell, Slot
<1>11. /\ y.slots \in Seq(S) /\ Len(y.slots) = n /\ DOMAIN y.slots = 1 .. n
       /\ y.slots[s].at = e /\ y.slots[s].len = l
       /\ \A t \in 1 .. n : t # s => y.slots[t] = x.slots[t]
  <2>1. c \in S /\ c.at = e /\ c.len = l
    BY <1>4, <1>5, <1>9
  <2>2. s \in 1 .. n
    OBVIOUS
  <2> HIDE DEF S
  <2>3. PICK q : q = x.slots
    OBVIOUS
  <2>4. q \in Seq(S) /\ s \in 1 .. Len(q) /\ DOMAIN q = 1 .. n /\ Len(q) = n
    BY <1>2, <1>6, <2>2, <2>3
  <2>5. [q EXCEPT ![s] = c] \in Seq(S) /\ Len([q EXCEPT ![s] = c]) = Len(q)
    BY <2>1, <2>4, ExceptSeq
  <2>6. /\ DOMAIN [q EXCEPT ![s] = c] = DOMAIN q /\ [q EXCEPT ![s] = c][s] = c
        /\ \A t \in DOMAIN q \ {s} : [q EXCEPT ![s] = c][t] = q[t]
    BY <2>2, <2>4
  <2> QED
    BY <1>10, <2>1, <2>3, <2>4, <2>5, <2>6
<1>12. y \in PageType(Byte)
  BY <1>5, <1>8, <1>10, <1>11 DEF PageType
<1>13. ASSUME NEW i \in 0 .. PageSize - 1
       PROVE  /\ i < e => y.bytes[i] = x.bytes[i]
              /\ o <= i => y.bytes[i] = x.bytes[i]
              /\ e <= i /\ i < o => y.bytes[i] = x.bytes[a + i - e]
  <2>1. /\ e <= i /\ i < e + l => yb[i] = xb[a + i - e]
        /\ ~(e <= i /\ i < e + l) => yb[i] = xb[i]
    BY <1>8 DEF IsCopied
  <2>2. /\ i < e => ~(e <= i /\ i < e + l)
        /\ o <= i => ~(e <= i /\ i < e + l)
        /\ e <= i /\ i < o => i < e + l
    BY <1>4, <1>5
  <2> QED
    BY <1>3, <1>10, <2>1, <2>2
<1>14. ASSUME NEW i \in 0 .. PageSize - 1, i < y.start PROVE y.bytes[i] = page.bytes[i]
  <2>1. i < e /\ i < o
    BY <1>4, <1>5, <1>10, <1>14
  <2> QED
    BY <1>2, <1>3, <1>13, <2>1
<1>15. ASSUME NEW u \in LiveSlots(page) \ (done \cup {s})
       PROVE  page.slots[u].at + page.slots[u].len <= y.start
  <2>1. PICK b, m : b = page.slots[u].at /\ m = page.slots[u].len
    OBVIOUS
  <2>2. /\ b \in Nat /\ m \in Nat /\ b < a /\ (b + m <= a \/ a + l <= b)
    BY <1>1, <1>3, <2>1 DEF IsNext
  <2>3. b + m <= e
    BY <1>4, <1>5, <2>2
  <2> QED
    BY <1>10, <2>1, <2>3
<1>16. \A t \in 1 .. n : y.slots[t].len = page.slots[t].len
  BY <1>2, <1>3, <1>11
<1>17. ASSUME NEW t \in done
       PROVE  /\ y.slots[t] = x.slots[t] /\ t \in LiveSlots(page)
              /\ x.slots[t].at \in Nat /\ x.slots[t].len \in Nat \ {0}
              /\ x.slots[t].len = page.slots[t].len
              /\ o <= x.slots[t].at /\ x.slots[t].at + x.slots[t].len <= PageSize
  <2>1. t \in 1 .. n /\ t # s /\ t \in LiveSlots(page)
    OBVIOUS
  <2>2. x.slots[t] \in S
    <3> HIDE DEF S
    <3> QED
      BY <1>6, <2>1
  <2>3. x.slots[t].at \in Nat
    BY <2>2
  <2>4. page.slots[t].len \in Nat \ {0} /\ x.slots[t].len = page.slots[t].len
    BY <1>1, <1>2, <2>1
  <2> QED
    BY <1>2, <1>3, <1>11, <2>1, <2>3, <2>4
<1>18. ASSUME NEW t \in done \cup {s}
       PROVE  y.start <= y.slots[t].at /\ y.slots[t].at + y.slots[t].len <= PageSize
  <2>1. CASE t = s
    <3>1. e <= e /\ e + l <= PageSize
      BY <1>4, <1>5
    <3> QED
      BY <1>10, <1>11, <2>1, <3>1
  <2>2. CASE t \in done
    <3>1. PICK b : b = x.slots[t].at
      OBVIOUS
    <3>2. b \in Nat /\ o <= b
      BY <1>17, <2>2, <3>1
    <3>3. e <= b
      BY <1>4, <1>5, <3>2
    <3> QED
      BY <1>10, <1>17, <2>2, <3>1, <3>3
  <2> QED
    BY <2>1, <2>2
<1>19. ASSUME NEW t \in done \cup {s} PROVE GetCell(y, t) = GetCell(page, t)
  <2>1. CASE t = s
    <3>1. GetCell(y, s) = [i \in 1 .. l |-> y.bytes[e + i - 1]]
      BY <1>11 DEF GetCell
    <3>2. GetCell(page, s) = [i \in 1 .. l |-> page.bytes[a + i - 1]]
      BY <1>3 DEF GetCell
    <3>3. ASSUME NEW i \in 1 .. l PROVE y.bytes[e + i - 1] = page.bytes[a + i - 1]
      <4>1. PICK j, k : j = e + i - 1 /\ k = a + i - 1
        OBVIOUS
      <4>2. /\ j \in 0 .. PageSize - 1 /\ e <= j /\ j < o /\ a + j - e = k
            /\ k \in 0 .. PageSize - 1 /\ k < o
        BY <1>4, <1>5, <4>1
      <4>3. y.bytes[j] = x.bytes[k]
        BY <1>13, <4>2
      <4>4. x.bytes[k] = page.bytes[k]
        BY <1>2, <1>3, <4>2
      <4> QED
        BY <4>1, <4>3, <4>4
    <3> QED
      BY <2>1, <3>1, <3>2, <3>3
  <2>2. CASE t \in done
    <3>1. PICK b, m : b = x.slots[t].at /\ m = x.slots[t].len
      OBVIOUS
    <3>2. /\ b \in Nat /\ m \in Nat /\ o <= b /\ b + m <= PageSize
          /\ y.slots[t].at = b /\ y.slots[t].len = m
      BY <1>17, <2>2, <3>1
    <3>3. ASSUME NEW i \in 1 .. m PROVE y.bytes[b + i - 1] = x.bytes[b + i - 1]
      <4>1. PICK j : j = b + i - 1
        OBVIOUS
      <4>2. j \in 0 .. PageSize - 1 /\ o <= j
        BY <1>4, <3>2, <4>1
      <4> QED
        BY <1>13, <4>1, <4>2
    <3>4. GetCell(y, t) = GetCell(x, t)
      BY <3>1, <3>2, <3>3 DEF GetCell
    <3> QED
      BY <1>2, <2>2, <3>4
  <2> QED
    BY <2>1, <2>2
<1>20. ASSUME NEW t \in done \cup {s}, NEW u \in done \cup {s}, t # u
       PROVE  \/ y.slots[t].at + y.slots[t].len <= y.slots[u].at
              \/ y.slots[u].at + y.slots[u].len <= y.slots[t].at
  <2>1. CASE t = s
    <3>1. u \in done
      BY <1>20, <2>1
    <3>2. y.slots[u].at >= e + l
      BY <1>5, <1>17, <3>1
    <3> QED
      BY <1>11, <2>1, <3>2
  <2>2. CASE u = s
    <3>1. t \in done
      BY <1>20, <2>2
    <3>2. y.slots[t].at >= e + l
      BY <1>5, <1>17, <3>1
    <3> QED
      BY <1>11, <2>2, <3>2
  <2>3. CASE t \in done /\ u \in done
    <3>1. y.slots[t] = x.slots[t] /\ y.slots[u] = x.slots[u]
      BY <1>17, <2>3
    <3>2. \/ x.slots[t].at + x.slots[t].len <= x.slots[u].at
          \/ x.slots[u].at + x.slots[u].len <= x.slots[t].at
      BY <1>2, <1>20, <2>3
    <3> QED
      BY <3>1, <3>2
  <2> QED
    BY <2>1, <2>2, <2>3
<1>21. PageSize - y.start = SumTo(Lens(page, done \cup {s}), Len(page.slots))
  <2>1. PICK f, g, k : /\ f = Lens(page, done) /\ g = Lens(page, done \cup {s})
                       /\ k = Len(page.slots)
    OBVIOUS
  <2>2. k \in Nat /\ f \in [1 .. k -> Nat] /\ g \in [1 .. k -> Nat]
    BY <2>1, LensNat
  <2>3. s \in 1 .. k
    <3>1. s \in 1 .. n /\ n <= k
      BY <2>1
    <3> QED
      BY <2>2, <3>1
  <2>4. f[s] = 0 /\ g[s] = l
    BY <1>3, <2>1, <2>3 DEF Lens
  <2>5. \A i \in 1 .. k : i # s => g[i] = f[i]
    BY <2>1 DEF Lens
  <2>6. g[s] = f[s] + l /\ l \in Nat
    BY <1>4, <2>4
  <2>61. MoreBy(f, g, k, s, l)
    BY <2>5, <2>6 DEF MoreBy
  <2>7. SumTo(g, k) = SumTo(f, k) + l
    BY <2>2, <2>3, <2>6, <2>61, SumPlus
  <2>8. PICK z : z = SumTo(f, k)
    OBVIOUS
  <2>9. PageSize - o = z
    BY <1>2, <1>3, <2>1, <2>8
  <2>10. PageSize - e = z + l
    <3>1. z \in Int /\ o = e + l
      BY <1>4, <1>5, <2>9
    <3> QED
      BY <1>4, <1>5, <2>9, <3>1
  <2> QED
    BY <1>10, <2>1, <2>7, <2>8, <2>10
<1>22. page.start <= y.start /\ y.start <= PageSize
  BY <1>5, <1>10
<1> QED
  BY <1>11, <1>12, <1>14, <1>15, <1>16, <1>18, <1>19, <1>20, <1>21, <1>22 DEF Packing

(* The whole loop: every cell moved.                                       *)
LEMMA MovedRight ==
    ASSUME NEW Byte, NEW page \in PageType(Byte), PageSound(page),
           NEW n \in Nat, n <= Len(page.slots), LiveSlots(page) \subseteq 1 .. n,
           NEW slots \in Seq([at : Nat, len : Nat]), Len(slots) = n,
           \A t \in 1 .. n : slots[t] = page.slots[t]
    PROVE  Packing(Byte, page, n, LiveSlots(page), Moved(page, slots))
<1>1. PICK q, c : q = HighestFirst(page) /\ c = Cardinality(LiveSlots(page))
  OBVIOUS
<1>2. c \in Nat /\ IsOrder(page, q) /\ Len(q) = c
  BY <1>1, LiveFinite, OrderRight
<1>3. /\ q \in [1 .. c -> LiveSlots(page)]
      /\ \A i, j \in 1 .. c : i < j => page.slots[q[i]].at > page.slots[q[j]].at
      /\ \A s \in LiveSlots(page) : \E i \in 1 .. c : q[i] = s
  BY <1>1, <1>2 DEF IsOrder
<1>4. /\ page.start \in Nat /\ page.start <= PageSize /\ PageSize \in Nat
      /\ page.bytes \in [0 .. PageSize - 1 -> Byte]
      /\ \A t \in LiveSlots(page) :
            /\ page.slots[t].at \in Nat
            /\ page.slots[t].at + page.slots[t].len <= PageSize
  BY LaidOut
<1> DEFINE Done(k) == {q[j] : j \in 1 .. k}
<1>5. PICK b : b = [bytes |-> page.bytes, slots |-> slots, start |-> PageSize]
  OBVIOUS
<1>6. Packing(Byte, page, n, {}, b)
  <2>1. b \in PageType(Byte) /\ Len(b.slots) = n /\ b.start = PageSize
        /\ b.bytes = page.bytes /\ b.slots = slots
    BY <1>4, <1>5 DEF PageType
  <2>2. PICK f, k : f = Lens(page, {}) /\ k = Len(page.slots)
    OBVIOUS
  <2>3. k \in Nat /\ f \in [1 .. k -> Nat]
    BY <2>2, LensNat
  <2>4. \A i \in 1 .. k : f[i] = 0
    BY <2>2 DEF Lens
  <2>5. SumTo(f, k) = 0
    BY <2>3, <2>4, SumZero
  <2>6. PageSize - PageSize = 0
    BY <1>4
  <2>7. page.start <= b.start /\ b.start <= PageSize
    BY <1>4, <2>1
  <2>8. \A i \in 0 .. PageSize - 1 : b.bytes[i] = page.bytes[i]
    BY <2>1
  <2>9. \A u \in LiveSlots(page) : page.slots[u].at + page.slots[u].len <= b.start
    BY <1>4, <2>1
  <2>10. \A t \in 1 .. n : b.slots[t].len = page.slots[t].len
    BY <2>1
  <2>11. PageSize - b.start = SumTo(Lens(page, {}), Len(page.slots))
    BY <2>1, <2>2, <2>5, <2>6
  <2> QED
    BY <2>1, <2>7, <2>8, <2>9, <2>10, <2>11, Zenon DEF Packing
<1>7. ASSUME NEW k \in Nat, k + 1 <= c
      PROVE  /\ k + 1 \in 1 .. c /\ q[k + 1] \in LiveSlots(page) \ Done(k)
             /\ IsNext(page, Done(k), q[k + 1])
             /\ Done(k) \in SUBSET LiveSlots(page)
             /\ Done(k + 1) = Done(k) \cup {q[k + 1]}
  <2>1. k + 1 \in 1 .. c /\ \A j \in 1 .. k : j \in 1 .. c /\ j < k + 1
    BY <1>2, <1>7
  <2>2. q[k + 1] \in LiveSlots(page) /\ Done(k) \in SUBSET LiveSlots(page)
    BY <1>3, <2>1
  <2>3. ASSUME q[k + 1] \in Done(k) PROVE FALSE
    <3>1. PICK j \in 1 .. k : q[j] = q[k + 1]
      BY <2>3
    <3>2. page.slots[q[j]].at > page.slots[q[k + 1]].at
      BY <1>3, <2>1
    <3>3. PICK z : z = page.slots[q[k + 1]].at
      OBVIOUS
    <3>4. z \in Nat /\ z > z
      BY <1>4, <2>2, <3>1, <3>2, <3>3
    <3> QED
      BY <3>4
  <2>4. ASSUME NEW u \in LiveSlots(page) \ Done(k), u # q[k + 1]
        PROVE  page.slots[u].at < page.slots[q[k + 1]].at
    <3>1. PICK j \in 1 .. c : q[j] = u
      BY <1>3
    <3>2. j \notin 1 .. k /\ j # k + 1
      BY <2>4, <3>1
    <3>3. k + 1 < j
      BY <1>2, <3>2
    <3>4. page.slots[q[k + 1]].at > page.slots[q[j]].at
      BY <1>3, <2>1, <3>3
    <3>5. page.slots[q[k + 1]].at \in Nat /\ page.slots[u].at \in Nat
      BY <1>4, <2>2
    <3> QED
      BY <3>1, <3>4, <3>5
  <2>5. 1 .. k + 1 = (1 .. k) \cup {k + 1}
    OBVIOUS
  <2>6. Done(k + 1) = Done(k) \cup {q[k + 1]}
    BY <2>5
  <2> QED
    BY <2>1, <2>2, <2>3, <2>4, <2>6 DEF IsNext
<1>8. Done(0) = {} /\ Done(c) = LiveSlots(page)
  <2>1. 1 .. 0 = {}
    OBVIOUS
  <2> QED
    BY <1>3, <2>1
<1> HIDE DEF Done
<1> DEFINE P == PageType(Byte)
           MoveOn(x, i) == MoveCell(page, q[i], x)
           G == [p \in P \X (1 .. c) |-> IF MoveOn(p[1], p[2]) \in P THEN MoveOn(p[1], p[2])
                                         ELSE p[1]]
           D(h) == [i \in 0 .. c |-> IF i = 0 THEN b ELSE MoveOn(h[i - 1], i)]
           moved == CHOOSE h : h = D(h)
<1>9. Moved(page, slots) = moved[c]
  BY <1>1, <1>2, <1>5 DEF Moved
<1>10. b \in P
  BY <1>6 DEF Packing
<1> HIDE DEF P, MoveOn
<1>11. G \in [P \X (1 .. c) -> P]
  OBVIOUS
<1>12. \A x \in P, i \in 1 .. c :
          G[<<x, i>>] = IF MoveOn(x, i) \in P THEN MoveOn(x, i) ELSE x
  OBVIOUS
<1> HIDE DEF G
<1>13. PICK h : IsLoop(h, c, P, b, G)
  BY <1>2, <1>10, <1>11, LoopExists
<1>14. h \in [0 .. c -> P] /\ h[0] = b /\ \A i \in 1 .. c : h[i] = G[<<h[i - 1], i>>]
  BY <1>13 DEF IsLoop
<1>15. \A k \in Nat : k <= c => Packing(Byte, page, n, Done(k), h[k])
                                /\ (k > 0 => h[k] = MoveOn(h[k - 1], k))
  <2> DEFINE T == {k \in Nat : k <= c => Packing(Byte, page, n, Done(k), h[k])
                                         /\ (k > 0 => h[k] = MoveOn(h[k - 1], k))}
  <2>1. 0 \in T
    <3>1. Packing(Byte, page, n, Done(0), h[0])
      BY <1>6, <1>8, <1>14
    <3>2. 0 \in Nat /\ ~(0 > 0)
      OBVIOUS
    <3> QED
      BY <3>1, <3>2
  <2>2. ASSUME NEW k \in Nat, k \in T PROVE k + 1 \in T
    <3> SUFFICES ASSUME k + 1 <= c
                 PROVE  Packing(Byte, page, n, Done(k + 1), h[k + 1])
                        /\ h[k + 1] = MoveOn(h[k], k + 1)
      <4>1. (k + 1) - 1 = k
        OBVIOUS
      <4> QED
        BY <4>1
    <3>1. Packing(Byte, page, n, Done(k), h[k])
      <4>1. k <= c
        BY <1>2
      <4> QED
        BY <2>2, <4>1
    <3>2. PICK s, x, y, d : s = q[k + 1] /\ x = h[k] /\ y = MoveOn(x, k + 1) /\ d = Done(k)
      OBVIOUS
    <3>3. /\ k + 1 \in 1 .. c /\ s \in LiveSlots(page) \ d /\ IsNext(page, d, s)
          /\ d \in SUBSET LiveSlots(page) /\ Done(k + 1) = d \cup {s}
      BY <1>7, <3>2
    <3>4. Packing(Byte, page, n, d, x) /\ y = MoveCell(page, s, x)
      BY <3>1, <3>2 DEF MoveOn
    <3>5. Packing(Byte, page, n, d \cup {s}, y)
      BY <3>3, <3>4, MoveKeeps
    <3>6. x \in P /\ y \in P
      BY <3>4, <3>5 DEF P, Packing
    <3>7. h[k + 1] = G[<<x, k + 1>>]
      <4>1. (k + 1) - 1 = k
        OBVIOUS
      <4> QED
        BY <1>14, <3>2, <3>3, <4>1
    <3>8. h[k + 1] = y
      BY <1>12, <3>2, <3>3, <3>6, <3>7
    <3> QED
      BY <3>2, <3>3, <3>5, <3>8
  <2> HIDE DEF T
  <2>3. Nat \subseteq T
    BY <2>1, <2>2, NatInd
  <2> QED
    BY <2>3 DEF T
<1>16. h = D(h)
  <2>1. ASSUME NEW i \in 0 .. c PROVE h[i] = IF i = 0 THEN b ELSE MoveOn(h[i - 1], i)
    <3>1. i \in Nat /\ i <= c /\ (i # 0 => i > 0)
      BY <1>2
    <3> QED
      BY <1>14, <1>15, <3>1
  <2> QED
    BY <1>14, <2>1
<1>17. moved = D(moved)
  <2> HIDE DEF D
  <2> QED
    BY <1>16
<1> HIDE DEF moved
<1>18. \A i \in 0 .. c : moved[i] = IF i = 0 THEN b ELSE MoveOn(moved[i - 1], i)
  BY <1>17
<1>19. moved[c] = h[c]
  <2> DEFINE T == {k \in Nat : k <= c => moved[k] = h[k]}
  <2>1. 0 \in T
    BY <1>2, <1>14, <1>18
  <2>2. ASSUME NEW k \in Nat, k \in T PROVE k + 1 \in T
    <3> SUFFICES ASSUME k + 1 <= c PROVE moved[k + 1] = h[k + 1]
      OBVIOUS
    <3>1. moved[k] = h[k]
      BY <1>2, <2>2
    <3>2. k + 1 \in 0 .. c /\ k + 1 # 0 /\ (k + 1) - 1 = k /\ k + 1 \in Nat /\ k + 1 > 0
      BY <1>2
    <3>3. moved[k + 1] = MoveOn(moved[k], k + 1)
      BY <1>18, <3>2
    <3>4. h[k + 1] = MoveOn(h[k], k + 1)
      BY <1>15, <3>2
    <3> QED
      BY <3>1, <3>3, <3>4
  <2> HIDE DEF T
  <2>3. Nat \subseteq T
    BY <2>1, <2>2, NatInd
  <2> QED
    BY <1>2, <2>3 DEF T
<1>20. Packing(Byte, page, n, Done(c), h[c])
  BY <1>2, <1>15
<1> QED
  BY <1>8, <1>9, <1>19, <1>20

-----------------------------------------------------------------------------
(* `free_bytes` of a sound page.                                           *)
LEMMA FreeBytesOf ==
    ASSUME NEW Byte, NEW page \in PageType(Byte), PageSound(page)
    PROVE  FreeBytes(page) = page.start - DirectoryEnd(page)
<1>1. page.start \in Nat /\ DirectoryEnd(page) \in Nat /\ page.start >= DirectoryEnd(page)
  BY LaidOut
<1>2. PICK d : d = page.start - DirectoryEnd(page) /\ d \in Nat
  BY <1>1
<1>3. \E x \in {d, 0} : \A y \in {d, 0} : x >= y
  BY <1>2
<1>4. Max({d, 0}) \in {d, 0} /\ \A y \in {d, 0} : Max({d, 0}) >= y
  BY <1>3 DEF Max
<1>5. Max({d, 0}) = d
  BY <1>2, <1>4
<1> QED
  BY <1>2, <1>5 DEF FreeBytes

(* `max` of the slots.                                                     *)
LEMMA MaxOf ==
    ASSUME NEW b \in Nat, NEW M \in SUBSET (0 .. b), M # {}
    PROVE  Max(M) \in M /\ \A y \in M : y <= Max(M)
<1>1. PICK key : key = [x \in 0 .. b |-> x]
  OBVIOUS
<1>2. key \in [0 .. b -> 0 .. b]
  BY <1>1
<1>3. PICK s \in M : \A t \in M : key[t] <= key[s]
  BY <1>2, HighestOf
<1>4. \E z \in M : \A t \in M : z >= t
  BY <1>1, <1>3
<1>5. Max(M) \in M /\ \A y \in M : Max(M) >= y
  BY <1>4 DEF Max
<1> QED
  BY <1>5

(* What a compaction can gain.                                             *)
LEMMA LiveBytesOf ==
    ASSUME NEW Byte, NEW page \in PageType(Byte)
    PROVE  /\ LiveBytes(page) = SumTo(Lens(page, LiveSlots(page)), Len(page.slots))
           /\ LiveBytes(page) \in Nat
<1> DEFINE S == [at : Nat, len : Nat]
<1>1. DOMAIN page.slots = 1 .. Len(page.slots)
  <2>1. page.slots \in Seq(S)
    BY DEF PageType
  <2> HIDE DEF S
  <2> QED
    BY <2>1, LenProperties
<1>2. [s \in DOMAIN page.slots |-> page.slots[s].len] = Lens(page, LiveSlots(page))
  <2>1. ASSUME NEW s \in 1 .. Len(page.slots)
        PROVE  page.slots[s].len = IF s \in LiveSlots(page) THEN page.slots[s].len ELSE 0
    BY <1>1 DEF LiveSlots
  <2> QED
    BY <1>1, <2>1 DEF Lens
<1>3. LiveBytes(page) = SumTo(Lens(page, LiveSlots(page)), Len(page.slots))
  BY <1>2 DEF LiveBytes
<1>4. SumTo(Lens(page, LiveSlots(page)), Len(page.slots)) \in Nat
  BY LensNat, SumNat
<1> QED
  BY <1>3, <1>4

(* A directory of fewer slots ends no later.                               *)
LEMMA DirectoryShrinks ==
    ASSUME NEW a \in Nat, NEW b \in Nat, a <= b
    PROVE  HeaderLen + a * SlotLen <= HeaderLen + b * SlotLen
<1>1. PICK r \in Nat : b = a + r
  <2>1. b - a \in Nat /\ b = a + (b - a)
    OBVIOUS
  <2> QED
    BY <2>1
<1>2. ASSUME NEW k \in Nat, NEW m \in Nat, NEW l \in Nat PROVE (k + m) * l = k * l + m * l
  OBVIOUS
<1>3. ASSUME NEW k \in Nat, NEW m \in Nat PROVE k * m \in Nat
  OBVIOUS
<1>4. HeaderLen \in Nat /\ SlotLen \in Nat
  BY SlottedAssumption
<1>5. b * SlotLen = a * SlotLen + r * SlotLen
  BY <1>1, <1>2, <1>4
<1>6. PICK u, v : u = a * SlotLen /\ v = r * SlotLen
  OBVIOUS
<1>7. u \in Nat /\ v \in Nat
  BY <1>3, <1>4, <1>6
<1> QED
  BY <1>4, <1>5, <1>6, <1>7

(* `compact` and `compact_keeping`: every cell reads as before in its slot *)
(* on a sound page, and all that was reclaimable is free.                  *)
THEOREM CompactKeeps ==
    ASSUME NEW Byte, Zero \in Byte, NEW page \in PageType(Byte), PageSound(page),
           NEW m \in 0 .. Len(page.slots), NEW after, after = CompactKeeping(page, m)
    PROVE  /\ after \in PageType(Byte)
           /\ PageSound(after)
           /\ LiveSlots(after) = LiveSlots(page)
           /\ \A s \in LiveSlots(page) : GetCell(after, s) = GetCell(page, s)
           /\ m <= Len(after.slots)
           /\ after.start - DirectoryEnd(after) >= ReclaimableSpace(page)
<1> DEFINE S == [at : Nat, len : Nat]
<1>1. /\ page.start \in Nat /\ page.start <= PageSize /\ PageSize \in Nat
      /\ DirectoryEnd(page) \in Nat /\ page.start >= DirectoryEnd(page)
      /\ \A t \in LiveSlots(page) : page.slots[t].len \in Nat \ {0}
  BY LaidOut
<1>2. page.slots \in Seq(S) /\ Len(page.slots) \in Nat /\ DOMAIN page.slots = 1 .. Len(page.slots)
  <2>1. page.slots \in Seq(S)
    BY DEF PageType
  <2> HIDE DEF S
  <2> QED
    BY <2>1, LenProperties
<1>3. PICK n : n = Max(LiveSlots(page) \union {0, m})
  OBVIOUS
<1>4. n \in Nat /\ n <= Len(page.slots) /\ m <= n /\ LiveSlots(page) \subseteq 1 .. n
  <2>1. PICK M : M = LiveSlots(page) \union {0, m}
    OBVIOUS
  <2>2. LiveSlots(page) \subseteq 1 .. Len(page.slots)
    BY LiveCells
  <2>3. M \in SUBSET (0 .. Len(page.slots)) /\ M # {}
    BY <1>2, <2>1, <2>2
  <2>4. Max(M) \in M /\ \A y \in M : y <= Max(M)
    BY <1>2, <2>3, MaxOf
  <2>5. n \in 0 .. Len(page.slots) /\ m <= n /\ \A y \in LiveSlots(page) : y <= n
    BY <1>3, <2>1, <2>3, <2>4
  <2> QED
    BY <1>2, <2>2, <2>5
<1>5. PICK slots : slots = SubSeq(page.slots, 1, n)
  OBVIOUS
<1>6. /\ slots \in Seq([at : Nat, len : Nat]) /\ Len(slots) = n
      /\ \A t \in 1 .. n : slots[t] = page.slots[t]
  <2>1. PICK q : q = page.slots
    OBVIOUS
  <2>2. \A t \in 1 .. n : q[t] \in S
    <3> HIDE DEF S
    <3>1. \A t \in 1 .. n : t \in 1 .. Len(page.slots)
      BY <1>2, <1>4
    <3> QED
      BY <1>2, <2>1, <3>1
  <2> HIDE DEF S
  <2>3. 1 \in Int /\ n \in Int
    BY <1>4
  <2>4. /\ SubSeq(q, 1, n) \in Seq(S)
        /\ Len(SubSeq(q, 1, n)) = IF 1 <= n THEN n - 1 + 1 ELSE 0
        /\ \A i \in 1 .. n - 1 + 1 : SubSeq(q, 1, n)[i] = q[1 + i - 1]
    BY <2>2, <2>3, SubSeqProperties
  <2>5. n - 1 + 1 = n /\ (IF 1 <= n THEN n - 1 + 1 ELSE 0) = n
        /\ \A i \in 1 .. n : 1 + i - 1 = i
    BY <1>4
  <2> QED
    BY <1>5, <2>1, <2>4, <2>5 DEF S
<1>7. PICK x : x = Moved(page, slots)
  OBVIOUS
<1>8. Packing(Byte, page, n, LiveSlots(page), x)
  BY <1>4, <1>6, <1>7, MovedRight
<1>9. /\ x \in PageType(Byte) /\ Len(x.slots) = n
      /\ page.start <= x.start /\ x.start <= PageSize
      /\ \A t \in 1 .. n : x.slots[t].len = page.slots[t].len
      /\ \A s \in LiveSlots(page) : /\ x.start <= x.slots[s].at
                                    /\ x.slots[s].at + x.slots[s].len <= PageSize
      /\ \A s \in LiveSlots(page) : GetCell(x, s) = GetCell(page, s)
      /\ \A s, t \in LiveSlots(page) : s # t =>
            \/ x.slots[s].at + x.slots[s].len <= x.slots[t].at
            \/ x.slots[t].at + x.slots[t].len <= x.slots[s].at
      /\ PageSize - x.start = SumTo(Lens(page, LiveSlots(page)), Len(page.slots))
  BY <1>8 DEF Packing
<1>10. x.bytes \in [0 .. PageSize - 1 -> Byte] /\ x.slots \in Seq(S) /\ x.start \in Nat
       /\ DOMAIN x.slots = 1 .. n
  <2>1. x.bytes \in [0 .. PageSize - 1 -> Byte] /\ x.slots \in Seq(S) /\ x.start \in Nat
    BY <1>9 DEF PageType
  <2> HIDE DEF S
  <2> QED
    BY <1>9, <2>1, LenProperties
<1>11. PICK e : e = HeaderLen + n * SlotLen
  OBVIOUS
<1>12. /\ after.bytes = [i \in 0 .. PageSize - 1 |->
              IF i \in e .. x.start - 1 THEN Zero ELSE x.bytes[i]]
       /\ after.slots = x.slots /\ after.start = x.start
       /\ after = [bytes |-> after.bytes, slots |-> after.slots, start |-> after.start]
  <2>1. after = [x EXCEPT !.bytes = [i \in DOMAIN x.bytes |->
                   IF i \in e .. x.start - 1 THEN Zero ELSE x.bytes[i]]]
    BY <1>3, <1>5, <1>7, <1>11 DEF CompactKeeping
  <2>2. DOMAIN x.bytes = 0 .. PageSize - 1
    BY <1>10
  <2> QED
    BY <1>9, <2>1, <2>2 DEF PageType
<1>13. after \in PageType(Byte)
  <2>1. after.bytes \in [0 .. PageSize - 1 -> Byte]
    BY <1>10, <1>12
  <2> QED
    BY <1>10, <1>12, <2>1 DEF PageType
<1>14. LiveSlots(after) = LiveSlots(page)
  <2>1. \A t \in 1 .. n : t \in LiveSlots(page) <=> after.slots[t].len # 0
    <3>1. \A t \in 1 .. n : t \in DOMAIN page.slots
      BY <1>2, <1>4
    <3> QED
      BY <1>9, <1>12, <3>1 DEF LiveSlots
  <2> QED
    BY <1>4, <1>10, <1>12, <2>1 DEF LiveSlots
<1>15. DirectoryEnd(after) = e /\ e <= DirectoryEnd(page) /\ e \in Nat
  <2>1. DirectoryEnd(after) = e
    BY <1>9, <1>11, <1>12 DEF DirectoryEnd
  <2>2. e <= DirectoryEnd(page)
    BY <1>2, <1>4, <1>11, DirectoryShrinks DEF DirectoryEnd
  <2>3. DirectoryEnd(after) \in Nat
    BY <1>13, DirectoryEnds
  <2> QED
    BY <2>1, <2>2, <2>3
<1>16. ASSUME NEW i \in 0 .. PageSize - 1
       PROVE  /\ x.start <= i => after.bytes[i] = x.bytes[i]
              /\ e <= i /\ i < x.start => after.bytes[i] = Zero
  <2>1. /\ x.start <= i => i \notin e .. x.start - 1
        /\ e <= i /\ i < x.start => i \in e .. x.start - 1
    BY <1>10, <1>15
  <2> QED
    BY <1>12, <2>1
<1>17. PageSound(after)
  <2>1. after.start <= PageSize /\ after.start >= DirectoryEnd(after)
    BY <1>1, <1>9, <1>10, <1>12, <1>15
  <2>2. \A t \in LiveSlots(after) : /\ after.slots[t].at >= after.start
                                    /\ after.slots[t].at + after.slots[t].len <= PageSize
    <3>1. \A t \in LiveSlots(page) : x.slots[t].at \in Nat
      <4>1. \A t \in LiveSlots(after) : after.slots[t].at \in Nat
        BY <1>13, LiveCells
      <4> QED
        BY <1>12, <1>14, <4>1
    <3>2. \A t \in LiveSlots(page) : x.slots[t].at >= x.start
      BY <1>9, <1>10, <3>1
    <3> QED
      BY <1>9, <1>12, <1>14, <3>2
  <2>3. \A t, u \in LiveSlots(after) : t # u =>
           \/ after.slots[t].at + after.slots[t].len <= after.slots[u].at
           \/ after.slots[u].at + after.slots[u].len <= after.slots[t].at
    BY <1>9, <1>12, <1>14
  <2>4. ASSUME NEW i \in DirectoryEnd(after) .. after.start - 1 PROVE after.bytes[i] = Zero
    <3>1. i \in 0 .. PageSize - 1 /\ e <= i /\ i < x.start
      BY <1>1, <1>9, <1>10, <1>12, <1>15, SMTT(30)
    <3> QED
      BY <1>16, <3>1
  <2> QED
    BY <1>13, <2>1, <2>2, <2>3, <2>4, SoundIfLaidOut
<1>18. ASSUME NEW s \in LiveSlots(page) PROVE GetCell(after, s) = GetCell(page, s)
  <2>1. PICK b, l : b = x.slots[s].at /\ l = x.slots[s].len
    OBVIOUS
  <2>2. b \in Nat /\ l \in Nat
    BY <1>12, <1>13, <1>14, <2>1, LiveCells
  <2>3. x.start <= b /\ b + l <= PageSize
    BY <1>9, <2>1
  <2>4. ASSUME NEW i \in 1 .. l PROVE after.bytes[b + i - 1] = x.bytes[b + i - 1]
    <3>1. PICK j : j = b + i - 1
      OBVIOUS
    <3>2. j \in 0 .. PageSize - 1 /\ x.start <= j
      BY <1>1, <1>10, <2>2, <2>3, <3>1
    <3> QED
      BY <1>16, <3>1, <3>2
  <2>5. GetCell(after, s) = GetCell(x, s)
    BY <1>12, <2>1, <2>4 DEF GetCell
  <2> QED
    BY <1>9, <2>5
<1>19. after.start - DirectoryEnd(after) >= ReclaimableSpace(page)
  <2>1. PICK u, d : u = LiveBytes(page) /\ d = DirectoryEnd(page)
    OBVIOUS
  <2>2. u \in Nat /\ PageSize - x.start = u
    BY <1>9, <2>1, LiveBytesOf
  <2>3. ReclaimableSpace(page) = PageSize - d - u /\ d \in Nat /\ e <= d
    BY <1>1, <1>15, <2>1 DEF ReclaimableSpace
  <2>4. PICK o : o = x.start /\ o \in Nat
    BY <1>10
  <2>5. PageSize - o = u
    BY <2>2, <2>4
  <2>6. o - e >= PageSize - d - u
    <3>1. PageSize \in Nat /\ e \in Nat /\ d \in Nat /\ e <= d
      BY <1>1, <1>15, <2>3
    <3>2. u \in Nat /\ o \in Nat
      BY <2>2, <2>4
    <3>3. o = PageSize - u
      BY <2>5, <3>1, <3>2
    <3> QED
      BY <3>1, <3>2, <3>3
  <2> QED
    BY <1>12, <1>15, <2>3, <2>4, <2>6
<1>20. m <= Len(after.slots)
  BY <1>4, <1>9, <1>12
<1> QED
  BY <1>13, <1>14, <1>17, <1>18, <1>19, <1>20

(* A deleted cell's bytes are reclaimable.                                 *)
LEMMA DeleteReclaims ==
    ASSUME NEW Byte, NEW page \in PageType(Byte), PageSound(page),
           NEW s \in LiveSlots(page), NEW gone, gone = DeleteCell(page, s)
    PROVE  /\ ReclaimableSpace(gone) = ReclaimableSpace(page) + page.slots[s].len
           /\ Len(gone.slots) = Len(page.slots) /\ DOMAIN gone.slots = DOMAIN page.slots
           /\ gone.start = page.start /\ DirectoryEnd(gone) = DirectoryEnd(page)
<1> DEFINE S == [at : Nat, len : Nat]
<1>1. gone \in PageType(Byte) /\ LiveSlots(gone) = LiveSlots(page) \ {s}
  BY DeleteCellKeeps
<1>2. page.slots \in Seq(S) /\ s \in 1 .. Len(page.slots) /\ page.slots[s].len \in Nat \ {0}
  BY LiveCells DEF PageType
<1>3. PICK q, e, k, l : /\ q = page.slots /\ e = Tombstone /\ k = Len(q)
                        /\ l = page.slots[s].len
  OBVIOUS
<1>4. gone.slots = [q EXCEPT ![s] = e] /\ gone.start = page.start
  BY <1>3 DEF DeleteCell, PageType
<1>5. /\ Len(gone.slots) = k /\ DOMAIN gone.slots = DOMAIN q /\ DOMAIN q = 1 .. k /\ k \in Nat
      /\ \A t \in 1 .. k : t # s => gone.slots[t] = q[t]
  <2>1. e \in S
    BY <1>3 DEF Tombstone, Slot
  <2> HIDE DEF S
  <2>2. q \in Seq(S) /\ s \in 1 .. Len(q)
    BY <1>2, <1>3
  <2>3. Len([q EXCEPT ![s] = e]) = Len(q) /\ [q EXCEPT ![s] = e] \in Seq(S)
    BY <2>1, <2>2, ExceptSeq
  <2>4. DOMAIN q = 1 .. Len(q) /\ Len(q) \in Nat
    BY <2>2, LenProperties
  <2>5. /\ DOMAIN [q EXCEPT ![s] = e] = DOMAIN q
        /\ \A t \in 1 .. Len(q) : t # s => [q EXCEPT ![s] = e][t] = q[t]
    BY <2>4
  <2> QED
    BY <1>3, <1>4, <2>3, <2>4, <2>5
<1>6. DirectoryEnd(gone) = DirectoryEnd(page)
  BY <1>3, <1>5 DEF DirectoryEnd
<1>7. PICK f, g : f = Lens(gone, LiveSlots(gone)) /\ g = Lens(page, LiveSlots(page))
  OBVIOUS
<1>8. f \in [1 .. k -> Nat] /\ g \in [1 .. k -> Nat]
  BY <1>1, <1>3, <1>5, <1>7, LensNat
<1>9. MoreBy(f, g, k, s, l)
  <2>1. f[s] = 0 /\ g[s] = l
    BY <1>1, <1>2, <1>3, <1>5, <1>7 DEF Lens
  <2>2. l \in Nat /\ g[s] = f[s] + l
    <3>1. l \in Nat
      BY <1>2, <1>3
    <3>2. 0 + l = l
      BY <3>1
    <3> QED
      BY <2>1, <3>1, <3>2
  <2>3. ASSUME NEW i \in 1 .. k, i # s PROVE g[i] = f[i]
    BY <1>1, <1>3, <1>5, <1>7, <2>3 DEF Lens
  <2> QED
    BY <2>2, <2>3 DEF MoreBy
<1>10. SumTo(g, k) = SumTo(f, k) + l
  <2>1. l \in Nat /\ s \in 1 .. k
    BY <1>2, <1>3
  <2>2. k \in Nat
    BY <1>5
  <2> QED
    BY <1>8, <1>9, <2>1, <2>2, SumPlus
<1>11. LiveBytes(page) = SumTo(g, k) /\ LiveBytes(gone) = SumTo(f, k)
  BY <1>1, <1>3, <1>5, <1>7, LiveBytesOf
<1>12. PICK u, v, d : u = LiveBytes(page) /\ v = LiveBytes(gone) /\ d = DirectoryEnd(page)
  OBVIOUS
<1>13. u \in Nat /\ v \in Nat /\ d \in Nat /\ PageSize \in Nat /\ l \in Nat
  BY <1>1, <1>2, <1>3, <1>12, LiveBytesOf, DirectoryEnds, SlottedAssumption
<1>14. u = v + l
  BY <1>10, <1>11, <1>12
<1>15. PageSize - d - v = PageSize - d - u + l
  BY <1>13, <1>14
<1> QED
  BY <1>3, <1>4, <1>5, <1>6, <1>12, <1>15 DEF ReclaimableSpace

(* A cell placed on a page with the room for it, packed first if its free  *)
(* bytes are not enough.                                                   *)
LEMMA PlacePacked ==
    ASSUME NEW Byte, Zero \in Byte, NEW page \in PageType(Byte), PageSound(page),
           NEW s \in 1 .. Len(page.slots), NEW data \in Seq(Byte), data # <<>>,
           FreeBytes(page) >= Len(data) \/ ReclaimableSpace(page) >= Len(data),
           NEW after,
           after = PlaceCell(IF FreeBytes(page) < Len(data)
                             THEN CompactKeeping(page, s) ELSE page, s, data)
    PROVE  /\ after \in PageType(Byte)
           /\ PageSound(after)
           /\ s \in LiveSlots(after) /\ GetCell(after, s) = data
           /\ OthersKept(page, after, s)
<1> DEFINE S == [at : Nat, len : Nat]
<1>1. Len(data) \in Nat /\ Len(data) \in Nat \ {0}
  OBVIOUS
<1>2. FreeBytes(page) = page.start - DirectoryEnd(page)
  BY FreeBytesOf
<1>3. page.start \in Nat /\ DirectoryEnd(page) \in Nat /\ page.start >= DirectoryEnd(page)
  BY LaidOut
<1>4. PICK b : b = IF FreeBytes(page) < Len(data) THEN CompactKeeping(page, s) ELSE page
  OBVIOUS
<1>5. /\ b \in PageType(Byte) /\ PageSound(b) /\ LiveSlots(b) = LiveSlots(page)
      /\ \A t \in LiveSlots(page) : GetCell(b, t) = GetCell(page, t)
      /\ s <= Len(b.slots) /\ b.start - DirectoryEnd(b) >= Len(data)
  <2>1. CASE FreeBytes(page) < Len(data)
    <3>1. b = CompactKeeping(page, s) /\ s \in 0 .. Len(page.slots)
      BY <1>4, <2>1
    <3>2. /\ b \in PageType(Byte) /\ PageSound(b) /\ LiveSlots(b) = LiveSlots(page)
          /\ \A t \in LiveSlots(page) : GetCell(b, t) = GetCell(page, t)
          /\ s <= Len(b.slots) /\ b.start - DirectoryEnd(b) >= ReclaimableSpace(page)
      BY <3>1, CompactKeeps
    <3>3. ReclaimableSpace(page) >= Len(data)
      BY <1>1, <1>2, <1>3, <2>1
    <3>4. PICK r, z : r = ReclaimableSpace(page) /\ z = b.start - DirectoryEnd(b)
      OBVIOUS
    <3>5. r \in Int
      BY <1>3, <3>4, LiveBytesOf, SlottedAssumption DEF ReclaimableSpace
    <3>6. z \in Int
      BY <3>2, <3>4, LaidOut
    <3>7. z >= Len(data)
      BY <1>1, <3>2, <3>3, <3>4, <3>5, <3>6
    <3> QED
      BY <3>2, <3>4, <3>7
  <2>2. CASE ~(FreeBytes(page) < Len(data))
    <3>1. b = page
      BY <1>4, <2>2
    <3>2. page.start - DirectoryEnd(page) >= Len(data)
      BY <1>1, <1>2, <1>3, <2>2
    <3>3. s <= Len(page.slots)
      OBVIOUS
    <3> QED
      BY <3>1, <3>2, <3>3
  <2> QED
    BY <2>1, <2>2
<1>6. s \in DOMAIN b.slots
  <2>1. b.slots \in Seq(S)
    BY <1>5 DEF PageType
  <2> HIDE DEF S
  <2>2. DOMAIN b.slots = 1 .. Len(b.slots) /\ Len(b.slots) \in Nat
    BY <2>1, LenProperties
  <2>3. s \in Nat /\ s >= 1
    OBVIOUS
  <2> QED
    BY <1>5, <2>2, <2>3
<1>7. b.start - Len(data) >= DirectoryEnd(b)
  <2>1. b.start \in Nat /\ DirectoryEnd(b) \in Nat
    BY <1>5, LaidOut
  <2> QED
    BY <1>1, <1>5, <2>1
<1>8. after = PlaceCell(b, s, data)
  BY <1>4
<1>9. /\ after \in PageType(Byte) /\ PageSound(after)
      /\ s \in LiveSlots(after) /\ GetCell(after, s) = data /\ OthersKept(b, after, s)
  BY <1>5, <1>6, <1>7, <1>8, PlaceCellKeeps
<1> QED
  BY <1>5, <1>9 DEF OthersKept

(* `update_cell`, whenever it does not say that the page is full: in place *)
(* of the cell, grown into the free bytes, or placed anew on the page as   *)
(* it is or packed, it leaves a sound page with the new cell in the same   *)
(* slot and every other cell as it was.                                    *)
THEOREM UpdateCellKeeps ==
    ASSUME NEW Byte, Zero \in Byte, NEW page \in PageType(Byte), PageSound(page),
           NEW s \in LiveSlots(page), NEW data \in Seq(Byte), data # <<>>,
           CanUpdateCell(page, s, data), NEW after, after = UpdateCell(page, s, data)
    PROVE  /\ after \in PageType(Byte)
           /\ PageSound(after)
           /\ s \in LiveSlots(after) /\ GetCell(after, s) = data
           /\ OthersKept(page, after, s)
<1>1. CASE \/ Len(data) <= page.slots[s].len
           \/ FreeBytes(page) >= Len(data) - page.slots[s].len
  BY <1>1, UpdateCellInPlace
<1>2. CASE ~(\/ Len(data) <= page.slots[s].len
             \/ FreeBytes(page) >= Len(data) - page.slots[s].len)
  <2>1. PICK gone : gone = DeleteCell(page, s)
    OBVIOUS
  <2>2. /\ gone \in PageType(Byte) /\ PageSound(gone)
        /\ LiveSlots(gone) = LiveSlots(page) \ {s} /\ OthersKept(page, gone, s)
    BY <2>1, DeleteCellKeeps
  <2>3. /\ ReclaimableSpace(gone) = ReclaimableSpace(page) + page.slots[s].len
        /\ Len(gone.slots) = Len(page.slots)
    BY <2>1, DeleteReclaims
  <2>4. s \in 1 .. Len(gone.slots)
    BY <2>3, LiveCells
  <2>5. ReclaimableSpace(gone) >= Len(data)
    BY <1>2, <2>3 DEF CanUpdateCell
  <2>6. after = PlaceCell(IF FreeBytes(gone) < Len(data)
                          THEN CompactKeeping(gone, s) ELSE gone, s, data)
    BY <1>2, <2>1 DEF UpdateCell
  <2>7. /\ after \in PageType(Byte) /\ PageSound(after)
        /\ s \in LiveSlots(after) /\ GetCell(after, s) = data
        /\ OthersKept(gone, after, s)
    BY <2>2, <2>4, <2>5, <2>6, PlacePacked
  <2>8. OthersKept(page, after, s)
    BY <2>2, <2>7 DEF OthersKept
  <2> QED
    BY <2>7, <2>8
<1> QED
  BY <1>1, <1>2

(* `insert_cell_reusing_slot`, where `fits_reusing_slot` says so: in the   *)
(* first tombstone or a new slot, packing the page if it has to, the cell  *)
(* is on a sound page and every other cell is as it was.                   *)
THEOREM InsertReusingKeeps ==
    ASSUME NEW Byte, Zero \in Byte, NEW page \in PageType(Byte), PageSound(page),
           NEW data \in Seq(Byte), data # <<>>, FitsReusingSlot(page, Len(data)),
           NEW put, put = InsertCellReusingSlot(page, data)
    PROVE  /\ put.page \in PageType(Byte)
           /\ PageSound(put.page)
           /\ put.slot \notin LiveSlots(page) /\ put.slot \in LiveSlots(put.page)
           /\ GetCell(put.page, put.slot) = data
           /\ OthersKept(page, put.page, put.slot)
<1>1. Len(data) \in Nat \ {0} /\ Len(page.slots) \in Nat
  BY DirectoryEnds
<1>2. CASE Tombstones(page) = {}
  <2>1. PICK b : b = IF ~HasRoomFor(page, Len(data)) THEN CompactKeeping(page, 0) ELSE page
    OBVIOUS
  <2>2. /\ b \in PageType(Byte) /\ PageSound(b) /\ LiveSlots(b) = LiveSlots(page)
        /\ \A t \in LiveSlots(page) : GetCell(b, t) = GetCell(page, t)
        /\ HasRoomFor(b, Len(data))
    <3>1. CASE HasRoomFor(page, Len(data))
      BY <2>1, <3>1
    <3>2. CASE ~HasRoomFor(page, Len(data))
      <4>1. 0 \in 0 .. Len(page.slots) /\ b = CompactKeeping(page, 0)
        BY <1>1, <2>1, <3>2
      <4>2. /\ b \in PageType(Byte) /\ PageSound(b) /\ LiveSlots(b) = LiveSlots(page)
            /\ \A t \in LiveSlots(page) : GetCell(b, t) = GetCell(page, t)
            /\ b.start - DirectoryEnd(b) >= ReclaimableSpace(page)
        BY <4>1, CompactKeeps
      <4>3. ReclaimableSpace(page) >= SpaceNeeded(Len(data))
        BY <1>2, <3>2 DEF FitsReusingSlot
      <4>4. PICK r, z, m : /\ r = ReclaimableSpace(page) /\ z = b.start - DirectoryEnd(b)
                           /\ m = SpaceNeeded(Len(data))
        OBVIOUS
      <4>5. r \in Int /\ z \in Int /\ m \in Int
        <5>1. r \in Int
          BY <4>4, LiveBytesOf, DirectoryEnds, SlottedAssumption DEF ReclaimableSpace
        <5>2. z \in Int
          BY <4>2, <4>4, LaidOut
        <5>3. m \in Int
          BY <1>1, <4>4, SlottedAssumption DEF SpaceNeeded
        <5> QED
          BY <5>1, <5>2, <5>3
      <4>6. z >= m
        BY <4>2, <4>3, <4>4, <4>5
      <4>7. FreeBytes(b) = z
        BY <4>2, <4>4, FreeBytesOf
      <4> QED
        BY <4>2, <4>4, <4>6, <4>7 DEF HasRoomFor
    <3> QED
      BY <3>1, <3>2
  <2>3. put = InsertCell(b, data)
    BY <1>2, <2>1 DEF InsertCellReusingSlot
  <2>4. /\ put.page \in PageType(Byte) /\ PageSound(put.page)
        /\ put.slot \notin LiveSlots(b) /\ put.slot \in LiveSlots(put.page)
        /\ GetCell(put.page, put.slot) = data /\ OthersKept(b, put.page, put.slot)
    BY <2>2, <2>3, InsertCellKeeps
  <2> QED
    BY <2>2, <2>4 DEF OthersKept
<1>3. CASE Tombstones(page) # {}
  <2>1. PICK s, q : s = Min(Tombstones(page)) /\ q = page.slots
    OBVIOUS
  <2>2. Tombstones(page) \subseteq 1 .. Len(page.slots)
    <3> DEFINE S == [at : Nat, len : Nat]
    <3>1. page.slots \in Seq(S)
      BY DEF PageType
    <3> HIDE DEF S
    <3>2. DOMAIN page.slots = 1 .. Len(page.slots)
      BY <3>1, LenProperties
    <3> QED
      BY <3>2 DEF Tombstones
  <2>3. s \in Tombstones(page)
    <3>1. Tombstones(page) \subseteq Nat
      BY <1>1, <2>2
    <3>2. \E z \in Tombstones(page) : \A y \in Tombstones(page) : z <= y
      BY <1>3, <3>1, NatMin
    <3> QED
      BY <2>1, <3>2 DEF Min
  <2>4. s \in 1 .. Len(page.slots) /\ s \notin LiveSlots(page)
    BY <2>2, <2>3 DEF Tombstones
  <2>5. ReclaimableSpace(page) >= Len(data)
    BY <1>3 DEF FitsReusingSlot
  <2>6. PICK after : after = PlaceCell(IF FreeBytes(page) < Len(data)
                                       THEN CompactKeeping(page, s) ELSE page, s, data)
    OBVIOUS
  <2>7. put.page = after /\ put.slot = s
    BY <1>3, <2>1, <2>6 DEF InsertCellReusingSlot
  <2>8. /\ after \in PageType(Byte) /\ PageSound(after)
        /\ s \in LiveSlots(after) /\ GetCell(after, s) = data
        /\ OthersKept(page, after, s)
    BY <2>4, <2>5, <2>6, PlacePacked
  <2> QED
    BY <2>4, <2>7, <2>8
<1> QED
  BY <1>2, <1>3

(* `overlapping_cells`, which the integrity check asks, says nothing of a  *)
(* sound page.                                                             *)
THEOREM NoneOverlap ==
    ASSUME NEW Byte, NEW page \in PageType(Byte), PageSound(page)
    PROVE  ~OverlappingCells(page)
<1>1. PICK q, c : q = HighestFirst(page) /\ c = Cardinality(LiveSlots(page))
  OBVIOUS
<1>2. c \in Nat /\ IsOrder(page, q) /\ Len(q) = c
  BY <1>1, LiveFinite, OrderRight
<1>3. /\ q \in [1 .. c -> LiveSlots(page)]
      /\ \A i, j \in 1 .. c : i < j => page.slots[q[i]].at > page.slots[q[j]].at
  BY <1>1, <1>2 DEF IsOrder
<1>4. /\ \A t \in LiveSlots(page) :
            page.slots[t].at \in Nat /\ page.slots[t].len \in Nat \ {0}
      /\ \A t, u \in LiveSlots(page) : t # u =>
            \/ page.slots[t].at + page.slots[t].len <= page.slots[u].at
            \/ page.slots[u].at + page.slots[u].len <= page.slots[t].at
  BY LaidOut
<1>5. ASSUME NEW i \in 1 .. c - 1
      PROVE  ~(page.slots[q[i + 1]].at + page.slots[q[i + 1]].len > page.slots[q[i]].at)
  <2>1. i \in 1 .. c /\ i + 1 \in 1 .. c /\ i < i + 1
    BY <1>2
  <2>2. PICK s, t : s = q[i] /\ t = q[i + 1]
    OBVIOUS
  <2>3. s \in LiveSlots(page) /\ t \in LiveSlots(page) /\ page.slots[s].at > page.slots[t].at
    BY <1>3, <2>1, <2>2
  <2>4. PICK a, l, b, m : /\ a = page.slots[s].at /\ l = page.slots[s].len
                          /\ b = page.slots[t].at /\ m = page.slots[t].len
    OBVIOUS
  <2>5. a \in Nat /\ l \in Nat \ {0} /\ b \in Nat /\ m \in Nat \ {0} /\ a > b
    BY <1>4, <2>3, <2>4
  <2>6. s # t
    BY <2>4, <2>5
  <2>7. a + l <= b \/ b + m <= a
    BY <1>4, <2>3, <2>4, <2>6
  <2>8. ~(b + m > a)
    BY <2>5, <2>7
  <2> QED
    BY <2>2, <2>4, <2>8
<1> QED
  BY <1>1, <1>2, <1>5 DEF OverlappingCells

-----------------------------------------------------------------------------
(* No operation on a page makes a slot live but its own.                   *)

LEMMA PlaceLive ==
    ASSUME NEW Byte, NEW page \in PageType(Byte), NEW s \in DOMAIN page.slots,
           NEW data, NEW after, after = PlaceCell(page, s, data)
    PROVE  LiveSlots(after) \subseteq LiveSlots(page) \cup {s}
<1>1. page.slots \in Seq([at : Nat, len : Nat])
  BY DEF PageType
<1>2. after.slots = [page.slots EXCEPT ![s] = Slot(page.start - Len(data), Len(data))]
  BY DEF PlaceCell
<1> QED
  BY <1>1, <1>2 DEF LiveSlots

LEMMA InsertLive ==
    ASSUME NEW Byte, NEW page \in PageType(Byte), NEW data, NEW put,
           put = InsertCell(page, data)
    PROVE  LiveSlots(put.page) \subseteq LiveSlots(page) \cup {put.slot}
<1> DEFINE S == [at : Nat, len : Nat]
<1>1. page.slots \in Seq(S) /\ Tombstone \in S /\ Tombstone.len = 0
  BY DEF PageType, Tombstone, Slot
<1>2. PICK q, n : q = Append(page.slots, Tombstone) /\ n = Len(page.slots)
  OBVIOUS
<1>3. /\ n \in Nat /\ DOMAIN q = 1 .. n + 1 /\ DOMAIN page.slots = 1 .. n
      /\ \A t \in 1 .. n : q[t] = page.slots[t]
  <2> HIDE DEF S
  <2> QED
    BY <1>1, <1>2, AppendProperties, LenProperties
<1>4. put.slot = n + 1
  BY <1>2 DEF InsertCell
<1>5. put.page.slots = [q EXCEPT ![n + 1] = Slot(page.start - Len(data), Len(data))]
  BY <1>2 DEF InsertCell, PlaceCell, PageType
<1>6. ASSUME NEW t \in LiveSlots(put.page), t # n + 1 PROVE t \in LiveSlots(page)
  <2>1. t \in 1 .. n /\ put.page.slots[t] = q[t] /\ put.page.slots[t].len # 0
    BY <1>3, <1>5, <1>6 DEF LiveSlots
  <2> QED
    BY <1>3, <2>1 DEF LiveSlots
<1> QED
  BY <1>4, <1>6

LEMMA ReusingLive ==
    ASSUME NEW Byte, Zero \in Byte, NEW page \in PageType(Byte), PageSound(page),
           NEW data \in Seq(Byte), NEW put, put = InsertCellReusingSlot(page, data)
    PROVE  LiveSlots(put.page) \subseteq LiveSlots(page) \cup {put.slot}
<1>1. Len(page.slots) \in Nat
  BY DirectoryEnds
<1>2. CASE Tombstones(page) = {}
  <2>1. PICK b : b = IF ~HasRoomFor(page, Len(data)) THEN CompactKeeping(page, 0) ELSE page
    OBVIOUS
  <2>2. b \in PageType(Byte) /\ LiveSlots(b) = LiveSlots(page)
    <3>1. 0 \in 0 .. Len(page.slots)
      BY <1>1
    <3> QED
      BY <2>1, <3>1, CompactKeeps
  <2>3. put = InsertCell(b, data)
    BY <1>2, <2>1 DEF InsertCellReusingSlot
  <2> QED
    BY <2>2, <2>3, InsertLive
<1>3. CASE Tombstones(page) # {}
  <2>1. PICK s, b : /\ s = Min(Tombstones(page))
                    /\ b = IF FreeBytes(page) < Len(data) THEN CompactKeeping(page, s) ELSE page
    OBVIOUS
  <2>2. DOMAIN page.slots = 1 .. Len(page.slots)
    BY DEF PageType
  <2>3. s \in Tombstones(page)
    <3>1. Tombstones(page) \subseteq Nat
      BY <1>1, <2>2 DEF Tombstones
    <3>2. \E z \in Tombstones(page) : \A y \in Tombstones(page) : z <= y
      BY <1>3, <3>1, NatMin
    <3> QED
      BY <2>1, <3>2 DEF Min
  <2>4. s \in 1 .. Len(page.slots) /\ s \in 0 .. Len(page.slots)
    BY <1>1, <2>2, <2>3 DEF Tombstones
  <2>5. b \in PageType(Byte) /\ LiveSlots(b) = LiveSlots(page) /\ s <= Len(b.slots)
    BY <1>1, <2>1, <2>4, CompactKeeps
  <2>6. s \in DOMAIN b.slots
    <3>1. DOMAIN b.slots = 1 .. Len(b.slots) /\ Len(b.slots) \in Nat
      BY <2>5 DEF PageType
    <3> QED
      BY <1>1, <2>4, <2>5, <3>1
  <2>7. put.page = PlaceCell(b, s, data) /\ put.slot = s
    BY <1>3, <2>1 DEF InsertCellReusingSlot
  <2> QED
    BY <2>5, <2>6, <2>7, PlaceLive
<1> QED
  BY <1>2, <1>3

LEMMA UpdateLive ==
    ASSUME NEW Byte, Zero \in Byte, NEW page \in PageType(Byte), PageSound(page),
           NEW s \in LiveSlots(page), NEW data \in Seq(Byte),
           NEW after, after = UpdateCell(page, s, data)
    PROVE  LiveSlots(after) \subseteq LiveSlots(page) \cup {s}
<1>1. page.slots \in Seq([at : Nat, len : Nat]) /\ s \in DOMAIN page.slots
  BY DEF PageType, LiveSlots
<1>2. CASE Len(data) <= page.slots[s].len
  <2>1. after.slots = [page.slots EXCEPT ![s].len = Len(data)]
    BY <1>2 DEF UpdateCell, PageType
  <2> QED
    BY <1>1, <2>1 DEF LiveSlots
<1>3. CASE ~(Len(data) <= page.slots[s].len) /\ FreeBytes(page) >= Len(data) - page.slots[s].len
  <2>1. after = GrowCell(page, s, data)
    BY <1>3 DEF UpdateCell
  <2>2. /\ DOMAIN after.slots = DOMAIN page.slots
        /\ \A t \in DOMAIN page.slots : t # s => after.slots[t].len = page.slots[t].len
    BY <2>1 DEF GrowCell, Slot
  <2> QED
    BY <2>2 DEF LiveSlots
<1>4. CASE ~(Len(data) <= page.slots[s].len) /\ ~(FreeBytes(page) >= Len(data) - page.slots[s].len)
  <2>1. PICK gone, b : /\ gone = DeleteCell(page, s)
                       /\ b = IF FreeBytes(gone) < Len(data) THEN CompactKeeping(gone, s) ELSE gone
    OBVIOUS
  <2>2. after = PlaceCell(b, s, data)
    BY <1>4, <2>1 DEF UpdateCell
  <2>3. /\ gone \in PageType(Byte) /\ PageSound(gone) /\ LiveSlots(gone) = LiveSlots(page) \ {s}
        /\ Len(gone.slots) = Len(page.slots)
    BY <2>1, DeleteCellKeeps, DeleteReclaims
  <2>4. Len(page.slots) \in Nat /\ s \in 1 .. Len(page.slots)
    BY LiveCells, DirectoryEnds
  <2>5. s \in 0 .. Len(gone.slots)
    BY <2>3, <2>4
  <2>6. b \in PageType(Byte) /\ LiveSlots(b) = LiveSlots(gone) /\ s <= Len(b.slots)
    BY <2>1, <2>3, <2>4, <2>5, CompactKeeps
  <2>7. s \in DOMAIN b.slots
    <3>1. DOMAIN b.slots = 1 .. Len(b.slots) /\ Len(b.slots) \in Nat
      BY <2>6 DEF PageType
    <3> QED
      BY <2>4, <2>6, <3>1
  <2> QED
    BY <2>2, <2>3, <2>6, <2>7, PlaceLive
<1> QED
  BY <1>2, <1>3, <1>4

-----------------------------------------------------------------------------
(* What the heap is, in parts.                                             *)

(* The bytes of cells and chains, and what a page may be.                  *)
HeapByte == {Zero} \cup ({"inline", "overflow"} \X Doc) \cup (Value \X Nat)
              \cup ({"chain"} \X Nat \X PageId)
SoundPage == {page \in PageType(HeapByte) : PageSound(page)}
PageSet == {FreePage} \cup {Data(page) : page \in SoundPage}
             \cup {Overflow(next, bytes) : next \in 0 .. MaxPages, bytes \in Seq(HeapByte)}

(* The chain c of pages holds `bytes`, its pages linked in order.          *)
IsChain(ps, c, bytes) ==
    /\ c \in Seq(PageId) /\ Len(c) = PagesOf(Len(bytes))
    /\ \A i, j \in 1 .. Len(c) : c[i] = c[j] => i = j
    /\ \A i \in 1 .. Len(c) : ps[c[i]] = Link(c, i, bytes)
ChainFor(ps, v, c) == IF IsInline(v) THEN c = <<>> ELSE IsChain(ps, c, Encoded(v))

(* The cell of the document d written as v, its chain being c; and a place *)
(* that holds it.                                                          *)
CellOf(d, v, c) ==
    IF IsInline(v) THEN HeaderOf("inline", d) \o Encoded(v)
    ELSE HeaderOf("overflow", d) \o PointerTo(SizeOf[v], c[1])
CellAt(ps, loc, cell) ==
    /\ ps[loc.page].kind = "data" /\ loc.slot \in LiveSlots(ps[loc.page].page)
    /\ GetCell(ps[loc.page].page, loc.slot) = cell
Held(ps, loc, d, v, c) == CellAt(ps, loc, CellOf(d, v, c)) /\ ChainFor(ps, v, c)

(* The pages ps hold the documents `now` at their places `at`, the chain   *)
(* of d being ch[d].  Beside them there may be a chain with no cell yet,   *)
(* of the pages `extra`, cells with no document, at `loose`, and pages     *)
(* with no cell, in `ok`.                                                  *)
DocsTyped(at, now, ch) ==
    /\ DOMAIN at \subseteq Doc
    /\ at \in [DOMAIN at -> [page : PageId, slot : Nat]]
    /\ now \in [DOMAIN at -> Value]
    /\ ch \in [DOMAIN at -> Seq(PageId)]
AllHeld(ps, at, now, ch) == \A d \in DOMAIN at : Held(ps, at[d], d, now[d], ch[d])
Apart(at, ch) ==
    \A d, e \in DOMAIN at : d # e => at[d] # at[e] /\ Range(ch[d]) \cap Range(ch[e]) = {}
ExtraApart(ps, at, ch, extra) ==
    /\ extra \subseteq PageId
    /\ \A p \in extra : ps[p].kind = "overflow"
    /\ \A d \in DOMAIN at : Range(ch[d]) \cap extra = {}
ChainsOwned(ps, at, ch, extra) ==
    \A p \in PageId : ps[p].kind = "overflow" =>
       p \in extra \/ \E d \in DOMAIN at : p \in Range(ch[d])
LooseApart(at, loose) == \A d \in DOMAIN at : at[d] \notin loose
CellsOwned(ps, at, loose) ==
    \A p \in PageId : ps[p].kind = "data" => \A s \in LiveSlots(ps[p].page) :
       Location(p, s) \in loose \/ \E d \in DOMAIN at : at[d] = Location(p, s)
NoneEmpty(ps, ok) ==
    \A p \in PageId : ps[p].kind = "data" => p \in ok \/ ~IsEmpty(ps[p].page)
Body(ps, ok, loose, at, now, ch, extra) ==
    /\ ps \in [PageId -> PageSet]
    /\ DocsTyped(at, now, ch)
    /\ AllHeld(ps, at, now, ch)
    /\ Apart(at, ch)
    /\ ExtraApart(ps, at, ch, extra)
    /\ ChainsOwned(ps, at, ch, extra)
    /\ LooseApart(at, loose)
    /\ CellsOwned(ps, at, loose)
    /\ NoneEmpty(ps, ok)

(* The free-space map is right but for the pages `but`; the current page   *)
(* is one.                                                                 *)
RoomSet == UNION {[D -> Nat] : D \in SUBSET PageId}
RoomRight(h, p) ==
    /\ h.pages[p].kind = "data" /\ p # h.current
    /\ h.free[p] = ReclaimableSpace(h.pages[p].page)
    /\ h.free[p] >= MinRoomToStay
RoomsRight(h, but) == \A p \in DOMAIN h.free \ but : RoomRight(h, p)
HeapSet == [pages : [PageId -> PageSet], current : 0 .. MaxPages, free : RoomSet]
CurrentRight(h) == h.current # NoPage => h.pages[h.current].kind = "data"

(* The whole of it, between two operations.                                *)
Kept(h, at, now) ==
    /\ h \in HeapSet
    /\ RoomsRight(h, {}) /\ CurrentRight(h)
    /\ \E ch : Body(h.pages, {h.current}, {}, at, now, ch, {})
HeapInv == Kept(heap, locs, docs)

(* What a page may be, told by its kind.                                   *)
LEMMA PageKinds ==
    ASSUME NEW x \in PageSet
    PROVE  \/ x = FreePage /\ x.kind = "free"
           \/ /\ x.kind = "data" /\ x = Data(x.page) /\ x # FreePage
              /\ x.page \in PageType(HeapByte) /\ PageSound(x.page)
           \/ x.kind = "overflow" /\ x # FreePage
<1>1. CASE x = FreePage
  BY <1>1 DEF FreePage
<1>2. ASSUME NEW page \in SoundPage, x = Data(page) PROVE x.kind = "data" /\ x.page = page
  BY <1>2 DEF Data
<1>3. ASSUME NEW next, NEW bytes, x = Overflow(next, bytes) PROVE x.kind = "overflow"
  BY <1>3 DEF Overflow
<1>4. FreePage.kind = "free"
  BY DEF FreePage
<1> QED
  BY <1>1, <1>2, <1>3, <1>4 DEF PageSet, SoundPage

LEMMA DataInSet ==
    ASSUME NEW page \in PageType(HeapByte), PageSound(page)
    PROVE  Data(page) \in PageSet /\ Data(page).kind = "data" /\ Data(page).page = page
           /\ Data(page) # FreePage
BY DEF Data, PageSet, SoundPage, FreePage

LEMMA FreeInSet == FreePage \in PageSet /\ FreePage.kind = "free"
BY DEF FreePage, PageSet

(* A chain is of overflow pages.                                           *)
LEMMA ChainKind ==
    ASSUME NEW ps, NEW v, NEW c \in Seq(PageId), ChainFor(ps, v, c), NEW p \in Range(c)
    PROVE  ps[p].kind = "overflow"
<1>1. ~IsInline(v)
  BY DEF ChainFor, Range
<1>2. PICK i \in 1 .. Len(c) : p = c[i]
  BY DEF Range
<1>3. ps[p] = Link(c, i, Encoded(v))
  BY <1>1, <1>2 DEF ChainFor, IsChain
<1> QED
  BY <1>3 DEF Link, Overflow

(* A document is held still if its cell is, and its chain.                 *)
LEMMA HeldKept ==
    ASSUME NEW ps, NEW ps2, NEW loc, NEW d, NEW v, NEW c \in Seq(PageId),
           Held(ps, loc, d, v, c),
           CellAt(ps2, loc, CellOf(d, v, c)),
           \A p \in Range(c) : ps2[p] = ps[p]
    PROVE  Held(ps2, loc, d, v, c)
<1>1. \A i \in 1 .. Len(c) : ps2[c[i]] = ps[c[i]]
  BY DEF Range
<1>2. ChainFor(ps2, v, c)
  BY <1>1 DEF Held, ChainFor, IsChain
<1> QED
  BY <1>2 DEF Held

-----------------------------------------------------------------------------
(* The steps the operations are made of.                                   *)

(* A document that is about to go, or to be written anew: its cell is      *)
(* loose, its chain is nobody's.                                           *)
LEMMA BodyForget ==
    ASSUME NEW ps, NEW ok, NEW at, NEW now, NEW ch, NEW d \in DOMAIN at,
           Body(ps, ok, {}, at, now, ch, {})
    PROVE  Body(ps, ok, {at[d]}, RemoveRoom(at, d), RemoveRoom(now, d),
                RemoveRoom(ch, d), Range(ch[d]))
<1> DEFINE D == DOMAIN at \ {d}
<1>1. PICK a, n, c : a = RemoveRoom(at, d) /\ n = RemoveRoom(now, d) /\ c = RemoveRoom(ch, d)
  OBVIOUS
<1>2. /\ DocsTyped(at, now, ch) /\ AllHeld(ps, at, now, ch) /\ Apart(at, ch)
      /\ ExtraApart(ps, at, ch, {}) /\ ChainsOwned(ps, at, ch, {})
      /\ CellsOwned(ps, at, {}) /\ NoneEmpty(ps, ok) /\ ps \in [PageId -> PageSet]
  BY DEF Body
<1>3. /\ DOMAIN at \subseteq Doc /\ at \in [DOMAIN at -> [page : PageId, slot : Nat]]
      /\ now \in [DOMAIN at -> Value] /\ ch \in [DOMAIN at -> Seq(PageId)]
  BY <1>2 DEF DocsTyped
<1>4. /\ DOMAIN a = D /\ DOMAIN n = D /\ DOMAIN c = D
      /\ \A e \in D : a[e] = at[e] /\ n[e] = now[e] /\ c[e] = ch[e]
      /\ a \in [D -> [page : PageId, slot : Nat]]
      /\ n \in [D -> Value] /\ c \in [D -> Seq(PageId)]
  BY <1>1, <1>3 DEF RemoveRoom, Restrict
<1>5. DocsTyped(a, n, c)
  BY <1>3, <1>4 DEF DocsTyped
<1>6. AllHeld(ps, a, n, c)
  BY <1>2, <1>4 DEF AllHeld
<1>7. Apart(a, c)
  BY <1>2, <1>4 DEF Apart
<1>8. ExtraApart(ps, a, c, Range(ch[d]))
  <2>1. \A p \in Range(ch[d]) : p \in PageId /\ ps[p].kind = "overflow"
    <3>1. ch[d] \in Seq(PageId) /\ ChainFor(ps, now[d], ch[d])
      BY <1>2, <1>3 DEF AllHeld, Held
    <3>2. \A p \in Range(ch[d]) : p \in PageId
      BY <3>1 DEF Range
    <3> QED
      BY <3>1, <3>2, ChainKind
  <2> QED
    BY <1>2, <1>4, <2>1 DEF ExtraApart, Apart
<1>9. ChainsOwned(ps, a, c, Range(ch[d]))
  BY <1>2, <1>4 DEF ChainsOwned
<1>10. LooseApart(a, {at[d]})
  BY <1>2, <1>4 DEF LooseApart, Apart
<1>11. CellsOwned(ps, a, {at[d]})
  BY <1>2, <1>4 DEF CellsOwned
<1> QED
  BY <1>1, <1>2, <1>5, <1>6, <1>7, <1>8, <1>9, <1>10, <1>11 DEF Body

(* Documents are held still if the pages of cells and of their chains are  *)
(* as they were.                                                           *)
LEMMA AllHeldKept ==
    ASSUME NEW ps, NEW ps2, NEW at, NEW now, NEW ch,
           DocsTyped(at, now, ch), AllHeld(ps, at, now, ch),
           \A p \in PageId : ps[p].kind = "data" => ps2[p] = ps[p],
           \A d \in DOMAIN at : \A p \in Range(ch[d]) : ps2[p] = ps[p]
    PROVE  AllHeld(ps2, at, now, ch)
<1> SUFFICES ASSUME NEW d \in DOMAIN at PROVE Held(ps2, at[d], d, now[d], ch[d])
  BY DEF AllHeld
<1>1. at[d].page \in PageId /\ ch[d] \in Seq(PageId)
  BY DEF DocsTyped
<1>2. Held(ps, at[d], d, now[d], ch[d])
  BY DEF AllHeld
<1>3. CellAt(ps2, at[d], CellOf(d, now[d], ch[d]))
  BY <1>1, <1>2 DEF Held, CellAt
<1> QED
  BY <1>1, <1>2, <1>3, HeldKept

(* `free_chain`: a chain of nobody's is freed.                             *)
LEMMA BodyFreed ==
    ASSUME NEW ps, NEW ok, NEW loose, NEW at, NEW now, NEW ch, NEW extra,
           Body(ps, ok, loose, at, now, ch, extra)
    PROVE  Body(FreeAll(ps, extra), ok, loose, at, now, ch, {})
<1>1. PICK ps2 : ps2 = FreeAll(ps, extra)
  OBVIOUS
<1>2. /\ DocsTyped(at, now, ch) /\ AllHeld(ps, at, now, ch) /\ Apart(at, ch)
      /\ ExtraApart(ps, at, ch, extra) /\ ChainsOwned(ps, at, ch, extra)
      /\ CellsOwned(ps, at, loose) /\ NoneEmpty(ps, ok) /\ ps \in [PageId -> PageSet]
      /\ LooseApart(at, loose)
  BY DEF Body
<1>3. /\ \A p \in PageId \ extra : ps2[p] = ps[p]
      /\ \A p \in extra : ps2[p].kind = "free" /\ ps[p].kind = "overflow" /\ p \in PageId
      /\ ps2 \in [PageId -> PageSet]
  <2>1. \A p \in PageId : ps2[p] = IF p \in extra THEN FreePage ELSE ps[p]
    BY <1>1 DEF FreeAll
  <2>2. ps2 \in [PageId -> PageSet]
    BY <1>1, <1>2, FreeInSet DEF FreeAll
  <2> QED
    BY <1>2, <2>1, <2>2, FreeInSet DEF ExtraApart
<1>4. \A p \in PageId : ps[p].kind = "data" => ps2[p] = ps[p]
  BY <1>3
<1>5. \A p \in PageId : ps2[p].kind = "data" => ps2[p] = ps[p]
  BY <1>3
<1>6. \A d \in DOMAIN at : \A p \in Range(ch[d]) : ps2[p] = ps[p]
  BY <1>2, <1>3 DEF ExtraApart, DocsTyped, Range
<1>7. AllHeld(ps2, at, now, ch)
  BY <1>2, <1>4, <1>6, AllHeldKept
<1>8. ExtraApart(ps2, at, ch, {})
  BY DEF ExtraApart
<1>9. ChainsOwned(ps2, at, ch, {})
  BY <1>2, <1>3 DEF ChainsOwned
<1>10. CellsOwned(ps2, at, loose)
  BY <1>2, <1>5 DEF CellsOwned
<1>11. NoneEmpty(ps2, ok)
  BY <1>2, <1>5 DEF NoneEmpty
<1> QED
  BY <1>1, <1>2, <1>3, <1>7, <1>8, <1>9, <1>10, <1>11 DEF Body

(* A cell is put on a page, in a slot that no document has: on a new page, *)
(* among others, or in the place of one that is loose.                     *)
LEMMA BodyPut ==
    ASSUME NEW ps, NEW ok, NEW loose, NEW at, NEW now, NEW ch, NEW c \in Seq(PageId),
           Body(ps, ok, loose, at, now, ch, Range(c)),
           NEW p \in PageId, NEW old, NEW new \in PageType(HeapByte), PageSound(new),
           \/ ps[p].kind = "data" /\ old = ps[p].page
           \/ ps[p].kind = "free" /\ LiveSlots(old) = {},
           NEW s \in Nat, NEW d \in Doc, NEW v \in Value, d \notin DOMAIN at,
           \A e \in DOMAIN at : at[e] # Location(p, s),
           loose \subseteq {Location(p, s)},
           LiveSlots(new) \subseteq LiveSlots(old) \cup {s}, s \in LiveSlots(new),
           GetCell(new, s) = CellOf(d, v, c), OthersKept(old, new, s),
           ChainFor(ps, v, c)
    PROVE  Body([ps EXCEPT ![p] = Data(new)], ok, {}, SetRoom(at, d, Location(p, s)),
                SetRoom(now, d, v), SetRoom(ch, d, c), {})
<1> DEFINE D == DOMAIN at \cup {d}
<1>1. PICK ps2, a, n, k :
         /\ ps2 = [ps EXCEPT ![p] = Data(new)] /\ a = SetRoom(at, d, Location(p, s))
         /\ n = SetRoom(now, d, v) /\ k = SetRoom(ch, d, c)
  OBVIOUS
<1>2. /\ DocsTyped(at, now, ch) /\ AllHeld(ps, at, now, ch) /\ Apart(at, ch)
      /\ ExtraApart(ps, at, ch, Range(c)) /\ ChainsOwned(ps, at, ch, Range(c))
      /\ CellsOwned(ps, at, loose) /\ NoneEmpty(ps, ok) /\ ps \in [PageId -> PageSet]
      /\ LooseApart(at, loose)
  BY DEF Body
<1>3. /\ DOMAIN at \subseteq Doc /\ at \in [DOMAIN at -> [page : PageId, slot : Nat]]
      /\ now \in [DOMAIN at -> Value] /\ ch \in [DOMAIN at -> Seq(PageId)]
      /\ DOMAIN now = DOMAIN at /\ DOMAIN ch = DOMAIN at
  BY <1>2 DEF DocsTyped
<1>4. /\ DOMAIN a = D /\ DOMAIN n = D /\ DOMAIN k = D
      /\ \A e \in DOMAIN at : a[e] = at[e] /\ n[e] = now[e] /\ k[e] = ch[e] /\ e # d
      /\ a[d] = Location(p, s) /\ n[d] = v /\ k[d] = c /\ d \in D
      /\ a \in [D -> [page : PageId, slot : Nat]]
      /\ n \in [D -> Value] /\ k \in [D -> Seq(PageId)]
  BY <1>1, <1>3 DEF SetRoom, Location
<1>5. /\ ps2[p].kind = "data" /\ ps2[p].page = new /\ ps2 \in [PageId -> PageSet]
      /\ \A q \in PageId \ {p} : ps2[q] = ps[q]
  BY <1>1, <1>2, DataInSet
<1>6. \A q \in PageId : ps[q].kind = "overflow" => ps2[q] = ps[q]
  BY <1>5
<1>7. DocsTyped(a, n, k)
  BY <1>3, <1>4 DEF DocsTyped
<1>8. AllHeld(ps2, a, n, k)
  <2>1. ASSUME NEW e \in DOMAIN at PROVE Held(ps2, at[e], e, now[e], ch[e])
    <3>1. Held(ps, at[e], e, now[e], ch[e]) /\ ch[e] \in Seq(PageId)
      BY <1>2, <1>3 DEF AllHeld
    <3>2. CellAt(ps2, at[e], CellOf(e, now[e], ch[e]))
      <4>1. CASE at[e].page # p
        <5>1. ps2[at[e].page] = ps[at[e].page]
          BY <1>3, <1>5, <4>1
        <5> QED
          BY <3>1, <5>1 DEF Held, CellAt
      <4>2. CASE at[e].page = p
        <5>1. at[e].slot # s
          BY <1>3, <4>2 DEF Location
        <5>2. ps[p].kind = "data" /\ old = ps[p].page /\ at[e].slot \in LiveSlots(old)
              /\ GetCell(old, at[e].slot) = CellOf(e, now[e], ch[e])
          BY <3>1, <4>2 DEF Held, CellAt
        <5> QED
          BY <1>5, <4>2, <5>1, <5>2 DEF CellAt, OthersKept
      <4> QED
        BY <4>1, <4>2
    <3>3. \A q \in Range(ch[e]) : ps2[q] = ps[q]
      <4>1. \A q \in Range(ch[e]) : q \in PageId
        BY <3>1 DEF Range
      <4>2. \A q \in Range(ch[e]) : ps[q].kind = "overflow"
        BY <3>1, ChainKind DEF Held
      <4> QED
        BY <1>6, <4>1, <4>2
    <3> QED
      BY <3>1, <3>2, <3>3, HeldKept
  <2>2. Held(ps2, a[d], d, v, c)
    <3>1. CellAt(ps2, Location(p, s), CellOf(d, v, c))
      BY <1>5 DEF CellAt, Location
    <3>2. \A q \in Range(c) : ps2[q] = ps[q]
      BY <1>2, <1>6 DEF ExtraApart
    <3>3. \A i \in 1 .. Len(c) : ps2[c[i]] = ps[c[i]]
      BY <3>2 DEF Range
    <3>4. ChainFor(ps2, v, c)
      BY <3>3 DEF ChainFor, IsChain
    <3> QED
      BY <1>4, <3>1, <3>4 DEF Held
  <2> QED
    BY <1>4, <2>1, <2>2 DEF AllHeld
<1>9. Apart(a, k)
  <2>1. \A e, f \in DOMAIN at : e # f =>
           a[e] # a[f] /\ Range(k[e]) \cap Range(k[f]) = {}
    BY <1>2, <1>4 DEF Apart
  <2>2. \A e \in DOMAIN at :
           /\ a[e] # a[d] /\ Range(k[e]) \cap Range(k[d]) = {}
           /\ Range(k[d]) \cap Range(k[e]) = {}
    BY <1>2, <1>4 DEF ExtraApart
  <2> QED
    BY <1>4, <2>1, <2>2 DEF Apart
<1>10. ExtraApart(ps2, a, k, {})
  BY DEF ExtraApart
<1>11. ChainsOwned(ps2, a, k, {})
  <2> SUFFICES ASSUME NEW q \in PageId, ps2[q].kind = "overflow"
               PROVE  \E e \in D : q \in Range(k[e])
    BY <1>4 DEF ChainsOwned
  <2>1. q # p /\ ps[q].kind = "overflow"
    BY <1>5
  <2> QED
    BY <1>2, <1>4, <2>1 DEF ChainsOwned
<1>12. LooseApart(a, {})
  BY DEF LooseApart
<1>13. CellsOwned(ps2, a, {})
  <2> SUFFICES ASSUME NEW q \in PageId, ps2[q].kind = "data", NEW t \in LiveSlots(ps2[q].page)
               PROVE  \E e \in D : a[e] = Location(q, t)
    BY <1>4 DEF CellsOwned
  <2>1. CASE q = p /\ t = s
    BY <1>4, <2>1
  <2>2. CASE q = p /\ t # s
    <3>1. t \in LiveSlots(old) /\ ps[p].kind = "data" /\ old = ps[p].page
      BY <1>5, <2>2
    <3>2. Location(p, t) \notin loose
      BY <2>2 DEF Location
    <3> QED
      BY <1>2, <1>4, <2>2, <3>1, <3>2 DEF CellsOwned
  <2>3. CASE q # p
    <3>1. Location(q, t) \notin loose
      BY <2>3 DEF Location
    <3> QED
      BY <1>2, <1>4, <1>5, <2>3, <3>1 DEF CellsOwned
  <2> QED
    BY <2>1, <2>2, <2>3
<1>14. NoneEmpty(ps2, ok)
  BY <1>2, <1>5 DEF NoneEmpty, IsEmpty
<1> QED
  BY <1>1, <1>5, <1>7, <1>8, <1>9, <1>10, <1>11, <1>12, <1>13, <1>14 DEF Body

(* A loose cell is deleted; its page may then be empty.                    *)
LEMMA BodyDeleted ==
    ASSUME NEW ps, NEW ok, NEW at, NEW now, NEW ch, NEW extra, NEW p \in PageId, NEW s,
           Body(ps, ok, {Location(p, s)}, at, now, ch, extra),
           ps[p].kind = "data", s \in LiveSlots(ps[p].page)
    PROVE  Body([ps EXCEPT ![p] = Data(DeleteCell(ps[p].page, s))], ok \cup {p}, {},
                at, now, ch, extra)
<1>1. PICK old, new, ps2 : /\ old = ps[p].page /\ new = DeleteCell(old, s)
                           /\ ps2 = [ps EXCEPT ![p] = Data(new)]
  OBVIOUS
<1>2. /\ DocsTyped(at, now, ch) /\ AllHeld(ps, at, now, ch) /\ Apart(at, ch)
      /\ ExtraApart(ps, at, ch, extra) /\ ChainsOwned(ps, at, ch, extra)
      /\ CellsOwned(ps, at, {Location(p, s)}) /\ NoneEmpty(ps, ok)
      /\ ps \in [PageId -> PageSet] /\ LooseApart(at, {Location(p, s)})
  BY DEF Body
<1>3. old \in PageType(HeapByte) /\ PageSound(old)
  BY <1>1, <1>2, PageKinds
<1>4. /\ new \in PageType(HeapByte) /\ PageSound(new)
      /\ LiveSlots(new) = LiveSlots(old) \ {s} /\ OthersKept(old, new, s)
  BY <1>1, <1>3, DeleteCellKeeps
<1>5. /\ ps2[p].kind = "data" /\ ps2[p].page = new /\ ps2 \in [PageId -> PageSet]
      /\ \A q \in PageId \ {p} : ps2[q] = ps[q]
  BY <1>1, <1>2, <1>4, DataInSet
<1>6. \A q \in PageId : ps[q].kind = "overflow" => ps2[q] = ps[q]
  BY <1>5
<1>7. AllHeld(ps2, at, now, ch)
  <2> SUFFICES ASSUME NEW e \in DOMAIN at PROVE Held(ps2, at[e], e, now[e], ch[e])
    BY DEF AllHeld
  <2>1. /\ Held(ps, at[e], e, now[e], ch[e]) /\ ch[e] \in Seq(PageId)
        /\ at[e] \in [page : PageId, slot : Nat]
    BY <1>2 DEF AllHeld, DocsTyped
  <2>2. CellAt(ps2, at[e], CellOf(e, now[e], ch[e]))
    <3>1. CASE at[e].page # p
      <4>1. ps2[at[e].page] = ps[at[e].page]
        BY <2>1, <1>5, <3>1
      <4> QED
        BY <2>1, <4>1 DEF Held, CellAt
    <3>2. CASE at[e].page = p
      <4>1. at[e].slot # s
        BY <1>2, <2>1, <3>2 DEF Location, LooseApart
      <4>2. /\ at[e].slot \in LiveSlots(old)
            /\ GetCell(old, at[e].slot) = CellOf(e, now[e], ch[e])
        BY <1>1, <2>1, <3>2 DEF Held, CellAt
      <4> QED
        BY <1>4, <1>5, <3>2, <4>1, <4>2 DEF CellAt, OthersKept
    <3> QED
      BY <3>1, <3>2
  <2>3. \A q \in Range(ch[e]) : ps2[q] = ps[q]
    <3>1. \A q \in Range(ch[e]) : q \in PageId
      BY <2>1 DEF Range
    <3>2. \A q \in Range(ch[e]) : ps[q].kind = "overflow"
      BY <2>1, ChainKind DEF Held
    <3> QED
      BY <1>6, <3>1, <3>2
  <2> QED
    BY <2>1, <2>2, <2>3, HeldKept
<1>8. ExtraApart(ps2, at, ch, extra)
  BY <1>2, <1>6 DEF ExtraApart
<1>9. ChainsOwned(ps2, at, ch, extra)
  BY <1>2, <1>5 DEF ChainsOwned
<1>10. LooseApart(at, {})
  BY DEF LooseApart
<1>11. CellsOwned(ps2, at, {})
  <2> SUFFICES ASSUME NEW q \in PageId, ps2[q].kind = "data", NEW t \in LiveSlots(ps2[q].page)
               PROVE  \E e \in DOMAIN at : at[e] = Location(q, t)
    BY DEF CellsOwned
  <2>1. /\ ps[q].kind = "data" /\ t \in LiveSlots(ps[q].page)
        /\ Location(q, t) # Location(p, s)
    BY <1>1, <1>4, <1>5 DEF Location
  <2> QED
    BY <1>2, <2>1 DEF CellsOwned
<1>12. NoneEmpty(ps2, ok \cup {p})
  BY <1>2, <1>5 DEF NoneEmpty
<1> QED
  BY <1>1, <1>2, <1>5, <1>7, <1>8, <1>9, <1>10, <1>11, <1>12 DEF Body

(* An empty page is freed.                                                 *)
LEMMA BodyEmptied ==
    ASSUME NEW ps, NEW ok, NEW ok2, NEW at, NEW now, NEW ch, NEW extra, NEW p \in PageId,
           Body(ps, ok, {}, at, now, ch, extra),
           ps[p].kind = "data", IsEmpty(ps[p].page), ok \subseteq ok2 \cup {p}
    PROVE  Body([ps EXCEPT ![p] = FreePage], ok2, {}, at, now, ch, extra)
<1>1. PICK ps2 : ps2 = [ps EXCEPT ![p] = FreePage]
  OBVIOUS
<1>2. /\ DocsTyped(at, now, ch) /\ AllHeld(ps, at, now, ch) /\ Apart(at, ch)
      /\ ExtraApart(ps, at, ch, extra) /\ ChainsOwned(ps, at, ch, extra)
      /\ CellsOwned(ps, at, {}) /\ NoneEmpty(ps, ok)
      /\ ps \in [PageId -> PageSet]
  BY DEF Body
<1>3. /\ ps2[p].kind = "free" /\ ps2 \in [PageId -> PageSet]
      /\ \A q \in PageId \ {p} : ps2[q] = ps[q]
  BY <1>1, <1>2, FreeInSet
<1>4. AllHeld(ps2, at, now, ch)
  <2> SUFFICES ASSUME NEW e \in DOMAIN at PROVE Held(ps2, at[e], e, now[e], ch[e])
    BY DEF AllHeld
  <2>1. /\ Held(ps, at[e], e, now[e], ch[e]) /\ ch[e] \in Seq(PageId)
        /\ at[e] \in [page : PageId, slot : Nat]
    BY <1>2 DEF AllHeld, DocsTyped
  <2>2. at[e].page # p
    BY <2>1 DEF Held, CellAt, IsEmpty
  <2>3. CellAt(ps2, at[e], CellOf(e, now[e], ch[e]))
    BY <1>3, <2>1, <2>2 DEF Held, CellAt
  <2>4. \A q \in Range(ch[e]) : ps2[q] = ps[q]
    <3>1. \A q \in Range(ch[e]) : q \in PageId
      BY <2>1 DEF Range
    <3>2. \A q \in Range(ch[e]) : ps[q].kind = "overflow"
      BY <2>1, ChainKind DEF Held
    <3> QED
      BY <1>3, <3>1, <3>2
  <2> QED
    BY <2>1, <2>3, <2>4, HeldKept
<1>5. ExtraApart(ps2, at, ch, extra)
  BY <1>2, <1>3 DEF ExtraApart
<1>6. ChainsOwned(ps2, at, ch, extra)
  BY <1>2, <1>3 DEF ChainsOwned
<1>7. LooseApart(at, {})
  BY DEF LooseApart
<1>8. CellsOwned(ps2, at, {})
  BY <1>2, <1>3 DEF CellsOwned
<1>9. NoneEmpty(ps2, ok2)
  BY <1>2, <1>3 DEF NoneEmpty
<1> QED
  BY <1>1, <1>2, <1>3, <1>4, <1>5, <1>6, <1>7, <1>8, <1>9 DEF Body

-----------------------------------------------------------------------------
(* Chains.                                                                 *)

(* As many pages as it takes: all but the last are full, which has some.   *)
LEMMA PagesEnough ==
    ASSUME NEW n \in Nat \ {0}, NEW k, k = PagesOf(n)
    PROVE  /\ k \in Nat \ {0}
           /\ (k - 1) * OverflowCapacity < n /\ n <= k * OverflowCapacity
<1>1. PICK c, a : c = OverflowCapacity /\ a = n + OverflowCapacity - 1
  OBVIOUS
<1>2. c \in Nat \ {0} /\ a \in Nat /\ a >= c
  BY <1>1, HeapAssumption
<1>3. k = a \div c
  BY <1>1 DEF PagesOf
<1>4. k \in Int /\ a = c * k + (a % c) /\ a % c \in 0 .. c - 1
  BY <1>2, <1>3
<1>5. PICK m, r : m = c * k /\ r = a % c
  OBVIOUS
<1>6. m \in Int /\ r \in 0 .. c - 1 /\ a = m + r
  BY <1>2, <1>4, <1>5
<1>7. m > 0 /\ n <= m /\ m - c < n
  BY <1>1, <1>2, <1>6
<1>8. k > 0
  BY <1>2, <1>4, <1>5, <1>7, SMTT(30)
<1>9. k * c = m /\ (k - 1) * c = m - c
  BY <1>2, <1>4, <1>5, SMTT(30)
<1> QED
  BY <1>1, <1>4, <1>7, <1>8, <1>9

(* The allocator gives free pages, each once, the lowest first; past them  *)
(* there is one more where there are more.                                 *)
LEMMA AllocatedRight ==
    ASSUME NEW ps, NEW n \in Nat, n <= Cardinality(FreePages(ps)),
           NEW ids, ids = Allocated(ps, n)
    PROVE  /\ ids \in Seq(PageId) /\ Len(ids) = n /\ DOMAIN ids = 1 .. n
           /\ \A i \in 1 .. n : ids[i] \in FreePages(ps)
           /\ \A i, j \in 1 .. n : ids[i] = ids[j] => i = j
           /\ n < Cardinality(FreePages(ps)) => \E p \in FreePages(ps) : p \notin Range(ids)
<1>1. PICK L, key : L = FreePages(ps) /\ key = [p \in L |-> MaxPages - p]
  OBVIOUS
<1>2. L \subseteq PageId /\ IsFiniteSet(L) /\ Cardinality(L) \in Nat /\ MaxPages \in Nat
  <2>1. L \subseteq 1 .. MaxPages /\ MaxPages \in Nat
    BY <1>1, HeapAssumption DEF FreePages, PageId
  <2>2. IsFiniteSet(1 .. MaxPages)
    BY <2>1, FS_Interval
  <2> QED
    BY <2>1, <2>2, FS_Subset, FS_CardinalityType DEF PageId
<1>3. key \in [L -> 0 .. MaxPages] /\ \A s, t \in L : s # t => key[s] # key[t]
  BY <1>1, <1>2 DEF PageId
<1>4. \A p \in L : {q \in L : q < p} = Above(L, key, p)
  BY <1>1, <1>2 DEF Above, PageId
<1>5. ASSUME NEW i \in 1 .. Cardinality(L)
      PROVE  \E p \in L : Cardinality({q \in L : q < p}) = i - 1
  <2>1. i - 1 \in Nat /\ i - 1 < Cardinality(L)
    BY <1>2
  <2>2. \E p \in L : Cardinality(Above(L, key, p)) = i - 1
    BY <1>2, <1>3, <2>1, RankExists
  <2> QED
    BY <1>4, <2>2
<1>6. ids = [i \in 1 .. n |-> CHOOSE p \in L : Cardinality({q \in L : q < p}) = i - 1]
  BY <1>1 DEF Allocated
<1>7. ASSUME NEW i \in 1 .. n
      PROVE  ids[i] \in L /\ Cardinality({q \in L : q < ids[i]}) = i - 1
  <2>1. i \in 1 .. Cardinality(L)
    BY <1>1, <1>2
  <2>2. ids[i] = CHOOSE p \in L : Cardinality({q \in L : q < p}) = i - 1
    BY <1>6
  <2> QED
    BY <1>5, <2>1, <2>2
<1>8. ASSUME NEW i \in 1 .. n, NEW j \in 1 .. n, ids[i] = ids[j] PROVE i = j
  <2>1. i - 1 = j - 1
    BY <1>7, <1>8
  <2> QED
    BY <2>1
<1>9. ids \in [1 .. n -> PageId] /\ DOMAIN ids = 1 .. n
  <2>1. \A i \in 1 .. n : ids[i] \in PageId
    BY <1>2, <1>7
  <2> QED
    BY <1>6, <2>1
<1>10. ids \in Seq(PageId) /\ Len(ids) = n
  BY <1>9
<1>11. ASSUME n < Cardinality(L) PROVE \E p \in L : p \notin Range(ids)
  <2>1. n + 1 \in 1 .. Cardinality(L)
    BY <1>2, <1>11
  <2>2. PICK p \in L : Cardinality({q \in L : q < p}) = (n + 1) - 1
    BY <1>5, <2>1
  <2>3. p \notin Range(ids)
    <3> SUFFICES ASSUME NEW i \in 1 .. n, p = ids[i] PROVE FALSE
      BY <1>9 DEF Range
    <3> QED
      BY <1>7, <2>2
  <2> QED
    BY <2>3
<1> QED
  BY <1>1, <1>7, <1>8, <1>9, <1>10, <1>11

LEMMA EncodedBytes ==
    ASSUME NEW v \in Value
    PROVE  /\ Encoded(v) \in Seq(HeapByte) /\ Len(Encoded(v)) = SizeOf[v]
           /\ SizeOf[v] \in Nat \ {0}
<1>1. SizeOf[v] \in Nat \ {0}
  BY HeapAssumption
<1>2. \A i \in 1 .. SizeOf[v] : <<v, i>> \in HeapByte
  BY <1>1 DEF HeapByte
<1> QED
  BY <1>1, <1>2 DEF Encoded

LEMMA ChunkBytes ==
    ASSUME NEW bytes \in Seq(HeapByte), NEW i \in Nat \ {0}
    PROVE  Chunk(bytes, i) \in Seq(HeapByte) /\ Len(Chunk(bytes, i)) = OverflowCapacity
<1>1. OverflowCapacity \in Nat \ {0} /\ Zero \in HeapByte
  BY HeapAssumption DEF HeapByte
<1>2. ASSUME NEW b \in 1 .. OverflowCapacity
      PROVE  (IF (i - 1) * OverflowCapacity + b <= Len(bytes)
              THEN bytes[(i - 1) * OverflowCapacity + b] ELSE Zero) \in HeapByte
  <2>1. PICK m : m = (i - 1) * OverflowCapacity
    OBVIOUS
  <2>2. m \in Nat
    <3>1. i - 1 \in Nat /\ OverflowCapacity \in Nat
      BY <1>1
    <3> QED
      BY <2>1, <3>1
  <2>3. m + b <= Len(bytes) => bytes[m + b] \in HeapByte
    <3> HIDE DEF HeapByte
    <3> QED
      BY <1>1, <2>2
  <2> QED
    BY <1>1, <2>1, <2>3
<1>3. Chunk(bytes, i) \in [1 .. OverflowCapacity -> HeapByte]
  BY <1>2 DEF Chunk
<1> QED
  BY <1>1, <1>3

(* `write_chain`: the chain is on pages that were free, every other page   *)
(* is as it was, and one is free still if there was one more.              *)
LEMMA ChainWritten ==
    ASSUME NEW ps \in [PageId -> PageSet], NEW bytes \in Seq(HeapByte), bytes # <<>>,
           NEW n, n = PagesOf(Len(bytes)), n <= Cardinality(FreePages(ps)),
           NEW w, w = WriteChain(ps, bytes), NEW c, c = Allocated(ps, n)
    PROVE  /\ w.pages \in [PageId -> PageSet] /\ w.first = c[1]
           /\ IsChain(w.pages, c, bytes)
           /\ \A p \in Range(c) : p \in PageId /\ ps[p] = FreePage
           /\ \A p \in PageId \ Range(c) : w.pages[p] = ps[p]
           /\ n < Cardinality(FreePages(ps)) => FreePages(w.pages) # {}
<1>1. Len(bytes) \in Nat \ {0} /\ n \in Nat \ {0}
  <2>1. Len(bytes) \in Nat \ {0}
    BY DEF HeapByte
  <2> QED
    BY <2>1, PagesEnough
<1>2. /\ c \in Seq(PageId) /\ Len(c) = n /\ DOMAIN c = 1 .. n
      /\ \A i \in 1 .. n : c[i] \in FreePages(ps)
      /\ \A i, j \in 1 .. n : c[i] = c[j] => i = j
      /\ n < Cardinality(FreePages(ps)) => \E p \in FreePages(ps) : p \notin Range(c)
  BY <1>1, AllocatedRight
<1>3. /\ w.first = c[1]
      /\ w.pages = [p \in PageId |-> IF p \in Range(c)
                                     THEN Link(c, CHOOSE i \in DOMAIN c : c[i] = p, bytes)
                                     ELSE ps[p]]
  BY DEF WriteChain
<1>4. ASSUME NEW i \in 1 .. n PROVE w.pages[c[i]] = Link(c, i, bytes)
  <2>1. c[i] \in Range(c) /\ c[i] \in PageId
    BY <1>2 DEF Range, FreePages
  <2>2. (CHOOSE j \in DOMAIN c : c[j] = c[i]) = i
    BY <1>2
  <2> QED
    BY <1>3, <2>1, <2>2
<1>5. \A i \in 1 .. n : Link(c, i, bytes) \in PageSet
  <2> SUFFICES ASSUME NEW i \in 1 .. n PROVE Link(c, i, bytes) \in PageSet
    OBVIOUS
  <2>1. Chunk(bytes, i) \in Seq(HeapByte)
    BY <1>1, ChunkBytes
  <2>2. PICK next : next = IF i = Len(c) THEN NoPage ELSE c[i + 1]
    OBVIOUS
  <2>3. next \in 0 .. MaxPages
    <3>1. MaxPages \in Nat /\ NoPage = 0
      BY HeapAssumption DEF NoPage
    <3>2. i # n => c[i + 1] \in 1 .. MaxPages
      <4>1. i # n => i + 1 \in 1 .. n
        BY <1>1
      <4> QED
        BY <1>2, <4>1 DEF FreePages, PageId
    <3> QED
      BY <1>2, <2>2, <3>1, <3>2
  <2>4. Overflow(next, Chunk(bytes, i)) \in PageSet
    BY <2>1, <2>3 DEF PageSet
  <2> QED
    BY <2>2, <2>4 DEF Link
<1>6. \A p \in Range(c) : \E i \in 1 .. n : p = c[i]
  BY <1>2 DEF Range
<1>7. \A p \in Range(c) : p \in PageId /\ ps[p] = FreePage
  BY <1>2, <1>6 DEF FreePages
<1>8. \A p \in PageId \ Range(c) : w.pages[p] = ps[p]
  BY <1>3
<1>9. w.pages \in [PageId -> PageSet]
  <2>1. \A p \in PageId : w.pages[p] \in PageSet
    BY <1>4, <1>5, <1>6, <1>8
  <2> QED
    BY <1>3, <2>1
<1>10. IsChain(w.pages, c, bytes)
  BY <1>2, <1>4 DEF IsChain
<1>11. n < Cardinality(FreePages(ps)) => FreePages(w.pages) # {}
  BY <1>2, <1>8 DEF FreePages
<1> QED
  BY <1>3, <1>7, <1>8, <1>9, <1>10, <1>11

(* ... and it is beside whatever the heap held.                            *)
LEMMA BodyChain ==
    ASSUME NEW ps, NEW ok, NEW loose, NEW at, NEW now, NEW ch, NEW v \in Value,
           Body(ps, ok, loose, at, now, ch, {}),
           PagesOf(SizeOf[v]) <= Cardinality(FreePages(ps)),
           NEW w, w = WriteChain(ps, Encoded(v)),
           NEW c, c = Allocated(ps, PagesOf(SizeOf[v]))
    PROVE  Body(w.pages, ok, loose, at, now, ch, Range(c))
<1>1. /\ Encoded(v) \in Seq(HeapByte) /\ Len(Encoded(v)) = SizeOf[v] /\ Encoded(v) # <<>>
  BY EncodedBytes
<1>2. /\ DocsTyped(at, now, ch) /\ AllHeld(ps, at, now, ch) /\ Apart(at, ch)
      /\ ExtraApart(ps, at, ch, {}) /\ ChainsOwned(ps, at, ch, {})
      /\ CellsOwned(ps, at, loose) /\ NoneEmpty(ps, ok) /\ ps \in [PageId -> PageSet]
      /\ LooseApart(at, loose)
  BY DEF Body
<1>3. /\ w.pages \in [PageId -> PageSet] /\ IsChain(w.pages, c, Encoded(v))
      /\ \A p \in Range(c) : p \in PageId /\ ps[p] = FreePage
      /\ \A p \in PageId \ Range(c) : w.pages[p] = ps[p]
  BY <1>1, <1>2, ChainWritten
<1>4. \A p \in Range(c) : w.pages[p].kind = "overflow" /\ ps[p].kind = "free"
  <2>1. \A p \in Range(c) : \E i \in 1 .. Len(c) : w.pages[p] = Link(c, i, Encoded(v))
    BY <1>3 DEF Range, IsChain
  <2>2. \A i : Link(c, i, Encoded(v)).kind = "overflow"
    BY DEF Link, Overflow
  <2> QED
    BY <1>3, <2>1, <2>2, FreeInSet
<1>5. \A p \in PageId : ps[p].kind = "data" => w.pages[p] = ps[p]
  BY <1>3, <1>4
<1>6. \A d \in DOMAIN at : \A p \in Range(ch[d]) :
         p \in PageId /\ ps[p].kind = "overflow" /\ p \notin Range(c) /\ w.pages[p] = ps[p]
  <2> SUFFICES ASSUME NEW d \in DOMAIN at, NEW p \in Range(ch[d])
               PROVE  p \in PageId /\ ps[p].kind = "overflow"
    BY <1>3, <1>4
  <2>1. ch[d] \in Seq(PageId) /\ ChainFor(ps, now[d], ch[d])
    BY <1>2 DEF DocsTyped, AllHeld, Held
  <2>2. p \in PageId
    BY <2>1 DEF Range
  <2> QED
    BY <2>1, <2>2, ChainKind
<1>7. AllHeld(w.pages, at, now, ch)
  BY <1>2, <1>5, <1>6, AllHeldKept
<1>8. ExtraApart(w.pages, at, ch, Range(c))
  BY <1>3, <1>4, <1>6 DEF ExtraApart
<1>9. ChainsOwned(w.pages, at, ch, Range(c))
  BY <1>2, <1>3 DEF ChainsOwned
<1>10. CellsOwned(w.pages, at, loose)
  BY <1>2, <1>3, <1>4 DEF CellsOwned
<1>11. NoneEmpty(w.pages, ok)
  BY <1>2, <1>3, <1>4 DEF NoneEmpty
<1> QED
  BY <1>2, <1>3, <1>7, <1>8, <1>9, <1>10, <1>11 DEF Body

(* `write_cell`: the cell of a document, beside whatever the heap held.    *)
LEMMA CellWritten ==
    ASSUME NEW ps, NEW ok, NEW loose, NEW at, NEW now, NEW ch,
           NEW d \in Doc, NEW v \in Value,
           Body(ps, ok, loose, at, now, ch, {}), RoomFor(ps, v),
           NEW w, w = WriteCell(ps, d, v)
    PROVE  \E c \in Seq(PageId) :
              /\ Body(w.pages, ok, loose, at, now, ch, Range(c))
              /\ w.cell = CellOf(d, v, c) /\ ChainFor(w.pages, v, c)
              /\ FreePages(w.pages) # {}
              /\ \A p \in PageId : ps[p].kind = "data" => w.pages[p] = ps[p]
<1>1. ps \in [PageId -> PageSet]
  BY DEF Body
<1>2. Cardinality(FreePages(ps)) \in Nat /\ IsFiniteSet(FreePages(ps))
  <2>1. FreePages(ps) \subseteq 1 .. MaxPages /\ MaxPages \in Nat
    BY HeapAssumption DEF FreePages, PageId
  <2>2. IsFiniteSet(1 .. MaxPages)
    BY <2>1, FS_Interval
  <2>3. IsFiniteSet(FreePages(ps))
    BY <2>1, <2>2, FS_Subset
  <2> QED
    BY <2>3, FS_CardinalityType
<1>3. CASE IsInline(v)
  <2>1. w.pages = ps /\ w.cell = CellOf(d, v, <<>>)
    BY <1>3 DEF WriteCell, CellOf
  <2>2. <<>> \in Seq(PageId) /\ Range(<<>>) = {} /\ ChainFor(ps, v, <<>>)
    BY <1>3 DEF ChainFor, Range
  <2>3. FreePages(ps) # {}
    BY <1>2, <1>3, FS_EmptySet DEF RoomFor
  <2> QED
    BY <2>1, <2>2, <2>3
<1>4. CASE ~IsInline(v)
  <2>1. PICK n, c, x : /\ n = PagesOf(SizeOf[v]) /\ c = Allocated(ps, n)
                       /\ x = WriteChain(ps, Encoded(v))
    OBVIOUS
  <2>2. /\ Encoded(v) \in Seq(HeapByte) /\ Len(Encoded(v)) = SizeOf[v] /\ Encoded(v) # <<>>
        /\ SizeOf[v] \in Nat \ {0}
    BY EncodedBytes
  <2>3. n \in Nat \ {0} /\ n < Cardinality(FreePages(ps)) /\ n <= Cardinality(FreePages(ps))
    <3>1. n \in Nat \ {0}
      BY <2>1, <2>2, PagesEnough
    <3> QED
      BY <1>2, <1>4, <2>1, <3>1 DEF RoomFor
  <2>4. /\ x.first = c[1] /\ IsChain(x.pages, c, Encoded(v))
        /\ \A p \in Range(c) : p \in PageId /\ ps[p] = FreePage
        /\ \A p \in PageId \ Range(c) : x.pages[p] = ps[p]
        /\ FreePages(x.pages) # {}
    BY <1>1, <2>1, <2>2, <2>3, ChainWritten
  <2>5. Body(x.pages, ok, loose, at, now, ch, Range(c))
    BY <2>1, <2>3, BodyChain
  <2>6. w.pages = x.pages /\ w.cell = CellOf(d, v, c)
    BY <1>4, <2>1, <2>4 DEF WriteCell, CellOf
  <2>7. c \in Seq(PageId) /\ ChainFor(w.pages, v, c)
    BY <1>4, <2>4, <2>6 DEF ChainFor, IsChain
  <2>8. \A p \in PageId : ps[p].kind = "data" => w.pages[p] = ps[p]
    BY <2>4, <2>6, FreeInSet
  <2> QED
    BY <2>4, <2>5, <2>6, <2>7, <2>8
<1> QED
  BY <1>3, <1>4

-----------------------------------------------------------------------------
(* The free-space map.                                                     *)

LEMMA RoomSets ==
    ASSUME NEW free \in RoomSet
    PROVE  /\ DOMAIN free \subseteq PageId /\ free \in [DOMAIN free -> Nat]
           /\ \A p \in PageId, r \in Nat : SetRoom(free, p, r) \in RoomSet
           /\ \A p : RemoveRoom(free, p) \in RoomSet
<1>1. PICK D \in SUBSET PageId : free \in [D -> Nat]
  BY DEF RoomSet
<1>2. ASSUME NEW p \in PageId, NEW r \in Nat PROVE SetRoom(free, p, r) \in RoomSet
  <2>1. D \cup {p} \in SUBSET PageId /\ SetRoom(free, p, r) \in [D \cup {p} -> Nat]
    BY <1>1 DEF SetRoom
  <2> QED
    BY <2>1 DEF RoomSet
<1>3. ASSUME NEW p PROVE RemoveRoom(free, p) \in RoomSet
  <2>1. D \ {p} \in SUBSET PageId /\ RemoveRoom(free, p) \in [D \ {p} -> Nat]
    BY <1>1 DEF RemoveRoom, Restrict
  <2> QED
    BY <2>1 DEF RoomSet
<1> QED
  BY <1>1, <1>2, <1>3

LEMMA RoomInt ==
    ASSUME NEW page \in PageType(HeapByte) PROVE ReclaimableSpace(page) \in Int
<1>1. LiveBytes(page) \in Nat /\ DirectoryEnd(page) \in Nat /\ PageSize \in Nat
  BY LiveBytesOf, DirectoryEnds, SlottedAssumption
<1> QED
  BY <1>1 DEF ReclaimableSpace

(* `note_room` makes it right for the page it is told of.                  *)
LEMMA NotedRight ==
    ASSUME NEW h \in HeapSet, NEW p \in PageId, h.pages[p].kind = "data",
           RoomsRight(h, {p}), NEW g, g = Noted(h, p)
    PROVE  /\ g \in HeapSet /\ RoomsRight(g, {})
           /\ g.pages = h.pages /\ g.current = h.current
<1>1. h.free \in RoomSet /\ h.pages \in [PageId -> PageSet] /\ h.current \in 0 .. MaxPages
  BY DEF HeapSet
<1>2. PICK r, f : /\ r = ReclaimableSpace(h.pages[p].page)
                  /\ f = NoteRoom(h.free, h.current, p, r)
  OBVIOUS
<1>3. r \in Int
  <2>1. h.pages[p].page \in PageType(HeapByte)
    BY <1>1, PageKinds
  <2> QED
    BY <1>2, <2>1, RoomInt
<1>4. g = [h EXCEPT !.free = f]
  BY <1>2 DEF Noted
<1>5. g.pages = h.pages /\ g.current = h.current /\ g.free = f
  BY <1>4 DEF HeapSet
<1>6. PICK enough : enough = IF p \in DOMAIN h.free THEN MinRoomToStay ELSE MinRoom
  OBVIOUS
<1>7. enough \in Nat /\ MinRoomToStay \in Nat /\ MinRoomToStay <= enough
  BY <1>6, HeapAssumption
<1>8. CASE p # h.current /\ r >= enough
  <2>1. f = SetRoom(h.free, p, r) /\ r \in Nat /\ r >= MinRoomToStay
    BY <1>2, <1>3, <1>6, <1>7, <1>8 DEF NoteRoom
  <2>2. f \in RoomSet
    BY <1>1, <2>1, RoomSets
  <2>3. g \in HeapSet
    BY <1>4, <2>2 DEF HeapSet
  <2>4. DOMAIN f = DOMAIN h.free \cup {p} /\ f[p] = r
        /\ \A q \in DOMAIN h.free \ {p} : f[q] = h.free[q]
    BY <2>1 DEF SetRoom
  <2>5. RoomRight(g, p)
    BY <1>2, <1>5, <1>8, <2>1, <2>4 DEF RoomRight
  <2>6. \A q \in DOMAIN h.free \ {p} : RoomRight(g, q)
    BY <1>5, <2>4 DEF RoomRight, RoomsRight
  <2> QED
    BY <1>5, <2>3, <2>4, <2>5, <2>6 DEF RoomsRight
<1>9. CASE ~(p # h.current /\ r >= enough)
  <2>1. f = RemoveRoom(h.free, p)
    BY <1>2, <1>6, <1>9 DEF NoteRoom
  <2>2. f \in RoomSet
    BY <1>1, <2>1, RoomSets
  <2>3. g \in HeapSet
    BY <1>4, <2>2 DEF HeapSet
  <2>4. DOMAIN f = DOMAIN h.free \ {p} /\ \A q \in DOMAIN f : f[q] = h.free[q]
    BY <2>1 DEF RemoveRoom, Restrict
  <2> QED
    BY <1>5, <2>3, <2>4 DEF RoomsRight, RoomRight
<1> QED
  BY <1>8, <1>9

(* `find` gives a page of the map, if any.                                 *)
LEMMA FoundRight ==
    ASSUME NEW free \in RoomSet, NEW needed, NEW p, p = FindRoom(free, needed), p # NoPage
    PROVE  p \in DOMAIN free
<1>1. DOMAIN free \subseteq Nat /\ free \in [DOMAIN free -> Nat]
  <2>1. PageId \subseteq Nat
    BY HeapAssumption DEF PageId
  <2> QED
    BY <2>1, RoomSets
<1>2. PICK enough : enough = {q \in DOMAIN free : free[q] >= needed}
  OBVIOUS
<1>3. enough # {} /\ enough \subseteq DOMAIN free
  BY <1>2 DEF FindRoom
<1>4. PICK a \in {free[q] : q \in enough} : \A b \in {free[q] : q \in enough} : a <= b
  <2>1. {free[q] : q \in enough} \subseteq Nat /\ {free[q] : q \in enough} # {}
    BY <1>1, <1>3
  <2> QED
    BY <2>1, NatMin
<1>5. PICK x \in {q \in enough : free[q] = a} : \A y \in {q \in enough : free[q] = a} : x <= y
  <2>1. {q \in enough : free[q] = a} \subseteq Nat /\ {q \in enough : free[q] = a} # {}
    BY <1>1, <1>3, <1>4
  <2> QED
    BY <2>1, NatMin
<1>6. ASSUME NEW q \in enough \ {x}
      PROVE  free[x] < free[q] \/ (free[x] = free[q] /\ x < q)
  <2>1. free[x] = a /\ a <= free[q] /\ free[q] \in Nat /\ a \in Nat /\ q \in Nat /\ x \in Nat
    BY <1>1, <1>3, <1>4, <1>5
  <2>2. free[q] = a => x <= q
    BY <1>5
  <2> QED
    BY <2>1, <2>2
<1>7. p = CHOOSE z \in enough : \A q \in enough \ {z} :
             free[z] < free[q] \/ (free[z] = free[q] /\ z < q)
  BY <1>2, <1>3 DEF FindRoom
<1>8. p \in enough
  BY <1>5, <1>6, <1>7
<1> QED
  BY <1>3, <1>8

(* Which pages may be empty matters only for those that are.               *)
LEMMA BodyOk ==
    ASSUME NEW ps, NEW ok, NEW ok2, NEW loose, NEW at, NEW now, NEW ch, NEW extra,
           Body(ps, ok, loose, at, now, ch, extra),
           \A p \in ok \cap PageId : p \in ok2 \/ (ps[p].kind = "data" => ~IsEmpty(ps[p].page))
    PROVE  Body(ps, ok2, loose, at, now, ch, extra)
<1>1. NoneEmpty(ps, ok2)
  BY DEF NoneEmpty, Body
<1> QED
  BY <1>1 DEF Body

(* A cell is some bytes, as many as fit on a new page.                     *)
LEMMA CellFits ==
    ASSUME NEW ps, NEW d \in Doc, NEW v \in Value, NEW c \in Seq(PageId), ChainFor(ps, v, c)
    PROVE  /\ CellOf(d, v, c) \in Seq(HeapByte) /\ CellOf(d, v, c) # <<>>
           /\ HasRoomFor(NewPage, Len(CellOf(d, v, c)))
<1>1. /\ CellHeaderLen \in Nat \ {0} /\ PointerLen \in Nat \ {0}
      /\ HasRoomFor(NewPage, CellHeaderLen + PointerLen)
  BY HeapAssumption
<1>2. ASSUME NEW f \in {"inline", "overflow"}
      PROVE  HeaderOf(f, d) \in Seq(HeapByte) /\ Len(HeaderOf(f, d)) = CellHeaderLen
  <2>1. <<f, d>> \in HeapByte
    BY DEF HeapByte
  <2> QED
    BY <1>1, <2>1 DEF HeaderOf
<1>3. CASE IsInline(v)
  <2>1. /\ Encoded(v) \in Seq(HeapByte) /\ Len(Encoded(v)) = SizeOf[v]
        /\ SizeOf[v] \in Nat \ {0}
    BY EncodedBytes
  <2>2. PICK a, b : a = HeaderOf("inline", d) /\ b = Encoded(v)
    OBVIOUS
  <2>3. a \o b \in Seq(HeapByte) /\ Len(a \o b) = CellHeaderLen + SizeOf[v]
    <3>1. a \in Seq(HeapByte) /\ b \in Seq(HeapByte) /\ Len(a) = CellHeaderLen
          /\ Len(b) = SizeOf[v]
      BY <1>2, <2>1, <2>2
    <3> HIDE DEF HeapByte
    <3>2. a \o b \in Seq(HeapByte) /\ Len(a \o b) = Len(a) + Len(b)
      BY <3>1, ConcatProperties
    <3> QED
      BY <3>1, <3>2
  <2>4. CellOf(d, v, c) = a \o b
    BY <1>3, <2>2 DEF CellOf
  <2>5. a \o b # <<>>
    BY <1>1, <2>1, <2>3
  <2> QED
    BY <1>3, <2>3, <2>4, <2>5 DEF IsInline
<1>4. CASE ~IsInline(v)
  <2>1. c[1] \in PageId /\ SizeOf[v] \in Nat
    <3>1. Len(Encoded(v)) = SizeOf[v] /\ SizeOf[v] \in Nat \ {0}
      BY EncodedBytes
    <3>2. Len(c) \in Nat \ {0}
      BY <1>4, <3>1, PagesEnough DEF ChainFor, IsChain
    <3> QED
      BY <3>1, <3>2
  <2>2. PICK a, b : a = HeaderOf("overflow", d) /\ b = PointerTo(SizeOf[v], c[1])
    OBVIOUS
  <2>3. b \in Seq(HeapByte) /\ Len(b) = PointerLen
    <3>1. <<"chain", SizeOf[v], c[1]>> \in HeapByte
      BY <2>1 DEF HeapByte
    <3> QED
      BY <1>1, <2>2, <3>1 DEF PointerTo
  <2>4. a \o b \in Seq(HeapByte) /\ Len(a \o b) = CellHeaderLen + PointerLen
    <3>1. a \in Seq(HeapByte) /\ Len(a) = CellHeaderLen
      BY <1>2, <2>2
    <3> HIDE DEF HeapByte
    <3> QED
      BY <2>3, <3>1, ConcatProperties
  <2>5. CellOf(d, v, c) = a \o b
    BY <1>4, <2>2 DEF CellOf
  <2>6. a \o b # <<>>
    BY <1>1, <2>4
  <2> QED
    BY <1>1, <2>4, <2>5, <2>6
<1> QED
  BY <1>3, <1>4

(* `SlottedPage::new`.                                                     *)
LEMMA NewPageSound ==
    NewPage \in PageType(HeapByte) /\ PageSound(NewPage) /\ LiveSlots(NewPage) = {}
<1>1. PageSize \in Nat /\ HeaderLen \in Nat /\ SlotLen \in Nat \ {0} /\ Zero \in HeapByte
  BY SlottedAssumption DEF HeapByte
<1>2. NewPage \in PageType(HeapByte)
  <2>1. <<>> \in Seq([at : Nat, len : Nat])
    OBVIOUS
  <2> QED
    BY <1>1, <2>1 DEF NewPage, PageType
<1>3. NewPage.slots = <<>> /\ NewPage.start = PageSize
      /\ \A i \in 0 .. PageSize - 1 : NewPage.bytes[i] = Zero
  BY DEF NewPage
<1>4. LiveSlots(NewPage) = {}
  BY <1>3 DEF LiveSlots
<1>5. DirectoryEnd(NewPage) = HeaderLen
  BY <1>1, <1>3 DEF DirectoryEnd
<1>6. PageSize >= HeaderLen
  <2>1. PICK n : n = CellHeaderLen + PointerLen
    OBVIOUS
  <2>2. n \in Nat \ {0} /\ FreeBytes(NewPage) >= SlotLen + n
    BY <2>1, HeapAssumption DEF HasRoomFor, SpaceNeeded
  <2>3. SlotLen + n \in Nat \ {0}
    BY <1>1, <2>2
  <2>4. NewPage.start - DirectoryEnd(NewPage) >= SlotLen + n
    BY <1>2, <2>2, <2>3, EnoughFree
  <2> QED
    BY <1>1, <1>3, <1>5, <2>3, <2>4
<1>7. \A i \in DirectoryEnd(NewPage) .. NewPage.start - 1 : NewPage.bytes[i] = Zero
  BY <1>1, <1>3, <1>5
<1> QED
  BY <1>1, <1>2, <1>3, <1>4, <1>5, <1>6, <1>7 DEF PageSound, CheckLayout

-----------------------------------------------------------------------------
(* `place_cell`.                                                           *)

(* A slot that is not live is nobody's.                                    *)
LEMMA SlotFree ==
    ASSUME NEW ps, NEW at, NEW now, NEW ch, AllHeld(ps, at, now, ch), NEW p, NEW s,
           ps[p].kind = "data" => s \notin LiveSlots(ps[p].page)
    PROVE  \A e \in DOMAIN at : at[e] # Location(p, s)
BY DEF AllHeld, Held, CellAt, Location

(* On a page that has the room.                                            *)
LEMMA PutOnPage ==
    ASSUME NEW ps, NEW ok, NEW at, NEW now, NEW ch, NEW c \in Seq(PageId),
           Body(ps, ok, {}, at, now, ch, Range(c)),
           NEW d \in Doc, NEW v \in Value, d \notin DOMAIN at, ChainFor(ps, v, c),
           NEW cell, cell = CellOf(d, v, c),
           NEW p \in PageId, ps[p].kind = "data", FitsReusingSlot(ps[p].page, Len(cell)),
           NEW put, put = InsertCellReusingSlot(ps[p].page, cell)
    PROVE  Body([ps EXCEPT ![p] = Data(put.page)], ok, {},
                SetRoom(at, d, Location(p, put.slot)), SetRoom(now, d, v),
                SetRoom(ch, d, c), {})
<1>1. ps \in [PageId -> PageSet] /\ AllHeld(ps, at, now, ch)
  BY DEF Body
<1>2. PICK old : old = ps[p].page
  OBVIOUS
<1>3. old \in PageType(HeapByte) /\ PageSound(old) /\ Zero \in HeapByte
  BY <1>1, <1>2, PageKinds DEF HeapByte
<1>4. cell \in Seq(HeapByte) /\ cell # <<>>
  BY CellFits
<1>5. /\ put.page \in PageType(HeapByte) /\ PageSound(put.page)
      /\ put.slot \notin LiveSlots(old) /\ put.slot \in LiveSlots(put.page)
      /\ GetCell(put.page, put.slot) = cell /\ OthersKept(old, put.page, put.slot)
  BY <1>2, <1>3, <1>4, InsertReusingKeeps
<1>6. LiveSlots(put.page) \subseteq LiveSlots(old) \cup {put.slot}
  BY <1>2, <1>3, <1>4, ReusingLive
<1>7. put.slot \in Nat
  <2>1. put.slot \in 1 .. Len(put.page.slots) /\ Len(put.page.slots) \in Nat
    BY <1>5, LiveCells, DirectoryEnds
  <2> QED
    BY <2>1
<1>8. \A e \in DOMAIN at : at[e] # Location(p, put.slot)
  BY <1>1, <1>2, <1>5, SlotFree
<1> QED
  BY <1>2, <1>5, <1>6, <1>7, <1>8, BodyPut

(* On a page of its own.                                                   *)
LEMMA PutOnNew ==
    ASSUME NEW ps, NEW ok, NEW at, NEW now, NEW ch, NEW c \in Seq(PageId),
           Body(ps, ok, {}, at, now, ch, Range(c)),
           NEW d \in Doc, NEW v \in Value, d \notin DOMAIN at, ChainFor(ps, v, c),
           NEW cell, cell = CellOf(d, v, c),
           NEW p \in PageId, ps[p] = FreePage,
           NEW put, put = InsertCell(NewPage, cell)
    PROVE  /\ Body([ps EXCEPT ![p] = Data(put.page)], ok, {},
                   SetRoom(at, d, Location(p, put.slot)), SetRoom(now, d, v),
                   SetRoom(ch, d, c), {})
           /\ put.page \in PageType(HeapByte) /\ PageSound(put.page)
           /\ ~IsEmpty(put.page)
<1>1. ps \in [PageId -> PageSet] /\ AllHeld(ps, at, now, ch) /\ ps[p].kind = "free"
  BY FreeInSet DEF Body
<1>2. /\ cell \in Seq(HeapByte) /\ cell # <<>> /\ HasRoomFor(NewPage, Len(cell))
      /\ NewPage \in PageType(HeapByte) /\ PageSound(NewPage) /\ LiveSlots(NewPage) = {}
  BY CellFits, NewPageSound
<1>3. /\ put.page \in PageType(HeapByte) /\ PageSound(put.page)
      /\ put.slot \in LiveSlots(put.page) /\ GetCell(put.page, put.slot) = cell
      /\ OthersKept(NewPage, put.page, put.slot)
  BY <1>2, InsertCellKeeps
<1>4. LiveSlots(put.page) \subseteq LiveSlots(NewPage) \cup {put.slot}
  BY <1>2, InsertLive
<1>5. put.slot \in Nat
  <2>1. put.slot \in 1 .. Len(put.page.slots) /\ Len(put.page.slots) \in Nat
    BY <1>3, LiveCells, DirectoryEnds
  <2> QED
    BY <2>1
<1>6. \A e \in DOMAIN at : at[e] # Location(p, put.slot)
  BY <1>1, SlotFree
<1> QED
  BY <1>1, <1>2, <1>3, <1>4, <1>5, <1>6, BodyPut DEF IsEmpty

(* The end of it: the page that was current is freed if it is empty, else  *)
(* noted.                                                                  *)
LEMMA RetireKeeps ==
    ASSUME NEW g \in HeapSet, RoomsRight(g, {}), CurrentRight(g),
           NEW old \in 0 .. MaxPages, old # g.current, old \notin DOMAIN g.free,
           old # NoPage => g.pages[old].kind = "data",
           NEW at, NEW now, NEW ch, NEW extra,
           Body(g.pages, {old}, {}, at, now, ch, extra),
           NEW k, k = RetireCurrent(g, old)
    PROVE  /\ k \in HeapSet /\ RoomsRight(k, {}) /\ CurrentRight(k)
           /\ Body(k.pages, {k.current}, {}, at, now, ch, extra)
<1>1. /\ g.free \in RoomSet /\ g.pages \in [PageId -> PageSet] /\ g.current \in 0 .. MaxPages
      /\ MaxPages \in Nat /\ NoPage = 0
  BY HeapAssumption DEF HeapSet, NoPage
<1>2. CASE old = NoPage
  <2>1. k = g
    BY <1>2 DEF RetireCurrent
  <2>2. old \notin PageId
    BY <1>1, <1>2 DEF PageId
  <2> QED
    BY <2>1, <2>2, BodyOk
<1>3. CASE old # NoPage /\ IsEmpty(g.pages[old].page)
  <2>1. old \in PageId
    BY <1>1, <1>3 DEF PageId
  <2>2. k = [g EXCEPT !.free = RemoveRoom(@, old), !.pages[old] = FreePage]
    BY <1>3 DEF RetireCurrent
  <2>3. /\ k.free = RemoveRoom(g.free, old) /\ k.current = g.current
        /\ k.pages = [g.pages EXCEPT ![old] = FreePage]
    BY <2>2 DEF HeapSet
  <2>4. k.free \in RoomSet /\ k.pages \in [PageId -> PageSet]
    <3>1. k.free \in RoomSet
      BY <1>1, <2>3, RoomSets
    <3>2. k.pages \in [PageId -> PageSet]
      BY <1>1, <2>3, FreeInSet
    <3> QED
      BY <3>1, <3>2
  <2>5. k \in HeapSet
    BY <2>2, <2>3, <2>4 DEF HeapSet
  <2>6. DOMAIN k.free = DOMAIN g.free \ {old} /\ \A q \in DOMAIN k.free : k.free[q] = g.free[q]
    BY <2>3 DEF RemoveRoom, Restrict
  <2>7. \A q \in PageId \ {old} : k.pages[q] = g.pages[q]
    BY <1>1, <2>3
  <2>8. RoomsRight(k, {})
    <3>1. DOMAIN g.free \subseteq PageId
      BY <1>1, RoomSets
    <3>2. \A q \in DOMAIN k.free : /\ q \notin {} /\ k.free[q] = g.free[q]
                                   /\ k.pages[q] = g.pages[q]
      BY <2>6, <2>7, <3>1
    <3> QED
      BY <2>3, <2>6, <3>2 DEF RoomsRight, RoomRight
  <2>9. CurrentRight(k)
    BY <1>1, <2>3, <2>7 DEF CurrentRight, PageId
  <2>10. Body(k.pages, {k.current}, {}, at, now, ch, extra)
    BY <1>3, <2>1, <2>3, BodyEmptied
  <2> QED
    BY <2>5, <2>8, <2>9, <2>10
<1>4. CASE old # NoPage /\ ~IsEmpty(g.pages[old].page)
  <2>1. old \in PageId
    BY <1>1, <1>4 DEF PageId
  <2>2. k = Noted(g, old)
    BY <1>4 DEF RetireCurrent
  <2>3. RoomsRight(g, {old})
    BY DEF RoomsRight
  <2>4. k \in HeapSet /\ RoomsRight(k, {}) /\ k.pages = g.pages /\ k.current = g.current
    BY <1>4, <2>1, <2>2, <2>3, NotedRight
  <2>5. Body(g.pages, {g.current}, {}, at, now, ch, extra)
    BY <1>4, BodyOk
  <2> QED
    BY <2>4, <2>5 DEF CurrentRight
<1> QED
  BY <1>2, <1>3, <1>4

(* `place_cell`: wherever the cell goes, it is a document of the heap.     *)
LEMMA PlaceKeeps ==
    ASSUME NEW h \in HeapSet, RoomsRight(h, {}), CurrentRight(h),
           NEW at, NEW now, NEW ch, NEW c \in Seq(PageId),
           Body(h.pages, {h.current}, {}, at, now, ch, Range(c)),
           NEW d \in Doc, NEW v \in Value, d \notin DOMAIN at, ChainFor(h.pages, v, c),
           FreePages(h.pages) # {}, NEW put, put = PlaceInHeap(h, CellOf(d, v, c))
    PROVE  /\ put.heap \in HeapSet /\ RoomsRight(put.heap, {}) /\ CurrentRight(put.heap)
           /\ Body(put.heap.pages, {put.heap.current}, {}, SetRoom(at, d, put.loc),
                   SetRoom(now, d, v), SetRoom(ch, d, c), {})
<1> DEFINE Fits(q) == q # NoPage /\ FitsReusingSlot(h.pages[q].page, Len(CellOf(d, v, c)))
           In(q) == InsertCellReusingSlot(h.pages[q].page, CellOf(d, v, c))
<1>1. /\ h.free \in RoomSet /\ h.pages \in [PageId -> PageSet] /\ h.current \in 0 .. MaxPages
      /\ MaxPages \in Nat /\ NoPage = 0
      /\ h.current # NoPage => h.current \in PageId
  BY HeapAssumption DEF HeapSet, NoPage, PageId
<1>2. DOMAIN h.free \subseteq PageId
  BY <1>1, RoomSets
<1>3. PICK cell, cur, older :
         /\ cell = CellOf(d, v, c) /\ cur = h.current
         /\ older = FindRoom(h.free, SpaceNeeded(Len(cell)))
  OBVIOUS
<1>4. older # NoPage => /\ older \in DOMAIN h.free /\ older \in PageId
                        /\ h.pages[older].kind = "data" /\ older # cur
  BY <1>1, <1>2, <1>3, FoundRight DEF RoomsRight, RoomRight
<1>5. ASSUME NEW q \in PageId, h.pages[q].kind = "data", Fits(q),
             NEW g, g = [h EXCEPT !.pages[q] = Data(In(q).page)]
      PROVE  /\ g \in HeapSet /\ g.current = cur /\ g.free = h.free
             /\ g.pages = [h.pages EXCEPT ![q] = Data(In(q).page)]
             /\ Body(g.pages, {cur}, {}, SetRoom(at, d, Location(q, In(q).slot)),
                     SetRoom(now, d, v), SetRoom(ch, d, c), {})
  <2>1. PICK ps2 : ps2 = [h.pages EXCEPT ![q] = Data(In(q).page)]
    OBVIOUS
  <2>2. Body(ps2, {cur}, {}, SetRoom(at, d, Location(q, In(q).slot)), SetRoom(now, d, v),
             SetRoom(ch, d, c), {})
    BY <1>3, <1>5, <2>1, PutOnPage
  <2>3. ps2 \in [PageId -> PageSet]
    BY <2>2 DEF Body
  <2>4. g = [h EXCEPT !.pages = ps2]
    BY <1>5, <2>1 DEF HeapSet
  <2>5. g \in HeapSet /\ g.current = h.current /\ g.free = h.free /\ g.pages = ps2
    BY <2>3, <2>4 DEF HeapSet
  <2> QED
    BY <1>3, <2>1, <2>2, <2>5
<1>6. CASE Fits(cur)
  <2>1. put = [heap |-> [h EXCEPT !.pages[cur] = Data(In(cur).page)],
               loc |-> Location(cur, In(cur).slot)]
    BY <1>3, <1>6 DEF PlaceInHeap
  <2>2. cur \in PageId /\ h.pages[cur].kind = "data"
    BY <1>1, <1>3, <1>6 DEF CurrentRight
  <2>3. PICK g : g = put.heap
    OBVIOUS
  <2>4. /\ g \in HeapSet /\ g.current = cur /\ g.free = h.free
        /\ g.pages = [h.pages EXCEPT ![cur] = Data(In(cur).page)]
        /\ Body(g.pages, {cur}, {}, SetRoom(at, d, put.loc), SetRoom(now, d, v),
                SetRoom(ch, d, c), {})
    <3>1. g = [h EXCEPT !.pages[cur] = Data(In(cur).page)] /\ put.loc = Location(cur, In(cur).slot)
      BY <2>1, <2>3
    <3> QED
      BY <1>5, <1>6, <2>2, <3>1
  <2>5. \A q \in PageId \ {cur} : g.pages[q] = h.pages[q]
    BY <1>1, <2>4
  <2>6. cur \notin DOMAIN h.free
    BY <1>3 DEF RoomsRight, RoomRight
  <2>7. RoomsRight(g, {})
    <3>1. \A q \in DOMAIN g.free : /\ q \notin {} /\ g.free[q] = h.free[q]
                                   /\ g.pages[q] = h.pages[q]
      BY <1>2, <2>4, <2>5, <2>6
    <3> QED
      BY <1>3, <2>4, <3>1 DEF RoomsRight, RoomRight
  <2>8. CurrentRight(g)
    <3>1. g.pages[cur] = Data(In(cur).page)
      BY <1>1, <2>2, <2>4
    <3> QED
      BY <2>4, <3>1 DEF CurrentRight, Data
  <2> QED
    BY <2>3, <2>4, <2>7, <2>8
<1>7. CASE ~Fits(cur) /\ Fits(older)
  <2>1. PICK g : g = [h EXCEPT !.pages[older] = Data(In(older).page)]
    OBVIOUS
  <2>2. put = [heap |-> Noted(g, older), loc |-> Location(older, In(older).slot)]
    BY <1>3, <1>7, <2>1 DEF PlaceInHeap
  <2>3. /\ g \in HeapSet /\ g.current = cur /\ g.free = h.free
        /\ g.pages = [h.pages EXCEPT ![older] = Data(In(older).page)]
        /\ Body(g.pages, {cur}, {}, SetRoom(at, d, put.loc), SetRoom(now, d, v),
                SetRoom(ch, d, c), {})
    <3>1. older \in PageId /\ h.pages[older].kind = "data"
      BY <1>4, <1>7
    <3>2. put.loc = Location(older, In(older).slot)
      BY <2>2
    <3> QED
      BY <1>5, <1>7, <2>1, <3>1, <3>2
  <2>4. /\ \A q \in PageId \ {older} : g.pages[q] = h.pages[q]
        /\ g.pages[older].kind = "data"
    BY <1>1, <1>4, <1>7, <2>3 DEF Data
  <2>5. RoomsRight(g, {older})
    <3>1. \A q \in DOMAIN g.free \ {older} : /\ q \notin {} /\ g.free[q] = h.free[q]
                                             /\ g.pages[q] = h.pages[q]
      BY <1>2, <2>3, <2>4
    <3> QED
      BY <1>3, <2>3, <3>1 DEF RoomsRight, RoomRight
  <2>6. PICK k : k = put.heap
    OBVIOUS
  <2>7. k \in HeapSet /\ RoomsRight(k, {}) /\ k.pages = g.pages /\ k.current = cur
    <3>1. older \in PageId /\ k = Noted(g, older)
      BY <1>4, <1>7, <2>2, <2>6
    <3> QED
      BY <2>3, <2>4, <2>5, <3>1, NotedRight, ZenonT(60)
  <2>8. CurrentRight(k)
    BY <1>1, <1>3, <1>4, <1>7, <2>4, <2>7 DEF CurrentRight
  <2> QED
    BY <2>3, <2>6, <2>7, <2>8
<1>8. CASE ~Fits(cur) /\ ~Fits(older)
  <2>1. PICK p, new, f, g :
           /\ p = Allocated(h.pages, 1)[1] /\ new = InsertCell(NewPage, cell)
           /\ f = IF older = NoPage THEN h ELSE Noted(h, older)
           /\ g = [f EXCEPT !.pages[p] = Data(new.page), !.current = p]
    OBVIOUS
  <2>2. put = [heap |-> RetireCurrent(g, cur), loc |-> Location(p, new.slot)]
    BY <1>3, <1>8, <2>1 DEF PlaceInHeap
  <2>3. p \in PageId /\ h.pages[p] = FreePage /\ h.pages[p].kind = "free"
    <3>1. IsFiniteSet(FreePages(h.pages)) /\ Cardinality(FreePages(h.pages)) \in Nat
      <4>1. FreePages(h.pages) \subseteq 1 .. MaxPages /\ IsFiniteSet(1 .. MaxPages)
        BY <1>1, FS_Interval DEF FreePages, PageId
      <4>2. IsFiniteSet(FreePages(h.pages))
        BY <4>1, FS_Subset
      <4> QED
        BY <4>2, FS_CardinalityType
    <3>2. 1 <= Cardinality(FreePages(h.pages))
      BY <3>1, FS_EmptySet
    <3>3. Allocated(h.pages, 1)[1] \in FreePages(h.pages)
      BY <3>2, AllocatedRight
    <3> QED
      BY <2>1, <3>3, FreeInSet DEF FreePages
  <2>4. f \in HeapSet /\ RoomsRight(f, {}) /\ f.pages = h.pages /\ f.current = cur
    <3>1. CASE older = NoPage
      BY <1>3, <2>1, <3>1
    <3>2. CASE older # NoPage
      <4>1. RoomsRight(h, {older})
        BY DEF RoomsRight
      <4> QED
        BY <1>3, <1>4, <2>1, <3>2, <4>1, NotedRight
    <3> QED
      BY <3>1, <3>2
  <2>5. /\ Body([h.pages EXCEPT ![p] = Data(new.page)], {cur}, {},
                SetRoom(at, d, put.loc), SetRoom(now, d, v), SetRoom(ch, d, c), {})
        /\ new.page \in PageType(HeapByte) /\ PageSound(new.page) /\ ~IsEmpty(new.page)
    BY <1>3, <2>1, <2>2, <2>3, PutOnNew
  <2>6. /\ g.current = p /\ g.free = f.free /\ g.pages = [h.pages EXCEPT ![p] = Data(new.page)]
        /\ g \in HeapSet
    <3>1. PICK ps2 : ps2 = [h.pages EXCEPT ![p] = Data(new.page)]
      OBVIOUS
    <3>2. ps2 \in [PageId -> PageSet] /\ p \in 0 .. MaxPages
      BY <1>1, <2>3, <2>5, <3>1 DEF Body, PageId
    <3>3. g = [f EXCEPT !.pages = ps2, !.current = p]
      BY <2>1, <2>4, <3>1 DEF HeapSet
    <3> QED
      BY <2>4, <3>1, <3>2, <3>3 DEF HeapSet
  <2>7. /\ \A q \in PageId \ {p} : g.pages[q] = h.pages[q]
        /\ g.pages[p].kind = "data"
    BY <1>1, <2>3, <2>6 DEF Data
  <2>8. f.free \in RoomSet /\ DOMAIN f.free \subseteq PageId
    BY <2>4, RoomSets DEF HeapSet
  <2>9. \A q \in DOMAIN f.free : q # p /\ q # cur /\ RoomRight(f, q)
    BY <2>3, <2>4 DEF RoomsRight, RoomRight
  <2>10. RoomsRight(g, {})
    BY <2>4, <2>6, <2>7, <2>8, <2>9 DEF RoomsRight, RoomRight
  <2>11. CurrentRight(g)
    BY <2>6, <2>7 DEF CurrentRight
  <2>12. /\ cur \in 0 .. MaxPages /\ cur # g.current /\ cur \notin DOMAIN g.free
         /\ cur # NoPage => g.pages[cur].kind = "data"
    <3>1. cur # NoPage => cur \in PageId /\ h.pages[cur].kind = "data"
      BY <1>1, <1>3 DEF CurrentRight
    <3>2. cur # p
      BY <1>1, <2>3, <3>1 DEF PageId
    <3> QED
      BY <1>1, <1>3, <2>6, <2>7, <2>9, <3>1, <3>2
  <2>13. PICK k, a, n, b : /\ k = put.heap /\ a = SetRoom(at, d, put.loc)
                           /\ n = SetRoom(now, d, v) /\ b = SetRoom(ch, d, c)
    OBVIOUS
  <2>14. Body(g.pages, {cur}, {}, a, n, b, {}) /\ k = RetireCurrent(g, cur)
    BY <2>2, <2>5, <2>6, <2>13
  <2>15. /\ k \in HeapSet /\ RoomsRight(k, {}) /\ CurrentRight(k)
         /\ Body(k.pages, {k.current}, {}, a, n, b, {})
    BY <2>6, <2>10, <2>11, <2>12, <2>14, RetireKeeps
  <2> QED
    BY <2>13, <2>15
<1> QED
  BY <1>6, <1>7, <1>8

-----------------------------------------------------------------------------
(* `walk_chain` reads what `write_chain` wrote.                            *)

(* Where the walk is after i pages.                                        *)
Walked(c, bytes, i) ==
    IF i < Len(c)
    THEN [at |-> c[i + 1], left |-> Len(bytes) - i * OverflowCapacity,
          pages |-> SubSeq(c, 1, i), bytes |-> SubSeq(bytes, 1, i * OverflowCapacity),
          status |-> "walking"]
    ELSE [at |-> NoPage, left |-> 0, pages |-> c, bytes |-> bytes, status |-> "done"]

(* The bytes read so far, and those of the next page.                      *)
LEMMA ChunkJoins ==
    ASSUME NEW bytes \in Seq(HeapByte), NEW i \in Nat \ {0}, NEW k, NEW m \in Nat,
           k = (i - 1) * OverflowCapacity,
           k <= m, m <= k + OverflowCapacity, m <= Len(bytes)
    PROVE  SubSeq(bytes, 1, k) \o SubSeq(Chunk(bytes, i), 1, m - k) = SubSeq(bytes, 1, m)
<1> HIDE DEF HeapByte
<1>1. OverflowCapacity \in Nat \ {0} /\ i - 1 \in Nat
  BY HeapAssumption
<1>2. k \in Nat
  BY <1>1
<1>3. PICK x : x = Chunk(bytes, i)
  OBVIOUS
<1>4. x \in Seq(HeapByte) /\ Len(x) = OverflowCapacity
  BY <1>3, ChunkBytes
<1>5. \A b \in 1 .. OverflowCapacity : k + b <= Len(bytes) => x[b] = bytes[k + b]
  BY <1>3 DEF Chunk
<1>6. PICK a, b : a = SubSeq(bytes, 1, k) /\ b = SubSeq(x, 1, m - k)
  OBVIOUS
<1>7. /\ a \in Seq(HeapByte) /\ Len(a) = k /\ \A j \in 1 .. k : a[j] = bytes[j]
  <2>1. k <= Len(bytes) /\ Len(bytes) \in Nat
    BY <1>2
  <2> QED
    BY <1>2, <1>6, <2>1
<1>8. /\ b \in Seq(HeapByte) /\ Len(b) = m - k /\ \A j \in 1 .. m - k : b[j] = x[j]
  <2>1. m - k \in Nat /\ m - k <= Len(x)
    BY <1>1, <1>2, <1>4
  <2> QED
    BY <1>4, <1>6, <2>1, SMTT(60)
<1>9. PICK r, t : r = a \o b /\ t = SubSeq(bytes, 1, m)
  OBVIOUS
<1>10. t \in Seq(HeapByte) /\ Len(t) = m /\ \A j \in 1 .. m : t[j] = bytes[j]
  BY <1>9
<1>11. /\ r \in Seq(HeapByte) /\ Len(r) = k + (m - k)
       /\ \A j \in 1 .. k + (m - k) : r[j] = IF j <= k THEN a[j] ELSE b[j - k]
  <2>1. a \in Seq(HeapByte) /\ b \in Seq(HeapByte)
    BY <1>7, <1>8
  <2>2. /\ a \o b \in Seq(HeapByte) /\ Len(a \o b) = Len(a) + Len(b)
        /\ \A j \in 1 .. Len(a) + Len(b) :
              (a \o b)[j] = IF j <= Len(a) THEN a[j] ELSE b[j - Len(a)]
    BY ONLY <2>1, ConcatProperties
  <2>3. Len(a) = k /\ Len(b) = m - k
    BY <1>7, <1>8
  <2> QED
    BY <1>9, <2>2, <2>3
<1>12. Len(r) = m
  BY <1>2, <1>11
<1>13. ASSUME NEW j \in 1 .. m PROVE r[j] = t[j]
  <2>1. k + (m - k) = m
    BY <1>2
  <2>2. CASE j <= k
    <3>1. j \in 1 .. k
      BY <1>2, <2>2
    <3> QED
      BY <1>7, <1>10, <1>11, <2>1, <2>2, <3>1
  <2>3. CASE ~(j <= k)
    <3>1. j - k \in 1 .. m - k /\ j - k \in 1 .. OverflowCapacity /\ k + (j - k) = j
          /\ k + (j - k) <= Len(bytes)
      BY <1>1, <1>2, <2>3
    <3>2. r[j] = b[j - k]
      BY <1>11, <2>1, <2>3
    <3> QED
      BY <1>5, <1>8, <1>10, <3>1, <3>2
  <2> QED
    BY <2>2, <2>3
<1> QED
  BY <1>6, <1>9, <1>10, <1>11, <1>12, <1>13, <1>3, SeqEqual

(* One page further.                                                       *)
LEMMA WalkStep ==
    ASSUME NEW ps, NEW bytes \in Seq(HeapByte), bytes # <<>>, NEW c,
           IsChain(ps, c, bytes), NEW i \in Nat \ {0}
    PROVE  WalkOn(ps, Walked(c, bytes, i - 1)) = Walked(c, bytes, i)
<1> HIDE DEF HeapByte
<1>1. OverflowCapacity \in Nat \ {0} /\ i - 1 \in Nat /\ NoPage = 0
  BY HeapAssumption DEF NoPage
<1>2. PICK n, m, k : n = Len(c) /\ m = Len(bytes) /\ k = (i - 1) * OverflowCapacity
  OBVIOUS
<1>3. m \in Nat \ {0}
  BY <1>2
<1>9. /\ n \in Nat \ {0} /\ n = PagesOf(m)
      /\ (n - 1) * OverflowCapacity < m /\ m <= n * OverflowCapacity
  BY <1>2, <1>3, PagesEnough DEF IsChain
<1>4. /\ n \in Nat \ {0} /\ c \in Seq(PageId) /\ Len(c) = n /\ DOMAIN c = 1 .. n
      /\ \A a \in 1 .. n : c[a] \in PageId
      /\ \A a, b \in 1 .. n : c[a] = c[b] => a = b
      /\ \A a \in 1 .. n : ps[c[a]] = Link(c, a, bytes)
  BY <1>2, <1>9 DEF IsChain
<1>5. k \in Nat /\ i * OverflowCapacity = k + OverflowCapacity
  BY <1>1, <1>2, SMTT(30)
<1>6. PICK w : w = Walked(c, bytes, i - 1)
  OBVIOUS
<1>7. CASE i > n
  <2>1. ~(i - 1 < Len(c)) /\ ~(i < Len(c))
    BY <1>1, <1>2, <1>4, <1>7
  <2>2. w = Walked(c, bytes, i) /\ w.status = "done"
    BY <1>6, <2>1 DEF Walked
  <2> QED
    BY <1>6, <2>2 DEF WalkOn
<1>8. CASE i <= n
  <2>1. i \in 1 .. n /\ i - 1 < Len(c) /\ (i - 1) + 1 = i
    BY <1>1, <1>2, <1>4, <1>8
  <2>2. w = [at |-> c[i], left |-> m - k, pages |-> SubSeq(c, 1, i - 1),
             bytes |-> SubSeq(bytes, 1, k), status |-> "walking"]
    BY <1>2, <1>6, <2>1 DEF Walked
  <2>3. PICK page : page = ps[c[i]]
    OBVIOUS
  <2>4. /\ page.kind = "overflow" /\ page.bytes = Chunk(bytes, i)
        /\ page.next = IF i = n THEN NoPage ELSE c[i + 1]
    <3>1. page = Link(c, i, bytes)
      BY <1>4, <2>1, <2>3
    <3> QED
      BY <1>2, <3>1 DEF Link, Overflow
  <2>5. PICK r : r = IF m - k < OverflowCapacity THEN m - k ELSE OverflowCapacity
    OBVIOUS
  <2>6. SubSeq(c, 1, i - 1) \in Seq(PageId) /\ Len(SubSeq(c, 1, i - 1)) = i - 1
        /\ \A j \in 1 .. i - 1 : SubSeq(c, 1, i - 1)[j] = c[j]
    <3>1. i - 1 <= Len(c)
      BY <1>2, <2>1
    <3> HIDE DEF PageId
    <3> QED
      BY <1>1, <1>4, <3>1
  <2>7. c[i] \notin Range(SubSeq(c, 1, i - 1))
    <3> SUFFICES ASSUME NEW j \in 1 .. i - 1, c[i] = SubSeq(c, 1, i - 1)[j] PROVE FALSE
      BY <2>6 DEF Range
    <3>1. j \in 1 .. n /\ j # i
      BY <1>1, <1>4, <2>1
    <3> QED
      BY <1>4, <2>1, <2>6, <3>1
  <2>8. Append(SubSeq(c, 1, i - 1), c[i]) = SubSeq(c, 1, i)
    <3>1. PICK a, b : a = Append(SubSeq(c, 1, i - 1), c[i]) /\ b = SubSeq(c, 1, i)
      OBVIOUS
    <3>2. c[i] \in PageId
      BY <1>4, <2>1
    <3> HIDE DEF PageId
    <3>3. a \in Seq(PageId) /\ Len(a) = i /\ \A j \in 1 .. i : a[j] = c[j]
      <4>1. /\ a \in Seq(PageId) /\ Len(a) = (i - 1) + 1 /\ a[(i - 1) + 1] = c[i]
            /\ \A j \in 1 .. i - 1 : a[j] = SubSeq(c, 1, i - 1)[j]
        BY <2>6, <3>1, <3>2, AppendProperties
      <4>2. \A j \in 1 .. i : j = i \/ j \in 1 .. i - 1
        BY <1>1
      <4> QED
        BY <2>1, <2>6, <4>1, <4>2
    <3>4. b \in Seq(PageId) /\ Len(b) = i /\ \A j \in 1 .. i : b[j] = c[j]
      <4>1. i <= Len(c)
        BY <1>2, <2>1
      <4> QED
        BY <1>4, <3>1, <4>1
    <3>5. a = b
      BY <3>3, <3>4, SeqEqual
    <3> QED
      BY <3>1, <3>5
  <2>9. CASE i < n
    <3>1. i \in 1 .. n - 1 /\ i <= n - 1
      BY <1>4, <2>9
    <3>2. k + OverflowCapacity < m
      <4>1. i * OverflowCapacity <= (n - 1) * OverflowCapacity
        <5>1. PICK e, g : e = (n - 1) - i /\ g = e * OverflowCapacity
          OBVIOUS
        <5>2. e \in Nat /\ OverflowCapacity \in Nat /\ i \in Nat
          BY <1>1, <1>4, <3>1, <5>1
        <5>3. g \in Nat
          BY <5>1, <5>2
        <5>4. (i + e) * OverflowCapacity = i * OverflowCapacity + g
          BY <5>1, <5>2, SMTT(30)
        <5>5. n - 1 = i + e /\ i * OverflowCapacity \in Int
          BY <1>4, <5>1, <5>2
        <5> QED
          BY <5>3, <5>4, <5>5
      <4>2. PICK y, z : y = i * OverflowCapacity /\ z = (n - 1) * OverflowCapacity
        OBVIOUS
      <4>3. y \in Int /\ z \in Int /\ y <= z /\ z < m
        <5>1. n - 1 \in Int /\ OverflowCapacity \in Int
          BY <1>1, <1>4
        <5>2. y \in Int /\ z \in Int
          BY <4>2, <5>1
        <5> QED
          BY <1>9, <4>1, <4>2, <5>2
      <4> QED
        BY <1>3, <1>5, <4>2, <4>3
    <3>3. r = OverflowCapacity /\ (m - k) - r = m - (k + OverflowCapacity)
          /\ m - (k + OverflowCapacity) > 0
      BY <1>1, <1>3, <1>5, <2>5, <3>2
    <3>4. PICK q : q = k + OverflowCapacity
      OBVIOUS
    <3>5. q \in Nat /\ k <= q /\ q <= k + OverflowCapacity /\ q <= Len(bytes) /\ q - k = r
      BY <1>1, <1>2, <1>3, <1>5, <3>2, <3>3, <3>4
    <3>6. SubSeq(bytes, 1, k) \o SubSeq(Chunk(bytes, i), 1, q - k) = SubSeq(bytes, 1, q)
      BY <1>2, <3>5, ChunkJoins, ZenonT(90)
    <3>7. c[i + 1] \in PageId /\ c[i + 1] # NoPage
      <4>1. i + 1 \in 1 .. n
        BY <3>1, <1>4
      <4> QED
        BY <1>1, <1>4, <4>1, HeapAssumption DEF PageId
    <3>8. i # n
      BY <2>9, <1>4
    <3>9. WalkOn(ps, w) = [at |-> c[i + 1], left |-> m - q, pages |-> SubSeq(c, 1, i),
                           bytes |-> SubSeq(bytes, 1, q), status |-> "walking"]
      <4>1. (m - k) - r # 0 /\ page.next = c[i + 1] /\ page.next # NoPage
        BY <2>4, <3>3, <3>7, <3>8
      <4>2. m - q = (m - k) - r
        BY <3>3, <3>4
      <4>3. w.status = "walking" /\ w.at = c[i] /\ w.pages = SubSeq(c, 1, i - 1)
            /\ w.bytes = SubSeq(bytes, 1, k) /\ w.left = m - k
        BY <2>2
      <4>4. WalkOn(ps, w) = [at |-> page.next, left |-> (m - k) - r,
                             pages |-> Append(SubSeq(c, 1, i - 1), c[i]),
                             bytes |-> SubSeq(bytes, 1, k) \o SubSeq(page.bytes, 1, r),
                             status |-> "walking"]
        BY <2>3, <2>4, <2>5, <2>7, <4>1, <4>3 DEF WalkOn
      <4> QED
        BY <2>4, <2>8, <3>5, <3>6, <4>1, <4>2, <4>4
    <3> QED
      BY <1>2, <1>5, <1>6, <2>9, <3>4, <3>9 DEF Walked
  <2>10. CASE i = n
    <3>1. k < m /\ m <= k + OverflowCapacity
      BY <1>2, <1>5, <1>9, <2>10
    <3>2. r = m - k /\ (m - k) - r = 0
      BY <1>1, <1>3, <1>5, <2>5, <3>1
    <3>3. SubSeq(bytes, 1, k) \o SubSeq(Chunk(bytes, i), 1, m - k) = SubSeq(bytes, 1, m)
      <4>1. m \in Nat /\ k <= m /\ m <= Len(bytes)
        BY <1>2, <1>3, <1>5, <3>1
      <4> QED
        BY <1>2, <3>1, <4>1, ChunkJoins, ZenonT(90)
    <3>4. SubSeq(bytes, 1, m) = bytes
      <4>1. PICK t : t = SubSeq(bytes, 1, m)
        OBVIOUS
      <4>2. t \in Seq(HeapByte) /\ Len(t) = m /\ \A j \in 1 .. m : t[j] = bytes[j]
        BY <1>2, <1>3, <4>1
      <4>3. t = bytes
        BY <1>2, <4>2, SeqEqual
      <4> QED
        BY <4>1, <4>3
    <3>5. SubSeq(c, 1, i) = c
      <4>1. PICK t : t = SubSeq(c, 1, i)
        OBVIOUS
      <4> HIDE DEF PageId
      <4>2. t \in Seq(PageId) /\ Len(t) = n /\ \A j \in 1 .. n : t[j] = c[j]
        BY <1>4, <2>10, <4>1
      <4>3. t = c
        BY <1>2, <1>4, <4>2, SeqEqual
      <4> QED
        BY <4>1, <4>3
    <3>6. w.status = "walking" /\ w.at = c[i] /\ w.pages = SubSeq(c, 1, i - 1)
          /\ w.bytes = SubSeq(bytes, 1, k) /\ w.left = m - k
      BY <2>2
    <3>7. page.next = NoPage
      BY <2>4, <2>10
    <3>8. WalkOn(ps, w) = [at |-> page.next, left |-> (m - k) - r,
                           pages |-> Append(SubSeq(c, 1, i - 1), c[i]),
                           bytes |-> SubSeq(bytes, 1, k) \o SubSeq(page.bytes, 1, r),
                           status |-> "done"]
      BY <2>3, <2>4, <2>5, <2>7, <3>2, <3>6, <3>7 DEF WalkOn
    <3>9. WalkOn(ps, w) = [at |-> NoPage, left |-> 0, pages |-> c, bytes |-> bytes,
                           status |-> "done"]
      BY <2>4, <2>8, <3>2, <3>3, <3>4, <3>5, <3>7, <3>8
    <3>10. ~(i < Len(c))
      BY <1>2, <1>4, <2>10
    <3> QED
      BY <1>6, <3>9, <3>10 DEF Walked
  <2> QED
    BY <1>1, <1>4, <1>8, <2>9, <2>10
<1> QED
  BY <1>1, <1>4, <1>7, <1>8

LEMMA WalkRight ==
    ASSUME NEW ps, NEW bytes \in Seq(HeapByte), bytes # <<>>, NEW c, IsChain(ps, c, bytes)
    PROVE  WalkChain(ps, c[1], Len(bytes))
             = [at |-> NoPage, left |-> 0, pages |-> c, bytes |-> bytes, status |-> "done"]
<1> DEFINE start == [at |-> c[1], left |-> Len(bytes), pages |-> <<>>, bytes |-> <<>>,
                     status |-> "walking"]
           D(h) == [i \in 0 .. MaxPages |-> IF i = 0 THEN start ELSE WalkOn(ps, h[i - 1])]
           walk == CHOOSE h : h = D(h)
           W == [i \in 0 .. MaxPages |-> Walked(c, bytes, i)]
<1>1. MaxPages \in Nat /\ OverflowCapacity \in Nat
  BY HeapAssumption
<1>2. Len(bytes) \in Nat \ {0}
  BY DEF HeapByte
<1>3. Len(c) \in Nat \ {0} /\ c \in Seq(PageId)
  BY <1>2, PagesEnough DEF IsChain
<1>4. Walked(c, bytes, 0) = start
  <2>1. 0 < Len(c) /\ 0 * OverflowCapacity = 0 /\ 0 + 1 = 1 /\ Len(bytes) - 0 = Len(bytes)
    BY <1>1, <1>2, <1>3
  <2>2. SubSeq(c, 1, 0) = <<>> /\ SubSeq(bytes, 1, 0) = <<>>
    <3> HIDE DEF HeapByte, PageId
    <3> QED
      BY <1>3, SubSeqEmpty
  <2> QED
    BY <2>1, <2>2 DEF Walked
<1>5. W = D(W)
  <2>1. ASSUME NEW i \in 0 .. MaxPages PROVE W[i] = D(W)[i]
    <3>1. CASE i = 0
      BY <1>1, <1>4, <3>1
    <3>2. CASE i # 0
      <4>1. i \in Nat \ {0} /\ i - 1 \in 0 .. MaxPages
        BY <1>1, <3>2
      <4>2. WalkOn(ps, Walked(c, bytes, i - 1)) = Walked(c, bytes, i)
        BY <4>1, WalkStep
      <4> QED
        BY <3>2, <4>1, <4>2
    <3> QED
      BY <3>1, <3>2
  <2> HIDE DEF start
  <2> QED
    BY <2>1
<1>6. walk = D(walk)
  <2> HIDE DEF D, W
  <2> QED
    BY <1>5
<1>7. WalkChain(ps, c[1], Len(bytes)) = walk[MaxPages]
  BY DEF WalkChain
<1>8. \A i \in 0 .. MaxPages : walk[i] = IF i = 0 THEN start ELSE WalkOn(ps, walk[i - 1])
  <2> HIDE DEF walk, start
  <2> QED
    BY <1>6
<1>9. \A k \in Nat : k <= MaxPages => walk[k] = Walked(c, bytes, k)
  <2> HIDE DEF walk, start
  <2> DEFINE T == {k \in Nat : k <= MaxPages => walk[k] = Walked(c, bytes, k)}
  <2>1. 0 \in T
    BY <1>1, <1>4, <1>8
  <2>2. ASSUME NEW k \in Nat, k \in T PROVE k + 1 \in T
    <3> SUFFICES ASSUME k + 1 <= MaxPages PROVE walk[k + 1] = Walked(c, bytes, k + 1)
      OBVIOUS
    <3>1. walk[k] = Walked(c, bytes, k)
      BY <1>1, <2>2
    <3>2. k + 1 \in 0 .. MaxPages /\ k + 1 \in Nat \ {0} /\ (k + 1) - 1 = k /\ k + 1 # 0
      BY <1>1
    <3>3. WalkOn(ps, Walked(c, bytes, (k + 1) - 1)) = Walked(c, bytes, k + 1)
      BY <3>2, WalkStep, ZenonT(60)
    <3> QED
      BY <1>8, <3>1, <3>2, <3>3
  <2>3. Nat \subseteq T
    <3> HIDE DEF T
    <3> QED
      BY <2>1, <2>2, NatInd
  <2> QED
    BY <2>3
<1>10. Len(c) <= MaxPages
  <2>1. c \in [1 .. Len(c) -> 1 .. MaxPages]
    <3>1. c \in [1 .. Len(c) -> PageId]
      BY <1>3, LenProperties
    <3> QED
      BY <3>1 DEF PageId
  <2>2. c \in Injection(1 .. Len(c), 1 .. MaxPages)
    BY <2>1 DEF IsChain, Injection, IsInjective
  <2>3. /\ IsFiniteSet(1 .. MaxPages) /\ Cardinality(1 .. MaxPages) = MaxPages
        /\ Cardinality(1 .. Len(c)) = Len(c)
    <3>1. ASSUME NEW n \in Nat PROVE IsFiniteSet(1 .. n) /\ Cardinality(1 .. n) = n
      <4>1. IsFiniteSet(1 .. n) /\ Cardinality(1 .. n) = IF 1 > n THEN 0 ELSE n - 1 + 1
        <5>1. n \in Int /\ 1 \in Int
          OBVIOUS
        <5> QED
          BY ONLY <5>1, FS_Interval
      <4> QED
        BY <4>1
    <3> QED
      BY <1>1, <1>3, <3>1
  <2>4. Cardinality(1 .. Len(c)) <= Cardinality(1 .. MaxPages)
    BY <2>2, <2>3, FS_Injection
  <2> QED
    BY <2>3, <2>4
<1>11. Walked(c, bytes, MaxPages)
         = [at |-> NoPage, left |-> 0, pages |-> c, bytes |-> bytes, status |-> "done"]
  <2>1. ~(MaxPages < Len(c))
    BY <1>1, <1>3, <1>10
  <2> QED
    BY <2>1 DEF Walked
<1> QED
  <2> HIDE DEF walk
  <2> QED
    BY <1>1, <1>7, <1>9, <1>11

WholeChain(c, bytes) ==
    [at |-> NoPage, left |-> 0, pages |-> c, bytes |-> bytes, status |-> "done"]

ReadsAs(ps, cell, d, v, c) ==
    /\ cell[1][2] = d /\ (IsOverflow(cell) <=> ~IsInline(v))
    /\ IsInline(v) => SubSeq(cell, CellHeaderLen + 1, Len(cell)) = Encoded(v)
    /\ ~IsInline(v) => ChainOf(ps, cell) = WholeChain(c, Encoded(v))

(* A cell read back: its id, and the document or its chain.                *)
LEMMA CellRead ==
    ASSUME NEW ps, NEW d \in Doc, NEW v \in Value, NEW c \in Seq(PageId), ChainFor(ps, v, c),
           NEW cell, cell = CellOf(d, v, c)
    PROVE  ReadsAs(ps, cell, d, v, c)
<1>1. CellHeaderLen \in Nat \ {0} /\ PointerLen \in Nat \ {0}
  BY HeapAssumption
<1>2. /\ Encoded(v) \in Seq(HeapByte) /\ Len(Encoded(v)) = SizeOf[v]
      /\ SizeOf[v] \in Nat \ {0} /\ Encoded(v) # <<>>
  BY EncodedBytes
<1>3. CASE IsInline(v)
  <2>1. PICK a, b : a = HeaderOf("inline", d) /\ b = Encoded(v)
    OBVIOUS
  <2>2. a \in Seq(HeapByte) /\ Len(a) = CellHeaderLen /\ a[1] = <<"inline", d>>
    <3>1. <<"inline", d>> \in HeapByte
      BY DEF HeapByte
    <3> QED
      BY <1>1, <2>1, <3>1 DEF HeaderOf
  <2>3. cell = a \o b
    BY <1>3, <2>1 DEF CellOf
  <2> HIDE DEF HeapByte
  <2>4. /\ cell \in Seq(HeapByte) /\ Len(cell) = CellHeaderLen + SizeOf[v]
        /\ \A i \in 1 .. CellHeaderLen + SizeOf[v] :
              cell[i] = IF i <= CellHeaderLen THEN a[i] ELSE b[i - CellHeaderLen]
    <3>1. Len(a) + Len(b) = CellHeaderLen + SizeOf[v]
      BY <1>2, <2>1, <2>2
    <3> QED
      BY <1>2, <2>1, <2>2, <2>3, <3>1, ConcatProperties
  <2>5. cell[1] = <<"inline", d>>
    BY <1>1, <1>2, <2>2, <2>4, SMTT(60)
  <2>6. SubSeq(cell, CellHeaderLen + 1, Len(cell)) = Encoded(v)
    <3>1. PICK t, z : t = SubSeq(cell, CellHeaderLen + 1, Len(cell)) /\ z = SizeOf[v]
      OBVIOUS
    <3>2. t \in Seq(HeapByte) /\ Len(t) = z
          /\ \A j \in 1 .. z : t[j] = cell[CellHeaderLen + j]
      <4>1. z \in Nat \ {0} /\ Len(cell) = CellHeaderLen + z
        BY <1>2, <2>4, <3>1
      <4>2. /\ t \in Seq(HeapByte)
            /\ Len(t) = Len(cell) - (CellHeaderLen + 1) + 1
            /\ \A j \in 1 .. Len(cell) - (CellHeaderLen + 1) + 1 :
                  t[j] = cell[(CellHeaderLen + 1) + j - 1]
        <5>1. PICK m, n : m = CellHeaderLen + 1 /\ n = Len(cell)
          OBVIOUS
        <5>2. m \in Int /\ n \in Int /\ m <= n /\ t = SubSeq(cell, m, n)
          BY <1>1, <3>1, <4>1, <5>1
        <5>3. \A i \in m .. n : cell[i] \in HeapByte
          <6>1. m .. n \subseteq 1 .. Len(cell)
            BY <1>1, <4>1, <5>1
          <6> QED
            BY <2>4, <6>1, LenProperties
        <5>4. /\ t \in Seq(HeapByte) /\ Len(t) = n - m + 1
              /\ \A j \in 1 .. n - m + 1 : t[j] = cell[m + j - 1]
          BY <5>2, <5>3, SubSeqProperties
        <5> QED
          BY <5>1, <5>4
      <4>3. Len(cell) - (CellHeaderLen + 1) + 1 = z
            /\ \A j \in 1 .. z : (CellHeaderLen + 1) + j - 1 = CellHeaderLen + j
        BY <1>1, <4>1
      <4> QED
        BY <4>2, <4>3
    <3>3. \A j \in 1 .. z : cell[CellHeaderLen + j] = b[j]
      <4>1. z \in Nat \ {0}
        BY <1>2, <3>1
      <4>2. \A j \in 1 .. z : /\ CellHeaderLen + j \in 1 .. CellHeaderLen + SizeOf[v]
                              /\ ~(CellHeaderLen + j <= CellHeaderLen)
                              /\ (CellHeaderLen + j) - CellHeaderLen = j
        BY <1>1, <3>1, <4>1
      <4> QED
        BY <2>4, <4>2
    <3>4. t = b
      <4>1. b \in Seq(HeapByte) /\ Len(b) = z
        BY <1>2, <2>1, <3>1
      <4>2. Len(t) = Len(b) /\ \A j \in 1 .. Len(t) : t[j] = b[j]
        BY <3>2, <3>3, <4>1
      <4> QED
        BY ONLY <3>2, <4>1, <4>2, SeqEqual
    <3> QED
      BY <2>1, <3>1, <3>4
  <2> QED
    BY <1>3, <2>5, <2>6 DEF IsOverflow, ReadsAs
<1>4. CASE ~IsInline(v)
  <2>1. PICK a, b : a = HeaderOf("overflow", d) /\ b = PointerTo(SizeOf[v], c[1])
    OBVIOUS
  <2>2. a \in Seq(HeapByte) /\ Len(a) = CellHeaderLen /\ a[1] = <<"overflow", d>>
    <3>1. <<"overflow", d>> \in HeapByte
      BY DEF HeapByte
    <3> QED
      BY <1>1, <2>1, <3>1 DEF HeaderOf
  <2>3. b \in Seq(HeapByte) /\ Len(b) = PointerLen /\ b[1] = <<"chain", SizeOf[v], c[1]>>
    <3>1. c[1] \in PageId
      <4>1. Len(c) \in Nat \ {0}
        BY <1>2, <1>4, PagesEnough DEF ChainFor, IsChain
      <4> QED
        BY <4>1
    <3>2. <<"chain", SizeOf[v], c[1]>> \in HeapByte
      BY <1>2, <3>1 DEF HeapByte
    <3> QED
      BY <1>1, <2>1, <3>2 DEF PointerTo
  <2>4. cell = a \o b
    BY <1>4, <2>1 DEF CellOf
  <2> HIDE DEF HeapByte
  <2>5. \A i \in 1 .. CellHeaderLen + PointerLen :
           cell[i] = IF i <= CellHeaderLen THEN a[i] ELSE b[i - CellHeaderLen]
    BY <2>2, <2>3, <2>4, ConcatProperties
  <2>6. cell[1] = <<"overflow", d>>
    <3>1. 1 \in 1 .. CellHeaderLen + PointerLen /\ 1 <= CellHeaderLen
      BY <1>1
    <3> QED
      BY <2>2, <2>5, <3>1
  <2>7. cell[CellHeaderLen + 1] = b[1]
    <3>1. /\ CellHeaderLen + 1 \in 1 .. CellHeaderLen + PointerLen
          /\ ~(CellHeaderLen + 1 <= CellHeaderLen) /\ (CellHeaderLen + 1) - CellHeaderLen = 1
      BY <1>1
    <3> QED
      BY <2>5, <3>1
  <2>8. Pointer(cell)[3] = c[1] /\ Pointer(cell)[2] = Len(Encoded(v))
    BY <1>2, <2>3, <2>7 DEF Pointer
  <2>9. IsChain(ps, c, Encoded(v))
    BY <1>4 DEF ChainFor
  <2>10. WalkChain(ps, c[1], Len(Encoded(v)))
           = [at |-> NoPage, left |-> 0, pages |-> c, bytes |-> Encoded(v), status |-> "done"]
    BY <1>2, <2>9, WalkRight
  <2> QED
    BY <1>4, <2>6, <2>8, <2>10 DEF IsOverflow, ChainOf, WholeChain, ReadsAs
<1> QED
  BY <1>3, <1>4

(* What is read where a document is held: the document, and the pages of   *)
(* its chain.                                                              *)
LEMMA HeldRead ==
    ASSUME NEW ps \in [PageId -> PageSet], NEW loc, NEW d \in Doc, NEW v \in Value,
           NEW c \in Seq(PageId), Held(ps, loc, d, v, c)
    PROVE  /\ Stored(ps, loc) = [id |-> d, encoded |-> Encoded(v), status |-> "done"]
           /\ ChainFreed(ps, loc) = FreeAll(ps, Range(c))
           /\ \A h : h.pages = ps => ChainPages(h, loc) = Range(c)
<1>1. PICK cell : cell = LiveCell(ps, loc)
  OBVIOUS
<1>2. cell = CellOf(d, v, c) /\ ChainFor(ps, v, c)
  BY <1>1 DEF Held, CellAt, LiveCell
<1>3. /\ cell[1][2] = d /\ (IsOverflow(cell) <=> ~IsInline(v))
      /\ IsInline(v) => SubSeq(cell, CellHeaderLen + 1, Len(cell)) = Encoded(v)
      /\ ~IsInline(v) => ChainOf(ps, cell) = WholeChain(c, Encoded(v))
  <2>1. ReadsAs(ps, cell, d, v, c)
    BY <1>2, CellRead
  <2> QED
    BY <2>1 DEF ReadsAs
<1>4. CASE IsInline(v)
  <2>1. Range(c) = {}
    <3>1. c = <<>>
      BY <1>2, <1>4 DEF ChainFor
    <3> QED
      BY <3>1 DEF Range
  <2>2. FreeAll(ps, {}) = ps
    BY DEF FreeAll
  <2> QED
    BY <1>1, <1>3, <1>4, <2>1, <2>2 DEF Stored, ChainFreed, ChainPages
<1>5. CASE ~IsInline(v)
  BY <1>1, <1>3, <1>5 DEF Stored, ChainFreed, ChainPages, WholeChain
<1> QED
  BY <1>4, <1>5

(* The map stays right where the pages of cells stay as they are.          *)
LEMMA RoomsOver ==
    ASSUME NEW h \in HeapSet, RoomsRight(h, {}), CurrentRight(h),
           NEW ps \in [PageId -> PageSet],
           \A p \in PageId : h.pages[p].kind = "data" => ps[p] = h.pages[p],
           NEW g, g = [h EXCEPT !.pages = ps]
    PROVE  /\ g \in HeapSet /\ RoomsRight(g, {}) /\ CurrentRight(g)
           /\ g.pages = ps /\ g.current = h.current /\ g.free = h.free
<1>1. /\ g \in HeapSet /\ g.pages = ps /\ g.current = h.current /\ g.free = h.free
      /\ h.free \in RoomSet /\ h.current \in 0 .. MaxPages /\ MaxPages \in Nat
  BY HeapAssumption DEF HeapSet
<1>2. DOMAIN h.free \subseteq PageId
  BY <1>1, RoomSets
<1>3. RoomsRight(g, {})
  BY <1>1, <1>2 DEF RoomsRight, RoomRight
<1>4. h.current # NoPage => h.current \in PageId
  BY <1>1 DEF NoPage, PageId
<1>5. CurrentRight(g)
  BY <1>1, <1>4 DEF CurrentRight
<1> QED
  BY <1>1, <1>3, <1>5

-----------------------------------------------------------------------------
(* The operations.                                                         *)

LEMMA InsertKeeps ==
    ASSUME NEW h, NEW at, NEW now, Kept(h, at, now), NEW d \in Doc, NEW v \in Value,
           d \notin DOMAIN at, RoomFor(h.pages, v),
           NEW put, put = InsertRecord(h, d, v)
    PROVE  Kept(put.heap, SetRoom(at, d, put.loc), SetRoom(now, d, v))
<1>1. h \in HeapSet /\ RoomsRight(h, {}) /\ CurrentRight(h)
  BY DEF Kept
<1>2. PICK ch : Body(h.pages, {h.current}, {}, at, now, ch, {})
  BY DEF Kept
<1>3. PICK w, g : w = WriteCell(h.pages, d, v) /\ g = [h EXCEPT !.pages = w.pages]
  OBVIOUS
<1>4. PICK c \in Seq(PageId) :
         /\ Body(w.pages, {h.current}, {}, at, now, ch, Range(c))
         /\ w.cell = CellOf(d, v, c) /\ ChainFor(w.pages, v, c)
         /\ FreePages(w.pages) # {}
         /\ \A p \in PageId : h.pages[p].kind = "data" => w.pages[p] = h.pages[p]
  BY <1>2, <1>3, CellWritten
<1>5. w.pages \in [PageId -> PageSet]
  BY <1>4 DEF Body
<1>6. /\ g \in HeapSet /\ RoomsRight(g, {}) /\ CurrentRight(g)
      /\ g.pages = w.pages /\ g.current = h.current
  BY <1>1, <1>3, <1>4, <1>5, RoomsOver
<1>7. put = PlaceInHeap(g, CellOf(d, v, c))
  BY <1>3, <1>4 DEF InsertRecord
<1>8. /\ put.heap \in HeapSet /\ RoomsRight(put.heap, {}) /\ CurrentRight(put.heap)
      /\ Body(put.heap.pages, {put.heap.current}, {}, SetRoom(at, d, put.loc),
              SetRoom(now, d, v), SetRoom(ch, d, c), {})
  <2>1. Body(g.pages, {g.current}, {}, at, now, ch, Range(c))
        /\ ChainFor(g.pages, v, c) /\ FreePages(g.pages) # {}
    BY <1>4, <1>6
  <2> QED
    BY <1>6, <1>7, <2>1, PlaceKeeps
<1> QED
  BY <1>8 DEF Kept

WithPages(h, ps) == [h EXCEPT !.pages = ps]
SameBut(ps, ps2, p) == \A q \in PageId \ {p} : ps2[q] = ps[q]

(* A page changed and not yet noted, and one freed.                        *)
LEMMA RoomsBut ==
    ASSUME NEW h \in HeapSet, RoomsRight(h, {}), CurrentRight(h), NEW p \in PageId,
           NEW ps \in [PageId -> PageSet], ps[p].kind = "data",
           SameBut(h.pages, ps, p),
           NEW g, g = WithPages(h, ps)
    PROVE  /\ g \in HeapSet /\ RoomsRight(g, {p}) /\ CurrentRight(g)
           /\ g.pages = ps /\ g.current = h.current
<1>1. /\ g \in HeapSet /\ g.pages = ps /\ g.current = h.current /\ g.free = h.free
      /\ h.free \in RoomSet /\ h.current \in 0 .. MaxPages /\ MaxPages \in Nat
  BY HeapAssumption DEF HeapSet, WithPages
<1>2. DOMAIN h.free \subseteq PageId
  BY <1>1, RoomSets
<1>3. RoomsRight(g, {p})
  BY <1>1, <1>2 DEF RoomsRight, RoomRight, SameBut
<1>4. h.current # NoPage => h.current \in PageId
  BY <1>1 DEF NoPage, PageId
<1>5. CurrentRight(g)
  BY <1>1, <1>4 DEF CurrentRight, SameBut
<1> QED
  BY <1>1, <1>3, <1>5

LEMMA RoomsFreed ==
    ASSUME NEW h \in HeapSet, RoomsRight(h, {}), CurrentRight(h), NEW p \in PageId,
           p # h.current, NEW ps \in [PageId -> PageSet],
           SameBut(h.pages, ps, p),
           NEW g, g = [pages |-> ps, current |-> h.current, free |-> RemoveRoom(h.free, p)]
    PROVE  /\ g \in HeapSet /\ RoomsRight(g, {}) /\ CurrentRight(g)
           /\ g.pages = ps /\ g.current = h.current
<1>1. h.free \in RoomSet /\ h.current \in 0 .. MaxPages /\ MaxPages \in Nat
  BY HeapAssumption DEF HeapSet
<1>2. DOMAIN h.free \subseteq PageId /\ RemoveRoom(h.free, p) \in RoomSet
  BY <1>1, RoomSets
<1>3. /\ g \in HeapSet /\ g.pages = ps /\ g.current = h.current
      /\ g.free = RemoveRoom(h.free, p)
  BY <1>1, <1>2 DEF HeapSet
<1>4. DOMAIN g.free = DOMAIN h.free \ {p} /\ \A q \in DOMAIN g.free : g.free[q] = h.free[q]
  BY <1>3 DEF RemoveRoom, Restrict
<1>5. RoomsRight(g, {})
  BY <1>2, <1>3, <1>4 DEF RoomsRight, RoomRight, SameBut
<1>6. h.current # NoPage => h.current \in PageId
  BY <1>1 DEF NoPage, PageId
<1>7. CurrentRight(g)
  BY <1>3, <1>6 DEF CurrentRight, SameBut
<1> QED
  BY <1>3, <1>5, <1>7

(* `write_or_free` of a page a loose cell is deleted from.                 *)
LEMMA WriteOrFreeKeeps ==
    ASSUME NEW h \in HeapSet, RoomsRight(h, {}), CurrentRight(h),
           NEW at, NEW now, NEW ch, NEW extra, NEW p \in PageId, NEW s,
           Body(h.pages, {h.current}, {Location(p, s)}, at, now, ch, extra),
           h.pages[p].kind = "data", s \in LiveSlots(h.pages[p].page),
           NEW g, g = WriteOrFree(h, p, DeleteCell(h.pages[p].page, s))
    PROVE  /\ g \in HeapSet /\ RoomsRight(g, {}) /\ CurrentRight(g)
           /\ Body(g.pages, {g.current}, {}, at, now, ch, extra)
           /\ SameBut(h.pages, g.pages, p)
<1>1. PICK new, ps : /\ new = DeleteCell(h.pages[p].page, s)
                     /\ ps = [h.pages EXCEPT ![p] = Data(new)]
  OBVIOUS
<1>2. Body(ps, {h.current} \cup {p}, {}, at, now, ch, extra)
  BY <1>1, BodyDeleted
<1>3. h.pages \in [PageId -> PageSet] /\ ps \in [PageId -> PageSet]
  BY <1>2 DEF Body, HeapSet
<1>4. /\ ps[p] = Data(new) /\ ps[p].kind = "data" /\ ps[p].page = new
      /\ SameBut(h.pages, ps, p)
  BY <1>1, <1>3 DEF Data, SameBut
<1>5. CASE IsEmpty(new) /\ p # h.current
  <2>1. PICK qs : qs = [ps EXCEPT ![p] = FreePage]
    OBVIOUS
  <2>2. Body(qs, {h.current}, {}, at, now, ch, extra)
    BY <1>2, <1>4, <1>5, <2>1, BodyEmptied
  <2>3. qs \in [PageId -> PageSet] /\ SameBut(h.pages, qs, p)
    BY <1>3, <1>4, <2>1, FreeInSet DEF SameBut
  <2>4. qs = [h.pages EXCEPT ![p] = FreePage]
    BY <1>1, <1>3, <2>1
  <2>5. g = [pages |-> qs, current |-> h.current, free |-> RemoveRoom(h.free, p)]
    BY <1>1, <1>5, <2>4 DEF WriteOrFree, HeapSet
  <2>6. /\ g \in HeapSet /\ RoomsRight(g, {}) /\ CurrentRight(g)
        /\ g.pages = qs /\ g.current = h.current
    BY <1>5, <2>3, <2>5, RoomsFreed
  <2> QED
    BY <2>2, <2>3, <2>6
<1>6. CASE ~(IsEmpty(new) /\ p # h.current)
  <2>1. PICK f : f = [h EXCEPT !.pages = ps]
    OBVIOUS
  <2>2. /\ f \in HeapSet /\ RoomsRight(f, {p}) /\ CurrentRight(f)
        /\ f.pages = ps /\ f.current = h.current
    BY <1>3, <1>4, <2>1, RoomsBut DEF WithPages
  <2>3. g = Noted(f, p)
    <3>1. [h EXCEPT !.pages[p] = Data(new)] = f
      BY <1>1, <2>1 DEF HeapSet
    <3> QED
      BY <1>1, <1>6, <3>1 DEF WriteOrFree
  <2>4. g \in HeapSet /\ RoomsRight(g, {}) /\ g.pages = ps /\ g.current = h.current
    <3>1. f.pages[p].kind = "data"
      BY <1>4, <2>2
    <3>2. /\ g \in HeapSet /\ RoomsRight(g, {}) /\ g.pages = f.pages
          /\ g.current = f.current
      BY <2>2, <2>3, <3>1, NotedRight
    <3> QED
      BY <2>2, <3>2
  <2>5. CurrentRight(g)
    BY <2>2, <2>4 DEF CurrentRight
  <2>6. Body(ps, {h.current}, {}, at, now, ch, extra)
    <3>1. \A q \in ({h.current} \cup {p}) \cap PageId :
             q \in {h.current} \/ (ps[q].kind = "data" => ~IsEmpty(ps[q].page))
      BY <1>4, <1>6
    <3> QED
      BY <1>2, <3>1, BodyOk
  <2> QED
    BY <1>4, <2>4, <2>5, <2>6
<1> QED
  BY <1>5, <1>6

(* A document forgotten and its chain freed; its cell is still there.      *)
Loosened(h, ps, p, s, at, now) ==
    /\ p \in PageId /\ s \in Nat
    /\ \E k : Body(ps, {h.current}, {Location(p, s)}, at, now, k, {})
    /\ \A q \in PageId : h.pages[q].kind = "data" => ps[q] = h.pages[q]
    /\ h.pages[p].kind = "data" /\ s \in LiveSlots(h.pages[p].page)
    /\ FreePages(h.pages) \subseteq FreePages(ps)

LEMMA ChainGone ==
    ASSUME NEW h, NEW at, NEW now, Kept(h, at, now), NEW d \in DOMAIN at,
           NEW ps, ps = ChainFreed(h.pages, at[d]), NEW p, NEW s, p = at[d].page, s = at[d].slot
    PROVE  /\ d \in Doc /\ at[d] = Location(p, s)
           /\ Loosened(h, ps, p, s, RemoveRoom(at, d), RemoveRoom(now, d))
<1>1. PICK ch : Body(h.pages, {h.current}, {}, at, now, ch, {})
  BY DEF Kept
<1>2. h.pages \in [PageId -> PageSet] /\ DocsTyped(at, now, ch) /\ AllHeld(h.pages, at, now, ch)
  BY <1>1 DEF Body
<1>3. /\ d \in Doc /\ at[d] \in [page : PageId, slot : Nat] /\ now[d] \in Value
      /\ ch[d] \in Seq(PageId) /\ Held(h.pages, at[d], d, now[d], ch[d])
  BY <1>2 DEF DocsTyped, AllHeld
<1>4. p \in PageId /\ s \in Nat /\ at[d] = Location(p, s)
  BY <1>3 DEF Location
<1>5. h.pages[p].kind = "data" /\ s \in LiveSlots(h.pages[p].page)
  BY <1>3 DEF Held, CellAt
<1>6. ps = FreeAll(h.pages, Range(ch[d]))
  BY <1>2, <1>3, HeldRead
<1>7. Body(h.pages, {h.current}, {at[d]}, RemoveRoom(at, d), RemoveRoom(now, d),
           RemoveRoom(ch, d), Range(ch[d]))
  BY <1>1, BodyForget
<1>8. Body(ps, {h.current}, {at[d]}, RemoveRoom(at, d), RemoveRoom(now, d),
           RemoveRoom(ch, d), {})
  BY <1>6, <1>7, BodyFreed
<1>9. \A q \in Range(ch[d]) : h.pages[q].kind = "overflow"
  BY <1>7 DEF Body, ExtraApart
<1>10. \A q \in PageId : ps[q] = IF q \in Range(ch[d]) THEN FreePage ELSE h.pages[q]
  BY <1>6 DEF FreeAll
<1>11. \A q \in PageId : h.pages[q].kind = "data" => ps[q] = h.pages[q]
  BY <1>9, <1>10
<1>12. FreePages(h.pages) \subseteq FreePages(ps)
  BY <1>10 DEF FreePages
<1> QED
  BY <1>3, <1>4, <1>5, <1>8, <1>11, <1>12 DEF Loosened

LEMMA DeleteKeeps ==
    ASSUME NEW h, NEW at, NEW now, Kept(h, at, now), NEW d \in DOMAIN at,
           NEW g, g = DeleteRecord(h, at[d])
    PROVE  Kept(g, RemoveRoom(at, d), RemoveRoom(now, d))
<1>1. h \in HeapSet /\ RoomsRight(h, {}) /\ CurrentRight(h)
  BY DEF Kept
<1>2. PICK ps, p, s : ps = ChainFreed(h.pages, at[d]) /\ p = at[d].page /\ s = at[d].slot
  OBVIOUS
<1>12. Loosened(h, ps, p, s, RemoveRoom(at, d), RemoveRoom(now, d))
  BY <1>2, ChainGone
<1>3. /\ p \in PageId /\ s \in Nat
      /\ \A q \in PageId : h.pages[q].kind = "data" => ps[q] = h.pages[q]
      /\ h.pages[p].kind = "data" /\ s \in LiveSlots(h.pages[p].page)
  BY <1>12 DEF Loosened
<1>4. PICK k : Body(ps, {h.current}, {Location(p, s)}, RemoveRoom(at, d),
                    RemoveRoom(now, d), k, {})
  BY <1>12 DEF Loosened
<1>5. ps \in [PageId -> PageSet]
  BY <1>4 DEF Body
<1>6. PICK f, page : f = [h EXCEPT !.pages = ps] /\ page = h.pages[p].page
  OBVIOUS
<1>7. /\ f \in HeapSet /\ RoomsRight(f, {}) /\ CurrentRight(f)
      /\ f.pages = ps /\ f.current = h.current /\ f.free = h.free
  BY <1>1, <1>3, <1>5, <1>6, RoomsOver
<1>8. f.pages[p] = h.pages[p] /\ f.pages[p].page = page
  BY <1>3, <1>6, <1>7
<1>9. Cardinality(LiveSlots(page)) = 1 <=> IsEmpty(DeleteCell(page, s))
  <2>1. page \in PageType(HeapByte) /\ PageSound(page)
    BY <1>3, <1>5, <1>7, <1>8, PageKinds
  <2>2. LiveSlots(DeleteCell(page, s)) = LiveSlots(page) \ {s} /\ s \in LiveSlots(page)
    BY <1>3, <1>6, <2>1, DeleteCellKeeps
  <2>3. IsFiniteSet(LiveSlots(page))
    BY <2>1, LiveFinite
  <2>4. LiveSlots(page) = {s} => Cardinality(LiveSlots(page)) = 1
    BY FS_Singleton
  <2>5. Cardinality(LiveSlots(page)) = 1 => LiveSlots(page) = {s}
    <3>1. Cardinality({s}) = 1 /\ {s} \in SUBSET LiveSlots(page)
      BY <2>2, FS_Singleton
    <3> QED
      BY <2>3, <3>1, FS_Subset
  <2> QED
    BY <2>2, <2>4, <2>5 DEF IsEmpty
<1>10. g = WriteOrFree(f, p, DeleteCell(page, s))
  <2>1. FreeAll(ps, {p}) = [ps EXCEPT ![p] = FreePage]
    BY <1>5 DEF FreeAll
  <2>2. CASE IsEmpty(DeleteCell(page, s)) /\ p # h.current
    <3>1. g = [h EXCEPT !.free = RemoveRoom(@, p), !.pages = FreeAll(ps, {p})]
      BY <1>2, <1>6, <1>9, <2>2 DEF DeleteRecord
    <3>2. g = [f EXCEPT !.free = RemoveRoom(@, p), !.pages[p] = FreePage]
      BY <1>1, <1>6, <1>7, <2>1, <3>1 DEF HeapSet
    <3> QED
      BY <1>7, <2>2, <3>2 DEF WriteOrFree
  <2>3. CASE ~(IsEmpty(DeleteCell(page, s)) /\ p # h.current)
    <3>1. g = Noted([h EXCEPT !.pages = [ps EXCEPT ![p] = Data(DeleteCell(page, s))]], p)
      BY <1>2, <1>6, <1>9, <2>3 DEF DeleteRecord
    <3>2. [h EXCEPT !.pages = [ps EXCEPT ![p] = Data(DeleteCell(page, s))]]
            = [f EXCEPT !.pages[p] = Data(DeleteCell(page, s))]
      BY <1>1, <1>6, <1>7 DEF HeapSet
    <3> QED
      BY <1>7, <2>3, <3>1, <3>2 DEF WriteOrFree
  <2> QED
    BY <2>2, <2>3
<1>11. /\ g \in HeapSet /\ RoomsRight(g, {}) /\ CurrentRight(g)
       /\ Body(g.pages, {g.current}, {}, RemoveRoom(at, d), RemoveRoom(now, d), k, {})
  <2>1. /\ Body(f.pages, {f.current}, {Location(p, s)}, RemoveRoom(at, d),
                RemoveRoom(now, d), k, {})
        /\ f.pages[p].kind = "data" /\ s \in LiveSlots(f.pages[p].page)
        /\ g = WriteOrFree(f, p, DeleteCell(f.pages[p].page, s))
    BY <1>3, <1>4, <1>7, <1>8, <1>10
  <2>2. PICK a, n : a = RemoveRoom(at, d) /\ n = RemoveRoom(now, d)
    OBVIOUS
  <2>3. Body(f.pages, {f.current}, {Location(p, s)}, a, n, k, {})
    BY <2>1, <2>2
  <2>4. /\ g \in HeapSet /\ RoomsRight(g, {}) /\ CurrentRight(g)
        /\ Body(g.pages, {g.current}, {}, a, n, k, {})
    BY ONLY <1>3, <1>7, <2>1, <2>3, WriteOrFreeKeeps
  <2> QED
    BY <2>2, <2>4
<1> QED
  BY <1>11 DEF Kept

(* A chain stays where its pages do.                                       *)
LEMMA ChainStays ==
    ASSUME NEW ps, NEW ps2, NEW v, NEW c \in Seq(PageId), ChainFor(ps, v, c),
           \A p \in PageId : ps[p].kind = "overflow" => ps2[p] = ps[p]
    PROVE  ChainFor(ps2, v, c)
<1>1. \A p \in Range(c) : ps[p].kind = "overflow" /\ p \in PageId
  <2>1. \A p \in Range(c) : p \in PageId
    BY DEF Range
  <2> QED
    BY <2>1, ChainKind
<1>2. \A i \in 1 .. Len(c) : ps2[c[i]] = ps[c[i]]
  BY <1>1 DEF Range
<1> QED
  BY <1>2 DEF ChainFor, IsChain

(* Pages freed make no less room.                                          *)
LEMMA MoreRoom ==
    ASSUME NEW ps, NEW ps2, NEW v \in Value, RoomFor(ps, v),
           FreePages(ps) \subseteq FreePages(ps2)
    PROVE  RoomFor(ps2, v)
<1>1. IsFiniteSet(FreePages(ps2))
  <2>1. MaxPages \in Int /\ 1 \in Int
    BY HeapAssumption
  <2>2. IsFiniteSet(1 .. MaxPages)
    BY ONLY <2>1, FS_Interval
  <2>3. FreePages(ps2) \in SUBSET (1 .. MaxPages)
    BY DEF FreePages, PageId
  <2> QED
    BY <2>2, <2>3, FS_Subset
<1>2. /\ IsFiniteSet(FreePages(ps))
      /\ Cardinality(FreePages(ps)) <= Cardinality(FreePages(ps2))
  BY <1>1, FS_Subset
<1>3. Cardinality(FreePages(ps)) \in Nat /\ Cardinality(FreePages(ps2)) \in Nat
  BY <1>1, <1>2, FS_CardinalityType
<1>4. PICK n : n = 1 + IF IsInline(v) THEN 0 ELSE PagesOf(SizeOf[v])
  OBVIOUS
<1>5. n \in Int
  <2>1. PagesOf(SizeOf[v]) \in Nat
    BY EncodedBytes, PagesEnough
  <2> QED
    BY <1>4, <2>1
<1>6. Cardinality(FreePages(ps)) >= n
  BY <1>4 DEF RoomFor
<1>7. Cardinality(FreePages(ps2)) >= n
  BY <1>2, <1>3, <1>5, <1>6
<1> QED
  BY <1>4, <1>7 DEF RoomFor

(* A cell rewritten where it is.                                           *)
LEMMA UpdateInPlace ==
    ASSUME NEW h \in HeapSet, RoomsRight(h, {}), CurrentRight(h),
           NEW at, NEW now, NEW ch, NEW c \in Seq(PageId), NEW p \in PageId, NEW s \in Nat,
           Body(h.pages, {h.current}, {Location(p, s)}, at, now, ch, Range(c)),
           h.pages[p].kind = "data", s \in LiveSlots(h.pages[p].page),
           NEW d \in Doc, NEW v \in Value, d \notin DOMAIN at, ChainFor(h.pages, v, c),
           NEW cell, cell = CellOf(d, v, c), CanUpdateCell(h.pages[p].page, s, cell),
           NEW f, f = [h.pages EXCEPT ![p] = Data(UpdateCell(h.pages[p].page, s, cell))],
           NEW g, g = Noted([h EXCEPT !.pages = f], p)
    PROVE  Kept(g, SetRoom(at, d, Location(p, s)), SetRoom(now, d, v))
<1>1. /\ h.pages \in [PageId -> PageSet] /\ LooseApart(at, {Location(p, s)})
  BY DEF Body
<1>2. PICK old, new : old = h.pages[p].page /\ new = UpdateCell(old, s, cell)
  OBVIOUS
<1>3. old \in PageType(HeapByte) /\ PageSound(old) /\ s \in LiveSlots(old)
  BY <1>1, <1>2, PageKinds
<1>4. cell \in Seq(HeapByte) /\ cell # <<>> /\ Zero \in HeapByte
  BY CellFits DEF HeapByte
<1>5. CanUpdateCell(old, s, cell)
  BY <1>2
<1>6. /\ new \in PageType(HeapByte) /\ PageSound(new)
      /\ s \in LiveSlots(new) /\ GetCell(new, s) = cell /\ OthersKept(old, new, s)
  BY <1>2, <1>3, <1>4, <1>5, UpdateCellKeeps
<1>7. LiveSlots(new) \subseteq LiveSlots(old) \cup {s}
  BY <1>2, <1>3, <1>4, UpdateLive
<1>8. f = [h.pages EXCEPT ![p] = Data(new)]
  BY <1>2
<1>9. \A e \in DOMAIN at : at[e] # Location(p, s)
  BY <1>1 DEF LooseApart
<1>10. GetCell(new, s) = CellOf(d, v, c)
  BY <1>6
<1>11. Body([h.pages EXCEPT ![p] = Data(new)], {h.current}, {},
            SetRoom(at, d, Location(p, s)), SetRoom(now, d, v), SetRoom(ch, d, c), {})
  <2>1. (h.pages[p].kind = "data" /\ old = h.pages[p].page)
          \/ (h.pages[p].kind = "free" /\ LiveSlots(old) = {})
    BY <1>2
  <2>2. PICK loose : loose = {Location(p, s)}
    OBVIOUS
  <2>3. /\ Body(h.pages, {h.current}, loose, at, now, ch, Range(c))
        /\ loose \subseteq {Location(p, s)}
    BY <2>2
  <2> QED
    BY <1>6, <1>7, <1>9, <1>10, <2>1, <2>3, BodyPut
<1>12. f[p].kind = "data" /\ f \in [PageId -> PageSet]
       /\ SameBut(h.pages, f, p)
  BY <1>1, <1>6, <1>8, DataInSet DEF SameBut
<1>13. PICK k : k = [h EXCEPT !.pages = f]
  OBVIOUS
<1>14. /\ k \in HeapSet /\ RoomsRight(k, {p}) /\ CurrentRight(k)
       /\ k.pages = f /\ k.current = h.current
  <2>1. h \in HeapSet /\ RoomsRight(h, {}) /\ CurrentRight(h) /\ p \in PageId
        /\ k = WithPages(h, f)
    BY <1>13 DEF WithPages
  <2> QED
    BY ONLY <1>12, <2>1, RoomsBut
<1>15. k.pages[p].kind = "data" /\ g = Noted(k, p)
  BY <1>12, <1>13, <1>14
<1>16. g \in HeapSet /\ RoomsRight(g, {}) /\ g.pages = k.pages /\ g.current = k.current
  <2>1. p \in PageId
    OBVIOUS
  <2> QED
    BY ONLY <1>14, <1>15, <2>1, NotedRight
<1>17. CurrentRight(g)
  BY <1>14, <1>16 DEF CurrentRight
<1>18. Body(g.pages, {g.current}, {}, SetRoom(at, d, Location(p, s)), SetRoom(now, d, v),
            SetRoom(ch, d, c), {})
  BY <1>8, <1>11, <1>14, <1>16
<1> QED
  BY <1>16, <1>17, <1>18 DEF Kept

LEMMA SetAgain ==
    ASSUME NEW f, NEW d, NEW x
    PROVE  SetRoom(RemoveRoom(f, d), d, x) = SetRoom(f, d, x) /\ d \notin DOMAIN RemoveRoom(f, d)
BY DEF SetRoom, RemoveRoom, Restrict

LEMMA UpdateKeeps ==
    ASSUME NEW h, NEW at, NEW now, Kept(h, at, now), NEW d \in DOMAIN at, NEW v \in Value,
           RoomFor(h.pages, v), NEW put, put = UpdateRecord(h, at[d], d, v)
    PROVE  Kept(put.heap, SetRoom(at, d, put.loc), SetRoom(now, d, v))
<1>1. h \in HeapSet /\ RoomsRight(h, {}) /\ CurrentRight(h)
  BY DEF Kept
<1>2. PICK ps, p, s : ps = ChainFreed(h.pages, at[d]) /\ p = at[d].page /\ s = at[d].slot
  OBVIOUS
<1>3. PICK a, n : a = RemoveRoom(at, d) /\ n = RemoveRoom(now, d)
  OBVIOUS
<1>4. d \in Doc /\ at[d] = Location(p, s) /\ Loosened(h, ps, p, s, a, n)
  BY <1>2, <1>3, ChainGone
<1>5. /\ p \in PageId /\ s \in Nat
      /\ \A q \in PageId : h.pages[q].kind = "data" => ps[q] = h.pages[q]
      /\ h.pages[p].kind = "data" /\ s \in LiveSlots(h.pages[p].page)
      /\ FreePages(h.pages) \subseteq FreePages(ps)
  BY <1>4 DEF Loosened
<1>6. PICK k : Body(ps, {h.current}, {Location(p, s)}, a, n, k, {})
  BY <1>4 DEF Loosened
<1>7. RoomFor(ps, v)
  BY <1>5, MoreRoom
<1>8. PICK w, g, page : /\ w = WriteCell(ps, d, v) /\ g = [h EXCEPT !.pages = w.pages]
                        /\ page = h.pages[p].page
  OBVIOUS
<1>9. PICK c \in Seq(PageId) :
         /\ Body(w.pages, {h.current}, {Location(p, s)}, a, n, k, Range(c))
         /\ w.cell = CellOf(d, v, c) /\ ChainFor(w.pages, v, c)
         /\ FreePages(w.pages) # {}
         /\ \A q \in PageId : ps[q].kind = "data" => w.pages[q] = ps[q]
  BY <1>4, <1>6, <1>7, <1>8, CellWritten
<1>10. w.pages \in [PageId -> PageSet]
  BY <1>9 DEF Body
<1>11. \A q \in PageId : h.pages[q].kind = "data" => w.pages[q] = h.pages[q]
  BY <1>5, <1>9
<1>12. /\ g \in HeapSet /\ RoomsRight(g, {}) /\ CurrentRight(g)
       /\ g.pages = w.pages /\ g.current = h.current
  BY <1>1, <1>8, <1>10, <1>11, RoomsOver
<1>13. g.pages[p] = h.pages[p] /\ g.pages[p].page = page
  BY <1>5, <1>8, <1>11, <1>12
<1>14. /\ Body(g.pages, {g.current}, {Location(p, s)}, a, n, k, Range(c))
       /\ g.pages[p].kind = "data" /\ s \in LiveSlots(g.pages[p].page)
       /\ ChainFor(g.pages, v, c) /\ d \notin DOMAIN a
  <2>1. d \notin DOMAIN a
    BY <1>3, SetAgain
  <2> QED
    BY <1>5, <1>9, <1>12, <1>13, <2>1
<1>15. \A x : SetRoom(a, d, x) = SetRoom(at, d, x) /\ SetRoom(n, d, x) = SetRoom(now, d, x)
  BY <1>3, SetAgain
<1>16. CASE CanUpdateCell(page, s, w.cell)
  <2>1. PICK f : f = [g.pages EXCEPT ![p] = Data(UpdateCell(g.pages[p].page, s, w.cell))]
    OBVIOUS
  <2>2. put.loc = Location(p, s) /\ put.heap = Noted([g EXCEPT !.pages = f], p)
    <3>1. [g EXCEPT !.pages[p] = Data(UpdateCell(page, s, w.cell))] = [g EXCEPT !.pages = f]
      BY <1>12, <1>13, <2>1 DEF HeapSet
    <3>2. put = [heap |-> Noted([g EXCEPT !.pages[p] = Data(UpdateCell(page, s, w.cell))], p),
                 loc |-> at[d]]
      BY <1>2, <1>8, <1>16 DEF UpdateRecord
    <3> QED
      BY <1>4, <3>1, <3>2
  <2>3. CanUpdateCell(g.pages[p].page, s, w.cell)
    BY <1>13, <1>16
  <2>4. Kept(put.heap, SetRoom(a, d, Location(p, s)), SetRoom(n, d, v))
    BY <1>4, <1>5, <1>9, <1>12, <1>14, <2>1, <2>2, <2>3, UpdateInPlace, ZenonT(60)
  <2> QED
    BY <1>15, <2>2, <2>4
<1>17. CASE ~CanUpdateCell(page, s, w.cell)
  <2>1. PICK f : f = WriteOrFree(g, p, DeleteCell(g.pages[p].page, s))
    OBVIOUS
  <2>2. put = PlaceInHeap(f, CellOf(d, v, c))
    <3>1. put = PlaceInHeap(WriteOrFree(g, p, DeleteCell(page, s)), w.cell)
      BY <1>2, <1>8, <1>17 DEF UpdateRecord
    <3> QED
      BY <1>9, <1>13, <2>1, <3>1
  <2>3. /\ f \in HeapSet /\ RoomsRight(f, {}) /\ CurrentRight(f)
        /\ Body(f.pages, {f.current}, {}, a, n, k, Range(c))
        /\ SameBut(g.pages, f.pages, p)
    <3>1. /\ g \in HeapSet /\ RoomsRight(g, {}) /\ CurrentRight(g) /\ p \in PageId
          /\ g.pages[p].kind = "data" /\ s \in LiveSlots(g.pages[p].page)
      BY <1>5, <1>12, <1>14
    <3>2. PICK extra : extra = Range(c)
      OBVIOUS
    <3>3. Body(g.pages, {g.current}, {Location(p, s)}, a, n, k, extra)
      BY <1>14, <3>2
    <3>4. /\ f \in HeapSet /\ RoomsRight(f, {}) /\ CurrentRight(f)
          /\ Body(f.pages, {f.current}, {}, a, n, k, extra)
      BY ONLY <2>1, <3>1, <3>3, WriteOrFreeKeeps
    <3>5. SameBut(g.pages, f.pages, p)
      BY ONLY <2>1, <3>1, <3>3, WriteOrFreeKeeps
    <3> QED
      BY <3>2, <3>4, <3>5
  <2>4. ChainFor(f.pages, v, c)
    <3>1. \A q \in PageId : g.pages[q].kind = "overflow" => f.pages[q] = g.pages[q]
      BY <1>14, <2>3 DEF SameBut
    <3> QED
      BY <1>14, <3>1, ChainStays
  <2>5. FreePages(f.pages) # {}
    <3>1. PICK q \in PageId : g.pages[q] = FreePage
      BY <1>9, <1>12 DEF FreePages
    <3>2. q # p
      BY <1>14, <3>1, FreeInSet
    <3> QED
      BY <2>3, <3>1, <3>2 DEF FreePages, SameBut
  <2>6. /\ put.heap \in HeapSet /\ RoomsRight(put.heap, {}) /\ CurrentRight(put.heap)
        /\ Body(put.heap.pages, {put.heap.current}, {}, SetRoom(a, d, put.loc),
                SetRoom(n, d, v), SetRoom(k, d, c), {})
    BY <1>4, <1>14, <2>2, <2>3, <2>4, <2>5, PlaceKeeps
  <2> QED
    BY <1>15, <2>6 DEF Kept
<1> QED
  BY <1>16, <1>17

-----------------------------------------------------------------------------
(* The pages of the collection, as `collection_pages` finds them.          *)

PagesUsed(h, at, ch) ==
    /\ \A d \in DOMAIN at : ChainPages(h, at[d]) = Range(ch[d])
    /\ DataPages(h, at) = {p \in PageId : h.pages[p].kind = "data"}
    /\ \A p \in PageId : (\E d \in DOMAIN at : p \in Range(ch[d]))
                           <=> h.pages[p].kind = "overflow"
    /\ \A d \in DOMAIN at : Range(ch[d]) \subseteq PageId

LEMMA UsedPages ==
    ASSUME NEW h \in HeapSet, CurrentRight(h), NEW at, NEW now, NEW ch,
           Body(h.pages, {h.current}, {}, at, now, ch, {})
    PROVE  PagesUsed(h, at, ch)
<1>1. /\ DocsTyped(at, now, ch) /\ AllHeld(h.pages, at, now, ch)
      /\ ChainsOwned(h.pages, at, ch, {})
      /\ CellsOwned(h.pages, at, {}) /\ NoneEmpty(h.pages, {h.current})
      /\ h.pages \in [PageId -> PageSet]
  BY DEF Body
<1>2. ASSUME NEW d \in DOMAIN at
      PROVE  /\ d \in Doc /\ at[d] \in [page : PageId, slot : Nat] /\ now[d] \in Value
             /\ ch[d] \in Seq(PageId) /\ Held(h.pages, at[d], d, now[d], ch[d])
             /\ Range(ch[d]) \subseteq PageId
  <2>1. ch[d] \in Seq(PageId)
    BY <1>1 DEF DocsTyped
  <2>2. Range(ch[d]) \subseteq PageId
    BY <2>1 DEF Range
  <2> QED
    BY <1>1, <2>1, <2>2 DEF DocsTyped, AllHeld
<1>3. ASSUME NEW d \in DOMAIN at PROVE ChainPages(h, at[d]) = Range(ch[d])
  <2>1. \A g : g.pages = h.pages => ChainPages(g, at[d]) = Range(ch[d])
    BY <1>1, <1>2, HeldRead, ZenonT(60)
  <2> QED
    BY <2>1
<1>4. ASSUME NEW p \in DataPages(h, at) PROVE p \in PageId /\ h.pages[p].kind = "data"
  <2>1. CASE p \in {h.current} \ {NoPage}
    <3>1. h.current \in 0 .. MaxPages /\ MaxPages \in Nat
      BY HeapAssumption DEF HeapSet
    <3> QED
      BY <2>1, <3>1 DEF CurrentRight, NoPage, PageId
  <2>2. ASSUME NEW d \in DOMAIN at, p = at[d].page PROVE p \in PageId /\ h.pages[p].kind = "data"
    BY <1>2, <2>2 DEF Held, CellAt
  <2> QED
    BY <1>4, <2>1, <2>2 DEF DataPages
<1>5. ASSUME NEW p \in PageId, h.pages[p].kind = "data" PROVE p \in DataPages(h, at)
  <2>1. CASE p = h.current
    <3>1. p # NoPage
      BY HeapAssumption DEF PageId, NoPage
    <3> QED
      BY <2>1, <3>1 DEF DataPages
  <2>2. CASE p # h.current
    <3>1. PICK s : s \in LiveSlots(h.pages[p].page)
      BY <1>1, <1>5, <2>2 DEF NoneEmpty, IsEmpty
    <3>2. PICK d \in DOMAIN at : at[d] = Location(p, s)
      BY <1>1, <1>5, <3>1 DEF CellsOwned
    <3>3. at[d].page = p
      BY <3>2 DEF Location
    <3> QED
      BY <3>3 DEF DataPages
  <2> QED
    BY <2>1, <2>2
<1>6. DataPages(h, at) = {p \in PageId : h.pages[p].kind = "data"}
  BY <1>4, <1>5
<1>7. ASSUME NEW p \in PageId, NEW d \in DOMAIN at, p \in Range(ch[d])
      PROVE  h.pages[p].kind = "overflow"
  BY <1>2, <1>7, ChainKind DEF Held
<1>8. ASSUME NEW p \in PageId, h.pages[p].kind = "overflow"
      PROVE  \E d \in DOMAIN at : p \in Range(ch[d])
  BY <1>1, <1>8 DEF ChainsOwned
<1> QED
  BY <1>2, <1>3, <1>6, <1>7, <1>8 DEF PagesUsed

(* A heap with no document.                                                *)
LEMMA EmptyKept == Kept(NewHeap, <<>>, <<>>)
<1>1. PICK h : h = NewHeap
  OBVIOUS
<1>2. /\ h.pages = [p \in PageId |-> FreePage] /\ h.current = NoPage /\ h.free = <<>>
  BY <1>1 DEF NewHeap
<1>3. /\ DOMAIN <<>> = {} /\ \A S : <<>> \in [{} -> S]
  OBVIOUS
<1>4. <<>> \in RoomSet
  <2>1. {} \in SUBSET PageId /\ <<>> \in [{} -> Nat]
    BY <1>3
  <2> QED
    BY <2>1 DEF RoomSet
<1>5. h.pages \in [PageId -> PageSet] /\ \A p \in PageId : h.pages[p].kind = "free"
  BY <1>2, FreeInSet
<1>6. h \in HeapSet
  <2>1. NoPage \in 0 .. MaxPages
    BY HeapAssumption DEF NoPage
  <2>2. h = [pages |-> h.pages, current |-> NoPage, free |-> <<>>]
    BY <1>1 DEF NewHeap
  <2> QED
    BY <1>4, <1>5, <2>1, <2>2 DEF HeapSet
<1>7. RoomsRight(h, {}) /\ CurrentRight(h)
  BY <1>2, <1>3 DEF RoomsRight, CurrentRight
<1>8. Body(h.pages, {h.current}, {}, <<>>, <<>>, <<>>, {})
  <2>1. DocsTyped(<<>>, <<>>, <<>>)
    BY <1>3 DEF DocsTyped
  <2>2. AllHeld(h.pages, <<>>, <<>>, <<>>) /\ Apart(<<>>, <<>>) /\ LooseApart(<<>>, {})
        /\ ExtraApart(h.pages, <<>>, <<>>, {})
    BY <1>3 DEF AllHeld, Apart, LooseApart, ExtraApart
  <2>3. ChainsOwned(h.pages, <<>>, <<>>, {}) /\ CellsOwned(h.pages, <<>>, {})
        /\ NoneEmpty(h.pages, {h.current})
    BY <1>5 DEF ChainsOwned, CellsOwned, NoneEmpty
  <2> QED
    BY <1>5, <2>1, <2>2, <2>3 DEF Body
<1> QED
  BY <1>1, <1>6, <1>7, <1>8 DEF Kept

(* `free_collection_pages` leaves nothing.                                 *)
LEMMA DropLeavesNone ==
    ASSUME NEW h, NEW at, NEW now, Kept(h, at, now)
    PROVE  DropCollection(h, at) = NewHeap
<1>1. h \in HeapSet /\ CurrentRight(h) /\ h.pages \in [PageId -> PageSet]
  BY DEF Kept, HeapSet
<1>2. PICK ch : Body(h.pages, {h.current}, {}, at, now, ch, {})
  BY DEF Kept
<1>3. PICK used : used = DataPages(h, at) \union UNION {ChainPages(h, at[d]) : d \in DOMAIN at}
  OBVIOUS
<1>4. /\ \A d \in DOMAIN at : ChainPages(h, at[d]) = Range(ch[d])
      /\ DataPages(h, at) = {p \in PageId : h.pages[p].kind = "data"}
      /\ \A p \in PageId : (\E d \in DOMAIN at : p \in Range(ch[d]))
                             <=> h.pages[p].kind = "overflow"
  <2>1. PagesUsed(h, at, ch)
    BY <1>1, <1>2, UsedPages
  <2> QED
    BY <2>1 DEF PagesUsed
<1>5. ASSUME NEW p \in PageId, p \notin used PROVE h.pages[p] = FreePage
  <2>1. h.pages[p].kind # "data" /\ h.pages[p].kind # "overflow"
    BY <1>3, <1>4, <1>5
  <2> QED
    BY <1>1, <2>1, PageKinds
<1>6. FreeAll(h.pages, used) = [p \in PageId |-> FreePage]
  BY <1>5 DEF FreeAll
<1> QED
  BY <1>3, <1>6 DEF DropCollection, NewHeap

(* An open, or a new image, starts with no map.                            *)
LEMMA ForgetRooms ==
    ASSUME NEW h, NEW at, NEW now, Kept(h, at, now)
    PROVE  Kept([h EXCEPT !.free = <<>>], at, now)
<1>1. h \in HeapSet /\ CurrentRight(h)
  BY DEF Kept
<1>2. PICK ch : Body(h.pages, {h.current}, {}, at, now, ch, {})
  BY DEF Kept
<1>3. /\ DOMAIN <<>> = {} /\ \A S : <<>> \in [{} -> S]
  OBVIOUS
<1>4. <<>> \in RoomSet
  <2>1. {} \in SUBSET PageId /\ <<>> \in [{} -> Nat]
    BY <1>3
  <2> QED
    BY <2>1 DEF RoomSet
<1>5. PICK g : g = [h EXCEPT !.free = <<>>]
  OBVIOUS
<1>6. g \in HeapSet /\ g.pages = h.pages /\ g.current = h.current /\ g.free = <<>>
  BY <1>1, <1>4, <1>5 DEF HeapSet
<1>7. RoomsRight(g, {}) /\ CurrentRight(g)
  BY <1>1, <1>3, <1>6 DEF RoomsRight, CurrentRight
<1>8. Body(g.pages, {g.current}, {}, at, now, ch, {})
  BY <1>2, <1>6
<1> QED
  BY <1>5, <1>6, <1>7, <1>8 DEF Kept

-----------------------------------------------------------------------------
(* A heap built anew, document after document.                             *)

LEMMA BoundExists ==
    ASSUME NEW S, S \subseteq Nat, IsFiniteSet(S)
    PROVE  \E n \in Nat : S \subseteq 0 .. n
<1> DEFINE T == {k \in Nat : \A R \in SUBSET Nat : IsFiniteSet(R) /\ Cardinality(R) = k
                               => \E n \in Nat : R \subseteq 0 .. n}
<1>1. 0 \in T
  <2> SUFFICES ASSUME NEW R \in SUBSET Nat, IsFiniteSet(R), Cardinality(R) = 0
               PROVE  \E n \in Nat : R \subseteq 0 .. n
    OBVIOUS
  <2>1. R = {}
    BY FS_EmptySet
  <2> QED
    BY <2>1
<1>2. ASSUME NEW k \in Nat, k \in T PROVE k + 1 \in T
  <2> SUFFICES ASSUME NEW R \in SUBSET Nat, IsFiniteSet(R), Cardinality(R) = k + 1
               PROVE  \E n \in Nat : R \subseteq 0 .. n
    OBVIOUS
  <2>1. R # {}
    BY FS_EmptySet
  <2>2. PICK x \in R : TRUE
    BY <2>1
  <2>3. PICK Q : Q = R \ {x}
    OBVIOUS
  <2>4. IsFiniteSet(Q) /\ Cardinality(Q) = k /\ Q \in SUBSET Nat
    <3>1. IsFiniteSet(R \ {x}) /\ Cardinality(R \ {x}) = Cardinality(R) - 1
      BY FS_RemoveElement
    <3> QED
      BY <2>3, <3>1
  <2>5. PICK n \in Nat : Q \subseteq 0 .. n
    BY <1>2, <2>4
  <2>6. n + x \in Nat /\ R \subseteq 0 .. n + x
    <3>1. x \in Nat
      OBVIOUS
    <3>2. ASSUME NEW y \in R PROVE y \in 0 .. n + x
      BY <2>3, <2>5, <3>1
    <3> QED
      BY <3>1, <3>2
  <2> QED
    BY <2>6
<1>3. Nat \subseteq T
  <2> HIDE DEF T
  <2> QED
    BY <1>1, <1>2, NatInd
<1>4. Cardinality(S) \in Nat
  BY FS_CardinalityType
<1> QED
  BY <1>3, <1>4

(* The ids in their order, each once.                                      *)
LEMMA InOrderRight ==
    ASSUME NEW at, DOMAIN at \subseteq Doc, NEW ids, ids = InOrder(at)
    PROVE  /\ Len(ids) \in Nat /\ ids \in [1 .. Len(ids) -> DOMAIN at]
           /\ \A i, j \in 1 .. Len(ids) : ids[i] = ids[j] => i = j
           /\ \A d \in DOMAIN at : \E i \in 1 .. Len(ids) : ids[i] = d
<1>1. PICK L, n : L = DOMAIN at /\ n = Cardinality(L)
  OBVIOUS
<1>2. L \subseteq Nat /\ IsFiniteSet(L)
  BY <1>1, HeapAssumption, FS_Subset
<1>3. n \in Nat
  BY <1>1, <1>2, FS_CardinalityType
<1>4. PICK b \in Nat : L \subseteq 0 .. b
  BY <1>2, BoundExists
<1>5. PICK key : key = [p \in L |-> b - p]
  OBVIOUS
<1>6. key \in [L -> 0 .. b] /\ \A s, t \in L : s # t => key[s] # key[t]
  BY <1>2, <1>4, <1>5
<1>7. \A p \in L : {q \in L : q < p} = Above(L, key, p)
  <2>1. \A p, q \in L : q < p <=> key[q] > key[p]
    BY <1>2, <1>5
  <2> QED
    BY <2>1 DEF Above
<1>8. ASSUME NEW i \in 1 .. n PROVE \E p \in L : Cardinality({q \in L : q < p}) = i - 1
  <2>1. i - 1 \in Nat /\ i - 1 < Cardinality(L)
    BY <1>1, <1>3
  <2>2. \E p \in L : Cardinality(Above(L, key, p)) = i - 1
    BY <1>2, <1>6, <2>1, RankExists
  <2> QED
    BY <1>7, <2>2
<1>9. ids = [i \in 1 .. n |-> CHOOSE p \in L : Cardinality({q \in L : q < p}) = i - 1]
  BY <1>1 DEF InOrder
<1>10. ASSUME NEW i \in 1 .. n
       PROVE  ids[i] \in L /\ Cardinality({q \in L : q < ids[i]}) = i - 1
  <2>1. ids[i] = CHOOSE p \in L : Cardinality({q \in L : q < p}) = i - 1
    BY <1>9
  <2> QED
    BY <1>8, <2>1
<1>11. ids \in [1 .. n -> L]
  <2>1. \A i \in 1 .. n : ids[i] \in L
    BY <1>10
  <2> QED
    BY <1>9, <2>1
<1>12. Len(ids) = n
  BY <1>3, <1>11
<1>13. ASSUME NEW i \in 1 .. n, NEW j \in 1 .. n, ids[i] = ids[j] PROVE i = j
  <2>1. i - 1 = j - 1
    BY <1>10, <1>13
  <2> QED
    BY <2>1
<1>14. \A d \in L : \E i \in 1 .. n : ids[i] = d
  <2>1. ids \in Injection(1 .. n, L)
    BY <1>11, <1>13 DEF Injection, IsInjective
  <2>2. Cardinality(1 .. n) = n
    <3>1. n \in Int /\ 1 \in Int
      BY <1>3
    <3>2. Cardinality(1 .. n) = IF 1 > n THEN 0 ELSE n - 1 + 1
      BY ONLY <3>1, FS_Interval
    <3> QED
      BY <1>3, <3>2
  <2>3. ids \in Surjection(1 .. n, L)
    BY <1>1, <1>2, <2>1, <2>2, FS_Injection
  <2> QED
    BY <2>3 DEF Surjection
<1> QED
  BY <1>1, <1>3, <1>11, <1>12, <1>13, <1>14

(* `rebuild`, as the sequence of what it has built.                        *)
BuildOn(f, ids, now, b, n) ==
    [i \in 0 .. n |-> IF i = 0 THEN b ELSE InsertNext(f[i - 1], ids[i], now[ids[i]])]
CanBuild(ids, now, b, n) == \E f : f = BuildOn(f, ids, now, b, n)

LEMMA BuiltExists ==
    ASSUME NEW ids, NEW now, NEW b, NEW n \in Nat
    PROVE  CanBuild(ids, now, b, n)
<1> DEFINE D(f, k) == [i \in 0 .. k |-> IF i = 0 THEN b
                                        ELSE InsertNext(f[i - 1], ids[i], now[ids[i]])]
           T == {k \in Nat : \E f : f = D(f, k)}
<1>1. 0 \in T
  <2>1. PICK f : f = [i \in 0 .. 0 |-> b]
    OBVIOUS
  <2>2. f = D(f, 0)
    BY <2>1
  <2> QED
    BY <2>2
<1>2. ASSUME NEW k \in Nat, k \in T PROVE k + 1 \in T
  <2>1. PICK f : f = D(f, k)
    BY <1>2
  <2>2. PICK x : x = InsertNext(f[k], ids[k + 1], now[ids[k + 1]])
    OBVIOUS
  <2>3. PICK g : g = [i \in 0 .. k + 1 |-> IF i = k + 1 THEN x ELSE f[i]]
    OBVIOUS
  <2>4. \A i \in 0 .. k : g[i] = f[i] /\ f[i] = IF i = 0 THEN b ELSE InsertNext(f[i - 1], ids[i], now[ids[i]])
    <3>1. \A i \in 0 .. k : f[i] = IF i = 0 THEN b ELSE InsertNext(f[i - 1], ids[i], now[ids[i]])
      BY <2>1
    <3>2. \A i \in 0 .. k : g[i] = f[i]
      BY <2>3
    <3> QED
      BY <3>1, <3>2
  <2>5. ASSUME NEW i \in 0 .. k + 1
        PROVE  g[i] = IF i = 0 THEN b ELSE InsertNext(g[i - 1], ids[i], now[ids[i]])
    <3>1. CASE i = k + 1
      <4>1. g[i] = x /\ i - 1 = k /\ i # 0 /\ k \in 0 .. k
        BY <2>3, <3>1
      <4>2. g[i - 1] = f[k]
        BY <2>4, <4>1
      <4> QED
        BY <2>2, <3>1, <4>1, <4>2
    <3>2. CASE i # k + 1 /\ i # 0
      <4>1. i \in 0 .. k /\ i - 1 \in 0 .. k
        BY <3>2
      <4> QED
        BY <2>4, <3>2, <4>1
    <3>3. CASE i = 0
      BY <2>4, <3>3
    <3> QED
      BY <3>1, <3>2, <3>3
  <2>6. g = D(g, k + 1)
    <3>1. g = [i \in 0 .. k + 1 |-> g[i]]
      BY <2>3
    <3> QED
      BY <2>5, <3>1
  <2> QED
    BY <2>6
<1>3. Nat \subseteq T
  <2> HIDE DEF T
  <2> QED
    BY <1>1, <1>2, NatInd
<1> QED
  BY <1>3 DEF BuildOn, CanBuild

(* What has been built after the first k documents, if all had room.       *)
BuiltTo(acc, ids, now, k) ==
    /\ acc = [heap |-> acc.heap, locs |-> acc.locs, fits |-> acc.fits]
    /\ acc.fits => /\ DOMAIN acc.locs = {ids[i] : i \in 1 .. k}
                   /\ Kept(acc.heap, acc.locs, Restrict(now, {ids[i] : i \in 1 .. k}))

LEMMA BuiltNext ==
    ASSUME NEW ids, NEW now, NEW n \in Nat, ids \in [1 .. n -> Doc],
           \A i, j \in 1 .. n : ids[i] = ids[j] => i = j,
           \A i \in 1 .. n : now[ids[i]] \in Value,
           NEW k \in Nat, k + 1 <= n, NEW acc, BuiltTo(acc, ids, now, k),
           NEW next, next = InsertNext(acc, ids[k + 1], now[ids[k + 1]])
    PROVE  BuiltTo(next, ids, now, k + 1)
<1>1. PICK d, v : d = ids[k + 1] /\ v = now[d]
  OBVIOUS
<1>2. k + 1 \in 1 .. n /\ \A i \in 1 .. k : i \in 1 .. n /\ i # k + 1
  OBVIOUS
<1>3. d \in Doc /\ v \in Value
  BY <1>1, <1>2
<1>4. PICK A, B : A = {ids[i] : i \in 1 .. k} /\ B = {ids[i] : i \in 1 .. k + 1}
  OBVIOUS
<1>5. B = A \cup {d} /\ d \notin A
  <2>1. d \notin A
    BY <1>1, <1>2, <1>4
  <2>2. \A i \in 1 .. k + 1 : i = k + 1 \/ i \in 1 .. k
    OBVIOUS
  <2>3. B \subseteq A \cup {d}
    BY <1>1, <1>4, <2>2
  <2>4. A \cup {d} \subseteq B
    BY <1>1, <1>4
  <2> QED
    BY <2>1, <2>3, <2>4
<1>6. next = InsertNext(acc, d, v)
  BY <1>1
<1>7. acc = [heap |-> acc.heap, locs |-> acc.locs, fits |-> acc.fits]
  BY DEF BuiltTo
<1>8. CASE acc.fits /\ RoomFor(acc.heap.pages, v)
  <2>1. DOMAIN acc.locs = A /\ Kept(acc.heap, acc.locs, Restrict(now, A))
    BY <1>4, <1>8 DEF BuiltTo
  <2>2. PICK put : put = InsertRecord(acc.heap, d, v)
    OBVIOUS
  <2>3. next = [heap |-> put.heap, locs |-> SetRoom(acc.locs, d, put.loc), fits |-> TRUE]
    BY <1>6, <1>8, <2>2 DEF InsertNext
  <2>4. d \notin DOMAIN acc.locs
    BY <1>5, <2>1
  <2>5. Kept(put.heap, SetRoom(acc.locs, d, put.loc), SetRoom(Restrict(now, A), d, v))
    BY <1>3, <1>8, <2>1, <2>2, <2>4, InsertKeeps
  <2>6. SetRoom(Restrict(now, A), d, v) = Restrict(now, B)
    <3>1. Restrict(now, B) = [x \in A \cup {d} |-> now[x]]
      BY <1>5 DEF Restrict
    <3>2. SetRoom(Restrict(now, A), d, v)
            = [x \in A \cup {d} |-> IF x = d THEN v ELSE Restrict(now, A)[x]]
      BY DEF SetRoom, Restrict
    <3>3. \A x \in A \cup {d} : (IF x = d THEN v ELSE Restrict(now, A)[x]) = now[x]
      BY <1>1 DEF Restrict
    <3> QED
      BY <3>1, <3>2, <3>3
  <2>7. DOMAIN SetRoom(acc.locs, d, put.loc) = B
    BY <1>5, <2>1 DEF SetRoom
  <2>8. /\ next.heap = put.heap /\ next.locs = SetRoom(acc.locs, d, put.loc)
        /\ next = [heap |-> next.heap, locs |-> next.locs, fits |-> next.fits]
    BY <2>3
  <2>9. DOMAIN next.locs = B /\ Kept(next.heap, next.locs, Restrict(now, B))
    BY <2>5, <2>6, <2>7, <2>8
  <2> QED
    BY <1>4, <2>8, <2>9 DEF BuiltTo
<1>9. CASE ~(acc.fits /\ RoomFor(acc.heap.pages, v))
  <2>1. next = [acc EXCEPT !.fits = FALSE]
    BY <1>6, <1>9 DEF InsertNext
  <2>2. /\ next = [heap |-> next.heap, locs |-> next.locs, fits |-> next.fits]
        /\ ~next.fits
    BY <1>7, <2>1
  <2> QED
    BY <2>2 DEF BuiltTo
<1> QED
  BY <1>8, <1>9

LEMMA RebuiltKeeps ==
    ASSUME NEW at, DOMAIN at \subseteq Doc, NEW now \in [DOMAIN at -> Value],
           NEW r, r = Rebuilt(at, now), r.fits
    PROVE  Kept(r.heap, r.locs, now)
<1>1. PICK ids, n : ids = InOrder(at) /\ n = Len(ids)
  OBVIOUS
<1>2. /\ n \in Nat /\ ids \in [1 .. n -> DOMAIN at]
      /\ \A i, j \in 1 .. n : ids[i] = ids[j] => i = j
      /\ \A d \in DOMAIN at : \E i \in 1 .. n : ids[i] = d
  BY <1>1, InOrderRight
<1>3. ids \in [1 .. n -> Doc] /\ \A i \in 1 .. n : now[ids[i]] \in Value
  BY <1>2
<1> DEFINE first == [heap |-> NewHeap, locs |-> <<>>, fits |-> TRUE]
           D(f) == [i \in 0 .. n |-> IF i = 0 THEN first
                                     ELSE InsertNext(f[i - 1], ids[i], now[ids[i]])]
           built == CHOOSE f : f = D(f)
<1>4. r = built[n]
  BY <1>1 DEF Rebuilt
<1>5. built = D(built)
  <2> HIDE DEF first
  <2>1. \E f : f = BuildOn(f, ids, now, first, n)
    <3>1. CanBuild(ids, now, first, n)
      BY <1>2, BuiltExists
    <3> QED
      BY <3>1 DEF CanBuild
  <2>2. \A f : BuildOn(f, ids, now, first, n) = D(f)
    BY DEF BuildOn
  <2> HIDE DEF D
  <2>3. \E f : f = D(f)
    BY <2>1, <2>2
  <2> QED
    BY <2>3
<1>6. \A i \in 0 .. n : built[i] = IF i = 0 THEN first
                                   ELSE InsertNext(built[i - 1], ids[i], now[ids[i]])
  <2> HIDE DEF built, first
  <2> QED
    BY <1>5
<1>7. BuiltTo(first, ids, now, 0)
  <2>1. PICK A : A = {ids[i] : i \in 1 .. 0}
    OBVIOUS
  <2>2. A = {}
    BY <2>1
  <2>3. Restrict(now, A) = <<>> /\ DOMAIN <<>> = A
    BY <2>2 DEF Restrict
  <2>4. first.heap = NewHeap /\ first.locs = <<>>
        /\ first = [heap |-> first.heap, locs |-> first.locs, fits |-> first.fits]
    OBVIOUS
  <2>5. DOMAIN first.locs = A /\ Kept(first.heap, first.locs, Restrict(now, A))
    BY <2>3, <2>4, EmptyKept
  <2> QED
    BY <2>1, <2>4, <2>5 DEF BuiltTo
<1>8. \A k \in Nat : k <= n => BuiltTo(built[k], ids, now, k)
  <2> HIDE DEF built, first
  <2> DEFINE T == {k \in Nat : k <= n => BuiltTo(built[k], ids, now, k)}
  <2>1. 0 \in T
    BY <1>2, <1>6, <1>7
  <2>2. ASSUME NEW k \in Nat, k \in T PROVE k + 1 \in T
    <3> SUFFICES ASSUME k + 1 <= n PROVE BuiltTo(built[k + 1], ids, now, k + 1)
      OBVIOUS
    <3>1. BuiltTo(built[k], ids, now, k)
      BY <1>2, <2>2
    <3>2. k + 1 \in 0 .. n /\ k + 1 # 0 /\ (k + 1) - 1 = k
      BY <1>2
    <3>3. built[k + 1] = InsertNext(built[k], ids[k + 1], now[ids[k + 1]])
      BY <1>6, <3>2
    <3> QED
      BY <1>2, <1>3, <3>1, <3>3, BuiltNext
  <2>3. Nat \subseteq T
    <3> HIDE DEF T
    <3> QED
      BY <2>1, <2>2, NatInd
  <2> QED
    BY <2>3
<1>9. BuiltTo(r, ids, now, n)
  <2> HIDE DEF built
  <2> QED
    BY <1>2, <1>4, <1>8
<1>10. {ids[i] : i \in 1 .. n} = DOMAIN at
  <2>1. \A i \in 1 .. n : ids[i] \in DOMAIN at
    BY <1>2
  <2>2. {ids[i] : i \in 1 .. n} \subseteq DOMAIN at
    BY <2>1
  <2>3. DOMAIN at \subseteq {ids[i] : i \in 1 .. n}
    BY <1>2
  <2> QED
    BY <2>2, <2>3
<1>11. Restrict(now, DOMAIN at) = now
  BY DEF Restrict
<1> QED
  BY <1>9, <1>10, <1>11 DEF BuiltTo

-----------------------------------------------------------------------------
(* What every step keeps, and what follows from it.                        *)

LEMMA InitHolds == Init => HeapInv
<1> SUFFICES ASSUME Init PROVE HeapInv
  OBVIOUS
<1>1. PICK start \in Starts :
         /\ docs = start /\ heap = Rebuilt(start, start).heap
         /\ locs = Rebuilt(start, start).locs
  BY DEF Init
<1>2. /\ DOMAIN start \subseteq Doc /\ start \in [DOMAIN start -> Value]
      /\ Rebuilt(start, start).fits
  BY HeapAssumption, StartsFit
<1>3. Kept(Rebuilt(start, start).heap, Rebuilt(start, start).locs, start)
  BY <1>2, RebuiltKeeps
<1> QED
  BY <1>1, <1>3 DEF HeapInv

LEMMA StepHolds == HeapInv /\ [Next]_vars => HeapInv'
<1> SUFFICES ASSUME HeapInv, [Next]_vars PROVE Kept(heap', locs', docs')
  BY DEF HeapInv
<1>1. Kept(heap, locs, docs)
  BY DEF HeapInv
<1>2. /\ DOMAIN locs \subseteq Doc /\ docs \in [DOMAIN locs -> Value]
  BY <1>1 DEF Kept, Body, DocsTyped
<1>3. ASSUME NEW d \in Doc, NEW v \in Value, Insert(d, v) PROVE Kept(heap', locs', docs')
  <2>1. PICK put : put = InsertRecord(heap, d, v)
    OBVIOUS
  <2>2. /\ d \notin DOMAIN locs /\ RoomFor(heap.pages, v) /\ heap' = put.heap
        /\ locs' = SetRoom(locs, d, put.loc) /\ docs' = SetRoom(docs, d, v)
    BY <1>3, <2>1 DEF Insert, Put
  <2> QED
    BY <1>1, <2>1, <2>2, InsertKeeps
<1>4. ASSUME NEW d \in Doc, NEW v \in Value, Update(d, v) PROVE Kept(heap', locs', docs')
  <2>1. PICK put : put = UpdateRecord(heap, locs[d], d, v)
    OBVIOUS
  <2>2. /\ d \in DOMAIN locs /\ RoomFor(heap.pages, v) /\ heap' = put.heap
        /\ locs' = SetRoom(locs, d, put.loc) /\ docs' = SetRoom(docs, d, v)
    BY <1>4, <2>1 DEF Update, Put
  <2> QED
    BY <1>1, <2>1, <2>2, UpdateKeeps
<1>5. ASSUME NEW d \in Doc, Delete(d) PROVE Kept(heap', locs', docs')
  <2>1. /\ d \in DOMAIN locs /\ heap' = DeleteRecord(heap, locs[d])
        /\ locs' = RemoveRoom(locs, d) /\ docs' = RemoveRoom(docs, d)
    BY <1>5 DEF Delete
  <2> QED
    BY <1>1, <2>1, DeleteKeeps
<1>6. ASSUME NEW d \in Doc, NEW e \in Doc, NEW v \in Value, FailedBatch(d, e, v)
      PROVE  Kept(heap', locs', docs')
  BY <1>1, <1>6 DEF FailedBatch, RolledBack
<1>7. CASE Drop
  <2>1. heap' = NewHeap /\ locs' = <<>> /\ docs' = <<>>
    BY <1>1, <1>7, DropLeavesNone DEF Drop
  <2> QED
    BY <2>1, EmptyKept
<1>8. CASE Reopen
  <2>1. heap' = [heap EXCEPT !.free = <<>>] /\ locs' = locs /\ docs' = docs
    BY <1>8 DEF Reopen
  <2> QED
    BY <1>1, <2>1, ForgetRooms
<1>9. CASE Compact
  <2>1. PICK r : r = Rebuilt(locs, docs)
    OBVIOUS
  <2>2. r.fits /\ heap' = [r.heap EXCEPT !.free = <<>>] /\ locs' = r.locs /\ docs' = docs
    BY <1>9, <2>1 DEF Compact
  <2>3. Kept(r.heap, r.locs, docs)
    BY <1>2, <2>1, <2>2, RebuiltKeeps
  <2> QED
    BY <2>2, <2>3, ForgetRooms
<1>10. CASE UNCHANGED vars
  BY <1>1, <1>10 DEF vars
<1> QED
  BY <1>3, <1>4, <1>5, <1>6, <1>7, <1>8, <1>9, <1>10 DEF Next

(* The inductive invariant: the pages are sound, every document is held at *)
(* its place with its own chain, every cell and every chain page has an    *)
(* owner, none but the current page is empty, the map is right.            *)
THEOREM HeapInvHolds == Spec => []HeapInv
BY InitHolds, StepHolds, PTL DEF Spec

(* A document reads back as it was last written, under its own id: what    *)
(* `Records::get` gives after any inserts, updates, moves and compactions. *)
THEOREM RecordsReadHolds == Spec => []RecordsRead
<1>1. HeapInv => RecordsRead
  <2> SUFFICES ASSUME HeapInv, NEW d \in DOMAIN docs
               PROVE  /\ Readable(heap.pages, locs[d])
                      /\ Stored(heap.pages, locs[d])
                           = [id |-> d, encoded |-> Encoded(docs[d]), status |-> "done"]
    BY DEF RecordsRead
  <2>1. PICK ch : Body(heap.pages, {heap.current}, {}, locs, docs, ch, {})
    BY DEF HeapInv, Kept
  <2>2. /\ heap.pages \in [PageId -> PageSet] /\ DocsTyped(locs, docs, ch)
        /\ AllHeld(heap.pages, locs, docs, ch)
    BY <2>1 DEF Body
  <2>3. d \in DOMAIN locs
    BY <2>2 DEF DocsTyped
  <2>4. /\ d \in Doc /\ locs[d] \in [page : PageId, slot : Nat] /\ docs[d] \in Value
        /\ ch[d] \in Seq(PageId) /\ Held(heap.pages, locs[d], d, docs[d], ch[d])
    BY <2>2, <2>3 DEF DocsTyped, AllHeld
  <2>5. Stored(heap.pages, locs[d])
          = [id |-> d, encoded |-> Encoded(docs[d]), status |-> "done"]
    BY <2>2, <2>4, HeldRead
  <2>6. PICK x : x = heap.pages[locs[d].page]
    OBVIOUS
  <2>7. x \in PageSet /\ x.kind = "data" /\ locs[d].slot \in LiveSlots(x.page)
    BY <2>2, <2>4, <2>6 DEF Held, CellAt
  <2>8. CheckLayout(x.page)
    BY <2>7, PageKinds DEF PageSound
  <2> QED
    BY <2>5, <2>6, <2>7, <2>8 DEF Readable
<1> QED
  BY <1>1, HeapInvHolds, PTL

(* Every page in use has one owner: no operation leaks a page of a chain   *)
(* or a data page, none gives one twice.                                   *)
THEOREM HeapWholeHolds == Spec => []HeapWhole
<1>1. HeapInv => HeapWhole
  <2> SUFFICES ASSUME HeapInv PROVE HeapWhole
    OBVIOUS
  <2>1. heap \in HeapSet /\ CurrentRight(heap) /\ heap.pages \in [PageId -> PageSet]
    BY DEF HeapInv, Kept, HeapSet
  <2>2. PICK ch : Body(heap.pages, {heap.current}, {}, locs, docs, ch, {})
    BY DEF HeapInv, Kept
  <2>3. PagesUsed(heap, locs, ch)
    BY <2>1, <2>2, UsedPages
  <2>4. PICK chains, data : /\ chains = [d \in DOMAIN locs |-> ChainPages(heap, locs[d])]
                            /\ data = DataPages(heap, locs)
    OBVIOUS
  <2>5. /\ data = {p \in PageId : heap.pages[p].kind = "data"}
        /\ \A d \in DOMAIN locs : chains[d] = Range(ch[d]) /\ chains[d] \subseteq PageId
        /\ \A p \in PageId : (\E d \in DOMAIN locs : p \in chains[d])
                               <=> heap.pages[p].kind = "overflow"
    BY <2>3, <2>4 DEF PagesUsed
  <2>6. UNION Range(chains) = {p \in PageId : heap.pages[p].kind = "overflow"}
    <3>1. ASSUME NEW p \in UNION Range(chains)
          PROVE  p \in PageId /\ heap.pages[p].kind = "overflow"
      <4>1. PICK d \in DOMAIN locs : p \in chains[d]
        BY <2>4, <3>1 DEF Range
      <4> QED
        BY <2>5, <4>1
    <3>2. ASSUME NEW p \in PageId, heap.pages[p].kind = "overflow"
          PROVE  p \in UNION Range(chains)
      <4>1. PICK d \in DOMAIN locs : p \in chains[d]
        BY <2>5, <3>2
      <4> QED
        BY <2>4, <4>1 DEF Range
    <3> QED
      BY <3>1, <3>2
  <2>7. \A p \in PageId : p \in FreePages(heap.pages)
                            <=> heap.pages[p].kind # "data" /\ heap.pages[p].kind # "overflow"
    <3> SUFFICES ASSUME NEW p \in PageId
                 PROVE  heap.pages[p] = FreePage
                          <=> heap.pages[p].kind # "data" /\ heap.pages[p].kind # "overflow"
      BY DEF FreePages
    <3> QED
      BY <2>1, PageKinds, FreeInSet
  <2>8. data \union UNION Range(chains) = PageId \ FreePages(heap.pages)
    BY <2>5, <2>6, <2>7
  <2>9. \A d \in DOMAIN locs : chains[d] \intersect data = {}
    BY <2>5
  <2>10. \A d, e \in DOMAIN locs : d # e => chains[d] \intersect chains[e] = {}
    BY <2>2, <2>5 DEF Body, Apart
  <2> QED
    BY <2>4, <2>8, <2>9, <2>10 DEF HeapWhole
<1> QED
  BY <1>1, HeapInvHolds, PTL

(* Every data page passes `check_layout`, its cells apart and zeroed bytes *)
(* in its gap.                                                             *)
THEOREM SlotsSoundHolds == Spec => []SlotsSound
<1>1. HeapInv => SlotsSound
  <2> SUFFICES ASSUME HeapInv, NEW p \in PageId, heap.pages[p].kind = "data"
               PROVE  PageSound(heap.pages[p].page) /\ ~OverlappingCells(heap.pages[p].page)
    BY DEF SlotsSound
  <2>1. heap.pages[p] \in PageSet
    BY DEF HeapInv, Kept, HeapSet
  <2>2. heap.pages[p].page \in PageType(HeapByte) /\ PageSound(heap.pages[p].page)
    BY <2>1, PageKinds
  <2> QED
    BY <2>2, NoneOverlap
<1> QED
  BY <1>1, HeapInvHolds, PTL

(* The free-space map says exactly what each of its pages has, and only of *)
(* data pages of the collection that are not the current one.              *)
THEOREM FreeSpaceHolds == Spec => []FreeSpaceRight
<1>1. HeapInv => FreeSpaceRight
  <2> SUFFICES ASSUME HeapInv, NEW p \in DOMAIN heap.free
               PROVE  /\ p \in DataPages(heap, locs) /\ p # heap.current
                      /\ heap.free[p] = ReclaimableSpace(heap.pages[p].page)
                      /\ heap.free[p] >= MinRoomToStay
    BY DEF FreeSpaceRight
  <2>1. heap \in HeapSet /\ CurrentRight(heap) /\ RoomsRight(heap, {})
    BY DEF HeapInv, Kept
  <2>2. PICK ch : Body(heap.pages, {heap.current}, {}, locs, docs, ch, {})
    BY DEF HeapInv, Kept
  <2>3. PagesUsed(heap, locs, ch)
    BY <2>1, <2>2, UsedPages
  <2>4. p \in PageId
    BY <2>1, RoomSets DEF HeapSet
  <2>5. RoomRight(heap, p)
    BY <2>1 DEF RoomsRight
  <2> QED
    BY <2>3, <2>4, <2>5 DEF PagesUsed, RoomRight
<1> QED
  BY <1>1, HeapInvHolds, PTL
=============================================================================
