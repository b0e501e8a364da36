-------------------------- MODULE Durability_proofs --------------------------
(***************************************************************************)
(* IInv is an invariant of Durability for a database that goes down in one *)
(* way only, and any number of pages, batches and faults.  So whatever a   *)
(* crash leaves recovers to the last commit or the batch in doubt, and the *)
(* batches are atomic as AtomicStore says.                                 *)
(***************************************************************************)
EXTENDS Durability, Induction_proofs, FiniteSetTheorems, SequenceTheorems

(* The page ids are numbers, the header's and the catalog's among them.    *)
LEMMA PageIds ==
    /\ PageId \subseteq Nat /\ HEADER_PAGE \in PageId /\ 1 \in PageId
    /\ \A p \in Nat : p < MaxPages => p \in PageId
    /\ MaxPages \in Nat /\ MaxBatches \in Nat /\ MaxFaults \in Nat
BY DurabilityAssumption DEF PageId, HEADER_PAGE

(* The batches are numbered without gaps.                                  *)
LEMMA Numbered ==
    ASSUME NEW n \in Nat, NEW S, S = 0 .. n
    PROVE  Cardinality(S) - 1 = n
BY FS_Interval

-----------------------------------------------------------------------------
(* What a log holds.                                                       *)

LEMMA PendingInImages == ASSUME NEW w \in Seq(Record) PROVE Pending(w) \subseteq Images(w)
BY DEF Pending, Images

LEMMA NothingPending == Pending(<<>>) = {} /\ Images(<<>>) = {}
BY DEF Pending, Images

LEMMA ImagesAppend ==
    ASSUME NEW w \in Seq(Record), NEW r \in Record
    PROVE  Images(Append(w, r)) = Images(w) \cup {r.of} \X r.pages
<1> DEFINE v == Append(w, r)
<1>1. Len(v) = Len(w) + 1 /\ v[Len(w) + 1] = r /\ Len(w) \in Nat
  OBVIOUS
<1>2. \A i \in 1 .. Len(w) : v[i] = w[i]
  OBVIOUS
<1>3. 1 .. Len(v) = 1 .. Len(w) \cup {Len(w) + 1}
  BY <1>1
<1> HIDE DEF v
<1>4. ASSUME NEW x PROVE x \in Images(v) <=> x \in Images(w) \cup {r.of} \X r.pages
  <2>1. x \in Images(v) <=> \E i \in 1 .. Len(v) : x \in {v[i].of} \X v[i].pages
    BY DEF Images
  <2>2. x \in Images(w) <=> \E i \in 1 .. Len(w) : x \in {w[i].of} \X w[i].pages
    BY DEF Images
  <2>3. (\E i \in 1 .. Len(v) : x \in {v[i].of} \X v[i].pages)
        <=> \/ \E i \in 1 .. Len(w) : x \in {w[i].of} \X w[i].pages
            \/ x \in {r.of} \X r.pages
    BY <1>1, <1>2, <1>3
  <2> QED
    BY <2>1, <2>2, <2>3
<1> QED
  BY <1>4 DEF v

(* A record that more of the batch follows restores nothing yet.           *)
LEMMA PendingAppendMore ==
    ASSUME NEW w \in Seq(Record), NEW r \in Record, r.more
    PROVE  Pending(Append(w, r)) = Pending(w)
<1> DEFINE v == Append(w, r)
<1>1. Len(v) = Len(w) + 1 /\ v[Len(w) + 1] = r /\ Len(w) \in Nat
  OBVIOUS
<1>2. \A i \in 1 .. Len(w) : v[i] = w[i]
  OBVIOUS
<1>3. 1 .. Len(v) = 1 .. Len(w) \cup {Len(w) + 1}
  BY <1>1
<1> HIDE DEF v
<1>4. {i \in 1 .. Len(v) : ~v[i].more} = {i \in 1 .. Len(w) : ~w[i].more}
  BY <1>1, <1>2, <1>3
<1> DEFINE whole == {i \in 1 .. Len(w) : ~w[i].more}
           J == {j \in 1 .. Len(w) : \E k \in whole : j <= k}
<1>5. {j \in 1 .. Len(v) : \E k \in whole : j <= k} = J
  BY <1>1, <1>3
<1>6. \A j \in J : v[j] = w[j]
  BY <1>2
<1>7. Pending(v) = UNION {{v[i].of} \X v[i].pages : i \in J}
  BY <1>4, <1>5 DEF Pending
<1>8. Pending(w) = UNION {{w[i].of} \X w[i].pages : i \in J}
  BY DEF Pending
<1> HIDE DEF J
<1> QED
  BY <1>6, <1>7, <1>8 DEF v

(* A batch's last record makes all images count.                           *)
LEMMA PendingAppendLast ==
    ASSUME NEW w \in Seq(Record), NEW r \in Record, ~r.more
    PROVE  Pending(Append(w, r)) = Images(Append(w, r))
<1> DEFINE v == Append(w, r)
<1>1. Len(v) = Len(w) + 1 /\ v[Len(w) + 1] = r /\ Len(w) \in Nat
  OBVIOUS
<1> HIDE DEF v
<1>2. Len(v) \in {i \in 1 .. Len(v) : ~v[i].more}
  BY <1>1
<1>3. {j \in 1 .. Len(v) : \E k \in {i \in 1 .. Len(v) : ~v[i].more} : j <= k} = 1 .. Len(v)
  BY <1>1, <1>2
<1> QED
  BY <1>3 DEF Pending, Images, v

(* A torn record holds nothing.                                            *)
LEMMA TornTail ==
    /\ TornRecord \in Record /\ TornRecord.more
    /\ \A w \in Seq(Record) : Pending(Append(w, TornRecord)) = Pending(w)
<1>1. TornRecord \in Record /\ TornRecord.more
  BY DEF TornRecord, Record
<1> QED
  BY <1>1, PendingAppendMore

-----------------------------------------------------------------------------
(* Recovery.                                                               *)

(* Less left of the main file, where there is no image, changes nothing.   *)
LEMMA GivesMore ==
    ASSUME NEW images, NEW left, NEW left2, NEW c, Gives(images, left, c),
           \A p \in Within(c) : HasImage(images, p) \/ left2[p] \subseteq left[p]
    PROVE  Gives(images, left2, c)
BY DEF Gives

(* What a WAL gives over any of what is left is what recovery finds.       *)
LEMMA GivesRecovered ==
    ASSUME NEW w, NEW left, NEW c, NEW f \in [PageId -> 0 .. MaxBatches \cup {Torn, Absent}],
           IsWhole(c), Gives(Pending(w), left, c), \A p \in PageId : f[p] \in left[p]
    PROVE  Recovered(f, w) = c
<1> DEFINE I == Pending(w)
           g == Overlay(f, I)
<1> HIDE DEF I
<1>1. \A p \in Within(c) : g[p] = c.page[p]
  <2> SUFFICES ASSUME NEW p \in Within(c) PROVE g[p] = c.page[p]
    OBVIOUS
  <2>0. p \in PageId
    BY DEF Within
  <2>1. CASE HasImage(I, p)
    <3> DEFINE Last(b) == /\ <<b, p>> \in I
                          /\ \A d \in 1 .. MaxBatches : <<d, p>> \in I => d <= b
    <3>1. c.page[p] \in 1 .. MaxBatches /\ Last(c.page[p])
      BY <2>1 DEF Gives, IsNewest, I
    <3>2. \A b \in 1 .. MaxBatches : Last(b) => b = c.page[p]
      BY <3>1
    <3>3. g[p] = CHOOSE b \in 1 .. MaxBatches : Last(b)
      BY <2>0, <2>1 DEF Overlay, HasImage
    <3> HIDE DEF Last, g
    <3> QED
      BY <3>1, <3>2, <3>3
  <2>2. CASE ~HasImage(I, p)
    <3>1. g[p] = f[p]
      BY <2>0, <2>2 DEF Overlay, HasImage
    <3>2. f[p] \in {c.page[p]}
      BY <2>0, <2>2 DEF Gives, I
    <3> QED
      BY <3>1, <3>2
  <2> QED
    BY <2>1, <2>2
<1> HIDE DEF g
<1>2. c = Pages(c.count, c.page) /\ c.count \in 0 .. MaxPages /\ c.page \in [PageId -> 0 .. MaxBatches \cup {Absent}]
  BY DEF IsWhole, Contents, Pages
<1>3. g[HEADER_PAGE] = c.page[HEADER_PAGE]
  BY <1>1, PageIds DEF Within
<1>4. HeaderCount(g) = c.count /\ g[HEADER_PAGE] # Torn
  <2>1. CASE c.count = 0
    BY <1>3, <2>1, PageIds DEF HeaderCount, IsWhole, HEADER_PAGE, Absent, Torn
  <2>2. CASE c.count > 0
    <3>1. c.page[HEADER_PAGE] \in 0 .. This /\ batch[c.page[HEADER_PAGE]].count = c.count
      BY <2>2, PageIds DEF IsWhole, HEADER_PAGE
    <3>2. c.page[HEADER_PAGE] \in 0 .. MaxBatches \cup {Absent} /\ c.page[HEADER_PAGE] # Absent
      BY <1>2, <3>1, PageIds DEF Absent
    <3> QED
      BY <1>3, <3>1, <3>2, PageIds DEF HeaderCount, Absent, Torn
  <2> QED
    BY <1>2, <2>1, <2>2
<1>5. [p \in PageId |-> IF p < c.count THEN g[p] ELSE Absent] = c.page
  BY <1>1, <1>2 DEF IsWhole, Within
<1>6. InFile(g) = Pages(c.count, c.page)
  BY <1>4, <1>5 DEF InFile
<1> QED
  BY <1>2, <1>6 DEF Recovered, g, I

-----------------------------------------------------------------------------
(* What a crash may leave.                                                 *)

LEMMA SameLeft ==
    ASSUME UNCHANGED <<now, maybe, wal, walMaybe, failed>>
    PROVE  Left' = Left /\ LeftWals' = LeftWals /\ Base' = SubSeq(wal, 1, len')
BY DEF Left, LeftWals, MayFail, Base

LEMMA SameMain ==
    ASSUME UNCHANGED <<now, maybe, failed>>
    PROVE  Left' = Left
BY DEF Left, MayFail

LEMMA SameWals ==
    ASSUME UNCHANGED <<wal, walMaybe, failed>>
    PROVE  LeftWals' = LeftWals
BY DEF LeftWals, MayFail

(* What the OS shows is among it.                                          *)
LEMMA NowLeft ==
    ASSUME Typed
    PROVE  /\ \A p \in PageId : now[p] \in Left[p]
           /\ wal \in LeftWals
           /\ LeftWals \subseteq walMaybe
BY DEF Typed, FilesTyped, Left, LeftWals

(* After a kill no power failure is to come.                               *)
LEMMA NoPowerAfterKill ==
    ASSUME OneWay, FailsBy("kill")
    PROVE  /\ ~MayFail("power")'
           /\ Left' = [p \in PageId |-> {now'[p]}]
           /\ LeftWals' = {wal'}
<1>1. "kill" \in Failures /\ "kill" \in failed'
  BY DEF FailsBy, MayFail
<1>2. ~MayFail("power")'
  BY <1>1, DurabilityAssumption DEF MayFail, OneWay
<1> QED
  BY <1>2 DEF Left, LeftWals

LEMMA AnyRecovers ==
    ASSUME Recovers, NEW w \in LeftWals
    PROVE  \E c \in {current, doubt} : c # Nothing /\ Gives(Pending(w), Left, c)
BY DEF Recovers

(* Down, with one of what might be left of the files.                      *)
LEMMA Crashed ==
    ASSUME Typed, Recovers,
           pc' = "down", todo' = {}, waiting' = {}, image' = 0,
           UNCHANGED <<current, doubt>>,
           \A p \in PageId : now'[p] \in Left[p],
           Left' = [p \in PageId |-> {now'[p]}],
           LeftWals' = {wal'},
           \E w \in LeftWals : Pending(wal') = Pending(w)
    PROVE  /\ WalSound' /\ WaitingSound' /\ Settles' /\ LogSound'
           /\ Recovers' /\ TodoSound' /\ StepSound'
<1>1. ~Up' /\ ~Logging'
  BY DEF Up, Logging
<1>2. PICK w \in LeftWals : Pending(wal') = Pending(w)
  OBVIOUS
<1>3. PICK c \in {current, doubt} : c # Nothing /\ Gives(Pending(w), Left, c)
  BY AnyRecovers
<1>4. \A p \in Within(c) : Left'[p] \subseteq Left[p]
  BY DEF Within
<1>5. Gives(Pending(wal'), Left', c)
  BY <1>2, <1>3, <1>4, GivesMore
<1>6. Reaches(c)'
  BY DEF Reaches
<1>7. Recovers'
  BY <1>1, <1>3, <1>5, <1>6 DEF Recovers
<1>8. WalSound' /\ WaitingSound' /\ Settles' /\ LogSound'
  BY <1>1 DEF WalSound, WaitingSound, Settles, LogSound
<1>9. TodoSound' /\ StepSound'
  BY DEF TodoSound, StepSound
<1> QED
  BY <1>7, <1>8, <1>9

-----------------------------------------------------------------------------
(* The steps.  What is committed stays a database.                         *)

LEMMA BatchesStay ==
    ASSUME BatchesTyped, UNCHANGED <<batch, current, doubt>>
    PROVE  BatchesTyped' /\ This' = This
BY DEF BatchesTyped, IsWhole, This

LEMMA FilesStay ==
    ASSUME FilesTyped, UNCHANGED <<now, maybe, wal, walMaybe>>, This' = This
    PROVE  FilesTyped'
BY DEF FilesTyped

(* A process that ends.                                                    *)
LEMMA KillIInv == ASSUME OneWay, IInv, Kill \/ ClosePoisoned PROVE IInv'
<1>1. FailsBy("kill") /\ UNCHANGED <<files, len, batch, current, doubt>>
      /\ pc' = "down" /\ task' = "work" /\ logLeft' = {} /\ waiting' = {} /\ image' = 0 /\ todo' = {}
      /\ faults' \in 0 .. MaxFaults
  BY PageIds DEF Kill, ClosePoisoned, DownBy, Fault, IInv, Typed, StepTyped
<1>2. Typed /\ Recovers /\ OnlyTailTorn /\ FilesTyped /\ BatchesTyped /\ StepTyped
  BY DEF IInv, Typed
<1>3. /\ WalSound' /\ WaitingSound' /\ Settles' /\ LogSound'
      /\ Recovers' /\ TodoSound' /\ StepSound'
  BY <1>1, <1>2, NowLeft, NoPowerAfterKill, Crashed DEF files
<1>4. failed' \subseteq Failures
  BY <1>1, <1>2 DEF FailsBy, MayFail, StepTyped
<1>5. BatchesTyped' /\ This' = This
  BY <1>1, <1>2, BatchesStay
<1>6. FilesTyped'
  BY <1>1, <1>2, <1>5, FilesStay DEF files
<1>7. StepTyped'
  BY <1>1, <1>2, <1>4, <1>5 DEF StepTyped, BatchesTyped
<1>8. OnlyTailTorn'
  BY <1>1, <1>2 DEF OnlyTailTorn, files
<1> QED
  BY <1>3, <1>5, <1>6, <1>7, <1>8 DEF IInv, Typed

LEMMA PowerFailureIInv == ASSUME IInv, PowerFailure PROVE IInv'
<1>1. MayFail("power") /\ UNCHANGED <<len, batch, current, doubt>>
      /\ pc' = "down" /\ task' = "work" /\ logLeft' = {} /\ waiting' = {} /\ image' = 0 /\ todo' = {}
      /\ faults' \in 0 .. MaxFaults
  BY PageIds DEF PowerFailure, DownBy, FailsBy, Fault, IInv, Typed, StepTyped
<1>2. Typed /\ Recovers /\ OnlyTailTorn /\ FilesTyped /\ BatchesTyped /\ StepTyped
  BY DEF IInv, Typed
<1>3. /\ now' \in [PageId -> 0 .. MaxBatches \cup {Torn, Absent}]
      /\ \A p \in PageId : now'[p] \in Left[p]
      /\ maybe' = [p \in PageId |-> {now'[p]}]
  <2>1. /\ now' \in [PageId -> UNION {maybe[p] : p \in PageId}]
        /\ \A p \in PageId : now'[p] \in maybe[p]
    BY DEF PowerFailure, Outcomes
  <2>2. \A p \in PageId : maybe[p] \subseteq 0 .. MaxBatches \cup {Torn, Absent}
    BY <1>2 DEF FilesTyped
  <2>3. \A p \in PageId : Left[p] = maybe[p]
    BY <1>1 DEF Left
  <2> QED
    BY <2>1, <2>2, <2>3 DEF PowerFailure
<1>4. wal' \in LeftWals /\ walMaybe' = {wal'} /\ LeftWals = walMaybe
  BY <1>1 DEF PowerFailure, LeftWals
<1>5. Left' = [p \in PageId |-> {now'[p]}]
  <2>1. \A p \in PageId : maybe'[p] = {now'[p]}
    BY <1>3
  <2> QED
    BY <2>1 DEF Left
<1>6. LeftWals' = {wal'}
  BY <1>4 DEF LeftWals
<1>7. /\ WalSound' /\ WaitingSound' /\ Settles' /\ LogSound'
      /\ Recovers' /\ TodoSound' /\ StepSound'
  BY <1>1, <1>2, <1>3, <1>4, <1>5, <1>6, Crashed
<1>8. failed' \subseteq Failures
  BY <1>1, <1>2 DEF PowerFailure, DownBy, FailsBy, MayFail, StepTyped
<1>9. BatchesTyped' /\ This' = This
  BY <1>1, <1>2, BatchesStay
<1>10. maybe' \in [PageId -> SUBSET (0 .. MaxBatches \cup {Torn, Absent})]
       /\ \A p \in PageId : now'[p] \in maybe'[p]
  BY <1>3
<1>11. FilesTyped'
  BY <1>2, <1>3, <1>4, <1>9, <1>10 DEF FilesTyped
<1>12. StepTyped'
  BY <1>1, <1>2, <1>8, <1>9 DEF StepTyped, BatchesTyped
<1>13. OnlyTailTorn'
  BY <1>2, <1>4 DEF OnlyTailTorn
<1> QED
  BY <1>7, <1>9, <1>11, <1>12, <1>13 DEF IInv, Typed

(* The images of a log are pages, of batches there have been.              *)
LEMMA ImagesTyped ==
    ASSUME FilesTyped, NEW w \in walMaybe
    PROVE  Images(w) \subseteq (1 .. This) \X PageId
<1>1. \A i \in 1 .. Len(w) : w[i].pages \subseteq PageId /\ (w[i].pages # {} => w[i].of \in 1 .. This)
  <2> SUFFICES ASSUME NEW i \in 1 .. Len(w)
               PROVE  w[i].pages \subseteq PageId /\ (w[i].pages # {} => w[i].of \in 1 .. This)
    OBVIOUS
  <2>1. w \in Seq(Record)
    BY DEF FilesTyped
  <2>2. w[i] \in Record
    BY <2>1
  <2>3. w[i] # TornRecord => w[i].of \in 1 .. This
    BY DEF FilesTyped
  <2> QED
    BY <2>2, <2>3 DEF Record, TornRecord
<1> QED
  BY <1>1 DEF Images

LEMMA WholeLog == ASSUME NEW w \in Seq(Record) PROVE SubSeq(w, 1, Len(w)) = w
OBVIOUS

(* A batch's log begins.                                                   *)
LEMMA LogBeginIInv ==
    ASSUME IInv, NEW pages \in SUBSET PageId, NEW n \in 1 .. MaxPages,
           NEW replaces \in BOOLEAN, LogBegin(pages, n, replaces),
           pc \in {"idle", "fresh"},
           \A p \in pages : p < n,
           \A p \in PageId : p < n => p \in pages \/ p < current.count,
           HEADER_PAGE \notin pages => n = current.count,
           replaces => \A p \in PageId : p < n => p \in pages,
           ~replaces => n >= current.count
    PROVE  IInv'
<1> USE PageIds
<1>1. Typed /\ FilesTyped /\ BatchesTyped /\ StepTyped
  BY DEF IInv, Typed
<1>2. This < MaxBatches /\ This \in Nat /\ UNCHANGED <<files, task, waiting, image, todo, current, faults, failed>>
      /\ pc' = "log" /\ logLeft' = pages
  BY <1>1 DEF LogBegin, BatchesTyped
<1>3. /\ DOMAIN batch' = 0 .. This + 1
      /\ \A b \in 0 .. This : batch'[b] = batch[b]
      /\ batch'[This + 1] = [pages |-> pages, count |-> n, image |-> replaces]
  BY <1>2 DEF LogBegin
<1>4. This' = This + 1
  BY <1>2, <1>3, Numbered DEF This
<1>5. Up /\ ~Logging /\ doubt = Nothing /\ len = Len(wal) /\ Up' /\ Logging'
  BY <1>2 DEF IInv, Settles, Up, Logging
<1>6. wal \in Seq(Record) /\ wal \in walMaybe
  BY <1>1 DEF FilesTyped
<1>7. len' = Len(wal) /\ Base = wal /\ Base' = wal
  BY <1>2, <1>5, <1>6, WholeLog DEF LogBegin, Base, files
<1>8. Left' = Left /\ LeftWals' = LeftWals /\ wal' = wal /\ walMaybe' = walMaybe
  BY <1>2, SameLeft DEF files
<1>9. IsWhole(current)'
  <2>1. IsWhole(current)
    BY <1>1 DEF BatchesTyped
  <2>2. 0 .. This \subseteq 0 .. This'
    BY <1>2, <1>4
  <2>3. current.count > 0 => current.page[HEADER_PAGE] \in 0 .. This
    BY <2>1 DEF IsWhole, HEADER_PAGE
  <2> QED
    BY <1>2, <1>3, <2>1, <2>2, <2>3 DEF IsWhole
<1> DEFINE d == doubt'
<1>10. /\ d.count = n
       /\ \A p \in PageId : d.page[p] = IF p >= n THEN Absent
                            ELSE IF p \in pages THEN This + 1 ELSE current.page[p]
       /\ d = [count |-> d.count, page |-> d.page]
       /\ DOMAIN d.page = PageId
  BY DEF LogBegin, Pages
<1> HIDE DEF d
<1>11. \A p \in PageId : p < current.count => current.page[p] \in 0 .. This
  BY <1>1 DEF BatchesTyped, IsWhole
<1>12. \A p \in PageId : IF p < n THEN d.page[p] \in 0 .. This + 1 ELSE d.page[p] = Absent
  BY <1>2, <1>10, <1>11
<1>13. d \in Contents
  <2>1. \A p \in PageId : d.page[p] \in 0 .. MaxBatches \cup {Absent}
    BY <1>2, <1>12
  <2>2. d.page \in [PageId -> 0 .. MaxBatches \cup {Absent}]
    <3>1. d.page = [p \in PageId |-> d.page[p]]
      BY <1>10 DEF LogBegin, Pages, d
    <3> QED
      BY <2>1, <3>1
  <2> QED
    BY <1>10, <2>2 DEF Contents
<1>14. batch'[d.page[HEADER_PAGE]].count = n
  <2>1. CASE HEADER_PAGE \in pages
    BY <1>3, <1>10, <2>1 DEF HEADER_PAGE
  <2>2. CASE HEADER_PAGE \notin pages
    <3>1. n = current.count /\ d.page[HEADER_PAGE] = current.page[HEADER_PAGE]
      BY <1>10, <2>2 DEF HEADER_PAGE
    <3>2. batch[current.page[HEADER_PAGE]].count = n /\ current.page[HEADER_PAGE] \in 0 .. This
      BY <1>1, <1>11, <3>1 DEF BatchesTyped, IsWhole, HEADER_PAGE
    <3> QED
      BY <1>3, <3>1, <3>2
  <2> QED
    BY <2>1, <2>2
<1>15. IsWhole(doubt)'
  BY <1>4, <1>10, <1>12, <1>13, <1>14 DEF IsWhole, d
<1>16. BatchesTyped'
  <2>1. This' \in 0 .. MaxBatches
    BY <1>2, <1>4
  <2>2. ASSUME NEW b \in 0 .. This'
        PROVE  batch'[b] \in [pages : SUBSET PageId, count : 0 .. MaxPages, image : BOOLEAN]
    <3>1. CASE b \in 0 .. This
      BY <1>1, <1>3, <3>1 DEF BatchesTyped
    <3>2. CASE b = This + 1
      <4>1. n \in 0 .. MaxPages
        OBVIOUS
      <4>2. [pages |-> pages, count |-> n, image |-> replaces]
              \in [pages : SUBSET PageId, count : 0 .. MaxPages, image : BOOLEAN]
        BY <4>1, Zenon
      <4> QED
        BY <1>3, <3>2, <4>2, Zenon
    <3> QED
      BY <1>2, <1>4, <3>1, <3>2
  <2> QED
    BY <1>3, <1>4, <1>9, <1>15, <2>1, <2>2 DEF BatchesTyped
<1>17. FilesTyped'
  BY <1>1, <1>2, <1>4 DEF FilesTyped, files
<1>18. StepTyped'
  BY <1>1, <1>2, <1>4, <1>6, <1>7 DEF StepTyped
<1>19. WalSound'
  BY <1>2, <1>5, <1>6, <1>7, <1>8 DEF IInv, WalSound
<1>20. ToWrite' = ToWrite
  <2>1. image \in 0 .. This
    BY <1>1 DEF StepTyped
  <2> QED
    BY <1>2, <1>3, <2>1 DEF ToWrite
<1>21. WaitingSound'
  BY <1>2, <1>5, <1>7, <1>8, <1>20 DEF IInv, WaitingSound
<1>22. Settles'
  BY <1>5 DEF Settles
<1>23. LogSound'
  <2>1. NoneTorn(wal) /\ Pending(wal) = Images(wal)
    BY <1>5, <1>7 DEF IInv, WalSound
  <2>2. ASSUME NEW b \in 1 .. MaxBatches, NEW p \in PageId, <<b, p>> \in Pending(wal)
        PROVE  b < This + 1
    BY <1>1, <1>2, <1>6, <2>1, <2>2, ImagesTyped
  <2>3. Images(wal) = Pending(wal) \cup {This + 1} \X (pages \ pages)
    BY <2>1
  <2>4. batch[This]'.pages = pages /\ batch[This]'.image = replaces
    BY <1>3, <1>4
  <2>5. \A p \in pages : p < d.count /\ d.page[p] = This + 1
    BY <1>10
  <2>6. \A p \in PageId : p < n \/ p = HEADER_PAGE => p < n
    BY DEF HEADER_PAGE
  <2>7. \A p \in Within(d) \ pages : p \in Within(current) /\ d.page[p] = current.page[p]
    BY <1>10, <2>6 DEF Within
  <2>8. IF replaces THEN Within(d) \subseteq pages ELSE d.count >= current.count
    BY <1>10, <2>6 DEF Within
  <2>9. d # Nothing
    BY <1>10 DEF Nothing
  <2>10. pc' # "logged" /\ This' >= 1 /\ NoneTorn(wal)' /\ wal' = wal /\ current' = current
    BY <1>2, <1>4, <1>8, <2>1
  <2> HIDE DEF d
  <2>11. \A b \in 1 .. MaxBatches, p \in PageId : <<b, p>> \in Pending(Base)' => b < This'
    BY <1>4, <1>7, <2>2
  <2>12. (Images(wal) = Pending(Base) \cup {This} \X (batch[This].pages \ logLeft))'
    BY <1>2, <1>4, <1>7, <1>8, <2>3, <2>4
  <2> QED
    BY <1>2, <1>4, <2>4, <2>5, <2>7, <2>8, <2>9, <2>10, <2>11, <2>12 DEF LogSound, d
<1>24. Recovers'
  <2>1. \A w \in LeftWals : Gives(Pending(w), Left, current)
    BY <1>5 DEF IInv, Recovers
  <2>2. current # Nothing
    BY <1>1 DEF BatchesTyped, IsWhole, Contents, Nothing
  <2> QED
    BY <1>2, <1>5, <1>8, <2>1, <2>2 DEF Recovers
<1>25. TodoSound'
  BY <1>2, <1>8 DEF IInv, TodoSound
<1>26. StepSound'
  BY <1>2 DEF IInv, StepSound
<1>27. OnlyTailTorn'
  BY <1>8 DEF IInv, OnlyTailTorn
<1> QED
  BY <1>16, <1>17, <1>18, <1>19, <1>21, <1>22, <1>23, <1>24, <1>25, <1>26, <1>27
     DEF IInv, Typed

LEMMA TransactIInv ==
    ASSUME IInv, NEW pages \in SUBSET PageId, NEW n \in current.count .. MaxPages,
           Transact(pages, n)
    PROVE  IInv'
<1> USE PageIds
<1>1. current.count \in 0 .. MaxPages
  BY DEF IInv, Typed, BatchesTyped, IsWhole, Contents
<1>2. PICK q \in pages : q < n
  BY DEF Transact
<1>3. n \in 1 .. MaxPages
  BY <1>1, <1>2
<1>4. \A p \in PageId : p < n => p \in pages \/ p < current.count
  BY <1>1, <1>3 DEF Transact
<1>5. HEADER_PAGE \notin pages => n = current.count
  BY <1>1, <1>3 DEF Transact
<1>6. LogBegin(pages, n, FALSE) /\ pc \in {"idle", "fresh"} /\ \A p \in pages : p < n
  BY DEF Transact
<1>7. n >= current.count
  BY <1>1
<1> QED
  BY <1>3, <1>4, <1>5, <1>6, <1>7, LogBeginIInv

LEMMA CompactIInv ==
    ASSUME IInv, NEW n \in 2 .. MaxPages, Compact(n)
    PROVE  IInv'
<1> USE PageIds
<1>1. 0 .. n - 1 \in SUBSET PageId /\ HEADER_PAGE \in 0 .. n - 1
  BY DEF HEADER_PAGE
<1>2. \A p \in PageId : p < n => p \in 0 .. n - 1
  OBVIOUS
<1>3. \A p \in 0 .. n - 1 : p < n
  OBVIOUS
<1>4. pc \in {"idle", "fresh"} /\ n \in 1 .. MaxPages
  BY DEF Compact
<1> DEFINE pages == 0 .. n - 1
<1> HIDE DEF pages
<1>5. LogBegin(pages, n, TRUE)
  BY Zenon DEF pages, Compact
<1>6. /\ pages \in SUBSET PageId /\ HEADER_PAGE \in pages
      /\ \A p \in pages : p < n
      /\ \A p \in PageId : p < n => p \in pages
  BY <1>1, <1>2, <1>3 DEF pages
<1> QED
  BY <1>4, <1>5, <1>6, LogBeginIInv

LEMMA BootstrapIInv == ASSUME IInv, Bootstrap PROVE IInv'
<1> USE PageIds
<1>1. current.count = 0 /\ pc = "fresh"
  BY DEF IInv, StepSound, Bootstrap
<1>2. {HEADER_PAGE, 1} \in SUBSET PageId /\ 2 \in 1 .. MaxPages
  BY DurabilityAssumption
<1>3. /\ \A p \in {HEADER_PAGE, 1} : p < 2
      /\ \A p \in PageId : p < 2 => p \in {HEADER_PAGE, 1}
  BY DEF HEADER_PAGE
<1> DEFINE pages == {HEADER_PAGE, 1}
           n == 2
<1> HIDE DEF pages, n
<1>4. /\ pages \in SUBSET PageId /\ HEADER_PAGE \in pages /\ n \in 1 .. MaxPages
      /\ \A p \in pages : p < n
      /\ \A p \in PageId : p < n => p \in pages
      /\ n >= current.count
  BY <1>1, <1>2, <1>3 DEF pages, n
<1>5. LogBegin(pages, n, FALSE)
  BY Zenon DEF pages, n, Bootstrap
<1> QED
  BY <1>1, <1>4, <1>5, LogBeginIInv

-----------------------------------------------------------------------------
(* A record is written, flushed, or taken back.                            *)

LEMMA HasImageMore ==
    ASSUME NEW I, NEW J, I \subseteq J, NEW p, HasImage(I, p)
    PROVE  HasImage(J, p)
BY DEF HasImage

LEMMA CurrentThere ==
    ASSUME BatchesTyped
    PROVE  /\ current # Nothing /\ current.count \in 0 .. MaxPages
           /\ doubt # Nothing => doubt.count \in 0 .. MaxPages
BY DEF BatchesTyped, IsWhole, Contents, Nothing

(* All of the batch's images, over the log before it, give what it leaves. *)
LEMMA DoubtGiven ==
    ASSUME IInv, pc \in {"log", "logged"},
           NEW I, I = Pending(Base) \cup {This} \X batch[This].pages
    PROVE  Gives(I, Left, doubt)
<1> USE PageIds
<1> DEFINE pages == batch[This].pages
           B == Pending(Base)
<1>1. /\ This \in 1 .. MaxBatches
      /\ \A b \in 1 .. MaxBatches, p \in PageId : <<b, p>> \in B => b < This
      /\ \A p \in pages : doubt.page[p] = This
      /\ \A p \in Within(doubt) \ pages : p \in Within(current) /\ doubt.page[p] = current.page[p]
  BY DEF IInv, LogSound, Typed, BatchesTyped
<1>2. Gives(B, Left, current)
  BY DEF IInv, WalSound, Up
<1> HIDE DEF pages, B
<1>3. ASSUME NEW p \in Within(doubt)
      PROVE  IF HasImage(I, p) THEN IsNewest(I, p, doubt.page[p])
             ELSE Left[p] \subseteq {doubt.page[p]}
  <2>1. p \in PageId /\ I = B \cup {This} \X pages
    BY DEF Within, B, pages
  <2>2. CASE p \in pages
    <3>1. <<This, p>> \in I
      BY <2>1, <2>2
    <3>2. ASSUME NEW d \in 1 .. MaxBatches, <<d, p>> \in I PROVE d <= This
      <4>1. <<d, p>> \in B \/ d = This
        BY <2>1, <3>2
      <4>2. <<d, p>> \in B => d < This
        BY <1>1, <2>1
      <4> QED
        BY <1>1, <4>1, <4>2
    <3> QED
      BY <1>1, <2>2, <3>1, <3>2 DEF HasImage, IsNewest
  <2>3. CASE p \notin pages
    <3>1. p \in Within(current) /\ doubt.page[p] = current.page[p]
      BY <1>1, <2>3
    <3>2. \A d : <<d, p>> \in I <=> <<d, p>> \in B
      BY <2>1, <2>3
    <3>3. IF HasImage(B, p) THEN IsNewest(B, p, current.page[p])
          ELSE Left[p] \subseteq {current.page[p]}
      BY <1>2, <3>1 DEF Gives
    <3>4. HasImage(I, p) <=> HasImage(B, p)
      BY <3>2 DEF HasImage
    <3>5. IsNewest(B, p, current.page[p]) => IsNewest(I, p, current.page[p])
      BY <3>2 DEF IsNewest
    <3> QED
      BY <3>1, <3>3, <3>4, <3>5
  <2> QED
    BY <2>2, <2>3
<1> QED
  BY <1>3 DEF Gives

(* One more record leaves the log before it as it is.                      *)
LEMMA BeforeAppend ==
    ASSUME NEW w \in Seq(Record), NEW r \in Record, NEW n \in Nat, n <= Len(w)
    PROVE  SubSeq(Append(w, r), 1, n) = SubSeq(w, 1, n)
OBVIOUS

LEMMA TornAtTail ==
    ASSUME NEW w \in Seq(Record), NoneTorn(w), NEW r \in Record
    PROVE  \A i \in 1 .. Len(Append(w, r)) : Append(w, r)[i] = TornRecord => i = Len(Append(w, r))
BY DEF NoneTorn

LEMMA LogWriteIInv == ASSUME IInv, LogWrite PROVE IInv'
<1> USE PageIds
<1> DEFINE r == NextRecord
           torn == Append(wal, TornRecord)
<1>1. Typed /\ FilesTyped /\ BatchesTyped /\ StepTyped /\ pc = "log"
  BY DEF IInv, Typed, LogWrite
<1>2. /\ wal' = Append(wal, r) /\ walMaybe' = walMaybe \cup {wal', torn}
      /\ logLeft' = logLeft \ Chunk /\ pc' = "logged"
      /\ UNCHANGED <<now, maybe, len, batch, task, waiting, image, todo,
                   current, doubt, faults, failed>>
  BY DEF LogWrite
<1>3. Up /\ Logging /\ Up' /\ Logging'
  BY <1>1, <1>2 DEF Up, Logging
<1>4. /\ Chunk \subseteq logLeft /\ logLeft \subseteq batch[This].pages /\ logLeft \subseteq PageId
      /\ This \in 1 .. MaxBatches
  BY <1>1 DEF Chunk, IInv, LogSound, StepTyped, BatchesTyped
<1>5. /\ r \in Record /\ r # TornRecord /\ r.of = This /\ r.pages = Chunk
      /\ r.more <=> logLeft # Chunk
  <2>1. (logLeft # Chunk) \in BOOLEAN
    OBVIOUS
  <2>2. r \in Record
    BY <1>4, <2>1 DEF NextRecord, Record
  <2>3. r.of = This /\ r.pages = Chunk /\ (r.more <=> logLeft # Chunk)
    BY DEF NextRecord
  <2> QED
    BY <1>4, <2>2, <2>3 DEF TornRecord
<1>6. wal \in Seq(Record) /\ wal \in walMaybe /\ torn \in Seq(Record) /\ wal' \in Seq(Record)
  BY <1>1, <1>2, <1>5, TornTail DEF FilesTyped
<1> HIDE DEF r, torn
<1>7. BatchesTyped' /\ This' = This
  BY <1>1, <1>2, BatchesStay
<1>8. StepTyped'
  BY <1>1, <1>2, <1>4, <1>7 DEF StepTyped
<1>9. FilesTyped'
  <2>1. ASSUME NEW w \in {wal', torn}, NEW i \in 1 .. Len(w), w[i] # TornRecord
        PROVE  w[i].of \in 1 .. This
    <3>1. \A j \in 1 .. Len(wal) : wal[j] # TornRecord => wal[j].of \in 1 .. This
      BY <1>1, <1>6 DEF FilesTyped
    <3>2. CASE i \in 1 .. Len(wal)
      BY <1>2, <1>6, <2>1, <3>1, <3>2 DEF torn
    <3>3. CASE i = Len(wal) + 1
      BY <1>2, <1>4, <1>5, <1>6, <2>1, <3>3 DEF torn
    <3>4. Len(w) = Len(wal) + 1
      BY <1>2, <1>6 DEF torn
    <3> QED
      BY <1>6, <3>2, <3>3, <3>4
  <2>2. ASSUME NEW w \in walMaybe'
        PROVE  w \in Seq(Record) /\ \A i \in 1 .. Len(w) : w[i] # TornRecord => w[i].of \in 1 .. This
    <3>1. CASE w \in walMaybe
      BY <1>1, <3>1 DEF FilesTyped
    <3>2. CASE w \in {wal', torn}
      BY <1>6, <2>1, <3>2
    <3> QED
      BY <1>2, <3>1, <3>2
  <2> QED
    BY <1>1, <1>2, <1>7, <2>2 DEF FilesTyped
<1>10. Left' = Left /\ LeftWals' \subseteq LeftWals \cup {wal', torn} /\ wal \in LeftWals
  BY <1>1, <1>2, SameMain, NowLeft DEF LeftWals, MayFail
<1>11. Base' = Base /\ len <= Len(wal) /\ len <= Len(wal')
  <2>1. len \in Nat /\ len <= Len(wal)
    BY <1>1, <1>3 DEF StepTyped, IInv, WalSound
  <2> QED
    BY <1>2, <1>5, <1>6, <2>1, BeforeAppend DEF Base
<1>12. /\ Images(wal') = Images(wal) \cup {This} \X Chunk
       /\ Pending(torn) = Pending(wal)
       /\ r.more => Pending(wal') = Pending(wal)
       /\ ~r.more => Pending(wal') = Images(wal')
       /\ Pending(wal) \subseteq Pending(wal')
  <2>1. Images(wal') = Images(wal) \cup {This} \X Chunk
    BY <1>2, <1>5, <1>6, ImagesAppend
  <2>2. Pending(torn) = Pending(wal)
    BY <1>6, TornTail DEF torn
  <2>3. r.more => Pending(wal') = Pending(wal)
    BY <1>2, <1>5, <1>6, PendingAppendMore
  <2>4. ~r.more => Pending(wal') = Images(wal')
    BY <1>2, <1>5, <1>6, PendingAppendLast
  <2>5. Pending(wal) \subseteq Images(wal)
    BY <1>6, PendingInImages
  <2> QED
    BY <2>1, <2>2, <2>3, <2>4, <2>5
<1>13. WalSound'
  BY <1>2, <1>3, <1>10, <1>11 DEF IInv, WalSound
<1>14. WaitingSound'
  <2>1. ToWrite' = ToWrite
    BY <1>2 DEF ToWrite
  <2>2. ASSUME NEW p \in ToWrite, NEW w \in LeftWals'
        PROVE  HasImage(Pending(w), p)
    <3>1. HasImage(Pending(wal), p) /\ \A v \in LeftWals : HasImage(Pending(v), p)
      BY <1>3, <1>10 DEF IInv, WaitingSound
    <3>2. HasImage(Pending(wal'), p) /\ HasImage(Pending(torn), p)
      BY <1>12, <3>1, HasImageMore
    <3> QED
      BY <1>10, <3>1, <3>2
  <2> QED
    BY <1>2, <1>3, <1>10, <1>11, <2>1, <2>2 DEF IInv, WaitingSound
<1>15. Settles'
  BY <1>3 DEF Settles
<1>16. LogSound /\ NoneTorn(wal)
  BY <1>1 DEF IInv, LogSound
<1>17. Images(wal') = Pending(Base) \cup {This} \X (batch[This].pages \ logLeft')
  <2>1. Images(wal) = Pending(Base) \cup {This} \X (batch[This].pages \ logLeft)
    BY <1>1, <1>16 DEF LogSound
  <2>2. batch[This].pages \ logLeft' = (batch[This].pages \ logLeft) \cup Chunk
    BY <1>2, <1>4
  <2> QED
    BY <1>12, <2>1, <2>2
<1>18. LogSound'
  <2>1. NoneTorn(wal')
    BY <1>2, <1>5, <1>6, <1>16 DEF NoneTorn
  <2>2. logLeft' = {} => Pending(wal') = Images(wal')
    BY <1>2, <1>4, <1>5, <1>12
  <2>3. logLeft' \subseteq batch[This].pages
    BY <1>2, <1>4
  <2> QED
    BY <1>1, <1>2, <1>7, <1>11, <1>16, <1>17, <2>1, <2>2, <2>3 DEF LogSound
<1>19. Recovers'
  <2>1. ASSUME NEW w \in LeftWals'
        PROVE  \E c \in {current, doubt} : c # Nothing /\ Gives(Pending(w), Left, c)
    <3>1. \A v \in LeftWals : \E c \in {current, doubt} : c # Nothing /\ Gives(Pending(v), Left, c)
      BY AnyRecovers DEF IInv
    <3>2. CASE w = wal' /\ ~r.more
      <4>1. logLeft' = {}
        BY <1>2, <1>5, <3>2
      <4>2. Pending(w) = Pending(Base) \cup {This} \X batch[This].pages
        BY <1>12, <1>17, <3>2, <4>1
      <4>3. Gives(Pending(w), Left, doubt)
        BY <1>1, <4>2, DoubtGiven
      <4> QED
        BY <1>1, <1>16, <4>3 DEF LogSound
    <3>3. CASE Pending(w) = Pending(wal)
      BY <1>10, <3>1, <3>3
    <3> QED
      BY <1>10, <1>12, <3>1, <3>2, <3>3
  <2> QED
    BY <1>2, <1>3, <1>10, <2>1 DEF Recovers
<1>20. TodoSound'
  BY <1>1, <1>2 DEF IInv, TodoSound
<1>21. StepSound'
  BY <1>1, <1>2 DEF IInv, StepSound
<1>22. OnlyTailTorn'
  <2>1. \A w \in {wal', torn} : \A i \in 1 .. Len(w) : w[i] = TornRecord => i = Len(w)
    BY <1>2, <1>5, <1>6, <1>16, TornTail, TornAtTail DEF torn
  <2> QED
    BY <1>2, <2>1 DEF IInv, OnlyTailTorn
<1> QED
  BY <1>7, <1>8, <1>9, <1>13, <1>14, <1>15, <1>18, <1>19, <1>20, <1>21, <1>22 DEF IInv, Typed

(* A record flushed, and more of the batch to come.                        *)
LEMMA LogSyncMoreIInv == ASSUME IInv, LogSync, logLeft # {} PROVE IInv'
<1>1. Typed /\ FilesTyped /\ BatchesTyped /\ StepTyped /\ pc = "logged" /\ pc' = "log"
  BY DEF IInv, Typed, LogSync
<1>2. /\ walMaybe' = {wal}
      /\ UNCHANGED <<now, maybe, wal, batch, task, logLeft, todo, faults, failed>>
      /\ UNCHANGED <<len, waiting, image, current, doubt>>
  BY DEF LogSync
<1>3. Up /\ Logging /\ Up' /\ Logging'
  BY <1>1 DEF Up, Logging
<1>4. BatchesTyped' /\ This' = This
  BY <1>1, <1>2, BatchesStay
<1>5. FilesTyped' /\ StepTyped'
  BY <1>1, <1>2, <1>4 DEF FilesTyped, StepTyped
<1>6. Left' = Left /\ LeftWals' = {wal} /\ wal \in LeftWals /\ Base' = Base
  BY <1>1, <1>2, SameMain, NowLeft DEF LeftWals, MayFail, Base
<1>7. WalSound'
  BY <1>2, <1>3, <1>6 DEF IInv, WalSound
<1>8. WaitingSound'
  <2>1. ToWrite' = ToWrite
    BY <1>2 DEF ToWrite
  <2> QED
    BY <1>2, <1>3, <1>6, <2>1 DEF IInv, WaitingSound
<1>9. Settles'
  BY <1>3 DEF Settles
<1>10. LogSound'
  BY <1>1, <1>2, <1>4, <1>6 DEF IInv, LogSound
<1>11. Recovers'
  BY <1>2, <1>3, <1>6 DEF IInv, Recovers
<1>12. TodoSound' /\ StepSound' /\ OnlyTailTorn'
  BY <1>1, <1>2 DEF IInv, TodoSound, StepSound, OnlyTailTorn
<1> QED
  BY <1>4, <1>5, <1>7, <1>8, <1>9, <1>10, <1>11, <1>12 DEF IInv, Typed

(* The last record flushed: the batch is committed.                        *)
LEMMA LogSyncLastIInv == ASSUME IInv, LogSync, logLeft = {} PROVE IInv'
<1> USE PageIds
<1> DEFINE pages == batch[This].pages
<1>1. Typed /\ FilesTyped /\ BatchesTyped /\ StepTyped /\ pc = "logged" /\ LogSound
  BY DEF IInv, Typed, LogSync
<1>2. /\ walMaybe' = {wal} /\ current' = doubt /\ doubt' = Nothing /\ len' = Len(wal)
      /\ UNCHANGED <<now, maybe, wal, batch, task, logLeft, todo, faults, failed>>
      /\ IF batch[This].image THEN waiting' = {HEADER_PAGE} /\ image' = This
         ELSE waiting' = waiting \cup pages /\ image' = image
      /\ pc' \in {"checkpoint", "idle"} /\ (pc' = "idle" => task # "open")
  BY DEF LogSync
<1>3. Up /\ Up' /\ ~Logging' /\ This' = This
  BY <1>1, <1>2 DEF Up, Logging, This
<1>4. /\ NoneTorn(wal) /\ doubt # Nothing
      /\ This \in 1 .. MaxBatches
      /\ Pending(wal) = Images(wal)
      /\ \A p \in pages : p < doubt.count /\ doubt.page[p] = This
      /\ \A p \in Within(doubt) \ pages : p \in Within(current) /\ doubt.page[p] = current.page[p]
      /\ IF batch[This].image THEN Within(doubt) \subseteq pages
         ELSE doubt.count >= current.count
  BY <1>1 DEF LogSound, BatchesTyped
<1>5. Pending(wal) = Pending(Base) \cup {This} \X pages
  <2>1. Images(wal) = Pending(Base) \cup {This} \X (pages \ {})
    BY <1>1 DEF LogSound
  <2> QED
    BY <1>4, <2>1
<1>6. wal \in Seq(Record) /\ pages \subseteq PageId
  BY <1>1, <1>4 DEF FilesTyped, BatchesTyped
<1>7. Left' = Left /\ LeftWals' = {wal} /\ Base' = wal
  BY <1>1, <1>2, <1>6, SameMain, WholeLog DEF LeftWals, MayFail, Base
<1>8. Gives(Pending(wal), Left, doubt)
  BY <1>1, <1>5, DoubtGiven
<1>9. BatchesTyped'
  BY <1>1, <1>2, <1>4 DEF BatchesTyped, IsWhole, This
<1>10. FilesTyped'
  BY <1>1, <1>2, <1>3 DEF FilesTyped
<1>11. image' \in 0 .. This' /\ waiting' \subseteq PageId /\ len' \in Nat
  <2>1. waiting \subseteq PageId /\ image \in 0 .. This /\ This \in 0 .. This
    BY <1>1, <1>4 DEF StepTyped
  <2>2. CASE batch[This].image
    BY <1>2, <1>3, <1>6, <2>1, <2>2
  <2>3. CASE ~batch[This].image
    <3>1. waiting' = waiting \cup pages /\ image' = image /\ len' = Len(wal)
      BY <1>2, <2>3
    <3> HIDE DEF pages
    <3> QED
      BY <1>3, <1>6, <2>1, <3>1
  <2> QED
    BY <2>2, <2>3
<1>12. StepTyped'
  BY <1>1, <1>2, <1>11 DEF StepTyped
<1>13. WalSound'
  BY <1>2, <1>4, <1>6, <1>7, <1>8 DEF WalSound
<1>14. current.count \in Nat /\ doubt.count \in Nat
  BY <1>1, <1>4, CurrentThere
<1>15. WaitingSound
  BY DEF IInv
<1> HIDE DEF pages
<1>16. /\ ToWrite' \subseteq ToWrite \cup pages
       /\ pages \subseteq ToWrite'
       /\ \A p \in ToWrite' : p < doubt.count
       /\ image' # 0 => HEADER_PAGE \in waiting'
       /\ \A p \in ToWrite' \ waiting' : doubt.page[p] = image'
       /\ \A p \in Within(doubt) \ ToWrite' : Left[p] \subseteq {doubt.page[p]}
       /\ \A p \in ToWrite' : HasImage(Pending(wal), p)
  <2>1. \A p \in pages : HasImage(Pending(wal), p)
    <3>1. \A p \in pages : <<This, p>> \in Pending(wal)
      BY <1>5
    <3> QED
      BY <1>4, <3>1 DEF HasImage
  <2>2. CASE batch[This].image
    <3>1. HEADER_PAGE \in pages
      BY <1>4, <2>2 DEF Within
    <3>2. ToWrite' = {HEADER_PAGE} \cup pages
      BY <1>2, <1>3, <1>4, <2>2 DEF ToWrite, pages
    <3> QED
      BY <1>2, <1>4, <2>1, <2>2, <3>1, <3>2
  <2>3. CASE ~batch[This].image
    <3>1. ToWrite' = ToWrite \cup pages /\ waiting' = waiting \cup pages /\ image' = image
      BY <1>2, <2>3 DEF ToWrite
    <3>2. /\ \A p \in ToWrite : p < current.count
          /\ image # 0 => HEADER_PAGE \in waiting
          /\ \A p \in ToWrite \ waiting : current.page[p] = image
          /\ \A p \in Within(current) \ ToWrite : Left[p] \subseteq {current.page[p]}
          /\ \A p \in ToWrite : HasImage(Pending(Base), p)
      BY <1>3, <1>15 DEF WaitingSound
    <3>3. ToWrite \subseteq PageId
      BY <1>1 DEF ToWrite, StepTyped, BatchesTyped
    <3>4. \A p \in ToWrite : p < doubt.count
      BY <1>4, <1>14, <2>3, <3>2, <3>3
    <3>5. \A p \in ToWrite \ pages : doubt.page[p] = current.page[p]
      BY <1>4, <3>3, <3>4 DEF Within
    <3>6. \A p \in ToWrite : HasImage(Pending(wal), p)
      BY <1>5, <3>2, HasImageMore
    <3> QED
      BY <1>4, <2>1, <3>1, <3>2, <3>4, <3>5, <3>6
  <2> QED
    BY <2>2, <2>3
<1>17. WaitingSound'
  BY <1>2, <1>7, <1>16 DEF WaitingSound
<1>18. Settles'
  BY <1>2, <1>7 DEF Settles
<1>19. LogSound' /\ StepSound'
  BY <1>2 DEF LogSound, StepSound
<1>20. Recovers'
  <2>1. PICK c : c = doubt
    OBVIOUS
  <2>2. Reaches(c)'
    BY <1>2 DEF Reaches
  <2> QED
    BY <1>2, <1>3, <1>4, <1>7, <1>8, <2>1, <2>2 DEF Recovers
<1>21. TodoSound' /\ OnlyTailTorn'
  BY <1>1, <1>2 DEF IInv, TodoSound, OnlyTailTorn
<1> QED
  BY <1>9, <1>10, <1>12, <1>13, <1>17, <1>18, <1>19, <1>20, <1>21 DEF IInv, Typed

LEMMA LogFailsIInv == ASSUME OneWay, IInv, LogFails PROVE IInv'
<1> USE PageIds
<1> DEFINE torn == Append(wal, TornRecord)
<1>1. Typed /\ FilesTyped /\ BatchesTyped /\ StepTyped /\ pc \in {"log", "logged"} /\ LogSound
  BY DEF IInv, Typed, LogFails
<1>2. /\ UNCHANGED <<now, maybe, len, batch, waiting, image, todo, current, doubt>>
      /\ task' = "work" /\ logLeft' = {} /\ faults' \in 0 .. MaxFaults
      /\ \/ UNCHANGED <<wal, walMaybe>>
         \/ wal' = torn /\ walMaybe' = walMaybe \cup {torn}
  BY <1>1 DEF LogFails, Fault, StepTyped
<1>3. wal \in Seq(Record) /\ torn \in Seq(Record) /\ Pending(torn) = Pending(wal) /\ NoneTorn(wal)
  BY <1>1, TornTail DEF FilesTyped, LogSound
<1>4. BatchesTyped' /\ This' = This
  BY <1>1, <1>2, BatchesStay
<1>5. FilesTyped'
  <2>1. \A i \in 1 .. Len(torn) : torn[i] # TornRecord => torn[i].of \in 1 .. This
    <3>1. Len(torn) = Len(wal) + 1 /\ torn[Len(wal) + 1] = TornRecord
          /\ \A i \in 1 .. Len(wal) : torn[i] = wal[i]
      BY <1>3
    <3>2. \A i \in 1 .. Len(wal) : wal[i] # TornRecord => wal[i].of \in 1 .. This
      BY <1>1 DEF FilesTyped
    <3> HIDE DEF torn
    <3> QED
      BY <1>3, <3>1, <3>2
  <2> HIDE DEF torn
  <2> QED
    BY <1>1, <1>2, <1>3, <1>4, <2>1 DEF FilesTyped
<1>6. OnlyTailTorn'
  <2>1. \A i \in 1 .. Len(torn) : torn[i] = TornRecord => i = Len(torn)
    BY <1>3, TornTail, TornAtTail
  <2> HIDE DEF torn
  <2> QED
    BY <1>2, <2>1 DEF IInv, OnlyTailTorn
<1>7. /\ wal \in LeftWals /\ Pending(wal') = Pending(wal)
      /\ \A p \in PageId : now'[p] \in Left[p]
  BY <1>1, <1>2, <1>3, NowLeft
<1>8. CASE task = "open"
  <2>1. pc' = "down" /\ FailsBy("kill")
    BY <1>8 DEF LogFails
  <2>2. waiting' = {} /\ image' = 0 /\ todo' = {}
    BY <1>1, <1>2, <1>8 DEF IInv, StepSound, TodoSound
  <2>3. Left' = [p \in PageId |-> {now'[p]}] /\ LeftWals' = {wal'}
    BY <2>1, NoPowerAfterKill
  <2>4. /\ WalSound' /\ WaitingSound' /\ Settles' /\ LogSound'
        /\ Recovers' /\ TodoSound' /\ StepSound'
    BY <1>1, <1>2, <1>7, <2>1, <2>2, <2>3, Crashed DEF IInv
  <2>5. failed' \subseteq Failures
    BY <1>1, <2>1 DEF FailsBy, MayFail, StepTyped
  <2>6. StepTyped'
    BY <1>1, <1>2, <1>4, <2>1, <2>5 DEF StepTyped
  <2> QED
    BY <1>4, <1>5, <1>6, <2>4, <2>6 DEF IInv, Typed
<1>9. CASE task # "open"
  <2>1. pc' = "undo" /\ failed' = failed
    BY <1>9 DEF LogFails
  <2>2. Up /\ Logging /\ Up' /\ Logging'
    BY <1>1, <2>1 DEF Up, Logging
  <2>3. Left' = Left /\ LeftWals' \subseteq LeftWals \cup {wal'}
    BY <1>2, <2>1, SameMain DEF LeftWals, MayFail
  <2>4. len \in Nat /\ len <= Len(wal)
    BY <1>1, <2>2 DEF IInv, StepTyped, WalSound
  <2>5. Base' = Base /\ len <= Len(wal')
    BY <1>2, <1>3, <2>4, BeforeAppend, TornTail DEF Base
  <2> HIDE DEF torn
  <2>6. StepTyped'
    BY <1>1, <1>2, <1>4, <2>1 DEF StepTyped
  <2>7. WalSound'
    BY <1>2, <2>2, <2>3, <2>5 DEF IInv, WalSound
  <2>8. WaitingSound'
    <3>1. ToWrite' = ToWrite
      BY <1>2 DEF ToWrite
    <3> QED
      BY <1>2, <1>7, <2>2, <2>3, <2>5, <3>1 DEF IInv, WaitingSound
  <2>9. Recovers'
    <3>1. \A v \in LeftWals : \E c \in {current, doubt} : c # Nothing /\ Gives(Pending(v), Left, c)
      BY AnyRecovers DEF IInv
    <3> QED
      BY <1>2, <1>7, <2>2, <2>3, <3>1 DEF Recovers
  <2>10. Settles' /\ LogSound' /\ StepSound'
    BY <1>2, <2>1, <2>2 DEF Settles, LogSound, StepSound
  <2>11. TodoSound'
    BY <1>1, <1>2 DEF IInv, TodoSound
  <2> QED
    BY <1>4, <1>5, <1>6, <2>6, <2>7, <2>8, <2>9, <2>10, <2>11 DEF IInv, Typed
<1> QED
  BY <1>8, <1>9

LEMMA UndoCutIInv == ASSUME IInv, UndoCut PROVE IInv'
<1> USE PageIds
<1>1. Typed /\ FilesTyped /\ BatchesTyped /\ StepTyped /\ pc = "undo" /\ pc' = "undone"
  BY DEF IInv, Typed, UndoCut
<1>2. /\ wal' = Base /\ walMaybe' = walMaybe \cup {Base}
      /\ UNCHANGED <<now, maybe, len, batch, task, logLeft, waiting, image,
                   todo, current, doubt, faults, failed>>
  BY DEF UndoCut, Base
<1>3. Up /\ Logging /\ Up' /\ Logging'
  BY <1>1 DEF Up, Logging
<1>4. /\ len \in Nat /\ len <= Len(wal) /\ NoneTorn(Base)
      /\ Gives(Pending(Base), Left, current) /\ wal \in Seq(Record)
  BY <1>1, <1>3 DEF IInv, StepTyped, WalSound, FilesTyped
<1>5. Base \in Seq(Record) /\ Len(Base) = len /\ \A i \in 1 .. len : Base[i] = wal[i]
  BY <1>4 DEF Base
<1>6. Base' = Base
  <2>1. SubSeq(Base, 1, Len(Base)) = Base
    BY <1>5, WholeLog
  <2>2. Base' = SubSeq(wal', 1, len')
    BY DEF Base
  <2> QED
    BY <1>2, <1>5, <2>1, <2>2
<1>7. BatchesTyped' /\ This' = This
  BY <1>1, <1>2, BatchesStay
<1>8. FilesTyped'
  <2>1. \A i \in 1 .. Len(Base) : Base[i] # TornRecord => Base[i].of \in 1 .. This
    BY <1>1, <1>4, <1>5 DEF FilesTyped
  <2> QED
    BY <1>1, <1>2, <1>5, <1>7, <2>1 DEF FilesTyped
<1>9. StepTyped'
  BY <1>1, <1>2, <1>7 DEF StepTyped
<1>10. Left' = Left /\ LeftWals' \subseteq LeftWals \cup {Base}
  BY <1>2, SameMain DEF LeftWals, MayFail
<1>11. WalSound'
  BY <1>2, <1>3, <1>4, <1>5, <1>6, <1>10 DEF IInv, WalSound
<1>12. WaitingSound'
  <2>1. ToWrite' = ToWrite
    BY <1>2 DEF ToWrite
  <2> QED
    BY <1>2, <1>3, <1>6, <1>10, <2>1 DEF IInv, WaitingSound
<1>13. Recovers'
  <2>1. current # Nothing
    BY <1>1, CurrentThere
  <2> QED
    BY <1>2, <1>3, <1>4, <1>10, <2>1 DEF IInv, Recovers
<1>14. Settles' /\ LogSound' /\ TodoSound'
  BY <1>1, <1>2, <1>3 DEF IInv, Settles, LogSound, TodoSound
<1>15. StepSound'
  BY <1>1, <1>2, <1>5 DEF IInv, StepSound
<1>16. OnlyTailTorn'
  BY <1>2, <1>4 DEF IInv, OnlyTailTorn, NoneTorn
<1> QED
  BY <1>7, <1>8, <1>9, <1>11, <1>12, <1>13, <1>14, <1>15, <1>16 DEF IInv, Typed

LEMMA UndoSyncIInv == ASSUME IInv, UndoSync PROVE IInv'
<1>1. Typed /\ FilesTyped /\ BatchesTyped /\ StepTyped /\ pc = "undone" /\ pc' = "idle"
  BY DEF IInv, Typed, UndoSync
<1>2. /\ walMaybe' = {wal} /\ doubt' = Nothing
      /\ UNCHANGED <<now, maybe, wal, len, batch, task, logLeft, waiting,
                   image, todo, current, faults, failed>>
  BY DEF UndoSync
<1>3. Up /\ Up' /\ ~Logging'
  BY <1>1 DEF Up, Logging
<1>4. len = Len(wal) /\ wal \in Seq(Record) /\ wal \in LeftWals
  BY <1>1, NowLeft DEF IInv, StepSound, FilesTyped
<1>5. Left' = Left /\ LeftWals' = {wal} /\ Base = wal /\ Base' = wal
  BY <1>2, <1>4, SameMain, WholeLog DEF LeftWals, MayFail, Base
<1>6. BatchesTyped' /\ This' = This
  BY <1>1, <1>2 DEF BatchesTyped, IsWhole, This
<1>7. FilesTyped' /\ StepTyped'
  BY <1>1, <1>2, <1>6 DEF FilesTyped, StepTyped
<1>8. WalSound'
  BY <1>2, <1>3, <1>5 DEF IInv, WalSound
<1>9. WaitingSound'
  <2>1. ToWrite' = ToWrite
    BY <1>2 DEF ToWrite
  <2> QED
    BY <1>2, <1>3, <1>4, <1>5, <2>1 DEF IInv, WaitingSound
<1>10. Recovers'
  <2>1. Gives(Pending(wal), Left, current)
    BY <1>3, <1>5 DEF IInv, WalSound
  <2>2. PICK c : c = current
    OBVIOUS
  <2>3. Reaches(c)'
    BY <1>1 DEF Reaches
  <2>4. c # Nothing
    BY <1>1, <2>2, CurrentThere
  <2> QED
    BY <1>2, <1>3, <1>5, <2>1, <2>2, <2>3, <2>4 DEF Recovers
<1>11. Settles'
  BY <1>2, <1>3, <1>4, <1>5 DEF Settles
<1>12. LogSound' /\ TodoSound' /\ StepSound' /\ OnlyTailTorn'
  BY <1>1, <1>2 DEF IInv, LogSound, TodoSound, StepSound, OnlyTailTorn
<1> QED
  BY <1>6, <1>7, <1>8, <1>9, <1>10, <1>11, <1>12 DEF IInv, Typed

LEMMA UndoFailsIInv == ASSUME IInv, UndoFails PROVE IInv'
<1>1. Typed /\ FilesTyped /\ BatchesTyped /\ StepTyped /\ pc \in {"undo", "undone"} /\ pc' = "poisoned"
  BY DEF IInv, Typed, UndoFails
<1>2. /\ UNCHANGED <<now, maybe, wal, walMaybe, len, batch, task, logLeft, waiting, image, todo,
                   current, doubt, failed>>
      /\ faults' \in 0 .. MaxFaults
  BY <1>1, PageIds DEF UndoFails, files, Fault, StepTyped
<1>3. ~Up' /\ Logging /\ Logging'
  BY <1>1 DEF Up, Logging
<1>4. Left' = Left /\ LeftWals' = LeftWals
  BY <1>2, SameLeft
<1>5. BatchesTyped' /\ This' = This
  BY <1>1, <1>2, BatchesStay
<1>6. FilesTyped' /\ StepTyped'
  BY <1>1, <1>2, <1>5 DEF FilesTyped, StepTyped
<1>7. WalSound' /\ WaitingSound' /\ Settles'
  BY <1>3 DEF WalSound, WaitingSound, Settles
<1>8. LogSound' /\ StepSound' /\ OnlyTailTorn'
  BY <1>1, <1>2 DEF IInv, LogSound, StepSound, OnlyTailTorn
<1>9. TodoSound' /\ Recovers'
  BY <1>1, <1>2, <1>3, <1>4 DEF IInv, TodoSound, Recovers
<1> QED
  BY <1>5, <1>6, <1>7, <1>8, <1>9 DEF IInv, Typed

-----------------------------------------------------------------------------
(* Writes to the main file.                                                *)

(* A checkpoint begins, by itself or for a close.                          *)
LEMMA ToFileIInv ==
    ASSUME IInv, pc \in {"idle", "checkpoint"}, ToFile, task' \in {task, "close"}
    PROVE  IInv'
<1> USE PageIds
<1> DEFINE A == IF image = 0 THEN {} ELSE {<<0, p, image>> : p \in batch[image].pages \ {HEADER_PAGE}}
           B == {<<1, p, current.page[p]>> : p \in waiting}
<1>1. Typed /\ FilesTyped /\ BatchesTyped /\ StepTyped /\ Up /\ ~Logging /\ ~Logging'
  BY DEF IInv, Typed, Up, Logging, ToFile
<1>2. /\ todo' = A \cup B
      /\ pc' = IF todo' = {} THEN "flushed" ELSE "write"
      /\ UNCHANGED <<now, maybe, wal, walMaybe, len, batch, logLeft, waiting, image, current, doubt,
                   faults, failed>>
  BY DEF ToFile, files
<1>3. /\ \A p \in ToWrite : p < current.count
      /\ image # 0 => HEADER_PAGE \in waiting
      /\ \A p \in ToWrite \ waiting : current.page[p] = image
      /\ \A p \in Within(current) \ ToWrite : Left[p] \subseteq {current.page[p]}
      /\ \A p \in ToWrite : \A w \in LeftWals : HasImage(Pending(w), p)
  BY <1>1 DEF IInv, WaitingSound
<1>4. ToWrite \subseteq PageId /\ waiting \subseteq ToWrite
      /\ (image # 0 => batch[image].pages \subseteq ToWrite)
      /\ (image = 0 => ToWrite = waiting)
  BY <1>1 DEF ToWrite, StepTyped, BatchesTyped
<1>5. Left' = Left /\ LeftWals' = LeftWals /\ Base' = Base /\ ToWrite' = ToWrite
  BY <1>2, SameLeft DEF ToWrite, Base
<1>6. \A p \in PageId : p < current.count => current.page[p] \in 0 .. MaxBatches
  BY <1>1 DEF BatchesTyped, IsWhole
<1>7. ToWrite # {} => MaxBatches >= 1
  <2> SUFFICES ASSUME NEW p \in ToWrite PROVE MaxBatches >= 1
    OBVIOUS
  <2>1. HasImage(Pending(wal), p)
    BY <1>1, <1>3, NowLeft
  <2>2. PICK b \in 1 .. MaxBatches : TRUE
    BY <2>1 DEF HasImage
  <2> QED
    BY <2>2
<1>8. image \in 0 .. MaxBatches
  BY <1>1 DEF StepTyped, BatchesTyped
<1>9. \A t \in todo' : /\ t = <<t[1], t[2], t[3]>> /\ t[2] \in ToWrite
                       /\ \/ t[1] = 0 /\ t[3] = image
                          \/ t[1] = 1 /\ t[3] = current.page[t[2]] /\ t[2] \in waiting
  BY <1>2, <1>4
<1>10. \A t \in todo' : t[1] \in 0 .. MaxBatches /\ t[3] \in 0 .. MaxBatches /\ t[2] \in PageId
  BY <1>3, <1>4, <1>6, <1>7, <1>8, <1>9
<1>11. todo' \in SUBSET ((0 .. MaxBatches) \X PageId \X (0 .. MaxBatches))
  BY <1>9, <1>10
<1>12. \A p \in waiting : <<1, p, current.page[p]>> \in todo'
  BY <1>2
<1>13. \A p \in ToWrite \ waiting : <<0, p, current.page[p]>> \in todo'
  <2> SUFFICES ASSUME NEW p \in ToWrite \ waiting PROVE <<0, p, current.page[p]>> \in todo'
    OBVIOUS
  <2>1. image # 0 /\ p \in batch[image].pages /\ p # HEADER_PAGE /\ current.page[p] = image
    BY <1>3 DEF ToWrite
  <2> QED
    BY <1>2, <2>1
<1> HIDE DEF A, B
<1>14. BatchesTyped' /\ This' = This
  BY <1>1, <1>2, BatchesStay
<1>15. FilesTyped' /\ StepTyped'
  BY <1>1, <1>2, <1>11, <1>14 DEF FilesTyped, StepTyped
<1>16. WalSound' /\ WaitingSound'
  BY <1>1, <1>2, <1>5 DEF IInv, WalSound, WaitingSound
<1>17. Settles' /\ LogSound'
  BY <1>1, <1>2, <1>5 DEF IInv, Settles, LogSound
<1>18. TodoSound'
  <2>1. \A t, u \in todo' : t[1] = u[1] /\ t[2] = u[2] => t = u
    BY <1>9
  <2> QED
    BY <1>2, <1>3, <1>5, <1>9, <2>1 DEF TodoSound
<1>19. todo' = {} => ToWrite = {} /\ waiting = {} /\ image = 0
  BY <1>3, <1>4, <1>12, <1>13
<1>20. StepSound' /\ OnlyTailTorn'
  BY <1>1, <1>2, <1>19 DEF IInv, StepSound, OnlyTailTorn
<1>21. Recovers'
  <2>1. PICK c : c = current
    OBVIOUS
  <2>2. c # Nothing /\ \A w \in LeftWals : Gives(Pending(w), Left, c)
    BY <1>1, <2>1 DEF IInv, Recovers, Settles
  <2>3. ASSUME NEW p \in Within(c) PROVE LeavesOn(p, c.page[p])'
    <3>1. p \in PageId /\ now[p] \in Left[p]
      BY <1>1, NowLeft DEF Within
    <3>2. CASE p \in waiting
      <4>1. \A t \in todo' : t[1] <= 1
        BY <1>9
      <4> QED
        BY <1>12, <2>1, <3>2, <4>1 DEF LeavesOn
    <3>3. CASE p \in ToWrite \ waiting
      <4>1. \A t \in todo' : t[2] = p => t[1] <= 0
        BY <1>9, <3>3
      <4> QED
        BY <1>13, <2>1, <3>3, <4>1 DEF LeavesOn
    <3>4. CASE p \notin ToWrite
      <4>1. now[p] = c.page[p]
        BY <1>3, <2>1, <3>1, <3>4
      <4> QED
        BY <1>2, <1>9, <3>4, <4>1 DEF LeavesOn
    <3> QED
      BY <3>2, <3>3, <3>4
  <2>4. todo' = {} => \A p \in Within(c) : Left'[p] \subseteq {c.page[p]}
    BY <1>3, <1>5, <1>19, <2>1
  <2>5. Reaches(c)'
    BY <1>2, <2>3, <2>4 DEF Reaches
  <2> QED
    BY <1>1, <1>2, <1>5, <2>1, <2>2, <2>5 DEF Recovers
<1> QED
  BY <1>14, <1>15, <1>16, <1>17, <1>18, <1>20, <1>21 DEF IInv, Typed

LEMMA CheckpointIInv == ASSUME IInv, CheckpointBegin \/ Close PROVE IInv'
BY ToFileIInv DEF CheckpointBegin, Close

(* A page with an image in the WAL may become anything.                    *)
LEMMA PageChanged ==
    ASSUME FilesTyped, NEW q \in PageId, NEW v \in 0 .. MaxBatches, NEW x \in {v, Torn},
           now' = [now EXCEPT ![q] = x],
           maybe' = [maybe EXCEPT ![q] = @ \cup {v, Torn}],
           UNCHANGED <<wal, walMaybe, failed, batch>>
    PROVE  /\ FilesTyped' /\ LeftWals' = LeftWals
           /\ \A p \in PageId \ {q} : Left'[p] = Left[p] /\ now'[p] = now[p]
           /\ now'[q] = x
           /\ \A I, c : HasImage(I, q) /\ Gives(I, Left, c) => Gives(I, Left', c)
<1>1. \A p \in PageId \ {q} : now'[p] = now[p] /\ maybe'[p] = maybe[p]
  BY DEF FilesTyped
<1>2. now'[q] = x /\ maybe'[q] = maybe[q] \cup {v, Torn}
  BY DEF FilesTyped
<1>3. now' \in [PageId -> 0 .. MaxBatches \cup {Torn, Absent}]
      /\ maybe' \in [PageId -> SUBSET (0 .. MaxBatches \cup {Torn, Absent})]
  BY DEF FilesTyped
<1>4. \A p \in PageId : now'[p] \in maybe'[p]
  BY <1>1, <1>2 DEF FilesTyped
<1>5. FilesTyped'
  BY <1>3, <1>4 DEF FilesTyped, This
<1>6. \A p \in PageId \ {q} : Left'[p] = Left[p]
  BY <1>1 DEF Left, MayFail
<1>7. ASSUME NEW I, NEW c, HasImage(I, q), Gives(I, Left, c) PROVE Gives(I, Left', c)
  <2>1. \A p \in Within(c) : HasImage(I, p) \/ Left'[p] \subseteq Left[p]
    BY <1>6, <1>7 DEF Within
  <2> QED
    BY <1>7, <2>1, GivesMore
<1> QED
  BY <1>1, <1>2, <1>5, <1>6, <1>7, SameWals

LEMMA TodoTyped ==
    ASSUME StepTyped
    PROVE  \A u \in todo : u[1] \in Nat /\ u[2] \in PageId /\ u[2] \in Nat /\ u[3] \in 0 .. MaxBatches
<1> SUFFICES ASSUME NEW u \in todo
             PROVE  u[1] \in Nat /\ u[2] \in PageId /\ u[2] \in Nat /\ u[3] \in 0 .. MaxBatches
  OBVIOUS
<1>1. u \in (0 .. MaxBatches) \X PageId \X (0 .. MaxBatches)
  BY DEF StepTyped
<1>2. u[1] \in 0 .. MaxBatches /\ u[2] \in PageId /\ u[3] \in 0 .. MaxBatches
  BY <1>1
<1>3. 0 .. MaxBatches \subseteq Nat /\ PageId \subseteq Nat
  BY PageIds
<1> QED
  BY <1>2, <1>3, Zenon

LEMMA WritePageIInv == ASSUME IInv, NEW t \in todo, WritePage(t) PROVE IInv'
<1> USE PageIds
<1> DEFINE q == t[2]
<1>1. Typed /\ FilesTyped /\ BatchesTyped /\ StepTyped /\ pc \in {"write", "restore"}
  BY DEF IInv, Typed, WritePage
<1>2. /\ todo' = todo \ {t}
      /\ UNCHANGED <<wal, walMaybe, len, batch, pc, task, logLeft, waiting,
                   image, current, doubt, faults, failed>>
  BY DEF WritePage
<1>3. q \in PageId /\ t[3] \in 0 .. MaxBatches /\ \A u \in todo : u[1] \in Nat /\ u[2] \in Nat
  BY <1>1, TodoTyped
<1>4. /\ FilesTyped' /\ LeftWals' = LeftWals
      /\ \A p \in PageId \ {q} : Left'[p] = Left[p] /\ now'[p] = now[p]
      /\ now'[q] = t[3]
      /\ \A I, c : HasImage(I, q) /\ Gives(I, Left, c) => Gives(I, Left', c)
  BY <1>1, <1>2, <1>3, PageChanged DEF WritePage
<1>5. /\ \A w \in LeftWals : HasImage(Pending(w), q)
      /\ pc = "write" => q \in ToWrite
      /\ \A u \in todo : u[1] = t[1] /\ u[2] = q => u = t
  BY DEF IInv, TodoSound
<1> HIDE DEF q
<1>6. BatchesTyped' /\ This' = This
  BY <1>1, <1>2, BatchesStay
<1>7. StepTyped'
  BY <1>1, <1>2, <1>6 DEF StepTyped
<1>8. ~Logging /\ ~Logging' /\ (Up <=> pc = "write") /\ (Up' <=> Up)
  BY <1>1, <1>2 DEF Logging, Up
<1>9. ToWrite' = ToWrite /\ Base' = Base
  BY <1>2 DEF ToWrite, Base
<1>10. Up => Base = wal /\ wal \in LeftWals
  BY <1>1, <1>8, NowLeft, WholeLog DEF IInv, Settles, Base, FilesTyped
<1>11. WalSound'
  <2>1. Up => Gives(Pending(Base), Left', current)
    BY <1>4, <1>5, <1>10 DEF IInv, WalSound
  <2> QED
    BY <1>2, <1>8, <1>9, <2>1 DEF IInv, WalSound
<1>12. WaitingSound'
  <2>1. Up => \A p \in Within(current) \ ToWrite : Left'[p] \subseteq {current.page[p]}
    <3>1. Up => \A p \in Within(current) \ ToWrite : p \in PageId \ {q}
      BY <1>5, <1>8 DEF Within
    <3> QED
      BY <1>4, <3>1 DEF IInv, WaitingSound
  <2> QED
    BY <1>2, <1>4, <1>8, <1>9, <2>1 DEF IInv, WaitingSound
<1>13. Settles' /\ LogSound' /\ StepSound' /\ OnlyTailTorn'
  BY <1>1, <1>2, <1>4, <1>8 DEF IInv, Settles, LogSound, StepSound, OnlyTailTorn
<1>14. TodoSound'
  BY <1>1, <1>2, <1>4, <1>9 DEF IInv, TodoSound
<1>15. Recovers'
  <2>1. PICK c \in {current, doubt} :
            /\ c # Nothing
            /\ \A w \in LeftWals : Gives(Pending(w), Left, c)
            /\ Reaches(c)
    BY <1>8 DEF IInv, Recovers
  <2>2. \A w \in LeftWals' : Gives(Pending(w), Left', c)
    BY <1>4, <1>5, <2>1
  <2>3. ASSUME NEW p \in Within(c) PROVE LeavesOn(p, c.page[p])'
    <3>1. LeavesOn(p, c.page[p]) /\ p \in PageId
      BY <1>1, <2>1 DEF Reaches, Within
    <3>2. CASE p # q
      <4>1. now'[p] = now[p] /\ \A u \in todo : u[2] = p => u \in todo'
        BY <1>2, <1>4, <3>1, <3>2 DEF q
      <4> QED
        BY <1>2, <3>1, <4>1 DEF LeavesOn
    <3>3. CASE p = q
      <4>1. PICK u \in todo : /\ u[2] = p /\ u[3] = c.page[p]
                              /\ \A s \in todo : s[2] = p => s[1] <= u[1]
        BY <3>1, <3>3 DEF LeavesOn, q
      <4>2. CASE u # t
        BY <1>2, <4>1, <4>2 DEF LeavesOn
      <4>3. CASE u = t
        <5>1. now'[p] = c.page[p]
          BY <1>4, <3>3, <4>1, <4>3
        <5>2. ASSUME NEW s \in todo', s[2] = p PROVE FALSE
          <6>1. s \in todo /\ s # t /\ s[1] <= t[1]
            BY <1>2, <4>1, <4>3, <5>2
          <6>2. t[1] < s[1] \/ t[1] = s[1]
            BY <6>1 DEF WritePage, IsNext
          <6>3. s[1] = t[1] /\ s[2] = q
            BY <1>3, <3>3, <5>2, <6>1, <6>2
          <6> QED
            BY <1>5, <6>1, <6>3
        <5> QED
          BY <5>1, <5>2 DEF LeavesOn
      <4> QED
        BY <4>2, <4>3
    <3> QED
      BY <3>2, <3>3
  <2>4. Reaches(c)'
    BY <1>1, <1>2, <2>3 DEF Reaches
  <2> QED
    BY <1>2, <1>8, <2>1, <2>2, <2>4 DEF Recovers
<1> QED
  BY <1>4, <1>6, <1>7, <1>11, <1>12, <1>13, <1>14, <1>15 DEF IInv, Typed

(* What a checkpoint that fails leaves, whatever became of the page it     *)
(* was writing.                                                            *)
LEMMA GivenUpIInv ==
    ASSUME IInv, pc \in {"write", "restore", "cut", "flushed", "emptied"}, GivenUp,
           FilesTyped', LeftWals' = LeftWals, todo' = {}, faults' \in 0 .. MaxFaults,
           UNCHANGED <<wal, walMaybe, len, batch, logLeft, current, doubt, failed>>,
           \A w \in LeftWals : \A c : Gives(Pending(w), Left, c) => Gives(Pending(w), Left', c),
           Up => \A p \in Within(current) \ ToWrite : Left'[p] = Left[p]
    PROVE  IInv'
<1>1. Typed /\ FilesTyped /\ BatchesTyped /\ StepTyped /\ ~Logging
  BY DEF IInv, Typed, Logging
<1>2. BatchesTyped' /\ This' = This
  BY <1>1, BatchesStay
<1>3. /\ pc' \in {"idle", "down"} /\ task' = "work"
      /\ IF task = "work" THEN pc' = "idle" /\ waiting' = waiting /\ image' = image
         ELSE pc' = "down" /\ waiting' = {} /\ image' = 0
  BY DEF GivenUp
<1>4. StepTyped'
  BY <1>1, <1>2, <1>3 DEF StepTyped, BatchesTyped
<1>5. ~Logging' /\ (Up' <=> task = "work") /\ (task = "work" => Up)
  BY <1>3 DEF Logging, Up, IInv, StepSound
<1>6. ASSUME NEW c, NEW w \in LeftWals, Gives(Pending(w), Left, c) PROVE Gives(Pending(w), Left', c)
  BY <1>6
<1>7. Up => Base = wal /\ wal \in LeftWals /\ Base' = wal
  BY <1>1, NowLeft, WholeLog DEF IInv, Settles, Base, FilesTyped
<1>8. WalSound'
  <2>1. Up => Gives(Pending(Base), Left', current)
    BY <1>6, <1>7 DEF IInv, WalSound
  <2> QED
    BY <1>5, <1>7, <2>1 DEF IInv, WalSound
<1>9. WaitingSound'
  <2>1. task = "work" => ToWrite' = ToWrite
    BY <1>3 DEF ToWrite
  <2> QED
    BY <1>3, <1>5, <1>7, <2>1 DEF IInv, WaitingSound
<1>10. Settles'
  BY <1>1, <1>5 DEF IInv, Settles
<1>11. LogSound' /\ TodoSound' /\ StepSound' /\ OnlyTailTorn'
  BY <1>3 DEF IInv, LogSound, TodoSound, StepSound, OnlyTailTorn
<1>12. Recovers'
  <2>1. PICK c \in {current, doubt} : c # Nothing /\ \A w \in LeftWals : Gives(Pending(w), Left, c)
    BY <1>1 DEF IInv, Recovers
  <2>2. \A w \in LeftWals' : Gives(Pending(w), Left', c)
    BY <1>6, <2>1
  <2>3. Reaches(c)'
    BY <1>3 DEF Reaches
  <2> QED
    BY <1>5, <2>1, <2>2, <2>3 DEF Recovers
<1> QED
  BY <1>2, <1>4, <1>8, <1>9, <1>10, <1>11, <1>12 DEF IInv, Typed

LEMMA FileFailsIInv == ASSUME IInv, FileFails PROVE IInv'
<1> USE PageIds
<1>1. Typed /\ FilesTyped /\ BatchesTyped /\ StepTyped
  BY DEF IInv, Typed
<1>2. /\ pc \in {"write", "restore", "cut", "flushed", "emptied"} /\ GivenUp /\ todo' = {}
      /\ UNCHANGED <<wal, walMaybe, len, batch, logLeft, current, doubt, failed>>
      /\ pc \in {"write", "restore", "cut"} /\ faults' \in 0 .. MaxFaults
  BY <1>1 DEF FileFails, Fault, StepTyped
<1>3. CASE UNCHANGED <<now, maybe>>
  <2>1. Left' = Left /\ LeftWals' = LeftWals
    BY <1>2, <1>3, SameLeft
  <2>2. FilesTyped'
    BY <1>1, <1>2, <1>3 DEF FilesTyped, This
  <2> QED
    BY <1>2, <2>1, <2>2, GivenUpIInv
<1>4. ASSUME NEW t \in todo, now' = [now EXCEPT ![t[2]] = Torn],
             maybe' = [maybe EXCEPT ![t[2]] = @ \cup {t[3], Torn}]
      PROVE  IInv'
  <2> DEFINE q == t[2]
             v == t[3]
  <2>1. q \in PageId /\ v \in 0 .. MaxBatches
    BY <1>1, TodoTyped
  <2>2. /\ \A w \in LeftWals : HasImage(Pending(w), q)
        /\ pc = "write" => q \in ToWrite
        /\ pc \in {"restore", "write"}
    BY DEF IInv, TodoSound
  <2>3. now' = [now EXCEPT ![q] = Torn] /\ maybe' = [maybe EXCEPT ![q] = @ \cup {v, Torn}]
    BY <1>4
  <2> HIDE DEF q, v
  <2>4. /\ FilesTyped' /\ LeftWals' = LeftWals
        /\ \A p \in PageId \ {q} : Left'[p] = Left[p] /\ now'[p] = now[p]
        /\ \A I, c : HasImage(I, q) /\ Gives(I, Left, c) => Gives(I, Left', c)
    BY <1>1, <1>2, <2>1, <2>3, PageChanged
  <2>5. Up => \A p \in Within(current) \ ToWrite : Left'[p] = Left[p]
    <3>1. Up => pc = "write"
      BY <2>2 DEF Up
    <3> QED
      BY <2>2, <2>4, <3>1 DEF Within
  <2>6. \A w \in LeftWals : \A c : Gives(Pending(w), Left, c) => Gives(Pending(w), Left', c)
    BY <2>2, <2>4
  <2> QED
    BY <1>2, <2>4, <2>5, <2>6, GivenUpIInv
<1> QED
  BY <1>3, <1>4 DEF FileFails

LEMMA WalFailsIInv == ASSUME IInv, WalFails PROVE IInv'
<1>1. Typed /\ FilesTyped /\ BatchesTyped /\ StepTyped
  BY DEF IInv, Typed
<1>2. /\ pc \in {"flushed", "emptied"} /\ GivenUp
      /\ UNCHANGED <<now, maybe, wal, walMaybe, len, batch, logLeft, todo, current, doubt, failed>>
      /\ faults' \in 0 .. MaxFaults
  BY <1>1, PageIds DEF WalFails, files, Fault, StepTyped
<1>3. Left' = Left /\ LeftWals' = LeftWals /\ FilesTyped'
  BY <1>1, <1>2, SameLeft DEF FilesTyped, This
<1>4. todo' = {}
  BY <1>2 DEF IInv, TodoSound
<1> QED
  BY <1>2, <1>3, <1>4, GivenUpIInv

(* The file cut to the pages of what it is made to be.                     *)
LEMMA CutFileIInv == ASSUME IInv, CutFile PROVE IInv'
<1> USE PageIds
<1>1. Typed /\ FilesTyped /\ BatchesTyped /\ StepTyped /\ pc \in {"write", "restore"}
      /\ todo = {} /\ pc' = "cut"
  BY DEF IInv, Typed, CutFile
<1>2. UNCHANGED <<wal, walMaybe, len, batch, task, logLeft, waiting,
                   image, todo, current, doubt, faults, failed>>
  BY DEF CutFile
<1>3. ~Logging /\ ~Logging' /\ (Up <=> pc = "write") /\ (Up' => Up)
  BY <1>1, <1>2 DEF Logging, Up, IInv, StepSound
<1>4. PICK c \in {current, doubt} :
          /\ c # Nothing
          /\ \A w \in LeftWals : Gives(Pending(w), Left, c)
          /\ Reaches(c)
  BY <1>3 DEF IInv, Recovers
<1>5. IsWhole(c) /\ (Up => c = current) /\ c.count \in 0 .. MaxPages
  BY <1>1, <1>3, <1>4 DEF BatchesTyped, IInv, Settles, IsWhole, Contents
<1>6. \A p \in Within(c) : now[p] = c.page[p]
  BY <1>1, <1>4 DEF Reaches, LeavesOn
<1>7. HeaderCount(now) = c.count
  <2>1. now[HEADER_PAGE] = c.page[HEADER_PAGE]
    BY <1>6 DEF Within
  <2>2. CASE c.count = 0
    BY <1>5, <2>1, <2>2 DEF HeaderCount, IsWhole, HEADER_PAGE
  <2>3. CASE c.count > 0
    <3>1. c.page[HEADER_PAGE] \in 0 .. This /\ batch[c.page[HEADER_PAGE]].count = c.count
      BY <1>5, <2>3 DEF IsWhole, HEADER_PAGE
    <3>2. c.page[HEADER_PAGE] \notin {Torn, Absent}
      BY <1>1, <3>1 DEF BatchesTyped, Torn, Absent
    <3> QED
      BY <2>1, <3>1, <3>2 DEF HeaderCount
  <2> QED
    BY <1>5, <2>2, <2>3
<1> DEFINE cut == {p \in PageId : p >= c.count /\ now[p] # Absent}
<1>8. /\ now' = [p \in PageId |-> IF p \in cut THEN Absent ELSE now[p]]
      /\ maybe' = [p \in PageId |-> IF p \in cut THEN maybe[p] \cup {Absent} ELSE maybe[p]]
  BY <1>1, <1>3, <1>5, <1>7 DEF CutFile
<1>9. \A p \in Within(c) : p \in PageId /\ p \notin cut
  BY <1>5, <1>6 DEF Within, IsWhole
<1> HIDE DEF cut
<1>10. \A p \in Within(c) : now'[p] = now[p] /\ Left'[p] = Left[p]
  BY <1>2, <1>8, <1>9 DEF Left, MayFail
<1>11. LeftWals' = LeftWals
  BY <1>2, SameWals
<1>12. \A w \in LeftWals : Gives(Pending(w), Left', c)
  BY <1>4, <1>10, GivesMore
<1>13. BatchesTyped' /\ This' = This
  BY <1>1, <1>2, BatchesStay
<1>14. FilesTyped'
  <2>1. now' \in [PageId -> 0 .. MaxBatches \cup {Torn, Absent}]
        /\ maybe' \in [PageId -> SUBSET (0 .. MaxBatches \cup {Torn, Absent})]
    BY <1>1, <1>8 DEF FilesTyped
  <2>2. \A p \in PageId : now'[p] \in maybe'[p]
    BY <1>1, <1>8 DEF FilesTyped
  <2> QED
    BY <1>1, <1>2, <1>13, <2>1, <2>2 DEF FilesTyped
<1>15. StepTyped'
  BY <1>1, <1>2, <1>13 DEF StepTyped
<1>16. ToWrite' = ToWrite /\ Base' = Base
  BY <1>2 DEF ToWrite, Base
<1>17. Up => Gives(Pending(Base), Left', current)
  BY <1>5, <1>10, GivesMore DEF IInv, WalSound
<1>18. WalSound'
  BY <1>2, <1>3, <1>16, <1>17 DEF IInv, WalSound
<1>19. WaitingSound'
  BY <1>2, <1>3, <1>5, <1>10, <1>11, <1>16 DEF IInv, WaitingSound
<1>20. Settles' /\ LogSound' /\ TodoSound' /\ StepSound' /\ OnlyTailTorn'
  BY <1>1, <1>2, <1>3, <1>11 DEF IInv, Settles, LogSound, TodoSound, StepSound, OnlyTailTorn
<1>21. Recovers'
  <2>1. Reaches(c)'
    BY <1>1, <1>6, <1>10 DEF Reaches
  <2> QED
    BY <1>2, <1>3, <1>4, <1>11, <1>12, <2>1 DEF Recovers
<1> QED
  BY <1>13, <1>14, <1>15, <1>18, <1>19, <1>20, <1>21 DEF IInv, Typed

LEMMA SyncFileIInv == ASSUME IInv, SyncFile PROVE IInv'
<1> USE PageIds
<1>1. Typed /\ FilesTyped /\ BatchesTyped /\ StepTyped /\ pc = "cut" /\ pc' = "flushed"
  BY DEF IInv, Typed, SyncFile
<1>2. /\ maybe' = [p \in PageId |-> {now[p]}] /\ waiting' = {} /\ image' = 0
      /\ UNCHANGED <<now, wal, walMaybe, len, batch, task, logLeft, todo,
                   current, doubt, faults, failed>>
  BY DEF SyncFile
<1>3. ~Logging /\ ~Logging' /\ (Up' <=> Up)
  BY <1>1, <1>2 DEF Logging, Up
<1>4. PICK c \in {current, doubt} :
          /\ c # Nothing
          /\ \A w \in LeftWals : Gives(Pending(w), Left, c)
          /\ Reaches(c)
  BY <1>3 DEF IInv, Recovers
<1>5. Up => c = current
  BY <1>3, <1>4 DEF IInv, Settles
<1>6. \A p \in Within(c) : now[p] = c.page[p]
  BY <1>1, <1>4 DEF Reaches
<1>7. \A p \in PageId : Left'[p] = {now[p]} /\ now[p] \in Left[p]
  BY <1>1, <1>2, NowLeft DEF Left
<1>8. LeftWals' = LeftWals /\ Base' = Base /\ ToWrite' = {}
  BY <1>2, SameWals DEF Base, ToWrite
<1>9. \A I, d : Gives(I, Left, d) => Gives(I, Left', d)
  <2> SUFFICES ASSUME NEW I, NEW d, Gives(I, Left, d) PROVE Gives(I, Left', d)
    OBVIOUS
  <2>1. \A p \in Within(d) : Left'[p] \subseteq Left[p]
    BY <1>7 DEF Within
  <2> QED
    BY <2>1, GivesMore
<1>10. BatchesTyped' /\ This' = This
  BY <1>1, <1>2, BatchesStay
<1>11. FilesTyped'
  <2>1. maybe' \in [PageId -> SUBSET (0 .. MaxBatches \cup {Torn, Absent})]
    BY <1>1, <1>2 DEF FilesTyped
  <2> QED
    BY <1>1, <1>2, <1>10, <2>1 DEF FilesTyped
<1>12. StepTyped'
  BY <1>1, <1>2, <1>10 DEF StepTyped, BatchesTyped
<1>13. WalSound'
  BY <1>2, <1>3, <1>8, <1>9 DEF IInv, WalSound
<1>14. \A p \in Within(c) : Left'[p] \subseteq {c.page[p]}
  BY <1>6, <1>7 DEF Within
<1>15. WaitingSound'
  BY <1>2, <1>3, <1>5, <1>8, <1>14 DEF WaitingSound
<1>16. Settles' /\ LogSound' /\ TodoSound' /\ StepSound' /\ OnlyTailTorn'
  BY <1>1, <1>2, <1>3, <1>8 DEF IInv, Settles, LogSound, TodoSound, StepSound, OnlyTailTorn
<1>17. Recovers'
  <2>1. Reaches(c)'
    BY <1>1, <1>14 DEF Reaches
  <2> QED
    BY <1>2, <1>3, <1>4, <1>8, <1>9, <2>1 DEF Recovers
<1> QED
  BY <1>10, <1>11, <1>12, <1>13, <1>15, <1>16, <1>17 DEF IInv, Typed

-----------------------------------------------------------------------------
(* The WAL emptied, and an open.                                           *)

LEMMA EmptyLog == <<>> \in Seq(Record) /\ Len(<<>>) = 0 /\ NoneTorn(<<>>)
BY DEF NoneTorn

LEMMA EmptyWalIInv == ASSUME IInv, EmptyWal PROVE IInv'
<1> USE PageIds
<1>1. Typed /\ FilesTyped /\ BatchesTyped /\ StepTyped /\ pc = "flushed" /\ pc' = "emptied"
  BY DEF IInv, Typed, EmptyWal
<1>2. /\ wal' = <<>> /\ walMaybe' = walMaybe \cup {<<>>} /\ len' = 0
      /\ UNCHANGED <<now, maybe, batch, task, logLeft, waiting, image, todo,
                   current, doubt, faults, failed>>
  BY DEF EmptyWal
<1>3. ~Logging /\ ~Logging' /\ (Up' <=> Up)
  BY <1>1, <1>2 DEF Logging, Up
<1>4. PICK c \in {current, doubt} :
          /\ c # Nothing
          /\ \A w \in LeftWals : Gives(Pending(w), Left, c)
          /\ Reaches(c)
  BY <1>3 DEF IInv, Recovers
<1>5. Up => c = current
  BY <1>3, <1>4 DEF IInv, Settles
<1>6. \A p \in Within(c) : Left[p] \subseteq {c.page[p]}
  BY <1>1, <1>4 DEF Reaches
<1>7. Left' = Left /\ LeftWals' \subseteq LeftWals \cup {<<>>}
  BY <1>2, SameMain DEF LeftWals, MayFail
<1>8. Gives(Pending(<<>>), Left, c)
  BY <1>6, NothingPending DEF Gives, HasImage
<1>9. Base' = <<>>
  BY <1>2 DEF Base
<1>10. BatchesTyped' /\ This' = This
  BY <1>1, <1>2, BatchesStay
<1>11. FilesTyped' /\ StepTyped'
  <2>1. \A w \in walMaybe' :
          /\ w \in Seq(Record)
          /\ \A i \in 1 .. Len(w) : w[i] # TornRecord => w[i].of \in 1 .. This
    <3>1. \A i \in 1 .. Len(<<>>) : FALSE
      BY EmptyLog
    <3>2. \A w \in walMaybe : /\ w \in Seq(Record)
                              /\ \A i \in 1 .. Len(w) : w[i] # TornRecord => w[i].of \in 1 .. This
      BY <1>1 DEF FilesTyped
    <3>3. walMaybe' = walMaybe \cup {<<>>} /\ <<>> \in Seq(Record)
      BY <1>2, EmptyLog
    <3> QED
      BY <3>1, <3>2, <3>3, Zenon
  <2>2. FilesTyped'
    BY <1>1, <1>2, <1>10, <2>1 DEF FilesTyped
  <2>3. StepTyped'
    BY <1>1, <1>2, <1>10 DEF StepTyped
  <2> QED
    BY <2>2, <2>3
<1>12. WalSound'
  <2>1. Up' => Gives(Pending(Base'), Left', current')
    BY <1>2, <1>3, <1>5, <1>7, <1>8, <1>9
  <2>2. len' <= Len(wal') /\ NoneTorn(Base') /\ Pending(Base') = Images(Base')
    BY <1>2, <1>9, NothingPending, EmptyLog
  <2> QED
    BY <2>1, <2>2 DEF WalSound, NoneTorn
<1>13. waiting = {} /\ image = 0
  BY <1>1 DEF IInv, StepSound
<1>14. WaitingSound'
  <2>1. ToWrite' = {}
    BY <1>2, <1>13 DEF ToWrite
  <2> QED
    BY <1>2, <1>3, <1>5, <1>6, <1>7, <1>13, <2>1 DEF WaitingSound
<1>15. Settles' /\ LogSound' /\ TodoSound' /\ StepSound' /\ OnlyTailTorn'
  BY <1>1, <1>2, <1>3, <1>13 DEF IInv, Settles, LogSound, TodoSound, StepSound, OnlyTailTorn
<1>16. Recovers'
  <2>1. Reaches(c)'
    BY <1>1, <1>6, <1>7 DEF Reaches
  <2> QED
    BY <1>2, <1>3, <1>4, <1>7, <1>8, <2>1 DEF Recovers
<1> QED
  BY <1>10, <1>11, <1>12, <1>14, <1>15, <1>16 DEF IInv, Typed

(* What an open finds in the file once it is made to be c is c.            *)
LEMMA FileIs ==
    ASSUME FilesTyped, NEW c, IsWhole(c), \A p \in Within(c) : now[p] = c.page[p]
    PROVE  InFile(now) = c
<1> DEFINE left == [p \in PageId |-> {now[p]}]
<1>1. Gives(Pending(<<>>), left, c)
  BY NothingPending DEF Gives, HasImage, Within
<1>2. \A p \in PageId : now[p] \in left[p]
  OBVIOUS
<1>3. now \in [PageId -> 0 .. MaxBatches \cup {Torn, Absent}]
  BY DEF FilesTyped
<1> HIDE DEF left
<1>4. Recovered(now, <<>>) = c
  BY <1>1, <1>2, <1>3, GivesRecovered
<1>5. Overlay(now, {}) = [p \in PageId |-> now[p]]
  BY DEF Overlay
<1> QED
  BY <1>3, <1>4, <1>5, NothingPending DEF Recovered

(* What a step that ends an open makes the last commit.                    *)
LEMMA OpenFinds ==
    ASSUME IInv, pc = "emptied"
    PROVE  /\ InFile(now) \in {current, doubt} /\ InFile(now) # Nothing
           /\ IsWhole(InFile(now))
           /\ task # "open" => InFile(now) = current
           /\ \A p \in Within(InFile(now)) : Left[p] \subseteq {InFile(now).page[p]}
<1> USE PageIds
<1>1. PICK c \in {current, doubt} : c # Nothing /\ Reaches(c)
  BY DEF IInv, Recovers, Logging
<1>2. \A p \in Within(c) : Left[p] \subseteq {c.page[p]} /\ now[p] \in Left[p]
  BY <1>1, NowLeft DEF Reaches, IInv, Within
<1>3. IsWhole(c) /\ FilesTyped
  BY <1>1 DEF IInv, Typed, BatchesTyped
<1>4. \A p \in Within(c) : now[p] = c.page[p]
  BY <1>2
<1>5. InFile(now) = c
  BY <1>3, <1>4, FileIs
<1>6. task # "open" => c = current
  BY <1>1 DEF IInv, Settles, Up, Logging
<1> QED
  BY <1>1, <1>2, <1>3, <1>5, <1>6

LEMMA SyncWalIInv == ASSUME IInv, SyncWal PROVE IInv'
<1> USE PageIds
<1>1. Typed /\ FilesTyped /\ BatchesTyped /\ StepTyped /\ pc = "emptied"
  BY DEF IInv, Typed, SyncWal
<1>2. PICK c : c = InFile(now)
  OBVIOUS
<1>3. /\ c \in {current, doubt} /\ c # Nothing /\ IsWhole(c)
      /\ task # "open" => c = current
      /\ \A p \in Within(c) : Left[p] \subseteq {c.page[p]}
  BY <1>1, <1>2, OpenFinds
<1>4. task # "open" => doubt = Nothing
  BY <1>1 DEF IInv, Settles, Up, Logging
<1>5. /\ walMaybe' = {wal} /\ current' = c /\ doubt' = Nothing
      /\ UNCHANGED <<now, maybe, wal, len, batch, logLeft, waiting, image, todo, faults, failed>>
      /\ pc' \in {"down", "fresh", "idle"} /\ task' \in {"open", "work"}
      /\ pc' = "idle" => task' = "work"
      /\ pc' = "fresh" => now[HEADER_PAGE] = Absent
  BY <1>2, <1>3, <1>4 DEF SyncWal
<1>6. wal = <<>> /\ waiting = {} /\ image = 0 /\ todo = {}
  BY <1>1 DEF IInv, StepSound, TodoSound
<1>7. Left' = Left /\ LeftWals' = {<<>>} /\ Base' = <<>> /\ ToWrite' = {} /\ ~Logging'
  BY <1>5, <1>6, SameMain DEF LeftWals, MayFail, Base, ToWrite, Logging
<1>8. This' = This
  BY <1>5 DEF This
<1>9. BatchesTyped'
  BY <1>1, <1>3, <1>5, <1>8 DEF BatchesTyped, IsWhole
<1>10. FilesTyped' /\ StepTyped'
  BY <1>1, <1>5, <1>8 DEF FilesTyped, StepTyped
<1>11. Gives(Pending(<<>>), Left, c)
  BY <1>3, NothingPending DEF Gives, HasImage
<1>12. len' = 0
  BY <1>1, <1>5 DEF IInv, StepSound
<1>13. WalSound'
  <2>1. Gives(Pending(Base'), Left', current')
    BY <1>5, <1>7, <1>11
  <2>2. len' <= Len(wal') /\ NoneTorn(Base') /\ Pending(Base') = Images(Base')
    <3>1. wal' = <<>> /\ Base' = <<>> /\ len' = 0
      BY <1>5, <1>6, <1>7, <1>12
    <3>2. 0 <= Len(<<>>)
      BY EmptyLog
    <3> QED
      BY <3>1, <3>2, NothingPending, EmptyLog, Zenon
  <2> QED
    BY <2>1, <2>2 DEF WalSound, NoneTorn
<1>14. WaitingSound'
  BY <1>3, <1>5, <1>6, <1>7 DEF WaitingSound
<1>15. Settles' /\ LogSound' /\ TodoSound' /\ OnlyTailTorn'
  BY <1>5, <1>6, <1>7, <1>12 DEF Settles, LogSound, TodoSound, OnlyTailTorn
<1>16. StepSound'
  <2>1. pc' = "fresh" => c.count = 0
    <3>1. HEADER_PAGE \in Within(c) /\ now[HEADER_PAGE] \in Left[HEADER_PAGE]
      BY <1>1, NowLeft DEF Within
    <3>2. now[HEADER_PAGE] = c.page[HEADER_PAGE]
      BY <1>3, <3>1
    <3>3. c.count > 0 => c.page[HEADER_PAGE] # Absent
      BY <1>1, <1>3 DEF IsWhole, BatchesTyped, HEADER_PAGE, Absent
    <3>4. c.count \in Nat
      BY <1>3 DEF IsWhole, Contents
    <3> QED
      BY <1>5, <3>2, <3>3, <3>4
  <2> QED
    BY <1>5, <1>6, <2>1 DEF StepSound
<1>17. Recovers'
  <2>1. Reaches(c)'
    BY <1>5 DEF Reaches
  <2> QED
    BY <1>3, <1>5, <1>7, <1>11, <2>1 DEF Recovers
<1> QED
  BY <1>9, <1>10, <1>13, <1>14, <1>15, <1>16, <1>17 DEF IInv, Typed

LEMMA OpenIInv == ASSUME IInv, Open PROVE IInv'
<1> USE PageIds
<1> DEFINE images == Pending(wal)
<1>1. Typed /\ FilesTyped /\ BatchesTyped /\ StepTyped /\ pc = "down" /\ ~Logging
  BY DEF IInv, Typed, Open, Logging
<1>2. /\ \/ pc' = "refused" /\ todo' = {}
         \/ pc' = "flushed" /\ todo' = {} /\ images = {}
         \/ pc' = "restore" /\ todo' = {<<i[1], i[2], i[1]>> : i \in images}
      /\ len' = Len(wal) /\ task' = "open"
      /\ UNCHANGED <<now, maybe, wal, walMaybe, batch, logLeft, waiting, image, current, doubt,
                   faults, failed>>
  BY DEF Open, files
<1>3. ~Up' /\ ~Logging'
  BY <1>2 DEF Up, Logging
<1>4. Left' = Left /\ LeftWals' = LeftWals
  BY <1>2, SameLeft
<1>5. wal \in Seq(Record) /\ wal \in LeftWals /\ wal \in walMaybe /\ This \in 0 .. MaxBatches
  BY <1>1, NowLeft DEF FilesTyped, BatchesTyped
<1>6. images \subseteq (1 .. This) \X PageId
  BY <1>1, <1>5, PendingInImages, ImagesTyped
<1>7. \A i \in images : i[1] \in 1 .. MaxBatches /\ i[2] \in PageId /\ <<i[1], i[2]>> \in images
  <2> SUFFICES ASSUME NEW i \in images
               PROVE  i[1] \in 1 .. MaxBatches /\ i[2] \in PageId /\ <<i[1], i[2]>> \in images
    OBVIOUS
  <2>1. i \in (1 .. This) \X PageId
    BY <1>6
  <2>2. i[1] \in 1 .. This /\ i[2] \in PageId /\ i = <<i[1], i[2]>>
    BY <2>1
  <2> HIDE DEF images
  <2> QED
    BY <1>5, <2>2
<1>8. ASSUME NEW t \in todo'
      PROVE  /\ t \in (0 .. MaxBatches) \X PageId \X (0 .. MaxBatches)
             /\ t[1] \in 1 .. MaxBatches /\ t[2] \in PageId
             /\ <<t[1], t[2]>> \in images
             /\ t = <<t[1], t[2], t[1]>>
  <2>1. PICK i \in images : t = <<i[1], i[2], i[1]>>
    BY <1>2
  <2>2. i[1] \in 1 .. MaxBatches /\ i[1] \in 0 .. MaxBatches /\ i[2] \in PageId /\ <<i[1], i[2]>> \in images
    BY <1>7
  <2> HIDE DEF images
  <2>3. t[1] = i[1] /\ t[2] = i[2] /\ t[3] = i[1]
    BY <2>1
  <2> QED
    BY <2>1, <2>2, <2>3
<1> HIDE DEF images
<1>9. BatchesTyped' /\ This' = This
  BY <1>1, <1>2, BatchesStay
<1>10. todo' \in SUBSET ((0 .. MaxBatches) \X PageId \X (0 .. MaxBatches))
  BY <1>8
<1>11. FilesTyped' /\ StepTyped'
  BY <1>1, <1>2, <1>5, <1>9, <1>10 DEF FilesTyped, StepTyped
<1>12. WalSound' /\ WaitingSound' /\ LogSound' /\ OnlyTailTorn'
  BY <1>2, <1>3 DEF IInv, WalSound, WaitingSound, LogSound, OnlyTailTorn
<1>13. Settles'
  BY <1>1, <1>2, <1>3, <1>4 DEF IInv, Settles
<1>14. StepSound'
  BY <1>1, <1>2 DEF IInv, StepSound
<1>15. TodoSound'
  <2>1. ASSUME NEW t \in todo', NEW u \in todo', t[1] = u[1], t[2] = u[2] PROVE t = u
    <3>1. t = <<t[1], t[2], t[1]>> /\ u = <<u[1], u[2], u[1]>>
      BY <1>8
    <3> QED
      BY <2>1, <3>1, Zenon
  <2>2. ASSUME NEW t \in todo', NEW w \in LeftWals' PROVE HasImage(Pending(w), t[2])
    <3>1. w = wal
      <4>1. LeftWals = {wal} \/ wal = <<>>
        BY <1>1 DEF IInv, Settles
      <4>2. wal # <<>>
        BY <1>8, NothingPending DEF images
      <4> QED
        BY <1>4, <4>1, <4>2
    <3> QED
      BY <1>8, <3>1 DEF HasImage, images
  <2> QED
    BY <1>2, <2>1, <2>2 DEF TodoSound
<1>16. Recovers'
  <2>1. PICK c \in {current, doubt} :
            /\ c # Nothing
            /\ \A w \in LeftWals : Gives(Pending(w), Left, c)
    BY <1>1 DEF IInv, Recovers
  <2>2. Gives(images, Left, c)
    BY <1>5, <2>1 DEF images
  <2>3. images = {} => \A p \in Within(c) : Left[p] \subseteq {c.page[p]}
    BY <2>2 DEF Gives, HasImage
  <2>4. ASSUME NEW p \in Within(c), pc' = "restore" PROVE LeavesOn(p, c.page[p])'
    <3>1. p \in PageId /\ now[p] \in Left[p]
      BY <1>1, NowLeft DEF Within
    <3>2. CASE HasImage(images, p)
      <4>1. /\ c.page[p] \in 1 .. MaxBatches /\ <<c.page[p], p>> \in images
            /\ \A d \in 1 .. MaxBatches : <<d, p>> \in images => d <= c.page[p]
        BY <2>2, <3>2 DEF Gives, IsNewest
      <4>2. PICK u : u = <<c.page[p], p, c.page[p]>>
        OBVIOUS
      <4>3. u \in todo' /\ u[1] = c.page[p] /\ u[2] = p /\ u[3] = c.page[p]
        <5>1. PICK i \in images : i = <<c.page[p], p>>
          BY <4>1
        <5>2. u = <<i[1], i[2], i[1]>>
          BY <4>2, <5>1
        <5>3. todo' = {<<j[1], j[2], j[1]>> : j \in images}
          BY <1>2, <2>4
        <5> QED
          BY <4>2, <5>1, <5>2, <5>3
      <4>4. \A t \in todo' : t[2] = p => t[1] <= u[1]
        BY <1>8, <4>1, <4>3
      <4> QED
        BY <4>3, <4>4 DEF LeavesOn
    <3>3. CASE ~HasImage(images, p)
      <4>1. now[p] = c.page[p]
        BY <2>2, <3>1, <3>3 DEF Gives
      <4>2. \A t \in todo' : t[2] # p
        BY <1>8, <3>3 DEF HasImage
      <4> QED
        BY <1>2, <4>1, <4>2 DEF LeavesOn
    <3> QED
      BY <3>2, <3>3
  <2>5. Reaches(c)'
    BY <1>2, <1>4, <2>3, <2>4 DEF Reaches
  <2> QED
    BY <1>2, <1>3, <1>4, <2>1, <2>5 DEF Recovers
<1> QED
  BY <1>9, <1>11, <1>12, <1>13, <1>14, <1>15, <1>16 DEF IInv, Typed

-----------------------------------------------------------------------------
(* The invariant.                                                          *)

LEMMA InitIInv == ASSUME Init PROVE IInv
<1> USE PageIds
<1>1. PICK n \in InitPages : current = Pages(n, [p \in PageId |-> IF p < n THEN 0 ELSE Absent])
  BY DEF Init, First
<1>2. n \in 0 .. MaxPages
  BY DurabilityAssumption
<1>3. /\ current.count = n
      /\ current.page = [p \in PageId |-> IF p < n THEN 0 ELSE Absent]
      /\ current = [count |-> n, page |-> current.page]
  BY <1>1 DEF Pages
<1>4. current.page \in [PageId -> 0 .. MaxBatches \cup {Absent}]
  BY <1>3
<1>5. current \in Contents
  BY <1>2, <1>3, <1>4 DEF Contents
<1>6. /\ now = current.page /\ maybe = [p \in PageId |-> {now[p]}] /\ wal = <<>> /\ walMaybe = {<<>>}
      /\ len = 0 /\ pc = "down" /\ task = "work" /\ logLeft = {} /\ waiting = {} /\ image = 0
      /\ todo = {} /\ doubt = Nothing /\ faults = 0 /\ failed = {}
      /\ batch = [b \in {0} |-> [pages |-> {}, count |-> current.count, image |-> FALSE]]
  BY DEF Init
<1>7. DOMAIN batch = 0 .. 0 /\ batch[0] = [pages |-> {}, count |-> n, image |-> FALSE]
  BY <1>3, <1>6
<1>8. This = 0
  BY <1>7, Numbered DEF This
<1>9. IsWhole(current)
  BY <1>3, <1>5, <1>7, <1>8 DEF IsWhole, HEADER_PAGE
<1>10. BatchesTyped
  <2>1. batch[0] \in [pages : SUBSET PageId, count : 0 .. MaxPages, image : BOOLEAN]
    BY <1>2, <1>7
  <2> QED
    BY <1>6, <1>7, <1>8, <1>9, <2>1 DEF BatchesTyped
<1>11. FilesTyped
  <2>1. now \in [PageId -> 0 .. MaxBatches \cup {Torn, Absent}]
    BY <1>4, <1>6
  <2>2. /\ maybe \in [PageId -> SUBSET (0 .. MaxBatches \cup {Torn, Absent})]
        /\ \A p \in PageId : now[p] \in maybe[p]
    BY <1>6, <2>1
  <2>3. \A i \in 1 .. Len(<<>>) : FALSE
    BY EmptyLog
  <2> QED
    BY <1>6, <2>1, <2>2, <2>3, EmptyLog DEF FilesTyped
<1>12. StepTyped
  BY <1>6, <1>8 DEF StepTyped
<1>13. ~Up /\ ~Logging
  BY <1>6 DEF Up, Logging
<1>14. LeftWals = {<<>>} /\ \A p \in PageId : Left[p] = {now[p]}
  BY <1>6 DEF LeftWals, Left
<1>15. WalSound /\ WaitingSound /\ Settles /\ LogSound /\ TodoSound /\ StepSound
  BY <1>6, <1>13, <1>14 DEF WalSound, WaitingSound, Settles, LogSound, TodoSound, StepSound
<1>16. OnlyTailTorn
  <2>1. \A i \in 1 .. Len(<<>>) : FALSE
    BY EmptyLog
  <2> QED
    BY <1>6, <2>1 DEF OnlyTailTorn
<1>17. Recovers
  <2>1. Gives(Pending(<<>>), Left, current)
    BY <1>6, <1>14, NothingPending DEF Gives, HasImage, Within
  <2>2. Reaches(current)
    BY <1>6 DEF Reaches
  <2>3. current # Nothing
    BY <1>10, CurrentThere
  <2> QED
    BY <1>13, <1>14, <2>1, <2>2, <2>3 DEF Recovers
<1> QED
  BY <1>10, <1>11, <1>12, <1>15, <1>16, <1>17 DEF IInv, Typed

LEMMA StutterIInv == ASSUME IInv, UNCHANGED vars PROVE IInv'
<1>1. UNCHANGED <<now, maybe, wal, walMaybe, len, batch, pc, task, logLeft, waiting, image, todo,
                  current, doubt, faults, failed>>
  BY DEF vars, files
<1>2. Left' = Left /\ LeftWals' = LeftWals /\ Base' = Base /\ ToWrite' = ToWrite
      /\ (Up' <=> Up) /\ (Logging' <=> Logging)
  BY <1>1, SameLeft DEF Base, ToWrite, Up, Logging
<1>3. BatchesTyped' /\ This' = This
  BY <1>1, BatchesStay DEF IInv, Typed
<1>4. FilesTyped' /\ StepTyped'
  BY <1>1, <1>3 DEF IInv, Typed, FilesTyped, StepTyped
<1>5. WalSound' /\ WaitingSound' /\ Settles' /\ TodoSound' /\ StepSound' /\ OnlyTailTorn'
  BY <1>1, <1>2 DEF IInv, WalSound, WaitingSound, Settles, TodoSound, StepSound, OnlyTailTorn
<1>6. LogSound'
  BY <1>1, <1>2, <1>3 DEF IInv, LogSound
<1>7. ASSUME NEW c, Reaches(c) PROVE Reaches(c)'
  BY <1>1, <1>2, <1>7 DEF Reaches, LeavesOn
<1>8. Recovers'
  <2>1. CASE Logging
    BY <1>1, <1>2, <2>1 DEF IInv, Recovers
  <2>2. CASE ~Logging
    BY <1>1, <1>2, <1>7, <2>2 DEF IInv, Recovers
  <2> QED
    BY <2>1, <2>2
<1> QED
  BY <1>3, <1>4, <1>5, <1>6, <1>8 DEF IInv, Typed

LEMMA NextIInv == ASSUME OneWay, IInv, [Next]_vars PROVE IInv'
<1>1. CASE UNCHANGED vars
  BY <1>1, StutterIInv
<1>2. ASSUME NEW pages \in SUBSET PageId, NEW n \in current.count .. MaxPages, Transact(pages, n)
      PROVE  IInv'
  BY <1>2, TransactIInv
<1>3. ASSUME NEW n \in 2 .. MaxPages, Compact(n) PROVE IInv'
  BY <1>3, CompactIInv
<1>4. CASE LogSync
  BY <1>4, LogSyncMoreIInv, LogSyncLastIInv
<1>5. CASE LogWrite \/ LogFails
  BY <1>5, LogWriteIInv, LogFailsIInv
<1>6. CASE UndoCut \/ UndoSync \/ UndoFails
  BY <1>6, UndoCutIInv, UndoSyncIInv, UndoFailsIInv
<1>7. CASE CheckpointBegin \/ Close
  BY <1>7, CheckpointIInv
<1>8. CASE Kill \/ ClosePoisoned
  BY <1>8, KillIInv
<1>9. ASSUME NEW t \in todo, WritePage(t) PROVE IInv'
  BY <1>9, WritePageIInv
<1>10. CASE FileFails \/ CutFile \/ SyncFile
  BY <1>10, FileFailsIInv, CutFileIInv, SyncFileIInv
<1>11. CASE EmptyWal \/ SyncWal \/ WalFails
  BY <1>11, EmptyWalIInv, SyncWalIInv, WalFailsIInv
<1>12. CASE Open \/ Bootstrap \/ PowerFailure
  BY <1>12, OpenIInv, BootstrapIInv, PowerFailureIInv
<1> QED
  BY <1>1, <1>2, <1>3, <1>4, <1>5, <1>6, <1>7, <1>8, <1>9, <1>10, <1>11, <1>12 DEF Next

-----------------------------------------------------------------------------
(* The theorems.                                                           *)

(* The files and the log under way, in every state of a database that goes *)
(* down in one way: the inductive invariant.                               *)
THEOREM SpecIInv == OneWay => (Spec => []IInv)
<1> SUFFICES ASSUME OneWay PROVE Spec => []IInv
  OBVIOUS
<1>1. Init => IInv
  BY InitIInv
<1>2. IInv /\ [Next]_vars => IInv'
  BY NextIInv
<1> QED
  BY <1>1, <1>2, PTL DEF Spec

(* Every variable has its type, and what is committed is a whole database. *)
THEOREM TypeCorrect == OneWay => (Spec => []TypeOK)
<1>1. ASSUME IInv PROVE TypeOK
  <2>1. /\ current \in Contents /\ doubt \in Contents \cup {Nothing}
        /\ image \in 0 .. MaxBatches
    BY <1>1, PageIds DEF IInv, Typed, BatchesTyped, StepTyped, IsWhole
  <2> QED
    BY <1>1, <2>1 DEF IInv, Typed, FilesTyped, BatchesTyped, StepTyped, TypeOK
<1> QED
  BY <1>1, SpecIInv, PTL

(* Whenever the process ends, the main file and the WAL recover to every   *)
(* batch acknowledged and at most the one being logged, each whole:        *)
(* `transact`, the checkpoint, `open_with` and `restore_pages` together,   *)
(* whatever fails and is cut short between them.                           *)
THEOREM AlwaysRecoverable == OneWay => (Spec => []Recoverable)
<1>1. ASSUME IInv PROVE Recoverable
  <2>1. ASSUME NEW w \in LeftWals, NEW f \in [PageId -> 0 .. MaxBatches \cup {Torn, Absent}],
               \A p \in PageId : f[p] \in Left[p]
        PROVE  Recovered(f, w) \in {current, doubt}
    <3>1. PICK c \in {current, doubt} : c # Nothing /\ Gives(Pending(w), Left, c)
      BY <1>1, AnyRecovers DEF IInv
    <3>2. IsWhole(c)
      BY <1>1, <3>1 DEF IInv, Typed, BatchesTyped
    <3>3. Recovered(f, w) = c
      BY <2>1, <3>1, <3>2, GivesRecovered
    <3> QED
      BY <3>3
  <2>2. Recovered(now, wal) \in {current, doubt}
    BY <1>1, <2>1, NowLeft DEF IInv, Typed, FilesTyped
  <2>3. ASSUME MayFail("power"), NEW f \in Outcomes, NEW w \in walMaybe
        PROVE  Recovered(f, w) \in {current, doubt}
    <3>1. f \in [PageId -> UNION {maybe[p] : p \in PageId}] /\ \A p \in PageId : f[p] \in maybe[p]
      BY DEF Outcomes
    <3>2. \A p \in PageId : maybe[p] \subseteq 0 .. MaxBatches \cup {Torn, Absent}
      BY <1>1 DEF IInv, Typed, FilesTyped
    <3>3. f \in [PageId -> 0 .. MaxBatches \cup {Torn, Absent}]
      BY <3>1, <3>2
    <3>4. w \in LeftWals /\ \A p \in PageId : f[p] \in Left[p]
      BY <2>3, <3>1 DEF LeftWals, Left
    <3> QED
      BY <2>1, <3>3, <3>4
  <2> QED
    BY <2>2, <2>3 DEF Recoverable
<1> QED
  BY <1>1, SpecIInv, PTL

(* Recovery never meets a torn record before others, so it never takes     *)
(* what a crash left for damage in the WAL (`Pending::scan`).              *)
THEOREM TornOnlyAtTail == OneWay => (Spec => []OnlyTailTorn)
<1>1. IInv => OnlyTailTorn
  BY DEF IInv
<1> QED
  BY <1>1, SpecIInv, PTL

-----------------------------------------------------------------------------
(* The batches are atomic.                                                 *)

(* Every step is one of AtomicStore's on what is committed and in doubt,   *)
(* or leaves both as they are.                                             *)
LEMMA StoreStep ==
    ASSUME OneWay, IInv, IInv', [Next]_vars
    PROVE  [Store!Next]_<<current, doubt>>
<1> SUFFICES ASSUME ~UNCHANGED <<current, doubt>> PROVE Store!Next
  OBVIOUS
<1>1. BatchesTyped /\ (pc \in {"idle", "fresh"} => doubt = Nothing)
  BY DEF IInv, Typed, Settles, Up, Logging
<1>2. BatchesTyped'
  BY DEF IInv, Typed
<1>3. ASSUME NEW pages, NEW n, NEW replaces, LogBegin(pages, n, replaces), doubt = Nothing
      PROVE  Store!Next
  <2>1. doubt' # Nothing
    BY <1>3 DEF IInv, LogSound, LogBegin
  <2>2. doubt' \in Contents /\ current' = current
    BY <1>2, <1>3, <2>1 DEF BatchesTyped, IsWhole, LogBegin
  <2> QED
    BY <1>3, <2>2 DEF Store!Next, Store!Log
<1>4. ASSUME NEW pages, NEW n, Transact(pages, n) PROVE Store!Next
  BY <1>1, <1>3, <1>4 DEF Transact
<1>5. ASSUME NEW n, Compact(n) PROVE Store!Next
  BY <1>1, <1>3, <1>5 DEF Compact
<1>6. CASE Bootstrap
  BY <1>1, <1>3, <1>6 DEF Bootstrap
<1>7. CASE LogSync
  <2>1. logLeft = {} /\ current' = doubt /\ doubt' = Nothing
    BY <1>7 DEF LogSync
  <2>2. doubt # Nothing
    BY <1>7 DEF LogSync, IInv, LogSound
  <2> QED
    BY <2>1, <2>2 DEF Store!Next, Store!Commit
<1>8. CASE UndoSync
  BY <1>8 DEF UndoSync, Store!Next, Store!Abandon
<1>9. CASE SyncWal
  <2>1. pc = "emptied" /\ task = "open" /\ current' = InFile(now) /\ doubt' = Nothing
    BY <1>9 DEF SyncWal
  <2>2. InFile(now) \in {current, doubt} /\ InFile(now) # Nothing
    BY <2>1, OpenFinds
  <2> QED
    BY <2>1, <2>2 DEF Store!Next, Store!Abandon, Store!Commit
<1>10. ~LogWrite /\ ~LogFails /\ ~UndoCut /\ ~UndoFails
  BY DEF LogWrite, LogFails, UndoCut, UndoFails
<1>11. ~CheckpointBegin /\ ~Close /\ ~ClosePoisoned /\ ~Kill /\ ~PowerFailure
  BY DEF CheckpointBegin, Close, ClosePoisoned, Kill, PowerFailure, DownBy, ToFile
<1>12. ~FileFails /\ ~CutFile /\ ~SyncFile /\ ~EmptyWal /\ ~WalFails /\ ~Open
       /\ \A t : ~WritePage(t)
  BY DEF FileFails, CutFile, SyncFile, EmptyWal, WalFails, Open, WritePage
<1>13. ~UNCHANGED vars
  BY DEF vars
<1> QED
  BY <1>4, <1>5, <1>6, <1>7, <1>8, <1>9, <1>10, <1>11, <1>12, <1>13 DEF Next

(* Batches are atomic and durable as AtomicStore says: the rustdoc of      *)
(* `Database::transact`, "Never anything in between".                      *)
THEOREM ImplementsAtomicStore == OneWay => (Spec => StoreSpec)
<1> SUFFICES ASSUME OneWay PROVE Spec => StoreSpec
  OBVIOUS
<1>1. Init => Store!Init
  BY DEF Init, Store!Init
<1>2. IInv /\ IInv' /\ [Next]_vars => [Store!Next]_<<current, doubt>>
  BY StoreStep
<1>3. Spec => []IInv
  BY SpecIInv
<1> QED
  BY <1>1, <1>2, <1>3, PTL DEF Spec, StoreSpec, Store!Spec

-----------------------------------------------------------------------------
(* Why recovery accepts what it finds.                                     *)

LEMMA BaseImages ==
    ASSUME NEW w \in Seq(Record), NEW n \in Nat, n <= Len(w)
    PROVE  Images(SubSeq(w, 1, n)) \subseteq Images(w)
<1>1. Len(SubSeq(w, 1, n)) = n /\ \A i \in 1 .. n : SubSeq(w, 1, n)[i] = w[i]
  OBVIOUS
<1>2. 1 .. n \subseteq 1 .. Len(w)
  OBVIOUS
<1> HIDE DEF Record
<1> QED
  BY <1>1, <1>2, Zenon DEF Images

LEMMA LogsTyped ==
    ASSUME IInv
    PROVE  /\ \A w \in Logs : Pending(w) \subseteq (1 .. This) \X PageId
           /\ wal \in Logs
           /\ ~Logging => Logs = LeftWals
<1>1. Typed /\ FilesTyped /\ BatchesTyped /\ StepTyped
  BY DEF IInv, Typed
<1>2. wal \in LeftWals /\ LeftWals \subseteq walMaybe
  BY <1>1, NowLeft
<1>3. \A w \in LeftWals : Pending(w) \subseteq (1 .. This) \X PageId
  BY <1>1, <1>2, PendingInImages, ImagesTyped DEF FilesTyped
<1>4. Up => Pending(Base) \subseteq (1 .. This) \X PageId
  <2> SUFFICES ASSUME Up PROVE Pending(Base) \subseteq (1 .. This) \X PageId
    OBVIOUS
  <2>1. wal \in Seq(Record) /\ len \in Nat /\ len <= Len(wal)
    BY <1>1, <1>2 DEF FilesTyped, StepTyped, IInv, WalSound
  <2>2. Images(Base) \subseteq Images(wal)
    BY <2>1, BaseImages DEF Base
  <2>3. Images(wal) \subseteq (1 .. This) \X PageId
    BY <1>1, <1>2, ImagesTyped
  <2>4. Pending(Base) = Images(Base)
    BY DEF IInv, WalSound
  <2> QED
    BY <2>2, <2>3, <2>4
<1>5. ~Logging /\ Up => Base = wal
  <2>1. ~Logging /\ Up => len = Len(wal)
    BY DEF IInv, Settles
  <2>2. wal \in Seq(Record)
    BY <1>1, <1>2 DEF FilesTyped
  <2> QED
    BY <2>1, <2>2, WholeLog DEF Base
<1> QED
  BY <1>2, <1>3, <1>4, <1>5 DEF Logs

(* A log that was chained stays so: a header's count never changes, and    *)
(* the header in the file becomes one of the log's, or torn.               *)
LEMMA ChainedStays ==
    ASSUME NEW I, Chained(I), This \in Nat, This' \in Nat, This <= This',
           I \subseteq (1 .. This) \X PageId,
           \A b \in 0 .. This : batch'[b] = batch[b],
           \A h \in Left'[HEADER_PAGE] :
              h \in Left[HEADER_PAGE] \/ h = Torn \/ <<h, HEADER_PAGE>> \in I
    PROVE  Chained(I)'
<1>1. \A n : ChainFrom(I, n) => ChainFrom(I, n)'
  <2> TAKE n
  <2>1. \A i \in I : i[1] \in 0 .. This
    OBVIOUS
  <2>2. \A i \in I : batch'[i[1]] = batch[i[1]]
    BY <2>1
  <2> QED
    BY <2>2 DEF ChainFrom
<1>2. \A h, n : Counts(h, n) => Counts(h, n)'
  BY DEF Counts
<1> QED
  BY <1>1, <1>2 DEF Chained

(* An empty log is chained over a file that is a database.                 *)
LEMMA EmptyChained ==
    ASSUME BatchesTyped', NEW c, IsWhole(c)', Gives({}, Left', c)
    PROVE  Chained({})'
<1> USE PageIds
<1>1. ~HasImage({}, HEADER_PAGE) /\ HEADER_PAGE \in Within(c)
  BY DEF HasImage, Within
<1>2. Left'[HEADER_PAGE] \subseteq {c.page[HEADER_PAGE]}
  BY <1>1 DEF Gives
<1>3. c.page[HEADER_PAGE] \in 0 .. This' \/ c.page[HEADER_PAGE] = Absent
  BY DEF IsWhole
<1>4. \E n \in 0 .. MaxPages : Counts(c.page[HEADER_PAGE], n)'
  <2>1. CASE c.page[HEADER_PAGE] = Absent
    <3>1. Counts(c.page[HEADER_PAGE], 0)'
      BY <2>1 DEF Counts
    <3> QED
      BY <3>1
  <2>2. CASE c.page[HEADER_PAGE] \in 0 .. This'
    <3>1. PICK n : n = batch'[c.page[HEADER_PAGE]].count
      OBVIOUS
    <3>2. n \in 0 .. MaxPages
      BY <2>2, <3>1 DEF BatchesTyped
    <3>3. c.page[HEADER_PAGE] # Absent
      BY <2>2 DEF BatchesTyped, Absent
    <3>4. Counts(c.page[HEADER_PAGE], n)'
      BY <2>2, <3>1, <3>3 DEF Counts
    <3> QED
      BY <3>2, <3>4
  <2> QED
    BY <1>3, <2>1, <2>2
<1> QED
  BY <1>2, <1>4 DEF Chained, ChainFrom

LEMMA ChainInvStays ==
    ASSUME IInv, IInv', ChainInv, This <= This',
           \A b \in 0 .. This : batch'[b] = batch[b],
           \A h \in Left'[HEADER_PAGE] :
              \/ h \in Left[HEADER_PAGE] \/ h = Torn
              \/ \A v \in Logs : <<h, HEADER_PAGE>> \in Pending(v),
           \A w \in Logs' : \/ Pending(w) = {}
                            \/ \E v \in Logs : Pending(w) = Pending(v),
           NEW w \in Logs'
    PROVE  Chained(Pending(w))'
<1>1. BatchesTyped /\ BatchesTyped' /\ This \in Nat /\ This' \in Nat
  BY PageIds DEF IInv, Typed, BatchesTyped
<1>2. CASE \E v \in Logs : Pending(w) = Pending(v)
  <2>1. PICK v \in Logs : Pending(w) = Pending(v)
    BY <1>2
  <2>2. Chained(Pending(v)) /\ Pending(v) \subseteq (1 .. This) \X PageId
    BY LogsTyped DEF ChainInv
  <2>3. \A h \in Left'[HEADER_PAGE] :
              h \in Left[HEADER_PAGE] \/ h = Torn \/ <<h, HEADER_PAGE>> \in Pending(v)
    OBVIOUS
  <2>4. PICK I : I = Pending(v)
    OBVIOUS
  <2>5. Chained(I)'
    BY <1>1, <2>2, <2>3, <2>4, ChainedStays
  <2> QED
    BY <2>1, <2>4, <2>5
<1>3. CASE Pending(w) = {}
  <2>1. \E c : IsWhole(c)' /\ Gives(Pending(w), Left', c)
    <3>1. CASE w \in LeftWals'
      <4>1. PICK c \in {current', doubt'} : c # Nothing /\ Gives(Pending(w), Left', c)
        BY <3>1 DEF IInv, Recovers
      <4>2. IsWhole(c)'
        BY <1>1, <4>1 DEF BatchesTyped, IsWhole
      <4> QED
        BY <4>1, <4>2
    <3>2. CASE Up' /\ w = Base'
      <4>1. Gives(Pending(w), Left', current')
        BY <3>2 DEF IInv, WalSound
      <4>2. PICK c : c = current'
        OBVIOUS
      <4>3. IsWhole(c)'
        BY <1>1, <4>2 DEF BatchesTyped, IsWhole
      <4> QED
        BY <4>1, <4>2, <4>3
    <3> QED
      BY <3>1, <3>2 DEF Logs
  <2>2. PICK c : IsWhole(c)' /\ Gives(Pending(w), Left', c)
    BY <2>1
  <2>3. Chained({})'
    BY <1>1, <1>3, <2>2, EmptyChained
  <2> QED
    BY <1>3, <2>3
<1> QED
  BY <1>2, <1>3

(* With all of a batch in it, the log goes on as chained.                  *)
LEMMA ChainedLog ==
    ASSUME IInv, ChainInv, pc \in {"log", "logged"},
           NEW I, I = Pending(Base) \cup {This} \X batch[This].pages
    PROVE  Chained(I)
<1> USE PageIds
<1>1. Typed /\ BatchesTyped /\ This \in Nat /\ Up
  BY DEF IInv, Typed, BatchesTyped, Up
<1>2. PICK P : P = Pending(Base)
  OBVIOUS
<1>3. PICK pages : pages = batch[This].pages
  OBVIOUS
<1>4. I = P \cup {This} \X pages
  BY <1>2, <1>3
<1>5. Base \in Logs /\ P \subseteq (1 .. This) \X PageId
  BY <1>1, <1>2, LogsTyped DEF Logs
<1>6. Chained(P)
  BY <1>2, <1>5 DEF ChainInv
<1>7. /\ This >= 1 /\ doubt # Nothing
      /\ \A p \in pages : p < doubt.count /\ doubt.page[p] = This
      /\ \A p \in Within(doubt) \ pages :
            p \in Within(current) /\ doubt.page[p] = current.page[p]
      /\ \A b \in 1 .. MaxBatches, p \in PageId : <<b, p>> \in P => b < This
  BY <1>2, <1>3 DEF IInv, LogSound
<1>8. IsWhole(current) /\ IsWhole(doubt) /\ pages \subseteq PageId /\ This \in 1 .. MaxBatches
  BY <1>1, <1>3, <1>7 DEF BatchesTyped
<1>9. current.count \in Nat /\ doubt.count \in Nat
  BY <1>8 DEF IsWhole, Contents
<1>10. batch[This].count = doubt.count
  BY DEF ChainInv
<1>11. Gives(P, Left, current)
  BY <1>1, <1>2 DEF IInv, WalSound
<1>12. \A i \in P : i[1] \in 1 .. This /\ i[2] \in PageId /\ i = <<i[1], i[2]>> /\ i[1] < This
  <2>1. \A i \in P : i[1] \in 1 .. This /\ i[2] \in PageId /\ i = <<i[1], i[2]>>
    BY <1>5
  <2>2. \A b \in 1 .. This : b \in 1 .. MaxBatches
    BY <1>8
  <2> QED
    BY <1>7, <2>1, <2>2
<1>13. \A p \in PageId : HasImage(P, p) => HasImage(I, p)
  BY <1>4, HasImageMore
<1>14. \A p \in pages : HasImage(I, p)
  BY <1>4, <1>8 DEF HasImage
(* Where the header before the batch is the current one.                   *)
<1>15. ASSUME HEADER_PAGE \in Within(current)
       PROVE  \/ /\ <<current.page[HEADER_PAGE], HEADER_PAGE>> \in P
                 /\ \A i \in P : i[2] = HEADER_PAGE => i[1] <= current.page[HEADER_PAGE]
              \/ /\ Left[HEADER_PAGE] \subseteq {current.page[HEADER_PAGE]}
                 /\ \A i \in P : i[2] # HEADER_PAGE
  <2>1. CASE HasImage(P, HEADER_PAGE)
    <3>1. IsNewest(P, HEADER_PAGE, current.page[HEADER_PAGE])
      BY <1>11, <1>15, <2>1 DEF Gives
    <3>2. \A i \in P : i[2] = HEADER_PAGE => i[1] \in 1 .. MaxBatches /\ <<i[1], HEADER_PAGE>> \in P
      BY <1>8, <1>12
    <3> QED
      BY <3>1, <3>2 DEF IsNewest
  <2>2. CASE ~HasImage(P, HEADER_PAGE)
    <3>1. Left[HEADER_PAGE] \subseteq {current.page[HEADER_PAGE]}
      BY <1>11, <1>15, <2>2 DEF Gives
    <3>2. \A i \in P : i[2] = HEADER_PAGE => i[1] \in 1 .. MaxBatches /\ <<i[1], HEADER_PAGE>> \in P
      BY <1>8, <1>12
    <3> QED
      BY <2>2, <3>1, <3>2 DEF HasImage
  <2> QED
    BY <2>1, <2>2
<1>16. HEADER_PAGE \in Within(current) /\ HEADER_PAGE \in Within(doubt)
  BY DEF Within
<1>17. current.count > 0 => /\ current.page[HEADER_PAGE] \in 0 .. This
                            /\ batch[current.page[HEADER_PAGE]].count = current.count
  BY <1>8 DEF IsWhole, HEADER_PAGE
<1>18. \A n : Counts(current.page[HEADER_PAGE], n) => n = current.count
  <2>1. CASE current.count > 0
    BY <1>17, <2>1 DEF Counts, Absent
  <2>2. CASE current.count = 0
    BY <1>8, <2>2 DEF Counts, IsWhole, HEADER_PAGE
  <2> QED
    BY <1>9, <2>1, <2>2
<1> SUFFICES ASSUME NEW h \in Left[HEADER_PAGE], NEW n \in 0 .. MaxPages, Counts(h, n), ChainFrom(P, n)
             PROVE  ChainFrom(I, n)
  BY <1>4, <1>6 DEF Chained
<1>19. ASSUME NEW i \in P
       PROVE  /\ i[2] < batch[i[1]].count
              /\ \/ /\ batch[i[1]].count = n
                    /\ \A j \in I : j[2] = HEADER_PAGE => i[1] < j[1]
                 \/ \E d \in I :
                       /\ d[2] = HEADER_PAGE /\ d[1] <= i[1]
                       /\ batch[d[1]].count = batch[i[1]].count
                       /\ \A j \in I : j[2] = HEADER_PAGE /\ j[1] <= i[1] => j[1] <= d[1]
              /\ i[2] = HEADER_PAGE =>
                    \A p \in PageId : n <= p /\ p < batch[i[1]].count => HasImage(I, p)
  <2>1. /\ i[2] < batch[i[1]].count
        /\ \/ /\ batch[i[1]].count = n
              /\ \A j \in P : j[2] = HEADER_PAGE => i[1] < j[1]
           \/ \E d \in P :
                 /\ d[2] = HEADER_PAGE /\ d[1] <= i[1]
                 /\ batch[d[1]].count = batch[i[1]].count
                 /\ \A j \in P : j[2] = HEADER_PAGE /\ j[1] <= i[1] => j[1] <= d[1]
        /\ i[2] = HEADER_PAGE =>
              \A p \in PageId : n <= p /\ p < batch[i[1]].count => HasImage(P, p)
    BY <1>19 DEF ChainFrom
  <2>2. \A j \in I : j \in P \/ j[1] = This
    BY <1>4
  <2>3. i[1] < This /\ i[1] \in Nat /\ P \subseteq I
    BY <1>4, <1>12, <1>19
  <2>4. \A j \in I : j[1] <= i[1] => j \in P
    BY <1>1, <2>2, <2>3
  <2>5. \/ /\ batch[i[1]].count = n
           /\ \A j \in I : j[2] = HEADER_PAGE => i[1] < j[1]
        \/ \E d \in I :
              /\ d[2] = HEADER_PAGE /\ d[1] <= i[1]
              /\ batch[d[1]].count = batch[i[1]].count
              /\ \A j \in I : j[2] = HEADER_PAGE /\ j[1] <= i[1] => j[1] <= d[1]
    BY <2>1, <2>2, <2>3, <2>4
  <2> QED
    BY <1>13, <2>1, <2>5
<1>20. ASSUME NEW i \in {This} \X pages
       PROVE  /\ i[2] < batch[i[1]].count
              /\ \/ /\ batch[i[1]].count = n
                    /\ \A j \in I : j[2] = HEADER_PAGE => i[1] < j[1]
                 \/ \E d \in I :
                       /\ d[2] = HEADER_PAGE /\ d[1] <= i[1]
                       /\ batch[d[1]].count = batch[i[1]].count
                       /\ \A j \in I : j[2] = HEADER_PAGE /\ j[1] <= i[1] => j[1] <= d[1]
              /\ i[2] = HEADER_PAGE =>
                    \A p \in PageId : n <= p /\ p < batch[i[1]].count => HasImage(I, p)
  <2>1. i[1] = This /\ i[2] \in pages
    BY <1>20
  <2>2. batch[i[1]].count = doubt.count /\ i[2] < doubt.count
    BY <1>7, <1>10, <2>1
  <2>3. \A j \in I : j[1] \in 1 .. This
    BY <1>4, <1>8, <1>12
  <2>4. CASE HEADER_PAGE \in pages
    <3>1. <<This, HEADER_PAGE>> \in I
      BY <1>4, <2>4
    <3>2. \E d \in I :
             /\ d[2] = HEADER_PAGE /\ d[1] <= i[1]
             /\ batch[d[1]].count = batch[i[1]].count
             /\ \A j \in I : j[2] = HEADER_PAGE /\ j[1] <= i[1] => j[1] <= d[1]
      <4>1. PICK d : d = <<This, HEADER_PAGE>>
        OBVIOUS
      <4>2. d \in I /\ d[2] = HEADER_PAGE /\ d[1] = This
        BY <3>1, <4>1
      <4> QED
        BY <1>1, <2>1, <2>3, <4>2
    <3>3. ASSUME NEW p \in PageId, n <= p, p < doubt.count
          PROVE  HasImage(I, p)
      <4>1. CASE p \in pages
        BY <1>14, <4>1
      <4>2. CASE p \notin pages
        <5>1. p \in Within(current) /\ p # HEADER_PAGE /\ p < current.count
          BY <1>7, <2>4, <3>3, <4>2 DEF Within
        <5>2. current.count > 0
          <6>1. p \in Nat
            BY <3>3
          <6> QED
            BY <1>9, <5>1, <6>1
        <5>3. <<current.page[HEADER_PAGE], HEADER_PAGE>> \in P
          <6> SUFFICES ASSUME Left[HEADER_PAGE] \subseteq {current.page[HEADER_PAGE]}
                       PROVE  FALSE
            BY <1>15, <1>16
          <6>1. n = current.count
            BY <1>18
          <6> QED
            BY <1>9, <3>3, <5>1, <6>1
        <5>4. HasImage(P, p)
          <6>1. PICK d : d = <<current.page[HEADER_PAGE], HEADER_PAGE>>
            OBVIOUS
          <6>2. d \in P /\ d[2] = HEADER_PAGE /\ batch[d[1]].count = current.count
            BY <1>17, <5>2, <5>3, <6>1
          <6> QED
            BY <3>3, <5>1, <6>2 DEF ChainFrom
        <5> QED
          BY <1>13, <5>4
      <4> QED
        BY <4>1, <4>2
    <3> QED
      BY <2>2, <3>2, <3>3
  <2>5. CASE HEADER_PAGE \notin pages
    <3>1. doubt.count > 0 /\ doubt.page[HEADER_PAGE] = current.page[HEADER_PAGE]
      <4>1. i[2] \in Nat
        BY <1>8, <2>1
      <4>2. doubt.count > 0
        BY <1>9, <2>2, <4>1
      <4> QED
        BY <1>7, <1>16, <2>5, <4>2
    <3>2. doubt.page[HEADER_PAGE] \in 0 .. This /\ batch[doubt.page[HEADER_PAGE]].count = doubt.count
      BY <1>8, <3>1 DEF IsWhole, HEADER_PAGE
    <3>3. current.count > 0
      <4> SUFFICES ASSUME current.count = 0 PROVE FALSE
        BY <1>9
      <4>1. current.page[HEADER_PAGE] = Absent
        BY <1>8 DEF IsWhole, HEADER_PAGE
      <4> QED
        BY <1>1, <3>1, <3>2, <4>1 DEF Absent
    <3>4. current.count = doubt.count
      BY <1>17, <3>1, <3>2, <3>3
    <3>5. \A j \in I : j[2] = HEADER_PAGE => j \in P
      BY <1>4, <2>5
    <3>6. CASE /\ <<current.page[HEADER_PAGE], HEADER_PAGE>> \in P
               /\ \A j \in P : j[2] = HEADER_PAGE => j[1] <= current.page[HEADER_PAGE]
      <4>1. PICK d : d = <<current.page[HEADER_PAGE], HEADER_PAGE>>
        OBVIOUS
      <4>2. d \in I /\ d[2] = HEADER_PAGE /\ d[1] = current.page[HEADER_PAGE]
        BY <1>4, <3>6, <4>1
      <4>3. d[1] <= i[1]
        BY <2>1, <2>3, <4>2
      <4>4. batch[d[1]].count = batch[i[1]].count
        BY <1>17, <2>2, <3>3, <3>4, <4>2
      <4>5. \A j \in I : j[2] = HEADER_PAGE /\ j[1] <= i[1] => j[1] <= d[1]
        BY <3>5, <3>6, <4>2
      <4>6. i[2] # HEADER_PAGE
        BY <2>1, <2>5
      <4> QED
        BY <2>2, <4>2, <4>3, <4>4, <4>5, <4>6
    <3>7. CASE /\ Left[HEADER_PAGE] \subseteq {current.page[HEADER_PAGE]}
               /\ \A j \in P : j[2] # HEADER_PAGE
      <4>1. n = current.count
        BY <1>18, <3>7
      <4>2. i[2] # HEADER_PAGE
        BY <2>1, <2>5
      <4> QED
        BY <2>2, <3>4, <3>5, <3>7, <4>1, <4>2
    <3> QED
      BY <1>15, <1>16, <3>6, <3>7
  <2> QED
    BY <2>4, <2>5
<1> QED
  BY <1>4, <1>19, <1>20 DEF ChainFrom

(* A header's count is within the file and the log together.               *)
LEMMA RoomForImages ==
    ASSUME NEW I, IsFiniteSet(I), NEW n \in Nat, NEW m \in Nat,
           \A p \in n .. m - 1 : HasImage(I, p)
    PROVE  Cardinality(I) \in Nat /\ m <= n + Cardinality(I)
<1>1. Cardinality(I) \in Nat
  BY FS_CardinalityType
<1> DEFINE f == [p \in n .. m - 1 |-> CHOOSE i \in I : i[2] = p]
<1>2. \A p \in n .. m - 1 : \E i \in I : i[2] = p
  <2> SUFFICES ASSUME NEW p \in n .. m - 1 PROVE \E i \in I : i[2] = p
    OBVIOUS
  <2>1. PICK b : <<b, p>> \in I
    BY DEF HasImage
  <2>2. <<b, p>>[2] = p
    OBVIOUS
  <2> QED
    BY <2>1, <2>2
<1>3. \A p \in n .. m - 1 : f[p] \in I /\ f[p][2] = p
  BY <1>2
<1>4. f \in Injection(n .. m - 1, I)
  <2>1. f \in [n .. m - 1 -> I]
    BY <1>3
  <2> HIDE DEF f
  <2> QED
    BY <1>3, <2>1 DEF Injection, IsInjective
<1> HIDE DEF f
<1>5. Cardinality(n .. m - 1) <= Cardinality(I)
  BY <1>4, FS_Injection
<1>6. Cardinality(n .. m - 1) = IF n > m - 1 THEN 0 ELSE m - 1 - n + 1
  BY FS_Interval
<1> QED
  BY <1>1, <1>5, <1>6

LEMMA LengthIsNat == ASSUME NEW f PROVE Length(f) \in Nat
<1>1. IsFiniteSet(PageId)
  BY PageIds, FS_Interval DEF PageId
<1>2. {p \in PageId : f[p] # Absent} \in SUBSET PageId
  OBVIOUS
<1> QED
  BY <1>1, <1>2, FS_Subset, FS_CardinalityType DEF Length

(* A chained log is accepted over a header it doesn't hold, if the file    *)
(* has the pages that this counts.                                         *)
LEMMA Accepted ==
    ASSUME IInv, NEW I, I \subseteq (1 .. This) \X PageId, Chained(I),
           now[HEADER_PAGE] # Torn, <<now[HEADER_PAGE], HEADER_PAGE>> \notin I,
           Length(now) >= HeaderCount(now)
    PROVE  Restorable(now, I)
<1> USE PageIds
<1>1. Typed /\ BatchesTyped /\ FilesTyped /\ This \in Nat
  BY DEF IInv, Typed, BatchesTyped
<1>2. now[HEADER_PAGE] \in Left[HEADER_PAGE]
  BY <1>1, NowLeft
<1>3. PICK n \in 0 .. MaxPages : Counts(now[HEADER_PAGE], n) /\ ChainFrom(I, n)
  BY <1>2 DEF Chained
<1>4. HeaderCount(now) = n
  BY <1>3 DEF Counts, HeaderCount
<1>5. IsFiniteSet(I)
  <2>1. IsFiniteSet(1 .. This) /\ IsFiniteSet(PageId)
    BY <1>1, FS_Interval DEF PageId
  <2>2. IsFiniteSet((1 .. This) \X PageId)
    BY <2>1, FS_Product
  <2> QED
    BY <2>2, FS_Subset
<1>6. Length(now) \in Nat
  BY LengthIsNat
<1> SUFFICES ASSUME NEW i \in I
             PROVE  IF i[2] = HEADER_PAGE
                    THEN batch[i[1]].count <= Length(now) + Cardinality(I)
                    ELSE i[2] < CountAt(now, I, i)
  BY DEF Restorable
<1>7. /\ i[2] < batch[i[1]].count
      /\ \/ /\ batch[i[1]].count = n
            /\ \A j \in I : j[2] = HEADER_PAGE => i[1] < j[1]
         \/ \E d \in I :
               /\ d[2] = HEADER_PAGE /\ d[1] <= i[1]
               /\ batch[d[1]].count = batch[i[1]].count
               /\ \A j \in I : j[2] = HEADER_PAGE /\ j[1] <= i[1] => j[1] <= d[1]
      /\ i[2] = HEADER_PAGE =>
            \A p \in PageId : n <= p /\ p < batch[i[1]].count => HasImage(I, p)
  BY <1>3 DEF ChainFrom
<1>8. \A j \in I : j[1] \in 1 .. This /\ batch[j[1]].count \in 0 .. MaxPages
  BY <1>1 DEF BatchesTyped
<1>9. CASE i[2] = HEADER_PAGE
  <2>1. PICK m : m = batch[i[1]].count
    OBVIOUS
  <2>2. m \in Nat /\ m <= MaxPages
    BY <1>8, <2>1
  <2>3. \A p \in n .. m - 1 : HasImage(I, p)
    BY <1>7, <1>9, <2>1, <2>2
  <2>4. Cardinality(I) \in Nat /\ m <= n + Cardinality(I)
    BY <1>3, <1>5, <2>2, <2>3, RoomForImages
  <2> QED
    BY <1>4, <1>6, <1>9, <2>1, <2>2, <2>4
<1>10. CASE i[2] # HEADER_PAGE
  <2> DEFINE headers == {j \in I : j[2] = HEADER_PAGE /\ j[1] <= i[1]}
  <2>1. CountAt(now, I, i) = IF headers = {} THEN n
                             ELSE batch[(CHOOSE j \in headers : \A k \in headers : k[1] <= j[1])[1]].count
    BY <1>4 DEF CountAt
  <2>2. CASE /\ batch[i[1]].count = n
             /\ \A j \in I : j[2] = HEADER_PAGE => i[1] < j[1]
    <3>1. headers = {}
      BY <1>8, <2>2
    <3> QED
      BY <1>7, <1>10, <2>1, <2>2, <3>1
  <2>3. ASSUME NEW d \in I, d[2] = HEADER_PAGE, d[1] <= i[1],
               batch[d[1]].count = batch[i[1]].count,
               \A j \in I : j[2] = HEADER_PAGE /\ j[1] <= i[1] => j[1] <= d[1]
        PROVE  i[2] < CountAt(now, I, i)
    <3>1. d \in headers /\ \A k \in headers : k[1] <= d[1]
      BY <2>3
    <3>2. PICK last : last = CHOOSE j \in headers : \A k \in headers : k[1] <= j[1]
      OBVIOUS
    <3>3. last \in headers /\ \A k \in headers : k[1] <= last[1]
      BY <3>1, <3>2
    <3>4. last[1] = d[1]
      <4>1. last[1] <= d[1] /\ d[1] <= last[1] /\ last \in I
        BY <3>1, <3>3
      <4> QED
        BY <1>8, <2>3, <4>1
    <3>5. headers # {}
      BY <3>1
    <3> HIDE DEF headers
    <3> QED
      BY <1>7, <2>1, <2>3, <3>2, <3>4, <3>5
  <2> QED
    BY <1>7, <1>10, <2>2, <2>3
<1> QED
  BY <1>9, <1>10

(* A step that adds no image to a log.                                     *)
LEMMA ChainStep ==
    ASSUME IInv, IInv', ChainInv, UNCHANGED batch,
           \A h \in Left'[HEADER_PAGE] :
              \/ h \in Left[HEADER_PAGE] \/ h = Torn
              \/ \A v \in Logs : <<h, HEADER_PAGE>> \in Pending(v),
           \A w \in Logs' : \/ Pending(w) = {}
                            \/ \E v \in Logs : Pending(w) = Pending(v),
           \A t \in todo', w \in Logs' :
              t[2] = HEADER_PAGE => <<t[3], HEADER_PAGE>> \in Pending(w),
           pc' \in {"log", "logged"} => pc \in {"log", "logged"} /\ doubt' = doubt,
           RefusesOnlyAfterHeaderWrite'
    PROVE  ChainInv'
<1>1. This' = This /\ This <= This'
  BY PageIds DEF This, IInv, Typed, BatchesTyped
<1>2. \A b \in 0 .. This : batch'[b] = batch[b]
  OBVIOUS
<1>3. \A w \in Logs' : Chained(Pending(w))'
  BY <1>1, <1>2, ChainInvStays
<1>4. pc' \in {"log", "logged"} => batch'[This'].count = doubt'.count
  BY <1>1 DEF ChainInv
<1> QED
  BY <1>3, <1>4 DEF ChainInv

LEMMA LogBeginChain ==
    ASSUME IInv, IInv', ChainInv, NEW pages, NEW n, NEW replaces, LogBegin(pages, n, replaces),
           n \in Nat, pc \in {"idle", "fresh"}
    PROVE  ChainInv'
<1>1. Typed /\ BatchesTyped /\ FilesTyped /\ StepTyped /\ Up /\ ~Logging /\ This \in Nat /\ len \in Nat
  <2>1. Typed /\ BatchesTyped /\ FilesTyped /\ StepTyped
    BY DEF IInv, Typed
  <2>2. Up /\ ~Logging
    BY DEF Up, Logging
  <2> QED
    BY <2>1, <2>2, PageIds DEF BatchesTyped, StepTyped
<1>2. UNCHANGED <<now, maybe, wal, walMaybe, failed, todo>> /\ pc' = "log"
  BY DEF LogBegin, files
<1>3. Left' = Left /\ LeftWals' = LeftWals /\ Base' = SubSeq(wal, 1, len')
  BY <1>2, SameLeft
<1>4. len = Len(wal) /\ Len(wal) \in Nat
  BY <1>1 DEF IInv, Settles
<1>5. len' = len
  BY <1>4 DEF LogBegin
<1>6. Logs' = Logs
  BY <1>1, <1>2, <1>3, <1>5 DEF Logs, Base, Up
<1>7. This' = This + 1
  <2>1. DOMAIN batch' = 0 .. This + 1
    BY DEF LogBegin
  <2> QED
    BY <1>1, <2>1, Numbered DEF This
<1>8. /\ \A b \in 0 .. This : batch'[b] = batch[b]
      /\ batch'[This + 1].count = n
  BY <1>1 DEF LogBegin
<1>9. doubt'.count = n
  BY DEF LogBegin, Pages
<1>10. todo = {}
  BY DEF IInv, TodoSound
<1>11. \A w \in Logs' : Chained(Pending(w))'
  BY <1>1, <1>3, <1>6, <1>7, <1>8, ChainInvStays
<1> QED
  BY <1>2, <1>7, <1>8, <1>9, <1>10, <1>11 DEF ChainInv, RefusesOnlyAfterHeaderWrite

LEMMA LogWriteChain == ASSUME IInv, IInv', ChainInv, LogWrite PROVE ChainInv'
<1>1. Typed /\ BatchesTyped /\ FilesTyped /\ StepTyped /\ Up /\ Up' /\ This \in Nat /\ len \in Nat
  BY PageIds DEF IInv, Typed, BatchesTyped, StepTyped, Up, LogWrite
<1>2. /\ pc = "log" /\ pc' = "logged"
      /\ wal' = Append(wal, NextRecord)
      /\ walMaybe' = walMaybe \cup {Append(wal, NextRecord), Append(wal, TornRecord)}
      /\ UNCHANGED <<now, maybe, failed, batch, todo, doubt, len>>
  BY DEF LogWrite
<1>3. Left' = Left /\ This' = This
  BY <1>2, SameMain DEF This
<1>4. wal \in Seq(Record) /\ wal \in LeftWals /\ wal \in Logs /\ len <= Len(wal)
  BY <1>1, NowLeft DEF FilesTyped, Logs, IInv, WalSound
<1>5. logLeft \subseteq batch[This].pages /\ Chunk \subseteq logLeft
      /\ Images(wal) = Pending(Base) \cup {This} \X (batch[This].pages \ logLeft)
  BY <1>2 DEF IInv, LogSound, Chunk
<1>6. NextRecord \in Record
  <2>1. Chunk \in SUBSET PageId /\ (logLeft # Chunk) \in BOOLEAN
    BY <1>1, <1>5 DEF StepTyped
  <2> QED
    BY <1>1, <2>1 DEF NextRecord, Record
<1>7. Base' = Base
  BY <1>2, <1>4, <1>6, <1>1, BeforeAppend DEF Base
<1>8. \A w \in Logs' : w \in Logs \/ w = Append(wal, NextRecord) \/ w = Append(wal, TornRecord)
  BY <1>1, <1>2, <1>7 DEF Logs, LeftWals, MayFail
<1>9. Pending(Append(wal, TornRecord)) = Pending(wal)
  BY <1>4, TornTail
<1>10. ASSUME ~NextRecord.more
       PROVE  Pending(Append(wal, NextRecord)) = Pending(Base) \cup {This} \X batch[This].pages
  <2>1. logLeft = Chunk /\ NextRecord.of = This /\ NextRecord.pages = Chunk
    BY <1>10 DEF NextRecord
  <2>2. Pending(Append(wal, NextRecord)) = Images(wal) \cup {This} \X Chunk
    BY <1>4, <1>6, <1>10, <2>1, PendingAppendLast, ImagesAppend
  <2>3. PICK P, L, pages : P = Pending(Base) /\ L = logLeft /\ pages = batch[This].pages
    OBVIOUS
  <2>4. {This} \X (pages \ L) \cup {This} \X L = {This} \X pages
    BY <1>5, <2>3, SMT
  <2> QED
    BY <1>5, <2>1, <2>2, <2>3, <2>4
<1>11. CASE NextRecord.more
  <2>1. Pending(Append(wal, NextRecord)) = Pending(wal)
    BY <1>4, <1>6, <1>11, PendingAppendMore
  <2>2. \A w \in Logs' : \E v \in Logs : Pending(w) = Pending(v)
    BY <1>4, <1>8, <1>9, <2>1
  <2>3. todo = {}
    BY <1>2 DEF IInv, TodoSound
  <2>4. RefusesOnlyAfterHeaderWrite'
    BY <1>2 DEF RefusesOnlyAfterHeaderWrite
  <2> QED
    BY <1>2, <1>3, <2>2, <2>3, <2>4, ChainStep
<1>12. CASE ~NextRecord.more
  <2>1. PICK I : I = Pending(Append(wal, NextRecord))
    OBVIOUS
  <2>2. I = Pending(Base) \cup {This} \X batch[This].pages
    BY <1>10, <1>12, <2>1
  <2>3. Chained(I)
    BY <1>2, <2>2, ChainedLog
  <2>4. \A J : Chained(J) => Chained(J)'
    BY <1>2, <1>3 DEF Chained, ChainFrom, Counts
  <2>5. \A w \in Logs' : Chained(Pending(w))
    BY <1>4, <1>8, <1>9, <2>1, <2>3 DEF ChainInv
  <2>6. \A w \in Logs' : Chained(Pending(w))'
    <3> SUFFICES ASSUME NEW w \in Logs' PROVE Chained(Pending(w))'
      OBVIOUS
    <3>1. PICK J : J = Pending(w)
      OBVIOUS
    <3> QED
      BY <2>4, <2>5, <3>1
  <2>7. todo = {}
    BY <1>2 DEF IInv, TodoSound
  <2> QED
    BY <1>2, <1>3, <2>6, <2>7 DEF ChainInv, RefusesOnlyAfterHeaderWrite
<1> QED
  BY <1>11, <1>12

LEMMA LogSyncChain == ASSUME IInv, IInv', ChainInv, LogSync PROVE ChainInv'
<1>1. Typed /\ BatchesTyped /\ FilesTyped /\ StepTyped /\ Up /\ len \in Nat
  BY PageIds DEF IInv, Typed, StepTyped, Up, LogSync
<1>2. /\ pc = "logged" /\ pc' # "refused" /\ walMaybe' = {wal}
      /\ UNCHANGED <<now, maybe, wal, failed, batch, todo>>
      /\ pc' \in {"log", "logged"} => doubt' = doubt
      /\ len' = len \/ len' = Len(wal)
  BY DEF LogSync
<1>3. Left' = Left
  BY <1>2, SameMain
<1>4. LeftWals' = {wal} /\ wal \in LeftWals /\ wal \in Seq(Record)
  BY <1>1, <1>2, NowLeft DEF LeftWals, FilesTyped
<1>5. Base' \in {Base, wal}
  BY <1>2, <1>4, WholeLog DEF Base
<1>6. \A w \in Logs' : w \in Logs
  BY <1>1, <1>4, <1>5 DEF Logs
<1>7. todo = {}
  BY <1>2 DEF IInv, TodoSound
<1>8. RefusesOnlyAfterHeaderWrite'
  BY <1>2 DEF RefusesOnlyAfterHeaderWrite
<1> QED
  BY <1>2, <1>3, <1>6, <1>7, <1>8, ChainStep

LEMMA LogFailsChain == ASSUME OneWay, IInv, IInv', ChainInv, LogFails PROVE ChainInv'
<1>1. Typed /\ FilesTyped /\ StepTyped /\ Up /\ len \in Nat
  BY DEF IInv, Typed, StepTyped, Up, LogFails
<1>2. /\ pc \in {"log", "logged"} /\ pc' \in {"down", "undo"}
      /\ \/ UNCHANGED <<wal, walMaybe>>
         \/ /\ wal' = Append(wal, TornRecord)
            /\ walMaybe' = walMaybe \cup {Append(wal, TornRecord)}
      /\ UNCHANGED <<now, maybe, batch, todo, len>>
      /\ UNCHANGED failed \/ (pc' = "down" /\ FailsBy("kill"))
  BY DEF LogFails
<1>3. wal \in Seq(Record) /\ wal \in LeftWals /\ wal \in Logs /\ len <= Len(wal)
  BY <1>1, NowLeft DEF FilesTyped, Logs, IInv, WalSound
<1>4. Pending(Append(wal, TornRecord)) = Pending(wal) /\ Pending(wal') = Pending(wal)
  BY <1>2, <1>3, TornTail
<1>5. Base' = Base
  BY <1>1, <1>2, <1>3, BeforeAppend, TornTail DEF Base
<1>6. todo = {}
  BY <1>2 DEF IInv, TodoSound
<1>7. RefusesOnlyAfterHeaderWrite'
  BY <1>2 DEF RefusesOnlyAfterHeaderWrite
<1>8. CASE UNCHANGED failed
  <2>1. Left' = Left
    BY <1>2, <1>8, SameMain
  <2>2. \A w \in LeftWals' : w \in LeftWals \/ w = wal' \/ w = Append(wal, TornRecord)
    BY <1>2, <1>8 DEF LeftWals, MayFail
  <2>3. \A w \in Logs' : \E v \in Logs : Pending(w) = Pending(v)
    BY <1>1, <1>3, <1>4, <1>5, <2>2 DEF Logs
  <2> QED
    BY <1>2, <1>6, <1>7, <2>1, <2>3, ChainStep
<1>9. CASE pc' = "down" /\ FailsBy("kill")
  <2>1. Left' = [p \in PageId |-> {now'[p]}] /\ LeftWals' = {wal'} /\ ~Up'
    BY <1>9, NoPowerAfterKill DEF Up
  <2>2. \A h \in Left'[HEADER_PAGE] : h \in Left[HEADER_PAGE]
    BY <1>1, <1>2, <2>1, NowLeft, PageIds
  <2>3. \A w \in Logs' : \E v \in Logs : Pending(w) = Pending(v)
    BY <1>3, <1>4, <2>1 DEF Logs
  <2> QED
    BY <1>2, <1>6, <1>7, <2>2, <2>3, ChainStep
<1> QED
  BY <1>2, <1>8, <1>9

LEMMA UndoCutChain == ASSUME IInv, IInv', ChainInv, UndoCut PROVE ChainInv'
<1>1. Typed /\ FilesTyped /\ StepTyped /\ Up /\ len \in Nat
  BY DEF IInv, Typed, StepTyped, Up, UndoCut
<1>2. /\ pc = "undo" /\ pc' = "undone"
      /\ wal' = Base /\ walMaybe' = walMaybe \cup {wal'}
      /\ UNCHANGED <<now, maybe, batch, todo, len, failed>>
  BY DEF UndoCut, Base
<1>3. wal \in Seq(Record) /\ Base \in Logs /\ len <= Len(wal)
  BY <1>1, NowLeft DEF FilesTyped, Logs, IInv, WalSound
<1>4. Base' = Base
  BY <1>1, <1>2, <1>3 DEF Base
<1>5. Left' = Left
  BY <1>2, SameMain
<1>6. \A w \in LeftWals' : w \in LeftWals \/ w = Base
  BY <1>2 DEF LeftWals, MayFail
<1>7. \A w \in Logs' : w \in Logs
  BY <1>3, <1>4, <1>6 DEF Logs
<1>8. todo = {} /\ RefusesOnlyAfterHeaderWrite'
  BY <1>2 DEF IInv, TodoSound, RefusesOnlyAfterHeaderWrite
<1> QED
  BY <1>2, <1>5, <1>7, <1>8, ChainStep

LEMMA UndoSyncChain == ASSUME IInv, IInv', ChainInv, UndoSync \/ UndoFails PROVE ChainInv'
<1>1. Typed /\ FilesTyped /\ Up
  BY DEF IInv, Typed, Up, UndoSync, UndoFails
<1>2. /\ pc \in {"undo", "undone"} /\ pc' \in {"idle", "poisoned"}
      /\ walMaybe' = {wal} \/ UNCHANGED walMaybe
      /\ UNCHANGED <<now, maybe, wal, batch, todo, len, failed>>
  BY DEF UndoSync, UndoFails, files
<1>3. Left' = Left /\ Base' = Base
  BY <1>2, SameMain DEF Base
<1>4. wal \in LeftWals
  BY <1>1, NowLeft
<1>5. \A w \in LeftWals' : w \in LeftWals
  BY <1>2, <1>4 DEF LeftWals, MayFail
<1>6. \A w \in Logs' : w \in Logs
  BY <1>1, <1>3, <1>5 DEF Logs
<1>7. todo = {} /\ RefusesOnlyAfterHeaderWrite'
  BY <1>2 DEF IInv, TodoSound, RefusesOnlyAfterHeaderWrite
<1> QED
  BY <1>2, <1>3, <1>6, <1>7, ChainStep

(* Down, whichever way.                                                    *)
LEMMA CrashChain ==
    ASSUME OneWay, IInv, IInv', ChainInv, Kill \/ ClosePoisoned \/ PowerFailure
    PROVE  ChainInv'
<1>1. Typed /\ FilesTyped
  BY DEF IInv, Typed
<1>2. /\ pc' = "down" /\ todo' = {} /\ UNCHANGED batch /\ ~Up'
  BY DEF Kill, ClosePoisoned, PowerFailure, DownBy, Up
<1>3. \A h \in Left'[HEADER_PAGE] : h \in Left[HEADER_PAGE]
  <2>1. CASE Kill \/ ClosePoisoned
    <3>1. FailsBy("kill") /\ UNCHANGED now
      BY <2>1 DEF Kill, ClosePoisoned, DownBy, files
    <3>2. Left' = [p \in PageId |-> {now'[p]}]
      BY <3>1, NoPowerAfterKill
    <3> QED
      BY <1>1, <3>1, <3>2, NowLeft, PageIds
  <2>2. CASE PowerFailure
    <3>1. MayFail("power") /\ now' \in Outcomes /\ maybe' = [p \in PageId |-> {now'[p]}]
      BY <2>2 DEF PowerFailure, DownBy, FailsBy
    <3>2. now'[HEADER_PAGE] \in Left[HEADER_PAGE]
      BY <3>1, PageIds DEF Outcomes, Left
    <3>3. Left'[HEADER_PAGE] = {now'[HEADER_PAGE]}
      BY <3>1, PageIds DEF Left
    <3> QED
      BY <3>2, <3>3
  <2> QED
    BY <2>1, <2>2
<1>4. \A w \in LeftWals' : w \in LeftWals
  <2>1. CASE Kill \/ ClosePoisoned
    <3>1. FailsBy("kill") /\ UNCHANGED wal
      BY <2>1 DEF Kill, ClosePoisoned, DownBy, files
    <3> QED
      BY <1>1, <3>1, NoPowerAfterKill, NowLeft
  <2>2. CASE PowerFailure
    <3>1. MayFail("power") /\ wal' \in walMaybe /\ walMaybe' = {wal'}
      BY <2>2 DEF PowerFailure, DownBy, FailsBy
    <3> QED
      BY <3>1 DEF LeftWals
  <2> QED
    BY <2>1, <2>2
<1>5. \A w \in Logs' : w \in Logs
  BY <1>2, <1>4 DEF Logs
<1>6. RefusesOnlyAfterHeaderWrite'
  BY <1>2 DEF RefusesOnlyAfterHeaderWrite
<1> QED
  BY <1>2, <1>3, <1>5, <1>6, ChainStep

LEMMA ToFileChain == ASSUME IInv, IInv', ChainInv, CheckpointBegin \/ Close PROVE ChainInv'
<1>1. Typed /\ BatchesTyped /\ FilesTyped /\ Up /\ ~Logging
  BY DEF IInv, Typed, Up, Logging, CheckpointBegin, Close
<1>2. /\ pc \in {"idle", "checkpoint"} /\ pc' \in {"flushed", "write"}
      /\ todo' = (IF image = 0 THEN {}
                  ELSE {<<0, p, image>> : p \in batch[image].pages \ {HEADER_PAGE}})
                 \cup {<<1, p, current.page[p]>> : p \in waiting}
      /\ UNCHANGED <<now, maybe, wal, walMaybe, batch, len, failed>>
  BY DEF CheckpointBegin, Close, ToFile, files
<1>3. Left' = Left /\ LeftWals' = LeftWals /\ Base' = Base
  BY <1>2, SameLeft DEF Base
<1>4. \A w \in Logs' : w \in Logs
  BY <1>1, <1>3 DEF Logs
<1>5. ASSUME NEW t \in todo', t[2] = HEADER_PAGE
      PROVE  HEADER_PAGE \in waiting /\ t[3] = current.page[HEADER_PAGE]
  BY <1>2, <1>5
<1>6. ASSUME HEADER_PAGE \in waiting, NEW w \in Logs
      PROVE  <<current.page[HEADER_PAGE], HEADER_PAGE>> \in Pending(w)
  <2>1. HEADER_PAGE \in ToWrite
    BY <1>6 DEF ToWrite
  <2>2. HasImage(Pending(Base), HEADER_PAGE) /\ HasImage(Pending(wal), HEADER_PAGE)
    BY <1>1, <2>1, NowLeft DEF IInv, WaitingSound
  <2>3. IsNewest(Pending(Base), HEADER_PAGE, current.page[HEADER_PAGE])
    BY <1>1, <2>2, PageIds DEF IInv, WalSound, Gives, Within
  <2>4. wal # <<>>
    BY <2>2, NothingPending DEF HasImage
  <2>5. LeftWals = {wal} /\ len = Len(wal)
    BY <1>1, <2>4 DEF IInv, Settles
  <2>6. Base = wal
    BY <1>1, <2>5, WholeLog DEF Base, FilesTyped
  <2> QED
    BY <2>3, <2>5, <2>6 DEF Logs, IsNewest
<1>7. RefusesOnlyAfterHeaderWrite'
  BY <1>2 DEF RefusesOnlyAfterHeaderWrite
<1> QED
  BY <1>2, <1>3, <1>4, <1>5, <1>6, <1>7, ChainStep

LEMMA WriteChain ==
    ASSUME IInv, IInv', ChainInv, FileFails \/ \E t \in todo : WritePage(t)
    PROVE  ChainInv'
<1>1. Typed /\ FilesTyped /\ StepTyped /\ ~Logging
  BY DEF IInv, Typed, Logging, FileFails, WritePage
<1>2. /\ UNCHANGED <<wal, walMaybe, failed, batch, len>>
      /\ pc' \in {"write", "restore", "idle", "down"}
      /\ todo' \subseteq todo
  BY DEF FileFails, WritePage, GivenUp
<1>3. \/ UNCHANGED <<now, maybe>>
      \/ \E t \in todo : \E x \in {t[3], Torn} :
            /\ now' = [now EXCEPT ![t[2]] = x]
            /\ maybe' = [maybe EXCEPT ![t[2]] = @ \cup {t[3], Torn}]
  <2>1. ASSUME NEW t \in todo, WritePage(t)
        PROVE  \E x \in {t[3], Torn} :
                  /\ now' = [now EXCEPT ![t[2]] = x]
                  /\ maybe' = [maybe EXCEPT ![t[2]] = @ \cup {t[3], Torn}]
    BY <2>1 DEF WritePage
  <2>2. CASE FileFails
    BY <2>2 DEF FileFails
  <2> QED
    BY <2>1, <2>2
<1>4. LeftWals' = LeftWals /\ Base' = Base
  BY <1>2, SameWals DEF Base
<1>5. Up' => Up
  <2>1. ASSUME NEW t \in todo, WritePage(t) PROVE Up' => Up
    BY <2>1 DEF WritePage, Up
  <2>2. ASSUME FileFails PROVE Up' => Up
    BY <1>1, <2>2 DEF FileFails, GivenUp, Up, IInv, StepSound
  <2> QED
    BY <2>1, <2>2
<1>6. \A w \in Logs' : w \in Logs
  BY <1>4, <1>5 DEF Logs
<1>7. ASSUME NEW h \in Left'[HEADER_PAGE]
      PROVE  \/ h \in Left[HEADER_PAGE] \/ h = Torn
             \/ \A v \in Logs : <<h, HEADER_PAGE>> \in Pending(v)
  <2>1. CASE UNCHANGED <<now, maybe>>
    BY <1>2, <1>7, <2>1, SameMain
  <2>2. ASSUME NEW t \in todo, NEW x \in {t[3], Torn},
               now' = [now EXCEPT ![t[2]] = x],
               maybe' = [maybe EXCEPT ![t[2]] = @ \cup {t[3], Torn}]
        PROVE  h \in Left[HEADER_PAGE] \/ h = Torn \/ (h = t[3] /\ t[2] = HEADER_PAGE)
    <3>1. t[2] \in PageId
      BY <1>1, TodoTyped
    <3>2. MayFail("power")' <=> MayFail("power")
      BY <1>2 DEF MayFail
    <3>3. now' = [now EXCEPT ![t[2]] = x] /\ maybe' = [maybe EXCEPT ![t[2]] = @ \cup {t[3], Torn}]
      BY <2>2
    <3>4. /\ now'[HEADER_PAGE] = IF t[2] = HEADER_PAGE THEN x ELSE now[HEADER_PAGE]
          /\ maybe'[HEADER_PAGE] = IF t[2] = HEADER_PAGE THEN maybe[HEADER_PAGE] \cup {t[3], Torn}
                                   ELSE maybe[HEADER_PAGE]
      BY <1>1, <3>1, <3>3, PageIds DEF FilesTyped
    <3> QED
      BY <1>7, <3>2, <3>4, PageIds DEF Left
  <2>3. CASE \E t \in todo : \E x \in {t[3], Torn} :
                /\ now' = [now EXCEPT ![t[2]] = x]
                /\ maybe' = [maybe EXCEPT ![t[2]] = @ \cup {t[3], Torn}]
    BY <2>2, <2>3 DEF ChainInv
  <2> QED
    BY <1>3, <2>1, <2>3
<1>8. \A t \in todo', w \in Logs' : t[2] = HEADER_PAGE => <<t[3], HEADER_PAGE>> \in Pending(w)
  BY <1>2, <1>6 DEF ChainInv
<1>9. RefusesOnlyAfterHeaderWrite'
  BY <1>2 DEF RefusesOnlyAfterHeaderWrite
<1> QED
  BY <1>2, <1>6, <1>7, <1>8, <1>9, ChainStep

LEMMA CutFileChain == ASSUME IInv, IInv', ChainInv, CutFile PROVE ChainInv'
<1> USE PageIds
<1>1. Typed /\ FilesTyped /\ BatchesTyped /\ StepTyped /\ pc \in {"write", "restore"}
      /\ todo = {} /\ pc' = "cut"
  BY DEF IInv, Typed, CutFile
<1>2. UNCHANGED <<wal, walMaybe, len, batch, task, logLeft, waiting,
                   image, todo, current, doubt, faults, failed>>
  BY DEF CutFile
<1>3. ~Logging /\ (Up <=> pc = "write") /\ (Up' => Up)
  BY <1>1, <1>2 DEF Logging, Up, IInv, StepSound
<1>4. PICK c \in {current, doubt} : c # Nothing /\ Reaches(c)
  BY <1>3 DEF IInv, Recovers
<1>5. IsWhole(c) /\ (Up => c = current) /\ c.count \in 0 .. MaxPages
  BY <1>1, <1>3, <1>4 DEF BatchesTyped, IInv, Settles, IsWhole, Contents
<1>6. now[HEADER_PAGE] = c.page[HEADER_PAGE]
  BY <1>1, <1>4 DEF Reaches, LeavesOn, Within
<1>7. now[HEADER_PAGE] # Absent => /\ c.count > 0
                                   /\ pc = "restore" => HeaderCount(now) = c.count
  <2>1. CASE c.count = 0
    BY <1>5, <1>6, <2>1 DEF IsWhole, HEADER_PAGE
  <2>2. CASE c.count > 0
    <3>1. c.page[HEADER_PAGE] \in 0 .. This /\ batch[c.page[HEADER_PAGE]].count = c.count
      BY <1>5, <2>2 DEF IsWhole, HEADER_PAGE
    <3>2. c.page[HEADER_PAGE] \notin {Torn, Absent}
      BY <1>1, <3>1 DEF BatchesTyped, Torn, Absent
    <3> QED
      BY <1>6, <2>2, <3>1, <3>2 DEF HeaderCount
  <2> QED
    BY <1>5, <2>1, <2>2
<1>8. now'[HEADER_PAGE] = now[HEADER_PAGE] /\ maybe'[HEADER_PAGE] = maybe[HEADER_PAGE]
  <2>1. CASE now[HEADER_PAGE] = Absent
    BY <2>1 DEF CutFile
  <2>2. CASE now[HEADER_PAGE] # Absent
    <3> DEFINE n == IF pc = "write" THEN current.count ELSE HeaderCount(now)
    <3>1. n > 0
      BY <1>1, <1>3, <1>5, <1>7, <2>2
    <3>2. ~(HEADER_PAGE >= n)
      BY <1>3, <1>5, <1>7, <1>1, <2>2 DEF HEADER_PAGE
    <3> QED
      BY <3>2 DEF CutFile
  <2> QED
    BY <2>1, <2>2
<1>9. Left'[HEADER_PAGE] = Left[HEADER_PAGE]
  BY <1>2, <1>8 DEF Left, MayFail
<1>10. LeftWals' = LeftWals /\ Base' = Base
  BY <1>2, SameWals DEF Base
<1>11. \A w \in Logs' : w \in Logs
  BY <1>3, <1>10 DEF Logs
<1>12. RefusesOnlyAfterHeaderWrite'
  BY <1>1 DEF RefusesOnlyAfterHeaderWrite
<1> QED
  BY <1>1, <1>2, <1>9, <1>11, <1>12, ChainStep

LEMMA SyncChain ==
    ASSUME IInv, IInv', ChainInv, SyncFile \/ EmptyWal \/ SyncWal \/ WalFails
    PROVE  ChainInv'
<1> USE PageIds
<1>1. Typed /\ FilesTyped /\ ~Logging
  BY DEF IInv, Typed, Logging, SyncFile, EmptyWal, SyncWal, WalFails
<1>2. UNCHANGED <<now, batch, failed, todo>>
  BY DEF SyncFile, EmptyWal, SyncWal, WalFails, files
<1>3. todo = {} /\ pc' \in {"flushed", "emptied", "down", "fresh", "idle"}
  BY DEF IInv, TodoSound, SyncFile, EmptyWal, SyncWal, WalFails, GivenUp
<1>4. \A h \in Left'[HEADER_PAGE] : h \in Left[HEADER_PAGE]
  <2>1. UNCHANGED maybe \/ maybe' = [p \in PageId |-> {now[p]}]
    BY DEF SyncFile, EmptyWal, SyncWal, WalFails, files
  <2>2. now[HEADER_PAGE] \in Left[HEADER_PAGE]
    BY <1>1, NowLeft
  <2> QED
    BY <1>2, <2>1, <2>2 DEF Left, MayFail
<1>5. wal \in LeftWals /\ wal \in Seq(Record) /\ wal \in Logs
  BY <1>1, NowLeft DEF FilesTyped, Logs
<1>6. \A w \in Logs' : Pending(w) = {} \/ \E v \in Logs : Pending(w) = Pending(v)
  <2>1. CASE SyncFile
    <3>1. UNCHANGED <<wal, walMaybe, len, task>> /\ pc = "cut" /\ pc' = "flushed"
      BY <2>1 DEF SyncFile
    <3>2. LeftWals' = LeftWals /\ Base' = Base /\ (Up' => Up)
      BY <1>2, <3>1, SameWals DEF Base, Up
    <3> QED
      BY <3>2 DEF Logs
  <2>2. CASE EmptyWal
    <3>1. wal' = <<>> /\ walMaybe' = walMaybe \cup {<<>>} /\ len' = 0
      BY <2>2 DEF EmptyWal
    <3>2. Base' = <<>>
      BY <3>1, EmptyLog, WholeLog DEF Base
    <3>3. \A w \in LeftWals' : w \in LeftWals \/ w = <<>>
      BY <1>2, <3>1 DEF LeftWals, MayFail
    <3> QED
      BY <3>2, <3>3, NothingPending DEF Logs
  <2>3. CASE SyncWal
    <3>1. wal' = wal /\ walMaybe' = {wal} /\ len' = len
      BY <2>3 DEF SyncWal
    <3>2. wal = <<>> /\ len = 0
      BY <2>3 DEF SyncWal, IInv, StepSound
    <3>3. Base' = <<>>
      BY <3>1, <3>2, EmptyLog, WholeLog DEF Base
    <3>4. LeftWals' = {wal}
      BY <3>1 DEF LeftWals
    <3> QED
      BY <3>2, <3>3, <3>4, NothingPending DEF Logs
  <2>4. CASE WalFails
    <3>1. UNCHANGED <<wal, walMaybe, len>> /\ pc \in {"flushed", "emptied"}
          /\ pc' = IF task = "work" THEN "idle" ELSE "down"
      BY <2>4 DEF WalFails, GivenUp, files
    <3>2. LeftWals' = LeftWals /\ Base' = Base /\ (Up' => Up)
      BY <1>2, <3>1, SameWals DEF Base, Up
    <3> QED
      BY <3>2 DEF Logs
  <2> QED
    BY <2>1, <2>2, <2>3, <2>4
<1>7. RefusesOnlyAfterHeaderWrite'
  BY <1>3 DEF RefusesOnlyAfterHeaderWrite
<1> QED
  BY <1>2, <1>3, <1>4, <1>6, <1>7, ChainStep

LEMMA OpenChain == ASSUME IInv, IInv', ChainInv, Open PROVE ChainInv'
<1> USE PageIds
<1>1. Typed /\ FilesTyped /\ ~Logging /\ ~Up
  BY DEF IInv, Typed, Logging, Up, Open
<1>2. /\ UNCHANGED <<now, maybe, wal, walMaybe, batch, failed>>
      /\ pc' \in {"refused", "flushed", "restore"} /\ task' = "open"
  BY DEF Open, files
<1>3. Left' = Left /\ LeftWals' = LeftWals /\ ~Up'
  BY <1>2, SameMain, SameWals DEF Up
<1>4. wal \in Logs /\ Logs' = LeftWals /\ Logs = LeftWals
      /\ Pending(wal) \subseteq (1 .. This) \X PageId
  BY <1>1, <1>3, LogsTyped DEF Logs
<1>5. PICK I : I = Pending(wal)
  OBVIOUS
<1>6. ASSUME NEW t \in todo', NEW w \in Logs', t[2] = HEADER_PAGE
      PROVE  <<t[3], HEADER_PAGE>> \in Pending(w)
  <2>1. todo' \subseteq {<<i[1], i[2], i[1]>> : i \in I}
    BY <1>5 DEF Open
  <2>2. PICK i \in I : t = <<i[1], i[2], i[1]>>
    BY <1>6, <2>1
  <2>3. i = <<t[3], HEADER_PAGE>>
    <3>1. i = <<i[1], i[2]>>
      BY <1>4, <1>5
    <3>2. t[3] = i[1] /\ t[2] = i[2]
      BY <2>2
    <3> QED
      BY <1>6, <3>1, <3>2
  <2>4. LeftWals = {wal} \/ wal = <<>>
    BY <1>1 DEF IInv, Settles
  <2>5. wal # <<>>
    BY <1>5, <2>2, NothingPending
  <2> QED
    BY <1>4, <1>5, <1>6, <2>3, <2>4, <2>5
<1>7. RefusesOnlyAfterHeaderWrite'
  <2> SUFFICES ASSUME pc' = "refused", now[HEADER_PAGE] # Torn,
                      <<now[HEADER_PAGE], HEADER_PAGE>> \notin I,
                      ~(Length(now) < HeaderCount(now))
               PROVE  FALSE
    BY <1>2, <1>5 DEF RefusesOnlyAfterHeaderWrite, HeaderCount
  <2>1. ~(\E i \in 1 .. Len(wal) - 1 : wal[i] = TornRecord)
    <3>1. \A i \in 1 .. Len(wal) : wal[i] = TornRecord => i = Len(wal)
      BY DEF IInv, OnlyTailTorn
    <3>2. Len(wal) \in Nat
      BY <1>1 DEF FilesTyped
    <3> QED
      BY <3>1, <3>2
  <2>2. I # {} /\ ~Restorable(now, I)
    BY <1>5, <2>1 DEF Open
  <2>3. Chained(I) /\ I \subseteq (1 .. This) \X PageId
    BY <1>4, <1>5 DEF ChainInv
  <2>4. Length(now) >= HeaderCount(now)
    <3>1. Length(now) \in Nat
      BY LengthIsNat
    <3>2. HeaderCount(now) \in Int
      <4>1. CASE now[HEADER_PAGE] = Absent
        BY <4>1 DEF HeaderCount
      <4>2. CASE now[HEADER_PAGE] # Absent
        <5>1. now[HEADER_PAGE] \in Left[HEADER_PAGE]
          BY <1>1, NowLeft
        <5>2. PICK n \in 0 .. MaxPages : Counts(now[HEADER_PAGE], n)
          BY <2>3, <5>1 DEF Chained
        <5> QED
          BY <4>2, <5>2 DEF Counts, HeaderCount
      <4> QED
        BY <4>1, <4>2
    <3> QED
      BY <3>1, <3>2
  <2> QED
    BY <2>2, <2>3, <2>4, Accepted
<1> QED
  BY <1>2, <1>3, <1>4, <1>6, <1>7, ChainStep

LEMMA InitChain == ASSUME Init PROVE ChainInv
<1> USE PageIds
<1>1. IInv
  BY InitIInv
<1>2. wal = <<>> /\ walMaybe = {<<>>} /\ todo = {} /\ pc = "down"
  BY DEF Init
<1>3. Logs = {<<>>}
  BY <1>2 DEF Logs, LeftWals, Up
<1>4. Left[HEADER_PAGE] = {now[HEADER_PAGE]}
  BY DEF Init, Left
<1>5. now[HEADER_PAGE] = 0 \/ now[HEADER_PAGE] = Absent
  BY DEF Init, First, Pages
<1>6. This \in Nat /\ batch[0].count \in 0 .. MaxPages
  BY <1>1 DEF IInv, Typed, BatchesTyped
<1>7. \E n \in 0 .. MaxPages : Counts(now[HEADER_PAGE], n)
  <2>1. CASE now[HEADER_PAGE] = Absent
    <3>1. Counts(now[HEADER_PAGE], 0)
      BY <2>1 DEF Counts
    <3> QED
      BY <3>1
  <2>2. CASE now[HEADER_PAGE] = 0
    BY <1>6, <2>2 DEF Counts, Absent
  <2> QED
    BY <1>5, <2>1, <2>2
<1>8. Chained({})
  BY <1>4, <1>7 DEF Chained, ChainFrom
<1> QED
  BY <1>2, <1>3, <1>8, NothingPending DEF ChainInv, RefusesOnlyAfterHeaderWrite

LEMMA NextChain == ASSUME OneWay, IInv, IInv', ChainInv, [Next]_vars PROVE ChainInv'
<1>1. CASE \E pages \in SUBSET PageId, n \in current.count .. MaxPages : Transact(pages, n)
  <2>1. PICK pages \in SUBSET PageId, n \in current.count .. MaxPages : Transact(pages, n)
    BY <1>1
  <2>2. n \in Nat
    BY CurrentThere, PageIds DEF IInv, Typed
  <2> QED
    BY <2>1, <2>2, LogBeginChain DEF Transact
<1>2. CASE \E n \in 2 .. MaxPages : Compact(n)
  <2>1. PICK n \in 2 .. MaxPages : Compact(n)
    BY <1>2
  <2>2. n \in Nat
    BY PageIds
  <2> QED
    BY <2>1, <2>2, LogBeginChain DEF Compact
<1>3. CASE Bootstrap
  BY <1>3, LogBeginChain DEF Bootstrap
<1>4. CASE UNCHANGED vars
  <2>1. Left' = Left /\ LeftWals' = LeftWals /\ Base' = Base /\ Up' = Up
    BY <1>4, SameLeft DEF vars, files, Base, Up
  <2>2. Logs' = Logs /\ UNCHANGED <<todo, pc, batch, doubt, now, wal>>
    BY <1>4, <2>1 DEF Logs, vars, files
  <2>3. RefusesOnlyAfterHeaderWrite'
    BY <2>2 DEF ChainInv, RefusesOnlyAfterHeaderWrite, HeaderCount
  <2> QED
    BY <2>1, <2>2, <2>3, ChainStep DEF ChainInv
<1> QED
  BY <1>1, <1>2, <1>3, <1>4, LogWriteChain, LogSyncChain, LogFailsChain, UndoCutChain,
     UndoSyncChain, CrashChain, ToFileChain, WriteChain, CutFileChain, SyncChain,
     OpenChain DEF Next

(* `check_restorable` refuses a WAL only where the main file's header is   *)
(* torn or is one of the WAL's own, or the file is shorter than its header *)
(* says: after a checkpoint or a recovery that was cut short at the header.*)
THEOREM RefusalsExplained == OneWay => (Spec => []RefusesOnlyAfterHeaderWrite)
<1> SUFFICES ASSUME OneWay PROVE Spec => []RefusesOnlyAfterHeaderWrite
  OBVIOUS
<1>1. Init => IInv /\ ChainInv
  BY InitIInv, InitChain
<1>2. IInv /\ ChainInv /\ [Next]_vars => (IInv /\ ChainInv)'
  BY NextIInv, NextChain
<1>3. IInv /\ ChainInv => RefusesOnlyAfterHeaderWrite
  BY DEF ChainInv
<1> QED
  BY <1>1, <1>2, <1>3, PTL DEF Spec
=============================================================================
