---------------------------- MODULE Pages_proofs ----------------------------
(***************************************************************************)
(* IInv is an invariant of Spec, for any readers and any bounds: reads are *)
(* of their snapshot's commit, none is refused that hasn't been ended, and *)
(* an integrity check reports no damage that isn't there.  Beside it, the  *)
(* counts kept commit by commit are exact, and the memory stays within its *)
(* limit, for which alone snapshots are ended.                             *)
(***************************************************************************)
EXTENDS Pages, FiniteSetTheorems, TLAPS

-----------------------------------------------------------------------------
(* What pruning and forgetting do to a chain of versions, for every chain  *)
(* and every set of open snapshots.                                        *)

(* `chain.last()` is the version no other is newer than.                   *)
LEMMA NewestIs ==
    ASSUME NEW chain \in SUBSET Version, Distinct(chain),
           NEW v \in chain, IsNewest(chain, v)
    PROVE  Newest(chain) = v
<1>1. \A w \in chain : IsNewest(chain, w) => w = v
  BY DEF IsNewest, Distinct, Version
<1> QED
  BY <1>1 DEF Newest

(* The lookup in `read_at` gives a reader the version it reads.            *)
LEMMA ReadableAtIs ==
    ASSUME NEW chain \in SUBSET Version, Distinct(chain),
           NEW s \in Nat, NEW v \in chain, ReadBy(chain, v, s)
    PROVE  AtOrBefore(chain, s) # {} /\ ReadableAt(chain, s) = v
<1>1. v \in AtOrBefore(chain, s)
  BY DEF AtOrBefore, ReadBy
<1>2. AtOrBefore(chain, s) \in SUBSET Version
  BY DEF AtOrBefore
<1>3. IsNewest(AtOrBefore(chain, s), v)
  BY DEF IsNewest, AtOrBefore, ReadBy, Version
<1>4. Distinct(AtOrBefore(chain, s))
  BY DEF Distinct, AtOrBefore
<1> QED
  BY <1>1, <1>2, <1>3, <1>4, NewestIs DEF ReadableAt

(* `prune` drops no version a snapshot in `live` reads, and none newer     *)
(* takes its place.                                                        *)
LEMMA PruneKeepsRead ==
    ASSUME NEW chain, NEW live, NEW s, NEW v \in chain,
           ReadBy(chain, v, s), s \in live \/ IsNewest(chain, v)
    PROVE  v \in Prune(chain, live) /\ ReadBy(Prune(chain, live), v, s)
BY DEF Prune, ReadBy

(* `prune` leaves the newest version the newest.                           *)
LEMMA PruneKeepsNewest ==
    ASSUME NEW chain \in SUBSET Version, Distinct(chain), NEW live,
           NEW v \in chain, IsNewest(chain, v)
    PROVE  /\ v \in Prune(chain, live)
           /\ IsNewest(Prune(chain, live), v)
           /\ \A w \in Prune(chain, live) :
                 IsNewest(Prune(chain, live), w) => w = v
<1>1. v \in Prune(chain, live) /\ IsNewest(Prune(chain, live), v)
  BY DEF Prune, IsNewest
<1>2. ASSUME NEW w \in Prune(chain, live), IsNewest(Prune(chain, live), w)
      PROVE  w = v
  <2>1. w \in chain /\ v.seq <= w.seq /\ w.seq <= v.seq
    BY <1>1, <1>2 DEF Prune, IsNewest
  <2> QED
    BY <2>1 DEF Distinct, Version
<1> QED
  BY <1>1, <1>2

(* What `forget` leaves of a chain with a newest version: it is a part of  *)
(* the chain; if anything is left, the newest is, as the newest, and so is *)
(* every version a snapshot in `live` reads; if nothing is, the newest was *)
(* written and was what every snapshot in `live` with a version reads.     *)
LEMMA ForgetKeeps ==
    ASSUME NEW chain \in SUBSET Version, Distinct(chain), NEW live,
           NEW m \in chain, IsNewest(chain, m)
    PROVE  /\ Forget(chain, live) \subseteq chain
           /\ Forget(chain, live) # {} =>
                 /\ m \in Forget(chain, live)
                 /\ IsNewest(Forget(chain, live), m)
                 /\ \A s \in live : \A v \in chain : ReadBy(chain, v, s) =>
                       /\ v \in Forget(chain, live)
                       /\ ReadBy(Forget(chain, live), v, s)
           /\ Forget(chain, live) = {} =>
                 /\ m.written
                 /\ \A s \in live : \A v \in chain :
                       ReadBy(chain, v, s) => v = m
<1> DEFINE kept == Prune(chain, live)
<1>1. kept \subseteq chain
  BY DEF Prune
<1>2. m \in kept /\ IsNewest(kept, m)
  BY PruneKeepsNewest
<1>3. \A s \in live : \A v \in chain : ReadBy(chain, v, s) =>
         v \in kept /\ ReadBy(kept, v, s)
  BY PruneKeepsRead
<1>4. CASE Older(kept) = {} /\ ~Unwritten(kept)
  <2>1. Forget(chain, live) = {}
    BY <1>4 DEF Forget
  <2>2. m.written
    BY <1>2, <1>4 DEF Unwritten
  <2>3. ASSUME NEW s \in live, NEW v \in chain, ReadBy(chain, v, s)
        PROVE  v = m
    <3>1. v \in kept
      BY <1>3, <2>3
    <3>2. ~(m.seq > v.seq)
      BY <1>2, <1>4, <3>1 DEF Older
    <3>3. v.seq <= m.seq /\ v.seq \in Nat /\ m.seq \in Nat
      BY <1>2, <3>1 DEF IsNewest, Version
    <3> QED
      BY <3>2, <3>3 DEF Distinct
  <2> QED
    BY <2>1, <2>2, <2>3
<1>5. CASE ~(Older(kept) = {} /\ ~Unwritten(kept))
  <2>1. Forget(chain, live) = kept
    BY <1>5 DEF Forget
  <2> QED
    BY <1>1, <1>2, <1>3, <2>1
<1> QED
  BY <1>4, <1>5

(* `forget` changes nothing about whether a page waits for a checkpoint.   *)
LEMMA ForgetKeepsUnwritten ==
    ASSUME NEW chain \in SUBSET Version, Distinct(chain), NEW live,
           NEW m \in chain, IsNewest(chain, m)
    PROVE  Unwritten(Forget(chain, live)) <=> Unwritten(chain)
<1>1. Unwritten(chain) <=> ~m.written
  BY DEF Unwritten, IsNewest, Distinct, Version
<1>2. CASE Forget(chain, live) = {}
  BY <1>1, <1>2, ForgetKeeps DEF Unwritten
<1>3. CASE Forget(chain, live) # {}
  <2>1. /\ m \in Forget(chain, live)
        /\ IsNewest(Forget(chain, live), m)
        /\ Forget(chain, live) \subseteq chain
    BY <1>3, ForgetKeeps
  <2> QED
    BY <1>1, <2>1 DEF Unwritten, IsNewest, Distinct, Version
<1> QED
  BY <1>2, <1>3

(* Marking the newest version changes no version's commit or bytes.        *)
LEMMA MarkKeeps ==
    ASSUME NEW chain \in SUBSET Version, Distinct(chain)
    PROVE  /\ MarkWritten(chain) \in SUBSET Version
           /\ MarkWritten(chain) = {} <=> chain = {}
           /\ \A w \in MarkWritten(chain) : \E v \in chain :
                 v.seq = w.seq /\ v.page = w.page
           /\ \A v \in chain : \E w \in MarkWritten(chain) :
                 w.seq = v.seq /\ w.page = v.page
           /\ Distinct(MarkWritten(chain))
<1> DEFINE new(v) == IF IsNewest(chain, v) THEN [v EXCEPT !.written = TRUE]
                     ELSE v
<1>1. MarkWritten(chain) = {new(v) : v \in chain}
  BY DEF MarkWritten
<1>2. ASSUME NEW v \in chain
      PROVE  new(v) \in Version /\ new(v).seq = v.seq /\ new(v).page = v.page
  BY DEF Version
<1> HIDE DEF new
<1>3. /\ \A w \in MarkWritten(chain) : \E v \in chain : w = new(v)
      /\ \A v \in chain : new(v) \in MarkWritten(chain)
  BY <1>1
<1>4. Distinct(MarkWritten(chain))
  BY <1>2, <1>3 DEF Distinct
<1> QED
  BY <1>2, <1>3, <1>4

-----------------------------------------------------------------------------
(* What the actions keep.                                                  *)

(* The page ids are numbers.                                               *)
LEMMA PageIds == PageId \subseteq Nat /\ HEADER_PAGE \in PageId
BY PagesAssumption DEF PageId, HEADER_PAGE

(* A chain has a newest version, and it is the last commit's page.         *)
LEMMA HasNewest ==
    ASSUME IInv, NEW p \in PageId, versions[p] # {}
    PROVE  \E v \in versions[p] : /\ IsNewest(versions[p], v)
                                  /\ v.page = history[seq].page[p]
                                  /\ Newest(versions[p]) = v
<1>1. versions[p] \in SUBSET Version /\ Distinct(versions[p]) /\ seq \in Nat
  BY DEF IInv, TypeOK, ChainsSound, Chain
<1>2. p < PageCount /\ \A v \in versions[p] : v.seq <= seq
  BY DEF IInv, ChainsSound
<1>3. PageRight(seq, p)
  BY <1>1, <1>2 DEF IInv, PagesRight, IsOpen, PageCount
<1>4. PICK v \in versions[p] : /\ ReadBy(versions[p], v, seq)
                               /\ v.page = history[seq].page[p]
  BY <1>3 DEF PageRight
<1>5. IsNewest(versions[p], v)
  BY <1>1, <1>2, <1>4 DEF IsNewest, ReadBy, Version
<1> QED
  BY <1>1, <1>4, <1>5, NewestIs

(* The memory's part of the invariant, where a step changes neither the    *)
(* memory nor the file and opens no snapshot but the current one.          *)
LEMMA MemoryFrame ==
    ASSUME IInv, UNCHANGED <<file, versions, replacement, seq, history, wpc,
                             waiting, imageLeft, waitingLeft, writing>>,
           \A s \in 0 .. seq : IsOpen(s)' => IsOpen(s)
    PROVE  /\ ChainsSound'
           /\ PagesRight'
           /\ WrittenRight'
           /\ ImageRight'
           /\ CheckpointRight'
<1>1. ChainsSound'
  BY DEF IInv, ChainsSound, PageCount
<1>2. PagesRight'
  BY DEF IInv, PagesRight, PageRight, PageCount
<1>3. WrittenRight'
  BY DEF IInv, WrittenRight
<1>4. ImageRight'
  BY DEF IInv, ImageRight, PageCount
<1>5. CheckpointRight'
  BY DEF IInv, CheckpointRight, Left, PageCount
<1> QED
  BY <1>1, <1>2, <1>3, <1>4, <1>5

(* The invariant holds when the database has just been opened.             *)
LEMMA InitIInv == Init => IInv
<1> SUFFICES ASSUME Init PROVE IInv
  OBVIOUS
<1> USE PageIds, PagesAssumption
<1>1. TypeOK
  BY DEF Init, TypeOK, PageId, NoImage, Chain, NoReply, NoSnapshot, NoPage
<1>2. HeldKnown
  BY DEF Init, HeldKnown, NoSnapshot
<1>3. ChainsSound /\ WrittenRight /\ CacheRight
  BY DEF Init, ChainsSound, WrittenRight, CacheRight, Distinct
<1>4. PagesRight
  BY DEF Init, PagesRight, PageRight, PageCount, PageId
<1>5. ImageRight
  BY DEF Init, ImageRight, PageCount, NoImage, PageId
<1>6. CheckpointRight
  BY DEF Init, CheckpointRight
<1>7. CompactsAlone /\ \A r \in Reader : ReaderRight(r)
  BY DEF Init, CompactsAlone, ReaderRight
<1>8. SnapshotReads /\ TooOldOnlyIfEnded /\ ChecksSound
  BY DEF Init, SnapshotReads, TooOldOnlyIfEnded, ChecksSound, NoReply,
         NoPage, TooOld, Damaged, Missing
<1> QED
  BY <1>1, <1>2, <1>3, <1>4, <1>5, <1>6, <1>7, <1>8 DEF IInv

-----------------------------------------------------------------------------
(* Steps that reply nothing keep what the replies say.                     *)
LEMMA NoReplyRight ==
    ASSUME reply' = NoReply
    PROVE  /\ SnapshotReads' /\ TooOldOnlyIfEnded' /\ ChecksSound'
           /\ reply' \in [snap : Nat \cup {NoSnapshot}, page : PageId,
                         value : Nat \cup {TooOld, NoPage, Damaged, Missing}]
BY PageIds DEF HEADER_PAGE, SnapshotReads, TooOldOnlyIfEnded, ChecksSound,
               NoReply, NoPage, TooOld, Damaged, Missing

(* A reader whose own state and snapshot stay keeps its part, when the     *)
(* memory and the file do.                                                 *)
LEMMA ReaderFrame ==
    ASSUME NEW q \in Reader, ReaderRight(q),
           rpc'[q] = rpc[q], want'[q] = want[q], epoch'[q] = epoch[q],
           seen'[q] = seen[q], rpc[q] # "open" => snap'[q] = snap[q],
           UNCHANGED <<file, file_epoch, replacement, waiting, ended_before,
                       history>>
    PROVE  ReaderRight(q)'
BY DEF ReaderRight

(* What a commit adds to the history.                                      *)
LEMMA RecordRight ==
    ASSUME seq \in Nat, NEW n \in Nat, NEW dirty, Record(n, dirty),
           history \in [0 .. seq -> [count : Nat, page : [PageId -> Nat]]]
    PROVE  /\ \A s \in 0 .. seq : history'[s] = history[s]
           /\ history'[seq + 1].count = n
           /\ \A p \in PageId : history'[seq + 1].page[p] =
                 IF p \in dirty THEN seq + 1 ELSE history[seq].page[p]
           /\ history' \in [0 .. seq + 1 ->
                               [count : Nat, page : [PageId -> Nat]]]
<1>1. \A s \in 0 .. seq : s \in 0 .. seq + 1 /\ s <= seq
  OBVIOUS
<1>2. seq + 1 \in 0 .. seq + 1 /\ ~(seq + 1 <= seq) /\ seq + 1 \in Nat
  OBVIOUS
<1>3. \A s \in 0 .. seq + 1 : ~(s <= seq) => s = seq + 1
  OBVIOUS
<1>4. \A s \in 0 .. seq : history'[s] = history[s]
  BY <1>1 DEF Record
<1> DEFINE last == [count |-> n,
                    page |-> [p \in PageId |->
                                IF p \in dirty THEN seq + 1
                                ELSE history[seq].page[p]]]
<1>5. history'[seq + 1] = last
  BY <1>2 DEF Record
<1>6. \A p \in PageId : history[seq].page[p] \in Nat
  OBVIOUS
<1>7. last \in [count : Nat, page : [PageId -> Nat]]
  BY <1>2, <1>6
<1>8. history' = [c \in 0 .. seq + 1 |-> IF c <= seq THEN history[c] ELSE last]
  BY DEF Record
<1>9. history' \in [0 .. seq + 1 -> [count : Nat, page : [PageId -> Nat]]]
  <2> HIDE DEF last
  <2> QED
    BY <1>7, <1>8
<1> QED
  BY <1>4, <1>5, <1>9

(* Handing out the current snapshot (`read`, `pin`) keeps the invariant.   *)
LEMMA OpenStep ==
    ASSUME IInv, NEW r \in Reader, NEW guarded \in BOOLEAN, Open(r, guarded)
    PROVE  IInv'
<1> USE DEF memory, writer
<1>1. TypeOK'
  BY NoReplyRight DEF IInv, TypeOK, Open
<1>2. \A s : Held(s)' => Held(s) \/ s = seq
  BY DEF Held, Open, IInv, TypeOK
<1>3. HeldKnown'
  <2>1. HeldKnown /\ snap \in [Reader -> Nat \cup {NoSnapshot}] /\ seq \in Nat
    BY DEF IInv, TypeOK
  <2>2. \A q \in Reader : snap'[q] = snap[q] \/ snap'[q] = seq
    BY <2>1 DEF Open
  <2>3. \A q \in Reader : snap'[q] # NoSnapshot =>
           snap'[q] <= seq /\ (snap'[q] = seq \/ snap'[q] \in past)
    BY <2>1, <2>2 DEF HeldKnown
  <2>4. \A s \in past : s < seq /\ (Held(s)' => Held(s))
    BY <1>2, <2>1 DEF HeldKnown
  <2>5. UNCHANGED <<seq, past, ended_before, wpc, cpLive>>
    BY DEF Open
  <2> HIDE DEF Held
  <2> QED
    BY <2>1, <2>3, <2>4, <2>5 DEF HeldKnown
<1>4. \A s \in 0 .. seq : IsOpen(s)' => IsOpen(s)
  BY <1>2 DEF IsOpen, Open
<1>5. ChainsSound' /\ PagesRight' /\ WrittenRight' /\ ImageRight'
      /\ CheckpointRight'
  BY <1>4, MemoryFrame DEF Open
<1>6. CacheRight'
  BY DEF IInv, CacheRight, Open
<1>7. CompactsAlone'
  BY DEF IInv, CompactsAlone, Open
<1>8. ASSUME NEW q \in Reader PROVE ReaderRight(q)'
  <2>1. ReaderRight(q) /\ snap \in [Reader -> Nat \cup {NoSnapshot}]
    BY DEF IInv, TypeOK
  <2>2. rpc[q] # "open" => snap'[q] = snap[q]
    BY <2>1 DEF Open, ReaderRight
  <2> QED
    BY <2>1, <2>2, ReaderFrame DEF Open
<1> QED
  BY <1>1, <1>3, <1>5, <1>6, <1>7, <1>8, NoReplyRight DEF IInv, Open

(* Dropping a guard or a snapshot keeps the invariant.                     *)
LEMMA CloseStep ==
    ASSUME IInv, NEW r \in Reader, Close(r)
    PROVE  IInv'
<1> USE DEF memory, writer
<1>1. TypeOK'
  BY NoReplyRight DEF IInv, TypeOK, Close
<1>2. \A s \in Nat : Held(s)' => Held(s)
  BY DEF Held, Close, IInv, TypeOK, NoSnapshot
<1>3. HeldKnown'
  BY <1>2 DEF IInv, HeldKnown, Close, TypeOK
<1>4. \A s \in 0 .. seq : IsOpen(s)' => IsOpen(s)
  BY <1>2 DEF IsOpen, Close, IInv, TypeOK
<1>5. ChainsSound' /\ PagesRight' /\ WrittenRight' /\ ImageRight'
      /\ CheckpointRight'
  BY <1>4, MemoryFrame DEF Close
<1>6. CacheRight'
  BY DEF IInv, CacheRight, Close
<1>7. CompactsAlone'
  BY DEF IInv, CompactsAlone, Close, TypeOK, NoSnapshot
<1>8. ASSUME NEW q \in Reader PROVE ReaderRight(q)'
  <2>1. ReaderRight(q) /\ snap \in [Reader -> Nat \cup {NoSnapshot}]
    BY DEF IInv, TypeOK
  <2>2. rpc[q] # "open" => snap'[q] = snap[q]
    BY <2>1 DEF Close
  <2> QED
    BY <2>1, <2>2, ReaderFrame DEF Close
<1> QED
  BY <1>1, <1>3, <1>5, <1>6, <1>7, <1>8, NoReplyRight DEF IInv, Close

(* What the lookup under the lock gives a reader of commit s that has not  *)
(* been ended: its page, or the way to the file, which holds it.           *)
LEMMA LookupRight ==
    ASSUME IInv, NEW s \in 0 .. seq, IsOpen(s),
           NEW p \in PageId, p < history[s].count
    PROVE  /\ Lookup(p, s) # NotCached =>
                 Lookup(p, s) = history[s].page[p]
           /\ Lookup(p, s) = NotCached =>
                 /\ versions[p] = {}
                 /\ replacement = NoImage
                 /\ file[p] = history[s].page[p]
           /\ Lookup(p, s) \in Nat \cup {NotCached}
           /\ p < PageCount
<1>1. PageRight(s, p) /\ history[s].count <= PageCount /\ s \in Nat
  BY DEF IInv, PagesRight, TypeOK
<1>2. history[s].page[p] \in Nat /\ history[s].count \in Nat
      /\ p \in Nat /\ PageCount \in Nat
  BY PageIds DEF IInv, TypeOK, PageCount
<1>3. CASE versions[p] # {}
  <2>1. versions[p] \in SUBSET Version /\ Distinct(versions[p])
    BY DEF IInv, TypeOK, ChainsSound, Chain
  <2>2. PICK v \in versions[p] : /\ ReadBy(versions[p], v, s)
                                 /\ v.page = history[s].page[p]
    BY <1>1, <1>3 DEF PageRight
  <2>3. AtOrBefore(versions[p], s) # {} /\ ReadableAt(versions[p], s) = v
    BY <1>1, <2>1, <2>2, ReadableAtIs
  <2>4. Lookup(p, s) = history[s].page[p]
    BY <1>3, <2>2, <2>3 DEF Lookup
  <2> QED
    BY <1>1, <1>2, <2>4 DEF NotCached
<1>4. CASE versions[p] = {} /\ replacement # NoImage
  BY <1>1, <1>2, <1>4 DEF Lookup, PageRight, NotCached
<1>5. CASE versions[p] = {} /\ replacement = NoImage
  <2>1. Lookup(p, s) = cache[p] /\ file[p] = history[s].page[p]
    BY <1>1, <1>5 DEF Lookup, PageRight
  <2>2. cache[p] \in {NotCached, file[p]}
    BY <1>5 DEF IInv, CacheRight, Unwritten
  <2> QED
    BY <1>1, <1>2, <1>5, <2>1, <2>2
<1> QED
  BY <1>3, <1>4, <1>5

(* The lookup in `read_at` keeps the invariant.                            *)
LEMMA ReadAtStep ==
    ASSUME IInv, NEW r \in Reader, NEW p \in PageId, ReadAt(r, p)
    PROVE  IInv'
<1> USE DEF memory, writer
<1> DEFINE s == snap[r]
           page == IF s < ended_before THEN TooOld ELSE Lookup(p, s)
<1>1. s \in 0 .. seq /\ p < history[s].count /\ s \in Nat
  BY DEF ReadAt, IInv, TypeOK, HeldKnown, ReaderRight
<1>2. s >= ended_before => IsOpen(s)
  BY DEF IsOpen, Held
<1>3. \/ s < ended_before /\ page = TooOld
      \/ /\ s >= ended_before
         /\ page # NotCached => page = history[s].page[p]
         /\ page = NotCached => /\ versions[p] = {}
                                /\ replacement = NoImage
                                /\ file[p] = history[s].page[p]
         /\ page \in Nat \cup {NotCached}
  <2>1. ended_before \in Nat
    BY DEF IInv, TypeOK
  <2>2. CASE s >= ended_before
    <3>1. IsOpen(s) /\ page = Lookup(p, s)
      BY <1>1, <1>2, <2>1, <2>2
    <3> QED
      BY <1>1, <2>2, <3>1, LookupRight
  <2> QED
    BY <1>1, <2>1, <2>2
<1>4. CASE page = NotCached
  <2>1. /\ rpc' = [rpc EXCEPT ![r] = "file"]
        /\ epoch' = [epoch EXCEPT ![r] = file_epoch]
        /\ want' = [want EXCEPT ![r] = p]
        /\ reply' = NoReply
    BY <1>4 DEF ReadAt
  <2>2. TypeOK'
    BY <2>1, NoReplyRight DEF IInv, TypeOK, ReadAt
  <2>3. p \notin waiting
    BY <1>3, <1>4 DEF IInv, CheckpointRight, Unwritten, TypeOK, NotCached,
                      TooOld
  <2>4. \A q \in Reader : ReaderRight(q)'
    <3>1. ReaderRight(r)'
      BY <1>1, <1>3, <1>4, <2>1, <2>3
         DEF IInv, ReaderRight, ReadAt, TypeOK, NotCached, TooOld
    <3>2. ASSUME NEW q \in Reader, q # r PROVE ReaderRight(q)'
      BY <2>1, <3>2 DEF IInv, ReaderRight, ReadAt, TypeOK
    <3> QED
      BY <3>1, <3>2
  <2> QED
    BY <2>1, <2>2, <2>4, NoReplyRight, MemoryFrame
       DEF IInv, ReadAt, HeldKnown, Held, IsOpen, CacheRight, CompactsAlone
<1>5. CASE page # NotCached
  <2>1. /\ rpc' = [rpc EXCEPT ![r] = "open"]
        /\ want' = [want EXCEPT ![r] = 0]
        /\ reply' = [snap |-> s, page |-> p, value |-> page]
        /\ UNCHANGED epoch
    BY <1>5 DEF ReadAt
  <2>2. TypeOK'
    BY <1>1, <1>3, <1>5, <2>1, PageIds
       DEF IInv, TypeOK, ReadAt, HEADER_PAGE, TooOld
  <2>3. SnapshotReads' /\ TooOldOnlyIfEnded' /\ ChecksSound'
    BY <1>1, <1>3, <1>5, <2>1 DEF SnapshotReads, TooOldOnlyIfEnded,
       ChecksSound, ReadAt, TooOld, Damaged, Missing, NotCached, NoPage
  <2>4. \A q \in Reader : ReaderRight(q)'
    BY <2>1 DEF IInv, ReaderRight, ReadAt, TypeOK
  <2> QED
    BY <2>2, <2>3, <2>4, MemoryFrame
       DEF IInv, ReadAt, HeldKnown, Held, IsOpen, CacheRight, CompactsAlone
<1> QED
  BY <1>4, <1>5

(* A page that doesn't wait, as an integrity check finds it in the file.   *)
LEMMA NotWaitingRight ==
    ASSUME IInv, NEW p \in PageId, replacement = NoImage,
           ~Unwritten(versions[p])
    PROVE  IF p < PageCount THEN file[p] = history[seq].page[p]
           ELSE file[p] = Absent
<1>1. seq \in 0 .. seq /\ IsOpen(seq)
  BY DEF IInv, TypeOK, IsOpen
<1>2. CASE p < PageCount /\ versions[p] = {}
  <2>1. PageRight(seq, p)
    BY <1>1, <1>2 DEF IInv, PagesRight, PageCount
  <2> QED
    BY <1>2, <2>1 DEF PageRight
<1>3. CASE p < PageCount /\ versions[p] # {}
  <2>1. PICK v \in versions[p] : /\ IsNewest(versions[p], v)
                                 /\ v.page = history[seq].page[p]
    BY <1>3, HasNewest
  <2>2. v.written
    BY <2>1 DEF Unwritten
  <2> QED
    BY <1>3, <2>1, <2>2 DEF IInv, WrittenRight
<1>4. CASE ~(p < PageCount)
  <2>1. p \in Nat /\ PageCount \in Nat
    BY PageIds DEF IInv, ImageRight
  <2> QED
    BY <1>4, <2>1 DEF IInv, ImageRight
<1> QED
  BY <1>2, <1>3, <1>4

(* The lookup in `damaged` keeps the invariant.                            *)
LEMMA ScanStep ==
    ASSUME IInv, NEW r \in Reader, NEW p \in PageId, Scan(r, p)
    PROVE  IInv'
<1> USE DEF memory, writer
<1>1. snap[r] \in 0 .. seq /\ p < history[snap[r]].count /\ snap[r] \in Nat
  BY DEF Scan, IInv, TypeOK, HeldKnown, ReaderRight
<1>2. TypeOK'
  <2>1. /\ rpc' \in [Reader -> {"open", "again", "file", "check",
                               "scan", "scanned", "rescan"}]
        /\ want' \in [Reader -> PageId]
        /\ epoch' \in [Reader -> Nat]
    <3>1. 0 \in PageId
      BY PageIds DEF HEADER_PAGE
    <3>2. /\ rpc \in [Reader -> {"open", "again", "file", "check",
                                "scan", "scanned", "rescan"}]
          /\ want \in [Reader -> PageId]
          /\ epoch \in [Reader -> Nat]
          /\ file_epoch \in Nat
      BY DEF IInv, TypeOK
    <3> QED
      BY <3>1, <3>2 DEF Scan
  <2> QED
    BY <2>1, NoReplyRight DEF IInv, TypeOK, Scan
<1>3. ASSUME NEW q \in Reader, q # r PROVE ReaderRight(q)'
  <2>1. /\ rpc \in [Reader -> {"open", "again", "file", "check",
                         "scan", "scanned", "rescan"}]
       /\ want \in [Reader -> PageId] /\ epoch \in [Reader -> Nat]
       /\ seen \in [Reader -> Nat \cup {Torn, Absent, NoPage}]
       /\ ReaderRight(q)
    BY DEF IInv, TypeOK
  <2>2. /\ rpc'[q] = rpc[q] /\ want'[q] = want[q]
       /\ epoch'[q] = epoch[q] /\ seen'[q] = seen[q]
    BY <1>3, <2>1 DEF Scan
  <2> QED
    BY <2>1, <2>2, ReaderFrame DEF Scan
<1>4. ReaderRight(r)'
  <2>1. CASE replacement # NoImage \/ Unwritten(versions[p])
    BY <2>1 DEF IInv, ReaderRight, Scan, TypeOK
  <2>2. CASE replacement = NoImage /\ ~Unwritten(versions[p])
    <3>1. /\ rpc'[r] = "scan" /\ want'[r] = p /\ epoch'[r] = file_epoch
          /\ UNCHANGED <<snap, history, file_epoch, replacement, waiting,
                         file, ended_before>>
      BY <2>2 DEF Scan, IInv, TypeOK
    <3>2. p \notin waiting
      BY <2>2 DEF IInv, CheckpointRight, TypeOK
    <3>3. file[p] \in Nat \/ (file[p] = Absent /\ snap[r] < ended_before)
      <4>1. p \in Nat /\ PageCount \in Nat /\ ended_before \in Nat
            /\ history[snap[r]].count \in Nat
        BY <1>1, PageIds DEF IInv, TypeOK, ImageRight
      <4>2. CASE p < PageCount
        <5>1. file[p] = history[seq].page[p]
          BY <2>2, <4>2, NotWaitingRight
        <5> QED
          BY <5>1 DEF IInv, TypeOK
      <4>3. CASE ~(p < PageCount)
        <5>1. file[p] = Absent
          BY <2>2, <4>3, NotWaitingRight
        <5>2. ~IsOpen(snap[r])
          BY <1>1, <4>1, <4>3 DEF IInv, PagesRight
        <5> QED
          BY <1>1, <4>1, <5>1, <5>2 DEF IsOpen, Held
      <4> QED
        BY <4>2, <4>3
    <3>4. file_epoch \in Nat
      BY DEF IInv, TypeOK
    <3>5. snap[r] # NoSnapshot
      BY DEF Scan
    <3> QED
      BY <1>1, <2>2, <3>1, <3>2, <3>3, <3>4, <3>5 DEF ReaderRight
  <2> QED
    BY <2>1, <2>2
<1> QED
  BY <1>2, <1>3, <1>4, NoReplyRight, MemoryFrame
     DEF IInv, Scan, HeldKnown, Held, IsOpen, CacheRight, CompactsAlone

(* Reading the file without the lock keeps the invariant.                  *)
LEMMA ReadFileStep ==
    ASSUME IInv, NEW r \in Reader, ReadFile(r)
    PROVE  IInv'
<1> USE DEF memory, writer
<1>1. TypeOK'
  BY NoReplyRight DEF IInv, TypeOK, ReadFile
<1>2. ASSUME NEW q \in Reader, q # r PROVE ReaderRight(q)'
  BY <1>2 DEF IInv, ReaderRight, ReadFile, TypeOK
<1>3. ReaderRight(r)'
  BY DEF IInv, ReaderRight, ReadFile, TypeOK
<1> QED
  BY <1>1, <1>2, <1>3, NoReplyRight, MemoryFrame
     DEF IInv, ReadFile, HeldKnown, Held, IsOpen, CacheRight, CompactsAlone

(* The end of `read_at`, under the write lock, keeps the invariant.        *)
LEMMA ReadDoneStep ==
    ASSUME IInv, NEW r \in Reader, ReadDone(r)
    PROVE  IInv'
<1> USE DEF writer
<1> DEFINE p == want[r]
<1>0. /\ snap[r] \in Nat /\ snap[r] \in 0 .. seq /\ p \in PageId
      /\ p < history[snap[r]].count
  BY DEF ReadDone, IInv, TypeOK, HeldKnown, ReaderRight
<1>1. CASE epoch[r] # file_epoch
  <2>1. UNCHANGED cache /\ reply' = NoReply
    BY <1>1 DEF ReadDone
  <2>2. TypeOK'
    BY <1>1, NoReplyRight DEF IInv, TypeOK, ReadDone
  <2>3. ASSUME NEW q \in Reader, q # r PROVE ReaderRight(q)'
    BY <1>1, <2>3 DEF IInv, ReaderRight, ReadDone, TypeOK
  <2>4. ReaderRight(r)'
    BY <1>1 DEF IInv, ReaderRight, ReadDone, TypeOK
  <2> QED
    BY <2>1, <2>2, <2>3, <2>4, NoReplyRight, MemoryFrame
       DEF IInv, ReadDone, HeldKnown, Held, IsOpen, CacheRight, CompactsAlone
<1>2. CASE epoch[r] = file_epoch
  <2>1. /\ replacement = NoImage
        /\ seen[r] = file[p]
        /\ file[p] = history[snap[r]].page[p]
        /\ seen[r] \in Nat
    <3>1. ReaderRight(r) /\ rpc[r] = "check"
      BY DEF IInv, ReadDone
    <3>2. /\ replacement = NoImage
          /\ seen[r] = file[p]
          /\ file[p] = history[snap[r]].page[p]
      BY <1>2, <3>1 DEF ReaderRight
    <3> QED
      BY <1>0, <3>2 DEF IInv, TypeOK
  <2>2. CachePut(p, seen[r])
    BY <1>2 DEF ReadDone
  <2>3. /\ cache' \in [PageId -> Nat \cup {NotCached}]
        /\ \A q \in PageId : cache'[q] \in {cache[q], NotCached, file[q]}
    <3>1. cache \in [PageId -> Nat \cup {NotCached}]
      BY DEF IInv, TypeOK
    <3> QED
      BY <1>0, <2>1, <2>2, <3>1 DEF CachePut, Cached
  <2>4. reply' = [snap |-> snap[r], page |-> p, value |-> seen[r]]
    BY <1>2 DEF ReadDone
  <2>5. TypeOK'
    <3>1. /\ rpc' \in [Reader -> {"open", "again", "file", "check",
                                 "scan", "scanned", "rescan"}]
          /\ want' \in [Reader -> PageId]
          /\ epoch' \in [Reader -> Nat]
          /\ seen' \in [Reader -> Nat \cup {Torn, Absent, NoPage}]
      <4>1. 0 \in PageId
        BY PageIds DEF HEADER_PAGE
      <4>2. /\ rpc \in [Reader -> {"open", "again", "file", "check",
                                  "scan", "scanned", "rescan"}]
            /\ want \in [Reader -> PageId]
            /\ epoch \in [Reader -> Nat]
            /\ seen \in [Reader -> Nat \cup {Torn, Absent, NoPage}]
        BY DEF IInv, TypeOK
      <4> QED
        BY <1>2, <4>1, <4>2 DEF ReadDone
    <3>2. reply' \in [snap : Nat \cup {NoSnapshot}, page : PageId,
                      value : Nat \cup {TooOld, NoPage, Damaged, Missing}]
      BY <1>0, <2>1, <2>4
    <3> QED
      BY <2>3, <3>1, <3>2 DEF IInv, TypeOK, ReadDone
  <2>6. CacheRight'
    BY <2>1, <2>3 DEF IInv, CacheRight, ReadDone, TypeOK
  <2>7. SnapshotReads' /\ TooOldOnlyIfEnded' /\ ChecksSound'
    BY <2>1, <2>4 DEF SnapshotReads, TooOldOnlyIfEnded, ChecksSound,
       ReadDone, TooOld, Damaged, Missing
  <2>8. ASSUME NEW q \in Reader, q # r PROVE ReaderRight(q)'
    <3>1. /\ rpc \in [Reader -> {"open", "again", "file", "check",
                           "scan", "scanned", "rescan"}]
         /\ want \in [Reader -> PageId] /\ epoch \in [Reader -> Nat]
         /\ seen \in [Reader -> Nat \cup {Torn, Absent, NoPage}]
         /\ ReaderRight(q)
      BY DEF IInv, TypeOK
    <3>2. /\ rpc'[q] = rpc[q] /\ want'[q] = want[q]
         /\ epoch'[q] = epoch[q] /\ seen'[q] = seen[q]
      BY <1>2, <2>8, <3>1 DEF ReadDone
    <3> QED
      BY <3>1, <3>2, ReaderFrame DEF ReadDone
  <2>9. ReaderRight(r)'
    BY <1>2 DEF IInv, ReaderRight, ReadDone, TypeOK
  <2> QED
    BY <2>5, <2>6, <2>7, <2>8, <2>9, MemoryFrame
       DEF IInv, ReadDone, HeldKnown, Held, IsOpen, CompactsAlone
<1> QED
  BY <1>1, <1>2

(* The end of `damaged` for one page keeps the invariant.                  *)
LEMMA ScanDoneStep ==
    ASSUME IInv, NEW r \in Reader, ScanDone(r)
    PROVE  IInv'
<1> USE DEF memory, writer
<1>0. snap[r] \in Nat /\ want[r] \in PageId
  BY DEF ScanDone, IInv, TypeOK, HeldKnown, ReaderRight
<1>1. \/ reply' = NoReply
      \/ /\ reply' = [snap |-> snap[r], page |-> want[r], value |-> Missing]
         /\ snap[r] < ended_before
  <2>1. CASE epoch[r] # file_epoch
    BY <2>1 DEF ScanDone
  <2>2. CASE epoch[r] = file_epoch
    <3>1. seen[r] \in Nat \/ (seen[r] = Absent /\ snap[r] < ended_before)
      BY <2>2 DEF IInv, ReaderRight, ScanDone, TypeOK
    <3> QED
      BY <2>2, <3>1 DEF ScanDone, Torn, Absent
  <2> QED
    BY <2>1, <2>2
<1>2. /\ SnapshotReads' /\ TooOldOnlyIfEnded' /\ ChecksSound'
      /\ reply' \in [snap : Nat \cup {NoSnapshot}, page : PageId,
                     value : Nat \cup {TooOld, NoPage, Damaged, Missing}]
  BY <1>0, <1>1, NoReplyRight DEF SnapshotReads, TooOldOnlyIfEnded,
     ChecksSound, ScanDone, TooOld, Damaged, Missing
<1>3. TypeOK'
  <2>1. /\ rpc' \in [Reader -> {"open", "again", "file", "check",
                               "scan", "scanned", "rescan"}]
        /\ want' \in [Reader -> PageId]
        /\ epoch' \in [Reader -> Nat]
        /\ seen' \in [Reader -> Nat \cup {Torn, Absent, NoPage}]
    <3>1. 0 \in PageId
      BY PageIds DEF HEADER_PAGE
    <3>2. /\ rpc \in [Reader -> {"open", "again", "file", "check",
                                "scan", "scanned", "rescan"}]
          /\ want \in [Reader -> PageId]
          /\ epoch \in [Reader -> Nat]
          /\ seen \in [Reader -> Nat \cup {Torn, Absent, NoPage}]
      BY DEF IInv, TypeOK
    <3> QED
      BY <3>1, <3>2 DEF ScanDone
  <2> QED
    BY <1>2, <2>1 DEF IInv, TypeOK, ScanDone
<1>4. ASSUME NEW q \in Reader, q # r PROVE ReaderRight(q)'
  <2>1. /\ rpc \in [Reader -> {"open", "again", "file", "check",
                         "scan", "scanned", "rescan"}]
       /\ want \in [Reader -> PageId] /\ epoch \in [Reader -> Nat]
       /\ seen \in [Reader -> Nat \cup {Torn, Absent, NoPage}]
       /\ ReaderRight(q)
    BY DEF IInv, TypeOK
  <2>2. /\ rpc'[q] = rpc[q] /\ want'[q] = want[q]
       /\ epoch'[q] = epoch[q] /\ seen'[q] = seen[q]
    BY <1>4, <2>1 DEF ScanDone
  <2> QED
    BY <2>1, <2>2, ReaderFrame DEF ScanDone
<1>5. ReaderRight(r)'
  <2>1. /\ rpc \in [Reader -> {"open", "again", "file", "check",
                             "scan", "scanned", "rescan"}]
        /\ epoch \in [Reader -> Nat] /\ file_epoch \in Nat
        /\ want \in [Reader -> PageId]
        /\ ReaderRight(r)
    BY DEF IInv, TypeOK
  <2>2. epoch'[r] = 0 /\ UNCHANGED <<file_epoch, snap, history>>
    BY <2>1 DEF ScanDone
  <2>3. rpc'[r] = "open" \/ (rpc'[r] = "rescan" /\ want'[r] = want[r])
    BY <2>1 DEF ScanDone
  <2>4. rpc[r] # "open"
    BY DEF ScanDone
  <2> QED
    BY <2>1, <2>2, <2>3, <2>4 DEF ReaderRight
<1> QED
  BY <1>2, <1>3, <1>4, <1>5, MemoryFrame
     DEF IInv, ScanDone, HeldKnown, Held, IsOpen, CacheRight, CompactsAlone

-----------------------------------------------------------------------------
(* The writer's steps.                                                     *)

(* Taking the gate for a compaction keeps the invariant.                   *)
LEMMA CompactBeginStep ==
    ASSUME IInv, CompactBegin
    PROVE  IInv'
<1> USE DEF memory, reader
<1>1. TypeOK'
  BY NoReplyRight DEF IInv, TypeOK, CompactBegin
<1>2. UNCHANGED <<file, versions, replacement, seq, history, waiting,
                  imageLeft, waitingLeft, writing, snap, ended_before, cache,
                  cpLive, gate, rpc, want, epoch, seen, file_epoch>>
      /\ reply' = NoReply
  BY DEF CompactBegin
<1>3. HeldKnown'
  BY <1>2 DEF IInv, HeldKnown, CompactBegin, TypeOK, Held, NoSnapshot
<1>4. CheckpointRight'
  BY <1>2 DEF IInv, CheckpointRight, CompactBegin
<1>5. CompactsAlone'
  <2> SUFFICES ASSUME wpc' = "compact", NEW r \in Reader
               PROVE  ~gate[r] /\ snap[r] < ended_before
    BY <1>2 DEF CompactsAlone
  <2>1. ~Held(seq) /\ Live(past) = {} /\ ~gate[r]
    BY DEF CompactBegin
  <2>2. snap[r] \in Nat \cup {NoSnapshot} /\ ended_before \in Nat
    BY DEF IInv, TypeOK
  <2>3. snap[r] # NoSnapshot => snap[r] \in past
    BY <2>1 DEF IInv, HeldKnown, Held
  <2> QED
    BY <2>1, <2>2, <2>3 DEF Live, Held, NoSnapshot
<1>6. PagesRight'
  BY <1>2 DEF IInv, PagesRight, PageRight, PageCount, IsOpen, Held
<1>7. ChainsSound' /\ WrittenRight' /\ CacheRight' /\ ImageRight'
  BY <1>2 DEF IInv, ChainsSound, WrittenRight, CacheRight, ImageRight,
              PageCount
<1>8. \A r \in Reader : ReaderRight(r)'
  BY <1>2 DEF IInv, ReaderRight
<1> QED
  BY <1>1, <1>2, <1>3, <1>4, <1>5, <1>6, <1>7, <1>8, NoReplyRight DEF IInv

(* A compaction that fails keeps the invariant.                            *)
LEMMA CompactFailsStep ==
    ASSUME IInv, CompactFails
    PROVE  IInv'
<1> USE DEF memory, reader
<1>1. TypeOK'
  BY NoReplyRight DEF IInv, TypeOK, CompactFails
<1>2. UNCHANGED <<file, versions, replacement, seq, history, waiting, past,
                  imageLeft, waitingLeft, writing, snap, ended_before, cache,
                  cpLive, gate, rpc, want, epoch, seen, file_epoch>>
      /\ reply' = NoReply /\ wpc' = "idle" /\ wpc = "compact"
  BY DEF CompactFails
<1>3. HeldKnown' /\ CheckpointRight' /\ CompactsAlone'
  BY <1>2 DEF IInv, HeldKnown, Held, CheckpointRight, CompactsAlone
<1>4. PagesRight'
  BY <1>2 DEF IInv, PagesRight, PageRight, PageCount, IsOpen, Held
<1>5. ChainsSound' /\ WrittenRight' /\ CacheRight' /\ ImageRight'
  BY <1>2 DEF IInv, ChainsSound, WrittenRight, CacheRight, ImageRight,
              PageCount
<1>6. \A r \in Reader : ReaderRight(r)'
  BY <1>2 DEF IInv, ReaderRight
<1> QED
  BY <1>1, <1>2, <1>3, <1>4, <1>5, <1>6, NoReplyRight DEF IInv

(* A step of a checkpoint that writes only pages taken down for it: no     *)
(* reader reads those from the file, whatever is in it.                    *)
LEMMA WriteFrame ==
    ASSUME IInv, wpc = "write", NEW p \in Left, reply' = NoReply,
           NEW page \in Nat \cup {Torn}, file' = [file EXCEPT ![p] = page],
           UNCHANGED <<memory, past, wpc, waiting, cpLive, reader, history>>
    PROVE  /\ HeldKnown' /\ ChainsSound' /\ PagesRight' /\ WrittenRight'
           /\ CacheRight' /\ ImageRight' /\ CompactsAlone'
           /\ \A r \in Reader : ReaderRight(r)'
           /\ SnapshotReads' /\ TooOldOnlyIfEnded' /\ ChecksSound'
           /\ file' \in [PageId -> Nat \cup {Torn, Absent}]
           /\ replacement # NoImage \/ Unwritten(versions[p])
           /\ p < PageCount
<1> USE DEF memory, reader
<1>1. p \in PageId /\ file \in [PageId -> Nat \cup {Torn, Absent}]
  BY DEF IInv, TypeOK, Left
<1>2. /\ replacement # NoImage \/ Unwritten(versions[p])
      /\ replacement = NoImage => p \in waiting
  BY DEF IInv, CheckpointRight, Left
<1>3. p < PageCount
  <2>1. CASE replacement = NoImage
    BY <1>1, <1>2, <2>1 DEF IInv, ChainsSound, Unwritten
  <2>2. CASE replacement # NoImage /\ p \in imageLeft
    <3>1. /\ p < replacement.count /\ replacement.count <= PageCount
          /\ p \in Nat /\ replacement.count \in Nat /\ PageCount \in Nat
      BY <1>1, <2>2, PageIds DEF IInv, CheckpointRight, ImageRight, TypeOK
    <3> QED
      BY <3>1
  <2>3. CASE p \in waiting
    BY <1>1, <2>3 DEF IInv, ChainsSound, CheckpointRight, Unwritten
  <2>4. p \in imageLeft \/ p \in waiting
    BY DEF IInv, CheckpointRight, Left
  <2> QED
    BY <2>1, <2>2, <2>3, <2>4
<1>4. HeldKnown' /\ ChainsSound' /\ CompactsAlone'
  BY DEF IInv, HeldKnown, Held, ChainsSound, CompactsAlone, PageCount
<1>5. PagesRight'
  <2> SUFFICES ASSUME NEW s \in 0 .. seq, IsOpen(s), NEW q \in PageId,
                      q < history[s].count
               PROVE  PageRight(s, q)'
    BY DEF IInv, PagesRight, IsOpen, Held, PageCount
  <2>1. PageRight(s, q)
    BY DEF IInv, PagesRight
  <2>2. q # p => file'[q] = file[q]
    BY <1>1
  <2>3. q = p => replacement # NoImage \/ versions[q] # {}
    BY <1>2 DEF Unwritten
  <2> QED
    BY <2>1, <2>2, <2>3 DEF PageRight
<1>6. WrittenRight'
  <2> SUFFICES ASSUME NEW q \in PageId, NEW v \in versions[q],
                      IsNewest(versions[q], v), v.written
               PROVE  file'[q] = v.page /\ replacement = NoImage
    BY DEF WrittenRight
  <2>1. file[q] = v.page /\ replacement = NoImage
    BY DEF IInv, WrittenRight
  <2>2. ~Unwritten(versions[q])
    <3>1. versions[q] \subseteq Version /\ Distinct(versions[q])
      BY DEF IInv, TypeOK, Chain, ChainsSound
    <3> QED
      BY <3>1 DEF Unwritten, IsNewest, Distinct, Version
  <2>3. q # p
    BY <1>2, <2>1, <2>2
  <2> QED
    BY <1>1, <2>1, <2>3
<1>7. CacheRight'
  BY <1>1, <1>2 DEF IInv, CacheRight
<1>8. ImageRight'
  <2>1. \A q \in PageId : q >= PageCount => file'[q] = file[q]
    BY <1>1, <1>3, PageIds DEF IInv, ImageRight
  <2> QED
    BY <2>1 DEF IInv, ImageRight, PageCount
<1>9. ASSUME NEW r \in Reader PROVE ReaderRight(r)'
  <2>1. ReaderRight(r) /\ want[r] \in PageId
    BY DEF IInv, TypeOK
  <2>2. replacement = NoImage /\ want[r] \notin waiting => want[r] # p
    BY <1>2
  <2> QED
    BY <1>1, <2>1, <2>2 DEF ReaderRight
<1>10. file' \in [PageId -> Nat \cup {Torn, Absent}]
  BY <1>1
<1> QED
  BY <1>2, <1>3, <1>4, <1>5, <1>6, <1>7, <1>8, <1>9, <1>10, NoReplyRight

(* A page half written back keeps the invariant.                           *)
LEMMA WriteBeginStep ==
    ASSUME IInv, NEW p \in PageId, WriteBegin(p)
    PROVE  IInv'
<1>1. /\ wpc = "write" /\ p \in Left /\ file' = [file EXCEPT ![p] = Torn]
      /\ reply' = NoReply /\ writing' = p /\ writing = NoSnapshot
      /\ UNCHANGED <<memory, past, wpc, waiting, cpLive, reader, history,
                     imageLeft, waitingLeft>>
  BY DEF WriteBegin
<1>2. /\ HeldKnown' /\ ChainsSound' /\ PagesRight' /\ WrittenRight'
      /\ CacheRight' /\ ImageRight' /\ CompactsAlone'
      /\ \A r \in Reader : ReaderRight(r)'
      /\ SnapshotReads' /\ TooOldOnlyIfEnded' /\ ChecksSound'
      /\ file' \in [PageId -> Nat \cup {Torn, Absent}]
  BY <1>1, WriteFrame
<1> USE DEF memory, reader
<1>3. TypeOK'
  BY <1>1, <1>2, NoReplyRight DEF IInv, TypeOK
<1>4. CheckpointRight'
  <2>1. file \in [PageId -> Nat \cup {Torn, Absent}]
    BY DEF IInv, TypeOK
  <2>2. p \in imageLeft \/ (imageLeft = {} /\ p \in waitingLeft)
    BY <1>1 DEF Left
  <2>3. p \in imageLeft => waitingLeft = waiting
    BY <1>1 DEF IInv, CheckpointRight
  <2>4. CheckpointRight
    BY DEF IInv
  <2> QED
    BY <1>1, <2>1, <2>2, <2>3, <2>4 DEF CheckpointRight, Left, PageCount
<1> QED
  BY <1>2, <1>3, <1>4 DEF IInv

(* A page written back keeps the invariant.                                *)
LEMMA WriteEndStep ==
    ASSUME IInv, NEW p \in PageId, WriteEnd(p)
    PROVE  IInv'
<1> DEFINE page == IF imageLeft # {} THEN replacement.seq
                   ELSE Newest(versions[p]).page
<1>1. /\ wpc = "write" /\ writing = p /\ file' = [file EXCEPT ![p] = page]
      /\ reply' = NoReply /\ writing' = NoSnapshot
      /\ UNCHANGED <<memory, past, wpc, waiting, cpLive, reader, history>>
      /\ imageLeft # {} => /\ imageLeft' = imageLeft \ {p}
                           /\ waitingLeft' = waitingLeft
      /\ imageLeft = {} => /\ imageLeft' = imageLeft
                           /\ waitingLeft' = waitingLeft \ {p}
  BY DEF WriteEnd
<1>2. p \in Left /\ CheckpointRight
  BY <1>1, PageIds DEF IInv, CheckpointRight, NoSnapshot
<1>3. /\ page \in Nat
      /\ imageLeft = {} => \A v \in versions[p] :
                              IsNewest(versions[p], v) => v.page = page
  <2>1. CASE imageLeft # {}
    BY <2>1 DEF IInv, TypeOK
  <2>2. CASE imageLeft = {}
    <3>1. versions[p] # {}
      BY <1>1, <1>2, <2>2 DEF CheckpointRight, Left, Unwritten
    <3>2. PICK v \in versions[p] : /\ IsNewest(versions[p], v)
                                   /\ Newest(versions[p]) = v
      BY <3>1, HasNewest
    <3>3. v \in Version /\ versions[p] \in SUBSET Version
          /\ Distinct(versions[p])
      BY DEF IInv, TypeOK, Chain, ChainsSound
    <3>4. \A w \in versions[p] : IsNewest(versions[p], w) => w = v
      BY <3>2, <3>3, NewestIs
    <3> QED
      BY <2>2, <3>2, <3>3, <3>4 DEF Version
  <2> QED
    BY <2>1, <2>2
<1>4. /\ HeldKnown' /\ ChainsSound' /\ PagesRight' /\ WrittenRight'
      /\ CacheRight' /\ ImageRight' /\ CompactsAlone'
      /\ \A r \in Reader : ReaderRight(r)'
      /\ SnapshotReads' /\ TooOldOnlyIfEnded' /\ ChecksSound'
      /\ file' \in [PageId -> Nat \cup {Torn, Absent}]
  BY <1>1, <1>2, <1>3, WriteFrame
<1> USE DEF memory, reader
<1>5. TypeOK'
  BY <1>1, <1>4, NoReplyRight DEF IInv, TypeOK, NoSnapshot
<1>6. CheckpointRight'
  <2>1. file \in [PageId -> Nat \cup {Torn, Absent}]
    BY DEF IInv, TypeOK
  <2>2. CASE imageLeft # {}
    BY <1>1, <1>2, <2>1, <2>2 DEF CheckpointRight, Left, PageCount
  <2>3. CASE imageLeft = {}
    BY <1>1, <1>2, <1>3, <2>1, <2>3 DEF CheckpointRight, Left, PageCount
  <2> QED
    BY <2>2, <2>3
<1> QED
  BY <1>4, <1>5, <1>6 DEF IInv

(* Taking down the pages to write back keeps the invariant.                *)
LEMMA CheckpointBeginStep ==
    ASSUME IInv, CheckpointBegin
    PROVE  IInv'
<1> USE DEF memory, reader
<1>1. /\ UNCHANGED <<file, cache, versions, replacement, seq, ended_before,
                     writing, snap, gate, rpc, want, epoch, seen, history>>
      /\ file_epoch' = file_epoch + 1
      /\ wpc = "idle" /\ wpc' \in {"forget", "write"}
      /\ wpc' = "forget" => waiting' = {} /\ replacement = NoImage
      /\ past' = {s \in past : Held(s)}
      /\ cpLive' = Live(past)
      /\ waiting' = {p \in PageId : Unwritten(versions[p])}
      /\ waitingLeft' = waiting'
      /\ imageLeft' = {p \in PageId : p # HEADER_PAGE
                                      /\ p < replacement.count}
      /\ reply' = NoReply
  BY DEF CheckpointBegin
<1>2. TypeOK'
  <2>1. past \in SUBSET Nat /\ file_epoch \in Nat
    BY DEF IInv, TypeOK
  <2>2. past' \in SUBSET Nat /\ cpLive' \in SUBSET Nat
    BY <1>1, <2>1 DEF Live
  <2>3. /\ waiting' \in SUBSET PageId /\ waitingLeft' \in SUBSET PageId
        /\ imageLeft' \in SUBSET PageId
    BY <1>1
  <2>4. file_epoch' \in Nat
    BY <1>1, <2>1
  <2> QED
    BY <1>1, <2>2, <2>3, <2>4, NoReplyRight DEF IInv, TypeOK
<1>3. HeldKnown'
  <2>1. \A s : Held(s)' <=> Held(s)
    BY <1>1 DEF Held
  <2> QED
    BY <1>1, <2>1 DEF IInv, HeldKnown, Live, Held, NoSnapshot
<1>4. replacement = NoImage => imageLeft' = {}
  <2>1. replacement = NoImage => replacement.count = 0
    BY DEF NoImage
  <2>2. \A p \in PageId : ~(p < 0)
    BY PageIds
  <2> QED
    BY <1>1, <2>1, <2>2
<1>5. CheckpointRight'
  <2>1. waiting' = {p \in PageId : Unwritten(versions'[p])}
    BY <1>1
  <2>2. imageLeft' # {} => replacement' # NoImage /\ waitingLeft' = waiting'
    BY <1>1, <1>4
  <2>3. \A p \in imageLeft' : p # HEADER_PAGE /\ p < replacement'.count
    BY <1>1
  <2>4. writing' = NoSnapshot
    BY <1>1 DEF IInv, CheckpointRight
  <2>5. \A p \in PageId : p # HEADER_PAGE /\ p < replacement'.count
                            => p \in imageLeft'
    BY <1>1
  <2> QED
    BY <1>1, <1>4, <2>1, <2>2, <2>3, <2>4, <2>5 DEF CheckpointRight
<1>6. PagesRight'
  BY <1>1 DEF IInv, PagesRight, PageRight, PageCount, IsOpen, Held
<1>7. ChainsSound' /\ WrittenRight' /\ CacheRight' /\ ImageRight'
  BY <1>1 DEF IInv, ChainsSound, WrittenRight, CacheRight, ImageRight,
              PageCount
<1>8. ASSUME NEW r \in Reader PROVE ReaderRight(r)'
  <2>1. epoch[r] \in Nat /\ file_epoch \in Nat /\ ReaderRight(r)
    BY DEF IInv, TypeOK
  <2> QED
    BY <1>1, <2>1 DEF ReaderRight
<1>9. CompactsAlone'
  BY <1>1 DEF CompactsAlone
<1> QED
  BY <1>1, <1>2, <1>3, <1>5, <1>6, <1>7, <1>8, <1>9, NoReplyRight DEF IInv

(* Cutting the file to its length keeps the invariant.                     *)
LEMMA TruncateStep ==
    ASSUME IInv, Truncate
    PROVE  IInv'
<1> USE DEF memory, reader
<1>1. /\ UNCHANGED <<versions, replacement, seq, file_epoch, ended_before,
                     past, waiting, imageLeft, waitingLeft, writing, cpLive,
                     snap, gate, rpc, want, epoch, seen, history>>
      /\ wpc = "write" /\ wpc' = "written" /\ Left = {} /\ reply' = NoReply
      /\ file' = [p \in PageId |-> IF p < PageCount THEN file[p] ELSE Absent]
  BY DEF Truncate
<1>2. /\ cache' \in [PageId -> Nat \cup {NotCached}]
      /\ \A p \in PageId : cache'[p] \in {cache[p], NotCached}
      /\ (\E p \in PageId : p >= PageCount /\ file[p] # Absent) =>
            \A p \in PageId : ~(p < PageCount) => cache'[p] = NotCached
  BY DEF IInv, TypeOK, Truncate
<1>3. TypeOK'
  BY <1>1, <1>2, NoReplyRight DEF IInv, TypeOK
<1>4. HeldKnown' /\ CompactsAlone' /\ ChainsSound'
  BY <1>1 DEF IInv, HeldKnown, Held, CompactsAlone, ChainsSound, PageCount
<1>5. PageCount' = PageCount /\ PageCount \in Nat
  BY <1>1 DEF PageCount, IInv, ImageRight
<1>6. PagesRight'
  <2> SUFFICES ASSUME NEW s \in 0 .. seq, IsOpen(s), NEW q \in PageId,
                      q < history[s].count
               PROVE  PageRight(s, q)'
    BY <1>1 DEF IInv, PagesRight, IsOpen, Held, PageCount
  <2>1. PageRight(s, q) /\ history[s].count <= PageCount
    BY DEF IInv, PagesRight
  <2>2. q < PageCount
    BY <1>5, <2>1, PageIds DEF IInv, TypeOK
  <2> QED
    BY <1>1, <2>1, <2>2 DEF PageRight
<1>7. WrittenRight'
  BY <1>1 DEF IInv, WrittenRight, ChainsSound
<1>8. CacheRight'
  <2>1. ASSUME NEW p \in PageId, ~Unwritten(versions[p])
        PROVE  cache'[p] \in {NotCached, file'[p]}
    <3>1. cache[p] \in {NotCached, file[p]}
      BY <2>1 DEF IInv, CacheRight
    <3>2. CASE p < PageCount
      BY <1>1, <1>2, <3>1, <3>2
    <3>3. CASE ~(p < PageCount)
      <4>1. p >= PageCount /\ file'[p] = Absent
        BY <1>1, <1>5, <3>3, PageIds
      <4> QED
        BY <1>2, <3>1, <3>3, <4>1
    <3> QED
      BY <3>2, <3>3
  <2>2. replacement # NoImage => \A p \in PageId : cache'[p] = NotCached
    BY <1>2 DEF IInv, CacheRight
  <2> QED
    BY <1>1, <2>1, <2>2 DEF CacheRight
<1>9. ImageRight'
  BY <1>1, <1>5, PageIds DEF IInv, ImageRight
<1>10. CheckpointRight'
  <2>1. imageLeft = {} /\ waitingLeft = {}
    BY <1>1 DEF Left
  <2>2. writing = NoSnapshot /\ CheckpointRight
    BY <1>1 DEF IInv, CheckpointRight
  <2>3. \A p \in waiting : p < PageCount
    BY <1>1, <2>2 DEF IInv, CheckpointRight, ChainsSound, Unwritten
  <2>4. replacement # NoImage =>
           \A p \in PageId : p < replacement.count => p < PageCount
    BY <1>5, PageIds DEF IInv, ImageRight, TypeOK
  <2>5. \A p \in PageId : p >= PageCount => file'[p] = Absent
    BY <1>1, <1>5, PageIds
  <2>6. \A p \in PageId : p < PageCount => file'[p] = file[p]
    BY <1>1
  <2>7. waiting \in SUBSET PageId
    BY DEF IInv, TypeOK
  <2> QED
    BY <1>1, <1>5, <2>1, <2>2, <2>3, <2>4, <2>5, <2>6, <2>7
       DEF CheckpointRight
<1>11. ASSUME NEW r \in Reader PROVE ReaderRight(r)'
  <2>1. ReaderRight(r) /\ want[r] \in PageId
    BY DEF IInv, TypeOK
  <2>2. replacement = NoImage => file'[want[r]] = file[want[r]]
    <3>1. want[r] < PageCount \/ want[r] >= PageCount
      <4>1. want[r] \in Nat
        BY <2>1, PageIds
      <4>2. PageCount \in Nat
        BY <1>5
      <4> QED
        BY <4>1, <4>2
    <3>2. replacement = NoImage /\ want[r] >= PageCount =>
             file[want[r]] = Absent
      BY <2>1 DEF IInv, ImageRight
    <3> QED
      BY <1>1, <2>1, <3>1, <3>2
  <2> QED
    BY <1>1, <2>1, <2>2 DEF ReaderRight
<1> QED
  BY <1>1, <1>3, <1>4, <1>6, <1>7, <1>8, <1>9, <1>10, <1>11, NoReplyRight
     DEF IInv

(* A checkpoint that fails keeps the invariant.                            *)
LEMMA CheckpointFailsStep ==
    ASSUME IInv, CheckpointFails
    PROVE  IInv'
<1> USE DEF memory, reader
<1>1. /\ UNCHANGED <<file, cache, versions, replacement, seq, file_epoch,
                     ended_before, past, snap, gate, rpc, want, epoch, seen,
                     history>>
      /\ wpc' = "idle" /\ writing' = NoSnapshot /\ waiting' = {}
      /\ imageLeft' = {} /\ waitingLeft' = {} /\ cpLive' = {}
      /\ reply' = NoReply
  BY DEF CheckpointFails
<1>2. TypeOK'
  BY <1>1, NoReplyRight DEF IInv, TypeOK
<1>3. HeldKnown' /\ CheckpointRight' /\ CompactsAlone'
  BY <1>1 DEF IInv, HeldKnown, Held, CheckpointRight, CompactsAlone
<1>4. PagesRight'
  BY <1>1 DEF IInv, PagesRight, PageRight, PageCount, IsOpen, Held
<1>5. ChainsSound' /\ WrittenRight' /\ CacheRight' /\ ImageRight'
  BY <1>1 DEF IInv, ChainsSound, WrittenRight, CacheRight, ImageRight,
              PageCount
<1>6. \A r \in Reader : ReaderRight(r)'
  BY <1>1 DEF IInv, ReaderRight
<1> QED
  BY <1>1, <1>2, <1>3, <1>4, <1>5, <1>6, NoReplyRight DEF IInv

(* What `forget` leaves a reader of commit s that is open, or reads the    *)
(* newest version anyway.                                                  *)
LEMMA ForgetRight ==
    ASSUME NEW chain \in SUBSET Version, Distinct(chain), NEW live,
           NEW m \in chain, IsNewest(chain, m), NEW s,
           NEW v \in chain, ReadBy(chain, v, s), s \in live \/ v = m
    PROVE  /\ Forget(chain, live) # {} =>
                 v \in Forget(chain, live) /\ ReadBy(Forget(chain, live), v, s)
           /\ Forget(chain, live) = {} => v = m /\ m.written
<1>1. CASE s \in live
  BY <1>1, ForgetKeeps
<1>2. CASE v = m
  <2>1. Forget(chain, live) \subseteq chain
    BY ForgetKeeps
  <2>2. Forget(chain, live) # {} => m \in Forget(chain, live)
    BY ForgetKeeps
  <2>3. Forget(chain, live) = {} => m.written
    BY ForgetKeeps
  <2> QED
    BY <1>2, <2>1, <2>2, <2>3 DEF ReadBy
<1> QED
  BY <1>1, <1>2

(* Forgetting, in the memory as it is, what no snapshot in `live` reads:   *)
(* for all open snapshots if they are all in `live`, or current.           *)
LEMMA ForgetStepRight ==
    ASSUME IInv, NEW live, versions' = ForgetAll(versions, live),
           \A s \in 0 .. seq : IsOpen(s)' => s \in live \/ s = seq,
           \A s \in 0 .. seq : IsOpen(s)' => IsOpen(s),
           UNCHANGED <<file, cache, replacement, seq, history>>
    PROVE  /\ ChainsSound' /\ PagesRight' /\ WrittenRight' /\ CacheRight'
           /\ ImageRight' /\ versions' \in [PageId -> Chain]
           /\ \A p \in PageId : Unwritten(versions'[p])
                                  <=> Unwritten(versions[p])
<1>1. \A p \in PageId : /\ versions[p] \in SUBSET Version
                        /\ Distinct(versions[p])
                        /\ versions'[p] = Forget(versions[p], live)
  BY DEF IInv, TypeOK, Chain, ChainsSound, ForgetAll
<1>2. \A p \in PageId : versions[p] = {} => versions'[p] = {}
  BY <1>1 DEF Forget, Prune
<1>3. \A p \in PageId : versions'[p] \subseteq versions[p]
  BY <1>1 DEF Forget, Prune
<1>4. \A p \in PageId : Unwritten(versions'[p]) <=> Unwritten(versions[p])
  <2> SUFFICES ASSUME NEW p \in PageId
               PROVE  Unwritten(versions'[p]) <=> Unwritten(versions[p])
    OBVIOUS
  <2>1. CASE versions[p] = {}
    BY <1>2, <2>1
  <2>2. CASE versions[p] # {}
    <3>1. PICK m \in versions[p] : IsNewest(versions[p], m)
      BY <2>2, HasNewest
    <3> QED
      BY <1>1, <3>1, ForgetKeepsUnwritten
  <2> QED
    BY <2>1, <2>2
<1>5. ChainsSound'
  BY <1>3 DEF IInv, ChainsSound, PageCount, Distinct
<1>6. PagesRight'
  <2> SUFFICES ASSUME NEW s \in 0 .. seq, IsOpen(s)', NEW p \in PageId,
                      p < history[s].count
               PROVE  PageRight(s, p)'
    BY DEF IInv, PagesRight, PageCount
  <2>1. PageRight(s, p)
    BY DEF IInv, PagesRight
  <2>2. CASE versions[p] = {}
    BY <1>2, <2>1, <2>2 DEF PageRight
  <2>3. CASE versions[p] # {}
    <3>1. PICK m \in versions[p] : IsNewest(versions[p], m)
      BY <2>3, HasNewest
    <3>2. PICK v \in versions[p] : /\ ReadBy(versions[p], v, s)
                                   /\ v.page = history[s].page[p]
      BY <2>1, <2>3 DEF PageRight
    <3>3. s \in live \/ v = m
      <4>1. s = seq => IsNewest(versions[p], v)
        <5>1. seq \in Nat /\ \A w \in versions[p] : w.seq <= seq
          BY DEF IInv, ChainsSound, TypeOK
        <5>2. \A w \in versions[p] : w.seq \in Nat
          BY <1>1 DEF Version
        <5> QED
          BY <3>2, <5>1, <5>2 DEF ReadBy, IsNewest
      <4>2. IsNewest(versions[p], v) => v = m
        BY <1>1, <3>1, NewestIs
      <4> QED
        BY <4>1, <4>2
    <3>4. /\ versions'[p] # {} => v \in versions'[p]
                                  /\ ReadBy(versions'[p], v, s)
          /\ versions'[p] = {} => v = m /\ m.written
      BY <1>1, <3>1, <3>2, <3>3, ForgetRight
    <3>5. CASE versions'[p] # {}
      BY <3>2, <3>4, <3>5 DEF PageRight
    <3>6. CASE versions'[p] = {}
      <4>1. file[p] = v.page /\ replacement = NoImage
        BY <3>1, <3>4, <3>6 DEF IInv, WrittenRight
      <4> QED
        BY <3>2, <3>6, <4>1 DEF PageRight
    <3> QED
      BY <3>5, <3>6
  <2> QED
    BY <2>2, <2>3
<1>7. WrittenRight'
  <2> SUFFICES ASSUME NEW p \in PageId, NEW v \in versions'[p],
                      IsNewest(versions'[p], v), v.written
               PROVE  file[p] = v.page /\ replacement = NoImage
    BY DEF WrittenRight
  <2>1. v \in versions[p] /\ versions[p] # {}
    BY <1>3
  <2>2. PICK m \in versions[p] : IsNewest(versions[p], m)
    BY <2>1, HasNewest
  <2>3. m \in versions'[p]
    BY <1>1, <2>2, ForgetKeeps
  <2>4. v = m
    BY <1>1, <2>1, <2>2, <2>3 DEF IsNewest, Distinct, Version
  <2> QED
    BY <2>2, <2>4 DEF IInv, WrittenRight
<1>8. CacheRight'
  BY <1>4 DEF IInv, CacheRight
<1>9. ImageRight'
  <2>1. replacement # NoImage => \A p \in PageId :
           versions'[p] = {} /\ p < PageCount => p < replacement.count
    <3> SUFFICES ASSUME replacement # NoImage, NEW p \in PageId,
                        versions'[p] = {}, p < PageCount
                 PROVE  versions[p] = {}
      BY DEF IInv, ImageRight
    <3> SUFFICES ASSUME versions[p] # {} PROVE FALSE
      OBVIOUS
    <3>1. PICK m \in versions[p] : IsNewest(versions[p], m)
      BY HasNewest
    <3>2. m.written
      BY <1>1, <3>1, ForgetKeeps
    <3> QED
      BY <3>1, <3>2 DEF IInv, WrittenRight
  <2> QED
    BY <1>4, <2>1, PageIds DEF IInv, ImageRight, PageCount
<1>10. versions' \in [PageId -> Chain]
  BY <1>1, <1>3 DEF ForgetAll, Chain
<1> QED
  BY <1>4, <1>5, <1>6, <1>7, <1>8, <1>9, <1>10

(* The `forget` at a checkpoint's end keeps the invariant.                 *)
LEMMA CheckpointForgetStep ==
    ASSUME IInv, CheckpointForget
    PROVE  IInv'
<1> USE DEF memory, reader
<1> DEFINE live == {s \in cpLive : s >= ended_before}
<1>1. /\ UNCHANGED <<file, cache, replacement, seq, file_epoch, ended_before,
                     past, waiting, imageLeft, waitingLeft, writing, snap,
                     gate, rpc, want, epoch, seen, history>>
      /\ wpc = "forget" /\ wpc' = "idle" /\ reply' = NoReply /\ cpLive' = {}
      /\ versions' = ForgetAll(versions, live)
  BY DEF CheckpointForget
<1>2. \A s \in 0 .. seq : IsOpen(s)' => IsOpen(s)
  BY <1>1 DEF IsOpen, Held
<1>3. \A s \in 0 .. seq : IsOpen(s)' => s \in live \/ s = seq
  <2> SUFFICES ASSUME NEW s \in 0 .. seq, Held(s), s >= ended_before, s # seq
               PROVE  s \in cpLive
    BY <1>1 DEF IsOpen, Held
  <2>1. s # NoSnapshot
    BY DEF IInv, TypeOK, NoSnapshot
  <2>2. s \in past
    BY <2>1 DEF IInv, HeldKnown, Held
  <2> QED
    BY <1>1, <2>2 DEF IInv, HeldKnown
<1>4. /\ ChainsSound' /\ PagesRight' /\ WrittenRight' /\ CacheRight'
      /\ ImageRight' /\ versions' \in [PageId -> Chain]
  <2> HIDE DEF live
  <2> QED
    BY <1>1, <1>2, <1>3, ForgetStepRight
<1>5. TypeOK'
  BY <1>1, <1>4, NoReplyRight DEF IInv, TypeOK
<1>6. HeldKnown' /\ CheckpointRight' /\ CompactsAlone'
  BY <1>1 DEF IInv, HeldKnown, Held, CheckpointRight, CompactsAlone
<1>7. \A r \in Reader : ReaderRight(r)'
  BY <1>1 DEF IInv, ReaderRight
<1> QED
  BY <1>1, <1>4, <1>5, <1>6, <1>7, NoReplyRight DEF IInv

(* Marking what the file now holds keeps the invariant.                    *)
LEMMA CheckpointEndStep ==
    ASSUME IInv, CheckpointEnd
    PROVE  IInv'
<1> USE DEF reader
<1>1. /\ UNCHANGED <<file, seq, file_epoch, ended_before, past, imageLeft,
                     waitingLeft, writing, cpLive, snap, gate, rpc, want,
                     epoch, seen, history>>
      /\ wpc = "written" /\ wpc' = "forget" /\ reply' = NoReply
      /\ waiting' = {} /\ replacement' = NoImage
  BY DEF CheckpointEnd
<1>2. \A p \in PageId :
         versions'[p] = IF p \in waiting THEN MarkWritten(versions[p])
                        ELSE versions[p]
  BY DEF CheckpointEnd
<1>3. \A p \in PageId :
         /\ versions'[p] \in SUBSET Version
         /\ versions'[p] = {} <=> versions[p] = {}
         /\ \A w \in versions'[p] : \E v \in versions[p] :
               v.seq = w.seq /\ v.page = w.page
         /\ \A v \in versions[p] : \E w \in versions'[p] :
               w.seq = v.seq /\ w.page = v.page
         /\ Distinct(versions'[p])
  <2> SUFFICES ASSUME NEW p \in PageId
               PROVE  /\ versions'[p] \in SUBSET Version
                      /\ versions'[p] = {} <=> versions[p] = {}
                      /\ \A w \in versions'[p] : \E v \in versions[p] :
                            v.seq = w.seq /\ v.page = w.page
                      /\ \A v \in versions[p] : \E w \in versions'[p] :
                            w.seq = v.seq /\ w.page = v.page
                      /\ Distinct(versions'[p])
    OBVIOUS
  <2>1. versions[p] \in SUBSET Version /\ Distinct(versions[p])
    BY DEF IInv, TypeOK, Chain, ChainsSound
  <2>2. CASE p \notin waiting
    BY <1>2, <2>1, <2>2
  <2>3. CASE p \in waiting
    BY <1>2, <2>1, <2>3, MarkKeeps
  <2> QED
    BY <2>2, <2>3
<1>4. versions' \in [PageId -> Chain]
  <2>1. DOMAIN versions' = PageId /\ versions' = [p \in PageId |-> versions'[p]]
    BY DEF CheckpointEnd
  <2> QED
    BY <1>3, <2>1 DEF Chain
<1>5. /\ waiting = {p \in PageId : Unwritten(versions[p])}
      /\ \A p \in waiting : \A v \in versions[p] :
            IsNewest(versions[p], v) => file[p] = v.page
      /\ \A p \in PageId : p >= PageCount => file[p] = Absent
      /\ replacement # NoImage =>
            \A p \in PageId : p # HEADER_PAGE /\ p < replacement.count
                              /\ p \notin waiting => file[p] = replacement.seq
  BY <1>1 DEF IInv, CheckpointRight
<1>6. \A p \in PageId : \A v \in versions[p] :
         IsNewest(versions[p], v) => file[p] = v.page
  BY <1>5 DEF IInv, WrittenRight, Unwritten
<1>7. ChainsSound'
  BY <1>1, <1>3 DEF IInv, ChainsSound, PageCount
<1>8. PagesRight'
  <2> SUFFICES ASSUME NEW s \in 0 .. seq, IsOpen(s), NEW p \in PageId,
                      p < history[s].count
               PROVE  PageRight(s, p)'
    BY <1>1 DEF IInv, PagesRight, PageCount, IsOpen, Held
  <2>1. PageRight(s, p) /\ history[s].count <= PageCount
    BY DEF IInv, PagesRight
  <2>2. CASE versions[p] # {}
    <3>1. PICK v \in versions[p] : /\ ReadBy(versions[p], v, s)
                                   /\ v.page = history[s].page[p]
      BY <2>1, <2>2 DEF PageRight
    <3>2. PICK w \in versions'[p] : w.seq = v.seq /\ w.page = v.page
      BY <1>3
    <3>3. ReadBy(versions'[p], w, s)
      BY <1>3, <3>1, <3>2 DEF ReadBy
    <3> QED
      BY <1>1, <3>1, <3>2, <3>3 DEF PageRight
  <2>3. CASE versions[p] = {} /\ replacement = NoImage
    BY <1>1, <1>3, <2>1, <2>3 DEF PageRight
  <2>4. CASE versions[p] = {} /\ replacement # NoImage
    <3>1. p # HEADER_PAGE
      BY <2>4 DEF IInv, ImageRight, Unwritten
    <3>2. p < PageCount
      BY <2>1, PageIds DEF IInv, TypeOK, ImageRight
    <3>3. p < replacement.count
      BY <2>4, <3>2 DEF IInv, ImageRight
    <3>4. p \notin waiting
      BY <1>5, <2>4 DEF Unwritten
    <3> QED
      BY <1>1, <1>3, <1>5, <2>1, <2>4, <3>1, <3>3, <3>4 DEF PageRight
  <2> QED
    BY <2>2, <2>3, <2>4
<1>9. WrittenRight'
  <2> SUFFICES ASSUME NEW p \in PageId, NEW w \in versions'[p],
                      IsNewest(versions'[p], w)
               PROVE  file[p] = w.page
    BY <1>1 DEF WrittenRight
  <2>1. PICK v \in versions[p] : v.seq = w.seq /\ v.page = w.page
    BY <1>3
  <2>2. IsNewest(versions[p], v)
    BY <1>3, <2>1 DEF IsNewest
  <2> QED
    BY <1>6, <2>1, <2>2
<1>10. \A p \in PageId : cache'[p] \in {NotCached, file[p]}
       /\ cache' \in [PageId -> Nat \cup {NotCached}]
  <2>1. PICK kept \in SUBSET PageId :
           cache' = [p \in PageId |->
                       IF p \notin kept THEN NotCached
                       ELSE IF p \in waiting /\ p < PageCount
                            THEN Newest(versions[p]).page
                       ELSE cache[p]]
    BY DEF CheckpointEnd
  <2> SUFFICES ASSUME NEW p \in PageId
               PROVE  /\ cache'[p] \in {NotCached, file[p]}
                      /\ cache'[p] \in Nat \cup {NotCached}
    BY <2>1
  <2>2. CASE p \in waiting
    <3>1. versions[p] # {} /\ p < PageCount
      BY <1>5, <2>2 DEF IInv, ChainsSound, Unwritten
    <3>2. PICK v \in versions[p] : /\ IsNewest(versions[p], v)
                                   /\ Newest(versions[p]) = v
      BY <3>1, HasNewest
    <3>3. v.page \in Nat
      BY DEF IInv, TypeOK, Chain, Version
    <3> QED
      BY <1>6, <2>1, <2>2, <3>1, <3>2, <3>3
  <2>3. CASE p \notin waiting
    <3>1. cache[p] \in {NotCached, file[p]} /\ cache[p] \in Nat \cup {NotCached}
      BY <1>5, <2>3 DEF IInv, CacheRight, TypeOK
    <3> QED
      BY <2>1, <2>3, <3>1
  <2> QED
    BY <2>2, <2>3
<1>11. CacheRight'
  BY <1>1, <1>10 DEF CacheRight
<1>12. ImageRight'
  BY <1>1, <1>5 DEF IInv, ImageRight, PageCount, NoImage
<1>13. TypeOK'
  <2>1. replacement' \in [seq : Nat, count : Nat]
    BY <1>1 DEF NoImage
  <2>2. waiting' \in SUBSET PageId
    BY <1>1
  <2> QED
    BY <1>1, <1>4, <1>10, <2>1, <2>2, NoReplyRight DEF IInv, TypeOK
<1>14. HeldKnown' /\ CompactsAlone'
  BY <1>1 DEF IInv, HeldKnown, Held, CompactsAlone
<1>15. CheckpointRight'
  BY <1>1 DEF IInv, CheckpointRight
<1>16. \A r \in Reader : ReaderRight(r)'
  BY <1>1 DEF IInv, ReaderRight
<1> QED
  BY <1>1, <1>7, <1>8, <1>9, <1>11, <1>12, <1>13, <1>14, <1>15, <1>16,
     NoReplyRight DEF IInv

(* Publishing a compaction's image keeps the invariant.                    *)
LEMMA CommitReplacingStep ==
    ASSUME IInv, NEW n \in 1 .. MaxPages, CommitReplacing(n)
    PROVE  IInv'
<1> USE DEF reader
<1> DEFINE new == [seq |-> seq + 1, page |-> seq + 1, written |-> FALSE]
<1>1. /\ UNCHANGED <<file, ended_before, waiting, imageLeft, waitingLeft,
                     writing, cpLive, snap, gate, rpc, want, epoch, seen>>
      /\ wpc = "compact" /\ wpc' = "idle" /\ reply' = NoReply
      /\ seq' = seq + 1 /\ file_epoch' = file_epoch + 1
      /\ versions' = [p \in PageId |-> IF p = HEADER_PAGE THEN {new} ELSE {}]
      /\ cache' = [p \in PageId |-> NotCached]
      /\ replacement' = [seq |-> seq + 1, count |-> n]
      /\ past' = {s \in past : Held(s)}
      /\ Record(n, 0 .. n - 1)
  BY DEF CommitReplacing
<1>2. seq \in Nat /\ ended_before \in Nat /\ file_epoch \in Nat /\ n \in Nat
      /\ ended_before <= seq /\ n >= 1 /\ MaxPages \in Nat /\ n <= MaxPages
  BY PagesAssumption DEF IInv, TypeOK, HeldKnown
<1>3. /\ \A s \in 0 .. seq : history'[s] = history[s]
      /\ history'[seq + 1].count = n
      /\ \A p \in PageId : p < n => history'[seq + 1].page[p] = seq + 1
      /\ history' \in [0 .. seq + 1 -> [count : Nat, page : [PageId -> Nat]]]
  <2>1. history \in [0 .. seq -> [count : Nat, page : [PageId -> Nat]]]
    BY DEF IInv, TypeOK
  <2>2. \A p \in PageId : p < n => p \in 0 .. n - 1
    BY <1>2, PageIds
  <2>3. /\ \A s \in 0 .. seq : history'[s] = history[s]
        /\ history'[seq + 1].count = n
        /\ \A p \in PageId : history'[seq + 1].page[p] =
              IF p \in 0 .. n - 1 THEN seq + 1 ELSE history[seq].page[p]
        /\ history' \in [0 .. seq + 1 ->
                            [count : Nat, page : [PageId -> Nat]]]
    BY <1>1, <1>2, <2>1, RecordRight
  <2> QED
    BY <2>2, <2>3
<1>4. replacement' # NoImage /\ replacement'.count = n
      /\ replacement'.seq = seq + 1
  BY <1>1, <1>2 DEF NoImage
<1>5. new \in Version
  BY <1>2 DEF Version
<1>6. TypeOK'
  <2>1. versions' \in [PageId -> Chain]
    BY <1>1, <1>5 DEF Chain
  <2>2. cache' \in [PageId -> Nat \cup {NotCached}]
    BY <1>1
  <2>3. replacement' \in [seq : Nat, count : Nat] /\ seq' \in Nat
        /\ file_epoch' \in Nat
    BY <1>1, <1>2
  <2>4. past' \in SUBSET Nat
    BY <1>1 DEF IInv, TypeOK
  <2>5. history' \in [0 .. seq' -> [count : Nat, page : [PageId -> Nat]]]
    BY <1>1, <1>3
  <2> QED
    BY <1>1, <2>1, <2>2, <2>3, <2>4, <2>5, NoReplyRight DEF IInv, TypeOK
<1>7. \A r \in Reader : snap[r] \in Nat \cup {NoSnapshot}
                        /\ snap[r] < ended_before
  BY <1>1 DEF IInv, CompactsAlone, TypeOK
<1>8. HeldKnown'
  <2>1. ASSUME NEW r \in Reader, snap[r] # NoSnapshot
        PROVE  snap[r] <= seq + 1 /\ snap[r] \in past'
    BY <1>1, <1>2, <1>7, <2>1 DEF IInv, HeldKnown, Held
  <2>2. \A s \in past : s \in Nat /\ s < seq + 1
    BY <1>2 DEF IInv, HeldKnown, TypeOK
  <2>3. \A s \in cpLive : s \in Nat /\ s < seq + 1
    BY <1>2 DEF IInv, HeldKnown, TypeOK
  <2> QED
    BY <1>1, <1>2, <2>1, <2>2, <2>3 DEF HeldKnown
<1>9. \A s \in 0 .. seq + 1 : IsOpen(s)' => s = seq + 1
  BY <1>1, <1>2, <1>7 DEF IsOpen, Held
<1>10. PageCount' = n
  BY <1>1, <1>3 DEF PageCount
<1>11. PagesRight'
  <2>1. ASSUME NEW s, s = seq + 1, NEW p \in PageId, p < n
        PROVE  PageRight(s, p)'
    <3>1. CASE p = HEADER_PAGE
      <4>1. versions'[p] = {new}
        BY <1>1, <3>1
      <4>2. ReadBy({new}, new, s)
        BY <1>2, <2>1 DEF ReadBy
      <4> QED
        BY <1>3, <2>1, <4>1, <4>2 DEF PageRight
    <3>2. CASE p # HEADER_PAGE
      BY <1>1, <1>3, <1>4, <2>1, <3>2 DEF PageRight
    <3> QED
      BY <3>1, <3>2
  <2> SUFFICES ASSUME NEW s \in 0 .. seq + 1, IsOpen(s)'
               PROVE  /\ history'[s].count <= PageCount'
                      /\ \A p \in PageId : p < history'[s].count
                                             => PageRight(s, p)'
    BY <1>1 DEF PagesRight
  <2>2. s = seq + 1
    BY <1>9
  <2>3. history'[s].count = n
    BY <1>3, <2>2
  <2> QED
    BY <1>2, <1>10, <2>1, <2>2, <2>3
<1>12. ChainsSound'
  <2> SUFFICES ASSUME NEW p \in PageId
               PROVE  /\ \A v \in versions'[p] : v.seq <= seq'
                      /\ Distinct(versions'[p])
                      /\ versions'[p] # {} => p < PageCount'
    BY DEF ChainsSound
  <2>1. CASE p = HEADER_PAGE
    <3>1. versions'[p] = {new}
      BY <1>1, <2>1
    <3>2. \A v \in versions'[p] : v.seq = seq + 1
      BY <3>1
    <3>3. Distinct(versions'[p])
      BY <3>1 DEF Distinct
    <3> QED
      BY <1>1, <1>2, <1>10, <2>1, <3>2, <3>3 DEF HEADER_PAGE
  <2>2. CASE p # HEADER_PAGE
    <3>1. versions'[p] = {}
      BY <1>1, <2>2
    <3> QED
      BY <3>1 DEF Distinct
  <2> QED
    BY <2>1, <2>2
<1>13. WrittenRight' /\ CacheRight'
  BY <1>1 DEF WrittenRight, CacheRight
<1>14. ImageRight'
  <2>1. Unwritten(versions'[HEADER_PAGE])
    <3>1. versions'[HEADER_PAGE] = {new}
      BY <1>1, PageIds
    <3> QED
      BY <1>2, <3>1 DEF Unwritten, IsNewest
  <2> QED
    BY <1>2, <1>4, <1>10, <2>1 DEF ImageRight
<1>15. CheckpointRight' /\ CompactsAlone'
  BY <1>1 DEF IInv, CheckpointRight, CompactsAlone
<1>16. ASSUME NEW r \in Reader PROVE ReaderRight(r)'
  <2>1. ReaderRight(r) /\ epoch[r] \in Nat
    BY DEF IInv, TypeOK
  <2>2. rpc[r] # "open" => history'[snap[r]] = history[snap[r]]
    BY <1>3, <2>1 DEF ReaderRight, IInv, HeldKnown, TypeOK
  <2> QED
    BY <1>1, <1>2, <2>1, <2>2 DEF ReaderRight
<1> QED
  BY <1>1, <1>6, <1>8, <1>11, <1>12, <1>13, <1>14, <1>15, <1>16, NoReplyRight
     DEF IInv

(* What the limit does to the chains a commit has made: nothing, or it     *)
(* forgets all but what the snapshots it hasn't ended read.                *)
LEMMA LimitRight ==
    ASSUME NEW chains, NEW count, NEW live \in SUBSET Nat,
           seq \in Nat, ended_before \in Nat, ended_before <= seq,
           \A s \in live : s >= ended_before /\ s <= seq,
           KeepWithinLimit(chains, count, live)
    PROVE  /\ ended_before' \in Nat
           /\ ended_before <= ended_before'
           /\ ended_before' <= seq + 1
           /\ \/ versions' = chains
              \/ \E left : /\ versions' = ForgetAll(chains, left)
                           /\ \A s \in live : s >= ended_before' => s \in left
<1> DEFINE after(end) == ForgetAll(chains, {s \in live : s >= end})
<1>1. CASE versions' = chains /\ ended_before' = ended_before
  BY <1>1
<1>2. CASE live = {} /\ versions' = after(0) /\ ended_before' = ended_before
  BY <1>2
<1>3. CASE \E end \in {s + 1 : s \in live} :
              versions' = after(end) /\ ended_before' = end
  <2>1. PICK s0 \in live : /\ versions' = after(s0 + 1)
                           /\ ended_before' = s0 + 1
    BY <1>3
  <2>2. s0 \in Nat /\ s0 >= ended_before /\ s0 <= seq
    OBVIOUS
  <2>3. \A s \in live : s >= ended_before' =>
           s \in {s1 \in live : s1 >= s0 + 1}
    BY <2>1
  <2> QED
    BY <2>1, <2>2, <2>3
<1>4. \/ versions' = chains /\ ended_before' = ended_before
      \/ live = {} /\ versions' = after(0) /\ ended_before' = ended_before
      \/ \E end \in {s + 1 : s \in live} :
            versions' = after(end) /\ ended_before' = end
  BY DEF KeepWithinLimit
<1> QED
  BY <1>1, <1>2, <1>3, <1>4

(* The chain a commit makes of a page it changes: its own version is the   *)
(* newest, and every snapshot in `open` finds the page it was to read.     *)
LEMMA CommittedRight ==
    ASSUME IInv, NEW p \in PageId, NEW open \in SUBSET (0 .. seq),
           \A s \in open : IsOpen(s), NEW new \in Version,
           new = [seq |-> seq + 1, page |-> seq + 1, written |-> FALSE]
    PROVE  /\ Committed(p, open) \in SUBSET Version
           /\ Distinct(Committed(p, open))
           /\ new \in Committed(p, open)
           /\ IsNewest(Committed(p, open), new)
           /\ \A s \in open : p < history[s].count =>
                 \E v \in Committed(p, open) :
                    /\ ReadBy(Committed(p, open), v, s)
                    /\ v.page = history[s].page[p]
<1> DEFINE old == [seq |-> 0, page |-> Before(p), written |-> TRUE]
           was == IF versions[p] # {} THEN versions[p]
                  ELSE IF open # {} /\ p < PageCount THEN {old} ELSE {}
           all == was \cup {new}
<1>1. Committed(p, open) = Prune(all, open)
  BY DEF Committed
<1>2. seq \in Nat /\ versions[p] \in SUBSET Version /\ Distinct(versions[p])
      /\ \A v \in versions[p] : v.seq <= seq
  BY DEF IInv, TypeOK, Chain, ChainsSound
<1>3. versions[p] = {} /\ p < PageCount =>
         /\ Before(p) \in Nat
         /\ \A s \in 0 .. seq : IsOpen(s) /\ p < history[s].count =>
               history[s].page[p] = Before(p)
  <2> SUFFICES ASSUME versions[p] = {}, p < PageCount
               PROVE  /\ Before(p) \in Nat
                      /\ \A s \in 0 .. seq : IsOpen(s) /\ p < history[s].count
                            => history[s].page[p] = Before(p)
    OBVIOUS
  <2>1. ~Unwritten(versions[p])
    BY DEF Unwritten
  <2>2. Before(p) = IF replacement # NoImage THEN replacement.seq ELSE file[p]
    <3>1. cache[p] \in {NotCached, file[p]} /\ replacement.seq \in Nat
      BY <2>1 DEF IInv, CacheRight, TypeOK
    <3>2. Lookup(p, seq) = IF replacement # NoImage THEN replacement.seq
                           ELSE cache[p]
      BY DEF Lookup
    <3> QED
      BY <3>1, <3>2 DEF Before, NotCached
  <2>3. \A s \in 0 .. seq : IsOpen(s) /\ p < history[s].count =>
           history[s].page[p] = Before(p)
    BY <2>2 DEF IInv, PagesRight, PageRight
  <2>4. IsOpen(seq) /\ seq \in 0 .. seq /\ history[seq].page[p] \in Nat
    BY <1>2 DEF IsOpen, IInv, TypeOK
  <2> QED
    BY <2>3, <2>4 DEF PageCount
<1>4. /\ was \in SUBSET Version /\ Distinct(was)
      /\ \A v \in was : v.seq < seq + 1
  <2>1. CASE versions[p] # {}
    BY <1>2, <2>1 DEF Version
  <2>2. CASE versions[p] = {} /\ open # {} /\ p < PageCount
    <3>1. old \in Version /\ was = {old} /\ old.seq = 0
      BY <1>3, <2>2 DEF Version
    <3>2. was \in SUBSET Version /\ Distinct(was)
      BY <3>1 DEF Distinct
    <3>3. \A v \in was : v.seq = 0
      BY <3>1
    <3> QED
      BY <1>2, <3>2, <3>3
  <2>3. CASE versions[p] = {} /\ ~(open # {} /\ p < PageCount)
    BY <2>3 DEF Distinct
  <2> QED
    BY <2>1, <2>2, <2>3
<1>5. ASSUME NEW s \in open, p < history[s].count
      PROVE  \E v \in was : ReadBy(was, v, s) /\ v.page = history[s].page[p]
  <2>1. IsOpen(s) /\ s \in 0 .. seq
    BY <1>5
  <2>2. PageRight(s, p) /\ history[s].count <= PageCount
    BY <1>5, <2>1 DEF IInv, PagesRight
  <2>3. p < PageCount
    <3>1. history[s].count \in Nat /\ PageCount \in Nat /\ p \in Nat
      BY <2>1, PageIds DEF IInv, TypeOK, ImageRight
    <3> QED
      BY <1>5, <2>2, <3>1
  <2>4. CASE versions[p] # {}
    BY <2>2, <2>4 DEF PageRight
  <2>5. CASE versions[p] = {}
    <3>1. was = {old} /\ old.seq = 0 /\ old.page = Before(p)
      BY <1>5, <2>3, <2>5
    <3>2. ReadBy(was, old, s)
      BY <2>1, <3>1 DEF ReadBy
    <3> QED
      BY <1>3, <1>5, <2>1, <2>3, <2>5, <3>1, <3>2
  <2> QED
    BY <2>4, <2>5
<1> HIDE DEF was
<1>6. all \in SUBSET Version /\ Distinct(all) /\ new.seq = seq + 1
  <2>1. new.seq = seq + 1 /\ all \in SUBSET Version
    BY <1>4
  <2>2. \A v \in was : v.seq # new.seq
    BY <1>2, <1>4, <2>1 DEF Version
  <2>3. Distinct(all)
    BY <1>4, <2>2 DEF Distinct
  <2> QED
    BY <2>1, <2>3
<1>7. IsNewest(all, new)
  BY <1>2, <1>4, <1>6 DEF IsNewest, Version
<1>8. ASSUME NEW s \in open, NEW v \in was, ReadBy(was, v, s)
      PROVE  ReadBy(all, v, s)
  <2>1. s < new.seq
    <3>1. s \in 0 .. seq
      BY <1>8
    <3> QED
      BY <1>2, <1>6, <3>1
  <2> QED
    BY <1>8, <2>1 DEF ReadBy
<1> HIDE DEF all
<1>9. new \in all /\ was \subseteq all
  BY DEF all
<1>10. /\ Prune(all, open) \subseteq all
       /\ new \in Prune(all, open) /\ IsNewest(Prune(all, open), new)
  <2>1. Prune(all, open) \subseteq all
    BY DEF Prune
  <2> QED
    BY <1>6, <1>7, <1>9, <2>1, PruneKeepsNewest
<1>11. Prune(all, open) \in SUBSET Version /\ Distinct(Prune(all, open))
  BY <1>6, <1>10 DEF Distinct
<1>12. ASSUME NEW s \in open, p < history[s].count
       PROVE  \E v \in Prune(all, open) :
                 ReadBy(Prune(all, open), v, s) /\ v.page = history[s].page[p]
  <2>1. PICK v \in was : ReadBy(was, v, s) /\ v.page = history[s].page[p]
    BY <1>5, <1>12
  <2>2. v \in all /\ ReadBy(all, v, s)
    BY <1>8, <1>9, <2>1
  <2> QED
    BY <2>1, <2>2, PruneKeepsRead
<1> QED
  BY <1>1, <1>10, <1>11, <1>12

(* What the limit leaves of one chain with newest version m.               *)
LEMMA LimitKeeps ==
    ASSUME NEW chain \in SUBSET Version, Distinct(chain),
           NEW m \in chain, IsNewest(chain, m), NEW left, NEW after,
           after = chain \/ after = Forget(chain, left)
    PROVE  /\ after \subseteq chain
           /\ after # {} => m \in after
           /\ after = {} => m.written
           /\ Unwritten(after) <=> Unwritten(chain)
<1>1. CASE after = chain
  BY <1>1
<1>2. CASE after = Forget(chain, left)
  <2>1. Forget(chain, left) \subseteq chain
    BY ForgetKeeps
  <2>2. Forget(chain, left) # {} => m \in Forget(chain, left)
    BY ForgetKeeps
  <2>3. Forget(chain, left) = {} => m.written
    BY ForgetKeeps
  <2>4. Unwritten(Forget(chain, left)) <=> Unwritten(chain)
    BY ForgetKeepsUnwritten
  <2> QED
    BY <1>2, <2>1, <2>2, <2>3, <2>4
<1> QED
  BY <1>1, <1>2

(* A commit keeps the invariant.                                           *)
LEMMA CommitStep ==
    ASSUME IInv, NEW dirty \in SUBSET PageId, NEW n \in PageCount .. MaxPages,
           Commit(dirty, n)
    PROVE  IInv'
<1> USE DEF reader
<1> DEFINE open == Live(PastWithCurrent)
           new == [seq |-> seq + 1, page |-> seq + 1, written |-> FALSE]
           chains == [p \in PageId |-> IF p \in dirty THEN Committed(p, open)
                                       ELSE versions[p]]
<1>1. /\ UNCHANGED <<file, cache, replacement, file_epoch, wpc, waiting,
                     imageLeft, waitingLeft, writing, cpLive, snap, gate, rpc,
                     want, epoch, seen>>
      /\ wpc = "idle" /\ reply' = NoReply /\ seq' = seq + 1
      /\ past' = {s \in PastWithCurrent : Held(s)}
      /\ CanStage(dirty, n) /\ Record(n, dirty)
      /\ \E count : KeepWithinLimit(chains, count, open)
  BY DEF Commit
<1>2. /\ seq \in Nat /\ ended_before \in Nat /\ ended_before <= seq
      /\ PageCount \in 1 .. MaxPages /\ MaxPages \in Nat
      /\ n \in 1 .. MaxPages /\ PageCount <= n
  BY PagesAssumption DEF IInv, TypeOK, HeldKnown, ImageRight
<1>3. /\ new \in Version
      /\ new.seq = seq + 1 /\ new.page = seq + 1 /\ ~new.written
  BY <1>2 DEF Version
<1>4. /\ PastWithCurrent \in SUBSET (0 .. seq)
      /\ open \in SUBSET (0 .. seq)
      /\ \A s \in open : IsOpen(s) /\ s >= ended_before /\ s <= seq
  <2>1. past \in SUBSET Nat /\ \A s \in past : s < seq
    BY DEF IInv, TypeOK, HeldKnown
  <2>2. PastWithCurrent \in SUBSET (0 .. seq)
    BY <1>2, <2>1 DEF PastWithCurrent
  <2>3. \A s \in open : s \in PastWithCurrent /\ Held(s) /\ s >= ended_before
    BY DEF Live
  <2>4. \A s \in 0 .. seq : s <= seq
    BY <1>2
  <2>5. \A s \in open : IsOpen(s)
    BY <2>3 DEF IsOpen
  <2> HIDE DEF open
  <2> QED
    BY <2>2, <2>3, <2>4, <2>5
<1> HIDE DEF new, open
<1>5. /\ \A s \in 0 .. seq : history'[s] = history[s]
      /\ history'[seq + 1].count = n
      /\ \A p \in PageId : history'[seq + 1].page[p] =
            IF p \in dirty THEN seq + 1 ELSE history[seq].page[p]
      /\ history' \in [0 .. seq + 1 -> [count : Nat, page : [PageId -> Nat]]]
  <2>1. history \in [0 .. seq -> [count : Nat, page : [PageId -> Nat]]]
    BY DEF IInv, TypeOK
  <2>2. n \in Nat
    BY <1>2
  <2> QED
    BY <1>1, <1>2, <2>1, <2>2, RecordRight
<1>6. PageCount' = n
  BY <1>1, <1>5 DEF PageCount
<1>7. /\ ended_before' \in Nat
      /\ ended_before <= ended_before'
      /\ ended_before' <= seq + 1
  <2> HIDE DEF chains
  <2> QED
    BY <1>1, <1>2, <1>4, LimitRight
<1>8. PICK left : /\ \A s \in open : s >= ended_before' => s \in left
                  /\ \A p \in PageId : \/ versions'[p] = chains[p]
                                       \/ versions'[p] = Forget(chains[p], left)
                  /\ versions' = [p \in PageId |-> versions'[p]]
  <2>1. chains = [p \in PageId |-> chains[p]]
    OBVIOUS
  <2> HIDE DEF chains
  <2>2. \/ versions' = chains
        \/ \E left : /\ versions' = ForgetAll(chains, left)
                     /\ \A s \in open : s >= ended_before' => s \in left
    BY <1>1, <1>2, <1>4, LimitRight
  <2>3. CASE versions' = chains
    BY <2>1, <2>3
  <2>4. CASE versions' # chains
    <3>1. PICK left : /\ versions' = ForgetAll(chains, left)
                      /\ \A s \in open : s >= ended_before' => s \in left
      BY <2>2, <2>4
    <3> QED
      BY <3>1 DEF ForgetAll
  <2> QED
    BY <2>3, <2>4
<1>9. ASSUME NEW p \in PageId, p \in dirty
      PROVE  /\ chains[p] \in SUBSET Version /\ Distinct(chains[p])
             /\ new \in chains[p] /\ IsNewest(chains[p], new)
             /\ \A s \in open : p < history[s].count =>
                   \E v \in chains[p] : /\ ReadBy(chains[p], v, s)
                                        /\ v.page = history[s].page[p]
             /\ p < n
  <2>1. chains[p] = Committed(p, open)
    BY <1>9
  <2>2. p < n
    BY <1>1, <1>9 DEF CanStage
  <2> QED
    BY <1>3, <1>4, <2>1, <2>2, CommittedRight DEF new
<1>10. ASSUME NEW p \in PageId, p \notin dirty
       PROVE  /\ chains[p] = versions[p]
              /\ chains[p] \in SUBSET Version /\ Distinct(chains[p])
              /\ \A v \in chains[p] : v.seq <= seq
              /\ p < n => p < PageCount
  <2>1. p < n => p < PageCount
    BY <1>1, <1>2, <1>10, PageIds DEF CanStage
  <2> QED
    BY <1>10, <2>1 DEF IInv, TypeOK, Chain, ChainsSound
<1>11. ASSUME NEW p \in PageId, chains[p] # {}
       PROVE  \E m \in chains[p] :
                 /\ IsNewest(chains[p], m)
                 /\ p \in dirty => m = new
                 /\ p \notin dirty => m.page = history[seq].page[p]
  <2>1. CASE p \in dirty
    BY <1>9, <2>1
  <2>2. CASE p \notin dirty
    BY <1>10, <1>11, <2>2, HasNewest
  <2> QED
    BY <2>1, <2>2
<1> HIDE DEF chains
<1>12. ASSUME NEW p \in PageId, chains[p] = {}
       PROVE  versions'[p] = {}
  BY <1>8, <1>12 DEF Forget, Prune, Older, Unwritten
<1>13. ASSUME NEW p \in PageId, NEW m \in chains[p], IsNewest(chains[p], m)
       PROVE  /\ versions'[p] \subseteq chains[p]
              /\ versions'[p] # {} => m \in versions'[p]
              /\ versions'[p] = {} => m.written
              /\ Unwritten(versions'[p]) <=> Unwritten(chains[p])
              /\ \A s : \A v \in chains[p] :
                    ReadBy(chains[p], v, s) /\ (s \in left \/ v = m) =>
                       /\ versions'[p] # {} => /\ v \in versions'[p]
                                               /\ ReadBy(versions'[p], v, s)
                       /\ versions'[p] = {} => v = m
  <2>1. chains[p] \in SUBSET Version /\ Distinct(chains[p])
    BY <1>9, <1>10
  <2>2. versions'[p] = chains[p] \/ versions'[p] = Forget(chains[p], left)
    BY <1>8
  <2> QED
    <3>1. /\ versions'[p] \subseteq chains[p]
          /\ versions'[p] # {} => m \in versions'[p]
          /\ versions'[p] = {} => m.written
          /\ Unwritten(versions'[p]) <=> Unwritten(chains[p])
      BY <1>13, <2>1, <2>2, LimitKeeps
    <3>2. ASSUME NEW s, NEW v \in chains[p], ReadBy(chains[p], v, s),
                 s \in left \/ v = m
          PROVE  /\ versions'[p] # {} => /\ v \in versions'[p]
                                         /\ ReadBy(versions'[p], v, s)
                 /\ versions'[p] = {} => v = m
      <4>1. CASE versions'[p] = chains[p]
        BY <3>2, <4>1
      <4>2. CASE versions'[p] = Forget(chains[p], left)
        <5>1. /\ Forget(chains[p], left) # {} =>
                    /\ v \in Forget(chains[p], left)
                    /\ ReadBy(Forget(chains[p], left), v, s)
              /\ Forget(chains[p], left) = {} => v = m /\ m.written
          BY <1>13, <2>1, <3>2, ForgetRight
        <5> QED
          BY <4>2, <5>1
      <4> QED
        BY <2>2, <4>1, <4>2
    <3> QED
      BY <3>1, <3>2
<1>14. ASSUME NEW p \in PageId
       PROVE  versions'[p] \subseteq chains[p]
  BY <1>11, <1>12, <1>13
<1>15. \A s \in 0 .. seq + 1 : IsOpen(s)' =>
          \/ s = seq + 1
          \/ s \in open /\ s \in left /\ IsOpen(s) /\ s \in 0 .. seq
  <2> SUFFICES ASSUME NEW s \in 0 .. seq + 1, Held(s), s >= ended_before'
               PROVE  s \in open
    BY <1>1, <1>2, <1>4, <1>8 DEF IsOpen, Held
  <2>1. s # NoSnapshot /\ s \in Nat /\ s >= ended_before
    BY <1>2, <1>7 DEF NoSnapshot
  <2>2. s \in PastWithCurrent
    BY <2>1 DEF IInv, HeldKnown, Held, PastWithCurrent
  <2> QED
    BY <2>1, <2>2 DEF open, Live
<1>16. ASSUME NEW s \in 0 .. seq + 1, IsOpen(s)', NEW p \in PageId,
              p < history'[s].count
       PROVE  /\ chains[p] # {} => \E v \in chains[p] :
                    /\ ReadBy(chains[p], v, s)
                    /\ v.page = history'[s].page[p]
                    /\ s \in left \/ IsNewest(chains[p], v)
              /\ chains[p] = {} => history'[s].page[p] =
                    IF replacement # NoImage THEN replacement.seq ELSE file[p]
  <2>1. CASE s = seq + 1 /\ p \in dirty
    <3>1. ReadBy(chains[p], new, s)
      BY <1>2, <1>3, <1>9, <2>1 DEF ReadBy, IsNewest, Version
    <3>2. new.page = history'[s].page[p]
      BY <1>3, <1>5, <2>1
    <3> QED
      BY <1>9, <2>1, <3>1, <3>2
  <2>2. CASE s = seq + 1 /\ p \notin dirty
    <3>1. p < PageCount /\ history'[s].page[p] = history[seq].page[p]
      BY <1>5, <1>10, <1>16, <2>2
    <3>2. CASE chains[p] = {}
      <4>1. PageRight(seq, p) /\ versions[p] = {}
        BY <1>2, <1>10, <2>2, <3>1, <3>2
           DEF IInv, PagesRight, IsOpen, PageCount
      <4> QED
        BY <3>1, <3>2, <4>1 DEF PageRight
    <3>3. CASE chains[p] # {}
      <4>1. PICK m \in chains[p] : /\ IsNewest(chains[p], m)
                                   /\ m.page = history[seq].page[p]
        BY <1>11, <2>2, <3>3
      <4>2. ReadBy(chains[p], m, s)
        BY <1>2, <1>10, <2>2, <4>1 DEF ReadBy, IsNewest, Version
      <4> QED
        BY <3>1, <3>3, <4>1, <4>2
    <3> QED
      BY <3>2, <3>3
  <2>3. CASE s # seq + 1
    <3>1. s \in open /\ s \in left /\ IsOpen(s) /\ s \in 0 .. seq
          /\ history'[s] = history[s]
      BY <1>5, <1>15, <1>16, <2>3
    <3>2. CASE p \in dirty
      <4>1. p < history[s].count
        BY <1>16, <3>1
      <4>2. PICK v \in chains[p] : /\ ReadBy(chains[p], v, s)
                                   /\ v.page = history[s].page[p]
        BY <1>9, <3>1, <3>2, <4>1
      <4> QED
        BY <3>1, <4>2
    <3>3. CASE p \notin dirty
      <4>1. PageRight(s, p) /\ chains[p] = versions[p]
        BY <1>10, <1>16, <3>1, <3>3 DEF IInv, PagesRight
      <4> QED
        BY <3>1, <4>1 DEF PageRight
    <3> QED
      BY <3>2, <3>3
  <2> QED
    BY <2>1, <2>2, <2>3
<1>17. PagesRight'
  <2> SUFFICES ASSUME NEW s \in 0 .. seq + 1, IsOpen(s)'
               PROVE  /\ history'[s].count <= PageCount'
                      /\ \A p \in PageId : p < history'[s].count
                                             => PageRight(s, p)'
    BY <1>1 DEF PagesRight
  <2>1. history'[s].count <= PageCount'
    <3>1. CASE s = seq + 1
      BY <1>2, <1>5, <1>6, <3>1
    <3>2. CASE s # seq + 1
      <4>1. s \in 0 .. seq /\ IsOpen(s) /\ history'[s] = history[s]
        BY <1>5, <1>15, <3>2
      <4>2. history[s].count <= PageCount /\ history[s].count \in Nat
        BY <4>1 DEF IInv, PagesRight, TypeOK
      <4> QED
        BY <1>2, <1>6, <4>1, <4>2
    <3> QED
      BY <3>1, <3>2
  <2>2. ASSUME NEW p \in PageId, p < history'[s].count
        PROVE  PageRight(s, p)'
    <3>1. CASE chains[p] = {}
      BY <1>1, <1>12, <1>16, <2>2, <3>1 DEF PageRight
    <3>2. CASE chains[p] # {}
      <4>1. PICK v \in chains[p] : /\ ReadBy(chains[p], v, s)
                                   /\ v.page = history'[s].page[p]
                                   /\ s \in left \/ IsNewest(chains[p], v)
        BY <1>16, <2>2, <3>2
      <4>2. PICK m \in chains[p] : /\ IsNewest(chains[p], m)
                                   /\ p \in dirty => m = new
        BY <1>11, <3>2
      <4>3. IsNewest(chains[p], v) => v = m
        BY <1>9, <1>10, <4>2, NewestIs
      <4>4. /\ versions'[p] # {} => /\ v \in versions'[p]
                                    /\ ReadBy(versions'[p], v, s)
            /\ versions'[p] = {} => v = m /\ m.written
        BY <1>13, <4>1, <4>2, <4>3
      <4>5. CASE versions'[p] # {}
        BY <4>1, <4>4, <4>5 DEF PageRight
      <4>6. CASE versions'[p] = {}
        <5>1. p \notin dirty /\ v = m /\ v.written
          BY <1>3, <4>2, <4>4, <4>6
        <5>2. file[p] = v.page /\ replacement = NoImage
          BY <1>10, <4>2, <5>1 DEF IInv, WrittenRight
        <5> QED
          BY <1>1, <4>1, <4>6, <5>2 DEF PageRight
      <4> QED
        BY <4>5, <4>6
    <3> QED
      BY <3>1, <3>2
  <2> QED
    BY <2>1, <2>2
<1>18. ChainsSound'
  <2> SUFFICES ASSUME NEW p \in PageId
               PROVE  /\ \A v \in versions'[p] : v.seq <= seq + 1
                      /\ Distinct(versions'[p])
                      /\ versions'[p] # {} => p < n
    BY <1>1, <1>6 DEF ChainsSound
  <2>1. chains[p] \in SUBSET Version /\ Distinct(chains[p])
    BY <1>9, <1>10
  <2>2. Distinct(versions'[p])
    BY <1>14, <2>1 DEF Distinct
  <2>3. \A v \in chains[p] : v.seq <= seq + 1
    <3>1. CASE p \in dirty
      BY <1>3, <1>9, <3>1 DEF IsNewest
    <3>2. CASE p \notin dirty
      BY <1>2, <1>10, <2>1, <3>2 DEF Version
    <3> QED
      BY <3>1, <3>2
  <2>4. chains[p] # {} => p < n
    <3>1. CASE p \in dirty
      BY <1>9, <3>1
    <3>2. CASE p \notin dirty
      BY <1>2, <1>10, <3>2, PageIds DEF IInv, ChainsSound
    <3> QED
      BY <3>1, <3>2
  <2> QED
    BY <1>14, <2>2, <2>3, <2>4
<1>19. WrittenRight'
  <2> SUFFICES ASSUME NEW p \in PageId, NEW v \in versions'[p],
                      IsNewest(versions'[p], v), v.written
               PROVE  file[p] = v.page /\ replacement = NoImage
    BY <1>1 DEF WrittenRight
  <2>1. v \in chains[p]
    BY <1>14
  <2>2. PICK m \in chains[p] : /\ IsNewest(chains[p], m)
                               /\ p \in dirty => m = new
    BY <1>11, <2>1
  <2>3. m \in versions'[p]
    BY <1>13, <2>2
  <2>4. chains[p] \in SUBSET Version /\ Distinct(chains[p])
    BY <1>9, <1>10
  <2>5. v = m
    BY <2>1, <2>2, <2>3, <2>4 DEF IsNewest, Distinct, Version
  <2> QED
    BY <1>3, <1>10, <2>2, <2>5 DEF IInv, WrittenRight
<1>20. ASSUME NEW p \in PageId
       PROVE  /\ Unwritten(versions[p]) => Unwritten(versions'[p])
              /\ p \in dirty => Unwritten(versions'[p])
  <2>1. CASE p \in dirty
    <3>1. Unwritten(chains[p])
      BY <1>3, <1>9, <2>1 DEF Unwritten
    <3> QED
      BY <1>9, <1>13, <2>1, <3>1
  <2>2. CASE p \notin dirty
    <3> SUFFICES ASSUME Unwritten(versions[p]) PROVE Unwritten(versions'[p])
      BY <2>2
    <3>1. PICK m \in chains[p] : IsNewest(chains[p], m)
      BY <1>10, <2>2 DEF Unwritten
    <3> QED
      BY <1>10, <1>13, <2>2, <3>1
  <2> QED
    BY <2>1, <2>2
<1>21. CacheRight'
  BY <1>1, <1>20 DEF IInv, CacheRight
<1>22. ImageRight'
  <2>1. replacement # NoImage =>
          /\ Unwritten(versions'[HEADER_PAGE])
          /\ replacement.count <= n
    <3>1. replacement # NoImage => /\ Unwritten(versions[HEADER_PAGE])
                                   /\ replacement.count <= PageCount
                                   /\ replacement.count \in Nat
      BY DEF IInv, ImageRight, TypeOK
    <3> QED
      BY <1>2, <1>20, <3>1, PageIds
  <2>2. ASSUME replacement # NoImage, NEW p \in PageId, versions'[p] = {},
               p < n
        PROVE  p < replacement.count
    <3>1. p \notin dirty
      BY <1>20, <2>2 DEF Unwritten
    <3>2. p < PageCount /\ chains[p] = versions[p]
      BY <1>10, <2>2, <3>1
    <3>3. CASE chains[p] = {}
      BY <2>2, <3>2, <3>3 DEF IInv, ImageRight
    <3>4. CASE chains[p] # {}
      <4>1. PICK m \in chains[p] : IsNewest(chains[p], m)
        BY <1>11, <3>4
      <4>2. m.written
        BY <1>13, <2>2, <4>1
      <4> QED
        BY <2>2, <3>2, <4>1, <4>2 DEF IInv, WrittenRight
    <3> QED
      BY <3>3, <3>4
  <2>3. replacement = NoImage =>
          /\ replacement.count = 0
          /\ \A p \in PageId : p >= n => file[p] = Absent
    BY <1>2, PageIds DEF IInv, ImageRight
  <2> QED
    BY <1>1, <1>2, <1>6, <2>1, <2>2, <2>3 DEF ImageRight
<1>23. TypeOK'
  <2>1. versions' \in [PageId -> Chain]
    <3>1. \A p \in PageId : versions'[p] \in Chain
      BY <1>9, <1>10, <1>14 DEF Chain
    <3> QED
      BY <1>8, <3>1
  <2>2. seq' \in Nat /\ ended_before' \in Nat
    BY <1>1, <1>2, <1>7
  <2>3. past' \in SUBSET Nat
    <3>1. \A s \in PastWithCurrent : s \in Nat
      BY <1>2, <1>4
    <3> QED
      BY <1>1, <3>1
  <2>4. history' \in [0 .. seq' -> [count : Nat, page : [PageId -> Nat]]]
    BY <1>1, <1>5
  <2> QED
    BY <1>1, <2>1, <2>2, <2>3, <2>4, NoReplyRight DEF IInv, TypeOK
<1>24. HeldKnown'
  <2>1. ASSUME NEW r \in Reader, snap[r] # NoSnapshot
        PROVE  snap[r] <= seq + 1 /\ snap[r] \in past'
    <3>1. snap[r] \in Nat /\ snap[r] <= seq
          /\ (snap[r] = seq \/ snap[r] \in past)
      BY <2>1 DEF IInv, HeldKnown, TypeOK
    <3>2. Held(snap[r])
      BY DEF Held
    <3>3. snap[r] \in PastWithCurrent
      BY <3>1, <3>2 DEF PastWithCurrent
    <3> QED
      BY <1>1, <1>2, <3>1, <3>2, <3>3
  <2>2. \A s \in past' : s < seq + 1
    BY <1>1, <1>2, <1>4
  <2>3. \A s \in cpLive : s < seq + 1
    BY <1>2 DEF IInv, HeldKnown, TypeOK
  <2> QED
    BY <1>1, <1>2, <1>7, <2>1, <2>2, <2>3 DEF HeldKnown
<1>25. CheckpointRight' /\ CompactsAlone'
  BY <1>1 DEF IInv, CheckpointRight, CompactsAlone
<1>26. ASSUME NEW r \in Reader PROVE ReaderRight(r)'
  <2>1. ReaderRight(r) /\ snap[r] \in Nat \cup {NoSnapshot}
    BY DEF IInv, TypeOK
  <2>2. rpc[r] # "open" => history'[snap[r]] = history[snap[r]]
    BY <1>5, <2>1 DEF ReaderRight, IInv, HeldKnown, TypeOK
  <2>3. snap[r] < ended_before => snap[r] < ended_before'
    BY <1>2, <1>7, <2>1 DEF NoSnapshot
  <2> QED
    BY <1>1, <2>1, <2>2, <2>3 DEF ReaderRight
<1> QED
  BY <1>1, <1>17, <1>18, <1>19, <1>21, <1>22, <1>23, <1>24, <1>25, <1>26,
     NoReplyRight DEF IInv

(* Every step keeps the invariant.                                         *)
LEMMA NextIInv == IInv /\ [Next]_vars => IInv'
<1> SUFFICES ASSUME IInv, [Next]_vars PROVE IInv'
  OBVIOUS
<1>1. CASE UNCHANGED vars
  <2>1. UNCHANGED <<file, cache, versions, replacement, seq, file_epoch,
                    ended_before, past, wpc, waiting, imageLeft, waitingLeft,
                    writing, cpLive, snap, gate, rpc, want, epoch, seen, reply,
                    history>>
    BY <1>1 DEF vars, memory, writer, reader
  <2>2. ChainsSound' /\ PagesRight' /\ WrittenRight' /\ ImageRight'
        /\ CheckpointRight'
    BY <2>1, MemoryFrame DEF IsOpen, Held
  <2>3. TypeOK' /\ CacheRight'
    BY <2>1 DEF IInv, TypeOK, CacheRight
  <2>4. HeldKnown' /\ CompactsAlone'
    BY <2>1 DEF IInv, HeldKnown, Held, CompactsAlone
  <2>5. \A r \in Reader : ReaderRight(r)'
    BY <2>1 DEF IInv, ReaderRight
  <2>6. SnapshotReads' /\ TooOldOnlyIfEnded' /\ ChecksSound'
    BY <2>1 DEF IInv, SnapshotReads, TooOldOnlyIfEnded, ChecksSound
  <2> QED
    BY <2>2, <2>3, <2>4, <2>5, <2>6 DEF IInv
<1>2. CASE \E r \in Reader, guarded \in BOOLEAN : Open(r, guarded)
  BY <1>2, OpenStep
<1>3. CASE \E r \in Reader : Close(r)
  BY <1>3, CloseStep
<1>4. CASE \E r \in Reader, p \in PageId : ReadAt(r, p)
  BY <1>4, ReadAtStep
<1>5. CASE \E r \in Reader, p \in PageId : Scan(r, p)
  BY <1>5, ScanStep
<1>6. CASE \E r \in Reader : ReadFile(r)
  BY <1>6, ReadFileStep
<1>7. CASE \E r \in Reader : ReadDone(r)
  BY <1>7, ReadDoneStep
<1>8. CASE \E r \in Reader : ScanDone(r)
  BY <1>8, ScanDoneStep
<1>9. CASE \E dirty \in SUBSET PageId, n \in PageCount .. MaxPages :
              Commit(dirty, n)
  BY <1>9, CommitStep
<1>10. CASE CompactBegin
  BY <1>10, CompactBeginStep
<1>11. CASE CompactFails
  BY <1>11, CompactFailsStep
<1>12. CASE \E n \in 1 .. MaxPages : CommitReplacing(n)
  BY <1>12, CommitReplacingStep
<1>13. CASE CheckpointBegin
  BY <1>13, CheckpointBeginStep
<1>14. CASE \E p \in PageId : WriteBegin(p)
  BY <1>14, WriteBeginStep
<1>15. CASE \E p \in PageId : WriteEnd(p)
  BY <1>15, WriteEndStep
<1>16. CASE Truncate
  BY <1>16, TruncateStep
<1>17. CASE CheckpointFails
  BY <1>17, CheckpointFailsStep
<1>18. CASE CheckpointEnd
  BY <1>18, CheckpointEndStep
<1>19. CASE CheckpointForget
  BY <1>19, CheckpointForgetStep
<1> QED
  BY <1>1, <1>2, <1>3, <1>4, <1>5, <1>6, <1>7, <1>8, <1>9, <1>10, <1>11,
     <1>12, <1>13, <1>14, <1>15, <1>16, <1>17, <1>18, <1>19 DEF Next

(* IInv holds in every state the memory, the file and the readers can come *)
(* to, for any readers, page counts and limits.                            *)
THEOREM Invariant == Spec => []IInv
<1>1. Init => IInv
  BY InitIInv
<1>2. IInv /\ [Next]_vars => IInv'
  BY NextIInv
<1> QED
  BY <1>1, <1>2, PTL DEF Spec

(* The variables keep their types.                                         *)
THEOREM TypeCorrect == Spec => []TypeOK
<1>1. IInv => TypeOK
  BY DEF IInv
<1> QED
  BY <1>1, Invariant, PTL

(* Every read gives the page as its snapshot's commit left it (`read_at`). *)
THEOREM SnapshotIsolation == Spec => []SnapshotReads
<1>1. IInv => SnapshotReads
  BY DEF IInv
<1> QED
  BY <1>1, Invariant, PTL

(* No read is refused as too old unless the limit has ended its snapshot   *)
(* (`Error::SnapshotTooOld`).                                              *)
THEOREM NoneTooOldUnlessEnded == Spec => []TooOldOnlyIfEnded
<1>1. IInv => TooOldOnlyIfEnded
  BY DEF IInv
<1> QED
  BY <1>1, Invariant, PTL

(* An integrity check beside a checkpoint reports no damage that isn't     *)
(* there (`damaged`).                                                      *)
THEOREM NoFalseDamage == Spec => []ChecksSound
<1>1. IInv => ChecksSound
  BY DEF IInv
<1> QED
  BY <1>1, Invariant, PTL

(* A compaction's image is published beside no open snapshot (the          *)
(* assertion in `commit_beside`).                                          *)
THEOREM CompactionIsAlone == Spec => []CompactsAlone
<1>1. IInv => CompactsAlone
  BY DEF IInv
<1> QED
  BY <1>1, Invariant, PTL

(* Once nothing waits, the file alone holds the last commit: what allows   *)
(* `Writer::checkpoint` to empty the WAL.                                  *)
THEOREM FileHoldsLastCommit == Spec => []FileIsCurrent
<1>1. IInv => FileIsCurrent
  <2> SUFFICES ASSUME IInv, replacement = NoImage,
                      \A p \in PageId : ~Unwritten(versions[p])
               PROVE  file = [p \in PageId |-> IF p < PageCount
                                THEN history[seq].page[p] ELSE Absent]
    BY DEF FileIsCurrent
  <2>1. \A p \in PageId : file[p] = IF p < PageCount
                                    THEN history[seq].page[p] ELSE Absent
    BY NotWaitingRight
  <2> QED
    BY <2>1 DEF IInv, TypeOK
<1> QED
  BY <1>1, Invariant, PTL

-----------------------------------------------------------------------------
(* The counts of what memory keeps.                                        *)

(* The older versions kept of `pages`, each with its page.                 *)
OlderOf(chains, pages) == UNION {{p} \X Older(chains[p]) : p \in pages}

LEMMA InOlderOf ==
    ASSUME NEW chains, NEW pages, NEW x
    PROVE  x \in OlderOf(chains, pages) <=>
              \E p \in pages : \E v \in Older(chains[p]) : x = <<p, v>>
BY DEF OlderOf

(* A chain has one version of a commit, so they are finitely many.         *)
LEMMA OlderFinite ==
    ASSUME NEW n \in Nat, NEW chains, NEW pages \in SUBSET PageId,
           \A p \in pages : /\ chains[p] \in SUBSET Version
                            /\ Distinct(chains[p])
                            /\ \A v \in chains[p] : v.seq <= n
    PROVE  IsFiniteSet(OlderOf(chains, pages)) /\ Cardinality(OlderOf(chains, pages)) \in Nat
<1>1. PICK S : S = OlderOf(chains, pages)
  OBVIOUS
<1>2. \A x \in S : \E p \in pages : \E v \in chains[p] : x = <<p, v>>
  BY <1>1, InOlderOf DEF Older
<1> DEFINE f == [x \in S |-> <<x[1], x[2].seq>>]
<1>3. ASSUME NEW x \in S
      PROVE  f[x] \in PageId \X (0 .. n)
  <2>1. PICK p, v : p \in pages /\ v \in chains[p] /\ x = <<p, v>>
    BY <1>2
  <2>2. v \in Version /\ v.seq <= n /\ p \in PageId
    BY <2>1
  <2>3. v.seq \in 0 .. n
    BY <2>2 DEF Version
  <2>4. f[x] = <<p, v.seq>>
    BY <2>1
  <2> QED
    BY <2>2, <2>3, <2>4
<1>4. ASSUME NEW x \in S, NEW y \in S, f[x] = f[y]
      PROVE  x = y
  <2>1. PICK p, v : p \in pages /\ v \in chains[p] /\ x = <<p, v>>
    BY <1>2
  <2>2. PICK q, w : q \in pages /\ w \in chains[q] /\ y = <<q, w>>
    BY <1>2
  <2>3. f[x] = <<p, v.seq>> /\ f[y] = <<q, w.seq>>
    BY <2>1, <2>2
  <2>4. p = q /\ v.seq = w.seq
    BY <1>4, <2>3
  <2>5. v = w
    BY <2>1, <2>2, <2>4 DEF Distinct
  <2> QED
    BY <2>1, <2>2, <2>4, <2>5
<1>5. f \in [S -> PageId \X (0 .. n)]
  BY <1>3
<1> HIDE DEF f
<1>6. f \in Injection(S, PageId \X (0 .. n))
  BY <1>4, <1>5 DEF Injection, IsInjective
<1>7. IsFiniteSet(PageId \X (0 .. n))
  <2>1. IsFiniteSet(PageId) /\ IsFiniteSet(0 .. n)
    BY PagesAssumption, FS_Interval DEF PageId
  <2> QED
    BY <2>1, FS_Product
<1> QED
  BY <1>1, <1>6, <1>7, FS_Injection, FS_CardinalityType

(* Counted page by page, or some of the pages first.                       *)
LEMMA OlderSplit ==
    ASSUME NEW chains, NEW dirty \in SUBSET PageId, IsFiniteSet(OlderOf(chains, PageId))
    PROVE  /\ Cardinality(OlderOf(chains, PageId)) =
                 Cardinality(OlderOf(chains, dirty)) + Cardinality(OlderOf(chains, PageId \ dirty))
           /\ IsFiniteSet(OlderOf(chains, dirty)) /\ Cardinality(OlderOf(chains, dirty)) \in Nat
           /\ Cardinality(OlderOf(chains, PageId \ dirty)) \in Nat
<1>1. PICK A, B, C : /\ A = OlderOf(chains, dirty) /\ B = OlderOf(chains, PageId \ dirty)
                     /\ C = OlderOf(chains, PageId)
  OBVIOUS
<1>2. C = A \cup B
  BY <1>1, InOlderOf
<1>3. A \cap B = {}
  <2> SUFFICES ASSUME NEW x, x \in A, x \in B PROVE FALSE
    OBVIOUS
  <2>1. PICK p, v : p \in dirty /\ x = <<p, v>>
    BY <1>1, InOlderOf
  <2>2. PICK q, w : q \in PageId \ dirty /\ x = <<q, w>>
    BY <1>1, InOlderOf
  <2> QED
    BY <2>1, <2>2
<1>4. IsFiniteSet(A) /\ IsFiniteSet(B)
  BY <1>1, <1>2, FS_Subset
<1>5. Cardinality(A) \in Nat /\ Cardinality(B) \in Nat /\ Cardinality(A \cap B) = 0
  BY <1>3, <1>4, FS_CardinalityType, FS_EmptySet
<1>6. Cardinality(C) = Cardinality(A) + Cardinality(B) - Cardinality(A \cap B)
  BY <1>2, <1>4, FS_Union
<1> QED
  BY <1>1, <1>4, <1>5, <1>6

LEMMA OlderMore ==
    ASSUME NEW chains, NEW fewer, IsFiniteSet(OlderOf(chains, PageId)),
           \A p \in PageId : Older(fewer[p]) \subseteq Older(chains[p])
    PROVE  /\ IsFiniteSet(OlderOf(fewer, PageId))
           /\ Cardinality(OlderOf(fewer, PageId)) <= Cardinality(OlderOf(chains, PageId))
<1>1. PICK A, B : A = OlderOf(fewer, PageId) /\ B = OlderOf(chains, PageId)
  OBVIOUS
<1>2. A \subseteq B
  BY <1>1, InOlderOf
<1> QED
  BY <1>1, <1>2, FS_Subset

(* `forget` keeps no version of its own making, and beside no snapshot     *)
(* none but the newest.                                                    *)
LEMMA ForgetOlder ==
    ASSUME NEW chain \in SUBSET Version, NEW live
    PROVE  /\ Forget(chain, live) \subseteq chain
           /\ Older(Forget(chain, live)) \subseteq Older(chain)
           /\ live = {} => Older(Forget(chain, live)) = {}
<1>1. Prune(chain, live) \subseteq chain
  BY DEF Prune
<1>2. Forget(chain, live) = {} \/ Forget(chain, live) = Prune(chain, live)
  BY DEF Forget
<1>3. Forget(chain, live) \subseteq chain
  BY <1>1, <1>2
<1>4. Older(Forget(chain, live)) \subseteq Older(chain)
  BY <1>3 DEF Older
<1>5. ASSUME live = {}, NEW v \in Older(Forget(chain, live)) PROVE FALSE
  <2>1. PICK w \in Forget(chain, live) : w.seq > v.seq /\ v \in Forget(chain, live)
    BY DEF Older
  <2>2. IsNewest(chain, v) /\ w \in chain /\ v \in chain
    BY <1>1, <1>2, <1>5, <2>1 DEF Prune
  <2> QED
    BY <2>1, <2>2 DEF IsNewest, Version
<1> QED
  BY <1>3, <1>4, <1>5

LEMMA NoneOlder ==
    ASSUME NEW chains, \A p \in PageId : Older(chains[p]) = {}
    PROVE  Cardinality(OlderOf(chains, PageId)) = 0
<1>1. OlderOf(chains, PageId) = {}
  BY DEF OlderOf
<1> QED
  BY <1>1, FS_EmptySet

(* The page a commit changes gains at most one older version.              *)
LEMMA CommittedOlder ==
    ASSUME IInv, NEW p \in PageId, NEW open
    PROVE  \E x : Older(Committed(p, open)) \subseteq Older(versions[p]) \cup {x}
<1>1. PICK new : new = [seq |-> seq + 1, page |-> seq + 1, written |-> FALSE]
  OBVIOUS
<1>2. PICK old : old = [seq |-> 0, page |-> Before(p), written |-> TRUE]
  OBVIOUS
<1>3. PICK was : was = IF versions[p] # {} THEN versions[p]
                       ELSE IF open # {} /\ p < PageCount THEN {old} ELSE {}
  OBVIOUS
<1>4. Committed(p, open) = Prune(was \cup {new}, open)
  BY <1>1, <1>2, <1>3 DEF Committed
<1>5. \A v \in was : v.seq <= seq /\ v.seq \in Nat
  <2>1. \A v \in versions[p] : v.seq <= seq /\ v.seq \in Nat
    BY DEF IInv, TypeOK, ChainsSound, Chain, Version
  <2>2. old.seq = 0 /\ seq \in Nat
    BY <1>2 DEF IInv, TypeOK
  <2> QED
    BY <1>3, <2>1, <2>2
<1>6. new.seq = seq + 1 /\ seq \in Nat
  BY <1>1 DEF IInv, TypeOK
<1>7. Older(Committed(p, open)) \subseteq was
  <2> SUFFICES ASSUME NEW v \in Committed(p, open), NEW w \in Committed(p, open), w.seq > v.seq
               PROVE  v \in was
    BY DEF Older
  <2>1. v \in was \cup {new} /\ w \in was \cup {new}
    BY <1>4 DEF Prune
  <2> QED
    BY <1>5, <1>6, <2>1
<1>8. CASE versions[p] = {}
  BY <1>3, <1>7, <1>8
<1>9. CASE versions[p] # {}
  <2>1. PICK m \in versions[p] : IsNewest(versions[p], m)
    BY <1>9, HasNewest
  <2>2. versions[p] \in SUBSET Version /\ Distinct(versions[p])
    BY DEF IInv, TypeOK, ChainsSound, Chain
  <2>3. \A v \in versions[p] : v = m \/ v \in Older(versions[p])
    BY <2>1, <2>2 DEF Older, Distinct, IsNewest, Version
  <2>4. was = versions[p]
    BY <1>3, <1>9
  <2> QED
    BY <1>7, <2>3, <2>4
<1> QED
  BY <1>8, <1>9

(* The chains that a commit has made, before the limit.                    *)
LEMMA CommitChains ==
    ASSUME IInv, NEW dirty \in SUBSET PageId, NEW n, Commit(dirty, n)
    PROVE  \E open, chains, new :
           /\ open \in SUBSET Nat /\ new \in Version
           /\ \A s \in open : s >= ended_before /\ s <= seq
           /\ new.seq = seq + 1 /\ ~new.written
           /\ \A p \in PageId : /\ chains[p] \in SUBSET Version
                                /\ Distinct(chains[p])
                                /\ \A v \in chains[p] : v.seq <= seq + 1
           /\ \A p \in dirty : /\ new \in chains[p] /\ IsNewest(chains[p], new)
                               /\ \E x : Older(chains[p]) \subseteq Older(versions[p]) \cup {x}
           /\ \A p \in PageId \ dirty : chains[p] = versions[p]
           /\ KeepWithinLimit(chains, older - Cardinality(OlderOf(versions, dirty))
                                            + Cardinality(OlderOf(chains, dirty)), open)
<1> DEFINE open == Live(PastWithCurrent)
           new == [seq |-> seq + 1, page |-> seq + 1, written |-> FALSE]
           chains == [p \in PageId |-> IF p \in dirty THEN Committed(p, open)
                                       ELSE versions[p]]
<1>1. seq \in Nat /\ ended_before \in Nat /\ ended_before <= seq
  BY DEF IInv, TypeOK, HeldKnown
<1>2. past \in SUBSET Nat /\ \A s \in past : s < seq
  BY DEF IInv, TypeOK, HeldKnown
<1>3. PastWithCurrent \in SUBSET (0 .. seq)
  BY <1>1, <1>2 DEF PastWithCurrent
<1>4. \A s \in open : s \in PastWithCurrent /\ IsOpen(s) /\ s >= ended_before
  BY DEF Live, IsOpen
<1>5. KeepWithinLimit(chains, older - Cardinality(OlderOf(versions, dirty))
                                    + Cardinality(OlderOf(chains, dirty)), open)
  BY DEF Commit, OlderOf
<1>6. new \in Version /\ new.seq = seq + 1 /\ ~new.written
  BY <1>1 DEF Version
<1>7. \A p \in PageId : chains[p] = IF p \in dirty THEN Committed(p, open) ELSE versions[p]
  OBVIOUS
<1>8. open \in SUBSET (0 .. seq)
  <2> HIDE DEF open
  <2> QED
    BY <1>3, <1>4
<1>9. ASSUME NEW p \in PageId
      PROVE  /\ Committed(p, open) \in SUBSET Version /\ Distinct(Committed(p, open))
             /\ new \in Committed(p, open) /\ IsNewest(Committed(p, open), new)
  <2> HIDE DEF open
  <2> QED
    BY <1>4, <1>6, <1>8, CommittedRight
<1>10. \A p \in PageId : /\ versions[p] \in SUBSET Version /\ Distinct(versions[p])
                         /\ \A v \in versions[p] : v.seq <= seq
  BY DEF IInv, TypeOK, Chain, ChainsSound
<1>11. \A p \in PageId : \E x : Older(Committed(p, open)) \subseteq Older(versions[p]) \cup {x}
  <2> HIDE DEF open
  <2> QED
    BY CommittedOlder
<1> HIDE DEF open, new, chains
<1>12. ASSUME NEW p \in PageId
       PROVE  /\ chains[p] \in SUBSET Version
              /\ Distinct(chains[p])
              /\ \A v \in chains[p] : v.seq <= seq + 1
  <2>1. CASE p \in dirty
    <3>1. chains[p] = Committed(p, open)
      BY <1>7, <2>1
    <3> QED
      BY <1>6, <1>9, <3>1 DEF IsNewest
  <2>2. CASE p \notin dirty
    <3>1. chains[p] = versions[p]
      BY <1>7, <2>2
    <3> QED
      BY <1>1, <1>10, <3>1 DEF Version
  <2> QED
    BY <2>1, <2>2
<1>13. \A p \in dirty : /\ new \in chains[p] /\ IsNewest(chains[p], new)
                        /\ \E x : Older(chains[p]) \subseteq Older(versions[p]) \cup {x}
  <2> SUFFICES ASSUME NEW p \in dirty
               PROVE  /\ new \in chains[p] /\ IsNewest(chains[p], new)
                      /\ \E x : Older(chains[p]) \subseteq Older(versions[p]) \cup {x}
    OBVIOUS
  <2>1. p \in PageId /\ chains[p] = Committed(p, open)
    BY <1>7
  <2> QED
    BY <1>9, <1>11, <2>1
<1>14. \A p \in PageId \ dirty : chains[p] = versions[p]
  BY <1>7
<1>15. open \in SUBSET Nat /\ \A s \in open : s >= ended_before /\ s <= seq
  <2>1. \A s \in 0 .. seq : s \in Nat /\ s <= seq
    BY <1>1
  <2> QED
    BY <1>4, <1>8, <2>1
<1> QED
  <2> WITNESS open, chains, new
  <2> QED
    BY <1>5, <1>6, <1>12, <1>13, <1>14, <1>15

(* A commit counts its older versions right, page by page, and the limit   *)
(* leaves no more than it allows.                                          *)
LEMMA CommitOlder ==
    ASSUME IInv, IInv', CountsAgree, NEW dirty \in SUBSET PageId, NEW n, Commit(dirty, n)
    PROVE  older' = OlderIn(versions') /\ older' <= Limit
<1>1. PICK open, chains, new :
           /\ open \in SUBSET Nat /\ new \in Version
           /\ \A s \in open : s >= ended_before /\ s <= seq
           /\ new.seq = seq + 1 /\ ~new.written
           /\ \A p \in PageId : /\ chains[p] \in SUBSET Version
                                /\ Distinct(chains[p])
                                /\ \A v \in chains[p] : v.seq <= seq + 1
           /\ \A p \in dirty : /\ new \in chains[p] /\ IsNewest(chains[p], new)
                               /\ \E x : Older(chains[p]) \subseteq Older(versions[p]) \cup {x}
           /\ \A p \in PageId \ dirty : chains[p] = versions[p]
           /\ KeepWithinLimit(chains, older - Cardinality(OlderOf(versions, dirty))
                                            + Cardinality(OlderOf(chains, dirty)), open)
  BY CommitChains
<1>4. /\ seq \in Nat
      /\ \A s \in open : s \in Nat
      /\ \A p \in PageId : /\ chains[p] \in SUBSET Version
                           /\ Distinct(chains[p])
                           /\ \A v \in chains[p] : v.seq <= seq + 1
      /\ \A p \in PageId \ dirty : chains[p] = versions[p]
  BY <1>1 DEF IInv, TypeOK
<1>5. \A p \in PageId : /\ versions[p] \in SUBSET Version
                        /\ Distinct(versions[p])
                        /\ \A v \in versions[p] : v.seq <= seq
  BY DEF IInv, TypeOK, Chain, ChainsSound
<1>6. IsFiniteSet(OlderOf(chains, PageId)) /\ Cardinality(OlderOf(chains, PageId)) \in Nat
      /\ IsFiniteSet(OlderOf(versions, PageId))
  <2>1. seq + 1 \in Nat
    BY <1>4
  <2> QED
    BY <1>4, <1>5, <2>1, OlderFinite
<1>7. OlderOf(chains, PageId \ dirty) = OlderOf(versions, PageId \ dirty)
  BY <1>4 DEF OlderOf
<1>8. PICK count : count = older - Cardinality(OlderOf(versions, dirty))
                                 + Cardinality(OlderOf(chains, dirty))
  OBVIOUS
<1>9. count = Cardinality(OlderOf(chains, PageId))
  <2>1. older = Cardinality(OlderOf(versions, PageId))
    BY DEF CountsAgree, OlderIn, OlderOf
  <2>2. /\ Cardinality(OlderOf(versions, PageId)) =
              Cardinality(OlderOf(versions, dirty)) + Cardinality(OlderOf(versions, PageId \ dirty))
        /\ Cardinality(OlderOf(versions, dirty)) \in Nat
        /\ Cardinality(OlderOf(versions, PageId \ dirty)) \in Nat
    BY <1>6, OlderSplit
  <2>3. /\ Cardinality(OlderOf(chains, PageId)) =
              Cardinality(OlderOf(chains, dirty)) + Cardinality(OlderOf(chains, PageId \ dirty))
        /\ Cardinality(OlderOf(chains, dirty)) \in Nat
    BY <1>6, OlderSplit
  <2> QED
    BY <1>7, <1>8, <2>1, <2>2, <2>3
<1>10. KeepWithinLimit(chains, count, open)
  BY <1>1, <1>8
<1> DEFINE after(end) == ForgetAll(chains, {s \in open : s >= end})
<1>11. ASSUME NEW end, {s \in open : s >= end} = {} PROVE OlderIn(after(end)) = 0
  <2>1. \A p \in PageId : Older(after(end)[p]) = {}
    BY <1>4, <1>11, ForgetOlder DEF ForgetAll
  <2> HIDE DEF after
  <2>2. Cardinality(OlderOf(after(end), PageId)) = 0
    BY <2>1, NoneOlder
  <2> QED
    BY <2>2 DEF OlderIn, OlderOf
<1>12. CASE count <= Limit
  <2>1. versions' = chains /\ older' = count
    BY <1>10, <1>12 DEF KeepWithinLimit
  <2>2. OlderIn(chains) = count
    BY <1>9 DEF OlderIn, OlderOf
  <2> QED
    BY <1>12, <2>1, <2>2
<1>13. CASE ~(count <= Limit) /\ open = {}
  <2>1. versions' = after(0) /\ older' = OlderIn(after(0))
    BY <1>10, <1>13 DEF KeepWithinLimit
  <2>2. OlderIn(after(0)) = 0
    BY <1>11, <1>13
  <2> HIDE DEF after
  <2> QED
    BY <2>1, <2>2, PagesAssumption
<1>14. CASE ~(count <= Limit) /\ open # {}
  <2>1. PICK end \in {s + 1 : s \in open} :
             /\ OlderIn(after(end)) <= Limit \/ \A e \in {s + 1 : s \in open} : e <= end
             /\ versions' = after(end)
             /\ older' = OlderIn(after(end))
    BY <1>10, <1>14 DEF KeepWithinLimit
  <2>2. ASSUME \A e \in {s + 1 : s \in open} : e <= end PROVE OlderIn(after(end)) <= Limit
    <3>1. \A s \in open : s + 1 <= end
      BY <2>2
    <3>2. end \in Nat
      BY <1>4
    <3>3. {s \in open : s >= end} = {}
      <4> SUFFICES ASSUME NEW s \in open, s >= end PROVE FALSE
        OBVIOUS
      <4>1. s + 1 <= end /\ s \in Nat
        BY <1>4, <3>1
      <4> QED
        BY <3>2, <4>1
    <3>4. OlderIn(after(end)) = 0
      BY <1>11, <3>3
    <3> HIDE DEF after
    <3> QED
      BY <3>4, PagesAssumption
  <2> HIDE DEF after
  <2> QED
    BY <2>1, <2>2
<1> QED
  BY <1>12, <1>13, <1>14

(* A page that a commit changes waits for a checkpoint, and no other that  *)
(* didn't wait already.                                                    *)
LEMMA CommitUnwritten ==
    ASSUME IInv, NEW dirty \in SUBSET PageId, NEW n, Commit(dirty, n)
    PROVE  /\ \A p \in PageId : Unwritten(versions'[p]) <=> p \in dirty \/ Unwritten(versions[p])
           /\ \A p \in PageId : (\E v \in versions'[p] : v.seq = seq') <=> p \in dirty
<1>1. PICK open, chains, new :
           /\ open \in SUBSET Nat /\ new \in Version
           /\ \A s \in open : s >= ended_before /\ s <= seq
           /\ new.seq = seq + 1 /\ ~new.written
           /\ \A p \in PageId : /\ chains[p] \in SUBSET Version
                                /\ Distinct(chains[p])
                                /\ \A v \in chains[p] : v.seq <= seq + 1
           /\ \A p \in dirty : /\ new \in chains[p] /\ IsNewest(chains[p], new)
                               /\ \E x : Older(chains[p]) \subseteq Older(versions[p]) \cup {x}
           /\ \A p \in PageId \ dirty : chains[p] = versions[p]
           /\ KeepWithinLimit(chains, older - Cardinality(OlderOf(versions, dirty))
                                            + Cardinality(OlderOf(chains, dirty)), open)
  BY CommitChains
<1>4. /\ seq \in Nat /\ ended_before \in Nat /\ ended_before <= seq
      /\ \A p \in PageId : /\ chains[p] \in SUBSET Version
                           /\ Distinct(chains[p])
      /\ \A p \in dirty : new \in chains[p] /\ IsNewest(chains[p], new)
      /\ \A p \in PageId \ dirty : chains[p] = versions[p]
  BY <1>1 DEF IInv, TypeOK, HeldKnown
<1>5. \E count : KeepWithinLimit(chains, count, open)
  BY <1>1
<1>6. seq' = seq + 1 /\ new.seq = seq + 1 /\ ~new.written
  BY <1>1 DEF Commit
<1>7. PICK left : \A p \in PageId : versions'[p] = chains[p] \/ versions'[p] = Forget(chains[p], left)
  <2>2. versions' = chains \/ \E left : versions' = ForgetAll(chains, left)
    BY <1>1, <1>4, <1>5, LimitRight
  <2> QED
    BY <2>2 DEF ForgetAll
<1>8. ASSUME NEW p \in PageId, p \in dirty
      PROVE  Unwritten(versions'[p]) /\ \E v \in versions'[p] : v.seq = seq'
  <2>1. /\ versions'[p] # {} => new \in versions'[p]
        /\ versions'[p] = {} => new.written
        /\ Unwritten(versions'[p]) <=> Unwritten(chains[p])
    <3>1. PICK after : after = versions'[p]
      OBVIOUS
    <3>2. /\ chains[p] \in SUBSET Version /\ Distinct(chains[p])
          /\ new \in chains[p] /\ IsNewest(chains[p], new)
      BY <1>4, <1>8
    <3>3. after = chains[p] \/ after = Forget(chains[p], left)
      BY <1>7, <3>1
    <3>4. /\ after # {} => new \in after
          /\ after = {} => new.written
          /\ Unwritten(after) <=> Unwritten(chains[p])
      BY <3>2, <3>3, LimitKeeps
    <3> QED
      BY <3>1, <3>4
  <2>2. Unwritten(chains[p])
    BY <1>4, <1>6, <1>8 DEF Unwritten
  <2>3. new \in versions'[p]
    BY <1>6, <2>1
  <2> QED
    BY <1>6, <2>1, <2>2, <2>3
<1>9. ASSUME NEW p \in PageId, p \notin dirty
      PROVE  /\ Unwritten(versions'[p]) <=> Unwritten(versions[p])
             /\ \A v \in versions'[p] : v.seq # seq'
  <2>1. chains[p] = versions[p] /\ \A v \in versions[p] : v.seq \in Nat /\ v.seq <= seq
    BY <1>4, <1>9 DEF IInv, ChainsSound, TypeOK, Chain, Version
  <2>2. versions'[p] \subseteq versions[p]
    <3>1. versions[p] \in SUBSET Version
      BY <1>4, <2>1
    <3>2. Forget(versions[p], left) \subseteq versions[p]
      BY <3>1, ForgetOlder
    <3> QED
      BY <1>7, <2>1, <3>2
  <2>3. Unwritten(versions'[p]) <=> Unwritten(versions[p])
    <3>1. CASE versions[p] = {}
      BY <2>2, <3>1 DEF Unwritten
    <3>2. CASE versions[p] # {}
      <4>1. PICK m \in versions[p] : IsNewest(versions[p], m)
        BY <3>2, HasNewest
      <4>2. PICK after : after = versions'[p]
        OBVIOUS
      <4>3. versions[p] \in SUBSET Version /\ Distinct(versions[p])
        BY <1>4, <2>1
      <4>4. after = versions[p] \/ after = Forget(versions[p], left)
        BY <1>7, <2>1, <4>2
      <4>5. Unwritten(after) <=> Unwritten(versions[p])
        BY <4>1, <4>3, <4>4, LimitKeeps
      <4> QED
        BY <4>2, <4>5
    <3> QED
      BY <3>1, <3>2
  <2>4. \A v \in versions'[p] : v.seq # seq + 1
    BY <1>4, <2>1, <2>2
  <2> QED
    BY <1>6, <2>3, <2>4
<1> QED
  BY <1>8, <1>9

LEMMA WaitingFinite ==
    ASSUME NEW S \in SUBSET PageId
    PROVE  IsFiniteSet(S) /\ Cardinality(S) \in Nat
<1>1. IsFiniteSet(PageId)
  BY PagesAssumption, FS_Interval DEF PageId
<1> QED
  BY <1>1, FS_Subset, FS_CardinalityType

LEMMA CommitCounts ==
    ASSUME IInv, IInv', CountsAgree, NEW dirty \in SUBSET PageId, NEW n, Commit(dirty, n)
    PROVE  CountsAgree' /\ OlderWithinLimit'
<1>1. older' = OlderIn(versions') /\ older' <= Limit
  BY CommitOlder
<1>2. PICK A, B, C : /\ A = {p \in PageId : Unwritten(versions[p])}
                     /\ B = {p \in dirty : ~Unwritten(versions[p])}
                     /\ C = {p \in PageId : Unwritten(versions'[p])}
  OBVIOUS
<1>3. \A p \in PageId : Unwritten(versions'[p]) <=> p \in dirty \/ Unwritten(versions[p])
  BY CommitUnwritten
<1>4. C = A \cup B /\ A \cap B = {} /\ A \in SUBSET PageId /\ B \in SUBSET PageId
  BY <1>2, <1>3
<1>5. /\ IsFiniteSet(A) /\ Cardinality(A) \in Nat
      /\ IsFiniteSet(B) /\ Cardinality(B) \in Nat
  BY <1>4, WaitingFinite
<1>6. Cardinality(C) = Cardinality(A) + Cardinality(B)
  <2>1. Cardinality(A \cup B) = Cardinality(A) + Cardinality(B) - Cardinality(A \cap B)
    BY <1>5, FS_Union
  <2>2. Cardinality(A \cap B) = 0
    BY <1>4, FS_EmptySet
  <2> QED
    BY <1>4, <1>5, <2>1, <2>2
<1>7. unwritten' = unwritten + Cardinality(B) /\ replacement' = replacement
  BY <1>2 DEF Commit
<1>8. PICK k : k = IF replacement = NoImage THEN 0 ELSE replacement.count - 1
  OBVIOUS
<1>9. unwritten = Cardinality(A) + k /\ k \in Int
  BY <1>2, <1>8 DEF CountsAgree, IInv, TypeOK
<1>10. unwritten' = Cardinality(C) + k
  BY <1>5, <1>6, <1>7, <1>9
<1> QED
  BY <1>1, <1>2, <1>7, <1>8, <1>10 DEF CountsAgree, OlderWithinLimit

(* A compaction's image leaves its header as the one version.              *)
LEMMA CommitReplacingCounts ==
    ASSUME IInv, NEW n \in 1 .. MaxPages, CommitReplacing(n)
    PROVE  CountsAgree' /\ OlderWithinLimit'
<1>1. PICK new : new = [seq |-> seq + 1, page |-> seq + 1, written |-> FALSE]
  OBVIOUS
<1>2. PICK chains : chains = [p \in PageId |-> IF p = HEADER_PAGE THEN {new} ELSE {}]
  OBVIOUS
<1>3. versions' = chains /\ older' = 0 /\ unwritten' = 1 + (n - 1)
      /\ replacement' = [seq |-> seq + 1, count |-> n]
  BY <1>1, <1>2 DEF CommitReplacing
<1>4. seq \in Nat /\ new.seq \in Nat /\ ~new.written
  BY <1>1 DEF IInv, TypeOK
<1>5. \A p \in PageId : Older(chains[p]) = {}
  BY <1>2, <1>4 DEF Older
<1>6. OlderIn(versions') = 0
  <2>1. Cardinality(OlderOf(chains, PageId)) = 0
    BY <1>5, NoneOlder
  <2> QED
    BY <1>3, <2>1 DEF OlderIn, OlderOf
<1>7. {p \in PageId : Unwritten(versions'[p])} = {HEADER_PAGE}
  <2>1. \A p \in PageId : Unwritten(chains[p]) <=> p = HEADER_PAGE
    BY <1>2, <1>4 DEF Unwritten, IsNewest
  <2> QED
    BY <1>3, <2>1, PageIds
<1>8. Cardinality({p \in PageId : Unwritten(versions'[p])}) = 1
  BY <1>7, FS_Singleton
<1>9. replacement' # NoImage /\ replacement'.count = n
  BY <1>3 DEF NoImage
<1>10. older' <= Limit
  BY <1>3, PagesAssumption
<1> QED
  BY <1>3, <1>6, <1>8, <1>9, <1>10 DEF CountsAgree, OlderWithinLimit

(* Marking a chain's newest version changes none of the others, and the    *)
(* page no longer waits.                                                   *)
LEMMA MarkOlder ==
    ASSUME NEW chain \in SUBSET Version, Distinct(chain)
    PROVE  Older(MarkWritten(chain)) = Older(chain) /\ ~Unwritten(MarkWritten(chain))
<1> DEFINE mark(v) == IF IsNewest(chain, v) THEN [v EXCEPT !.written = TRUE] ELSE v
<1>1. MarkWritten(chain) = {mark(v) : v \in chain}
  BY DEF MarkWritten
<1>2. ASSUME NEW v \in chain
      PROVE  /\ mark(v).seq = v.seq /\ v.seq \in Nat
             /\ IsNewest(chain, v) => mark(v).written
             /\ ~IsNewest(chain, v) => mark(v) = v
  BY DEF Version
<1> HIDE DEF mark
<1>3. /\ \A w \in MarkWritten(chain) : \E v \in chain : w = mark(v)
      /\ \A v \in chain : mark(v) \in MarkWritten(chain)
  BY <1>1
<1>4. ASSUME NEW v \in Older(chain) PROVE v \in Older(MarkWritten(chain))
  <2>1. PICK w \in chain : w.seq > v.seq /\ v \in chain
    BY DEF Older
  <2>2. ~IsNewest(chain, v)
    BY <1>2, <2>1 DEF IsNewest
  <2>3. mark(v) = v /\ mark(w).seq = w.seq
    BY <1>2, <2>1, <2>2
  <2> QED
    BY <1>3, <2>1, <2>3 DEF Older
<1>5. ASSUME NEW x \in Older(MarkWritten(chain)) PROVE x \in Older(chain)
  <2>1. PICK y \in MarkWritten(chain) : y.seq > x.seq /\ x \in MarkWritten(chain)
    BY DEF Older
  <2>2. PICK v \in chain : x = mark(v)
    BY <1>3, <2>1
  <2>3. PICK w \in chain : y = mark(w)
    BY <1>3, <2>1
  <2>4. w.seq > v.seq
    BY <1>2, <2>1, <2>2, <2>3
  <2>5. ~IsNewest(chain, v)
    BY <1>2, <2>4 DEF IsNewest
  <2>6. x = v
    BY <1>2, <2>2, <2>5
  <2> QED
    BY <2>4, <2>6 DEF Older
<1>6. ASSUME NEW x \in MarkWritten(chain), IsNewest(MarkWritten(chain), x) PROVE x.written
  <2>1. PICK v \in chain : x = mark(v)
    BY <1>3
  <2>2. ASSUME NEW w \in chain PROVE w.seq <= v.seq
    <3>1. mark(w).seq <= mark(v).seq
      BY <1>3, <1>6, <2>1 DEF IsNewest
    <3> QED
      BY <1>2, <3>1
  <2> QED
    BY <1>2, <2>1, <2>2 DEF IsNewest
<1> QED
  BY <1>4, <1>5, <1>6 DEF Unwritten

(* A checkpoint marks every page that waited, and drops no version.        *)
LEMMA CheckpointEndCounts ==
    ASSUME IInv, CountsAgree, OlderWithinLimit, CheckpointEnd
    PROVE  CountsAgree' /\ OlderWithinLimit'
<1>1. /\ wpc = "written" /\ older' = older /\ unwritten' = 0 /\ replacement' = NoImage
      /\ versions' = [p \in PageId |-> IF p \in waiting THEN MarkWritten(versions[p])
                                       ELSE versions[p]]
  BY DEF CheckpointEnd
<1>2. PICK chains : chains = versions'
  OBVIOUS
<1>3. waiting = {p \in PageId : Unwritten(versions[p])}
  BY <1>1 DEF IInv, CheckpointRight
<1>4. ASSUME NEW p \in PageId
      PROVE  Older(chains[p]) = Older(versions[p]) /\ ~Unwritten(chains[p])
  <2>1. versions[p] \in SUBSET Version /\ Distinct(versions[p])
    BY DEF IInv, TypeOK, Chain, ChainsSound
  <2>2. chains[p] = IF p \in waiting THEN MarkWritten(versions[p]) ELSE versions[p]
    BY <1>1, <1>2
  <2>3. /\ Older(MarkWritten(versions[p])) = Older(versions[p])
        /\ ~Unwritten(MarkWritten(versions[p]))
    BY <2>1, MarkOlder
  <2>4. CASE p \in waiting
    BY <2>2, <2>3, <2>4
  <2>5. CASE p \notin waiting
    BY <1>3, <2>2, <2>5
  <2> QED
    BY <2>4, <2>5
<1>5. OlderOf(chains, PageId) = OlderOf(versions, PageId)
  <2>1. ASSUME NEW x
        PROVE  x \in OlderOf(chains, PageId) <=> x \in OlderOf(versions, PageId)
    <3>1. x \in OlderOf(chains, PageId) <=>
             \E p \in PageId : \E v \in Older(chains[p]) : x = <<p, v>>
      BY InOlderOf
    <3>2. x \in OlderOf(versions, PageId) <=>
             \E p \in PageId : \E v \in Older(versions[p]) : x = <<p, v>>
      BY InOlderOf
    <3> QED
      BY <1>4, <3>1, <3>2
  <2> QED
    BY <2>1
<1>6. OlderIn(versions') = OlderIn(versions)
  BY <1>2, <1>5 DEF OlderIn, OlderOf
<1>7. Cardinality({p \in PageId : Unwritten(versions'[p])}) = 0
  <2>1. {p \in PageId : Unwritten(versions'[p])} = {}
    BY <1>2, <1>4
  <2> QED
    BY <2>1, FS_EmptySet
<1> QED
  BY <1>1, <1>6, <1>7 DEF CountsAgree, OlderWithinLimit

(* What `forget` keeps is no more than there was, and it keeps all that    *)
(* waits.                                                                  *)
LEMMA CheckpointForgetCounts ==
    ASSUME IInv, CountsAgree, OlderWithinLimit, CheckpointForget
    PROVE  CountsAgree' /\ OlderWithinLimit'
<1>1. PICK live : versions' = ForgetAll(versions, live)
  BY DEF CheckpointForget
<1>2. PICK chains : chains = versions'
  OBVIOUS
<1>3. older' = OlderIn(versions') /\ UNCHANGED <<unwritten, replacement>>
  BY DEF CheckpointForget
<1>4. seq \in Nat /\ \A p \in PageId : /\ versions[p] \in SUBSET Version
                                       /\ Distinct(versions[p])
                                       /\ \A v \in versions[p] : v.seq <= seq
  BY DEF IInv, TypeOK, Chain, ChainsSound
<1>5. ASSUME NEW p \in PageId
      PROVE  /\ Older(chains[p]) \subseteq Older(versions[p])
             /\ Unwritten(chains[p]) <=> Unwritten(versions[p])
  <2>1. chains[p] = Forget(versions[p], live)
    BY <1>1, <1>2 DEF ForgetAll
  <2>2. versions[p] \in SUBSET Version /\ Distinct(versions[p])
    BY <1>4
  <2>3. /\ Forget(versions[p], live) \subseteq versions[p]
        /\ Older(Forget(versions[p], live)) \subseteq Older(versions[p])
    BY <2>2, ForgetOlder
  <2>4. CASE versions[p] = {}
    BY <2>1, <2>3, <2>4 DEF Unwritten
  <2>5. CASE versions[p] # {}
    <3>1. PICK m \in versions[p] : IsNewest(versions[p], m)
      BY <2>5, HasNewest
    <3>2. Unwritten(Forget(versions[p], live)) <=> Unwritten(versions[p])
      BY <2>2, <3>1, LimitKeeps
    <3> QED
      BY <2>1, <2>3, <3>2
  <2> QED
    BY <2>4, <2>5
<1>6. OlderIn(versions') <= OlderIn(versions) /\ OlderIn(versions') \in Nat
      /\ OlderIn(versions) \in Nat
  <2>1. IsFiniteSet(OlderOf(versions, PageId)) /\ Cardinality(OlderOf(versions, PageId)) \in Nat
    BY <1>4, OlderFinite
  <2>2. /\ IsFiniteSet(OlderOf(chains, PageId))
        /\ Cardinality(OlderOf(chains, PageId)) <= Cardinality(OlderOf(versions, PageId))
    BY <1>5, <2>1, OlderMore
  <2>3. Cardinality(OlderOf(chains, PageId)) \in Nat
    BY <2>2, FS_CardinalityType
  <2> QED
    BY <1>2, <2>1, <2>2, <2>3 DEF OlderIn, OlderOf
<1>7. {p \in PageId : Unwritten(versions'[p])} = {p \in PageId : Unwritten(versions[p])}
  BY <1>2, <1>5
<1>8. older' <= Limit
  BY <1>3, <1>6, PagesAssumption DEF CountsAgree, OlderWithinLimit
<1> QED
  BY <1>3, <1>7, <1>8 DEF CountsAgree, OlderWithinLimit

(* Every other step leaves the counts and what they count alone.           *)
LEMMA CountsFrame ==
    ASSUME CountsAgree, OlderWithinLimit,
           UNCHANGED <<older, unwritten, versions, replacement>>
    PROVE  CountsAgree' /\ OlderWithinLimit'
BY DEF CountsAgree, OlderWithinLimit, OlderIn

-----------------------------------------------------------------------------
(* The chains of the pages a commit changes keep at most one older version *)
(* more for each of them.                                                  *)
LEMMA OneMoreEach ==
    ASSUME NEW chains, NEW dirty \in SUBSET PageId,
           IsFiniteSet(OlderOf(versions, dirty)),
           \A p \in dirty : \E x : Older(chains[p]) \subseteq Older(versions[p]) \cup {x}
    PROVE  /\ IsFiniteSet(OlderOf(chains, dirty))
           /\ Cardinality(OlderOf(chains, dirty)) <=
                 Cardinality(OlderOf(versions, dirty)) + Cardinality(dirty)
<1>1. PICK X : \A p \in dirty : Older(chains[p]) \subseteq Older(versions[p]) \cup {X[p]}
  <2> DEFINE Y == [p \in dirty |->
                     CHOOSE x : Older(chains[p]) \subseteq Older(versions[p]) \cup {x}]
  <2>1. \A p \in dirty : Older(chains[p]) \subseteq Older(versions[p]) \cup {Y[p]}
    OBVIOUS
  <2> QED
    BY <2>1
<1>2. PICK R : R = {<<p, X[p]>> : p \in dirty}
  OBVIOUS
<1>3. PICK A, B : A = OlderOf(versions, dirty) /\ B = OlderOf(chains, dirty)
  OBVIOUS
<1>4. B \subseteq A \cup R
  <2> SUFFICES ASSUME NEW x \in B PROVE x \in A \cup R
    OBVIOUS
  <2>1. PICK p, v : p \in dirty /\ v \in Older(chains[p]) /\ x = <<p, v>>
    BY <1>3, InOlderOf
  <2>2. v \in Older(versions[p]) \/ v = X[p]
    BY <1>1, <2>1
  <2>3. v \in Older(versions[p]) => x \in A
    BY <1>3, <2>1, InOlderOf
  <2>4. v = X[p] => x \in R
    BY <1>2, <2>1
  <2> QED
    BY <2>2, <2>3, <2>4
<1>5. IsFiniteSet(dirty) /\ Cardinality(dirty) \in Nat
  BY WaitingFinite
<1>6. IsFiniteSet(R) /\ Cardinality(R) <= Cardinality(dirty) /\ Cardinality(R) \in Nat
  <2> DEFINE f == [p \in dirty |-> <<p, X[p]>>]
  <2>1. f \in Surjection(dirty, R)
    BY <1>2 DEF Surjection
  <2> HIDE DEF f
  <2> QED
    BY <1>5, <2>1, FS_Surjection, FS_CardinalityType
<1>7. IsFiniteSet(A) /\ Cardinality(A) \in Nat
  BY <1>3, FS_CardinalityType
<1>8. /\ IsFiniteSet(A \cup R)
      /\ Cardinality(A \cup R) = Cardinality(A) + Cardinality(R) - Cardinality(A \cap R)
  BY <1>6, <1>7, FS_Union
<1>9. Cardinality(A \cap R) \in Nat
  <2>1. IsFiniteSet(A \cap R)
    BY <1>7, FS_Intersection
  <2> QED
    BY <2>1, FS_CardinalityType
<1>10. /\ IsFiniteSet(B) /\ Cardinality(B) <= Cardinality(A \cup R)
       /\ Cardinality(B) \in Nat
  BY <1>4, <1>8, FS_Subset, FS_CardinalityType
<1> QED
  BY <1>3, <1>5, <1>6, <1>7, <1>8, <1>9, <1>10

(* A commit that ends a snapshot needed the room.                          *)
LEMMA CommitEnds ==
    ASSUME IInv, IInv', CountsAgree, NEW dirty \in SUBSET PageId, NEW n, Commit(dirty, n),
           ended_before' # ended_before
    PROVE  /\ ended_before' > ended_before
           /\ ended_before' <= seq + 1
           /\ older' <= Limit
           /\ Cardinality({p \in PageId : \E v \in versions'[p] : v.seq = seq'})
                + older > Limit
<1>1. PICK open, chains, new :
           /\ open \in SUBSET Nat /\ new \in Version
           /\ \A s \in open : s >= ended_before /\ s <= seq
           /\ new.seq = seq + 1 /\ ~new.written
           /\ \A p \in PageId : /\ chains[p] \in SUBSET Version
                                /\ Distinct(chains[p])
                                /\ \A v \in chains[p] : v.seq <= seq + 1
           /\ \A p \in dirty : /\ new \in chains[p] /\ IsNewest(chains[p], new)
                               /\ \E x : Older(chains[p]) \subseteq Older(versions[p]) \cup {x}
           /\ \A p \in PageId \ dirty : chains[p] = versions[p]
           /\ KeepWithinLimit(chains, older - Cardinality(OlderOf(versions, dirty))
                                            + Cardinality(OlderOf(chains, dirty)), open)
  BY CommitChains
<1>2. PICK count : count = older - Cardinality(OlderOf(versions, dirty))
                                 + Cardinality(OlderOf(chains, dirty))
  OBVIOUS
<1>3. KeepWithinLimit(chains, count, open)
  BY <1>1, <1>2
<1>4. ~(count <= Limit) /\ \E end \in {s + 1 : s \in open} : ended_before' = end
  BY <1>3 DEF KeepWithinLimit
<1>5. seq \in Nat /\ ended_before \in Nat
  BY DEF IInv, TypeOK
<1>6. PICK s \in open : ended_before' = s + 1
  BY <1>4
<1>7. ended_before' > ended_before /\ ended_before' <= seq + 1
  BY <1>1, <1>5, <1>6
<1>8. older' <= Limit
  BY CommitOlder
<1>9. {p \in PageId : \E v \in versions'[p] : v.seq = seq'} = dirty
  <2>1. \A p \in PageId : (\E v \in versions'[p] : v.seq = seq') <=> p \in dirty
    BY CommitUnwritten
  <2> QED
    BY <2>1
<1>10. \A p \in PageId : /\ versions[p] \in SUBSET Version
                         /\ Distinct(versions[p])
                         /\ \A v \in versions[p] : v.seq <= seq
  BY DEF IInv, TypeOK, Chain, ChainsSound
<1>11. IsFiniteSet(OlderOf(versions, PageId)) /\ Cardinality(OlderOf(versions, PageId)) \in Nat
  BY <1>5, <1>10, OlderFinite
<1>12. IsFiniteSet(OlderOf(versions, dirty)) /\ Cardinality(OlderOf(versions, dirty)) \in Nat
  BY <1>11, OlderSplit
<1>13. \A p \in dirty : \E x : Older(chains[p]) \subseteq Older(versions[p]) \cup {x}
  BY <1>1
<1>14. /\ IsFiniteSet(OlderOf(chains, dirty))
       /\ Cardinality(OlderOf(chains, dirty)) <=
             Cardinality(OlderOf(versions, dirty)) + Cardinality(dirty)
  BY <1>12, <1>13, OneMoreEach
<1>15. Cardinality(OlderOf(chains, dirty)) \in Nat /\ Cardinality(dirty) \in Nat
  BY <1>14, FS_CardinalityType, WaitingFinite
<1>16. older \in Nat
  BY <1>11 DEF CountsAgree, OlderIn, OlderOf
<1>17. Cardinality(dirty) + older > Limit
  BY <1>2, <1>4, <1>12, <1>14, <1>15, <1>16, PagesAssumption
<1> QED
  BY <1>7, <1>8, <1>9, <1>17

(* Every step keeps the counts, and ends no snapshot but for room.         *)
LEMMA NextCounts ==
    ASSUME IInv, IInv', CountsAgree, OlderWithinLimit, [Next]_vars
    PROVE  /\ CountsAgree' /\ OlderWithinLimit'
           /\ ended_before' # ended_before =>
                /\ ended_before' > ended_before
                /\ ended_before' <= seq + 1
                /\ older' <= Limit
                /\ Cardinality({p \in PageId : \E v \in versions'[p] : v.seq = seq'})
                     + older > Limit
<1>1. CASE \E dirty \in SUBSET PageId, n \in PageCount .. MaxPages : Commit(dirty, n)
  <2>1. PICK dirty \in SUBSET PageId, n \in PageCount .. MaxPages : Commit(dirty, n)
    BY <1>1
  <2> QED
    BY <2>1, CommitCounts, CommitEnds
<1>2. CASE \E n \in 1 .. MaxPages : CommitReplacing(n)
  <2>1. PICK n \in 1 .. MaxPages : CommitReplacing(n)
    BY <1>2
  <2>2. ended_before' = ended_before
    BY <2>1 DEF CommitReplacing
  <2> QED
    BY <2>1, <2>2, CommitReplacingCounts
<1>3. CASE CheckpointEnd
  <2>1. ended_before' = ended_before
    BY <1>3 DEF CheckpointEnd
  <2> QED
    BY <1>3, <2>1, CheckpointEndCounts
<1>4. CASE CheckpointForget
  <2>1. ended_before' = ended_before
    BY <1>4 DEF CheckpointForget
  <2> QED
    BY <1>4, <2>1, CheckpointForgetCounts
<1>5. CASE UNCHANGED <<older, unwritten, versions, replacement, ended_before>>
  BY <1>5, CountsFrame
<1> USE DEF memory
<1>6. CASE UNCHANGED vars
  BY <1>5, <1>6 DEF vars
<1>7. CASE \E r \in Reader, guarded \in BOOLEAN : Open(r, guarded)
  BY <1>5, <1>7 DEF Open
<1>8. CASE \E r \in Reader : Close(r)
  BY <1>5, <1>8 DEF Close
<1>9. CASE \E r \in Reader, p \in PageId : ReadAt(r, p)
  BY <1>5, <1>9 DEF ReadAt
<1>10. CASE \E r \in Reader, p \in PageId : Scan(r, p)
  BY <1>5, <1>10 DEF Scan
<1>11. CASE \E r \in Reader : ReadFile(r)
  BY <1>5, <1>11 DEF ReadFile
<1>12. CASE \E r \in Reader : ReadDone(r)
  BY <1>5, <1>12 DEF ReadDone
<1>13. CASE \E r \in Reader : ScanDone(r)
  BY <1>5, <1>13 DEF ScanDone
<1>14. CASE CompactBegin \/ CompactFails
  BY <1>5, <1>14 DEF CompactBegin, CompactFails
<1>15. CASE CheckpointBegin
  BY <1>5, <1>15 DEF CheckpointBegin
<1>16. CASE \E p \in PageId : WriteBegin(p)
  BY <1>5, <1>16 DEF WriteBegin
<1>17. CASE \E p \in PageId : WriteEnd(p)
  BY <1>5, <1>17 DEF WriteEnd
<1>18. CASE Truncate \/ CheckpointFails
  BY <1>5, <1>18 DEF Truncate, CheckpointFails
<1> QED
  BY <1>1, <1>2, <1>3, <1>4, <1>6, <1>7, <1>8, <1>9, <1>10, <1>11, <1>12, <1>13,
     <1>14, <1>15, <1>16, <1>17, <1>18 DEF Next

LEMMA InitCounts == Init => CountsAgree /\ OlderWithinLimit
<1> SUFFICES ASSUME Init PROVE CountsAgree /\ OlderWithinLimit
  OBVIOUS
<1>1. \A p \in PageId : versions[p] = {}
  BY DEF Init
<1>2. Cardinality(OlderOf(versions, PageId)) = 0
  <2>1. \A p \in PageId : Older(versions[p]) = {}
    BY <1>1 DEF Older
  <2> QED
    BY <2>1, NoneOlder
<1>3. Cardinality({p \in PageId : Unwritten(versions[p])}) = 0
  <2>1. {p \in PageId : Unwritten(versions[p])} = {}
    BY <1>1 DEF Unwritten
  <2> QED
    BY <2>1, FS_EmptySet
<1>4. older = 0 /\ unwritten = 0 /\ replacement = NoImage
  BY DEF Init
<1> QED
  BY <1>2, <1>3, <1>4, PagesAssumption DEF CountsAgree, OlderWithinLimit, OlderIn, OlderOf

(* The counts kept commit by commit (`older` and `unwritten` of `Memory`)  *)
(* are what is in memory, and the older versions stay within the limit     *)
(* (`keep_within_limit`), for any limit and however long snapshots are     *)
(* kept.                                                                   *)
THEOREM CountsInvariant == Spec => [](CountsAgree /\ OlderWithinLimit)
<1> DEFINE J == CountsAgree /\ OlderWithinLimit
<1>1. Init => J
  BY InitCounts
<1>2. IInv /\ IInv' /\ J /\ [Next]_vars => J'
  BY NextCounts
<1>3. Spec => []IInv
  BY Invariant
<1> HIDE DEF J
<1>4. Spec => []J
  BY <1>1, <1>2, <1>3, PTL DEF Spec
<1> QED
  BY <1>4 DEF J

(* `older` and `unwritten` of `Memory` agree with what is in memory.       *)
THEOREM CountsAreRight == Spec => []CountsAgree
<1>1. CountsAgree /\ OlderWithinLimit => CountsAgree
  OBVIOUS
<1> QED
  BY <1>1, CountsInvariant, PTL

(* The memory kept for snapshots is bounded by `Memory::limit`.            *)
THEOREM MemoryBounded == Spec => []OlderWithinLimit
<1>1. CountsAgree /\ OlderWithinLimit => OlderWithinLimit
  OBVIOUS
<1> QED
  BY <1>1, CountsInvariant, PTL

(* `keep_within_limit` ends a snapshot only for want of room, the oldest   *)
(* first, and never takes an ended one back.                               *)
THEOREM EndedForRoom == Spec => EndsOnlyForRoom
<1>1. IInv /\ IInv' /\ CountsAgree /\ OlderWithinLimit /\ [Next]_vars =>
        [ended_before' # ended_before =>
           /\ ended_before' > ended_before
           /\ ended_before' <= seq + 1
           /\ older' <= Limit
           /\ Cardinality({p \in PageId : \E v \in versions'[p] : v.seq = seq'})
                + older > Limit]_vars
  BY NextCounts
<1> QED
  BY <1>1, Invariant, CountsInvariant, PTL DEF Spec, EndsOnlyForRoom
=============================================================================
