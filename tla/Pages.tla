-------------------------------- MODULE Pages --------------------------------
(***************************************************************************)
(* The committed pages and the snapshots that read them:                   *)
(* src/storage/pages.rs (`Memory`, `Pages::read_at`, `commit`,             *)
(* `commit_replacing`, `checkpoint`, `forget`), with the part of           *)
(* src/database.rs that hands snapshots out and publishes commits          *)
(* (`read`, `pin`, `Writer::live`, the end of `transact`).                 *)
(*                                                                         *)
(* One writer and any number of readers run beside each other.  The memory *)
(* is behind a lock, so every block of code that holds the lock is one     *)
(* step here; reading the file, and a checkpoint's writes to it, hold no   *)
(* lock and are steps of their own.  Page 0 is the header.                 *)
(***************************************************************************)
EXTENDS Versions

CONSTANTS
    Reader,      \* the threads that read
    InitPages,   \* the file's length at open, in pages
    MaxPages,    \* bound on that length
    MaxCommits,  \* bound on the commits since open
    MaxEpoch,    \* bound on the checkpoints begun and the compactions; a
                 \* checkpoint of an image that waits may be one more
    Limit,       \* `Memory::limit`: the most older versions kept
    CachePages   \* the page cache's capacity

ASSUME PagesAssumption ==
    /\ MaxPages \in Nat
    /\ InitPages \in 1 .. MaxPages
    /\ MaxCommits \in Nat
    /\ MaxEpoch \in Nat
    /\ Limit \in Nat
    /\ CachePages \in Nat

PageId == 0 .. MaxPages - 1
HEADER_PAGE == 0

Torn == -1        \* a page in the file that a write is or was under way to
Absent == -2      \* past the end of the file
NotCached == -3
TooOld == -4      \* what a read as of an ended snapshot gets
NoPage == -5
Damaged == -6     \* what an integrity check reports of a page
Missing == -7     \* ... or the error of reading past the file's end
NoSnapshot == -1
NoReply == [snap |-> NoSnapshot, page |-> 0, value |-> NoPage]

NoImage == [seq |-> 0, count |-> 0]

VARIABLES
    \* the file
    file,          \* what each page of the main file holds
    \* `Memory`
    cache, versions, replacement, unwritten, seq, file_epoch, older,
    ended_before,
    \* the writer
    past,          \* `Writer::past`: replaced snapshots that were held
    wpc,           \* where the writer is
    waiting,       \* `checkpoint`: the pages it took down to write back
    imageLeft, waitingLeft,   \* ... and those of them not written yet
    writing,       \* the page being written, or NoSnapshot
    cpLive,        \* the snapshots it was told are open
    \* the readers
    snap,          \* the commit a reader's snapshot is of
    gate,          \* whether it holds the gate (`ReadGuard::_gate`)
    rpc, want, epoch, seen,
    \* history
    reply,         \* what the last step returned to a reader, if it did
    history        \* every commit: its page count and its pages

memory == <<cache, versions, replacement, unwritten, seq, file_epoch, older,
            ended_before>>
writer == <<past, wpc, waiting, imageLeft, waitingLeft, writing, cpLive>>
reader == <<snap, gate, rpc, want, epoch, seen>>
vars == <<file, memory, writer, reader, reply, history>>

-----------------------------------------------------------------------------
(* Snapshots.                                                              *)

Held(s) == \E r \in Reader : snap[r] = s

(* `Writer::live` over the snapshots `replaced`: those still held that the *)
(* limit hasn't ended.                                                     *)
Live(replaced) == {s \in replaced : Held(s) /\ s >= ended_before}

(* Mutant of PastWithCurrent: the snapshot just replaced is forgotten.     *)
PastWithoutCurrent == past

(* The replaced snapshots, the current one among them if it is held: what  *)
(* `transact` has in `past` once the next commit takes its place.          *)
PastWithCurrent == IF Held(seq) THEN past \cup {seq} ELSE past

PageCount == history[seq].count

(* The page as a read looks it up under the lock, a version or else the    *)
(* image or else the cache; NotCached sends the reader to the file.        *)
Lookup(p, s) ==
    IF versions[p] # {}
    THEN IF AtOrBefore(versions[p], s) = {} THEN TooOld
         ELSE ReadableAt(versions[p], s).page
    ELSE IF replacement # NoImage THEN replacement.seq
    ELSE cache[p]

(* `PageCache::put`: the clock evicts some other page when it is full.     *)
Cached == {p \in PageId : cache[p] # NotCached}
CachePut(p, page) ==
    IF p \in Cached \/ (CachePages > 0 /\ Cardinality(Cached) < CachePages)
    THEN cache' = [cache EXCEPT ![p] = page]
    ELSE IF CachePages = 0 THEN cache' = cache
    ELSE \E q \in Cached :
            cache' = [cache EXCEPT ![q] = NotCached, ![p] = page]

-----------------------------------------------------------------------------
Init ==
    /\ history = [c \in {0} |-> [count |-> InitPages,
                                 page |-> [p \in PageId |-> 0]]]
    /\ file = [p \in PageId |-> IF p < InitPages THEN 0 ELSE Absent]
    /\ cache = [p \in PageId |-> NotCached]
    /\ versions = [p \in PageId |-> {}]
    /\ replacement = NoImage
    /\ unwritten = 0
    /\ seq = 0
    /\ file_epoch = 0
    /\ older = 0
    /\ ended_before = 0
    /\ past = {}
    /\ wpc = "idle"
    /\ waiting = {}
    /\ imageLeft = {}
    /\ waitingLeft = {}
    /\ writing = NoSnapshot
    /\ cpLive = {}
    /\ snap = [r \in Reader |-> NoSnapshot]
    /\ gate = [r \in Reader |-> FALSE]
    /\ rpc = [r \in Reader |-> "open"]
    /\ want = [r \in Reader |-> 0]
    /\ epoch = [r \in Reader |-> 0]
    /\ seen = [r \in Reader |-> NoPage]
    /\ reply = NoReply

-----------------------------------------------------------------------------
(* The readers.                                                            *)

(* Mutant of Open: a snapshot taken without the gate.                      *)
OpenUngated(r, guarded) ==
    /\ snap[r] = NoSnapshot
    /\ snap' = [snap EXCEPT ![r] = seq]
    /\ gate' = [gate EXCEPT ![r] = guarded]
    /\ reply' = NoReply
    /\ UNCHANGED <<file, memory, writer, rpc, want, epoch, seen, history>>

(* `Database::read` and `Database::pin`: the current snapshot, taken under *)
(* the gate, which only a read's guard keeps.                              *)
Open(r, guarded) ==
    /\ snap[r] = NoSnapshot
    /\ wpc # "compact"
    /\ snap' = [snap EXCEPT ![r] = seq]
    /\ gate' = [gate EXCEPT ![r] = guarded]
    /\ reply' = NoReply
    /\ UNCHANGED <<file, memory, writer, rpc, want, epoch, seen, history>>

(* The guard, or the last clone of the snapshot, dropped.                  *)
Close(r) ==
    /\ snap[r] # NoSnapshot
    /\ rpc[r] = "open"
    /\ snap' = [snap EXCEPT ![r] = NoSnapshot]
    /\ gate' = [gate EXCEPT ![r] = FALSE]
    /\ reply' = NoReply
    /\ UNCHANGED <<file, memory, writer, rpc, want, epoch, seen, history>>

(* `read_at`, the lookup under the read lock: the page, or `TooOld`, or    *)
(* the count of checkpoints to go to the file with.                        *)
ReadAt(r, p) ==
    /\ snap[r] # NoSnapshot
    /\ \/ rpc[r] = "open" /\ p < history[snap[r]].count
       \/ rpc[r] = "again" /\ p = want[r]
    /\ LET page == IF snap[r] < ended_before THEN TooOld
                   ELSE Lookup(p, snap[r])
       IN  IF page = NotCached
           THEN /\ rpc' = [rpc EXCEPT ![r] = "file"]
                /\ epoch' = [epoch EXCEPT ![r] = file_epoch]
                /\ want' = [want EXCEPT ![r] = p]
                /\ reply' = NoReply
           ELSE /\ rpc' = [rpc EXCEPT ![r] = "open"]
                /\ want' = [want EXCEPT ![r] = 0]
                /\ reply' = [snap |-> snap[r], page |-> p, value |-> page]
                /\ UNCHANGED epoch
    /\ UNCHANGED <<file, memory, writer, snap, gate, seen, history>>

(* `damaged`, the lookup for one page: a page that waits for a checkpoint  *)
(* is skipped, the others are read from the file with the count.           *)
Scan(r, p) ==
    /\ snap[r] # NoSnapshot
    /\ \/ rpc[r] = "open" /\ p < history[snap[r]].count
       \/ rpc[r] = "rescan" /\ p = want[r]
    /\ IF replacement # NoImage \/ Unwritten(versions[p])
       THEN /\ rpc' = [rpc EXCEPT ![r] = "open"]
            /\ want' = [want EXCEPT ![r] = 0]
            /\ UNCHANGED epoch
       ELSE /\ rpc' = [rpc EXCEPT ![r] = "scan"]
            /\ want' = [want EXCEPT ![r] = p]
            /\ epoch' = [epoch EXCEPT ![r] = file_epoch]
    /\ reply' = NoReply
    /\ UNCHANGED <<file, memory, writer, snap, gate, seen, history>>

(* `read_page_at` and `read_disk_page`, without the lock: whatever the     *)
(* file holds just then.                                                   *)
ReadFile(r) ==
    /\ rpc[r] \in {"file", "scan"}
    /\ seen' = [seen EXCEPT ![r] = file[want[r]]]
    /\ rpc' = [rpc EXCEPT ![r] = IF @ = "file" THEN "check" ELSE "scanned"]
    /\ reply' = NoReply
    /\ UNCHANGED <<file, memory, writer, snap, gate, want, epoch, history>>

(* Mutants of ReadDone: the page taken whatever checkpoint began since it  *)
(* was read, and taken so only once no checkpoint is under way.            *)
ReadDoneUnchecked(r) ==
    /\ rpc[r] = "check"
    /\ rpc' = [rpc EXCEPT ![r] = "open"]
    /\ want' = [want EXCEPT ![r] = 0]
    /\ reply' = [snap |-> snap[r], page |-> want[r], value |-> seen[r]]
    /\ CachePut(want[r], seen[r])
    /\ seen' = [seen EXCEPT ![r] = NoPage]
    /\ epoch' = [epoch EXCEPT ![r] = 0]
    /\ UNCHANGED <<file, versions, replacement, unwritten, seq, file_epoch,
                   older, ended_before, writer, snap, gate, history>>

ReadDoneWaits(r) == wpc \notin {"write", "written"} /\ ReadDoneUnchecked(r)

(* `read_at`, the write lock: look again if a checkpoint began, else cache *)
(* the page and return it.                                                 *)
ReadDone(r) ==
    /\ rpc[r] = "check"
    /\ IF epoch[r] # file_epoch
       THEN /\ rpc' = [rpc EXCEPT ![r] = "again"]
            /\ reply' = NoReply
            /\ UNCHANGED <<cache, want>>
       ELSE /\ rpc' = [rpc EXCEPT ![r] = "open"]
            /\ want' = [want EXCEPT ![r] = 0]
            /\ reply' = [snap |-> snap[r], page |-> want[r],
                         value |-> seen[r]]
            /\ CachePut(want[r], seen[r])
    /\ seen' = [seen EXCEPT ![r] = NoPage]
    /\ epoch' = [epoch EXCEPT ![r] = 0]
    /\ UNCHANGED <<file, versions, replacement, unwritten, seq, file_epoch,
                   older, ended_before, writer, snap, gate, history>>

(* Mutant of ScanDone: no look at the count once the page is read.         *)
ScanDoneUnchecked(r) ==
    /\ rpc[r] = "scanned"
    /\ rpc' = [rpc EXCEPT ![r] = "open"]
    /\ want' = [want EXCEPT ![r] = 0]
    /\ reply' = IF seen[r] = Torn
                THEN [snap |-> snap[r], page |-> want[r], value |-> Damaged]
                ELSE NoReply
    /\ seen' = [seen EXCEPT ![r] = NoPage]
    /\ epoch' = [epoch EXCEPT ![r] = 0]
    /\ UNCHANGED <<file, memory, writer, snap, gate, history>>

(* `damaged`, once the page is read: again if a checkpoint began.          *)
ScanDone(r) ==
    /\ rpc[r] = "scanned"
    /\ IF epoch[r] # file_epoch
       THEN /\ rpc' = [rpc EXCEPT ![r] = "rescan"]
            /\ reply' = NoReply
            /\ UNCHANGED want
       ELSE /\ rpc' = [rpc EXCEPT ![r] = "open"]
            /\ want' = [want EXCEPT ![r] = 0]
            /\ reply' = IF seen[r] \in {Torn, Absent}
                        THEN [snap |-> snap[r], page |-> want[r],
                              value |-> IF seen[r] = Torn THEN Damaged
                                        ELSE Missing]
                        ELSE NoReply
    /\ seen' = [seen EXCEPT ![r] = NoPage]
    /\ epoch' = [epoch EXCEPT ![r] = 0]
    /\ UNCHANGED <<file, memory, writer, snap, gate, history>>

-----------------------------------------------------------------------------
(* The writer: commits.                                                    *)

Record(n, dirty) ==
    history' = [c \in 0 .. seq + 1 |->
                  IF c <= seq THEN history[c]
                  ELSE [count |-> n,
                        page |-> [p \in PageId |->
                                    IF p \in dirty THEN seq + 1
                                    ELSE history[seq].page[p]]]]

(* The newest committed page, as the writer finds it before it changes it  *)
(* (`write_raw` with `Pages::read`).                                       *)
Before(p) == LET page == Lookup(p, seq)
             IN  IF page = NotCached THEN file[p] ELSE page

(* The chain of page p once a batch that changed it commits beside the     *)
(* snapshots `open`.                                                       *)
Committed(p, open) ==
    LET was == IF versions[p] # {} THEN versions[p]
               ELSE IF open # {} /\ p < PageCount
               THEN {[seq |-> 0, page |-> Before(p), written |-> TRUE]}
               ELSE {}
    IN  Prune(was \cup {[seq |-> seq + 1, page |-> seq + 1,
                         written |-> FALSE]}, open)

(* How many older versions the chains `chains` keep.                       *)
OlderIn(chains) == Cardinality(UNION {{p} \X Older(chains[p]) : p \in PageId})

ForgetAll(chains, live) == [p \in PageId |-> Forget(chains[p], live)]

(* Mutants of KeepWithinLimit: nothing ended, and everything ended at      *)
(* every commit beside a snapshot.                                         *)
KeepAll(chains, count, live) ==
    versions' = chains /\ older' = count /\ UNCHANGED ended_before

EndAll(chains, count, live) ==
    /\ versions' = ForgetAll(chains, {})
    /\ older' = 0
    /\ ended_before' = IF live = {} THEN ended_before ELSE seq + 1

(* `keep_within_limit`: while there are more than `limit` older versions,  *)
(* the oldest open snapshots end, one commit at a time, and what the rest  *)
(* don't read is forgotten.  `end` is the `ended_before` it comes to.      *)
KeepWithinLimit(chains, count, live) ==
    LET after(end) == ForgetAll(chains, {s \in live : s >= end})
        ends == {s + 1 : s \in live}
    IN  IF count <= Limit
        THEN /\ versions' = chains
             /\ older' = count
             /\ UNCHANGED ended_before
        ELSE IF live = {}
        THEN /\ versions' = after(0)
             /\ older' = OlderIn(after(0))
             /\ UNCHANGED ended_before
        ELSE \E end \in ends :
             /\ OlderIn(after(end)) <= Limit \/ \A e \in ends : e <= end
             /\ \A e \in ends : e < end => OlderIn(after(e)) > Limit
             /\ versions' = after(end)
             /\ older' = OlderIn(after(end))
             /\ ended_before' = end

(* The pages a batch may change: any of the file's, and the new ones, with *)
(* the header, if it grows (`allocate_page`).                              *)
CanStage(dirty, n) ==
    /\ dirty # {}
    /\ \A p \in dirty : p < n
    /\ n > PageCount => /\ HEADER_PAGE \in dirty
                        /\ \A p \in PageCount .. n - 1 : p \in dirty

(* The publishing step of `transact` with `Pages::commit`.                 *)
Commit(dirty, n) ==
    /\ wpc = "idle"
    /\ seq < MaxCommits
    /\ CanStage(dirty, n)
    /\ LET open == Live(PastWithCurrent)
           chains == [p \in PageId |-> IF p \in dirty THEN Committed(p, open)
                                       ELSE versions[p]]
           olderBefore == Cardinality(UNION {{p} \X Older(versions[p]) :
                                               p \in dirty})
           olderAfter == Cardinality(UNION {{p} \X Older(chains[p]) :
                                               p \in dirty})
       IN  KeepWithinLimit(chains, older - olderBefore + olderAfter, open)
    /\ unwritten' = unwritten
           + Cardinality({p \in dirty : ~Unwritten(versions[p])})
    /\ seq' = seq + 1
    /\ past' = {s \in PastWithCurrent : Held(s)}
    /\ Record(n, dirty)
    /\ reply' = NoReply
    /\ UNCHANGED <<file, cache, replacement, file_epoch, wpc, waiting,
                   imageLeft, waitingLeft, writing, cpLive, reader>>

(* A compaction takes the gate alone, so waits for every guard, and goes   *)
(* on only if no snapshot is kept (`Error::SnapshotOpen` otherwise).       *)
CompactBegin ==
    /\ wpc = "idle"
    /\ seq < MaxCommits
    /\ \A r \in Reader : ~gate[r]
    /\ past' = {s \in past : Held(s)}
    /\ wpc' = IF Held(seq) \/ Live(past) # {} THEN "idle" ELSE "compact"
    /\ reply' = NoReply
    /\ UNCHANGED <<file, memory, waiting, imageLeft, waitingLeft, writing,
                   cpLive, reader, history>>

(* Its log failed: rolled back, and the gate let go.                       *)
CompactFails ==
    /\ wpc = "compact"
    /\ wpc' = "idle"
    /\ reply' = NoReply
    /\ UNCHANGED <<file, memory, past, waiting, imageLeft, waitingLeft,
                   writing, cpLive, reader, history>>

(* `commit_replacing`: an image of n pages, the header among them, takes   *)
(* the place of everything.                                                *)
CommitReplacing(n) ==
    /\ wpc = "compact"
    /\ seq' = seq + 1
    /\ file_epoch' = file_epoch + 1
    /\ versions' = [p \in PageId |->
                      IF p = HEADER_PAGE
                      THEN {[seq |-> seq + 1, page |-> seq + 1,
                             written |-> FALSE]}
                      ELSE {}]
    /\ older' = 0
    /\ cache' = [p \in PageId |-> NotCached]
    /\ unwritten' = 1 + (n - 1)
    /\ replacement' = [seq |-> seq + 1, count |-> n]
    /\ past' = {s \in past : Held(s)}
    /\ wpc' = "idle"
    /\ Record(n, 0 .. n - 1)
    /\ reply' = NoReply
    /\ UNCHANGED <<file, ended_before, waiting, imageLeft, waitingLeft,
                   writing, cpLive, reader>>

-----------------------------------------------------------------------------
(* The writer: `checkpoint`, beside the readers.                           *)

(* The count moves and the pages to write back are taken down, under the   *)
(* lock; with none of them the call ends in a `forget`.                    *)
CheckpointBegin ==
    /\ wpc = "idle"
    /\ file_epoch < MaxEpoch + IF replacement = NoImage THEN 0 ELSE 1
    /\ file_epoch' = file_epoch + 1
    /\ past' = {s \in past : Held(s)}
    /\ cpLive' = Live(past)
    /\ waiting' = {p \in PageId : Unwritten(versions[p])}
    /\ waitingLeft' = waiting'
    /\ imageLeft' = {p \in PageId : p # HEADER_PAGE /\ p < replacement.count}
    /\ wpc' = IF waiting' = {} /\ replacement = NoImage THEN "forget"
              ELSE "write"
    /\ reply' = NoReply
    /\ UNCHANGED <<file, cache, versions, replacement, unwritten, seq, older,
                   ended_before, writing, reader, history>>

(* Mutant of Left: the header left out, as it rightly is of the image.     *)
LeftButHeader == IF imageLeft # {} THEN imageLeft
                 ELSE waitingLeft \ {HEADER_PAGE}

(* `copy_back`, then `write_back`, both in ascending order of page ids:    *)
(* the next page to write.                                                 *)
Left == IF imageLeft # {} THEN imageLeft ELSE waitingLeft

WriteBegin(p) ==
    /\ wpc = "write"
    /\ writing = NoSnapshot
    /\ p \in Left
    /\ \A q \in Left : p <= q
    /\ writing' = p
    /\ file' = [file EXCEPT ![p] = Torn]
    /\ reply' = NoReply
    /\ UNCHANGED <<memory, past, wpc, waiting, imageLeft, waitingLeft, cpLive,
                   reader, history>>

WriteEnd(p) ==
    /\ wpc = "write"
    /\ writing = p
    /\ writing' = NoSnapshot
    /\ IF imageLeft # {}
       THEN /\ file' = [file EXCEPT ![p] = replacement.seq]
            /\ imageLeft' = imageLeft \ {p}
            /\ UNCHANGED waitingLeft
       ELSE /\ file' = [file EXCEPT ![p] = Newest(versions[p]).page]
            /\ waitingLeft' = waitingLeft \ {p}
            /\ UNCHANGED imageLeft
    /\ reply' = NoReply
    /\ UNCHANGED <<memory, past, wpc, waiting, cpLive, reader, history>>

(* `truncate`, and the flush after it.                                     *)
Truncate ==
    /\ wpc = "write"
    /\ Left = {}
    /\ file' = [p \in PageId |-> IF p < PageCount THEN file[p] ELSE Absent]
    /\ cache' = IF \E p \in PageId : p >= PageCount /\ file[p] # Absent
                THEN [p \in PageId |-> IF p < PageCount THEN cache[p]
                                       ELSE NotCached]
                ELSE cache
    /\ wpc' = "written"
    /\ reply' = NoReply
    /\ UNCHANGED <<versions, replacement, unwritten, seq, file_epoch, older,
                   ended_before, past, waiting, imageLeft, waitingLeft,
                   writing, cpLive, reader, history>>

(* Mutant of CheckpointFails: the image that waited is given up.           *)
ImageGivenUp ==
    /\ wpc \in {"write", "written"}
    /\ wpc' = "idle"
    /\ writing' = NoSnapshot
    /\ waiting' = {}
    /\ imageLeft' = {}
    /\ waitingLeft' = {}
    /\ cpLive' = {}
    /\ replacement' = NoImage
    /\ reply' = NoReply
    /\ UNCHANGED <<file, cache, versions, unwritten, seq, file_epoch, older,
                   ended_before, past, reader, history>>

(* Any write, the cut or the flush failed: everything stays in memory.     *)
CheckpointFails ==
    /\ wpc \in {"write", "written"}
    /\ wpc' = "idle"
    /\ writing' = NoSnapshot
    /\ waiting' = {}
    /\ imageLeft' = {}
    /\ waitingLeft' = {}
    /\ cpLive' = {}
    /\ reply' = NoReply
    /\ UNCHANGED <<file, memory, past, reader, history>>

(* All of it is durably in the file: marked so, and read from there.  The  *)
(* cache takes the pages that fit; which of them is left open.             *)
CheckpointEnd ==
    /\ wpc = "written"
    /\ versions' = [p \in PageId |->
                      IF p \in waiting THEN MarkWritten(versions[p])
                      ELSE versions[p]]
    /\ \E kept \in SUBSET PageId :
          /\ Cardinality(kept) <= CachePages
          /\ kept \subseteq Cached \cup {p \in waiting : p < PageCount}
          /\ cache' = [p \in PageId |->
                         IF p \notin kept THEN NotCached
                         ELSE IF p \in waiting /\ p < PageCount
                              THEN Newest(versions[p]).page
                         ELSE cache[p]]
    /\ unwritten' = 0
    /\ replacement' = NoImage
    /\ wpc' = "forget"
    /\ waiting' = {}
    /\ reply' = NoReply
    /\ UNCHANGED <<file, seq, file_epoch, older, ended_before, past,
                   imageLeft, waitingLeft, writing, cpLive, reader, history>>

(* `forget`, under the lock taken once more.                               *)
CheckpointForget ==
    /\ wpc = "forget"
    /\ versions' = ForgetAll(versions, {s \in cpLive : s >= ended_before})
    /\ older' = OlderIn(versions')
    /\ wpc' = "idle"
    /\ cpLive' = {}
    /\ reply' = NoReply
    /\ UNCHANGED <<file, cache, replacement, unwritten, seq, file_epoch,
                   ended_before, past, waiting, imageLeft, waitingLeft,
                   writing, reader, history>>

-----------------------------------------------------------------------------
(* A reader's steps within one page read.                                  *)
Read(r) ==
    \/ rpc[r] = "again" /\ ReadAt(r, want[r])
    \/ rpc[r] = "rescan" /\ Scan(r, want[r])
    \/ ReadFile(r)
    \/ ReadDone(r)
    \/ ScanDone(r)

Next ==
    \/ \E r \in Reader, guarded \in BOOLEAN : Open(r, guarded)
    \/ \E r \in Reader : Close(r)
    \/ \E r \in Reader, p \in PageId : ReadAt(r, p)
    \/ \E r \in Reader, p \in PageId : Scan(r, p)
    \/ \E r \in Reader : ReadFile(r)
    \/ \E r \in Reader : ReadDone(r)
    \/ \E r \in Reader : ScanDone(r)
    \/ \E dirty \in SUBSET PageId, n \in PageCount .. MaxPages :
          Commit(dirty, n)
    \/ CompactBegin
    \/ CompactFails
    \/ \E n \in 1 .. MaxPages : CommitReplacing(n)
    \/ CheckpointBegin
    \/ \E p \in PageId : WriteBegin(p)
    \/ \E p \in PageId : WriteEnd(p)
    \/ Truncate
    \/ CheckpointFails
    \/ CheckpointEnd
    \/ CheckpointForget

Spec == Init /\ [][Next]_vars

(* A read in progress goes on by itself, whatever the writer does.         *)
FairSpec == Spec /\ \A r \in Reader : WF_vars(Read(r))

-----------------------------------------------------------------------------
(* Properties.                                                             *)

Chain == SUBSET Version

(* The types, but for the counts `older` and `unwritten`: CountsAgree says *)
(* what those are.                                                         *)
TypeOK ==
    /\ file \in [PageId -> Nat \cup {Torn, Absent}]
    /\ cache \in [PageId -> Nat \cup {NotCached}]
    /\ versions \in [PageId -> Chain]
    /\ replacement \in [seq : Nat, count : Nat]
    /\ seq \in Nat
    /\ file_epoch \in Nat
    /\ ended_before \in Nat
    /\ past \in SUBSET Nat
    /\ wpc \in {"idle", "compact", "write", "written", "forget"}
    /\ waiting \in SUBSET PageId
    /\ imageLeft \in SUBSET PageId
    /\ waitingLeft \in SUBSET PageId
    /\ writing \in PageId \cup {NoSnapshot}
    /\ cpLive \in SUBSET Nat
    /\ snap \in [Reader -> Nat \cup {NoSnapshot}]
    /\ gate \in [Reader -> BOOLEAN]
    /\ rpc \in [Reader -> {"open", "again", "file", "check",
                        "scan", "scanned", "rescan"}]
    /\ want \in [Reader -> PageId]
    /\ epoch \in [Reader -> Nat]
    /\ seen \in [Reader -> Nat \cup {Torn, Absent, NoPage}]
    /\ reply \in [snap : Nat \cup {NoSnapshot}, page : PageId,
                  value : Nat \cup {TooOld, NoPage, Damaged, Missing}]
    /\ history \in [0 .. seq -> [count : Nat, page : [PageId -> Nat]]]

(* Every read gives the page as its snapshot's commit left it, however     *)
(* many commits, checkpoints, compactions and failed write-backs came      *)
(* between: never a newer version, an older one or a half-written page.    *)
SnapshotReads ==
    reply.value \notin {NoPage, TooOld, Damaged, Missing} =>
       reply.value = history[reply.snap].page[reply.page]

(* A read is refused as too old only if the limit has ended its snapshot:  *)
(* a snapshot the writer was told is open never misses a version.          *)
TooOldOnlyIfEnded == reply.value = TooOld => reply.snap < ended_before

(* An integrity check beside a checkpoint reports no damage that isn't     *)
(* there: not a page half written, nor one the file has only an older copy *)
(* of.  It runs past the file's end only if its snapshot has been ended.   *)
ChecksSound ==
    /\ reply.value # Damaged
    /\ reply.value = Missing => reply.snap < ended_before

(* The bookkeeping done commit by commit agrees with what is in memory:    *)
(* `older` counts every version but the newest of its page, `unwritten`    *)
(* the pages, an image's included, that wait for a checkpoint.             *)
CountsAgree ==
    /\ older = OlderIn(versions)
    /\ unwritten = Cardinality({p \in PageId : Unwritten(versions[p])})
                   + (IF replacement = NoImage THEN 0
                      ELSE replacement.count - 1)

(* The memory kept for snapshots is bounded by the limit, however long     *)
(* snapshots are kept.                                                     *)
OlderWithinLimit == older <= Limit

(* `commit_beside` asserts that no snapshot is open when a compaction's    *)
(* image is published; only ended ones may still be held.                  *)
CompactsAlone ==
    wpc = "compact" => \A r \in Reader : /\ ~gate[r]
                                         /\ snap[r] < ended_before

(* With nothing waiting, the file alone holds the last commit, complete    *)
(* and cut to its length: what the writer relies on when it empties the    *)
(* WAL after a checkpoint.                                                 *)
FileIsCurrent ==
    (replacement = NoImage /\ \A p \in PageId : ~Unwritten(versions[p])) =>
       file = [p \in PageId |-> IF p < PageCount THEN history[seq].page[p]
                                ELSE Absent]

(* The limit ends the oldest snapshots first and only when a commit needs  *)
(* the room: `ended_before` never goes back, and when it moves, the        *)
(* snapshots it ends kept more versions than the limit.                    *)
EndsOnlyForRoom ==
    [][ended_before' # ended_before =>
         /\ ended_before' > ended_before
         /\ ended_before' <= seq + 1
         /\ older' <= Limit
         /\ Cardinality({p \in PageId : \E v \in versions'[p] : v.seq = seq'})
              + older > Limit]_vars

(* A read in progress returns, even if the writer stops halfway through a  *)
(* checkpoint or a compaction: it waits for nothing.                       *)
ReadsReturn == \A r \in Reader : rpc[r] # "open" ~> rpc[r] = "open"
-----------------------------------------------------------------------------
(* The inductive invariant behind SnapshotReads, TooOldOnlyIfEnded,        *)
(* ChecksSound, CompactsAlone and FileIsCurrent.                           *)

(* The snapshots whose pages must be readable: the current one, held or    *)
(* not, and the held ones the limit hasn't ended.                          *)
IsOpen(s) == s = seq \/ (Held(s) /\ s >= ended_before)

(* Whoever holds a snapshot that has been replaced is known to the writer, *)
(* and while a checkpoint runs, so are they to the checkpoint.             *)
HeldKnown ==
    /\ \A r \in Reader : snap[r] # NoSnapshot =>
          /\ snap[r] <= seq
          /\ snap[r] = seq \/ snap[r] \in past
    /\ \A s \in past : s < seq
    /\ ended_before <= seq
    /\ wpc \in {"write", "written", "forget"} =>
          \A s \in past : Held(s) /\ s >= ended_before => s \in cpLive
    /\ \A s \in cpLive : s < seq

(* A chain is of distinct commits, and of pages the file has.              *)
ChainsSound ==
    \A p \in PageId :
       /\ \A v \in versions[p] : v.seq <= seq
       /\ Distinct(versions[p])
       /\ versions[p] # {} => p < PageCount

(* A page as the readers of commit s find it.                              *)
PageRight(s, p) ==
    IF versions[p] # {}
    THEN \E v \in versions[p] :
            ReadBy(versions[p], v, s) /\ v.page = history[s].page[p]
    ELSE IF replacement # NoImage THEN history[s].page[p] = replacement.seq
    ELSE history[s].page[p] = file[p]

PagesRight ==
    \A s \in 0 .. seq : IsOpen(s) =>
       /\ history[s].count <= PageCount
       /\ \A p \in PageId : p < history[s].count => PageRight(s, p)

(* The file holds the newest version of a page that doesn't wait.          *)
WrittenRight ==
    \A p \in PageId : \A v \in versions[p] :
       IsNewest(versions[p], v) /\ v.written =>
          file[p] = v.page /\ replacement = NoImage

(* The cache differs from the file only where the page waits to be         *)
(* written back.                                                           *)
CacheRight ==
    /\ \A p \in PageId : \/ cache[p] \in {NotCached, file[p]}
                         \/ Unwritten(versions[p])
    /\ replacement # NoImage => \A p \in PageId : cache[p] = NotCached

(* While an image waits, so does its header; the file past the last page   *)
(* is cut otherwise.                                                       *)
ImageRight ==
    /\ PageCount \in 1 .. MaxPages
    /\ replacement # NoImage =>
          /\ Unwritten(versions[HEADER_PAGE])
          /\ \A p \in PageId : versions[p] = {} /\ p < PageCount
                                 => p < replacement.count
          /\ replacement.count <= PageCount
    /\ replacement = NoImage =>
          /\ replacement.count = 0
          /\ \A p \in PageId : p >= PageCount => file[p] = Absent

(* How far a checkpoint's writes are.                                      *)
CheckpointRight ==
    /\ wpc \notin {"write"} => writing = NoSnapshot
    /\ wpc \in {"idle", "compact", "forget"} =>
          waiting = {} /\ waitingLeft = {} /\ imageLeft = {}
    /\ wpc = "written" => waitingLeft = {} /\ imageLeft = {}
    /\ wpc = "written" => \A p \in PageId : p >= PageCount => file[p] = Absent
    /\ wpc \in {"write", "written"} =>
          /\ waiting = {p \in PageId : Unwritten(versions[p])}
          /\ waitingLeft \subseteq waiting
          /\ imageLeft # {} => replacement # NoImage /\ waitingLeft = waiting
          /\ \A p \in imageLeft : p # HEADER_PAGE /\ p < replacement.count
          /\ writing # NoSnapshot => writing \in Left
          /\ \A p \in waiting \ waitingLeft : \A v \in versions[p] :
                IsNewest(versions[p], v) => file[p] = v.page
          /\ replacement # NoImage =>
                \A p \in PageId : p # HEADER_PAGE /\ p < replacement.count
                     /\ p \notin imageLeft /\ p \notin waiting
                   => file[p] = replacement.seq

(* A reader on its way to the file and back: as long as no checkpoint has  *)
(* begun, the page it wants is not being written.                          *)
ReaderRight(r) ==
    rpc[r] # "open" =>
       /\ snap[r] # NoSnapshot
       /\ want[r] < history[snap[r]].count
       /\ epoch[r] <= file_epoch
       /\ (rpc[r] \in {"file", "check", "scan", "scanned"}
             /\ epoch[r] = file_epoch) =>
            /\ replacement = NoImage
            /\ want[r] \notin waiting
            /\ rpc[r] \in {"file", "check"} =>
                  file[want[r]] = history[snap[r]].page[want[r]]
            /\ rpc[r] \in {"scan", "scanned"} =>
                  \/ file[want[r]] \in Nat
                  \/ file[want[r]] = Absent /\ snap[r] < ended_before
            /\ rpc[r] \in {"check", "scanned"} => seen[r] = file[want[r]]

IInv ==
    /\ TypeOK
    /\ HeldKnown
    /\ ChainsSound
    /\ PagesRight
    /\ WrittenRight
    /\ CacheRight
    /\ ImageRight
    /\ CheckpointRight
    /\ CompactsAlone
    /\ \A r \in Reader : ReaderRight(r)
    /\ SnapshotReads
    /\ TooOldOnlyIfEnded
    /\ ChecksSound
=============================================================================
