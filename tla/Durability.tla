----------------------------- MODULE Durability -----------------------------
(***************************************************************************)
(* A batch's way to the disk and back: the WAL (src/durability/wal.rs),    *)
(* the logging half of `Database::transact`, the checkpoint as it writes   *)
(* the main file (`Writer::checkpoint`, `Pages::checkpoint`), crashes, and *)
(* the recovery in `Database::open_with` (`FileStore::restore_pages`,      *)
(* `check_restorable`).                                                    *)
(*                                                                         *)
(* A page's bytes are the number of the batch that wrote them; the header  *)
(* (page 0) that batch b wrote counts batch[b].count pages.  What the OS   *)
(* shows of a file and what a power failure may leave of it are told       *)
(* apart: writes since the last flush may be lost, kept or torn page by    *)
(* page, a cut lost or kept.  A torn header's fields are whole (they share *)
(* its first sector), its checksum is not.                                 *)
(***************************************************************************)
EXTENDS Integers, Sequences, FiniteSets

CONSTANTS
    InitPages,     \* what the main file's length may be at first; 0: there
                   \* is none yet
    MaxPages,      \* bound on it
    MaxBatches,    \* bound on the batches logged
    MaxFaults,     \* bound on the crashes and I/O errors
    RecordPages,   \* `record_pages`: the most pages in one WAL record
    Failures,      \* how the database goes down without a checkpoint:
                   \* "kill" leaves what the OS has of the files, "power"
                   \* only what was flushed for sure
    Mixed          \* whether it goes down in both ways, one after the other

ASSUME DurabilityAssumption ==
    /\ MaxPages \in Nat \ {0, 1}
    /\ InitPages \subseteq 0 .. MaxPages
    /\ MaxBatches \in Nat
    /\ MaxFaults \in Nat
    /\ RecordPages \in Nat \ {0}
    /\ Failures \subseteq {"kill", "power"}
    /\ Mixed \in BOOLEAN

PageId == 0 .. MaxPages - 1
HEADER_PAGE == 0
Torn == -1
Absent == -2

VARIABLES
    now, maybe,        \* the main file: as the OS shows it, and what each
                       \* page may be after a power failure
    wal, walMaybe,     \* the WAL's records, and what they may be then
    len,               \* `WalDurability::len`, in records
    batch,             \* what every batch logged so far holds
    pc,
    task,              \* "open" in `open_with`, "close" in the drop of the
                       \* last handle, else "work"
    logLeft,           \* the pages of the batch still to be logged
    waiting,           \* the committed pages not written back yet
    image,             \* the batch whose compaction image waits, or 0
    todo,              \* the writes to the main file still to be made
    current,           \* the last commit's pages, as every read sees them;
                       \* while the database is down, as they were
    doubt,             \* as the batch being logged would leave them
    faults,
    failed             \* in which of the ways of Failures it has gone down

files == <<now, maybe, wal, walMaybe>>
vars == <<files, len, batch, pc, task, logLeft, waiting, image, todo, current,
          doubt, faults, failed>>

-----------------------------------------------------------------------------
(* What files hold.                                                        *)

Nothing == [count |-> -1]
Pages(count, pages) == [count |-> count, page |-> pages]

Length(f) == Cardinality({p \in PageId : f[p] # Absent})

(* `read_header(..).page_count`; 0 if the header is torn, or there is none.*)
HeaderCount(f) == IF f[HEADER_PAGE] \in {Torn, Absent} THEN 0
                  ELSE batch[f[HEADER_PAGE]].count

(* The database in the file f: the pages its header counts.                *)
InFile(f) ==
    IF f[HEADER_PAGE] = Torn THEN Nothing
    ELSE Pages(HeaderCount(f), [p \in PageId |-> IF p < HeaderCount(f)
                                                 THEN f[p] ELSE Absent])

(* The WAL's records, and what a crash may leave in place of the last.     *)
Record == [of : Nat, pages : SUBSET PageId, more : BOOLEAN]
TornRecord == [of |-> 0, pages |-> {}, more |-> TRUE]

(* Mutant of Pending: a batch whose last record is missing is restored too.*)
PendingAny(w) == UNION {{w[i].of} \X w[i].pages : i \in 1 .. Len(w)}

(* `Pending::scan`: the images in the records up to the end of the last    *)
(* whole batch, each the batch that logged it and the page.                *)
Pending(w) ==
    LET whole == {i \in 1 .. Len(w) : ~w[i].more}
    IN  UNION {{w[i].of} \X w[i].pages :
                 i \in {j \in 1 .. Len(w) : \E k \in whole : j <= k}}

(* The page as the images leave it: the last one logged, in log order.     *)
Overlay(f, images) ==
    [p \in PageId |->
       IF \E b \in 1 .. MaxBatches : <<b, p>> \in images
       THEN CHOOSE b \in 1 .. MaxBatches :
              /\ <<b, p>> \in images
              /\ \A c \in 1 .. MaxBatches : <<c, p>> \in images => c <= b
       ELSE f[p]]

(* Mutant of CountAt: the headers in the WAL not heeded.                   *)
CountInFile(f, images, i) == HeaderCount(f)

(* The page count that holds where image i of `images` is: that of the     *)
(* last header image up to there, or else the file's.                      *)
CountAt(f, images, i) ==
    LET headers == {j \in images : j[2] = HEADER_PAGE /\ j[1] <= i[1]}
    IN  IF headers = {} THEN HeaderCount(f)
        ELSE LET last == CHOOSE j \in headers : \A k \in headers : k[1] <= j[1]
             IN  batch[last[1]].count

(* `check_restorable`: no header counts more pages than the file has and   *)
(* the WAL holds, and no page is past the end as the header before it has  *)
(* it.                                                                     *)
Restorable(f, images) ==
    \A i \in images :
       IF i[2] = HEADER_PAGE
       THEN batch[i[1]].count <= Length(f) + Cardinality(images)
       ELSE i[2] < CountAt(f, images, i)

(* The database that recovery gives from a file and a WAL.                 *)
Recovered(f, w) == InFile(Overlay(f, Pending(w)))

(* What a power failure may leave of the main file: any of each page's     *)
(* possible contents, and a length.                                        *)
Outcomes == {f \in [PageId -> UNION {maybe[p] : p \in PageId}] :
               /\ \A p \in PageId : f[p] \in maybe[p]
               /\ \A p, q \in PageId : p < q /\ f[p] = Absent
                                         => f[q] = Absent}

-----------------------------------------------------------------------------
(* A file closed in good order, or none.                                   *)
First == {Pages(n, [p \in PageId |-> IF p < n THEN 0 ELSE Absent]) :
            n \in InitPages}

Init ==
    /\ current \in First
    /\ now = current.page
    /\ maybe = [p \in PageId |-> {now[p]}]
    /\ wal = <<>>
    /\ walMaybe = {<<>>}
    /\ len = 0
    /\ batch = [b \in {0} |-> [pages |-> {}, count |-> current.count,
                               image |-> FALSE]]
    /\ pc = "down"
    /\ task = "work"
    /\ logLeft = {}
    /\ waiting = {}
    /\ image = 0
    /\ todo = {}
    /\ doubt = Nothing
    /\ faults = 0
    /\ failed = {}

(* Whether the database may go down so, here.                              *)
MayFail(how) == how \in Failures /\ (Mixed \/ failed \subseteq {how})

(* Something goes wrong: an I/O call returns an error, or the process ends.*)
Fault == faults < MaxFaults /\ faults' = faults + 1

(* The database goes down in one of the ways of Failures.                  *)
FailsBy(how) ==
    /\ MayFail(how)
    /\ failed' = failed \cup {how}

-----------------------------------------------------------------------------
(* `WalDurability::log_each` and the part of `transact` around it.         *)

This == Cardinality(DOMAIN batch) - 1    \* the batch logged last

(* A batch's pages staged and its log begun: `pages` and the header, if    *)
(* the file grows; or a compaction's image, and the header, of fewer pages.*)
LogBegin(pages, n, replaces) ==
    /\ This < MaxBatches
    /\ batch' = [b \in 0 .. This + 1 |->
                   IF b <= This THEN batch[b]
                   ELSE [pages |-> pages, count |-> n, image |-> replaces]]
    /\ logLeft' = pages
    /\ len' = IF len < Len(wal) THEN len ELSE Len(wal)
    /\ doubt' = Pages(n, [p \in PageId |->
                            IF p >= n THEN Absent
                            ELSE IF p \in pages THEN This + 1
                            ELSE current.page[p]])
    /\ pc' = "log"
    /\ UNCHANGED <<files, task, waiting, image, todo, current, faults, failed>>

Transact(pages, n) ==
    /\ pc = "idle"
    /\ pages # {}
    /\ \A p \in pages : p < n
    /\ n > current.count => /\ HEADER_PAGE \in pages
                            /\ current.count .. n - 1 \subseteq pages
    /\ LogBegin(pages, n, FALSE)

Compact(n) ==
    /\ pc = "idle"
    /\ n < current.count
    /\ LogBegin(0 .. n - 1, n, TRUE)

(* The next record's pages: the first RecordPages of those left.           *)
Chunk == {p \in logLeft : Cardinality({q \in logLeft : q < p}) < RecordPages}
NextRecord == [of |-> This, pages |-> Chunk, more |-> logLeft # Chunk]

LogWrite ==
    /\ pc = "log"
    /\ wal' = Append(wal, NextRecord)
    /\ walMaybe' = walMaybe \cup {wal', Append(wal, TornRecord)}
    /\ logLeft' = logLeft \ Chunk
    /\ pc' = "logged"
    /\ UNCHANGED <<now, maybe, len, batch, task, waiting, image, todo,
                   current, doubt, faults, failed>>

(* A record flushed: the next one, or the batch is durable and published.  *)
(* A compaction's image goes to the file at once, and so does what a fresh *)
(* file is opened with.                                                    *)
LogSync ==
    /\ pc = "logged"
    /\ walMaybe' = {wal}
    /\ IF logLeft # {}
       THEN /\ pc' = "log"
            /\ UNCHANGED <<len, waiting, image, current, doubt>>
       ELSE /\ len' = Len(wal)
            /\ current' = doubt
            /\ doubt' = Nothing
            /\ IF batch[This].image
               THEN waiting' = {HEADER_PAGE} /\ image' = This
               ELSE /\ waiting' = waiting \cup batch[This].pages
                    /\ UNCHANGED image
            /\ pc' = IF batch[This].image \/ task = "open" THEN "checkpoint"
                     ELSE "idle"
    /\ UNCHANGED <<now, maybe, wal, batch, task, logLeft, todo, faults, failed>>

(* A record not written, or not whole, or not flushed: taken back, except  *)
(* in an open, which fails and leaves the OS what was written.             *)
LogFails ==
    /\ Fault
    /\ \/ pc = "logged" /\ UNCHANGED <<wal, walMaybe>>
       \/ /\ pc = "log"
          /\ wal' = Append(wal, TornRecord)
          /\ walMaybe' = walMaybe \cup {wal'}
    /\ IF task = "open" THEN pc' = "down" /\ FailsBy("kill")
       ELSE pc' = "undo" /\ UNCHANGED failed
    /\ task' = "work"
    /\ logLeft' = {}
    /\ UNCHANGED <<now, maybe, len, batch, waiting, image, todo, current,
                   doubt>>

(* Mutant of UndoCut: nothing cut.                                         *)
UndoNothing ==
    /\ pc = "undo"
    /\ pc' = "undone"
    /\ UNCHANGED <<files, len, batch, task, logLeft, waiting, image, todo,
                   current, doubt, faults, failed>>

(* `undo_failed_log`: cut back to `len`, then flushed.                     *)
UndoCut ==
    /\ pc = "undo"
    /\ wal' = SubSeq(wal, 1, len)
    /\ walMaybe' = walMaybe \cup {wal'}
    /\ pc' = "undone"
    /\ UNCHANGED <<now, maybe, len, batch, task, logLeft, waiting, image,
                   todo, current, doubt, faults, failed>>

UndoSync ==
    /\ pc = "undone"
    /\ walMaybe' = {wal}
    /\ doubt' = Nothing
    /\ pc' = "idle"
    /\ UNCHANGED <<now, maybe, wal, len, batch, task, logLeft, waiting,
                   image, todo, current, faults, failed>>

UndoFails ==
    /\ pc \in {"undo", "undone"}
    /\ Fault
    /\ pc' = "poisoned"
    /\ UNCHANGED <<files, len, batch, task, logLeft, waiting, image, todo,
                   current, doubt, failed>>

-----------------------------------------------------------------------------
(* Writes to the main file, by a checkpoint and by the recovery.           *)

(* `Pages::checkpoint`: the image's pages, but for the header, then the    *)
(* pages that wait, each in ascending order.                               *)
ToFile ==
    /\ todo' = (IF image = 0 THEN {}
                ELSE {<<0, p, image>> : p \in batch[image].pages
                                               \ {HEADER_PAGE}})
               \cup {<<1, p, current.page[p]>> : p \in waiting}
    /\ pc' = IF todo' = {} THEN "flushed" ELSE "write"
    /\ UNCHANGED <<files, len, batch, logLeft, waiting, image, current, doubt,
                   faults, failed>>

CheckpointBegin ==
    /\ pc \in {"idle", "checkpoint"}
    /\ ToFile
    /\ UNCHANGED task

(* The last handle dropped: one more checkpoint, unless poisoned, and the  *)
(* files are closed whether or not it succeeds.                            *)
Close ==
    /\ pc = "idle"
    /\ task' = "close"
    /\ ToFile

(* Whether t is the next write: by phase (a checkpoint's) or batch (the    *)
(* recovery's), then by page.                                              *)
IsNext(t) ==
    \A u \in todo : t[1] < u[1] \/ (t[1] = u[1] /\ t[2] <= u[2])

WritePage(t) ==
    /\ pc \in {"write", "restore"}
    /\ IsNext(t)
    /\ now' = [now EXCEPT ![t[2]] = t[3]]
    /\ maybe' = [maybe EXCEPT ![t[2]] = @ \cup {t[3], Torn}]
    /\ todo' = todo \ {t}
    /\ UNCHANGED <<wal, walMaybe, len, batch, pc, task, logLeft, waiting,
                   image, current, doubt, faults, failed>>

(* What a checkpoint that fails leaves: its pages keep waiting, unless it  *)
(* was an open's, which fails, or the last before the file is closed.      *)
GivenUp ==
    /\ pc' = IF task = "work" THEN "idle" ELSE "down"
    /\ waiting' = IF task = "work" THEN waiting ELSE {}
    /\ image' = IF task = "work" THEN image ELSE 0
    /\ task' = "work"

(* An error, or a write only half made.                                    *)
FileFails ==
    /\ pc \in {"write", "restore", "cut"}
    /\ Fault
    /\ \/ UNCHANGED <<now, maybe>>
       \/ \E t \in todo :
             /\ IsNext(t)
             /\ now' = [now EXCEPT ![t[2]] = Torn]
             /\ maybe' = [maybe EXCEPT ![t[2]] = @ \cup {t[3], Torn}]
    /\ todo' = {}
    /\ GivenUp
    /\ UNCHANGED <<wal, walMaybe, len, batch, logLeft, current, doubt, failed>>

(* `truncate`: to the page count, of the last commit or of the header just *)
(* restored.                                                               *)
CutFile ==
    /\ pc \in {"write", "restore"}
    /\ todo = {}
    /\ LET n == IF pc = "write" THEN current.count ELSE HeaderCount(now)
           cut == {p \in PageId : p >= n /\ now[p] # Absent}
       IN  /\ now' = [p \in PageId |-> IF p \in cut THEN Absent ELSE now[p]]
           /\ maybe' = [p \in PageId |-> IF p \in cut
                                         THEN maybe[p] \cup {Absent}
                                         ELSE maybe[p]]
    /\ pc' = "cut"
    /\ UNCHANGED <<wal, walMaybe, len, batch, task, logLeft, waiting,
                   image, todo, current, doubt, faults, failed>>

(* Mutant of SyncFile: not flushed.                                        *)
SyncNothing ==
    /\ pc = "cut"
    /\ waiting' = {}
    /\ image' = 0
    /\ pc' = "flushed"
    /\ UNCHANGED <<files, len, batch, task, logLeft, todo, current, doubt,
                   faults, failed>>

SyncFile ==
    /\ pc = "cut"
    /\ maybe' = [p \in PageId |-> {now[p]}]
    /\ waiting' = {}
    /\ image' = 0
    /\ pc' = "flushed"
    /\ UNCHANGED <<now, wal, walMaybe, len, batch, task, logLeft, todo,
                   current, doubt, faults, failed>>

-----------------------------------------------------------------------------
(* `WalDurability::checkpoint`: the WAL cut to nothing, then flushed.      *)

EmptyWal ==
    /\ pc = "flushed"
    /\ wal' = <<>>
    /\ walMaybe' = walMaybe \cup {<<>>}
    /\ len' = 0
    /\ pc' = "emptied"
    /\ UNCHANGED <<now, maybe, batch, task, logLeft, waiting, image, todo,
                   current, doubt, faults, failed>>

(* Done, and in an open, the database is: what the file holds is the last  *)
(* commit, and whether the batch in doubt is part of it is settled.  A     *)
(* fresh file still lacks its catalog page.                                *)
SyncWal ==
    /\ pc = "emptied"
    /\ walMaybe' = {wal}
    /\ IF task = "open"
       THEN current' = InFile(now) /\ doubt' = Nothing
       ELSE UNCHANGED <<current, doubt>>
    /\ LET fresh == now[HEADER_PAGE] = Absent
       IN  /\ pc' = IF task = "close" THEN "down"
                    ELSE IF fresh THEN "fresh" ELSE "idle"
           /\ task' = IF fresh THEN "open" ELSE "work"
    /\ UNCHANGED <<now, maybe, wal, len, batch, logLeft, waiting, image, todo,
                   faults, failed>>

(* `Writer::checkpoint` ignores the error, an open fails with it.  A WAL   *)
(* that couldn't be cut is as it was.                                      *)
WalFails ==
    /\ pc \in {"flushed", "emptied"}
    /\ Fault
    /\ GivenUp
    /\ UNCHANGED <<files, len, batch, logLeft, todo, current, doubt, failed>>

-----------------------------------------------------------------------------
(* `Database::open_with`.                                                  *)

(* `WalDurability::open` with `Pending::scan`, `check_restorable`, and the *)
(* header's check where there is nothing to restore.                       *)
Open ==
    /\ pc = "down"
    /\ LET images == Pending(wal)
           corrupt == \E i \in 1 .. Len(wal) - 1 : wal[i] = TornRecord
           refused == IF images = {} THEN now[HEADER_PAGE] = Torn
                      ELSE ~Restorable(now, images)
       IN  /\ pc' = IF corrupt \/ refused THEN "refused"
                    ELSE IF images = {} THEN "flushed" ELSE "restore"
           /\ todo' = IF corrupt \/ refused THEN {}
                      ELSE {<<i[1], i[2], i[1]>> : i \in images}
    /\ len' = Len(wal)
    /\ task' = "open"
    /\ UNCHANGED <<files, batch, logLeft, waiting, image, current, doubt,
                   faults, failed>>

(* The catalog page and the header, logged like a batch.                   *)
Bootstrap ==
    /\ pc = "fresh"
    /\ LogBegin({HEADER_PAGE, 1}, 2, FALSE)

-----------------------------------------------------------------------------
(* The process ends, and what it held in memory is gone.                   *)
DownBy(how) ==
    /\ FailsBy(how)
    /\ pc' = "down"
    /\ task' = "work"
    /\ logLeft' = {}
    /\ waiting' = {}
    /\ image' = 0
    /\ todo' = {}
    /\ UNCHANGED <<len, batch, current, doubt>>

(* A poisoned database dropped: nothing is written, and as after a kill    *)
(* the next open finds the files as the OS has them.                       *)
ClosePoisoned ==
    /\ pc = "poisoned"
    /\ DownBy("kill")
    /\ UNCHANGED <<files, faults>>

(* The machine stays up: the OS has every write made, flushed or not.      *)
Kill ==
    /\ pc \notin {"down", "refused"}
    /\ Fault
    /\ DownBy("kill")
    /\ UNCHANGED files

PowerFailure ==
    /\ pc # "refused"
    /\ Fault
    /\ DownBy("power")
    /\ now' \in Outcomes
    /\ maybe' = [p \in PageId |-> {now'[p]}]
    /\ wal' \in walMaybe
    /\ walMaybe' = {wal'}

-----------------------------------------------------------------------------
Next ==
    \/ \E pages \in SUBSET PageId, n \in current.count .. MaxPages :
          Transact(pages, n)
    \/ \E n \in 2 .. MaxPages : Compact(n)
    \/ LogWrite
    \/ LogSync
    \/ LogFails
    \/ UndoCut
    \/ UndoSync
    \/ UndoFails
    \/ CheckpointBegin
    \/ Close
    \/ ClosePoisoned
    \/ \E t \in todo : WritePage(t)
    \/ FileFails
    \/ CutFile
    \/ SyncFile
    \/ EmptyWal
    \/ SyncWal
    \/ WalFails
    \/ Open
    \/ Bootstrap
    \/ Kill
    \/ PowerFailure

Spec == Init /\ [][Next]_vars

-----------------------------------------------------------------------------
(* Properties.                                                             *)

Contents == [count : 0 .. MaxPages,
             page : [PageId -> 0 .. MaxBatches \cup {Absent}]]

(* The variables have their types; what is committed is a whole database.  *)
TypeOK ==
    /\ now \in [PageId -> 0 .. MaxBatches \cup {Torn, Absent}]
    /\ maybe \in [PageId -> SUBSET (0 .. MaxBatches \cup {Torn, Absent})]
    /\ wal \in Seq(Record)
    /\ \A w \in walMaybe : w \in Seq(Record)
    /\ len \in Nat
    /\ DOMAIN batch = 0 .. This
    /\ \A b \in 0 .. This : batch[b] \in [pages : SUBSET PageId,
                                          count : 0 .. MaxPages,
                                          image : BOOLEAN]
    /\ pc \in {"down", "refused", "restore", "fresh", "idle", "log", "logged",
               "undo", "undone", "poisoned", "checkpoint", "write", "cut",
               "flushed", "emptied"}
    /\ task \in {"open", "work", "close"}
    /\ logLeft \in SUBSET PageId
    /\ waiting \in SUBSET PageId
    /\ image \in 0 .. MaxBatches
    /\ todo \in SUBSET ((0 .. MaxBatches) \X PageId \X (0 .. MaxBatches))
    /\ current \in Contents
    /\ doubt \in Contents \cup {Nothing}
    /\ faults \in 0 .. MaxFaults
    /\ failed \subseteq Failures

(* Whenever the process ends, the main file and the WAL together hold      *)
(* every batch acknowledged, whole, and at most the one being logged       *)
(* besides, whole too: whatever part of the unflushed writes to either     *)
(* file survives, and however often recovery itself is cut short.          *)
Recoverable ==
    /\ Recovered(now, wal) \in {current, doubt}
    /\ MayFail("power") =>
          \A f \in Outcomes, w \in walMaybe :
             Recovered(f, w) \in {current, doubt}

(* A crash tears the WAL's tail only: recovery never meets a torn record   *)
(* before others, which it would refuse as damage.                         *)
OnlyTailTorn ==
    \A w \in walMaybe \cup {wal} :
       \A i \in 1 .. Len(w) : w[i] = TornRecord => i = Len(w)

(* Recovery refuses a WAL only where a checkpoint or a recovery that got   *)
(* as far as the header was cut short: the main file's header is torn, or  *)
(* is one the WAL itself holds, or counts pages that a cut made after its  *)
(* write has taken, though the write is lost.                              *)
RefusesOnlyAfterHeaderWrite ==
    pc = "refused" =>
       \/ now[HEADER_PAGE] = Torn
       \/ <<now[HEADER_PAGE], HEADER_PAGE>> \in Pending(wal)
       \/ Length(now) < HeaderCount(now)

(* What `open_before_recovery` says of a header torn by a crash: "the WAL  *)
(* holds the whole page, and `restore_pages` writes it back".              *)
TornHeaderRestored == pc = "refused" => now[HEADER_PAGE] # Torn

(* What `Writer::checkpoint` says of a WAL left as it was after the pages  *)
(* went to the file: its records are written back once more at the next    *)
(* open, "harmless, page images are idempotent".                           *)
ReplayHarmless == pc = "refused" => now[HEADER_PAGE] = Torn

(* The batches are atomic and durable as AtomicStore says.                 *)
Store == INSTANCE AtomicStore
           WITH Content <- Contents, state <- current
StoreSpec == Store!Spec

-----------------------------------------------------------------------------
(* The inductive invariant behind them.                                    *)

(* It takes a database that goes down in one way only: `unflushed` records *)
(* of a kill are restored before a flush.                                  *)
OneWay == ~Mixed \/ Failures # {"kill", "power"}

(* What a crash may leave of each page, and of the WAL.                    *)
Left == [p \in PageId |-> IF MayFail("power") THEN maybe[p] ELSE {now[p]}]
LeftWals == IF MayFail("power") THEN walMaybe ELSE {wal}

Images(w) == UNION {{w[i].of} \X w[i].pages : i \in 1 .. Len(w)}
HasImage(images, p) == \E b \in 1 .. MaxBatches : <<b, p>> \in images
IsNewest(images, p, b) ==
    /\ b \in 1 .. MaxBatches
    /\ <<b, p>> \in images
    /\ \A d \in 1 .. MaxBatches : <<d, p>> \in images => d <= b

(* The pages that make up c.                                               *)
Within(c) == {p \in PageId : p < c.count \/ p = HEADER_PAGE}

(* The images, over whatever is left of the main file, give c.             *)
Gives(images, left, c) ==
    \A p \in Within(c) :
       IF HasImage(images, p) THEN IsNewest(images, p, c.page[p])
       ELSE left[p] \subseteq {c.page[p]}

(* c is a database: its header counts its pages.                           *)
IsWhole(c) ==
    /\ c \in Contents
    /\ \A p \in PageId : IF p < c.count THEN c.page[p] \in 0 .. This
                         ELSE c.page[p] = Absent
    /\ c.count > 0 => batch[c.page[HEADER_PAGE]].count = c.count

NoneTorn(w) == \A i \in 1 .. Len(w) : w[i] # TornRecord

(* The types, by what they are of, and what they leave out.                *)
FilesTyped ==
    /\ now \in [PageId -> 0 .. MaxBatches \cup {Torn, Absent}]
    /\ maybe \in [PageId -> SUBSET (0 .. MaxBatches \cup {Torn, Absent})]
    /\ \A p \in PageId : now[p] \in maybe[p]
    /\ wal \in walMaybe
    /\ \A w \in walMaybe :
          /\ w \in Seq(Record)
          /\ \A i \in 1 .. Len(w) : w[i] # TornRecord => w[i].of \in 1 .. This

BatchesTyped ==
    /\ This \in 0 .. MaxBatches
    /\ DOMAIN batch = 0 .. This
    /\ \A b \in 0 .. This : batch[b] \in [pages : SUBSET PageId,
                                          count : 0 .. MaxPages,
                                          image : BOOLEAN]
    /\ IsWhole(current)
    /\ doubt = Nothing \/ IsWhole(doubt)

StepTyped ==
    /\ len \in Nat
    /\ pc \in {"down", "refused", "restore", "fresh", "idle", "log", "logged",
               "undo", "undone", "poisoned", "checkpoint", "write", "cut",
               "flushed", "emptied"}
    /\ task \in {"open", "work", "close"}
    /\ logLeft \in SUBSET PageId
    /\ waiting \in SUBSET PageId
    /\ image \in 0 .. This
    /\ todo \in SUBSET ((0 .. MaxBatches) \X PageId \X (0 .. MaxBatches))
    /\ faults \in 0 .. MaxFaults
    /\ failed \subseteq Failures

Typed == FilesTyped /\ BatchesTyped /\ StepTyped

(* The log as it was before the batch that is being logged.                *)
Base == SubSeq(wal, 1, len)

Logging == pc \in {"log", "logged", "undo", "undone", "poisoned"}

(* The database is there, and what was committed since the last checkpoint *)
(* is in the WAL.                                                          *)
Up == \/ pc \in {"idle", "checkpoint", "fresh", "log", "logged", "undo",
                 "undone", "write"}
      \/ pc \in {"cut", "flushed", "emptied"} /\ task # "open"

ToWrite == waiting \cup (IF image = 0 THEN {} ELSE batch[image].pages)

WalSound ==
    Up => /\ len <= Len(wal)
          /\ NoneTorn(Base)
          /\ Pending(Base) = Images(Base)
          /\ Gives(Pending(Base), Left, current)

WaitingSound ==
    Up => /\ \A p \in ToWrite : p < current.count
          /\ image # 0 => HEADER_PAGE \in waiting
          /\ \A p \in ToWrite \ waiting : current.page[p] = image
          /\ \A p \in Within(current) \ ToWrite : Left[p] \subseteq {current.page[p]}
          /\ \A p \in ToWrite : /\ HasImage(Pending(Base), p)
                                /\ \A w \in LeftWals : HasImage(Pending(w), p)

(* Outside of a log: no batch is in doubt but one that a crash left so.    *)
Settles ==
    ~Logging => /\ Up => doubt = Nothing /\ len = Len(wal)
                /\ LeftWals = {wal} \/ wal = <<>>

LogSound ==
    pc \in {"log", "logged"} =>
       /\ NoneTorn(wal)
       /\ This >= 1
       /\ doubt # Nothing
       /\ logLeft \subseteq batch[This].pages
       /\ Images(wal) = Pending(Base) \cup {This} \X (batch[This].pages \ logLeft)
       /\ \A b \in 1 .. MaxBatches, p \in PageId : <<b, p>> \in Pending(Base) => b < This
       /\ pc = "logged" /\ logLeft = {} => Pending(wal) = Images(wal)
       /\ \A p \in batch[This].pages : p < doubt.count /\ doubt.page[p] = This
       /\ \A p \in Within(doubt) \ batch[This].pages :
             p \in Within(current) /\ doubt.page[p] = current.page[p]
       /\ IF batch[This].image THEN Within(doubt) \subseteq batch[This].pages
          ELSE doubt.count >= current.count

(* The writes still to be made, in order, leave v on page p.               *)
LeavesOn(p, v) ==
    \/ \E u \in todo : /\ u[2] = p /\ u[3] = v
                       /\ \A t \in todo : t[2] = p => t[1] <= u[1]
    \/ now[p] = v /\ \A t \in todo : t[2] # p

Reaches(c) ==
    /\ pc \in {"restore", "write"} => \A p \in Within(c) : LeavesOn(p, c.page[p])
    /\ pc = "cut" => \A p \in Within(c) : now[p] = c.page[p]
    /\ pc \in {"flushed", "emptied"} =>
          \A p \in Within(c) : Left[p] \subseteq {c.page[p]}

(* Whatever a crash leaves recovers to a commit; outside of a log, always  *)
(* to the same one, and that is what the file is being made to be.         *)
Recovers ==
    IF Logging THEN \A w \in LeftWals : \E c \in {current, doubt} :
                       c # Nothing /\ Gives(Pending(w), Left, c)
    ELSE \E c \in {current, doubt} :
            /\ c # Nothing
            /\ \A w \in LeftWals : Gives(Pending(w), Left, c)
            /\ Reaches(c)

TodoSound ==
    /\ pc \notin {"restore", "write"} => todo = {}
    /\ \A t, u \in todo : t[1] = u[1] /\ t[2] = u[2] => t = u
    /\ \A t \in todo, w \in LeftWals : HasImage(Pending(w), t[2])
    /\ pc = "write" => \A t \in todo : t[2] \in ToWrite

StepSound ==
    /\ \/ pc \in {"down", "restore", "flushed", "emptied", "fresh"}
       \/ pc \in {"log", "logged"} /\ task = "open"
       => waiting = {} /\ image = 0
    /\ pc \in {"idle", "undo", "undone"} => task # "open"
    /\ pc = "emptied" => wal = <<>> /\ len = 0
    /\ pc = "fresh" => current.count = 0
    /\ pc = "undone" => len = Len(wal)
    /\ pc = "restore" => task = "open"

IInv == /\ Typed /\ WalSound /\ WaitingSound /\ Settles /\ LogSound
        /\ Recovers /\ TodoSound /\ StepSound /\ OnlyTailTorn

(* Why recovery accepts a WAL: from a header that counts n pages, each     *)
(* image is within the file as the header before it has it, and so is      *)
(* every page that a header counts beyond n.                               *)
ChainFrom(images, n) ==
    \A i \in images :
       /\ i[2] < batch[i[1]].count
       /\ \/ /\ batch[i[1]].count = n
             /\ \A j \in images : j[2] = HEADER_PAGE => i[1] < j[1]
          \/ \E d \in images :
                /\ d[2] = HEADER_PAGE /\ d[1] <= i[1]
                /\ batch[d[1]].count = batch[i[1]].count
                /\ \A j \in images : j[2] = HEADER_PAGE /\ j[1] <= i[1] => j[1] <= d[1]
       /\ i[2] = HEADER_PAGE =>
             \A p \in PageId : n <= p /\ p < batch[i[1]].count => HasImage(images, p)

(* The header h of a file counts n pages; none counts no pages.            *)
Counts(h, n) == IF h = Absent THEN n = 0 ELSE h \in 0 .. This /\ n = batch[h].count

(* So it is from any header left in the file that the WAL doesn't replace. *)
Chained(images) ==
    \A h \in Left[HEADER_PAGE] :
       \/ h = Torn
       \/ <<h, HEADER_PAGE>> \in images
       \/ \E n \in 0 .. MaxPages : Counts(h, n) /\ ChainFrom(images, n)

(* The logs that may be left, and the one before the batch under way.      *)
Logs == LeftWals \cup (IF Up THEN {Base} ELSE {})

ChainInv ==
    /\ \A w \in Logs : Chained(Pending(w))
    /\ \A t \in todo, w \in Logs :
          t[2] = HEADER_PAGE => <<t[3], HEADER_PAGE>> \in Pending(w)
    /\ pc \in {"log", "logged"} => batch[This].count = doubt.count
    /\ RefusesOnlyAfterHeaderWrite
=============================================================================
