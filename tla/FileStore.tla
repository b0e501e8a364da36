----------------------------- MODULE FileStore -----------------------------
(***************************************************************************)
(* The writer's side of the page store, src/storage/file.rs: the header,   *)
(* the free list linked through the free pages, and the staging of a       *)
(* batch, from `begin` to `commit` or `rollback`.                          *)
(*                                                                         *)
(* Whoever builds on the store (the heap, the B-trees, the catalog) is     *)
(* abstracted to the pages it holds and what it wrote to each: it writes   *)
(* and frees only pages it was given.  The committed pages are those of    *)
(* the file and of src/storage/pages.rs together, as a reopened database   *)
(* finds them.                                                             *)
(***************************************************************************)
EXTENDS Integers

CONSTANTS
    InitPages,   \* an older file's pages
    MaxPages,    \* bound on them
    Value        \* what a user of the store may write to a page

ASSUME FileStoreAssumption ==
    /\ MaxPages \in Nat \ {0}
    /\ InitPages \in 1 .. MaxPages

PageId == 0 .. MaxPages - 1
HEADER_PAGE == 0
NO_FREE_PAGE == 0

(* What a page may hold.  A page just added is zeros; those an older build *)
(* wrote are told apart.  Clean stands for "not in the dirty set".         *)
Stamp == {"format", "release", "current"}
Header == [count : 0 .. MaxPages, head : PageId, stamp : Stamp]
HeaderPage(h) == [kind |-> "header", header |-> h]
FreePage(next) == [kind |-> "free", next |-> next]
DataPage(v) == [kind |-> "data", value |-> v]
ZeroPage == [kind |-> "zero"]
OldPage == [kind |-> "old"]
Absent == [kind |-> "absent"]
Clean == [kind |-> "clean"]

VARIABLES
    committed,       \* the pages as of the last commit
    header,          \* `FileStore::header`
    staging,         \* whether a batch is staged: then `Staging` is
    header_before,
    dirty, before,
    replaces_all,
    replacement,     \* the image a compaction stages
    held,            \* what the users of the store hold, page by page
    heldBefore       \* ... as of the last commit

vars == <<committed, header, staging, header_before, dirty, before,
          replaces_all, replacement, held, heldBefore>>
batch == <<staging, header_before, replaces_all, replacement>>

None == [p \in PageId |-> Clean]

(* `read_current`: the batch's page, or the image's, or the committed one. *)
Current(p) == IF dirty[p] # Clean THEN dirty[p]
              ELSE IF replaces_all THEN replacement[p]
              ELSE committed[p]

(* `Header::fresh`, and the header an open finds.                          *)
fresh == [count |-> 1, head |-> NO_FREE_PAGE, stamp |-> "current"]
InFile(pages) == IF pages[HEADER_PAGE] = Absent THEN fresh
                 ELSE pages[HEADER_PAGE].header

(* `free_list`: where the walk from the head is after i links; -1 once it  *)
(* has met a page that isn't free, or is past the end.                     *)
FreeList(h, pages) ==
    LET Link(p) == IF p < h.count THEN p ELSE -1
        at[i \in 0 .. MaxPages] ==
          IF i = 0 THEN Link(h.head)
          ELSE IF at[i - 1] \in {NO_FREE_PAGE, -1} THEN at[i - 1]
          ELSE IF pages[at[i - 1]].kind # "free" THEN -1
          ELSE Link(pages[at[i - 1]].next)
    IN  at

-----------------------------------------------------------------------------
(* An older file, or a fresh one: its header isn't written yet.            *)
Init ==
    /\ \/ header = fresh /\ committed = [p \in PageId |-> Absent]
       \/ /\ \E stamp \in Stamp :
                header = [count |-> InitPages, head |-> NO_FREE_PAGE,
                          stamp |-> stamp]
          /\ committed = [p \in PageId |->
                            IF p >= InitPages THEN Absent
                            ELSE IF p = HEADER_PAGE THEN HeaderPage(header)
                            ELSE OldPage]
    /\ staging = FALSE
    /\ header_before = header
    /\ dirty = None
    /\ before = None
    /\ replaces_all = FALSE
    /\ replacement = None
    /\ held = [p \in 1 .. header.count - 1 |-> OldPage]
    /\ heldBefore = held

-----------------------------------------------------------------------------
Begin ==
    /\ ~staging
    /\ staging' = TRUE
    /\ header_before' = header
    /\ UNCHANGED <<committed, header, dirty, before, replaces_all, replacement,
                   held, heldBefore>>

(* Mutant of WriteRaw: the page kept is the one last written, staged or    *)
(* not.                                                                    *)
WriteRawKeepsLast(pages) ==
    /\ dirty' = [p \in PageId |-> IF p \in DOMAIN pages THEN pages[p]
                                  ELSE dirty[p]]
    /\ before' = [p \in PageId |->
                    IF /\ p \in DOMAIN pages
                       /\ p < header_before.count
                       /\ committed[p] # Absent
                    THEN Current(p) ELSE before[p]]

(* `write_raw` of the pages in `pages` (a function), while staging: each   *)
(* one's committed page is kept with its first change.                     *)
WriteRaw(pages) ==
    /\ dirty' = [p \in PageId |-> IF p \in DOMAIN pages THEN pages[p]
                                  ELSE dirty[p]]
    /\ before' = [p \in PageId |->
                    IF /\ p \in DOMAIN pages
                       /\ ~replaces_all
                       /\ p < header_before.count
                       /\ dirty[p] = Clean
                       /\ committed[p] # Absent
                    THEN committed[p] ELSE before[p]]

(* ... and `write_header` after them, which stamps the header h.           *)
Stamped(h) == [h EXCEPT !.stamp = "current"]
WithHeader(pages, h) ==
    [p \in DOMAIN pages \cup {HEADER_PAGE} |->
       IF p = HEADER_PAGE THEN HeaderPage(Stamped(h)) ELSE pages[p]]
(* Mutant of WriteWithHeader: the header changed and not staged.           *)
WriteHeaderless(pages, h) == WriteRaw(pages) /\ header' = Stamped(h)

WriteWithHeader(pages, h) ==
    /\ WriteRaw(WithHeader(pages, h))
    /\ header' = Stamped(h)

NoPages == [p \in {} |-> Clean]
One(p, page) == [q \in {p} |-> page]

(* `allocate_page`: the free list's first page, or one more.               *)
AllocateFree ==
    /\ staging /\ ~replaces_all
    /\ header.head # NO_FREE_PAGE
    /\ LET id == header.head
           page == Current(id)
       IN  /\ page.kind = "free"
           /\ page.next < header.count
           /\ WriteWithHeader(NoPages, [header EXCEPT !.head = page.next])
           /\ held' = [p \in DOMAIN held \cup {id} |->
                         IF p = id THEN page ELSE held[p]]
    /\ UNCHANGED <<committed, batch, heldBefore>>

AllocateNew ==
    /\ staging /\ ~replaces_all
    /\ header.head = NO_FREE_PAGE
    /\ header.count < MaxPages
    /\ LET id == header.count
       IN  /\ WriteWithHeader(One(id, ZeroPage),
                              [header EXCEPT !.count = @ + 1])
           /\ held' = [p \in DOMAIN held \cup {id} |->
                         IF p = id THEN ZeroPage ELSE held[p]]
    /\ UNCHANGED <<committed, batch, heldBefore>>

(* Mutant of WritePage: the header not looked at.                          *)
WritePageUnstamped(p, v) ==
    /\ staging /\ ~replaces_all
    /\ p \in DOMAIN held
    /\ WriteRaw(One(p, DataPage(v)))
    /\ held' = [held EXCEPT ![p] = DataPage(v)]
    /\ UNCHANGED <<committed, header, batch, heldBefore>>

(* `write_page`: with the header, if an older format or another release is *)
(* what it says.                                                           *)
WritePage(p, v) ==
    /\ staging /\ ~replaces_all
    /\ p \in DOMAIN held
    /\ p # HEADER_PAGE
    /\ p < header.count
    /\ IF header.stamp # "current"
       THEN WriteWithHeader(One(p, DataPage(v)), header)
       ELSE WriteRaw(One(p, DataPage(v))) /\ UNCHANGED header
    /\ held' = [held EXCEPT ![p] = DataPage(v)]
    /\ UNCHANGED <<committed, batch, heldBefore>>

(* `change_page` of a page the batch has changed: in place.  Of any other  *)
(* it is `write_page`.                                                     *)
ChangePage(p, v) ==
    /\ staging /\ ~replaces_all
    /\ p \in DOMAIN held
    /\ dirty[p] # Clean
    /\ dirty' = [dirty EXCEPT ![p] = DataPage(v)]
    /\ held' = [held EXCEPT ![p] = DataPage(v)]
    /\ UNCHANGED <<committed, header, before, batch, heldBefore>>

(* `free_page`: linked in front of the list.                               *)
Free(p) ==
    /\ staging /\ ~replaces_all
    /\ p \in DOMAIN held
    /\ p # HEADER_PAGE
    /\ p < header.count
    /\ WriteWithHeader(One(p, FreePage(header.head)),
                       [header EXCEPT !.head = p])
    /\ held' = [q \in DOMAIN held \ {p} |-> held[q]]
    /\ UNCHANGED <<committed, batch, heldBefore>>

(* `stamp_format_version`.                                                 *)
StampFormat ==
    /\ staging /\ ~replaces_all
    /\ header.stamp = "format"
    /\ WriteWithHeader(NoPages, header)
    /\ UNCHANGED <<committed, batch, held, heldBefore>>

(* `replace_all`: an image of n pages, one page of the header's and the    *)
(* rest of the value v, in place of everything.  A compaction's batch,     *)
(* which changes nothing else.                                             *)
ReplaceAll(n, v) ==
    /\ staging /\ ~replaces_all
    /\ replaces_all' = TRUE
    /\ replacement' = [p \in PageId |-> IF p \in 1 .. n - 1 THEN DataPage(v)
                                        ELSE Absent]
    /\ before' = None
    /\ header' = Stamped([header EXCEPT !.count = n, !.head = NO_FREE_PAGE])
    /\ dirty' = [None EXCEPT ![HEADER_PAGE] = HeaderPage(header')]
    /\ held' = [p \in 1 .. n - 1 |-> DataPage(v)]
    /\ UNCHANGED <<committed, staging, header_before, heldBefore>>

(* Mutant of Ended: the batch's pages left behind.                         *)
EndedDirty ==
    /\ staging' = FALSE
    /\ before' = None
    /\ replaces_all' = FALSE
    /\ replacement' = None
    /\ UNCHANGED dirty

(* The `Staging` dropped.                                                  *)
Ended ==
    /\ staging' = FALSE
    /\ dirty' = None
    /\ before' = None
    /\ replaces_all' = FALSE
    /\ replacement' = None

(* `commit_beside`, for a batch the WAL holds: its pages are the committed *)
(* ones, and those past the end are gone.                                  *)
Commit ==
    /\ staging
    /\ dirty # None
    /\ Ended
    /\ committed' = [p \in PageId |-> IF p >= header.count THEN Absent
                                      ELSE Current(p)]
    /\ heldBefore' = held
    /\ UNCHANGED <<header, header_before, held>>

(* Mutant of Rollback: the pages taken back, the header not.               *)
RollbackPages ==
    /\ staging
    /\ Ended
    /\ held' = heldBefore
    /\ UNCHANGED <<committed, header, header_before, heldBefore>>

Rollback ==
    /\ staging
    /\ Ended
    /\ header' = header_before
    /\ held' = heldBefore
    /\ UNCHANGED <<committed, header_before, heldBefore>>

(* The database closed, or the process ended with a batch staged, and      *)
(* opened again: the header is the committed one, or a fresh file's.       *)
Reopen ==
    /\ Ended
    /\ header' = InFile(committed)
    /\ held' = heldBefore
    /\ UNCHANGED <<committed, header_before, heldBefore>>

Next ==
    \/ Begin
    \/ AllocateFree
    \/ AllocateNew
    \/ \E p \in PageId, v \in Value : WritePage(p, v)
    \/ \E p \in PageId, v \in Value : ChangePage(p, v)
    \/ \E p \in PageId : Free(p)
    \/ StampFormat
    \/ \E n \in 2 .. MaxPages, v \in Value : ReplaceAll(n, v)
    \/ Commit
    \/ Rollback
    \/ Reopen

Spec == Init /\ [][Next]_vars

-----------------------------------------------------------------------------
(* Properties.                                                             *)

Page == {HeaderPage(h) : h \in Header} \cup {FreePage(p) : p \in PageId}
          \cup {DataPage(v) : v \in Value}
          \cup {ZeroPage, OldPage, Absent, Clean}

(* The variables have their types; what is held is below the page count.   *)
TypeOK ==
    /\ committed \in [PageId -> Page]
    /\ header \in Header
    /\ staging \in BOOLEAN
    /\ header_before \in Header
    /\ dirty \in [PageId -> Page]
    /\ before \in [PageId -> Page]
    /\ replaces_all \in BOOLEAN
    /\ replacement \in [PageId -> Page]
    /\ DOMAIN held \subseteq 1 .. header.count - 1
    /\ \A p \in DOMAIN held : held[p] \in Page
    /\ DOMAIN heldBefore \subseteq PageId
    /\ \A p \in DOMAIN heldBefore : heldBefore[p] \in Page

(* The free list is whole: it ends, every page on it is tagged free, and   *)
(* it holds exactly the pages nobody holds.  So no page is handed out      *)
(* twice, and none is lost, through any batches, rollbacks and reopens.    *)
ListSound(h, pages, used) ==
    LET at == FreeList(h, pages)
    IN  /\ at[MaxPages] = NO_FREE_PAGE
        /\ {at[i] : i \in 0 .. MaxPages} \ {NO_FREE_PAGE}
             = (1 .. h.count - 1) \ used
FreeListSound ==
    ListSound(header, [p \in PageId |-> Current(p)], DOMAIN held)

(* A page somebody holds is as they wrote it, whatever was allocated,      *)
(* freed and rolled back since.                                            *)
HeldIntact == \A p \in DOMAIN held : Current(p) = held[p]

(* What is committed is complete: a database opened from it has the same   *)
(* header, the same free list and the same pages as the one that commits   *)
(* (`rollback`: "dirty pages and header alike").                           *)
CommittedWhole ==
    LET h == InFile(committed)
    IN  /\ h = IF staging THEN header_before ELSE header
        /\ ListSound(h, committed, DOMAIN heldBefore)
        /\ \A p \in DOMAIN heldBefore : committed[p] = heldBefore[p]

(* What a snapshot open at the commit goes on reading: `before` has every  *)
(* page the batch changes as the last commit left it.                      *)
BeforeKept ==
    staging /\ ~replaces_all =>
       \A p \in PageId :
          /\ before[p] \in {Clean, committed[p]}
          /\ dirty[p] # Clean /\ committed[p] # Absent
               => before[p] = committed[p]

(* The header says so in the same batch when a page is written that an     *)
(* older format may lack: no committed page of this build's is under an    *)
(* older stamp.                                                            *)
StampedWithFirstPage ==
    (\E p \in PageId : committed[p].kind \in {"data", "free", "zero"}) =>
       committed[HEADER_PAGE].header.stamp = "current"

-----------------------------------------------------------------------------
(* The inductive invariant behind them.                                    *)

(* The free pages one after another, as the links lead from the head: each *)
(* of them once, and nobody's page.                                        *)
IsFreeList(list, n, h, pages, used) ==
    /\ \A i, j \in 1 .. n : list[i] = list[j] => i = j
    /\ {list[i] : i \in 1 .. n} = (1 .. h.count - 1) \ used
    /\ h.head = IF n = 0 THEN NO_FREE_PAGE ELSE list[1]
    /\ \A i \in 1 .. n :
          pages[list[i]] = FreePage(IF i = n THEN NO_FREE_PAGE ELSE list[i + 1])
Linked(h, pages, used) ==
    \E n \in 0 .. MaxPages : \E list \in [1 .. n -> 1 .. h.count - 1] :
       IsFreeList(list, n, h, pages, used)

Written == {"data", "free", "zero"}
UpToDate(pages, stamp) ==
    (\E p \in PageId : pages[p].kind \in Written) => stamp = "current"

(* The committed pages by themselves: a fresh file has none; any other has *)
(* its header, and none past the end.                                      *)
FileSound ==
    LET h == InFile(committed)
    IN  /\ h \in Header /\ h.count > 0
        /\ committed[HEADER_PAGE] \in {Absent, HeaderPage(h)}
        /\ \A p \in PageId : p >= h.count => committed[p] = Absent
        /\ \A p \in PageId : committed[p] # Clean
        /\ UpToDate(committed, h.stamp)
        /\ Linked(h, committed, DOMAIN heldBefore)
        /\ DOMAIN heldBefore \subseteq 1 .. h.count - 1
        /\ \A p \in DOMAIN heldBefore : committed[p] = heldBefore[p]

(* No batch: nothing is staged, and what is held is what was committed.    *)
IdleSound ==
    ~staging => /\ header = InFile(committed) /\ held = heldBefore
                /\ dirty = None /\ before = None
                /\ ~replaces_all /\ replacement = None

(* A batch, up to now: a header that has changed is among its pages, and   *)
(* so is every page that doesn't read as committed.                        *)
BatchSound ==
    staging => /\ header_before = InFile(committed)
               /\ header.count > 0
               /\ dirty[HEADER_PAGE] \in {Clean, HeaderPage(header)}
               /\ dirty[HEADER_PAGE] = Clean => header = header_before
               /\ \A p \in PageId : p >= header.count => dirty[p] = Clean
               /\ \A p \in PageId \ {HEADER_PAGE} :
                     dirty[p] # Clean => dirty[p].kind \in Written
               /\ UpToDate(dirty, header.stamp)
               /\ ~replaces_all => /\ header.count >= header_before.count
                                   /\ header_before.stamp = "current"
                                        => header.stamp = "current"
               /\ replaces_all => /\ dirty[HEADER_PAGE] # Clean
                                  /\ header.stamp = "current"
                                  /\ replacement[HEADER_PAGE] = Absent
                                  /\ \A p \in PageId : replacement[p] # Clean
                                  /\ \A p \in PageId : p >= header.count
                                        => replacement[p] = Absent

IInv ==
    /\ TypeOK
    /\ FileSound
    /\ IdleSound
    /\ BatchSound
    /\ Linked(header, [p \in PageId |-> Current(p)], DOMAIN held)
    /\ HeldIntact
    /\ BeforeKept
=============================================================================
