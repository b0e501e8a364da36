# trunkdb in TLA+

trunkdb is an embedded document database in one file: documents in
collections, B-tree indexes, atomic batches, snapshots for readers and a
write-ahead log (WAL) of page images. This directory holds TLA+ models of its
core, the TLC configurations that check them on small instances, and proofs
that TLAPS checks for every instance.

## The system

| Part | Source (under `src/src/`) | State | Operations | What makes it hard |
|---|---|---|---|---|
| Committed pages | `storage/pages.rs`, `cache.rs`, `snapshot.rs` | the file; in memory the cache, the versions of pages, a compaction's image, counts | `read_at`, `damaged`, `commit`, `commit_replacing`, `checkpoint`, `forget` | readers go to the file without the lock while a checkpoint writes it; versions are dropped while snapshots are open; a memory limit ends snapshots |
| WAL and recovery | `durability/wal.rs`, `file.rs` (`restore_pages`, `check_restorable`) | the log's records, its length, what is flushed | `log_each`, `undo_failed_log`, `checkpoint`, `Pending::scan`, restore | crashes between any two writes, torn and lost writes, errors in the middle, crashes in the recovery |
| Database handle | `database.rs` | current snapshot, replaced ones, gate, poisoned flag | `transact`, `read`, `pin`, `checkpoint`, `open_with`, `Drop` | one writer beside readers; a compaction has to be alone; a failed log of unknown fate |
| File store | `storage/file.rs` | header, staged pages, free list | `begin`, `allocate_page`, `free_page`, `write_page`, `replace_all`, `commit_beside`, `rollback` | a rollback has to take back the free list and the page count with the pages |
| Compaction | `compact.rs`, `storage/scratch.rs` | an image in a scratch file | `compact`, `rebuild` | the file shrinks; no snapshot may be open |
| Heap of documents | `data.rs`, `free_space.rs`, `storage/slotted.rs` | slotted pages, overflow chains, the current page, the map of pages with room | insert, update, delete, read, rebuild | cells that grow, move and are packed; chains that are freed once; a map in memory that has to say what the pages say |
| Indexes | `index/btree.rs`, `branch.rs`, `leaf.rs` | B-tree pages | insert, remove, ranges, counts | splits up to the root, key order |
| Index keys | `index/key.rs` | none | encode, decode, ranges of keys | keys that are cut or rounded stand for several values |
| Collections | `collection.rs`, `batch.rs`, `catalog.rs` | catalog, documents, entries | `apply_write_op`, upserts, changes by filter, unique checks, index builds | documents and entries change together or not at all; a value moves between documents of a unique index; operations of a batch read what those before them left |
| Reports | `changes.rs`, `live.rs` | subscribers, live queries, what a batch changed | `written`, `finish`, `check` | order of commits, several changes of one document in a batch |
| Queries | `query.rs`, `select.rs`, `path.rs`, `query_text.rs` | none | plan, walk, decide, answer | an index must give what a scan gives, in every order, page and selection, though its keys are inexact and its entries decide for documents nobody reads |
| Updates | `update.rs` | none | check, apply, start of an upsert | operators in a row, kinds that change, overflow |
| Aggregates | `aggregate.rs` | groups under way | check, group, finish | from entries, or a leaf at once, the rows that documents would give |
| Integrity check | `check.rs` | none | `check_collection`, the scan of pages | entries are counted, not listed, so that two damages may hide each other |

The writer holds one lock for a whole batch. Readers take the current snapshot
(a commit number and a catalog) and share the pages in memory with the writer
behind a lock that is held only for lookups and for publishing. Batches go to
the WAL, are published in memory, and reach the main file later in a
checkpoint; an open restores from the WAL what no checkpoint has written.

## Modules

`Versions`: the versions of one page kept in memory. A chain is a set of
versions of distinct commits; a page's bytes are the number of the commit that
wrote them. `Prune`, `Forget`, `ReadableAt`, `MarkWritten` are the functions
`prune`, `Memory::forget`, the lookup of `read_at` and the end of `checkpoint`.

`Pages` (extends `Versions`): `Memory`, the file, one writer and any number of
readers. Every block of code that holds the lock is one action; a file read is
one (`ReadFile`), and a page's write by a checkpoint two (`WriteBegin`,
`WriteEnd`), between which the page is torn to whoever reads it. `Commit` is
the publishing step of `transact` with `Pages::commit`, limit included;
`CompactBegin`, `CompactFails`, `CommitReplacing` are a compaction with its
gate; `CheckpointBegin` ... `CheckpointForget` a checkpoint, which may fail at
any step. `Open` and `Close` are a reader that takes and drops a snapshot, with
the gate (`read`) or without (`pin`). `history` and `reply` are history
variables: what every commit left, and what the last step returned.

`Durability`: the bytes on disk. `now` and `wal` are the main file and the WAL
as the OS shows them, `maybe` and `walMaybe` what a power failure may leave of
them: of the writes since the last flush, any may be lost, kept or torn, page
by page. A batch is any set of pages, with the header when it makes the file
longer; it is logged record by record (`LogWrite`, `LogSync`), taken back when
that fails (`UndoCut`, `UndoSync`), and written back by a checkpoint
(`CheckpointBegin`, `WritePage`, `CutFile`, `SyncFile`, `EmptyWal`, `SyncWal`).
`Open` reads the WAL, checks it and starts the restore, which shares the
actions of the checkpoint. Every I/O call may fail (`LogFails`, `FileFails`,
`WalFails`, `UndoFails`). `Close` and `ClosePoisoned` are the drop of the last
handle; `Kill` and `PowerFailure` end the process. `Failures` and `Mixed` say in
which of these two ways it goes down, and whether in one or in both.

`AtomicStore`: what `Durability` promises, as a specification of its own: the
database is a value that batches replace whole.

`FileStore`: the writer's side of the page store. The header, the free list
linked through the free pages, and a batch's staging are the code's own fields;
the layers above are what they hold (`held`). `Begin`, `AllocateFree`,
`AllocateNew`, `WritePage`, `ChangePage`, `Free`, `StampFormat`, `ReplaceAll`,
`Commit`, `Rollback` are the methods of the store, `Reopen` a process that ends
and starts again from what is committed.

`Changes`: a batch as its writes on documents, the `ChangeLog` that keeps the
net effect of them, the report after the commit, and subscribers that read late
and keep a copy of the database from what they are told.

`LiveQueries` (extends `Changes`): the watchers of `live.rs`, checked inside the
commit before the report goes out (`CheckLive`). `ChangedAll` of a filter, `Reorder`
of a window (`NewList`, then `Leave`, then `PutAll`) and `Rerun` of an aggregate
follow the functions that turn a batch's changes into events; `Apply` is the reader,
`Views` what it has after each event.

`BTree`: an index as its pages. `Inserted` follows `insert` from the leaf up
(`InsertIntoLeaf`, `InsertIntoBranch`, `GrowNewRoot`), `Forward` and `Backward`
are the two ways of `Walk`, `CountAtMost`, `Reached`, `Push` are
`count_at_most`, `pages` and `SortedBuild::push`. A key is a number with a
length; pages split by bytes, as in the code. `Fill` is one insert of a
compaction's rebuild; the indexes of `Init` are made by inserts too, some by the
removals of an older version, which left tombstones. The loops are functions of
the number of turns (`Probe` is one turn of the binary search). The recursion of
`insert_into` becomes the path down and the loop back up it.

`Slotted`: a slotted page as its bytes and its directory. A byte is whatever
its owner says, so that bytes moved wrongly read as something else.
`InsertCellReusingSlot`, `UpdateCell` with `GrowCell`, `CompactKeeping` (the
`copy_within` of cells that overlap their own places, highest first),
`DeleteCell`, `CheckLayout`, `OverlappingCells` are the page's methods.

`Heap` (extends `Slotted`): a collection's data pages, overflow chains, its
current page and its free-space map. `InsertRecord`, `UpdateRecord`,
`DeleteRecord`, `DropCollection`, `PlaceInHeap`, `RetireCurrent`, `NoteRoom`,
`Rebuilt` follow the functions of `data.rs` and `free_space.rs`, `Push` is
`PackedBuild`, which counts a compaction's pages. `Insert`, `Update`, `Delete`,
`Drop` are batches of one operation; `FailedBatch` makes two writes and is rolled
back with its map, `Reopen` makes the map again, `Compact` packs all pages.

The queries are pure functions, one module a step:

- `Values`: values as tuples with their kind, paths with fan-outs, comparison,
  and the order a sort uses. Strings are bytes; a float is a count of halves.
- `Keys` (extends `Values`): `index/key.rs` by its bytes: tags, biased numbers,
  escapes, the cut at the budget, `ExactLimit` for 2^53, the decoding and what is
  exact, and the ranges of keys of a comparison.
- `Filters`: what a filter matches, and its sort, page and selection.
- `Planner`: ids, ranges, unions of them, walks in index order, merges by id, and
  how one is chosen, with hints.
- `Deciders`: what an entry decides of a filter, and for how many entries.
- `Finds`: `find_in` and every walk under it, with the leaves of an index;
  `count_matches`, `any_match_in`, `only_match`.
- `Updates`: each operator of an update, what is refused, the start of an upsert.
- `Aggregates`: `aggregate_in` from documents and from entries, groups, columns,
  windows, unwinding, rows.
- `Documents`: the keys and unique values of a document, and the reference: what a
  find, an aggregate give by definition, with every document read.
- `IntegrityCheck`: `check_collection` and `check_index`, on a file that may hold
  any of a set of damages, and the reference `SoundFile`.

`Collections`: a collection and its calls. A call begins on a staged copy, makes
its operations one at a time (`Insert`, `Update`, `Delete`, `Fields`, `Require`,
`UpdateMany`, `Change`, `DeleteMany`, `Upsert`, `UpsertFields`, `EnsureIndex`,
`DropIndex`, `Drop`) and ends as a commit, an error or a dry run (`End`, `Fail`).
`SecondaryAfter` is `update_secondary_indexes`, with the entries an unmoved
document keeps; `BreaksUnique` the unique check through the key's part. What a
key, a filter or an update is are parameters: the module says what the writes
do with any of them, and has no recursion.

`DocumentSet`: what `Collections` promises: documents by id, indexes declared,
calls whole or not at all; unique means equal values, and a filter's call goes to
the documents that match. There are no locations, keys or entries.

`Collections` maps itself to `DocumentSet` (`ImplementsDocuments`): its documents
without their places, its indexes without their trees. `CollectionReads` composes
`Collections` with the query modules as its parameters, and states what reads give
between two calls and inside one (`FindsRight` includes `ReadsRight`: the answer
an operation gets to its filter in the middle of a call). The reads are parameters
too (`FindBy`, `CountBy`, ...), bound in `MCCollections`: TLC expands a definition
at each use, and these are deep.

`MCPages`, `MCDurability`, `MCFileStore`, `MCChanges`, `MCLiveQueries`, `MCBTree`,
`MCHeap`, `MCCollections`: instances for TLC. `Pages_proofs`,
`Durability_proofs`, `FileStore_proofs`, `Heap_proofs` (those of `Slotted` and of
`Heap`, which extends it), `LiveQueries_proofs` (likewise `Changes`), `BTree_proofs`,
`Collections_proofs`: the theorems.
`Induction_proofs`: induction over numbers, in the form the provers take.

## What makes each part correct

| Part | Properties |
|---|---|
| Committed pages | a read gives its snapshot's page or says it was ended (`SnapshotReads`, `TooOldOnlyIfEnded`); a check reports no damage that is not there (`ChecksSound`); a compaction is alone (`CompactsAlone`); nothing waiting means the file is current (`FileIsCurrent`); the counts are exact (`CountsAgree`); memory stays in its limit, and snapshots end for nothing else (`OlderWithinLimit`, `EndsOnlyForRoom`); reads return (`ReadsReturn`) |
| WAL and recovery | file and WAL recover to the last commit, or the batch in doubt, whole (`Recoverable`); batches are atomic (`StoreSpec`); only the tail is ever torn (`OnlyTailTorn`); recovery refuses a WAL only in the cases that the findings describe (`RefusesOnlyAfterHeaderWrite`) |
| File store | the free list holds exactly what nobody holds (`FreeListSound`); nobody's page is touched (`HeldIntact`); a commit is complete (`CommittedWhole`); `before` is the last commit's page (`BeforeKept`); the header's stamp comes with the first page that needs it (`StampedWithFirstPage`) |
| Reports | a report is the batch's net effect (`NetEffect`); a copy kept from the reports is the database (`CopiesCurrent`) |
| Live queries | each event fits what those before it leave, and an error is the last (`EventsFit`); read to the end they give the query's result (`ViewsFollow`) |
| Heap | every record reads as last written, at its location (`RecordsRead`); each page is a chain's, or a data page with a document in it, or free, and a failed batch, a move or a drop leaks and doubles none (`HeapWhole`); the cells of a page lie apart and within it (`SlotsSound`); the map gives pages of the collection only, never the current one, each with exactly the room it has (`FreeSpaceRight`); a compaction makes the pages it counted (`PackedCounted`) |
| Collections | the entries of every index are those of the documents, in the staged copy after each operation and in the collection (`EntriesMatchDocs`); each operation does to the documents what it does to a set of them without indexes, unique or filtered or failing or dry (`ImplementsDocuments`) |
| Queries | a find, by whatever plan, hands out the documents that match, in order, cut to page and selection (`FindsRight`); counts and `any` agree with it (`CountsAgree`) |
| Aggregates | rows from entries, leaves or documents are those of the groups (`AggregatesRight`) |
| Integrity check | a problem is reported exactly where the file is not sound, and names what is damaged (`CheckFindsDamage`) |
| Indexes | lookups, walks and counts are those of the set of keys (`LookupsRight`, `WalksRight`, `CountsRight`); every allocated page is in the tree once, all leaves equally deep (`TreeIsWhole`); each half of a split fits (`PagesSound`); the count of a compaction's pages is what it builds (`CompactionCounted`) |

Every one of them has a mutant in `PROJECT.json`: a definition changed as a
plausible bug would change it, and the property then fails.

## Runs and bounds

| Run | Instance | Shows |
|---|---|---|
| `pages` | 2 readers, 2 commits, 2 pages, 1 checkpoint or compaction and the checkpoint of its image, a limit of 1 version, a cache of 1 page | all of Pages but the liveness |
| `pages_retry` | 1 reader, 2 commits, 3 pages, 3 checkpoints or compactions and a fourth for an image | that the file is current (`FileIsCurrent`) once a checkpoint that failed is made again, and that reads return (`ReadsReturn`) beside them |
| `durability` | a file of 3 pages or none, 2 batches, records of 2 pages, 2 faults | all of Durability, and that it implements AtomicStore |
| `filestore` | a fresh file or an older one of 3 pages with any stamp, up to 4 pages, 2 values | all of FileStore |
| `changes` | 2 collections, 2 ids, 2 values, 1 subscriber, 2 batches of 2 writes | all of Changes |
| `live_queries` | 3 documents, 3 values of which 2 match, a limit of 2, a `having` of 2, 2 batches of 2 writes from none or all of the documents in order, one kind watched at a time | all of LiveQueries |
| `btree` | trees of up to 20 keys and 3 levels in at most 16 pages, 5 keys used, pages of 4 to 7 cells, 2 sets of lengths | all of BTree |
| `heap` | 4 documents of 4 sizes (1, 6, 13, 16 bytes), pages of 18 bytes, up to 7 of them, chains of 12 bytes a page, 4 batches from 3 populations | all of Heap |
| `collections` | 8 populations of 3 or 4 documents under 5 sets of indexes, 1 call of 35 after them; about 300 filters and 60 pairs of a filter and an aggregate on each population, 10 and 2 after a call; every damage, and every two, to an index, and damages to the documents | all of Collections and of the query modules, and that it implements DocumentSet |
| `torn_header`, `replay_after_compaction`, `unflushed_record` | 1 or 2 batches, 1 or 2 faults | the findings below |

The bounds are where the cases happen. Two readers and two commits are what it
takes for a version between two snapshots, for a reader that crosses a commit
and a checkpoint, and for a limit that ends one of two. Two batches and two
faults put the same page, or two headers, in the WAL, with a crash in the
recovery from a crash; records of two pages make a batch of three pages two
records. Four pages make a free list of two that a batch can take from, and add
to, before it rolls back. A full branch above full leaves makes the next insert
split the root; removals empty whole leaves at either end and in between. `btree`
has no bound on the number of operations: its state space is finite. An insert
waits until there is room for every page on its way to split (`RoomFor`), where a
file of the code grows.

In `heap` a page takes two to five cells, so that it fills, empties and gets
packed within four batches; the sizes are one that always finds room, half a
page, exactly a page, and one that needs a chain of two. The room a page must
have to be in the map (`MinRoom`) and the room it may keep (`MinRoomToStay`)
differ by a byte, as they differ in the code, so that pages are between them. The
starts have what four batches would not reach: pages with room behind the current
one, and a chain.

In `collections` the values sit on the boundaries of the keys: 4 and 5 share a
key as integers above 2^53 do, 4 and 4.0 are equal, two long strings are cut to
the same bytes, arrays are empty, of one and of several values, fields are
missing, of another kind, NaN or under a path that ends early. Leaves hold three
entries, so that a decision on a whole leaf meets leaves that agree and leaves
that do not. One call is enough for what a call does: it may hold several
operations, which is where one sees what another left, and the starts are every
combination of documents and indexes. A start is itself a call, and its states
between operations are checked too. Damages come in twos because one missing
entry and one too many is what a count does not see.

In `durability` a database goes down by kills or by power failures, not by one
after the other: `unflushed_record` shows what the mix does. An I/O error in
the log of an open counts as a kill: the record is there and was never flushed.

Symmetry is declared for the two readers of Pages, for the values of FileStore and
for collections, ids and values of Changes: nothing orders them there, and those
runs check no liveness.
Deadlock is checked except in `durability` and the runs of the findings,
`heap` and `collections`, where the bounds on batches, faults, steps and calls
let the model stop.

## Fairness

`Pages!FairSpec`: a reader in the middle of a read takes its next step. It is a
thread of its own that waits for nothing but the lock, which is held for lookups
and for publishing only. Nothing is assumed of the writer, so `ReadsReturn` holds
though the writer may stop in the middle of a checkpoint. Bounded epochs bound
the checkpoints that can begin under a reader, so that it looks again a bounded
number of times; in the code it may look again with each checkpoint.

## Findings

Three places where the code does not do what a comment of it says; each has a
run in which TLC finds the counterexample.

- `torn_header` (`TornHeaderRestored`): a WAL whose first batch does not write
  the header and whose second one does; the checkpoint's write of the header is
  torn by a power failure. `check_restorable` (file.rs:849) takes the torn header
  for none and refuses the first image, though the WAL holds every page.
- `replay_after_compaction` (`ReplayHarmless`): a batch that writes one of the
  last pages, then a compaction that makes the file shorter, both in the WAL; the
  process ends between the write of the smaller header and the WAL's emptying. The
  next open (file.rs:869) refuses the earlier batch's page as past the end.
- `unflushed_record` (`Recoverable`): a process killed after a record's write and
  before its flush; the next open restores the record (database.rs:466) without
  flushing the WAL, and a power failure during that may keep some of the pages
  and lose the record.

A third case in which recovery refuses a WAL takes a file of more pages than the
runs have, and came up in the attempt to prove that there are only two: a batch
makes the file longer, a compaction makes it much shorter, both are in the WAL, and
a power failure in the checkpoint keeps the cut and loses the write of the header.
The file is then shorter than its header says, and the first batch's header counts
more pages than the file has and the WAL holds; `check_restorable` says that "no
header there" does. `RefusesOnlyAfterHeaderWrite` allows for it.

Two comments are wrong without a consequence, and are only noted here. A
compaction's rebuild says that no page is left with room behind (compact.rs:94):
a page left for a document that did not fit has room, and the map that is filled
with it is dropped, while the map of the rebuilt file is made when it is next
loaded. The indexes of a collection are said to be in the order they were made
(catalog.rs:188, collection.rs:388): after an open they are in the order of the
catalog's cells, where one made later may have taken the slot of one dropped.

## Proofs

The theorems hold for every value of the constants that the named assumptions
(`PagesAssumption`, `FileStoreAssumption`, ...) allow: numbers, a file that has
a first page, sets that are what they are called. TLC evaluates the assumptions in
the runs.

`Pages_proofs` proves, for any number of readers, pages and commits and any
limit, that `Spec` implies `IInv`, `TypeOK`, `SnapshotReads`,
`TooOldOnlyIfEnded`, `ChecksSound`, `CompactsAlone`, `FileIsCurrent`,
`CountsAgree` and `OlderWithinLimit`, always, and the action property
`EndsOnlyForRoom`.

None of the first is inductive. `SnapshotReads` speaks of the replies only: to show
that the next reply is right, one has to know where the page is, for each
snapshot that may still read it. `IInv` says so:

- `PagesRight`: for every open snapshot, the version that its reads find, or the
  image, or the file, is the page as the snapshot's commit left it;
- `HeldKnown`: every snapshot held is the current one or among those the writer
  knows, so that `Prune` and `Forget` keep what it reads;
- `ChainsSound`, `WrittenRight`, `CacheRight`, `ImageRight`: the versions, the
  cache, an image that waits, and the file agree;
- `CheckpointRight`: how far the writes of a checkpoint are, and that what is
  written is what was waiting;
- `ReaderRight`: as long as no checkpoint has begun since the reader looked, the
  page it reads without the lock is not one being written, and is its own.

There is one lemma per action (`ReadAtStep`, `ReadDoneStep`, `CommitStep`, ...),
and the facts on chains that several of them need come first:
what `Prune`, `Forget` and `MarkWritten` keep (`PruneKeepsRead`, `ForgetKeeps`,
`MarkKeeps`, ...).

The counts are proved on top of `IInv`: `CountsAgree` and `OlderWithinLimit` are
inductive once a chain is known to hold one version per commit, which makes the
older versions finitely many (`OlderFinite`). A commit subtracts what the
changed pages kept and adds what they keep now, which is the whole count as the two parts are
disjoint (`OlderSplit`); a page waits after it if it was changed or waited before
(`CommitUnwritten`); a mark changes no older version (`MarkOlder`); and with no
snapshot left `forget` keeps none (`ForgetOlder`), so that the limit's loop always
gets there. `EndsOnlyForRoom` needs besides that a changed page gains at most one
older version (`OneMoreEach`).

`Durability_proofs` proves `TypeOK`, `Recoverable`, `OnlyTailTorn`,
`RefusesOnlyAfterHeaderWrite` and `StoreSpec` (batches are atomic and durable as
`AtomicStore` says), for files and logs of any size, records of any number of pages, and any number of crashes and errors. The
hypothesis is `OneWay`: the database goes down by kills or by power failures, not
by both. It is needed: without it `Recoverable` is false (`unflushed_record`).

`Recoverable` speaks of one crash. What is inductive is a fact on everything a crash
may leave (`Left`: of each page, `LeftWals`: of the log): after a kill that is the
files as they are, before a power failure it is what `maybe` and `walMaybe` allow. A
log's images *give* a database over what is left (`Gives`) if each of its pages has
its newest image in the log, or has no image and is sure in the file. `IInv` says:

- `Recovers`: every log that may be left gives the last commit or the batch in
  doubt, and outside of a log all of them the same one, which is what the writes
  still to be made turn the file into (`Reaches`);
- `WalSound`, `WaitingSound`: while the database is up, the log before the batch
  under way gives the last commit, every page that waits to be written back has an
  image in it, and every page that does not is sure in the file;
- `LogSound`: how far the batch under way is logged, so that its last record makes
  the log give the batch whole, and no record before it changes anything;
- `Settles`, `TodoSound`, `StepSound`: which log can be left at each step, that only
  pages with an image are ever written, and what waits when.

`GivesRecovered` turns `Gives` into what recovery finds, with `Overlay` and the
header's count as the code has them. A write to a page that has an image changes
nothing of what is given (`PageChanged`), which is the reason why a crash in the
middle of a checkpoint, or of a recovery, does no harm. There is one lemma per action.

`RefusesOnlyAfterHeaderWrite` needs one thing more (`ChainInv`): that the counts in a
log's headers follow from one another. From whatever header may be left in the file,
unless it is torn or one of the log's own, each image lies within what the header
before it counts, and every page that a header counts beyond the first has an image
(`ChainFrom`); the batch under way goes on from there because its first header is
the last commit's (`ChainedLog`). `Accepted` then shows that `check_restorable` accepts
such a log, if the file is not shorter than its header says.

`FileStore_proofs` proves `TypeOK`, `FreeListSound`, `HeldIntact`,
`CommittedWhole`, `BeforeKept` and `StampedWithFirstPage`, for any number of pages
and any users. `FreeListSound` is about a walk; what is inductive is that there
*is* a list (`Linked`) of exactly the pages nobody holds, each once, linked from
the header's head to the end. The walk meets that list and nothing else
(`LinkedIsSound`, by induction on the places of the list), and each operation on
the free list makes the new list from the old one: its tail, or one more in front.
`IInv` says so of the pages as the batch sees them and of those committed
(`FileSound`), so that a rollback and a commit each find theirs, and relates the
two (`BatchSound`: what reads otherwise than committed is staged, a header that
changed with it).

`Heap_proofs` begins with single pages, of any size, with any cells of any bytes.
Each of `InsertCell`, `InsertCellReusingSlot`, `UpdateCell`, `DeleteCell` and
`CompactKeeping`, wherever the code says it can be done, takes a page that is sound
(`PageSound`: within its layout, cells that share no byte, nothing of a deleted cell
in the gap; `SlotsSound` checks it of the heap's pages) to a sound page on which
the cell reads as written and every other one as before (`OthersKept`).

- `grow_cell` (`GrowKeeps`): one `copy_within` takes all cells below along with their
  slots, and the new cell then overwrites none of them.
- `compact_keeping`: after each turn of its loop (`Packing`) the cells moved fill the
  end of the page, the others have their bytes still, and end at or below where the
  moved ones begin (`MoveKeeps`). This holds because the next cell is always the
  highest left, so the sort is proved too (`OrderRight`, from the ranks of a finite
  set). The bytes the moved cells take are a sum along the directory, which gives
  that all of `ReclaimableSpace` is free at the end, and so that an operation which
  packs the page first finds the room it counted on.

Of the heap it proves `RecordsRead`, `HeapWhole`, `SlotsSound` and
`FreeSpaceRight`, for pages, chains' pages and documents of any
sizes and any number of each. What the code counts on is that a location is a live
slot and that a chain has one owner; `HeapInv` says so:

- `AllHeld`: each document's cell is in a live slot at its location, and the chain
  its cell points to is linked in order, each page with its share of the document
  and the last one zeroed past it (`IsChain`);
- `Apart`, `ChainsOwned`, `CellsOwned`, `NoneEmpty`: no two documents share a
  place or a page of a chain; every live cell and every overflow page is some
  document's; no data page but the current one is empty;
- `RoomsRight`, `CurrentRight`: the map and the current page.

An operation breaks this on its way, so `Body` is stated with what may stick out:
a cell with no document (`loose`), a chain with no cell (`extra`), pages that may be
empty (`ok`). An update makes its document's cell loose and its chain extra
(`BodyForget`), frees the chain (`BodyFreed`), writes a new one, perhaps to the same
pages (`CellWritten`), and then puts the cell back into its slot (`UpdateInPlace`)
or deletes it, drops its page if that leaves it empty (`WriteOrFreeKeeps`) and
places it elsewhere (`PlaceKeeps`). That a chain reads back is an induction along the
walk (`WalkStep`, `WalkRight`): after i pages the walk has the first i shares of the
bytes. Each use of a slotted page rests on the theorem on it.
`Rebuilt` inserts one document after another (`BuiltNext`), in the order of ids,
each once (`InOrderRight`). Hypotheses on the constants are in `HeapAssumption`
(an overflow cell fits on an empty page, as OVERFLOW_CELL_LEN does) and `StartsFit` (the
documents of `Init` fit within the bound on pages); the guard `fits` of `Compact`
and `RoomFor` of the writes are the same bound, as a file of the code has no last page.

`BTree_proofs` proves `LookupsRight`, `PagesSound`, `TreeIsWhole`, `WalksRight` and
`CountsRight`, for any keys of any lengths, pages of any size and trees of any
depth. None is inductive: each page may be sound by itself and the tree still send a key the wrong way. `BTreeInv`
says that there are, for the pages, a level each (0 for a free page, 1 for a leaf)
and a set of numbers each, the keys that belong below it, such that (`Whole`):

- the root's set is all numbers, and a branch parts its set among its children
  by its separators (`Place`), which are one level below it (`BranchSound`);
- a leaf's keys are in its set (`LeafSound`), the sets of pages of one level are
  disjoint (`Apart`), and none is empty, so that every page is reached;
- the live cells of the leaves hold exactly the entries (`Holds`), cells are in
  order, and each page's cells fit;
- a leaf's set is a range of numbers, and `next` the leaf whose set has the number
  after them, or none if there is no such number (`Linked`).

The sets have no end, so this one is not a run's invariant; its consequences are. A
way down then ends in the one leaf whose set has the key (`PathRight`), and the
binary search over live slots and tombstones finds it there if it is anywhere
(`FirstSlotRight`).

An insert breaks the invariant on its way up: between a split and the cell in the
parent, the parent routes to the left page what now belongs to two. `Outer` gives
the split page both sets, and `Tree` is stated with that page and its right half; each
turn of the loop in `Inserted` either ends with no page split (`LeafInserted`,
`BranchInserted`) or with the next one, up to a new root (`TreeGrown`). That a branch
split in the middle hands each child on with its set is `BranchHalves`.
`HalvesFit` is the sum behind `byte_midpoint`: if the cells without the new one fit
and none takes more than a quarter of a page, both halves fit. `TreeIsWhole` is an
induction along `pages` (`Reaching`): the pages handed out and those pending are
apart, each but the root the child of one handed out, and no child of those is
missing; at the end nothing is pending, and every page of the tree has been reached,
as each has a key and the way down to that key passes it (`AllReached`).

A walk forward is followed link by link (`WalkOn`): the leaves so far have rising
sets, so that none comes twice and there are at most as many as pages, and between them
they leave out no number from the walk's start to the last one's end; the last leaf has no
link, so that nothing is left (`LeavesFromRight`). Backward there is no link: the turns
taken in the branches above (`Trail`) say where a leaf is, and the last leaf below the
child before the nearest turn that was not the first is the one whose keys come right
before (`PreviousRight`), as nothing lies between the first children passed on the
way up (`Leftmost`) nor after the last ones passed on the way down (`Down`). What
such leaves hold, put together, are the range's keys in order (`JoinedLists`), and a
sequence in order is the one of its set (`AscendingIs`); a count is the sum of
what is in each leaf's set (`CountedIn`), short of the whole only if a leaf it did
not enter has a key (`CountAtMostRight`).

Hypotheses on the constants are in
`BTreeAssumption`; each holds of the code's numbers.

`LiveQueries_proofs` proves of `Changes` `TypeOK`, `NetEffect` and `CopiesCurrent`,
for any documents and subscribers and batches of any length. `NetEffect` is about the
report; what is inductive is the log it is made from (`LogSound`: one entry per
document, right about before and after, one for each document that differs, a
drop as the last write). What `retain` and the report's `filter_map` leave of a
log is proved by induction on its places.

Of `LiveQueries` it proves `EventsFit` and `ViewsFollow`, for any filter, limit and
`having`, batches of any length and commits that end some of the queries with an
error at any of their changes. Both speak of the reader, and neither is
inductive; `LiveInv` adds:

- `KeptRight`: what the writer keeps of a query is what a start would give now, on
  the documents of the last commit that was reported (`Known`);
- `EventsRight`: the events not read yet lead from what the reader has to the
  result on those documents, each fitting what those before it leave;
- `WatchRecorded`, `DropsNamed`: a commit that somebody watches is recorded, and only
  a drop of a collection comes without an id;
- `IInv` of `Changes`, so that a report says exactly which documents differ
  (`ReportGives`).

Each commit then has to lead from the old result to the new one (`CheckLeads`):

- a filter goes through the changes one by one; after each it holds the documents
  changed so far as they are now and the others as they were (`ChangedTold`);
- an aggregate's rows that left, and those that came or changed, make the new rows
  out of the old ones (`RerunLeads`);
- a window: a list without doubles in order is *the* list of its documents
  (`InOrder`, `OneInOrder`), so a place in it is the number of those before. The list
  made from what is known is the query read anew (`NewListFinds`): what a
  full list left out comes after its last. Those that left go, each from
  its place once those before it are gone (`LeaveLeads`). Then, document by document
  of the new list, the list halfway is in order by what each one holds, a written one
  its old value until it is moved (`PutOn`, `PutAllLeads`), which is what the
  code's `partition_point` counts on.

Hypothesis on the constants: `Id` is finite, as an id of a document has a fixed number of bytes.

`Collections_proofs` proves, for any calls, documents, indexes and filters:

- `EntriesMatchDocs`: after each operation of each call, in the staged copy and in
  the collection, every index holds the keys of the documents and no others. The
  invariant adds `OwnTrees`, as an entry put into one index must not show in
  another. Hypothesis `KeysLeadBack`: `key::doc_id` gives the id a key was made
  with, which is how `key.rs` ends every key.
- `UniquesHold`: no two documents have values that a unique index finds equal.
  `BreaksUnique` looks only at values the document did not hold before, through the
  entries under a key's part, so this needs the entries to be right first.
  Hypothesis `TuplesKeyed`: comparing values is an equivalence, and equal values
  are found under the same part of a key, as `key.rs` makes keys of a number's value
  and not of its kind.
- `ImplementsDocuments`: each operation does to the documents what it does to a
  plain set of them. Its further hypothesis is `ReadsRight`, that filters are
  answered right, which the run checks with the real planner and walks
  (`FindsRight`).

The hypotheses are about functions of the query modules, which are parameters of
`Collections`; `MCCollections` has TLC evaluate them for the documents, indexes
and values of its instance (`KeysLeadBackHere`, `TuplesKeyedHere`).

Induction over data goes through `NatInd` of `Induction_proofs`, which takes a
set in place of a predicate: a fact on a sequence is shown for its places up to n.
A definition by recursion on numbers (`Moved`, `SumTo`) is unfolded with `LoopExists`:
the function it defines is there, which its CHOOSE does not say.

Only model-checked:

- liveness (`ReadsReturn`), as fairness is out of the prover's reach;
- `CompactionCounted`: a count without pages compared with the pages that inserts
  in order make;
- `PackedCounted`: two loops over the same documents, compared page by page;
- the query modules: most of their definitions are recursive on values and
  filters, and a recursive operator is out of the prover's reach.

## Not modelled

Left out because there is no state to get wrong beyond input and output: the
command line, export and import, the query text's parser, byte formats of
documents, the serde bridge, statistics.

In the modelled parts:

- storage: the WAL's version 2, which is read and never written; read-only
  opens; writes of the store outside a batch; the errors that a damaged file
  gives; a key's document location in an index; `insert_cell_at` and
  `remove_cell_at` by bytes (index pages are cells with lengths in `BTree`).
- catalog: its own pages and cells, the names of collections and the limits of
  lengths. What it says of a collection is in Collections, Heap and BTree.
- writes: a value that is no object (`NotAnObject`), which a document of the models
  cannot be; whether a drop in `Collections` finds an empty collection or none.
- queries: regular expressions, closures as conditions, sorts by a closure, the
  report of `explain` with its alternatives, cursors and their batches. A float
  is a count of halves, rounded only above `ExactLimit` and on the positive side,
  so that no key of a negative number is inexact. Numbers that overflow a float
  do not occur.
- aggregates: a sum is a number; the limbs the code keeps it in, so that the
  order of additions does not show, are not modelled.
- integrity check: which structure owns which page, pages that cannot be read
  but for a document's, keys that do not decode. A document in the heap that no
  primary entry names is reported by nothing, and `CheckFindsDamage` does not ask
  for it.

The map covers a small share of the source's lines, for a reason: more than half
of them are the inline tests of each file, and of the rest a large part is
the benches, the fuzz targets, the command line, the text parser, encodings and
the doc comments of public types, none of which a model has anything to say of.

## Plan

What is left for proofs is `CompactionCounted` and `PackedCounted`: that the pages
counted beforehand are those built, an induction on two loops at once; and, for the
models, the catalog's own pages and cursors in batches.
