------------------------------ MODULE Changes ------------------------------
(***************************************************************************)
(* Change reports: what a batch did to each document (`ChangeLog` of       *)
(* src/changes.rs), recorded as it runs (src/catalog.rs,                   *)
(* `apply_write_op` of src/collection.rs), and sent to the subscribers     *)
(* once it is committed (`transact`, `report` of src/database.rs).         *)
(*                                                                         *)
(* A batch is seen as its writes on the documents by id.  A subscriber     *)
(* reads its reports when it likes, and for each document one names it     *)
(* reads what is committed just then: it keeps a copy of the database.     *)
(***************************************************************************)
EXTENDS Integers, Sequences, FiniteSets

CONSTANTS
    Collection, Id, Value,
    NoDoc, NoId,   \* no document, no id: `None`
    Subscriber,
    MaxOps,        \* bound: writes of a batch
    MaxCommits     \* bound: batches begun

ASSUME ChangesAssumption ==
    /\ NoDoc \notin Value /\ NoId \notin Id /\ NoId \notin Collection
    /\ MaxOps \in Nat \ {0}
    /\ MaxCommits \in Nat

Key == Collection \X Id
NotRecorded == << [collection |-> NoId, id |-> NoId,
                   existed |-> FALSE, exists |-> FALSE] >>

VARIABLES
    catalog, docs,          \* as committed: the collections, each document
    wpc,                    \* the writer: "idle", "batch", "report"
    staged, stagedDocs,     \* as the batch has them
    log,                    \* `Catalog::changes`, a `ChangeLog`'s entries
    ops, commits,           \* counts for the bounds
    changes,                \* what the commit reports
    before,                 \* the documents before it, for the properties
    subscribers,            \* `Writer::subscribers`, by who listens
    listening,              \* whose `Changes` hasn't been dropped
    queue, copy             \* its reports unread, and its copy

writer == <<wpc, staged, stagedDocs, log, ops, changes>>
channels == <<subscribers, listening, queue, copy>>
changesVars == <<catalog, docs, writer, commits, before, channels>>

-----------------------------------------------------------------------------
(* The change log.                                                         *)

Entry(c, id, existed, exists) ==
    [collection |-> c, id |-> id, existed |-> existed, exists |-> exists]

(* Mutant of Written: only a document's first write is noted.              *)
WrittenOnce(entries, c, id, inserts, exists) ==
    IF \E i \in DOMAIN entries :
          entries[i].collection = c /\ entries[i].id = id
    THEN entries
    ELSE Append(entries, Entry(c, id, ~inserts, exists))

(* `written`: a document's entry, made by its first write, which says      *)
(* whether it was there before.                                            *)
Written(entries, c, id, inserts, exists) ==
    LET at == {i \in DOMAIN entries :
                 entries[i].collection = c /\ entries[i].id = id}
    IN  IF at # {}
        THEN [i \in DOMAIN entries |->
                IF i \in at THEN [entries[i] EXCEPT !.exists = exists]
                ELSE entries[i]]
        ELSE Append(entries, Entry(c, id, ~inserts, exists))

(* What `retain` and `filter_map` leave: the entries at the places `at`, in *)
(* their order.                                                            *)
Only(entries, at) ==
    LET upTo[n \in 0 .. Len(entries)] ==
          IF n = 0 THEN <<>>
          ELSE IF n \in at THEN Append(upTo[n - 1], entries[n])
          ELSE upTo[n - 1]
    IN  upTo[Len(entries)]

(* `dropped`.                                                              *)
Dropped(entries, c) ==
    Append(Only(entries, {i \in DOMAIN entries : entries[i].collection # c}),
           Entry(c, NoId, TRUE, FALSE))

(* What is reported of a document, by whether it was there before and      *)
(* after the batch.                                                        *)
Kind(e) ==
    IF e.id = NoId THEN "Dropped"
    ELSE CASE ~e.existed /\ e.exists  -> "Inserted"
           [] e.existed /\ e.exists   -> "Updated"
           [] e.existed /\ ~e.exists  -> "Deleted"
           [] OTHER                   -> "None"
Change(e) == [kind |-> Kind(e), collection |-> e.collection, id |-> e.id]

(* `finish`: each document once, in the order first touched, those it left *)
(* as they were left out.                                                  *)
Finish(entries) ==
    LET kept == Only(entries, {i \in DOMAIN entries :
                                 Kind(entries[i]) # "None"})
    IN  [i \in DOMAIN kept |-> Change(kept[i])]

-----------------------------------------------------------------------------
Empty == [k \in Key |-> NoDoc]

(* A database opened: whatever documents an earlier session left.          *)
Init ==
    /\ catalog \in SUBSET Collection
    /\ docs \in [Key -> Value \cup {NoDoc}]
    /\ \A k \in Key : docs[k] # NoDoc => k[1] \in catalog
    /\ wpc = "idle"
    /\ staged = {}
    /\ stagedDocs = Empty
    /\ log = NotRecorded
    /\ ops = 0
    /\ commits = 0
    /\ changes = <<>>
    /\ before = Empty
    /\ subscribers = {}
    /\ listening = {}
    /\ queue = [s \in Subscriber |-> <<>>]
    /\ copy = [s \in Subscriber |-> Empty]

(* The batch: `transact` under the writer's lock, up to its commit.        *)
Begin(recording) ==
    /\ wpc = "idle"
    /\ commits < MaxCommits
    /\ wpc' = "batch"
    /\ commits' = commits + 1
    /\ staged' = catalog
    /\ stagedDocs' = docs
    /\ log' = IF recording THEN <<>> ELSE NotRecorded
    /\ ops' = 0
    /\ UNCHANGED <<catalog, docs, changes, before, channels>>

(* One write applied, and noted if the batch is recorded.                  *)
Write(c, id, value, inserts) ==
    /\ wpc = "batch"
    /\ ops < MaxOps
    /\ ops' = ops + 1
    /\ stagedDocs' = [stagedDocs EXCEPT ![<<c, id>>] = value]
    /\ log' = IF log = NotRecorded THEN log
              ELSE Written(log, c, id, inserts, value # NoDoc)
    /\ UNCHANGED <<catalog, docs, wpc, changes, commits, before, channels>>

(* An insert makes its collection, fails on a document that is there; an   *)
(* update or a delete fails on one that isn't.                             *)
Insert(c, id, v) ==
    /\ stagedDocs[<<c, id>>] = NoDoc
    /\ staged' = staged \cup {c}
    /\ Write(c, id, v, TRUE)

Update(c, id, v) ==
    /\ stagedDocs[<<c, id>>] # NoDoc
    /\ Write(c, id, v, FALSE)
    /\ UNCHANGED staged

Delete(c, id) ==
    /\ stagedDocs[<<c, id>>] # NoDoc
    /\ Write(c, id, NoDoc, FALSE)
    /\ UNCHANGED staged

(* `drop_collection`, a batch of its own.                                  *)
DropCollection(c) ==
    /\ wpc = "batch"
    /\ ops = 0
    /\ c \in staged
    /\ ops' = MaxOps
    /\ staged' = staged \ {c}
    /\ stagedDocs' = [k \in Key |-> IF k[1] = c THEN NoDoc ELSE stagedDocs[k]]
    /\ log' = IF log = NotRecorded THEN log ELSE Dropped(log, c)
    /\ UNCHANGED <<catalog, docs, wpc, changes, commits, before, channels>>

(* The batch's own catalog and pages are gone.                             *)
Ended ==
    /\ staged' = {}
    /\ stagedDocs' = Empty
    /\ log' = NotRecorded
    /\ ops' = 0

(* A write that fails, a log that does, or nothing to write: the batch's   *)
(* catalog is dropped, and its record with it.                             *)
Fail ==
    /\ wpc = "batch"
    /\ wpc' = "idle"
    /\ Ended
    /\ UNCHANGED <<catalog, docs, commits, changes, before, channels>>

(* The batch is durable, and new reads see it.                             *)
Commit ==
    /\ wpc = "batch"
    /\ ops > 0
    /\ catalog' = staged
    /\ docs' = stagedDocs
    /\ before' = IF log = NotRecorded THEN Empty ELSE docs
    /\ wpc' = IF log = NotRecorded THEN "idle" ELSE "report"
    /\ changes' = IF log = NotRecorded THEN <<>> ELSE Finish(log)
    /\ Ended
    /\ UNCHANGED <<commits, channels>>

(* `report`, at the end of the commit, the lock still held.                *)
Report ==
    /\ wpc = "report"
    /\ wpc' = "idle"
    /\ IF changes = <<>> THEN UNCHANGED <<subscribers, queue>>
       ELSE /\ subscribers' = subscribers \cap listening
            /\ queue' = [s \in Subscriber |->
                           IF s \in subscribers \cap listening
                           THEN Append(queue[s], changes) ELSE queue[s]]
    /\ changes' = <<>>
    /\ before' = Empty
    /\ UNCHANGED <<catalog, docs, staged, stagedDocs, log, ops, commits,
                   listening, copy>>

(* Mutant of Subscribe: it doesn't wait for the batch being committed.     *)
SubscribeUngated(s) ==
    /\ s \notin listening
    /\ subscribers' = subscribers \cup {s}
    /\ listening' = listening \cup {s}
    /\ copy' = [copy EXCEPT ![s] = docs]
    /\ UNCHANGED <<catalog, docs, writer, commits, before, queue>>

(* `subscribe`, which waits for the writer's lock.  What is committed then *)
(* is what the copy begins with.  A sender of the same subscriber's that   *)
(* the writer hasn't found out about yet goes at the next report.          *)
Subscribe(s) ==
    /\ wpc = "idle"
    /\ s \notin listening
    /\ subscribers' = subscribers \cup {s}
    /\ listening' = listening \cup {s}
    /\ copy' = [copy EXCEPT ![s] = docs]
    /\ UNCHANGED <<catalog, docs, writer, commits, before, queue>>

(* `Changes::recv`, and a read of every document the report names.         *)
Names(change, k) == /\ change.collection = k[1]
                    /\ change.kind = "Dropped" \/ change.id = k[2]
Recv(s) ==
    /\ s \in listening
    /\ queue[s] # <<>>
    /\ LET report == Head(queue[s])
       IN  copy' = [copy EXCEPT ![s] = [k \in Key |->
                      IF \E i \in DOMAIN report : Names(report[i], k)
                      THEN docs[k] ELSE copy[s][k]]]
    /\ queue' = [queue EXCEPT ![s] = Tail(@)]
    /\ UNCHANGED <<catalog, docs, writer, commits, before, subscribers,
                   listening>>

(* The `Changes` dropped: the writer finds out at its next report.         *)
Unsubscribe(s) ==
    /\ s \in listening
    /\ listening' = listening \ {s}
    /\ queue' = [queue EXCEPT ![s] = <<>>]
    /\ copy' = [copy EXCEPT ![s] = Empty]
    /\ UNCHANGED <<catalog, docs, writer, commits, before, subscribers>>

InBatch ==
    \/ \E c \in Collection, id \in Id :
          \/ \E v \in Value : Insert(c, id, v) \/ Update(c, id, v)
          \/ Delete(c, id)
    \/ \E c \in Collection : DropCollection(c)
    \/ Fail
    \/ Commit

Next ==
    \/ Begin(subscribers # {})
    \/ InBatch
    \/ Report
    \/ \E s \in Subscriber : Subscribe(s) \/ Recv(s) \/ Unsubscribe(s)

Spec == Init /\ [][Next]_changesVars

-----------------------------------------------------------------------------
(* Properties.                                                             *)

Docs == [Key -> Value \cup {NoDoc}]
ChangeType == [kind : {"Inserted", "Updated", "Deleted", "Dropped"},
               collection : Collection, id : Id \cup {NoId}]
EntryType == [collection : Collection, id : Id \cup {NoId},
              existed : BOOLEAN, exists : BOOLEAN]

(* The variables have their types: a report is never empty, and each       *)
(* change in it is one of the kinds.                                       *)
TypeOK ==
    /\ catalog \in SUBSET Collection /\ staged \in SUBSET Collection
    /\ docs \in Docs /\ stagedDocs \in Docs /\ before \in Docs
    /\ wpc \in {"idle", "batch", "report"}
    /\ log = NotRecorded \/ \A i \in DOMAIN log : log[i] \in EntryType
    /\ ops \in 0 .. MaxOps /\ commits \in 0 .. MaxCommits
    /\ \A i \in DOMAIN changes : changes[i] \in ChangeType
    /\ subscribers \in SUBSET Subscriber /\ listening \in SUBSET Subscriber
    /\ copy \in [Subscriber -> Docs]
    /\ \A s \in Subscriber : \A i \in DOMAIN queue[s] :
          /\ queue[s][i] # <<>>
          /\ \A j \in DOMAIN queue[s][i] : queue[s][i][j] \in ChangeType

(* A report is its batch's net effect, whatever its writes were: every     *)
(* document that changed is named, none is named twice, and the kind says  *)
(* whether it was there before the batch and is there after it.            *)
NetEffect ==
    wpc = "report" =>
       /\ \A k \in Key :
             /\ docs[k] # before[k] =>
                   \E i \in DOMAIN changes : Names(changes[i], k)
             /\ \A i, j \in DOMAIN changes :
                   Names(changes[i], k) /\ Names(changes[j], k) => i = j
       /\ \A i \in DOMAIN changes :
             LET k == <<changes[i].collection, changes[i].id>>
             IN  CASE changes[i].kind = "Inserted" ->
                        before[k] = NoDoc /\ docs[k] # NoDoc
                   [] changes[i].kind = "Updated" ->
                        before[k] # NoDoc /\ docs[k] # NoDoc
                   [] changes[i].kind = "Deleted" ->
                        before[k] # NoDoc /\ docs[k] = NoDoc
                   [] OTHER ->
                        \A id \in Id : docs[<<k[1], id>>] = NoDoc

(* A subscriber's copy is the database, but for the documents its unread   *)
(* reports name: no commit is missed, and none is reported before a read   *)
(* finds what it wrote, however late the reports are read.                 *)
CopiesCurrent ==
    \A s \in subscribers \cap listening, k \in Key :
       \/ copy[s][k] = docs[k]
       \/ \E i \in DOMAIN queue[s] :
             \E j \in DOMAIN queue[s][i] : Names(queue[s][i][j], k)
       \/ wpc = "report" /\ \E i \in DOMAIN changes : Names(changes[i], k)

-----------------------------------------------------------------------------
(* The inductive invariant behind them.                                    *)

(* The log, up to now: each document's entry once and right, and one for   *)
(* each document that isn't as it was.  A drop is the batch's last write.  *)
LogOnce ==
    \A i, j \in DOMAIN log :
       log[i].collection = log[j].collection /\ log[i].id \in {NoId, log[j].id}
         => i = j
LogDrops ==
    \A i \in DOMAIN log : log[i].id = NoId =>
       /\ ops = MaxOps
       /\ \A id \in Id : stagedDocs[<<log[i].collection, id>>] = NoDoc
LogRight ==
    \A i \in DOMAIN log : log[i].id # NoId =>
       /\ log[i].existed <=> docs[<<log[i].collection, log[i].id>>] # NoDoc
       /\ log[i].exists <=> stagedDocs[<<log[i].collection, log[i].id>>] # NoDoc
LogWhole ==
    \A k \in Key : stagedDocs[k] # docs[k] =>
       \E i \in DOMAIN log : log[i].collection = k[1]
                             /\ log[i].id \in {NoId, k[2]}
LogSound == LogOnce /\ LogDrops /\ LogRight /\ LogWhole

(* A batch that isn't recorded has nobody to be reported to.               *)
Recorded ==
    /\ log = NotRecorded \/ log \in Seq(EntryType)
    /\ wpc # "batch" => log = NotRecorded
    /\ wpc = "batch" => IF log = NotRecorded THEN subscribers = {}
                        ELSE LogSound
Sent ==
    /\ changes \in Seq(ChangeType)
    /\ queue \in [Subscriber -> Seq(Seq(ChangeType))]

IInv == TypeOK /\ Recorded /\ Sent /\ NetEffect /\ CopiesCurrent
=============================================================================
