---------------------------- MODULE LiveQueries ----------------------------
(***************************************************************************)
(* Live queries and live aggregates, src/live.rs: subscriptions the writer *)
(* checks inside each commit (`transact` of src/database.rs, before        *)
(* `report`), each with a channel of events that its reader applies, one   *)
(* by one, when it likes.                                                  *)
(*                                                                         *)
(* There is one of each kind on one collection: "matching", a filter;      *)
(* "window", with a sort and a limit; "rows", an aggregate, the count of   *)
(* the matching documents by value, kept by a `having`.  A document is its *)
(* value, which the sort and the groups go by.                             *)
(***************************************************************************)
EXTENDS Changes, SequencesExt

CONSTANTS
    Watched,      \* the collection
    Matching,     \* the values the filter takes
    Limit,        \* the window's; one no list reaches stands for none
    Having,       \* the rows' count at least
    Watch,        \* the kinds subscribed to
    AtOnce        \* bound: those not "off" at one time

ASSUME LiveAssumption ==
    /\ Watched \in Collection
    /\ Matching \subseteq Value
    /\ Id \subseteq Nat /\ IsFiniteSet(Id) /\ Value \subseteq Nat
    /\ Limit \in Nat
    /\ Having \in Nat \ {0}
    /\ Watch \subseteq {"matching", "window", "rows"}
    /\ AtOnce \in Nat

VARIABLES
    watching,     \* "off", "on", "dropped" by its reader, "ended" by an error
    kept,         \* what the writer keeps: `Kept`, or an aggregate's `rows`
    events,       \* sent and not read
    view          \* what its reader has, from the events read

liveVars == <<watching, kept, events, view>>
vars == <<changesVars, liveVars>>

-----------------------------------------------------------------------------
(* The queries, on the documents d.                                        *)

Doc(d, id) == d[<<Watched, id>>]
Item(id, doc) == [id |-> id, doc |-> doc]
Matches(d) == {Item(id, Doc(d, id)) : id \in {i \in Id : Doc(d, i) \in Matching}}

(* `order`: by the sort value, then by id.                                 *)
Less(a, b) == a.doc < b.doc \/ (a.doc = b.doc /\ a.id < b.id)
ById(a, b) == a.id < b.id
Sorted(items, Before(_, _)) ==
    [i \in 1 .. Cardinality(items) |->
       CHOOSE m \in items :
         Cardinality({other \in items : Before(other, m)}) = i - 1]
FirstOf(list) == SubSeq(list, 1, IF Limit < Len(list) THEN Limit ELSE Len(list))
Find(d) == FirstOf(Sorted(Matches(d), Less))

(* `rows_at`: every group's row, and those the `having` leaves.            *)
AllRows(d) ==
    {Item(v, Cardinality({m \in Matches(d) : m.doc = v})) :
        v \in {m.doc : m \in Matches(d)}}
Rows(d) == {row \in AllRows(d) : row.doc >= Having}

-----------------------------------------------------------------------------
(* What the watchers send.                                                 *)

Kinds == {"matching", "window", "rows"}
Nothing(kind) == IF kind = "window" THEN <<>> ELSE {}
NoPlace == -1
Event(kind, item, from, at) ==
    [kind |-> kind, id |-> item.id, doc |-> item.doc, from |-> from, at |-> at]
Err == Event("Err", Item(0, NoDoc), NoPlace, NoPlace)

Outcome(list, sent) == [kept |-> list, events |-> sent]
All(kind, items) ==
    LET seq == Sorted(items, ById)
    IN  [i \in DOMAIN seq |-> Event(kind, seq[i], NoPlace, NoPlace)]

(* `Watcher::start` and `AggregateWatcher::start`.                         *)
Start(kind, d) ==
    CASE kind = "matching" ->
           Outcome({m.id : m \in Matches(d)}, All("Entered", Matches(d)))
      [] kind = "window" ->
           Outcome(Find(d), [i \in DOMAIN Find(d) |->
                               Event("Entered", Find(d)[i], NoPlace, i - 1)])
      [] kind = "rows" ->
           Outcome(Rows(d), All("Entered", Rows(d)))

(* `Watcher::changed` of a filter: the document id against the set kept.   *)
Changed(acc, id, d) ==
    LET was == id \in acc.kept
        is == Doc(d, id) \in Matching
        kind == CASE is /\ ~was -> "Entered"
                  [] was /\ ~is -> "Left"
                  [] OTHER      -> "Changed"
    IN  Outcome(IF is THEN acc.kept \cup {id} ELSE acc.kept \ {id},
                IF was \/ is
                THEN Append(acc.events, Event(kind, Item(id, Doc(d, id)),
                                              NoPlace, NoPlace))
                ELSE acc.events)

ChangedAll(list, seen, d) ==
    LET upTo[n \in 0 .. Len(seen)] ==
          IF n = 0 THEN Outcome(list, <<>>)
          ELSE Changed(upTo[n - 1], seen[n].id, d)
    IN  upTo[Len(seen)]

(* `Watcher::dropped`: every document kept has left.                       *)
DroppedAll(kind, list) ==
    IF kind = "matching"
    THEN Outcome({}, All("Left", {Item(id, NoDoc) : id \in list}))
    ELSE Outcome(<<>>, [i \in DOMAIN list |->
                          Event("Left", Item(list[i].id, NoDoc), 0, NoPlace)])

(* `partition_point` in a list in order, and the place of a document.      *)
Place(list, m) == 1 + Cardinality({i \in DOMAIN list : Less(list[i], m)})
At(list, id) == CHOOSE i \in DOMAIN list : list[i].id = id
Ids(list) == {list[i].id : i \in DOMAIN list}

(* Mutant of NewList: a full list is never read again.                     *)
KnownOnly(list, pending, d) ==
    LET unwritten == {m \in Range(list) : m.id \notin pending}
        written == {m \in Matches(d) : m.id \in pending}
    IN  FirstOf(Sorted(unwritten \cup written, Less))

(* The first part of `reorder`: the list after a commit that wrote the     *)
(* documents `pending`, from what is known of the matches.  A full list    *)
(* may have left others out, which come after its last.                    *)
NewList(list, pending, d) ==
    LET unwritten == {m \in Range(list) : m.id \notin pending}
        written == {m \in Matches(d) : m.id \in pending}
        known == unwritten \cup written
        full == Limit > 0 /\ Len(list) >= Limit
        certain == {m \in known : ~Less(list[Len(list)], m)}
    IN  IF ~full THEN FirstOf(Sorted(known, Less))
        ELSE IF Cardinality(certain) >= Limit THEN FirstOf(Sorted(certain, Less))
        ELSE Find(d)

(* Those of a list that stay, and those that don't.                        *)
Staying(list, ids) == Only(list, {i \in DOMAIN list : list[i].id \in ids})
Leaving(list, ids) == Only(list, {i \in DOMAIN list : list[i].id \notin ids})

(* Mutant of Leave: the place each had before the others left.             *)
LeaveAsListed(list, staying, d) ==
    LET gone == Leaving(list, staying)
    IN  [i \in DOMAIN gone |->
           Event("Left", Item(gone[i].id, Doc(d, gone[i].id)),
                 At(list, gone[i].id) - 1, NoPlace)]

(* Its second part: those that left, each at its place once those before   *)
(* it are gone.                                                            *)
Leave(list, staying, d) ==
    LET gone == Leaving(list, staying)
    IN  [i \in DOMAIN gone |->
           Event("Left", Item(gone[i].id, Doc(d, gone[i].id)),
                 Cardinality({m \in Range(list) : /\ m.id \in staying
                                                  /\ Less(m, gone[i])}),
                 NoPlace)]

(* And its third, for the next document m of the new list: written, it is  *)
(* moved; come in, it is put in; else it stays.                            *)
Put(acc, m, was, pending) ==
    IF m.id \notin was
    THEN LET to == Place(acc.kept, m)
         IN  Outcome(InsertAt(acc.kept, to, m),
                     Append(acc.events, Event("Entered", m, NoPlace, to - 1)))
    ELSE IF m.id \in pending
    THEN LET from == At(acc.kept, m.id)
             rest == RemoveAt(acc.kept, from)
             to == Place(rest, m)
         IN  Outcome(InsertAt(rest, to, m),
                     Append(acc.events, Event("Changed", m, from - 1, to - 1)))
    ELSE acc

PutAll(left, new, was, pending) ==
    LET upTo[n \in 0 .. Len(new)] ==
          IF n = 0 THEN left ELSE Put(upTo[n - 1], new[n], was, pending)
    IN  upTo[Len(new)]

(* `reorder`.                                                              *)
Reorder(list, pending, d) ==
    LET new == NewList(list, pending, d)
        staying == Ids(new)
        left == Outcome(Staying(list, staying), Leave(list, staying, d))
    IN  PutAll(left, new, Ids(list), pending)

(* `AggregateWatcher::rerun`: those that left the result first, with the   *)
(* group's row if it still has one, then those that came in or changed.    *)
Rerun(rows, d) ==
    LET now == Rows(d)
        left == {was \in rows : \A row \in now : row.id # was.id}
        Still(was) == {row \in AllRows(d) : row.id = was.id}
        shown == {Item(was.id, IF Still(was) = {} THEN NoDoc
                               ELSE (CHOOSE row \in Still(was) : TRUE).doc) :
                    was \in left}
        come == {row \in now : \A was \in rows : was.id # row.id}
        moved == {row \in now \ rows : \E was \in rows : was.id = row.id}
        new == Sorted(come \cup moved, ById)
    IN  Outcome(now, All("Left", shown) \o
                     [i \in DOMAIN new |->
                        Event(IF new[i] \in come THEN "Entered" ELSE "Changed",
                              new[i], NoPlace, NoPlace)])

(* `live::check` and `check_aggregates` for one of them: `seen`, the       *)
(* commit's changes to its collection, the last ones left out if a         *)
(* document that can't be read ends it there.                              *)
Check(kind, list, seen, d) ==
    IF kind = "rows" THEN Rerun(list, d)
    ELSE IF \E i \in DOMAIN seen : seen[i].kind = "Dropped"
    THEN DroppedAll(kind, list)
    ELSE IF kind = "matching" THEN ChangedAll(list, seen, d)
    ELSE Reorder(list, {seen[i].id : i \in DOMAIN seen}, d)

-----------------------------------------------------------------------------
LiveInit ==
    /\ Init
    /\ watching = [k \in Kinds |-> "off"]
    /\ kept = [k \in Kinds |-> Nothing(k)]
    /\ events = [k \in Kinds |-> <<>>]
    /\ view = [k \in Kinds |-> Nothing(k)]

(* `watch` and `watch_aggregate`, under the writer's lock.  One dropped    *)
(* before and not found out goes at its next event: nobody reads it.       *)
StartWatch(k) ==
    /\ wpc = "idle"
    /\ k \in Watch
    /\ watching[k] \in {"off", "dropped"}
    /\ Cardinality({j \in Kinds \ {k} : watching[j] # "off"}) < AtOnce
    /\ watching' = [watching EXCEPT ![k] = "on"]
    /\ kept' = [kept EXCEPT ![k] = Start(k, docs).kept]
    /\ events' = [events EXCEPT ![k] = Start(k, docs).events]
    /\ UNCHANGED <<changesVars, view>>

(* The commit is recorded for the live ones too.                           *)
BeginBatch ==
    /\ Begin(\/ subscribers # {}
             \/ \E k \in Kinds : watching[k] \in {"on", "dropped"})
    /\ UNCHANGED liveVars

(* Whether a watcher is retained: one that failed has ended, one whose     *)
(* reader is gone is found out by its first event.                         *)
GoingOn(was, failed, sent) ==
    CASE failed                          -> "ended"
      [] was = "dropped" /\ sent # <<>> -> "off"
      [] OTHER                           -> was

(* Every live query against the commit, those in `bad` ended by an error   *)
(* after n of its changes; then the report, the writer's lock held all the *)
(* while.                                                                  *)
CheckLive(bad, n) ==
    LET ours == Only(changes, {i \in DOMAIN changes :
                                 changes[i].collection = Watched})
        checks == IF ours = <<>> THEN {}
                  ELSE {k \in Kinds : watching[k] \in {"on", "dropped"}}
        After(k) ==
          IF k \notin bad THEN Check(k, kept[k], ours, docs)
          ELSE LET sent == IF k = "matching"
                           THEN Check(k, kept[k], SubSeq(ours, 1, n), docs)
                           ELSE Outcome(kept[k], <<>>)
               IN  Outcome(Nothing(k), Append(sent.events, Err))
    IN  /\ wpc = "report"
        /\ bad \subseteq {k \in checks : watching[k] = "on"}
        /\ n > 0 => "matching" \in bad /\ n < Len(ours)
        /\ watching' = [k \in Kinds |->
                          IF k \in checks
                          THEN GoingOn(watching[k], k \in bad, After(k).events)
                          ELSE watching[k]]
        /\ kept' = [k \in Kinds |->
                      IF watching'[k] \in {"off", "ended"} THEN Nothing(k)
                      ELSE IF k \in checks THEN After(k).kept ELSE kept[k]]
        /\ events' = [k \in Kinds |->
                        IF k \in checks /\ watching[k] = "on"
                        THEN events[k] \o After(k).events ELSE events[k]]
        /\ Report
        /\ UNCHANGED view

(* The reader applies an event: takes out at `from`, puts in at `at`.      *)
Apply(kind, seen, e) ==
    IF e.kind = "Err" THEN seen
    ELSE IF kind = "window"
    THEN LET out == IF e.kind = "Entered" THEN seen
                    ELSE RemoveAt(seen, e.from + 1)
         IN  IF e.kind = "Left" THEN out
             ELSE InsertAt(out, e.at + 1, Item(e.id, e.doc))
    ELSE {m \in seen : m.id # e.id}
           \cup IF e.kind = "Left" THEN {} ELSE {Item(e.id, e.doc)}

(* What it has after each of the events sent.                              *)
Views(kind, seen, sent) ==
    LET upTo[n \in 0 .. Len(sent)] ==
          IF n = 0 THEN seen ELSE Apply(kind, upTo[n - 1], sent[n])
    IN  upTo
AllRead(k) == Views(k, view[k], events[k])[Len(events[k])]

(* `LiveQuery::recv`, as often as there is something.  The writer reads    *)
(* nothing it changes before the check, so that a read in the middle of a  *)
(* batch is as good as one before it; a drop is too.                       *)
RecvLive(k) ==
    /\ wpc = "idle"
    /\ events[k] # <<>>
    /\ view' = [view EXCEPT ![k] = AllRead(k)]
    /\ events' = [events EXCEPT ![k] = <<>>]
    /\ UNCHANGED <<changesVars, watching, kept>>

(* The `LiveQuery` dropped: the writer finds out when it next sends.       *)
StopWatch(k) ==
    /\ wpc = "idle"
    /\ watching[k] \in {"on", "ended"}
    /\ watching' = [watching EXCEPT ![k] = IF @ = "on" THEN "dropped" ELSE "off"]
    /\ events' = [events EXCEPT ![k] = <<>>]
    /\ view' = [view EXCEPT ![k] = Nothing(k)]
    /\ UNCHANGED <<changesVars, kept>>

LiveNext ==
    \/ BeginBatch
    \/ InBatch /\ UNCHANGED liveVars
    \/ \E bad \in SUBSET Watch, n \in 0 .. MaxOps - 1 : CheckLive(bad, n)
    \/ \E k \in Watch : StartWatch(k) \/ RecvLive(k) \/ StopWatch(k)

LiveSpec == LiveInit /\ [][LiveNext]_vars

-----------------------------------------------------------------------------
(* Properties.                                                             *)

EventType == [kind : {"Entered", "Left", "Changed", "Err"},
              id : Id \cup Value \cup {0},
              doc : Value \cup Nat \cup {NoDoc},
              from : Nat \cup {NoPlace}, at : Nat \cup {NoPlace}]

(* The variables have their types.                                         *)
LiveTypeOK ==
    /\ TypeOK
    /\ watching \in [Kinds -> {"off", "on", "dropped", "ended"}]
    /\ kept["matching"] \subseteq Id
    /\ Range(kept["window"]) \subseteq [id : Id, doc : Value]
    /\ kept["rows"] \subseteq [id : Value, doc : Nat]
    /\ \A k \in Kinds : Range(events[k]) \subseteq EventType

(* Whether an event can be applied to what the reader has by then: a       *)
(* document enters where it isn't, leaves or changes where it is.          *)
Fits(kind, seen, e) ==
    LET has == IF kind = "window" THEN Ids(seen) ELSE {m.id : m \in seen}
    IN  \/ e.kind = "Err"
        \/ /\ e.kind = "Entered" <=> e.id \notin has
           /\ kind = "window" =>
                 /\ e.kind # "Entered" =>
                       e.from < Len(seen) /\ seen[e.from + 1].id = e.id
                 /\ e.kind = "Entered" => e.at <= Len(seen) /\ Len(seen) < Limit

(* Every event sent fits what the events before it leave the reader: its   *)
(* places are places in that list, which is never longer than the limit    *)
(* (`Live`: "They are places in the list as the events before left it");   *)
(* and an error is the last event.                                         *)
EventsFit ==
    \A k \in Watch : watching[k] \in {"on", "ended"} =>
       /\ \A i \in DOMAIN events[k] :
             Fits(k, Views(k, view[k], events[k])[i - 1], events[k][i])
       /\ \A i \in DOMAIN events[k] :
             events[k][i].kind = "Err" =>
                i = Len(events[k]) /\ watching[k] = "ended"

(* What the reader has once it has read all is the query's result on the   *)
(* documents committed, through any batches, nothing missed and nothing    *)
(* left behind: the filter's matches, the sorted list in order and no      *)
(* longer than its limit, the rows that the `having` leaves.               *)
ViewsFollow ==
    wpc = "idle" =>
       \A k \in Watch : watching[k] = "on" =>
          AllRead(k) = CASE k = "matching" -> Matches(docs)
                              [] k = "window"   -> Find(docs)
                              [] k = "rows"     -> Rows(docs)

-----------------------------------------------------------------------------
(* The inductive invariant behind them.                                    *)

(* The documents as the watchers have seen them: a commit is not theirs    *)
(* before it is reported.                                                  *)
Known == IF wpc = "report" THEN before ELSE docs
Result(k, d) == CASE k = "matching" -> Matches(d)
                  [] k = "window"   -> Find(d)
                  [] k = "rows"     -> Rows(d)

(* A commit that somebody watches is recorded.                             *)
WatchRecorded ==
    wpc = "batch" /\ log = NotRecorded =>
       \A k \in Kinds : watching[k] \in {"off", "ended"}

(* A change without an id is its collection's drop.                        *)
DropsNamed ==
    \A i \in DOMAIN changes :
       changes[i].kind = "Dropped" <=> changes[i].id = NoId

(* What the writer keeps is what one that starts now would; nobody has     *)
(* anything of one that is off.                                            *)
KeptRight ==
    \A k \in Kinds :
       /\ watching[k] \in {"on", "dropped"} => kept[k] = Start(k, Known).kept
       /\ watching[k] \in {"off", "dropped"} =>
             events[k] = <<>> /\ view[k] = Nothing(k)

(* The events not read lead from what the reader has to the result, each   *)
(* one fitting; of one that has ended, they end in the error.              *)
ReadsFit(k) ==
    \A i \in DOMAIN events[k] :
       Fits(k, Views(k, view[k], events[k])[i - 1], events[k][i])
EventsRight ==
    \A k \in Kinds :
       /\ events[k] \in Seq(EventType)
       /\ watching[k] = "on" => /\ ReadsFit(k)
                                /\ AllRead(k) = Result(k, Known)
                                /\ \A i \in DOMAIN events[k] :
                                      events[k][i].kind # "Err"
       /\ watching[k] = "ended" => /\ ReadsFit(k)
                                   /\ \A i \in DOMAIN events[k] :
                                         events[k][i].kind = "Err" =>
                                            i = Len(events[k])

LiveInv ==
    /\ IInv
    /\ watching \in [Kinds -> {"off", "on", "dropped", "ended"}]
    /\ DOMAIN kept = Kinds /\ DOMAIN events = Kinds /\ DOMAIN view = Kinds
    /\ WatchRecorded
    /\ DropsNamed
    /\ KeptRight
    /\ EventsRight
=============================================================================
