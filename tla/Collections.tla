----------------------------- MODULE Collections ----------------------------
(***************************************************************************)
(* A collection and the calls that write to it: src/src/collection.rs      *)
(* (apply_write_op, update_secondary_indexes, build_index, upsert ...) and *)
(* src/src/batch.rs.  Documents lie at locations in the heap; the primary  *)
(* index leads from an id to a location, each secondary index from its     *)
(* keys.  A call works under the writer's lock on a staged copy that a     *)
(* commit makes the collection and an error or a dry run throws away       *)
(* (Database::transact and rehearse); its operations are made one after    *)
(* another, each on what the last one left.                                *)
(*                                                                         *)
(* A collection is a record [heap, primary, indexes, trees]: [id, doc] at  *)
(* a location; a location for an id; the indexes in order, each a record   *)
(* [fields, unique, sparse, root]; for a root, a location for each key.    *)
(***************************************************************************)
EXTENDS Integers, Sequences, SequencesExt

CONSTANTS
    Calls,                  \* the calls: records [ops, dry]
    Starts,                 \* the calls that made the collection found
    Locations, Roots,
    KeysOf(_, _, _),        \* index_keys: doc, index, id
    IdOfKey(_),             \* key::doc_id
    Tuples(_, _),           \* unique_tuples: doc, index: records [part, values]
    SameValues(_, _),       \* same_values
    UnderPart(_, _),        \* part, key: whether the key begins with the part
    WithId(_, _),           \* with_id: doc, id
    Found(_, _),            \* find_in: collection, filter: the ids in order
    Matched(_, _),          \* only_match, any_match_in: the ids in some order
    HintFollowed(_, _),     \* follow_hint: filter, indexes
    Changed(_, _, _),       \* Update::apply_as: update, doc, inserting
    SeedOf(_),              \* update.rs seed: filter
    Refused(_),             \* nests_too_deep
    Invalid(_),             \* Update::check, seed: an operation as written
    Outgrows(_, _),         \* old, new: whether an update moves the document
    Answers(_, _),          \* docs, filter: what DocumentSet lets a filter find
    Matching(_, _),         \* docs, filter: the ids whose documents match
    TuplesOf(_, _),         \* doc, an index as declared: the values it compares
    MaxCalls                \* bound: calls after the start

VARIABLES
    coll,                   \* the collection as the last commit left it
    work,                   \* the copy the running call works on
    todo, counts,           \* its operations left, what those done wrote
    running,                \* "idle", "commit" or "dry"
    outcome,                \* how the last call ended
    calls                   \* how many were begun

vars == <<coll, work, todo, counts, running, outcome, calls>>

Empty == [heap |-> [l \in {} |-> 0], primary |-> [id \in {} |-> 0],
          indexes |-> <<>>, trees |-> [r \in {} |-> 0]]

Init ==
    /\ coll = Empty /\ work = Empty /\ calls = 0
    /\ todo = <<>> /\ counts = <<>> /\ running = "idle" /\ outcome = <<"none">>

-----------------------------------------------------------------------------
\* data::insert_record: a place nothing lies in.
Place(c) == CHOOSE l \in Locations : l \notin DOMAIN c.heap
HasPlace(c) == \E l \in Locations : l \notin DOMAIN c.heap

DocAt(c, id) == c.heap[c.primary[id]].doc

\* What is there to be read: the documents by id, the indexes declared.
DocsOf(c) == [id \in DOMAIN c.primary |-> DocAt(c, id)]
Declared(i) == [fields |-> i.fields, unique |-> i.unique, sparse |-> i.sparse]
DeclaredOf(c) == {Declared(c.indexes[i]) : i \in DOMAIN c.indexes}

\* What update_secondary_indexes is told of a document: where it was and
\* where it is, a sequence of at most one [doc, loc] each.
At(doc, loc) == [doc |-> doc, loc |-> loc]
KeysAt(index, id, at) == IF at = <<>> THEN {} ELSE KeysOf(at[1].doc, index, id)
TuplesAt(index, at) == IF at = <<>> THEN {} ELSE Tuples(at[1].doc, index)
HasMoved(old, new) == old = <<>> \/ new = <<>> \/ old[1].loc # new[1].loc

\* Mutant: a moved document keeps the entries it had.
EntriesUnmoved(c, index, id, old, new) ==
    LET before == KeysAt(index, id, old)
        after  == KeysAt(index, id, new)
        tree   == c.trees[index.root]
    IN  [k \in (DOMAIN tree \ (before \ after)) \cup (after \ before) |->
            IF k \in after \ before THEN new[1].loc ELSE tree[k]]

\* The entries of one index after the document went from old to new: only
\* keys that went away leave, only new ones come; all, if it moved.
EntriesAfter(c, index, id, old, new) ==
    LET before == KeysAt(index, id, old)
        after  == KeysAt(index, id, new)
        moved  == HasMoved(old, new)
        gone   == {k \in before : moved \/ k \notin after}
        come   == {k \in after : moved \/ k \notin before}
        tree   == c.trees[index.root]
    IN  [k \in (DOMAIN tree \ gone) \cup come |-> IF k \in come THEN new[1].loc ELSE tree[k]]

\* check_unique: another document under the same part of a key, with the
\* same values.
HasDuplicate(c, index, id, tuple) ==
    \E k \in DOMAIN c.trees[index.root] :
        /\ UnderPart(tuple.part, k) /\ IdOfKey(k) # id
        /\ \E other \in Tuples(c.heap[c.trees[index.root][k]].doc, index) :
                SameValues(other.values, tuple.values)

\* Mutant: a tuple is taken for held by its part of a key alone.
BreaksUniqueByPart(c, index, id, old, new) ==
    /\ index.unique
    /\ \E tuple \in TuplesAt(index, new) :
        /\ ~\E held \in TuplesAt(index, old) : held.part = tuple.part
        /\ HasDuplicate(c, index, id, tuple)

\* Each new tuple is checked but those the old document held already.
BreaksUnique(c, index, id, old, new) ==
    /\ index.unique
    /\ \E tuple \in TuplesAt(index, new) :
        /\ ~\E held \in TuplesAt(index, old) :
                held.part = tuple.part /\ SameValues(held.values, tuple.values)
        /\ HasDuplicate(c, index, id, tuple)

\* update_secondary_indexes: every index, or an error at the first that
\* would hold a duplicate.
SecondaryAfter(c, id, old, new) ==
    [r \in DOMAIN c.trees |->
        IF \E i \in DOMAIN c.indexes : c.indexes[i].root = r
        THEN LET index == c.indexes[CHOOSE i \in DOMAIN c.indexes : c.indexes[i].root = r]
             IN  EntriesAfter(c, index, id, old, new)
        ELSE c.trees[r]]

Duplicate(c, id, old, new) ==
    \E i \in DOMAIN c.indexes : BreaksUnique(c, c.indexes[i], id, old, new)

-----------------------------------------------------------------------------
\* An error drops the staged copy: Database::transact.
Fail(error) ==
    /\ running' = "idle" /\ outcome' = <<"failed", error>>
    /\ work' = Empty /\ todo' = <<>> /\ counts' = <<>>
    /\ UNCHANGED <<coll, calls>>

\* The operation made: the copy it leaves, operations it comes down to, and
\* the counts with what it wrote.
Made(c, ops, written) ==
    /\ work' = c /\ todo' = ops \o Tail(todo) /\ counts' = written
    /\ UNCHANGED <<coll, running, outcome, calls>>

Counted(n) == Append(counts, n)
CountedToo(n) == Append(Front(counts), Last(counts) + n)

\* apply_write_op, Insert
InsertRecord(id, doc, written) ==
    LET loc == Place(work)
        new == <<At(doc, loc)>>
    IN  IF id \in DOMAIN work.primary THEN Fail("duplicate_id")
        ELSE IF Refused(doc) THEN Fail("too_deep")
        ELSE IF Duplicate(work, id, <<>>, new) THEN Fail("duplicate_value")
        ELSE /\ HasPlace(work)
             /\ Made([work EXCEPT
                        !.heap = [l \in DOMAIN @ \cup {loc} |->
                                    IF l = loc THEN [id |-> id, doc |-> doc] ELSE @[l]],
                        !.primary = [d \in DOMAIN @ \cup {id} |-> IF d = id THEN loc ELSE @[d]],
                        !.trees = SecondaryAfter(work, id, <<>>, new)], <<>>, written)

\* apply_write_op, Update: the document, if it is there (locate), stays or,
\* outgrowing its place, moves, and the primary index and every secondary
\* one follow it.
UpdateRecord(id, doc, written) ==
    LET loc == work.primary[id]
        old == <<At(work.heap[loc].doc, loc)>>
        to  == IF Outgrows(old[1].doc, doc) THEN Place(work) ELSE loc
        new == <<At(doc, to)>>
    IN  IF id \notin DOMAIN work.primary THEN Fail("not_found")
        ELSE IF Refused(doc) THEN Fail("too_deep")
        ELSE IF Duplicate(work, id, old, new) THEN Fail("duplicate_value")
        ELSE /\ to = loc \/ HasPlace(work)
             /\ Made([work EXCEPT
                        !.heap = [l \in (DOMAIN @ \ {loc}) \cup {to} |->
                                    IF l = to THEN [id |-> id, doc |-> doc] ELSE @[l]],
                        !.primary[id] = to,
                        !.trees = SecondaryAfter(work, id, old, new)], <<>>, written)

\* apply_write_op, Delete
DeleteRecord(id, written) ==
    LET loc == work.primary[id]
        old == <<At(work.heap[loc].doc, loc)>>
    IN  IF id \notin DOMAIN work.primary THEN Fail("not_found")
        ELSE Made([work EXCEPT
                     !.heap = [l \in DOMAIN @ \ {loc} |-> @[l]],
                     !.primary = [d \in DOMAIN @ \ {id} |-> @[d]],
                     !.trees = SecondaryAfter(work, id, old, <<>>)], <<>>, written)

-----------------------------------------------------------------------------
Insert(id, doc) == InsertRecord(id, WithId(doc, id), Counted(1))

Update(id, doc) == UpdateRecord(id, WithId(doc, id), Counted(1))

Delete(id) == DeleteRecord(id, Counted(1))

\* update_by_id: a document the operators leave as it was isn't written.
Fields(id, update) ==
    LET old == DocAt(work, id)
        new == Changed(update, old, FALSE)
    IN  IF id \notin DOMAIN work.primary THEN Fail("not_found")
        ELSE IF new = <<>> THEN Fail("update")
        ELSE IF WithId(new[1], id) = old THEN Made(work, <<>>, Counted(0))
        ELSE UpdateRecord(id, WithId(new[1], id), Counted(1))

\* Batch::run, Require
Require(filter, none) ==
    IF ~HintFollowed(filter, work.indexes) THEN Fail("hint")
    ELSE IF (Matched(work, filter) # <<>>) = none THEN Fail("precondition")
    ELSE Made(work, <<>>, Counted(0))

\* update_matching_in: the documents are found first, then changed one by
\* one, each as it was found.
UpdateMany(filter, update) ==
    LET found == Found(work, filter)
    IN  IF ~HintFollowed(filter, work.indexes) THEN Fail("hint")
        ELSE Made(work, [i \in DOMAIN found |-> <<"change", found[i], DocAt(work, found[i]), update>>],
                  Counted(0))

Change(id, old, update) ==
    LET new == Changed(update, old, FALSE)
    IN  IF new = <<>> THEN Fail("update")
        ELSE IF WithId(new[1], id) = old THEN Made(work, <<>>, CountedToo(0))
        ELSE UpdateRecord(id, WithId(new[1], id), CountedToo(1))

\* delete_matching_in
DeleteMany(filter) ==
    LET found == Found(work, filter)
    IN  IF ~HintFollowed(filter, work.indexes) THEN Fail("hint")
        ELSE Made(work, [i \in DOMAIN found |-> <<"doomed", found[i]>>], Counted(0))

\* Collection::upsert, looked up and written under one lock.
Upsert(filter, doc, new) ==
    LET ids == Matched(work, filter)
    IN  IF ~HintFollowed(filter, work.indexes) THEN Fail("hint")
        ELSE IF Len(ids) > 1 THEN Fail("multiple")
        ELSE Made(work, IF ids = <<>> THEN <<<<"insert", new, doc>>>>
                        ELSE <<<<"update", ids[1], doc>>>>, counts)

\* Collection::upsert_fields
UpsertFields(filter, update, new) ==
    LET ids  == Matched(work, filter)
        seed == SeedOf(filter)
        id   == IF seed.id = <<>> THEN new ELSE seed.id[1]
        doc  == Changed(update, seed.doc, TRUE)
    IN  IF ~HintFollowed(filter, work.indexes) THEN Fail("hint")
        ELSE IF Len(ids) > 1 THEN Fail("multiple")
        ELSE IF ids # <<>> THEN Made(work, <<<<"fields", ids[1], update>>>>, counts)
        ELSE IF doc = <<>> THEN Fail("update")
        ELSE Made(work, <<<<"insert", id, doc[1]>>>>, counts)

-----------------------------------------------------------------------------
\* fill_index: every document's keys; a unique index fails at the first
\* document that has the values of one before it.
FilledKeys(c, index) ==
    UNION {KeysOf(DocAt(c, id), index, id) : id \in DOMAIN c.primary}

FillFails(c, index) ==
    /\ index.unique
    /\ \E id, other \in DOMAIN c.primary :
        /\ id # other
        /\ \E t \in Tuples(DocAt(c, id), index), u \in Tuples(DocAt(c, other), index) :
            /\ SameValues(t.values, u.values)
            /\ \E k \in KeysOf(DocAt(c, other), index, other) : UnderPart(t.part, k)

\* The first index on these fields: what `find` and `position` look for.
IndexesOn(c, fields) == {i \in DOMAIN c.indexes : c.indexes[i].fields = fields}
FirstOn(c, fields) ==
    CHOOSE i \in IndexesOn(c, fields) : \A j \in IndexesOn(c, fields) : i <= j

\* build_index: one as asked is left alone, one with other options refused.
EnsureIndex(asked) ==
    LET there == work.indexes[FirstOn(work, asked.fields)]
        root  == CHOOSE r \in Roots : r \notin DOMAIN work.trees
        index == [fields |-> asked.fields, unique |-> asked.unique,
                  sparse |-> asked.sparse, root |-> root]
        as    == there.unique = asked.unique /\ there.sparse = asked.sparse
    IN  IF IndexesOn(work, asked.fields) # {}
        THEN IF as THEN Made(work, <<>>, Counted(0)) ELSE Fail("other_options")
        ELSE IF FillFails(work, index) THEN Fail("duplicate_value")
        ELSE /\ \E r \in Roots : r \notin DOMAIN work.trees
             /\ Made([work EXCEPT
                        !.indexes = Append(@, index),
                        !.trees = [r \in DOMAIN @ \cup {root} |->
                            IF r = root THEN [k \in FilledKeys(work, index) |->
                                                work.primary[IdOfKey(k)]]
                            ELSE @[r]]], <<>>, Counted(1))

\* Collection::drop_index: the index leaves the catalog, its pages are freed.
DropIndex(fields) ==
    LET at    == FirstOn(work, fields)
        freed == work.indexes[at].root
    IN  IF IndexesOn(work, fields) = {} THEN Made(work, <<>>, Counted(0))
        ELSE Made([work EXCEPT !.indexes = RemoveAt(@, at),
                               !.trees = [r \in DOMAIN @ \ {freed} |-> @[r]]],
                  <<>>, Counted(1))

\* Database::drop_collection
Drop == Made(Empty, <<>>, Counted(1))

-----------------------------------------------------------------------------
\* Batch::run and the calls of one operation.
Operation(op) ==
    \/ op[1] = "insert" /\ Insert(op[2], op[3])
    \/ op[1] = "update" /\ Update(op[2], op[3])
    \/ op[1] = "delete" /\ Delete(op[2])
    \/ op[1] = "fields" /\ Fields(op[2], op[3])
    \/ op[1] = "require" /\ Require(op[2], op[3])
    \/ op[1] = "update_many" /\ UpdateMany(op[2], op[3])
    \/ op[1] = "delete_many" /\ DeleteMany(op[2])
    \/ op[1] = "change" /\ Change(op[2], op[3], op[4])
    \/ op[1] = "doomed" /\ DeleteRecord(op[2], CountedToo(1))
    \/ op[1] = "upsert" /\ Upsert(op[2], op[3], op[4])
    \/ op[1] = "upsert_fields" /\ UpsertFields(op[2], op[3], op[4])
    \/ op[1] = "ensure_index" /\ EnsureIndex(op[2])
    \/ op[1] = "drop_index" /\ DropIndex(op[2])
    \/ op[1] = "drop" /\ Drop

\* What is wrong with a call as written is said before anything is read.
IsRefused(call) == \E i \in DOMAIN call.ops : Invalid(call.ops[i])

Refuse(call) ==
    /\ running = "idle" /\ IsRefused(call)
    /\ calls' = calls + 1 /\ outcome' = <<"failed", "invalid">>
    /\ UNCHANGED <<coll, work, todo, counts, running>>

Begin(call) ==
    /\ running = "idle" /\ ~IsRefused(call)
    /\ calls' = calls + 1
    /\ running' = IF call.dry THEN "dry" ELSE "commit"
    /\ work' = coll /\ todo' = call.ops /\ counts' = <<>> /\ outcome' = <<"none">>
    /\ UNCHANGED coll

Step == running # "idle" /\ todo # <<>> /\ Operation(Head(todo))

\* The commit, or the end of a dry run (Database::rehearse).
End ==
    /\ running # "idle" /\ todo = <<>>
    /\ outcome' = <<"done", counts>> /\ running' = "idle"
    /\ coll' = IF running = "commit" THEN work ELSE coll
    /\ work' = Empty /\ counts' = <<>> /\ UNCHANGED <<todo, calls>>

Next ==
    \/ Step
    \/ End
    \/ calls = 0 /\ \E call \in Starts : Begin(call)
    \/ calls \in 1..MaxCalls /\ \E call \in Calls : Begin(call) \/ Refuse(call)

Spec == Init /\ [][Next]_vars

-----------------------------------------------------------------------------
\* Every document is found by its id, at the place the primary index says,
\* and every secondary index holds exactly the keys of the documents there
\* are, each leading to its document: what check() looks for.  It holds of
\* the copy a call works on after every operation, so also of what a failed
\* or a dry call throws away.
EntriesMatch(c) ==
    /\ DOMAIN c.heap = {c.primary[id] : id \in DOMAIN c.primary}
    /\ \A id \in DOMAIN c.primary : c.heap[c.primary[id]].id = id
    /\ \A i \in DOMAIN c.indexes :
        LET index == c.indexes[i]
        IN  c.trees[index.root] =
                [k \in FilledKeys(c, index) |-> c.primary[IdOfKey(k)]]

EntriesMatchDocs == EntriesMatch(coll) /\ EntriesMatch(work)

-----------------------------------------------------------------------------
(* The inductive invariant behind it: the indexes have trees of their own, *)
(* and a unique one no two documents it finds equal.                       *)
OwnTrees(c) ==
    /\ c.indexes \in Seq(Range(c.indexes))
    /\ \A i \in DOMAIN c.indexes : c.indexes[i].root \in DOMAIN c.trees
    /\ \A i, j \in DOMAIN c.indexes :
          c.indexes[i].root = c.indexes[j].root
          \/ c.indexes[i].fields = c.indexes[j].fields => i = j

Sound(c) ==
    /\ c = [heap |-> c.heap, primary |-> c.primary,
            indexes |-> c.indexes, trees |-> c.trees]
    /\ OwnTrees(c)
    /\ EntriesMatch(c)

IInv == Sound(coll) /\ Sound(work)

(* A unique index holds no two documents with values it finds equal.       *)
NoneTwice(c) ==
    \A i \in DOMAIN c.indexes : c.indexes[i].unique =>
        \A d, e \in DOMAIN c.primary :
            (\E t \in Tuples(DocAt(c, d), c.indexes[i]),
                u \in Tuples(DocAt(c, e), c.indexes[i]) :
                  SameValues(t.values, u.values)) => d = e

UniquesHold == NoneTwice(coll) /\ NoneTwice(work)

(* What the filters of a call are answered from the copy it works on: what *)
(* a hint can't lead to is refused, and what is found is what matches.     *)
IsMatched(ids, matching) ==
    \/ ids = <<>> /\ matching = {}
    \/ ids # <<>> /\ ~(Len(ids) > 1) /\ matching = {ids[1]}
    \/ ids # <<>> /\ Len(ids) > 1 /\ \E d, e \in matching : d # e

IsAnswered(c, filter, answers, matching) ==
    IF HintFollowed(filter, c.indexes)
    THEN /\ Found(c, filter) \in answers
         /\ \A i \in DOMAIN Found(c, filter) : Found(c, filter)[i] \in DOMAIN c.primary
         /\ IsMatched(Matched(c, filter), matching)
    ELSE filter.hint[1] = "index"

AsksFilter(op) ==
    op[1] \in {"require", "update_many", "delete_many", "upsert", "upsert_fields"}

ReadsRight ==
    running # "idle" /\ todo # <<>> /\ AsksFilter(Head(todo)) =>
        LET filter == Head(todo)[2]
        IN  IsAnswered(work, filter, Answers(DocsOf(work), filter),
                       Matching(DocsOf(work), filter))

-----------------------------------------------------------------------------
Staged(c) == [docs |-> DocsOf(c), declared |-> DeclaredOf(c)]

Set == INSTANCE DocumentSet WITH
    docs <- DocsOf(coll), declared <- DeclaredOf(coll), staged <- Staged(work),
    Calls <- Calls \cup Starts

\* A call does to the documents what the same call does to a plain set of
\* documents, operation by operation: whatever the keys hold, a unique
\* index refuses a write exactly where another document has equal values; a
\* filter's update, delete, precondition or upsert goes to the documents
\* that match; and a call that fails, or a dry run, leaves all as it was
\* (Batch::run, apply_write_op, update_secondary_indexes, only_match).
ImplementsDocuments == Set!Spec
=============================================================================
