----------------------------- MODULE DocumentSet ----------------------------
(***************************************************************************)
(* What a collection promises to those who write to it: a set of           *)
(* documents by id and the indexes declared on it, changed by calls that   *)
(* take effect whole or not at all.  The operations of a call are made one *)
(* after another on a staged copy; a unique index lets no two documents    *)
(* have equal values, and a filter finds the documents that match it, in   *)
(* its order.  There are no locations, keys or index entries here.         *)
(***************************************************************************)
EXTENDS Integers, Sequences, SequencesExt

CONSTANTS
    Calls,                  \* the calls: records [ops, dry]
    Answers(_, _),          \* docs, filter: the sequences of ids it may find
    Matching(_, _),         \* docs, filter: the ids whose documents match
    TuplesOf(_, _),         \* doc, index: what a unique index compares
    SameValues(_, _),       \* whether two tuples collide
    WithId(_, _),           \* doc, id: the document with its id
    Changed(_, _, _),       \* update, doc, inserting: at most one document
    SeedOf(_),              \* filter: the document an upsert starts from
    Refused(_),             \* a document nested too deep
    Invalid(_)              \* an operation wrong as written

VARIABLES
    docs, declared,         \* the documents by id, the indexes
    staged,                 \* [docs, declared], what the running call has made
    todo, counts,           \* its operations left, what those done wrote
    running,                \* "idle", "commit" or "dry"
    outcome                 \* how the last call ended

vars == <<docs, declared, staged, todo, counts, running, outcome>>

NoDocs == [docs |-> [id \in {} |-> 0], declared |-> {}]

Init ==
    /\ docs = NoDocs.docs /\ declared = {} /\ staged = NoDocs
    /\ todo = <<>> /\ counts = <<>> /\ running = "idle" /\ outcome = <<"none">>

Begin(call) ==
    /\ running = "idle" /\ ~\E i \in DOMAIN call.ops : Invalid(call.ops[i])
    /\ running' = IF call.dry THEN "dry" ELSE "commit"
    /\ staged' = [docs |-> docs, declared |-> declared]
    /\ todo' = call.ops /\ counts' = <<>> /\ outcome' = <<"none">>
    /\ UNCHANGED <<docs, declared>>

Refuse(call) ==
    /\ running = "idle" /\ \E i \in DOMAIN call.ops : Invalid(call.ops[i])
    /\ outcome' = <<"failed", "invalid">>
    /\ UNCHANGED <<docs, declared, staged, todo, counts, running>>

Fail(error) ==
    /\ running' = "idle" /\ outcome' = <<"failed", error>>
    /\ staged' = NoDocs /\ todo' = <<>> /\ counts' = <<>>
    /\ UNCHANGED <<docs, declared>>

\* The operation made: what it leaves staged, what it adds to the count.
Made(now, ops, written) ==
    /\ staged' = now /\ todo' = ops \o Tail(todo) /\ counts' = written
    /\ UNCHANGED <<docs, declared, running, outcome>>

Counted(n) == Append(counts, n)
\* A document of an operation on several counts with the others.
CountedToo(n) == Append(Front(counts), Last(counts) + n)

\* Another document has values a unique index finds equal.
Collides(index, id, doc) ==
    \E other \in DOMAIN staged.docs \ {id} :
        \E t \in TuplesOf(doc, index), u \in TuplesOf(staged.docs[other], index) :
            SameValues(t, u)

Duplicate(id, doc) == \E index \in staged.declared : index.unique /\ Collides(index, id, doc)

Put(id, doc, written) ==
    IF Refused(doc) THEN Fail("too_deep")
    ELSE IF Duplicate(id, doc) THEN Fail("duplicate_value")
    ELSE Made([staged EXCEPT !.docs = [d \in DOMAIN staged.docs \cup {id} |->
                                        IF d = id THEN doc ELSE staged.docs[d]]], <<>>, written)

Replace(id, doc, written) ==
    IF id \notin DOMAIN staged.docs THEN Fail("not_found") ELSE Put(id, doc, written)

Erase(id, written) ==
    IF id \notin DOMAIN staged.docs THEN Fail("not_found")
    ELSE Made([staged EXCEPT !.docs = [d \in DOMAIN staged.docs \ {id} |-> staged.docs[d]]],
              <<>>, written)

Insert(id, doc) ==
    IF id \in DOMAIN staged.docs THEN Fail("duplicate_id")
    ELSE Put(id, WithId(doc, id), Counted(1))

Update(id, doc) == Replace(id, WithId(doc, id), Counted(1))

Delete(id) == Erase(id, Counted(1))

\* An update that leaves a document as it was writes nothing: the counts
\* with one that doesn't, and with one that does.
Change(id, old, update, none, one) ==
    LET new == Changed(update, old, FALSE)
    IN  IF new = <<>> THEN Fail("update")
        ELSE IF WithId(new[1], id) = old THEN Made(staged, <<>>, none)
        ELSE Replace(id, WithId(new[1], id), one)

Fields(id, update) ==
    IF id \notin DOMAIN staged.docs THEN Fail("not_found")
    ELSE Change(id, staged.docs[id], update, Counted(0), Counted(1))

Require(filter, none) ==
    IF (Matching(staged.docs, filter) # {}) = none THEN Fail("precondition")
    ELSE Made(staged, <<>>, Counted(0))

\* Every document a filter finds is changed as it was found, or deleted,
\* one after the other.
UpdateMany(filter, update) ==
    \E found \in Answers(staged.docs, filter) :
        Made(staged, [i \in DOMAIN found |->
                        <<"change", found[i], staged.docs[found[i]], update>>], Counted(0))

DeleteMany(filter) ==
    \E found \in Answers(staged.docs, filter) :
        Made(staged, [i \in DOMAIN found |-> <<"doomed", found[i]>>], Counted(0))

\* An upsert writes the one match, or inserts; several are refused.
Upsert(filter, doc, new) ==
    LET ids == Matching(staged.docs, filter)
    IN  \/ /\ ids = {}
           /\ Made(staged, <<<<"insert", new, doc>>>>, counts)
        \/ \E id \in ids : ids = {id} /\ Made(staged, <<<<"update", id, doc>>>>, counts)
        \/ /\ \E d, e \in ids : d # e
           /\ Fail("multiple")

UpsertFields(filter, update, new) ==
    LET ids == Matching(staged.docs, filter)
        id  == IF SeedOf(filter).id = <<>> THEN new ELSE SeedOf(filter).id[1]
        doc == Changed(update, SeedOf(filter).doc, TRUE)
    IN  \/ /\ ids = {} /\ doc = <<>>
           /\ Fail("update")
        \/ /\ ids = {} /\ doc # <<>>
           /\ Made(staged, <<<<"insert", id, doc[1]>>>>, counts)
        \/ \E d \in ids : ids = {d} /\ Made(staged, <<<<"fields", d, update>>>>, counts)
        \/ /\ \E d, e \in ids : d # e
           /\ Fail("multiple")

\* An index on fields that have one is left alone, or refused.
EnsureIndex(asked) ==
    LET index == [fields |-> asked.fields, unique |-> asked.unique, sparse |-> asked.sparse]
        there == {i \in staged.declared : i.fields = index.fields}
        clash == index.unique /\ \E id \in DOMAIN staged.docs :
                                    Collides(index, id, staged.docs[id])
    IN  IF there = {index} THEN Made(staged, <<>>, Counted(0))
        ELSE IF there # {} THEN Fail("other_options")
        ELSE IF clash THEN Fail("duplicate_value")
        ELSE Made([staged EXCEPT !.declared = @ \cup {index}], <<>>, Counted(1))

DropIndex(fields) ==
    LET left == {i \in staged.declared : i.fields # fields}
    IN  Made([staged EXCEPT !.declared = left], <<>>,
             Counted(IF left = staged.declared THEN 0 ELSE 1))

Operation(op) ==
    \/ op[1] = "insert" /\ Insert(op[2], op[3])
    \/ op[1] = "update" /\ Update(op[2], op[3])
    \/ op[1] = "delete" /\ Delete(op[2])
    \/ op[1] = "fields" /\ Fields(op[2], op[3])
    \/ op[1] = "require" /\ Require(op[2], op[3])
    \/ op[1] = "update_many" /\ UpdateMany(op[2], op[3])
    \/ op[1] = "delete_many" /\ DeleteMany(op[2])
    \/ op[1] = "change" /\ Change(op[2], op[3], op[4], CountedToo(0), CountedToo(1))
    \/ op[1] = "doomed" /\ Erase(op[2], CountedToo(1))
    \/ op[1] = "upsert" /\ Upsert(op[2], op[3], op[4])
    \/ op[1] = "upsert_fields" /\ UpsertFields(op[2], op[3], op[4])
    \/ op[1] = "ensure_index" /\ EnsureIndex(op[2])
    \/ op[1] = "drop_index" /\ DropIndex(op[2])
    \/ op[1] = "drop" /\ Made(NoDocs, <<>>, Counted(1))

\* A filter whose hint no plan can follow may be refused.
Hinted(op) == op[1] \in {"require", "update_many", "delete_many", "upsert", "upsert_fields"}
              /\ op[2].hint[1] = "index"

Step ==
    /\ running # "idle" /\ todo # <<>>
    /\ \/ Operation(Head(todo))
       \/ Hinted(Head(todo)) /\ Fail("hint")

\* A dry run leaves the documents as they were.
End ==
    /\ running # "idle" /\ todo = <<>>
    /\ outcome' = <<"done", counts>> /\ running' = "idle"
    /\ docs' = IF running = "commit" THEN staged.docs ELSE docs
    /\ declared' = IF running = "commit" THEN staged.declared ELSE declared
    /\ staged' = NoDocs /\ counts' = <<>> /\ UNCHANGED todo

Next == Step \/ End \/ \E call \in Calls : Begin(call) \/ Refuse(call)

Spec == Init /\ [][Next]_vars
=============================================================================
