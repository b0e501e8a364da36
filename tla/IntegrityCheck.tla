--------------------------- MODULE IntegrityCheck ---------------------------
(***************************************************************************)
(* Database::check of one collection (src/src/check.rs): the documents are *)
(* read one at a time and an index is checked entry by entry, without a    *)
(* list of what it should hold.  Right entries are counted; only where     *)
(* there are fewer than the documents call for, or the order is broken, a  *)
(* second pass names what is missing.                                      *)
(*                                                                         *)
(* A file is a collection as it is found, damaged or not: a record [heap,  *)
(* primary, indexes, lists], where lists holds for each root the entries   *)
(* [key, loc] in the order a walk meets them.  A place outside the domain  *)
(* of the heap can't be read.  A problem is a tuple that begins with its   *)
(* kind.  Who owns which page is left to the models of the heap and of the *)
(* trees.                                                                  *)
(***************************************************************************)
EXTENDS Documents

Unreadable(file) == {id \in DOMAIN file.primary : file.primary[id] \notin DOMAIN file.heap}
Filed(file) ==
    {id \in DOMAIN file.primary \ Unreadable(file) : file.heap[file.primary[id]].id = id}
FiledDoc(file, id) == file.heap[file.primary[id]].doc

\* check_collection, the walk of the primary index: what it says of the
\* documents, and how many entries they call for.
DocumentProblems(file) ==
    {<<"unreadable", id>> : id \in Unreadable(file)}
        \cup {<<"misfiled", id>> : id \in DOMAIN file.primary \ (Unreadable(file) \cup Filed(file))}
        \cup {<<"not_an_object", id>> : id \in {i \in Filed(file) : FiledDoc(file, i)[1] # "object"}}

Expected(file, index) ==
    MapThenSumSet(LAMBDA id : Cardinality(IndexKeys(FiledDoc(file, id), index, id)), Filed(file))

\* entry_is_right
EntryIsRight(file, index, e) ==
    LET id == KeyId(e.key)
    IN  /\ id \in Filed(file) /\ file.primary[id] = e.loc
        /\ e.key \in IndexKeys(FiledDoc(file, id), index, id)

\* report_equal_values: of documents' values each with the first equal one
\* of another document after it.
ReportEqual(root, seen) ==
    LET equal(i) == {j \in (i + 1)..Len(seen) :
                        seen[j].id # seen[i].id /\ SameTuple(seen[i].values, seen[j].values)}
    IN  {<<"shared", root, {seen[i].id, seen[CHOOSE j \in equal(i) : \A k \in equal(i) : j <= k].id}>> :
            i \in {n \in DOMAIN seen : equal(n) # {}}}

\* The values of a document under one part of a key.
ValuesUnder(doc, index, id, part) ==
    LET under == SetToSeq({t \in UniqueTuples(doc, index) : t.part = part})
    IN  [n \in DOMAIN under |-> [id |-> id, values |-> under[n].values]]

\* same_in_run
SameInRun(file, index, part, run) ==
    IF Len(run) < 2 THEN {}
    ELSE ReportEqual(index.root, FlattenSeq([n \in DOMAIN run |->
            ValuesUnder(file.heap[run[n].loc].doc, index, KeyId(run[n].key), part)]))

\* check_index, one entry of the walk: Order::see, then the entry itself,
\* and for a unique index the run of right entries of one part.
SeeEntry(file, index, st, e) ==
    LET id    == KeyId(e.key)
        ends  == st.last # <<>> /\ ~st.broken /\ ~LexLess(st.last, e.key)
        seen  == [st EXCEPT !.last = e.key, !.broken = @ \/ ends,
                            !.problems = @ \cup (IF ends THEN {<<"order", index.root, id>>} ELSE {})]
        other == ValuePart(e.key) # st.part
    IN  IF id \in Unreadable(file) THEN seen
        ELSE IF ~EntryIsRight(file, index, e)
        THEN [seen EXCEPT !.problems = @ \cup {<<"entry", index.root, id>>}]
        ELSE IF ~index.unique THEN [seen EXCEPT !.right = @ + 1]
        ELSE [seen EXCEPT !.right = @ + 1, !.part = ValuePart(e.key),
                          !.run = IF other THEN <<e>> ELSE Append(@, e),
                          !.problems = @ \cup (IF other THEN SameInRun(file, index, st.part, st.run)
                                               ELSE {})]

-----------------------------------------------------------------------------
\* BTreeIndex::lookup and a walk of a range, in a tree of one leaf: a binary
\* search for the first key not below, whatever order the keys are in.
RECURSIVE LowerBound(_, _, _, _)
LowerBound(list, key, low, high) ==
    LET mid == (low + high) \div 2
    IN  IF low >= high THEN low
        ELSE IF LexLess(list[mid].key, key) THEN LowerBound(list, key, mid + 1, high)
        ELSE LowerBound(list, key, low, mid)

SearchLeaf(list, key) ==
    LET at == LowerBound(list, key, 1, Len(list) + 1)
    IN  IF at > Len(list) THEN <<>> ELSE IF list[at].key = key THEN <<list[at].loc>> ELSE <<>>

WalkPrefixed(list, part) ==
    LET range == Prefixed(part)
        from  == LowerBound(list, range.start, 1, Len(list) + 1)
        past  == {n \in from..Len(list) : range.end # NoEnd /\ ~LexLess(list[n].key, range.end)}
        to    == IF past = {} THEN Len(list) ELSE (CHOOSE n \in past : \A m \in past : n <= m) - 1
    IN  SubSeq(list, from, to)

\* name_missing, of one document.
MissingOf(file, index, id) ==
    LET doc   == FiledDoc(file, id)
        list  == file.lists[index.root]
        gone  == {k \in IndexKeys(doc, index, id) : SearchLeaf(list, k) # <<file.primary[id]>>}
        others(part) == SelectSeq(WalkPrefixed(list, part), LAMBDA e :
                            /\ ValuePart(e.key) = part /\ KeyId(e.key) # id
                            /\ e.loc \in DOMAIN file.heap /\ file.heap[e.loc].id = KeyId(e.key))
        beside(tuple) ==
            <<[id |-> id, values |-> tuple.values]>>
                \o FlattenSeq([n \in DOMAIN others(tuple.part) |->
                        LET e == others(tuple.part)[n]
                        IN  ValuesUnder(file.heap[e.loc].doc, index, KeyId(e.key), tuple.part)])
        byId(seen) == FlattenSeq([n \in 1..Cardinality({seen[i].id : i \in DOMAIN seen}) |->
                        SelectSeq(seen, LAMBDA x :
                            n = Cardinality({seen[i].id : i \in {j \in DOMAIN seen : seen[j].id <= x.id}}))])
    IN  {<<"lacks", index.root, id>> : k \in gone}
            \cup (IF index.unique
                  THEN UNION {ReportEqual(index.root, byId(beside(t))) : t \in UniqueTuples(doc, index)}
                  ELSE {})

\* Mutant: what is missing is looked for only where entries are too few.
CheckIndexByCount(file, index) ==
    LET start == [last |-> <<>>, broken |-> FALSE, right |-> 0, run |-> <<>>, part |-> <<>>, problems |-> {}]
        end   == FoldLeft(LAMBDA st, e : SeeEntry(file, index, st, e), start, file.lists[index.root])
    IN  end.problems \cup SameInRun(file, index, end.part, end.run)
            \cup (IF end.right < Expected(file, index)
                  THEN UNION {MissingOf(file, index, id) : id \in Filed(file)} ELSE {})

\* check_index
CheckIndex(file, index) ==
    LET start == [last |-> <<>>, broken |-> FALSE, right |-> 0, run |-> <<>>, part |-> <<>>, problems |-> {}]
        end   == FoldLeft(LAMBDA st, e : SeeEntry(file, index, st, e), start, file.lists[index.root])
    IN  end.problems \cup SameInRun(file, index, end.part, end.run)
            \cup (IF end.right < Expected(file, index) \/ end.broken
                  THEN UNION {MissingOf(file, index, id) : id \in Filed(file)} ELSE {})

\* check_collection
CheckCollection(file) ==
    DocumentProblems(file)
        \cup UNION {CheckIndex(file, file.indexes[i]) : i \in DOMAIN file.indexes}

-----------------------------------------------------------------------------
\* What a check should say, from the documents: an entry is due for each key
\* of a document that can be read.
InOrder(list) == \A n \in 1..(Len(list) - 1) : LexLess(list[n].key, list[n + 1].key)
Entries(list) == {<<list[n].key, list[n].loc>> : n \in DOMAIN list}
Due(file, index) ==
    UNION {{<<k, file.primary[id]>> : k \in IndexKeys(FiledDoc(file, id), index, id)} : id \in Filed(file)}
Share(file, index, a, b) ==
    \E t \in UniqueTuples(FiledDoc(file, a), index), u \in UniqueTuples(FiledDoc(file, b), index) :
        SameTuple(t.values, u.values)

\* A file is sound where every document is filed under its id, every index
\* holds the entries due, in order, and a unique one no value twice.
SoundIndex(file, index) ==
    LET list == file.lists[index.root]
    IN  /\ InOrder(list) /\ Entries(list) = Due(file, index)
        /\ index.unique => ~\E a, b \in Filed(file) : a # b /\ Share(file, index, a, b)

SoundFile(file) ==
    /\ Filed(file) = DOMAIN file.primary
    /\ \A id \in Filed(file) : FiledDoc(file, id)[1] = "object"
    /\ \A i \in DOMAIN file.indexes : SoundIndex(file, file.indexes[i])

\* Every document whose entry is missing is named, though as many right
\* entries as are due may be there; every entry that is not due; and each
\* document that shares a value, unless all entries that would show it are
\* gone.
NamesDamage(file, index, problems) ==
    LET list  == file.lists[index.root]
        due   == Due(file, index)
        gone  == {KeyId(d[1]) : d \in due \ Entries(list)}
        wrong == {KeyId(e[1]) : e \in Entries(list) \ due} \ Unreadable(file)
        pairs == {p[3] : p \in {q \in problems : q[1] = "shared" /\ q[2] = index.root}}
        shown(id) == \A d \in due : KeyId(d[1]) = id => d \in Entries(list)
    IN  /\ \A id \in gone : <<"lacks", index.root, id>> \in problems
        /\ wrong = {p[3] : p \in {q \in problems : q[1] = "entry" /\ q[2] = index.root}}
        /\ InOrder(list) =>
            /\ gone = {p[3] : p \in {q \in problems : q[1] = "lacks" /\ q[2] = index.root}}
            /\ \A pair \in pairs : \A a, b \in pair : a # b => Share(file, index, a, b)
            /\ index.unique => \A a, b \in Filed(file) :
                    a # b /\ Share(file, index, a, b) /\ (shown(a) \/ shown(b)) => a \in UNION pairs
=============================================================================
