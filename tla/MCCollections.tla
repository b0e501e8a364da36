---------------------------- MODULE MCCollections ---------------------------
(* Three ids, fields a, b, o.p and tags, values on both sides of what keys  *)
(* tell apart: 4 and 5 share a key, the two long strings too.               *)
EXTENDS CollectionReads

MCLower == [b \in {11} |-> 1]

A == <<"a">>
B == <<"b">>
OP == <<"o", "p">>
Tags == <<"tags", "*">>

I(n) == <<"int", n>>
F(h) == <<"float", h>>
S(bytes) == <<"str", bytes>>
Long(b) == S(<<1, 1, 1, 1, 1, 1, 1, 1, 1, b>>)
Arr(values) == <<"array", values>>
T(t) == <<"time", t>>
Nan == <<"nan">>
Yes == <<"bool", 1>>
Obj(fields) == <<"object", fields>>

\* Indexes.
On(fields, unique, sparse) == [fields |-> fields, unique |-> unique, sparse |-> sparse]
OnA == On(<<A>>, FALSE, FALSE)
UniqueA == On(<<A>>, TRUE, FALSE)
SparseB == On(<<B>>, FALSE, TRUE)
OnAB == On(<<A, B>>, FALSE, FALSE)
SparseAB == On(<<A, B>>, FALSE, TRUE)
OnTags == On(<<Tags>>, FALSE, FALSE)
UniqueTags == On(<<Tags>>, TRUE, FALSE)
OnBP == On(<<B, OP>>, FALSE, FALSE)

\* Populations: what the first three ids hold.
Inserts(docs) == [i \in DOMAIN docs |-> <<"insert", i, docs[i]>>]
Ensures(indexes) == [i \in DOMAIN indexes |-> <<"ensure_index", indexes[i]>>]

Populations ==
    { <<Obj([a |-> I(4), b |-> I(1)]), Obj([a |-> I(5), b |-> I(1)]), Obj([a |-> F(8), b |-> I(0)])>>,
      <<Obj([a |-> Long(2), b |-> I(1)]), Obj([a |-> Long(1), b |-> Yes]), Obj([b |-> I(2)])>>,
      <<Obj([a |-> F(2), b |-> Arr(<<>>)]), Obj([a |-> I(1), b |-> S(<<1>>)]), Obj([a |-> I(1), b |-> I(2)])>>,
      <<Obj([a |-> Arr(<<I(1)>>), b |-> I(1)]), Obj([a |-> Nan, b |-> I(2)]), Obj([a |-> S(<<1>>)])>>,
      <<Obj([a |-> F(2), tags |-> Arr(<<I(1), F(2), I(4)>>)]), Obj([a |-> I(0), tags |-> Arr(<<I(5)>>)]),
        Obj([a |-> S(<<11, 2>>), tags |-> I(1)])>>,
      <<Obj([b |-> I(1), o |-> Obj([p |-> I(1)])]), Obj([b |-> I(1), o |-> Obj([p |-> S(<<2>>), q |-> I(1)])]),
        Obj([o |-> I(1)])>>,
      <<Obj([a |-> I(1), b |-> Nan]), Obj([a |-> I(1), b |-> F(1)]), Obj([a |-> I(5), b |-> I(1)]),
        Obj([a |-> I(4), b |-> Arr(<<>>)])>>,
      <<Obj([a |-> S(<<1>>), b |-> T(4)]), Obj([a |-> S(<<1>>), b |-> T(5)]), Obj([a |-> S(<<2>>), b |-> T(9)]),
        Obj([a |-> S(<<1>>), b |-> I(9)])>> }

IndexSets == { <<>>, <<OnA, SparseB>>, <<SparseAB, OnTags>>, <<OnBP, UniqueA>>, <<OnAB, OnA, OnBP>> }

MCStarts == { [ops |-> Ensures(i) \o Inserts(p), dry |-> FALSE] : i \in IndexSets, p \in Populations }

\* Filters.
NoFilter == [conditions |-> <<>>, sort |-> <<>>, skip |-> 0, limit |-> <<>>,
             hint |-> <<"none">>, select |-> <<>>]
Where(cs) == [NoFilter EXCEPT !.conditions = cs]
Cmp(path, op, value) == <<"compare", path, op, value>>
Asc(path) == [field |-> path, order |-> "asc"]
Desc(path) == [field |-> path, order |-> "desc"]

Conditions ==
    { <<>>,
      <<Cmp(A, "eq", I(4))>>,
      <<Cmp(A, "gte", I(1)), Cmp(B, "ne", I(1))>>,
      <<Cmp(A, "lt", I(5))>>,
      <<Cmp(A, "eq", I(1)), Cmp(B, "gt", I(0))>>,
      <<Cmp(A, "gte", I(1)), Cmp(B, "ne", S(<<1>>))>>,
      <<Cmp(B, "eq", I(1))>>,
      <<Cmp(A, "starts_with", S(<<1, 1>>))>>,
      <<Cmp(A, "contains", S(<<1>>))>>,
      <<<<"any", <<Cmp(A, "eq", I(1)), Cmp(A, "eq", Long(1)), Cmp(A, "eq", I(5))>>>>>>,
      <<<<"any", <<Cmp(A, "eq", I(1)), Cmp(B, "eq", I(1))>>>>>>,
      <<<<"any", <<Cmp(A, "eq", I(4)), Cmp(IdPath, "eq", <<"id", 1>>)>>>>>>,
      <<Cmp(IdPath, "gt", <<"id", 1>>)>>,
      <<Cmp(IdPath, "eq", <<"id", 2>>)>>,
      <<Cmp(Tags, "eq", I(4)), Cmp(Tags, "lt", I(4))>>,
      <<<<"elem", <<"tags">>, Cmp(<<>>, "gt", I(1))>>>>,
      <<<<"not", Cmp(A, "eq", Arr(<<I(1)>>))>>>>,
      <<Cmp(A, "eq", Null)>>,
      <<Cmp(B, "eq", I(1)), Cmp(OP, "gte", I(1))>>,
      <<<<"exists", A>>, Cmp(B, "lte", I(1))>> }

Sorts == { <<>>, <<Asc(A)>>, <<Desc(A)>>, <<Asc(A), Asc(B)>>, <<Desc(A), Desc(B)>>,
           <<Asc(B), Desc(A)>>, <<Desc(IdPath)>> }

Paths(select, except) == <<[root |-> select, except |-> except]>>

\* Hints, selections an entry answers or doesn't, and pages of nothing.
Special ==
    { [Where(<<Cmp(A, "gte", I(1))>>) EXCEPT !.hint = <<"no_index">>, !.sort = <<Asc(B)>>],
      [Where(<<Cmp(A, "gte", I(1))>>) EXCEPT !.hint = <<"index", <<A>>>>, !.select = Paths({A}, {})],
      [Where(<<Cmp(B, "gt", I(0))>>) EXCEPT !.hint = <<"index", <<A, B>>>>],
      [Where(<<Cmp(A, "gte", I(0))>>) EXCEPT !.hint = <<"index", <<IdPath>>>>, !.limit = <<1>>],
      [Where(<<Cmp(A, "lte", I(5))>>) EXCEPT !.select = Paths({IdPath, A}, {}), !.sort = <<Asc(A)>>],
      [Where(<<>>) EXCEPT !.select = Paths({A, B}, {}), !.sort = <<Asc(A), Asc(B)>>, !.limit = <<2>>],
      [Where(<<Cmp(B, "eq", I(1))>>) EXCEPT !.select = Paths({OP}, {}), !.sort = <<Desc(OP)>>],
      [Where(<<Cmp(A, "eq", I(1))>>) EXCEPT !.select = Paths({}, {B, <<"o", "q">>})],
      [Where(<<<<"any", <<Cmp(A, "eq", I(1)), Cmp(A, "eq", I(4))>>>>>>)
            EXCEPT !.sort = <<Asc(IdPath)>>, !.limit = <<2>>],
      [Where(<<<<"any", <<Cmp(A, "eq", I(1)), Cmp(A, "eq", I(5)), Cmp(A, "eq", Long(1))>>>>, Cmp(B, "ne", I(2))>>)
            EXCEPT !.sort = <<Desc(IdPath)>>, !.limit = <<2>>, !.select = Paths({A}, {})],
      [Where(<<<<"any", <<Cmp(A, "eq", I(4)), Cmp(B, "eq", I(1))>>>>>>)
            EXCEPT !.sort = <<Asc(IdPath)>>, !.limit = <<2>>],
      [Where(<<Cmp(A, "gte", I(1))>>) EXCEPT !.limit = <<0>>],
      [Where(<<Cmp(A, "lt", Long(2))>>) EXCEPT !.sort = <<Asc(A)>>, !.limit = <<1>>] }

EveryFilter ==
    Special \cup
    { [Where(c) EXCEPT !.sort = s, !.skip = k, !.limit = IF s = <<>> /\ k = 0 THEN <<>> ELSE <<2>>] :
        c \in Conditions, s \in Sorts, k \in {0, 1} }

\* After a call, what its writes could have disturbed.
Again ==
    { [Where(c) EXCEPT !.sort = s, !.limit = IF s = <<>> THEN <<>> ELSE <<2>>] :
        c \in {<<>>, <<Cmp(A, "lt", I(5))>>, <<Cmp(B, "eq", I(1))>>,
               <<<<"any", <<Cmp(A, "eq", I(1)), Cmp(A, "eq", I(5))>>>>>>,
               <<Cmp(Tags, "eq", I(4))>>},
        s \in {<<>>, <<Desc(A), Desc(B)>>} }

MCAsked(after) == IF after = 1 THEN EveryFilter ELSE Again

FirstTwo(filter) == [filter EXCEPT !.sort = <<Asc(A)>>, !.limit = <<2>>]

\* Aggregates.
Column(name, kind, path) == [name |-> name, kind |-> kind, path |-> path, condition |-> <<>>, by |-> <<>>]
N == Column("n", "count", <<>>)
Of(kind, path) == Column(kind, kind, <<path>>)
Only(column, condition) == [column EXCEPT !.name = "only", !.condition = <<condition>>]
Total(by, columns) ==
    [groupBy |-> by, columns |-> columns, rows |-> NoFilter, window |-> <<>>, unwind |-> <<>>]

Totals ==
    { Total(<<>>, <<N>>), Total(<<A>>, <<N>>), Total(<<A, B>>, <<N, Only(N, Cmp(B, "gt", I(0)))>>),
      Total(<<A>>, <<N, Of("min", B), Of("max", B), Of("count_distinct", B)>>),
      Total(<<B>>, <<Of("avg", A), Only(N, Cmp(A, "lt", I(5)))>>),
      Total(<<>>, <<Of("max", A), Of("min", A), Of("avg", B)>>),
      Total(<<A>>, <<Of("sum", B), Of("first", B), [Of("last", B) EXCEPT !.by = <<B>>]>>),
      [Total(<<<<"tags">>>>, <<N, Of("first", A)>>) EXCEPT !.unwind = <<<<"tags">>>>],
      [Total(<<A>>, <<N>>) EXCEPT !.rows = [NoFilter EXCEPT !.conditions = <<Cmp(<<"n">>, "gte", I(1))>>,
                                                           !.sort = <<Desc(<<"n">>)>>, !.limit = <<2>>]],
      [Total(<<A>>, <<N, Of("max", B)>>) EXCEPT !.window = <<[path |-> B, back |-> 4]>>],
      Total(<<A, <<"a", "x">>>>, <<N>>), Total(<<A>>, <<Column("a", "count", <<>>)>>) }

MCTotalled(after) ==
    IF after = 1
    THEN {NoFilter, Where(<<Cmp(A, "eq", I(4))>>), Where(<<Cmp(A, "gte", I(1))>>), Where(<<Cmp(A, "gte", S(<<1>>)), Cmp(B, "ne", I(1))>>),
          FirstTwo(NoFilter)} \X Totals
    ELSE {NoFilter} \X {Total(<<A>>, <<N, Of("min", B)>>), Total(<<B>>, <<N, Of("count_distinct", A)>>)}

\* Damage: an entry lost, doubled, moved or with another id, neighbours
\* swapped; a document unreadable, another's or no object; an id lost.
Put(file, root, list) == [file EXCEPT !.lists[root] = list]
DamagesOf(file, root) ==
    LET list == file.lists[root]
        n    == Len(list)
    IN  {Put(file, root, RemoveAt(list, i)) : i \in 1..n}
          \cup {Put(file, root, InsertAt(list, i, list[i])) : i \in 1..n}
          \cup {Put(file, root, [list EXCEPT ![i].loc = IF @ = 1 THEN 2 ELSE 1]) : i \in 1..n}
          \cup {Put(file, root, [list EXCEPT ![i].key = Append(Front(@), IF Last(@) = 1 THEN 2 ELSE 1)]) : i \in 1..n}
          \cup {Put(file, root, [list EXCEPT ![i] = list[i + 1], ![i + 1] = list[i]]) : i \in 1..(n - 1)}

OfDocuments(file) ==
    {[file EXCEPT !.heap = [m \in DOMAIN @ \ {l} |-> @[m]]] : l \in DOMAIN file.heap}
      \cup {[file EXCEPT !.primary = [d \in DOMAIN @ \ {id} |-> @[d]]] : id \in DOMAIN file.primary}
      \cup {[file EXCEPT !.primary[1] = file.primary[2]], [file EXCEPT !.heap[1].id = 2],
            [file EXCEPT !.heap[1].doc = I(1)], [file EXCEPT !.heap[1].doc = file.heap[2].doc]}

Rooted(file) == {file.indexes[i].root : i \in DOMAIN file.indexes}
AsUnique(file) == [file EXCEPT !.indexes = [i \in DOMAIN @ |-> [@[i] EXCEPT !.unique = TRUE]]]

MCDamages(file, after) ==
    LET one == UNION {DamagesOf(file, r) : r \in Rooted(file)}
        two == UNION {UNION {DamagesOf(f, r) : f \in DamagesOf(file, r)} : r \in Rooted(file)}
        all == {file} \cup one \cup two \cup OfDocuments(file)
    IN  IF after > 1 THEN {file} ELSE all \cup {AsUnique(f) : f \in all}

\* Calls.
Commit(ops) == [ops |-> ops, dry |-> FALSE]
Dry(ops) == [ops |-> ops, dry |-> TRUE]
Set1(path, value) == <<<<"set", path, value>>>>
Full == Obj([a |-> I(5), b |-> I(1), tags |-> Arr(<<I(4)>>)])
Deep == Obj([o |-> Obj([p |-> Arr(<<Arr(<<>>)>>)])])
Eq(path, value) == Where(<<Cmp(path, "eq", value)>>)

ManyChanges ==
    <<<<"rename", A, <<"o", "q">>>>, <<"unset", B>>, <<"push", <<"tags">>, <<I(4), I(5)>>>>,
      <<"add_to_set", <<"tags">>, F(8)>>, <<"pull", <<"tags">>, I(1)>>,
      <<"pop_first", <<"tags">>>>, <<"max", A, I(1)>>, <<"min", B, I(0)>>,
      <<"mul", <<"n">>, I(2)>>, <<"set_on_insert", <<"n">>, I(2)>>>>

MCCalls ==
    { Commit(<<<<"insert", 5, Full>>>>),
      Commit(<<<<"insert", 5, Obj([a |-> Long(1)])>>>>),
      Commit(<<<<"insert", 1, Full>>>>),
      Commit(<<<<"insert", 5, Deep>>>>),
      Commit(<<<<"update", 1, Full>>>>),
      Commit(<<<<"update", 2, Obj([a |-> Long(2)])>>, <<"fields", 5, Set1(A, I(1))>>>>),
      Commit(<<<<"delete", 2>>, <<"delete", 2>>>>),
      \* A value moves from one document to another, and back.
      Commit(<<<<"update", 1, Obj([a |-> I(9)])>>, <<"fields", 2, Set1(A, Long(2))>>>>),
      Commit(<<<<"fields", 2, Set1(A, Long(2))>>, <<"update", 1, Obj([a |-> I(9)])>>>>),
      Commit(<<<<"fields", 2, Set1(A, I(4))>>, <<"delete", 1>>>>),
      Commit(<<<<"fields", 1, <<<<"inc", A, I(1)>>>>>>, <<"fields", 2, <<<<"inc", A, I(-1)>>>>>>>>),
      Commit(<<<<"fields", 2, <<<<"mul", A, I(3)>>>>>>>>),
      Commit(<<<<"fields", 2, ManyChanges>>, <<"fields", 2, <<<<"pop_last", <<"tags">>>>>>>>>>),
      Commit(<<<<"fields", 1, <<<<"min", <<"b">>, I(0)>>, <<"max", B, F(1)>>>>>>>>),
      Commit(<<<<"fields", 3, <<<<"push", <<"o", "p">>, <<I(1)>>>>>>>>>>),
      Commit(<<<<"update_many", FirstTwo(NoFilter), <<<<"inc", A, I(1)>>>>>>>>),
      Commit(<<<<"update_many", Where(<<Cmp(A, "gte", I(1))>>), Set1(A, I(5))>>>>),
      Commit(<<<<"update_many", Eq(B, I(1)), Set1(<<"n">>, I(1))>>, <<"delete_many", Eq(A, I(1))>>>>),
      Commit(<<<<"delete_many", [FirstTwo(NoFilter) EXCEPT !.skip = 1]>>, <<"insert", 5, Full>>>>),
      Dry(<<<<"delete_many", NoFilter>>, <<"insert", 1, Full>>>>),
      Dry(<<<<"update_many", NoFilter, ManyChanges>>>>),
      Commit(<<<<"require", Eq(A, I(1)), TRUE>>, <<"insert", 5, Full>>>>),
      Commit(<<<<"insert", 5, Full>>, <<"require", Eq(Tags, I(4)), FALSE>>, <<"delete", 5>>>>),
      Commit(<<<<"require", [Eq(A, I(1)) EXCEPT !.hint = <<"index", <<A>>>>], FALSE>>>>),
      Commit(<<<<"upsert", Eq(A, I(4)), Full, 5>>>>),
      Commit(<<<<"upsert", Eq(B, I(1)), Obj([a |-> I(2)]), 5>>>>),
      Commit(<<<<"upsert_fields", Where(<<Cmp(A, "eq", I(4)), Cmp(OP, "eq", I(1))>>), ManyChanges, 5>>>>),
      Commit(<<<<"upsert_fields", Eq(IdPath, <<"id", 2>>), <<<<"inc", B, I(1)>>>>, 5>>>>),
      Commit(<<<<"upsert_fields", Where(<<Cmp(OP, "eq", I(1)), Cmp(<<"o">>, "eq", I(1))>>), Set1(A, I(1)), 5>>>>),
      Commit(<<<<"fields", 1, Set1(IdPath, I(1))>>>>),
      Commit(<<<<"ensure_index", OnA>>>>), Commit(<<<<"ensure_index", UniqueA>>>>),
      Commit(<<<<"ensure_index", UniqueTags>>, <<"insert", 5, Full>>>>),
      Commit(<<<<"drop_index", <<A>>>>>>), Commit(<<<<"drop">>>>) }

MCOutgrows(old, new) == Cardinality(DOMAIN new[2]) > Cardinality(DOMAIN old[2])

\* The parameters of Collections and CollectionReads.
MCMatched(c, filter) == LET ids == OnlyMatch(c, filter) IN ids
MCHintFollowed(filter, indexes) == LET follows == FollowsHint(filter, indexes) IN follows
MCChanged(update, doc, inserting) == LET new == ApplyAs(update, doc, inserting) IN new
MCInvalid(op) == LET invalid == IsInvalid(op) IN invalid
MCFindBy(c, filter, select) == LET found == FindIn(c, filter, select) IN found
MCCountBy(c, filter) == LET n == CountMatches(c, filter) IN n
MCAnyBy(c, filter) == LET any == AnyMatchIn(c, filter) IN any
MCTotalBy(c, filter, aggregate) == LET rows == AggregateIn(c, filter, aggregate) IN rows
MCCheckBy(file) == LET problems == CheckCollection(file) IN problems
MCAnswers(docs, filter) == LET answers == PermittedAnswers(docs, filter) IN answers
MCRowsFor(docs, filter, aggregate) == LET rows == RowsOf(docs, filter, aggregate) IN rows

\* What Collections_proofs takes of keys and tuples (KeysLeadBack and
\* TuplesKeyed there), of the documents and the indexes above.
Held == UNION {{p[i] : i \in DOMAIN p} : p \in Populations} \cup {Full}
Indexes == {OnA, UniqueA, SparseB, OnAB, SparseAB, OnTags, UniqueTags, OnBP}

ASSUME KeysLeadBackHere ==
    \A doc \in Held, index \in Indexes, id \in 1..5 :
        \A k \in KeysOf(doc, index, id) : IdOfKey(k) = id

ASSUME TuplesKeyedHere ==
    \A index \in Indexes :
        LET values == UNION {TuplesOf(doc, index) : doc \in Held}
        IN  /\ \A doc \in Held :
                  TuplesOf(doc, index) = {t.values : t \in Tuples(doc, index)}
            /\ \A x, y \in values : SameValues(x, y) => SameValues(y, x)
            /\ \A x, y, z \in values :
                  SameValues(x, y) /\ SameValues(y, z) => SameValues(x, z)
            /\ \A doc, other \in Held, id \in 1..5 :
                  \A t \in Tuples(doc, index), u \in Tuples(other, index) :
                      SameValues(t.values, u.values) =>
                          \E k \in KeysOf(other, index, id) : UnderPart(t.part, k)
=============================================================================
