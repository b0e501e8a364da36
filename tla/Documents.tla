----------------------------- MODULE Documents ------------------------------
(***************************************************************************)
(* The documents of a collection as its indexes see them                   *)
(* (src/src/collection.rs, index_keys and unique_tuples), and what a find  *)
(* on them should give, said without an index: every document checked, the *)
(* matches in id order, sorted, passed over and cut.                       *)
(***************************************************************************)
EXTENDS Aggregates

CONSTANT MaxNesting         \* Document::MAX_NESTING

WithIdOf(doc, id) == PutAt(doc, IdPath, <<"id", id>>)

\* Document::nests_too_deep
RECURSIVE Depth(_)
Depth(v) ==
    LET inner == IF v[1] = "array" THEN {Depth(v[2][i]) : i \in DOMAIN v[2]}
                 ELSE IF v[1] = "object" THEN {Depth(v[2][n]) : n \in DOMAIN v[2]} ELSE {}
    IN  IF ~IsWhole(v) THEN 0
        ELSE 1 + (IF inner = {} THEN 0 ELSE CHOOSE d \in inner : \A e \in inner : e <= d)

NestsTooDeep(doc) == Depth(doc) > MaxNesting

\* field_values
FieldValues(doc, index) ==
    [i \in DOMAIN index.fields |-> ValueOrNull(doc, index.fields[i])]

\* index_keys: a key for each value at one field's path that has one, one
\* key for several fields; a sparse index leaves out nulls.
IndexKeys(doc, index, id) ==
    LET kept(v) == ~(index.sparse /\ v = Null)
        values  == FieldValues(doc, index)
        at      == ToSet(ValuesAt(doc, index.fields[1]))
    IN  IF ~IsCompound(index)
        THEN {Append(EncodeIn(v, 1), id) : v \in {x \in at : kept(x) /\ EncodeIn(x, 1) # <<>>}}
        ELSE IF \E i \in DOMAIN values : kept(values[i]) THEN {Compound(values, id)} ELSE {}

\* unique_tuples: nulls, and values nothing is equal to, never collide.
UniqueTuples(doc, index) ==
    LET comparable(v) == v # Null /\ EncodeIn(v, 1) # <<>>
        values == FieldValues(doc, index)
        at     == {v \in ToSet(ValuesAt(doc, index.fields[1])) : comparable(v)}
    IN  IF ~IsCompound(index) THEN {[part |-> EncodeIn(v, 1), values |-> <<v>>] : v \in at}
        ELSE IF \A i \in DOMAIN values : comparable(values[i])
        THEN {[part |-> EncodeValues(values), values |-> values]} ELSE {}

\* same_values
SameTuple(a, b) == Len(a) = Len(b) /\ \A i \in DOMAIN a : Equal(a[i], b[i])

FoundIds(coll, filter) ==
    LET found == FindIn(coll, filter, <<>>) IN [i \in DOMAIN found |-> found[i].id]

SeedFor(filter) == Seed(filter.conditions)[1]

\* An update or a filter to start from that can't be made, whatever the
\* documents hold.
IsInvalid(op) ==
    \/ op[1] \in {"fields", "update_many", "upsert_fields"} /\ ~CheckUpdate(op[3])
    \/ op[1] = "upsert_fields" /\ Seed(op[2].conditions) = <<>>

-----------------------------------------------------------------------------
\* The reference: docs is a function from ids to documents.
MatchingIds(docs, filter) == {id \in DOMAIN docs : FilterMatches(filter, docs[id])}

InSortOrder(docs, filter) ==
    LET ids   == SortedIds(MatchingIds(docs, filter))
        items == [i \in DOMAIN ids |-> [id |-> ids[i], doc |-> docs[ids[i]]]]
        found == Arrange(filter, items)
    IN  [i \in DOMAIN found |-> found[i].id]

\* Without a sort any of the matches may be found, in any order.
PermittedAnswers(docs, filter) ==
    LET ids == MatchingIds(docs, filter)
        n   == Paged(filter, Cardinality(ids))
    IN  IF filter.sort # <<>> THEN {InSortOrder(docs, filter)}
        ELSE {s \in [1..n -> ids] : IsInjective(s)}

\* What an aggregate should give: the documents found, one per element where
\* they are unwound, parted into groups of equal values, and of each group
\* its columns by their meaning; nothing is added up match by match.
Elements(docs, filter, aggregate) ==
    LET ids   == IF filter.sort = <<>> THEN MatchingIds(docs, filter)
                 ELSE ToSet(InSortOrder(docs, filter))
        time(id) == FieldValue(docs[id], aggregate.window[1].path)
        timed == {id \in ids : time(id) # <<>> /\ time(id)[1][1] = "time"}
        recent(id) == \A other \in timed : time(other)[1][2] - time(id)[1][2] <= aggregate.window[1].back
        kept  == IF aggregate.window = <<>> THEN ids ELSE {id \in timed : recent(id)}
    IN  UNION {LET parts == Unwound(docs[id], aggregate.unwind)
               IN  {[order |-> <<id, n>>, doc |-> parts[n]] : n \in DOMAIN parts} : id \in kept}

\* The first of some elements, by their order.
Earlier(x, y) == Before(x.order, y.order)
FirstElement(elements) == CHOOSE x \in elements : \A y \in elements : x = y \/ Earlier(x, y)

ColumnOf(column, elements) ==
    LET taken == {x \in elements : FilterMatches(AsFilter(column.condition), x.doc)}
        at(x) == FieldValue(x.doc, column.path[1])
        valued == {x \in taken : at(x) # <<>> /\ at(x) # <<Null>>}
        numbers == {x \in valued : IsNumeric(at(x)[1])}
        sum == [total |-> MapThenSumSet(LAMBDA x : IF at(x)[1][1] = "nan" THEN 0 ELSE Doubled(at(x)[1]),
                                        numbers),
                floats |-> \E x \in numbers : at(x)[1][1] # "int",
                nan |-> \E x \in numbers : at(x)[1][1] = "nan", n |-> Cardinality(numbers)]
        atMost(x, y) == ExtremeOrder(at(x)[1], at(y)[1], column.kind) # "greater"
        by(x) == IF column.by = <<>> THEN Null ELSE ValueOrNull(x.doc, column.by[1])
        least == {x \in taken : \A y \in taken : SortOrder(by(x), by(y), "asc") # "greater"}
        most == {x \in taken : \A y \in taken : SortOrder(by(x), by(y), "asc") # "less"}
        orNull(x) == IF at(x) = <<>> THEN Null ELSE at(x)[1]
    IN  CASE column.kind = "count" -> <<"int", Cardinality(taken)>>
          [] column.kind = "sum" -> SumValue(sum)
          [] column.kind = "avg" -> AvgValue(sum)
          [] column.kind \in {"min", "max"} ->
                IF valued = {} THEN Null
                ELSE at(FirstElement({x \in valued : \A y \in valued : atMost(x, y)}))[1]
          [] column.kind = "count_distinct" ->
                <<"int", Cardinality({Canonical(at(x)[1]) : x \in valued})>>
          [] column.kind = "first" -> IF taken = {} THEN Null ELSE orNull(FirstElement(least))
          [] column.kind = "last" ->
                IF taken = {} THEN Null
                ELSE orNull(CHOOSE x \in most : \A y \in most : x = y \/ Earlier(y, x))

RowsOf(docs, filter, aggregate) ==
    LET elements == Elements(docs, filter, aggregate)
        by   == aggregate.groupBy
        key(x) == GroupKey([i \in DOMAIN by |-> ValueOrNull(x.doc, by[i])])
        parts == {{y \in elements : KeyOrder(key(x), key(y)) = "equal"} : x \in elements}
        groups == IF by = <<>> /\ elements = {} THEN {{}} ELSE parts
        rank(g) == Cardinality({h \in groups :
                        KeyOrder(key(FirstElement(h)), key(FirstElement(g))) # "greater"})
        sorted == IF Cardinality(groups) = 1 THEN <<CHOOSE g \in groups : TRUE>>
                  ELSE [n \in 1..Cardinality(groups) |-> CHOOSE g \in groups : rank(g) = n]
        row(g) ==
            FoldLeft(LAMBDA r, column : PutAt(r, <<column.name>>, ColumnOf(column, g)),
                     FoldLeft(LAMBDA r, path : PutAt(r, path, ValueOrNull(FirstElement(g).doc, path)),
                              <<"object", NoFields>>, by),
                     aggregate.columns)
        items == [n \in DOMAIN sorted |-> [doc |-> row(sorted[n])]]
        kept  == Arrange(aggregate.rows,
                         SelectSeq(items, LAMBDA x : FilterMatches(aggregate.rows, x.doc)))
    IN  [n \in DOMAIN kept |-> kept[n].doc]

TupleValues(doc, index) == {t.values : t \in UniqueTuples(doc, index)}
=============================================================================
