----------------------------- MODULE Aggregates -----------------------------
(***************************************************************************)
(* Aggregates: src/src/aggregate.rs and src/src/collection.rs,             *)
(* aggregate_in, newest_in and aggregate_by_entries.  The documents a      *)
(* filter finds are put in groups as they come, from the documents or,     *)
(* where one index holds all it takes, from the index's entries: numbers   *)
(* of a key stand for several stored ones, a key's value may be inexact,   *)
(* an entry may go to the group of the last one by its bytes, and a leaf   *)
(* may be counted whole.                                                   *)
(*                                                                         *)
(* An aggregate is a record [groupBy, columns, rows, window, unwind]:      *)
(* paths; columns [name, kind, path, condition, by], the last three at     *)
(* most one each; a filter on the rows; at most one window [path, back];   *)
(* paths.  A match is a record [group, values, by, takes, order, at]: the  *)
(* values [value, stored] to group by, at most one such value and whether  *)
(* it is taken in for each column, <<id, element>>, and at most one place  *)
(* to read its document at.                                                *)
(***************************************************************************)
EXTENDS Finds, Updates

Earliest == 0               \* DateTime::EARLIEST

-----------------------------------------------------------------------------
Inside(path, outer) == IsPrefix(outer, path)
PlainPath(path) == path # <<>> /\ ~IsMulti(path)

\* Aggregate::check
CheckAggregate(aggregate) ==
    LET columns == aggregate.columns
        by     == aggregate.groupBy
        firsts == {Head(by[i]) : i \in DOMAIN by}
        known  == firsts \cup {columns[i].name : i \in DOMAIN columns}
        named  == FieldsWith(aggregate.rows, TRUE)
    IN  /\ \A i \in DOMAIN aggregate.window :
                /\ PlainPath(aggregate.window[i].path) /\ aggregate.window[i].path # IdPath
        /\ \A i \in DOMAIN aggregate.unwind :
                /\ PlainPath(aggregate.unwind[i]) /\ aggregate.unwind[i] # IdPath
                /\ \A j \in DOMAIN aggregate.window :
                        ~Inside(aggregate.window[j].path, aggregate.unwind[i])
        /\ \A i \in DOMAIN by : PlainPath(by[i])
        /\ \A i, j \in DOMAIN by : i # j => ~Inside(by[j], by[i])
        /\ \A i \in DOMAIN columns :
                /\ \A j \in DOMAIN columns[i].path : PlainPath(columns[i].path[j])
                /\ \A j \in DOMAIN columns[i].by : PlainPath(columns[i].by[j])
                /\ \A j \in 1..(i - 1) : columns[j].name # columns[i].name
                /\ columns[i].name \notin firsts
                /\ columns[i].by # <<>> => columns[i].kind \in {"first", "last"}
        /\ named # <<>> /\ named[1] \subseteq known

\* Aggregate::column_filters, none where a column has no condition.
AsFilter(condition) ==
    [conditions |-> condition, sort |-> <<>>, skip |-> 0, limit |-> <<>>,
     hint |-> <<"none">>, select |-> <<>>]

\* Aggregate::paths
AggregatePaths(aggregate) ==
    LET columns == aggregate.columns
    IN  ToSet(aggregate.groupBy) \cup ToSet(aggregate.unwind)
            \cup UNION {ToSet(columns[i].path) \cup ToSet(columns[i].by) : i \in DOMAIN columns}

NeedsDocuments(aggregate) ==
    \/ aggregate.unwind # <<>>
    \/ \E i \in DOMAIN aggregate.columns : aggregate.columns[i].kind \in {"sum", "first", "last"}

CountsOnly(aggregate) == \A i \in DOMAIN aggregate.columns : aggregate.columns[i].kind = "count"
HasConditions(aggregate) ==
    \E i \in DOMAIN aggregate.columns : aggregate.columns[i].condition # <<>>

\* aggregate_selection
AggregateSelection(aggregate) ==
    LET columns == aggregate.columns
        read(i) == IF columns[i].condition = <<>> THEN {}
                   ELSE LET names == FieldsWith(AsFilter(columns[i].condition), FALSE)
                        IN  IF names = <<>> THEN {<<>>} ELSE {<<n>> : n \in names[1]}
    IN  [root |-> AggregatePaths(aggregate) \cup UNION {read(i) : i \in DOMAIN columns},
         except |-> {}]

\* unwound: a document for each element, the element in the array's place.
Unwound(doc, paths) ==
    FoldLeft(LAMBDA docs, path :
        FlattenSeq([i \in DOMAIN docs |->
            LET at == FieldValue(docs[i], path)
            IN  IF at = <<>> THEN <<>>
                ELSE IF at[1] = Null THEN <<>>
                ELSE IF at[1][1] # "array" THEN <<docs[i]>>
                ELSE [n \in DOMAIN at[1][2] |-> PutAt(docs[i], path, at[1][2][n])]]),
        <<doc>>, paths)

-----------------------------------------------------------------------------
\* query.rs canonical: one form for values a filter finds equal.
RECURSIVE Canonical(_)
Canonical(v) ==
    CASE v[1] = "float" /\ v[2] % 2 = 0 /\ Fits(v[2] \div 2) -> <<"int", v[2] \div 2>>
      [] v[1] = "array" -> <<"array", [i \in DOMAIN v[2] |-> Canonical(v[2][i])]>>
      [] v[1] = "object" -> <<"object", [n \in DOMAIN v[2] |-> Canonical(v[2][n])]>>
      [] OTHER -> v

\* A fixed order of canonical values that nothing orders, standing for the
\* byte order of their encodings.
RECURSIVE Encoded(_)
Encoded(v) ==
    CASE v[1] = "array" ->
            <<1, Len(v[2])>> \o FlattenSeq([i \in DOMAIN v[2] |-> Encoded(v[2][i])])
      [] v[1] = "object" ->
            LET names == SetToSeq(DOMAIN v[2])
            IN  <<2, Len(names)>> \o FlattenSeq([i \in DOMAIN names |-> Encoded(v[2][names[i]])])
      [] v[1] \in {"str", "bin"} -> <<3 + SortRank(v), Len(v[2])>> \o v[2]
      [] v[1] \in {"nan", "null"} -> <<3 + SortRank(v)>>
      [] OTHER -> <<3 + SortRank(v), v[2]>>

\* GroupKey, the values of a group as rows are ordered by them.
GroupKey(values) ==
    [i \in DOMAIN values |-> IF IsUnordered(values[i]) THEN Canonical(values[i]) ELSE values[i]]

KeyOrder(a, b) ==
    LET at(i) == IF IsUnordered(a[i]) /\ IsUnordered(b[i])
                 THEN CompareBytes(Encoded(a[i]), Encoded(b[i]))
                 ELSE SortOrder(a[i], b[i], "asc")
    IN  FoldLeft(LAMBDA ord, i : IF ord # "equal" THEN ord ELSE at(i),
                 "equal", [i \in DOMAIN a |-> i])

GroupValues(match) == [i \in DOMAIN match.group |-> match.group[i].value]

-----------------------------------------------------------------------------
\* ExactSum: the total in halves, whether a float or a NaN was added, and
\* how many numbers.  (Limbs and bits are left out.)
NoSum == [total |-> 0, floats |-> FALSE, nan |-> FALSE, n |-> 0]

AddNumber(sum, v) ==
    IF v[1] \notin {"int", "float", "nan"} THEN sum
    ELSE [total |-> sum.total + (IF v[1] = "nan" THEN 0 ELSE Doubled(v)),
          floats |-> sum.floats \/ v[1] # "int", nan |-> sum.nan \/ v[1] = "nan", n |-> sum.n + 1]

SumValue(sum) ==
    IF ~sum.floats /\ Fits(sum.total \div 2) THEN <<"int", sum.total \div 2>>
    ELSE IF sum.nan THEN <<"nan">> ELSE <<"float", Rounded(sum.total)>>

\* The quotient rounded once, to the nearest, the even one of two.
AvgValue(sum) ==
    LET q == sum.total \div sum.n  rest == 2 * (sum.total % sum.n)
        up == rest > sum.n \/ (rest = sum.n /\ q % 2 = 1)
    IN  IF sum.n = 0 THEN Null
        ELSE IF sum.nan THEN <<"nan">>
        ELSE <<"float", Rounded(IF up THEN q + 1 ELSE q)>>

\* extreme_order: ordered values before those nothing orders.
ExtremeOrder(a, b, kind) ==
    LET rank(v) == IF IsUnordered(v) THEN 1 ELSE 0
    IN  IF IsUnordered(a) \/ IsUnordered(b) THEN CompareInts(rank(a), rank(b))
        ELSE IF kind = "max" THEN SortOrder(b, a, "asc") ELSE SortOrder(a, b, "asc")

Before(order, other) == LexLess(order, other)

\* initial
Initial(kind) ==
    CASE kind = "count" -> 0
      [] kind \in {"sum", "avg"} -> NoSum
      [] kind = "count_distinct" -> {}
      [] kind \in {"min", "max", "first", "last"} -> <<>>

\* update, and add_edges for `first` and `last`: the state of column i of
\* a group with one more match.
Taken(column, state, match, i) ==
    LET kind == column.kind
        seen == SelectSeq(match.values[i], LAMBDA v : v.value # Null)
        at   == [value |-> seen[1].value, stored |-> seen[1].stored,
                 order |-> match.order, at |-> match.at]
        ord(best) == ExtremeOrder(at.value, best.value, kind)
        better == LET o == ord(state[1])
                  IN  o = "less" \/ (o = "equal" /\ Before(at.order, state[1].order))
        edge == [by |-> match.by[i], order |-> match.order, value |-> match.values[i]]
        byOrd == SortOrder(edge.by, state[1].by, "asc")
        earlier == byOrd = "less" \/ (byOrd = "equal" /\ Before(edge.order, state[1].order))
        later == byOrd = "greater" \/ (byOrd = "equal" /\ Before(state[1].order, edge.order))
    IN  CASE kind = "count" -> state + 1
          [] kind \in {"sum", "avg"} ->
                IF seen = <<>> THEN state ELSE AddNumber(state, seen[1].value)
          [] kind = "count_distinct" ->
                IF seen = <<>> THEN state ELSE state \cup {Canonical(seen[1].value)}
          [] kind \in {"min", "max"} ->
                IF seen = <<>> THEN state ELSE IF state = <<>> THEN <<at>>
                ELSE IF better THEN <<at>> ELSE state
          [] kind \in {"first", "last"} ->
                IF state = <<>> THEN <<edge>>
                ELSE IF (IF kind = "first" THEN earlier ELSE later) THEN <<edge>> ELSE state

TakeIn(aggregate, group, match) ==
    [group EXCEPT !.columns = [i \in DOMAIN @ |->
        IF match.takes[i] THEN Taken(aggregate.columns[i], @[i], match, i) ELSE @[i]]]

-----------------------------------------------------------------------------
\* Groups: the groups [key, first, columns] as they were made, and the one
\* the last match went to.
NoGroups == [list |-> <<>>, last |-> 0]
NewGroup(aggregate, key) ==
    [key |-> key, first |-> <<>>,
     columns |-> [i \in DOMAIN aggregate.columns |-> Initial(aggregate.columns[i].kind)]]

Seen(match) ==
    [i \in DOMAIN match.group |->
        [value |-> match.group[i].value, stored |-> match.group[i].stored,
         order |-> match.order, at |-> match.at]]

\* group_index: the match's group, made if new, its first match kept.
GroupIndex(aggregate, groups, match) ==
    LET key   == GroupKey(GroupValues(match))
        same  == {i \in DOMAIN groups.list : KeyOrder(groups.list[i].key, key) = "equal"}
        list  == IF same # {} THEN groups.list ELSE Append(groups.list, NewGroup(aggregate, key))
        i     == IF same # {} THEN CHOOSE j \in same : TRUE ELSE Len(list)
        held  == list[i].first
        earlier == held # <<>> /\ ~Before(match.order, held[1].order)
    IN  [list |-> IF earlier THEN list ELSE [list EXCEPT ![i].first = Seen(match)], last |-> i]

\* add_entry, and add_one of a document.
AddMatch(aggregate, groups, match) ==
    LET to == GroupIndex(aggregate, groups, match)
    IN  [to EXCEPT !.list[to.last] = TakeIn(aggregate, @, match)]

\* A mutant of AddEntryToLast: the earlier match's place is not kept.
AddEntryToLastStale(aggregate, groups, match) ==
    LET held  == groups.list[groups.last].first
        first == IF held = <<>> THEN held
                 ELSE IF ~Before(match.order, held[1].order) THEN held
                 ELSE [i \in DOMAIN held |-> [held[i] EXCEPT !.order = match.order]]
    IN  [groups EXCEPT !.list[groups.last] =
            TakeIn(aggregate, [@ EXCEPT !.first = first], match)]

\* add_entry_to_last: an earlier match's number is to be read.
AddEntryToLast(aggregate, groups, match) ==
    LET held  == groups.list[groups.last].first
        first == IF held = <<>> THEN held
                 ELSE IF ~Before(match.order, held[1].order) THEN held
                 ELSE [i \in DOMAIN held |->
                        [held[i] EXCEPT !.order = match.order, !.at = match.at,
                                        !.stored = @ /\ ~IsNumeric(held[i].value)]]
    IN  [groups EXCEPT !.list[groups.last] =
            TakeIn(aggregate, [@ EXCEPT !.first = first], match)]

\* add_counted
AddCounted(aggregate, groups, match, n) ==
    LET to == GroupIndex(aggregate, groups, match)
    IN  [to EXCEPT !.list[to.last].columns =
            [i \in DOMAIN @ |-> IF match.takes[i] THEN @[i] + n ELSE @[i]]]

\* add_document: a document or, unwound, each element's.
DocumentMatch(aggregate, doc, order) ==
    LET columns == aggregate.columns
        stored(v) == [value |-> v, stored |-> TRUE]
    IN  [group |-> [i \in DOMAIN aggregate.groupBy |-> stored(ValueOrNull(doc, aggregate.groupBy[i]))],
         values |-> [i \in DOMAIN columns |->
            IF columns[i].path = <<>> THEN <<>>
            ELSE LET at == FieldValue(doc, columns[i].path[1])
                 IN  [k \in DOMAIN at |-> stored(at[k])]],
         by |-> [i \in DOMAIN columns |->
            IF columns[i].by = <<>> THEN Null ELSE ValueOrNull(doc, columns[i].by[1])],
         takes |-> [i \in DOMAIN columns |-> FilterMatches(AsFilter(columns[i].condition), doc)],
         order |-> order, at |-> <<>>]

AddDocument(aggregate, groups, doc, id) ==
    LET docs == Unwound(doc, aggregate.unwind)
    IN  FoldLeft(LAMBDA g, n : AddMatch(aggregate, g, DocumentMatch(aggregate, docs[n], <<id, n>>)),
                 groups, [n \in DOMAIN docs |-> n])

\* Groups::finish: a value not as stored is read from its document.
Finish(coll, aggregate, groups) ==
    LET list == IF groups.list = <<>> /\ aggregate.groupBy = <<>>
                THEN <<NewGroup(aggregate, <<>>)>> ELSE groups.list
        rank(i) == Cardinality({j \in DOMAIN list : KeyOrder(list[j].key, list[i].key) # "greater"})
        sorted == [n \in DOMAIN list |-> list[CHOOSE i \in DOMAIN list : rank(i) = n]]
        asStored(seen, path) ==
            IF seen.stored \/ seen.at = <<>> THEN seen.value
            ELSE ValueOrNull(Stored(coll, seen.at[1]).doc, path)
        valueOf(column, state) ==
            CASE column.kind = "count" -> <<"int", state>>
              [] column.kind = "sum" -> SumValue(state)
              [] column.kind = "avg" -> AvgValue(state)
              [] column.kind \in {"min", "max"} ->
                    IF state = <<>> THEN Null ELSE asStored(state[1], column.path[1])
              [] column.kind = "count_distinct" -> <<"int", Cardinality(state)>>
              [] column.kind \in {"first", "last"} ->
                    IF state = <<>> THEN Null
                    ELSE IF state[1].value = <<>> THEN Null ELSE state[1].value[1].value
        row(group) ==
            LET grouped == FoldLeft(LAMBDA r, i :
                                PutAt(r, aggregate.groupBy[i],
                                      asStored(group.first[i], aggregate.groupBy[i])),
                                <<"object", NoFields>>, [i \in DOMAIN group.first |-> i])
            IN  FoldLeft(LAMBDA r, i :
                    PutAt(r, <<aggregate.columns[i].name>>,
                          valueOf(aggregate.columns[i], group.columns[i])),
                    grouped, [i \in DOMAIN aggregate.columns |-> i])
        items == [n \in DOMAIN sorted |-> [doc |-> row(sorted[n])]]
        kept  == Arrange(aggregate.rows, SelectSeq(items, LAMBDA x :
                            FilterMatches(aggregate.rows, x.doc)))
    IN  [n \in DOMAIN kept |-> kept[n].doc]

-----------------------------------------------------------------------------
\* Each condition's decision, up to the first that can't be told.
DecideColumns(w, lasts, key, leaf) ==
    FoldLeft(LAMBDA acc, i :
        LET decider == w.deciders[i]
            one == IF leaf = <<>> THEN Decide(decider[1], lasts[i], key)
                   ELSE DecideAll(decider[1], lasts[i], Head(leaf), Last(leaf))
        IN  IF ~acc.told THEN acc
            ELSE IF decider = <<>> THEN [acc EXCEPT !.takes = Append(@, TRUE)]
            ELSE [told |-> one.is # "unknown", takes |-> Append(acc.takes, one.is = "yes"),
                  lasts |-> [acc.lasts EXCEPT ![i] = one.last]],
        [told |-> TRUE, takes |-> <<>>, lasts |-> lasts], [i \in DOMAIN w.deciders |-> i])

\* value_of: a key's value and whether it is as stored; none if inexact.
ValueOf(w, part) ==
    LET value == DecodePart(part, Len(w.fields))
    IN  [k \in DOMAIN value |-> [value |-> value[k], stored |-> value[k][1] # "float"]]

ValuesOf(w, parts, at) == [i \in DOMAIN at |-> ValueOf(w, parts[at[i]])]
AllTold(values) == \A i \in DOMAIN values : values[i] # <<>>

\* A leaf in one group by its ends, every value of it as stored, counted
\* whole, or the decisions taken on the way kept.
CountLeaf(w, st, leaf, decided) ==
    LET group == ValuesOf(w, Parts(ValuePart(Head(leaf))), w.groupAt)
        through(key) == FlattenSeq(SubSeq(Parts(ValuePart(key)), 1, w.through))
        takes == DecideColumns(w, st.lasts, <<>>, leaf)
        match == [group |-> [i \in DOMAIN group |-> group[i][1]], takes |-> takes.takes,
                  order |-> <<KeyId(Head(leaf)), 0>>, at |-> <<>>]
        one   == /\ decided = "yes" /\ through(Head(leaf)) = through(Last(leaf))
                 /\ AllTold(group) /\ \A i \in DOMAIN group : group[i][1].stored
    IN  IF ~one THEN [counted |-> FALSE, st |-> st]
        ELSE IF ~takes.told THEN [counted |-> FALSE, st |-> [st EXCEPT !.lasts = takes.lasts]]
        ELSE [counted |-> TRUE,
              st |-> [st EXCEPT !.groups = AddCounted(w.aggregate, @, match, Len(leaf)),
                                !.lastGroup = <<through(Head(leaf))>>, !.lasts = takes.lasts]]

\* An entry the filter did not reject: to the last one's group, to the
\* group of its values, or by its document.
AddEntry(w, st, e, decided) ==
    LET parts   == Parts(ValuePart(e.key))
        values  == [i \in DOMAIN w.columnAt |->
                        IF w.columnAt[i] = <<>> THEN <<>> ELSE ValueOf(w, parts[w.columnAt[i][1]])]
        exact   == decided = "yes" /\ \A i \in DOMAIN values : w.columnAt[i] # <<>> => values[i] # <<>>
        columns == IF exact THEN DecideColumns(w, st.lasts, e.key, <<>>)
                   ELSE [told |-> FALSE, lasts |-> st.lasts]
        through == FlattenSeq(SubSeq(parts, 1, w.through))
        group   == ValuesOf(w, parts, w.groupAt)
        match   == [group |-> [i \in DOMAIN group |-> group[i][1]], values |-> values,
                    by |-> [i \in DOMAIN values |-> Null], takes |-> columns.takes,
                    order |-> <<e.id, 0>>, at |-> <<e.loc>>]
        doc     == Stored(w.coll, e.loc).doc
        told    == [st EXCEPT !.lasts = columns.lasts]
    IN  IF columns.told /\ st.lastGroup = <<through>>
        THEN [told EXCEPT !.groups = AddEntryToLast(w.aggregate, @, match)]
        ELSE IF columns.told /\ AllTold(group)
        THEN [told EXCEPT !.groups = AddMatch(w.aggregate, @, match), !.lastGroup = <<through>>]
        ELSE IF ~columns.told /\ ~FilterMatches(w.filter, doc)
        THEN [told EXCEPT !.lastGroup = <<>>]
        ELSE [told EXCEPT !.groups = AddDocument(w.aggregate, @, doc, e.id), !.lastGroup = <<>>]

RECURSIVE AggregateOn(_, _, _, _)
AggregateOn(w, walk, at, st) ==
    LET e    == walk[at]
        leaf == IF CountsOnly(w.aggregate) /\ w.groupAt # <<>> THEN e.leaf ELSE <<>>
        all  == IF w.decider = <<>> THEN [is |-> "yes", last |-> st.last]
                ELSE DecideAll(w.decider[1], st.last, Head(leaf), Last(leaf))
        passed == IF leaf = <<>> THEN [counted |-> FALSE, st |-> st]
                  ELSE CountLeaf(w, [st EXCEPT !.last = all.last], leaf, all.is)
        now  == passed.st
        one  == IF w.decider = <<>> THEN [is |-> "yes", last |-> now.last]
                ELSE Decide(w.decider[1], now.last, e.key)
        seen == [now EXCEPT !.last = one.last]
    IN  IF at > Len(walk) THEN st.groups
        ELSE IF passed.counted THEN AggregateOn(w, walk, at + Len(leaf), now)
        ELSE AggregateOn(w, walk, at + 1, IF one.is = "no" THEN seen ELSE AddEntry(w, seen, e, one.is))

\* aggregate_by_entries: at most one set of groups, none where the entries
\* can't serve.
HoldsAll(index, aggregate) ==
    /\ \A i \in DOMAIN index.fields : ~IsMulti(index.fields[i])
    /\ AggregatePaths(aggregate) \subseteq ToSet(index.fields)
    /\ \A i \in DOMAIN aggregate.columns :
        aggregate.columns[i].condition # <<>> =>
            Covering(AsFilter(aggregate.columns[i].condition), index.fields, FALSE) # <<>>

\* An index that holds every document, one that begins with the groups'
\* fields before others; at most one.
EveryDocument(coll, indexes, aggregate) ==
    LET n == Len(aggregate.groupBy)
        leads(index) == /\ Len(index.fields) >= n
                        /\ \A i \in 1..n : Contains(aggregate.groupBy, index.fields[i])
        whole(index) == /\ HoldsAll(index, aggregate) /\ ~index.sparse
                        /\ \/ IsCompound(index)
                           \/ Cardinality(DOMAIN coll.trees[index.root])
                                = Cardinality(DOMAIN coll.primary)
        fit   == SelectSeq(indexes, whole)
        first == SelectSeq(fit, leads)
    IN  IF first # <<>> THEN <<Head(first)>> ELSE IF fit # <<>> THEN <<Head(fit)>> ELSE <<>>

AggregateByEntries(coll, filter, aggregate) ==
    LET offered == Offered(filter, coll.indexes)
        ranges == IndexRanges(filter, SelectSeq(offered, LAMBDA i : HoldsAll(i, aggregate)))
        every  == EveryDocument(coll, offered, aggregate)
        read   == IF filter.conditions = <<>>
                  THEN [i \in DOMAIN every |-> [index |-> every[i], range |-> Everything]]
                  ELSE IF ranges = <<>> THEN <<>>
                  ELSE IF Len(ranges[1]) # 1 THEN <<>>
                  ELSE IF Covering(filter, ranges[1][1].index.fields, FALSE) = <<>> THEN <<>>
                  ELSE <<[index |-> ranges[1][1].index, range |-> ranges[1][1].range]>>
        fields == read[1].index.fields
        at(path) == CHOOSE i \in DOMAIN fields : fields[i] = path
        columns == aggregate.columns
        groupAt == [i \in DOMAIN aggregate.groupBy |-> at(aggregate.groupBy[i])]
        w == [coll |-> coll, filter |-> filter, aggregate |-> aggregate, fields |-> fields,
              groupAt |-> groupAt,
              columnAt |-> [i \in DOMAIN columns |->
                                IF columns[i].path = <<>> THEN <<>> ELSE <<at(columns[i].path[1])>>],
              through |-> CHOOSE n \in {0} \cup ToSet(groupAt) : \A i \in DOMAIN groupAt : groupAt[i] <= n,
              decider |-> Decider(filter, fields),
              deciders |-> [i \in DOMAIN columns |->
                                IF columns[i].condition = <<>> THEN <<>>
                                ELSE Decider(AsFilter(columns[i].condition), fields)]]
        picks == filter.skip > 0 \/ filter.limit # <<>> \/ filter.sort # <<>>
    IN  IF picks \/ Ids(filter) # <<>> \/ NeedsDocuments(aggregate) \/ read = <<>> THEN <<>>
        ELSE <<AggregateOn(w, Walk(Tree(coll, <<read[1].index>>), read[1].range, FALSE), 1,
                           [groups |-> NoGroups, lastGroup |-> <<>>, last |-> NoDecision,
                            lasts |-> [i \in DOMAIN columns |-> NoDecision]])>>

\* newest_in and Window::condition: a window is a condition once the newest
\* date-time among the matches is known.
NewestIn(coll, filter, window) ==
    LET newest == [filter EXCEPT !.conditions = Append(@, <<"compare", window.path, "gte", <<"time", Earliest>>>>),
                                 !.sort = <<[field |-> window.path, order |-> "desc"]>>,
                                 !.skip = 0, !.limit = <<1>>]
        found == FindIn(coll, newest, <<[root |-> {window.path}, except |-> {}]>>)
    IN  [i \in DOMAIN found |-> FieldValue(found[i].doc, window.path)[1][2]]

WindowCondition(window, newest) ==
    IF newest = <<>> THEN <<"compare", window.path, "lt", <<"time", Earliest>>>>
    ELSE LET from == newest[1] - window.back
         IN  <<"compare", window.path, "gte", <<"time", IF from < Earliest THEN Earliest ELSE from>>>>

\* aggregate_in: at most one sequence of rows; none where it is refused.
AggregateIn(coll, asked, aggregate) ==
    LET window  == aggregate.window
        picks   == asked.sort # <<>> \/ asked.skip > 0 \/ asked.limit # <<>>
        filter  == IF window = <<>> THEN asked
                   ELSE [asked EXCEPT !.conditions =
                            Append(@, WindowCondition(window[1], NewestIn(coll, asked, window[1])))]
        counted == aggregate.groupBy = <<>> /\ CountsOnly(aggregate)
                     /\ aggregate.unwind = <<>> /\ ~HasConditions(aggregate)
        n       == CountMatches(coll, filter)
        all     == [group |-> <<>>, takes |-> [i \in DOMAIN aggregate.columns |-> TRUE],
                    order |-> <<0, 0>>, at |-> <<>>]
        entries == AggregateByEntries(coll, filter, aggregate)
        found   == FindIn(coll, filter, <<AggregateSelection(aggregate)>>)
        groups  == IF counted
                   THEN IF n = 0 THEN NoGroups ELSE AddCounted(aggregate, NoGroups, all, n)
                   ELSE IF entries # <<>> THEN entries[1]
                   ELSE FoldLeft(LAMBDA g, f : AddDocument(aggregate, g, f.doc, f.id),
                                 NoGroups, found)
    IN  IF ~CheckAggregate(aggregate) \/ (window # <<>> /\ picks) THEN <<>>
        ELSE IF ~FollowsHint(asked, coll.indexes) THEN <<>>
        ELSE <<Finish(coll, aggregate, groups)>>
=============================================================================
