------------------------------ MODULE Planner -------------------------------
(***************************************************************************)
(* How a filter is read: src/src/query.rs, from ids_for_all to is_interval.*)
(* The planner picks ids to look up, ranges of indexes, or an index to     *)
(* walk in sort order.                                                     *)
(*                                                                         *)
(* An index is a record [fields, unique, sparse, root]; `root` tells two   *)
(* of them apart.  An optional result is a sequence of at most one.        *)
(***************************************************************************)
EXTENDS Filters, Keys

IsCompound(index) == Len(index.fields) > 1
OnField(index, path) == index.fields = <<path>>
MultiKey(index) == \E i \in DOMAIN index.fields : IsMulti(index.fields[i])

IsCompare(c) == c[1] = "compare"
ComparesOn(c, path) == IsCompare(c) /\ c[2] = path

-----------------------------------------------------------------------------
\* Filter::offered and primary_offered: what the hint leaves to choose from.
Offered(filter, indexes) ==
    SelectSeq(indexes, LAMBDA i : \/ filter.hint = <<"none">>
                                  \/ filter.hint = <<"index", i.fields>>)
PrimaryOffered(filter) == filter.hint \in {<<"none">>, <<"index", <<IdPath>>>>}

SortedIds(ids) ==
    [n \in 1..Cardinality(ids) |-> CHOOSE d \in ids : Cardinality({e \in ids : e <= d}) = n]

\* ids_for: the ids a condition names, at most one set of them; of several
\* the smallest, the first of equals.
RECURSIVE IdsFor(_)
IdsFor(c) ==
    LET inner == [i \in DOMAIN c[2] |-> IdsFor(c[2][i])]
        named == FlattenSeq(inner)
        least == {i \in DOMAIN named : \A j \in DOMAIN named :
                    \/ Cardinality(named[i]) < Cardinality(named[j])
                    \/ Cardinality(named[i]) = Cardinality(named[j]) /\ i <= j}
    IN  CASE IsCompare(c) ->
                IF c[2] = IdPath /\ c[3] = "eq" /\ c[4][1] = "id" THEN <<{c[4][2]}>> ELSE <<>>
          [] c[1] = "all" ->
                IF named = <<>> THEN <<>> ELSE <<named[CHOOSE i \in least : TRUE]>>
          [] c[1] = "any" ->
                IF \E i \in DOMAIN inner : inner[i] = <<>> THEN <<>> ELSE <<UNION ToSet(named)>>
          [] OTHER -> <<>>

\* Filter::ids
Ids(filter) ==
    LET ids == IdsFor(<<"all", filter.conditions>>)
    IN  IF PrimaryOffered(filter) /\ ids # <<>> THEN <<SortedIds(ids[1])>> ELSE <<>>

-----------------------------------------------------------------------------
\* Bounds: the ranges to read and the ids to look up beside them, `kind`
\* as BoundKind orders it; NoBounds loses to any.
ByValue == 0
Union_ == 1
ByRange == 2
NoBounds == [ranges |-> <<>>, ids |-> {}, kind |-> 3, fields |-> 0]

Beats(b, other) == b.kind < other.kind \/ (b.kind = other.kind /\ b.fields > other.fields)

Best(candidates) ==
    FoldLeft(LAMBDA best, b : IF Beats(b, best) THEN b ELSE best, NoBounds, candidates)

IndexRange(index, range, by) == [index |-> index, range |-> range, by |-> by]

RulesOutNull(op, value) == ~ValueMatches(op, Null, value)

\* excludes_null: no document an index without nulls lacks can match.
RECURSIVE ExcludesNull(_, _)
ExcludesNull(index, conditions) ==
    \E i \in DOMAIN conditions :
        LET c == conditions[i]
        IN  CASE c[1] = "all" -> ExcludesNull(index, c[2])
              [] c[1] = "any" -> \A j \in DOMAIN c[2] : ExcludesNull(index, <<c[2][j]>>)
              [] IsCompare(c) -> Contains(index.fields, c[2]) /\ RulesOutNull(c[3], c[4])
              [] OTHER -> FALSE

\* equal_prefix_from: the fields an `eq` fixes one after another, from one on.
EqualPrefixFrom(index, conditions, from, max) ==
    LET n == Len(index.fields)
        fixing(i) == SelectSeq(conditions, LAMBDA c :
                        /\ ComparesOn(c, index.fields[i]) /\ c[3] = "eq"
                        /\ EncodeIn(c[4], n) # <<>>)
        fixed == {i \in from..max : \A j \in from..i : fixing(j) # <<>>}
        count == Cardinality(fixed)
    IN  [prefix |-> FlattenSeq([k \in 1..count |->
                        EncodeIn(Head(fixing(from + k - 1))[4], n)]),
         count |-> count,
         by |-> [k \in 1..count |-> Head(fixing(from + k - 1))]]

EqualPrefix(index, conditions, max) == EqualPrefixFrom(index, conditions, 1, max)

\* field_range: what the comparisons on one field leave of it.
FieldRange(index, conditions, path) ==
    LET n == Len(index.fields)
        on == SelectSeq(conditions, LAMBDA c :
                ComparesOn(c, path) /\ RangeFor(c[3], c[4], n) # <<>>)
        range == IntersectAll([i \in DOMAIN on |-> RangeFor(on[i][3], on[i][4], n)[1]])
    IN  [range |-> range, by |-> on]

\* in_values: an OR of `eq`s on one field, a range for each.
InValues(c, path, fields) ==
    /\ c[1] = "any" /\ c[2] # <<>>
    /\ \A i \in DOMAIN c[2] : /\ ComparesOn(c[2][i], path) /\ c[2][i][3] = "eq"
                              /\ EncodeIn(c[2][i][4], fields) # <<>>

\* in_bounds: an `in` on the field after the fixed ones.
InBounds(index, conditions, equal) ==
    LET n   == Len(index.fields)
        at  == equal.count + 1
        in  == SelectSeq(conditions, LAMBDA c : InValues(c, index.fields[at], n))
        after == EqualPrefixFrom(index, conditions, at + 1, n)
        nextAt == at + 1 + after.count
        next == IF nextAt > n THEN [range |-> <<>>, by |-> <<>>]
                ELSE FieldRange(index, conditions, index.fields[nextAt])
        fields == at + after.count + Len(next.range)
        ranges == [i \in DOMAIN Head(in)[2] |->
                    LET eq  == Head(in)[2][i]
                        key == equal.prefix \o EncodeIn(eq[4], n) \o after.prefix
                    IN  IndexRange(index,
                                   IF next.range = <<>> THEN Prefixed(key)
                                   ELSE Under(next.range[1], key),
                                   equal.by \o <<eq>> \o after.by \o next.by)]
    IN  IF at > n \/ in = <<>> \/ fields < 2 THEN NoBounds
        ELSE [ranges |-> ranges, ids |-> {}, kind |-> ByValue, fields |-> fields]

\* compound_bounds
CompoundBounds(index, conditions) ==
    LET equal == EqualPrefix(index, conditions, Len(index.fields))
        in    == InBounds(index, conditions, equal)
        next  == IF equal.count = Len(index.fields) THEN [range |-> <<>>, by |-> <<>>]
                 ELSE FieldRange(index, conditions, index.fields[equal.count + 1])
        range == IF next.range = <<>> THEN Prefixed(equal.prefix)
                 ELSE Under(next.range[1], equal.prefix)
    IN  IF in # NoBounds THEN in
        ELSE IF equal.count = 0 /\ next.range = <<>> THEN NoBounds
        ELSE [ranges |-> <<IndexRange(index, range, equal.by \o next.by)>>, ids |-> {},
              kind |-> IF equal.count > 0 THEN ByValue ELSE ByRange,
              fields |-> equal.count + Len(next.range)]

\* The bounds one field's comparisons give its own index: intersected, but
\* for a multikey index, where different elements may meet them and only
\* one, an `eq`'s if there is one, bounds the documents.
SingleBounds(index, conditions, path) ==
    LET on  == SelectSeq(conditions, LAMBDA c :
                /\ ComparesOn(c, path) /\ RangeFor(c[3], c[4], 1) # <<>>
                /\ index.sparse => RulesOutNull(c[3], c[4]))
        eqs == SelectSeq(on, LAMBDA c : c[3] = "eq")
        by  == IF ~IsMulti(path) \/ on = <<>> THEN on
               ELSE IF eqs # <<>> THEN <<Head(eqs)>> ELSE <<Head(on)>>
        range == IntersectAll([i \in DOMAIN by |-> RangeFor(by[i][3], by[i][4], 1)[1]])
    IN  IF by = <<>> THEN NoBounds
        ELSE [ranges |-> <<IndexRange(index, range[1], by)>>, ids |-> {},
              kind |-> IF eqs # <<>> THEN ByValue ELSE ByRange, fields |-> 1]

\* within: a condition on an element as one on every element's path.
RECURSIVE Within(_, _)
Within(path, c) ==
    CASE c[1] \in {"all", "any"} -> <<c[1], [i \in DOMAIN c[2] |-> Within(path, c[2][i])]>>
      [] c[1] = "not" -> <<"not", Within(path, c[2])>>
      [] OTHER -> [c EXCEPT ![2] = path \o <<"*">> \o c[2]]

\* bounds_for_all and bounds_for
RECURSIVE BoundsFor(_, _, _)
BoundsForAll(conditions, indexes, ids) ==
    LET single(i) == SelectSeq(indexes, LAMBDA x : OnField(x, conditions[i][2]))
        seen(i) == \E j \in 1..(i - 1) : ComparesOn(conditions[j], conditions[i][2])
        ofCondition == [i \in DOMAIN conditions |->
            IF IsCompare(conditions[i])
            THEN IF single(i) = <<>> \/ seen(i) THEN NoBounds
                 ELSE SingleBounds(Head(single(i)), conditions, conditions[i][2])
            ELSE BoundsFor(conditions[i], indexes, ids)]
        compound == SelectSeq(indexes, LAMBDA x :
                        IsCompound(x) /\ (x.sparse => ExcludesNull(x, conditions)))
    IN  Best(ofCondition \o
             [i \in DOMAIN compound |-> CompoundBounds(compound[i], conditions)])

\* An OR is bounded where each of its branches is, by ids or by ranges.
BoundsFor(c, indexes, ids) ==
    CASE IsCompare(c) -> BoundsForAll(<<c>>, indexes, ids)
      [] c[1] = "all" -> BoundsForAll(c[2], indexes, ids)
      [] c[1] = "any" ->
            LET branch == [i \in DOMAIN c[2] |->
                    IF ids /\ IdsFor(c[2][i]) # <<>>
                    THEN [NoBounds EXCEPT !.kind = ByValue, !.ids = IdsFor(c[2][i])[1]]
                    ELSE BoundsFor(c[2][i], indexes, ids)]
            IN  IF \E i \in DOMAIN branch : branch[i] = NoBounds THEN NoBounds
                ELSE [ranges |-> FlattenSeq([i \in DOMAIN branch |-> branch[i].ranges]),
                      ids |-> UNION {branch[i].ids : i \in DOMAIN branch},
                      kind |-> Union_, fields |-> 1]
      [] c[1] = "elem" -> BoundsFor(Within(c[2], c[3]), indexes, ids)
      [] OTHER -> NoBounds

\* Filter::index_reads: at most one [ids, ranges].
IndexReads(filter, indexes) ==
    LET offered == Offered(filter, indexes)
        bounds  == BoundsForAll(filter.conditions, offered, PrimaryOffered(filter))
    IN  IF offered = <<>> \/ bounds = NoBounds THEN <<>>
        ELSE <<[ids |-> SortedIds(bounds.ids), ranges |-> bounds.ranges]>>

\* Filter::index_ranges: the reads, where none is by id.
IndexRanges(filter, indexes) ==
    LET reads == IndexReads(filter, indexes)
    IN  IF reads = <<>> THEN <<>>
        ELSE IF reads[1].ids # <<>> THEN <<>> ELSE <<reads[1].ranges>>

-----------------------------------------------------------------------------
\* Filter::on_id: what comparisons with ids leave of the primary index.
OnId(filter) ==
    LET on == SelectSeq(filter.conditions, LAMBDA c :
                /\ ComparesOn(c, IdPath) /\ c[4][1] = "id"
                /\ PrimaryRange(c[3], c[4][2]) # <<>>)
    IN  IntersectAll([i \in DOMAIN on |-> PrimaryRange(on[i][3], on[i][4][2])[1]])

\* Filter::found_by_value: other conditions find few documents by value.
FoundByValue(filter, path, indexes) ==
    LET others == SelectSeq(filter.conditions, LAMBDA c : ~ComparesOn(c, path))
    IN  BoundsForAll(others, indexes, PrimaryOffered(filter)).kind \in {ByValue, Union_}

\* OrderedRead: an index to walk in sort order; no index is the primary one.
OrderedRead(index, range, fixed, served, byId) ==
    [index |-> index, range |-> range, fixed |-> fixed, served |-> served, byId |-> byId]

\* Filter::id_order and fixed_whole
IdOrder(filter, indexes) ==
    LET onId   == OnId(filter)
        ranges == IndexRanges(filter, indexes)
        index  == ranges[1][1].index
        equal  == EqualPrefix(index, filter.conditions, Len(index.fields))
        within == IF onId = <<>> THEN Prefixed(equal.prefix) ELSE Under(onId[1], equal.prefix)
    IN  IF ~FoundByValue(filter, IdPath, indexes)
        THEN IF PrimaryOffered(filter)
             THEN <<OrderedRead(<<>>, onId, 0, Len(filter.sort), TRUE)>> ELSE <<>>
        ELSE IF ranges = <<>> THEN <<>>
        ELSE IF Len(ranges[1]) # 1 THEN <<>>
        ELSE IF equal.count # Len(index.fields) THEN <<>>
        ELSE <<OrderedRead(<<index>>, <<within>>, Len(index.fields), Len(filter.sort), TRUE)>>

\* How many sort keys an index serves from its field `at` on.
Served(filter, index, at) ==
    Cardinality({k \in DOMAIN filter.sort :
        \A j \in 1..k : /\ at + j - 1 <= Len(index.fields)
                        /\ filter.sort[j].field = index.fields[at + j - 1]
                        /\ filter.sort[j].order = filter.sort[1].order})

\* Filter::index_order: at most one ordered read.
IndexOrder(filter, indexes) ==
    LET offered == Offered(filter, indexes)
        field   == Head(filter.sort).field
        at(x)   == CHOOSE i \in DOMAIN x.fields : x.fields[i] = field
        usable  == SelectSeq(offered, LAMBDA x :
                    /\ Contains(x.fields, field)
                    /\ ~(Len(x.fields) = 1 /\ IsMulti(x.fields[1]))
                    /\ x.sparse => ExcludesNull(x, filter.conditions)
                    /\ EqualPrefix(x, filter.conditions, at(x) - 1).count = at(x) - 1)
        better(x, y) == \/ at(x) > at(y)
                        \/ at(x) = at(y) /\ Served(filter, x, at(x)) > Served(filter, y, at(y))
        index == FoldLeft(LAMBDA best, x : IF better(x, best) THEN x ELSE best,
                          Head(usable), Tail(usable))
        fixed == at(index) - 1
        equal == EqualPrefix(index, filter.conditions, fixed)
        onSort == FieldRange(index, filter.conditions, field).range
        range == IF fixed = 0 THEN onSort
                 ELSE IF onSort = <<>> THEN <<Prefixed(equal.prefix)>>
                 ELSE <<Under(onSort[1], equal.prefix)>>
    IN  IF filter.sort = <<>> \/ filter.limit = <<>> \/ Ids(filter) # <<>> THEN <<>>
        ELSE IF field = IdPath THEN IdOrder(filter, offered)
        ELSE IF usable = <<>> THEN <<>>
        ELSE IF fixed = 0 /\ FoundByValue(filter, field, offered) THEN <<>>
        ELSE <<OrderedRead(<<index>>, range, fixed, Served(filter, index, at(index)), FALSE)>>

\* Filter::merged_by_id: several ranges, each fixed whole, merged by id.
MergedById(filter, indexes) ==
    LET ranges == IndexRanges(filter, indexes)
        onId   == OnId(filter)
        equal(r) == EqualPrefix(r.index, r.by, Len(r.index.fields))
        merged == [i \in DOMAIN ranges[1] |->
                    LET r == ranges[1][i]
                    IN  IF onId = <<>> THEN r
                        ELSE [r EXCEPT !.range =
                                Intersect(r.range, Under(onId[1], equal(r).prefix))]]
    IN  IF filter.sort = <<>> \/ filter.limit = <<>> \/ Ids(filter) # <<>> THEN <<>>
        ELSE IF Head(filter.sort).field # IdPath \/ ranges = <<>> THEN <<>>
        ELSE IF Len(ranges[1]) < 2 THEN <<>>
        ELSE IF \E i \in DOMAIN ranges[1] :
                    equal(ranges[1][i]).count # Len(ranges[1][i].index.fields) THEN <<>>
        ELSE <<merged>>

\* plan_for, and follow_hint: a hint the plan can't follow is refused.
PlanIsScan(filter, indexes) ==
    /\ Ids(filter) = <<>> /\ IndexOrder(filter, indexes) = <<>>
    /\ MergedById(filter, indexes) = <<>> /\ IndexReads(filter, indexes) = <<>>

FollowsHint(filter, indexes) ==
    filter.hint[1] = "index" =>
        /\ filter.hint[2] = <<IdPath>> \/ Offered(filter, indexes) # <<>>
        /\ ~PlanIsScan(filter, indexes)
=============================================================================
