------------------------------- MODULE Values -------------------------------
(***************************************************************************)
(* The values a document is made of, the paths into it and the order its   *)
(* values have: src/src/query.rs (compare, equal_values, sort_order) and   *)
(* src/src/path.rs.                                                        *)
(*                                                                         *)
(* A value is a tuple that starts with its kind: <<"null">>, <<"bool", b>> *)
(* with b 0 or 1, <<"int", n>>, <<"float", h>> for the number h/2,         *)
(* <<"nan">>, <<"str", bytes>>, <<"bin", bytes>>, <<"id", d>>,             *)
(* <<"time", t>>, <<"array", values>> and <<"object", fields>>, fields a   *)
(* function from names.  A path is the sequence of its steps, "*" the      *)
(* fan-out `[*]`: items[*].sku is <<"items", "*", "sku">>, and <<>> is the *)
(* document itself.                                                        *)
(***************************************************************************)
EXTENDS Integers, Sequences, FiniteSets, SequencesExt

CONSTANT Lower          \* the bytes of letters, and what each folds to

Null == <<"null">>
NoFields == [name \in {} |-> Null]

\* `_id`, which every stored document carries.
IdPath == <<"_id">>

IsMulti(path) == Contains(path, "*")

\* path.rs get: a field of an object, a sequence of at most one value.
Get(value, name) ==
    IF value[1] = "object" /\ name \in DOMAIN value[2] THEN <<value[2][name]>> ELSE <<>>

\* Path::field_value: no step fans out here, so "*" finds nothing.
FieldValue(doc, path) ==
    FoldLeft(LAMBDA found, step :
                IF found = <<>> THEN <<>> ELSE Get(found[1], step),
             <<doc>>, path)

ValueOrNull(doc, path) ==
    LET found == FieldValue(doc, path) IN IF found = <<>> THEN Null ELSE found[1]

\* Path::walk: every value at the path, `missing` standing for an absent one.
WalkPath(doc, path, missing) ==
    FoldLeft(LAMBDA values, step :
                FlattenSeq([i \in DOMAIN values |->
                    IF step = "*"
                    THEN IF values[i][1] = "array" THEN values[i][2] ELSE <<>>
                    ELSE LET found == Get(values[i], step)
                         IN  IF found = <<>> THEN missing ELSE found]),
             <<doc>>, path)

ValuesAt(doc, path) == WalkPath(doc, path, <<Null>>)
Present(doc, path) == WalkPath(doc, path, <<>>)

\* Path::slot: a document with the value at the path, objects made on the
\* way where there are none.
RECURSIVE PutAt(_, _, _)
PutAt(doc, path, value) ==
    LET fields == IF doc[1] = "object" THEN doc[2] ELSE NoFields
        name   == Head(path)
        below  == IF name \in DOMAIN fields THEN fields[name] ELSE Null
        inner  == IF Len(path) = 1 THEN value ELSE PutAt(below, Tail(path), value)
    IN  IF path = <<>> THEN value
        ELSE <<"object", [n \in DOMAIN fields \cup {name} |->
                            IF n = name THEN inner ELSE fields[n]]>>

-----------------------------------------------------------------------------
\* Byte strings in byte order.
LexLess(s, t) ==
    \E i \in 1..Len(t) :
        /\ Len(s) >= i - 1
        /\ \A j \in 1..(i - 1) : s[j] = t[j]
        /\ Len(s) = i - 1 \/ s[i] < t[i]

CompareBytes(s, t) ==
    IF s = t THEN "equal" ELSE IF LexLess(s, t) THEN "less" ELSE "greater"

CompareInts(m, n) ==
    IF m = n THEN "equal" ELSE IF m < n THEN "less" ELSE "greater"

Reversed(ord) ==
    IF ord = "less" THEN "greater" ELSE IF ord = "greater" THEN "less" ELSE ord

IsNumber(v) == v[1] \in {"int", "float"}

\* An integer and a float are compared exactly (int_vs_float): both doubled.
Doubled(v) == IF v[1] = "int" THEN 2 * v[2] ELSE v[2]

\* query.rs compare: "none" where the two have no order.
Compare(a, b) ==
    LET kind(v) == IF IsNumber(v) THEN "number" ELSE v[1]
    IN  IF kind(a) # kind(b) THEN "none"
        ELSE CASE kind(a) = "number" -> CompareInts(Doubled(a), Doubled(b))
               [] kind(a) = "null" -> "equal"
               [] kind(a) \in {"bool", "id", "time"} -> CompareInts(a[2], b[2])
               [] kind(a) \in {"str", "bin"} -> CompareBytes(a[2], b[2])
               [] OTHER -> "none"

Equal(a, b) == Compare(a, b) = "equal"

IsWhole(v) == v[1] \in {"array", "object"}

\* equal_values: arrays and objects by their contents.
RECURSIVE EqualValues(_, _)
EqualValues(a, b) ==
    CASE a[1] = "array" /\ b[1] = "array" ->
            /\ Len(a[2]) = Len(b[2])
            /\ \A i \in DOMAIN a[2] : EqualValues(a[2][i], b[2][i])
      [] a[1] = "object" /\ b[1] = "object" ->
            /\ DOMAIN a[2] = DOMAIN b[2]
            /\ \A name \in DOMAIN a[2] : EqualValues(a[2][name], b[2][name])
      [] OTHER -> Equal(a, b)

\* holds: what a comparison says of an order.
Holds(op, ord) ==
    CASE op = "eq"  -> ord = "equal"
      [] op = "ne"  -> ord # "equal"
      [] op = "lt"  -> ord = "less"
      [] op = "lte" -> ord \in {"less", "equal"}
      [] op = "gt"  -> ord = "greater"
      [] op = "gte" -> ord \in {"greater", "equal"}
      [] OTHER -> FALSE

FoldCase(bytes) ==
    [i \in DOMAIN bytes |-> IF bytes[i] \in DOMAIN Lower THEN Lower[bytes[i]] ELSE bytes[i]]

HasInside(haystack, needle) ==
    \E i \in 0..Len(haystack) : IsPrefix(needle, SubSeq(haystack, i + 1, Len(haystack)))

\* value_matches: one value against one comparison.
ValueMatches(op, v, value) ==
    CASE op = "starts_with" ->
            v[1] = value[1] /\ v[1] \in {"str", "bin"} /\ IsPrefix(value[2], v[2])
      [] op = "contains" ->
            /\ v[1] = "str" /\ value[1] = "str"
            /\ HasInside(FoldCase(v[2]), FoldCase(value[2]))
      [] op \notin {"starts_with", "contains"} /\ (IsWhole(v) \/ IsWhole(value)) ->
            \/ op = "eq" /\ EqualValues(v, value)
            \/ op = "ne" /\ ~EqualValues(v, value)
      [] OTHER -> Holds(op, Compare(v, value))

-----------------------------------------------------------------------------
\* sort_rank: kinds in the order a sort puts them, the unordered ones last.
Unordered == 7
SortRank(v) ==
    CASE v[1] = "null" -> 0 [] v[1] = "bool" -> 1 [] IsNumber(v) -> 2
      [] v[1] = "str" -> 3  [] v[1] = "id" -> 4   [] v[1] = "time" -> 5
      [] v[1] = "bin" -> 6  [] OTHER -> Unordered

IsUnordered(v) == SortRank(v) = Unordered

\* sort_order: the unordered values last in both directions.
SortOrder(a, b, order) ==
    LET ranks == CompareInts(SortRank(a), SortRank(b))
        ord   == IF ranks = "equal" THEN Compare(a, b) ELSE ranks
    IN  IF IsUnordered(a) \/ IsUnordered(b) THEN ranks
        ELSE IF order = "asc" THEN ord ELSE Reversed(ord)

\* compare_values: by the first sort key in which the two differ.
CompareDocs(sort, a, b) ==
    FoldLeft(LAMBDA ord, key :
                IF ord # "equal" THEN ord
                ELSE SortOrder(ValueOrNull(a, key.field), ValueOrNull(b, key.field), key.order),
             "equal", sort)

\* A stable sort of a sequence of candidates by their documents.
StableSort(sort, items) ==
    LET Before(i, j) == LET ord == CompareDocs(sort, items[i].doc, items[j].doc)
                        IN  ord = "less" \/ (ord = "equal" /\ i < j)
        rank == [i \in DOMAIN items |-> 1 + Cardinality({j \in DOMAIN items : Before(j, i)})]
    IN  [r \in DOMAIN items |-> items[CHOOSE i \in DOMAIN items : rank[i] = r]]
=============================================================================
