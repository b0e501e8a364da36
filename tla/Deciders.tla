------------------------------ MODULE Deciders ------------------------------
(***************************************************************************)
(* Matches decided by index entries: src/src/query.rs, Covering,           *)
(* EntryMatcher and Decider.  Where an index holds every field a filter    *)
(* names, the entry of a document decides the filter, on its bytes or on   *)
(* the values decoded out of them; a decision is taken again for the next  *)
(* entry with the same deciding bytes, and one may stand for a whole leaf. *)
(*                                                                         *)
(* A decision is "yes", "no" or, where only the document tells, "unknown". *)
(***************************************************************************)
EXTENDS Planner

\* Filter::covered_by: the paths the conditions compare, and whether they
\* do nothing but compare.
RECURSIVE OnlyCompares(_)
OnlyCompares(c) ==
    CASE IsCompare(c) -> TRUE
      [] c[1] \in {"all", "any"} -> \A i \in DOMAIN c[2] : OnlyCompares(c[2][i])
      [] c[1] = "not" -> OnlyCompares(c[2])
      [] OTHER -> FALSE

RECURSIVE ComparedPaths(_)
ComparedPaths(c) ==
    CASE IsCompare(c) -> {c[2]}
      [] c[1] \in {"all", "any"} -> UNION {ComparedPaths(c[2][i]) : i \in DOMAIN c[2]}
      [] c[1] = "not" -> ComparedPaths(c[2])

SortPaths(filter) == {filter.sort[i].field : i \in DOMAIN filter.sort}

\* Covering::new: at most one covering [fields, named, id], `named` the
\* positions of the fields that must be decoded.
Covering(filter, fields, sort) ==
    LET all    == <<"all", filter.conditions>>
        paths  == ComparedPaths(all) \cup (IF sort THEN SortPaths(filter) ELSE {})
        named  == {i \in DOMAIN fields : fields[i] \in paths}
        inside == \E i, j \in named : IsStrictPrefix(fields[i], fields[j])
    IN  IF \E i \in DOMAIN fields : IsMulti(fields[i]) THEN <<>>
        ELSE IF ~OnlyCompares(all) THEN <<>>
        ELSE IF ~(paths \subseteq ToSet(fields) \cup {IdPath}) \/ inside THEN <<>>
        ELSE <<[fields |-> fields, named |-> named, id |-> IdPath \in paths]>>

\* Covering::for_sort: the same entries, only what the sort names.
ForSort(covering, filter) ==
    [covering EXCEPT !.named = {i \in DOMAIN covering.fields :
                                    covering.fields[i] \in SortPaths(filter)},
                     !.id = IdPath \in SortPaths(filter)]

\* Covering::fill: the document an entry tells of, at most one; its values
\* are put at the named paths of an object.
EntryDoc(covering, key) ==
    LET parts   == Parts(ValuePart(key))
        decoded == [i \in covering.named |-> DecodePart(parts[i], Len(covering.fields))]
        start   == <<"object", IF covering.id THEN [n \in {"_id"} |-> <<"id", KeyId(key)>>]
                               ELSE NoFields>>
    IN  IF \E i \in covering.named : decoded[i] = <<>> THEN <<>>
        ELSE <<FoldLeft(LAMBDA doc, i : IF i \in covering.named
                                        THEN PutAt(doc, covering.fields[i], decoded[i][1])
                                        ELSE doc,
                        start, [i \in DOMAIN covering.fields |-> i])>>

\* Covering::deciding_len: the values up to the last one named; none where
\* the id decides too.
DecidingBytes(covering, key) ==
    LET last  == {i \in covering.named : \A j \in covering.named : j <= i}
        parts == Parts(ValuePart(key))
    IN  IF covering.id THEN <<>>
        ELSE <<FlattenSeq([i \in 1..Cardinality({j \in DOMAIN parts : \E k \in last : j <= k})
                            |-> parts[i]])>>

-----------------------------------------------------------------------------
AllOf(decisions) ==
    IF "no" \in decisions THEN "no" ELSE IF "unknown" \in decisions THEN "unknown" ELSE "yes"

AnyOf(decisions) ==
    IF "yes" \in decisions THEN "yes" ELSE IF "unknown" \in decisions THEN "unknown" ELSE "no"

YesNo(b) == IF b THEN "yes" ELSE "no"

\* OnBytes::matches for a comparison, with the id at the key's end or with
\* one of its parts.
CompareOnBytes(c, fields, key) ==
    LET op == c[3]  value == c[4]
        at   == CHOOSE i \in DOMAIN fields : fields[i] = c[2]
        part == Parts(ValuePart(key))[at]
        n    == Len(fields)
        ofIds == IF value[1] = "id" THEN CompareInts(KeyId(key), value[2]) ELSE "none"
        ord  == ComparePart(part, EncodeIn(value, n), n)
    IN  IF c[2] = IdPath
        THEN YesNo(op \notin {"contains", "starts_with"} /\ Holds(op, ofIds))
        ELSE IF op \in {"eq", "ne"} /\ IsOther(part) /\ IsWhole(value) THEN "unknown"
        ELSE IF op = "contains"
        THEN IF part[1] = TagString /\ value[1] = "str" THEN "unknown" ELSE "no"
        ELSE IF op = "starts_with" THEN PartStartsWith(part, value, n)
        ELSE IF ord = "unknown" THEN "unknown" ELSE YesNo(Holds(op, ord))

\* OnBytes::matches
RECURSIVE OnBytes(_, _, _)
OnBytes(c, fields, key) ==
    CASE IsCompare(c) -> CompareOnBytes(c, fields, key)
      [] c[1] = "all" -> AllOf({OnBytes(c[2][i], fields, key) : i \in DOMAIN c[2]})
      [] c[1] = "any" -> AnyOf({OnBytes(c[2][i], fields, key) : i \in DOMAIN c[2]})
      [] c[1] = "not" -> LET is == OnBytes(c[2], fields, key)
                         IN  IF is = "unknown" THEN is ELSE YesNo(is = "no")

\* is_interval: the comparisons an AND is made of, none otherwise, accept
\* one interval of keys where each is on a field after fixed ones.
RECURSIVE Flat(_)
Flat(c) ==
    CASE IsCompare(c) -> IF c[2] # IdPath /\ c[3] \in {"eq", "lt", "lte", "gt", "gte"}
                         THEN <<{c}>> ELSE <<>>
      [] c[1] = "all" -> LET inner == [i \in DOMAIN c[2] |-> Flat(c[2][i])]
                         IN  IF \E i \in DOMAIN inner : inner[i] = <<>> THEN <<>>
                             ELSE <<UNION {inner[i][1] : i \in DOMAIN inner}>>
      [] OTHER -> <<>>

IsInterval(filter, fields) ==
    LET flat == Flat(<<"all", filter.conditions>>)
    IN  flat # <<>> /\ \A c \in flat[1] : \A i \in DOMAIN fields :
            (\E j \in DOMAIN fields : i < j /\ fields[j] = c[2])
                => \E e \in flat[1] : e[2] = fields[i] /\ e[3] = "eq"

-----------------------------------------------------------------------------
\* Decider: at most one, where the index covers the filter; its last
\* decision is kept by the walk.
Decider(filter, fields) ==
    LET covering == Covering(filter, fields, FALSE)
    IN  IF covering = <<>> THEN <<>>
        ELSE <<[covering |-> covering[1], filter |-> filter,
                interval |-> IsInterval(filter, fields)]>>

NoDecision == [bytes |-> <<>>, is |-> "unknown"]

\* EntryMatcher::matches, all conditions on the bytes.
DecideOnBytes(decider, key) ==
    OnBytes(<<"all", decider.filter.conditions>>, decider.covering.fields, key)

\* Covering::decide, on the entry's document.
DecideOnValues(decider, key) ==
    LET doc == EntryDoc(decider.covering, key)
    IN  IF doc = <<>> THEN "unknown" ELSE YesNo(FilterMatches(decider.filter, doc[1]))

\* Decider::decide: the decision, and the last one kept for the next entry.
Decide(decider, last, key) ==
    LET bytes == DecidingBytes(decider.covering, key)
        again == bytes # <<>> /\ last.is # "unknown" /\ bytes[1] = last.bytes
        onBytes == DecideOnBytes(decider, key)
        is == IF onBytes # "unknown" THEN onBytes ELSE DecideOnValues(decider, key)
    IN  IF again THEN [is |-> last.is, last |-> last]
        ELSE [is |-> is,
              last |-> IF bytes = <<>> \/ is = "unknown" THEN [last EXCEPT !.is = "unknown"]
                       ELSE [bytes |-> bytes[1], is |-> is]]

\* Mutant: a leaf's ends speak for it whatever the filter.
DecideAllByEnds(decider, last, lowest, highest) ==
    LET ends == {DecideOnBytes(decider, lowest), DecideOnBytes(decider, highest)}
    IN  [is |-> IF Cardinality(ends) = 1 THEN CHOOSE e \in ends : TRUE ELSE "unknown",
         last |-> last]

\* Decider::decide_all: one decision for every key of a leaf, from its ends.
DecideAll(decider, last, lowest, highest) ==
    LET low  == DecidingBytes(decider.covering, lowest)
        ends == {DecideOnBytes(decider, lowest), DecideOnBytes(decider, highest)}
    IN  IF low # <<>> /\ IsPrefix(low[1], highest) THEN Decide(decider, last, lowest)
        ELSE [is |-> IF decider.interval /\ ends = {"yes"} THEN "yes" ELSE "unknown",
              last |-> last]
=============================================================================
