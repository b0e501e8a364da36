------------------------------ MODULE Filters -------------------------------
(***************************************************************************)
(* What a filter asks for: src/src/query.rs (Matcher, Filter::arrange) and *)
(* src/src/select.rs (Selection).                                          *)
(*                                                                         *)
(* A condition is a tuple that starts with its form:                       *)
(*   <<"compare", path, op, value>>, <<"exists", path>>,                   *)
(*   <<"kind", path, kind>>, <<"size", path, op, n>>,                      *)
(*   <<"elem", path, condition>>, <<"all", conditions>>,                   *)
(*   <<"any", conditions>>, <<"not", condition>>.                          *)
(* A filter is a record [conditions, sort, skip, limit, hint, select],     *)
(* sort a sequence of [field, order], limit at most one number, select at  *)
(* most one selection [root, except] of two sets of paths.                 *)
(***************************************************************************)
EXTENDS Values

\* Kind::of
IsOfKind(kind, v) ==
    CASE kind = "number" -> v[1] \in {"int", "float", "nan"}
      [] kind = "float" -> v[1] \in {"float", "nan"}
      [] OTHER -> v[1] = kind

\* any_matches: `ne` holds of several values if none is equal.
AnyMatches(op, value, values) ==
    IF op = "ne" THEN \A v \in ToSet(values) : ~ValueMatches("eq", v, value)
    ELSE \E v \in ToSet(values) : ValueMatches(op, v, value)

\* Matcher::matches
RECURSIVE Matches(_, _)
Matches(condition, doc) ==
    LET path == condition[2]
    IN  CASE condition[1] = "compare" ->
                IF IsMulti(path)
                THEN AnyMatches(condition[3], condition[4], ValuesAt(doc, path))
                ELSE ValueMatches(condition[3], ValueOrNull(doc, path), condition[4])
          [] condition[1] = "exists" -> Present(doc, path) # <<>>
          [] condition[1] = "kind" ->
                \E v \in ToSet(Present(doc, path)) : IsOfKind(condition[3], v)
          [] condition[1] = "size" ->
                LET arrays == SelectSeq(ValuesAt(doc, path), LAMBDA v : v[1] = "array")
                IN  AnyMatches(condition[3], <<"int", condition[4]>>,
                               [i \in DOMAIN arrays |-> <<"int", Len(arrays[i][2])>>])
          [] condition[1] = "elem" ->
                \E v \in ToSet(ValuesAt(doc, path)) :
                    v[1] = "array" /\ \E e \in ToSet(v[2]) : Matches(condition[3], e)
          [] condition[1] = "all" ->
                \A i \in DOMAIN condition[2] : Matches(condition[2][i], doc)
          [] condition[1] = "any" ->
                \E i \in DOMAIN condition[2] : Matches(condition[2][i], doc)
          [] condition[1] = "not" -> ~Matches(condition[2], doc)

FilterMatches(filter, doc) ==
    \A i \in DOMAIN filter.conditions : Matches(filter.conditions[i], doc)

\* Filter::arrange: sorted, the first `skip` passed over, at most `limit`.
Arrange(filter, items) ==
    LET sorted == IF filter.sort = <<>> THEN items ELSE StableSort(filter.sort, items)
        end    == IF filter.limit = <<>> THEN Len(sorted)
                  ELSE IF filter.skip + filter.limit[1] < Len(sorted)
                       THEN filter.skip + filter.limit[1] ELSE Len(sorted)
    IN  SubSeq(sorted, filter.skip + 1, end)

-----------------------------------------------------------------------------
\* The paths below a field, of those that begin with it.
Below(paths, name) == {Tail(p) : p \in {q \in paths : q # <<>> /\ Head(q) = name}}

\* A selected field is taken whole at the end of its path, or where the
\* path reaches into an array.
TakenWhole(paths) == \E p \in paths : p = <<>> \/ Head(p) = "*"

\* take: an object with nothing selected under it is left out.
RECURSIVE TakeFields(_, _)
TakeFields(fields, paths) ==
    LET inner(name) == IF fields[name][1] = "object"
                       THEN TakeFields(fields[name][2], Below(paths, name))
                       ELSE NoFields
        kept == {name \in DOMAIN fields :
                    \/ TakenWhole(Below(paths, name))
                    \/ Below(paths, name) # {} /\ inner(name) # NoFields}
    IN  [name \in kept |-> IF TakenWhole(Below(paths, name)) THEN fields[name]
                           ELSE <<"object", inner(name)>>]

\* remove: what `except` names is left out of what is handed out.
RECURSIVE RemoveFields(_, _)
RemoveFields(fields, paths) ==
    LET kept == {name \in DOMAIN fields : ~TakenWhole(Below(paths, name))}
    IN  [name \in kept |->
            IF Below(paths, name) # {} /\ fields[name][1] = "object"
            THEN <<"object", RemoveFields(fields[name][2], Below(paths, name))>>
            ELSE fields[name]]

\* Selection::new drops paths at `_id`, which is always handed out.
Named(paths) == {p \in paths : p = <<>> \/ Head(p) # "_id"}

\* Selection::take_out
TakeOut(selection, fields) ==
    LET paths == Named(selection.except)
    IN  IF TakenWhole(paths) THEN [name \in DOMAIN fields \cap {"_id"} |-> fields[name]]
        ELSE RemoveFields(fields, paths)

\* Selection::project
Project(selection, doc) ==
    LET paths  == Named(selection.root)
        chosen == IF TakenWhole(paths) THEN doc[2]
                  ELSE TakeFields(doc[2], paths \cup {<<"_id">>})
    IN  <<"object", TakeOut(selection, chosen)>>

Selected(filter, doc) == IF filter.select = <<>> THEN doc ELSE Project(filter.select[1], doc)
=============================================================================
