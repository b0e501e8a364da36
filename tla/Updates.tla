------------------------------- MODULE Updates ------------------------------
(***************************************************************************)
(* What the operators of an update do to a document: src/src/update.rs.    *)
(*                                                                         *)
(* An update is a sequence of changes, each a tuple that starts with its   *)
(* operator: <<"set", path, value>>, <<"set_on_insert", path, value>>,     *)
(* <<"unset", path>>, <<"inc", path, by>>, <<"mul", path, by>>,            *)
(* <<"min", path, value>>, <<"max", path, value>>, <<"rename", from, to>>, *)
(* <<"push", path, values>>, <<"add_to_set", path, value>>,                *)
(* <<"pull", path, value>>, <<"pop_first", path>>, <<"pop_last", path>>.   *)
(* A result is a sequence of at most one document: none is an error.       *)
(***************************************************************************)
EXTENDS Keys

CONSTANT MaxInt         \* the largest integer a field holds

\* is_number
IsNumeric(v) == v[1] \in {"int", "float", "nan"}

\* check_path: one field, not `_id` or inside it.
IsUpdatePath(path) == path # <<>> /\ ~IsMulti(path) /\ Head(path) # "_id"

\* Update::check: what is refused before a document is read.
CheckUpdate(update) ==
    \A i \in DOMAIN update :
        LET change == update[i]
        IN  /\ IsUpdatePath(change[2])
            /\ change[1] \in {"inc", "mul"} => IsNumeric(change[3])
            /\ change[1] \in {"min", "max"} =>
                    change[3][1] \in {"int", "float", "str", "bool", "id", "time"}
            /\ change[1] = "rename" =>
                    /\ IsUpdatePath(change[3])
                    /\ ~IsPrefix(change[2], change[3]) /\ ~IsPrefix(change[3], change[2])

\* slot: fails where a value on the way isn't an object.
SlotFails(doc, path) ==
    \E n \in 0..(Len(path) - 1) :
        LET value == FieldValue(doc, SubSeq(path, 1, n))
        IN  value # <<>> /\ value[1][1] # "object"

\* take: the field at the path removed, where there is one.
TakeAt(doc, path) ==
    IF FieldValue(doc, path) = <<>> THEN doc
    ELSE LET parent == FieldValue(doc, Front(path))[1][2]
         IN  PutAt(doc, Front(path),
                   <<"object", [n \in DOMAIN parent \ {Last(path)} |-> parent[n]]>>)

Fits(n) == -MaxInt - 1 <= n /\ n <= MaxInt

\* A number as a float, and the float a sum or a product is rounded to.
FloatOf(v) == IF v[1] = "int" THEN 2 * AsFloat(v[2]) ELSE v[2]
Rounded(h) ==
    CASE h < 2 * ExactLimit \/ h % 4 = 0 -> h
      [] h >= 2 * ExactLimit /\ h % 4 = 1 -> h - 1
      [] h >= 2 * ExactLimit /\ h % 4 = 3 -> h + 1
      [] OTHER -> 2 * AsFloat(h \div 2)

\* add and multiply: integers are checked for overflow, a float beside an
\* integer makes a float.
Add(at, by) ==
    IF ~IsNumeric(at) THEN <<>>
    ELSE IF "nan" \in {at[1], by[1]} THEN <<<<"nan">>>>
    ELSE IF at[1] = "int" /\ by[1] = "int"
    THEN IF Fits(at[2] + by[2]) THEN <<<<"int", at[2] + by[2]>>>> ELSE <<>>
    ELSE <<<<"float", Rounded(FloatOf(at) + FloatOf(by))>>>>

Multiply(at, by) ==
    IF ~IsNumeric(at) THEN <<>>
    ELSE IF "nan" \in {at[1], by[1]} THEN <<<<"nan">>>>
    ELSE IF at[1] = "int" /\ by[1] = "int"
    THEN IF Fits(at[2] * by[2]) THEN <<<<"int", at[2] * by[2]>>>> ELSE <<>>
    ELSE <<<<"float", Rounded((FloatOf(at) * FloatOf(by)) \div 2)>>>>

ZeroLike(by) == IF by[1] \in {"float", "nan"} THEN <<"float", 0>> ELSE <<"int", 0>>

\* bound: `min` and `max` replace a missing or null value, or one that
\* compares so; one they can't compare with is an error.
Bound(at, value, replaceIf) ==
    LET ord == Compare(at[1], value)
    IN  IF at = <<>> THEN <<value>>
        ELSE IF at[1] = Null THEN <<value>>
        ELSE IF ord = "none" THEN <<>> ELSE IF ord = replaceIf THEN <<value>> ELSE at

\* The value a change leaves at a path where `at` is; at most one.
ChangedValue(change, at) ==
    LET op == change[1]  arg == change[3]
        items == IF at = <<>> THEN <<>> ELSE at[1][2]
    IN  CASE op \in {"set", "set_on_insert"} -> <<arg>>
          [] op = "inc" -> IF at = <<>> THEN <<arg>> ELSE Add(at[1], arg)
          [] op = "mul" -> IF at = <<>> THEN <<ZeroLike(arg)>> ELSE Multiply(at[1], arg)
          [] op = "min" -> Bound(at, arg, "greater")
          [] op = "max" -> Bound(at, arg, "less")
          [] op = "push" -> <<<<"array", items \o arg>>>>
          [] op = "add_to_set" ->
                IF \E i \in DOMAIN items : EqualValues(items[i], arg)
                THEN at ELSE <<<<"array", Append(items, arg)>>>>
          [] op = "pull" -> <<<<"array", SelectSeq(items, LAMBDA x : ~EqualValues(x, arg))>>>>
          [] op = "pop_first" -> <<<<"array", IF items = <<>> THEN items ELSE Tail(items)>>>>
          [] op = "pop_last" -> <<<<"array", IF items = <<>> THEN items ELSE Front(items)>>>>

OnArrays == {"push", "add_to_set", "pull", "pop_first", "pop_last"}
OnlyExisting == {"pull", "pop_first", "pop_last"}

\* One change of apply_as.
ApplyChange(change, doc, inserting) ==
    LET op == change[1]  path == change[2]
        at == FieldValue(doc, path)
        value == ChangedValue(change, at)
        moved == TakeAt(doc, path)
    IN  CASE op = "unset" -> <<TakeAt(doc, path)>>
          [] op = "set_on_insert" /\ ~inserting -> <<doc>>
          [] op = "rename" ->
                IF at = <<>> THEN <<doc>>
                ELSE IF SlotFails(moved, change[3]) THEN <<>>
                ELSE <<PutAt(moved, change[3], at[1])>>
          [] op \in OnlyExisting /\ at = <<>> -> <<doc>>
          [] OTHER ->
                IF SlotFails(doc, path) THEN <<>>
                ELSE IF op \in OnArrays /\ at # <<>> /\ at[1][1] # "array" THEN <<>>
                ELSE IF value = <<>> THEN <<>> ELSE <<PutAt(doc, path, value[1])>>

\* Update::apply_as: the changes in order, each on what the last one left.
ApplyAs(update, doc, inserting) ==
    FoldLeft(LAMBDA acc, change : IF acc = <<>> THEN <<>>
                                  ELSE ApplyChange(change, acc[1], inserting),
             <<doc>>, update)

\* seed: the document an upsert starts from, of the `eq`s at the top of the
\* filter and in its ANDs; at most one [id, doc], id at most one.
RECURSIVE SeedEqs(_)
SeedEqs(conditions) ==
    FlattenSeq([i \in DOMAIN conditions |->
        LET c == conditions[i]
        IN  IF c[1] = "all" THEN SeedEqs(c[2])
            ELSE IF c[1] = "compare" /\ c[3] = "eq" THEN <<c>> ELSE <<>>])

Seed(conditions) ==
    LET eqs   == SeedEqs(conditions)
        ids   == SelectSeq(eqs, LAMBDA c : c[2] = IdPath /\ c[4][1] = "id")
        given == SelectSeq(eqs, LAMBDA c : IsUpdatePath(c[2]))
        clash == \E i, j \in DOMAIN given :
                    \/ IsStrictPrefix(given[i][2], given[j][2])
                    \/ i # j /\ given[i][2] = given[j][2] /\ ~EqualValues(given[i][4], given[j][4])
        doc   == FoldLeft(LAMBDA d, c : IF FieldValue(d, c[2]) = <<>> THEN PutAt(d, c[2], c[4])
                                        ELSE d,
                          <<"object", NoFields>>, given)
    IN  IF clash \/ \E i, j \in DOMAIN ids : ids[i][4] # ids[j][4] THEN <<>>
        ELSE <<[id |-> IF ids = <<>> THEN <<>> ELSE <<ids[1][4][2]>>, doc |-> doc]>>
=============================================================================
