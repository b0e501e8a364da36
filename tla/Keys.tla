-------------------------------- MODULE Keys --------------------------------
(***************************************************************************)
(* Index keys: src/src/index/key.rs.  A key is a byte string whose byte    *)
(* order is the order of the values it holds, followed by the id of its    *)
(* document; strings are escaped and cut where the key's budget ends, and  *)
(* large integers share the key of the float they round to, so one key may *)
(* stand for several values and a range may hold documents that do not     *)
(* match.                                                                  *)
(*                                                                         *)
(* The payload of a number, an id and a date-time is one byte here; a      *)
(* float is exact below ExactLimit, where every integer has a key of its   *)
(* own.                                                                    *)
(***************************************************************************)
EXTENDS Values

CONSTANTS
    Top,            \* the largest byte, 0xFF
    MaxKeyLen,      \* MAX_KEY_LEN
    ExactLimit,     \* 2^53: from here on a float is a multiple of two
    NumberBias      \* the byte of the number zero

IdLen == 1

TagNull == 0
TagBool == 1
TagNumber == 2
TagString == 3
TagId == 4
TagDateTime == 5
TagBinary == 6
TagOther == Top

\* string_budget: what a compound key leaves for each of its strings.
StringBudget(fields) == (MaxKeyLen - IdLen) \div fields - 3

\* `as f64`: the nearest float, the even one of two.
AsFloat(n) ==
    IF n < ExactLimit \/ n % 2 = 0 THEN n
    ELSE IF (n \div 2) % 2 = 0 THEN n - 1 ELSE n + 1

\* encode_escaped: a zero byte is two, and what doesn't fit is cut.
EncodeEscaped(tag, bytes, budget) ==
    LET taken == FoldLeft(LAMBDA acc, b :
                    LET width == IF b = 0 THEN 2 ELSE 1
                    IN  IF acc.full \/ acc.used + width > budget
                        THEN [acc EXCEPT !.full = TRUE]
                        ELSE [full |-> FALSE, used |-> acc.used + width,
                              out |-> acc.out \o (IF b = 0 THEN <<0, Top>> ELSE <<b>>)],
                  [full |-> FALSE, used |-> 0, out |-> <<>>], bytes)
    IN  <<tag>> \o taken.out \o <<0, 0>>

\* encode_value_in: <<>> for a value no one-field index holds.
EncodeIn(v, fields) ==
    CASE v[1] = "null" -> <<TagNull>>
      [] v[1] = "bool" -> <<TagBool, v[2]>>
      [] v[1] = "int" -> <<TagNumber, NumberBias + 2 * AsFloat(v[2])>>
      [] v[1] = "float" -> <<TagNumber, NumberBias + v[2]>>
      [] v[1] = "str" -> EncodeEscaped(TagString, v[2], StringBudget(fields))
      [] v[1] = "bin" -> EncodeEscaped(TagBinary, v[2], StringBudget(fields))
      [] v[1] = "id" -> <<TagId, v[2]>>
      [] v[1] = "time" -> <<TagDateTime, v[2]>>
      [] OTHER -> <<>>

\* encode_values: a compound key's values, an unordered one its tag alone.
EncodeValues(values) ==
    FlattenSeq([i \in DOMAIN values |->
        LET encoded == EncodeIn(values[i], Len(values))
        IN  IF encoded = <<>> THEN <<TagOther>> ELSE encoded])

Primary(id) == <<id>>
Compound(values, id) == EncodeValues(values) \o <<id>>

\* doc_id and value_part.
KeyId(key) == Last(key)
ValuePart(key) == Front(key)

-----------------------------------------------------------------------------
\* string_len: the length of an escaped string with its tag and terminator.
StringLen(bytes) ==
    LET Escape(at) == bytes[at] = 0 /\ bytes[at + 1] = Top
    IN  1 + CHOOSE at \in 2..(Len(bytes) - 1) :
                /\ bytes[at] = 0 /\ bytes[at + 1] = 0
                /\ \A before \in 2..(at - 1) : bytes[before] = 0 => Escape(before)

\* each_part: the values of a key taken apart.
RECURSIVE Parts(_)
Parts(bytes) ==
    IF bytes = <<>> THEN <<>>
    ELSE LET len == CASE bytes[1] \in {TagNull, TagOther} -> 1
                      [] bytes[1] \in {TagBool, TagNumber, TagId, TagDateTime} -> 2
                      [] OTHER -> StringLen(bytes)
         IN  <<SubSeq(bytes, 1, len)>> \o Parts(SubSeq(bytes, len + 1, Len(bytes)))

\* part_is_exact: whether the part stands for one value.
PartIsExact(part, fields) ==
    CASE part[1] = TagNumber -> part[2] - NumberBias < 2 * ExactLimit
      [] part[1] \in {TagString, TagBinary} -> Len(part) - 3 < StringBudget(fields) - 1
      [] part[1] = TagOther -> FALSE
      [] OTHER -> TRUE

IsOther(part) == part[1] = TagOther

\* unescape: an escaped zero is one byte again.
Unescape(bytes) ==
    LET kept == {i \in DOMAIN bytes : ~(bytes[i] = Top /\ i > 1 /\ bytes[i - 1] = 0)}
    IN  [n \in 1..Cardinality(kept) |->
            bytes[CHOOSE i \in kept : Cardinality({j \in kept : j <= i}) = n]]

\* decode_part_into: the value of an exact part, a number always a float.
DecodePart(part, fields) ==
    LET body == SubSeq(part, 2, Len(part) - 2)
    IN  IF ~PartIsExact(part, fields) THEN <<>>
        ELSE CASE part[1] = TagNull -> <<Null>>
               [] part[1] = TagBool -> <<<<"bool", part[2]>>>>
               [] part[1] = TagNumber -> <<<<"float", part[2] - NumberBias>>>>
               [] part[1] = TagString -> <<<<"str", Unescape(body)>>>>
               [] part[1] = TagBinary -> <<<<"bin", Unescape(body)>>>>
               [] part[1] = TagId -> <<<<"id", part[2]>>>>
               [] part[1] = TagDateTime -> <<<<"time", part[2]>>>>

\* compare_part: how the part orders against an encoded value, "none" where
\* the two kinds have no order and "unknown" where equal bytes may stand
\* for different values.
ComparePart(part, encoded, fields) ==
    IF encoded = <<>> \/ IsOther(part) \/ Head(encoded) # Head(part) THEN "none"
    ELSE IF part = encoded /\ ~PartIsExact(part, fields) THEN "unknown"
    ELSE CompareBytes(part, encoded)

\* The escaped bytes of a string, uncut.
Escaped(bytes) ==
    FlattenSeq([i \in DOMAIN bytes |-> IF bytes[i] = 0 THEN <<0, Top>> ELSE <<bytes[i]>>])

\* part_starts_with: "yes", "no", or "unknown" past a cut.
PartStartsWith(part, prefix, fields) ==
    LET sameKind == \/ prefix[1] = "str" /\ part[1] = TagString
                    \/ prefix[1] = "bin" /\ part[1] = TagBinary
    IN  IF sameKind /\ IsPrefix(Escaped(prefix[2]), Tail(part)) THEN "yes"
        ELSE IF sameKind /\ ~PartIsExact(part, fields) THEN "unknown" ELSE "no"

-----------------------------------------------------------------------------
\* KeyRange: from start on, up to and without end; NoEnd has no upper end.
NoEnd == <<>>
Span(start, end) == [start |-> start, end |-> end]
Everything == Span(<<>>, NoEnd)

InRange(key, range) ==
    /\ ~LexLess(key, range.start)
    /\ range.end = NoEnd \/ LexLess(key, range.end)

\* prefix_end: the first key past those that begin with the prefix.
PrefixEnd(prefix) ==
    LET below == {i \in DOMAIN prefix : prefix[i] < Top}
    IN  IF below = {} THEN NoEnd
        ELSE LET i == CHOOSE i \in below : \A j \in below : j <= i
             IN  Append(SubSeq(prefix, 1, i - 1), prefix[i] + 1)

Prefixed(prefix) == Span(prefix, PrefixEnd(prefix))

Intersect(r, s) ==
    Span(IF LexLess(r.start, s.start) THEN s.start ELSE r.start,
           IF r.end = NoEnd \/ (s.end # NoEnd /\ LexLess(s.end, r.end)) THEN s.end ELSE r.end)

\* KeyRange::under: the range within the keys that begin with prefix.
Under(range, prefix) ==
    Span(prefix \o range.start,
           IF range.end = NoEnd THEN PrefixEnd(prefix) ELSE prefix \o range.end)

\* A sequence of ranges reduced to their intersection, <<>> of none.
IntersectAll(ranges) ==
    IF ranges = <<>> THEN <<>>
    ELSE <<FoldLeft(LAMBDA r, s : Intersect(r, s), Head(ranges), Tail(ranges))>>

\* range_for_in: the keys a comparison allows, <<>> where it bounds none.
RangeFor(op, value, fields) ==
    LET encoded  == EncodeIn(value, fields)
        sameKind == Prefixed(SubSeq(encoded, 1, 1))
        same     == Prefixed(encoded)
    IN  IF encoded = <<>> THEN <<>>
        ELSE CASE op = "eq" -> <<same>>
               [] op \in {"gt", "gte"} -> <<Span(encoded, sameKind.end)>>
               [] op \in {"lt", "lte"} -> <<Span(sameKind.start, same.end)>>
               [] op = "starts_with" /\ value[1] \in {"str", "bin"} ->
                    <<Prefixed(SubSeq(encoded, 1, Len(encoded) - 2))>>
               [] OTHER -> <<>>

\* primary_range: the ids a comparison with an id allows.
PrimaryRange(op, id) ==
    LET at == Primary(id)
        after == Append(at, 0)
    IN  CASE op = "eq"  -> <<Span(at, after)>>
          [] op = "gt"  -> <<Span(after, NoEnd)>>
          [] op = "gte" -> <<Span(at, NoEnd)>>
          [] op = "lt"  -> <<Span(<<>>, at)>>
          [] op = "lte" -> <<Span(<<>>, after)>>
          [] OTHER -> <<>>
=============================================================================
