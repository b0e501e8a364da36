-------------------------------- MODULE Finds -------------------------------
(***************************************************************************)
(* Reading a collection through its indexes: src/src/collection.rs,        *)
(* find_in, walk_in_index_order, walk_merged_by_id, read_candidates,       *)
(* count_matches, any_match_in and only_match, with src/src/select.rs,     *)
(* Answer.                                                                 *)
(*                                                                         *)
(* A collection is a record [heap, primary, indexes, trees]: the documents *)
(* [id, doc] at their locations, the location of each id, the indexes and  *)
(* for the root of each of them its entries, keys to locations.  The leaf  *)
(* of an entry is the run of LeafSize keys of its tree it is in.  What a   *)
(* find hands out is a sequence of [id, doc], doc cut to the selection.    *)
(***************************************************************************)
EXTENDS Deciders

CONSTANT LeafSize

NoDocument == <<"object", NoFields>>

\* Records::stored; an entry that leads nowhere would fail the read.
Stored(coll, loc) ==
    IF loc \in DOMAIN coll.heap THEN coll.heap[loc] ELSE [id |-> 0, doc |-> NoDocument]

\* The tree of an index, the primary one for none, as keys to locations.
Tree(coll, index) ==
    IF index = <<>>
    THEN [k \in {Primary(id) : id \in DOMAIN coll.primary} |-> coll.primary[KeyId(k)]]
    ELSE coll.trees[index[1].root]

SortedKeys(keys) ==
    LET rank == [k \in keys |-> 1 + Cardinality({j \in keys : LexLess(j, k)})]
    IN  [n \in 1..Cardinality(keys) |-> CHOOSE k \in keys : rank[k] = n]

\* BTreeIndex::walk: the entries of a range in the walk's direction, each
\* with the keys of the leaf it is the first of, where all of it is inside.
Walk(tree, range, backward) ==
    LET keys   == SortedKeys(DOMAIN tree)
        inside == {i \in DOMAIN keys : InRange(keys[i], range)}
        n      == Cardinality(inside)
        low    == CHOOSE i \in inside : \A j \in inside : i <= j
        at(k)  == IF backward THEN low + n - k ELSE low + k - 1
        leaf(i) == {j \in DOMAIN keys : (j - 1) \div LeafSize = (i - 1) \div LeafSize}
        starts(i) == /\ leaf(i) \subseteq inside
                     /\ \A j \in leaf(i) : IF backward THEN j <= i ELSE i <= j
    IN  [k \in 1..n |->
            [key |-> keys[at(k)], id |-> KeyId(keys[at(k)]), loc |-> tree[keys[at(k)]],
             leaf |-> IF starts(at(k)) THEN SelectSeq(keys, LAMBDA x :
                            \E j \in leaf(at(k)) : keys[j] = x) ELSE <<>>]]

-----------------------------------------------------------------------------
\* Filter::fields_with: the top-level names a check looks at, <<>> where a
\* path starts at the document itself.
RECURSIVE NamedPaths(_)
NamedPaths(c) ==
    CASE c[1] \in {"all", "any"} -> UNION {NamedPaths(c[2][i]) : i \in DOMAIN c[2]}
      [] c[1] = "not" -> NamedPaths(c[2])
      [] OTHER -> {c[2]}

FieldsWith(filter, sort) ==
    LET paths == NamedPaths(<<"all", filter.conditions>>)
                    \cup (IF sort THEN SortPaths(filter) ELSE {})
    IN  IF TakenWhole(paths) THEN <<>> ELSE <<{Head(p) : p \in paths}>>

\* Stored::fields
CutTo(doc, names) ==
    IF names = <<>> THEN doc
    ELSE <<"object", [n \in DOMAIN doc[2] \cap names[1] |-> doc[2][n]]>>

SelectedBy(select, doc) == IF select = <<>> THEN doc ELSE Project(select[1], doc)

\* A match handed out from its stored document.
FoundAt(coll, loc, select) ==
    LET stored == Stored(coll, loc) IN [id |-> stored.id, doc |-> SelectedBy(select, stored.doc)]

\* Selection::leaves: the paths of what is selected whole, an array where a
\* path reaches into it.
SelectionLeaves(selection) ==
    LET UpToFanOut(p) == IF IsMulti(p) THEN SubSeq(p, 1, SelectInSeq(p, LAMBDA x : x = "*") - 1)
                         ELSE p
        ends == {UpToFanOut(p) : p \in Named(selection.root)}
    IN  {p \in ends : ~\E q \in ends : IsStrictPrefix(q, p)}

\* Answer::new: the index holds every selected path as written.
CanAnswer(select, fields) ==
    select # <<>> /\ SelectionLeaves(select[1]) \subseteq ToSet(fields)

\* Answer::entry: the selection built from a key, at most one; only values
\* a key keeps exactly as they were.
AnswerEntry(selection, fields, key) ==
    LET parts  == Parts(ValuePart(key))
        leaves == SelectionLeaves(selection)
        at     == {i \in DOMAIN fields : fields[i] \in leaves}
        value  == [i \in at |-> DecodePart(parts[i], Len(fields))]
        kept   == \A i \in at : /\ value[i] # <<>>
                                /\ value[i][1][1] \in {"bool", "str", "bin", "id", "time"}
        whole  == FoldLeft(LAMBDA doc, i : IF i \in at THEN PutAt(doc, fields[i], value[i][1])
                                           ELSE doc,
                           <<"object", [n \in {"_id"} |-> <<"id", KeyId(key)>>]>>,
                           [i \in DOMAIN fields |-> i])
    IN  IF kept THEN <<<<"object", TakeOut(selection, whole[2])>>>> ELSE <<>>

-----------------------------------------------------------------------------
\* Page: the matches kept, how many the skip passed over, and whether the
\* limit is reached.
EmptyPage == [results |-> <<>>, skipped |-> 0, full |-> FALSE]

\* Page::push
Push(page, filter, found) ==
    IF page.skipped < filter.skip THEN [page EXCEPT !.skipped = @ + 1]
    ELSE [page EXCEPT !.results = Append(@, found),
                      !.full = Len(page.results) + 1 = filter.limit[1]]

PushAll(page, filter, founds) ==
    FoldLeft(LAMBDA p, f : IF p.full THEN p ELSE Push(p, filter, f), page, founds)

\* HandOut::one: an entry decided, or its document read and checked; the
\* state is a page and the last decision.
HandOne(w, st, e) ==
    LET decided == IF w.decider = <<>> THEN [is |-> "unknown", last |-> st.last]
                   ELSE Decide(w.decider[1], st.last, e.key)
        matches == \/ decided.is = "yes"
                   \/ /\ decided.is = "unknown"
                      /\ FilterMatches(w.filter, CutTo(Stored(w.coll, e.loc).doc, w.names))
        keeps   == st.page.skipped >= w.filter.skip
        answer  == IF decided.is = "yes" /\ keeps /\ w.answers
                   THEN AnswerEntry(w.select[1], w.fields, e.key) ELSE <<>>
        found   == IF answer # <<>> THEN [id |-> KeyId(e.key), doc |-> answer[1]]
                   ELSE FoundAt(w.coll, e.loc, w.select)
    IN  [st EXCEPT !.last = decided.last,
                   !.page = IF matches THEN Push(@, w.filter, found) ELSE @]

-----------------------------------------------------------------------------
\* Spans::group: the bytes a group of a walk shares, up to the first served
\* value that may stand for several.
SharedParts(w, key) ==
    LET parts == Parts(ValuePart(key))
        inexact == {i \in (w.fixed + 1)..w.end : ~PartIsExact(parts[i], Len(w.fields))}
        until == IF inexact = {} THEN w.end ELSE CHOOSE i \in inexact : \A j \in inexact : i <= j
    IN  SubSeq(parts, 1, until)

GroupBytes(w, key) == IF w.byId THEN key ELSE FlattenSeq(SharedParts(w, key))

\* Spans::exact
GroupIsExact(w, key) ==
    w.byId \/ \A i \in (w.fixed + 1)..Len(SharedParts(w, key)) :
                PartIsExact(SharedParts(w, key)[i], Len(w.fields))

\* Mutant: no group waits.
PassUnheld(w, held, group, next) == [held |-> <<>>, ready |-> <<group>>]

\* Held::pass: a group of an unordered value waits, under the bytes before
\* that value, until a backward walk has left them.  A group ends at its
\* first inexact value, so one waits under each prefix.
PassHeld(w, held, group, next) ==
    LET shared == SharedParts(w, group[1].key)
        others == {i \in (w.fixed + 1)..Len(shared) : IsOther(shared[i])}
        prefix == FlattenSeq(Front(shared))
        stack  == IF others = {} THEN held ELSE Append(held, [prefix |-> prefix, group |-> group])
        stays  == {i \in DOMAIN stack : next # <<>> /\ IsPrefix(stack[i].prefix, next[1])}
        keep   == IF stays = {} THEN 0 ELSE CHOOSE i \in stays : \A j \in stays : j <= i
        left   == Reverse(SubSeq(stack, keep + 1, Len(stack)))
    IN  [held |-> SubSeq(stack, 1, keep),
         ready |-> (IF others = {} THEN <<group>> ELSE <<>>)
                     \o [i \in DOMAIN left |-> left[i].group]]

\* Entries, or candidates, in id order.
ById(items) ==
    LET rank(i) == Cardinality({j \in DOMAIN items :
                        items[j].id < items[i].id \/ (items[j].id = items[i].id /\ j <= i)})
    IN  [n \in DOMAIN items |-> items[CHOOSE i \in DOMAIN items : rank(i) = n]]

\* A document read for a sort in memory, its entry's or its own.
Unlimited(filter) == [filter EXCEPT !.skip = 0, !.limit = <<>>]

ReadItem(coll, loc, select, names) ==
    [doc |-> CutTo(Stored(coll, loc).doc, names), found |-> FoundAt(coll, loc, select)]

FoundOf(items) == [i \in DOMAIN items |-> items[i].found]

\* take: an exact group is handed out entry by entry, another is read whole
\* and sorted by every key.
TakeGroup(w, st, group) ==
    LET items  == [i \in DOMAIN group |-> ReadItem(w.coll, ById(group)[i].loc, w.select, w.names)]
        sorted == Arrange(Unlimited(w.filter),
                          SelectSeq(items, LAMBDA x : FilterMatches(w.filter, x.doc)))
    IN  IF GroupIsExact(w, group[1].key) /\ ~w.inMemory
        THEN FoldLeft(LAMBDA s, e : IF s.page.full THEN s ELSE HandOne(w, s, e), st, ById(group))
        ELSE [st EXCEPT !.page = PushAll(@, w.filter, FoundOf(sorted))]

\* A finished group is handed out, or held with what it waits for.
FinishGroup(w, st, next) ==
    LET passed == IF w.holds THEN PassHeld(w, st.held, st.group, next)
                  ELSE [held |-> <<>>, ready |-> <<st.group>>]
    IN  FoldLeft(LAMBDA s, g : IF s.page.full THEN s ELSE TakeGroup(w, s, g),
                 [st EXCEPT !.held = passed.held, !.group = <<>>], passed.ready)

\* The walk from its entry `at` on: a leaf passed whole where its ends
\* decide it, an entry handed out as it comes where the walk's order is the
\* order asked for, or put to its group.
RECURSIVE WalkOn(_, _, _, _)
WalkOn(w, walk, at, st) ==
    LET ended == at > Len(walk)
        e     == walk[at]
        leaf  == IF ~ended /\ w.direct /\ st.group = <<>> /\ w.decider # <<>> THEN e.leaf ELSE <<>>
        all   == IF leaf = <<>> THEN [is |-> "unknown", last |-> st.last]
                 ELSE DecideAll(w.decider[1], st.last, Head(leaf), Last(leaf))
        skips == /\ all.is = "yes" /\ GroupIsExact(w, Last(leaf))
                 /\ st.page.skipped + Len(leaf) <= w.filter.skip
        told  == [st EXCEPT !.last = all.last]
        ends  == told.group # <<>> /\ (ended \/ GroupBytes(w, e.key) # GroupBytes(w, told.group[1].key))
        next  == IF ended THEN <<>> ELSE <<e.key>>
        after == IF ends THEN FinishGroup(w, told, next) ELSE told
        group == [after EXCEPT !.group = Append(@, e)]
    IN  IF st.page.full THEN st
        ELSE IF all.is = "no" THEN WalkOn(w, walk, at + Len(leaf), told)
        ELSE IF skips
        THEN WalkOn(w, walk, at + Len(leaf), [told EXCEPT !.page.skipped = @ + Len(leaf)])
        ELSE IF ended \/ after.page.full THEN after
        ELSE IF w.direct /\ after.group = <<>> /\ GroupIsExact(w, e.key)
        THEN WalkOn(w, walk, at + 1, HandOne(w, after, e))
        ELSE IF w.byId
        THEN WalkOn(w, walk, at + 1, [TakeGroup(w, after, group.group) EXCEPT !.group = <<>>])
        ELSE WalkOn(w, walk, at + 1, group)

\* The documents whose first sort value no index holds, after all others.
UnorderedTail(w, page) ==
    LET primary == Walk(Tree(w.coll, <<>>), Everything, FALSE)
        items == [i \in DOMAIN primary |-> ReadItem(w.coll, primary[i].loc, w.select, w.names)]
        found == SelectSeq(items, LAMBDA x :
                    /\ IsUnordered(ValueOrNull(x.doc, Head(w.filter.sort).field))
                    /\ FilterMatches(w.filter, x.doc))
    IN  PushAll(page, w.filter, FoundOf(Arrange(Unlimited(w.filter), found)))

\* walk_in_index_order
WalkInIndexOrder(coll, filter, order, select) ==
    LET fields   == IF order.index = <<>> THEN <<>> ELSE order.index[1].fields
        backward == Head(filter.sort).order = "desc"
        inMemory == Len(filter.sort) > order.served
        holds    == backward /\ Len(fields) > 1 /\ ~order.byId
        end      == order.fixed + order.served
        decider  == Decider(filter, fields)
        w == [coll |-> coll, filter |-> filter, select |-> select, fields |-> fields,
              fixed |-> order.fixed, end |-> end, byId |-> order.byId,
              inMemory |-> inMemory, holds |-> holds, decider |-> decider,
              answers |-> decider # <<>> /\ CanAnswer(select, fields),
              names |-> FieldsWith(filter, ~order.byId \/ inMemory),
              direct |-> /\ ~backward \/ order.byId
                         /\ ~inMemory /\ ~holds
                         /\ order.byId \/ end = Len(fields)]
        range == IF order.range = <<>> THEN Everything ELSE order.range[1]
        walked == WalkOn(w, Walk(Tree(coll, order.index), range, backward), 1,
                         [page |-> EmptyPage, last |-> NoDecision, group |-> <<>>, held |-> <<>>])
        unordered == order.range = <<>> /\ Len(fields) <= 1 /\ ~order.byId
    IN  IF filter.limit[1] = 0 THEN <<>>
        ELSE IF unordered /\ ~walked.page.full THEN UnorderedTail(w, walked.page).results
        ELSE walked.page.results

\* walk_merged_by_id: the ranges side by side, the next id of any of them,
\* each with its own last decision.
RECURSIVE MergeOn(_, _, _, _, _)
MergeOn(w, walks, lasts, lastId, page) ==
    LET heads == {i \in DOMAIN walks : walks[i] # <<>>}
        id(i) == KeyId(walks[i][1].key)
        before(i, j) == \/ IF w.backward THEN id(i) > id(j) ELSE id(i) < id(j)
                        \/ id(i) = id(j) /\ (IF w.backward THEN i < j ELSE i > j)
        top   == CHOOSE i \in heads : \A j \in heads : i = j \/ before(i, j)
        st    == HandOne(w, [page |-> page, last |-> lasts[top]], walks[top][1])
        rest  == [walks EXCEPT ![top] = Tail(@)]
    IN  IF heads = {} \/ page.full THEN page
        ELSE IF lastId = <<id(top)>> THEN MergeOn(w, rest, lasts, lastId, page)
        ELSE MergeOn(w, rest, [lasts EXCEPT ![top] = st.last], <<id(top)>>, st.page)

WalkMergedById(coll, filter, ranges, select) ==
    LET backward == Head(filter.sort).order = "desc"
        oneIndex == \A i \in DOMAIN ranges : ranges[i].index.root = ranges[1].index.root
        fields   == ranges[1].index.fields
        decider  == IF oneIndex THEN Decider(filter, fields) ELSE <<>>
        w == [coll |-> coll, filter |-> filter, select |-> select, fields |-> fields,
              decider |-> decider, backward |-> backward,
              answers |-> decider # <<>> /\ CanAnswer(select, fields),
              names |-> FieldsWith(filter, FALSE)]
    IN  IF filter.limit[1] = 0 THEN <<>>
        ELSE MergeOn(w, [i \in DOMAIN ranges |->
                            Walk(Tree(coll, <<ranges[i].index>>), ranges[i].range, backward)],
                     [i \in DOMAIN ranges |-> NoDecision], <<>>, EmptyPage).results

-----------------------------------------------------------------------------
\* candidate_entries: the entries to look at, each document once, and the
\* index they come from: <<>> the primary one, <<i>> one, "several" others.
LookUp(coll, ids) ==
    LET there == SelectSeq(ids, LAMBDA id : id \in DOMAIN coll.primary)
    IN  [i \in DOMAIN there |-> [key |-> Primary(there[i]), id |-> there[i],
                                  loc |-> coll.primary[there[i]]]]

OncePerDocument(entries) ==
    FoldLeft(LAMBDA kept, e : IF \E i \in DOMAIN kept : KeyId(kept[i].key) = KeyId(e.key)
                              THEN kept ELSE Append(kept, e),
             <<>>, entries)

CandidateEntries(coll, filter) ==
    LET ids    == Ids(filter)
        reads  == IndexReads(filter, coll.indexes)
        ranges == reads[1].ranges
        one    == /\ reads[1].ids = <<>> /\ ranges # <<>>
                  /\ \A i \in DOMAIN ranges : ranges[i].index.root = ranges[1].index.root
        once   == Len(ranges) = 1 /\ ~MultiKey(ranges[1].index) /\ reads[1].ids = <<>>
        found  == FlattenSeq([i \in DOMAIN ranges |->
                    Walk(Tree(coll, <<ranges[i].index>>), ranges[i].range, FALSE)])
    IN  IF ids # <<>> THEN [entries |-> LookUp(coll, ids[1]), index |-> <<>>, several |-> FALSE]
        ELSE IF reads = <<>>
        THEN [entries |-> Walk(Tree(coll, <<>>), Everything, FALSE),
              index |-> <<>>, several |-> FALSE]
        ELSE [entries |-> IF once THEN found
                          ELSE OncePerDocument(LookUp(coll, reads[1].ids) \o found),
              index |-> IF one THEN <<ranges[1].index>> ELSE <<>>, several |-> ~one]

\* read_candidates with what find_in makes of them: the matches, each with
\* the document to sort by and what is handed out.  An entry may reject or
\* accept its document unread.
Candidates(coll, filter, names, sort, select) ==
    LET read    == CandidateEntries(coll, filter)
        fields  == IF read.index = <<>> THEN <<>> ELSE read.index[1].fields
        decider == IF read.several THEN <<>> ELSE Decider(filter, fields)
        orders  == IF sort /\ ~read.several THEN Covering(filter, fields, TRUE) ELSE <<>>
        answers == decider # <<>> /\ CanAnswer(select, fields)
        entryDoc(key) == IF ~sort THEN <<Null>>
                         ELSE IF orders = <<>> THEN <<>>
                         ELSE EntryDoc(ForSort(orders[1], filter), key)
        unread(e) == LET answer == IF answers THEN AnswerEntry(select[1], fields, e.key) ELSE <<>>
                     IN  [doc |-> entryDoc(e.key)[1], id |-> KeyId(e.key),
                          found |-> IF answer # <<>> THEN [id |-> KeyId(e.key), doc |-> answer[1]]
                                    ELSE FoundAt(coll, e.loc, select)]
        readIt(e) == [doc |-> CutTo(Stored(coll, e.loc).doc, names), id |-> Stored(coll, e.loc).id,
                      found |-> FoundAt(coll, e.loc, select)]
        one(acc, e) ==
            LET decided == IF decider = <<>> THEN [is |-> "unknown", last |-> acc.last]
                           ELSE Decide(decider[1], acc.last, e.key)
                item == IF decided.is = "yes" /\ entryDoc(e.key) # <<>> THEN <<unread(e)>>
                        ELSE IF decided.is # "no" /\ FilterMatches(filter, readIt(e).doc)
                        THEN <<readIt(e)>> ELSE <<>>
            IN  [last |-> decided.last, items |-> acc.items \o item]
    IN  FoldLeft(one, [last |-> NoDecision, items |-> <<>>], read.entries).items

\* find_in: what the filter finds, the hint being one it can follow.
FindIn(coll, filter, select) ==
    LET order  == IndexOrder(filter, coll.indexes)
        merged == MergedById(filter, coll.indexes)
        sort   == filter.sort # <<>>
        items  == Candidates(coll, filter, FieldsWith(filter, TRUE), sort, select)
    IN  IF order # <<>> THEN WalkInIndexOrder(coll, filter, order[1], select)
        ELSE IF merged # <<>> THEN WalkMergedById(coll, filter, merged[1], select)
        ELSE FoundOf(Arrange(filter, IF sort THEN ById(items) ELSE items))

\* count_in: entries counted as an index is walked, a leaf whole where its
\* ends decide it; at most one number, none where candidates must be read.
RECURSIVE CountOn(_, _, _, _, _)
CountOn(w, walk, at, last, count) ==
    LET leaf == walk[at].leaf
        all  == IF leaf = <<>> THEN [is |-> "unknown", last |-> last]
                ELSE DecideAll(w.decider, last, Head(leaf), Last(leaf))
        one  == Decide(w.decider, all.last, walk[at].key)
        doc  == CutTo(Stored(w.coll, walk[at].loc).doc, FieldsWith(w.filter, FALSE))
        matches == one.is = "yes" \/ (one.is = "unknown" /\ FilterMatches(w.filter, doc))
    IN  IF at > Len(walk) THEN count
        ELSE IF all.is # "unknown"
        THEN CountOn(w, walk, at + Len(leaf), all.last,
                     count + (IF all.is = "yes" THEN Len(leaf) ELSE 0))
        ELSE CountOn(w, walk, at + 1, one.last, count + (IF matches THEN 1 ELSE 0))

CountIn(coll, filter) ==
    LET ranges == IndexRanges(filter, coll.indexes)
        index  == IF ranges = <<>> THEN <<>> ELSE <<ranges[1][1].index>>
        range  == IF ranges = <<>> THEN Everything ELSE ranges[1][1].range
        decider == Decider(filter, IF index = <<>> THEN <<>> ELSE index[1].fields)
    IN  IF filter.conditions = <<>> THEN <<Cardinality(DOMAIN coll.primary)>>
        ELSE IF Ids(filter) # <<>> THEN <<>>
        ELSE IF ranges # <<>> /\ Len(ranges[1]) # 1 THEN <<>>
        ELSE IF index # <<>> /\ MultiKey(index[1]) THEN <<>>
        ELSE IF decider = <<>> THEN <<>>
        ELSE <<CountOn([coll |-> coll, filter |-> filter, decider |-> decider[1]],
                       Walk(Tree(coll, index), range, FALSE), 1, NoDecision, 0)>>

\* The matches read without a sort or a selection: what count_matches,
\* any_match_in and only_match go by.
Unsorted(coll, filter) == Candidates(coll, filter, FieldsWith(filter, FALSE), FALSE, <<>>)

\* count_matches
Paged(filter, n) ==
    LET left == IF n > filter.skip THEN n - filter.skip ELSE 0
    IN  IF filter.limit = <<>> \/ left < filter.limit[1] THEN left ELSE filter.limit[1]

CountMatches(coll, filter) ==
    LET counted == CountIn(coll, filter)
    IN  Paged(filter, IF counted # <<>> THEN counted[1] ELSE Len(Unsorted(coll, filter)))

AnyMatchIn(coll, filter) == Unsorted(coll, filter) # <<>>

\* only_match: the ids matched; an upsert refuses several.
OnlyMatch(coll, filter) ==
    LET items == Unsorted(coll, filter) IN [i \in DOMAIN items |-> items[i].id]
=============================================================================
