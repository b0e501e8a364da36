--------------------------- MODULE CollectionReads --------------------------
(***************************************************************************)
(* Collections with their reads: the operators Collections takes as        *)
(* parameters are those of Documents, and a read may ask any filter of     *)
(* Asked of the collection between two calls.  The reads are parameters    *)
(* too: TLC expands a definition at every use to count what it evaluates,  *)
(* and theirs are deep.                                                    *)
(***************************************************************************)
EXTENDS IntegrityCheck, Collections

CONSTANTS
    Asked(_),               \* the filters reads ask after that many calls
    Totalled(_),            \* the aggregates: pairs of a filter and one
    Damages(_, _),          \* the files a check may meet for one, after that many calls
    FindBy(_, _, _),        \* find_in: collection, filter, selection
    CountBy(_, _),          \* count_matches: collection, filter
    AnyBy(_, _),            \* any_match_in
    TotalBy(_, _, _),       \* aggregate_in: collection, filter, aggregate
    CheckBy(_),             \* check_collection: a file
    RowsFor(_, _, _)        \* what an aggregate gives: documents, filter, aggregate

\* Between calls every filter finds the documents that match it, once each,
\* in its order, cut to its page and its selection, by whatever plan its
\* hint and the indexes lead to: ids, ranges, a union of them, a walk in
\* index order, a merge by id or a scan, entries deciding and answering or
\* not (find_in).  And so do the filters of a running call, on the copy its
\* earlier operations left.
FindIsRight(filter) ==
    LET found == FindBy(coll, filter, filter.select)
        ids   == [i \in DOMAIN found |-> found[i].id]
        docs  == DocsOf(coll)
    IN  /\ ids \in Answers(docs, filter)
        /\ \A i \in DOMAIN found : found[i].doc = Selected(filter, docs[ids[i]])

FindsRight ==
    /\ outcome[1] = "done" =>
        \A filter \in Asked(calls) : HintFollowed(filter, coll.indexes) => FindIsRight(filter)
    /\ ReadsRight

\* What is counted, leaf by leaf or from the candidates, is what is found
\* (count_matches, any_match_in).
CountsAgree ==
    outcome[1] = "done" =>
        \A filter \in Asked(calls) : HintFollowed(filter, coll.indexes) =>
            LET n == Cardinality(MatchingIds(DocsOf(coll), filter))
            IN  /\ CountBy(coll, filter) = Paged(filter, n)
                /\ AnyBy(coll, filter) = (n > 0)

\* An aggregate gives the same rows from index entries, leaves counted
\* whole, or documents: those of its groups by their meaning
\* (aggregate_in, aggregate_by_entries, Groups).
AggregatesRight ==
    outcome[1] = "done" =>
        \A asked \in Totalled(calls) :
            LET filter == asked[1]  aggregate == asked[2]
                picks == filter.sort # <<>> \/ filter.limit # <<>> \/ filter.skip > 0
                rows == TotalBy(coll, filter, aggregate)
            IN  IF CheckAggregate(aggregate) /\ ~(aggregate.window # <<>> /\ picks)
                   /\ HintFollowed(filter, coll.indexes)
                THEN rows = <<RowsFor(DocsOf(coll), filter, aggregate)>>
                ELSE rows = <<>>

FileOf(c) ==
    [heap |-> c.heap, primary |-> c.primary, indexes |-> c.indexes,
     lists |-> [r \in DOMAIN c.trees |->
        LET keys == SortedKeys(DOMAIN c.trees[r])
        IN  [n \in DOMAIN keys |-> [key |-> keys[n], loc |-> c.trees[r][keys[n]]]]]]

\* A check reports a problem exactly where a file is not sound, and names
\* what is damaged: counting right entries hides no missing one, in a file
\* with entries lost, doubled, astray or out of order, documents unreadable
\* or under another's id, or equal values in a unique index (check_index,
\* name_missing, same_in_run).
CheckFindsDamage ==
    outcome[1] = "done" =>
        \A file \in Damages(FileOf(coll), calls) :
            LET problems == CheckBy(file)
            IN  /\ (problems = {}) <=> SoundFile(file)
                /\ \A i \in DOMAIN file.indexes : NamesDamage(file, file.indexes[i], problems)
=============================================================================
