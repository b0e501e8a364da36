--------------------------- MODULE MCLiveQueries ---------------------------
(* LiveQueries on small instances, for TLC.                                *)
EXTENDS LiveQueries

(* The starts: no document, or all of them, their values in the order of   *)
(* their ids; the first batch makes the rest.                              *)
NoneOrAll ==
    LET there == {id \in Id : Doc(docs, id) # NoDoc}
    IN  /\ there \in {{}, Id}
        /\ \A i, j \in there : i <= j => Doc(docs, i) <= Doc(docs, j)

StartInit == LiveInit /\ NoneOrAll

StartSpec == StartInit /\ [][LiveNext]_vars
=============================================================================
