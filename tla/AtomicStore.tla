---------------------------- MODULE AtomicStore ----------------------------
(***************************************************************************)
(* What trunkdb promises of its batches, whatever fails: the database is a *)
(* value that a batch replaces whole.  A batch is in doubt from the moment *)
(* its log begins; then it is committed, or it never happened.  A crash    *)
(* and the recovery after it resolve the doubt one way or the other, and   *)
(* change nothing else (the rustdoc of `Database::transact`: "Never        *)
(* anything in between").                                                  *)
(***************************************************************************)
CONSTANTS
    Content,   \* what a database may hold
    First,     \* what it may hold at first
    Nothing    \* no batch is in doubt

VARIABLES
    state,     \* the database as every batch acknowledged so far left it
    doubt      \* as the batch being logged would leave it, or Nothing

Init == state \in First /\ doubt = Nothing

Log == doubt = Nothing /\ doubt' \in Content /\ UNCHANGED state

Commit == doubt # Nothing /\ state' = doubt /\ doubt' = Nothing

Abandon == doubt # Nothing /\ doubt' = Nothing /\ UNCHANGED state

Next == Log \/ Commit \/ Abandon

Spec == Init /\ [][Next]_<<state, doubt>>
=============================================================================
