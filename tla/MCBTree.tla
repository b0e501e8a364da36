------------------------------ MODULE MCBTree ------------------------------
(* BTree on a small instance, for TLC.                                     *)
EXTENDS BTree

Keys41 == 1 .. 41
Even(n) == [i \in 1 .. n |-> 2 * i]

(* All keys as long as they may be; some shorter.                          *)
SomeLengths == {[k \in Key |-> 3],
                [k \in Key |-> IF k % 3 = 0 THEN 3 ELSE 1]}

(* Empty; a full root above full leaves; the same filled from the end; an  *)
(* older one with a leaf of tombstones.                                    *)
SomeStarts == {[keys |-> <<>>, dead |-> {}],
               [keys |-> Even(20), dead |-> {}],
               [keys |-> Reverse(Even(16)), dead |-> {8}],
               [keys |-> Even(12), dead |-> {10, 12, 14, 16, 22}]}
=============================================================================
