------------------------------- MODULE MCHeap -------------------------------
(* Heap on a small instance, for TLC.                                      *)
EXTENDS Heap

(* A small document, one of half a page, one of a whole, one that takes    *)
(* two overflow pages.                                                     *)
Sizes == [small |-> 1, half |-> 6, whole |-> 13, large |-> 16]
Docs == 1 .. 4

(* Empty; one page, packed; pages with room behind the current one, and a  *)
(* chain.                                                                  *)
SomeStarts == {<<>>, <<"small", "small", "half">>,
               <<"half", "whole", "large", "half">>}
=============================================================================
