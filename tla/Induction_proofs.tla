-------------------------- MODULE Induction_proofs --------------------------
(***************************************************************************)
(* Induction over the natural numbers, stated with a set in place of a     *)
(* predicate: a set is named by what its members satisfy where a lemma is  *)
(* used, and nothing of higher order is left to instantiate.               *)
(***************************************************************************)
EXTENDS Integers, WellFoundedInduction, TLAPS

(* Any numbers there are have a least one.                                 *)
LEMMA NatMin ==
    ASSUME NEW T, T \subseteq Nat, T # {}
    PROVE  \E n \in T : \A m \in T : n <= m
<1>1. PICK n \in T : \A m \in T : <<m, n>> \notin OpToRel(<, Nat)
  BY NatLessThanWellFounded, WFMin, Zenon
<1>2. \A m \in T : ~(m < n)
  BY <1>1 DEF OpToRel
<1> QED
  BY <1>2

(* A set with 0, and with n + 1 for each n, has every number.              *)
LEMMA NatInd ==
    ASSUME NEW T, 0 \in T, \A n \in Nat : n \in T => n + 1 \in T
    PROVE  Nat \subseteq T
<1> SUFFICES ASSUME Nat \ T # {} PROVE FALSE
  OBVIOUS
<1>1. PICK n \in Nat \ T : \A m \in Nat \ T : n <= m
  BY NatMin
<1>2. n # 0 /\ n - 1 \in Nat /\ n - 1 \notin Nat \ T
  BY <1>1
<1> QED
  BY <1>1, <1>2

(* The states of a loop of n steps from b, by the function G of a state    *)
(* and the step.                                                           *)
IsLoop(h, n, S, b, G) ==
    /\ h \in [0 .. n -> S] /\ h[0] = b
    /\ \A i \in 1 .. n : h[i] = G[<<h[i - 1], i>>]

(* There are such states, as a definition by recursion takes for granted.  *)
LEMMA LoopExists ==
    ASSUME NEW n \in Nat, NEW S, NEW b \in S, NEW G \in [S \X (1 .. n) -> S]
    PROVE  \E h : IsLoop(h, n, S, b, G)
<1> DEFINE T == {k \in Nat : k <= n => \E h \in [0 .. k -> S] :
                    h[0] = b /\ \A i \in 1 .. k : h[i] = G[<<h[i - 1], i>>]}
<1>1. 0 \in T
  <2>1. [i \in 0 .. 0 |-> b] \in [0 .. 0 -> S] /\ [i \in 0 .. 0 |-> b][0] = b
    OBVIOUS
  <2>2. 1 .. 0 = {}
    OBVIOUS
  <2> QED
    BY <2>1, <2>2
<1>2. ASSUME NEW k \in Nat, k \in T PROVE k + 1 \in T
  <2> SUFFICES ASSUME k + 1 <= n
               PROVE  \E h \in [0 .. k + 1 -> S] :
                  h[0] = b /\ \A i \in 1 .. k + 1 : h[i] = G[<<h[i - 1], i>>]
    OBVIOUS
  <2>1. PICK h \in [0 .. k -> S] :
           h[0] = b /\ \A i \in 1 .. k : h[i] = G[<<h[i - 1], i>>]
    BY <1>2
  <2>2. PICK x : x = G[<<h[k], k + 1>>]
    OBVIOUS
  <2>3. x \in S
    <3>1. h[k] \in S /\ k + 1 \in 1 .. n
      OBVIOUS
    <3> QED
      BY <2>2, <3>1
  <2>4. PICK f : f = [i \in 0 .. k + 1 |-> IF i = k + 1 THEN x ELSE h[i]]
    OBVIOUS
  <2>5. \A i \in 0 .. k : i \in 0 .. k + 1 /\ f[i] = h[i]
    BY <2>4
  <2>6. f[k + 1] = x
    BY <2>4
  <2>7. f \in [0 .. k + 1 -> S]
    <3>1. \A i \in 0 .. k + 1 : i # k + 1 => i \in 0 .. k
      OBVIOUS
    <3> QED
      BY <2>3, <2>4, <3>1
  <2>8. f[0] = b
    BY <2>1, <2>5
  <2>9. ASSUME NEW i \in 1 .. k + 1 PROVE f[i] = G[<<f[i - 1], i>>]
    <3>1. CASE i = k + 1
      <4>1. i - 1 = k /\ f[k] = h[k]
        BY <2>5, <3>1
      <4> QED
        BY <2>2, <2>6, <3>1, <4>1
    <3>2. CASE i # k + 1
      <4>1. i \in 1 .. k /\ i \in 0 .. k /\ i - 1 \in 0 .. k
        BY <3>2
      <4> QED
        BY <2>1, <2>5, <4>1
    <3> QED
      BY <3>1, <3>2
  <2> QED
    BY <2>7, <2>8, <2>9
<1>3. n \in T
  <2> HIDE DEF T
  <2> QED
    BY <1>1, <1>2, NatInd
<1> QED
  BY <1>3 DEF IsLoop

(* A set of places has a last one.                                         *)
LEMMA LastOf ==
    ASSUME NEW m \in Nat, NEW S, S \subseteq 1 .. m, S # {}
    PROVE  \E i \in S : \A j \in S : j <= i
<1> DEFINE Q(n) == \A R \in SUBSET (1 .. n) : R # {} => \E i \in R : \A j \in R : j <= i
           T == {n \in Nat : Q(n)}
<1>1. 0 \in T
  <2>1. 1 .. 0 = {}
    OBVIOUS
  <2>2. Q(0)
    BY <2>1
  <2> QED
    BY <2>2
<1>2. ASSUME NEW n \in Nat, n \in T PROVE n + 1 \in T
  <2> SUFFICES ASSUME NEW R \in SUBSET (1 .. n + 1), R # {}
               PROVE  \E i \in R : \A j \in R : j <= i
    OBVIOUS
  <2>1. CASE n + 1 \in R
    BY <2>1
  <2>2. CASE n + 1 \notin R
    <3>1. R \in SUBSET (1 .. n)
      BY <2>2
    <3> QED
      BY <1>2, <3>1
  <2> QED
    BY <2>1, <2>2
<1>3. m \in T
  <2> HIDE DEF T
  <2> QED
    BY <1>1, <1>2, NatInd
<1> QED
  BY <1>3
=============================================================================
