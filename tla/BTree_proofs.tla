---------------------------- MODULE BTree_proofs ----------------------------
(***************************************************************************)
(* What an index keeps through every operation of src/index/btree.rs, for  *)
(* all keys, lengths of keys, page sizes and bounds.                       *)
(*                                                                         *)
(* The invariant has, for every page, the level it is at and the set of    *)
(* the keys that belong below it (`Tree`): a branch's separators part its  *)
(* set among its children, a leaf's keys are in its set, and pages of one  *)
(* level share no key.  An insert breaks that between a split and the      *)
(* parent's new cell, where the split page stands for both halves          *)
(* (`Outer`); the lemmas follow it up the path, to a new root.  The leaves *)
(* are linked in the order of their sets, which walks and counts rely on.  *)
(***************************************************************************)
EXTENDS BTree, Induction_proofs, FiniteSetTheorems, TLAPS

-----------------------------------------------------------------------------
(* Loops.                                                                  *)

(* One turn of `Only`.                                                     *)
OnlyOn(seq, wanted, was, n) ==
    IF seq[n] \in wanted THEN Append(was, seq[n]) ELSE was

(* The states of `Only`.                                                   *)
OnlyRun(h, n, seq, wanted) ==
    h = [i \in 0 .. n |-> IF i = 0 THEN <<>> ELSE OnlyOn(seq, wanted, h[i - 1], i)]

LEMMA OnlySteps ==
    ASSUME NEW seq, NEW wanted, Len(seq) \in Nat
    PROVE  \E h : /\ OnlyRun(h, Len(seq), seq, wanted) /\ Only(seq, wanted) = h[Len(seq)]
                 /\ h[0] = <<>>
                 /\ \A i \in 1 .. Len(seq) : h[i] = OnlyOn(seq, wanted, h[i - 1], i)
<1> DEFINE T == {k \in Nat : \E h : OnlyRun(h, k, seq, wanted)}
<1>1. 0 \in T
  <2> DEFINE h == [i \in 0 .. 0 |-> <<>>]
  <2>1. \A i \in 0 .. 0 : i = 0
    OBVIOUS
  <2>2. OnlyRun(h, 0, seq, wanted)
    BY <2>1 DEF OnlyRun
  <2> QED
    BY <2>2
<1>2. ASSUME NEW k \in Nat, k \in T PROVE k + 1 \in T
  <2>1. PICK h : OnlyRun(h, k, seq, wanted)
    BY <1>2
  <2>2. \A i \in 0 .. k : h[i] = IF i = 0 THEN <<>> ELSE OnlyOn(seq, wanted, h[i - 1], i)
    BY <2>1 DEF OnlyRun
  <2>3. PICK last : last = OnlyOn(seq, wanted, h[k], k + 1)
    OBVIOUS
  <2>4. PICK g : g = [i \in 0 .. k + 1 |-> IF i = k + 1 THEN last ELSE h[i]]
    OBVIOUS
  <2>5. \A i \in 0 .. k : g[i] = h[i]
    BY <2>4
  <2>6. g[k + 1] = last
    BY <2>4
  <2>7. ASSUME NEW i \in 0 .. k + 1
        PROVE  g[i] = IF i = 0 THEN <<>> ELSE OnlyOn(seq, wanted, g[i - 1], i)
    <3>1. CASE i = k + 1
      <4>1. g[k] = h[k] /\ i # 0 /\ i - 1 = k
        BY <2>5, <3>1
      <4> QED
        BY <2>3, <2>6, <3>1, <4>1
    <3>2. CASE i # k + 1 /\ i # 0
      <4>1. i \in 0 .. k /\ i - 1 \in 0 .. k
        BY <3>2
      <4>2. g[i] = h[i] /\ g[i - 1] = h[i - 1]
        BY <2>5, <4>1
      <4> QED
        BY <2>2, <3>2, <4>1, <4>2
    <3>3. CASE i = 0
      <4>1. i \in 0 .. k
        BY <3>3
      <4> QED
        BY <2>2, <2>5, <3>3, <4>1
    <3> QED
      BY <3>1, <3>2, <3>3
  <2>8. g = [i \in 0 .. k + 1 |-> IF i = 0 THEN <<>> ELSE OnlyOn(seq, wanted, g[i - 1], i)]
    <3>1. DOMAIN g = 0 .. k + 1 /\ g = [i \in 0 .. k + 1 |-> g[i]]
      BY <2>4
    <3> QED
      BY <2>7, <3>1
  <2>9. OnlyRun(g, k + 1, seq, wanted)
    BY <2>8 DEF OnlyRun
  <2> QED
    BY <2>9
<1>3. Len(seq) \in T
  <2> HIDE DEF T
  <2> QED
    BY <1>1, <1>2, NatInd
<1> DEFINE D(h) == [i \in 0 .. Len(seq) |-> IF i = 0 THEN <<>> ELSE OnlyOn(seq, wanted, h[i - 1], i)]
           run == CHOOSE h : h = D(h)
<1>4. \E h : h = D(h)
  BY <1>3 DEF OnlyRun
<1>5. run = D(run)
  <2> HIDE DEF D
  <2> QED
    BY <1>4
<1>6. OnlyRun(run, Len(seq), seq, wanted)
  BY <1>5 DEF OnlyRun
<1>7. Only(seq, wanted) = run[Len(seq)]
  BY DEF Only, OnlyOn
<1>8. \A i \in 0 .. Len(seq) : run[i] = IF i = 0 THEN <<>> ELSE OnlyOn(seq, wanted, run[i - 1], i)
  <2> HIDE DEF run
  <2> QED
    BY <1>5
<1>9. run[0] = <<>> /\ \A i \in 1 .. Len(seq) : run[i] = OnlyOn(seq, wanted, run[i - 1], i)
  <2> HIDE DEF run
  <2>1. 0 \in 0 .. Len(seq) /\ \A i \in 1 .. Len(seq) : i \in 0 .. Len(seq) /\ i # 0
    OBVIOUS
  <2> QED
    BY <1>8, <2>1
<1> QED
  BY <1>6, <1>7, <1>9

(* The states of a sum.                                                    *)
SumRun(h, n, f) ==
    h = [i \in 0 .. n |-> IF i = 0 THEN 0 ELSE (h[i - 1] + f[i])]

LEMMA SumSteps ==
    ASSUME NEW f, NEW n \in Nat
    PROVE  \E h : /\ SumRun(h, n, f) /\ SumTo(f, n) = h[n]
                 /\ h[0] = 0
                 /\ \A i \in 1 .. n : h[i] = (h[i - 1] + f[i])
<1> DEFINE T == {k \in Nat : \E h : SumRun(h, k, f)}
<1>1. 0 \in T
  <2> DEFINE h == [i \in 0 .. 0 |-> 0]
  <2>1. \A i \in 0 .. 0 : i = 0
    OBVIOUS
  <2>2. SumRun(h, 0, f)
    BY <2>1 DEF SumRun
  <2> QED
    BY <2>2
<1>2. ASSUME NEW k \in Nat, k \in T PROVE k + 1 \in T
  <2>1. PICK h : SumRun(h, k, f)
    BY <1>2
  <2>2. \A i \in 0 .. k : h[i] = IF i = 0 THEN 0 ELSE (h[i - 1] + f[i])
    BY <2>1 DEF SumRun
  <2>3. PICK last : last = (h[k] + f[k + 1])
    OBVIOUS
  <2>4. PICK g : g = [i \in 0 .. k + 1 |-> IF i = k + 1 THEN last ELSE h[i]]
    OBVIOUS
  <2>5. \A i \in 0 .. k : g[i] = h[i]
    BY <2>4
  <2>6. g[k + 1] = last
    BY <2>4
  <2>7. ASSUME NEW i \in 0 .. k + 1
        PROVE  g[i] = IF i = 0 THEN 0 ELSE (g[i - 1] + f[i])
    <3>1. CASE i = k + 1
      <4>1. g[k] = h[k] /\ i # 0 /\ i - 1 = k
        BY <2>5, <3>1
      <4> QED
        BY <2>3, <2>6, <3>1, <4>1
    <3>2. CASE i # k + 1 /\ i # 0
      <4>1. i \in 0 .. k /\ i - 1 \in 0 .. k
        BY <3>2
      <4>2. g[i] = h[i] /\ g[i - 1] = h[i - 1]
        BY <2>5, <4>1
      <4> QED
        BY <2>2, <3>2, <4>1, <4>2
    <3>3. CASE i = 0
      <4>1. i \in 0 .. k
        BY <3>3
      <4> QED
        BY <2>2, <2>5, <3>3, <4>1
    <3> QED
      BY <3>1, <3>2, <3>3
  <2>8. g = [i \in 0 .. k + 1 |-> IF i = 0 THEN 0 ELSE (g[i - 1] + f[i])]
    <3>1. DOMAIN g = 0 .. k + 1 /\ g = [i \in 0 .. k + 1 |-> g[i]]
      BY <2>4
    <3> QED
      BY <2>7, <3>1
  <2>9. SumRun(g, k + 1, f)
    BY <2>8 DEF SumRun
  <2> QED
    BY <2>9
<1>3. n \in T
  <2> HIDE DEF T
  <2> QED
    BY <1>1, <1>2, NatInd
<1> DEFINE D(h) == [i \in 0 .. n |-> IF i = 0 THEN 0 ELSE (h[i - 1] + f[i])]
           run == CHOOSE h : h = D(h)
<1>4. \E h : h = D(h)
  BY <1>3 DEF SumRun
<1>5. run = D(run)
  <2> HIDE DEF D
  <2> QED
    BY <1>4
<1>6. SumRun(run, n, f)
  BY <1>5 DEF SumRun
<1>7. SumTo(f, n) = run[n]
  BY DEF SumTo
<1>8. \A i \in 0 .. n : run[i] = IF i = 0 THEN 0 ELSE (run[i - 1] + f[i])
  <2> HIDE DEF run
  <2> QED
    BY <1>5
<1>9. run[0] = 0 /\ \A i \in 1 .. n : run[i] = (run[i - 1] + f[i])
  <2> HIDE DEF run
  <2>1. 0 \in 0 .. n /\ \A i \in 1 .. n : i \in 0 .. n /\ i # 0
    OBVIOUS
  <2> QED
    BY <1>8, <2>1
<1> QED
  BY <1>6, <1>7, <1>9

-----------------------------------------------------------------------------
(* Sums.                                                                   *)

LEMMA SumNext ==
    ASSUME NEW f, NEW n \in Nat
    PROVE  SumTo(f, 0) = 0 /\ SumTo(f, n + 1) = SumTo(f, n) + f[n + 1]
<1>1. PICK g : /\ SumTo(f, n) = g[n] /\ g[0] = 0
               /\ \A i \in 1 .. n : g[i] = (g[i - 1] + f[i])
  BY SumSteps
<1>2. PICK h : /\ SumTo(f, n + 1) = h[n + 1] /\ h[0] = 0
               /\ \A i \in 1 .. n + 1 : h[i] = (h[i - 1] + f[i])
  BY SumSteps
<1>3. SumTo(f, 0) = 0
  BY SumSteps
<1> DEFINE T == {k \in Nat : k <= n => g[k] = h[k]}
<1>4. 0 \in T
  BY <1>1, <1>2
<1>5. ASSUME NEW k \in Nat, k \in T PROVE k + 1 \in T
  <2> SUFFICES ASSUME k + 1 <= n PROVE g[k + 1] = h[k + 1]
    OBVIOUS
  <2>1. k + 1 \in 1 .. n /\ k + 1 \in 1 .. n + 1 /\ (k + 1) - 1 = k /\ g[k] = h[k]
    BY <1>5
  <2> QED
    BY <1>1, <1>2, <2>1
<1>6. n \in T
  <2> HIDE DEF T
  <2> QED
    BY <1>4, <1>5, NatInd
<1>7. n + 1 \in 1 .. n + 1 /\ (n + 1) - 1 = n
  OBVIOUS
<1> QED
  BY <1>1, <1>2, <1>3, <1>6, <1>7

(* A sum goes by the numbers summed only.                                  *)
LEMMA SumSame ==
    ASSUME NEW n \in Nat, NEW f, NEW g, \A i \in 1 .. n : f[i] = g[i]
    PROVE  SumTo(f, n) = SumTo(g, n)
<1> DEFINE T == {k \in Nat : k <= n => SumTo(f, k) = SumTo(g, k)}
<1>1. 0 \in T
  BY SumNext
<1>2. ASSUME NEW k \in Nat, k \in T PROVE k + 1 \in T
  <2> SUFFICES ASSUME k + 1 <= n PROVE SumTo(f, k + 1) = SumTo(g, k + 1)
    OBVIOUS
  <2>1. k + 1 \in 1 .. n /\ SumTo(f, k) = SumTo(g, k)
    BY <1>2
  <2> QED
    BY <2>1, SumNext
<1> HIDE DEF T
<1>3. n \in T
  BY <1>1, <1>2, NatInd
<1> QED
  BY <1>3 DEF T

LEMMA SumNat ==
    ASSUME NEW n \in Nat, NEW f, \A i \in 1 .. n : f[i] \in Nat
    PROVE  \A i \in 0 .. n : SumTo(f, i) \in Nat
<1> DEFINE T == {k \in Nat : k <= n => SumTo(f, k) \in Nat}
<1>1. 0 \in T
  BY SumNext
<1>2. ASSUME NEW k \in Nat, k \in T PROVE k + 1 \in T
  <2> SUFFICES ASSUME k + 1 <= n PROVE SumTo(f, k + 1) \in Nat
    OBVIOUS
  <2>1. k + 1 \in 1 .. n /\ SumTo(f, k) \in Nat
    BY <1>2
  <2>2. SumTo(f, k + 1) = SumTo(f, k) + f[k + 1] /\ f[k + 1] \in Nat
    BY <2>1, SumNext
  <2> QED
    BY <2>1, <2>2
<1> HIDE DEF T
<1>3. Nat \subseteq T
  BY <1>1, <1>2, NatInd
<1> QED
  BY <1>3 DEF T

(* None more than the other's: the sum no more.                            *)
LEMMA SumNoMore ==
    ASSUME NEW n \in Nat, NEW f, NEW g, \A i \in 1 .. n : f[i] \in Nat,
           \A i \in 1 .. n : g[i] \in Nat /\ g[i] <= f[i]
    PROVE  SumTo(g, n) <= SumTo(f, n)
<1> DEFINE T == {k \in Nat : k <= n => SumTo(g, k) <= SumTo(f, k)}
<1>0. \A i \in 0 .. n : SumTo(f, i) \in Nat /\ SumTo(g, i) \in Nat
  BY SumNat
<1>1. 0 \in T
  BY SumNext
<1>2. ASSUME NEW k \in Nat, k \in T PROVE k + 1 \in T
  <2> SUFFICES ASSUME k + 1 <= n PROVE SumTo(g, k + 1) <= SumTo(f, k + 1)
    OBVIOUS
  <2>1. k + 1 \in 1 .. n /\ k \in 0 .. n /\ SumTo(g, k) <= SumTo(f, k)
    BY <1>2
  <2>2. /\ SumTo(g, k + 1) = SumTo(g, k) + g[k + 1]
        /\ SumTo(f, k + 1) = SumTo(f, k) + f[k + 1]
    BY SumNext
  <2>3. g[k + 1] \in Nat /\ f[k + 1] \in Nat /\ g[k + 1] <= f[k + 1]
    BY <2>1
  <2>4. SumTo(f, k) \in Nat /\ SumTo(g, k) \in Nat
    BY <1>0, <2>1
  <2> QED
    BY <2>1, <2>2, <2>3, <2>4
<1> HIDE DEF T
<1>3. n \in T
  BY <1>1, <1>2, NatInd
<1> QED
  BY <1>3 DEF T

(* The numbers of g are those of f, and d more at place p.                 *)
OneMore(f, g, n, p, d) ==
    /\ \A i \in 1 .. p - 1 : g[i] = f[i]
    /\ g[p] = d
    /\ \A i \in p .. n : g[i + 1] = f[i]

LEMMA SumOneMore ==
    ASSUME NEW n \in Nat, NEW f, NEW g, \A i \in 1 .. n : f[i] \in Nat,
           NEW p \in 1 .. n + 1, NEW d \in Nat, OneMore(f, g, n, p, d)
    PROVE  SumTo(g, n + 1) = SumTo(f, n) + d
<1> DEFINE T == {k \in Nat : p + k <= n + 1 =>
                   SumTo(g, p + k) = SumTo(f, p + k - 1) + d}
<1>0. \A i \in 0 .. n : SumTo(f, i) \in Nat
  BY SumNat
<1>1. 0 \in T
  <2>1. p - 1 \in Nat /\ (p - 1) + 1 = p
    OBVIOUS
  <2>2. SumTo(g, p - 1) = SumTo(f, p - 1)
    BY <2>1, SumSame DEF OneMore
  <2>3. SumTo(g, p) = SumTo(g, p - 1) + g[p]
    BY <2>1, SumNext
  <2> QED
    BY <2>2, <2>3 DEF OneMore
<1>2. ASSUME NEW k \in Nat, k \in T PROVE k + 1 \in T
  <2> SUFFICES ASSUME p + (k + 1) <= n + 1
               PROVE  SumTo(g, p + (k + 1)) = SumTo(f, p + (k + 1) - 1) + d
    OBVIOUS
  <2>1. p + k \in p .. n /\ p + k \in Nat /\ p + k - 1 \in Nat
        /\ (p + k - 1) + 1 = p + k /\ p + k - 1 \in 0 .. n /\ p + k \in 1 .. n
    OBVIOUS
  <2>2. SumTo(g, p + k) = SumTo(f, p + k - 1) + d
    BY <1>2, <2>1
  <2>3. SumTo(g, p + k + 1) = SumTo(g, p + k) + g[p + k + 1]
    BY <2>1, SumNext
  <2>4. SumTo(f, (p + k - 1) + 1) = SumTo(f, p + k - 1) + f[(p + k - 1) + 1]
    BY <2>1, SumNext
  <2>5. g[p + k + 1] = f[p + k]
    BY <2>1 DEF OneMore
  <2>6. SumTo(f, p + k - 1) \in Nat /\ f[p + k] \in Nat
    BY <1>0, <2>1
  <2>7. SumTo(f, p + k) = SumTo(f, p + k - 1) + f[p + k]
    BY <2>1, <2>4
  <2>8. p + (k + 1) = p + k + 1 /\ p + (k + 1) - 1 = p + k
    OBVIOUS
  <2>9. SumTo(g, p + k + 1) = SumTo(f, p + k - 1) + d + f[p + k]
    BY <2>2, <2>3, <2>5
  <2>10. SumTo(g, p + k + 1) = SumTo(f, p + k) + d
    BY <2>6, <2>7, <2>9
  <2> QED
    BY <2>8, <2>10
<1> HIDE DEF T
<1>3. n + 1 - p \in T
  BY <1>1, <1>2, NatInd
<1>4. p + (n + 1 - p) = n + 1 /\ n + 1 - p \in Nat /\ p + (n + 1 - p) - 1 = n
  OBVIOUS
<1> QED
  BY <1>3, <1>4 DEF T

(* A sum from a place on.                                                  *)
LEMMA SumTail ==
    ASSUME NEW n \in Nat, NEW f, \A i \in 1 .. n : f[i] \in Nat,
           NEW m \in 0 .. n, NEW g, \A i \in 1 .. n - m : g[i] = f[m + i]
    PROVE  SumTo(f, n) = SumTo(f, m) + SumTo(g, n - m)
<1> DEFINE T == {k \in Nat : m + k <= n =>
                   SumTo(f, m + k) = SumTo(f, m) + SumTo(g, k)}
<1>0. (\A i \in 0 .. n : SumTo(f, i) \in Nat)
      /\ \A i \in 0 .. n - m : SumTo(g, i) \in Nat
  <2>1. \A i \in 1 .. n - m : m + i \in 1 .. n /\ g[i] \in Nat
    OBVIOUS
  <2> QED
    BY <2>1, SumNat
<1>1. 0 \in T
  BY <1>0, SumNext
<1>2. ASSUME NEW k \in Nat, k \in T PROVE k + 1 \in T
  <2> SUFFICES ASSUME m + (k + 1) <= n
               PROVE  SumTo(f, m + (k + 1)) = SumTo(f, m) + SumTo(g, k + 1)
    OBVIOUS
  <2>1. m + k \in Nat /\ k + 1 \in 1 .. n - m /\ k \in 0 .. n - m /\ m \in 0 .. n
        /\ m + (k + 1) = m + k + 1 /\ m + k + 1 \in 1 .. n
    OBVIOUS
  <2>2. SumTo(f, m + k) = SumTo(f, m) + SumTo(g, k)
    BY <1>2, <2>1
  <2>3. SumTo(f, m + k + 1) = SumTo(f, m + k) + f[m + k + 1]
    BY <2>1, SumNext
  <2>4. SumTo(g, k + 1) = SumTo(g, k) + g[k + 1]
    BY SumNext
  <2>5. g[k + 1] = f[m + k + 1] /\ f[m + k + 1] \in Nat
    BY <2>1
  <2>6. SumTo(f, m) \in Nat /\ SumTo(g, k) \in Nat
    BY <1>0, <2>1
  <2> QED
    BY <2>1, <2>2, <2>3, <2>4, <2>5, <2>6
<1> HIDE DEF T
<1>3. n - m \in T
  BY <1>1, <1>2, NatInd
<1>4. m + (n - m) = n /\ n - m \in Nat
  OBVIOUS
<1> QED
  BY <1>3, <1>4 DEF T

-----------------------------------------------------------------------------
(* Sequences.                                                              *)

(* What putting in and taking out does, place by place.                    *)
IsInsert(s, i, e, t) == t = InsertAt(s, i, e)
IsRemoval(s, i, t) == t = RemoveAt(s, i)

LEMMA InsertedAt ==
    ASSUME NEW T, NEW s \in Seq(T), NEW i \in 1 .. Len(s) + 1, NEW e \in T,
           NEW t, IsInsert(s, i, e, t)
    PROVE  /\ t \in Seq(T) /\ Len(t) = Len(s) + 1 /\ t[i] = e
           /\ \A j \in 1 .. i - 1 : t[j] = s[j]
           /\ \A j \in i + 1 .. Len(s) + 1 : t[j] = s[j - 1]
<1>1. Len(s) \in Nat
  OBVIOUS
<1>2. PICK a : a = SubSeq(s, 1, i - 1)
  OBVIOUS
<1>3. PICK b : b = SubSeq(s, i, Len(s))
  OBVIOUS
<1>4. a \in Seq(T) /\ Len(a) = i - 1 /\ \A j \in 1 .. i - 1 : a[j] = s[j]
  BY <1>1, <1>2
<1>5. /\ b \in Seq(T) /\ Len(b) = Len(s) - i + 1
      /\ \A j \in 1 .. Len(s) - i + 1 : b[j] = s[i + j - 1]
  BY <1>1, <1>3
<1>6. t = (a \o <<e>>) \o b
  BY <1>2, <1>3 DEF InsertAt, IsInsert
<1>7. PICK c : c = a \o <<e>>
  OBVIOUS
<1>8. /\ c \in Seq(T) /\ Len(c) = i /\ c[i] = e
      /\ \A j \in 1 .. i - 1 : c[j] = s[j]
  BY <1>1, <1>4, <1>7
<1>9. t = c \o b
  BY <1>6, <1>7
<1>10. t \in Seq(T) /\ Len(t) = Len(s) + 1
  <2>1. t \in Seq(T) /\ Len(t) = Len(c) + Len(b)
    <3>1. c \in Seq(T) /\ b \in Seq(T)
      BY <1>5, <1>8
    <3> QED
      BY ONLY <1>9, <3>1
  <2>2. Len(c) + Len(b) = Len(s) + 1
    BY <1>1, <1>5, <1>8
  <2> QED
    BY <2>1, <2>2
<1>11. \A j \in 1 .. i : t[j] = c[j]
  BY <1>1, <1>5, <1>8, <1>9
<1>12. ASSUME NEW j \in i + 1 .. Len(s) + 1 PROVE t[j] = s[j - 1]
  <2>1. t[j] = b[j - i]
    BY <1>1, <1>5, <1>8, <1>9
  <2>2. j - i \in 1 .. Len(s) - i + 1 /\ i + (j - i) - 1 = j - 1
    BY <1>1
  <2> QED
    BY <1>5, <2>1, <2>2
<1> QED
  BY <1>1, <1>8, <1>10, <1>11, <1>12

LEMMA RemovedAt ==
    ASSUME NEW T, NEW s \in Seq(T), NEW i \in 1 .. Len(s),
           NEW t, IsRemoval(s, i, t)
    PROVE  /\ t \in Seq(T) /\ Len(t) = Len(s) - 1
           /\ \A j \in 1 .. i - 1 : t[j] = s[j]
           /\ \A j \in i .. Len(s) - 1 : t[j] = s[j + 1]
<1>1. Len(s) \in Nat
  OBVIOUS
<1>2. PICK a : a = SubSeq(s, 1, i - 1)
  OBVIOUS
<1>3. PICK b : b = SubSeq(s, i + 1, Len(s))
  OBVIOUS
<1>4. a \in Seq(T) /\ Len(a) = i - 1 /\ \A j \in 1 .. i - 1 : a[j] = s[j]
  BY <1>1, <1>2
<1>5. /\ b \in Seq(T) /\ Len(b) = Len(s) - i
      /\ \A j \in 1 .. Len(s) - i : b[j] = s[i + j]
  <2>1. b \in Seq(T) /\ Len(b) = Len(s) - i
    BY <1>1, <1>3
  <2>2. ASSUME NEW j \in 1 .. Len(s) - i PROVE b[j] = s[i + j]
    <3>1. b[j] = s[i + 1 + j - 1]
      BY <1>1, <1>3
    <3>2. i + 1 + j - 1 = i + j
      OBVIOUS
    <3> QED
      BY <3>1, <3>2
  <2> QED
    BY <2>1, <2>2
<1>6. t = a \o b
  BY <1>2, <1>3 DEF RemoveAt, IsRemoval
<1>7. t \in Seq(T) /\ Len(t) = Len(s) - 1
  BY <1>1, <1>4, <1>5, <1>6
<1>8. \A j \in 1 .. i - 1 : t[j] = a[j]
  BY <1>1, <1>4, <1>5, <1>6
<1>9. ASSUME NEW j \in i .. Len(s) - 1 PROVE t[j] = s[j + 1]
  <2>1. t[j] = b[j - (i - 1)]
    BY <1>1, <1>4, <1>5, <1>6
  <2>2. j - (i - 1) \in 1 .. Len(s) - i /\ i + (j - (i - 1)) = j + 1
    BY <1>1
  <2> QED
    BY <1>5, <2>1, <2>2
<1> QED
  BY <1>4, <1>7, <1>8, <1>9

LEMMA Appended ==
    ASSUME NEW S, NEW s \in Seq(S), NEW x \in S, NEW t, t = Append(s, x)
    PROVE  /\ t \in Seq(S) /\ Len(t) = Len(s) + 1 /\ t[Len(s) + 1] = x
           /\ \A i \in 1 .. Len(s) : t[i] = s[i]
OBVIOUS

(* `t` is what of `seq` is in `wanted`, each from its place, in order.     *)
Embeds(t, seq, n, wanted, from) ==
    /\ from \in [1 .. Len(t) -> 1 .. n]
    /\ \A i \in 1 .. Len(t) : t[i] = seq[from[i]] /\ t[i] \in wanted
    /\ \A i, j \in 1 .. Len(t) : i < j => from[i] < from[j]
    /\ \A j \in 1 .. n : seq[j] \in wanted =>
          \E i \in 1 .. Len(t) : from[i] = j

LEMMA EmbedsOn ==
    ASSUME NEW S, NEW seq \in Seq(S), NEW wanted, NEW k \in Nat, k + 1 <= Len(seq),
           NEW t \in Seq(S), NEW from, Embeds(t, seq, k, wanted, from),
           NEW u, u = OnlyOn(seq, wanted, t, k + 1)
    PROVE  u \in Seq(S) /\ \E g : Embeds(u, seq, k + 1, wanted, g)
<1>1. /\ from \in [1 .. Len(t) -> 1 .. k] /\ Len(t) \in Nat
      /\ \A i \in 1 .. Len(t) : t[i] = seq[from[i]] /\ t[i] \in wanted
      /\ \A i, j \in 1 .. Len(t) : i < j => from[i] < from[j]
      /\ \A j \in 1 .. k : seq[j] \in wanted =>
            \E i \in 1 .. Len(t) : from[i] = j
  BY DEF Embeds
<1>2. \A i \in 1 .. Len(t) : from[i] \in 1 .. k /\ from[i] \in 1 .. k + 1
  BY <1>1
<1>3. \A j \in 1 .. k + 1 : j = k + 1 \/ j \in 1 .. k
  OBVIOUS
<1>4. CASE seq[k + 1] \notin wanted
  <2>1. u = t
    BY <1>4 DEF OnlyOn
  <2>2. from \in [1 .. Len(t) -> 1 .. k + 1]
    BY <1>1, <1>2
  <2>3. Embeds(t, seq, k + 1, wanted, from)
    BY <1>1, <1>3, <1>4, <2>2 DEF Embeds
  <2> QED
    BY <2>1, <2>3
<1>5. CASE seq[k + 1] \in wanted
  <2>1. k + 1 \in 1 .. Len(seq) /\ seq[k + 1] \in S
    OBVIOUS
  <2>12. PICK x \in S : x = seq[k + 1]
    BY <2>1
  <2>2. u = Append(t, x)
    BY <1>5, <2>12 DEF OnlyOn
  <2>3. /\ u \in Seq(S) /\ Len(u) = Len(t) + 1 /\ u[Len(t) + 1] = seq[k + 1]
        /\ \A i \in 1 .. Len(t) : u[i] = t[i]
    BY <2>2, <2>12, Appended
  <2>4. PICK g : g = [i \in 1 .. Len(t) + 1 |-> IF i = Len(t) + 1 THEN k + 1 ELSE from[i]]
    OBVIOUS
  <2>5. \A i \in 1 .. Len(t) + 1 : i = Len(t) + 1 \/ i \in 1 .. Len(t)
    BY <1>1
  <2>6. g[Len(t) + 1] = k + 1 /\ \A i \in 1 .. Len(t) : g[i] = from[i]
    BY <1>1, <2>4
  <2>7. g \in [1 .. Len(u) -> 1 .. k + 1]
    BY <1>2, <2>3, <2>4, <2>5
  <2>8. \A i \in 1 .. Len(u) : u[i] = seq[g[i]] /\ u[i] \in wanted
    BY <1>1, <1>5, <2>3, <2>5, <2>6
  <2>9. ASSUME NEW i \in 1 .. Len(u), NEW j \in 1 .. Len(u), i < j
        PROVE  g[i] < g[j]
    <3>1. i \in 1 .. Len(t)
      <4>1. Len(u) = Len(t) + 1 /\ Len(t) \in Nat
        BY <1>1, <2>3
      <4> QED
        BY <2>9, <4>1
    <3>11. from[i] \in 1 .. k
      BY <1>2, <3>1
    <3>2. CASE j = Len(t) + 1
      BY <2>6, <3>1, <3>11, <3>2
    <3>3. CASE j # Len(t) + 1
      BY <1>1, <2>3, <2>5, <2>6, <2>9, <3>1, <3>11, <3>3
    <3> QED
      BY <3>2, <3>3
  <2>10. ASSUME NEW j \in 1 .. k + 1, seq[j] \in wanted
         PROVE  \E i \in 1 .. Len(u) : g[i] = j
    <3>1. CASE j = k + 1
      BY <1>1, <2>3, <2>6, <3>1
    <3>2. CASE j # k + 1
      <4>1. PICK i \in 1 .. Len(t) : from[i] = j
        BY <1>1, <1>3, <2>10, <3>2
      <4>2. i \in 1 .. Len(u)
        BY <1>1, <2>3
      <4> QED
        BY <2>6, <4>1, <4>2
    <3> QED
      BY <3>1, <3>2
  <2>11. Embeds(u, seq, k + 1, wanted, g)
    BY <2>7, <2>8, <2>9, <2>10 DEF Embeds
  <2> QED
    BY <2>3, <2>11
<1> QED
  BY <1>4, <1>5

LEMMA OnlyKeeps ==
    ASSUME NEW S, NEW seq \in Seq(S), NEW wanted, NEW t, t = Only(seq, wanted)
    PROVE  t \in Seq(S) /\ \E from : Embeds(t, seq, Len(seq), wanted, from)
<1>1. Len(seq) \in Nat
  OBVIOUS
<1>2. PICK h : /\ Only(seq, wanted) = h[Len(seq)] /\ h[0] = <<>>
               /\ \A i \in 1 .. Len(seq) : h[i] = OnlyOn(seq, wanted, h[i - 1], i)
  BY <1>1, OnlySteps
<1> DEFINE T == {k \in Nat : k <= Len(seq) =>
                   h[k] \in Seq(S) /\ \E from : Embeds(h[k], seq, k, wanted, from)}
<1>3. 0 \in T
  <2>1. <<>> \in Seq(S) /\ Len(<<>>) = 0 /\ 1 .. 0 = {}
    OBVIOUS
  <2>2. Embeds(<<>>, seq, 0, wanted, [i \in 1 .. 0 |-> i])
    BY <2>1 DEF Embeds
  <2> QED
    BY <1>2, <2>1, <2>2
<1>4. ASSUME NEW k \in Nat, k \in T PROVE k + 1 \in T
  <2> SUFFICES ASSUME k + 1 <= Len(seq)
               PROVE  /\ h[k + 1] \in Seq(S)
                      /\ \E from : Embeds(h[k + 1], seq, k + 1, wanted, from)
    OBVIOUS
  <2>1. k + 1 \in 1 .. Len(seq) /\ (k + 1) - 1 = k /\ k <= Len(seq)
    BY <1>1
  <2>2. PICK from : h[k] \in Seq(S) /\ Embeds(h[k], seq, k, wanted, from)
    BY <1>4, <2>1
  <2>3. h[k + 1] = OnlyOn(seq, wanted, h[k], k + 1)
    BY <1>2, <2>1
  <2> QED
    BY <2>2, <2>3, EmbedsOn
<1> HIDE DEF T
<1>5. Len(seq) \in T
  BY <1>1, <1>3, <1>4, NatInd
<1> QED
  BY <1>1, <1>2, <1>5 DEF T

-----------------------------------------------------------------------------
(* Cells and what they take.                                               *)

LiveCells == [key : Key, child : PageId \cup {NoPage}]
CellSet == LiveCells \cup {Tombstone}

LEMMA Lens ==
    ASSUME len \in Lengths
    PROVE  /\ SlotLen \in Nat /\ LeafExtra \in Nat /\ BranchExtra \in Nat
           /\ PageRoom \in Nat /\ 0 < SlotLen /\ BranchExtra <= LeafExtra
           /\ \A k \in Key : /\ k \in Nat /\ k # NoKey /\ len[k] \in Nat
                             /\ 4 * (SlotLen + len[k] + LeafExtra) <= PageRoom
                             /\ 2 * SlotLen <= len[k] + BranchExtra
<1>1. len \in [Key -> Nat]
  BY BTreeAssumption
<1> QED
  BY <1>1, BTreeAssumption

LEMMA CellFacts ==
    ASSUME NEW c \in CellSet
    PROVE  /\ c \in CellType /\ c = Cell(c.key, c.child)
           /\ c \in LiveCells <=> c # Tombstone
           /\ c \in LiveCells <=> c.key \in Key
           /\ c # Tombstone => /\ c.key \in Key /\ c.key \in Nat /\ c.key # NoKey
                               /\ c.child \in PageId \cup {NoPage}
           /\ c = Tombstone => c.key = NoKey /\ c.key \notin Key
<1>1. NoKey \notin Key /\ Key \subseteq Nat
  BY BTreeAssumption
<1>2. Tombstone = [key |-> NoKey, child |-> NoPage]
  BY DEF Tombstone, Cell
<1>3. CASE c = Tombstone
  <2>1. c.key = NoKey /\ c.child = NoPage
    BY <1>2, <1>3
  <2>2. c.key \notin Key
    BY <1>1, <2>1
  <2>3. c \notin LiveCells
    BY <2>2 DEF LiveCells
  <2>4. c \in CellType
    BY <1>2, <1>3 DEF CellType
  <2> QED
    BY <1>2, <1>3, <2>1, <2>2, <2>3, <2>4 DEF Cell
<1>4. CASE c \in LiveCells
  <2>1. c.key \in Key /\ c.child \in PageId \cup {NoPage}
        /\ c = [key |-> c.key, child |-> c.child]
    BY <1>4 DEF LiveCells
  <2>2. c.key \in Nat /\ c.key # NoKey
    BY <1>1, <2>1
  <2>3. c # Tombstone
    BY <1>2, <2>2
  <2>4. c \in CellType
    BY <2>1 DEF CellType
  <2> QED
    BY <1>4, <2>1, <2>2, <2>3, <2>4 DEF Cell
<1> QED
  BY <1>3, <1>4 DEF CellSet

LEMMA SizeFacts ==
    ASSUME len \in Lengths, NEW kind, NEW c \in CellSet
    PROVE  /\ Size(kind, c) \in Nat /\ SlotLen <= Size(kind, c)
           /\ 4 * Size(kind, c) <= PageRoom \/ c = Tombstone
           /\ c # Tombstone =>
                 /\ CellLen(kind, c.key) \in Nat
                 /\ Size(kind, c) = SlotLen + CellLen(kind, c.key)
                 /\ 2 * SlotLen <= CellLen(kind, c.key)
<1>1. CASE c = Tombstone
  BY <1>1, Lens DEF Size
<1>2. CASE c # Tombstone
  <2>1. c.key \in Key
    BY <1>2, CellFacts
  <2>2. len[c.key] \in Nat /\ 4 * (SlotLen + len[c.key] + LeafExtra) <= PageRoom
        /\ 2 * SlotLen <= len[c.key] + BranchExtra
    BY <2>1, Lens
  <2>3. CellLen(kind, c.key) = len[c.key] + LeafExtra
        \/ CellLen(kind, c.key) = len[c.key] + BranchExtra
    BY DEF CellLen
  <2>4. Size(kind, c) = SlotLen + CellLen(kind, c.key)
    BY <1>2 DEF Size
  <2> QED
    BY <2>2, <2>3, <2>4, Lens
<1> QED
  BY <1>1, <1>2

Sizes(kind, cells) == [i \in DOMAIN cells |-> Size(kind, cells[i])]

LEMMA TakenIs ==
    ASSUME len \in Lengths, NEW kind, NEW cells \in Seq(CellSet)
    PROVE  /\ Len(cells) \in Nat /\ DOMAIN cells = 1 .. Len(cells)
           /\ \A i \in 1 .. Len(cells) : /\ cells[i] \in CellSet
                                         /\ Sizes(kind, cells)[i] = Size(kind, cells[i])
                                         /\ Sizes(kind, cells)[i] \in Nat
           /\ Taken(kind, cells) = SumTo(Sizes(kind, cells), Len(cells))
           /\ Taken(kind, cells) \in Nat
<1>1. /\ Len(cells) \in Nat /\ DOMAIN cells = 1 .. Len(cells)
      /\ \A i \in 1 .. Len(cells) : cells[i] \in CellSet
  OBVIOUS
<1>2. \A i \in 1 .. Len(cells) : Sizes(kind, cells)[i] = Size(kind, cells[i])
                                 /\ Sizes(kind, cells)[i] \in Nat
  BY <1>1, SizeFacts DEF Sizes
<1>3. Taken(kind, cells) = SumTo(Sizes(kind, cells), Len(cells))
  BY DEF Taken, Sizes
<1>4. Len(cells) \in 0 .. Len(cells)
  BY <1>1
<1>5. SumTo(Sizes(kind, cells), Len(cells)) \in Nat
  BY <1>1, <1>2, <1>4, SumNat
<1> QED
  BY <1>1, <1>2, <1>3, <1>5

LEMMA TakenNone == ASSUME NEW kind PROVE Taken(kind, <<>>) = 0
<1>1. Len(<<>>) = 0
  OBVIOUS
<1> QED
  BY <1>1, SumNext DEF Taken

LEMMA TakenInserted ==
    ASSUME len \in Lengths, NEW kind, NEW cells \in Seq(CellSet),
           NEW c \in CellSet, NEW p \in 1 .. Len(cells) + 1,
           NEW t, IsInsert(cells, p, c, t)
    PROVE  Taken(kind, t) = Taken(kind, cells) + Size(kind, c)
<1>1. /\ t \in Seq(CellSet) /\ Len(t) = Len(cells) + 1 /\ t[p] = c
      /\ \A j \in 1 .. p - 1 : t[j] = cells[j]
      /\ \A j \in p + 1 .. Len(cells) + 1 : t[j] = cells[j - 1]
  <2>1. PICK T : T = CellSet
    OBVIOUS
  <2>2. cells \in Seq(T) /\ c \in T
    BY <2>1
  <2>3. /\ t \in Seq(T) /\ Len(t) = Len(cells) + 1 /\ t[p] = c
        /\ \A j \in 1 .. p - 1 : t[j] = cells[j]
        /\ \A j \in p + 1 .. Len(cells) + 1 : t[j] = cells[j - 1]
    BY <2>2, InsertedAt
  <2> QED
    BY <2>1, <2>3
<1>2. PICK f, g : f = Sizes(kind, cells) /\ g = Sizes(kind, t)
  OBVIOUS
<1>3. /\ Len(cells) \in Nat
      /\ \A i \in 1 .. Len(cells) : f[i] = Size(kind, cells[i]) /\ f[i] \in Nat
      /\ Taken(kind, cells) = SumTo(f, Len(cells))
  BY <1>2, TakenIs
<1>4. /\ \A i \in 1 .. Len(t) : g[i] = Size(kind, t[i])
      /\ Taken(kind, t) = SumTo(g, Len(t))
  BY <1>1, <1>2, TakenIs
<1>5. Size(kind, c) \in Nat
  BY SizeFacts
<1>6. \A i \in 1 .. p - 1 : g[i] = f[i]
  <2>1. \A i \in 1 .. p - 1 : i \in 1 .. Len(cells) /\ i \in 1 .. Len(t)
    BY <1>1, <1>3
  <2> QED
    BY <1>1, <1>3, <1>4, <2>1
<1>7. g[p] = Size(kind, c)
  BY <1>1, <1>3, <1>4
<1>8. ASSUME NEW i \in p .. Len(cells) PROVE g[i + 1] = f[i]
  <2>1. /\ i \in 1 .. Len(cells) /\ i + 1 \in p + 1 .. Len(cells) + 1
        /\ (i + 1) - 1 = i /\ i + 1 \in 1 .. Len(t)
    BY <1>1, <1>3
  <2> QED
    BY <1>1, <1>3, <1>4, <2>1
<1>9. OneMore(f, g, Len(cells), p, Size(kind, c))
  BY <1>6, <1>7, <1>8 DEF OneMore
<1> QED
  <2>1. SumTo(g, Len(cells) + 1) = SumTo(f, Len(cells)) + Size(kind, c)
    <3>1. PICK n \in Nat, d \in Nat : n = Len(cells) /\ d = Size(kind, c)
      BY <1>3, <1>5
    <3>2. OneMore(f, g, n, p, d) /\ p \in 1 .. n + 1
      BY <1>9, <3>1
    <3>3. \A i \in 1 .. n : f[i] \in Nat
      BY <1>3, <3>1
    <3>4. SumTo(g, n + 1) = SumTo(f, n) + d
      BY <3>2, <3>3, SumOneMore
    <3> QED
      BY <3>1, <3>4
  <2> QED
    BY <1>1, <1>3, <1>4, <2>1

LEMMA TakenAppended ==
    ASSUME len \in Lengths, NEW kind, NEW cells \in Seq(CellSet),
           NEW c \in CellSet, NEW t, t = Append(cells, c)
    PROVE  Taken(kind, t) = Taken(kind, cells) + Size(kind, c)
<1>1. /\ t \in Seq(CellSet) /\ Len(t) = Len(cells) + 1 /\ t[Len(cells) + 1] = c
      /\ \A i \in 1 .. Len(cells) : t[i] = cells[i]
  BY Appended
<1>2. PICK f, g : f = Sizes(kind, cells) /\ g = Sizes(kind, t)
  OBVIOUS
<1>3. /\ Len(cells) \in Nat
      /\ \A i \in 1 .. Len(cells) : f[i] = Size(kind, cells[i])
      /\ Taken(kind, cells) = SumTo(f, Len(cells))
  BY <1>2, TakenIs
<1>4. /\ \A i \in 1 .. Len(t) : g[i] = Size(kind, t[i])
      /\ Taken(kind, t) = SumTo(g, Len(t))
  BY <1>1, <1>2, TakenIs
<1>5. \A i \in 1 .. Len(cells) : i \in 1 .. Len(t)
  BY <1>1, <1>3
<1>6. SumTo(g, Len(cells)) = SumTo(f, Len(cells))
  <2>1. \A i \in 1 .. Len(cells) : g[i] = f[i]
    BY <1>1, <1>3, <1>4, <1>5
  <2> QED
    BY <1>3, <2>1, SumSame
<1>7. SumTo(g, Len(cells) + 1) = SumTo(g, Len(cells)) + g[Len(cells) + 1]
  BY <1>3, SumNext
<1>8. g[Len(cells) + 1] = Size(kind, c)
  <2>1. Len(cells) + 1 \in 1 .. Len(t)
    BY <1>1, <1>3
  <2> QED
    BY <1>1, <1>4, <2>1
<1> QED
  BY <1>1, <1>3, <1>4, <1>6, <1>7, <1>8

LEMMA TakenRemoved ==
    ASSUME len \in Lengths, NEW kind, NEW cells \in Seq(CellSet),
           NEW p \in 1 .. Len(cells), NEW t, IsRemoval(cells, p, t)
    PROVE  Taken(kind, t) <= Taken(kind, cells)
<1>1. /\ t \in Seq(CellSet) /\ Len(t) = Len(cells) - 1
      /\ \A j \in 1 .. p - 1 : t[j] = cells[j]
      /\ \A j \in p .. Len(cells) - 1 : t[j] = cells[j + 1]
  BY RemovedAt
<1>2. PICK f, g : g = Sizes(kind, cells) /\ f = Sizes(kind, t)
  OBVIOUS
<1>3. /\ Len(cells) \in Nat
      /\ \A i \in 1 .. Len(cells) : g[i] = Size(kind, cells[i]) /\ g[i] \in Nat
      /\ Taken(kind, cells) = SumTo(g, Len(cells))
  BY <1>2, TakenIs
<1>4. /\ \A i \in 1 .. Len(t) : f[i] = Size(kind, t[i]) /\ f[i] \in Nat
      /\ Taken(kind, t) = SumTo(f, Len(t)) /\ Taken(kind, t) \in Nat
  BY <1>1, <1>2, TakenIs
<1>5. g[p] \in Nat
  BY <1>3
<1>6. \A i \in 1 .. p - 1 : g[i] = f[i]
  <2>1. \A i \in 1 .. p - 1 : i \in 1 .. Len(cells) /\ i \in 1 .. Len(t)
    BY <1>1, <1>3
  <2> QED
    BY <1>1, <1>3, <1>4, <2>1
<1>7. ASSUME NEW i \in p .. Len(t) PROVE g[i + 1] = f[i]
  <2>1. /\ i \in 1 .. Len(t) /\ i + 1 \in 1 .. Len(cells)
        /\ i \in p .. Len(cells) - 1
    BY <1>1, <1>3
  <2> QED
    BY <1>1, <1>3, <1>4, <2>1
<1>8. OneMore(f, g, Len(t), p, g[p])
  BY <1>6, <1>7 DEF OneMore
<1>9. Len(t) \in Nat /\ Len(t) + 1 = Len(cells) /\ p \in 1 .. Len(t) + 1
  BY <1>1, <1>3
<1>10. SumTo(g, Len(t) + 1) = SumTo(f, Len(t)) + g[p]
  <2>1. PICK n \in Nat, d \in Nat : n = Len(t) /\ d = g[p]
    BY <1>5, <1>9
  <2>2. OneMore(f, g, n, p, d) /\ p \in 1 .. n + 1
    BY <1>8, <1>9, <2>1
  <2>3. \A i \in 1 .. n : f[i] \in Nat
    BY <1>4, <2>1
  <2>4. SumTo(g, n + 1) = SumTo(f, n) + d
    BY <2>2, <2>3, SumOneMore
  <2> QED
    BY <2>1, <2>4
<1>11. Taken(kind, cells) = Taken(kind, t) + g[p]
  BY <1>3, <1>4, <1>9, <1>10
<1> QED
  BY <1>4, <1>5, <1>11

LEMMA TakenBuried ==
    ASSUME len \in Lengths, NEW kind, NEW cells \in Seq(CellSet),
           NEW p \in 1 .. Len(cells), NEW t, t = [cells EXCEPT ![p] = Tombstone]
    PROVE  t \in Seq(CellSet) /\ Taken(kind, t) <= Taken(kind, cells)
<1>1. Tombstone \in CellSet
  BY DEF CellSet
<1>2. /\ t \in Seq(CellSet) /\ Len(t) = Len(cells) /\ t[p] = Tombstone
      /\ \A i \in 1 .. Len(cells) : i # p => t[i] = cells[i]
  BY <1>1
<1>3. PICK f, g : f = Sizes(kind, cells) /\ g = Sizes(kind, t)
  OBVIOUS
<1>4. /\ Len(cells) \in Nat
      /\ \A i \in 1 .. Len(cells) : /\ cells[i] \in CellSet
                                    /\ f[i] = Size(kind, cells[i]) /\ f[i] \in Nat
      /\ Taken(kind, cells) = SumTo(f, Len(cells))
  BY <1>3, TakenIs
<1>5. /\ \A i \in 1 .. Len(t) : g[i] = Size(kind, t[i]) /\ g[i] \in Nat
      /\ Taken(kind, t) = SumTo(g, Len(t))
  BY <1>2, <1>3, TakenIs
<1>6. g[p] <= f[p]
  <2>1. g[p] = SlotLen
    BY <1>2, <1>5, Lens DEF Size
  <2> QED
    BY <1>4, <2>1, SizeFacts
<1>7. \A i \in 1 .. Len(cells) : g[i] \in Nat /\ g[i] <= f[i]
  <2>1. ASSUME NEW i \in 1 .. Len(cells), i # p PROVE g[i] \in Nat /\ g[i] <= f[i]
    <3>1. g[i] = f[i] /\ f[i] \in Nat
      BY <1>2, <1>4, <1>5, <2>1
    <3> QED
      BY <3>1
  <2> QED
    BY <1>2, <1>5, <1>6, <2>1
<1> QED
  BY <1>2, <1>4, <1>5, <1>7, SumNoMore

(* A page's cells cut in two.                                              *)
CutAt(cells, m, a, b) ==
    /\ a = SubSeq(cells, 1, m)
    /\ b = SubSeq(cells, m + 1, Len(cells))

LEMMA TakenCut ==
    ASSUME len \in Lengths, NEW kind, NEW cells \in Seq(CellSet),
           NEW m \in 0 .. Len(cells), NEW a, NEW b, CutAt(cells, m, a, b)
    PROVE  /\ a \in Seq(CellSet) /\ b \in Seq(CellSet)
           /\ Len(a) = m /\ Len(b) = Len(cells) - m
           /\ \A i \in 1 .. m : a[i] = cells[i]
           /\ \A i \in 1 .. Len(cells) - m : b[i] = cells[m + i]
           /\ Taken(kind, a) = SumTo(Sizes(kind, cells), m)
           /\ Taken(kind, cells) = Taken(kind, a) + Taken(kind, b)
<1>1. Len(cells) \in Nat
  OBVIOUS
<1>0. a = SubSeq(cells, 1, m) /\ b = SubSeq(cells, m + 1, Len(cells))
  BY DEF CutAt
<1>2. a \in Seq(CellSet) /\ Len(a) = m /\ \A i \in 1 .. m : a[i] = cells[i]
  BY <1>0, <1>1
<1>3. b \in Seq(CellSet) /\ Len(b) = Len(cells) - m
      /\ \A i \in 1 .. Len(cells) - m : b[i] = cells[m + i]
  <2>1. b \in Seq(CellSet) /\ Len(b) = Len(cells) - m
    BY <1>0, <1>1
  <2>2. ASSUME NEW i \in 1 .. Len(cells) - m PROVE b[i] = cells[m + i]
    <3>1. b[i] = cells[m + 1 + i - 1] /\ m + 1 + i - 1 = m + i
      BY <1>0, <1>1
    <3> QED
      BY <3>1
  <2> QED
    BY <2>1, <2>2
<1>4. PICK f, fa, fb : /\ f = Sizes(kind, cells) /\ fa = Sizes(kind, a)
                       /\ fb = Sizes(kind, b)
  OBVIOUS
<1>5. /\ \A i \in 1 .. Len(cells) : f[i] = Size(kind, cells[i]) /\ f[i] \in Nat
      /\ Taken(kind, cells) = SumTo(f, Len(cells))
  BY <1>4, TakenIs
<1>6. /\ \A i \in 1 .. Len(a) : fa[i] = Size(kind, a[i])
      /\ Taken(kind, a) = SumTo(fa, Len(a))
  BY <1>2, <1>4, TakenIs
<1>7. /\ \A i \in 1 .. Len(b) : fb[i] = Size(kind, b[i])
      /\ Taken(kind, b) = SumTo(fb, Len(b))
  BY <1>3, <1>4, TakenIs
<1>8. SumTo(fa, m) = SumTo(f, m)
  <2>1. \A i \in 1 .. m : i \in 1 .. Len(cells)
    BY <1>1
  <2>2. \A i \in 1 .. m : fa[i] = f[i]
    BY <1>2, <1>5, <1>6, <2>1
  <2> QED
    BY <2>2, SumSame
<1>9. SumTo(f, Len(cells)) = SumTo(f, m) + SumTo(fb, Len(cells) - m)
  <2>1. \A i \in 1 .. Len(cells) - m : m + i \in 1 .. Len(cells)
    BY <1>1
  <2>2. \A i \in 1 .. Len(cells) - m : fb[i] = f[m + i]
    BY <1>3, <1>5, <1>7, <2>1
  <2> QED
    BY <1>1, <1>5, <2>2, SumTail
<1> QED
  BY <1>2, <1>3, <1>4, <1>5, <1>6, <1>7, <1>8, <1>9

LEMMA TakenOne ==
    ASSUME len \in Lengths, NEW kind, NEW c \in LiveCells
    PROVE  <<c>> \in Seq(CellSet) /\ Taken(kind, <<c>>) <= PageRoom
<1>1. c \in CellSet /\ c # Tombstone
  BY CellFacts DEF CellSet
<1>2. <<>> \in Seq(CellSet) /\ Append(<<>>, c) = <<c>> /\ <<c>> \in Seq(CellSet)
  BY <1>1
<1>3. Taken(kind, <<c>>) = Taken(kind, <<>>) + Size(kind, c)
  BY <1>1, <1>2, TakenAppended
<1>4. 4 * Size(kind, c) <= PageRoom /\ Size(kind, c) \in Nat
  BY <1>1, SizeFacts
<1> QED
  BY <1>2, <1>3, <1>4, TakenNone, Lens

LEMMA TakenLive ==
    ASSUME len \in Lengths, NEW kind, NEW cells \in Seq(CellSet),
           NEW t, t = Live(cells)
    PROVE  t \in Seq(LiveCells) /\ Taken(kind, t) <= Taken(kind, cells)
           /\ \E from : Embeds(t, cells, Len(cells), LiveCells, from)
<1>0. PICK wanted : wanted = Range(cells) \ {Tombstone}
  OBVIOUS
<1>1. /\ Len(cells) \in Nat /\ DOMAIN cells = 1 .. Len(cells)
      /\ \A i \in 1 .. Len(cells) : cells[i] \in CellSet /\ cells[i] \in Range(cells)
  BY DEF Range
<1>2. t = Only(cells, wanted)
  BY <1>0 DEF Live
<1>3. \A i \in 1 .. Len(cells) : cells[i] \in wanted <=> cells[i] \in LiveCells
  BY <1>0, <1>1, CellFacts
<1>4. PICK from : t \in Seq(CellSet) /\ Embeds(t, cells, Len(cells), wanted, from)
  BY <1>2, OnlyKeeps
<1>5. Embeds(t, cells, Len(cells), LiveCells, from)
  BY <1>3, <1>4 DEF Embeds
<1>6. t \in Seq(LiveCells)
  <2>1. \A i \in 1 .. Len(t) : t[i] \in LiveCells
    BY <1>5 DEF Embeds
  <2> QED
    BY <1>4, <2>1
<1>7. PICK h : /\ Only(cells, wanted) = h[Len(cells)] /\ h[0] = <<>>
               /\ \A i \in 1 .. Len(cells) :
                     h[i] = OnlyOn(cells, wanted, h[i - 1], i)
  <2>1. Len(cells) \in Nat
    BY <1>1
  <2> QED
    BY ONLY <2>1, OnlySteps
<1>8. PICK f : f = Sizes(kind, cells)
  OBVIOUS
<1>9. /\ \A i \in 1 .. Len(cells) : f[i] = Size(kind, cells[i]) /\ f[i] \in Nat
      /\ Taken(kind, cells) = SumTo(f, Len(cells))
  BY <1>8, TakenIs
<1>10. \A i \in 0 .. Len(cells) : SumTo(f, i) \in Nat
  BY <1>1, <1>9, SumNat
<1> DEFINE T == {k \in Nat : k <= Len(cells) =>
                   h[k] \in Seq(CellSet) /\ Taken(kind, h[k]) <= SumTo(f, k)}
<1>11. 0 \in T
  <2>1. <<>> \in Seq(CellSet) /\ Taken(kind, <<>>) = 0
    BY TakenNone
  <2>2. SumTo(f, 0) = 0
    BY SumNext
  <2>3. h[0] \in Seq(CellSet) /\ Taken(kind, h[0]) <= SumTo(f, 0)
    BY <1>7, <2>1, <2>2
  <2> QED
    BY <2>3
<1>12. ASSUME NEW k \in Nat, k \in T PROVE k + 1 \in T
  <2> SUFFICES ASSUME k + 1 <= Len(cells)
               PROVE  /\ h[k + 1] \in Seq(CellSet)
                      /\ Taken(kind, h[k + 1]) <= SumTo(f, k + 1)
    OBVIOUS
  <2>1. k + 1 \in 1 .. Len(cells) /\ (k + 1) - 1 = k /\ k \in 0 .. Len(cells)
    BY <1>1
  <2>2. h[k] \in Seq(CellSet) /\ Taken(kind, h[k]) <= SumTo(f, k)
    BY <1>12, <2>1
  <2>3. h[k + 1] = OnlyOn(cells, wanted, h[k], k + 1)
    BY <1>7, <2>1
  <2>4. SumTo(f, k + 1) = SumTo(f, k) + f[k + 1]
    BY SumNext
  <2>5. PICK c \in CellSet : c = cells[k + 1]
    BY <1>1, <2>1
  <2>6. f[k + 1] = Size(kind, c) /\ Size(kind, c) \in Nat
    BY <1>9, <2>1, <2>5
  <2>7. SumTo(f, k) \in Nat /\ Taken(kind, h[k]) \in Nat
    BY <1>10, <2>1, <2>2, TakenIs
  <2>8. CASE cells[k + 1] \notin wanted
    <3>1. h[k + 1] = h[k]
      BY <2>3, <2>8 DEF OnlyOn
    <3> QED
      BY <2>2, <2>4, <2>6, <2>7, <3>1
  <2>9. CASE cells[k + 1] \in wanted
    <3>1. h[k + 1] = Append(h[k], c)
      BY <2>3, <2>5, <2>9 DEF OnlyOn
    <3>2. h[k + 1] \in Seq(CellSet)
      BY <2>2, <3>1
    <3>3. Taken(kind, h[k + 1]) = Taken(kind, h[k]) + Size(kind, c)
      BY <2>2, <3>1, TakenAppended
    <3> QED
      BY <2>2, <2>4, <2>6, <2>7, <3>2, <3>3
  <2> QED
    BY <2>8, <2>9
<1>13. Len(cells) \in T
  <2> HIDE DEF T
  <2> QED
    BY <1>1, <1>11, <1>12, NatInd
<1>14. Taken(kind, t) <= SumTo(f, Len(cells))
  BY <1>1, <1>2, <1>7, <1>13
<1> QED
  BY <1>5, <1>6, <1>9, <1>14

-----------------------------------------------------------------------------
(* Halves of a split.                                                      *)

(* Bytes f and what they take with slots of d bytes, g, between two places.*)
Slots(f, g, d, j, i) ==
    /\ 2 * (SumTo(g, i) - SumTo(g, j)) <= 3 * (SumTo(f, i) - SumTo(f, j))
    /\ SumTo(f, i) - SumTo(f, j) <= SumTo(g, i) - SumTo(g, j)
    /\ j < i => SumTo(f, i) - SumTo(f, j) + d <= SumTo(g, i) - SumTo(g, j)

LEMMA SlotsBetween ==
    ASSUME NEW n \in Nat, NEW d \in Nat, NEW f, NEW g,
           \A i \in 1 .. n : /\ f[i] \in Nat /\ g[i] = d + f[i] /\ 2 * d <= f[i],
           NEW j \in 0 .. n
    PROVE  \A i \in j .. n : Slots(f, g, d, j, i)
<1>0. \A i \in 1 .. n : g[i] \in Nat
  OBVIOUS
<1>1. \A i \in 0 .. n : SumTo(f, i) \in Nat /\ SumTo(g, i) \in Nat
  BY <1>0, SumNat
<1> DEFINE T == {k \in Nat : j + k <= n => Slots(f, g, d, j, j + k)}
<1>2. 0 \in T
  <2>1. SumTo(f, j) \in Nat /\ SumTo(g, j) \in Nat /\ j + 0 = j
    BY <1>1
  <2> QED
    BY <2>1 DEF Slots
<1>3. ASSUME NEW k \in Nat, k \in T PROVE k + 1 \in T
  <2> SUFFICES ASSUME j + (k + 1) <= n PROVE Slots(f, g, d, j, j + (k + 1))
    OBVIOUS
  <2>1. /\ j + (k + 1) = (j + k) + 1 /\ j + k \in Nat /\ (j + k) + 1 \in 1 .. n
        /\ j + k \in 0 .. n /\ j \in 0 .. n
    OBVIOUS
  <2>2. Slots(f, g, d, j, j + k)
    BY <1>3, <2>1
  <2>3. /\ SumTo(f, (j + k) + 1) = SumTo(f, j + k) + f[(j + k) + 1]
        /\ SumTo(g, (j + k) + 1) = SumTo(g, j + k) + g[(j + k) + 1]
    BY <2>1, SumNext
  <2>4. PICK x : x = (j + k) + 1
    OBVIOUS
  <2>5. f[x] \in Nat /\ g[x] = d + f[x] /\ 2 * d <= f[x]
    BY <2>1, <2>4
  <2>6. /\ SumTo(f, j) \in Nat /\ SumTo(g, j) \in Nat
        /\ SumTo(f, j + k) \in Nat /\ SumTo(g, j + k) \in Nat
    BY <1>1, <2>1
  <2> QED
    BY <2>1, <2>2, <2>3, <2>4, <2>5, <2>6 DEF Slots
<1> HIDE DEF T
<1>4. Nat \subseteq T
  BY <1>2, <1>3, NatInd
<1>5. ASSUME NEW i \in j .. n PROVE Slots(f, g, d, j, i)
  <2>1. i - j \in Nat /\ j + (i - j) = i /\ i <= n
    OBVIOUS
  <2> QED
    BY <1>4, <2>1 DEF T
<1> QED
  BY <1>5

LEMMA SlotsUp ==
    ASSUME NEW f, NEW g, NEW d, NEW i, NEW j, Slots(f, g, d, j, i),
           SumTo(f, i) \in Nat, SumTo(f, j) \in Nat,
           SumTo(g, i) \in Nat, SumTo(g, j) \in Nat
    PROVE  SumTo(f, j) <= SumTo(f, i) /\ SumTo(g, j) <= SumTo(g, i)
<1>1. PICK f1, f2, g1, g2 \in Nat : /\ f1 = SumTo(f, j) /\ f2 = SumTo(f, i)
                                   /\ g1 = SumTo(g, j) /\ g2 = SumTo(g, i)
  OBVIOUS
<1>2. 2 * (g2 - g1) <= 3 * (f2 - f1) /\ f2 - f1 <= g2 - g1
  BY <1>1 DEF Slots
<1>3. f1 <= f2 /\ g1 <= g2
  BY <1>2
<1> QED
  BY <1>1, <1>3

(* The place where half of the bytes are reached.                          *)
LEMMA MidpointIs ==
    ASSUME NEW sizes \in Seq(Nat), sizes # <<>>, NEW mid, mid = ByteMidpoint(sizes)
    PROVE  /\ mid \in 1 .. Len(sizes)
           /\ 2 * SumTo(sizes, mid) >= SumTo(sizes, Len(sizes))
           /\ 2 * SumTo(sizes, mid - 1) < SumTo(sizes, Len(sizes))
              \/ mid = 1
<1>1. Len(sizes) \in Nat /\ Len(sizes) \in 1 .. Len(sizes)
      /\ \A i \in 1 .. Len(sizes) : sizes[i] \in Nat
  OBVIOUS
<1>2. \A i \in 0 .. Len(sizes) : SumTo(sizes, i) \in Nat
  BY <1>1, SumNat
<1> DEFINE enough == {i \in 1 .. Len(sizes) :
                        2 * SumTo(sizes, i) >= SumTo(sizes, Len(sizes))}
<1>3. enough \subseteq Nat /\ enough # {}
  <2>1. Len(sizes) \in enough
    BY <1>1, <1>2
  <2> QED
    BY <1>1, <2>1
<1>4. \E i \in enough : \A j \in enough : i <= j
  <2> HIDE DEF enough
  <2> QED
    BY <1>3, NatMin
<1>5. mid \in enough /\ \A j \in enough : mid <= j
  <2>1. mid = CHOOSE i \in enough : \A j \in enough : i <= j
    BY DEF ByteMidpoint
  <2> HIDE DEF enough
  <2> QED
    BY <1>4, <2>1
<1>6. ASSUME mid # 1 PROVE 2 * SumTo(sizes, mid - 1) < SumTo(sizes, Len(sizes))
  <2>1. mid \in 1 .. Len(sizes)
    BY <1>5
  <2>2. mid - 1 \in 1 .. Len(sizes) /\ ~(mid <= mid - 1)
    BY <1>1, <1>6, <2>1
  <2>3. mid - 1 \notin enough
    BY <1>5, <2>2
  <2>4. SumTo(sizes, mid - 1) \in Nat /\ SumTo(sizes, Len(sizes)) \in Nat
    BY <1>1, <1>2, <2>2
  <2> QED
    BY <2>2, <2>3, <2>4
<1> QED
  BY <1>5, <1>6

(* A page that overflows by one cell, of the place x, splits into two that *)
(* fit, with something in each.                                            *)
LEMMA HalvesFit ==
    ASSUME len \in Lengths, NEW kind, NEW cells \in Seq(LiveCells),
           Taken(kind, cells) > PageRoom,
           NEW x \in 1 .. Len(cells),
           Taken(kind, cells) - Size(kind, cells[x]) <= PageRoom,
           NEW mid, mid = Midpoint(kind, cells)
    PROVE  /\ mid \in 2 .. Len(cells) - 1
           /\ Taken(kind, SubSeq(cells, 1, mid)) <= PageRoom
           /\ Taken(kind, SubSeq(cells, mid + 1, Len(cells))) <= PageRoom
           /\ Taken(kind, SubSeq(cells, 1, mid - 1)) <= PageRoom
<1>0. cells \in Seq(CellSet)
  BY DEF CellSet
<1>1. PICK n \in Nat : n = Len(cells)
  OBVIOUS
<1>2. PICK b, g : /\ b = [i \in DOMAIN cells |-> CellLen(kind, cells[i].key)]
                  /\ g = Sizes(kind, cells)
  OBVIOUS
<1>3. \A i \in 1 .. n : /\ cells[i] \in LiveCells /\ cells[i] \in CellSet
                        /\ cells[i] # Tombstone
  <2>1. \A i \in 1 .. n : cells[i] \in LiveCells
    BY <1>1
  <2>2. \A i \in 1 .. n : cells[i] \in CellSet
    BY <2>1 DEF CellSet
  <2> QED
    BY <2>1, <2>2, CellFacts
<1>4. DOMAIN cells = 1 .. n
  BY <1>1
<1>5. \A i \in 1 .. n : b[i] = CellLen(kind, cells[i].key)
                        /\ g[i] = Size(kind, cells[i])
  BY <1>2, <1>4 DEF Sizes
<1>6. \A i \in 1 .. n : /\ b[i] \in Nat /\ g[i] = SlotLen + b[i]
                        /\ 2 * SlotLen <= b[i] /\ g[i] \in Nat
                        /\ 4 * g[i] <= PageRoom
  <2>1. ASSUME NEW i \in 1 .. n
        PROVE  /\ b[i] \in Nat /\ g[i] = SlotLen + b[i]
               /\ 2 * SlotLen <= b[i] /\ g[i] \in Nat
               /\ 4 * g[i] <= PageRoom
    <3>1. PICK c \in CellSet : c = cells[i] /\ c # Tombstone
      BY <1>3
    <3>2. /\ Size(kind, c) \in Nat /\ 4 * Size(kind, c) <= PageRoom
          /\ CellLen(kind, c.key) \in Nat
          /\ Size(kind, c) = SlotLen + CellLen(kind, c.key)
          /\ 2 * SlotLen <= CellLen(kind, c.key)
      BY <3>1, SizeFacts
    <3> QED
      BY <1>5, <3>1, <3>2
  <2> QED
    BY <2>1
<1>7. b \in Seq(Nat) /\ Len(b) = n
  <2>1. b \in [1 .. n -> Nat]
    BY <1>2, <1>4, <1>5, <1>6
  <2> QED
    BY <2>1
<1>8. Taken(kind, cells) = SumTo(g, n)
  BY <1>0, <1>1, <1>2, TakenIs
<1>9. SumTo(g, 0) = 0 /\ SumTo(b, 0) = 0
  BY SumNext
<1>10. PICK S \in Nat, R \in Nat : S = SlotLen /\ R = PageRoom /\ 0 < S
  BY Lens
<1>11. \A i \in 0 .. n : SumTo(b, i) \in Nat /\ SumTo(g, i) \in Nat
  BY <1>6, SumNat
<1>12. \A j \in 0 .. n : \A i \in j .. n : Slots(b, g, S, j, i)
  <2>1. ASSUME NEW j \in 0 .. n PROVE \A i \in j .. n : Slots(b, g, S, j, i)
    <3>1. \A i \in 1 .. n : b[i] \in Nat /\ g[i] = S + b[i] /\ 2 * S <= b[i]
      BY <1>6, <1>10
    <3> QED
      BY <3>1, SlotsBetween
  <2> QED
    BY <2>1
<1>120. \A j \in 0 .. n : \A i \in j .. n : SumTo(b, j) <= SumTo(b, i)
                                           /\ SumTo(g, j) <= SumTo(g, i)
  <2>1. ASSUME NEW j \in 0 .. n, NEW i \in j .. n
        PROVE  SumTo(b, j) <= SumTo(b, i) /\ SumTo(g, j) <= SumTo(g, i)
    <3>1. i \in 0 .. n
      OBVIOUS
    <3> QED
      BY <1>11, <1>12, <3>1, SlotsUp
  <2> QED
    BY <2>1
<1>13. SumTo(g, n) > R /\ x \in 1 .. n /\ SumTo(g, n) - g[x] <= R
  BY <1>1, <1>5, <1>8, <1>10
<1>14. \A i \in 1 .. n : /\ SumTo(b, i) = SumTo(b, i - 1) + b[i]
                         /\ SumTo(g, i) = SumTo(g, i - 1) + g[i]
  <2>1. ASSUME NEW i \in 1 .. n
        PROVE  /\ SumTo(b, i) = SumTo(b, i - 1) + b[i]
               /\ SumTo(g, i) = SumTo(g, i - 1) + g[i]
    <3>1. i - 1 \in Nat /\ (i - 1) + 1 = i
      OBVIOUS
    <3> QED
      BY <3>1, SumNext
  <2> QED
    BY <2>1
<1>15. /\ mid \in 1 .. n /\ 2 * SumTo(b, mid) >= SumTo(b, n)
       /\ 2 * SumTo(b, mid - 1) < SumTo(b, n) \/ mid = 1
  <2>1. mid = ByteMidpoint(b)
    BY <1>2 DEF Midpoint
  <2>2. b # <<>>
    BY <1>7, <1>13
  <2> QED
    BY <1>7, <2>1, <2>2, MidpointIs
<1>16. PICK B0, G0, B1, G1, BN, GN, bm, gm, gx, bx \in Nat :
         /\ B0 = SumTo(b, mid - 1) /\ G0 = SumTo(g, mid - 1)
         /\ B1 = SumTo(b, mid) /\ G1 = SumTo(g, mid)
         /\ BN = SumTo(b, n) /\ GN = SumTo(g, n)
         /\ bm = b[mid] /\ gm = g[mid] /\ bx = b[x] /\ gx = g[x]
  <2>1. mid - 1 \in 0 .. n /\ mid \in 0 .. n /\ n \in 0 .. n
    BY <1>15
  <2> QED
    BY <1>6, <1>11, <1>13, <1>15, <2>1
<1>17. /\ gm = S + bm /\ gx = S + bx /\ 4 * gm <= R /\ 4 * gx <= R
       /\ 2 * S <= bm /\ 2 * S <= bx
       /\ GN > R /\ GN - gx <= R /\ B1 = B0 + bm /\ G1 = G0 + gm
       /\ 2 * B1 >= BN
  BY <1>6, <1>10, <1>13, <1>14, <1>15, <1>16
<1>18. /\ 2 * G0 <= 3 * B0 /\ B0 <= G0
       /\ 2 * (GN - G1) <= 3 * (BN - B1) /\ BN - B1 <= GN - G1
       /\ mid < n => BN - B1 + S <= GN - G1
       /\ B1 + S <= G1 /\ 2 * GN <= 3 * BN
  <2>1. /\ Slots(b, g, S, 0, mid - 1) /\ Slots(b, g, S, mid, n)
        /\ Slots(b, g, S, 0, mid) /\ Slots(b, g, S, 0, n)
    <3>1. /\ 0 \in 0 .. n /\ mid - 1 \in 0 .. n /\ mid \in 0 .. n
          /\ n \in mid .. n /\ n \in 0 .. n
      BY <1>15
    <3> QED
      BY <1>12, <3>1
  <2>2. 0 < mid
    BY <1>15
  <2> QED
    BY <1>9, <1>16, <2>1, <2>2 DEF Slots
<1>19. mid # 1
  <2> SUFFICES ASSUME mid = 1 PROVE FALSE
    OBVIOUS
  <2>1. B0 = 0
    BY <1>9, <1>16
  <2> QED
    BY <1>17, <1>18, <2>1
<1>20. 2 * B0 < BN
  BY <1>15, <1>16, <1>19
<1>21. mid # n
  <2> SUFFICES ASSUME mid = n PROVE FALSE
    OBVIOUS
  <2>1. BN = B1
    BY <1>16
  <2> QED
    BY <1>17, <1>18, <1>20, <2>1
<1>22. BN - B1 + S <= GN - G1
  BY <1>15, <1>18, <1>21
<1>23. G1 <= R
  <2> SUFFICES ASSUME G1 > R PROVE FALSE
    OBVIOUS
  <2>1. CASE x = mid
    <3>1. gx = gm /\ bx = bm
      BY <1>16, <2>1
    <3> QED
      BY <1>17, <1>18, <1>20, <1>22, <3>1
  <2>2. CASE x < mid
    <3>1. PICK B2, G2, B3, G3 \in Nat :
            /\ B2 = SumTo(b, x - 1) /\ G2 = SumTo(g, x - 1)
            /\ B3 = SumTo(b, x) /\ G3 = SumTo(g, x)
      <4>1. x - 1 \in 0 .. n /\ x \in 0 .. n
        BY <1>13
      <4> QED
        BY <1>11, <4>1
    <3>2. B3 = B2 + bx /\ G3 = G2 + gx
      BY <1>13, <1>14, <1>16, <3>1
    <3>3. 2 * G2 <= 3 * B2 /\ 2 * (G0 - G3) <= 3 * (B0 - B3)
      <4>1. Slots(b, g, S, 0, x - 1) /\ Slots(b, g, S, x, mid - 1)
        <5>1. /\ 0 \in 0 .. n /\ x - 1 \in 0 .. n /\ x \in 0 .. n
              /\ mid - 1 \in x .. n
          BY <1>13, <1>15, <2>2
        <5> QED
          BY <1>12, <5>1
      <4> QED
        BY <1>9, <1>16, <3>1, <4>1 DEF Slots
    <3>4. GN - G1 < gx /\ BN - B1 + S < gx
      BY <1>17, <1>22
    <3>5. B0 - bx < bm
      BY <1>17, <1>20, <3>4
    <3>6. 2 * (G0 - gx) <= 3 * (B0 - bx)
      BY <3>2, <3>3
    <3> QED
      BY <1>17, <3>5, <3>6
  <2>3. CASE x > mid
    <3>1. PICK G2, G3 \in Nat : G2 = SumTo(g, x - 1) /\ G3 = SumTo(g, x)
      <4>1. x - 1 \in 0 .. n /\ x \in 0 .. n
        BY <1>13
      <4> QED
        BY <1>11, <4>1
    <3>2. G3 = G2 + gx
      BY <1>13, <1>14, <1>16, <3>1
    <3>3. G1 <= G2 /\ G3 <= GN
      <4>1. /\ mid \in 0 .. n /\ x - 1 \in mid .. n /\ x \in 0 .. n
            /\ n \in x .. n
        BY <1>13, <1>15, <2>3
      <4> QED
        BY <1>16, <1>120, <3>1, <4>1
    <3> QED
      BY <1>17, <3>2, <3>3
  <2> QED
    BY <1>13, <1>15, <2>1, <2>2, <2>3
<1>24. GN - G1 <= R
  <2> SUFFICES ASSUME GN - G1 > R PROVE FALSE
    OBVIOUS
  <2>1. CASE x <= mid
    <3>1. PICK B2, G2, B3, G3 \in Nat :
            /\ B2 = SumTo(b, x - 1) /\ G2 = SumTo(g, x - 1)
            /\ B3 = SumTo(b, x) /\ G3 = SumTo(g, x)
      <4>1. x - 1 \in 0 .. n /\ x \in 0 .. n
        BY <1>13
      <4> QED
        BY <1>11, <4>1
    <3>2. G3 = G2 + gx
      BY <1>13, <1>14, <1>16, <3>1
    <3>3. G3 <= G1
      <4>1. x \in 0 .. n /\ mid \in x .. n
        BY <1>13, <1>15, <2>1
      <4> QED
        BY <1>16, <1>120, <3>1, <4>1
    <3> QED
      BY <1>17, <3>2, <3>3
  <2>2. CASE x > mid
    <3>1. PICK B2, G2, B3, G3 \in Nat :
            /\ B2 = SumTo(b, x - 1) /\ G2 = SumTo(g, x - 1)
            /\ B3 = SumTo(b, x) /\ G3 = SumTo(g, x)
      <4>1. x - 1 \in 0 .. n /\ x \in 0 .. n
        BY <1>13
      <4> QED
        BY <1>11, <4>1
    <3>2. B3 = B2 + bx /\ G3 = G2 + gx
      BY <1>13, <1>14, <1>16, <3>1
    <3>3. B1 <= B2 /\ B3 <= BN
      <4>1. /\ mid \in 0 .. n /\ x - 1 \in mid .. n /\ x \in 0 .. n
            /\ n \in x .. n
        BY <1>13, <1>15, <2>2
      <4> QED
        BY <1>16, <1>120, <3>1, <4>1
    <3>4. G1 < gx
      BY <1>17
    <3>5. B1 < bx /\ BN - B1 >= bx
      BY <1>17, <1>18, <3>2, <3>3, <3>4
    <3> QED
      BY <1>17, <3>5
  <2> QED
    BY <1>13, <1>15, <2>1, <2>2
<1>25. mid \in 0 .. Len(cells) /\ mid - 1 \in 0 .. Len(cells)
       /\ mid \in 2 .. Len(cells) - 1
  BY <1>1, <1>15, <1>19, <1>21
<1>26. PICK lo, hi, below : /\ lo = SubSeq(cells, 1, mid)
                            /\ hi = SubSeq(cells, mid + 1, Len(cells))
                            /\ below = SubSeq(cells, 1, mid - 1)
  OBVIOUS
<1>27. /\ Taken(kind, lo) = SumTo(Sizes(kind, cells), mid)
       /\ Taken(kind, cells) = Taken(kind, lo) + Taken(kind, hi)
       /\ hi \in Seq(CellSet)
  <2>1. len \in Lengths /\ mid \in 0 .. Len(cells) /\ cells \in Seq(CellSet)
        /\ CutAt(cells, mid, lo, hi)
    BY <1>0, <1>25, <1>26 DEF CutAt
  <2> QED
    BY ONLY <2>1, TakenCut
<1>28. Taken(kind, below) = SumTo(Sizes(kind, cells), mid - 1)
  <2>1. PICK m \in 0 .. Len(cells) : m = mid - 1
    BY <1>25
  <2>2. PICK rest : rest = SubSeq(cells, m + 1, Len(cells))
    OBVIOUS
  <2>3. len \in Lengths /\ cells \in Seq(CellSet) /\ m \in 0 .. Len(cells)
        /\ CutAt(cells, m, below, rest)
    BY <1>0, <1>26, <2>1, <2>2 DEF CutAt
  <2>4. Taken(kind, below) = SumTo(Sizes(kind, cells), m)
    BY ONLY <2>3, TakenCut
  <2> QED
    BY <2>1, <2>4
<1>29. Taken(kind, lo) = G1 /\ Taken(kind, below) = G0 /\ Taken(kind, cells) = GN
  BY <1>2, <1>8, <1>16, <1>27, <1>28
<1>30. Taken(kind, hi) \in Nat
  BY <1>27, TakenIs
<1>31. Taken(kind, hi) = GN - G1
  BY <1>27, <1>29, <1>30
<1>32. G0 <= R
  BY <1>17, <1>23
<1>33. /\ Taken(kind, lo) <= PageRoom /\ Taken(kind, hi) <= PageRoom
       /\ Taken(kind, below) <= PageRoom
  BY <1>10, <1>23, <1>24, <1>29, <1>31, <1>32
<1> QED
  BY <1>25, <1>26, <1>33

-----------------------------------------------------------------------------
(* The states of the other loops.                                          *)

ProbeStart(cells) == [lo |-> 1, hi |-> Len(cells) + 1, found |-> 0]

(* The states of `first_slot_where`.                                        *)
ProbeRun(h, n, cells, meets) ==
    h = [i \in 0 .. n |-> IF i = 0 THEN ProbeStart(cells) ELSE Probe(cells, meets, h[i - 1])]

LEMMA ProbeSteps ==
    ASSUME NEW cells, NEW meets, Len(cells) \in Nat
    PROVE  \E h : /\ ProbeRun(h, Len(cells), cells, meets) /\ FirstSlotWhere(cells, meets) = h[Len(cells)].found
                 /\ h[0] = ProbeStart(cells)
                 /\ \A i \in 1 .. Len(cells) : h[i] = Probe(cells, meets, h[i - 1])
<1> DEFINE T == {k \in Nat : \E h : ProbeRun(h, k, cells, meets)}
<1>1. 0 \in T
  <2> DEFINE h == [i \in 0 .. 0 |-> ProbeStart(cells)]
  <2>1. \A i \in 0 .. 0 : i = 0
    OBVIOUS
  <2>2. ProbeRun(h, 0, cells, meets)
    BY <2>1 DEF ProbeRun
  <2> QED
    BY <2>2
<1>2. ASSUME NEW k \in Nat, k \in T PROVE k + 1 \in T
  <2>1. PICK h : ProbeRun(h, k, cells, meets)
    BY <1>2
  <2>2. \A i \in 0 .. k : h[i] = IF i = 0 THEN ProbeStart(cells) ELSE Probe(cells, meets, h[i - 1])
    BY <2>1 DEF ProbeRun
  <2>3. PICK last : last = Probe(cells, meets, h[k])
    OBVIOUS
  <2>4. PICK g : g = [i \in 0 .. k + 1 |-> IF i = k + 1 THEN last ELSE h[i]]
    OBVIOUS
  <2>5. \A i \in 0 .. k : g[i] = h[i]
    BY <2>4
  <2>6. g[k + 1] = last
    BY <2>4
  <2>7. ASSUME NEW i \in 0 .. k + 1
        PROVE  g[i] = IF i = 0 THEN ProbeStart(cells) ELSE Probe(cells, meets, g[i - 1])
    <3>1. CASE i = k + 1
      <4>1. g[k] = h[k] /\ i # 0 /\ i - 1 = k
        BY <2>5, <3>1
      <4> QED
        BY <2>3, <2>6, <3>1, <4>1
    <3>2. CASE i # k + 1 /\ i # 0
      <4>1. i \in 0 .. k /\ i - 1 \in 0 .. k
        BY <3>2
      <4>2. g[i] = h[i] /\ g[i - 1] = h[i - 1]
        BY <2>5, <4>1
      <4> QED
        BY <2>2, <3>2, <4>1, <4>2
    <3>3. CASE i = 0
      <4>1. i \in 0 .. k
        BY <3>3
      <4> QED
        BY <2>2, <2>5, <3>3, <4>1
    <3> QED
      BY <3>1, <3>2, <3>3
  <2>8. g = [i \in 0 .. k + 1 |-> IF i = 0 THEN ProbeStart(cells) ELSE Probe(cells, meets, g[i - 1])]
    <3>1. DOMAIN g = 0 .. k + 1 /\ g = [i \in 0 .. k + 1 |-> g[i]]
      BY <2>4
    <3> QED
      BY <2>7, <3>1
  <2>9. ProbeRun(g, k + 1, cells, meets)
    BY <2>8 DEF ProbeRun
  <2> QED
    BY <2>9
<1>3. Len(cells) \in T
  <2> HIDE DEF T
  <2> QED
    BY <1>1, <1>2, NatInd
<1> DEFINE D(h) == [i \in 0 .. Len(cells) |-> IF i = 0 THEN ProbeStart(cells) ELSE Probe(cells, meets, h[i - 1])]
           run == CHOOSE h : h = D(h)
<1>4. \E h : h = D(h)
  BY <1>3 DEF ProbeRun
<1>5. run = D(run)
  <2> HIDE DEF D
  <2> QED
    BY <1>4
<1>6. ProbeRun(run, Len(cells), cells, meets)
  BY <1>5 DEF ProbeRun
<1>7. FirstSlotWhere(cells, meets) = run[Len(cells)].found
  BY DEF FirstSlotWhere, ProbeStart
<1>8. \A i \in 0 .. Len(cells) : run[i] = IF i = 0 THEN ProbeStart(cells) ELSE Probe(cells, meets, run[i - 1])
  <2> HIDE DEF run
  <2> QED
    BY <1>5
<1>9. run[0] = ProbeStart(cells) /\ \A i \in 1 .. Len(cells) : run[i] = Probe(cells, meets, run[i - 1])
  <2> HIDE DEF run
  <2>1. 0 \in 0 .. Len(cells) /\ \A i \in 1 .. Len(cells) : i \in 0 .. Len(cells) /\ i # 0
    OBVIOUS
  <2> QED
    BY <1>8, <2>1
<1> QED
  BY <1>6, <1>7, <1>9

(* One level further down.                                                 *)
PathOn(ps, key, path) ==
    LET page == ps[Last(path)]
    IN  IF page.kind = "leaf" THEN path ELSE Append(path, FindChild(page, key))

(* The states of `find_leaf`.                                               *)
PathRun(h, n, ps, r, key) ==
    h = [i \in 0 .. n |-> IF i = 0 THEN <<r>> ELSE PathOn(ps, key, h[i - 1])]

LEMMA PathSteps ==
    ASSUME NEW ps, NEW r, NEW key, MaxDepth \in Nat
    PROVE  \E h : /\ PathRun(h, MaxDepth, ps, r, key) /\ PathTo(ps, r, key) = h[MaxDepth]
                 /\ h[0] = <<r>>
                 /\ \A i \in 1 .. MaxDepth : h[i] = PathOn(ps, key, h[i - 1])
<1> DEFINE T == {k \in Nat : \E h : PathRun(h, k, ps, r, key)}
<1>1. 0 \in T
  <2> DEFINE h == [i \in 0 .. 0 |-> <<r>>]
  <2>1. \A i \in 0 .. 0 : i = 0
    OBVIOUS
  <2>2. PathRun(h, 0, ps, r, key)
    BY <2>1 DEF PathRun
  <2> QED
    BY <2>2
<1>2. ASSUME NEW k \in Nat, k \in T PROVE k + 1 \in T
  <2>1. PICK h : PathRun(h, k, ps, r, key)
    BY <1>2
  <2>2. \A i \in 0 .. k : h[i] = IF i = 0 THEN <<r>> ELSE PathOn(ps, key, h[i - 1])
    BY <2>1 DEF PathRun
  <2>3. PICK last : last = PathOn(ps, key, h[k])
    OBVIOUS
  <2>4. PICK g : g = [i \in 0 .. k + 1 |-> IF i = k + 1 THEN last ELSE h[i]]
    OBVIOUS
  <2>5. \A i \in 0 .. k : g[i] = h[i]
    BY <2>4
  <2>6. g[k + 1] = last
    BY <2>4
  <2>7. ASSUME NEW i \in 0 .. k + 1
        PROVE  g[i] = IF i = 0 THEN <<r>> ELSE PathOn(ps, key, g[i - 1])
    <3>1. CASE i = k + 1
      <4>1. g[k] = h[k] /\ i # 0 /\ i - 1 = k
        BY <2>5, <3>1
      <4> QED
        BY <2>3, <2>6, <3>1, <4>1
    <3>2. CASE i # k + 1 /\ i # 0
      <4>1. i \in 0 .. k /\ i - 1 \in 0 .. k
        BY <3>2
      <4>2. g[i] = h[i] /\ g[i - 1] = h[i - 1]
        BY <2>5, <4>1
      <4> QED
        BY <2>2, <3>2, <4>1, <4>2
    <3>3. CASE i = 0
      <4>1. i \in 0 .. k
        BY <3>3
      <4> QED
        BY <2>2, <2>5, <3>3, <4>1
    <3> QED
      BY <3>1, <3>2, <3>3
  <2>8. g = [i \in 0 .. k + 1 |-> IF i = 0 THEN <<r>> ELSE PathOn(ps, key, g[i - 1])]
    <3>1. DOMAIN g = 0 .. k + 1 /\ g = [i \in 0 .. k + 1 |-> g[i]]
      BY <2>4
    <3> QED
      BY <2>7, <3>1
  <2>9. PathRun(g, k + 1, ps, r, key)
    BY <2>8 DEF PathRun
  <2> QED
    BY <2>9
<1>3. MaxDepth \in T
  <2> HIDE DEF T
  <2> QED
    BY <1>1, <1>2, NatInd
<1> DEFINE D(h) == [i \in 0 .. MaxDepth |-> IF i = 0 THEN <<r>> ELSE PathOn(ps, key, h[i - 1])]
           run == CHOOSE h : h = D(h)
<1>4. \E h : h = D(h)
  BY <1>3 DEF PathRun
<1>5. run = D(run)
  <2> HIDE DEF D
  <2> QED
    BY <1>4
<1>6. PathRun(run, MaxDepth, ps, r, key)
  BY <1>5 DEF PathRun
<1>7. PathTo(ps, r, key) = run[MaxDepth]
  BY DEF PathTo, PathOn
<1>8. \A i \in 0 .. MaxDepth : run[i] = IF i = 0 THEN <<r>> ELSE PathOn(ps, key, run[i - 1])
  <2> HIDE DEF run
  <2> QED
    BY <1>5
<1>9. run[0] = <<r>> /\ \A i \in 1 .. MaxDepth : run[i] = PathOn(ps, key, run[i - 1])
  <2> HIDE DEF run
  <2>1. 0 \in 0 .. MaxDepth /\ \A i \in 1 .. MaxDepth : i \in 0 .. MaxDepth /\ i # 0
    OBVIOUS
  <2> QED
    BY <1>8, <2>1
<1> QED
  BY <1>6, <1>7, <1>9

(* The end of an insert.                                                   *)
Grown(top, r) ==
    IF top.separator = NoKey THEN top.pages ELSE GrowNewRoot(top, r)

(* The states of an insert, up the path.                                    *)
InsertRun(h, n, ps, path, key) ==
    h = [i \in 0 .. n |-> IF i = 0 THEN InsertIntoLeaf(ps, Last(path), key) ELSE InsertIntoBranch(h[i - 1], path[Len(path) - (i)], key)]

LEMMA InsertSteps ==
    ASSUME NEW ps, NEW r, NEW key, NEW path, path = PathTo(ps, r, key),
           Len(path) - 1 \in Nat
    PROVE  \E h : /\ InsertRun(h, Len(path) - 1, ps, path, key) /\ Inserted(ps, r, key) = Grown(h[Len(path) - 1], r)
                 /\ h[0] = InsertIntoLeaf(ps, Last(path), key)
                 /\ \A i \in 1 .. Len(path) - 1 : h[i] = InsertIntoBranch(h[i - 1], path[Len(path) - (i)], key)
<1> DEFINE T == {k \in Nat : \E h : InsertRun(h, k, ps, path, key)}
<1>1. 0 \in T
  <2> DEFINE h == [i \in 0 .. 0 |-> InsertIntoLeaf(ps, Last(path), key)]
  <2>1. \A i \in 0 .. 0 : i = 0
    OBVIOUS
  <2>2. InsertRun(h, 0, ps, path, key)
    BY <2>1 DEF InsertRun
  <2> QED
    BY <2>2
<1>2. ASSUME NEW k \in Nat, k \in T PROVE k + 1 \in T
  <2>1. PICK h : InsertRun(h, k, ps, path, key)
    BY <1>2
  <2>2. \A i \in 0 .. k : h[i] = IF i = 0 THEN InsertIntoLeaf(ps, Last(path), key) ELSE InsertIntoBranch(h[i - 1], path[Len(path) - (i)], key)
    BY <2>1 DEF InsertRun
  <2>3. PICK last : last = InsertIntoBranch(h[k], path[Len(path) - (k + 1)], key)
    OBVIOUS
  <2>4. PICK g : g = [i \in 0 .. k + 1 |-> IF i = k + 1 THEN last ELSE h[i]]
    OBVIOUS
  <2>5. \A i \in 0 .. k : g[i] = h[i]
    BY <2>4
  <2>6. g[k + 1] = last
    BY <2>4
  <2>7. ASSUME NEW i \in 0 .. k + 1
        PROVE  g[i] = IF i = 0 THEN InsertIntoLeaf(ps, Last(path), key) ELSE InsertIntoBranch(g[i - 1], path[Len(path) - (i)], key)
    <3>1. CASE i = k + 1
      <4>1. g[k] = h[k] /\ i # 0 /\ i - 1 = k
        BY <2>5, <3>1
      <4> QED
        BY <2>3, <2>6, <3>1, <4>1
    <3>2. CASE i # k + 1 /\ i # 0
      <4>1. i \in 0 .. k /\ i - 1 \in 0 .. k
        BY <3>2
      <4>2. g[i] = h[i] /\ g[i - 1] = h[i - 1]
        BY <2>5, <4>1
      <4> QED
        BY <2>2, <3>2, <4>1, <4>2
    <3>3. CASE i = 0
      <4>1. i \in 0 .. k
        BY <3>3
      <4> QED
        BY <2>2, <2>5, <3>3, <4>1
    <3> QED
      BY <3>1, <3>2, <3>3
  <2>8. g = [i \in 0 .. k + 1 |-> IF i = 0 THEN InsertIntoLeaf(ps, Last(path), key) ELSE InsertIntoBranch(g[i - 1], path[Len(path) - (i)], key)]
    <3>1. DOMAIN g = 0 .. k + 1 /\ g = [i \in 0 .. k + 1 |-> g[i]]
      BY <2>4
    <3> QED
      BY <2>7, <3>1
  <2>9. InsertRun(g, k + 1, ps, path, key)
    BY <2>8 DEF InsertRun
  <2> QED
    BY <2>9
<1>3. Len(path) - 1 \in T
  <2> HIDE DEF T
  <2> QED
    BY <1>1, <1>2, NatInd
<1> DEFINE D(h) == [i \in 0 .. Len(path) - 1 |-> IF i = 0 THEN InsertIntoLeaf(ps, Last(path), key) ELSE InsertIntoBranch(h[i - 1], path[Len(path) - (i)], key)]
           run == CHOOSE h : h = D(h)
<1>4. \E h : h = D(h)
  BY <1>3 DEF InsertRun
<1>5. run = D(run)
  <2> HIDE DEF D
  <2> QED
    BY <1>4
<1>6. InsertRun(run, Len(path) - 1, ps, path, key)
  BY <1>5 DEF InsertRun
<1>7. Inserted(ps, r, key) = Grown(run[Len(path) - 1], r)
  BY DEF Inserted, Grown
<1>8. \A i \in 0 .. Len(path) - 1 : run[i] = IF i = 0 THEN InsertIntoLeaf(ps, Last(path), key) ELSE InsertIntoBranch(run[i - 1], path[Len(path) - (i)], key)
  <2> HIDE DEF run
  <2> QED
    BY <1>5
<1>9. run[0] = InsertIntoLeaf(ps, Last(path), key) /\ \A i \in 1 .. Len(path) - 1 : run[i] = InsertIntoBranch(run[i - 1], path[Len(path) - (i)], key)
  <2> HIDE DEF run
  <2>1. 0 \in 0 .. Len(path) - 1 /\ \A i \in 1 .. Len(path) - 1 : i \in 0 .. Len(path) - 1 /\ i # 0
    OBVIOUS
  <2> QED
    BY <1>8, <2>1
<1> QED
  BY <1>6, <1>7, <1>9

(* The next page of those pending, and its children instead.               *)
ReachOn(ps, was) ==
    IF was.pending = <<>> THEN was
    ELSE [pending |-> Front(was.pending) \o Below(ps, Last(was.pending)),
          pages |-> Append(was.pages, Last(was.pending))]
ReachStart(r) == [pending |-> <<r>>, pages |-> <<>>]

(* The states of `pages`.                                                   *)
ReachRun(h, n, ps, r) ==
    h = [i \in 0 .. n |-> IF i = 0 THEN ReachStart(r) ELSE ReachOn(ps, h[i - 1])]

LEMMA ReachSteps ==
    ASSUME NEW ps, NEW r, MaxPages \in Nat
    PROVE  \E h : /\ ReachRun(h, MaxPages, ps, r) /\ Reached(ps, r) = h[MaxPages].pages
                 /\ h[0] = ReachStart(r)
                 /\ \A i \in 1 .. MaxPages : h[i] = ReachOn(ps, h[i - 1])
<1> DEFINE T == {k \in Nat : \E h : ReachRun(h, k, ps, r)}
<1>1. 0 \in T
  <2> DEFINE h == [i \in 0 .. 0 |-> ReachStart(r)]
  <2>1. \A i \in 0 .. 0 : i = 0
    OBVIOUS
  <2>2. ReachRun(h, 0, ps, r)
    BY <2>1 DEF ReachRun
  <2> QED
    BY <2>2
<1>2. ASSUME NEW k \in Nat, k \in T PROVE k + 1 \in T
  <2>1. PICK h : ReachRun(h, k, ps, r)
    BY <1>2
  <2>2. \A i \in 0 .. k : h[i] = IF i = 0 THEN ReachStart(r) ELSE ReachOn(ps, h[i - 1])
    BY <2>1 DEF ReachRun
  <2>3. PICK last : last = ReachOn(ps, h[k])
    OBVIOUS
  <2>4. PICK g : g = [i \in 0 .. k + 1 |-> IF i = k + 1 THEN last ELSE h[i]]
    OBVIOUS
  <2>5. \A i \in 0 .. k : g[i] = h[i]
    BY <2>4
  <2>6. g[k + 1] = last
    BY <2>4
  <2>7. ASSUME NEW i \in 0 .. k + 1
        PROVE  g[i] = IF i = 0 THEN ReachStart(r) ELSE ReachOn(ps, g[i - 1])
    <3>1. CASE i = k + 1
      <4>1. g[k] = h[k] /\ i # 0 /\ i - 1 = k
        BY <2>5, <3>1
      <4> QED
        BY <2>3, <2>6, <3>1, <4>1
    <3>2. CASE i # k + 1 /\ i # 0
      <4>1. i \in 0 .. k /\ i - 1 \in 0 .. k
        BY <3>2
      <4>2. g[i] = h[i] /\ g[i - 1] = h[i - 1]
        BY <2>5, <4>1
      <4> QED
        BY <2>2, <3>2, <4>1, <4>2
    <3>3. CASE i = 0
      <4>1. i \in 0 .. k
        BY <3>3
      <4> QED
        BY <2>2, <2>5, <3>3, <4>1
    <3> QED
      BY <3>1, <3>2, <3>3
  <2>8. g = [i \in 0 .. k + 1 |-> IF i = 0 THEN ReachStart(r) ELSE ReachOn(ps, g[i - 1])]
    <3>1. DOMAIN g = 0 .. k + 1 /\ g = [i \in 0 .. k + 1 |-> g[i]]
      BY <2>4
    <3> QED
      BY <2>7, <3>1
  <2>9. ReachRun(g, k + 1, ps, r)
    BY <2>8 DEF ReachRun
  <2> QED
    BY <2>9
<1>3. MaxPages \in T
  <2> HIDE DEF T
  <2> QED
    BY <1>1, <1>2, NatInd
<1> DEFINE D(h) == [i \in 0 .. MaxPages |-> IF i = 0 THEN ReachStart(r) ELSE ReachOn(ps, h[i - 1])]
           run == CHOOSE h : h = D(h)
<1>4. \E h : h = D(h)
  BY <1>3 DEF ReachRun
<1>5. run = D(run)
  <2> HIDE DEF D
  <2> QED
    BY <1>4
<1>6. ReachRun(run, MaxPages, ps, r)
  BY <1>5 DEF ReachRun
<1>7. Reached(ps, r) = run[MaxPages].pages
  BY DEF Reached, ReachOn, ReachStart
<1>8. \A i \in 0 .. MaxPages : run[i] = IF i = 0 THEN ReachStart(r) ELSE ReachOn(ps, run[i - 1])
  <2> HIDE DEF run
  <2> QED
    BY <1>5
<1>9. run[0] = ReachStart(r) /\ \A i \in 1 .. MaxPages : run[i] = ReachOn(ps, run[i - 1])
  <2> HIDE DEF run
  <2>1. 0 \in 0 .. MaxPages /\ \A i \in 1 .. MaxPages : i \in 0 .. MaxPages /\ i # 0
    OBVIOUS
  <2> QED
    BY <1>8, <2>1
<1> QED
  BY <1>6, <1>7, <1>9

-----------------------------------------------------------------------------
(* The binary search of a page.                                            *)

(* A page's live cells are in the order of their keys.                     *)
Ordered(cells) ==
    \A i, j \in 1 .. Len(cells) :
       i < j /\ cells[i] # Tombstone /\ cells[j] # Tombstone
          => cells[i].key < cells[j].key

Upward(meets) == \A k, l \in Key : k \in meets /\ k < l => l \in meets

(* No live cell of these places meets.                                     *)
NoneMeet(cells, meets, first, last) ==
    \A i \in 1 .. Len(cells) : first <= i /\ i <= last /\ cells[i] # Tombstone
                                  => cells[i].key \notin meets

(* What the search knows: nothing below lo, and below what is found.       *)
Narrowed(cells, meets, at) ==
    /\ at.lo \in 1 .. Len(cells) + 1 /\ at.hi \in 1 .. Len(cells) + 1
    /\ at.lo <= at.hi
    /\ NoneMeet(cells, meets, 1, at.lo - 1)
    /\ IF at.found = 0 THEN NoneMeet(cells, meets, at.hi, Len(cells))
       ELSE /\ at.found \in 1 .. Len(cells) /\ at.hi <= at.found
            /\ cells[at.found] # Tombstone /\ cells[at.found].key \in meets
            /\ NoneMeet(cells, meets, at.hi, at.found - 1)

LEMMA ProbeNarrows ==
    ASSUME NEW cells \in Seq(CellSet), Ordered(cells), NEW meets, Upward(meets),
           NEW at, at = [lo |-> at.lo, hi |-> at.hi, found |-> at.found],
           Narrowed(cells, meets, at), at.lo < at.hi,
           NEW u, u = Probe(cells, meets, at)
    PROVE  /\ u = [lo |-> u.lo, hi |-> u.hi, found |-> u.found]
           /\ Narrowed(cells, meets, u) /\ u.hi - u.lo < at.hi - at.lo
<1>1. PICK lo, hi, n \in Nat : lo = at.lo /\ hi = at.hi /\ n = Len(cells)
  BY DEF Narrowed
<1>2. PICK mid \in Nat : mid = lo + (hi - lo) \div 2
  BY <1>1 DEF Narrowed
<1>3. /\ 1 <= lo /\ lo <= mid /\ mid < hi /\ hi <= n + 1
  BY <1>1, <1>2 DEF Narrowed
<1> DEFINE alive == {i \in mid .. hi - 1 : cells[i] # Tombstone}
           slot == CHOOSE i \in alive : \A j \in alive : i <= j
<1>4. u = IF alive = {} THEN [at EXCEPT !.hi = mid]
          ELSE IF cells[slot].key \in meets
               THEN [at EXCEPT !.hi = mid, !.found = slot]
          ELSE [at EXCEPT !.lo = slot + 1]
  BY <1>1, <1>2, <1>3 DEF Probe
<1>5. PICK found : found = at.found
  OBVIOUS
<1>6. at = [lo |-> lo, hi |-> hi, found |-> found]
  BY <1>1, <1>5
<1>7. \A i \in 1 .. n : cells[i] \in CellSet
  BY <1>1
<1>8. CASE alive = {}
  <2>1. u = [lo |-> lo, hi |-> mid, found |-> found]
    BY <1>4, <1>6, <1>8
  <2>2. \A i \in 1 .. n : mid <= i /\ i <= hi - 1 => cells[i] = Tombstone
    BY <1>1, <1>3, <1>8
  <2> QED
    BY <1>1, <1>3, <1>5, <2>1, <2>2 DEF Narrowed, NoneMeet
<1>9. CASE alive # {}
  <2>1. alive \subseteq Nat
    BY <1>3
  <2>2. \E i \in alive : \A j \in alive : i <= j
    <3> HIDE DEF alive
    <3> QED
      BY <1>9, <2>1, NatMin
  <2>3. slot \in alive /\ \A j \in alive : slot <= j
    <3> HIDE DEF alive
    <3> QED
      BY <2>2
  <2>4. PICK s \in Nat : s = slot
    BY <2>1, <2>3
  <2>5. /\ mid <= s /\ s < hi /\ s \in 1 .. n /\ cells[s] # Tombstone
        /\ \A i \in 1 .. n : mid <= i /\ i < s => cells[i] = Tombstone
    BY <1>1, <1>3, <2>3, <2>4
  <2>6. CASE cells[s].key \in meets
    <3>1. u = [lo |-> lo, hi |-> mid, found |-> s]
      BY <1>4, <1>6, <1>9, <2>4, <2>6
    <3>2. s # 0
      BY <2>5
    <3>3. NoneMeet(cells, meets, mid, s - 1)
      BY <1>1, <2>5 DEF NoneMeet
    <3> QED
      BY <1>1, <1>3, <2>5, <2>6, <3>1, <3>2, <3>3 DEF Narrowed
  <2>7. CASE cells[s].key \notin meets
    <3>1. u = [lo |-> s + 1, hi |-> hi, found |-> found]
      BY <1>4, <1>6, <1>9, <2>4, <2>7
    <3>2. ASSUME NEW i \in 1 .. n, i <= s, cells[i] # Tombstone
          PROVE  cells[i].key \notin meets
      <4>1. CASE i = s
        BY <2>7, <4>1
      <4>2. CASE i < s
        <5>1. cells[i].key < cells[s].key
          BY <1>1, <2>5, <3>2, <4>2 DEF Ordered
        <5>2. cells[i].key \in Key /\ cells[s].key \in Key
          BY <1>7, <2>5, <3>2, CellFacts
        <5> QED
          BY <2>7, <5>1, <5>2 DEF Upward
      <4> QED
        BY <2>5, <3>2, <4>1, <4>2
    <3>3. NoneMeet(cells, meets, 1, s)
      BY <1>1, <3>2 DEF NoneMeet
    <3>4. u.lo - 1 = s /\ u.lo = s + 1 /\ u.hi = hi /\ u.found = found
      BY <2>5, <3>1
    <3> QED
      BY <1>1, <1>3, <1>5, <2>5, <3>1, <3>3, <3>4 DEF Narrowed
  <2> QED
    BY <2>6, <2>7
<1> QED
  BY <1>8, <1>9

(* What `first_slot_where` returns.                                        *)
FirstIs(cells, meets, f) ==
    \/ f = 0 /\ NoneMeet(cells, meets, 1, Len(cells))
    \/ /\ f \in 1 .. Len(cells) /\ cells[f] # Tombstone /\ cells[f].key \in meets
       /\ NoneMeet(cells, meets, 1, f - 1)

LEMMA FirstSlotRight ==
    ASSUME NEW cells \in Seq(CellSet), Ordered(cells), NEW meets, Upward(meets),
           NEW f, f = FirstSlotWhere(cells, meets)
    PROVE  FirstIs(cells, meets, f)
<1>1. PICK n \in Nat : n = Len(cells)
  OBVIOUS
<1>2. PICK h : /\ f = h[n].found /\ h[0] = ProbeStart(cells)
               /\ \A i \in 1 .. n : h[i] = Probe(cells, meets, h[i - 1])
  <2>1. Len(cells) \in Nat
    OBVIOUS
  <2>2. PICK h : /\ FirstSlotWhere(cells, meets) = h[Len(cells)].found
                 /\ h[0] = ProbeStart(cells)
                 /\ \A i \in 1 .. Len(cells) : h[i] = Probe(cells, meets, h[i - 1])
    BY ONLY <2>1, ProbeSteps
  <2> QED
    BY <1>1, <2>2
<1> DEFINE Q(k) == /\ h[k] = [lo |-> h[k].lo, hi |-> h[k].hi, found |-> h[k].found]
                   /\ Narrowed(cells, meets, h[k])
                   /\ h[k].lo < h[k].hi => h[k].hi - h[k].lo <= n - k
           T == {k \in Nat : k <= n => Q(k)}
<1>3. 0 \in T
  <2>1. h[0] = [lo |-> 1, hi |-> n + 1, found |-> 0]
    BY <1>1, <1>2 DEF ProbeStart
  <2>2. Narrowed(cells, meets, h[0])
    BY <1>1, <2>1 DEF Narrowed, NoneMeet
  <2> QED
    BY <2>1, <2>2
<1>4. ASSUME NEW k \in Nat, k \in T PROVE k + 1 \in T
  <2> SUFFICES ASSUME k + 1 <= n PROVE Q(k + 1)
    OBVIOUS
  <2>1. k <= n /\ k + 1 \in 1 .. n /\ (k + 1) - 1 = k
    BY <1>1
  <2>2. Q(k)
    BY <1>4, <2>1
  <2>3. h[k + 1] = Probe(cells, meets, h[k])
    BY <1>2, <2>1
  <2>4. PICK at, u : at = h[k] /\ u = h[k + 1]
    OBVIOUS
  <2>5. at.lo \in Nat /\ at.hi \in Nat /\ at.lo <= at.hi
    BY <1>1, <2>2, <2>4 DEF Narrowed
  <2>6. CASE at.lo < at.hi
    <3>1. /\ u = [lo |-> u.lo, hi |-> u.hi, found |-> u.found]
          /\ Narrowed(cells, meets, u) /\ u.hi - u.lo < at.hi - at.lo
      <4>1. /\ at = [lo |-> at.lo, hi |-> at.hi, found |-> at.found]
            /\ Narrowed(cells, meets, at) /\ u = Probe(cells, meets, at)
            /\ cells \in Seq(CellSet) /\ Ordered(cells) /\ Upward(meets)
        BY <2>2, <2>3, <2>4
      <4> QED
        BY ONLY <2>6, <4>1, ProbeNarrows
    <3>2. u.lo \in Nat /\ u.hi \in Nat
      BY <1>1, <3>1 DEF Narrowed
    <3>3. u.hi - u.lo <= n - (k + 1)
      BY <2>2, <2>4, <2>5, <2>6, <3>1, <3>2
    <3> QED
      BY <2>4, <3>1, <3>3
  <2>7. CASE ~(at.lo < at.hi)
    <3>0. at.lo >= at.hi /\ u = Probe(cells, meets, at)
      BY <2>3, <2>4, <2>5, <2>7
    <3>1. u = at
      BY ONLY <3>0 DEF Probe
    <3> QED
      BY <2>2, <2>4, <2>7, <3>1
  <2> QED
    BY <2>6, <2>7
<1>5. Q(n)
  <2>1. n \in T
    <3> HIDE DEF T
    <3> QED
      BY <1>3, <1>4, NatInd
  <2> QED
    BY <2>1
<1>6. PICK at : at = h[n]
  OBVIOUS
<1>7. at.lo = at.hi /\ f = at.found
  BY <1>1, <1>2, <1>5, <1>6 DEF Narrowed
<1>8. Narrowed(cells, meets, at)
  BY <1>5, <1>6
<1> QED
  BY <1>1, <1>7, <1>8 DEF Narrowed, NoneMeet, FirstIs

-----------------------------------------------------------------------------
(* What a branch routes where.                                             *)

(* Of the keys in `span`, those that belong to the i-th child.             *)
Place(cells, span, i) ==
    {k \in span : /\ i > 1 => k >= cells[i - 1].key
                  /\ i <= Len(cells) => k < cells[i].key}

LEMMA KeyFacts ==
    NoKey \notin Key /\ \A k \in Key : k \in Nat /\ k # NoKey
BY BTreeAssumption

LEMMA LiveFacts ==
    ASSUME NEW cells \in Seq(LiveCells)
    PROVE  /\ cells \in Seq(CellSet) /\ Len(cells) \in Nat
           /\ \A i \in 1 .. Len(cells) :
                 /\ cells[i] \in LiveCells /\ cells[i] \in CellSet
                 /\ cells[i] # Tombstone
                 /\ cells[i].key \in Key /\ cells[i].key \in Nat
           /\ Ordered(cells) => \A i, j \in 1 .. Len(cells) :
                                   i < j => cells[i].key < cells[j].key
<1>1. /\ cells \in Seq(CellSet) /\ Len(cells) \in Nat
      /\ \A i \in 1 .. Len(cells) : cells[i] \in LiveCells /\ cells[i] \in CellSet
  BY DEF CellSet
<1>2. \A i \in 1 .. Len(cells) : /\ cells[i] # Tombstone
                                 /\ cells[i].key \in Key /\ cells[i].key \in Nat
  BY <1>1, CellFacts
<1> QED
  BY <1>1, <1>2 DEF Ordered

LEMMA PlacesApart ==
    ASSUME NEW cells \in Seq(LiveCells), Ordered(cells), NEW span, span \subseteq Nat,
           NEW i \in 1 .. Len(cells) + 1, NEW j \in 1 .. Len(cells) + 1,
           NEW k, k \in Place(cells, span, i), k \in Place(cells, span, j)
    PROVE  i = j
<1>1. /\ Len(cells) \in Nat
      /\ \A m \in 1 .. Len(cells) : cells[m].key \in Nat
      /\ \A m, n \in 1 .. Len(cells) : m < n => cells[m].key < cells[n].key
  BY LiveFacts
<1>2. k \in Nat
  BY DEF Place
<1>3. ASSUME NEW a \in 1 .. Len(cells) + 1, NEW b \in 1 .. Len(cells) + 1, a < b,
             k \in Place(cells, span, a), k \in Place(cells, span, b)
      PROVE  FALSE
  <2>1. a \in 1 .. Len(cells) /\ b - 1 \in 1 .. Len(cells) /\ a <= b - 1
        /\ b > 1 /\ a <= Len(cells)
    BY <1>1, <1>3
  <2>2. k < cells[a].key /\ k >= cells[b - 1].key
    BY <1>3, <2>1 DEF Place
  <2>3. a = b - 1 \/ cells[a].key < cells[b - 1].key
    BY <1>1, <2>1
  <2> QED
    BY <1>1, <1>2, <2>1, <2>2, <2>3
<1> QED
  BY <1>1, <1>3

LEMMA ChildAtRight ==
    ASSUME NEW page, page.cells \in Seq(LiveCells), Ordered(page.cells),
           NEW key \in Nat, NEW at, at = ChildAt(page, key)
    PROVE  /\ at \in 1 .. Len(page.cells) + 1
           /\ \A i \in 1 .. Len(page.cells) :
                 IF i < at THEN page.cells[i].key <= key ELSE key < page.cells[i].key
<1>1. PICK cells \in Seq(LiveCells) : cells = page.cells
  OBVIOUS
<1>2. /\ cells \in Seq(CellSet) /\ Len(cells) \in Nat
      /\ \A m \in 1 .. Len(cells) : /\ cells[m].key \in Key /\ cells[m].key \in Nat
                                    /\ cells[m] # Tombstone
      /\ \A m, n \in 1 .. Len(cells) : m < n => cells[m].key < cells[n].key
  BY <1>1, LiveFacts
<1>3. key \in Nat
  BY KeyFacts
<1>4. PICK meets : meets = {k \in Key : k > key}
  OBVIOUS
<1>5. Upward(meets)
  BY <1>3, <1>4, KeyFacts DEF Upward
<1>6. PICK f : f = FirstSlotWhere(cells, meets)
  OBVIOUS
<1>7. FirstIs(cells, meets, f)
  BY <1>1, <1>2, <1>5, <1>6, FirstSlotRight
<1>8. at = IF f = 0 THEN Len(cells) + 1 ELSE f
  BY <1>1, <1>4, <1>6 DEF ChildAt, After
<1>9. \A i \in 1 .. Len(cells) : cells[i].key \in meets <=> key < cells[i].key
  BY <1>2, <1>3, <1>4
<1>10. CASE f = 0
  <2>1. NoneMeet(cells, meets, 1, Len(cells))
    BY <1>2, <1>7, <1>10 DEF FirstIs
  <2> QED
    BY <1>1, <1>2, <1>3, <1>8, <1>9, <1>10, <2>1 DEF NoneMeet
<1>11. CASE f # 0
  <2>1. /\ f \in 1 .. Len(cells) /\ key < cells[f].key
        /\ \A i \in 1 .. Len(cells) : i < f => ~(key < cells[i].key)
    BY <1>2, <1>7, <1>9, <1>11 DEF FirstIs, NoneMeet
  <2>2. ASSUME NEW i \in 1 .. Len(cells), ~(i < f) PROVE key < cells[i].key
    <3>1. i = f \/ cells[f].key < cells[i].key
      BY <1>2, <2>1, <2>2
    <3> QED
      BY <1>2, <1>3, <2>1, <3>1
  <2> QED
    BY <1>1, <1>2, <1>3, <1>8, <1>11, <2>1, <2>2
<1> QED
  BY <1>10, <1>11

LEMMA PlaceOf ==
    ASSUME NEW page, page.cells \in Seq(LiveCells), Ordered(page.cells),
           NEW key \in Nat, NEW span, key \in span
    PROVE  /\ ChildAt(page, key) \in 1 .. Len(page.cells) + 1
           /\ key \in Place(page.cells, span, ChildAt(page, key))
<1>1. PICK at : at = ChildAt(page, key)
  OBVIOUS
<1>2. /\ at \in 1 .. Len(page.cells) + 1
      /\ \A i \in 1 .. Len(page.cells) :
            IF i < at THEN page.cells[i].key <= key ELSE key < page.cells[i].key
  BY <1>1, ChildAtRight
<1>3. Len(page.cells) \in Nat /\ key \in Nat
      /\ \A i \in 1 .. Len(page.cells) : page.cells[i].key \in Nat
  BY LiveFacts, KeyFacts
<1>4. at > 1 => key >= page.cells[at - 1].key
  <2> SUFFICES ASSUME at > 1 PROVE key >= page.cells[at - 1].key
    OBVIOUS
  <2>1. at - 1 \in 1 .. Len(page.cells) /\ at - 1 < at
    BY <1>2, <1>3
  <2> QED
    BY <1>2, <1>3, <2>1
<1>5. at <= Len(page.cells) => key < page.cells[at].key
  BY <1>2, <1>3
<1> QED
  BY <1>1, <1>2, <1>4, <1>5 DEF Place

(* The children of a branch.                                               *)
Child(page, i) ==
    IF i <= Len(page.cells) THEN page.cells[i].child ELSE page.next

LEMMA ChildrenAre ==
    ASSUME NEW page, page.cells \in Seq(LiveCells), page.next \in PageId \cup {NoPage}
    PROVE  /\ Children(page) \in Seq(PageId \cup {NoPage})
           /\ Len(Children(page)) = Len(page.cells) + 1
           /\ \A i \in 1 .. Len(page.cells) + 1 : Children(page)[i] = Child(page, i)
<1>1. PICK s : s = [i \in DOMAIN page.cells |-> page.cells[i].child]
  OBVIOUS
<1>2. Len(page.cells) \in Nat /\ DOMAIN page.cells = 1 .. Len(page.cells)
  OBVIOUS
<1>3. \A i \in 1 .. Len(page.cells) : page.cells[i].child \in PageId \cup {NoPage}
  <2>1. \A i \in 1 .. Len(page.cells) : page.cells[i] \in LiveCells
    BY LiveFacts
  <2> QED
    BY <2>1 DEF LiveCells
<1>4. s \in [1 .. Len(page.cells) -> PageId \cup {NoPage}]
  BY <1>1, <1>2, <1>3
<1>5. s \in Seq(PageId \cup {NoPage}) /\ Len(s) = Len(page.cells)
  BY <1>2, <1>4
<1>6. PICK t : t = Append(s, page.next)
  OBVIOUS
<1>7. PICK P : P = PageId \cup {NoPage}
  OBVIOUS
<1>8. s \in Seq(P) /\ page.next \in P
  BY <1>5, <1>7
<1>9. /\ t \in Seq(P) /\ Len(t) = Len(s) + 1 /\ t[Len(s) + 1] = page.next
      /\ \A i \in 1 .. Len(s) : t[i] = s[i]
  BY <1>6, <1>8, Appended
<1>10. Children(page) = t
  BY <1>1, <1>6 DEF Children
<1>11. ASSUME NEW i \in 1 .. Len(page.cells) + 1 PROVE t[i] = Child(page, i)
  <2>1. CASE i \in 1 .. Len(page.cells)
    <3>1. s[i] = page.cells[i].child
      BY <1>1, <1>2, <2>1
    <3> QED
      BY <1>5, <1>9, <2>1, <3>1 DEF Child
  <2>2. CASE i = Len(page.cells) + 1
    BY <1>2, <1>5, <1>9, <2>2 DEF Child
  <2> QED
    BY <1>2, <2>1, <2>2
<1> QED
  BY <1>5, <1>7, <1>9, <1>10, <1>11

-----------------------------------------------------------------------------
(* A separator placed in a branch.                                         *)

(* `cells` with key `s` at place `at`, in front of what is routed there.   *)
Separated(cells, t, s, at) ==
    /\ t \in Seq(LiveCells) /\ Len(t) = Len(cells) + 1
    /\ t[at].key = s
    /\ \A i \in 1 .. at - 1 : t[i].key = cells[i].key
    /\ \A i \in at + 1 .. Len(cells) + 1 : t[i].key = cells[i - 1].key

(* The keys below one and those from it on.                                *)
Lower(span, s) == {k \in span : k < s}
Upper(span, s) == {k \in span : k >= s}

(* What it then routes where.                                              *)
PlacesSeparated(cells, span, t, s, at) ==
    /\ Ordered(t)
    /\ Place(t, span, at) = Lower(Place(cells, span, at), s)
    /\ Place(t, span, at + 1) = Upper(Place(cells, span, at), s)
    /\ \A i \in 1 .. at - 1 : Place(t, span, i) = Place(cells, span, i)
    /\ \A i \in at + 1 .. Len(cells) + 1 :
          Place(t, span, i + 1) = Place(cells, span, i)

LEMMA SeparatedPlaces ==
    ASSUME NEW cells \in Seq(LiveCells), Ordered(cells), NEW span, span \subseteq Nat,
           NEW at \in 1 .. Len(cells) + 1, NEW s \in Key,
           s \in Place(cells, span, at),
           NEW k0 \in Place(cells, span, at), k0 < s,
           NEW t, Separated(cells, t, s, at)
    PROVE  PlacesSeparated(cells, span, t, s, at)
<1>1. PICK n \in Nat : n = Len(cells)
  OBVIOUS
<1>2. /\ \A m \in 1 .. n : cells[m].key \in Nat
      /\ \A i, j \in 1 .. n : i < j => cells[i].key < cells[j].key
  BY <1>1, LiveFacts
<1>3. at \in 1 .. n + 1 /\ at \in Nat /\ s \in Nat /\ k0 \in Nat
  BY <1>1, KeyFacts DEF Place
<1>4. /\ t \in Seq(LiveCells) /\ Len(t) = n + 1 /\ t[at].key = s
      /\ \A i \in 1 .. at - 1 : t[i].key = cells[i].key
      /\ \A i \in at + 1 .. n + 1 : t[i].key = cells[i - 1].key
  BY <1>1 DEF Separated
<1>5. \A k \in Place(cells, span, at) : k \in Nat /\ k \in span
  BY DEF Place
<1>6. at > 1 => cells[at - 1].key < s
  <2> SUFFICES ASSUME at > 1 PROVE cells[at - 1].key < s
    OBVIOUS
  <2>1. cells[at - 1].key <= k0 /\ cells[at - 1].key \in Nat
    <3>1. at - 1 \in 1 .. n
      BY <1>3
    <3> QED
      BY <1>2, <1>3, <3>1 DEF Place
  <2> QED
    BY <1>3, <2>1
<1>7. at <= n => s < cells[at].key
  BY <1>1, <1>3 DEF Place
<1>8. ASSUME NEW i \in 1 .. n, i < at PROVE cells[i].key < s
  <2>1. at - 1 \in 1 .. n /\ (i = at - 1 \/ i < at - 1) /\ at > 1
    BY <1>3, <1>8
  <2>2. cells[i].key <= cells[at - 1].key
    BY <1>2, <2>1
  <2> QED
    BY <1>2, <1>3, <1>6, <2>1, <2>2
<1>9. ASSUME NEW i \in 1 .. n, at <= i PROVE s < cells[i].key
  <2>1. at \in 1 .. n /\ (i = at \/ at < i)
    BY <1>3, <1>9
  <2>2. cells[at].key <= cells[i].key
    BY <1>2, <2>1
  <2> QED
    BY <1>2, <1>3, <1>7, <2>1, <2>2
<1>10. Ordered(t)
  <2> SUFFICES ASSUME NEW i \in 1 .. n + 1, NEW j \in 1 .. n + 1, i < j
               PROVE  t[i].key < t[j].key
    BY <1>1, <1>4 DEF Ordered
  <2>1. CASE j < at
    <3>1. i \in 1 .. at - 1 /\ j \in 1 .. at - 1 /\ i \in 1 .. n /\ j \in 1 .. n
      BY <1>3, <2>1
    <3> QED
      BY <1>2, <1>4, <3>1
  <2>2. CASE j = at
    <3>1. i \in 1 .. at - 1 /\ i \in 1 .. n
      BY <1>3, <2>2
    <3> QED
      BY <1>4, <1>8, <2>2, <3>1
  <2>3. CASE j > at
    <3>1. j \in at + 1 .. n + 1 /\ j - 1 \in 1 .. n /\ at <= j - 1
      BY <1>3, <2>3
    <3>2. t[j].key = cells[j - 1].key
      BY <1>4, <3>1
    <3>3. CASE i < at
      <4>1. i \in 1 .. at - 1 /\ i \in 1 .. n
        BY <1>3, <3>3
      <4>2. t[i].key = cells[i].key /\ cells[i].key < s /\ s < cells[j - 1].key
        BY <1>4, <1>8, <1>9, <3>1, <3>3, <4>1
      <4> QED
        BY <1>2, <1>3, <3>1, <3>2, <4>1, <4>2
    <3>4. CASE i = at
      BY <1>4, <1>9, <3>1, <3>2, <3>4
    <3>5. CASE i > at
      <4>1. i \in at + 1 .. n + 1 /\ i - 1 \in 1 .. n /\ i - 1 < j - 1
        BY <1>3, <3>5
      <4> QED
        BY <1>2, <1>4, <3>1, <3>2, <4>1
    <3> QED
      BY <1>3, <3>3, <3>4, <3>5
  <2> QED
    BY <1>3, <2>1, <2>2, <2>3
<1>11. Place(t, span, at) = {k \in Place(cells, span, at) : k < s}
  <2>1. /\ at <= Len(t)
        /\ at > 1 => t[at - 1].key = cells[at - 1].key
    <3>1. at > 1 => at - 1 \in 1 .. at - 1
      BY <1>3
    <3> QED
      BY <1>3, <1>4, <3>1
  <2>2. ASSUME NEW k \in span, k < s PROVE at <= n => k < cells[at].key
    <3>1. k \in Nat
      OBVIOUS
    <3>2. at <= n => cells[at].key \in Nat
      BY <1>2, <1>3
    <3> QED
      BY <1>3, <1>7, <2>2, <3>1, <3>2
  <2> QED
    BY <1>1, <1>4, <2>1, <2>2 DEF Place
<1>12. Place(t, span, at + 1) = {k \in Place(cells, span, at) : k >= s}
  <2>1. /\ at + 1 > 1 /\ (at + 1) - 1 = at
        /\ at + 1 <= Len(t) <=> at <= n
        /\ at <= n => t[at + 1].key = cells[at].key
    <3>1. at <= n => at + 1 \in at + 1 .. n + 1 /\ (at + 1) - 1 = at
      BY <1>3
    <3> QED
      BY <1>3, <1>4, <3>1
  <2>2. ASSUME NEW k \in span, k >= s PROVE at > 1 => k >= cells[at - 1].key
    <3>1. k \in Nat
      OBVIOUS
    <3>2. at > 1 => cells[at - 1].key \in Nat
      BY <1>2, <1>3
    <3> QED
      BY <1>3, <1>6, <2>2, <3>1, <3>2
  <2> QED
    BY <1>1, <1>4, <2>1, <2>2 DEF Place
<1>13. ASSUME NEW i \in 1 .. at - 1 PROVE Place(t, span, i) = Place(cells, span, i)
  <2>1. i <= Len(t) /\ i <= n /\ t[i].key = cells[i].key
    BY <1>3, <1>4
  <2>2. i > 1 => t[i - 1].key = cells[i - 1].key
    <3>1. i > 1 => i - 1 \in 1 .. at - 1
      BY <1>3
    <3> QED
      BY <1>4, <3>1
  <2> QED
    BY <1>1, <2>1, <2>2 DEF Place
<1>14. ASSUME NEW i \in at + 1 .. Len(cells) + 1
       PROVE  Place(t, span, i + 1) = Place(cells, span, i)
  <2>1. /\ i + 1 > 1 /\ i > 1 /\ (i + 1) - 1 = i /\ i \in at + 1 .. n + 1
        /\ i + 1 <= Len(t) <=> i <= n
    BY <1>1, <1>3, <1>4
  <2>2. t[i].key = cells[i - 1].key
    BY <1>4, <2>1
  <2>3. i <= n => t[i + 1].key = cells[i].key
    <3>1. i <= n => i + 1 \in at + 1 .. n + 1
      BY <1>3, <2>1
    <3> QED
      BY <1>4, <2>1, <3>1
  <2> QED
    BY <1>1, <2>1, <2>2, <2>3 DEF Place
<1> QED
  BY <1>10, <1>11, <1>12, <1>13, <1>14 DEF PlacesSeparated, Lower, Upper

-----------------------------------------------------------------------------
(* A branch cut in two, its middle key taken out.                          *)

(* a and b are the cells below mid and above it.                           *)
Halved(cells, mid, a, b) ==
    /\ a \in Seq(LiveCells) /\ b \in Seq(LiveCells)
    /\ Len(a) = mid - 1 /\ Len(b) = Len(cells) - mid
    /\ \A i \in 1 .. mid - 1 : a[i] = cells[i]
    /\ \A i \in 1 .. Len(cells) - mid : b[i] = cells[mid + i]

(* What the halves route where.                                            *)
PlacesHalved(cells, span, mid, a, lo, b, hi) ==
    /\ Ordered(a) /\ Ordered(b)
    /\ \A i \in 1 .. mid : Place(a, lo, i) = Place(cells, span, i)
    /\ \A i \in 1 .. Len(cells) - mid + 1 :
          Place(b, hi, i) = Place(cells, span, mid + i)
    /\ \A i \in 1 .. mid - 1 : cells[i].key < cells[mid].key
    /\ \A i \in mid + 1 .. Len(cells) : cells[mid].key < cells[i].key

LEMMA HalvedPlaces ==
    ASSUME NEW cells \in Seq(LiveCells), Ordered(cells), NEW span, span \subseteq Nat,
           NEW mid \in 1 .. Len(cells), NEW a, NEW b, Halved(cells, mid, a, b),
           NEW lo, lo = Lower(span, cells[mid].key),
           NEW hi, hi = Upper(span, cells[mid].key)
    PROVE  PlacesHalved(cells, span, mid, a, lo, b, hi)
<1>0. lo = {k \in span : k < cells[mid].key} /\ hi = {k \in span : k >= cells[mid].key}
  BY DEF Lower, Upper
<1>1. PICK n \in Nat : n = Len(cells)
  OBVIOUS
<1>2. /\ \A m \in 1 .. n : cells[m].key \in Nat
      /\ \A i, j \in 1 .. n : i < j => cells[i].key < cells[j].key
  BY <1>1, LiveFacts
<1>3. mid \in 1 .. n /\ mid \in Nat /\ cells[mid].key \in Nat
  BY <1>1, <1>2
<1>4. /\ Len(a) = mid - 1 /\ Len(b) = n - mid
      /\ \A i \in 1 .. mid - 1 : a[i] = cells[i]
      /\ \A i \in 1 .. n - mid : b[i] = cells[mid + i]
  BY <1>1 DEF Halved
<1>5. Ordered(a)
  <2> SUFFICES ASSUME NEW i \in 1 .. mid - 1, NEW j \in 1 .. mid - 1, i < j
               PROVE  a[i].key < a[j].key
    BY <1>4 DEF Ordered
  <2>1. i \in 1 .. n /\ j \in 1 .. n
    BY <1>3
  <2> QED
    BY <1>2, <1>4, <2>1
<1>6. Ordered(b)
  <2> SUFFICES ASSUME NEW i \in 1 .. n - mid, NEW j \in 1 .. n - mid, i < j
               PROVE  b[i].key < b[j].key
    BY <1>4 DEF Ordered
  <2>1. mid + i \in 1 .. n /\ mid + j \in 1 .. n /\ mid + i < mid + j
    BY <1>3
  <2>2. cells[mid + i].key < cells[mid + j].key
    BY <1>2, <2>1
  <2> QED
    BY <1>4, <2>2
<1>7. \A i \in 1 .. mid - 1 : i \in 1 .. n /\ cells[i].key < cells[mid].key
  BY <1>2, <1>3
<1>8. \A i \in mid + 1 .. n : i \in 1 .. n /\ cells[mid].key < cells[i].key
  BY <1>2, <1>3
<1>9. ASSUME NEW i \in 1 .. mid PROVE Place(a, lo, i) = Place(cells, span, i)
  <2>1. i <= n /\ i \in 1 .. n
    BY <1>3
  <2>2. i > 1 => a[i - 1] = cells[i - 1]
    <3>1. i > 1 => i - 1 \in 1 .. mid - 1
      BY <1>3
    <3> QED
      BY <1>4, <3>1
  <2>3. CASE i = mid
    <3>1. ~(i <= Len(a))
      BY <1>3, <1>4, <2>3
    <3> QED
      BY <1>0, <1>1, <2>1, <2>2, <2>3, <3>1 DEF Place
  <2>4. CASE i # mid
    <3>1. i \in 1 .. mid - 1 /\ i <= Len(a)
      BY <1>3, <1>4, <2>4
    <3>2. a[i] = cells[i] /\ cells[i].key < cells[mid].key /\ cells[i].key \in Nat
      BY <1>2, <1>4, <1>7, <2>1, <3>1
    <3>3. \A k \in span : k < cells[i].key => k < cells[mid].key
      <4>1. PICK c, d \in Nat : c = cells[i].key /\ d = cells[mid].key /\ c < d
        BY <1>3, <3>2
      <4>2. \A k \in Nat : k < c => k < d
        BY <4>1
      <4> QED
        BY <4>1, <4>2
    <3> QED
      BY <1>0, <1>1, <2>1, <2>2, <3>1, <3>2, <3>3 DEF Place
  <2> QED
    BY <2>3, <2>4
<1>10. ASSUME NEW i \in 1 .. Len(cells) - mid + 1
       PROVE  Place(b, hi, i) = Place(cells, span, mid + i)
  <2>1. /\ i \in 1 .. n - mid + 1 /\ mid + i > 1 /\ (mid + i) - 1 \in mid .. n
        /\ i <= Len(b) <=> mid + i <= n
    BY <1>1, <1>3, <1>4
  <2>2. i <= Len(b) => b[i] = cells[mid + i]
    <3>1. i <= Len(b) => i \in 1 .. n - mid
      BY <1>3, <1>4, <2>1
    <3> QED
      BY <1>4, <3>1
  <2>3. CASE i = 1
    <3>1. (mid + i) - 1 = mid /\ ~(i > 1)
      BY <1>3, <2>3
    <3> QED
      BY <1>0, <1>1, <2>1, <2>2, <2>3, <3>1 DEF Place
  <2>4. CASE i # 1
    <3>1. /\ i > 1 /\ i - 1 \in 1 .. n - mid /\ mid + (i - 1) = (mid + i) - 1
          /\ (mid + i) - 1 \in mid + 1 .. n
      BY <1>3, <2>1, <2>4
    <3>2. PICK c \in Nat : c = cells[(mid + i) - 1].key
      BY <1>2, <1>8, <3>1
    <3>3. b[i - 1].key = c /\ cells[mid].key < c
      BY <1>4, <1>8, <3>1, <3>2
    <3>4. \A k \in span : k >= c => k >= cells[mid].key
      BY <1>3, <3>3
    <3> QED
      BY <1>0, <1>1, <2>1, <2>2, <3>1, <3>2, <3>3, <3>4 DEF Place
  <2> QED
    BY <2>3, <2>4
<1> QED
  BY <1>1, <1>5, <1>6, <1>7, <1>8, <1>9, <1>10 DEF PlacesHalved

-----------------------------------------------------------------------------
(* A tree of pages.  Each page in it has a level `lev`, 1 for a leaf, and  *)
(* the keys `span` that belong below it, numbers of which some may be no   *)
(* key.  A page outside of it has level 0.                                 *)

IsNode(page, kind) ==
    /\ page = Page(kind, page.cells, page.next)
    /\ page.cells \in Seq(CellSet) /\ page.next \in PageId \cup {NoPage}
    /\ Ordered(page.cells)
    /\ Taken(kind, page.cells) <= PageRoom

LeafSound(page, span) ==
    /\ IsNode(page, "leaf")
    /\ \A i \in 1 .. Len(page.cells) :
          page.cells[i] # Tombstone => page.cells[i].key \in span

(* What a child has, `out`, is what the branch routes there.               *)
BranchSound(page, span, l, out, lev) ==
    /\ IsNode(page, "branch")
    /\ page.cells \in Seq(LiveCells) /\ page.cells # <<>>
    /\ \A i \in 1 .. Len(page.cells) : page.cells[i].key \in span
    /\ \A i \in 1 .. Len(page.cells) + 1 :
          /\ Child(page, i) \in PageId
          /\ lev[Child(page, i)] >= 1 /\ lev[Child(page, i)] + 1 = l
          /\ out[Child(page, i)] = Place(page.cells, span, i)

NodeSound(page, span, l, out, lev) ==
    IF l = 1 THEN LeafSound(page, span) ELSE BranchSound(page, span, l, out, lev)

(* While page x has been split and its parent doesn't know of the new page *)
(* q, what x has for its parent is what both have.                         *)
Outer(span, x, q) ==
    [p \in PageId |-> IF p = x THEN span[x] \cup span[q] ELSE span[p]]

Apart(lev, span) ==
    \A p, o \in PageId : p # o /\ lev[p] = lev[o] /\ lev[p] >= 1
                            => span[p] \cap span[o] = {}

Tree(ps, lev, span, r, x, q) ==
    /\ ps = [p \in PageId |-> ps[p]]
    /\ lev \in [PageId -> Nat] /\ span \in [PageId -> SUBSET Nat]
    /\ r \in PageId /\ lev[r] >= 1
    /\ x \in PageId \cup {NoPage} /\ q \in PageId \cup {NoPage}
    /\ \A p \in PageId : lev[p] = 0 => ps[p] = Free
    /\ \A p \in PageId : lev[p] >= 1 => span[p] # {} /\ lev[p] <= lev[r]
    /\ \A p \in PageId : lev[p] >= 1 =>
          NodeSound(ps[p], span[p], lev[p], Outer(span, x, q), lev)
    /\ Apart(lev, span)
    /\ Outer(span, x, q)[r] = Nat

(* Page x split, with q to the right of it from key s on.                  *)
Parted(lev, span, x, q, s) ==
    /\ x \in PageId /\ q \in PageId /\ x # q /\ lev[x] = lev[q] /\ lev[x] >= 1
    /\ s \in Key /\ s \in span[q]
    /\ \A k \in span[x] : k < s
    /\ \A k \in span[q] : k >= s

LEMMA NoPageIs == NoPage \notin PageId
BY DEF NoPage, PageId

(* A page stays sound when its children stay what they are.                *)
LEMMA NodeMoved ==
    ASSUME NEW page, NEW sp, NEW l, NEW out, NEW lev,
           NodeSound(page, sp, l, out, lev), NEW out2, NEW lev2,
           \A i \in 1 .. Len(page.cells) + 1 :
              l # 1 => out2[Child(page, i)] = out[Child(page, i)]
                       /\ lev2[Child(page, i)] = lev[Child(page, i)]
    PROVE  NodeSound(page, sp, l, out2, lev2)
<1>1. CASE l = 1
  BY <1>1 DEF NodeSound
<1>2. CASE l # 1
  <2>1. BranchSound(page, sp, l, out, lev)
    BY <1>2 DEF NodeSound
  <2>2. \A i \in 1 .. Len(page.cells) + 1 :
           out2[Child(page, i)] = out[Child(page, i)]
           /\ lev2[Child(page, i)] = lev[Child(page, i)]
    BY <1>2
  <2>3. BranchSound(page, sp, l, out2, lev2)
    BY <2>1, <2>2 DEF BranchSound
  <2> QED
    BY <1>2, <2>3 DEF NodeSound
<1> QED
  BY <1>1, <1>2

(* The i-th child of a branch of a tree.                                   *)
LEMMA ChildIn ==
    ASSUME NEW ps, NEW lev, NEW span, NEW r, NEW x, NEW q,
           Tree(ps, lev, span, r, x, q),
           NEW p \in PageId, lev[p] > 1, NEW i \in 1 .. Len(ps[p].cells) + 1
    PROVE  /\ Child(ps[p], i) \in PageId /\ Child(ps[p], i) # p
           /\ lev[Child(ps[p], i)] >= 1 /\ lev[Child(ps[p], i)] + 1 = lev[p]
           /\ Outer(span, x, q)[Child(ps[p], i)] = Place(ps[p].cells, span[p], i)
           /\ span[Child(ps[p], i)] \subseteq Outer(span, x, q)[Child(ps[p], i)]
           /\ Child(ps[p], i) # r
           /\ IsNode(ps[p], "branch") /\ ps[p].cells \in Seq(LiveCells)
           /\ ps[p].cells # <<>>
<1>1. lev[p] \in Nat /\ lev[r] \in Nat /\ lev[p] <= lev[r] /\ lev[p] # 1
      /\ \A o \in PageId : lev[o] \in Nat
  BY DEF Tree
<1>2. BranchSound(ps[p], span[p], lev[p], Outer(span, x, q), lev)
  BY <1>1 DEF Tree, NodeSound
<1>3. PICK c : c = Child(ps[p], i)
  OBVIOUS
<1>4. /\ c \in PageId /\ lev[c] >= 1 /\ lev[c] + 1 = lev[p]
      /\ Outer(span, x, q)[c] = Place(ps[p].cells, span[p], i)
  BY <1>2, <1>3 DEF BranchSound
<1>5. c # p /\ c # r
  BY <1>1, <1>4
<1>6. span[c] \subseteq Outer(span, x, q)[c]
  BY <1>4 DEF Outer
<1> QED
  BY <1>2, <1>3, <1>4, <1>5, <1>6 DEF BranchSound

(* A page has one parent, in one place of it.                              *)
LEMMA OneParent ==
    ASSUME NEW ps, NEW lev, NEW span, NEW r, NEW x, NEW q,
           Tree(ps, lev, span, r, x, q),
           NEW p \in PageId, lev[p] > 1, NEW i \in 1 .. Len(ps[p].cells) + 1,
           NEW o \in PageId, lev[o] > 1, NEW j \in 1 .. Len(ps[o].cells) + 1,
           Child(ps[p], i) = Child(ps[o], j)
    PROVE  p = o /\ i = j
<1>0. Tree(ps, lev, span, r, x, q)
  OBVIOUS
<1>1. PICK c : c = Child(ps[p], i) /\ c = Child(ps[o], j)
  OBVIOUS
<1>2. /\ c \in PageId /\ lev[c] >= 1 /\ lev[c] + 1 = lev[p] /\ lev[c] + 1 = lev[o]
      /\ Outer(span, x, q)[c] = Place(ps[p].cells, span[p], i)
      /\ Outer(span, x, q)[c] = Place(ps[o].cells, span[o], j)
      /\ span[c] \subseteq Outer(span, x, q)[c]
      /\ ps[p].cells \in Seq(LiveCells)
      /\ IsNode(ps[p], "branch")
  <2>1. /\ c \in PageId /\ lev[c] >= 1 /\ lev[c] + 1 = lev[p]
        /\ Outer(span, x, q)[c] = Place(ps[p].cells, span[p], i)
    BY <1>0, <1>1, ChildIn
  <2>3. span[c] \subseteq Outer(span, x, q)[c]
    BY <2>1 DEF Outer
  <2>4. ps[p].cells \in Seq(LiveCells) /\ IsNode(ps[p], "branch")
    BY <1>0, <1>1, ChildIn
  <2>2. /\ lev[c] + 1 = lev[o]
        /\ Outer(span, x, q)[c] = Place(ps[o].cells, span[o], j)
    BY <1>0, <1>1, ChildIn
  <2> QED
    BY <2>1, <2>2, <2>3, <2>4
<1>3. PICK k : k \in span[c]
  BY <1>2 DEF Tree
<1>4. k \in Place(ps[p].cells, span[p], i) /\ k \in Place(ps[o].cells, span[o], j)
  BY <1>2, <1>3
<1>5. k \in span[p] /\ k \in span[o]
  BY <1>4 DEF Place
<1>6. p = o
  <2>1. lev[p] = lev[o] /\ lev[p] >= 1
    <3>1. lev[p] \in Nat /\ lev[o] \in Nat
      BY <1>0 DEF Tree
    <3> QED
      BY <1>2, <3>1
  <2> QED
    BY <1>5, <2>1 DEF Tree, Apart
<1>7. Ordered(ps[p].cells) /\ span[p] \subseteq Nat
  BY <1>2 DEF IsNode, Tree
<1>8. i = j
  BY <1>2, <1>4, <1>6, <1>7, PlacesApart
<1> QED
  BY <1>6, <1>8

(* Where page p may be replaced: no page is split, or p is its parent.     *)
Next2(ps, lev, p, x) ==
    \/ x = NoPage
    \/ lev[p] > 1 /\ \E i \in 1 .. Len(ps[p].cells) + 1 : Child(ps[p], i) = x

(* Other branches don't route to what p routed to.                         *)
LEMMA OthersKeep ==
    ASSUME NEW ps, NEW lev, NEW span, NEW r, NEW x, NEW q,
           Tree(ps, lev, span, r, x, q),
           NEW p \in PageId, lev[p] >= 1, Next2(ps, lev, p, x)
    PROVE  /\ x # p /\ x # r
           /\ \A o \in PageId : o # p /\ lev[o] >= 1 =>
                 NodeSound(ps[o], span[o], lev[o], span, lev)
           /\ span[r] = Nat
<1>1. /\ \A o \in PageId : lev[o] \in Nat
      /\ x \in PageId \cup {NoPage} /\ r \in PageId
      /\ span = [o \in PageId |-> span[o]]
  BY DEF Tree
<1>2. x # p /\ x # r
  <2>1. CASE x = NoPage
    BY <1>1, <2>1, NoPageIs
  <2>2. CASE x # NoPage
    <3>1. PICK i \in 1 .. Len(ps[p].cells) + 1 : Child(ps[p], i) = x
      BY <2>2 DEF Next2
    <3>2. lev[p] > 1
      BY <2>2 DEF Next2
    <3>3. /\ lev[p] \in Nat /\ lev[r] \in Nat /\ lev[p] <= lev[r] /\ lev[p] # 1
          /\ x \in PageId /\ lev[x] \in Nat
      BY <1>1, <2>2, <3>2 DEF Tree
    <3>4. BranchSound(ps[p], span[p], lev[p], Outer(span, x, q), lev)
      BY <3>3 DEF Tree, NodeSound
    <3>5. lev[x] + 1 = lev[p]
      BY <3>1, <3>4 DEF BranchSound
    <3> QED
      BY <3>3, <3>5
  <2> QED
    BY <2>1, <2>2
<1>3. \A c \in PageId : c # x => Outer(span, x, q)[c] = span[c]
  BY DEF Outer
<1>4. ASSUME NEW o \in PageId, o # p, lev[o] >= 1
      PROVE  NodeSound(ps[o], span[o], lev[o], span, lev)
  <2>1. NodeSound(ps[o], span[o], lev[o], Outer(span, x, q), lev)
    BY <1>4 DEF Tree
  <2>2. ASSUME NEW i \in 1 .. Len(ps[o].cells) + 1, lev[o] # 1
        PROVE  span[Child(ps[o], i)] = Outer(span, x, q)[Child(ps[o], i)]
    <3>1. lev[o] > 1
      BY <1>1, <1>4, <2>2
    <3>2. PICK c \in PageId : c = Child(ps[o], i)
      BY <3>1, ChildIn
    <3>3. c # x
      <4> SUFFICES ASSUME c = x PROVE FALSE
        OBVIOUS
      <4>1. x # NoPage
        BY <3>2, NoPageIs
      <4>2. lev[p] > 1 /\ \E j \in 1 .. Len(ps[p].cells) + 1 : Child(ps[p], j) = x
        BY <4>1 DEF Next2
      <4> QED
        BY <1>4, <3>1, <3>2, <4>2, OneParent
    <3> QED
      BY <1>3, <3>2, <3>3
  <2> QED
    BY <2>1, <2>2, NodeMoved
<1>5. span[r] = Nat
  BY <1>1, <1>2, <1>3 DEF Tree
<1> QED
  BY <1>2, <1>4, <1>5

PutAt(ps, ps2, p, page) == ps2 = [ps EXCEPT ![p] = page]

(* Page p replaced by another of the same keys.                            *)
LEMMA TreePut ==
    ASSUME NEW ps, NEW lev, NEW span, NEW r, NEW x, NEW q,
           Tree(ps, lev, span, r, x, q),
           NEW p \in PageId, lev[p] >= 1, Next2(ps, lev, p, x),
           NEW page, NodeSound(page, span[p], lev[p], span, lev),
           NEW ps2, PutAt(ps, ps2, p, page)
    PROVE  Tree(ps2, lev, span, r, NoPage, NoPage)
<1>1. /\ ps2 = [o \in PageId |-> ps2[o]] /\ ps2[p] = page
      /\ \A o \in PageId : o # p => ps2[o] = ps[o]
  BY DEF Tree, PutAt
<1>2. /\ x # p /\ x # r
      /\ \A o \in PageId : o # p /\ lev[o] >= 1 =>
            NodeSound(ps[o], span[o], lev[o], span, lev)
      /\ span[r] = Nat
  BY OthersKeep
<1>3. Outer(span, NoPage, NoPage) = span
  <2>1. span = [o \in PageId |-> span[o]]
    BY DEF Tree
  <2>2. \A o \in PageId : o # NoPage
    BY NoPageIs
  <2> QED
    BY <2>1, <2>2 DEF Outer
<1>4. \A o \in PageId : lev[o] >= 1 => NodeSound(ps2[o], span[o], lev[o], span, lev)
  BY <1>1, <1>2
<1>5. \A o \in PageId : lev[o] = 0 => ps2[o] = Free
  <2>1. lev[p] # 0
    BY DEF Tree
  <2> QED
    BY <1>1, <2>1 DEF Tree
<1> QED
  BY <1>1, <1>2, <1>3, <1>4, <1>5 DEF Tree

LEMMA FreeOutside ==
    ASSUME NEW ps, NEW lev, NEW span, NEW r, NEW x, NEW q,
           Tree(ps, lev, span, r, x, q), NEW p \in PageId
    PROVE  lev[p] \in Nat /\ (ps[p] = Free <=> lev[p] = 0)
<1>1. lev[p] \in Nat
  BY DEF Tree
<1>2. ASSUME lev[p] >= 1 PROVE ps[p] # Free
  <2>1. IsNode(ps[p], "leaf") \/ IsNode(ps[p], "branch")
    BY <1>2 DEF Tree, NodeSound, LeafSound, BranchSound
  <2>2. ps[p].kind \in {"leaf", "branch"}
    BY <2>1 DEF IsNode, Page
  <2>3. Free.kind = "free"
    BY DEF Free, Page
  <2> QED
    BY <2>2, <2>3
<1> QED
  BY <1>1, <1>2 DEF Tree

(* The same when only pages outside of the tree change.                    *)
LEMMA NodeStays ==
    ASSUME NEW page, NEW sp, NEW l, NEW out, NEW lev,
           NodeSound(page, sp, l, out, lev), NEW out2, NEW lev2,
           \A c \in PageId : lev[c] >= 1 /\ lev[c] + 1 = l =>
              out2[c] = out[c] /\ lev2[c] = lev[c]
    PROVE  NodeSound(page, sp, l, out2, lev2)
<1>1. \A i \in 1 .. Len(page.cells) + 1 :
         l # 1 => out2[Child(page, i)] = out[Child(page, i)]
                  /\ lev2[Child(page, i)] = lev[Child(page, i)]
  <2> SUFFICES ASSUME NEW i \in 1 .. Len(page.cells) + 1, l # 1
               PROVE  out2[Child(page, i)] = out[Child(page, i)]
                      /\ lev2[Child(page, i)] = lev[Child(page, i)]
    OBVIOUS
  <2>1. BranchSound(page, sp, l, out, lev)
    BY DEF NodeSound
  <2>2. Child(page, i) \in PageId /\ lev[Child(page, i)] >= 1
        /\ lev[Child(page, i)] + 1 = l
    BY <2>1 DEF BranchSound
  <2> QED
    BY <2>2
<1> QED
  BY <1>1, NodeMoved

SplitAt(ps, ps2, p, left, q, right) == ps2 = [ps EXCEPT ![p] = left, ![q] = right]

(* What becomes of levels and keys when page p hands those from s on to q. *)
LevSplit(lev, p, q) == [lev EXCEPT ![q] = lev[p]]
SpanSplit(span, p, q, s) ==
    [span EXCEPT ![p] = {k \in span[p] : k < s}, ![q] = {k \in span[p] : k >= s}]

LEMMA TreeSplit ==
    ASSUME NEW ps, NEW lev, NEW span, NEW r, NEW x, NEW q,
           Tree(ps, lev, span, r, x, q),
           NEW p \in PageId, lev[p] >= 1, Next2(ps, lev, p, x),
           NEW q2 \in PageId, ps[q2] = Free,
           NEW s \in Key, s \in span[p],
           NEW lo, lo = {k \in span[p] : k < s}, lo # {},
           NEW hi, hi = {k \in span[p] : k >= s},
           NEW left, NodeSound(left, lo, lev[p], span, lev),
           NEW right, NodeSound(right, hi, lev[p], span, lev),
           NEW ps2, SplitAt(ps, ps2, p, left, q2, right)
    PROVE  /\ Tree(ps2, LevSplit(lev, p, q2), SpanSplit(span, p, q2, s), r, p, q2)
           /\ Parted(LevSplit(lev, p, q2), SpanSplit(span, p, q2, s), p, q2, s)
<1>1. /\ lev[q2] = 0 /\ q2 # p /\ p # NoPage
      /\ \A o \in PageId : lev[o] \in Nat
      /\ span[p] \subseteq Nat /\ s \in Nat
  <2>1. lev[q2] = 0
    BY FreeOutside
  <2>2. span[p] \subseteq Nat /\ \A o \in PageId : lev[o] \in Nat
    BY DEF Tree
  <2> QED
    BY <2>1, <2>2, NoPageIs, KeyFacts
<1>2. PICK lev2, span2 : lev2 = LevSplit(lev, p, q2)
                         /\ span2 = SpanSplit(span, p, q2, s)
  OBVIOUS
<1>3. /\ lev2 \in [PageId -> Nat] /\ lev2[q2] = lev[p]
      /\ \A o \in PageId : o # q2 => lev2[o] = lev[o]
  <2>1. lev \in [PageId -> Nat]
    BY DEF Tree
  <2> QED
    BY <1>2, <2>1 DEF LevSplit
<1>4. lo \cup hi = span[p] /\ lo \cap hi = {} /\ s \in hi
      /\ (\A k \in lo : k < s) /\ \A k \in hi : k >= s
  <2>1. \A k \in span[p] : k \in Nat
    BY <1>1
  <2>2. \A k \in span[p] : ~(k < s /\ k >= s) /\ (k < s \/ k >= s)
    BY <1>1, <2>1
  <2>3. s >= s
    BY <1>1
  <2> QED
    BY <2>2, <2>3
<1>5. /\ span2 \in [PageId -> SUBSET Nat] /\ span2[p] = lo /\ span2[q2] = hi
      /\ \A o \in PageId : o # p /\ o # q2 => span2[o] = span[o]
  <2>1. span \in [PageId -> SUBSET Nat] /\ lo \in SUBSET Nat /\ hi \in SUBSET Nat
    BY <1>1 DEF Tree
  <2>2. span2 = [span EXCEPT ![p] = lo, ![q2] = hi]
    BY <1>2 DEF SpanSplit
  <2> QED
    BY <1>1, <2>1, <2>2
<1>6. /\ ps2 = [o \in PageId |-> ps2[o]] /\ ps2[p] = left /\ ps2[q2] = right
      /\ \A o \in PageId : o # p /\ o # q2 => ps2[o] = ps[o]
  <2>1. ps = [o \in PageId |-> ps[o]]
    BY DEF Tree
  <2> QED
    BY <1>1, <2>1 DEF SplitAt
<1>7. /\ \A o \in PageId : o # p /\ lev[o] >= 1 =>
            NodeSound(ps[o], span[o], lev[o], span, lev)
      /\ span[r] = Nat
  BY OthersKeep
<1>8. PICK out : out = Outer(span2, p, q2)
  OBVIOUS
<1>9. \A c \in PageId : c # q2 => out[c] = span[c] /\ lev2[c] = lev[c]
  <2>1. out[p] = span[p]
    BY <1>4, <1>5, <1>8 DEF Outer
  <2>2. \A c \in PageId : c # q2 /\ c # p => out[c] = span[c]
    BY <1>5, <1>8 DEF Outer
  <2> QED
    BY <1>3, <2>1, <2>2
<1>10. \A c \in PageId : lev[c] >= 1 => c # q2
  BY <1>1
<1>11. ASSUME NEW page, NEW sp, NEW l, NodeSound(page, sp, l, span, lev)
       PROVE  NodeSound(page, sp, l, out, lev2)
  <2>1. \A c \in PageId : lev[c] >= 1 /\ lev[c] + 1 = l =>
           out[c] = span[c] /\ lev2[c] = lev[c]
    BY <1>9, <1>10
  <2> QED
    BY <1>11, <2>1, NodeStays
<1>12. ASSUME NEW o \in PageId, lev2[o] >= 1
       PROVE  NodeSound(ps2[o], span2[o], lev2[o], out, lev2)
  <2>1. CASE o = p
    BY <1>1, <1>3, <1>5, <1>6, <1>11, <2>1
  <2>2. CASE o = q2
    BY <1>3, <1>5, <1>6, <1>11, <2>2
  <2>3. CASE o # p /\ o # q2
    BY <1>3, <1>5, <1>6, <1>7, <1>11, <1>12, <2>3
  <2> QED
    BY <2>1, <2>2, <2>3
<1>13. \A o \in PageId : lev2[o] = 0 => ps2[o] = Free
  <2>1. \A o \in PageId : lev[o] = 0 => ps[o] = Free
    BY DEF Tree
  <2>2. lev[p] # 0
    BY <1>1
  <2> QED
    BY <1>3, <1>6, <2>1, <2>2
<1>14. \A o \in PageId : lev2[o] >= 1 => span2[o] # {} /\ lev2[o] <= lev2[r]
  <2>1. \A o \in PageId : lev[o] >= 1 => span[o] # {} /\ lev[o] <= lev[r]
    BY DEF Tree
  <2>2. r # q2 /\ r \in PageId
    BY <1>1 DEF Tree
  <2> QED
    BY <1>3, <1>4, <1>5, <2>1, <2>2
<1>15. Apart(lev2, span2)
  <2> SUFFICES ASSUME NEW a \in PageId, NEW b \in PageId, a # b,
                      lev2[a] = lev2[b], lev2[a] >= 1
               PROVE  span2[a] \cap span2[b] = {}
    BY DEF Apart
  <2>1. \A d, e \in PageId : d # e /\ lev[d] = lev[e] /\ lev[d] >= 1
                                => span[d] \cap span[e] = {}
    BY DEF Tree, Apart
  <2>2. CASE a # q2 /\ b # q2
    <3>1. span[a] \cap span[b] = {}
      BY <1>3, <2>1, <2>2
    <3>2. span2[a] \subseteq span[a] /\ span2[b] \subseteq span[b]
      BY <1>4, <1>5, <2>2
    <3> QED
      BY <3>1, <3>2
  <2>3. CASE a = q2
    <3>1. CASE b = p
      BY <1>4, <1>5, <2>3, <3>1
    <3>2. CASE b # p
      <4>1. span[p] \cap span[b] = {}
        BY <1>3, <2>1, <2>3, <3>2
      <4> QED
        BY <1>4, <1>5, <2>3, <3>2, <4>1
    <3> QED
      BY <3>1, <3>2
  <2>4. CASE b = q2
    <3>1. CASE a = p
      BY <1>4, <1>5, <2>4, <3>1
    <3>2. CASE a # p
      <4>1. span[a] \cap span[p] = {}
        BY <1>3, <2>1, <2>4, <3>2
      <4> QED
        BY <1>4, <1>5, <2>4, <3>2, <4>1
    <3> QED
      BY <3>1, <3>2
  <2> QED
    BY <2>2, <2>3, <2>4
<1>16. r \in PageId /\ lev2[r] >= 1 /\ out[r] = Nat
  <2>1. r \in PageId /\ lev[r] >= 1
    BY DEF Tree
  <2>2. r # q2
    BY <1>1, <2>1
  <2> QED
    BY <1>3, <1>7, <1>9, <2>1, <2>2
<1>17. Tree(ps2, lev2, span2, r, p, q2)
  BY <1>3, <1>5, <1>6, <1>8, <1>12, <1>13, <1>14, <1>15, <1>16 DEF Tree
<1>18. Parted(lev2, span2, p, q2, s)
  BY <1>1, <1>3, <1>4, <1>5 DEF Parted
<1> QED
  BY <1>2, <1>17, <1>18

GrownAt(ps, ps2, r, left, s, q) ==
    ps2 = [ps EXCEPT ![left] = ps[r], ![r] = Page("branch", <<Cell(s, left)>>, q)]
LevGrown(lev, r, left) == [lev EXCEPT ![left] = lev[r], ![r] = lev[r] + 1]
SpanGrown(span, r, left) == [span EXCEPT ![left] = span[r], ![r] = Nat]

(* A branch of one separator.                                              *)
LEMMA OneSeparator ==
    ASSUME len \in Lengths, NEW s \in Key, NEW left \in PageId, NEW q \in PageId,
           NEW page, page = Page("branch", <<Cell(s, left)>>, q)
    PROVE  /\ IsNode(page, "branch") /\ page.cells \in Seq(LiveCells)
           /\ page.cells # <<>> /\ Len(page.cells) = 1 /\ page.cells[1].key = s
           /\ Child(page, 1) = left /\ Child(page, 2) = q
<1>1. PICK c : c = Cell(s, left)
  OBVIOUS
<1>2. c \in LiveCells /\ c.key = s /\ c.child = left
  BY <1>1 DEF LiveCells, Cell
<1>3. page.cells = <<c>> /\ page.next = q /\ page.kind = "branch"
      /\ page = Page("branch", page.cells, page.next)
  BY <1>1 DEF Page
<1>4. <<c>> \in Seq(LiveCells) /\ Len(<<c>>) = 1 /\ <<c>>[1] = c /\ <<c>> # <<>>
  BY <1>2
<1>5. <<c>> \in Seq(CellSet) /\ Taken("branch", <<c>>) <= PageRoom
  BY <1>2, TakenOne
<1>6. Ordered(<<c>>)
  BY <1>4 DEF Ordered
<1>7. IsNode(page, "branch")
  BY <1>3, <1>5, <1>6 DEF IsNode
<1>8. Len(page.cells) = 1 /\ page.cells[1] = c
  BY <1>3, <1>4
<1>9. Child(page, 1) = left /\ Child(page, 2) = q
  BY <1>2, <1>3, <1>8 DEF Child
<1> QED
  BY <1>2, <1>3, <1>4, <1>7, <1>8, <1>9

LEMMA TreeGrown ==
    ASSUME len \in Lengths, NEW ps, NEW lev, NEW span, NEW r, NEW q, NEW s,
           Tree(ps, lev, span, r, r, q), Parted(lev, span, r, q, s),
           NEW left \in PageId, ps[left] = Free,
           NEW ps2, GrownAt(ps, ps2, r, left, s, q)
    PROVE  Tree(ps2, LevGrown(lev, r, left), SpanGrown(span, r, left), r,
                NoPage, NoPage)
<1>1. /\ r \in PageId /\ q \in PageId /\ r # q /\ lev[r] = lev[q] /\ lev[r] >= 1
      /\ lev[left] = 0 /\ lev \in [PageId -> Nat] /\ span \in [PageId -> SUBSET Nat]
      /\ s \in Key /\ s \in Nat
      /\ \A o \in PageId : lev[o] \in Nat /\ (lev[o] >= 1 => lev[o] <= lev[r])
  <2>1. lev[left] = 0
    BY FreeOutside
  <2> QED
    BY <2>1, KeyFacts DEF Tree, Parted
<1>2. left # r /\ left # q
  BY <1>1
<1>3. PICK lev2, span2, page : /\ lev2 = LevGrown(lev, r, left)
                               /\ span2 = SpanGrown(span, r, left)
                               /\ page = Page("branch", <<Cell(s, left)>>, q)
  OBVIOUS
<1>4. /\ lev2 \in [PageId -> Nat] /\ lev2[left] = lev[r] /\ lev2[r] = lev[r] + 1
      /\ \A o \in PageId : o # r /\ o # left => lev2[o] = lev[o]
  BY <1>1, <1>2, <1>3 DEF LevGrown
<1>5. /\ span2 \in [PageId -> SUBSET Nat] /\ span2[left] = span[r] /\ span2[r] = Nat
      /\ \A o \in PageId : o # r /\ o # left => span2[o] = span[o]
  BY <1>1, <1>2, <1>3 DEF SpanGrown
<1>6. /\ ps2 = [o \in PageId |-> ps2[o]] /\ ps2[left] = ps[r] /\ ps2[r] = page
      /\ \A o \in PageId : o # r /\ o # left => ps2[o] = ps[o]
  <2>1. ps = [o \in PageId |-> ps[o]]
    BY DEF Tree
  <2> QED
    BY <1>1, <1>2, <1>3, <2>1 DEF GrownAt
<1>7. PICK out : out = Outer(span, r, q)
  OBVIOUS
<1>8. out[r] = Nat /\ out[r] = span[r] \cup span[q]
      /\ \A c \in PageId : c # r => out[c] = span[c]
  BY <1>1, <1>7 DEF Tree, Outer
<1>9. ASSUME NEW o \in PageId, lev[o] >= 1
      PROVE  NodeSound(ps[o], span[o], lev[o], span2, lev2)
  <2>1. NodeSound(ps[o], span[o], lev[o], out, lev)
    BY <1>7, <1>9 DEF Tree
  <2>2. ASSUME NEW c \in PageId, lev[c] >= 1, lev[c] + 1 = lev[o]
        PROVE  span2[c] = out[c] /\ lev2[c] = lev[c]
    <3>1. c # r /\ c # left
      BY <1>1, <1>9, <2>2
    <3> QED
      BY <1>4, <1>5, <1>8, <3>1
  <2> QED
    BY <2>1, <2>2, NodeStays
<1>10. span[r] = {k \in Nat : k < s} /\ span[q] = {k \in Nat : k >= s}
  <2>1. (\A k \in span[r] : k < s) /\ (\A k \in span[q] : k >= s)
        /\ span[r] \cup span[q] = Nat
    BY <1>8 DEF Parted
  <2>2. \A k \in Nat : ~(k < s /\ k >= s)
    BY <1>1
  <2> QED
    BY <2>1, <2>2
<1>11. NodeSound(page, Nat, lev[r] + 1, span2, lev2)
  <2>1. /\ IsNode(page, "branch") /\ page.cells \in Seq(LiveCells)
        /\ page.cells # <<>> /\ Len(page.cells) = 1 /\ page.cells[1].key = s
        /\ Child(page, 1) = left /\ Child(page, 2) = q
    BY <1>1, <1>3, OneSeparator
  <2>2. Place(page.cells, Nat, 1) = span[r] /\ Place(page.cells, Nat, 2) = span[q]
    BY <1>10, <2>1 DEF Place
  <2>3. span2[left] = span[r] /\ span2[q] = span[q]
        /\ lev2[left] = lev[r] /\ lev2[q] = lev[r]
    BY <1>1, <1>2, <1>4, <1>5
  <2>4. \A i \in 1 .. Len(page.cells) + 1 : i = 1 \/ i = 2
    BY <2>1
  <2>5. BranchSound(page, Nat, lev[r] + 1, span2, lev2)
    BY <1>1, <2>1, <2>2, <2>3, <2>4 DEF BranchSound
  <2>6. lev[r] + 1 # 1
    BY <1>1
  <2> QED
    BY <2>5, <2>6 DEF NodeSound
<1>12. ASSUME NEW o \in PageId, lev2[o] >= 1
       PROVE  NodeSound(ps2[o], span2[o], lev2[o], span2, lev2)
  <2>1. CASE o = r
    BY <1>4, <1>5, <1>6, <1>11, <2>1
  <2>2. CASE o = left
    BY <1>1, <1>4, <1>5, <1>6, <1>9, <2>2
  <2>3. CASE o # r /\ o # left
    BY <1>4, <1>5, <1>6, <1>9, <1>12, <2>3
  <2> QED
    BY <2>1, <2>2, <2>3
<1>13. Outer(span2, NoPage, NoPage) = span2
  <2>1. span2 = [o \in PageId |-> span2[o]]
    BY <1>5
  <2>2. \A o \in PageId : o # NoPage
    BY NoPageIs
  <2> QED
    BY <2>1, <2>2 DEF Outer
<1>14. \A o \in PageId : lev2[o] = 0 => ps2[o] = Free
  <2>1. \A o \in PageId : lev[o] = 0 => ps[o] = Free
    BY DEF Tree
  <2>2. lev2[r] # 0 /\ lev2[left] # 0
    BY <1>1, <1>4
  <2> QED
    BY <1>4, <1>6, <2>1, <2>2
<1>15. \A o \in PageId : lev2[o] >= 1 => span2[o] # {} /\ lev2[o] <= lev2[r]
  <2>1. \A o \in PageId : lev[o] >= 1 => span[o] # {}
    BY DEF Tree
  <2>2. 0 \in Nat
    OBVIOUS
  <2>3. ASSUME NEW o \in PageId, lev2[o] >= 1
        PROVE  span2[o] # {} /\ lev2[o] <= lev2[r]
    <3>1. CASE o = r
      BY <1>1, <1>4, <1>5, <2>2, <3>1
    <3>2. CASE o = left
      BY <1>1, <1>4, <1>5, <2>1, <3>2
    <3>3. CASE o # r /\ o # left
      <4>1. lev2[o] = lev[o] /\ span2[o] = span[o] /\ lev[o] \in Nat
        BY <1>1, <1>4, <1>5, <3>3
      <4>2. lev[o] <= lev[r] /\ span[o] # {}
        BY <1>1, <2>1, <2>3, <4>1
      <4> QED
        BY <1>1, <1>4, <4>1, <4>2
    <3> QED
      BY <3>1, <3>2, <3>3
  <2> QED
    BY <2>3
<1>16. Apart(lev2, span2)
  <2> SUFFICES ASSUME NEW a \in PageId, NEW b \in PageId, a # b,
                      lev2[a] = lev2[b], lev2[a] >= 1
               PROVE  span2[a] \cap span2[b] = {}
    BY DEF Apart
  <2>1. \A d, e \in PageId : d # e /\ lev[d] = lev[e] /\ lev[d] >= 1
                                => span[d] \cap span[e] = {}
    BY DEF Tree, Apart
  <2>2. \A o \in PageId : o # r => lev2[o] < lev2[r]
    <3>1. \A o \in PageId : lev[o] <= lev[r]
      BY <1>1
    <3> QED
      BY <1>1, <1>4, <3>1
  <2>3. a # r /\ b # r
    <3>1. lev2[a] \in Nat /\ lev2[b] \in Nat /\ lev2[r] \in Nat
      BY <1>1, <1>4
    <3> QED
      BY <2>2, <3>1
  <2>4. CASE a = left
    <3>1. span[r] \cap span[b] = {}
      BY <1>1, <1>4, <2>1, <2>3, <2>4
    <3> QED
      BY <1>5, <2>3, <2>4, <3>1
  <2>5. CASE b = left
    <3>1. span[a] \cap span[r] = {}
      BY <1>1, <1>4, <2>1, <2>3, <2>5
    <3> QED
      BY <1>5, <2>3, <2>5, <3>1
  <2>6. CASE a # left /\ b # left
    BY <1>4, <1>5, <2>1, <2>3, <2>6
  <2> QED
    BY <2>4, <2>5, <2>6
<1>17. lev2[r] >= 1 /\ span2[r] = Nat
  BY <1>1, <1>4, <1>5
<1>18. Tree(ps2, lev2, span2, r, NoPage, NoPage)
  BY <1>1, <1>4, <1>5, <1>6, <1>12, <1>13, <1>14, <1>15, <1>16, <1>17 DEF Tree
<1> QED
  BY <1>3, <1>18

-----------------------------------------------------------------------------
(* The way down.                                                           *)

Closed(ps, lev, span, r) == Tree(ps, lev, span, r, NoPage, NoPage)

LEMMA OuterNone ==
    ASSUME NEW span, span \in [PageId -> SUBSET Nat]
    PROVE  Outer(span, NoPage, NoPage) = span
<1>1. span = [o \in PageId |-> span[o]]
  OBVIOUS
<1>2. \A o \in PageId : o # NoPage
  BY NoPageIs
<1> QED
  BY <1>1, <1>2 DEF Outer

(* The child that has the key.                                             *)
LEMMA FoundChild ==
    ASSUME NEW ps, NEW lev, NEW span, NEW r, Closed(ps, lev, span, r),
           NEW p \in PageId, lev[p] > 1, NEW key \in Nat, key \in span[p],
           NEW c, c = FindChild(ps[p], key)
    PROVE  /\ ChildAt(ps[p], key) \in 1 .. Len(ps[p].cells) + 1
           /\ c = Child(ps[p], ChildAt(ps[p], key))
           /\ c \in PageId /\ lev[c] >= 1 /\ lev[c] + 1 = lev[p] /\ key \in span[c]
           /\ span[c] = Place(ps[p].cells, span[p], ChildAt(ps[p], key))
<1>1. Tree(ps, lev, span, r, NoPage, NoPage)
  BY DEF Closed
<1>2. Outer(span, NoPage, NoPage) = span
  BY <1>1, OuterNone DEF Tree
<1>3. lev[p] \in Nat /\ lev[p] # 1
  BY <1>1 DEF Tree
<1>4. BranchSound(ps[p], span[p], lev[p], span, lev)
  BY <1>1, <1>2, <1>3 DEF Tree, NodeSound
<1>5. PICK page : page = ps[p]
  OBVIOUS
<1>6. page.cells \in Seq(LiveCells) /\ Ordered(page.cells)
      /\ page.next \in PageId \cup {NoPage}
  BY <1>4, <1>5 DEF BranchSound, IsNode
<1>7. PICK at : at = ChildAt(page, key)
  OBVIOUS
<1>8. at \in 1 .. Len(page.cells) + 1 /\ key \in Place(page.cells, span[p], at)
  BY <1>6, <1>7, PlaceOf
<1>9. c = Child(page, at)
  BY <1>5, <1>6, <1>7, <1>8, ChildrenAre DEF FindChild
<1>10. /\ c \in PageId /\ lev[c] >= 1 /\ lev[c] + 1 = lev[p]
       /\ span[c] = Place(page.cells, span[p], at)
  BY <1>4, <1>5, <1>8, <1>9 DEF BranchSound
<1> QED
  BY <1>5, <1>7, <1>8, <1>9, <1>10

(* The path from the root towards `key`.                                   *)
Way(ps, lev, span, r, key, path) ==
    /\ path \in Seq(PageId) /\ Len(path) >= 1 /\ path[1] = r
    /\ Len(path) <= lev[r]
    /\ \A j \in 1 .. Len(path) : lev[path[j]] + j = lev[r] + 1
                                 /\ key \in span[path[j]]
    /\ \A j \in 1 .. Len(path) - 1 : path[j + 1] = FindChild(ps[path[j]], key)

LEMMA PathRight ==
    ASSUME NEW ps, NEW lev, NEW span, NEW r, Closed(ps, lev, span, r),
           lev[r] <= MaxDepth + 1, NEW key \in Nat,
           NEW path, path = PathTo(ps, r, key)
    PROVE  Way(ps, lev, span, r, key, path) /\ Len(path) = lev[r]
<1>1. MaxDepth \in Nat
  BY BTreeAssumption
<1>2. PICK h : /\ PathTo(ps, r, key) = h[MaxDepth] /\ h[0] = <<r>>
               /\ \A i \in 1 .. MaxDepth : h[i] = PathOn(ps, key, h[i - 1])
  BY <1>1, PathSteps
<1>3. /\ Tree(ps, lev, span, r, NoPage, NoPage)
      /\ \A p \in PageId : lev[p] \in Nat
      /\ r \in PageId /\ lev[r] >= 1 /\ lev[r] \in Nat
  BY DEF Closed, Tree
<1>4. span[r] = Nat /\ key \in Nat
  BY <1>3, OuterNone, KeyFacts DEF Tree
<1> DEFINE Q(k) == /\ Way(ps, lev, span, r, key, h[k])
                   /\ Len(h[k]) = k + 1 \/ Len(h[k]) = lev[r]
           T == {k \in Nat : k <= MaxDepth => Q(k)}
<1>5. 0 \in T
  <2>1. <<r>> \in Seq(PageId) /\ Len(<<r>>) = 1 /\ <<r>>[1] = r
    BY <1>3
  <2>2. Way(ps, lev, span, r, key, <<r>>)
    BY <1>3, <1>4, <2>1 DEF Way
  <2> QED
    BY <1>2, <2>1, <2>2
<1>6. ASSUME NEW k \in Nat, k \in T PROVE k + 1 \in T
  <2> SUFFICES ASSUME k + 1 <= MaxDepth PROVE Q(k + 1)
    OBVIOUS
  <2>1. k <= MaxDepth /\ k + 1 \in 1 .. MaxDepth /\ (k + 1) - 1 = k
    BY <1>1
  <2>2. Q(k)
    BY <1>6, <2>1
  <2>3. h[k + 1] = PathOn(ps, key, h[k])
    BY <1>2, <2>1
  <2>4. PICK w, u : w = h[k] /\ u = h[k + 1]
    OBVIOUS
  <2>5. Way(ps, lev, span, r, key, w) /\ (Len(w) = k + 1 \/ Len(w) = lev[r])
    BY <2>2, <2>4
  <2>6. PICK n \in Nat : n = Len(w) /\ n >= 1 /\ n <= lev[r] /\ w \in Seq(PageId)
    BY <2>5 DEF Way
  <2>7. PICK p \in PageId : p = w[n]
    BY <2>6
  <2>8. Last(w) = p
    BY <2>6, <2>7 DEF Last
  <2>9. lev[p] + n = lev[r] + 1 /\ key \in span[p] /\ lev[p] \in Nat
    BY <1>3, <2>5, <2>6, <2>7 DEF Way
  <2>10. CASE lev[p] = 1
    <3>1. IsNode(ps[p], "leaf")
      BY <1>3, <2>10 DEF Tree, NodeSound, LeafSound
    <3>2. ps[p].kind = "leaf"
      BY <3>1 DEF IsNode, Page
    <3>3. u = w
      BY <2>3, <2>4, <2>8, <3>2 DEF PathOn
    <3>4. Len(w) = lev[r]
      BY <1>3, <2>6, <2>9, <2>10
    <3> QED
      BY <2>4, <2>5, <3>3, <3>4
  <2>11. CASE lev[p] # 1
    <3>1. lev[p] > 1
      BY <1>3, <2>6, <2>9, <2>11
    <3>2. PICK c : c = FindChild(ps[p], key)
      OBVIOUS
    <3>3. c \in PageId /\ lev[c] >= 1 /\ lev[c] + 1 = lev[p] /\ key \in span[c]
      BY <2>9, <3>1, <3>2, FoundChild
    <3>4. IsNode(ps[p], "branch")
      BY <1>3, <2>9, <2>11, <3>1 DEF Tree, NodeSound, BranchSound
    <3>5. ps[p].kind # "leaf"
      BY <3>4 DEF IsNode, Page
    <3>6. u = Append(w, c)
      BY <2>3, <2>4, <2>8, <3>2, <3>5 DEF PathOn
    <3>7. /\ u \in Seq(PageId) /\ Len(u) = n + 1 /\ u[n + 1] = c
          /\ \A i \in 1 .. n : u[i] = w[i]
      BY <2>6, <3>3, <3>6
    <3>8. lev[c] + (n + 1) = lev[r] + 1 /\ lev[c] \in Nat /\ n + 1 <= lev[r]
      <4>1. PICK a, b, l \in Nat : a = lev[c] /\ b = lev[p] /\ l = lev[r]
        BY <1>3, <3>3
      <4>2. a >= 1 /\ a + 1 = b /\ b + n = l + 1
        BY <2>9, <3>3, <4>1
      <4>3. a + (n + 1) = l + 1 /\ n + 1 <= l
        BY <4>2
      <4> QED
        BY <4>1, <4>3
    <3>9. ASSUME NEW j \in 1 .. n + 1
          PROVE  lev[u[j]] + j = lev[r] + 1 /\ key \in span[u[j]]
      <4>1. CASE j = n + 1
        BY <3>3, <3>7, <3>8, <4>1
      <4>2. CASE j # n + 1
        <5>1. j \in 1 .. n
          BY <2>6, <4>2
        <5> QED
          BY <2>5, <2>6, <3>7, <5>1 DEF Way
      <4> QED
        BY <4>1, <4>2
    <3>10. ASSUME NEW j \in 1 .. n PROVE u[j + 1] = FindChild(ps[u[j]], key)
      <4>1. CASE j = n
        BY <2>7, <3>2, <3>7, <4>1
      <4>2. CASE j # n
        <5>1. j \in 1 .. n - 1 /\ j \in 1 .. n /\ j + 1 \in 1 .. n
          BY <2>6, <4>2
        <5> QED
          BY <2>5, <2>6, <3>7, <5>1 DEF Way
      <4> QED
        BY <4>1, <4>2
    <3>11. u[1] = r
      <4>1. 1 \in 1 .. n
        BY <2>6
      <4> QED
        BY <2>5, <3>7, <4>1 DEF Way
    <3>12. Way(ps, lev, span, r, key, u)
      <4>1. Len(u) - 1 = n /\ Len(u) >= 1
        BY <2>6, <3>7
      <4> QED
        BY <3>7, <3>8, <3>9, <3>10, <3>11, <4>1 DEF Way
    <3>13. Len(u) = (k + 1) + 1 \/ Len(u) = lev[r]
      BY <1>3, <2>5, <2>6, <3>7, <3>8
    <3> QED
      BY <2>4, <3>12, <3>13
  <2> QED
    BY <2>10, <2>11
<1>7. Q(MaxDepth)
  <2>1. MaxDepth \in T
    <3> HIDE DEF T
    <3> QED
      BY <1>1, <1>5, <1>6, NatInd
  <2> QED
    BY <1>1, <2>1
<1>8. Len(path) = lev[r]
  <2>1. Len(path) \in Nat /\ Len(path) <= lev[r]
    BY <1>2, <1>7 DEF Way
  <2> QED
    BY <1>1, <1>2, <1>3, <1>7, <2>1
<1> QED
  BY <1>2, <1>7, <1>8

(* A key's leaf.                                                           *)
LEMMA LeafRight ==
    ASSUME NEW ps, NEW lev, NEW span, NEW r, Closed(ps, lev, span, r),
           lev[r] <= MaxDepth + 1, NEW key \in Nat, NEW p, p = Leaf(ps, r, key)
    PROVE  p \in PageId /\ lev[p] = 1 /\ key \in span[p] /\ LeafSound(ps[p], span[p])
<1>1. PICK path : path = PathTo(ps, r, key)
  OBVIOUS
<1>2. Way(ps, lev, span, r, key, path) /\ Len(path) = lev[r]
  BY <1>1, PathRight
<1>3. PICK n \in Nat : n = Len(path) /\ n >= 1 /\ path \in Seq(PageId)
  BY <1>2 DEF Way
<1>4. p = path[n]
  BY <1>1, <1>3 DEF Leaf, Last
<1>5. p \in PageId /\ lev[p] + n = lev[r] + 1 /\ key \in span[p]
  BY <1>2, <1>3, <1>4 DEF Way
<1>6. lev[p] = 1
  <2>1. lev[p] \in Nat
    BY <1>5 DEF Closed, Tree
  <2> QED
    BY <1>2, <1>3, <1>5, <2>1
<1>7. LeafSound(ps[p], span[p])
  BY <1>5, <1>6 DEF Closed, Tree, NodeSound
<1> QED
  BY <1>5, <1>6, <1>7

-----------------------------------------------------------------------------
(* The keys of a leaf.                                                     *)

HasKey(cells, k) ==
    \E i \in 1 .. Len(cells) : cells[i] # Tombstone /\ cells[i].key = k

InSpan(cells, span) ==
    \A i \in 1 .. Len(cells) : cells[i] # Tombstone => cells[i].key \in span

LEMMA AtOrAfterRight ==
    ASSUME NEW cells \in Seq(CellSet), Ordered(cells), NEW key \in Key,
           NEW f, f = AtOrAfter(cells, key)
    PROVE  /\ f = 0 \/ f \in 1 .. Len(cells)
           /\ f # 0 => cells[f] # Tombstone /\ key <= cells[f].key
           /\ \A i \in 1 .. Len(cells) : cells[i] # Tombstone =>
                 /\ f = 0 \/ i < f => cells[i].key < key
                 /\ f # 0 /\ f <= i => key <= cells[i].key
<1>1. key \in Nat /\ Len(cells) \in Nat
      /\ \A i \in 1 .. Len(cells) : cells[i] # Tombstone =>
            cells[i].key \in Key /\ cells[i].key \in Nat
  <2>1. \A i \in 1 .. Len(cells) : cells[i] \in CellSet
    OBVIOUS
  <2> QED
    BY <2>1, CellFacts, KeyFacts
<1>2. PICK meets : meets = {k \in Key : k >= key}
  OBVIOUS
<1>3. Upward(meets)
  BY <1>1, <1>2, KeyFacts DEF Upward
<1>4. f = FirstSlotWhere(cells, meets)
  BY <1>2 DEF AtOrAfter
<1>5. FirstIs(cells, meets, f)
  BY <1>3, <1>4, FirstSlotRight
<1>6. \A i \in 1 .. Len(cells) : cells[i] # Tombstone =>
         (cells[i].key \in meets <=> key <= cells[i].key)
  BY <1>1, <1>2
<1>7. CASE f = 0
  <2>1. NoneMeet(cells, meets, 1, Len(cells))
    BY <1>1, <1>5, <1>7 DEF FirstIs
  <2>2. \A i \in 1 .. Len(cells) : cells[i] # Tombstone => ~(key <= cells[i].key)
    BY <1>1, <1>6, <2>1 DEF NoneMeet
  <2> QED
    BY <1>1, <1>7, <2>2
<1>8. CASE f # 0
  <2>1. /\ f \in 1 .. Len(cells) /\ cells[f] # Tombstone /\ cells[f].key \in meets
        /\ NoneMeet(cells, meets, 1, f - 1)
    BY <1>5, <1>8 DEF FirstIs
  <2>2. key <= cells[f].key
    BY <1>6, <2>1
  <2>3. \A i \in 1 .. Len(cells) : i < f /\ cells[i] # Tombstone =>
           ~(key <= cells[i].key)
    BY <1>1, <1>6, <2>1 DEF NoneMeet
  <2>4. ASSUME NEW i \in 1 .. Len(cells), cells[i] # Tombstone, f <= i
        PROVE  key <= cells[i].key
    <3>1. i = f \/ cells[f].key < cells[i].key
      BY <1>1, <2>1, <2>4 DEF Ordered
    <3> QED
      BY <1>1, <2>1, <2>2, <2>4, <3>1
  <2> QED
    BY <1>1, <1>8, <2>1, <2>2, <2>3, <2>4
<1> QED
  BY <1>7, <1>8

LEMMA SlotOfRight ==
    ASSUME NEW cells \in Seq(CellSet), Ordered(cells), NEW key \in Key,
           NEW f, f = SlotOf(cells, key)
    PROVE  /\ f # 0 <=> HasKey(cells, key)
           /\ f # 0 => /\ f \in 1 .. Len(cells) /\ cells[f] # Tombstone
                       /\ cells[f].key = key
<1>1. PICK g : g = AtOrAfter(cells, key)
  OBVIOUS
<1>2. /\ g = 0 \/ g \in 1 .. Len(cells)
      /\ g # 0 => cells[g] # Tombstone /\ key <= cells[g].key
      /\ \A i \in 1 .. Len(cells) : cells[i] # Tombstone =>
            /\ g = 0 \/ i < g => cells[i].key < key
            /\ g # 0 /\ g <= i => key <= cells[i].key
  BY <1>1, AtOrAfterRight
<1>3. f = IF g # 0 /\ cells[g].key = key THEN g ELSE 0
  BY <1>1 DEF SlotOf
<1>4. f # 0 => /\ f \in 1 .. Len(cells) /\ cells[f] # Tombstone /\ cells[f].key = key
  BY <1>2, <1>3
<1>5. ASSUME HasKey(cells, key) PROVE f # 0
  <2>1. PICK i \in 1 .. Len(cells) : cells[i] # Tombstone /\ cells[i].key = key
    BY <1>5 DEF HasKey
  <2>2. key \in Nat
    BY KeyFacts
  <2>3. g # 0 /\ g \in 1 .. Len(cells) /\ g <= i
    BY <1>2, <2>1, <2>2
  <2>4. cells[g] # Tombstone /\ key <= cells[g].key
    BY <1>2, <2>3
  <2>5. i = g \/ cells[g].key < key
    BY <2>1, <2>3, <2>4 DEF Ordered
  <2>6. cells[g].key \in Nat
    <3>1. cells[g] \in CellSet
      BY <2>3
    <3> QED
      BY <2>4, <3>1, CellFacts
  <2>7. cells[g].key = key
    BY <2>1, <2>2, <2>4, <2>5, <2>6
  <2> QED
    BY <1>3, <2>3, <2>7
<1> QED
  BY <1>4, <1>5 DEF HasKey

-----------------------------------------------------------------------------
(* A key put into a leaf.                                                  *)

(* `cells` with key put at place `at`.                                     *)
PlacedAt(cells, at, key, t) == IsInsert(cells, at, Cell(key, NoPage), t)

LEMMA KeyCell ==
    ASSUME NEW key \in Key
    PROVE  /\ Cell(key, NoPage) \in LiveCells /\ Cell(key, NoPage) \in CellSet
           /\ Cell(key, NoPage) # Tombstone /\ Cell(key, NoPage).key = key
<1>1. Cell(key, NoPage) \in LiveCells /\ Cell(key, NoPage).key = key
  BY DEF Cell, LiveCells
<1>2. Cell(key, NoPage) \in CellSet
  BY <1>1 DEF CellSet
<1> QED
  BY <1>1, <1>2, CellFacts

LEMMA LeafPlaced ==
    ASSUME len \in Lengths, NEW cells \in Seq(CellSet), Ordered(cells), NEW span,
           InSpan(cells, span), NEW key \in Key, key \in span, ~HasKey(cells, key),
           NEW slot, slot = AtOrAfter(cells, key),
           NEW at, at = IF slot = 0 THEN Len(cells) + 1 ELSE slot,
           NEW t, PlacedAt(cells, at, key, t)
    PROVE  /\ t \in Seq(CellSet) /\ Ordered(t) /\ InSpan(t, span)
           /\ \A k : HasKey(t, k) <=> HasKey(cells, k) \/ k = key
           /\ Taken("leaf", t) = Taken("leaf", cells) + Size("leaf", Cell(key, NoPage))
<1>1. PICK n \in Nat : n = Len(cells)
  OBVIOUS
<1>2. PICK c : c = Cell(key, NoPage)
  OBVIOUS
<1>3. c \in CellSet /\ c # Tombstone /\ c.key = key /\ key \in Nat
  BY <1>2, KeyCell, KeyFacts
<1>4. /\ slot = 0 \/ slot \in 1 .. n
      /\ \A i \in 1 .. n : cells[i] # Tombstone =>
            /\ slot = 0 \/ i < slot => cells[i].key < key
            /\ slot # 0 /\ slot <= i => key <= cells[i].key
  BY <1>1, AtOrAfterRight
<1>5. \A i \in 1 .. n : cells[i] # Tombstone =>
         cells[i].key \in Nat /\ cells[i].key # key
  <2>1. \A i \in 1 .. n : cells[i] \in CellSet
    BY <1>1
  <2> QED
    BY <1>1, <2>1, CellFacts DEF HasKey
<1>6. /\ at \in 1 .. n + 1
      /\ \A i \in 1 .. n : cells[i] # Tombstone =>
            /\ i < at => cells[i].key < key
            /\ at <= i => key < cells[i].key
  BY <1>1, <1>3, <1>4, <1>5
<1>7. /\ t \in Seq(CellSet) /\ Len(t) = n + 1 /\ t[at] = c
      /\ \A j \in 1 .. at - 1 : t[j] = cells[j]
      /\ \A j \in at + 1 .. n + 1 : t[j] = cells[j - 1]
  <2>1. PICK T : T = CellSet
    OBVIOUS
  <2>2. /\ cells \in Seq(T) /\ c \in T /\ IsInsert(cells, at, c, t)
        /\ at \in 1 .. Len(cells) + 1
    BY <1>1, <1>2, <1>3, <1>6, <2>1 DEF PlacedAt
  <2>3. /\ t \in Seq(T) /\ Len(t) = Len(cells) + 1 /\ t[at] = c
        /\ \A j \in 1 .. at - 1 : t[j] = cells[j]
        /\ \A j \in at + 1 .. Len(cells) + 1 : t[j] = cells[j - 1]
    BY ONLY <2>2, InsertedAt
  <2> QED
    BY <1>1, <2>1, <2>3
<1>8. Taken("leaf", t) = Taken("leaf", cells) + Size("leaf", c)
  <2>1. IsInsert(cells, at, c, t) /\ at \in 1 .. Len(cells) + 1
    BY <1>1, <1>2, <1>6 DEF PlacedAt
  <2> QED
    BY <1>3, <2>1, TakenInserted
<1>9. ASSUME NEW j \in 1 .. n + 1
      PROVE  \/ j < at /\ j \in 1 .. n /\ t[j] = cells[j]
             \/ j = at /\ t[j] = c
             \/ j > at /\ j - 1 \in 1 .. n /\ at <= j - 1 /\ t[j] = cells[j - 1]
  <2>1. CASE j < at
    <3>1. j \in 1 .. at - 1 /\ j \in 1 .. n
      BY <1>6, <2>1
    <3> QED
      BY <1>7, <2>1, <3>1
  <2>2. CASE j > at
    <3>1. j \in at + 1 .. n + 1 /\ j - 1 \in 1 .. n /\ at <= j - 1
      BY <1>6, <2>2
    <3> QED
      BY <1>7, <2>2, <3>1
  <2> QED
    BY <1>6, <1>7, <2>1, <2>2
<1>10. Ordered(t)
  <2> SUFFICES ASSUME NEW i \in 1 .. n + 1, NEW j \in 1 .. n + 1, i < j,
                      t[i] # Tombstone, t[j] # Tombstone
               PROVE  t[i].key < t[j].key
    BY <1>7 DEF Ordered
  <2>1. \A a, b \in 1 .. n : a < b /\ cells[a] # Tombstone /\ cells[b] # Tombstone
                                => cells[a].key < cells[b].key
    BY <1>1 DEF Ordered
  <2>2. CASE j < at
    <3>1. i < at
      BY <1>6, <2>2
    <3>2. i \in 1 .. n /\ t[i] = cells[i] /\ j \in 1 .. n /\ t[j] = cells[j]
      BY <1>6, <1>9, <2>2, <3>1
    <3> QED
      BY <2>1, <3>2
  <2>3. CASE j = at
    <3>1. i \in 1 .. n /\ t[i] = cells[i] /\ t[j] = c /\ i < at
      BY <1>6, <1>9, <2>3
    <3> QED
      BY <1>3, <1>6, <3>1
  <2>4. CASE j > at
    <3>1. j - 1 \in 1 .. n /\ at <= j - 1 /\ t[j] = cells[j - 1]
      BY <1>6, <1>9, <2>4
    <3>2. PICK b \in 1 .. n : b = j - 1
      BY <3>1
    <3>3. t[j] = cells[b] /\ cells[b] # Tombstone /\ at <= b
          /\ key < cells[b].key /\ cells[b].key \in Nat
      BY <1>5, <1>6, <3>1, <3>2
    <3>4. CASE i < at
      <4>1. i \in 1 .. n /\ t[i] = cells[i] /\ cells[i] # Tombstone
        BY <1>6, <1>9, <3>4
      <4>2. cells[i].key < key /\ cells[i].key \in Nat
        BY <1>5, <1>6, <3>4, <4>1
      <4> QED
        BY <1>3, <3>3, <4>1, <4>2
    <3>5. CASE i = at
      BY <1>3, <1>7, <3>3, <3>5
    <3>6. CASE i > at
      <4>1. i - 1 \in 1 .. n /\ t[i] = cells[i - 1]
        BY <1>6, <1>9, <3>6
      <4>2. PICK a \in 1 .. n : a = i - 1 /\ a < b /\ t[i] = cells[a]
        BY <3>2, <4>1
      <4> QED
        BY <2>1, <3>3, <4>2
    <3> QED
      BY <1>6, <3>4, <3>5, <3>6
  <2> QED
    BY <1>6, <2>2, <2>3, <2>4
<1>11. InSpan(t, span)
  BY <1>1, <1>3, <1>7, <1>9 DEF InSpan
<1>12. ASSUME NEW k PROVE HasKey(t, k) <=> HasKey(cells, k) \/ k = key
  <2>1. ASSUME HasKey(t, k) PROVE HasKey(cells, k) \/ k = key
    <3>1. PICK j \in 1 .. n + 1 : t[j] # Tombstone /\ t[j].key = k
      BY <1>7, <2>1 DEF HasKey
    <3> QED
      BY <1>1, <1>3, <1>9, <3>1 DEF HasKey
  <2>2. ASSUME HasKey(cells, k) PROVE HasKey(t, k)
    <3>1. PICK i \in 1 .. n : cells[i] # Tombstone /\ cells[i].key = k
      BY <1>1, <2>2 DEF HasKey
    <3>2. CASE i < at
      <4>1. i \in 1 .. at - 1 /\ i \in 1 .. n + 1
        BY <1>6, <3>2
      <4> QED
        BY <1>7, <3>1, <4>1 DEF HasKey
    <3>3. CASE at <= i
      <4>1. PICK j \in 1 .. n + 1 : j = i + 1
        OBVIOUS
      <4>2. j \in at + 1 .. n + 1 /\ j - 1 = i
        BY <1>6, <3>3, <4>1
      <4>3. t[j] = cells[i]
        BY <1>7, <4>2
      <4> QED
        BY <1>7, <3>1, <4>3 DEF HasKey
    <3> QED
      BY <1>6, <3>2, <3>3
  <2>3. ASSUME k = key PROVE HasKey(t, k)
    <3>1. at \in 1 .. Len(t)
      BY <1>6, <1>7
    <3> QED
      BY <1>3, <1>7, <2>3, <3>1 DEF HasKey
  <2> QED
    BY <2>1, <2>2, <2>3
<1> QED
  BY <1>2, <1>7, <1>8, <1>10, <1>11, <1>12

(* Without the tombstones.                                                 *)
LEMMA LeafCleaned ==
    ASSUME len \in Lengths, NEW cells \in Seq(CellSet), Ordered(cells), NEW span,
           InSpan(cells, span), NEW t, t = Live(cells)
    PROVE  /\ t \in Seq(LiveCells) /\ Ordered(t) /\ InSpan(t, span)
           /\ \A k : HasKey(t, k) <=> HasKey(cells, k)
           /\ Taken("leaf", t) <= Taken("leaf", cells)
<1>1. PICK n, m \in Nat : n = Len(cells) /\ m = Len(t) /\ t \in Seq(LiveCells)
                          /\ Taken("leaf", t) <= Taken("leaf", cells)
  BY TakenLive
<1>2. PICK from : Embeds(t, cells, n, LiveCells, from)
  BY <1>1, TakenLive
<1>3. /\ from \in [1 .. m -> 1 .. n]
      /\ \A i \in 1 .. m : t[i] = cells[from[i]]
      /\ \A i, j \in 1 .. m : i < j => from[i] < from[j]
      /\ \A j \in 1 .. n : cells[j] \in LiveCells => \E i \in 1 .. m : from[i] = j
  BY <1>1, <1>2 DEF Embeds
<1>4. \A i \in 1 .. m : t[i] # Tombstone /\ from[i] \in 1 .. n
  BY <1>1, <1>3, LiveFacts
<1>5. Ordered(t)
  <2> SUFFICES ASSUME NEW i \in 1 .. m, NEW j \in 1 .. m, i < j
               PROVE  t[i].key < t[j].key
    BY <1>1 DEF Ordered
  <2>1. PICK a, b \in 1 .. n : a = from[i] /\ b = from[j] /\ a < b
    BY <1>3, <1>4
  <2>2. t[i] = cells[a] /\ t[j] = cells[b] /\ t[i] # Tombstone /\ t[j] # Tombstone
    BY <1>3, <1>4, <2>1
  <2> QED
    BY <1>1, <2>1, <2>2 DEF Ordered
<1>6. InSpan(t, span)
  BY <1>1, <1>3, <1>4 DEF InSpan
<1>7. ASSUME NEW k PROVE HasKey(t, k) <=> HasKey(cells, k)
  <2>1. ASSUME HasKey(t, k) PROVE HasKey(cells, k)
    BY <1>1, <1>3, <1>4, <2>1 DEF HasKey
  <2>2. ASSUME HasKey(cells, k) PROVE HasKey(t, k)
    <3>1. PICK j \in 1 .. n : cells[j] # Tombstone /\ cells[j].key = k
      BY <1>1, <2>2 DEF HasKey
    <3>2. cells[j] \in LiveCells
      <4>1. cells[j] \in CellSet
        BY <1>1
      <4> QED
        BY <3>1, <4>1, CellFacts
    <3>3. PICK i \in 1 .. m : from[i] = j
      BY <1>3, <3>2
    <3> QED
      BY <1>1, <1>3, <3>1, <3>3 DEF HasKey
  <2> QED
    BY <2>1, <2>2
<1> QED
  BY <1>1, <1>5, <1>6, <1>7

-----------------------------------------------------------------------------
(* `insert_into_leaf`.                                                     *)

(* The leaves hold the entries.                                            *)
Holds(ps, lev, es) ==
    /\ es \subseteq Key
    /\ \A k \in Key :
          k \in es <=> \E o \in PageId : lev[o] = 1 /\ HasKey(ps[o].cells, k)

FreeOf(ps) == {p \in PageId : ps[p] = Free}

LEMMA AllocateRight ==
    ASSUME NEW ps, FreeOf(ps) # {}
    PROVE  Allocate(ps) \in PageId /\ ps[Allocate(ps)] = Free
<1>1. FreeOf(ps) \subseteq Nat
  BY DEF FreeOf, PageId
<1>2. \E p \in FreeOf(ps) : \A o \in FreeOf(ps) : p <= o
  BY <1>1, NatMin
<1>3. \E p \in PageId : ps[p] = Free /\ \A o \in PageId : ps[o] = Free => p <= o
  BY <1>2 DEF FreeOf
<1> QED
  BY <1>3 DEF Allocate

(* What is in the parts of cells cut in two.                               *)
Parts(cells, m, a, b) ==
    /\ a \in Seq(CellSet) /\ b \in Seq(CellSet)
    /\ Len(a) = m /\ Len(b) = Len(cells) - m
    /\ \A i \in 1 .. m : a[i] = cells[i]
    /\ \A i \in 1 .. Len(cells) - m : b[i] = cells[m + i]
    /\ \A kind : Taken(kind, cells) = Taken(kind, a) + Taken(kind, b)

LEMMA CutParts ==
    ASSUME len \in Lengths, NEW cells \in Seq(CellSet),
           NEW m \in 0 .. Len(cells), NEW a, NEW b, CutAt(cells, m, a, b)
    PROVE  Parts(cells, m, a, b)
<1>1. len \in Lengths /\ m \in 0 .. Len(cells) /\ cells \in Seq(CellSet)
      /\ CutAt(cells, m, a, b)
  OBVIOUS
<1>2. ASSUME NEW kind
      PROVE  /\ a \in Seq(CellSet) /\ b \in Seq(CellSet)
             /\ Len(a) = m /\ Len(b) = Len(cells) - m
             /\ \A i \in 1 .. m : a[i] = cells[i]
             /\ \A i \in 1 .. Len(cells) - m : b[i] = cells[m + i]
             /\ Taken(kind, cells) = Taken(kind, a) + Taken(kind, b)
  BY ONLY <1>1, TakenCut
<1> QED
  BY <1>2 DEF Parts

(* An ordered leaf cut in two.                                             *)
LeafParts(cells, span, a, b, s) ==
    /\ a \in Seq(CellSet) /\ b \in Seq(CellSet) /\ Ordered(a) /\ Ordered(b)
    /\ s \in Key /\ s \in span
    /\ InSpan(a, {k \in span : k < s}) /\ InSpan(b, {k \in span : k >= s})
    /\ {k \in span : k < s} # {}
    /\ \A k : HasKey(cells, k) <=> HasKey(a, k) \/ HasKey(b, k)

LEMMA LeafCut ==
    ASSUME len \in Lengths, NEW cells \in Seq(LiveCells), Ordered(cells),
           NEW span, span \subseteq Nat, InSpan(cells, span),
           NEW m \in 1 .. Len(cells) - 1, NEW a, NEW b, CutAt(cells, m, a, b),
           NEW s, s = cells[m + 1].key
    PROVE  LeafParts(cells, span, a, b, s)
<1>1. PICK n \in Nat : n = Len(cells)
  OBVIOUS
<1>2. /\ \A i \in 1 .. n : /\ cells[i].key \in Nat /\ cells[i].key \in Key
                           /\ cells[i] # Tombstone /\ cells[i].key \in span
      /\ \A i, j \in 1 .. n : i < j => cells[i].key < cells[j].key
      /\ cells \in Seq(CellSet)
  BY <1>1, LiveFacts DEF InSpan
<1>3. m \in 0 .. Len(cells) /\ m \in 1 .. n - 1 /\ m + 1 \in 1 .. n
  BY <1>1
<1>4. /\ a \in Seq(CellSet) /\ b \in Seq(CellSet)
      /\ Len(a) = m /\ Len(b) = n - m
      /\ \A i \in 1 .. m : a[i] = cells[i]
      /\ \A i \in 1 .. n - m : b[i] = cells[m + i]
  <2>1. Parts(cells, m, a, b)
    BY <1>2, <1>3, CutParts
  <2> QED
    BY <1>1, <2>1 DEF Parts
<1>5. s \in Key /\ s \in span /\ s \in Nat
  BY <1>2, <1>3
<1>6. \A i \in 1 .. m : i \in 1 .. n /\ cells[i].key < s
  BY <1>2, <1>3
<1>7. ASSUME NEW i \in 1 .. n - m PROVE m + i \in 1 .. n /\ cells[m + i].key >= s
  <2>1. m + i \in 1 .. n /\ (m + i = m + 1 \/ m + 1 < m + i)
    BY <1>3
  <2>2. m + i = m + 1 \/ s < cells[m + i].key
    BY <1>2, <1>3, <2>1
  <2>3. cells[m + i].key \in Nat
    BY <1>2, <2>1
  <2> QED
    BY <1>5, <2>1, <2>2, <2>3
<1>8. Ordered(a)
  BY <1>2, <1>4, <1>6 DEF Ordered
<1>9. Ordered(b)
  <2> SUFFICES ASSUME NEW i \in 1 .. n - m, NEW j \in 1 .. n - m, i < j
               PROVE  b[i].key < b[j].key
    BY <1>4 DEF Ordered
  <2>1. m + i \in 1 .. n /\ m + j \in 1 .. n /\ m + i < m + j
    BY <1>3
  <2>2. cells[m + i].key < cells[m + j].key
    BY <1>2, <2>1
  <2> QED
    BY <1>4, <2>2
<1>10. InSpan(a, {k \in span : k < s})
  BY <1>2, <1>4, <1>6 DEF InSpan
<1>11. InSpan(b, {k \in span : k >= s})
  BY <1>2, <1>4, <1>7 DEF InSpan
<1>12. {k \in span : k < s} # {}
  <2>1. 1 \in 1 .. m
    BY <1>3
  <2>2. cells[1].key \in span /\ cells[1].key < s
    BY <1>2, <1>6, <2>1
  <2> QED
    BY <2>2
<1>13. ASSUME NEW k PROVE HasKey(cells, k) <=> HasKey(a, k) \/ HasKey(b, k)
  <2>1. ASSUME HasKey(cells, k) PROVE HasKey(a, k) \/ HasKey(b, k)
    <3>1. PICK i \in 1 .. n : cells[i] # Tombstone /\ cells[i].key = k
      BY <1>1, <2>1 DEF HasKey
    <3>2. CASE i <= m
      <4>1. i \in 1 .. m
        BY <1>3, <3>2
      <4> QED
        BY <1>4, <3>1, <4>1 DEF HasKey
    <3>3. CASE ~(i <= m)
      <4>1. PICK j \in 1 .. n - m : m + j = i
        <5>1. i - m \in 1 .. n - m /\ m + (i - m) = i
          BY <1>3, <3>3
        <5> QED
          BY <5>1
      <4>2. b[j] = cells[i]
        BY <1>4, <4>1
      <4> QED
        BY <1>4, <3>1, <4>2 DEF HasKey
    <3> QED
      BY <3>2, <3>3
  <2>2. ASSUME HasKey(a, k) PROVE HasKey(cells, k)
    BY <1>1, <1>4, <1>6, <2>2 DEF HasKey
  <2>3. ASSUME HasKey(b, k) PROVE HasKey(cells, k)
    <3>1. PICK i \in 1 .. n - m : b[i] # Tombstone /\ b[i].key = k
      BY <1>4, <2>3 DEF HasKey
    <3>2. PICK j \in 1 .. n : j = m + i /\ b[i] = cells[j]
      BY <1>4, <1>7
    <3> QED
      BY <1>1, <3>1, <3>2 DEF HasKey
  <2> QED
    BY <2>1, <2>2, <2>3
<1> QED
  BY <1>4, <1>5, <1>8, <1>9, <1>10, <1>11, <1>12, <1>13 DEF LeafParts

(* A leaf page of such cells.                                              *)
LEMMA LeafOf ==
    ASSUME NEW cells \in Seq(CellSet), Ordered(cells), NEW span, InSpan(cells, span),
           Taken("leaf", cells) <= PageRoom, NEW next \in PageId \cup {NoPage},
           NEW page, page = Page("leaf", cells, next)
    PROVE  LeafSound(page, span) /\ page.cells = cells
<1>1. page.cells = cells /\ page.next = next
  BY DEF Page
<1> QED
  BY <1>1 DEF LeafSound, IsNode, InSpan

(* The halves of a leaf split in the middle, or in front of its last key,  *)
(* which is the new one.                                                   *)
LEMMA LeafHalvesFit ==
    ASSUME len \in Lengths, NEW cells \in Seq(LiveCells), Ordered(cells),
           Taken("leaf", cells) > PageRoom,
           NEW key \in Key, HasKey(cells, key),
           Taken("leaf", cells) - Size("leaf", Cell(key, NoPage)) <= PageRoom,
           NEW mid, \/ mid = Midpoint("leaf", cells)
                    \/ mid = Len(cells) - 1 /\ cells[Len(cells)].key = key,
           NEW a, NEW b, CutAt(cells, mid, a, b)
    PROVE  /\ mid \in 1 .. Len(cells) - 1
           /\ Taken("leaf", a) <= PageRoom /\ Taken("leaf", b) <= PageRoom
<1>1. PICK n \in Nat : n = Len(cells)
  OBVIOUS
<1>2. /\ cells \in Seq(CellSet)
      /\ \A i \in 1 .. n : cells[i] \in LiveCells /\ cells[i] \in CellSet
                           /\ cells[i] # Tombstone
  BY <1>1, LiveFacts
<1>3. ASSUME NEW i \in 1 .. n, cells[i].key = key
      PROVE  Size("leaf", cells[i]) = Size("leaf", Cell(key, NoPage))
  <2>1. cells[i] # Tombstone /\ Cell(key, NoPage) # Tombstone
        /\ Cell(key, NoPage).key = key
    BY <1>2, KeyCell
  <2> QED
    BY <1>3, <2>1 DEF Size
<1>4. PICK x \in 1 .. n : cells[x].key = key
  BY <1>1 DEF HasKey
<1>5. CASE mid = Midpoint("leaf", cells)
  <2>1. Taken("leaf", cells) - Size("leaf", cells[x]) <= PageRoom
    BY <1>3, <1>4
  <2>2. /\ mid \in 2 .. Len(cells) - 1
        /\ Taken("leaf", SubSeq(cells, 1, mid)) <= PageRoom
        /\ Taken("leaf", SubSeq(cells, mid + 1, Len(cells))) <= PageRoom
    BY <1>1, <1>4, <1>5, <2>1, HalvesFit
  <2>3. a = SubSeq(cells, 1, mid) /\ b = SubSeq(cells, mid + 1, Len(cells))
    BY DEF CutAt
  <2> QED
    BY <1>1, <2>2, <2>3
<1>6. CASE mid = Len(cells) - 1 /\ cells[Len(cells)].key = key
  <2>1. n # 0
    BY <1>4
  <2>2. mid \in 0 .. Len(cells) /\ mid = n - 1 /\ mid + 1 = n /\ n \in 1 .. n
    BY <1>1, <1>6, <2>1
  <2>3. /\ a \in Seq(CellSet) /\ b \in Seq(CellSet)
        /\ Len(a) = mid /\ Len(b) = n - mid
        /\ \A i \in 1 .. n - mid : b[i] = cells[mid + i]
        /\ Taken("leaf", cells) = Taken("leaf", a) + Taken("leaf", b)
    <3>1. Parts(cells, mid, a, b)
      BY <1>2, <2>2, CutParts
    <3> QED
      BY <1>1, <3>1 DEF Parts
  <2>4. PICK c \in LiveCells : c = cells[n] /\ c.key = key
    BY <1>1, <1>2, <1>6, <2>2
  <2>5. b = <<c>>
    <3>1. Len(b) = 1 /\ b[1] = c
      <4>1. n - mid = 1 /\ 1 \in 1 .. n - mid /\ mid + 1 = n
        BY <1>1, <2>2
      <4> QED
        BY <2>3, <2>4, <4>1
    <3>2. b \in Seq(CellSet) /\ <<c>> \in Seq(CellSet)
      BY <2>3, <2>4 DEF CellSet
    <3> QED
      BY <3>1, <3>2
  <2>6. Taken("leaf", b) <= PageRoom
    BY <2>4, <2>5, TakenOne
  <2>7. Taken("leaf", b) = Size("leaf", c)
    <3>1. c \in CellSet /\ <<>> \in Seq(CellSet) /\ b = Append(<<>>, c)
      BY <2>4, <2>5 DEF CellSet
    <3>2. Taken("leaf", b) = Taken("leaf", <<>>) + Size("leaf", c)
      BY <3>1, TakenAppended
    <3>3. Size("leaf", c) \in Nat
      BY <3>1, SizeFacts
    <3> QED
      BY <3>2, <3>3, TakenNone
  <2>8. Taken("leaf", a) <= PageRoom
    <3>1. Size("leaf", c) = Size("leaf", Cell(key, NoPage))
      BY <1>3, <2>2, <2>4
    <3>2. Taken("leaf", a) \in Nat /\ Taken("leaf", b) \in Nat
      BY <2>3, TakenIs
    <3> QED
      BY <2>3, <2>7, <3>1, <3>2
  <2>9. mid # 0
    <3> SUFFICES ASSUME mid = 0 PROVE FALSE
      OBVIOUS
    <3>1. a = <<>>
      BY <2>3
    <3>2. Taken("leaf", a) = 0 /\ Taken("leaf", b) \in Nat
      BY <2>3, <3>1, TakenNone, TakenIs
    <3> QED
      BY <2>3, <2>6, <3>2, Lens
  <2> QED
    BY <1>1, <2>2, <2>6, <2>8, <2>9
<1> QED
  BY <1>5, <1>6

-----------------------------------------------------------------------------
(* The leaves' links.                                                      *)

(* A leaf's keys, `own`, reach up to some of the next leaf's, or have no   *)
(* end if it is the last.                                                  *)
LinkSound(next, lev, span, own) ==
    \E a \in Nat :
       \/ next = NoPage /\ own = {k \in Nat : k >= a}
       \/ /\ next \in PageId /\ lev[next] = 1
          /\ \E b \in Nat : a < b /\ own = a .. b - 1 /\ b \in span[next]

Linked(ps, lev, span) ==
    \A p \in PageId : lev[p] = 1 => LinkSound(ps[p].next, lev, span, span[p])

LEMMA LinkedSame ==
    ASSUME NEW ps, NEW lev, NEW span, Linked(ps, lev, span),
           NEW ps2, NEW lev2, NEW span2,
           \A o \in PageId : lev2[o] = 1 <=> lev[o] = 1,
           \A o \in PageId : lev[o] = 1 => span2[o] = span[o] /\ ps2[o].next = ps[o].next
    PROVE  Linked(ps2, lev2, span2)
<1> SUFFICES ASSUME NEW p \in PageId, lev2[p] = 1
             PROVE  LinkSound(ps2[p].next, lev2, span2, span2[p])
  BY DEF Linked
<1>1. LinkSound(ps2[p].next, lev, span, span2[p])
  BY DEF Linked
<1> QED
  BY <1>1 DEF LinkSound

(* The next leaf begins where this one ends.                               *)
LEMMA LinkAhead ==
    ASSUME NEW lev, NEW span, NEW ps, Linked(ps, lev, span), Apart(lev, span),
           NEW o \in PageId, lev[o] = 1, NEW n \in PageId, lev[n] = 1,
           NEW a \in Nat, NEW b \in Nat, a < b, span[o] = a .. b - 1, b \in span[n]
    PROVE  \A k \in span[n] : k \in Nat /\ k >= b
<1>1. PICK c \in Nat : \/ span[n] = {k \in Nat : k >= c}
                       \/ \E d \in Nat : c < d /\ span[n] = c .. d - 1
  BY DEF Linked, LinkSound
<1>2. \A k \in span[n] : k \in Nat
  BY <1>1
<1>3. \A k, l, m \in Nat : k \in span[n] /\ l \in span[n] /\ k <= m /\ m <= l => m \in span[n]
  BY <1>1
<1> SUFFICES ASSUME NEW k \in span[n], k < b PROVE FALSE
  BY <1>2
<1>4. b - 1 \in Nat /\ k <= b - 1 /\ b - 1 <= b /\ b - 1 \in span[o] /\ b \notin span[o]
  BY <1>2
<1>5. b - 1 \in span[n]
  BY <1>2, <1>3, <1>4
<1>6. o # n
  BY <1>4
<1> QED
  BY <1>4, <1>5, <1>6 DEF Apart

(* A leaf cut in two.                                                      *)
LEMMA LinkedSplit ==
    ASSUME NEW ps, NEW lev, NEW span, lev \in [PageId -> Nat],
           span \in [PageId -> SUBSET Nat], Linked(ps, lev, span), Apart(lev, span),
           NEW p \in PageId, lev[p] = 1, NEW q \in PageId, lev[q] = 0,
           NEW s \in Nat, s \in span[p], {k \in span[p] : k < s} # {},
           NEW ps2, ps2[p].next = q, ps2[q].next = ps[p].next,
           \A o \in PageId : o # p /\ o # q => ps2[o] = ps[o]
    PROVE  Linked(ps2, LevSplit(lev, p, q), SpanSplit(span, p, q, s))
<1>1. PICK lev2, span2 : lev2 = LevSplit(lev, p, q) /\ span2 = SpanSplit(span, p, q, s)
  OBVIOUS
<1>2. q # p /\ lev2[q] = 1 /\ \A o \in PageId : o # q => lev2[o] = lev[o]
  BY <1>1 DEF LevSplit
<1>3. /\ span2[p] = {k \in span[p] : k < s} /\ span2[q] = {k \in span[p] : k >= s}
      /\ \A o \in PageId : o # p /\ o # q => span2[o] = span[o]
  BY <1>1, <1>2 DEF SpanSplit
<1>4. PICK x \in span[p] : x < s
  OBVIOUS
<1>5. x \in Nat /\ span[p] \subseteq Nat
  OBVIOUS
<1>6. PICK a \in Nat :
         \/ ps[p].next = NoPage /\ span[p] = {k \in Nat : k >= a}
         \/ /\ ps[p].next \in PageId /\ lev[ps[p].next] = 1
            /\ \E b \in Nat : a < b /\ span[p] = a .. b - 1 /\ b \in span[ps[p].next]
  BY DEF Linked, LinkSound
<1>7. a <= x /\ a < s /\ s \in span2[q]
  BY <1>3, <1>4, <1>5, <1>6
(* The left half.                                                          *)
<1>8. LinkSound(ps2[p].next, lev2, span2, span2[p])
  <2>1. span2[p] = a .. s - 1
    <3>1. CASE span[p] = {k \in Nat : k >= a}
      BY <1>3, <1>7, <3>1
    <3>2. CASE \E b \in Nat : a < b /\ span[p] = a .. b - 1 /\ b \in span[ps[p].next]
      <4>1. PICK b \in Nat : span[p] = a .. b - 1
        BY <3>2
      <4>2. s <= b - 1
        BY <4>1
      <4> QED
        BY <1>3, <1>7, <4>1, <4>2
    <3> QED
      BY <1>6, <3>1, <3>2
  <2> QED
    BY <1>2, <1>7, <2>1 DEF LinkSound
(* The right half.                                                         *)
<1>9. LinkSound(ps2[q].next, lev2, span2, span2[q])
  <2>1. CASE ps[p].next = NoPage /\ span[p] = {k \in Nat : k >= a}
    <3>1. span2[q] = {k \in Nat : k >= s}
      BY <1>3, <1>7, <2>1
    <3> QED
      BY <2>1, <3>1 DEF LinkSound
  <2>2. CASE /\ ps[p].next \in PageId /\ lev[ps[p].next] = 1
             /\ \E b \in Nat : a < b /\ span[p] = a .. b - 1 /\ b \in span[ps[p].next]
    <3>1. PICK n : n = ps[p].next
      OBVIOUS
    <3>2. PICK b \in Nat : a < b /\ span[p] = a .. b - 1 /\ b \in span[n]
      BY <2>2, <3>1
    <3>3. n # p /\ n # q /\ n \in PageId
      BY <2>2, <3>1, <3>2
    <3>4. s < b /\ span2[q] = s .. b - 1
      BY <1>3, <1>7, <3>2
    <3>5. b \in span2[n] /\ lev2[n] = 1
      BY <1>2, <1>3, <2>2, <3>1, <3>2, <3>3
    <3> QED
      BY <3>1, <3>3, <3>4, <3>5 DEF LinkSound
  <2> QED
    BY <1>6, <2>1, <2>2
(* Another leaf.                                                           *)
<1>10. ASSUME NEW o \in PageId, o # p, o # q, lev2[o] = 1
       PROVE  LinkSound(ps2[o].next, lev2, span2, span2[o])
  <2>1. lev[o] = 1 /\ ps2[o].next = ps[o].next /\ span2[o] = span[o]
    BY <1>2, <1>3, <1>10
  <2>2. PICK n : n = ps[o].next
    OBVIOUS
  <2>3. PICK c \in Nat :
           \/ n = NoPage /\ span[o] = {k \in Nat : k >= c}
           \/ /\ n \in PageId /\ lev[n] = 1
              /\ \E b \in Nat : c < b /\ span[o] = c .. b - 1 /\ b \in span[n]
    BY <2>1, <2>2 DEF Linked, LinkSound
  <2>4. CASE n = NoPage /\ span[o] = {k \in Nat : k >= c}
    BY <2>1, <2>2, <2>4 DEF LinkSound
  <2>5. CASE /\ n \in PageId /\ lev[n] = 1
             /\ \E b \in Nat : c < b /\ span[o] = c .. b - 1 /\ b \in span[n]
    <3>1. PICK b \in Nat : c < b /\ span[o] = c .. b - 1 /\ b \in span[n]
      BY <2>5
    <3>2. n # q /\ lev2[n] = 1
      BY <1>2, <2>5
    <3>3. b \in span2[n]
      <4>1. CASE n # p
        BY <1>3, <2>5, <3>1, <3>2, <4>1
      <4>2. CASE n = p
        <5>1. x >= b
          BY <1>4, <2>1, <2>5, <3>1, <4>2, LinkAhead
        <5> QED
          BY <1>3, <1>4, <1>5, <3>1, <4>2, <5>1
      <4> QED
        BY <4>1, <4>2
    <3> QED
      BY <2>1, <2>2, <2>5, <3>1, <3>2, <3>3 DEF LinkSound
  <2> QED
    BY <2>3, <2>4, <2>5
<1> QED
  BY <1>1, <1>8, <1>9, <1>10 DEF Linked

(* The links when the root has moved down.                                 *)
LEMMA LinkedGrown ==
    ASSUME NEW ps, NEW lev, NEW span, NEW r, NEW q, NEW s,
           Tree(ps, lev, span, r, r, q), Parted(lev, span, r, q, s),
           Linked(ps, lev, span), NEW left \in PageId, ps[left] = Free,
           NEW ps2, GrownAt(ps, ps2, r, left, s, q)
    PROVE  Linked(ps2, LevGrown(lev, r, left), SpanGrown(span, r, left))
<1>1. /\ r \in PageId /\ q \in PageId /\ r # q /\ lev[r] = lev[q] /\ lev[r] >= 1
      /\ lev[left] = 0 /\ lev \in [PageId -> Nat] /\ span \in [PageId -> SUBSET Nat]
      /\ ps = [o \in PageId |-> ps[o]] /\ left # r /\ left # q
  <2>1. lev[left] = 0
    BY FreeOutside
  <2> QED
    BY <2>1 DEF Tree, Parted
<1>2. PICK lev2, span2 : /\ lev2 = LevGrown(lev, r, left)
                         /\ span2 = SpanGrown(span, r, left)
  OBVIOUS
<1>3. /\ lev2[left] = lev[r] /\ lev2[r] = lev[r] + 1
      /\ \A o \in PageId : o # r /\ o # left => lev2[o] = lev[o]
  BY <1>1, <1>2 DEF LevGrown
<1>4. /\ span2[left] = span[r]
      /\ \A o \in PageId : o # r /\ o # left => span2[o] = span[o]
  BY <1>1, <1>2 DEF SpanGrown
<1>5. /\ ps2[left] = ps[r]
      /\ \A o \in PageId : o # r /\ o # left => ps2[o] = ps[o]
  BY <1>1 DEF GrownAt
<1>6. CASE lev[r] # 1
  <2>1. lev2[r] # 1 /\ lev2[left] # 1 /\ lev[left] # 1
    BY <1>1, <1>3, <1>6
  <2>2. \A o \in PageId : lev2[o] = 1 <=> lev[o] = 1
    BY <1>3, <1>6, <2>1
  <2>3. \A o \in PageId : lev[o] = 1 => span2[o] = span[o] /\ ps2[o].next = ps[o].next
    BY <1>4, <1>5, <1>6, <2>1
  <2> QED
    BY <1>2, <2>2, <2>3, LinkedSame
<1>7. CASE lev[r] = 1
  <2>1. span[r] \cup span[q] = Nat /\ Apart(lev, span)
        /\ \A o \in PageId : lev[o] = 1 => span[o] # {}
    BY <1>1, <1>7 DEF Tree, Outer
  <2>2. \A o \in PageId : lev[o] = 1 => o = r \/ o = q
    <3> SUFFICES ASSUME NEW o \in PageId, lev[o] = 1, o # r, o # q PROVE FALSE
      OBVIOUS
    <3>1. PICK k : k \in span[o]
      BY <2>1
    <3>2. k \in span[r] \/ k \in span[q]
      BY <1>1, <2>1, <3>1
    <3> QED
      BY <1>1, <1>7, <2>1, <3>1, <3>2 DEF Apart
  <2>3. \A o \in PageId : lev2[o] = 1 => o = left \/ o = q
    BY <1>3, <1>7, <2>2
  <2>4. /\ lev2[q] = 1 /\ span2[q] = span[q] /\ ps2[q].next = ps[q].next
        /\ span2[left] = span[r] /\ ps2[left].next = ps[r].next
    BY <1>1, <1>3, <1>4, <1>5, <1>7
  <2>5. ASSUME NEW o \in {r, q}
        PROVE  LinkSound(ps[o].next, lev2, span2, span[o])
    <3>1. PICK n, own : n = ps[o].next /\ own = span[o]
      OBVIOUS
    <3>2. PICK a \in Nat :
             \/ n = NoPage /\ own = {k \in Nat : k >= a}
             \/ /\ n \in PageId /\ lev[n] = 1
                /\ \E b \in Nat : a < b /\ own = a .. b - 1 /\ b \in span[n]
      BY <1>1, <1>7, <2>5, <3>1 DEF Linked, LinkSound
    <3>3. CASE n = NoPage /\ own = {k \in Nat : k >= a}
      BY <3>1, <3>3 DEF LinkSound
    <3>4. CASE /\ n \in PageId /\ lev[n] = 1
               /\ \E b \in Nat : a < b /\ own = a .. b - 1 /\ b \in span[n]
      <4>1. PICK b \in Nat : a < b /\ own = a .. b - 1 /\ b \in span[n]
        BY <3>4
      <4>2. n # r
        <5> SUFFICES ASSUME n = r PROVE FALSE
          OBVIOUS
        <5>3. b \in span[r] /\ a \in own /\ b \notin own
          BY <4>1
        <5>1. CASE o = r
          BY <3>1, <5>1, <5>3
        <5>2. CASE o = q
          <6>1. s \in Nat /\ (\A k \in span[r] : k < s) /\ \A k \in span[q] : k >= s
            BY KeyFacts DEF Parted
          <6>2. a \in span[q] /\ b \in span[r]
            BY <3>1, <5>2, <5>3
          <6> QED
            BY <4>1, <6>1, <6>2
        <5> QED
          BY <2>5, <5>1, <5>2
      <4>3. n = q
        BY <2>2, <3>4, <4>2
      <4> QED
        BY <1>1, <2>4, <3>1, <4>1, <4>3 DEF LinkSound
    <3> QED
      BY <3>2, <3>3, <3>4
  <2> QED
    BY <1>2, <2>3, <2>4, <2>5 DEF Linked
<1> QED
  BY <1>6, <1>7

Whole(ps, lev, span, r, es) ==
    Closed(ps, lev, span, r) /\ Holds(ps, lev, es) /\ Linked(ps, lev, span)

(* A tree in which page x has just been split.                             *)
SplitOpen(acc, lev, span, r, x, es) ==
    /\ Tree(acc.pages, lev, span, r, x, acc.right)
    /\ Parted(lev, span, x, acc.right, acc.separator)
    /\ Holds(acc.pages, lev, es)
    /\ Linked(acc.pages, lev, span)

(* What an insert did to page p and maybe a new one.                       *)
Step(acc, ps, lev, span, r, p, es) ==
    \/ acc.separator = NoKey /\ Whole(acc.pages, lev, span, r, es)
    \/ /\ acc.separator # NoKey
       /\ acc.right \in PageId /\ ps[acc.right] = Free
       /\ SplitOpen(acc, LevSplit(lev, p, acc.right),
                    SpanSplit(span, p, acc.right, acc.separator), r, p, es)
       /\ \A o \in PageId : o # p /\ o # acc.right => acc.pages[o] = ps[o]

LEMMA LevSplitIs ==
    ASSUME NEW lev \in [PageId -> Nat], NEW p \in PageId, NEW q \in PageId
    PROVE  LevSplit(lev, p, q)[q] = lev[p]
           /\ \A o \in PageId : o # q => LevSplit(lev, p, q)[o] = lev[o]
BY DEF LevSplit

(* The links when page p becomes another with the same link.               *)
LEMMA LinkedPut ==
    ASSUME NEW ps, ps = [o \in PageId |-> ps[o]], NEW lev, NEW span,
           Linked(ps, lev, span), NEW p \in PageId, NEW page,
           lev[p] = 1 => page.next = ps[p].next, NEW ps2, PutAt(ps, ps2, p, page)
    PROVE  Linked(ps2, lev, span)
<1>1. ps2[p] = page /\ \A o \in PageId : o # p => ps2[o] = ps[o]
  BY DEF PutAt
<1>2. \A o \in PageId : lev[o] = 1 => ps2[o].next = ps[o].next
  BY <1>1
<1> QED
  BY <1>2 DEF Linked

(* The keys of a tree whose leaf p has become another.                     *)
LEMMA HoldsPut ==
    ASSUME NEW ps, NEW lev, NEW es, Holds(ps, lev, es),
           NEW p \in PageId, lev[p] = 1, NEW page, NEW ps2, PutAt(ps, ps2, p, page),
           ps = [o \in PageId |-> ps[o]], NEW es2, es2 \subseteq Key,
           \A k \in Key : k \in es2 <=>
              \/ HasKey(page.cells, k)
              \/ k \in es /\ ~HasKey(ps[p].cells, k),
           \A o \in PageId, k \in Key :
              o # p /\ lev[o] = 1 /\ HasKey(ps[o].cells, k) =>
                 ~HasKey(ps[p].cells, k)
    PROVE  Holds(ps2, lev, es2)
<1>1. ps2[p] = page /\ \A o \in PageId : o # p => ps2[o] = ps[o]
  BY DEF PutAt
<1>2. ASSUME NEW k \in Key
      PROVE  k \in es2 <=> \E o \in PageId : lev[o] = 1 /\ HasKey(ps2[o].cells, k)
  <2>1. k \in es <=> \E o \in PageId : lev[o] = 1 /\ HasKey(ps[o].cells, k)
    BY DEF Holds
  <2>2. ASSUME k \in es2
        PROVE  \E o \in PageId : lev[o] = 1 /\ HasKey(ps2[o].cells, k)
    <3>1. CASE HasKey(page.cells, k)
      BY <1>1, <3>1
    <3>2. CASE ~HasKey(page.cells, k)
      <4>1. k \in es /\ ~HasKey(ps[p].cells, k)
        BY <2>2, <3>2
      <4>2. PICK o \in PageId : lev[o] = 1 /\ HasKey(ps[o].cells, k)
        BY <2>1, <4>1
      <4>3. o # p
        BY <4>1, <4>2
      <4> QED
        BY <1>1, <4>2, <4>3
    <3> QED
      BY <3>1, <3>2
  <2>3. ASSUME NEW o \in PageId, lev[o] = 1, HasKey(ps2[o].cells, k)
        PROVE  k \in es2
    <3>1. CASE o = p
      BY <1>1, <2>3, <3>1
    <3>2. CASE o # p
      <4>1. HasKey(ps[o].cells, k)
        BY <1>1, <2>3, <3>2
      <4> QED
        BY <2>1, <2>3, <3>2, <4>1
    <3> QED
      BY <3>1, <3>2
  <2> QED
    BY <2>2, <2>3
<1> QED
  BY <1>2 DEF Holds

(* A key lies in one leaf only.                                            *)
LEMMA KeyOnce ==
    ASSUME NEW ps, NEW lev, NEW span, NEW r, NEW x, NEW q,
           Tree(ps, lev, span, r, x, q),
           NEW p \in PageId, lev[p] = 1, NEW k, k \in span[p],
           NEW o \in PageId, lev[o] = 1, HasKey(ps[o].cells, k)
    PROVE  o = p
<1>1. LeafSound(ps[o], span[o])
  BY DEF Tree, NodeSound
<1>2. k \in span[o]
  BY <1>1 DEF LeafSound, HasKey
<1> QED
  BY <1>2 DEF Tree, Apart

LEMMA LeafKeys ==
    ASSUME NEW ps, NEW lev, NEW span, NEW r, NEW x, NEW q,
           Tree(ps, lev, span, r, x, q), NEW p \in PageId, lev[p] = 1
    PROVE  /\ ps[p].cells \in Seq(CellSet) /\ Ordered(ps[p].cells)
           /\ InSpan(ps[p].cells, span[p]) /\ IsNode(ps[p], "leaf")
           /\ ps[p].next \in PageId \cup {NoPage} /\ span[p] \subseteq Nat
           /\ Taken("leaf", ps[p].cells) <= PageRoom
           /\ \A k : HasKey(ps[p].cells, k) => k \in span[p]
           /\ ps = [o \in PageId |-> ps[o]]
<1>1. LeafSound(ps[p], span[p]) /\ span[p] \subseteq Nat
  BY DEF Tree, NodeSound
<1>2. ps = [o \in PageId |-> ps[o]]
  BY DEF Tree
<1> QED
  BY <1>1, <1>2 DEF LeafSound, IsNode, InSpan, HasKey

(* The keys of a tree whose leaf p has been put in two.                    *)
LEMMA HoldsSplit ==
    ASSUME NEW ps, NEW lev, NEW es, Holds(ps, lev, es), NEW key \in Key,
           NEW p \in PageId, lev[p] = 1, NEW q \in PageId, lev[q] = 0,
           NEW lev2, lev2[q] = 1, \A o \in PageId : o # q => lev2[o] = lev[o],
           NEW ps2, \A o \in PageId : o # p /\ o # q => ps2[o] = ps[o],
           \A k : HasKey(ps[p].cells, k) \/ k = key <=>
              HasKey(ps2[p].cells, k) \/ HasKey(ps2[q].cells, k)
    PROVE  Holds(ps2, lev2, es \cup {key})
<1>1. q # p
  OBVIOUS
<1>2. ASSUME NEW k \in Key
      PROVE  k \in es \cup {key} <=>
                \E o \in PageId : lev2[o] = 1 /\ HasKey(ps2[o].cells, k)
  <2>1. k \in es <=> \E o \in PageId : lev[o] = 1 /\ HasKey(ps[o].cells, k)
    BY DEF Holds
  <2>2. ASSUME HasKey(ps[p].cells, k) \/ k = key
        PROVE  \E o \in PageId : lev2[o] = 1 /\ HasKey(ps2[o].cells, k)
    <3>1. HasKey(ps2[p].cells, k) \/ HasKey(ps2[q].cells, k)
      BY <2>2
    <3>2. lev2[p] = 1 /\ lev2[q] = 1
      BY <1>1
    <3> QED
      BY <3>1, <3>2
  <2>3. ASSUME NEW o \in PageId, lev[o] = 1, HasKey(ps[o].cells, k), o # p
        PROVE  lev2[o] = 1 /\ HasKey(ps2[o].cells, k)
    <3>1. o # q
      BY <2>3
    <3> QED
      BY <2>3, <3>1
  <2>4. ASSUME NEW o \in PageId, lev2[o] = 1, HasKey(ps2[o].cells, k)
        PROVE  k \in es \cup {key}
    <3>1. CASE o = p \/ o = q
      <4>1. HasKey(ps[p].cells, k) \/ k = key
        BY <2>4, <3>1
      <4> QED
        BY <2>1, <4>1
    <3>2. CASE o # p /\ o # q
      <4>1. lev[o] = 1 /\ HasKey(ps[o].cells, k)
        BY <2>4, <3>2
      <4> QED
        BY <2>1, <4>1
    <3> QED
      BY <3>1, <3>2
  <2> QED
    BY <2>1, <2>2, <2>3, <2>4
<1>3. es \cup {key} \subseteq Key
  BY DEF Holds
<1> QED
  BY <1>2, <1>3 DEF Holds

LEMMA LeafInserted ==
    ASSUME len \in Lengths, NEW ps, NEW lev, NEW span, NEW r, NEW es,
           Whole(ps, lev, span, r, es), NEW p \in PageId, lev[p] = 1,
           NEW key \in Key, key \in span[p], key \notin es, FreeOf(ps) # {},
           NEW acc, acc = InsertIntoLeaf(ps, p, key)
    PROVE  Step(acc, ps, lev, span, r, p, es \cup {key})
<1>1. Tree(ps, lev, span, r, NoPage, NoPage) /\ Holds(ps, lev, es)
      /\ Closed(ps, lev, span, r) /\ Linked(ps, lev, span)
  BY DEF Whole, Closed
<1>2. PICK cells, next : cells = ps[p].cells /\ next = ps[p].next
  OBVIOUS
<1>3. /\ cells \in Seq(CellSet) /\ Ordered(cells) /\ InSpan(cells, span[p])
      /\ IsNode(ps[p], "leaf") /\ next \in PageId \cup {NoPage}
      /\ span[p] \subseteq Nat /\ Taken("leaf", cells) <= PageRoom
      /\ \A k : HasKey(cells, k) => k \in span[p]
      /\ ps = [o \in PageId |-> ps[o]]
  BY <1>1, <1>2, LeafKeys
<1>4. ~HasKey(cells, key)
  BY <1>1, <1>2 DEF Holds
<1>5. \A o \in PageId, k \in Key :
         o # p /\ lev[o] = 1 /\ HasKey(ps[o].cells, k) => k \notin span[p]
  BY <1>1, KeyOnce
<1>6. lev \in [PageId -> Nat] /\ span \in [PageId -> SUBSET Nat] /\ lev[p] >= 1
      /\ Outer(span, NoPage, NoPage) = span
  BY <1>1, OuterNone DEF Tree
<1>7. Next2(ps, lev, p, NoPage)
  BY DEF Next2
<1>8. PICK slot : slot = AtOrAfter(cells, key)
  OBVIOUS
<1>9. PICK at : at = IF slot = 0 THEN Len(cells) + 1 ELSE slot
  OBVIOUS
<1>10. PICK placed : placed = InsertAt(cells, at, Cell(key, NoPage))
  OBVIOUS
<1>11. PlacedAt(cells, at, key, placed)
  BY <1>10 DEF PlacedAt, IsInsert
<1>12. /\ placed \in Seq(CellSet) /\ Ordered(placed) /\ InSpan(placed, span[p])
       /\ \A k : HasKey(placed, k) <=> HasKey(cells, k) \/ k = key
       /\ Taken("leaf", placed)
            = Taken("leaf", cells) + Size("leaf", Cell(key, NoPage))
  BY <1>3, <1>4, <1>8, <1>9, <1>11, LeafPlaced
<1>13. PICK all : all = Live(placed)
  OBVIOUS
<1>14. /\ all \in Seq(LiveCells) /\ Ordered(all) /\ InSpan(all, span[p])
       /\ \A k : HasKey(all, k) <=> HasKey(placed, k)
       /\ Taken("leaf", all) <= Taken("leaf", placed)
  BY <1>12, <1>13, LeafCleaned
<1>15. all \in Seq(CellSet)
  BY <1>14, LiveFacts
<1>16. PICK appends : appends = (Last(all).key = key /\ next = NoPage)
  OBVIOUS
<1>17. PICK mid : mid = IF appends THEN Len(all) - 1 ELSE Midpoint("leaf", all)
  OBVIOUS
<1>18. PICK q : q = Allocate(ps)
  OBVIOUS
<1>19. q \in PageId /\ ps[q] = Free
  BY <1>18, AllocateRight
<1>20. lev[q] = 0 /\ q # p
  <2>1. lev[q] = 0
    BY <1>1, <1>19, FreeOutside
  <2> QED
    BY <1>6, <2>1
(* In place, or without the tombstones.                                    *)
<1>21. ASSUME NEW new, new \in Seq(CellSet), Ordered(new), InSpan(new, span[p]),
              Taken("leaf", new) <= PageRoom,
              \A k : HasKey(new, k) <=> HasKey(cells, k) \/ k = key,
              acc = Done([ps EXCEPT ![p].cells = new])
       PROVE  Step(acc, ps, lev, span, r, p, es \cup {key})
  <2>1. PICK page : page = Page("leaf", new, next)
    OBVIOUS
  <2>2. LeafSound(page, span[p]) /\ page.cells = new
    BY <1>3, <1>21, <2>1, LeafOf
  <2>3. NodeSound(page, span[p], lev[p], span, lev)
    BY <2>2 DEF NodeSound
  <2>4. acc.separator = NoKey /\ PutAt(ps, acc.pages, p, page)
    <3>1. ps[p] = Page("leaf", cells, next)
      BY <1>2, <1>3 DEF IsNode
    <3>2. [ps[p] EXCEPT !.cells = new] = page
      BY <2>1, <3>1 DEF Page
    <3>3. [ps EXCEPT ![p].cells = new] = [ps EXCEPT ![p] = page]
      BY <1>3, <3>2
    <3> QED
      BY <1>21, <3>3 DEF Done, PutAt
  <2>5. Closed(acc.pages, lev, span, r)
    BY <1>1, <1>6, <1>7, <2>3, <2>4, TreePut DEF Closed
  <2>6. Holds(acc.pages, lev, es \cup {key})
    <3>1. es \cup {key} \subseteq Key
      BY <1>1 DEF Holds
    <3>2. \A k \in Key : k \in es /\ HasKey(ps[p].cells, k) => HasKey(new, k)
      BY <1>2, <1>21
    <3>3. \A k \in Key : HasKey(ps[p].cells, k) => k \in es
      BY <1>1 DEF Holds
    <3>4. \A k \in Key : k \in es \cup {key} <=>
             \/ HasKey(page.cells, k)
             \/ k \in es /\ ~HasKey(ps[p].cells, k)
      BY <1>2, <1>21, <2>2, <3>2, <3>3
    <3>5. \A o \in PageId, k \in Key :
             o # p /\ lev[o] = 1 /\ HasKey(ps[o].cells, k) => ~HasKey(ps[p].cells, k)
      BY <1>2, <1>3, <1>5
    <3> QED
      BY <1>1, <1>3, <2>4, <3>1, <3>4, <3>5, HoldsPut
  <2>7. Linked(acc.pages, lev, span)
    <3>1. page.next = ps[p].next
      BY <1>2, <2>1 DEF Page
    <3> QED
      BY <1>1, <1>3, <2>4, <3>1, LinkedPut
  <2> QED
    BY <2>4, <2>5, <2>6, <2>7 DEF Step, Whole
<1>22. CASE Fits("leaf", placed)
  <2>1. acc = Done([ps EXCEPT ![p].cells = placed])
    BY <1>2, <1>8, <1>9, <1>10, <1>22 DEF InsertIntoLeaf
  <2>2. Taken("leaf", placed) <= PageRoom
    BY <1>22 DEF Fits
  <2> QED
    BY <1>12, <1>21, <2>1, <2>2
<1>23. CASE ~Fits("leaf", placed) /\ Fits("leaf", all)
  <2>1. acc = Done([ps EXCEPT ![p].cells = all])
    BY <1>2, <1>8, <1>9, <1>10, <1>13, <1>23 DEF InsertIntoLeaf
  <2>2. Taken("leaf", all) <= PageRoom
    BY <1>23 DEF Fits
  <2>3. \A k : HasKey(all, k) <=> HasKey(cells, k) \/ k = key
    BY <1>12, <1>14
  <2> QED
    BY <1>14, <1>15, <1>21, <2>1, <2>2, <2>3
<1>24. CASE ~Fits("leaf", placed) /\ ~Fits("leaf", all)
  <2>1. PICK a, b : a = SubSeq(all, 1, mid) /\ b = SubSeq(all, mid + 1, Len(all))
    OBVIOUS
  <2>2. PICK s : s = all[mid + 1].key
    OBVIOUS
  <2>3. PICK left, right : left = Page("leaf", a, q) /\ right = Page("leaf", b, next)
    OBVIOUS
  <2>4. acc = Split(ps, p, left, q, right, s)
    BY <1>2, <1>8, <1>9, <1>10, <1>13, <1>16, <1>17, <1>18, <1>24, <2>1, <2>2, <2>3,
       ZenonT(60)
       DEF InsertIntoLeaf
  <2>5. CutAt(all, mid, a, b)
    BY <2>1 DEF CutAt
  <2>6. HasKey(all, key)
    BY <1>12, <1>14
  <2>7. Taken("leaf", all) > PageRoom
        /\ Taken("leaf", all) - Size("leaf", Cell(key, NoPage)) <= PageRoom
    <3>1. Taken("leaf", all) \in Nat /\ Taken("leaf", cells) \in Nat
      BY <1>3, <1>15, TakenIs
    <3>2. Size("leaf", Cell(key, NoPage)) \in Nat
      BY KeyCell, SizeFacts
    <3> QED
      BY <1>3, <1>12, <1>14, <1>24, <3>1, <3>2, Lens DEF Fits
  <2>8. \/ mid = Midpoint("leaf", all)
        \/ mid = Len(all) - 1 /\ all[Len(all)].key = key
    BY <1>16, <1>17 DEF Last
  <2>9. /\ mid \in 1 .. Len(all) - 1
        /\ Taken("leaf", a) <= PageRoom /\ Taken("leaf", b) <= PageRoom
    BY <1>14, <2>5, <2>6, <2>7, <2>8, LeafHalvesFit
  <2>10. PICK lo, hi : lo = {k \in span[p] : k < s} /\ hi = {k \in span[p] : k >= s}
    OBVIOUS
  <2>11. /\ a \in Seq(CellSet) /\ b \in Seq(CellSet) /\ Ordered(a) /\ Ordered(b)
         /\ s \in Key /\ s \in span[p]
         /\ InSpan(a, lo) /\ InSpan(b, hi) /\ lo # {}
         /\ \A k : HasKey(all, k) <=> HasKey(a, k) \/ HasKey(b, k)
    <3>1. PICK sp : sp = span[p]
      OBVIOUS
    <3>2. /\ len \in Lengths /\ all \in Seq(LiveCells) /\ Ordered(all)
          /\ sp \subseteq Nat /\ InSpan(all, sp) /\ mid \in 1 .. Len(all) - 1
          /\ CutAt(all, mid, a, b)
      BY <1>3, <1>14, <2>5, <2>9, <3>1
    <3>3. LeafParts(all, sp, a, b, s)
      BY ONLY <2>2, <3>2, LeafCut
    <3> QED
      BY <2>10, <3>1, <3>3 DEF LeafParts
  <2>12. LeafSound(left, lo) /\ left.cells = a
    BY <1>19, <2>3, <2>9, <2>11, LeafOf
  <2>13. LeafSound(right, hi) /\ right.cells = b
    BY <1>3, <2>3, <2>9, <2>11, LeafOf
  <2>14. NodeSound(left, lo, lev[p], span, lev) /\ NodeSound(right, hi, lev[p], span, lev)
    BY <2>12, <2>13 DEF NodeSound
  <2>15. /\ acc.separator = s /\ acc.right = q
         /\ SplitAt(ps, acc.pages, p, left, q, right)
    BY <2>4 DEF Split, SplitAt
  <2>16. /\ Tree(acc.pages, LevSplit(lev, p, q), SpanSplit(span, p, q, s), r, p, q)
         /\ Parted(LevSplit(lev, p, q), SpanSplit(span, p, q, s), p, q, s)
    BY <1>1, <1>6, <1>7, <1>19, <2>10, <2>11, <2>14, <2>15, TreeSplit
  <2>17. /\ acc.pages[p] = left /\ acc.pages[q] = right
         /\ \A o \in PageId : o # p /\ o # q => acc.pages[o] = ps[o]
    BY <1>3, <1>19, <1>20, <2>15 DEF SplitAt
  <2>18. PICK lev2 : lev2 = LevSplit(lev, p, q)
    OBVIOUS
  <2>19. lev2[q] = 1 /\ \A o \in PageId : o # q => lev2[o] = lev[o]
    BY <1>6, <1>19, <2>18, LevSplitIs
  <2>20. \A k : HasKey(ps[p].cells, k) \/ k = key <=>
            HasKey(acc.pages[p].cells, k) \/ HasKey(acc.pages[q].cells, k)
    BY <1>2, <1>12, <1>14, <2>11, <2>12, <2>13, <2>17
  <2>21. Holds(acc.pages, lev2, es \cup {key})
    BY <1>1, <1>19, <1>20, <2>17, <2>19, <2>20, HoldsSplit
  <2>22. s # NoKey
    BY <2>11, KeyFacts
  <2>23. Linked(acc.pages, lev2, SpanSplit(span, p, q, s))
    <3>1. acc.pages[p].next = q /\ acc.pages[q].next = ps[p].next
      BY <1>2, <2>3, <2>17 DEF Page
    <3>2. s \in Nat /\ {k \in span[p] : k < s} # {} /\ Apart(lev, span)
      BY <1>1, <2>10, <2>11, KeyFacts DEF Tree
    <3>3. PICK new : new = acc.pages
      OBVIOUS
    <3>4. /\ lev \in [PageId -> Nat] /\ span \in [PageId -> SUBSET Nat]
          /\ Linked(ps, lev, span) /\ Apart(lev, span)
          /\ p \in PageId /\ lev[p] = 1 /\ q \in PageId /\ lev[q] = 0
          /\ s \in Nat /\ s \in span[p] /\ {k \in span[p] : k < s} # {}
          /\ new[p].next = q /\ new[q].next = ps[p].next
          /\ \A o \in PageId : o # p /\ o # q => new[o] = ps[o]
      BY <1>1, <1>6, <1>19, <1>20, <2>11, <2>17, <3>1, <3>2, <3>3
    <3>5. Linked(new, LevSplit(lev, p, q), SpanSplit(span, p, q, s))
      BY ONLY <3>4, LinkedSplit
    <3> QED
      BY <2>18, <3>3, <3>5
  <2> QED
    BY <1>19, <2>15, <2>16, <2>17, <2>18, <2>21, <2>22, <2>23 DEF Step, SplitOpen
<1> QED
  BY <1>22, <1>23, <1>24

-----------------------------------------------------------------------------
(* `insert_into_branch`.                                                   *)

(* A branch as it should be, but for its size.                             *)
BranchShape(cells, next, span, l, out, lev) ==
    /\ cells \in Seq(LiveCells) /\ next \in PageId \cup {NoPage} /\ Ordered(cells)
    /\ \A i \in 1 .. Len(cells) : cells[i].key \in span
    /\ \A i \in 1 .. Len(cells) + 1 :
          LET c == IF i <= Len(cells) THEN cells[i].child ELSE next
          IN  /\ c \in PageId /\ lev[c] >= 1 /\ lev[c] + 1 = l
              /\ out[c] = Place(cells, span, i)

LEMMA BranchOf ==
    ASSUME NEW cells, NEW next, NEW span, NEW l, NEW out, NEW lev,
           BranchShape(cells, next, span, l, out, lev),
           cells # <<>>, Taken("branch", cells) <= PageRoom,
           NEW page, page = Page("branch", cells, next)
    PROVE  BranchSound(page, span, l, out, lev)
<1>1. page.cells = cells /\ page.next = next
      /\ page = Page("branch", page.cells, page.next)
  BY DEF Page
<1>2. /\ cells \in Seq(LiveCells) /\ next \in PageId \cup {NoPage} /\ Ordered(cells)
      /\ \A i \in 1 .. Len(cells) : cells[i].key \in span
      /\ cells \in Seq(CellSet)
  BY LiveFacts DEF BranchShape
<1>3. IsNode(page, "branch")
  BY <1>1, <1>2 DEF IsNode
<1>4. ASSUME NEW i \in 1 .. Len(cells) + 1
      PROVE  /\ Child(page, i) \in PageId
             /\ lev[Child(page, i)] >= 1 /\ lev[Child(page, i)] + 1 = l
             /\ out[Child(page, i)] = Place(cells, span, i)
  BY <1>1 DEF BranchShape, Child
<1> QED
  BY <1>1, <1>2, <1>3, <1>4 DEF BranchSound

(* What `insert_into_branch` makes of the cells: x, that was the child     *)
(* at place `at`, keeps what is below s, and q has the rest.               *)
Routed(cells, at, q) ==
    IF at > Len(cells) THEN cells ELSE [cells EXCEPT ![at].child = q]

LEMMA RoutedIs ==
    ASSUME len \in Lengths, NEW cells \in Seq(LiveCells),
           NEW at \in 1 .. Len(cells) + 1, NEW q \in PageId, NEW t, t = Routed(cells, at, q)
    PROVE  /\ t \in Seq(LiveCells) /\ Len(t) = Len(cells)
           /\ \A i \in 1 .. Len(cells) : /\ t[i].key = cells[i].key
                                         /\ i # at => t[i] = cells[i]
           /\ at <= Len(cells) => t[at].child = q
           /\ Taken("branch", t) = Taken("branch", cells)
<1>1. PICK n \in Nat : n = Len(cells)
  OBVIOUS
<1>2. cells \in Seq(CellSet)
      /\ \A i \in 1 .. n : cells[i] \in LiveCells /\ cells[i] # Tombstone
  BY <1>1, LiveFacts
<1>3. CASE at > n
  BY <1>1, <1>3 DEF Routed
<1>4. CASE ~(at > n)
  <2>1. at \in 1 .. n
    BY <1>1, <1>4
  <2>2. PICK c : c = [cells[at] EXCEPT !.child = q]
    OBVIOUS
  <2>3. c \in LiveCells /\ c.key = cells[at].key /\ c.child = q
    <3>1. cells[at] \in LiveCells
      BY <1>2, <2>1
    <3> QED
      BY <2>2, <3>1 DEF LiveCells
  <2>4. t = [cells EXCEPT ![at] = c]
    BY <1>1, <1>4, <2>1, <2>2 DEF Routed
  <2>5. /\ t \in Seq(LiveCells) /\ Len(t) = n /\ t[at] = c
        /\ \A i \in 1 .. n : i # at => t[i] = cells[i]
    BY <1>1, <2>1, <2>3, <2>4
  <2>6. \A i \in 1 .. n : t[i].key = cells[i].key
    BY <2>3, <2>5
  <2>7. t \in Seq(CellSet) /\ \A i \in 1 .. n : t[i] # Tombstone
    BY <2>5, LiveFacts
  <2>8. Taken("branch", t) = Taken("branch", cells)
    <3>1. PICK f, g : f = Sizes("branch", cells) /\ g = Sizes("branch", t)
      OBVIOUS
    <3>2. /\ \A i \in 1 .. n : f[i] = Size("branch", cells[i])
          /\ Taken("branch", cells) = SumTo(f, n)
      BY <1>1, <1>2, <3>1, TakenIs
    <3>3. /\ \A i \in 1 .. n : g[i] = Size("branch", t[i])
          /\ Taken("branch", t) = SumTo(g, n)
      BY <2>5, <2>7, <3>1, TakenIs
    <3>4. \A i \in 1 .. n : f[i] = g[i]
      BY <1>2, <2>6, <2>7, <3>2, <3>3 DEF Size
    <3>5. SumTo(f, n) = SumTo(g, n)
      BY <3>4, SumSame
    <3> QED
      BY <3>2, <3>3, <3>5
  <2> QED
    BY <1>1, <2>1, <2>3, <2>5, <2>6, <2>8
<1> QED
  BY <1>3, <1>4

(* The children of the branch with a separator more.                       *)
Below2(cells, next, i) == IF i <= Len(cells) THEN cells[i].child ELSE next

SeparatorPut(cells, next, x, q, s, t, next2, at) ==
    /\ Separated(cells, t, s, at)
    /\ next2 \in PageId \cup {NoPage}
    /\ Below2(t, next2, at) = x /\ Below2(t, next2, at + 1) = q
    /\ \A i \in 1 .. at - 1 : Below2(t, next2, i) = Below2(cells, next, i)
    /\ \A i \in at + 1 .. Len(cells) + 1 :
          Below2(t, next2, i + 1) = Below2(cells, next, i)
    /\ Taken("branch", t) = Taken("branch", cells) + Size("branch", t[at])

LEMMA SeparatorIn ==
    ASSUME len \in Lengths, NEW cells \in Seq(LiveCells), Ordered(cells),
           NEW next \in PageId \cup {NoPage}, NEW at \in 1 .. Len(cells) + 1,
           NEW x \in PageId, NEW q \in PageId, NEW s \in Key,
           NEW t, IsInsert(Routed(cells, at, q), at, Cell(s, x), t),
           NEW next2, next2 = IF at > Len(cells) THEN q ELSE next
    PROVE  SeparatorPut(cells, next, x, q, s, t, next2, at)
<1>1. PICK n \in Nat : n = Len(cells)
  OBVIOUS
<1>2. PICK u : u = Routed(cells, at, q)
  OBVIOUS
<1>3. /\ u \in Seq(LiveCells) /\ Len(u) = n
      /\ \A i \in 1 .. n : u[i].key = cells[i].key /\ (i # at => u[i] = cells[i])
      /\ at <= n => u[at].child = q
      /\ Taken("branch", u) = Taken("branch", cells)
  BY <1>1, <1>2, RoutedIs
<1>4. PICK c : c = Cell(s, x)
  OBVIOUS
<1>5. c \in LiveCells /\ c.key = s /\ c.child = x /\ c \in CellSet
  BY <1>4 DEF LiveCells, Cell, CellSet
<1>6. IsInsert(u, at, c, t) /\ at \in 1 .. Len(u) + 1 /\ at \in 1 .. n + 1
  BY <1>1, <1>2, <1>3, <1>4
<1>7. /\ t \in Seq(LiveCells) /\ Len(t) = n + 1 /\ t[at] = c
      /\ \A j \in 1 .. at - 1 : t[j] = u[j]
      /\ \A j \in at + 1 .. n + 1 : t[j] = u[j - 1]
  <2>1. PICK T : T = LiveCells
    OBVIOUS
  <2>2. u \in Seq(T) /\ c \in T
    BY <1>3, <1>5, <2>1
  <2>4. u \in Seq(T) /\ c \in T /\ IsInsert(u, at, c, t) /\ at \in 1 .. Len(u) + 1
    BY <1>6, <2>2
  <2>3. /\ t \in Seq(T) /\ Len(t) = Len(u) + 1 /\ t[at] = c
        /\ \A j \in 1 .. at - 1 : t[j] = u[j]
        /\ \A j \in at + 1 .. Len(u) + 1 : t[j] = u[j - 1]
    BY ONLY <2>4, InsertedAt
  <2> QED
    BY <1>3, <2>1, <2>3
<1>8. Separated(cells, t, s, at)
  <2>1. ASSUME NEW i \in 1 .. at - 1 PROVE t[i].key = cells[i].key
    <3>1. i \in 1 .. n
      BY <1>6
    <3> QED
      BY <1>3, <1>7, <3>1
  <2>2. ASSUME NEW i \in at + 1 .. n + 1 PROVE t[i].key = cells[i - 1].key
    <3>1. i - 1 \in 1 .. n
      BY <1>6
    <3> QED
      BY <1>3, <1>7, <3>1
  <2> QED
    BY <1>1, <1>5, <1>7, <2>1, <2>2 DEF Separated
<1>9. Below2(t, next2, at) = x
  BY <1>5, <1>6, <1>7 DEF Below2
<1>10. Below2(t, next2, at + 1) = q
  <2>1. CASE at > n
    BY <1>1, <1>6, <1>7, <2>1 DEF Below2
  <2>2. CASE ~(at > n)
    <3>1. at + 1 \in at + 1 .. n + 1 /\ (at + 1) - 1 = at /\ at <= n
      BY <1>6, <2>2
    <3> QED
      BY <1>3, <1>7, <3>1 DEF Below2
  <2> QED
    BY <2>1, <2>2
<1>11. ASSUME NEW i \in 1 .. at - 1
       PROVE  Below2(t, next2, i) = Below2(cells, next, i)
  <2>1. i \in 1 .. n /\ i # at /\ i <= n + 1 /\ i <= n
    BY <1>6
  <2> QED
    BY <1>1, <1>3, <1>7, <2>1 DEF Below2
<1>12. ASSUME NEW i \in at + 1 .. n + 1
       PROVE  Below2(t, next2, i + 1) = Below2(cells, next, i)
  <2>1. CASE i = n + 1
    <3>1. ~(at > n) /\ ~(i + 1 <= n + 1) /\ ~(i <= n)
      BY <1>6, <2>1
    <3> QED
      BY <1>1, <1>7, <3>1 DEF Below2
  <2>2. CASE i # n + 1
    <3>1. i + 1 \in at + 1 .. n + 1 /\ (i + 1) - 1 = i /\ i \in 1 .. n /\ i # at
          /\ i <= n /\ i + 1 <= n + 1
      BY <1>6, <2>2
    <3> QED
      BY <1>1, <1>3, <1>7, <3>1 DEF Below2
  <2> QED
    BY <2>1, <2>2
<1>13. Taken("branch", t) = Taken("branch", cells) + Size("branch", c)
  <2>1. u \in Seq(CellSet)
    BY <1>3, LiveFacts
  <2>2. Taken("branch", t) = Taken("branch", u) + Size("branch", c)
    BY <1>5, <1>6, <2>1, TakenInserted
  <2> QED
    BY <1>3, <2>2
<1>14. next2 \in PageId \cup {NoPage}
  OBVIOUS
<1> QED
  BY <1>1, <1>7, <1>8, <1>9, <1>10, <1>11, <1>12, <1>13, <1>14 DEF SeparatorPut

LEMMA HalfOf ==
    ASSUME NEW t \in Seq(LiveCells), NEW mid \in 1 .. Len(t),
           NEW a, a = SubSeq(t, 1, mid - 1), NEW b, b = SubSeq(t, mid + 1, Len(t))
    PROVE  Halved(t, mid, a, b)
<1>1. PICK n \in Nat : n = Len(t)
  OBVIOUS
<1>2. PICK T : T = LiveCells
  OBVIOUS
<1>3. t \in Seq(T) /\ mid \in 1 .. n
  BY <1>1, <1>2
<1>4. /\ a \in Seq(T) /\ Len(a) = mid - 1
      /\ \A i \in 1 .. mid - 1 : a[i] = t[i]
  BY <1>1, <1>3
<1>5. /\ b \in Seq(T) /\ Len(b) = n - mid
      /\ \A i \in 1 .. n - mid : b[i] = t[mid + i]
  BY <1>1, <1>3
<1> QED
  BY <1>1, <1>2, <1>4, <1>5 DEF Halved

(* The halves of a branch that has grown too large.                        *)
IsHalves(t, next, mid, left, right) ==
    /\ left = Page("branch", SubSeq(t, 1, mid - 1), t[mid].child)
    /\ right = Page("branch", SubSeq(t, mid + 1, Len(t)), next)

BranchParts(s, sp, l, out, lev, left, right) ==
    /\ s \in Key /\ s \in sp
    /\ {k \in sp : k < s} # {}
    /\ BranchSound(left, {k \in sp : k < s}, l, out, lev)
    /\ BranchSound(right, {k \in sp : k >= s}, l, out, lev)

LEMMA BranchHalves ==
    ASSUME len \in Lengths, NEW t, NEW next, NEW sp, sp \subseteq Nat,
           NEW l, NEW out, NEW lev, BranchShape(t, next, sp, l, out, lev),
           Taken("branch", t) > PageRoom, NEW at \in 1 .. Len(t),
           Taken("branch", t) - Size("branch", t[at]) <= PageRoom,
           NEW mid, mid = Midpoint("branch", t),
           NEW left, NEW right, IsHalves(t, next, mid, left, right)
    PROVE  BranchParts(t[mid].key, sp, l, out, lev, left, right)
<1>1. /\ t \in Seq(LiveCells) /\ next \in PageId \cup {NoPage} /\ Ordered(t)
      /\ \A i \in 1 .. Len(t) : t[i].key \in sp
  BY DEF BranchShape
<1>2. PICK n \in Nat : n = Len(t)
  BY <1>1
<1>3. \A i \in 1 .. n + 1 : /\ Below2(t, next, i) \in PageId
                            /\ lev[Below2(t, next, i)] >= 1
                            /\ lev[Below2(t, next, i)] + 1 = l
                            /\ out[Below2(t, next, i)] = Place(t, sp, i)
  BY <1>2 DEF BranchShape, Below2
<1>4. PICK a, b : a = SubSeq(t, 1, mid - 1) /\ b = SubSeq(t, mid + 1, Len(t))
  OBVIOUS
<1>5. /\ mid \in 2 .. Len(t) - 1
      /\ Taken("branch", SubSeq(t, 1, mid - 1)) <= PageRoom
      /\ Taken("branch", SubSeq(t, mid + 1, Len(t))) <= PageRoom
  BY <1>1, HalvesFit
<1>6. mid \in 1 .. Len(t) /\ mid \in 1 .. n /\ mid \in 2 .. n - 1
  BY <1>2, <1>5
<1>7. Halved(t, mid, a, b)
  BY <1>1, <1>4, <1>6, HalfOf
<1>8. PICK s, lo, hi : s = t[mid].key /\ lo = {k \in sp : k < s}
                       /\ hi = {k \in sp : k >= s}
  OBVIOUS
<1>9. /\ Ordered(a) /\ Ordered(b)
      /\ \A i \in 1 .. mid : Place(a, lo, i) = Place(t, sp, i)
      /\ \A i \in 1 .. Len(t) - mid + 1 : Place(b, hi, i) = Place(t, sp, mid + i)
      /\ \A i \in 1 .. mid - 1 : t[i].key < t[mid].key
      /\ \A i \in mid + 1 .. Len(t) : t[mid].key < t[i].key
  <2>1. /\ t \in Seq(LiveCells) /\ Ordered(t) /\ sp \subseteq Nat
        /\ mid \in 1 .. Len(t) /\ Halved(t, mid, a, b)
        /\ lo = Lower(sp, t[mid].key) /\ hi = Upper(sp, t[mid].key)
    BY <1>1, <1>6, <1>7, <1>8 DEF Lower, Upper
  <2>2. PlacesHalved(t, sp, mid, a, lo, b, hi)
    BY ONLY <2>1, HalvedPlaces
  <2> QED
    BY <2>2 DEF PlacesHalved
<1>10. /\ a \in Seq(LiveCells) /\ b \in Seq(LiveCells)
       /\ Len(a) = mid - 1 /\ Len(b) = n - mid
       /\ \A i \in 1 .. mid - 1 : a[i] = t[i]
       /\ \A i \in 1 .. n - mid : b[i] = t[mid + i]
  BY <1>2, <1>7 DEF Halved
<1>11. \A i \in 1 .. n : t[i].key \in Key /\ t[i].key \in Nat /\ t[i].key \in sp
                         /\ t[i].child \in PageId \cup {NoPage} /\ t[i] \in LiveCells
  BY <1>1, <1>2, LiveFacts DEF LiveCells
<1>12. s \in Key /\ s \in sp /\ s \in Nat
  BY <1>6, <1>8, <1>11
<1>13. lo # {}
  <2>1. 1 \in 1 .. mid - 1 /\ 1 \in 1 .. n
    BY <1>6
  <2>2. t[1].key \in lo
    BY <1>8, <1>9, <1>11, <2>1
  <2> QED
    BY <2>2
<1>14. BranchShape(a, t[mid].child, lo, l, out, lev)
  <2>1. ASSUME NEW i \in 1 .. Len(a) PROVE a[i].key \in lo
    <3>1. i \in 1 .. mid - 1 /\ i \in 1 .. n
      BY <1>6, <1>10
    <3> QED
      BY <1>8, <1>9, <1>10, <1>11, <3>1
  <2>2. ASSUME NEW i \in 1 .. Len(a) + 1
        PROVE  /\ Below2(a, t[mid].child, i) = Below2(t, next, i)
               /\ i \in 1 .. n + 1 /\ i \in 1 .. mid
    <3>1. i \in 1 .. mid /\ i \in 1 .. n + 1 /\ i <= n
      BY <1>6, <1>10
    <3>2. CASE i = mid
      BY <1>2, <1>6, <1>10, <3>1, <3>2 DEF Below2
    <3>3. CASE i # mid
      <4>1. i \in 1 .. mid - 1
        BY <1>6, <3>1, <3>3
      <4> QED
        BY <1>2, <1>10, <3>1, <4>1 DEF Below2
    <3> QED
      BY <3>1, <3>2, <3>3
  <2>3. ASSUME NEW i \in 1 .. Len(a) + 1
        PROVE  /\ Below2(a, t[mid].child, i) \in PageId
               /\ lev[Below2(a, t[mid].child, i)] >= 1
               /\ lev[Below2(a, t[mid].child, i)] + 1 = l
               /\ out[Below2(a, t[mid].child, i)] = Place(a, lo, i)
    BY <1>3, <1>9, <2>2
  <2>4. t[mid].child \in PageId \cup {NoPage}
    BY <1>6, <1>11
  <2> QED
    BY <1>9, <1>10, <2>1, <2>3, <2>4 DEF BranchShape, Below2
<1>15. BranchShape(b, next, hi, l, out, lev)
  <2>1. ASSUME NEW i \in 1 .. Len(b) PROVE b[i].key \in hi
    <3>1. mid + i \in mid + 1 .. n /\ mid + i \in 1 .. n /\ i \in 1 .. n - mid
      BY <1>6, <1>10
    <3>2. t[mid].key < t[mid + i].key /\ t[mid + i].key \in sp
          /\ t[mid + i].key \in Nat /\ t[mid].key \in Nat
      BY <1>2, <1>6, <1>9, <1>11, <3>1
    <3>3. t[mid + i].key >= t[mid].key
      BY <3>2
    <3> QED
      BY <1>8, <1>10, <3>1, <3>2, <3>3
  <2>2. ASSUME NEW i \in 1 .. Len(b) + 1
        PROVE  /\ Below2(b, next, i) = Below2(t, next, mid + i)
               /\ mid + i \in 1 .. n + 1 /\ i \in 1 .. n - mid + 1
    <3>1. i \in 1 .. n - mid + 1 /\ mid + i \in 1 .. n + 1
      BY <1>6, <1>10
    <3>2. CASE i = n - mid + 1
      <4>1. ~(i <= Len(b)) /\ ~(mid + i <= Len(t))
        <5>1. PICK c, d \in Nat : c = Len(b) /\ d = mid
          BY <1>6, <1>10
        <5>2. c = n - d /\ i = n - d + 1
          BY <1>10, <3>2, <5>1
        <5> QED
          BY <1>2, <5>1, <5>2
      <4> QED
        BY <3>1, <4>1 DEF Below2
    <3>3. CASE i # n - mid + 1
      <4>1. i \in 1 .. n - mid /\ i <= n - mid /\ mid + i <= n
        BY <1>6, <3>1, <3>3
      <4> QED
        BY <1>2, <1>10, <3>1, <4>1 DEF Below2
    <3> QED
      BY <3>1, <3>2, <3>3
  <2>3. ASSUME NEW i \in 1 .. Len(b) + 1
        PROVE  /\ Below2(b, next, i) \in PageId
               /\ lev[Below2(b, next, i)] >= 1
               /\ lev[Below2(b, next, i)] + 1 = l
               /\ out[Below2(b, next, i)] = Place(b, hi, i)
    BY <1>2, <1>3, <1>9, <2>2
  <2> QED
    BY <1>1, <1>9, <1>10, <2>1, <2>3 DEF BranchShape, Below2
<1>16. a # <<>> /\ b # <<>>
  BY <1>6, <1>10
<1>17. left = Page("branch", a, t[mid].child) /\ right = Page("branch", b, next)
  BY <1>4 DEF IsHalves
<1>18. Taken("branch", a) <= PageRoom /\ Taken("branch", b) <= PageRoom
  BY <1>4, <1>5
<1>19. BranchSound(left, lo, l, out, lev)
  BY <1>14, <1>16, <1>17, <1>18, BranchOf
<1>20. BranchSound(right, hi, l, out, lev)
  BY <1>15, <1>16, <1>17, <1>18, BranchOf
<1> QED
  BY <1>8, <1>12, <1>13, <1>19, <1>20 DEF BranchParts

(* The leaves stay when a branch is changed or put in two.                 *)
LEMMA HoldsBranch ==
    ASSUME NEW ps, NEW lev, NEW es, Holds(ps, lev, es),
           NEW p \in PageId, lev[p] # 1, NEW q, lev[q] # 1,
           NEW lev2, lev2[q] # 1, \A o \in PageId : o # q => lev2[o] = lev[o],
           NEW ps2, \A o \in PageId : o # p /\ o # q => ps2[o] = ps[o]
    PROVE  Holds(ps2, lev2, es)
<1>1. \A o \in PageId : lev2[o] = 1 <=> lev[o] = 1
  OBVIOUS
<1>2. \A o \in PageId : lev[o] = 1 => ps2[o] = ps[o]
  OBVIOUS
<1> QED
  BY <1>1, <1>2 DEF Holds

(* A branch whose child x has been split: what routes to x and to q.       *)
LEMMA BranchWith ==
    ASSUME len \in Lengths, NEW ps, NEW lev, NEW span, NEW r, NEW x, NEW q, NEW s,
           Tree(ps, lev, span, r, x, q), Parted(lev, span, x, q, s),
           NEW p \in PageId, lev[p] > 1,
           NEW at \in 1 .. Len(ps[p].cells) + 1, Child(ps[p], at) = x,
           NEW t, IsInsert(Routed(ps[p].cells, at, q), at, Cell(s, x), t),
           NEW next2, next2 = IF at > Len(ps[p].cells) THEN q ELSE ps[p].next
    PROVE  /\ BranchShape(t, next2, span[p], lev[p], span, lev)
           /\ t # <<>> /\ at \in 1 .. Len(t)
           /\ Taken("branch", t) - Size("branch", t[at]) <= PageRoom
<1>1. PICK cells, next, sp : cells = ps[p].cells /\ next = ps[p].next /\ sp = span[p]
  OBVIOUS
<1>2. PICK n \in Nat : n = Len(cells)
  BY <1>1, ChildIn DEF IsNode
<1>3. /\ lev \in [PageId -> Nat] /\ span \in [PageId -> SUBSET Nat] /\ sp \subseteq Nat
      /\ \A o \in PageId : lev[o] >= 1 => span[o] # {}
  BY <1>1 DEF Tree
<1>4. BranchSound(ps[p], sp, lev[p], Outer(span, x, q), lev)
  <2>1. lev[p] \in Nat /\ lev[p] >= 1 /\ lev[p] # 1
    BY <1>3
  <2> QED
    BY <1>1, <2>1 DEF Tree, NodeSound
<1>5. /\ cells \in Seq(LiveCells) /\ Ordered(cells) /\ next \in PageId \cup {NoPage}
      /\ \A i \in 1 .. n : cells[i].key \in sp
      /\ Taken("branch", cells) <= PageRoom
      /\ \A i \in 1 .. n + 1 :
            /\ Child(ps[p], i) \in PageId
            /\ lev[Child(ps[p], i)] >= 1 /\ lev[Child(ps[p], i)] + 1 = lev[p]
            /\ Outer(span, x, q)[Child(ps[p], i)] = Place(cells, sp, i)
      /\ \A i \in 1 .. n + 1 : Child(ps[p], i) = Below2(cells, next, i)
  BY <1>1, <1>2, <1>4 DEF BranchSound, IsNode, Child, Below2
<1>6. /\ x \in PageId /\ q \in PageId /\ x # q /\ lev[x] = lev[q] /\ lev[x] >= 1
      /\ s \in Key /\ s \in span[q]
      /\ \A k \in span[x] : k < s
      /\ \A k \in span[q] : k >= s
  BY DEF Parted
<1>7. at \in 1 .. n + 1 /\ lev[x] + 1 = lev[p] /\ Place(cells, sp, at) = span[x] \cup span[q]
  <2>1. Outer(span, x, q)[x] = span[x] \cup span[q]
    BY <1>6 DEF Outer
  <2> QED
    BY <1>1, <1>2, <1>5, <2>1
<1>8. PICK k0 : k0 \in span[x]
  BY <1>3, <1>6
<1>9. s \in Place(cells, sp, at) /\ k0 \in Place(cells, sp, at) /\ k0 < s /\ s \in sp
  BY <1>6, <1>7, <1>8 DEF Place
<1>10. /\ Separated(cells, t, s, at)
       /\ next2 \in PageId \cup {NoPage}
       /\ Below2(t, next2, at) = x /\ Below2(t, next2, at + 1) = q
       /\ \A i \in 1 .. at - 1 : Below2(t, next2, i) = Below2(cells, next, i)
       /\ \A i \in at + 1 .. n + 1 :
             Below2(t, next2, i + 1) = Below2(cells, next, i)
       /\ Taken("branch", t) = Taken("branch", cells) + Size("branch", t[at])
  <2>1. /\ cells \in Seq(LiveCells) /\ Ordered(cells) /\ next \in PageId \cup {NoPage}
        /\ at \in 1 .. Len(cells) + 1 /\ x \in PageId /\ q \in PageId /\ s \in Key
        /\ IsInsert(Routed(cells, at, q), at, Cell(s, x), t)
        /\ next2 = IF at > Len(cells) THEN q ELSE next
    BY <1>1, <1>5, <1>6
  <2>2. SeparatorPut(cells, next, x, q, s, t, next2, at)
    BY <2>1, SeparatorIn
  <2> QED
    BY <1>2, <2>2 DEF SeparatorPut
<1>11. /\ Ordered(t)
       /\ Place(t, sp, at) = span[x] /\ Place(t, sp, at + 1) = span[q]
       /\ \A i \in 1 .. at - 1 : Place(t, sp, i) = Place(cells, sp, i)
       /\ \A i \in at + 1 .. n + 1 : Place(t, sp, i + 1) = Place(cells, sp, i)
  <2>1. PlacesSeparated(cells, sp, t, s, at)
    <3>1. /\ cells \in Seq(LiveCells) /\ Ordered(cells) /\ sp \subseteq Nat
          /\ at \in 1 .. Len(cells) + 1 /\ s \in Key /\ s \in Place(cells, sp, at)
          /\ k0 \in Place(cells, sp, at) /\ k0 < s /\ Separated(cells, t, s, at)
      BY <1>2, <1>3, <1>5, <1>6, <1>7, <1>9, <1>10
    <3> QED
      BY ONLY <3>1, SeparatedPlaces
  <2>2. /\ \A k \in span[x] : k \in Nat /\ k < s
        /\ \A k \in span[q] : k \in Nat /\ k >= s
        /\ s \in Nat
    BY <1>3, <1>6, KeyFacts
  <2>3. \A k \in Nat : ~(k < s /\ k >= s)
    BY <2>2
  <2>4. Lower(Place(cells, sp, at), s) = span[x]
    BY <1>7, <2>2, <2>3 DEF Lower
  <2>5. Upper(Place(cells, sp, at), s) = span[q]
    BY <1>7, <2>2, <2>3 DEF Upper
  <2> QED
    BY <1>2, <2>1, <2>4, <2>5 DEF PlacesSeparated
<1>12. /\ t \in Seq(LiveCells) /\ Len(t) = n + 1 /\ t[at].key = s
       /\ \A i \in 1 .. at - 1 : t[i].key = cells[i].key
       /\ \A i \in at + 1 .. n + 1 : t[i].key = cells[i - 1].key
  BY <1>2, <1>10 DEF Separated
<1>13. ASSUME NEW i \in 1 .. n + 1 PROVE t[i].key \in sp
  <2>1. CASE i = at
    BY <1>9, <1>12, <2>1
  <2>2. CASE i < at
    <3>1. i \in 1 .. at - 1 /\ i \in 1 .. n
      BY <1>7, <2>2
    <3> QED
      BY <1>5, <1>12, <3>1
  <2>3. CASE at < i
    <3>1. i \in at + 1 .. n + 1 /\ i - 1 \in 1 .. n
      BY <1>7, <2>3
    <3>2. PICK j \in 1 .. n : j = i - 1
      BY <3>1
    <3>3. t[i].key = cells[i - 1].key
      BY <1>12, <3>1
    <3>4. cells[j].key \in sp
      BY <1>5, <3>2
    <3> QED
      BY <3>2, <3>3, <3>4
  <2> QED
    BY <1>7, <2>1, <2>2, <2>3
(* The other children are neither x nor q: they are what they were.        *)
<1>14. ASSUME NEW i \in 1 .. n + 1, i # at
       PROVE  /\ Below2(cells, next, i) \in PageId
              /\ lev[Below2(cells, next, i)] >= 1
              /\ lev[Below2(cells, next, i)] + 1 = lev[p]
              /\ span[Below2(cells, next, i)] = Place(cells, sp, i)
  <2>1. PICK c : c = Child(ps[p], i)
    OBVIOUS
  <2>2. c # x
    <3>1. i \in 1 .. Len(ps[p].cells) + 1
      BY <1>1, <1>2
    <3> QED
      BY <1>14, <2>1, <3>1, OneParent
  <2>3. c \in PageId /\ Outer(span, x, q)[c] = span[c]
    BY <1>5, <2>1, <2>2 DEF Outer
  <2> QED
    BY <1>5, <2>1, <2>3
<1>15. ASSUME NEW i \in 1 .. n + 2
       PROVE  /\ Below2(t, next2, i) \in PageId
              /\ lev[Below2(t, next2, i)] >= 1
              /\ lev[Below2(t, next2, i)] + 1 = lev[p]
              /\ span[Below2(t, next2, i)] = Place(t, sp, i)
  <2>1. CASE i = at
    BY <1>6, <1>7, <1>10, <1>11, <2>1
  <2>2. CASE i = at + 1
    BY <1>6, <1>7, <1>10, <1>11, <2>2
  <2>3. CASE i < at
    <3>1. i \in 1 .. at - 1 /\ i \in 1 .. n + 1 /\ i # at
      BY <1>7, <2>3
    <3> QED
      BY <1>10, <1>11, <1>14, <3>1
  <2>4. CASE at + 1 < i
    <3>1. PICK j \in at + 1 .. n + 1 : i = j + 1 /\ j \in 1 .. n + 1 /\ j # at
      <4>1. i - 1 \in at + 1 .. n + 1 /\ i = (i - 1) + 1 /\ i - 1 \in 1 .. n + 1 /\ i - 1 # at
        BY <1>7, <2>4
      <4> QED
        BY <4>1
    <3> QED
      BY <1>10, <1>11, <1>14, <3>1
  <2> QED
    BY <1>7, <2>1, <2>2, <2>3, <2>4
<1>16. BranchShape(t, next2, sp, lev[p], span, lev)
  BY <1>10, <1>11, <1>12, <1>13, <1>15 DEF BranchShape, Below2
<1>17. at \in 1 .. Len(t) /\ t # <<>>
  BY <1>7, <1>12
<1>18. Taken("branch", t) - Size("branch", t[at]) <= PageRoom
  <2>1. cells \in Seq(CellSet) /\ t \in Seq(CellSet)
    BY <1>5, <1>12, LiveFacts
  <2>2. Taken("branch", cells) \in Nat
    BY <2>1, TakenIs
  <2>3. t[at] \in CellSet
    BY <1>17, <2>1
  <2>4. Size("branch", t[at]) \in Nat
    BY <2>3, SizeFacts
  <2> QED
    BY <1>5, <1>10, <2>2, <2>4, Lens
<1> QED
  BY <1>1, <1>16, <1>17, <1>18

LEMMA BranchInserted ==
    ASSUME len \in Lengths, NEW acc, NEW lev, NEW span, NEW r, NEW x, NEW es,
           acc.separator # NoKey, SplitOpen(acc, lev, span, r, x, es),
           NEW p \in PageId, lev[p] > 1,
           NEW key \in Key, FindChild(acc.pages[p], key) = x,
           FreeOf(acc.pages) # {},
           NEW new, new = InsertIntoBranch(acc, p, key)
    PROVE  Step(new, acc.pages, lev, span, r, p, es)
<1>1. PICK ps, q1, s : ps = acc.pages /\ q1 = acc.right /\ s = acc.separator
  OBVIOUS
<1>2. /\ Tree(ps, lev, span, r, x, q1) /\ Parted(lev, span, x, q1, s)
      /\ Holds(ps, lev, es) /\ Linked(ps, lev, span)
  BY <1>1 DEF SplitOpen
<1>3. PICK page, cells, next, sp :
         page = ps[p] /\ cells = page.cells /\ next = page.next /\ sp = span[p]
  OBVIOUS
<1>4. /\ lev \in [PageId -> Nat] /\ span \in [PageId -> SUBSET Nat] /\ lev[p] \in Nat
      /\ lev[p] # 1 /\ lev[p] >= 1 /\ sp \subseteq Nat
      /\ ps = [o \in PageId |-> ps[o]]
  BY <1>2, <1>3 DEF Tree
<1>5. BranchSound(page, sp, lev[p], Outer(span, x, q1), lev)
  BY <1>2, <1>3, <1>4 DEF Tree, NodeSound
<1>6. page.cells \in Seq(LiveCells) /\ Ordered(page.cells)
      /\ page.next \in PageId \cup {NoPage}
  BY <1>5 DEF BranchSound, IsNode
<1>7. PICK at : at = ChildAt(page, key)
  OBVIOUS
<1>8. at \in 1 .. Len(page.cells) + 1
  BY <1>6, <1>7, ChildAtRight, KeyFacts
<1>9. Child(page, at) = x
  <2>1. FindChild(page, key) = Children(page)[at] /\ FindChild(page, key) = x
    BY <1>1, <1>3, <1>7 DEF FindChild
  <2> QED
    BY <1>6, <1>8, <2>1, ChildrenAre
<1>10. PICK t : t = InsertAt(Routed(cells, at, q1), at, Cell(s, x))
  OBVIOUS
<1>11. PICK next2 : next2 = IF at > Len(cells) THEN q1 ELSE next
  OBVIOUS
<1>12. /\ BranchShape(t, next2, sp, lev[p], span, lev)
       /\ t # <<>> /\ at \in 1 .. Len(t)
       /\ Taken("branch", t) - Size("branch", t[at]) <= PageRoom
  <2>1. IsInsert(Routed(ps[p].cells, at, q1), at, Cell(s, x), t)
    BY <1>3, <1>10 DEF IsInsert
  <2> QED
    BY <1>2, <1>3, <1>8, <1>9, <1>11, <2>1, BranchWith
<1>13. Next2(ps, lev, p, x)
  BY <1>3, <1>8, <1>9 DEF Next2
<1>14. PICK q : q = Allocate(ps)
  OBVIOUS
<1>15. q \in PageId /\ ps[q] = Free
  BY <1>1, <1>14, AllocateRight
<1>16. lev[q] = 0 /\ q # p
  <2>1. lev[q] = 0
    BY <1>2, <1>15, FreeOutside
  <2> QED
    BY <1>4, <2>1
<1>17. PICK mid : mid = Midpoint("branch", t)
  OBVIOUS
<1>18. CASE Fits("branch", t)
  <2>1. PICK made : made = Page("branch", t, next2)
    OBVIOUS
  <2>2. new = Done([ps EXCEPT ![p] = made])
    BY <1>1, <1>3, <1>7, <1>10, <1>11, <1>18, <2>1 DEF InsertIntoBranch, Routed
  <2>3. BranchSound(made, sp, lev[p], span, lev)
    BY <1>12, <1>18, <2>1, BranchOf DEF Fits
  <2>4. NodeSound(made, span[p], lev[p], span, lev)
    BY <1>3, <1>4, <2>3 DEF NodeSound
  <2>5. new.separator = NoKey /\ PutAt(ps, new.pages, p, made)
    BY <2>2 DEF Done, PutAt
  <2>6. Closed(new.pages, lev, span, r)
    BY <1>2, <1>4, <1>13, <2>4, <2>5, TreePut DEF Closed
  <2>7. Holds(new.pages, lev, es)
    <3>1. \A o \in PageId : o # p /\ o # q => new.pages[o] = ps[o]
      BY <1>4, <2>5 DEF PutAt
    <3>2. lev[q] # 1
      BY <1>16
    <3> QED
      BY <1>2, <1>4, <3>1, <3>2, HoldsBranch
  <2>8. Linked(new.pages, lev, span)
    BY <1>2, <1>4, <2>5, LinkedPut
  <2> QED
    BY <2>5, <2>6, <2>7, <2>8 DEF Step, Whole
<1>19. CASE ~Fits("branch", t)
  <2>1. PICK left, right :
           /\ left = Page("branch", SubSeq(t, 1, mid - 1), t[mid].child)
           /\ right = Page("branch", SubSeq(t, mid + 1, Len(t)), next2)
    OBVIOUS
  <2>2. PICK u : u = t[mid].key
    OBVIOUS
  <2>3. new = Split(ps, p, left, q, right, u)
    <3>1. /\ t = InsertAt(IF at > Len(page.cells) THEN page.cells
                          ELSE [page.cells EXCEPT ![at].child = acc.right],
                          at, Cell(acc.separator, FindChild(page, key)))
          /\ next2 = IF at > Len(page.cells) THEN acc.right ELSE page.next
          /\ page = acc.pages[p] /\ at = ChildAt(page, key)
          /\ mid = Midpoint("branch", t) /\ q = Allocate(acc.pages)
          /\ acc.separator # NoKey /\ ~Fits("branch", t)
          /\ new = InsertIntoBranch(acc, p, key)
      BY <1>1, <1>3, <1>7, <1>10, <1>11, <1>14, <1>17, <1>19, SMTT(30) DEF Routed
    <3>2. new = Split(acc.pages,
                      p, Page("branch", SubSeq(t, 1, mid - 1), t[mid].child),
                      q, Page("branch", SubSeq(t, mid + 1, Len(t)), next2), t[mid].key)
      BY ONLY <3>1, ZenonT(60) DEF InsertIntoBranch
    <3> QED
      BY <1>1, <2>1, <2>2, <3>2
  <2>4. IsHalves(t, next2, mid, left, right)
    BY <2>1 DEF IsHalves
  <2>5. Taken("branch", t) > PageRoom
    <3>1. t \in Seq(CellSet)
      BY <1>12, LiveFacts DEF BranchShape
    <3>2. Taken("branch", t) \in Nat
      BY <3>1, TakenIs
    <3> QED
      BY <1>19, <3>2, Lens DEF Fits
  <2>6. BranchParts(u, sp, lev[p], span, lev, left, right)
    BY <1>4, <1>12, <1>17, <2>2, <2>4, <2>5, BranchHalves
  <2>7. /\ u \in Key /\ u \in span[p] /\ {k \in span[p] : k < u} # {}
        /\ NodeSound(left, {k \in span[p] : k < u}, lev[p], span, lev)
        /\ NodeSound(right, {k \in span[p] : k >= u}, lev[p], span, lev)
    BY <1>3, <1>4, <2>6 DEF BranchParts, NodeSound
  <2>8. /\ new.separator = u /\ new.right = q
        /\ SplitAt(ps, new.pages, p, left, q, right)
    BY <2>3 DEF Split, SplitAt
  <2>9. PICK lo, hi : lo = {k \in span[p] : k < u} /\ hi = {k \in span[p] : k >= u}
    OBVIOUS
  <2>10. /\ Tree(new.pages, LevSplit(lev, p, q), SpanSplit(span, p, q, u), r, p, q)
         /\ Parted(LevSplit(lev, p, q), SpanSplit(span, p, q, u), p, q, u)
    BY <1>2, <1>4, <1>13, <1>15, <2>7, <2>8, <2>9, TreeSplit
  <2>11. \A o \in PageId : o # p /\ o # q => new.pages[o] = ps[o]
    BY <1>4, <2>8 DEF SplitAt
  <2>12. PICK lev2 : lev2 = LevSplit(lev, p, q)
    OBVIOUS
  <2>13. lev2[q] = lev[p] /\ \A o \in PageId : o # q => lev2[o] = lev[o]
    BY <1>4, <1>15, <2>12, LevSplitIs
  <2>14. Holds(new.pages, lev2, es)
    <3>1. lev[q] # 1 /\ lev2[q] # 1
      BY <1>4, <1>16, <2>13
    <3> QED
      BY <1>2, <1>4, <2>11, <2>13, <3>1, HoldsBranch
  <2>15. u # NoKey
    BY <2>7, KeyFacts
  <2>16. Linked(new.pages, lev2, SpanSplit(span, p, q, u))
    <3>1. lev[p] # 1 /\ lev[q] # 1 /\ lev2[q] # 1
      BY <1>4, <1>16, <2>13
    <3>2. \A o \in PageId : lev2[o] = 1 <=> lev[o] = 1
      BY <2>13, <3>1
    <3>3. \A o \in PageId : o # p /\ o # q => SpanSplit(span, p, q, u)[o] = span[o]
      BY <1>4 DEF SpanSplit
    <3>4. \A o \in PageId : lev[o] = 1 =>
             SpanSplit(span, p, q, u)[o] = span[o] /\ new.pages[o].next = ps[o].next
      BY <2>11, <3>1, <3>3
    <3> QED
      BY <1>2, <3>2, <3>4, LinkedSame
  <2> QED
    BY <1>1, <1>15, <2>8, <2>10, <2>11, <2>12, <2>14, <2>15, <2>16 DEF Step, SplitOpen
<1> QED
  BY <1>18, <1>19

-----------------------------------------------------------------------------
(* `insert`: up the path.                                                  *)

LEMMA FreeFinite ==
    ASSUME NEW ps
    PROVE  /\ IsFiniteSet(FreeOf(ps)) /\ Cardinality(FreeOf(ps)) \in Nat
           /\ Cardinality(FreeOf(ps)) > 0 => FreeOf(ps) # {}
<1>1. IsFiniteSet(PageId)
  BY BTreeAssumption, FS_Interval DEF PageId
<1>2. FreeOf(ps) \in SUBSET PageId
  BY DEF FreeOf
<1>3. IsFiniteSet(FreeOf(ps))
  BY <1>1, <1>2, FS_Subset
<1>4. Cardinality(FreeOf(ps)) \in Nat
  BY <1>3, FS_CardinalityType
<1> QED
  BY <1>3, <1>4, FS_EmptySet

(* A step that takes one free page.                                        *)
LEMMA FreeAfter ==
    ASSUME NEW ps, NEW ps2, NEW p, ps[p] # Free, NEW q,
           \A o \in PageId : o # p /\ o # q => ps2[o] = ps[o]
    PROVE  Cardinality(FreeOf(ps2)) + 1 >= Cardinality(FreeOf(ps))
<1>1. PICK A, B : A = FreeOf(ps) /\ B = FreeOf(ps2)
  OBVIOUS
<1>2. IsFiniteSet(A) /\ IsFiniteSet(B) /\ Cardinality(A) \in Nat /\ Cardinality(B) \in Nat
  BY <1>1, FreeFinite
<1>3. A \ {q} \in SUBSET B
  BY <1>1 DEF FreeOf
<1>4. Cardinality(A \ {q}) <= Cardinality(B)
  BY <1>2, <1>3, FS_Subset
<1>5. Cardinality(A \ {q}) = IF q \in A THEN Cardinality(A) - 1 ELSE Cardinality(A)
  BY <1>2, FS_RemoveElement
<1>6. Cardinality(A) - 1 <= Cardinality(A \ {q})
  BY <1>2, <1>5
<1> QED
  BY <1>1, <1>2, <1>4, <1>5, <1>6

(* The first m pages of the path are what they were.                       *)
Kept(ps1, lev1, ps, lev, path, m) ==
    \A j \in 1 .. m : lev1[path[j]] = lev[path[j]] /\ ps1[path[j]] = ps[path[j]]

(* The tree when the insert has been at the path's m-th page: whole, or    *)
(* with that page split, and at least f pages free.                        *)
WithSplit(acc, ps, lev, lev2, span2, path, r, m, es, f) ==
    /\ lev2[r] = lev[r]
    /\ \/ acc.separator = NoKey /\ Whole(acc.pages, lev2, span2, r, es)
       \/ /\ acc.separator # NoKey
          /\ SplitOpen(acc, lev2, span2, r, path[m], es)
          /\ Kept(acc.pages, lev2, ps, lev, path, m - 1)
          /\ Cardinality(FreeOf(acc.pages)) >= f
AfterPage(acc, ps, lev, path, r, m, es, f) ==
    \E lev2, span2 : WithSplit(acc, ps, lev, lev2, span2, path, r, m, es, f)

LEMMA StepAfter ==
    ASSUME NEW ps, NEW lev, NEW span, NEW r, NEW key, NEW path,
           Way(ps, lev, span, r, key, path), NEW m \in 1 .. Len(path),
           lev \in [PageId -> Nat],
           NEW ps1, NEW lev1, NEW span1, NEW x, NEW q,
           Tree(ps1, lev1, span1, r, x, q), Kept(ps1, lev1, ps, lev, path, m),
           NEW acc, NEW es, Step(acc, ps1, lev1, span1, r, path[m], es),
           NEW f \in Nat, Cardinality(FreeOf(ps1)) >= f + 1
    PROVE  AfterPage(acc, ps, lev, path, r, m, es, f)
<1>1. PICK n \in Nat : n = Len(path)
  BY DEF Way
<1>2. /\ path \in Seq(PageId) /\ n >= 1 /\ path[1] = r /\ n <= lev[r] /\ m \in 1 .. n
      /\ \A j \in 1 .. n : path[j] \in PageId /\ lev[path[j]] + j = lev[r] + 1
  BY <1>1 DEF Way
<1>3. /\ lev1 \in [PageId -> Nat] /\ lev1[r] = lev[r] /\ path[m] \in PageId
      /\ lev[r] \in Nat /\ r \in PageId
  <2>1. 1 \in 1 .. m
    BY <1>2
  <2>2. lev1[r] = lev[r]
    BY <1>2, <2>1 DEF Kept
  <2> QED
    BY <1>2, <2>2 DEF Tree
<1>4. \A j \in 1 .. n : lev[path[j]] >= 1
  <2> SUFFICES ASSUME NEW j \in 1 .. n PROVE lev[path[j]] >= 1
    OBVIOUS
  <2>1. PICK a, b \in Nat : a = lev[path[j]] /\ b = lev[r]
    BY <1>2, <1>3
  <2>2. a + j = b + 1 /\ n <= b
    BY <1>2, <2>1
  <2> QED
    BY <2>1, <2>2, SMTT(30)
<1>5. CASE acc.separator = NoKey
  <2>1. Whole(acc.pages, lev1, span1, r, es)
    BY <1>5 DEF Step
  <2> QED
    BY <1>3, <1>5, <2>1 DEF AfterPage, WithSplit
<1>6. CASE acc.separator # NoKey
  <2>1. PICK q2, p : q2 = acc.right /\ p = path[m]
    OBVIOUS
  <2>2. PICK lev2, span2 : lev2 = LevSplit(lev1, p, q2)
                           /\ span2 = SpanSplit(span1, p, q2, acc.separator)
    OBVIOUS
  <2>3. /\ q2 \in PageId /\ ps1[q2] = Free
        /\ SplitOpen(acc, lev2, span2, r, p, es)
        /\ \A o \in PageId : o # p /\ o # q2 => acc.pages[o] = ps1[o]
    BY <1>6, <2>1, <2>2 DEF Step
  <2>4. lev1[q2] = 0
    BY <2>3, FreeOutside
  <2>5. /\ \A j \in 1 .. m : lev1[path[j]] = lev[path[j]] /\ ps1[path[j]] = ps[path[j]]
        /\ \A j \in 1 .. m : path[j] \in PageId /\ lev[path[j]] >= 1
                             /\ lev[path[j]] + j = lev[r] + 1
    BY <1>2, <1>4 DEF Kept
  <2>6. \A j \in 1 .. m : path[j] # q2
    <3> SUFFICES ASSUME NEW j \in 1 .. m, path[j] = q2 PROVE FALSE
      OBVIOUS
    <3>1. lev1[q2] >= 1
      BY <2>5
    <3> QED
      BY <2>4, <3>1
  <2>7. \A o \in PageId : o # q2 => lev2[o] = lev1[o]
    BY <1>3, <2>1, <2>2, <2>3, LevSplitIs
  <2>8. \A j \in 1 .. m - 1 : path[j] # p
    <3> SUFFICES ASSUME NEW j \in 1 .. m - 1, path[j] = p PROVE FALSE
      OBVIOUS
    <3>1. PICK a, b \in Nat : a = lev[p] /\ b = lev[r]
      BY <1>3, <2>1
    <3>2. a + j = b + 1 /\ a + m = b + 1
      <4>1. j \in 1 .. n
        BY <1>2
      <4>2. lev[p] + j = lev[r] + 1 /\ lev[p] + m = lev[r] + 1
        BY <1>2, <2>1, <4>1
      <4> QED
        BY <3>1, <4>2
    <3> QED
      BY <3>2
  <2>9. Kept(acc.pages, lev2, ps, lev, path, m - 1)
    <3> SUFFICES ASSUME NEW j \in 1 .. m - 1
                 PROVE  lev2[path[j]] = lev[path[j]] /\ acc.pages[path[j]] = ps[path[j]]
      BY DEF Kept
    <3>1. j \in 1 .. m
      OBVIOUS
    <3>2. path[j] # p /\ path[j] # q2 /\ path[j] \in PageId
      BY <2>5, <2>6, <2>8, <3>1
    <3> QED
      BY <2>3, <2>5, <2>7, <3>1, <3>2
  <2>10. lev2[r] = lev[r]
    <3>1. 1 \in 1 .. m
      BY <1>2
    <3>2. r # q2
      BY <1>2, <2>6, <3>1
    <3> QED
      BY <1>3, <2>7, <3>2
  <2>11. Cardinality(FreeOf(acc.pages)) >= f
    <3>1. ps1[p] # Free
      <4>1. m \in 1 .. m
        BY <1>2
      <4>2. lev1[p] >= 1 /\ lev1[p] \in Nat
        BY <1>3, <2>1, <2>5, <4>1
      <4> QED
        BY <1>3, <2>1, <4>2, FreeOutside
    <3>2. Cardinality(FreeOf(acc.pages)) + 1 >= Cardinality(FreeOf(ps1))
      BY <2>3, <3>1, FreeAfter
    <3>3. Cardinality(FreeOf(acc.pages)) \in Nat /\ Cardinality(FreeOf(ps1)) \in Nat
      BY FreeFinite
    <3> QED
      BY <3>2, <3>3
  <2> QED
    BY <1>6, <2>1, <2>3, <2>9, <2>10, <2>11 DEF AfterPage, WithSplit
<1> QED
  BY <1>5, <1>6

LEMMA NextAfter ==
    ASSUME len \in Lengths, NEW ps, NEW lev, NEW span, NEW r, NEW key \in Key,
           NEW path, Way(ps, lev, span, r, key, path), lev \in [PageId -> Nat],
           NEW m \in 1 .. Len(path) - 1, NEW es, NEW f \in Nat,
           NEW acc, AfterPage(acc, ps, lev, path, r, m + 1, es, f + 1),
           NEW new, new = InsertIntoBranch(acc, path[m], key)
    PROVE  AfterPage(new, ps, lev, path, r, m, es, f)
<1>1. PICK lev2, span2 : WithSplit(acc, ps, lev, lev2, span2, path, r, m + 1, es, f + 1)
  BY DEF AfterPage
<1>2. PICK n \in Nat : n = Len(path)
  BY DEF Way
<1>3. CASE acc.separator = NoKey
  <2>1. new = acc
    BY <1>3 DEF InsertIntoBranch
  <2> QED
    BY <1>1, <1>3, <2>1 DEF AfterPage, WithSplit
<1>4. CASE acc.separator # NoKey
  <2>1. PICK x, p : x = path[m + 1] /\ p = path[m]
    OBVIOUS
  <2>2. /\ SplitOpen(acc, lev2, span2, r, x, es)
        /\ Kept(acc.pages, lev2, ps, lev, path, (m + 1) - 1)
        /\ Cardinality(FreeOf(acc.pages)) >= f + 1
    BY <1>1, <1>4, <2>1 DEF WithSplit
  <2>3. m \in 1 .. n /\ m + 1 \in 1 .. n /\ (m + 1) - 1 = m /\ m \in 1 .. m
    BY <1>2
  <2>4. Kept(acc.pages, lev2, ps, lev, path, m)
    BY <2>2, <2>3
  <2>5. /\ p \in PageId /\ lev[p] + m = lev[r] + 1 /\ n <= lev[r] /\ r \in PageId
        /\ FindChild(ps[p], key) = x
    BY <1>2, <2>1, <2>3 DEF Way
  <2>6. lev2[p] = lev[p] /\ acc.pages[p] = ps[p]
    BY <2>1, <2>3, <2>4 DEF Kept
  <2>7. lev2[p] > 1
    <3>1. PICK a, b \in Nat : a = lev[p] /\ b = lev[r]
      BY <2>5
    <3>2. m <= n - 1 /\ a + m = b + 1 /\ n <= b
      BY <1>2, <2>5, <3>1
    <3>3. a > 1
      BY <1>2, <3>1, <3>2
    <3> QED
      BY <2>6, <3>1, <3>3
  <2>8. FreeOf(acc.pages) # {}
    <3>1. Cardinality(FreeOf(acc.pages)) \in Nat
      BY FreeFinite
    <3> QED
      BY <2>2, <3>1, FreeFinite
  <2>9. Step(new, acc.pages, lev2, span2, r, p, es)
    <3>1. FindChild(acc.pages[p], key) = x
      BY <2>5, <2>6
    <3> QED
      BY <1>4, <2>1, <2>2, <2>5, <2>7, <2>8, <3>1, BranchInserted
  <2>10. Tree(acc.pages, lev2, span2, r, x, acc.right)
    BY <2>2 DEF SplitOpen
  <2>11. m \in 1 .. Len(path)
    BY <1>2, <2>3
  <2> QED
    BY <2>1, <2>2, <2>4, <2>9, <2>10, <2>11, StepAfter
<1> QED
  BY <1>3, <1>4

LEMMA LeafAfter ==
    ASSUME len \in Lengths, NEW ps, NEW lev, NEW span, NEW r, NEW key \in Key,
           NEW es, Whole(ps, lev, span, r, es), key \notin es,
           NEW path, Way(ps, lev, span, r, key, path), Len(path) = lev[r],
           NEW f \in Nat, Cardinality(FreeOf(ps)) >= f + 1,
           NEW acc, acc = InsertIntoLeaf(ps, Last(path), key)
    PROVE  AfterPage(acc, ps, lev, path, r, Len(path), es \cup {key}, f)
<1>1. PICK n \in Nat : n = Len(path)
  BY DEF Way
<1>2. Tree(ps, lev, span, r, NoPage, NoPage) /\ lev \in [PageId -> Nat]
  BY DEF Whole, Closed, Tree
<1>3. /\ n >= 1 /\ n \in 1 .. n /\ path[n] \in PageId
      /\ lev[path[n]] + n = lev[r] + 1 /\ key \in span[path[n]] /\ r \in PageId
  BY <1>1 DEF Way
<1>4. Last(path) = path[n]
  BY <1>1 DEF Last
<1>5. lev[path[n]] = 1
  <2>1. PICK a \in Nat : a = lev[path[n]]
    BY <1>2, <1>3
  <2>2. a + n = n + 1
    BY <1>1, <1>3, <2>1
  <2> QED
    BY <1>1, <2>1, <2>2
<1>6. FreeOf(ps) # {}
  <2>1. Cardinality(FreeOf(ps)) \in Nat
    BY FreeFinite
  <2> QED
    BY <2>1, FreeFinite
<1>7. Step(acc, ps, lev, span, r, path[n], es \cup {key})
  BY <1>3, <1>4, <1>5, <1>6, LeafInserted
<1>8. Kept(ps, lev, ps, lev, path, n)
  BY DEF Kept
<1> QED
  BY <1>1, <1>2, <1>3, <1>7, <1>8, StepAfter

(* The leaves when the root has moved down.                                *)
LEMMA HoldsGrown ==
    ASSUME NEW ps, NEW lev \in [PageId -> Nat], NEW es, Holds(ps, lev, es),
           ps = [o \in PageId |-> ps[o]],
           NEW r \in PageId, lev[r] >= 1, NEW left \in PageId, lev[left] = 0,
           NEW s, NEW q, NEW ps2, GrownAt(ps, ps2, r, left, s, q)
    PROVE  Holds(ps2, LevGrown(lev, r, left), es)
<1>1. PICK lev2 : lev2 = LevGrown(lev, r, left)
  OBVIOUS
<1>2. /\ lev2[left] = lev[r] /\ lev2[r] = lev[r] + 1 /\ left # r
      /\ \A o \in PageId : o # left /\ o # r => lev2[o] = lev[o] /\ ps2[o] = ps[o]
      /\ ps2[left] = ps[r]
  BY <1>1 DEF LevGrown, GrownAt
<1>3. lev2[r] # 1 /\ lev[left] # 1
  BY <1>2
<1>4. ASSUME NEW k \in Key
      PROVE  (\E o \in PageId : lev[o] = 1 /\ HasKey(ps[o].cells, k))
                <=> (\E o \in PageId : lev2[o] = 1 /\ HasKey(ps2[o].cells, k))
  <2>1. ASSUME NEW o \in PageId, lev[o] = 1, HasKey(ps[o].cells, k)
        PROVE  \E u \in PageId : lev2[u] = 1 /\ HasKey(ps2[u].cells, k)
    <3>1. CASE o = r
      BY <1>2, <2>1, <3>1
    <3>2. CASE o # r
      BY <1>2, <1>3, <2>1, <3>2
    <3> QED
      BY <3>1, <3>2
  <2>2. ASSUME NEW o \in PageId, lev2[o] = 1, HasKey(ps2[o].cells, k)
        PROVE  \E u \in PageId : lev[u] = 1 /\ HasKey(ps[u].cells, k)
    <3>1. CASE o = left
      BY <1>2, <2>2, <3>1
    <3>2. CASE o # left
      BY <1>2, <1>3, <2>2, <3>2
    <3> QED
      BY <3>1, <3>2
  <2> QED
    BY <2>1, <2>2
<1> QED
  BY <1>1, <1>4 DEF Holds

(* What `insert` does.                                                     *)
LEMMA InsertedRight ==
    ASSUME len \in Lengths, NEW ps, NEW lev, NEW span, NEW r, NEW key \in Key,
           NEW es, Whole(ps, lev, span, r, es), key \notin es,
           lev[r] <= MaxDepth, lev[r] < Cardinality(FreeOf(ps)),
           NEW new, new = Inserted(ps, r, key)
    PROVE  \E lev2, span2 : Whole(new, lev2, span2, r, es \cup {key})
                            /\ lev2[r] <= lev[r] + 1
<1>1. Closed(ps, lev, span, r) /\ lev \in [PageId -> Nat] /\ r \in PageId
  BY DEF Whole, Closed, Tree
<1>2. MaxDepth \in Nat /\ lev[r] \in Nat /\ lev[r] <= MaxDepth + 1
  BY <1>1, BTreeAssumption
<1>3. PICK path : path = PathTo(ps, r, key)
  OBVIOUS
<1>4. Way(ps, lev, span, r, key, path) /\ Len(path) = lev[r]
  BY <1>1, <1>2, <1>3, PathRight, KeyFacts
<1>5. PICK n \in Nat : n = Len(path) /\ n >= 1 /\ n = lev[r] /\ path[1] = r
  BY <1>2, <1>4 DEF Way
<1>6. PICK F \in Nat : F = Cardinality(FreeOf(ps)) /\ F > n
  BY <1>5, FreeFinite
<1>7. PICK h : /\ Inserted(ps, r, key) = Grown(h[n - 1], r)
               /\ h[0] = InsertIntoLeaf(ps, Last(path), key)
               /\ \A i \in 1 .. n - 1 :
                     h[i] = InsertIntoBranch(h[i - 1], path[n - i], key)
  <2>1. path = PathTo(ps, r, key) /\ Len(path) - 1 \in Nat
    BY <1>3, <1>5
  <2>2. \E h : /\ InsertRun(h, Len(path) - 1, ps, path, key)
               /\ Inserted(ps, r, key) = Grown(h[Len(path) - 1], r)
               /\ h[0] = InsertIntoLeaf(ps, Last(path), key)
               /\ \A i \in 1 .. Len(path) - 1 :
                     h[i] = InsertIntoBranch(h[i - 1], path[Len(path) - (i)], key)
    BY ONLY <2>1, InsertSteps
  <2> QED
    BY <1>5, <2>2
<1> DEFINE es2 == es \cup {key}
           T == {i \in Nat : i <= n - 1 =>
                   AfterPage(h[i], ps, lev, path, r, n - i, es2, F - (i + 1))}
<1>8. 0 \in T
  <2>1. F - 1 \in Nat /\ F >= (F - 1) + 1 /\ n - 0 = n /\ F - (0 + 1) = F - 1
    BY <1>6
  <2>2. AfterPage(h[0], ps, lev, path, r, n, es2, F - 1)
    BY <1>4, <1>5, <1>6, <1>7, <2>1, LeafAfter
  <2> QED
    BY <2>1, <2>2
<1>9. ASSUME NEW i \in Nat, i \in T PROVE i + 1 \in T
  <2> SUFFICES ASSUME i + 1 <= n - 1
               PROVE  AfterPage(h[i + 1], ps, lev, path, r, n - (i + 1), es2,
                                F - ((i + 1) + 1))
    OBVIOUS
  <2>1. PICK m \in 1 .. n - 1 : m = n - (i + 1) /\ n - i = m + 1
    <3>1. n - (i + 1) \in 1 .. n - 1 /\ n - i = (n - (i + 1)) + 1
      OBVIOUS
    <3> QED
      BY <3>1
  <2>2. PICK f \in Nat : f = F - ((i + 1) + 1) /\ F - (i + 1) = f + 1
    <3>1. F - ((i + 1) + 1) \in Nat /\ F - (i + 1) = (F - ((i + 1) + 1)) + 1
      BY <1>6
    <3> QED
      BY <3>1
  <2>3. AfterPage(h[i], ps, lev, path, r, m + 1, es2, f + 1)
    BY <1>9, <2>1, <2>2
  <2>4. h[i + 1] = InsertIntoBranch(h[i], path[m], key)
    <3>1. i + 1 \in 1 .. n - 1 /\ (i + 1) - 1 = i
      OBVIOUS
    <3> QED
      BY <1>7, <2>1, <3>1
  <2>5. AfterPage(h[i + 1], ps, lev, path, r, m, es2, f)
    <3> HIDE DEF es2
    <3> QED
      BY <1>1, <1>4, <1>5, <2>1, <2>3, <2>4, NextAfter
  <2> QED
    BY <2>1, <2>2, <2>5
<1>10. AfterPage(h[n - 1], ps, lev, path, r, 1, es2, F - n)
  <2>1. n - 1 \in T
    <3> HIDE DEF T
    <3> QED
      BY <1>5, <1>8, <1>9, NatInd
  <2>2. n - (n - 1) = 1 /\ F - ((n - 1) + 1) = F - n
    BY <1>5, <1>6
  <2> QED
    BY <2>1, <2>2
<1>11. PICK top : top = h[n - 1]
  OBVIOUS
<1>12. new = Grown(top, r)
  BY <1>7, <1>11
<1>13. PICK lev2, span2 : WithSplit(top, ps, lev, lev2, span2, path, r, 1, es2, F - n)
  BY <1>10, <1>11 DEF AfterPage
<1>14. CASE top.separator = NoKey
  <2>1. new = top.pages /\ Whole(top.pages, lev2, span2, r, es2) /\ lev2[r] = lev[r]
    BY <1>12, <1>13, <1>14 DEF Grown, WithSplit
  <2>2. lev2[r] <= lev[r] + 1
    BY <1>2, <2>1
  <2> QED
    BY <2>1, <2>2
<1>15. CASE top.separator # NoKey
  <2>1. /\ SplitOpen(top, lev2, span2, r, r, es2) /\ lev2[r] = lev[r]
        /\ Cardinality(FreeOf(top.pages)) >= F - n
    BY <1>5, <1>13, <1>15 DEF WithSplit
  <2>2. FreeOf(top.pages) # {}
    <3>1. Cardinality(FreeOf(top.pages)) \in Nat
      BY FreeFinite
    <3>2. Cardinality(FreeOf(top.pages)) > 0
      BY <1>5, <1>6, <2>1, <3>1
    <3> QED
      BY <3>2, FreeFinite
  <2>3. PICK ps1, left : ps1 = top.pages /\ left = Allocate(ps1)
    OBVIOUS
  <2>4. left \in PageId /\ ps1[left] = Free
    BY <2>2, <2>3, AllocateRight
  <2>5. /\ Tree(ps1, lev2, span2, r, r, top.right)
        /\ Parted(lev2, span2, r, top.right, top.separator)
        /\ Holds(ps1, lev2, es2) /\ Linked(ps1, lev2, span2)
    BY <2>1, <2>3 DEF SplitOpen
  <2>6. GrownAt(ps1, new, r, left, top.separator, top.right)
    BY <1>12, <1>15, <2>3 DEF Grown, GrowNewRoot, GrownAt
  <2>7. Closed(new, LevGrown(lev2, r, left), SpanGrown(span2, r, left), r)
    BY <2>4, <2>5, <2>6, TreeGrown DEF Closed
  <2>8. lev2[left] = 0 /\ lev2 \in [PageId -> Nat] /\ lev2[r] >= 1
        /\ ps1 = [o \in PageId |-> ps1[o]]
    <3>1. lev2[left] = 0
      BY <2>4, <2>5, FreeOutside
    <3> QED
      BY <2>5, <3>1 DEF Tree
  <2>9. Holds(new, LevGrown(lev2, r, left), es2)
    BY <1>1, <2>4, <2>5, <2>6, <2>8, HoldsGrown
  <2>10. LevGrown(lev2, r, left)[r] = lev[r] + 1
    BY <1>1, <2>1, <2>8 DEF LevGrown
  <2>11. LevGrown(lev2, r, left)[r] <= lev[r] + 1
    BY <1>2, <2>10
  <2>12. Linked(new, LevGrown(lev2, r, left), SpanGrown(span2, r, left))
    BY <2>4, <2>5, <2>6, LinkedGrown
  <2> QED
    BY <2>7, <2>9, <2>11, <2>12 DEF Whole
<1> QED
  BY <1>14, <1>15

-----------------------------------------------------------------------------
(* `remove`.                                                               *)

(* The cells of a leaf without `key`.                                      *)
LeafWithout(t, cells, span, key) ==
    /\ t \in Seq(CellSet) /\ Ordered(t) /\ InSpan(t, span)
    /\ \A k : HasKey(t, k) <=> HasKey(cells, k) /\ k # key
    /\ Taken("leaf", t) <= Taken("leaf", cells)

(* A live cell has its key alone.                                          *)
LEMMA KeyAlone ==
    ASSUME NEW cells \in Seq(CellSet), Ordered(cells),
           NEW i \in 1 .. Len(cells), cells[i] # Tombstone,
           NEW j \in 1 .. Len(cells), cells[j] # Tombstone, cells[i].key = cells[j].key
    PROVE  i = j
<1>1. cells[i] \in CellSet /\ cells[j] \in CellSet
  OBVIOUS
<1>2. PICK a \in Nat : a = cells[i].key /\ a = cells[j].key
  BY <1>1, CellFacts
<1>3. ~(a < a)
  OBVIOUS
<1>4. ~(i < j) /\ ~(j < i)
  BY <1>2, <1>3 DEF Ordered
<1> QED
  BY <1>4

LEMMA LeafTaken ==
    ASSUME len \in Lengths, NEW cells \in Seq(CellSet), Ordered(cells), NEW span,
           InSpan(cells, span), NEW key \in Key,
           NEW f \in 1 .. Len(cells), cells[f] # Tombstone, cells[f].key = key,
           NEW t, IsRemoval(cells, f, t)
    PROVE  LeafWithout(t, cells, span, key)
<1>1. PICK n \in Nat : n = Len(cells)
  OBVIOUS
<1>2. /\ t \in Seq(CellSet) /\ Len(t) = n - 1
      /\ \A j \in 1 .. f - 1 : t[j] = cells[j]
      /\ \A j \in f .. n - 1 : t[j] = cells[j + 1]
  <2>1. PICK S : S = CellSet
    OBVIOUS
  <2>2. cells \in Seq(S) /\ f \in 1 .. Len(cells) /\ IsRemoval(cells, f, t)
    BY <2>1
  <2>3. /\ t \in Seq(S) /\ Len(t) = Len(cells) - 1
        /\ \A j \in 1 .. f - 1 : t[j] = cells[j]
        /\ \A j \in f .. Len(cells) - 1 : t[j] = cells[j + 1]
    BY ONLY <2>2, RemovedAt
  <2> QED
    BY <1>1, <2>1, <2>3
<1> DEFINE At(j) == IF j < f THEN j ELSE j + 1
<1>3. ASSUME NEW j \in 1 .. n - 1
      PROVE  At(j) \in 1 .. n /\ At(j) # f /\ t[j] = cells[At(j)]
  <2>1. CASE j < f
    <3>1. j \in 1 .. f - 1
      BY <2>1
    <3> QED
      BY <1>1, <1>2, <2>1, <3>1
  <2>2. CASE ~(j < f)
    <3>1. j \in f .. n - 1
      BY <2>2
    <3> QED
      BY <1>1, <1>2, <2>2, <3>1
  <2> QED
    BY <2>1, <2>2
<1>4. ASSUME NEW i \in 1 .. n, i # f PROVE \E j \in 1 .. n - 1 : At(j) = i
  <2>1. CASE i < f
    <3>1. i \in 1 .. n - 1 /\ At(i) = i
      BY <1>1, <2>1
    <3> QED
      BY <3>1
  <2>2. CASE ~(i < f)
    <3>1. i - 1 \in 1 .. n - 1 /\ ~(i - 1 < f) /\ (i - 1) + 1 = i
      BY <1>1, <1>4, <2>2
    <3>2. At(i - 1) = i
      BY <3>1
    <3> QED
      BY <3>1, <3>2
  <2> QED
    BY <2>1, <2>2
<1>5. \A i, j \in 1 .. n - 1 : i < j => At(i) < At(j)
  BY <1>1
<1> HIDE DEF At
<1>6. Ordered(t)
  <2> SUFFICES ASSUME NEW i \in 1 .. n - 1, NEW j \in 1 .. n - 1, i < j,
                      t[i] # Tombstone, t[j] # Tombstone
               PROVE  t[i].key < t[j].key
    BY <1>2 DEF Ordered
  <2> QED
    BY <1>1, <1>3, <1>5 DEF Ordered
<1>7. InSpan(t, span)
  BY <1>1, <1>2, <1>3 DEF InSpan
<1>8. ASSUME NEW k PROVE HasKey(t, k) <=> HasKey(cells, k) /\ k # key
  <2>1. ASSUME NEW j \in 1 .. n - 1, t[j] # Tombstone, t[j].key = k
        PROVE  HasKey(cells, k) /\ k # key
    <3>1. /\ At(j) \in 1 .. Len(cells) /\ At(j) # f /\ cells[At(j)] # Tombstone
          /\ cells[At(j)].key = k
      BY <1>1, <1>3, <2>1
    <3>2. k # key
      BY <3>1, KeyAlone
    <3> QED
      BY <3>1, <3>2 DEF HasKey
  <2>2. ASSUME NEW i \in 1 .. n, cells[i] # Tombstone, cells[i].key = k, k # key
        PROVE  HasKey(t, k)
    <3>1. PICK j \in 1 .. n - 1 : At(j) = i
      BY <1>4, <2>2
    <3>2. t[j] = cells[i] /\ j \in 1 .. Len(t)
      BY <1>2, <1>3, <3>1
    <3> QED
      BY <2>2, <3>2 DEF HasKey
  <2> QED
    BY <1>1, <1>2, <2>1, <2>2 DEF HasKey
<1>9. Taken("leaf", t) <= Taken("leaf", cells)
  BY TakenRemoved
<1> QED
  BY <1>2, <1>6, <1>7, <1>8, <1>9 DEF LeafWithout

LEMMA LeafBuried ==
    ASSUME len \in Lengths, NEW cells \in Seq(CellSet), Ordered(cells), NEW span,
           InSpan(cells, span), NEW key \in Key,
           NEW f \in 1 .. Len(cells), cells[f] # Tombstone, cells[f].key = key,
           NEW t, t = [cells EXCEPT ![f] = Tombstone]
    PROVE  LeafWithout(t, cells, span, key)
<1>1. PICK n \in Nat : n = Len(cells)
  OBVIOUS
<1>2. t \in Seq(CellSet) /\ Taken("leaf", t) <= Taken("leaf", cells)
  BY TakenBuried
<1>3. Len(t) = n /\ t[f] = Tombstone /\ \A i \in 1 .. n : i # f => t[i] = cells[i]
  BY <1>1
<1>4. Ordered(t)
  BY <1>1, <1>3 DEF Ordered
<1>5. InSpan(t, span)
  BY <1>1, <1>3 DEF InSpan
<1>6. ASSUME NEW k PROVE HasKey(t, k) <=> HasKey(cells, k) /\ k # key
  <2>1. ASSUME NEW j \in 1 .. n, t[j] # Tombstone, t[j].key = k
        PROVE  HasKey(cells, k) /\ k # key
    <3>1. j \in 1 .. Len(cells) /\ j # f /\ cells[j] # Tombstone /\ cells[j].key = k
      BY <1>1, <1>3, <2>1
    <3>2. k # key
      BY <3>1, KeyAlone
    <3> QED
      BY <3>1, <3>2 DEF HasKey
  <2>2. ASSUME NEW i \in 1 .. n, cells[i] # Tombstone, cells[i].key = k, k # key
        PROVE  HasKey(t, k)
    BY <1>3, <2>2 DEF HasKey
  <2> QED
    BY <1>1, <1>3, <2>1, <2>2 DEF HasKey
<1> QED
  BY <1>2, <1>4, <1>5, <1>6 DEF LeafWithout

LEMMA LeafReplaced ==
    ASSUME NEW ps, NEW lev, NEW span, NEW r, NEW es, Whole(ps, lev, span, r, es),
           NEW p \in PageId, lev[p] = 1, NEW key \in Key, key \in span[p],
           NEW t, LeafWithout(t, ps[p].cells, span[p], key),
           NEW new, new = [ps EXCEPT ![p].cells = t], PageRoom \in Nat,
           len \in Lengths
    PROVE  Whole(new, lev, span, r, es \ {key})
<1>1. Tree(ps, lev, span, r, NoPage, NoPage) /\ Holds(ps, lev, es)
      /\ Linked(ps, lev, span)
  BY DEF Whole, Closed
<1>2. PICK cells, next : cells = ps[p].cells /\ next = ps[p].next
  OBVIOUS
<1>3. /\ cells \in Seq(CellSet) /\ IsNode(ps[p], "leaf")
      /\ next \in PageId \cup {NoPage} /\ Taken("leaf", cells) <= PageRoom
      /\ \A k : HasKey(cells, k) => k \in span[p]
      /\ ps = [o \in PageId |-> ps[o]]
  BY <1>1, <1>2, LeafKeys
<1>4. /\ t \in Seq(CellSet) /\ Ordered(t) /\ InSpan(t, span[p])
      /\ \A k : HasKey(t, k) <=> HasKey(cells, k) /\ k # key
      /\ Taken("leaf", t) <= Taken("leaf", cells)
  BY <1>2 DEF LeafWithout
<1>5. Taken("leaf", t) <= PageRoom
  <2>1. Taken("leaf", t) \in Nat /\ Taken("leaf", cells) \in Nat
    BY <1>3, <1>4, TakenIs
  <2> QED
    BY <1>3, <1>4, <2>1
<1>6. PICK page : page = Page("leaf", t, next)
  OBVIOUS
<1>7. LeafSound(page, span[p]) /\ page.cells = t
  BY <1>3, <1>4, <1>5, <1>6, LeafOf
<1>8. PutAt(ps, new, p, page)
  <2>1. ps[p] = Page("leaf", cells, next)
    BY <1>2, <1>3 DEF IsNode
  <2>2. [ps[p] EXCEPT !.cells = t] = page
    BY <1>6, <2>1 DEF Page
  <2> QED
    BY <1>3, <2>2 DEF PutAt
<1>9. Closed(new, lev, span, r)
  <2>1. lev[p] >= 1 /\ Next2(ps, lev, p, NoPage) /\ Outer(span, NoPage, NoPage) = span
    BY <1>1, OuterNone DEF Tree, Next2
  <2>2. NodeSound(page, span[p], lev[p], span, lev)
    BY <1>7 DEF NodeSound
  <2> QED
    BY <1>1, <1>8, <2>1, <2>2, TreePut DEF Closed
<1>10. Holds(new, lev, es \ {key})
  <2>1. es \ {key} \subseteq Key
    BY <1>1 DEF Holds
  <2>2. \A k \in Key : HasKey(ps[p].cells, k) => k \in es
    BY <1>1 DEF Holds
  <2>3. key \in es => HasKey(ps[p].cells, key)
    <3>1. ASSUME key \in es PROVE HasKey(ps[p].cells, key)
      <4>1. PICK o \in PageId : lev[o] = 1 /\ HasKey(ps[o].cells, key)
        BY <1>1, <3>1 DEF Holds
      <4>2. o = p
        BY <1>1, <4>1, KeyOnce
      <4> QED
        BY <4>1, <4>2
    <3> QED
      BY <3>1
  <2>4. \A k \in Key : k \in es \ {key} <=>
           \/ HasKey(page.cells, k)
           \/ k \in es /\ ~HasKey(ps[p].cells, k)
    BY <1>2, <1>4, <1>7, <2>2, <2>3
  <2>5. \A o \in PageId, k \in Key :
           o # p /\ lev[o] = 1 /\ HasKey(ps[o].cells, k) => ~HasKey(ps[p].cells, k)
    BY <1>1, <1>2, <1>3, KeyOnce
  <2> QED
    BY <1>1, <1>3, <1>8, <2>1, <2>4, <2>5, HoldsPut
<1>11. Linked(new, lev, span)
  <2>1. page.next = ps[p].next
    BY <1>2, <1>6 DEF Page
  <2> QED
    BY <1>1, <1>3, <1>8, <2>1, LinkedPut
<1> QED
  BY <1>9, <1>10, <1>11 DEF Whole

(* A lookup, and where the key is.                                         *)
LEMMA LookupRight ==
    ASSUME NEW ps, NEW lev, NEW span, NEW r, NEW es, Whole(ps, lev, span, r, es),
           lev[r] <= MaxDepth + 1, NEW key \in Key, NEW p, p = Leaf(ps, r, key),
           NEW f, f = SlotOf(ps[p].cells, key)
    PROVE  /\ p \in PageId /\ lev[p] = 1 /\ key \in span[p]
           /\ ps[p].cells \in Seq(CellSet) /\ Ordered(ps[p].cells)
           /\ InSpan(ps[p].cells, span[p])
           /\ f # 0 <=> key \in es
           /\ f # 0 => /\ f \in 1 .. Len(ps[p].cells) /\ ps[p].cells[f] # Tombstone
                       /\ ps[p].cells[f].key = key
           /\ ps = [o \in PageId |-> ps[o]]
<1>1. Tree(ps, lev, span, r, NoPage, NoPage) /\ Holds(ps, lev, es)
      /\ Closed(ps, lev, span, r)
  BY DEF Whole, Closed
<1>2. p \in PageId /\ lev[p] = 1 /\ key \in span[p]
  BY <1>1, LeafRight, KeyFacts
<1>3. PICK cells : cells = ps[p].cells
  OBVIOUS
<1>4. /\ cells \in Seq(CellSet) /\ Ordered(cells) /\ InSpan(cells, span[p])
      /\ ps = [o \in PageId |-> ps[o]]
  BY <1>1, <1>2, <1>3, LeafKeys
<1>5. /\ f # 0 <=> HasKey(cells, key)
      /\ f # 0 => f \in 1 .. Len(cells) /\ cells[f] # Tombstone /\ cells[f].key = key
  BY <1>3, <1>4, SlotOfRight
<1>6. HasKey(cells, key) <=> key \in es
  <2>1. HasKey(cells, key) => key \in es
    BY <1>1, <1>2, <1>3 DEF Holds
  <2>2. ASSUME key \in es PROVE HasKey(cells, key)
    <3>1. PICK o \in PageId : lev[o] = 1 /\ HasKey(ps[o].cells, key)
      BY <1>1, <2>2 DEF Holds
    <3>2. o = p
      BY <1>1, <1>2, <3>1, KeyOnce
    <3> QED
      BY <1>3, <3>1, <3>2
  <2> QED
    BY <2>1, <2>2
<1> QED
  BY <1>2, <1>3, <1>4, <1>5, <1>6

LEMMA RemovedRight ==
    ASSUME len \in Lengths,
           NEW ps, NEW lev, NEW span, NEW r, NEW es, Whole(ps, lev, span, r, es),
           lev[r] <= MaxDepth + 1, NEW key \in Key,
           NEW new, \/ new = Removed(ps, r, key)
                    \/ new = RemovedOnce(ps, r, key) /\ key \in es
    PROVE  Whole(new, lev, span, r, es \ {key})
<1>1. PICK p : p = Leaf(ps, r, key)
  OBVIOUS
<1>2. PICK f : f = SlotOf(ps[p].cells, key)
  OBVIOUS
<1>3. /\ p \in PageId /\ lev[p] = 1 /\ key \in span[p]
      /\ ps[p].cells \in Seq(CellSet) /\ Ordered(ps[p].cells)
      /\ InSpan(ps[p].cells, span[p])
      /\ f # 0 <=> key \in es
      /\ f # 0 => /\ f \in 1 .. Len(ps[p].cells) /\ ps[p].cells[f] # Tombstone
                  /\ ps[p].cells[f].key = key
      /\ ps = [o \in PageId |-> ps[o]]
  BY <1>1, <1>2, LookupRight
<1>4. PageRoom \in Nat
  BY Lens
<1>5. CASE f = 0
  <2>1. new = ps /\ es \ {key} = es
    BY <1>1, <1>2, <1>3, <1>5 DEF Removed
  <2> QED
    BY <2>1
<1>6. CASE f # 0 /\ new = Removed(ps, r, key)
  <2>1. PICK t : t = RemoveAt(ps[p].cells, f)
    OBVIOUS
  <2>2. IsRemoval(ps[p].cells, f, t)
    BY <2>1 DEF IsRemoval
  <2>3. LeafWithout(t, ps[p].cells, span[p], key)
    BY <1>3, <1>6, <2>2, LeafTaken
  <2>4. new = [ps EXCEPT ![p].cells = t]
    BY <1>1, <1>2, <1>6, <2>1 DEF Removed
  <2> QED
    BY <1>3, <1>4, <2>3, <2>4, LeafReplaced
<1>7. CASE f # 0 /\ new = RemovedOnce(ps, r, key)
  <2>1. PICK t : t = [ps[p].cells EXCEPT ![f] = Tombstone]
    OBVIOUS
  <2>2. LeafWithout(t, ps[p].cells, span[p], key)
    BY <1>3, <1>7, <2>1, LeafBuried
  <2>3. new = [ps EXCEPT ![p].cells = t]
    BY <1>1, <1>2, <1>7, <2>1 DEF RemovedOnce
  <2> QED
    BY <1>3, <1>4, <2>2, <2>3, LeafReplaced
<1> QED
  BY <1>3, <1>5, <1>6, <1>7

-----------------------------------------------------------------------------
(* A new tree.                                                             *)

LEMMA NewTreeRight ==
    ASSUME len \in Lengths, NEW ps, ps = [o \in PageId |-> Free], NEW p \in PageId,
           NEW new, new = NewTree(ps, p)
    PROVE  \E lev, span : Whole(new, lev, span, p, {}) /\ lev[p] = 1
<1>1. PICK lev, span : /\ lev = [o \in PageId |-> IF o = p THEN 1 ELSE 0]
                       /\ span = [o \in PageId |-> Nat]
  OBVIOUS
<1>2. new = [o \in PageId |-> IF o = p THEN EmptyLeaf ELSE Free]
  BY DEF NewTree
<1>3. EmptyLeaf.cells = <<>> /\ EmptyLeaf.next = NoPage
      /\ EmptyLeaf = Page("leaf", <<>>, NoPage)
  BY DEF EmptyLeaf, Page
<1>4. Taken("leaf", <<>>) <= PageRoom
  BY TakenNone, Lens
<1>5. LeafSound(EmptyLeaf, Nat)
  <2>1. <<>> \in Seq(CellSet) /\ Ordered(<<>>)
    BY DEF Ordered
  <2> QED
    BY <1>3, <1>4, <2>1 DEF LeafSound, IsNode
<1>6. lev \in [PageId -> Nat] /\ span \in [PageId -> SUBSET Nat]
      /\ Outer(span, NoPage, NoPage) = span
  BY <1>1, OuterNone
<1>7. Apart(lev, span)
  BY <1>1 DEF Apart
<1>8. \A o \in PageId : lev[o] >= 1 => o = p /\ lev[o] = 1 /\ lev[o] <= lev[p]
  BY <1>1
<1>9. \A o \in PageId : lev[o] = 0 => new[o] = Free
  BY <1>1, <1>2
<1>10. lev[p] = 1 /\ new[p] = EmptyLeaf /\ span[p] = Nat /\ Nat # {}
  BY <1>1, <1>2
<1>11. NodeSound(new[p], span[p], lev[p], span, lev)
  BY <1>5, <1>10 DEF NodeSound
<1>12. Tree(new, lev, span, p, NoPage, NoPage)
  BY <1>2, <1>6, <1>7, <1>8, <1>9, <1>10, <1>11 DEF Tree
<1>13. Holds(new, lev, {})
  <2>1. \A o \in PageId : lev[o] = 1 => new[o].cells = <<>>
    BY <1>3, <1>8, <1>10
  <2> QED
    BY <2>1 DEF Holds, HasKey
<1>14. Linked(new, lev, span)
  <2>1. Nat = {k \in Nat : k >= 0}
    OBVIOUS
  <2>2. LinkSound(NoPage, lev, span, Nat)
    BY <2>1 DEF LinkSound
  <2>3. \A o \in PageId : lev[o] = 1 => o = p
    BY <1>1
  <2> QED
    BY <1>3, <1>10, <2>2, <2>3 DEF Linked
<1> QED
  BY <1>10, <1>12, <1>13, <1>14 DEF Whole, Closed

-----------------------------------------------------------------------------
(* The pages of a tree.                                                    *)

(* Every number of a branch's span is in a place of it.                    *)
LEMMA PlacesCover ==
    ASSUME NEW cells \in Seq(LiveCells), Ordered(cells), NEW span, span \subseteq Nat,
           NEW k \in span
    PROVE  \E i \in 1 .. Len(cells) + 1 : k \in Place(cells, span, i)
<1>1. PICK n \in Nat : n = Len(cells)
  OBVIOUS
<1>2. \A i \in 1 .. n : cells[i].key \in Nat
  BY <1>1, LiveFacts
<1> DEFINE T == {i \in Nat : ~(i \in 1 .. n + 1 /\ (i <= n => k < cells[i].key))}
<1>3. n + 1 \in Nat \ T
  BY <1>1
<1>4. Nat \ T # {}
  BY <1>3
<1>5. PICK i \in Nat \ T : \A m \in Nat \ T : i <= m
  <2> HIDE DEF T
  <2> QED
    BY <1>4, NatMin
<1>6. i \in 1 .. n + 1 /\ (i <= n => k < cells[i].key)
  OBVIOUS
<1>7. i > 1 => k >= cells[i - 1].key
  <2> SUFFICES ASSUME i > 1 PROVE k >= cells[i - 1].key
    OBVIOUS
  <2>1. PICK j \in Nat : j = i - 1 /\ j \in 1 .. n /\ j < i
    <3>1. i - 1 \in Nat /\ i - 1 \in 1 .. n /\ i - 1 < i
      BY <1>6
    <3> QED
      BY <3>1
  <2>2. j \in T
    <3>1. ~(i <= j)
      BY <2>1
    <3> QED
      BY <1>5, <2>1, <3>1
  <2>3. ~(k < cells[j].key)
    <3>1. j \in 1 .. n + 1 /\ j <= n
      BY <2>1
    <3> QED
      BY <2>2, <3>1
  <2>4. cells[j].key \in Nat /\ k \in Nat
    BY <1>2, <2>1
  <2> QED
    BY <2>1, <2>3, <2>4
<1> QED
  BY <1>1, <1>6, <1>7 DEF Place

(* The branch that routes to a page.                                       *)
IsParent(ps, lev, p, c) ==
    lev[p] > 1 /\ \E i \in 1 .. Len(ps[p].cells) + 1 : Child(ps[p], i) = c

(* What has been reached: no page twice, with each page the one it was     *)
(* reached from, and the children of those that are done.                  *)
Reaching(ps, lev, r, pending, done) ==
    /\ pending \in Seq(PageId) /\ done \in Seq(PageId)
    /\ \A i \in 1 .. Len(pending) : lev[pending[i]] >= 1
    /\ \A i \in 1 .. Len(done) : lev[done[i]] >= 1
    /\ \A i, j \in 1 .. Len(pending) : i # j => pending[i] # pending[j]
    /\ \A i, j \in 1 .. Len(done) : i # j => done[i] # done[j]
    /\ \A i \in 1 .. Len(pending), j \in 1 .. Len(done) : pending[i] # done[j]
    /\ \A c \in Range(pending) \cup Range(done) :
          c = r \/ \E p \in Range(done) : IsParent(ps, lev, p, c)
    /\ \A p \in Range(done), c \in PageId :
          IsParent(ps, lev, p, c) => c \in Range(pending) \cup Range(done)
    /\ r \in Range(pending) \cup Range(done)

LEMMA KindIs ==
    ASSUME NEW ps, NEW lev, NEW span, NEW r, Closed(ps, lev, span, r),
           NEW p \in PageId, lev[p] >= 1
    PROVE  /\ lev[p] > 1 => ps[p].kind = "branch"
           /\ lev[p] = 1 => ps[p].kind = "leaf"
           /\ lev[p] > 1 \/ lev[p] = 1
<1>1. lev[p] \in Nat /\ NodeSound(ps[p], span[p], lev[p], Outer(span, NoPage, NoPage), lev)
  BY DEF Closed, Tree
<1>2. lev[p] > 1 \/ lev[p] = 1
  BY <1>1
<1>3. lev[p] > 1 => lev[p] # 1
  BY <1>1
<1> QED
  BY <1>1, <1>2, <1>3 DEF NodeSound, LeafSound, BranchSound, IsNode, Page

(* What is below a page: its children, each once.                          *)
IsBelow(ps, lev, r, p, b) ==
    /\ b \in Seq(PageId)
    /\ \A i \in 1 .. Len(b) : /\ b[i] # r /\ lev[b[i]] >= 1
                              /\ IsParent(ps, lev, p, b[i])
    /\ \A i, j \in 1 .. Len(b) : i # j => b[i] # b[j]
    /\ \A c : IsParent(ps, lev, p, c) => \E i \in 1 .. Len(b) : b[i] = c

LEMMA BelowIs ==
    ASSUME NEW ps, NEW lev, NEW span, NEW r, Closed(ps, lev, span, r),
           NEW p \in PageId, lev[p] >= 1, NEW b, b = Below(ps, p)
    PROVE  IsBelow(ps, lev, r, p, b)
<1>1. lev[p] > 1 \/ lev[p] = 1
  BY KindIs
<1>2. CASE lev[p] = 1
  <2>1. b = <<>>
    BY <1>2, KindIs DEF Below
  <2>2. \A c : ~IsParent(ps, lev, p, c)
    BY <1>2 DEF IsParent
  <2> QED
    BY <2>1, <2>2 DEF IsBelow
<1>3. CASE lev[p] > 1
  <2>1. Tree(ps, lev, span, r, NoPage, NoPage)
    BY DEF Closed
  <2>2. b = Children(ps[p])
    BY <1>3, KindIs DEF Below
  <2>3. \A i \in 1 .. Len(ps[p].cells) + 1 :
           /\ Child(ps[p], i) \in PageId /\ Child(ps[p], i) # r
           /\ lev[Child(ps[p], i)] >= 1
    <3> SUFFICES ASSUME NEW i \in 1 .. Len(ps[p].cells) + 1
                 PROVE  /\ Child(ps[p], i) \in PageId /\ Child(ps[p], i) # r
                        /\ lev[Child(ps[p], i)] >= 1
      OBVIOUS
    <3> QED
      BY ONLY <1>3, <2>1, p \in PageId, i \in 1 .. Len(ps[p].cells) + 1, ChildIn
  <2>4. ps[p].cells \in Seq(LiveCells) /\ ps[p].next \in PageId \cup {NoPage}
    <3>1. lev[p] # 1
      BY <1>3
    <3> QED
      BY <2>1, <3>1 DEF Tree, NodeSound, BranchSound, IsNode
  <2>5. /\ b \in Seq(PageId \cup {NoPage}) /\ Len(b) = Len(ps[p].cells) + 1
        /\ \A i \in 1 .. Len(ps[p].cells) + 1 : b[i] = Child(ps[p], i)
    BY <2>2, <2>4, ChildrenAre
  <2>6. b \in Seq(PageId)
    BY <2>3, <2>5
  <2>7. \A i, j \in 1 .. Len(b) : i # j => b[i] # b[j]
    BY <1>3, <2>1, <2>5, OneParent
  <2>8. \A i \in 1 .. Len(b) : IsParent(ps, lev, p, b[i])
    BY <1>3, <2>5 DEF IsParent
  <2>9. \A c : IsParent(ps, lev, p, c) => \E i \in 1 .. Len(b) : b[i] = c
    BY <2>5 DEF IsParent
  <2>10. \A i \in 1 .. Len(b) : b[i] # r /\ lev[b[i]] >= 1
    BY <2>3, <2>5
  <2> QED
    BY <2>6, <2>7, <2>8, <2>9, <2>10 DEF IsBelow
<1> QED
  BY <1>1, <1>2, <1>3

LEMMA InRange ==
    ASSUME NEW S, NEW s \in Seq(S), NEW c
    PROVE  c \in Range(s) <=> \E i \in 1 .. Len(s) : s[i] = c
BY DEF Range

(* t is s without its last element, and then b.                            *)
Spread(s, b, t) ==
    /\ Len(t) = (Len(s) - 1) + Len(b)
    /\ \A i \in 1 .. Len(s) - 1 : t[i] = s[i]
    /\ \A j \in 1 .. Len(b) : t[(Len(s) - 1) + j] = b[j]

LEMMA FrontWith ==
    ASSUME NEW S, NEW s \in Seq(S), s # <<>>, NEW b \in Seq(S),
           NEW t, t = Front(s) \o b
    PROVE  t \in Seq(S) /\ Spread(s, b, t)
<1>1. PICK n \in Nat : n = Len(s) - 1 /\ Len(s) = n + 1
  <2>1. Len(s) \in Nat /\ Len(s) # 0
    OBVIOUS
  <2>2. Len(s) - 1 \in Nat /\ Len(s) = (Len(s) - 1) + 1
    BY <2>1
  <2> QED
    BY <2>2
<1>2. PICK f : f = Front(s)
  OBVIOUS
<1>3. f \in Seq(S) /\ Len(f) = n /\ \A i \in 1 .. n : f[i] = s[i]
  BY <1>1, <1>2 DEF Front
<1>4. t = f \o b
  BY <1>2
<1>5. t \in Seq(S) /\ Len(t) = n + Len(b)
  <2>1. f \in Seq(S) /\ b \in Seq(S) /\ t = f \o b /\ Len(f) = n
    BY <1>3, <1>4
  <2>2. f \o b \in Seq(S)
    BY <2>1
  <2>3. Len(f \o b) = Len(f) + Len(b)
    BY <2>1
  <2> QED
    BY <2>1, <2>2, <2>3
<1>6. \A i \in 1 .. n : t[i] = s[i]
  BY <1>3, <1>4
<1>7. \A j \in 1 .. Len(b) : t[n + j] = b[j]
  BY <1>3, <1>4
<1> QED
  BY <1>1, <1>5, <1>6, <1>7 DEF Spread

(* Where each element of such a t comes from.                              *)
Spreads(s, b, t) ==
    /\ \A i \in 1 .. Len(t) : \/ i \in 1 .. Len(s) - 1 /\ t[i] = s[i]
                              \/ \E j \in 1 .. Len(b) : i = (Len(s) - 1) + j
                                                        /\ t[i] = b[j]
    /\ \A i \in 1 .. Len(s) - 1 : \E k \in 1 .. Len(t) : t[k] = s[i]
    /\ \A j \in 1 .. Len(b) : \E k \in 1 .. Len(t) : t[k] = b[j]

LEMMA SpreadFrom ==
    ASSUME NEW S, NEW s \in Seq(S), s # <<>>, NEW b \in Seq(S), NEW t \in Seq(S),
           Spread(s, b, t)
    PROVE  Spreads(s, b, t)
<1>1. PICK n \in Nat : n = Len(s) - 1
  <2>0. Len(s) \in Nat /\ Len(s) # 0
    OBVIOUS
  <2>1. Len(s) - 1 \in Nat
    BY <2>0
  <2> QED
    BY <2>1
<1>2. PICK m \in Nat : m = Len(b)
  OBVIOUS
<1>3. /\ Len(t) = n + m
      /\ \A i \in 1 .. n : t[i] = s[i]
      /\ \A j \in 1 .. m : t[n + j] = b[j]
  BY <1>1, <1>2 DEF Spread
<1>4. ASSUME NEW i \in 1 .. n + m
      PROVE  \/ i \in 1 .. n /\ t[i] = s[i]
             \/ \E j \in 1 .. m : i = n + j /\ t[i] = b[j]
  <2>1. CASE i <= n
    BY <1>3, <2>1
  <2>2. CASE ~(i <= n)
    <3>1. i - n \in 1 .. m /\ i = n + (i - n)
      BY <2>2
    <3>2. PICK j \in 1 .. m : i = n + j
      BY <3>1
    <3> QED
      BY <1>3, <3>2
  <2> QED
    BY <2>1, <2>2
<1>5. \A i \in 1 .. n : i \in 1 .. n + m /\ t[i] = s[i]
  BY <1>3
<1>6. \A j \in 1 .. m : n + j \in 1 .. n + m /\ t[n + j] = b[j]
  BY <1>3, SMTT(30)
<1> QED
  BY <1>1, <1>2, <1>3, <1>4, <1>5, <1>6 DEF Spreads

(* The last of those pending is done, and what is below it pending.        *)
NextReached(ps, pending, done, t, d) ==
    /\ pending # <<>>
    /\ t = Front(pending) \o Below(ps, Last(pending))
    /\ d = Append(done, Last(pending))

LEMMA ReachedOn ==
    ASSUME NEW ps, NEW lev, NEW span, NEW r, Closed(ps, lev, span, r),
           NEW pending, NEW done, Reaching(ps, lev, r, pending, done),
           NEW t, NEW d, NextReached(ps, pending, done, t, d)
    PROVE  Reaching(ps, lev, r, t, d) /\ Len(d) = Len(done) + 1
<1>0. PICK p : /\ pending # <<>> /\ p = Last(pending)
               /\ t = Front(pending) \o Below(ps, p) /\ d = Append(done, p)
  BY DEF NextReached
<1>1. /\ pending \in Seq(PageId) /\ done \in Seq(PageId)
      /\ \A i \in 1 .. Len(pending) : lev[pending[i]] >= 1
      /\ \A i \in 1 .. Len(done) : lev[done[i]] >= 1
      /\ \A i, j \in 1 .. Len(pending) : i # j => pending[i] # pending[j]
      /\ \A i, j \in 1 .. Len(done) : i # j => done[i] # done[j]
      /\ \A i \in 1 .. Len(pending), j \in 1 .. Len(done) : pending[i] # done[j]
  BY DEF Reaching
<1>2. PICK n \in Nat : n = Len(pending) - 1 /\ Len(pending) = n + 1 /\ p = pending[n + 1]
  <2>0. Len(pending) \in Nat /\ Len(pending) # 0
    BY <1>0, <1>1
  <2>1. Len(pending) - 1 \in Nat /\ Len(pending) = (Len(pending) - 1) + 1
    BY <2>0
  <2> QED
    BY <1>0, <2>1 DEF Last
<1>3. PICK l \in Nat : l = Len(done)
  BY <1>1
<1>4. n + 1 \in 1 .. n + 1 /\ p \in PageId /\ lev[p] >= 1
  BY <1>1, <1>2
<1>5. PICK b : b = Below(ps, p)
  OBVIOUS
<1>6. /\ b \in Seq(PageId)
      /\ \A i \in 1 .. Len(b) : /\ b[i] # r /\ lev[b[i]] >= 1
                                /\ IsParent(ps, lev, p, b[i])
      /\ \A i, j \in 1 .. Len(b) : i # j => b[i] # b[j]
      /\ \A c : IsParent(ps, lev, p, c) => \E i \in 1 .. Len(b) : b[i] = c
  <2>1. IsBelow(ps, lev, r, p, b)
    BY <1>4, <1>5, BelowIs
  <2> QED
    BY <2>1 DEF IsBelow
<1>7. t \in Seq(PageId) /\ Spread(pending, b, t)
  BY <1>0, <1>1, <1>5, <1>6, FrontWith
<1>8. /\ \A i \in 1 .. Len(t) : \/ i \in 1 .. n /\ t[i] = pending[i]
                                \/ \E j \in 1 .. Len(b) : i = n + j /\ t[i] = b[j]
      /\ \A i \in 1 .. n : \E k \in 1 .. Len(t) : t[k] = pending[i]
      /\ \A j \in 1 .. Len(b) : \E k \in 1 .. Len(t) : t[k] = b[j]
  <2>1. Spreads(pending, b, t)
    BY <1>0, <1>1, <1>6, <1>7, SpreadFrom
  <2> QED
    BY <1>2, <2>1 DEF Spreads
<1>9. /\ d \in Seq(PageId) /\ Len(d) = l + 1 /\ d[l + 1] = p
      /\ \A i \in 1 .. l : d[i] = done[i]
  BY <1>0, <1>1, <1>3, <1>4
<1> DEFINE Old == Range(pending) \cup Range(done)
           New == Range(t) \cup Range(d)
<1>10. /\ \A c : c \in Range(pending) <=> \E i \in 1 .. n + 1 : pending[i] = c
       /\ \A c : c \in Range(done) <=> \E i \in 1 .. l : done[i] = c
       /\ \A c : c \in Range(t) <=> \E i \in 1 .. Len(t) : t[i] = c
       /\ \A c : c \in Range(d) <=> \E i \in 1 .. l + 1 : d[i] = c
       /\ \A c : c \in Range(b) <=> \E i \in 1 .. Len(b) : b[i] = c
  <2>1. \A c : c \in Range(pending) <=> \E i \in 1 .. n + 1 : pending[i] = c
    BY <1>1, <1>2, InRange
  <2>2. \A c : c \in Range(done) <=> \E i \in 1 .. l : done[i] = c
    BY <1>1, <1>3, InRange
  <2>3. \A c : c \in Range(t) <=> \E i \in 1 .. Len(t) : t[i] = c
    BY <1>7, InRange
  <2>4. \A c : c \in Range(d) <=> \E i \in 1 .. l + 1 : d[i] = c
    <3>1. \A c : c \in Range(d) <=> \E i \in 1 .. Len(d) : d[i] = c
      <4>1. d \in Seq(PageId)
        BY <1>9
      <4> QED
        BY ONLY <4>1, InRange
    <3> QED
      BY <1>9, <3>1
  <2>5. \A c : c \in Range(b) <=> \E i \in 1 .. Len(b) : b[i] = c
    BY <1>6, InRange
  <2> QED
    BY <2>1, <2>2, <2>3, <2>4, <2>5
<1>11. /\ \A c \in Old : c = r \/ \E o \in Range(done) : IsParent(ps, lev, o, c)
       /\ \A o \in Range(done), c \in PageId : IsParent(ps, lev, o, c) => c \in Old
       /\ r \in Old
  BY DEF Reaching
<1>12. Range(d) = Range(done) \cup {p}
  <2>1. ASSUME NEW c \in Range(d) PROVE c \in Range(done) \cup {p}
    <3>1. PICK i \in 1 .. l + 1 : d[i] = c
      BY <1>10
    <3>2. i = l + 1 \/ i \in 1 .. l
      OBVIOUS
    <3> QED
      BY <1>9, <1>10, <3>1, <3>2
  <2>2. ASSUME NEW c \in Range(done) PROVE c \in Range(d)
    <3>1. PICK i \in 1 .. l : done[i] = c
      BY <1>10
    <3>2. i \in 1 .. l + 1
      OBVIOUS
    <3> QED
      BY <1>9, <1>10, <3>1, <3>2
  <2>3. p \in Range(d)
    <3>1. l + 1 \in 1 .. l + 1
      OBVIOUS
    <3> QED
      BY <1>9, <1>10, <3>1
  <2> QED
    BY <2>1, <2>2, <2>3
<1>13. Range(t) \subseteq Range(pending) \cup Range(b)
  <2> SUFFICES ASSUME NEW c \in Range(t) PROVE c \in Range(pending) \cup Range(b)
    OBVIOUS
  <2>1. PICK i \in 1 .. Len(t) : t[i] = c
    BY <1>10
  <2>2. CASE i \in 1 .. n /\ t[i] = pending[i]
    <3>1. i \in 1 .. n + 1
      BY <2>2
    <3> QED
      BY <1>10, <2>1, <2>2, <3>1
  <2>3. CASE \E j \in 1 .. Len(b) : i = n + j /\ t[i] = b[j]
    BY <1>6, <2>1, <2>3, <1>10
  <2> QED
    BY <1>8, <2>1, <2>2, <2>3
<1>14. Range(b) \subseteq Range(t)
  <2> SUFFICES ASSUME NEW c \in Range(b) PROVE c \in Range(t)
    OBVIOUS
  <2>1. PICK j \in 1 .. Len(b) : b[j] = c
    BY <1>10
  <2>2. PICK k \in 1 .. Len(t) : t[k] = b[j]
    BY <1>8
  <2> QED
    BY <1>10, <2>1, <2>2
<1>15. Old \subseteq New
  <2> SUFFICES ASSUME NEW c \in Range(pending) PROVE c \in New
    BY <1>12
  <2>1. PICK i \in 1 .. n + 1 : pending[i] = c
    BY <1>10
  <2>2. CASE i \in 1 .. n
    BY <1>8, <1>10, <2>1, <2>2
  <2>3. CASE i = n + 1
    BY <1>2, <1>12, <2>1, <2>3
  <2> QED
    BY <2>2, <2>3
<1>16. p \in Old /\ p \notin Range(done)
  <2>1. p \in Range(pending)
    BY <1>2, <1>4, <1>10
  <2>2. ASSUME NEW j \in 1 .. l, done[j] = p PROVE FALSE
    BY <1>1, <1>2, <1>3, <1>4, <2>2
  <2> QED
    BY <1>10, <2>1, <2>2
(* No child of p has been met before.                                      *)
<1>17. ASSUME NEW c \in Range(b) PROVE c \notin Old
  <2>1. c # r /\ IsParent(ps, lev, p, c)
    BY <1>6, <1>10
  <2>2. ASSUME NEW o \in Range(done), IsParent(ps, lev, o, c) PROVE FALSE
    <3>1. o \in PageId
      BY <1>1, <1>3, <1>10
    <3>2. o = p
      BY <1>4, <2>1, <2>2, <3>1, OneParent DEF IsParent, Closed
    <3> QED
      BY <1>16, <3>2
  <2> QED
    BY <1>11, <2>1, <2>2
<1> HIDE DEF Old, New
<1>18. \A i \in 1 .. Len(t) : lev[t[i]] >= 1
  <2> SUFFICES ASSUME NEW i \in 1 .. Len(t) PROVE lev[t[i]] >= 1
    OBVIOUS
  <2>1. CASE i \in 1 .. n /\ t[i] = pending[i]
    <3>1. i \in 1 .. Len(pending)
      BY <1>2, <2>1
    <3> QED
      BY <1>1, <2>1, <3>1
  <2>2. CASE \E j \in 1 .. Len(b) : i = n + j /\ t[i] = b[j]
    BY <1>6, <2>2
  <2> QED
    BY <1>8, <2>1, <2>2
<1>19. \A i \in 1 .. Len(d) : lev[d[i]] >= 1
  <2> SUFFICES ASSUME NEW i \in 1 .. l + 1 PROVE lev[d[i]] >= 1
    BY <1>9
  <2>1. CASE i \in 1 .. l
    BY <1>1, <1>3, <1>9, <2>1
  <2>2. CASE i = l + 1
    BY <1>4, <1>9, <2>2
  <2>3. i \in 1 .. l \/ i = l + 1
    OBVIOUS
  <2> QED
    BY <2>1, <2>2, <2>3
<1>20. \A i, j \in 1 .. Len(t) : i # j => t[i] # t[j]
  <2> SUFFICES ASSUME NEW i \in 1 .. Len(t), NEW j \in 1 .. Len(t), i # j
               PROVE  t[i] # t[j]
    OBVIOUS
  <2>1. CASE i \in 1 .. n /\ t[i] = pending[i] /\ j \in 1 .. n /\ t[j] = pending[j]
    <3>1. i \in 1 .. Len(pending) /\ j \in 1 .. Len(pending)
      BY <1>2, <2>1
    <3> QED
      BY <1>1, <2>1, <3>1
  <2>2. ASSUME NEW u \in 1 .. n, NEW v \in 1 .. Len(b) PROVE pending[u] # b[v]
    <3>1. u \in 1 .. n + 1
      OBVIOUS
    <3>2. pending[u] \in Old
      BY <1>10, <3>1 DEF Old
    <3>3. b[v] \notin Old
      BY <1>6, <1>17, <1>10
    <3> QED
      BY <3>2, <3>3
  <2>3. CASE /\ \E u \in 1 .. Len(b) : i = n + u /\ t[i] = b[u]
             /\ \E v \in 1 .. Len(b) : j = n + v /\ t[j] = b[v]
    BY <1>6, <2>3
  <2>4. \/ i \in 1 .. n /\ t[i] = pending[i]
        \/ \E u \in 1 .. Len(b) : i = n + u /\ t[i] = b[u]
    BY <1>8
  <2>5. \/ j \in 1 .. n /\ t[j] = pending[j]
        \/ \E v \in 1 .. Len(b) : j = n + v /\ t[j] = b[v]
    BY <1>8
  <2> QED
    BY <2>1, <2>2, <2>3, <2>4, <2>5
<1>21. \A i, j \in 1 .. Len(d) : i # j => d[i] # d[j]
  <2> SUFFICES ASSUME NEW i \in 1 .. l + 1, NEW j \in 1 .. l + 1, i # j
               PROVE  d[i] # d[j]
    BY <1>9
  <2>1. \A u \in 1 .. l : done[u] # p
    BY <1>10, <1>16
  <2>2. CASE i \in 1 .. l /\ j \in 1 .. l
    BY <1>1, <1>3, <1>9, <2>2
  <2>3. CASE i = l + 1 /\ j \in 1 .. l
    BY <1>9, <2>1, <2>3
  <2>4. CASE j = l + 1 /\ i \in 1 .. l
    BY <1>9, <2>1, <2>4
  <2>5. (i \in 1 .. l \/ i = l + 1) /\ (j \in 1 .. l \/ j = l + 1)
    OBVIOUS
  <2> QED
    BY <2>2, <2>3, <2>4, <2>5
<1>22. \A i \in 1 .. Len(t), j \in 1 .. Len(d) : t[i] # d[j]
  <2> SUFFICES ASSUME NEW i \in 1 .. Len(t), NEW c \in Range(d) PROVE t[i] # c
    BY <1>9, <1>10
  <2>1. CASE i \in 1 .. n /\ t[i] = pending[i]
    <3>1. i \in 1 .. Len(pending) /\ n + 1 \in 1 .. Len(pending) /\ i # n + 1
      BY <1>2, <2>1
    <3>2. t[i] # p
      BY <1>1, <1>2, <2>1, <3>1
    <3>3. \A u \in 1 .. l : pending[i] # done[u]
      BY <1>1, <1>3, <3>1
    <3>4. t[i] \notin Range(done)
      BY <1>10, <2>1, <3>3
    <3> QED
      BY <1>12, <3>2, <3>4
  <2>2. CASE \E j \in 1 .. Len(b) : i = n + j /\ t[i] = b[j]
    <3>1. t[i] \in Range(b)
      BY <1>6, <2>2, <1>10
    <3>2. t[i] \notin Old
      BY <1>17, <3>1
    <3> QED
      BY <1>12, <1>16, <3>2 DEF Old
  <2> QED
    BY <1>8, <2>1, <2>2
<1>23. \A c \in New : c = r \/ \E o \in Range(d) : IsParent(ps, lev, o, c)
  <2> SUFFICES ASSUME NEW c \in New PROVE c = r \/ \E o \in Range(d) : IsParent(ps, lev, o, c)
    OBVIOUS
  <2>1. c \in Old \/ c \in Range(b)
    BY <1>12, <1>13, <1>16 DEF Old, New
  <2>2. CASE c \in Old
    BY <1>11, <1>12, <2>2
  <2>3. CASE c \in Range(b)
    BY <1>6, <1>12, <2>3, <1>10
  <2> QED
    BY <2>1, <2>2, <2>3
<1>24. \A o \in Range(d), c \in PageId : IsParent(ps, lev, o, c) => c \in New
  <2> SUFFICES ASSUME NEW o \in Range(d), NEW c \in PageId, IsParent(ps, lev, o, c)
               PROVE  c \in New
    OBVIOUS
  <2>1. CASE o = p
    BY <1>6, <1>14, <2>1, <1>10 DEF New
  <2>2. CASE o \in Range(done)
    BY <1>11, <1>15, <2>2
  <2> QED
    BY <1>12, <2>1, <2>2
<1>25. r \in New
  BY <1>11, <1>15
<1>26. Reaching(ps, lev, r, t, d)
  BY <1>7, <1>9, <1>18, <1>19, <1>20, <1>21, <1>22, <1>23, <1>24, <1>25
     DEF Reaching, New
<1> QED
  BY <1>3, <1>9, <1>26

LEMMA ReachingStart ==
    ASSUME NEW ps, NEW lev, NEW span, NEW r, Closed(ps, lev, span, r)
    PROVE  Reaching(ps, lev, r, <<r>>, <<>>)
<1>1. r \in PageId /\ lev[r] >= 1
  BY DEF Closed, Tree
<1>2. <<r>> \in Seq(PageId) /\ <<>> \in Seq(PageId) /\ Len(<<r>>) = 1 /\ <<r>>[1] = r
  BY <1>1
<1>3. Range(<<r>>) = {r} /\ Range(<<>>) = {}
  BY <1>2 DEF Range
<1>4. \A i \in 1 .. 1 : i = 1
  OBVIOUS
<1> QED
  BY <1>1, <1>2, <1>3, <1>4 DEF Reaching

(* There are no more pages than that.                                      *)
LEMMA ReachingEnds ==
    ASSUME NEW ps, NEW lev, NEW r, NEW pending, NEW done,
           Reaching(ps, lev, r, pending, done), Len(done) = MaxPages
    PROVE  pending = <<>>
<1> SUFFICES ASSUME pending # <<>> PROVE FALSE
  OBVIOUS
<1>1. /\ pending \in Seq(PageId) /\ done \in Seq(PageId)
      /\ \A i, j \in 1 .. Len(done) : i # j => done[i] # done[j]
      /\ \A i \in 1 .. Len(pending), j \in 1 .. Len(done) : pending[i] # done[j]
  BY DEF Reaching
<1>2. PICK n \in Nat : n = MaxPages
  BY BTreeAssumption
<1>3. PICK x : x = pending[1]
  OBVIOUS
<1>4. 1 \in 1 .. Len(pending) /\ x \in PageId
  BY <1>1, <1>3
<1>5. \A j \in 1 .. n : x # done[j]
  BY <1>1, <1>2, <1>3, <1>4
<1>6. PICK e : e = [i \in 1 .. n + 1 |-> IF i = n + 1 THEN x ELSE done[i]]
  OBVIOUS
<1>7. e \in [1 .. n + 1 -> PageId]
  <2> SUFFICES ASSUME NEW i \in 1 .. n + 1 PROVE e[i] \in PageId
    BY <1>6
  <2>1. i = n + 1 \/ i \in 1 .. n
    OBVIOUS
  <2>2. \A j \in 1 .. n : done[j] \in PageId
    BY <1>1, <1>2
  <2> QED
    BY <1>4, <1>6, <2>1, <2>2
<1>8. \A i, j \in 1 .. n + 1 : i # j => e[i] # e[j]
  <2> SUFFICES ASSUME NEW i \in 1 .. n + 1, NEW j \in 1 .. n + 1, i # j
               PROVE  e[i] # e[j]
    OBVIOUS
  <2>1. (i = n + 1 \/ i \in 1 .. n) /\ (j = n + 1 \/ j \in 1 .. n)
    OBVIOUS
  <2>2. \A u, v \in 1 .. n : u # v => done[u] # done[v]
    BY <1>1, <1>2
  <2>3. \A u \in 1 .. n : u # n + 1
    OBVIOUS
  <2> QED
    BY <1>5, <1>6, <2>1, <2>2, <2>3
<1>9. /\ IsFiniteSet(1 .. n + 1) /\ Cardinality(1 .. n + 1) = n + 1
      /\ IsFiniteSet(PageId) /\ Cardinality(PageId) = n
  <2>1. IsFiniteSet(1 .. n + 1) /\ Cardinality(1 .. n + 1) = n + 1
    <3>1. 1 \in Int /\ n + 1 \in Int
      OBVIOUS
    <3>2. /\ IsFiniteSet(1 .. n + 1)
          /\ Cardinality(1 .. n + 1) = IF 1 > n + 1 THEN 0 ELSE (n + 1) - 1 + 1
      BY ONLY <3>1, FS_Interval
    <3> QED
      BY <3>2
  <2>2. IsFiniteSet(1 .. n) /\ Cardinality(1 .. n) = n
    BY FS_Interval
  <2> QED
    BY <1>2, <2>1, <2>2 DEF PageId
<1>10. Cardinality(PageId) < Cardinality(1 .. n + 1)
  BY <1>9
<1>11. \E i, j \in 1 .. n + 1 : i # j /\ e[i] = e[j]
  BY <1>7, <1>9, <1>10, FS_PigeonHole
<1> QED
  BY <1>8, <1>11

(* All pages of the tree, each the child of another but the root.          *)
LEMMA AllReached ==
    ASSUME NEW ps, NEW lev, NEW span, NEW r, Closed(ps, lev, span, r),
           NEW done, Reaching(ps, lev, r, <<>>, done),
           NEW o \in PageId, lev[o] >= 1
    PROVE  o \in Range(done)
<1>1. /\ Tree(ps, lev, span, r, NoPage, NoPage) /\ lev \in [PageId -> Nat]
      /\ span \in [PageId -> SUBSET Nat] /\ r \in PageId /\ lev[r] >= 1
      /\ Apart(lev, span) /\ span[o] # {} /\ lev[o] <= lev[r]
  BY DEF Closed, Tree
<1>2. Outer(span, NoPage, NoPage) = span
  BY <1>1, OuterNone
<1>3. span[r] = Nat
  BY <1>1, <1>2 DEF Tree
<1>4. PICK k \in Nat : k \in span[o]
  BY <1>1
<1>5. /\ r \in Range(done) /\ done \in Seq(PageId)
      /\ \A p \in Range(done), c \in PageId : IsParent(ps, lev, p, c) => c \in Range(done)
  <2>1. Range(<<>>) = {}
    BY DEF Range
  <2> QED
    BY <2>1 DEF Reaching
<1>6. PICK top \in Nat : top = lev[r]
  BY <1>1
<1> DEFINE T == {d \in Nat : d < top =>
                   \E c \in Range(done) : c \in PageId /\ lev[c] + d = top /\ k \in span[c]}
<1>7. 0 \in T
  <2>1. lev[r] + 0 = top
    BY <1>6
  <2> QED
    BY <1>1, <1>3, <1>5, <2>1
<1>8. ASSUME NEW d \in Nat, d \in T PROVE d + 1 \in T
  <2> SUFFICES ASSUME d + 1 < top
               PROVE  \E c \in Range(done) : /\ c \in PageId /\ lev[c] + (d + 1) = top
                                             /\ k \in span[c]
    OBVIOUS
  <2>1. d < top
    BY <1>6
  <2>2. PICK c \in Range(done) : c \in PageId /\ lev[c] + d = top /\ k \in span[c]
    BY <1>8, <2>1
  <2>3. lev[c] > 1 /\ lev[c] \in Nat
    <3>1. PICK a \in Nat : a = lev[c]
      BY <1>1, <2>2
    <3>2. a + d = top /\ d + 1 < top
      BY <2>2, <3>1
    <3>3. a > 1
      BY <3>2
    <3> QED
      BY <3>1, <3>3
  <2>4. ps[c].cells \in Seq(LiveCells) /\ Ordered(ps[c].cells)
    <3>1. lev[c] >= 1 /\ lev[c] # 1
      BY <2>3
    <3> QED
      BY <1>1, <2>2, <3>1 DEF Tree, NodeSound, BranchSound, IsNode
  <2>5. PICK i \in 1 .. Len(ps[c].cells) + 1 : k \in Place(ps[c].cells, span[c], i)
    BY <1>1, <2>2, <2>4, PlacesCover
  <2>6. PICK b : b = Child(ps[c], i)
    OBVIOUS
  <2>7. b \in PageId /\ lev[b] + 1 = lev[c] /\ k \in span[b]
    BY <1>1, <1>2, <2>2, <2>3, <2>5, <2>6, ChildIn
  <2>8. b \in Range(done)
    BY <1>5, <2>2, <2>3, <2>6, <2>7 DEF IsParent
  <2>9. lev[b] + (d + 1) = top
    <3>1. PICK a \in Nat : a = lev[b]
      BY <1>1, <2>7
    <3> QED
      BY <2>2, <2>7, <3>1
  <2> QED
    BY <2>7, <2>8, <2>9
<1>9. PICK l, d \in Nat : l = lev[o] /\ l >= 1 /\ l + d = top /\ d < top
  <2>1. PICK l \in Nat : l = lev[o] /\ l >= 1 /\ l <= top
    BY <1>1, <1>6
  <2>2. top - l \in Nat /\ l + (top - l) = top /\ top - l < top
    BY <2>1
  <2> QED
    BY <2>1, <2>2
<1>10. d \in T
  <2> HIDE DEF T
  <2> QED
    BY <1>7, <1>8, NatInd
<1>11. PICK c \in Range(done) : c \in PageId /\ lev[c] + d = top /\ k \in span[c]
  BY <1>9, <1>10
<1>12. lev[c] = lev[o]
  <2>1. PICK a \in Nat : a = lev[c]
    BY <1>1, <1>11
  <2>2. a + d = l + d
    BY <1>9, <1>11, <2>1
  <2> QED
    BY <1>9, <2>1, <2>2
<1>13. c = o
  BY <1>1, <1>4, <1>11, <1>12 DEF Apart
<1> QED
  BY <1>11, <1>13

(* What `pages` returns.                                                   *)
LEMMA ReachedRight ==
    ASSUME NEW ps, NEW lev, NEW span, NEW r, Closed(ps, lev, span, r),
           NEW done, done = Reached(ps, r)
    PROVE  /\ IsInjective(done)
           /\ Range(done) = {o \in PageId : ps[o] # Free}
<1>1. PICK n \in Nat : n = MaxPages
  BY BTreeAssumption
<1>2. PICK h : /\ done = h[n].pages
               /\ h[0] = ReachStart(r)
               /\ \A i \in 1 .. n : h[i] = ReachOn(ps, h[i - 1])
  BY <1>1, ReachSteps
<1> DEFINE T == {i \in Nat : i <= n =>
                   /\ Reaching(ps, lev, r, h[i].pending, h[i].pages)
                   /\ h[i].pending = <<>> \/ Len(h[i].pages) = i}
<1>3. 0 \in T
  <2>1. h[0].pending = <<r>> /\ h[0].pages = <<>>
    BY <1>2 DEF ReachStart
  <2> QED
    BY <2>1, ReachingStart
<1>4. ASSUME NEW i \in Nat, i \in T PROVE i + 1 \in T
  <2> SUFFICES ASSUME i + 1 <= n
               PROVE  /\ Reaching(ps, lev, r, h[i + 1].pending, h[i + 1].pages)
                      /\ h[i + 1].pending = <<>> \/ Len(h[i + 1].pages) = i + 1
    OBVIOUS
  <2>1. i <= n /\ i + 1 \in 1 .. n /\ (i + 1) - 1 = i
    OBVIOUS
  <2>2. /\ Reaching(ps, lev, r, h[i].pending, h[i].pages)
        /\ h[i].pending = <<>> \/ Len(h[i].pages) = i
    BY <1>4, <2>1
  <2>3. h[i + 1] = ReachOn(ps, h[i])
    BY <1>2, <2>1
  <2>4. CASE h[i].pending = <<>>
    BY <2>2, <2>3, <2>4 DEF ReachOn
  <2>5. CASE h[i].pending # <<>>
    <3>1. PICK pending, was : pending = h[i].pending /\ was = h[i].pages
      OBVIOUS
    <3>2. PICK p : p = Last(pending)
      OBVIOUS
    <3>3. PICK t, d : t = Front(pending) \o Below(ps, p) /\ d = Append(was, p)
      OBVIOUS
    <3>4. h[i + 1] = [pending |-> t, pages |-> d]
      BY <2>3, <2>5, <3>1, <3>2, <3>3 DEF ReachOn
    <3>5. Reaching(ps, lev, r, t, d) /\ Len(d) = Len(was) + 1
      <4>1. /\ Closed(ps, lev, span, r) /\ Reaching(ps, lev, r, pending, was)
            /\ NextReached(ps, pending, was, t, d)
        BY <2>2, <2>5, <3>1, <3>2, <3>3 DEF NextReached
      <4> QED
        BY ONLY <4>1, ReachedOn
    <3> QED
      BY <2>2, <2>5, <3>1, <3>4, <3>5
  <2> QED
    BY <2>4, <2>5
<1>5. n \in T
  <2> HIDE DEF T
  <2> QED
    BY <1>3, <1>4, NatInd
<1>6. PICK pending : pending = h[n].pending
  OBVIOUS
<1>7. Reaching(ps, lev, r, pending, done) /\ (pending = <<>> \/ Len(done) = n)
  BY <1>2, <1>5, <1>6
<1>8. pending = <<>>
  BY <1>1, <1>7, ReachingEnds
<1>9. /\ done \in Seq(PageId)
      /\ \A i \in 1 .. Len(done) : lev[done[i]] >= 1
      /\ \A i, j \in 1 .. Len(done) : i # j => done[i] # done[j]
  BY <1>7 DEF Reaching
<1>10. IsInjective(done)
  BY <1>9 DEF IsInjective
<1>11. \A o \in PageId : lev[o] \in Nat /\ (ps[o] = Free <=> lev[o] = 0)
  BY FreeOutside DEF Closed
<1>12. \A o \in PageId : lev[o] >= 1 <=> ps[o] # Free
  BY <1>11
<1>13. \A o \in PageId : lev[o] >= 1 => o \in Range(done)
  BY <1>7, <1>8, AllReached
<1>14. \A o \in Range(done) : o \in PageId /\ lev[o] >= 1
  BY <1>9 DEF Range
<1> QED
  BY <1>10, <1>12, <1>13, <1>14

-----------------------------------------------------------------------------
(* Keys in ascending order.                                                *)

LEMMA AscendingRight ==
    ASSUME NEW S, S \subseteq Key, IsFiniteSet(S), NEW t, t = Ascending(S)
    PROVE  t \in Seq(Key) /\ IsInjective(t) /\ Range(t) \subseteq S
<1>1. PICK n \in Nat : n = Cardinality(S)
  BY FS_CardinalityType
<1>2. \A k \in S : k \in Nat
  BY KeyFacts
<1> DEFINE Before(k) == {j \in S : j < k}
<1>3. ASSUME NEW k \in S
      PROVE  /\ IsFiniteSet(Before(k)) /\ Cardinality(Before(k)) \in 0 .. n - 1
             /\ IsFiniteSet(Before(k) \cup {k})
             /\ Cardinality(Before(k) \cup {k}) = Cardinality(Before(k)) + 1
  <2>1. k \notin Before(k)
    BY <1>2
  <2>2. Before(k) \in SUBSET S /\ Before(k) \cup {k} \in SUBSET S
    OBVIOUS
  <2>3. IsFiniteSet(Before(k)) /\ IsFiniteSet(Before(k) \cup {k})
        /\ Cardinality(Before(k) \cup {k}) <= Cardinality(S)
    BY <2>2, FS_Subset
  <2>4. Cardinality(Before(k)) \in Nat
    BY <2>3, FS_CardinalityType
  <2>5. Cardinality(Before(k) \cup {k}) = Cardinality(Before(k)) + 1
    BY <2>1, <2>3, FS_AddElement
  <2>6. PICK c \in Nat : c = Cardinality(Before(k)) /\ c + 1 <= n
    BY <1>1, <2>3, <2>4, <2>5
  <2>7. c \in 0 .. n - 1
    BY <2>6
  <2> QED
    BY <2>3, <2>5, <2>6, <2>7
<1>4. ASSUME NEW k \in S, NEW l \in S, k < l
      PROVE  Cardinality(Before(k)) # Cardinality(Before(l))
  <2>1. Before(k) \cup {k} \in SUBSET Before(l)
    <3>1. \A j \in S : j < k => j < l
      BY <1>2, <1>4
    <3> QED
      BY <1>4, <3>1
  <2>2. Cardinality(Before(k) \cup {k}) <= Cardinality(Before(l))
    BY <1>3, <2>1, FS_Subset
  <2>3. PICK a, b \in Int : a = Cardinality(Before(k)) /\ b = Cardinality(Before(l))
    <3>1. Cardinality(Before(k)) \in 0 .. n - 1 /\ Cardinality(Before(l)) \in 0 .. n - 1
      BY <1>3
    <3> HIDE DEF Before
    <3> QED
      BY <3>1
  <2>4. a + 1 <= b
    BY <1>3, <2>2, <2>3
  <2> QED
    BY <2>3, <2>4
<1>5. PICK f : f = [k \in S |-> Cardinality(Before(k))]
  OBVIOUS
<1> HIDE DEF Before
<1>6. f \in [S -> 0 .. n - 1]
  BY <1>3, <1>5
<1>7. \A k, l \in S : f[k] = f[l] => k = l
  <2> SUFFICES ASSUME NEW k \in S, NEW l \in S, k # l PROVE f[k] # f[l]
    OBVIOUS
  <2>1. k < l \/ l < k
    BY <1>2
  <2> QED
    BY <1>4, <1>5, <2>1
<1>8. f \in Injection(S, 0 .. n - 1)
  BY <1>6, <1>7 DEF Injection, IsInjective
<1>9. IsFiniteSet(0 .. n - 1) /\ Cardinality(0 .. n - 1) = n
  <2>1. PICK m \in Int : m = n - 1
    OBVIOUS
  <2>2. IsFiniteSet(0 .. m) /\ Cardinality(0 .. m) = IF 0 > m THEN 0 ELSE m - 0 + 1
    BY FS_Interval
  <2>3. (IF 0 > m THEN 0 ELSE m - 0 + 1) = n
    BY <2>1
  <2> QED
    BY <2>1, <2>2, <2>3
<1>10. f \in Surjection(S, 0 .. n - 1)
  BY <1>1, <1>8, <1>9, FS_Injection
<1>11. ASSUME NEW i \in 1 .. n
       PROVE  t[i] \in S /\ Cardinality(Before(t[i])) = i - 1
  <2>1. i - 1 \in 0 .. n - 1
    OBVIOUS
  <2>2. PICK k \in S : f[k] = i - 1
    BY <1>10, <2>1 DEF Surjection
  <2>3. \E j \in S : Cardinality(Before(j)) = i - 1
    BY <1>5, <2>2
  <2>4. t[i] = CHOOSE j \in S : Cardinality(Before(j)) = i - 1
    BY <1>1 DEF Ascending, Before
  <2> QED
    BY <2>3, <2>4
<1>12. t = [i \in 1 .. n |-> t[i]]
  <2>1. t = [i \in 1 .. n |-> CHOOSE k \in S : Cardinality({j \in S : j < k}) = i - 1]
    BY <1>1, Zenon DEF Ascending
  <2> QED
    BY <2>1
<1>13. t \in Seq(Key) /\ DOMAIN t = 1 .. n
  <2>1. \A i \in 1 .. n : t[i] \in Key
    BY <1>11
  <2>2. t \in [1 .. n -> Key]
    BY <1>12, <2>1
  <2> QED
    BY <2>2
<1>14. IsInjective(t)
  <2> SUFFICES ASSUME NEW i \in 1 .. n, NEW j \in 1 .. n, t[i] = t[j] PROVE i = j
    BY <1>13 DEF IsInjective
  <2>1. i - 1 = j - 1
    BY <1>11
  <2> QED
    BY <2>1
<1>15. Range(t) \subseteq S
  BY <1>11, <1>13 DEF Range
<1> QED
  BY <1>13, <1>14, <1>15

-----------------------------------------------------------------------------
(* The length of a key stays.                                              *)

LEMMA TakenStays ==
    ASSUME len' = len, NEW kind, NEW cells
    PROVE  Taken(kind, cells)' = Taken(kind, cells)
<1>1. \A c : Size(kind, c)' = Size(kind, c)
  BY DEF Size, CellLen
<1>2. [i \in DOMAIN cells |-> Size(kind, cells[i])']
        = [i \in DOMAIN cells |-> Size(kind, cells[i])]
  BY <1>1
<1> QED
  BY <1>2 DEF Taken

LEMMA IsNodeStays ==
    ASSUME len' = len, NEW page, NEW kind, IsNode(page, kind)
    PROVE  IsNode(page, kind)'
<1>1. Taken(kind, page.cells)' = Taken(kind, page.cells)
  BY TakenStays
<1> QED
  BY <1>1 DEF IsNode

LEMMA NodeSoundStays ==
    ASSUME len' = len, NEW page, NEW span, NEW l, NEW out, NEW lev,
           NodeSound(page, span, l, out, lev)
    PROVE  NodeSound(page, span, l, out, lev)'
<1>1. \A kind : IsNode(page, kind) => IsNode(page, kind)'
  BY IsNodeStays
<1> QED
  BY <1>1 DEF NodeSound, LeafSound, BranchSound

(* There are levels and keys for the pages that make them a tree.          *)
Stands(ps, r, es) ==
    \E lev, span : Whole(ps, lev, span, r, es) /\ lev[r] <= MaxDepth + 1

LEMMA StandsNext ==
    ASSUME len' = len, Stands(pages', root', entries')
    PROVE  Stands(pages, root, entries)'
<1>1. PICK lev, span : Whole(pages', lev, span, root', entries')
                       /\ lev[root'] <= MaxDepth + 1
  BY DEF Stands
<1>2. PICK ps, r, es : ps = pages' /\ r = root' /\ es = entries'
  OBVIOUS
<1>3. Whole(ps, lev, span, r, es) /\ lev[r] <= MaxDepth + 1
  BY <1>1, <1>2
<1>4. \A page, sp, l, out : NodeSound(page, sp, l, out, lev)
                              => NodeSound(page, sp, l, out, lev)'
  BY NodeSoundStays
<1>5. Tree(ps, lev, span, r, NoPage, NoPage) /\ Holds(ps, lev, es)
      /\ Linked(ps, lev, span)
  BY <1>3 DEF Whole, Closed
<1>6. Tree(ps, lev, span, r, NoPage, NoPage)'
  BY <1>4, <1>5 DEF Tree
<1>7. Tree(pages, lev, span, root, NoPage, NoPage)'
  BY <1>2, <1>6 DEF Tree
<1>8. Holds(pages, lev, entries)'
  BY <1>2, <1>5 DEF Holds
<1>9. Linked(pages, lev, span)'
  BY <1>2, <1>5 DEF Linked, LinkSound
<1>10. Whole(pages, lev, span, root, entries)'
  BY <1>7, <1>8, <1>9 DEF Whole, Closed
<1> QED
  BY <1>2, <1>3, <1>10 DEF Stands

-----------------------------------------------------------------------------
(* The inductive invariant.                                                *)

TypeInv ==
    /\ len \in Lengths /\ root \in PageId \cup {NoPage}
    /\ entries \subseteq Key /\ IsFiniteSet(entries)
    /\ filling \in Seq(Key)

(* A key still to be inserted is new; one that an older version removed is *)
(* an entry by then.                                                       *)
FillInv ==
    /\ IsInjective(filling)
    /\ Range(filling) \cap entries = {}
    /\ dead \subseteq entries \cup Range(filling)
    /\ root = NoPage => filling = <<>> /\ dead = {}

TreeInv ==
    /\ root = NoPage => pages = Empty /\ entries = {}
    /\ root # NoPage => Stands(pages, root, entries)

BTreeInv == TypeInv /\ FillInv /\ TreeInv

LEMMA RangeNone == Range(<<>>) = {}
BY DEF Range

LEMMA InvInit == Init => BTreeInv
<1> SUFFICES ASSUME Init PROVE BTreeInv
  OBVIOUS
<1>1. /\ len \in Lengths /\ root = 1 /\ pages = NewTree(Empty, 1) /\ entries = {}
  BY DEF Init
<1>2. PICK start \in Starts : filling = start.keys /\ dead = start.dead
  BY DEF Init
<1>3. /\ start.keys \in Seq(Key) /\ IsInjective(start.keys)
      /\ start.dead \subseteq Range(start.keys)
  BY <1>2, BTreeAssumption
<1>4. 1 \in PageId /\ root # NoPage
  BY <1>1, BTreeAssumption DEF PageId, NoPage
<1>5. Empty = [o \in PageId |-> Free]
  BY DEF Empty
<1>6. \E lev, span : Whole(pages, lev, span, root, entries) /\ lev[root] = 1
  BY <1>1, <1>4, <1>5, NewTreeRight
<1>7. 1 <= MaxDepth + 1
  BY BTreeAssumption
<1>8. Stands(pages, root, entries)
  BY <1>6, <1>7 DEF Stands
<1>9. IsFiniteSet({})
  BY FS_EmptySet
<1> QED
  BY <1>1, <1>2, <1>3, <1>4, <1>8, <1>9 DEF BTreeInv, TypeInv, FillInv, TreeInv

(* Where there is room for a key, an insert is what it should be.          *)
LEMMA InsertStands ==
    ASSUME BTreeInv, root # NoPage, NEW key \in Key, key \notin entries, RoomFor(key)
    PROVE  Stands(Inserted(pages, root, key), root, entries \cup {key})
<1>1. PICK lev, span : Whole(pages, lev, span, root, entries) /\ lev[root] <= MaxDepth + 1
  BY DEF BTreeInv, TreeInv, Stands
<1>2. PICK path : path = PathTo(pages, root, key)
  OBVIOUS
<1>3. Len(path) = lev[root]
  BY <1>1, <1>2, PathRight, KeyFacts DEF Whole
<1>4. lev[root] <= MaxDepth /\ lev[root] < Cardinality(FreeOf(pages))
  BY <1>2, <1>3 DEF RoomFor, FreeOf
<1>5. len \in Lengths
  BY DEF BTreeInv, TypeInv
<1>6. PICK lev2, span2 :
         /\ Whole(Inserted(pages, root, key), lev2, span2, root, entries \cup {key})
         /\ lev2[root] <= lev[root] + 1
  BY <1>1, <1>4, <1>5, InsertedRight
<1>7. lev2[root] <= MaxDepth + 1
  <2>1. lev[root] \in Nat /\ lev2[root] \in Nat /\ MaxDepth \in Nat
    BY <1>1, <1>6, BTreeAssumption DEF Whole, Closed, Tree
  <2> QED
    BY <1>4, <1>6, <2>1
<1> QED
  BY <1>6, <1>7 DEF Stands

LEMMA InvFill == BTreeInv /\ Fill => BTreeInv'
<1> SUFFICES ASSUME BTreeInv, Fill PROVE BTreeInv'
  OBVIOUS
<1>1. PICK key : key = Head(filling)
  OBVIOUS
<1>2. /\ filling # <<>> /\ RoomFor(key)
      /\ pages' = Inserted(pages, root, key) /\ entries' = entries \cup {key}
      /\ filling' = Tail(filling) /\ len' = len /\ root' = root /\ dead' = dead
  BY <1>1 DEF Fill
<1>3. /\ len \in Lengths /\ root \in PageId \cup {NoPage}
      /\ entries \subseteq Key /\ IsFiniteSet(entries) /\ filling \in Seq(Key)
      /\ IsInjective(filling) /\ Range(filling) \cap entries = {}
      /\ dead \subseteq entries \cup Range(filling)
  BY DEF BTreeInv, TypeInv, FillInv
<1>4. root # NoPage
  BY <1>2, SMTT(30) DEF BTreeInv, FillInv
<1>5. PICK n \in Nat : Len(filling) = n + 1
  <2>1. Len(filling) \in Nat /\ Len(filling) # 0
    BY <1>2, <1>3
  <2>2. Len(filling) - 1 \in Nat /\ Len(filling) = (Len(filling) - 1) + 1
    BY <2>1
  <2> QED
    BY <2>2
<1>6. /\ 1 \in 1 .. n + 1 /\ DOMAIN filling = 1 .. n + 1 /\ key = filling[1] /\ key \in Key
  BY <1>1, <1>3, <1>5
<1>7. /\ filling' \in Seq(Key) /\ DOMAIN filling' = 1 .. n
      /\ \A i \in 1 .. n : filling'[i] = filling[i + 1] /\ i + 1 \in 1 .. n + 1 /\ i + 1 # 1
  <2>1. filling' \in Seq(Key) /\ Len(filling') = n
    BY <1>2, <1>3, <1>5
  <2>2. \A i \in 1 .. n : filling'[i] = filling[i + 1]
    BY <1>2, <1>3, <1>5
  <2> QED
    BY <2>1, <2>2
<1>8. \A i, j \in 1 .. n + 1 : filling[i] = filling[j] => i = j
  BY <1>3, <1>6 DEF IsInjective
<1>9. IsInjective(filling')
  <2> SUFFICES ASSUME NEW i \in 1 .. n, NEW j \in 1 .. n, filling'[i] = filling'[j]
               PROVE  i = j
    BY <1>7 DEF IsInjective
  <2>1. i + 1 = j + 1
    BY <1>7, <1>8
  <2> QED
    BY <2>1
<1>10. key \in Range(filling)
  BY <1>6 DEF Range
<1>11. Range(filling') \subseteq Range(filling) /\ key \notin Range(filling')
  <2>1. ASSUME NEW i \in 1 .. n PROVE filling'[i] \in Range(filling) /\ filling'[i] # key
    BY <1>6, <1>7, <1>8 DEF Range
  <2> QED
    BY <1>7, <2>1 DEF Range
<1>12. Range(filling) \subseteq Range(filling') \cup {key}
  <2>1. ASSUME NEW i \in 1 .. n + 1 PROVE filling[i] \in Range(filling') \cup {key}
    <3>1. CASE i = 1
      BY <1>6, <3>1
    <3>2. CASE i # 1
      <4>1. PICK j \in 1 .. n : i = j + 1
        <5>1. i - 1 \in 1 .. n /\ i = (i - 1) + 1
          BY <3>2
        <5> QED
          BY <5>1
      <4>2. filling'[j] = filling[i]
        BY <1>7, <4>1
      <4> QED
        BY <1>7, <4>2 DEF Range
    <3> QED
      BY <3>1, <3>2
  <2> QED
    BY <1>6, <2>1 DEF Range
<1>13. key \notin entries
  BY <1>3, <1>10
<1>14. Stands(pages', root', entries')
  BY <1>2, <1>4, <1>6, <1>13, InsertStands
<1>15. IsFiniteSet(entries')
  BY <1>2, <1>3, FS_AddElement
<1>16. TypeInv'
  BY <1>2, <1>3, <1>6, <1>7, <1>15 DEF TypeInv
<1>17. FillInv'
  BY <1>2, <1>3, <1>4, <1>9, <1>11, <1>12 DEF FillInv
<1>18. TreeInv'
  BY <1>2, <1>4, <1>14, StandsNext DEF TreeInv
<1> QED
  BY <1>16, <1>17, <1>18 DEF BTreeInv

LEMMA RemoveStands ==
    ASSUME BTreeInv, root # NoPage, NEW key \in Key,
           NEW new, \/ new = Removed(pages, root, key)
                    \/ new = RemovedOnce(pages, root, key) /\ key \in entries
    PROVE  Stands(new, root, entries \ {key})
<1>1. PICK lev, span : Whole(pages, lev, span, root, entries) /\ lev[root] <= MaxDepth + 1
  BY DEF BTreeInv, TreeInv, Stands
<1>2. len \in Lengths
  BY DEF BTreeInv, TypeInv
<1>3. Whole(new, lev, span, root, entries \ {key})
  BY <1>1, <1>2, RemovedRight
<1> QED
  BY <1>1, <1>3 DEF Stands

LEMMA InvRemoveOnce ==
    ASSUME BTreeInv, NEW key \in dead, RemoveOnce(key) PROVE BTreeInv'
<1>1. /\ filling = <<>> /\ pages' = RemovedOnce(pages, root, key)
      /\ entries' = entries \ {key} /\ dead' = dead \ {key}
      /\ len' = len /\ root' = root /\ filling' = filling
  BY DEF RemoveOnce
<1>2. /\ len \in Lengths /\ root \in PageId \cup {NoPage}
      /\ entries \subseteq Key /\ IsFiniteSet(entries) /\ filling \in Seq(Key)
      /\ IsInjective(filling) /\ Range(filling) \cap entries = {}
      /\ dead \subseteq entries \cup Range(filling)
  BY DEF BTreeInv, TypeInv, FillInv
<1>3. root # NoPage
  BY DEF BTreeInv, FillInv
<1>4. dead \subseteq entries /\ key \in entries /\ key \in Key
  BY <1>1, <1>2, RangeNone
<1>5. Stands(pages', root', entries')
  BY <1>1, <1>3, <1>4, RemoveStands
<1>6. IsFiniteSet(entries')
  BY <1>1, <1>2, FS_RemoveElement
<1>7. TypeInv'
  BY <1>1, <1>2, <1>6 DEF TypeInv
<1>8. FillInv'
  BY <1>1, <1>2, <1>3, <1>4 DEF FillInv
<1>9. TreeInv'
  BY <1>1, <1>3, <1>5, StandsNext DEF TreeInv
<1> QED
  BY <1>7, <1>8, <1>9 DEF BTreeInv

LEMMA InvCreate == BTreeInv /\ Create => BTreeInv'
<1> SUFFICES ASSUME BTreeInv, Create PROVE BTreeInv'
  OBVIOUS
<1>1. /\ root = NoPage /\ root' = Allocate(pages) /\ pages' = NewTree(pages, Allocate(pages))
      /\ len' = len /\ entries' = entries /\ filling' = filling /\ dead' = dead
  BY DEF Create
<1>2. pages = [o \in PageId |-> Free] /\ entries = {}
  BY <1>1 DEF BTreeInv, TreeInv, Empty
<1>3. 1 \in PageId
  BY BTreeAssumption DEF PageId
<1>4. FreeOf(pages) # {}
  BY <1>2, <1>3 DEF FreeOf
<1>5. root' \in PageId
  BY <1>1, <1>4, AllocateRight
<1>6. PICK p : p = Allocate(pages)
  OBVIOUS
<1>7. len \in Lengths
  BY DEF BTreeInv, TypeInv
<1>8. \E lev, span : Whole(pages', lev, span, p, {}) /\ lev[p] = 1
  BY <1>1, <1>2, <1>5, <1>6, <1>7, NewTreeRight
<1>9. 1 <= MaxDepth + 1
  BY BTreeAssumption
<1>10. Stands(pages', root', entries')
  BY <1>1, <1>2, <1>6, <1>8, <1>9 DEF Stands
<1>11. TypeInv'
  BY <1>1, <1>5 DEF BTreeInv, TypeInv
<1>12. FillInv'
  BY <1>1 DEF BTreeInv, FillInv
<1>13. root' # NoPage
  BY <1>5, NoPageIs
<1>14. TreeInv'
  BY <1>1, <1>10, <1>13, StandsNext DEF TreeInv
<1> QED
  BY <1>11, <1>12, <1>14 DEF BTreeInv

(* An operation that leaves a tree.                                        *)
LEMMA InvOp ==
    ASSUME BTreeInv, NEW ps, NEW keys, Op(ps, keys), root' = root,
           keys \subseteq Key, IsFiniteSet(keys), Stands(ps, root, keys)
    PROVE  BTreeInv'
<1>1. /\ root # NoPage /\ filling = <<>> /\ dead = {}
      /\ pages' = ps /\ entries' = keys
      /\ len' = len /\ filling' = filling /\ dead' = dead
  BY DEF Op
<1>2. TypeInv'
  BY <1>1 DEF BTreeInv, TypeInv
<1>3. FillInv'
  BY <1>1, RangeNone DEF BTreeInv, FillInv
<1>4. TreeInv'
  BY <1>1, StandsNext DEF TreeInv
<1> QED
  BY <1>2, <1>3, <1>4 DEF BTreeInv

LEMMA InvInsertKey ==
    ASSUME BTreeInv, NEW key \in Used, InsertKey(key) PROVE BTreeInv'
<1>1. /\ key \notin entries /\ root # NoPage /\ RoomFor(key) /\ root' = root
      /\ Op(Inserted(pages, root, key), entries \cup {key})
  BY DEF InsertKey
<1>2. key \in Key
  BY BTreeAssumption
<1>3. Stands(Inserted(pages, root, key), root, entries \cup {key})
  BY <1>1, <1>2, InsertStands
<1>4. entries \subseteq Key /\ IsFiniteSet(entries)
  BY DEF BTreeInv, TypeInv
<1>5. entries \cup {key} \subseteq Key /\ IsFiniteSet(entries \cup {key})
  BY <1>2, <1>4, FS_AddElement
<1> QED
  BY <1>1, <1>3, <1>5, InvOp

LEMMA InvRemoveKey ==
    ASSUME BTreeInv, NEW key \in Used, RemoveKey(key) PROVE BTreeInv'
<1>1. Op(Removed(pages, root, key), entries \ {key}) /\ root' = root /\ root # NoPage
  BY DEF RemoveKey, Op
<1>2. key \in Key
  BY BTreeAssumption
<1>3. Stands(Removed(pages, root, key), root, entries \ {key})
  BY <1>1, <1>2, RemoveStands
<1>4. entries \subseteq Key /\ IsFiniteSet(entries)
  BY DEF BTreeInv, TypeInv
<1>5. entries \ {key} \subseteq Key /\ IsFiniteSet(entries \ {key})
  BY <1>4, FS_RemoveElement
<1> QED
  BY <1>1, <1>3, <1>5, InvOp

(* All pages that were allocated are the tree's.                           *)
LEMMA FreedAll ==
    ASSUME BTreeInv, root # NoPage
    PROVE  Freed(Range(Reached(pages, root))) = Empty
<1>1. PICK lev, span : Whole(pages, lev, span, root, entries)
  BY DEF BTreeInv, TreeInv, Stands
<1>2. PICK done : done = Reached(pages, root)
  OBVIOUS
<1>3. Range(done) = {o \in PageId : pages[o] # Free}
  BY <1>1, <1>2, ReachedRight DEF Whole
<1>4. \A o \in PageId : (IF o \in Range(done) THEN Free ELSE pages[o]) = Free
  BY <1>3
<1> QED
  BY <1>2, <1>4 DEF Freed, Empty

LEMMA EmptyStands ==
    ASSUME len \in Lengths, NEW p \in PageId
    PROVE  Stands(NewTree(Empty, p), p, {})
<1>1. \E lev, span : Whole(NewTree(Empty, p), lev, span, p, {}) /\ lev[p] = 1
  BY NewTreeRight DEF Empty
<1>2. 1 <= MaxDepth + 1
  BY BTreeAssumption
<1> QED
  BY <1>1, <1>2 DEF Stands

LEMMA InvClear == BTreeInv /\ Clear => BTreeInv'
<1> SUFFICES ASSUME BTreeInv, Clear PROVE BTreeInv'
  OBVIOUS
<1>1. /\ Op(NewTree(Freed(Range(Reached(pages, root))), root), {})
      /\ root' = root /\ root # NoPage
  BY DEF Clear, Op
<1>2. root \in PageId /\ len \in Lengths
  BY <1>1 DEF BTreeInv, TypeInv
<1>3. NewTree(Freed(Range(Reached(pages, root))), root) = NewTree(Empty, root)
  BY <1>1, FreedAll
<1>4. Stands(NewTree(Empty, root), root, {})
  BY <1>2, EmptyStands
<1>5. IsFiniteSet({})
  BY FS_EmptySet
<1> QED
  BY <1>1, <1>3, <1>4, <1>5, InvOp

LEMMA InvFreeAll == BTreeInv /\ FreeAll => BTreeInv'
<1> SUFFICES ASSUME BTreeInv, FreeAll PROVE BTreeInv'
  OBVIOUS
<1>1. /\ root # NoPage /\ filling = <<>> /\ dead = {}
      /\ pages' = Freed(Range(Reached(pages, root))) /\ entries' = {} /\ root' = NoPage
      /\ len' = len /\ filling' = filling /\ dead' = dead
  BY DEF FreeAll, Op
<1>2. pages' = Empty
  BY <1>1, FreedAll
<1>3. IsFiniteSet({})
  BY FS_EmptySet
<1>4. TypeInv'
  BY <1>1, <1>3 DEF BTreeInv, TypeInv
<1>5. FillInv'
  BY <1>1, RangeNone DEF BTreeInv, FillInv
<1>6. TreeInv'
  BY <1>1, <1>2 DEF TreeInv, Empty, PageId, Free, Page
<1> QED
  BY <1>4, <1>5, <1>6 DEF BTreeInv

LEMMA InvCompact == BTreeInv /\ Compact => BTreeInv'
<1> SUFFICES ASSUME BTreeInv, Compact PROVE BTreeInv'
  OBVIOUS
<1>1. /\ dead = {} /\ pages' = NewTree(Empty, 1) /\ root' = 1 /\ entries' = {}
      /\ filling' = Ascending(entries) /\ len' = len /\ dead' = dead
  BY DEF Compact
<1>2. 1 \in PageId /\ 1 # NoPage
  BY BTreeAssumption DEF PageId, NoPage
<1>3. entries \subseteq Key /\ IsFiniteSet(entries) /\ len \in Lengths
  BY DEF BTreeInv, TypeInv
<1>4. filling' \in Seq(Key) /\ IsInjective(filling')
  BY <1>1, <1>3, AscendingRight
<1>5. Stands(pages', root', entries')
  BY <1>1, <1>2, <1>3, EmptyStands
<1>6. IsFiniteSet({})
  BY FS_EmptySet
<1>7. TypeInv'
  BY <1>1, <1>2, <1>3, <1>4, <1>6 DEF TypeInv
<1>8. FillInv'
  BY <1>1, <1>2, <1>4 DEF FillInv
<1>9. TreeInv'
  BY <1>1, <1>2, <1>5, StandsNext DEF TreeInv
<1> QED
  BY <1>7, <1>8, <1>9 DEF BTreeInv

LEMMA InvNext == BTreeInv /\ [Next]_vars => BTreeInv'
<1> SUFFICES ASSUME BTreeInv, [Next]_vars PROVE BTreeInv'
  OBVIOUS
<1>1. CASE Fill
  BY <1>1, InvFill
<1>2. CASE \E key \in dead : RemoveOnce(key)
  BY <1>2, InvRemoveOnce
<1>3. CASE Create
  BY <1>3, InvCreate
<1>4. CASE \E key \in Used : InsertKey(key) \/ RemoveKey(key)
  BY <1>4, InvInsertKey, InvRemoveKey
<1>5. CASE Clear
  BY <1>5, InvClear
<1>6. CASE FreeAll
  BY <1>6, InvFreeAll
<1>7. CASE Compact
  BY <1>7, InvCompact
<1>8. CASE UNCHANGED vars
  <2>1. /\ len' = len /\ pages' = pages /\ root' = root /\ entries' = entries
        /\ filling' = filling /\ dead' = dead
    BY <1>8 DEF vars
  <2>2. TypeInv' /\ FillInv'
    BY <2>1 DEF BTreeInv, TypeInv, FillInv
  <2>3. TreeInv'
    BY <2>1, StandsNext DEF BTreeInv, TreeInv, Empty, PageId, Free, Page
  <2> QED
    BY <2>2, <2>3 DEF BTreeInv
<1> QED
  BY <1>1, <1>2, <1>3, <1>4, <1>5, <1>6, <1>7, <1>8 DEF Next

-----------------------------------------------------------------------------
(* What the invariant gives.                                               *)

(* A root that is a page is a whole tree's.                                *)
LEMMA TreeOf ==
    ASSUME BTreeInv, root # NoPage
    PROVE  \E lev, span : Whole(pages, lev, span, root, entries)
                          /\ lev[root] <= MaxDepth + 1
BY DEF BTreeInv, TreeInv, Stands

LEMMA LookupsFollow == BTreeInv => LookupsRight
<1> SUFFICES ASSUME BTreeInv, root # NoPage, NEW key \in Used \cup entries
             PROVE  SlotOf(pages[Leaf(pages, root, key)].cells, key) # 0
                       <=> key \in entries
  BY DEF LookupsRight
<1>1. PICK lev, span : Whole(pages, lev, span, root, entries)
                       /\ lev[root] <= MaxDepth + 1
  BY TreeOf
<1>2. key \in Key
  BY BTreeAssumption DEF BTreeInv, TypeInv
<1>3. PICK p : p = Leaf(pages, root, key)
  OBVIOUS
<1>4. PICK f : f = SlotOf(pages[p].cells, key)
  OBVIOUS
<1>5. f # 0 <=> key \in entries
  BY <1>1, <1>2, <1>3, <1>4, LookupRight
<1> QED
  BY <1>3, <1>4, <1>5

(* What PagesSound says of a page.                                         *)
Sound(page) ==
    /\ page.kind \in {"leaf", "branch", "free"}
    /\ Range(page.cells) \subseteq CellType
    /\ Taken(page.kind, page.cells) <= PageRoom
    /\ page.kind = "branch" =>
          /\ page.cells # <<>>
          /\ NoPage \notin Range(Children(page))
          /\ Tombstone \notin Range(page.cells)

LEMMA FreeSound == Sound(Free)
<1>1. Free.kind = "free" /\ Free.cells = <<>>
  BY DEF Free, Page
<1>2. Taken(Free.kind, Free.cells) = 0
  BY <1>1, TakenNone
<1>3. Range(Free.cells) = {}
  BY <1>1, RangeNone
<1>4. PageRoom \in Nat
  BY BTreeAssumption
<1> QED
  BY <1>1, <1>2, <1>3, <1>4 DEF Sound

LEMMA CellsTyped ==
    ASSUME NEW cells, cells \in Seq(CellSet)
    PROVE  Range(cells) \subseteq CellType
<1>1. ASSUME NEW c \in Range(cells) PROVE c \in CellSet
  <2>1. PICK i \in DOMAIN cells : c = cells[i]
    BY DEF Range
  <2> QED
    BY <2>1
<1> QED
  BY <1>1, CellFacts

LEMMA LeafIsSound ==
    ASSUME NEW page, NEW keys, LeafSound(page, keys)
    PROVE  Sound(page)
<1>1. page.kind = "leaf"
  BY DEF LeafSound, IsNode, Page
<1>2. page.cells \in Seq(CellSet) /\ Taken("leaf", page.cells) <= PageRoom
  BY DEF LeafSound, IsNode
<1>3. Range(page.cells) \subseteq CellType
  BY <1>2, CellsTyped
<1> QED
  BY <1>1, <1>2, <1>3 DEF Sound

LEMMA BranchIsSound ==
    ASSUME NEW page, NEW keys, NEW l, NEW out, NEW lev,
           BranchSound(page, keys, l, out, lev)
    PROVE  Sound(page)
<1>1. page.kind = "branch"
  BY DEF BranchSound, IsNode, Page
<1>2. /\ page.cells \in Seq(CellSet) /\ Taken("branch", page.cells) <= PageRoom
      /\ page.next \in PageId \cup {NoPage}
      /\ page.cells \in Seq(LiveCells) /\ page.cells # <<>>
      /\ \A i \in 1 .. Len(page.cells) + 1 : Child(page, i) \in PageId
  BY DEF BranchSound, IsNode
<1>3. Range(page.cells) \subseteq CellType
  BY <1>2, CellsTyped
<1>4. Tombstone \notin Range(page.cells)
  <2>1. \A i \in 1 .. Len(page.cells) : page.cells[i] # Tombstone
    BY <1>2, LiveFacts
  <2>2. DOMAIN page.cells = 1 .. Len(page.cells)
    BY <1>2
  <2> QED
    BY <2>1, <2>2 DEF Range
<1>5. NoPage \notin Range(Children(page))
  <2>1. PICK cs : cs = Children(page)
    OBVIOUS
  <2>2. /\ cs \in Seq(PageId \cup {NoPage}) /\ Len(cs) = Len(page.cells) + 1
        /\ \A i \in 1 .. Len(page.cells) + 1 : cs[i] = Child(page, i)
    BY <1>2, <2>1, ChildrenAre
  <2>3. DOMAIN cs = 1 .. Len(page.cells) + 1
    BY <2>2
  <2>4. \A i \in DOMAIN cs : cs[i] # NoPage
    BY <1>2, <2>2, <2>3, NoPageIs
  <2> QED
    BY <2>1, <2>4 DEF Range
<1> QED
  BY <1>1, <1>2, <1>3, <1>4, <1>5 DEF Sound

LEMMA PagesFollow == BTreeInv => PagesSound
<1> SUFFICES ASSUME BTreeInv, NEW p \in PageId PROVE Sound(pages[p])
  BY DEF PagesSound, Sound
<1>1. CASE root = NoPage
  <2>1. pages[p] = Free
    BY <1>1 DEF BTreeInv, TreeInv, Empty
  <2> QED
    BY <2>1, FreeSound
<1>2. CASE root # NoPage
  <2>1. PICK lev, span : Whole(pages, lev, span, root, entries)
    BY <1>2, TreeOf
  <2>2. Tree(pages, lev, span, root, NoPage, NoPage)
    BY <2>1 DEF Whole, Closed
  <2>3. lev[p] \in Nat /\ (lev[p] = 0 => pages[p] = Free)
    BY <2>2 DEF Tree
  <2>4. lev[p] >= 1 =>
          NodeSound(pages[p], span[p], lev[p], Outer(span, NoPage, NoPage), lev)
    BY <2>2 DEF Tree
  <2>5. CASE lev[p] = 0
    BY <2>3, <2>5, FreeSound
  <2>6. CASE lev[p] = 1
    <3>1. LeafSound(pages[p], span[p])
      BY <2>4, <2>6 DEF NodeSound
    <3> QED
      BY <3>1, LeafIsSound
  <2>7. CASE lev[p] # 0 /\ lev[p] # 1
    <3>1. lev[p] >= 1
      BY <2>3, <2>7
    <3>2. BranchSound(pages[p], span[p], lev[p], Outer(span, NoPage, NoPage), lev)
      BY <2>4, <2>7, <3>1 DEF NodeSound
    <3> QED
      BY <3>2, BranchIsSound
  <2> QED
    BY <2>5, <2>6, <2>7
<1> QED
  BY <1>1, <1>2

LEMMA WholeFollows == BTreeInv => TreeIsWhole
<1> SUFFICES ASSUME BTreeInv PROVE TreeIsWhole
  OBVIOUS
<1>1. CASE root = NoPage
  <2>1. \A p \in PageId : pages[p] = Free
    BY <1>1 DEF BTreeInv, TreeInv, Empty
  <2> QED
    BY <1>1, <2>1 DEF TreeIsWhole
<1>2. CASE root # NoPage
  <2>1. PICK lev, span : Whole(pages, lev, span, root, entries)
                         /\ lev[root] <= MaxDepth + 1
    BY <1>2, TreeOf
  <2>2. Closed(pages, lev, span, root)
    BY <2>1 DEF Whole
  <2>3. PICK done : done = Reached(pages, root)
    OBVIOUS
  <2>4. IsInjective(done) /\ Range(done) = {o \in PageId : pages[o] # Free}
    BY <2>2, <2>3, ReachedRight
  <2>5. ASSUME NEW key \in Used PROVE Len(PathTo(pages, root, key)) = lev[root]
    <3>1. key \in Key
      BY BTreeAssumption
    <3>2. PICK path : path = PathTo(pages, root, key)
      OBVIOUS
    <3>3. Len(path) = lev[root]
      BY <2>1, <2>2, <3>1, <3>2, PathRight, KeyFacts
    <3> QED
      BY <3>2, <3>3
  <2>6. \A k, l \in Used : Len(PathTo(pages, root, k)) = Len(PathTo(pages, root, l))
    BY <2>5, Zenon
  <2> QED
    BY <1>2, <2>3, <2>4, <2>6 DEF TreeIsWhole
<1> QED
  BY <1>1, <1>2

-----------------------------------------------------------------------------
(* The loops of a walk.                                                    *)

(* The states of `Joined`.                                                 *)
JoinedRun(h, n, seqs) ==
    h = [i \in 0 .. n |-> IF i = 0 THEN <<>> ELSE (h[i - 1] \o seqs[i])]

LEMMA JoinedSteps ==
    ASSUME NEW seqs, Len(seqs) \in Nat
    PROVE  \E h : /\ Joined(seqs) = h[Len(seqs)]
                 /\ h[0] = <<>>
                 /\ \A i \in 1 .. Len(seqs) : h[i] = (h[i - 1] \o seqs[i])
<1> DEFINE T == {k \in Nat : \E h : JoinedRun(h, k, seqs)}
<1>1. 0 \in T
  <2> DEFINE h == [i \in 0 .. 0 |-> <<>>]
  <2>1. \A i \in 0 .. 0 : i = 0
    OBVIOUS
  <2>2. JoinedRun(h, 0, seqs)
    BY <2>1 DEF JoinedRun
  <2> QED
    BY <2>2
<1>2. ASSUME NEW k \in Nat, k \in T PROVE k + 1 \in T
  <2>1. PICK h : JoinedRun(h, k, seqs)
    BY <1>2
  <2>2. \A i \in 0 .. k : h[i] = IF i = 0 THEN <<>> ELSE (h[i - 1] \o seqs[i])
    BY <2>1 DEF JoinedRun
  <2>3. PICK last : last = (h[k] \o seqs[k + 1])
    OBVIOUS
  <2>4. PICK g : g = [i \in 0 .. k + 1 |-> IF i = k + 1 THEN last ELSE h[i]]
    OBVIOUS
  <2>5. \A i \in 0 .. k : g[i] = h[i]
    BY <2>4
  <2>6. g[k + 1] = last
    BY <2>4
  <2>7. ASSUME NEW i \in 0 .. k + 1
        PROVE  g[i] = IF i = 0 THEN <<>> ELSE (g[i - 1] \o seqs[i])
    <3>1. CASE i = k + 1
      <4>1. g[k] = h[k] /\ i # 0 /\ i - 1 = k
        BY <2>5, <3>1
      <4> QED
        BY <2>3, <2>6, <3>1, <4>1
    <3>2. CASE i # k + 1 /\ i # 0
      <4>1. i \in 0 .. k /\ i - 1 \in 0 .. k
        BY <3>2
      <4>2. g[i] = h[i] /\ g[i - 1] = h[i - 1]
        BY <2>5, <4>1
      <4> QED
        BY <2>2, <3>2, <4>1, <4>2
    <3>3. CASE i = 0
      <4>1. i \in 0 .. k
        BY <3>3
      <4> QED
        BY <2>2, <2>5, <3>3, <4>1
    <3> QED
      BY <3>1, <3>2, <3>3
  <2>8. g = [i \in 0 .. k + 1 |-> IF i = 0 THEN <<>> ELSE (g[i - 1] \o seqs[i])]
    <3>1. DOMAIN g = 0 .. k + 1 /\ g = [i \in 0 .. k + 1 |-> g[i]]
      BY <2>4
    <3> QED
      BY <2>7, <3>1
  <2>9. JoinedRun(g, k + 1, seqs)
    BY <2>8 DEF JoinedRun
  <2> QED
    BY <2>9
<1>3. Len(seqs) \in T
  <2> HIDE DEF T
  <2> QED
    BY <1>1, <1>2, NatInd
<1> DEFINE D(h) == [i \in 0 .. Len(seqs) |-> IF i = 0 THEN <<>> ELSE (h[i - 1] \o seqs[i])]
           run == CHOOSE h : h = D(h)
<1>4. \E h : h = D(h)
  BY <1>3 DEF JoinedRun
<1>5. run = D(run)
  <2> HIDE DEF D
  <2> QED
    BY <1>4
<1>7. Joined(seqs) = run[Len(seqs)]
  BY DEF Joined
<1>8. \A i \in 0 .. Len(seqs) : run[i] = IF i = 0 THEN <<>> ELSE (run[i - 1] \o seqs[i])
  <2> HIDE DEF run
  <2> QED
    BY <1>5
<1>9. run[0] = <<>> /\ \A i \in 1 .. Len(seqs) : run[i] = (run[i - 1] \o seqs[i])
  <2> HIDE DEF run
  <2>1. 0 \in 0 .. Len(seqs) /\ \A i \in 1 .. Len(seqs) : i \in 0 .. Len(seqs) /\ i # 0
    OBVIOUS
  <2> QED
    BY <1>8, <2>1
<1> QED
  BY <1>7, <1>9

(* The next leaf by its link.                                              *)
LeavesOn(ps, leaves) ==
    LET next == ps[Last(leaves)].next
    IN  IF next = NoPage THEN leaves ELSE Append(leaves, next)

(* The states of a walk forward.                                           *)
LeavesRun(h, n, ps, r, start) ==
    h = [i \in 0 .. n |-> IF i = 0 THEN <<Leaf(ps, r, start)>> ELSE LeavesOn(ps, h[i - 1])]

LEMMA LeavesSteps ==
    ASSUME NEW ps, NEW r, NEW start, MaxPages \in Nat
    PROVE  \E h : /\ LeavesFrom(ps, r, start) = h[MaxPages]
                 /\ h[0] = <<Leaf(ps, r, start)>>
                 /\ \A i \in 1 .. MaxPages : h[i] = LeavesOn(ps, h[i - 1])
<1> DEFINE T == {k \in Nat : \E h : LeavesRun(h, k, ps, r, start)}
<1>1. 0 \in T
  <2> DEFINE h == [i \in 0 .. 0 |-> <<Leaf(ps, r, start)>>]
  <2>1. \A i \in 0 .. 0 : i = 0
    OBVIOUS
  <2>2. LeavesRun(h, 0, ps, r, start)
    BY <2>1 DEF LeavesRun
  <2> QED
    BY <2>2
<1>2. ASSUME NEW k \in Nat, k \in T PROVE k + 1 \in T
  <2>1. PICK h : LeavesRun(h, k, ps, r, start)
    BY <1>2
  <2>2. \A i \in 0 .. k : h[i] = IF i = 0 THEN <<Leaf(ps, r, start)>> ELSE LeavesOn(ps, h[i - 1])
    BY <2>1 DEF LeavesRun
  <2>3. PICK last : last = LeavesOn(ps, h[k])
    OBVIOUS
  <2>4. PICK g : g = [i \in 0 .. k + 1 |-> IF i = k + 1 THEN last ELSE h[i]]
    OBVIOUS
  <2>5. \A i \in 0 .. k : g[i] = h[i]
    BY <2>4
  <2>6. g[k + 1] = last
    BY <2>4
  <2>7. ASSUME NEW i \in 0 .. k + 1
        PROVE  g[i] = IF i = 0 THEN <<Leaf(ps, r, start)>> ELSE LeavesOn(ps, g[i - 1])
    <3>1. CASE i = k + 1
      <4>1. g[k] = h[k] /\ i # 0 /\ i - 1 = k
        BY <2>5, <3>1
      <4> QED
        BY <2>3, <2>6, <3>1, <4>1
    <3>2. CASE i # k + 1 /\ i # 0
      <4>1. i \in 0 .. k /\ i - 1 \in 0 .. k
        BY <3>2
      <4>2. g[i] = h[i] /\ g[i - 1] = h[i - 1]
        BY <2>5, <4>1
      <4> QED
        BY <2>2, <3>2, <4>1, <4>2
    <3>3. CASE i = 0
      <4>1. i \in 0 .. k
        BY <3>3
      <4> QED
        BY <2>2, <2>5, <3>3, <4>1
    <3> QED
      BY <3>1, <3>2, <3>3
  <2>8. g = [i \in 0 .. k + 1 |-> IF i = 0 THEN <<Leaf(ps, r, start)>> ELSE LeavesOn(ps, g[i - 1])]
    <3>1. DOMAIN g = 0 .. k + 1 /\ g = [i \in 0 .. k + 1 |-> g[i]]
      BY <2>4
    <3> QED
      BY <2>7, <3>1
  <2>9. LeavesRun(g, k + 1, ps, r, start)
    BY <2>8 DEF LeavesRun
  <2> QED
    BY <2>9
<1>3. MaxPages \in T
  <2> HIDE DEF T
  <2> QED
    BY <1>1, <1>2, NatInd
<1> DEFINE D(h) == [i \in 0 .. MaxPages |-> IF i = 0 THEN <<Leaf(ps, r, start)>> ELSE LeavesOn(ps, h[i - 1])]
           run == CHOOSE h : h = D(h)
<1>4. \E h : h = D(h)
  BY <1>3 DEF LeavesRun
<1>5. run = D(run)
  <2> HIDE DEF D
  <2> QED
    BY <1>4
<1>7. LeavesFrom(ps, r, start) = run[MaxPages]
  BY DEF LeavesFrom, LeavesOn
<1>8. \A i \in 0 .. MaxPages : run[i] = IF i = 0 THEN <<Leaf(ps, r, start)>> ELSE LeavesOn(ps, run[i - 1])
  <2> HIDE DEF run
  <2> QED
    BY <1>5
<1>9. run[0] = <<Leaf(ps, r, start)>> /\ \A i \in 1 .. MaxPages : run[i] = LeavesOn(ps, run[i - 1])
  <2> HIDE DEF run
  <2>1. 0 \in 0 .. MaxPages /\ \A i \in 1 .. MaxPages : i \in 0 .. MaxPages /\ i # 0
    OBVIOUS
  <2> QED
    BY <1>8, <2>1
<1> QED
  BY <1>7, <1>9

(* One level of `descend`.                                                 *)
DescendOn(ps, key, above) ==
    LET page == ps[above.page]
        at == IF key = NoKey THEN Len(page.cells) + 1 ELSE ChildAt(page, key)
    IN  IF page.kind = "leaf" THEN above
        ELSE [path |-> Append(above.path, [page |-> above.page, at |-> at]),
              page |-> Children(page)[at]]
At(path, p) == [path |-> path, page |-> p]

(* The states of `descend`.                                                *)
DescendRun(h, n, ps, path, p, key) ==
    h = [i \in 0 .. n |-> IF i = 0 THEN At(path, p) ELSE DescendOn(ps, key, h[i - 1])]

LEMMA DescendSteps ==
    ASSUME NEW ps, NEW path, NEW p, NEW key, MaxDepth \in Nat
    PROVE  \E h : /\ Descend(ps, path, p, key) = h[MaxDepth]
                 /\ h[0] = At(path, p)
                 /\ \A i \in 1 .. MaxDepth : h[i] = DescendOn(ps, key, h[i - 1])
<1> DEFINE T == {k \in Nat : \E h : DescendRun(h, k, ps, path, p, key)}
<1>1. 0 \in T
  <2> DEFINE h == [i \in 0 .. 0 |-> At(path, p)]
  <2>1. \A i \in 0 .. 0 : i = 0
    OBVIOUS
  <2>2. DescendRun(h, 0, ps, path, p, key)
    BY <2>1 DEF DescendRun
  <2> QED
    BY <2>2
<1>2. ASSUME NEW k \in Nat, k \in T PROVE k + 1 \in T
  <2>1. PICK h : DescendRun(h, k, ps, path, p, key)
    BY <1>2
  <2>2. \A i \in 0 .. k : h[i] = IF i = 0 THEN At(path, p) ELSE DescendOn(ps, key, h[i - 1])
    BY <2>1 DEF DescendRun
  <2>3. PICK last : last = DescendOn(ps, key, h[k])
    OBVIOUS
  <2>4. PICK g : g = [i \in 0 .. k + 1 |-> IF i = k + 1 THEN last ELSE h[i]]
    OBVIOUS
  <2>5. \A i \in 0 .. k : g[i] = h[i]
    BY <2>4
  <2>6. g[k + 1] = last
    BY <2>4
  <2>7. ASSUME NEW i \in 0 .. k + 1
        PROVE  g[i] = IF i = 0 THEN At(path, p) ELSE DescendOn(ps, key, g[i - 1])
    <3>1. CASE i = k + 1
      <4>1. g[k] = h[k] /\ i # 0 /\ i - 1 = k
        BY <2>5, <3>1
      <4> QED
        BY <2>3, <2>6, <3>1, <4>1
    <3>2. CASE i # k + 1 /\ i # 0
      <4>1. i \in 0 .. k /\ i - 1 \in 0 .. k
        BY <3>2
      <4>2. g[i] = h[i] /\ g[i - 1] = h[i - 1]
        BY <2>5, <4>1
      <4> QED
        BY <2>2, <3>2, <4>1, <4>2
    <3>3. CASE i = 0
      <4>1. i \in 0 .. k
        BY <3>3
      <4> QED
        BY <2>2, <2>5, <3>3, <4>1
    <3> QED
      BY <3>1, <3>2, <3>3
  <2>8. g = [i \in 0 .. k + 1 |-> IF i = 0 THEN At(path, p) ELSE DescendOn(ps, key, g[i - 1])]
    <3>1. DOMAIN g = 0 .. k + 1 /\ g = [i \in 0 .. k + 1 |-> g[i]]
      BY <2>4
    <3> QED
      BY <2>7, <3>1
  <2>9. DescendRun(g, k + 1, ps, path, p, key)
    BY <2>8 DEF DescendRun
  <2> QED
    BY <2>9
<1>3. MaxDepth \in T
  <2> HIDE DEF T
  <2> QED
    BY <1>1, <1>2, NatInd
<1> DEFINE D(h) == [i \in 0 .. MaxDepth |-> IF i = 0 THEN At(path, p) ELSE DescendOn(ps, key, h[i - 1])]
           run == CHOOSE h : h = D(h)
<1>4. \E h : h = D(h)
  BY <1>3 DEF DescendRun
<1>5. run = D(run)
  <2> HIDE DEF D
  <2> QED
    BY <1>4
<1>7. Descend(ps, path, p, key) = run[MaxDepth]
  BY DEF Descend, DescendOn, At
<1>8. \A i \in 0 .. MaxDepth : run[i] = IF i = 0 THEN At(path, p) ELSE DescendOn(ps, key, run[i - 1])
  <2> HIDE DEF run
  <2> QED
    BY <1>5
<1>9. run[0] = At(path, p) /\ \A i \in 1 .. MaxDepth : run[i] = DescendOn(ps, key, run[i - 1])
  <2> HIDE DEF run
  <2>1. 0 \in 0 .. MaxDepth /\ \A i \in 1 .. MaxDepth : i \in 0 .. MaxDepth /\ i # 0
    OBVIOUS
  <2> QED
    BY <1>8, <2>1
<1> QED
  BY <1>7, <1>9

(* The leaf before.                                                        *)
BackOn(ps, back) ==
    LET previous == PreviousLeaf(ps, Last(back))
    IN  IF previous.page = NoPage THEN back ELSE Append(back, previous)

(* What is handed out of the leaves of a walk backward.                    *)
HandedBack(ps, leaves, start, end) ==
    Only(TakeUntil(Joined([i \in DOMAIN leaves |->
                             Reverse(LiveKeys(ps[leaves[i].page]))]),
                   {k \in Key : k < start}),
         {k \in Key : end = NoKey \/ k < end})

(* The states of a walk backward.                                          *)
BackRun(h, n, ps, r, start, end) ==
    h = [i \in 0 .. n |-> IF i = 0 THEN <<Descend(ps, <<>>, r, end)>> ELSE BackOn(ps, h[i - 1])]

BackRuns(h, ps, r, start, end) ==
    /\ Backward(ps, r, start, end) = HandedBack(ps, h[MaxPages], start, end)
    /\ h[0] = <<Descend(ps, <<>>, r, end)>>
    /\ \A i \in 1 .. MaxPages : h[i] = BackOn(ps, h[i - 1])

LEMMA BackSteps ==
    ASSUME NEW ps, NEW r, NEW start, NEW end
    PROVE  \E h : BackRuns(h, ps, r, start, end)
<1>0. MaxPages \in Nat
  BY BTreeAssumption
<1> DEFINE T == {k \in Nat : \E h : BackRun(h, k, ps, r, start, end)}
<1>1. 0 \in T
  <2> DEFINE h == [i \in 0 .. 0 |-> <<Descend(ps, <<>>, r, end)>>]
  <2>1. \A i \in 0 .. 0 : i = 0
    OBVIOUS
  <2>2. BackRun(h, 0, ps, r, start, end)
    BY <2>1 DEF BackRun
  <2> QED
    BY <2>2
<1>2. ASSUME NEW k \in Nat, k \in T PROVE k + 1 \in T
  <2>1. PICK h : BackRun(h, k, ps, r, start, end)
    BY <1>2
  <2>2. \A i \in 0 .. k : h[i] = IF i = 0 THEN <<Descend(ps, <<>>, r, end)>> ELSE BackOn(ps, h[i - 1])
    BY <2>1 DEF BackRun
  <2>3. PICK last : last = BackOn(ps, h[k])
    OBVIOUS
  <2>4. PICK g : g = [i \in 0 .. k + 1 |-> IF i = k + 1 THEN last ELSE h[i]]
    OBVIOUS
  <2>5. \A i \in 0 .. k : g[i] = h[i]
    BY <2>4
  <2>6. g[k + 1] = last
    BY <2>4
  <2>7. ASSUME NEW i \in 0 .. k + 1
        PROVE  g[i] = IF i = 0 THEN <<Descend(ps, <<>>, r, end)>> ELSE BackOn(ps, g[i - 1])
    <3>1. CASE i = k + 1
      <4>1. g[k] = h[k] /\ i # 0 /\ i - 1 = k
        BY <2>5, <3>1
      <4> QED
        BY <2>3, <2>6, <3>1, <4>1
    <3>2. CASE i # k + 1 /\ i # 0
      <4>1. i \in 0 .. k /\ i - 1 \in 0 .. k
        BY <3>2
      <4>2. g[i] = h[i] /\ g[i - 1] = h[i - 1]
        BY <2>5, <4>1
      <4> QED
        BY <2>2, <3>2, <4>1, <4>2
    <3>3. CASE i = 0
      <4>1. i \in 0 .. k
        BY <3>3
      <4> QED
        BY <2>2, <2>5, <3>3, <4>1
    <3> QED
      BY <3>1, <3>2, <3>3
  <2>8. g = [i \in 0 .. k + 1 |-> IF i = 0 THEN <<Descend(ps, <<>>, r, end)>> ELSE BackOn(ps, g[i - 1])]
    <3>1. DOMAIN g = 0 .. k + 1 /\ g = [i \in 0 .. k + 1 |-> g[i]]
      BY <2>4
    <3> QED
      BY <2>7, <3>1
  <2>9. BackRun(g, k + 1, ps, r, start, end)
    BY <2>8 DEF BackRun
  <2> QED
    BY <2>9
<1>3. MaxPages \in T
  <2> HIDE DEF T
  <2> QED
    BY <1>0, <1>1, <1>2, NatInd
<1> DEFINE D(h) == [i \in 0 .. MaxPages |-> IF i = 0 THEN <<Descend(ps, <<>>, r, end)>> ELSE BackOn(ps, h[i - 1])]
           run == CHOOSE h : h = D(h)
<1>4. \E h : h = D(h)
  BY <1>3 DEF BackRun
<1>5. run = D(run)
  <2> HIDE DEF D
  <2> QED
    BY <1>4
<1>7. Backward(ps, r, start, end) = HandedBack(ps, run[MaxPages], start, end)
  BY DEF Backward, BackOn, HandedBack
<1>8. \A i \in 0 .. MaxPages : run[i] = IF i = 0 THEN <<Descend(ps, <<>>, r, end)>> ELSE BackOn(ps, run[i - 1])
  <2> HIDE DEF run
  <2> QED
    BY <1>5
<1>9. run[0] = <<Descend(ps, <<>>, r, end)>> /\ \A i \in 1 .. MaxPages : run[i] = BackOn(ps, run[i - 1])
  <2> HIDE DEF run
  <2>1. 0 \in 0 .. MaxPages /\ \A i \in 1 .. MaxPages : i \in 0 .. MaxPages /\ i # 0
    BY <1>0
  <2> QED
    BY <1>8, <2>1
<1> QED
  BY <1>7, <1>9 DEF BackRuns

-----------------------------------------------------------------------------
(* Lists of keys, in the order that the set of pairs `R` is.               *)

Rising == {e \in Nat \X Nat : e[1] < e[2]}
Falling == {e \in Nat \X Nat : e[1] > e[2]}

InOrder(s, R) ==
    \A i, j \in 1 .. Len(s) : i < j => <<s[i], s[j]>> \in R

(* `s` lists the keys in X, in order.                                      *)
Lists(s, R, X) ==
    /\ s \in Seq(Key) /\ InOrder(s, R)
    /\ \A k : k \in X <=> \E i \in 1 .. Len(s) : s[i] = k

LEMMA OnlyLists ==
    ASSUME NEW s, NEW R, NEW X, Lists(s, R, X), NEW wanted,
           NEW t, t = Only(s, wanted)
    PROVE  Lists(t, R, X \cap wanted)
<1>1. /\ s \in Seq(Key) /\ Len(s) \in Nat /\ InOrder(s, R)
      /\ \A k : k \in X <=> \E i \in 1 .. Len(s) : s[i] = k
  BY DEF Lists
<1>2. t \in Seq(Key) /\ \E from : Embeds(t, s, Len(s), wanted, from)
  BY <1>1, OnlyKeeps
<1>3. PICK from : Embeds(t, s, Len(s), wanted, from)
  BY <1>2
<1>4. /\ \A i \in 1 .. Len(t) : from[i] \in 1 .. Len(s)
      /\ \A i \in 1 .. Len(t) : t[i] = s[from[i]] /\ t[i] \in wanted
      /\ \A i, j \in 1 .. Len(t) : i < j => from[i] < from[j]
      /\ \A j \in 1 .. Len(s) : s[j] \in wanted => \E i \in 1 .. Len(t) : from[i] = j
  BY <1>3 DEF Embeds
<1>5. InOrder(t, R)
  <2> SUFFICES ASSUME NEW i \in 1 .. Len(t), NEW j \in 1 .. Len(t), i < j
               PROVE  <<t[i], t[j]>> \in R
    BY DEF InOrder
  <2>1. /\ from[i] \in 1 .. Len(s) /\ from[j] \in 1 .. Len(s) /\ from[i] < from[j]
        /\ t[i] = s[from[i]] /\ t[j] = s[from[j]]
    BY <1>4
  <2> QED
    BY <1>1, <2>1 DEF InOrder
<1>6. ASSUME NEW k
      PROVE  k \in X \cap wanted <=> \E i \in 1 .. Len(t) : t[i] = k
  <2>1. ASSUME k \in X, k \in wanted PROVE \E i \in 1 .. Len(t) : t[i] = k
    <3>1. PICK j \in 1 .. Len(s) : s[j] = k
      BY <1>1, <2>1
    <3>2. PICK i \in 1 .. Len(t) : from[i] = j
      BY <1>4, <2>1, <3>1
    <3> QED
      BY <1>4, <3>1, <3>2
  <2>2. ASSUME NEW i \in 1 .. Len(t), t[i] = k PROVE k \in X /\ k \in wanted
    BY <1>1, <1>4, <2>2
  <2> QED
    BY <2>1, <2>2
<1> QED
  BY <1>2, <1>5, <1>6 DEF Lists

(* What is past a range's end is past it for all that follows.             *)
LEMMA UntilLists ==
    ASSUME NEW s, NEW R, NEW X, Lists(s, R, X), NEW past,
           \A k, l \in X : k \in past /\ <<k, l>> \in R => l \in past,
           NEW t, t = TakeUntil(s, past)
    PROVE  Lists(t, R, X \ past)
<1>1. /\ s \in Seq(Key) /\ Len(s) \in Nat /\ InOrder(s, R) /\ DOMAIN s = 1 .. Len(s)
      /\ \A k : k \in X <=> \E i \in 1 .. Len(s) : s[i] = k
  BY DEF Lists
<1>2. PICK at : at = {i \in 1 .. Len(s) : s[i] \in past}
  OBVIOUS
<1>3. CASE at = {}
  <2>1. t = s
    BY <1>1, <1>2, <1>3 DEF TakeUntil
  <2>2. \A i \in 1 .. Len(s) : s[i] \notin past
    BY <1>2, <1>3
  <2> QED
    BY <1>1, <2>1, <2>2 DEF Lists
<1>4. CASE at # {}
  <2>0. at \subseteq Nat
    BY <1>2
  <2>1. \E i \in at : \A j \in at : i <= j
    BY <1>4, <2>0, NatMin
  <2>2. PICK m : m = CHOOSE i \in at : \A j \in at : i <= j
    OBVIOUS
  <2>3. m \in at /\ \A j \in at : m <= j
    BY <2>1, <2>2
  <2>4. m \in 1 .. Len(s) /\ s[m] \in past
    BY <1>2, <2>3
  <2>5. t = SubSeq(s, 1, m - 1)
    BY <1>1, <1>2, <1>4, <2>2 DEF TakeUntil
  <2>6. /\ t \in Seq(Key) /\ Len(t) = m - 1
        /\ \A i \in 1 .. m - 1 : t[i] = s[i]
    BY <1>1, <2>4, <2>5
  <2>7. \A i \in 1 .. m - 1 : i \in 1 .. Len(s)
    BY <1>1, <2>4
  <2>8. \A i \in 1 .. m - 1 : s[i] \notin past
    BY <1>2, <2>3, <2>4, <2>7
  <2>9. InOrder(t, R)
    BY <1>1, <2>6, <2>7 DEF InOrder
  <2>10. ASSUME NEW i \in 1 .. Len(s), s[i] \notin past PROVE i \in 1 .. m - 1
    <3> SUFFICES ASSUME ~(i <= m - 1) PROVE FALSE
      BY <1>1, <2>4
    <3>1. i # m /\ m < i
      BY <2>4, <2>10
    <3>2. <<s[m], s[i]>> \in R /\ s[m] \in X /\ s[i] \in X
      BY <1>1, <2>4, <3>1 DEF InOrder
    <3> QED
      BY <2>4, <2>10, <3>2
  <2>11. ASSUME NEW k
         PROVE  k \in X \ past <=> \E i \in 1 .. Len(t) : t[i] = k
    BY <1>1, <2>6, <2>7, <2>8, <2>10
  <2> QED
    BY <2>6, <2>9, <2>11 DEF Lists
<1> QED
  BY <1>3, <1>4

(* One list after another.                                                 *)
LEMMA BothList ==
    ASSUME NEW s, NEW R, NEW X, Lists(s, R, X), NEW t, NEW Y, Lists(t, R, Y),
           \A k \in X, l \in Y : <<k, l>> \in R
    PROVE  Lists(s \o t, R, X \cup Y)
<1>1. /\ s \in Seq(Key) /\ InOrder(s, R)
      /\ \A k : k \in X <=> \E i \in 1 .. Len(s) : s[i] = k
      /\ t \in Seq(Key) /\ InOrder(t, R)
      /\ \A k : k \in Y <=> \E i \in 1 .. Len(t) : t[i] = k
  BY DEF Lists
<1>2. PICK m, n \in Nat : m = Len(s) /\ n = Len(t)
  BY <1>1
<1>3. PICK u : u = s \o t
  OBVIOUS
<1>4. /\ u \in Seq(Key) /\ Len(u) = m + n
      /\ \A i \in 1 .. m : u[i] = s[i]
      /\ \A i \in 1 .. m + n : i > m => u[i] = t[i - m]
  BY <1>1, <1>2, <1>3
<1>5. \A i \in 1 .. n : m + i \in 1 .. m + n /\ m + i > m /\ (m + i) - m = i
  OBVIOUS
<1>6. ASSUME NEW i \in 1 .. m + n
      PROVE  \/ i \in 1 .. m /\ u[i] = s[i] /\ s[i] \in X
             \/ i > m /\ i - m \in 1 .. n /\ u[i] = t[i - m] /\ t[i - m] \in Y
  <2>1. CASE i <= m
    BY <1>1, <1>2, <1>4, <2>1
  <2>2. CASE i > m
    <3>1. i - m \in 1 .. n
      BY <2>2
    <3> QED
      BY <1>1, <1>2, <1>4, <2>2, <3>1
  <2> QED
    BY <2>1, <2>2
<1>7. InOrder(u, R)
  <2> SUFFICES ASSUME NEW i \in 1 .. m + n, NEW j \in 1 .. m + n, i < j
               PROVE  <<u[i], u[j]>> \in R
    BY <1>4 DEF InOrder
  <2>1. CASE j <= m
    <3>1. i \in 1 .. m /\ j \in 1 .. m
      BY <2>1
    <3> QED
      BY <1>1, <1>2, <1>4, <3>1 DEF InOrder
  <2>2. CASE i <= m /\ j > m
    BY <1>6, <2>2
  <2>3. CASE i > m
    <3>1. PICK a, b \in 1 .. n : a = i - m /\ b = j - m /\ a < b
      <4>1. i - m \in 1 .. n /\ j - m \in 1 .. n /\ i - m < j - m
        BY <2>3
      <4> QED
        BY <4>1
    <3>2. u[i] = t[a] /\ u[j] = t[b]
      BY <1>4, <2>3, <3>1
    <3> QED
      BY <1>1, <1>2, <3>1, <3>2 DEF InOrder
  <2> QED
    BY <2>1, <2>2, <2>3
<1>8. ASSUME NEW k
      PROVE  k \in X \cup Y <=> \E i \in 1 .. Len(u) : u[i] = k
  <2>1. ASSUME k \in X PROVE \E i \in 1 .. Len(u) : u[i] = k
    <3>1. PICK i \in 1 .. m : s[i] = k
      BY <1>1, <1>2, <2>1
    <3>2. i \in 1 .. m + n
      OBVIOUS
    <3> QED
      BY <1>4, <3>1, <3>2
  <2>2. ASSUME k \in Y PROVE \E i \in 1 .. Len(u) : u[i] = k
    <3>1. PICK i \in 1 .. n : t[i] = k
      BY <1>1, <1>2, <2>2
    <3>2. u[m + i] = k
      BY <1>4, <1>5, <3>1
    <3> QED
      BY <1>4, <1>5, <3>2
  <2>3. ASSUME NEW i \in 1 .. m + n, u[i] = k PROVE k \in X \cup Y
    BY <1>6, <2>3
  <2> QED
    BY <1>4, <2>1, <2>2, <2>3
<1> QED
  BY <1>3, <1>4, <1>7, <1>8 DEF Lists

(* Lists whose keys come one list after the other.                         *)
ListsInOrder(seqs, n, R, X) ==
    /\ n \in Nat /\ Len(seqs) = n
    /\ \A i \in 1 .. n : Lists(seqs[i], R, X[i])
    /\ \A i, j \in 1 .. n : i < j => \A k \in X[i], l \in X[j] : <<k, l>> \in R

LEMMA JoinedLists ==
    ASSUME NEW R, NEW seqs, NEW n, NEW X, ListsInOrder(seqs, n, R, X)
    PROVE  Lists(Joined(seqs), R, UNION {X[i] : i \in 1 .. n})
<1>0. /\ n \in Nat /\ Len(seqs) = n
      /\ \A i \in 1 .. n : Lists(seqs[i], R, X[i])
      /\ \A i, j \in 1 .. n : i < j => \A k \in X[i], l \in X[j] : <<k, l>> \in R
  BY DEF ListsInOrder
<1>1. PICK h : /\ Joined(seqs) = h[n] /\ h[0] = <<>>
               /\ \A i \in 1 .. n : h[i] = (h[i - 1] \o seqs[i])
  BY <1>0, JoinedSteps
<1> DEFINE U(m) == UNION {X[i] : i \in 1 .. m}
           T == {m \in Nat : m <= n => Lists(h[m], R, U(m))}
<1>2. 0 \in T
  <2>1. <<>> \in Seq(Key) /\ Len(<<>>) = 0 /\ 1 .. 0 = {}
    OBVIOUS
  <2>2. U(0) = {}
    BY <2>1
  <2>3. Lists(<<>>, R, {})
    BY <2>1 DEF Lists, InOrder
  <2> QED
    BY <1>1, <2>2, <2>3
<1>3. ASSUME NEW m \in Nat, m \in T PROVE m + 1 \in T
  <2> SUFFICES ASSUME m + 1 <= n PROVE Lists(h[m + 1], R, U(m + 1))
    OBVIOUS
  <2>1. m + 1 \in 1 .. n /\ (m + 1) - 1 = m /\ m <= n
    BY <1>0
  <2>2. Lists(h[m], R, U(m)) /\ Lists(seqs[m + 1], R, X[m + 1])
    BY <1>0, <1>3, <2>1
  <2>3. h[m + 1] = (h[m] \o seqs[m + 1])
    BY <1>1, <2>1
  <2>4. \A i \in 1 .. m : i \in 1 .. n /\ i < m + 1
    BY <1>0, <2>1
  <2>5. \A k \in U(m), l \in X[m + 1] : <<k, l>> \in R
    BY <1>0, <2>1, <2>4
  <2>6. U(m + 1) = U(m) \cup X[m + 1]
    <3>1. \A i : i \in 1 .. m + 1 <=> i \in 1 .. m \/ i = m + 1
      OBVIOUS
    <3> QED
      BY <3>1
  <2> HIDE DEF U
  <2> QED
    BY <2>2, <2>3, <2>5, <2>6, BothList
<1>4. n \in T
  <2> HIDE DEF T
  <2> QED
    BY <1>0, <1>2, <1>3, NatInd
<1> QED
  BY <1>0, <1>1, <1>4

(* A list in order has each key once.                                      *)
LEMMA ListCount ==
    ASSUME NEW s, NEW X, Lists(s, Rising, X)
    PROVE  /\ \A m \in 0 .. Len(s) :
                 /\ IsFiniteSet({s[j] : j \in 1 .. m})
                 /\ Cardinality({s[j] : j \in 1 .. m}) = m
           /\ IsFiniteSet(X) /\ Cardinality(X) = Len(s) /\ Len(s) \in Nat
<1>1. /\ s \in Seq(Key) /\ Len(s) \in Nat /\ InOrder(s, Rising)
      /\ \A k : k \in X <=> \E i \in 1 .. Len(s) : s[i] = k
  BY DEF Lists
<1> DEFINE P(m) == {s[j] : j \in 1 .. m}
           T == {m \in Nat : m <= Len(s) => IsFiniteSet(P(m)) /\ Cardinality(P(m)) = m}
<1>2. 0 \in T
  <2>1. P(0) = {}
    OBVIOUS
  <2> QED
    BY <2>1, FS_EmptySet
<1>3. ASSUME NEW m \in Nat, m \in T PROVE m + 1 \in T
  <2> SUFFICES ASSUME m + 1 <= Len(s)
               PROVE  IsFiniteSet(P(m + 1)) /\ Cardinality(P(m + 1)) = m + 1
    OBVIOUS
  <2>1. IsFiniteSet(P(m)) /\ Cardinality(P(m)) = m
    BY <1>1, <1>3
  <2>2. s[m + 1] \notin P(m)
    <3> SUFFICES ASSUME NEW j \in 1 .. m, s[j] = s[m + 1] PROVE FALSE
      OBVIOUS
    <3>1. j \in 1 .. Len(s) /\ m + 1 \in 1 .. Len(s) /\ j < m + 1
      BY <1>1
    <3>2. <<s[j], s[m + 1]>> \in Rising
      BY <1>1, <3>1 DEF InOrder
    <3> QED
      BY <3>2 DEF Rising
  <2>3. P(m + 1) = P(m) \cup {s[m + 1]}
    <3>1. \A j : j \in 1 .. m + 1 <=> j \in 1 .. m \/ j = m + 1
      OBVIOUS
    <3> QED
      BY <3>1
  <2> HIDE DEF P
  <2> QED
    BY <2>1, <2>2, <2>3, FS_AddElement
<1>4. Nat \subseteq T
  <2> HIDE DEF T
  <2> QED
    BY <1>2, <1>3, NatInd
<1>5. \A m \in 0 .. Len(s) : IsFiniteSet(P(m)) /\ Cardinality(P(m)) = m
  BY <1>1, <1>4
<1>6. X = P(Len(s))
  BY <1>1
<1>7. Len(s) \in 0 .. Len(s)
  BY <1>1
<1>8. IsFiniteSet(X) /\ Cardinality(X) = Len(s)
  <2> HIDE DEF P
  <2> QED
    BY <1>5, <1>6, <1>7
<1> QED
  BY <1>1, <1>5, <1>8

(* There is one list of a set: `Ascending`.                                *)
LEMMA AscendingIs ==
    ASSUME NEW s, NEW X, Lists(s, Rising, X)
    PROVE  s = Ascending(X)
<1>1. /\ s \in Seq(Key) /\ InOrder(s, Rising)
      /\ \A k : k \in X <=> \E i \in 1 .. Len(s) : s[i] = k
  BY DEF Lists
<1>2. PICK n \in Nat : n = Len(s)
  BY <1>1
<1>3. \A i \in 1 .. n : s[i] \in Nat /\ s[i] \in X
  BY <1>1, <1>2, KeyFacts
<1>4. \A i, j \in 1 .. n : i < j => s[i] < s[j]
  BY <1>1, <1>2 DEF InOrder, Rising
<1>5. ASSUME NEW i \in 1 .. n
      PROVE  Cardinality({k \in X : k < s[i]}) = i - 1
  <2>1. {k \in X : k < s[i]} = {s[j] : j \in 1 .. i - 1}
    <3>1. ASSUME NEW k \in X, k < s[i] PROVE \E j \in 1 .. i - 1 : k = s[j]
      <4>1. PICK j \in 1 .. n : s[j] = k
        BY <1>1, <1>2
      <4>2. j < i
        <5> SUFFICES ASSUME ~(j < i) PROVE FALSE
          OBVIOUS
        <5>1. j = i \/ i < j
          OBVIOUS
        <5> QED
          BY <1>3, <1>4, <3>1, <4>1, <5>1
      <4>3. j \in 1 .. i - 1
        BY <4>2
      <4> QED
        BY <4>1, <4>3
    <3>2. ASSUME NEW j \in 1 .. i - 1 PROVE s[j] \in X /\ s[j] < s[i]
      <4>1. j \in 1 .. n /\ j < i
        OBVIOUS
      <4> QED
        BY <1>3, <1>4, <4>1
    <3> QED
      BY <3>1, <3>2
  <2>2. i - 1 \in 0 .. Len(s)
    BY <1>2
  <2> QED
    BY <2>1, <2>2, ListCount
<1>6. Cardinality(X) = n
  BY <1>2, ListCount
<1>7. PICK t : t = Ascending(X)
  OBVIOUS
<1>8. t = [i \in 1 .. n |-> CHOOSE k \in X : Cardinality({j \in X : j < k}) = i - 1]
  BY <1>6, <1>7, Zenon DEF Ascending
<1>9. ASSUME NEW i \in 1 .. n PROVE t[i] = s[i]
  <2> DEFINE Q(k) == Cardinality({j \in X : j < k}) = i - 1
  <2>1. t[i] = CHOOSE k \in X : Q(k)
    BY <1>8
  <2>2. s[i] \in X /\ Q(s[i])
    BY <1>3, <1>5
  <2>3. ASSUME NEW k \in X, Q(k) PROVE k = s[i]
    <3>1. PICK j \in 1 .. n : s[j] = k
      BY <1>1, <1>2
    <3>2. Cardinality({x \in X : x < s[j]}) = j - 1
      BY <1>5
    <3>3. j - 1 = i - 1
      BY <2>3, <3>1, <3>2
    <3> QED
      BY <3>1, <3>3
  <2> HIDE DEF Q
  <2>4. (CHOOSE k \in X : Q(k)) \in X /\ Q(CHOOSE k \in X : Q(k))
    BY <2>2
  <2> QED
    BY <2>1, <2>3, <2>4
<1>10. t = [i \in 1 .. n |-> t[i]] /\ s = [i \in 1 .. n |-> s[i]]
  <2> DEFINE e(i) == CHOOSE k \in X : Cardinality({j \in X : j < k}) = i - 1
  <2>1. t = [i \in 1 .. n |-> e(i)]
    BY <1>8
  <2> HIDE DEF e
  <2>2. t = [i \in 1 .. n |-> t[i]]
    BY <2>1
  <2> QED
    BY <1>1, <1>2, <2>2
<1> QED
  BY <1>7, <1>9, <1>10

(* The other way round.                                                    *)
LEMMA ReversedLists ==
    ASSUME NEW s, NEW R, NEW X, Lists(s, R, X), NEW R2,
           \A k, l \in Nat : <<k, l>> \in R => <<l, k>> \in R2
    PROVE  Lists(Reverse(s), R2, X) /\ Reverse(Reverse(s)) = s
<1>1. /\ s \in Seq(Key) /\ InOrder(s, R)
      /\ \A k : k \in X <=> \E i \in 1 .. Len(s) : s[i] = k
  BY DEF Lists
<1>2. PICK n \in Nat : n = Len(s)
  BY <1>1
<1>3. PICK t : t = Reverse(s)
  OBVIOUS
<1>4. t = [i \in 1 .. n |-> s[(n - i) + 1]]
  BY <1>2, <1>3 DEF Reverse
<1>5. \A i \in 1 .. n : (n - i) + 1 \in 1 .. n /\ (n - ((n - i) + 1)) + 1 = i
  OBVIOUS
<1>6. \A i \in 1 .. n : s[i] \in Key /\ s[i] \in Nat
  BY <1>1, <1>2, KeyFacts
<1>7. t \in Seq(Key) /\ Len(t) = n
  <2>1. t \in [1 .. n -> Key]
    BY <1>4, <1>5, <1>6
  <2> QED
    BY <2>1
<1>8. \A i \in 1 .. n : t[i] = s[(n - i) + 1]
  BY <1>4
<1>9. InOrder(t, R2)
  <2> SUFFICES ASSUME NEW i \in 1 .. n, NEW j \in 1 .. n, i < j
               PROVE  <<t[i], t[j]>> \in R2
    BY <1>7 DEF InOrder
  <2>1. PICK a, b \in 1 .. n : a = (n - i) + 1 /\ b = (n - j) + 1 /\ b < a
    <3>1. (n - i) + 1 \in 1 .. n /\ (n - j) + 1 \in 1 .. n
          /\ (n - j) + 1 < (n - i) + 1
      OBVIOUS
    <3> QED
      BY <3>1
  <2>2. <<s[b], s[a]>> \in R
    BY <1>1, <1>2, <2>1 DEF InOrder
  <2> QED
    BY <1>6, <1>8, <2>1, <2>2
<1>10. ASSUME NEW k
       PROVE  k \in X <=> \E i \in 1 .. Len(t) : t[i] = k
  <2>1. ASSUME k \in X PROVE \E i \in 1 .. n : t[i] = k
    <3>1. PICK j \in 1 .. n : s[j] = k
      BY <1>1, <1>2, <2>1
    <3>2. t[(n - j) + 1] = k
      BY <1>5, <1>8, <3>1
    <3> QED
      BY <1>5, <3>2
  <2>2. ASSUME NEW i \in 1 .. n, t[i] = k PROVE k \in X
    BY <1>1, <1>2, <1>5, <1>8, <2>2
  <2> QED
    BY <1>7, <2>1, <2>2
<1>11. Reverse(t) = s
  <2>1. Reverse(t) = [i \in 1 .. n |-> t[(n - i) + 1]]
    BY <1>7 DEF Reverse
  <2>2. \A i \in 1 .. n : t[(n - i) + 1] = s[i]
    BY <1>5, <1>8
  <2>3. s = [i \in 1 .. n |-> s[i]]
    BY <1>1, <1>2
  <2> QED
    BY <2>1, <2>2, <2>3
<1> QED
  BY <1>3, <1>7, <1>9, <1>10, <1>11 DEF Lists

(* The keys of a leaf, listed.                                             *)
KeysOf(cells) == {k \in Key : HasKey(cells, k)}

LEMMA LiveKeysLists ==
    ASSUME len \in Lengths, NEW page, page.cells \in Seq(CellSet), Ordered(page.cells)
    PROVE  Lists(LiveKeys(page), Rising, KeysOf(page.cells))
<1>1. PICK cells \in Seq(CellSet) : cells = page.cells
  OBVIOUS
<1>2. InSpan(cells, Key)
  <2>1. \A i \in 1 .. Len(cells) : cells[i] \in CellSet
    OBVIOUS
  <2> QED
    BY <2>1, CellFacts DEF InSpan
<1>3. PICK t : t = Live(cells)
  OBVIOUS
<1>4. t \in Seq(LiveCells) /\ Ordered(t) /\ \A k : HasKey(t, k) <=> HasKey(cells, k)
  BY <1>1, <1>2, <1>3, LeafCleaned
<1>5. /\ Len(t) \in Nat
      /\ \A i \in 1 .. Len(t) : /\ t[i] # Tombstone
                                /\ t[i].key \in Key /\ t[i].key \in Nat
      /\ \A i, j \in 1 .. Len(t) : i < j => t[i].key < t[j].key
  BY <1>4, LiveFacts
<1>6. PICK s : s = LiveKeys(page)
  OBVIOUS
<1>7. s = [i \in 1 .. Len(t) |-> t[i].key]
  BY <1>1, <1>3, <1>4, <1>6 DEF LiveKeys, Keys
<1>8. s \in Seq(Key) /\ Len(s) = Len(t) /\ \A i \in 1 .. Len(t) : s[i] = t[i].key
  <2>1. s \in [1 .. Len(t) -> Key]
    BY <1>5, <1>7
  <2> QED
    BY <1>5, <1>7, <2>1
<1>9. InOrder(s, Rising)
  BY <1>5, <1>8 DEF InOrder, Rising
<1>10. ASSUME NEW k
       PROVE  k \in KeysOf(cells) <=> \E i \in 1 .. Len(s) : s[i] = k
  <2>1. HasKey(t, k) <=> \E i \in 1 .. Len(s) : s[i] = k
    BY <1>5, <1>8 DEF HasKey
  <2>2. HasKey(t, k) => k \in Key
    BY <1>5 DEF HasKey
  <2> QED
    BY <1>4, <2>1, <2>2 DEF KeysOf
<1> QED
  BY <1>1, <1>6, <1>8, <1>9, <1>10 DEF Lists

-----------------------------------------------------------------------------
(* A walk forward.                                                         *)

LEMMA NoMorePages ==
    ASSUME NEW w \in Seq(PageId), \A i, j \in 1 .. Len(w) : i # j => w[i] # w[j]
    PROVE  Len(w) <= MaxPages
<1>1. PICK n, m \in Nat : n = MaxPages /\ m = Len(w)
  BY BTreeAssumption
<1> SUFFICES ASSUME n < m PROVE FALSE
  BY <1>1
<1>2. /\ IsFiniteSet(1 .. m) /\ Cardinality(1 .. m) = m
      /\ IsFiniteSet(PageId) /\ Cardinality(PageId) = n
  <2>1. IsFiniteSet(1 .. m) /\ Cardinality(1 .. m) = m
    BY FS_Interval
  <2>2. IsFiniteSet(1 .. n) /\ Cardinality(1 .. n) = n
    BY FS_Interval
  <2> QED
    BY <1>1, <2>1, <2>2 DEF PageId
<1>3. w \in [1 .. m -> PageId]
  BY <1>1
<1>4. Cardinality(PageId) < Cardinality(1 .. m)
  BY <1>2
<1>5. \E i, j \in 1 .. m : i # j /\ w[i] = w[j]
  BY <1>2, <1>3, <1>4, FS_PigeonHole
<1> QED
  BY <1>1, <1>5

(* The leaves so far: one's keys come before the next one's, and those     *)
(* from `start` on that are in none come after them all.                   *)
WalkOn(lev, span, w, start) ==
    /\ w \in Seq(PageId) /\ Len(w) >= 1
    /\ \A i \in 1 .. Len(w) : lev[w[i]] = 1
    /\ \A i, j \in 1 .. Len(w) :
          i < j => \A k \in span[w[i]], l \in span[w[j]] : k < l
    /\ \A k \in Nat : k >= start =>
          \/ \E i \in 1 .. Len(w) : k \in span[w[i]]
          \/ \A l \in span[w[Len(w)]] : l < k

LinkedTree(ps, lev, span, r) == Closed(ps, lev, span, r) /\ Linked(ps, lev, span)

LEMMA LinkedLeaf ==
    ASSUME NEW ps, NEW lev, NEW span, NEW r, LinkedTree(ps, lev, span, r),
           NEW p \in PageId, lev[p] = 1
    PROVE  /\ span[p] \subseteq Nat /\ span[p] # {}
           /\ Apart(lev, span) /\ Linked(ps, lev, span)
           /\ LinkSound(ps[p].next, lev, span, span[p])
           /\ \A k \in Nat, l \in span[p] : l <= k =>
                 k \in span[p] \/ \A m \in span[p] : m < k
<1>1. Tree(ps, lev, span, r, NoPage, NoPage) /\ Linked(ps, lev, span)
  BY DEF LinkedTree, Closed
<1>2. LinkSound(ps[p].next, lev, span, span[p])
  BY <1>1 DEF Linked
<1>3. PICK own : own = span[p]
  OBVIOUS
<1>4. PICK a \in Nat : \/ own = {k \in Nat : k >= a}
                       \/ \E b \in Nat : own = a .. b - 1
  BY <1>2, <1>3 DEF LinkSound
<1>5. \A k \in Nat, l \in own : l <= k => k \in own \/ \A m \in own : m < k
  <2>1. CASE own = {k \in Nat : k >= a}
    BY <2>1
  <2>2. CASE \E b \in Nat : own = a .. b - 1
    BY <2>2
  <2> QED
    BY <1>4, <2>1, <2>2
<1>6. span[p] \subseteq Nat /\ span[p] # {} /\ Apart(lev, span)
  BY <1>1 DEF Tree
<1> QED
  BY <1>1, <1>2, <1>3, <1>5, <1>6

NextLeaf(ps, w, v) ==
    LET next == ps[w[Len(w)]].next IN next # NoPage /\ v = Append(w, next)

LEMMA WalkNext ==
    ASSUME NEW ps, NEW lev, NEW span, NEW r, LinkedTree(ps, lev, span, r),
           NEW w, NEW start \in Nat, WalkOn(lev, span, w, start),
           NEW v, NextLeaf(ps, w, v)
    PROVE  WalkOn(lev, span, v, start) /\ Len(v) = Len(w) + 1
<1>0. PICK n : n = ps[w[Len(w)]].next /\ n # NoPage /\ v = Append(w, n)
  BY DEF NextLeaf
<1>1. PICK d \in Nat : /\ d = Len(w) /\ d >= 1 /\ w \in Seq(PageId)
                       /\ \A i \in 1 .. d : lev[w[i]] = 1 /\ w[i] \in PageId
  BY DEF WalkOn
<1>2. PICK p \in PageId : p = w[d] /\ lev[p] = 1
  BY <1>1
<1>3. /\ LinkSound(n, lev, span, span[p]) /\ Apart(lev, span) /\ span[p] # {}
      /\ Linked(ps, lev, span) /\ span[p] \subseteq Nat
  BY <1>0, <1>1, <1>2, LinkedLeaf
<1>4. /\ n \in PageId /\ lev[n] = 1
      /\ \E a, b \in Nat : a < b /\ span[p] = a .. b - 1 /\ b \in span[n]
  BY <1>0, <1>3 DEF LinkSound
<1>5. PICK a, b \in Nat : a < b /\ span[p] = a .. b - 1 /\ b \in span[n]
  BY <1>4
<1>6. \A k \in span[n] : k \in Nat /\ k >= b
  BY <1>2, <1>3, <1>4, <1>5, LinkAhead
<1>7. /\ v \in Seq(PageId) /\ Len(v) = d + 1 /\ v[d + 1] = n
      /\ \A i \in 1 .. d : v[i] = w[i]
  BY <1>0, <1>1, <1>4
<1>8. \A i \in 1 .. d + 1 : i = d + 1 \/ i \in 1 .. d
  OBVIOUS
<1>9. \A i \in 1 .. d + 1 : lev[v[i]] = 1
  BY <1>1, <1>4, <1>7, <1>8
<1>10. ASSUME NEW i \in 1 .. d, NEW k \in span[w[i]], NEW l \in span[n]
       PROVE  k < l
  <2>1. b - 1 \in span[p] /\ b - 1 < l /\ l \in Nat
    BY <1>5, <1>6
  <2>2. CASE i = d
    <3>1. k \in a .. b - 1
      BY <1>2, <1>5, <2>2
    <3> QED
      BY <2>1, <3>1
  <2>3. CASE i # d
    <3>1. i < d /\ d \in 1 .. d
      BY <2>3
    <3>2. k < b - 1
      BY <1>1, <1>2, <2>1, <3>1 DEF WalkOn
    <3>3. k \in Nat
      BY <1>1, LinkedLeaf
    <3> QED
      BY <2>1, <3>2, <3>3
  <2> QED
    BY <2>2, <2>3
<1>11. ASSUME NEW i \in 1 .. d + 1, NEW j \in 1 .. d + 1, i < j,
              NEW k \in span[v[i]], NEW l \in span[v[j]]
       PROVE  k < l
  <2>1. i \in 1 .. d /\ v[i] = w[i]
    BY <1>7, <1>11
  <2>2. CASE j = d + 1
    BY <1>7, <1>10, <2>1, <2>2
  <2>3. CASE j # d + 1
    <3>1. j \in 1 .. d /\ v[j] = w[j]
      BY <1>7, <2>3
    <3> QED
      BY <1>1, <1>11, <2>1, <3>1 DEF WalkOn
  <2> QED
    BY <2>2, <2>3
<1>12. ASSUME NEW k \in Nat, k >= start
       PROVE  \/ \E i \in 1 .. d + 1 : k \in span[v[i]]
              \/ \A l \in span[v[d + 1]] : l < k
  <2>1. CASE \E i \in 1 .. d : k \in span[w[i]]
    <3>1. PICK i \in 1 .. d : k \in span[w[i]]
      BY <2>1
    <3>2. i \in 1 .. d + 1
      OBVIOUS
    <3> QED
      BY <1>7, <3>1, <3>2
  <2>2. CASE \A l \in span[p] : l < k
    <3>1. b <= k
      <4>1. b - 1 \in span[p]
        BY <1>5
      <4> QED
        BY <2>2, <4>1
    <3>2. k \in span[n] \/ \A m \in span[n] : m < k
      BY <1>4, <1>5, <3>1, LinkedLeaf
    <3>3. d + 1 \in 1 .. d + 1
      OBVIOUS
    <3> QED
      BY <1>7, <3>2, <3>3
  <2> QED
    BY <1>1, <1>2, <1>12, <2>1, <2>2 DEF WalkOn
<1>13. Len(v) = d + 1 /\ Len(v) >= 1
  BY <1>7
<1>14. \A i, j \in 1 .. d + 1 :
          i < j => \A k \in span[v[i]], l \in span[v[j]] : k < l
  BY <1>11
<1>15. \A k \in Nat : k >= start =>
          \/ \E i \in 1 .. d + 1 : k \in span[v[i]]
          \/ \A l \in span[v[d + 1]] : l < k
  BY <1>12
<1>16. WalkOn(lev, span, v, start)
  BY ONLY <1>7, <1>9, <1>13, <1>14, <1>15 DEF WalkOn
<1> QED
  BY <1>1, <1>13, <1>16

(* It ends at the last leaf, and all keys are in one of those passed.      *)
LEMMA WalkEnds ==
    ASSUME NEW ps, NEW lev, NEW span, NEW r, LinkedTree(ps, lev, span, r),
           NEW w, NEW start \in Nat, WalkOn(lev, span, w, start)
    PROVE  /\ Len(w) <= MaxPages
           /\ ps[w[Len(w)]].next = NoPage =>
                 \A k \in Nat : k >= start => \E i \in 1 .. Len(w) : k \in span[w[i]]
<1>1. PICK d \in Nat : /\ d = Len(w) /\ d >= 1 /\ w \in Seq(PageId)
                       /\ \A i \in 1 .. d : lev[w[i]] = 1 /\ w[i] \in PageId
  BY DEF WalkOn
<1>2. ASSUME NEW i \in 1 .. d, NEW j \in 1 .. d, i < j PROVE w[i] # w[j]
  <2>1. PICK k : k \in span[w[i]] /\ k \in Nat
    BY <1>1, LinkedLeaf
  <2>2. w[i] = w[j] => k < k
    BY <1>1, <1>2, <2>1 DEF WalkOn
  <2> QED
    BY <2>1, <2>2
<1>3. \A i, j \in 1 .. d : i # j => w[i] # w[j]
  <2>1. \A i, j \in 1 .. d : i # j => i < j \/ j < i
    OBVIOUS
  <2> QED
    BY <1>2, <2>1
<1>4. Len(w) <= MaxPages
  BY <1>1, <1>3, NoMorePages
<1>5. ASSUME ps[w[d]].next = NoPage, NEW k \in Nat, k >= start
      PROVE  \E i \in 1 .. d : k \in span[w[i]]
  <2>1. PICK p \in PageId : p = w[d] /\ lev[p] = 1
    BY <1>1
  <2>2. LinkSound(NoPage, lev, span, span[p]) /\ span[p] # {}
    BY <1>5, <2>1, LinkedLeaf
  <2>3. PICK a \in Nat : span[p] = {l \in Nat : l >= a}
    BY <2>2, NoPageIs DEF LinkSound
  <2>4. ~ \A l \in span[p] : l < k
    <3> SUFFICES ASSUME \A l \in span[p] : l < k PROVE FALSE
      OBVIOUS
    <3>1. a \in span[p]
      BY <2>3
    <3>2. a < k
      BY <3>1
    <3>3. k \in span[p]
      BY <2>3, <3>2
    <3> QED
      BY <3>3
  <2> QED
    BY <1>1, <1>5, <2>1, <2>4 DEF WalkOn
<1> QED
  BY <1>1, <1>4, <1>5

LEMMA LeavesFromRight ==
    ASSUME NEW ps, NEW lev, NEW span, NEW r, LinkedTree(ps, lev, span, r),
           lev[r] <= MaxDepth + 1, NEW start \in Nat,
           NEW w, w = LeavesFrom(ps, r, start)
    PROVE  /\ WalkOn(lev, span, w, start) /\ Len(w) <= MaxPages
           /\ \A k \in Nat : k >= start => \E i \in 1 .. Len(w) : k \in span[w[i]]
<1>1. PICK n \in Nat : n = MaxPages
  BY BTreeAssumption
<1>2. PICK h : /\ w = h[n] /\ h[0] = <<Leaf(ps, r, start)>>
               /\ \A i \in 1 .. n : h[i] = LeavesOn(ps, h[i - 1])
  BY <1>1, LeavesSteps
<1> DEFINE Q(i) == /\ WalkOn(lev, span, h[i], start)
                   /\ Len(h[i]) = i + 1 \/ ps[h[i][Len(h[i])]].next = NoPage
           T == {i \in Nat : i <= n => Q(i)}
<1>3. 0 \in T
  <2>1. PICK p : p = Leaf(ps, r, start)
    OBVIOUS
  <2>2. p \in PageId /\ lev[p] = 1 /\ start \in span[p]
    BY <2>1, LeafRight DEF LinkedTree
  <2>3. PICK u : u = <<p>>
    OBVIOUS
  <2>4. u \in Seq(PageId) /\ Len(u) = 1 /\ u[1] = p /\ \A i \in 1 .. 1 : i = 1
    BY <2>2, <2>3
  <2>5. \A k \in Nat : k >= start => k \in span[p] \/ \A m \in span[p] : m < k
    BY <2>2, LinkedLeaf
  <2>6. WalkOn(lev, span, u, start)
    BY <2>2, <2>4, <2>5 DEF WalkOn
  <2> QED
    BY <1>2, <2>1, <2>3, <2>4, <2>6
<1>4. ASSUME NEW i \in Nat, i \in T PROVE i + 1 \in T
  <2> SUFFICES ASSUME i + 1 <= n PROVE Q(i + 1)
    OBVIOUS
  <2>1. i + 1 \in 1 .. n /\ (i + 1) - 1 = i /\ i <= n
    OBVIOUS
  <2>2. Q(i) /\ h[i + 1] = LeavesOn(ps, h[i])
    BY <1>2, <1>4, <2>1
  <2>3. PICK u, v : u = h[i] /\ v = h[i + 1]
    OBVIOUS
  <2>4. PICK d \in Nat : d = Len(u) /\ d >= 1 /\ u \in Seq(PageId)
    BY <2>2, <2>3 DEF WalkOn
  <2>5. PICK next : next = ps[u[Len(u)]].next
    OBVIOUS
  <2>6. v = IF next = NoPage THEN u ELSE Append(u, next)
    BY <2>2, <2>3, <2>4, <2>5 DEF LeavesOn, Last
  <2>7. CASE next = NoPage
    BY <2>2, <2>3, <2>5, <2>6, <2>7
  <2>8. CASE next # NoPage
    <3>1. WalkOn(lev, span, v, start) /\ Len(v) = Len(u) + 1
      <4>1. /\ LinkedTree(ps, lev, span, r) /\ start \in Nat
            /\ WalkOn(lev, span, u, start) /\ NextLeaf(ps, u, v)
        BY <2>2, <2>3, <2>5, <2>6, <2>8 DEF NextLeaf
      <4> QED
        BY ONLY <4>1, WalkNext
    <3>2. Len(u) = i + 1
      BY <2>2, <2>3, <2>5, <2>8
    <3> QED
      BY <2>3, <3>1, <3>2
  <2> QED
    BY <2>7, <2>8
<1>5. Q(n)
  <2>1. n \in T
    <3> HIDE DEF T
    <3> QED
      BY <1>3, <1>4, NatInd
  <2> QED
    BY <2>1
<1>6. Len(w) <= MaxPages
  BY <1>2, <1>5, WalkEnds
<1>7. ps[w[Len(w)]].next = NoPage
  BY <1>1, <1>2, <1>5, <1>6
<1>8. WalkOn(lev, span, w, start)
  BY <1>2, <1>5
<1>9. \A k \in Nat : k >= start => \E i \in 1 .. Len(w) : k \in span[w[i]]
  BY ONLY <1>7, <1>8, LinkedTree(ps, lev, span, r), start \in Nat, WalkEnds
<1> QED
  BY <1>6, <1>8, <1>9

WholeWithin(ps, lev, span, r, es) ==
    Whole(ps, lev, span, r, es) /\ lev[r] <= MaxDepth + 1 /\ len \in Lengths

LEMMA WholeIs ==
    ASSUME NEW ps, NEW lev, NEW span, NEW r, NEW es, WholeWithin(ps, lev, span, r, es)
    PROVE  /\ LinkedTree(ps, lev, span, r) /\ Closed(ps, lev, span, r)
           /\ Tree(ps, lev, span, r, NoPage, NoPage) /\ Holds(ps, lev, es)
           /\ lev[r] <= MaxDepth + 1 /\ len \in Lengths
           /\ es \subseteq Key
BY DEF WholeWithin, Whole, LinkedTree, Closed, Holds

(* The keys of a leaf: those of the index that are routed to it.           *)
LEMMA LeafHas ==
    ASSUME NEW ps, NEW lev, NEW span, NEW r, NEW es,
           WholeWithin(ps, lev, span, r, es), NEW p \in PageId, lev[p] = 1
    PROVE  /\ Lists(LiveKeys(ps[p]), Rising, KeysOf(ps[p].cells))
           /\ KeysOf(ps[p].cells) = es \cap span[p]
<1>1. /\ Tree(ps, lev, span, r, NoPage, NoPage) /\ Holds(ps, lev, es)
      /\ len \in Lengths
  BY WholeIs
<1>2. /\ ps[p].cells \in Seq(CellSet) /\ Ordered(ps[p].cells)
      /\ \A k : HasKey(ps[p].cells, k) => k \in span[p]
  BY <1>1, LeafKeys
<1>3. Lists(LiveKeys(ps[p]), Rising, KeysOf(ps[p].cells))
  BY <1>1, <1>2, LiveKeysLists
<1>4. ASSUME NEW k \in KeysOf(ps[p].cells) PROVE k \in es \cap span[p]
  BY <1>1, <1>2, <1>4 DEF KeysOf, Holds
<1>5. ASSUME NEW k \in es \cap span[p] PROVE k \in KeysOf(ps[p].cells)
  <2>1. k \in Key /\ k \in es /\ k \in span[p]
    BY <1>1, <1>5 DEF Holds
  <2>2. PICK o \in PageId : lev[o] = 1 /\ HasKey(ps[o].cells, k)
    BY <1>1, <2>1 DEF Holds
  <2>3. o = p
    BY <1>1, <2>1, <2>2, KeyOnce
  <2> QED
    BY <2>1, <2>2, <2>3 DEF KeysOf
<1> QED
  BY <1>3, <1>4, <1>5

(* What is listed up to a range's end, from its start.                     *)
LEMMA RangeListed ==
    ASSUME NEW es, es \subseteq Key, NEW start \in Nat, NEW end \in Nat,
           NEW keys, NEW X, Lists(keys, Rising, X), X \subseteq es,
           \A k \in es : k >= start => k \in X
    PROVE  Only(TakeUntil(keys, {k \in Key : end # NoKey /\ k >= end}),
                {k \in Key : k >= start})
              = Ascending({k \in es : Within(k, start, end)})
<1>1. \A k \in X : k \in Nat /\ k \in Key
  BY KeyFacts
<1>2. PICK past : past = {k \in Key : end # NoKey /\ k >= end}
  OBVIOUS
<1>3. PICK wanted : wanted = {k \in Key : k >= start}
  OBVIOUS
<1>4. \A k, l \in X : k \in past /\ <<k, l>> \in Rising => l \in past
  BY <1>1, <1>2 DEF Rising
<1>5. PICK t : t = TakeUntil(keys, past)
  OBVIOUS
<1>6. Lists(t, Rising, X \ past)
  BY <1>4, <1>5, UntilLists
<1>7. PICK u : u = Only(t, wanted)
  OBVIOUS
<1>8. Lists(u, Rising, (X \ past) \cap wanted)
  BY <1>6, <1>7, OnlyLists
<1>9. (X \ past) \cap wanted = {k \in es : Within(k, start, end)}
  BY <1>1, <1>2, <1>3 DEF Within
<1>10. u = Ascending((X \ past) \cap wanted)
  BY <1>8, AscendingIs
<1> QED
  BY <1>2, <1>3, <1>5, <1>7, <1>9, <1>10

LEMMA ForwardRight ==
    ASSUME NEW ps, NEW lev, NEW span, NEW r, NEW es,
           WholeWithin(ps, lev, span, r, es), NEW start \in Nat, NEW end \in Nat
    PROVE  Forward(ps, r, start, end) = Ascending({k \in es : Within(k, start, end)})
<1>1. LinkedTree(ps, lev, span, r) /\ lev[r] <= MaxDepth + 1 /\ es \subseteq Key
  BY WholeIs
<1>2. PICK w : w = LeavesFrom(ps, r, start)
  OBVIOUS
<1>3. /\ WalkOn(lev, span, w, start)
      /\ \A k \in Nat : k >= start => \E i \in 1 .. Len(w) : k \in span[w[i]]
  BY <1>1, <1>2, LeavesFromRight
<1>4. PICK n \in Nat : /\ n = Len(w) /\ w \in Seq(PageId)
                       /\ \A i \in 1 .. n : lev[w[i]] = 1 /\ w[i] \in PageId
  BY <1>3 DEF WalkOn
<1>5. PICK seqs : seqs = [i \in DOMAIN w |-> LiveKeys(ps[w[i]])]
  OBVIOUS
<1>6. seqs = [i \in 1 .. n |-> LiveKeys(ps[w[i]])]
  BY <1>4, <1>5
<1>7. Len(seqs) = n
  BY <1>6
<1>8. PICK X : X = [i \in 1 .. n |-> es \cap span[w[i]]]
  OBVIOUS
<1>9. \A i \in 1 .. n : Lists(seqs[i], Rising, X[i])
  <2> SUFFICES ASSUME NEW i \in 1 .. n PROVE Lists(seqs[i], Rising, X[i])
    OBVIOUS
  <2>1. PICK p \in PageId : p = w[i] /\ lev[p] = 1
    BY <1>4
  <2>2. /\ Lists(LiveKeys(ps[p]), Rising, KeysOf(ps[p].cells))
        /\ KeysOf(ps[p].cells) = es \cap span[p]
    BY <2>1, LeafHas
  <2> QED
    BY <1>6, <1>8, <2>1, <2>2
<1>10. \A i, j \in 1 .. n : i < j => \A k \in X[i], l \in X[j] : <<k, l>> \in Rising
  <2> SUFFICES ASSUME NEW i \in 1 .. n, NEW j \in 1 .. n, i < j,
                      NEW k \in X[i], NEW l \in X[j]
               PROVE  <<k, l>> \in Rising
    OBVIOUS
  <2>1. k \in es /\ l \in es /\ k \in span[w[i]] /\ l \in span[w[j]]
    BY <1>8
  <2>2. k < l
    BY <1>3, <1>4, <2>1 DEF WalkOn
  <2>3. k \in Nat /\ l \in Nat
    BY <1>1, <2>1, KeyFacts
  <2> QED
    BY <2>2, <2>3 DEF Rising
<1>11. PICK keys : keys = Joined(seqs)
  OBVIOUS
<1>12. PICK all : all = UNION {X[i] : i \in 1 .. n}
  OBVIOUS
<1>13. Lists(keys, Rising, all)
  <2>1. ListsInOrder(seqs, n, Rising, X)
    BY <1>7, <1>9, <1>10 DEF ListsInOrder
  <2> QED
    BY <1>11, <1>12, <2>1, JoinedLists
<1>14. all \subseteq es
  BY <1>8, <1>12
<1>15. \A k \in es : k >= start => k \in all
  <2> SUFFICES ASSUME NEW k \in es, k >= start PROVE k \in all
    OBVIOUS
  <2>1. k \in Nat
    BY <1>1, KeyFacts
  <2>2. PICK i \in 1 .. n : k \in span[w[i]]
    BY <1>3, <1>4, <2>1
  <2>3. k \in X[i]
    BY <1>8, <2>2
  <2> QED
    BY <1>12, <2>3
<1>16. Forward(ps, r, start, end)
          = Only(TakeUntil(keys, {k \in Key : end # NoKey /\ k >= end}),
                 {k \in Key : k >= start})
  BY <1>2, <1>5, <1>11 DEF Forward
<1>17. /\ es \subseteq Key /\ start \in Nat /\ end \in Nat
       /\ Lists(keys, Rising, all) /\ all \subseteq es
       /\ \A k \in es : k >= start => k \in all
  BY <1>1, <1>13, <1>14, <1>15
<1>18. Only(TakeUntil(keys, {k \in Key : end # NoKey /\ k >= end}),
            {k \in Key : k >= start})
          = Ascending({k \in es : Within(k, start, end)})
  BY ONLY <1>17, RangeListed
<1> QED
  BY <1>16, <1>18

-----------------------------------------------------------------------------
(* `count_at_most`.                                                        *)

In(X, start, end) == {k \in X : Within(k, start, end)}

LEMMA CountLeafRight ==
    ASSUME NEW keys, NEW X, Lists(keys, Rising, X), NEW start \in Nat, NEW end \in Nat
    PROVE  /\ IsFiniteSet(In(X, start, end))
           /\ CountLeaf(keys, start, end) = Cardinality(In(X, start, end))
<1>1. /\ keys \in Seq(Key) /\ InOrder(keys, Rising)
      /\ \A k : k \in X <=> \E i \in 1 .. Len(keys) : keys[i] = k
  BY DEF Lists
<1>2. PICK n \in Nat : n = Len(keys)
  BY <1>1
<1>3. \A i \in 1 .. n : keys[i] \in Nat /\ keys[i] \in Key
  BY <1>1, <1>2, KeyFacts
<1>4. \A i, j \in 1 .. n : i < j => keys[i] < keys[j]
  BY <1>1, <1>2 DEF InOrder, Rising
<1>5. PICK wanted : wanted = {k \in Key : Within(k, start, end)}
  OBVIOUS
<1>6. PICK t : t = Only(keys, wanted)
  OBVIOUS
<1>7. Lists(t, Rising, X \cap wanted)
  BY <1>6, OnlyLists
<1>8. X \cap wanted = In(X, start, end)
  BY <1>1, <1>2, <1>3, <1>5 DEF In
<1>9. IsFiniteSet(In(X, start, end)) /\ Len(t) = Cardinality(In(X, start, end))
  BY <1>7, <1>8, ListCount
<1>10. CASE keys # <<>> /\ Head(keys) >= start /\ (end = NoKey \/ Last(keys) < end)
  <2>1. n >= 1 /\ Head(keys) = keys[1] /\ Last(keys) = keys[n]
    BY <1>1, <1>2, <1>10 DEF Last
  <2>2. ASSUME NEW k \in X PROVE Within(k, start, end)
    <3>1. PICK i \in 1 .. n : keys[i] = k
      BY <1>1, <1>2
    <3>2. 1 \in 1 .. n /\ n \in 1 .. n /\ (i = 1 \/ 1 < i) /\ (i = n \/ i < n)
      BY <2>1
    <3>3. keys[1] <= k /\ k <= keys[n]
      BY <1>3, <1>4, <3>1, <3>2
    <3>4. k >= start
      BY <1>3, <1>10, <2>1, <3>1, <3>2, <3>3
    <3>5. end = NoKey \/ k < end
      BY <1>3, <1>10, <2>1, <3>1, <3>2, <3>3
    <3> QED
      BY <3>4, <3>5 DEF Within
  <2>3. In(X, start, end) = X
    BY <2>2 DEF In
  <2>4. Cardinality(X) = Len(keys)
    BY ListCount
  <2> QED
    BY <1>9, <1>10, <2>3, <2>4 DEF CountLeaf
<1>11. CASE ~(keys # <<>> /\ Head(keys) >= start /\ (end = NoKey \/ Last(keys) < end))
  BY <1>5, <1>6, <1>9, <1>11 DEF CountLeaf
<1> QED
  BY <1>10, <1>11

(* The entries in the first leaves of a walk.                              *)
InFirst(es, span, w, m) == {k \in es : \E i \in 1 .. m : k \in span[w[i]]}

LeafCounts(in, ps, w, n, start, end) ==
    /\ n \in Nat /\ n = Len(w)
    /\ in = [i \in 1 .. n |-> CountLeaf(LiveKeys(ps[w[i]]), start, end)]

LEMMA CountedIn ==
    ASSUME NEW ps, NEW lev, NEW span, NEW r, NEW es,
           WholeWithin(ps, lev, span, r, es), NEW start \in Nat, NEW end \in Nat,
           NEW w, WalkOn(lev, span, w, start), NEW in, NEW n,
           LeafCounts(in, ps, w, n, start, end)
    PROVE  \A m \in 0 .. n :
              /\ IsFiniteSet(In(InFirst(es, span, w, m), start, end))
              /\ SumTo(in, m) = Cardinality(In(InFirst(es, span, w, m), start, end))
<1>0. /\ n \in Nat /\ n = Len(w)
      /\ in = [i \in 1 .. n |-> CountLeaf(LiveKeys(ps[w[i]]), start, end)]
  BY DEF LeafCounts
<1>1. /\ w \in Seq(PageId) /\ es \subseteq Key
      /\ \A i \in 1 .. n : lev[w[i]] = 1 /\ w[i] \in PageId
      /\ \A i, j \in 1 .. n : i < j => \A k \in span[w[i]], l \in span[w[j]] : k < l
  BY <1>0, WholeIs DEF WalkOn
<1> DEFINE U(m) == In(InFirst(es, span, w, m), start, end)
           T == {m \in Nat : m <= n =>
                   IsFiniteSet(U(m)) /\ SumTo(in, m) = Cardinality(U(m))}
<1>2. 0 \in T
  <2>1. U(0) = {}
    BY DEF In, InFirst
  <2>2. SumTo(in, 0) = 0
    BY SumNext
  <2> HIDE DEF U
  <2> QED
    BY <2>1, <2>2, FS_EmptySet
<1>3. ASSUME NEW m \in Nat, m \in T PROVE m + 1 \in T
  <2> SUFFICES ASSUME m + 1 <= n
               PROVE  IsFiniteSet(U(m + 1)) /\ SumTo(in, m + 1) = Cardinality(U(m + 1))
    OBVIOUS
  <2>1. m + 1 \in 1 .. n /\ m <= n
    BY <1>0
  <2>2. IsFiniteSet(U(m)) /\ SumTo(in, m) = Cardinality(U(m))
    BY <1>3, <2>1
  <2>3. PICK p \in PageId : p = w[m + 1] /\ lev[p] = 1
    BY <1>1, <2>1
  <2>4. PICK X : X = es \cap span[p]
    OBVIOUS
  <2>5. /\ Lists(LiveKeys(ps[p]), Rising, KeysOf(ps[p].cells))
        /\ KeysOf(ps[p].cells) = es \cap span[p]
    BY <2>3, LeafHas
  <2>6. Lists(LiveKeys(ps[p]), Rising, X)
    BY <2>4, <2>5
  <2>7. PICK E : E = In(X, start, end)
    OBVIOUS
  <2>8. IsFiniteSet(E) /\ CountLeaf(LiveKeys(ps[p]), start, end) = Cardinality(E)
    BY <2>6, <2>7, CountLeafRight
  <2>9. in[m + 1] = Cardinality(E)
    BY <1>0, <2>1, <2>3, <2>8
  <2>10. SumTo(in, m + 1) = SumTo(in, m) + in[m + 1]
    BY SumNext
  <2>11. U(m + 1) = U(m) \cup E
    <3>1. \A i : i \in 1 .. m + 1 <=> i \in 1 .. m \/ i = m + 1
      OBVIOUS
    <3>2. InFirst(es, span, w, m + 1) = InFirst(es, span, w, m) \cup X
      BY <2>3, <2>4, <3>1 DEF InFirst
    <3> QED
      BY <2>7, <3>2 DEF In
  <2>12. U(m) \cap E = {}
    <3> SUFFICES ASSUME NEW k \in U(m), k \in E PROVE FALSE
      OBVIOUS
    <3>1. k \in span[p] /\ k \in es /\ \E i \in 1 .. m : k \in span[w[i]]
      BY <2>4, <2>7 DEF In, InFirst
    <3>2. PICK i \in 1 .. m : k \in span[w[i]]
      BY <3>1
    <3>3. i \in 1 .. n /\ i < m + 1
      BY <1>0, <2>1
    <3>4. k < k
      BY <1>1, <2>1, <2>3, <3>1, <3>2, <3>3
    <3>5. k \in Nat
      BY <1>1, <3>1, KeyFacts
    <3> QED
      BY <3>4, <3>5
  <2> HIDE DEF U
  <2>13. PICK A : A = U(m)
    OBVIOUS
  <2>14. IsFiniteSet(A) /\ IsFiniteSet(E)
    BY <2>2, <2>8, <2>13
  <2>15. /\ IsFiniteSet(A \cup E)
         /\ Cardinality(A \cup E)
              = Cardinality(A) + Cardinality(E) - Cardinality(A \cap E)
    BY ONLY <2>14, FS_Union
  <2>16. Cardinality(A \cap E) = 0
    BY <2>12, <2>13, FS_EmptySet
  <2>17. Cardinality(A) \in Nat /\ Cardinality(E) \in Nat
    BY <2>14, FS_CardinalityType
  <2>18. IsFiniteSet(U(m + 1)) /\ Cardinality(U(m + 1)) = Cardinality(A) + Cardinality(E)
    <3>1. U(m + 1) = A \cup E
      BY <2>11, <2>13
    <3>2. PICK a, b \in Nat : a = Cardinality(A) /\ b = Cardinality(E)
      BY <2>17
    <3>3. Cardinality(A \cup E) = a + b - 0
      BY <2>15, <2>16, <3>2
    <3>4. a + b - 0 = a + b
      OBVIOUS
    <3> QED
      BY <2>15, <3>1, <3>2, <3>3, <3>4
  <2> QED
    BY <2>2, <2>9, <2>10, <2>13, <2>18
<1>4. Nat \subseteq T
  <2> HIDE DEF T
  <2> QED
    BY <1>2, <1>3, NatInd
<1> QED
  BY <1>0, <1>4

CountIs(counted, n, cap) ==
    IF counted.whole THEN counted.entries = n
    ELSE counted.entries < n /\ cap < MaxPages

LEMMA CountAtMostRight ==
    ASSUME NEW ps, NEW lev, NEW span, NEW r, NEW es,
           WholeWithin(ps, lev, span, r, es), NEW start \in Nat, NEW end \in Nat,
           NEW cap \in Nat
    PROVE  CountIs(CountAtMost(ps, r, start, end, cap),
                   Cardinality(In(es, start, end)), cap)
<1>1. LinkedTree(ps, lev, span, r) /\ lev[r] <= MaxDepth + 1 /\ es \subseteq Key
  BY WholeIs
<1>2. PICK w : w = LeavesFrom(ps, r, start)
  OBVIOUS
<1>3. /\ WalkOn(lev, span, w, start) /\ Len(w) <= MaxPages
      /\ \A k \in Nat : k >= start => \E i \in 1 .. Len(w) : k \in span[w[i]]
  BY <1>1, <1>2, LeavesFromRight
<1>4. PICK n \in Nat : /\ n = Len(w) /\ w \in Seq(PageId) /\ n <= MaxPages
                       /\ \A i \in 1 .. n : lev[w[i]] = 1 /\ w[i] \in PageId
  BY <1>3 DEF WalkOn
<1>5. PICK in : in = [i \in DOMAIN w |-> CountLeaf(LiveKeys(ps[w[i]]), start, end)]
  OBVIOUS
<1>6. in = [i \in 1 .. n |-> CountLeaf(LiveKeys(ps[w[i]]), start, end)]
  BY <1>4, <1>5
<1>7. Len(in) = n /\ DOMAIN in = 1 .. n
  BY <1>6
<1> DEFINE U(m) == In(InFirst(es, span, w, m), start, end)
<1>8. \A m \in 0 .. n : IsFiniteSet(U(m)) /\ SumTo(in, m) = Cardinality(U(m))
  <2>1. LeafCounts(in, ps, w, n, start, end)
    BY <1>4, <1>6 DEF LeafCounts
  <2>2. /\ WholeWithin(ps, lev, span, r, es) /\ WalkOn(lev, span, w, start)
        /\ start \in Nat /\ end \in Nat
    BY <1>3
  <2>3. \A m \in 0 .. n :
           /\ IsFiniteSet(In(InFirst(es, span, w, m), start, end))
           /\ SumTo(in, m) = Cardinality(In(InFirst(es, span, w, m), start, end))
    BY ONLY <2>1, <2>2, CountedIn
  <2> QED
    BY <2>3
<1>9. U(n) = In(es, start, end)
  <2>1. \A k \in In(es, start, end) : k \in es /\ k \in Nat /\ k >= start
    BY <1>1, KeyFacts DEF In, Within
  <2>2. \A k \in In(es, start, end) : k \in InFirst(es, span, w, n)
    BY <1>3, <1>4, <2>1 DEF InFirst
  <2> QED
    BY <2>2 DEF In, InFirst
<1>10. PICK c \in 0 .. n : c = IF cap < n THEN cap ELSE n
  OBVIOUS
<1>11. PICK counted : counted = CountAtMost(ps, r, start, end, cap)
  OBVIOUS
<1>12. /\ counted.entries = SumTo(in, IF cap < n THEN cap ELSE n)
       /\ counted.whole <=> \A i \in 1 .. n : i > cap => in[i] = 0
  BY <1>2, <1>5, <1>7, <1>11 DEF CountAtMost
<1>13. counted.entries = Cardinality(U(c)) /\ IsFiniteSet(U(c)) /\ IsFiniteSet(U(n))
  BY <1>8, <1>10, <1>12
<1>14. U(c) \subseteq U(n)
  BY <1>10 DEF In, InFirst
<1>15. ASSUME NEW i \in 1 .. n
       PROVE  /\ in[i] = Cardinality(In(es \cap span[w[i]], start, end))
              /\ IsFiniteSet(In(es \cap span[w[i]], start, end))
  <2>1. PICK p \in PageId : p = w[i] /\ lev[p] = 1
    BY <1>4
  <2>2. PICK X : X = es \cap span[p]
    OBVIOUS
  <2>3. /\ Lists(LiveKeys(ps[p]), Rising, KeysOf(ps[p].cells))
        /\ KeysOf(ps[p].cells) = es \cap span[p]
    BY <2>1, LeafHas
  <2>4. Lists(LiveKeys(ps[p]), Rising, X)
    BY <2>2, <2>3
  <2>5. /\ CountLeaf(LiveKeys(ps[p]), start, end) = Cardinality(In(X, start, end))
        /\ IsFiniteSet(In(X, start, end))
    BY <2>4, CountLeafRight
  <2> QED
    BY <1>6, <2>1, <2>2, <2>5
<1>16. CASE counted.whole
  <2>1. \A i \in 1 .. n : i > cap => In(es \cap span[w[i]], start, end) = {}
    <3> SUFFICES ASSUME NEW i \in 1 .. n, i > cap
                 PROVE  In(es \cap span[w[i]], start, end) = {}
      OBVIOUS
    <3>1. PICK E : E = In(es \cap span[w[i]], start, end)
      OBVIOUS
    <3>2. IsFiniteSet(E) /\ Cardinality(E) = 0
      BY <1>12, <1>15, <1>16, <3>1
    <3> QED
      BY <3>1, <3>2, FS_EmptySet
  <2>2. ASSUME NEW k \in U(n) PROVE k \in U(c)
    <3>1. k \in es /\ Within(k, start, end) /\ \E i \in 1 .. n : k \in span[w[i]]
      BY DEF In, InFirst
    <3>2. PICK i \in 1 .. n : k \in span[w[i]]
      BY <3>1
    <3>3. k \in In(es \cap span[w[i]], start, end)
      BY <3>1, <3>2 DEF In
    <3>4. ~(i > cap)
      BY <2>1, <3>3
    <3>5. i \in 1 .. c
      BY <1>10, <3>4
    <3> QED
      BY <3>1, <3>2, <3>5 DEF In, InFirst
  <2>3. U(c) = U(n)
    BY <1>14, <2>2
  <2> QED
    BY <1>9, <1>11, <1>13, <1>16, <2>3 DEF CountIs
<1>17. CASE ~counted.whole
  <2>1. PICK i \in 1 .. n : i > cap /\ in[i] # 0
    BY <1>12, <1>17
  <2>2. cap < n /\ c = cap /\ cap < MaxPages
    <3>1. MaxPages \in Nat
      BY BTreeAssumption
    <3> QED
      BY <1>4, <1>10, <2>1, <3>1
  <2>3. In(es \cap span[w[i]], start, end) # {}
    BY <1>15, <2>1, FS_EmptySet
  <2>4. PICK k : k \in es /\ k \in span[w[i]] /\ Within(k, start, end)
    BY <2>3 DEF In
  <2>5. k \in U(n)
    BY <2>4 DEF In, InFirst
  <2>6. k \notin U(c)
    <3> SUFFICES ASSUME k \in U(c) PROVE FALSE
      OBVIOUS
    <3>1. PICK j \in 1 .. c : k \in span[w[j]]
      BY DEF In, InFirst
    <3>2. j \in 1 .. n /\ j < i
      BY <1>10, <2>1, <2>2
    <3>3. k < k
      BY <1>3, <1>4, <2>4, <3>1, <3>2 DEF WalkOn
    <3>4. k \in Nat
      BY <1>1, <2>4, KeyFacts
    <3> QED
      BY <3>3, <3>4
  <2>7. U(c) # U(n)
    BY <2>5, <2>6
  <2>8. Cardinality(U(c)) < Cardinality(U(n))
    <3> HIDE DEF U
    <3>1. Cardinality(U(c)) <= Cardinality(U(n))
      BY <1>13, <1>14, FS_Subset
    <3>2. Cardinality(U(c)) # Cardinality(U(n))
      BY <1>13, <1>14, <2>7, FS_Subset
    <3>3. Cardinality(U(c)) \in Nat /\ Cardinality(U(n)) \in Nat
      BY <1>13, FS_CardinalityType
    <3> QED
      BY <3>1, <3>2, <3>3
  <2> QED
    BY <1>9, <1>11, <1>13, <1>17, <2>2, <2>8 DEF CountIs
<1> QED
  BY <1>16, <1>17

-----------------------------------------------------------------------------
(* The way back.                                                           *)

Convex(span) == \A k, m \in span, l \in Nat : k <= l /\ l <= m => l \in span

IsBranch(ps, lev, span, p) ==
    /\ ps[p].kind = "branch" /\ ps[p].cells \in Seq(LiveCells) /\ Ordered(ps[p].cells)
    /\ ps[p].cells # <<>> /\ span[p] \subseteq Nat
    /\ \A i \in 1 .. Len(ps[p].cells) + 1 :
          /\ Child(ps[p], i) \in PageId /\ Children(ps[p])[i] = Child(ps[p], i)
          /\ lev[Child(ps[p], i)] >= 1 /\ lev[Child(ps[p], i)] + 1 = lev[p]
          /\ span[Child(ps[p], i)] = Place(ps[p].cells, span[p], i)
          /\ span[Child(ps[p], i)] # {}

LEMMA BranchIs ==
    ASSUME NEW ps, NEW lev, NEW span, NEW r, Closed(ps, lev, span, r),
           NEW p \in PageId, lev[p] > 1
    PROVE  IsBranch(ps, lev, span, p)
<1>1. /\ Tree(ps, lev, span, r, NoPage, NoPage) /\ lev \in [PageId -> Nat]
      /\ span \in [PageId -> SUBSET Nat]
      /\ \A o \in PageId : lev[o] >= 1 => span[o] # {}
  BY DEF Closed, Tree
<1>2. Outer(span, NoPage, NoPage) = span
  BY <1>1, OuterNone
<1>3. lev[p] >= 1 /\ lev[p] # 1
  BY <1>1
<1>4. BranchSound(ps[p], span[p], lev[p], span, lev)
  BY <1>1, <1>2, <1>3 DEF Tree, NodeSound
<1>5. PICK page : page = ps[p]
  OBVIOUS
<1>6. /\ page.cells \in Seq(LiveCells) /\ Ordered(page.cells) /\ page.cells # <<>>
      /\ page.next \in PageId \cup {NoPage} /\ page.kind = "branch"
  BY <1>4, <1>5 DEF BranchSound, IsNode, Page
<1>7. \A i \in 1 .. Len(page.cells) + 1 :
         /\ Child(page, i) \in PageId
         /\ lev[Child(page, i)] >= 1 /\ lev[Child(page, i)] + 1 = lev[p]
         /\ span[Child(page, i)] = Place(page.cells, span[p], i)
  BY <1>4, <1>5 DEF BranchSound
<1>8. \A i \in 1 .. Len(page.cells) + 1 : Children(page)[i] = Child(page, i)
  BY <1>6, ChildrenAre
<1> QED
  BY <1>1, <1>5, <1>6, <1>7, <1>8 DEF IsBranch

(* The children of a branch whose keys are an interval.                    *)
LEMMA PlaceConvex ==
    ASSUME NEW cells \in Seq(LiveCells), NEW span, span \subseteq Nat, Convex(span),
           NEW i \in 1 .. Len(cells) + 1
    PROVE  Convex(Place(cells, span, i))
<1>1. /\ i > 1 => i - 1 \in 1 .. Len(cells) /\ cells[i - 1].key \in Nat
      /\ i <= Len(cells) => i \in 1 .. Len(cells) /\ cells[i].key \in Nat
  <2>1. Len(cells) \in Nat /\ \A j \in 1 .. Len(cells) : cells[j].key \in Nat
    BY LiveFacts
  <2>2. i > 1 => i - 1 \in 1 .. Len(cells)
    BY <2>1
  <2>3. i <= Len(cells) => i \in 1 .. Len(cells)
    BY <2>1
  <2> QED
    BY <2>1, <2>2, <2>3
<1> SUFFICES ASSUME NEW k \in Place(cells, span, i), NEW m \in Place(cells, span, i),
                    NEW l \in Nat, k <= l, l <= m
             PROVE  l \in Place(cells, span, i)
  BY DEF Convex
<1>2. k \in span /\ m \in span /\ k \in Nat /\ m \in Nat
  BY DEF Place
<1>3. l \in span
  BY <1>2 DEF Convex
<1>4. i > 1 => l >= cells[i - 1].key
  BY <1>1, <1>2 DEF Place
<1>5. i <= Len(cells) => l < cells[i].key
  BY <1>1, <1>2 DEF Place
<1> QED
  BY <1>3, <1>4, <1>5 DEF Place

Under(k, span) == \A m \in span : k < m

LEMMA PlaceBefore ==
    ASSUME NEW cells \in Seq(LiveCells), Ordered(cells), NEW span, span \subseteq Nat,
           Convex(span), NEW i \in 2 .. Len(cells) + 1, Place(cells, span, i) # {}
    PROVE  /\ \A k \in Place(cells, span, i - 1) : Under(k, Place(cells, span, i))
           /\ \A k \in Nat : Under(k, Place(cells, span, i)) =>
                 k \in Place(cells, span, i - 1) \/ Under(k, Place(cells, span, i - 1))
<1>1. PICK n \in Nat : n = Len(cells)
  BY LiveFacts
<1>2. PICK j \in 1 .. n : j = i - 1
  BY <1>1
<1>3. /\ cells[j].key \in Nat
      /\ j > 1 => cells[j - 1].key \in Nat
      /\ i <= n => cells[i].key \in Nat
  <2>1. \A h \in 1 .. n : cells[h].key \in Nat
    BY <1>1, LiveFacts
  <2>2. j > 1 => j - 1 \in 1 .. n
    OBVIOUS
  <2>3. i <= n => i \in 1 .. n
    BY <1>1
  <2> QED
    BY <2>1, <2>2, <2>3
<1>4. Place(cells, span, j) = {k \in span : /\ j > 1 => k >= cells[j - 1].key
                                            /\ k < cells[j].key}
  BY <1>1 DEF Place
<1>5. Place(cells, span, i) = {k \in span : /\ k >= cells[j].key
                                            /\ i <= n => k < cells[i].key}
  BY <1>1, <1>2 DEF Place
<1>6. ASSUME NEW k \in Place(cells, span, j), NEW m \in Place(cells, span, i)
      PROVE  k < m
  <2>1. k \in Nat /\ m \in Nat /\ k < cells[j].key /\ m >= cells[j].key
    BY <1>4, <1>5
  <2> QED
    BY <1>3, <2>1
<1>7. ASSUME NEW k \in Nat, Under(k, Place(cells, span, i)),
             NEW l \in Place(cells, span, j), ~(k < l)
      PROVE  k \in Place(cells, span, j)
  <2>1. PICK m \in Place(cells, span, i) : TRUE
    OBVIOUS
  <2>2. k < m /\ m \in Nat /\ l \in Nat /\ l \in span /\ m \in span
    BY <1>4, <1>5, <1>7 DEF Under
  <2>3. l <= k /\ k <= m
    BY <1>7, <2>2
  <2>4. k \in span
    BY <2>2, <2>3 DEF Convex
  <2>5. j > 1 => k >= cells[j - 1].key
    BY <1>3, <1>4, <2>2, <2>3
  <2>6. k < cells[j].key
    <3> SUFFICES ASSUME ~(k < cells[j].key) PROVE FALSE
      BY <1>3
    <3>1. k >= cells[j].key
      BY <1>3
    <3>2. i <= n => k < cells[i].key
      BY <1>3, <1>5, <2>1, <2>2
    <3>3. k \in Place(cells, span, i)
      BY <1>5, <2>4, <3>1, <3>2
    <3>4. k < k
      BY <1>7, <3>3 DEF Under
    <3> QED
      BY <3>4
  <2> QED
    BY <1>4, <2>4, <2>5, <2>6
<1> QED
  BY <1>2, <1>6, <1>7 DEF Under

(* The first child and the last one.                                       *)
LEMMA PlaceFirst ==
    ASSUME NEW cells \in Seq(LiveCells), NEW span, span \subseteq Nat,
           Place(cells, span, 1) # {}, NEW k \in Nat, Under(k, Place(cells, span, 1)),
           cells # <<>>
    PROVE  Under(k, span)
<1>1. Len(cells) \in Nat /\ 1 <= Len(cells) /\ cells[1].key \in Nat
  <2>1. 1 \in 1 .. Len(cells)
    OBVIOUS
  <2> QED
    BY <2>1, LiveFacts
<1>2. Place(cells, span, 1) = {l \in span : l < cells[1].key}
  BY <1>1 DEF Place
<1>3. PICK l \in span : l < cells[1].key
  BY <1>2
<1>4. k < l
  BY <1>2, <1>3 DEF Under
<1> SUFFICES ASSUME NEW m \in span PROVE k < m
  BY DEF Under
<1>5. CASE m < cells[1].key
  BY <1>2, <1>5 DEF Under
<1>6. CASE ~(m < cells[1].key)
  BY <1>1, <1>3, <1>4, <1>6
<1> QED
  BY <1>5, <1>6

LEMMA PlaceLast ==
    ASSUME NEW cells \in Seq(LiveCells), NEW span, span \subseteq Nat,
           cells # <<>>, NEW k \in span, NEW i, i = Len(cells) + 1
    PROVE  k \in Place(cells, span, i) \/ Under(k, Place(cells, span, i))
<1>1. PICK n \in Nat : n = Len(cells) /\ n >= 1 /\ cells[n].key \in Nat
  <2>1. Len(cells) \in 1 .. Len(cells)
    OBVIOUS
  <2> QED
    BY <2>1, LiveFacts
<1>2. Place(cells, span, i) = {l \in span : l >= cells[n].key}
  BY <1>1 DEF Place
<1>3. CASE k >= cells[n].key
  BY <1>2, <1>3
<1>4. CASE ~(k >= cells[n].key)
  <2>1. \A m \in span : m >= cells[n].key => k < m
    BY <1>1, <1>4
  <2> QED
    BY <1>2, <2>1 DEF Under
<1> QED
  BY <1>3, <1>4

(* The branches passed on the way down to page p, with the child taken in  *)
(* each; page i of them, p after the last.                                 *)
Turns == [page : PageId, at : Nat]
TrailPage(path, p, i) == IF i <= Len(path) THEN path[i].page ELSE p

Trail(ps, lev, span, r, path, p) ==
    /\ path \in Seq(Turns) /\ TrailPage(path, p, 1) = r
    /\ \A i \in 1 .. Len(path) + 1 :
          LET o == TrailPage(path, p, i)
          IN  /\ o \in PageId /\ lev[o] >= 1 /\ lev[o] + i = lev[r] + 1
              /\ Convex(span[o])
    /\ \A i \in 1 .. Len(path) :
          /\ path[i].at \in 1 .. Len(ps[path[i].page].cells) + 1
          /\ TrailPage(path, p, i + 1) = Child(ps[path[i].page], path[i].at)

LEMMA TrailPages ==
    ASSUME NEW ps, NEW lev, NEW span, NEW r, Closed(ps, lev, span, r),
           NEW path, NEW p, Trail(ps, lev, span, r, path, p)
    PROVE  /\ path \in Seq(Turns) /\ Len(path) \in Nat
           /\ p \in PageId /\ lev[p] >= 1 /\ lev[p] \in Nat /\ Convex(span[p])
           /\ lev[p] + Len(path) = lev[r] /\ lev[r] \in Nat
           /\ \A i \in 1 .. Len(path) :
                 /\ path[i] \in Turns /\ path[i].page \in PageId
                 /\ lev[path[i].page] > 1 /\ Convex(span[path[i].page])
                 /\ IsBranch(ps, lev, span, path[i].page)
<1>1. \A o \in PageId : lev[o] \in Nat
  BY DEF Closed, Tree
<1>2. path \in Seq(Turns) /\ r \in PageId
  BY DEF Trail, Closed, Tree
<1>3. PICK n \in Nat : n = Len(path)
  BY <1>2
<1>4. n + 1 \in 1 .. n + 1 /\ TrailPage(path, p, n + 1) = p
  BY <1>3 DEF TrailPage
<1>5. p \in PageId /\ lev[p] >= 1 /\ lev[p] + (n + 1) = lev[r] + 1 /\ Convex(span[p])
  BY <1>3, <1>4 DEF Trail
<1>6. lev[p] + n = lev[r]
  <2>1. PICK a, b \in Nat : a = lev[p] /\ b = lev[r]
    BY <1>1, <1>2, <1>5
  <2> QED
    BY <1>5, <2>1
<1>7. ASSUME NEW i \in 1 .. n
      PROVE  /\ path[i] \in Turns /\ path[i].page \in PageId
             /\ lev[path[i].page] > 1 /\ Convex(span[path[i].page])
             /\ IsBranch(ps, lev, span, path[i].page)
  <2>1. i \in 1 .. n + 1 /\ i + 1 \in 1 .. n + 1 /\ TrailPage(path, p, i) = path[i].page
    BY <1>3 DEF TrailPage
  <2>2. PICK o : o = TrailPage(path, p, i + 1)
    OBVIOUS
  <2>3. /\ path[i].page \in PageId /\ lev[path[i].page] + i = lev[r] + 1
        /\ Convex(span[path[i].page])
        /\ o \in PageId /\ lev[o] >= 1 /\ lev[o] + (i + 1) = lev[r] + 1
    BY <1>3, <2>1, <2>2 DEF Trail
  <2>4. PICK a, b, c \in Nat : a = lev[path[i].page] /\ b = lev[o] /\ c = lev[r]
    BY <1>1, <1>2, <2>3
  <2>5. a > 1
    BY <2>3, <2>4
  <2>6. IsBranch(ps, lev, span, path[i].page)
    BY <2>3, <2>4, <2>5, BranchIs
  <2>7. path[i] \in Turns
    BY <1>2, <1>3
  <2> QED
    BY <2>3, <2>4, <2>5, <2>6, <2>7
<1> QED
  BY <1>1, <1>2, <1>3, <1>5, <1>6, <1>7

(* One branch further.                                                     *)
TurnAt(path, p, at, path2) == path2 = Append(path, [page |-> p, at |-> at])

LEMMA TrailDown ==
    ASSUME NEW ps, NEW lev, NEW span, NEW r, Closed(ps, lev, span, r),
           NEW path, NEW p, Trail(ps, lev, span, r, path, p), lev[p] > 1,
           NEW at \in 1 .. Len(ps[p].cells) + 1,
           NEW path2, TurnAt(path, p, at, path2)
    PROVE  /\ Trail(ps, lev, span, r, path2, Child(ps[p], at))
           /\ Len(path2) = Len(path) + 1
<1>1. /\ path \in Seq(Turns) /\ p \in PageId /\ Convex(span[p])
      /\ lev[p] + Len(path) = lev[r] /\ lev[r] \in Nat
  BY TrailPages
<1>2. PICK n \in Nat : n = Len(path)
  BY <1>1
<1>3. IsBranch(ps, lev, span, p)
  BY <1>1, BranchIs
<1>4. PICK c : c = Child(ps[p], at)
  OBVIOUS
<1>5. /\ c \in PageId /\ lev[c] >= 1 /\ lev[c] + 1 = lev[p]
      /\ span[c] = Place(ps[p].cells, span[p], at)
      /\ ps[p].cells \in Seq(LiveCells) /\ span[p] \subseteq Nat
  BY <1>3, <1>4 DEF IsBranch
<1>6. Convex(span[c])
  BY <1>1, <1>5, PlaceConvex
<1>7. at \in Nat /\ Len(ps[p].cells) \in Nat
  <2>1. Len(ps[p].cells) \in Nat
    BY <1>5, LiveFacts
  <2> QED
    BY <2>1
<1>8. PICK turn : turn = [page |-> p, at |-> at]
  OBVIOUS
<1>9. turn \in Turns /\ turn.page = p /\ turn.at = at
  BY <1>1, <1>7, <1>8 DEF Turns
<1>10. /\ path2 \in Seq(Turns) /\ Len(path2) = n + 1 /\ path2[n + 1] = turn
       /\ \A i \in 1 .. n : path2[i] = path[i]
  <2>1. path2 = Append(path, turn)
    BY <1>8 DEF TurnAt
  <2> QED
    BY <1>1, <1>2, <1>9, <2>1, Appended
<1>11. /\ TrailPage(path2, c, n + 2) = c
       /\ \A i \in 1 .. n + 1 : TrailPage(path2, c, i) = TrailPage(path, p, i)
  <2>1. n + 1 + 1 = n + 2 /\ ~(n + 2 <= n + 1)
    OBVIOUS
  <2>2. ASSUME NEW i \in 1 .. n + 1
        PROVE  TrailPage(path2, c, i) = TrailPage(path, p, i)
    <3>1. CASE i = n + 1
      BY <1>2, <1>9, <1>10, <3>1 DEF TrailPage
    <3>2. CASE i # n + 1
      <4>1. i \in 1 .. n
        BY <3>2
      <4> QED
        BY <1>2, <1>10, <4>1 DEF TrailPage
    <3> QED
      BY <3>1, <3>2
  <2> QED
    BY <1>10, <2>1, <2>2 DEF TrailPage
<1>12. TrailPage(path2, c, 1) = r
  <2>1. 1 \in 1 .. n + 1 /\ TrailPage(path, p, 1) = r
    BY DEF Trail
  <2> QED
    BY <1>11, <2>1
<1>13. lev[c] + (n + 2) = lev[r] + 1
  <2>1. lev[c] \in Nat /\ lev[p] \in Nat
    BY <1>1, <1>5 DEF Closed, Tree
  <2>2. PICK a, b, d \in Nat : a = lev[c] /\ b = lev[p] /\ d = lev[r]
    BY <1>1, <2>1
  <2>3. a + 1 = b /\ b + n = d
    BY <1>1, <1>2, <1>5, <2>2
  <2>4. a + (n + 2) = d + 1
    BY <2>3
  <2> QED
    BY <2>2, <2>4
<1>14. ASSUME NEW i \in 1 .. n + 2
       PROVE  LET o == TrailPage(path2, c, i)
              IN  /\ o \in PageId /\ lev[o] >= 1 /\ lev[o] + i = lev[r] + 1
                  /\ Convex(span[o])
  <2>1. CASE i = n + 2
    BY <1>5, <1>6, <1>11, <1>13, <2>1
  <2>2. CASE i # n + 2
    <3>1. i \in 1 .. n + 1
      BY <2>2
    <3> QED
      BY <1>2, <1>11, <3>1 DEF Trail
  <2> QED
    BY <2>1, <2>2
<1>15. ASSUME NEW i \in 1 .. n + 1
       PROVE  /\ path2[i].at \in 1 .. Len(ps[path2[i].page].cells) + 1
              /\ TrailPage(path2, c, i + 1) = Child(ps[path2[i].page], path2[i].at)
  <2>1. CASE i = n + 1
    <3>1. i + 1 = n + 2 /\ path2[i] = turn
      BY <1>10, <2>1
    <3> QED
      BY <1>4, <1>9, <1>11, <3>1
  <2>2. CASE i # n + 1
    <3>1. i \in 1 .. n /\ i + 1 \in 1 .. n + 1 /\ path2[i] = path[i]
      BY <1>10, <2>2
    <3> QED
      BY <1>2, <1>11, <3>1 DEF Trail
  <2> QED
    BY <2>1, <2>2
<1>16. Trail(ps, lev, span, r, path2, c)
  <2>1. Len(path2) + 1 = n + 2 /\ Len(path2) = n + 1
    BY <1>10
  <2> QED
    BY <1>10, <1>12, <1>14, <1>15, <2>1 DEF Trail
<1> QED
  BY <1>2, <1>4, <1>10, <1>16

(* What a descent from page p keeps to: towards `key`, or the last leaf    *)
(* below p.                                                                *)
Down(ps, lev, span, r, p, key, path, q) ==
    /\ Trail(ps, lev, span, r, path, q)
    /\ span[q] \subseteq span[p]
    /\ key # NoKey => key \in span[q]
    /\ key = NoKey => \A k \in span[p] : k \in span[q] \/ Under(k, span[q])

LEMMA DownFurther ==
    ASSUME NEW ps, NEW lev, NEW span, NEW r, Closed(ps, lev, span, r),
           NEW p, NEW key \in Nat, NEW path, NEW q,
           Down(ps, lev, span, r, p, key, path, q), lev[q] > 1,
           NEW d, d = DescendOn(ps, key, At(path, q))
    PROVE  \E path2, c : /\ d = At(path2, c) /\ lev[c] + 1 = lev[q]
                         /\ Down(ps, lev, span, r, p, key, path2, c)
<1>1. /\ Trail(ps, lev, span, r, path, q) /\ span[q] \subseteq span[p]
      /\ key # NoKey => key \in span[q]
      /\ key = NoKey => \A k \in span[p] : k \in span[q] \/ Under(k, span[q])
  BY DEF Down
<1>2. q \in PageId /\ path \in Seq(Turns) /\ Convex(span[q])
  BY <1>1, TrailPages
<1>3. IsBranch(ps, lev, span, q)
  BY <1>2, BranchIs
<1>4. PICK page : page = ps[q]
  OBVIOUS
<1>5. /\ page.kind = "branch" /\ page.cells \in Seq(LiveCells) /\ Ordered(page.cells)
      /\ page.cells # <<>> /\ span[q] \subseteq Nat /\ Len(page.cells) \in Nat
  BY <1>3, <1>4, LiveFacts DEF IsBranch
<1>6. PICK at : at = IF key = NoKey THEN Len(page.cells) + 1 ELSE ChildAt(page, key)
  OBVIOUS
<1>7. at \in 1 .. Len(page.cells) + 1
  <2>1. CASE key = NoKey
    BY <1>5, <1>6, <2>1
  <2>2. CASE key # NoKey
    BY <1>5, <1>6, <2>2, ChildAtRight
  <2> QED
    BY <2>1, <2>2
<1>8. PICK c : c = Child(page, at)
  OBVIOUS
<1>9. /\ c \in PageId /\ Children(page)[at] = c /\ lev[c] >= 1 /\ lev[c] + 1 = lev[q]
      /\ span[c] = Place(page.cells, span[q], at) /\ span[c] # {}
  BY <1>3, <1>4, <1>7, <1>8 DEF IsBranch
<1>10. PICK path2 : path2 = Append(path, [page |-> q, at |-> at])
  OBVIOUS
<1>11. Trail(ps, lev, span, r, path2, c)
  <2>1. TurnAt(path, q, at, path2)
    BY <1>10 DEF TurnAt
  <2>2. at \in 1 .. Len(ps[q].cells) + 1
    BY <1>4, <1>7
  <2>3. Trail(ps, lev, span, r, path2, Child(ps[q], at))
    BY <1>1, <2>1, <2>2, TrailDown
  <2> QED
    BY <1>4, <1>8, <2>3
<1>12. d = At(path2, c)
  <2>1. At(path, q).path = path /\ At(path, q).page = q
    BY DEF At
  <2> QED
    BY <1>4, <1>5, <1>6, <1>9, <1>10, <2>1 DEF DescendOn, At
<1>13. span[c] \subseteq span[q]
  BY <1>9 DEF Place
<1>14. key # NoKey => key \in span[c]
  <2> SUFFICES ASSUME key # NoKey PROVE key \in span[c]
    OBVIOUS
  <2>1. key \in Place(page.cells, span[q], ChildAt(page, key))
    BY <1>1, <1>5, PlaceOf
  <2> QED
    BY <1>6, <1>9, <2>1
<1>15. key = NoKey => \A k \in span[p] : k \in span[c] \/ Under(k, span[c])
  <2> SUFFICES ASSUME key = NoKey, NEW k \in span[p]
               PROVE  k \in span[c] \/ Under(k, span[c])
    OBVIOUS
  <2>1. CASE k \in span[q]
    BY <1>5, <1>6, <1>9, <2>1, PlaceLast
  <2>2. CASE Under(k, span[q])
    BY <1>13, <2>2 DEF Under
  <2> QED
    BY <1>1, <2>1, <2>2
<1>16. Down(ps, lev, span, r, p, key, path2, c)
  <2>1. span[c] \subseteq span[p]
    BY <1>1, <1>13
  <2> QED
    BY ONLY <1>11, <1>14, <1>15, <2>1 DEF Down
<1> QED
  BY <1>9, <1>12, <1>16

(* `descend`.                                                              *)
Descended(ps, lev, span, r, p, key, d) ==
    \E path, q : /\ d = At(path, q) /\ Down(ps, lev, span, r, p, key, path, q)
                 /\ lev[q] = 1

LEMMA DescendRight ==
    ASSUME NEW ps, NEW lev, NEW span, NEW r, Closed(ps, lev, span, r),
           lev[r] <= MaxDepth + 1, NEW path, NEW p,
           Trail(ps, lev, span, r, path, p),
           NEW key \in Nat, key # NoKey => key \in span[p]
    PROVE  Descended(ps, lev, span, r, p, key, Descend(ps, path, p, key))
<1>1. PICK n \in Nat : n = MaxDepth
  BY BTreeAssumption
<1>2. PICK h : /\ Descend(ps, path, p, key) = h[n] /\ h[0] = At(path, p)
               /\ \A i \in 1 .. n : h[i] = DescendOn(ps, key, h[i - 1])
  <2>1. MaxDepth \in Nat
    BY BTreeAssumption
  <2>2. PICK h : /\ Descend(ps, path, p, key) = h[MaxDepth]
                 /\ h[0] = At(path, p)
                 /\ \A i \in 1 .. MaxDepth : h[i] = DescendOn(ps, key, h[i - 1])
    BY ONLY <2>1, DescendSteps
  <2>3. /\ Descend(ps, path, p, key) = h[n] /\ h[0] = At(path, p)
        /\ \A i \in 1 .. n : h[i] = DescendOn(ps, key, h[i - 1])
    BY ONLY <1>1, <2>2
  <2> QED
    BY ONLY <2>3
<1>3. /\ \A o \in PageId : lev[o] \in Nat
      /\ \A o \in PageId : lev[o] = 1 => ps[o].kind = "leaf"
  BY KindIs DEF Closed, Tree
<1>4. p \in PageId /\ lev[p] >= 1 /\ lev[p] <= lev[r]
  <2>1. p \in PageId /\ lev[p] >= 1 /\ lev[p] + Len(path) = lev[r] /\ Len(path) \in Nat
        /\ lev[r] \in Nat /\ lev[p] \in Nat
    BY TrailPages
  <2> QED
    BY <2>1
<1> DEFINE Q(i) == \E path2, q : /\ h[i] = At(path2, q)
                                 /\ Down(ps, lev, span, r, p, key, path2, q)
                                 /\ lev[q] = 1 \/ lev[q] + i = lev[p]
           T == {i \in Nat : i <= n => Q(i)}
<1>5. 0 \in T
  <2>1. Down(ps, lev, span, r, p, key, path, p)
    BY DEF Down
  <2>2. lev[p] + 0 = lev[p]
    BY <1>3, <1>4
  <2> QED
    BY <1>2, <2>1, <2>2
<1>6. ASSUME NEW i \in Nat, i \in T PROVE i + 1 \in T
  <2> SUFFICES ASSUME i + 1 <= n PROVE Q(i + 1)
    OBVIOUS
  <2>1. i + 1 \in 1 .. n /\ (i + 1) - 1 = i /\ i <= n
    OBVIOUS
  <2>2. PICK path2, q : /\ h[i] = At(path2, q)
                        /\ Down(ps, lev, span, r, p, key, path2, q)
                        /\ lev[q] = 1 \/ lev[q] + i = lev[p]
    BY <1>6, <2>1
  <2>3. q \in PageId /\ lev[q] >= 1
    <3>1. Trail(ps, lev, span, r, path2, q)
      BY <2>2 DEF Down
    <3> QED
      BY <3>1, TrailPages
  <2>4. PICK d : d = h[i + 1]
    OBVIOUS
  <2>5. d = DescendOn(ps, key, At(path2, q))
    BY <1>2, <2>1, <2>2, <2>4
  <2>6. CASE lev[q] = 1
    <3>1. At(path2, q).page = q
      BY DEF At
    <3>2. d = At(path2, q)
      BY <1>3, <2>3, <2>5, <2>6, <3>1 DEF DescendOn
    <3> QED
      BY <2>2, <2>4, <2>6, <3>2
  <2>7. CASE lev[q] # 1
    <3>1. lev[q] > 1
      BY <1>3, <2>3, <2>7
    <3>2. PICK path3, c : /\ d = At(path3, c) /\ lev[c] + 1 = lev[q]
                          /\ Down(ps, lev, span, r, p, key, path3, c)
      BY <2>2, <2>5, <3>1, DownFurther
    <3>3. c \in PageId
      <4>1. Trail(ps, lev, span, r, path3, c)
        BY <3>2 DEF Down
      <4> QED
        BY <4>1, TrailPages
    <3>4. lev[c] + (i + 1) = lev[p]
      <4>1. PICK a, b, e \in Nat : a = lev[c] /\ b = lev[q] /\ e = lev[p]
        BY <1>3, <1>4, <2>3, <3>3
      <4> QED
        BY <2>2, <2>7, <3>2, <4>1
    <3> QED
      BY <2>4, <3>2, <3>4
  <2> QED
    BY <2>6, <2>7
<1>7. Q(n)
  <2>1. n \in T
    <3> HIDE DEF T
    <3> QED
      BY <1>5, <1>6, NatInd
  <2> QED
    BY <2>1
<1>8. PICK path2, q : /\ h[n] = At(path2, q)
                      /\ Down(ps, lev, span, r, p, key, path2, q)
                      /\ lev[q] = 1 \/ lev[q] + n = lev[p]
  BY <1>7
<1>9. q \in PageId /\ lev[q] >= 1
  <2>1. Trail(ps, lev, span, r, path2, q)
    BY <1>8 DEF Down
  <2> QED
    BY <2>1, TrailPages
<1>10. lev[q] = 1
  <2>1. PICK a, b, e \in Nat : a = lev[q] /\ b = lev[p] /\ e = lev[r]
    BY <1>3, <1>4, <1>9 DEF Closed, Tree
  <2>2. b <= e /\ e <= n + 1 /\ a >= 1 /\ (a = 1 \/ a + n = b)
    BY <1>1, <1>4, <1>8, <1>9, <2>1
  <2>3. a = 1
    BY <2>2
  <2> QED
    BY <2>1, <2>3
<1> QED
  BY <1>2, <1>8, <1>10 DEF Descended

(* The trail to a branch on the way.                                       *)
LEMMA TrailCut ==
    ASSUME NEW ps, NEW lev, NEW span, NEW r, Closed(ps, lev, span, r),
           NEW path, NEW p, Trail(ps, lev, span, r, path, p),
           NEW n \in 1 .. Len(path), NEW cut, cut = SubSeq(path, 1, n - 1)
    PROVE  Trail(ps, lev, span, r, cut, path[n].page) /\ Len(cut) = n - 1
<1>1. path \in Seq(Turns) /\ Len(path) \in Nat
  BY TrailPages
<1>2. PICK m \in Nat : m = n - 1 /\ m + 1 = n /\ m + 1 <= Len(path)
  BY <1>1
<1>3. /\ cut \in Seq(Turns) /\ Len(cut) = m
      /\ \A i \in 1 .. m : cut[i] = path[i]
  BY <1>1, <1>2
<1>4. PICK b : b = path[n].page
  OBVIOUS
<1>5. \A i \in 1 .. m + 1 : TrailPage(cut, b, i) = TrailPage(path, p, i)
  <2> SUFFICES ASSUME NEW i \in 1 .. m + 1
               PROVE  TrailPage(cut, b, i) = TrailPage(path, p, i)
    OBVIOUS
  <2>1. i <= Len(path)
    BY <1>1, <1>2
  <2>2. CASE i = m + 1
    <3>1. ~(i <= m) /\ i = n
      BY <1>2, <2>2
    <3> QED
      BY <1>3, <1>4, <2>1, <3>1 DEF TrailPage
  <2>3. CASE i # m + 1
    <3>1. i \in 1 .. m
      BY <2>3
    <3> QED
      BY <1>3, <2>1, <3>1 DEF TrailPage
  <2> QED
    BY <2>2, <2>3
<1>6. TrailPage(cut, b, 1) = r
  BY <1>5 DEF Trail
<1>7. ASSUME NEW i \in 1 .. m + 1
      PROVE  LET o == TrailPage(cut, b, i)
             IN  /\ o \in PageId /\ lev[o] >= 1 /\ lev[o] + i = lev[r] + 1
                 /\ Convex(span[o])
  <2>1. i \in 1 .. Len(path) + 1
    BY <1>1, <1>2
  <2> QED
    BY <1>5, <2>1 DEF Trail
<1>8. ASSUME NEW i \in 1 .. m
      PROVE  /\ cut[i].at \in 1 .. Len(ps[cut[i].page].cells) + 1
             /\ TrailPage(cut, b, i + 1) = Child(ps[cut[i].page], cut[i].at)
  <2>1. i \in 1 .. Len(path) /\ i + 1 \in 1 .. m + 1 /\ cut[i] = path[i]
    BY <1>1, <1>2, <1>3
  <2> QED
    BY <1>5, <2>1 DEF Trail
<1>9. Trail(ps, lev, span, r, cut, b)
  BY <1>3, <1>6, <1>7, <1>8 DEF Trail
<1> QED
  BY <1>2, <1>3, <1>4, <1>9

(* Along first children nothing is left before a page but what is before   *)
(* the page where they began.                                              *)
Begins(span, q, o) ==
    span[q] \subseteq span[o] /\ \A k \in Nat : Under(k, span[q]) => Under(k, span[o])

LEMMA Leftmost ==
    ASSUME NEW ps, NEW lev, NEW span, NEW r, Closed(ps, lev, span, r),
           NEW path, NEW p, Trail(ps, lev, span, r, path, p),
           NEW n \in 0 .. Len(path), \A i \in n + 1 .. Len(path) : path[i].at = 1
    PROVE  Begins(span, p, TrailPage(path, p, n + 1))
<1>1. PICK m \in Nat : m = Len(path)
  BY TrailPages
<1>2. PICK o : o = TrailPage(path, p, n + 1)
  OBVIOUS
<1> DEFINE Q(i) == Begins(span, TrailPage(path, p, n + 1 + i), o)
           T == {i \in Nat : n + i <= m => Q(i)}
<1>3. 0 \in T
  <2>1. n + 1 + 0 = n + 1
    BY <1>1
  <2> QED
    BY <1>2, <2>1 DEF Begins
<1>4. ASSUME NEW i \in Nat, i \in T PROVE i + 1 \in T
  <2> SUFFICES ASSUME n + (i + 1) <= m PROVE Q(i + 1)
    OBVIOUS
  <2>1. PICK j \in Nat : j = n + 1 + i
    BY <1>1
  <2>2. /\ j \in 1 .. m /\ j \in n + 1 .. m /\ j + 1 = n + 1 + (i + 1) /\ n + i <= m
        /\ j <= m
    BY <1>1, <2>1
  <2>3. PICK b : b = path[j].page
    OBVIOUS
  <2>4. TrailPage(path, p, j) = b /\ path[j].at = 1
    BY <1>1, <2>2, <2>3 DEF TrailPage
  <2>5. PICK c : c = TrailPage(path, p, j + 1)
    OBVIOUS
  <2>6. c = Child(ps[b], 1)
    BY <1>1, <2>2, <2>3, <2>4, <2>5 DEF Trail
  <2>7. IsBranch(ps, lev, span, b)
    BY <1>1, <2>2, <2>3, TrailPages
  <2>8. PICK cells : cells = ps[b].cells
    OBVIOUS
  <2>9. /\ cells \in Seq(LiveCells) /\ cells # <<>> /\ span[b] \subseteq Nat
        /\ span[c] = Place(cells, span[b], 1) /\ span[c] # {}
    <3>1. cells \in Seq(LiveCells) /\ cells # <<>> /\ span[b] \subseteq Nat
      BY <2>7, <2>8 DEF IsBranch
    <3>2. 1 \in 1 .. Len(cells) + 1
      <4>1. Len(cells) \in Nat
        BY <3>1, LiveFacts
      <4> QED
        BY <4>1
    <3> QED
      BY <2>6, <2>7, <2>8, <3>1, <3>2 DEF IsBranch
  <2>10. Begins(span, b, o)
    BY <1>4, <2>1, <2>2, <2>4
  <2>11. span[c] \subseteq span[b]
    BY <2>9 DEF Place
  <2>12. ASSUME NEW k \in Nat, Under(k, span[c]) PROVE Under(k, span[o])
    <3>1. Under(k, span[b])
      BY <2>9, <2>12, PlaceFirst
    <3> QED
      BY <2>10, <3>1 DEF Begins
  <2>13. Begins(span, c, o)
    BY <2>10, <2>11, <2>12 DEF Begins
  <2> QED
    BY <2>2, <2>5, <2>13
<1>5. PICK i \in Nat : n + i = m
  <2>1. m - n \in Nat /\ n + (m - n) = m
    BY <1>1
  <2> QED
    BY <2>1
<1>6. Q(i)
  <2>1. i \in T
    <3> HIDE DEF T
    <3> QED
      BY <1>3, <1>4, NatInd
  <2>2. n + i <= m
    BY <1>5
  <2> QED
    BY <2>1, <2>2
<1>7. n + 1 + i = m + 1 /\ ~(m + 1 <= m)
  BY <1>1, <1>5
<1>8. TrailPage(path, p, m + 1) = p
  BY <1>1, <1>7 DEF TrailPage
<1> QED
  BY <1>2, <1>6, <1>7, <1>8

(* A leaf whose keys come right before another's.                          *)
Precedes(span, q, p) ==
    /\ \A k \in span[q] : Under(k, span[p])
    /\ \A k \in Nat : Under(k, span[p]) => k \in span[q] \/ Under(k, span[q])

Preceding(ps, lev, span, r, p, d) ==
    \E path, q : /\ d = At(path, q) /\ Trail(ps, lev, span, r, path, q)
                 /\ lev[q] = 1 /\ Precedes(span, q, p)

LEMMA TurnedBack ==
    ASSUME NEW path \in Seq(Turns), NEW n \in 1 .. Len(path), path[n].at > 1,
           NEW turned, turned = [SubSeq(path, 1, n) EXCEPT ![n].at = @ - 1]
    PROVE  /\ TurnAt(SubSeq(path, 1, n - 1), path[n].page, path[n].at - 1, turned)
           /\ turned[n].page = path[n].page /\ turned[n].at = path[n].at - 1
<1>1. PICK m \in Nat : m + 1 = n /\ m = n - 1 /\ m + 1 <= Len(path) /\ Len(path) \in Nat
  BY Len(path) \in Nat, n - 1 \in Nat
<1>2. PICK cut : cut = SubSeq(path, 1, n - 1)
  OBVIOUS
<1>3. cut \in Seq(Turns) /\ Len(cut) = m /\ \A i \in 1 .. m : cut[i] = path[i]
  BY <1>1, <1>2
<1>4. PICK head : head = SubSeq(path, 1, n)
  OBVIOUS
<1>5. head \in Seq(Turns) /\ Len(head) = n /\ \A i \in 1 .. n : head[i] = path[i]
  BY <1>1, <1>4
<1>6. PICK turn : turn = [page |-> path[n].page, at |-> path[n].at - 1]
  OBVIOUS
<1>7. path[n] \in Turns
  OBVIOUS
<1>8. turn \in Turns /\ turn = [path[n] EXCEPT !.at = @ - 1]
  BY <1>6, <1>7 DEF Turns
<1>9. PICK more : more = Append(cut, turn)
  OBVIOUS
<1>10. /\ more \in Seq(Turns) /\ Len(more) = m + 1 /\ more[m + 1] = turn
       /\ \A i \in 1 .. m : more[i] = cut[i]
  BY <1>3, <1>8, <1>9, Appended
<1>11. turned = [head EXCEPT ![n] = turn]
  <2>1. head[n] = path[n]
    BY <1>5
  <2> QED
    BY <1>4, <1>8, <2>1
<1>12. turned = more
  <2>1. head = [i \in 1 .. n |-> head[i]] /\ more = [i \in 1 .. n |-> more[i]]
    BY <1>1, <1>5, <1>10
  <2>2. \A i \in 1 .. n : i # n => i \in 1 .. m
    BY <1>1
  <2>3. \A i \in 1 .. n : [head EXCEPT ![n] = turn][i] = more[i]
    <3> SUFFICES ASSUME NEW i \in 1 .. n PROVE [head EXCEPT ![n] = turn][i] = more[i]
      OBVIOUS
    <3>1. DOMAIN head = 1 .. n
      BY <1>5
    <3>2. CASE i = n
      BY <1>1, <1>10, <3>1, <3>2
    <3>3. CASE i # n
      <4>1. i \in 1 .. m
        BY <2>2, <3>3
      <4> QED
        BY <1>3, <1>5, <1>10, <3>1, <3>3, <4>1
    <3> QED
      BY <3>2, <3>3
  <2> QED
    BY <1>11, <2>1, <2>3
<1>13. turned[n] = turn
  BY <1>1, <1>10, <1>12
<1>14. turned = Append(SubSeq(path, 1, n - 1), [page |-> path[n].page, at |-> path[n].at - 1])
  BY ONLY <1>2, <1>6, <1>9, <1>12
<1>15. turned[n].page = path[n].page /\ turned[n].at = path[n].at - 1
  BY <1>6, <1>13
<1> QED
  BY ONLY <1>14, <1>15 DEF TurnAt

LEMMA PreviousRight ==
    ASSUME NEW ps, NEW lev, NEW span, NEW r, Closed(ps, lev, span, r),
           lev[r] <= MaxDepth + 1, span[r] = Nat, NEW path, NEW p,
           Trail(ps, lev, span, r, path, p),
           NEW d, d = PreviousLeaf(ps, At(path, p))
    PROVE  IF d.page = NoPage THEN \A k \in Nat : ~Under(k, span[p])
           ELSE Preceding(ps, lev, span, r, p, d)
<1>1. /\ path \in Seq(Turns) /\ Len(path) \in Nat /\ DOMAIN path = 1 .. Len(path)
      /\ \A i \in 1 .. Len(path) :
            /\ path[i] \in Turns /\ IsBranch(ps, lev, span, path[i].page)
            /\ Convex(span[path[i].page]) /\ path[i].page \in PageId
            /\ lev[path[i].page] > 1
            /\ path[i].at \in 1 .. Len(ps[path[i].page].cells) + 1
  <2>1. path \in Seq(Turns)
    BY TrailPages
  <2> QED
    BY <2>1, TrailPages DEF Trail
<1>2. PICK up : up = {i \in 1 .. Len(path) : path[i].at > 1}
  OBVIOUS
<1>3. CASE up = {}
  <2>1. d.page = NoPage
    BY <1>1, <1>2, <1>3 DEF PreviousLeaf, At
  <2>2. ASSUME NEW i \in 0 + 1 .. Len(path) PROVE path[i].at = 1
    <3>1. i \in 1 .. Len(path)
      OBVIOUS
    <3>2. path[i].at \in Nat /\ path[i].at >= 1 /\ ~(path[i].at > 1)
      BY <1>1, <1>2, <1>3, <3>1 DEF Turns
    <3> QED
      BY <3>2
  <2>3. Begins(span, p, TrailPage(path, p, 0 + 1))
    <3>1. 0 \in 0 .. Len(path)
      BY <1>1
    <3> QED
      BY <2>2, <3>1, Leftmost
  <2>4. TrailPage(path, p, 0 + 1) = r
    <3>1. 0 + 1 = 1
      OBVIOUS
    <3> QED
      BY <3>1 DEF Trail
  <2>5. ASSUME NEW k \in Nat, Under(k, span[p]) PROVE FALSE
    <3>1. Under(k, Nat)
      BY <2>3, <2>4, <2>5 DEF Begins
    <3>2. k < k
      BY <3>1 DEF Under
    <3> QED
      BY <3>2
  <2> QED
    BY <2>1, <2>5
<1>4. CASE up # {}
  <2>1. PICK n : n = CHOOSE i \in up : \A j \in up : j <= i
    OBVIOUS
  <2>2. n \in up /\ \A j \in up : j <= n
    <3>1. \E i \in up : \A j \in up : j <= i
      BY <1>1, <1>2, <1>4, LastOf
    <3> QED
      BY <2>1, <3>1
  <2>3. n \in 1 .. Len(path) /\ path[n].at > 1
    BY <1>2, <2>2
  <2>4. PICK b, at : b = path[n].page /\ at = path[n].at
    OBVIOUS
  <2>5. PICK cells : cells = ps[b].cells
    OBVIOUS
  <2>6. /\ IsBranch(ps, lev, span, b) /\ Convex(span[b]) /\ b \in PageId /\ lev[b] > 1
        /\ at \in 1 .. Len(cells) + 1 /\ at > 1 /\ at \in Nat
        /\ cells \in Seq(LiveCells) /\ Ordered(cells) /\ span[b] \subseteq Nat
        /\ Len(cells) \in Nat
    <3>1. IsBranch(ps, lev, span, b) /\ Convex(span[b]) /\ b \in PageId /\ lev[b] > 1
          /\ at \in 1 .. Len(cells) + 1 /\ at > 1
      BY <1>1, <2>3, <2>4, <2>5
    <3>2. at \in Nat
      BY <3>1
    <3>3. cells \in Seq(LiveCells) /\ Ordered(cells) /\ span[b] \subseteq Nat
      BY <2>5, <3>1 DEF IsBranch
    <3> QED
      BY <3>1, <3>2, <3>3, LiveFacts
  <2>7. /\ at - 1 \in 1 .. Len(cells) + 1 /\ at \in 2 .. Len(cells) + 1
    BY <2>6
  <2>8. PICK turned : turned = [SubSeq(path, 1, n) EXCEPT ![n].at = @ - 1]
    OBVIOUS
  <2>9. PICK cut : cut = SubSeq(path, 1, n - 1)
    OBVIOUS
  <2>10. /\ TurnAt(cut, b, at - 1, turned) /\ turned[n].page = b
         /\ turned[n].at = at - 1
    <3>1. path \in Seq(Turns) /\ n \in 1 .. Len(path) /\ path[n].at > 1
      BY <1>1, <2>3
    <3>2. /\ TurnAt(SubSeq(path, 1, n - 1), path[n].page, path[n].at - 1, turned)
          /\ turned[n].page = path[n].page /\ turned[n].at = path[n].at - 1
      BY ONLY <2>8, <3>1, TurnedBack
    <3> QED
      BY <2>4, <2>9, <3>2
  <2>11. PICK c : c = Child(ps[b], at - 1)
    OBVIOUS
  <2>12. Trail(ps, lev, span, r, turned, c)
    <3>1. Trail(ps, lev, span, r, cut, b)
      BY <2>3, <2>4, <2>9, TrailCut
    <3>2. at - 1 \in 1 .. Len(ps[b].cells) + 1
      BY <2>5, <2>7
    <3>3. Trail(ps, lev, span, r, turned, Child(ps[b], at - 1))
      BY <2>6, <2>10, <3>1, <3>2, TrailDown
    <3> QED
      BY <2>11, <3>3
  <2>13. /\ c \in PageId /\ Children(ps[b])[at - 1] = c
         /\ span[c] = Place(cells, span[b], at - 1)
    BY <2>5, <2>6, <2>7, <2>11 DEF IsBranch
  <2>14. d = Descend(ps, turned, c, NoKey)
    <3>1. At(path, p).path = path
      BY DEF At
    <3>2. up = {i \in DOMAIN path : path[i].at > 1}
      <4>1. DOMAIN path = 1 .. Len(path)
        BY <1>1
      <4> QED
        BY ONLY <1>2, <4>1
    <3>3. d = Descend(ps, turned, Children(ps[turned[n].page])[turned[n].at], NoKey)
      BY <1>4, <2>1, <2>8, <3>1, <3>2 DEF PreviousLeaf
    <3> QED
      BY <2>10, <2>13, <3>3
  <2>15. Descended(ps, lev, span, r, c, NoKey, d)
    <3>1. NoKey \in Nat
      BY DEF NoKey
    <3> QED
      BY <2>12, <2>14, <3>1, DescendRight
  <2>16. PICK path2, q : /\ d = At(path2, q) /\ lev[q] = 1
                         /\ Down(ps, lev, span, r, c, NoKey, path2, q)
    BY <2>15 DEF Descended
  <2>17. /\ Trail(ps, lev, span, r, path2, q) /\ span[q] \subseteq span[c]
         /\ \A k \in span[c] : k \in span[q] \/ Under(k, span[q])
    BY <2>16 DEF Down
  <2>18. d.page # NoPage
    <3>1. q \in PageId /\ d.page = q
      BY <2>16, <2>17, TrailPages DEF At
    <3> QED
      BY <3>1, NoPageIs
  <2>19. PICK o : o = TrailPage(path, p, n + 1)
    OBVIOUS
  <2>20. Begins(span, p, o)
    <3>1. ASSUME NEW i \in n + 1 .. Len(path) PROVE path[i].at = 1
      <4>1. i \in 1 .. Len(path) /\ ~(i <= n)
        BY <1>1, <2>3
      <4>2. path[i].at \in Nat /\ path[i].at >= 1 /\ ~(path[i].at > 1)
        BY <1>1, <1>2, <2>2, <4>1 DEF Turns
      <4> QED
        BY <4>2
    <3>2. n \in 0 .. Len(path)
      BY <2>3
    <3> QED
      BY <2>19, <3>1, <3>2, Leftmost
  <2>21. span[o] = Place(cells, span[b], at) /\ span[o] # {}
    <3>1. o = Child(ps[b], at)
      BY <2>3, <2>4, <2>19 DEF Trail
    <3> QED
      BY <2>5, <2>6, <3>1 DEF IsBranch
  <2>22. /\ \A k \in span[c] : Under(k, span[o])
         /\ \A k \in Nat : Under(k, span[o]) => k \in span[c] \/ Under(k, span[c])
    <3>1. Place(cells, span[b], at) # {}
      BY <2>21
    <3>2. /\ \A k \in Place(cells, span[b], at - 1) : Under(k, Place(cells, span[b], at))
          /\ \A k \in Nat : Under(k, Place(cells, span[b], at)) =>
                \/ k \in Place(cells, span[b], at - 1)
                \/ Under(k, Place(cells, span[b], at - 1))
      BY <2>6, <2>7, <3>1, PlaceBefore
    <3> QED
      BY <2>13, <2>21, <3>2
  <2>23. ASSUME NEW k \in span[q] PROVE Under(k, span[p])
    <3>1. Under(k, span[o])
      BY <2>17, <2>22, <2>23
    <3> QED
      BY <2>20, <3>1 DEF Begins, Under
  <2>24. ASSUME NEW k \in Nat, Under(k, span[p])
         PROVE  k \in span[q] \/ Under(k, span[q])
    <3>1. k \in span[c] \/ Under(k, span[c])
      BY <2>20, <2>22, <2>24 DEF Begins
    <3>2. Under(k, span[c]) => Under(k, span[q])
      BY <2>17 DEF Under
    <3> QED
      BY <2>17, <3>1, <3>2
  <2>25. Precedes(span, q, p)
    BY <2>23, <2>24 DEF Precedes
  <2>26. Preceding(ps, lev, span, r, p, d)
    BY <2>16, <2>17, <2>25 DEF Preceding
  <2> QED
    BY <2>18, <2>26
<1> QED
  BY <1>3, <1>4

(* A walk backward so far: leaves in falling order, and of the keys below  *)
(* `end` all are in them but those below the last one's.                   *)
Heres == [path : Seq(Turns), page : PageId]
BackWalk(ps, lev, span, r, w, end) ==
    /\ w \in Seq(Heres) /\ Len(w) >= 1
    /\ \A i \in 1 .. Len(w) : /\ Trail(ps, lev, span, r, w[i].path, w[i].page)
                              /\ lev[w[i].page] = 1
    /\ \A i, j \in 1 .. Len(w) :
          i < j => \A k \in span[w[i].page], l \in span[w[j].page] : l < k
    /\ \A k \in Nat : end = NoKey \/ k < end =>
          \/ \E i \in 1 .. Len(w) : k \in span[w[i].page]
          \/ Under(k, span[w[Len(w)].page])

LEMMA RootSpan ==
    ASSUME NEW ps, NEW lev, NEW span, NEW r, Closed(ps, lev, span, r)
    PROVE  span[r] = Nat /\ r \in PageId /\ lev[r] >= 1 /\ lev[r] \in Nat
<1>1. /\ span \in [PageId -> SUBSET Nat] /\ Outer(span, NoPage, NoPage)[r] = Nat
      /\ r \in PageId /\ lev[r] >= 1 /\ lev[r] \in Nat
  BY DEF Closed, Tree
<1> QED
  BY <1>1, OuterNone

LEMMA HereOf ==
    ASSUME NEW path \in Seq(Turns), NEW q \in PageId
    PROVE  At(path, q) \in Heres /\ At(path, q).path = path /\ At(path, q).page = q
BY DEF At, Heres

LEMMA BackBegins ==
    ASSUME NEW ps, NEW lev, NEW span, NEW r, LinkedTree(ps, lev, span, r),
           lev[r] <= MaxDepth + 1, NEW end \in Nat,
           NEW w, w = <<Descend(ps, <<>>, r, end)>>
    PROVE  BackWalk(ps, lev, span, r, w, end)
<1>1. Closed(ps, lev, span, r)
  BY DEF LinkedTree
<1>2. span[r] = Nat /\ r \in PageId /\ lev[r] >= 1 /\ lev[r] \in Nat
  BY <1>1, RootSpan
<1>3. PICK none : none = <<>>
  OBVIOUS
<1>4. none \in Seq(Turns) /\ Len(none) = 0
  BY <1>3
<1>5. Trail(ps, lev, span, r, none, r)
  <2>1. \A i \in 1 .. 0 + 1 : i = 1 /\ ~(i <= 0)
    OBVIOUS
  <2>2. 1 \in 1 .. 0 + 1
    OBVIOUS
  <2>3. \A i \in 1 .. 0 + 1 : TrailPage(none, r, i) = r
    BY <1>4, <2>1 DEF TrailPage
  <2>4. Convex(span[r])
    BY <1>2 DEF Convex
  <2>5. lev[r] + 1 = lev[r] + 1
    OBVIOUS
  <2>6. \A i \in 1 .. 0 : FALSE
    OBVIOUS
  <2> QED
    BY <1>2, <1>4, <2>1, <2>2, <2>3, <2>4, <2>5, <2>6 DEF Trail
<1>6. PICK d : d = Descend(ps, none, r, end)
  OBVIOUS
<1>7. Descended(ps, lev, span, r, r, end, d)
  <2>1. end # NoKey => end \in span[r]
    BY <1>2
  <2> QED
    BY <1>1, <1>5, <1>6, <2>1, DescendRight
<1>8. PICK path, q : /\ d = At(path, q) /\ lev[q] = 1
                     /\ Down(ps, lev, span, r, r, end, path, q)
  BY <1>7 DEF Descended
<1>9. /\ Trail(ps, lev, span, r, path, q)
      /\ end # NoKey => end \in span[q]
      /\ end = NoKey => \A k \in span[r] : k \in span[q] \/ Under(k, span[q])
  BY <1>8 DEF Down
<1>10. q \in PageId /\ Convex(span[q]) /\ path \in Seq(Turns)
  BY <1>1, <1>9, TrailPages
<1>11. d \in Heres /\ d.path = path /\ d.page = q
  BY <1>8, <1>10, HereOf
<1>12. /\ w \in Seq(Heres) /\ Len(w) = 1 /\ w[1] = d
       /\ \A i \in 1 .. 1 : i = 1
  BY <1>3, <1>6, <1>11
<1>13. ASSUME NEW k \in Nat, end = NoKey \/ k < end
       PROVE  k \in span[q] \/ Under(k, span[q])
  <2>1. CASE end = NoKey
    BY <1>2, <1>9, <2>1
  <2>2. CASE end # NoKey
    <3>1. end \in span[q] /\ k < end
      BY <1>9, <1>13, <2>2
    <3>2. SUFFICES ASSUME NEW m \in span[q], ~(k < m) PROVE k \in span[q]
      BY DEF Under
    <3>3. m \in Nat /\ m <= k /\ k <= end
      <4>1. span[q] \subseteq Nat
        BY <1>8, <1>10, LinkedLeaf
      <4> QED
        BY <3>1, <3>2, <4>1
    <3> QED
      BY <1>10, <3>1, <3>3 DEF Convex
  <2> QED
    BY <2>1, <2>2
<1>14. \A k \in Nat : end = NoKey \/ k < end =>
          \/ \E i \in 1 .. 1 : k \in span[w[i].page]
          \/ Under(k, span[w[1].page])
  <2>1. 1 \in 1 .. 1
    OBVIOUS
  <2> QED
    BY <1>11, <1>12, <1>13, <2>1
<1>15. \A i \in 1 .. 1 : /\ Trail(ps, lev, span, r, w[i].path, w[i].page)
                         /\ lev[w[i].page] = 1
  BY <1>8, <1>9, <1>11, <1>12
<1>16. \A i, j \in 1 .. 1 : ~(i < j)
  OBVIOUS
<1> QED
  BY ONLY <1>12, <1>14, <1>15, <1>16 DEF BackWalk

(* Once more to the leaf before.                                           *)
GoesBack(ps, lev, span, r, w, v) ==
    \E d : Preceding(ps, lev, span, r, w[Len(w)].page, d) /\ v = Append(w, d)

LEMMA BackNext ==
    ASSUME NEW ps, NEW lev, NEW span, NEW r, LinkedTree(ps, lev, span, r),
           NEW w, NEW end, BackWalk(ps, lev, span, r, w, end),
           NEW v, GoesBack(ps, lev, span, r, w, v)
    PROVE  BackWalk(ps, lev, span, r, v, end) /\ Len(v) = Len(w) + 1
<1>0. PICK d : Preceding(ps, lev, span, r, w[Len(w)].page, d) /\ v = Append(w, d)
  BY DEF GoesBack
<1>1. PICK n \in Nat : n = Len(w) /\ n >= 1 /\ w \in Seq(Heres)
  BY DEF BackWalk
<1>2. PICK p : p = w[n].page
  OBVIOUS
<1>3. \A i \in 1 .. n : /\ w[i] \in Heres /\ w[i].page \in PageId
                        /\ lev[w[i].page] = 1
                        /\ Trail(ps, lev, span, r, w[i].path, w[i].page)
  <2>1. \A i \in 1 .. n : w[i] \in Heres
    BY <1>1
  <2> QED
    BY <1>1, <2>1 DEF BackWalk, Heres
<1>4. PICK path, q : /\ d = At(path, q) /\ lev[q] = 1 /\ Precedes(span, q, p)
                     /\ Trail(ps, lev, span, r, path, q)
  BY <1>0, <1>1, <1>2 DEF Preceding
<1>5. Closed(ps, lev, span, r)
  BY DEF LinkedTree
<1>6. q \in PageId /\ path \in Seq(Turns)
  BY <1>4, <1>5, TrailPages
<1>7. d \in Heres /\ d.path = path /\ d.page = q
  BY <1>4, <1>6, HereOf
<1>8. /\ v \in Seq(Heres) /\ Len(v) = n + 1 /\ v[n + 1] = d
      /\ \A i \in 1 .. n : v[i] = w[i]
  BY <1>0, <1>1, <1>7, Appended
<1>9. \A i \in 1 .. n + 1 : i = n + 1 \/ i \in 1 .. n
  OBVIOUS
<1>10. \A i \in 1 .. n + 1 : /\ Trail(ps, lev, span, r, v[i].path, v[i].page)
                             /\ lev[v[i].page] = 1
  BY <1>3, <1>4, <1>7, <1>8, <1>9
<1>11. n \in 1 .. n /\ n + 1 \in 1 .. n + 1 /\ \A i \in 1 .. n : i \in 1 .. n + 1
  BY <1>1
<1>12. p \in PageId /\ span[p] # {} /\ span[p] \subseteq Nat /\ span[q] \subseteq Nat
  BY <1>2, <1>3, <1>4, <1>6, <1>11, LinkedLeaf
<1>13. ASSUME NEW i \in 1 .. n, NEW k \in span[w[i].page], NEW l \in span[q]
       PROVE  l < k
  <2>1. Under(l, span[p]) /\ l \in Nat
    BY <1>4, <1>12 DEF Precedes
  <2>2. k \in Nat
    BY <1>3, LinkedLeaf
  <2>3. CASE i = n
    BY <1>2, <2>1, <2>3 DEF Under
  <2>4. CASE i # n
    <3>1. i < n
      BY <2>4
    <3>2. PICK m \in Nat : m \in span[p]
      BY <1>12
    <3>3. m < k
      BY <1>1, <1>2, <1>11, <3>1, <3>2 DEF BackWalk
    <3>4. l < m
      BY <2>1, <3>2 DEF Under
    <3> QED
      BY <2>1, <2>2, <3>2, <3>3, <3>4
  <2> QED
    BY <2>3, <2>4
<1>14. ASSUME NEW i \in 1 .. n + 1, NEW j \in 1 .. n + 1, i < j,
              NEW k \in span[v[i].page], NEW l \in span[v[j].page]
       PROVE  l < k
  <2>1. i \in 1 .. n /\ v[i] = w[i]
    BY <1>8, <1>14
  <2>2. CASE j = n + 1
    BY <1>7, <1>8, <1>13, <1>14, <2>1, <2>2
  <2>3. CASE j # n + 1
    <3>1. j \in 1 .. n /\ v[j] = w[j]
      BY <1>8, <2>3
    <3> QED
      BY <1>1, <1>14, <2>1, <3>1 DEF BackWalk
  <2> QED
    BY <2>2, <2>3
<1>15. ASSUME NEW k \in Nat, end = NoKey \/ k < end
       PROVE  \/ \E i \in 1 .. n + 1 : k \in span[v[i].page]
              \/ Under(k, span[v[n + 1].page])
  <2>1. (\E i \in 1 .. n : k \in span[w[i].page]) \/ Under(k, span[p])
    BY <1>1, <1>2, <1>15 DEF BackWalk
  <2>2. CASE \E i \in 1 .. n : k \in span[w[i].page]
    BY <1>8, <1>11, <2>2
  <2>3. CASE Under(k, span[p])
    <3>1. k \in span[q] \/ Under(k, span[q])
      BY <1>4, <2>3 DEF Precedes
    <3> QED
      BY <1>7, <1>8, <1>11, <3>1
  <2> QED
    BY <2>1, <2>2, <2>3
<1>16. n + 1 >= 1
  BY <1>1
<1>17. \A i, j \in 1 .. n + 1 :
          i < j => \A k \in span[v[i].page], l \in span[v[j].page] : l < k
  BY <1>14
<1>18. \A k \in Nat : end = NoKey \/ k < end =>
          \/ \E i \in 1 .. n + 1 : k \in span[v[i].page]
          \/ Under(k, span[v[n + 1].page])
  BY <1>15
<1>19. BackWalk(ps, lev, span, r, v, end)
  BY ONLY <1>8, <1>10, <1>16, <1>17, <1>18 DEF BackWalk
<1> QED
  BY <1>1, <1>8, <1>19

(* No leaf comes twice, so there are no more of them than pages.           *)
LEMMA BackBounded ==
    ASSUME NEW ps, NEW lev, NEW span, NEW r, LinkedTree(ps, lev, span, r),
           NEW w, NEW end, BackWalk(ps, lev, span, r, w, end)
    PROVE  Len(w) <= MaxPages
<1>1. PICK n \in Nat : n = Len(w) /\ n >= 1 /\ w \in Seq(Heres)
  BY DEF BackWalk
<1>2. PICK s : s = [i \in 1 .. n |-> w[i].page]
  OBVIOUS
<1>3. \A i \in 1 .. n : /\ s[i] = w[i].page /\ s[i] \in PageId /\ lev[s[i]] = 1
  <2>1. \A i \in 1 .. n : w[i] \in Heres
    BY <1>1
  <2> QED
    BY <1>1, <1>2, <2>1 DEF BackWalk, Heres
<1>4. s \in Seq(PageId) /\ Len(s) = n
  BY <1>2, <1>3
<1>5. ASSUME NEW i \in 1 .. n, NEW j \in 1 .. n, i < j PROVE s[i] # s[j]
  <2>1. PICK k : k \in span[s[i]] /\ k \in Nat
    BY <1>3, LinkedLeaf
  <2>2. s[i] = s[j] => k < k
    BY <1>1, <1>3, <1>5, <2>1 DEF BackWalk
  <2> QED
    BY <2>1, <2>2
<1>6. \A i, j \in 1 .. n : i # j => s[i] # s[j]
  <2>1. \A i, j \in 1 .. n : i # j => i < j \/ j < i
    OBVIOUS
  <2> QED
    BY <1>5, <2>1
<1> QED
  BY <1>1, <1>4, <1>6, NoMorePages

(* A walk backward ends with all the keys below `end` in its leaves.       *)
LEMMA BackLeavesRight ==
    ASSUME NEW ps, NEW lev, NEW span, NEW r, LinkedTree(ps, lev, span, r),
           lev[r] <= MaxDepth + 1, NEW start \in Nat, NEW end \in Nat
    PROVE  \E w : /\ BackWalk(ps, lev, span, r, w, end)
                  /\ Backward(ps, r, start, end) = HandedBack(ps, w, start, end)
                  /\ \A k \in Nat : end = NoKey \/ k < end =>
                        \E i \in 1 .. Len(w) : k \in span[w[i].page]
<1>1. PICK n \in Nat : n = MaxPages
  BY BTreeAssumption
<1>2. PICK h : /\ Backward(ps, r, start, end) = HandedBack(ps, h[n], start, end)
               /\ h[0] = <<Descend(ps, <<>>, r, end)>>
               /\ \A i \in 1 .. n : h[i] = BackOn(ps, h[i - 1])
  <2>1. PICK h : BackRuns(h, ps, r, start, end)
    BY BackSteps
  <2> QED
    BY <1>1, <2>1 DEF BackRuns
<1> DEFINE Ended(u) == PreviousLeaf(ps, u[Len(u)]).page = NoPage
           Q(i) == /\ BackWalk(ps, lev, span, r, h[i], end)
                   /\ Len(h[i]) = i + 1 \/ Ended(h[i])
           T == {i \in Nat : i <= n => Q(i)}
<1>3. 0 \in T
  <2>1. PICK u : u = h[0]
    OBVIOUS
  <2>2. BackWalk(ps, lev, span, r, u, end)
    BY <1>2, <2>1, BackBegins
  <2>3. Len(u) = 0 + 1
    BY <1>2, <2>1
  <2> QED
    BY <2>1, <2>2, <2>3
<1>4. Closed(ps, lev, span, r) /\ span[r] = Nat
  BY RootSpan DEF LinkedTree
<1>5. ASSUME NEW u, BackWalk(ps, lev, span, r, u, end), NEW d, d = PreviousLeaf(ps, u[Len(u)])
      PROVE  IF d.page = NoPage THEN \A k \in Nat : ~Under(k, span[u[Len(u)].page])
             ELSE Preceding(ps, lev, span, r, u[Len(u)].page, d)
  <2>1. PICK m \in Nat : m = Len(u) /\ m >= 1 /\ u \in Seq(Heres) /\ m \in 1 .. m
    BY <1>5 DEF BackWalk
  <2>2. PICK path, p : path = u[m].path /\ p = u[m].page
    OBVIOUS
  <2>3. Trail(ps, lev, span, r, path, p)
    BY <1>5, <2>1, <2>2 DEF BackWalk
  <2>4. u[m] = At(path, p)
    <3>1. u[m] \in Heres
      BY <2>1
    <3> QED
      BY <2>2, <3>1 DEF Heres, At
  <2>5. d = PreviousLeaf(ps, At(path, p))
    BY <1>5, <2>1, <2>4
  <2>6. /\ Closed(ps, lev, span, r) /\ lev[r] <= MaxDepth + 1 /\ span[r] = Nat
        /\ Trail(ps, lev, span, r, path, p)
    BY <1>4, <2>3
  <2>7. IF d.page = NoPage THEN \A k \in Nat : ~Under(k, span[p])
        ELSE Preceding(ps, lev, span, r, p, d)
    BY ONLY <2>5, <2>6, PreviousRight
  <2> QED
    BY <2>1, <2>2, <2>7
<1>6. ASSUME NEW i \in Nat, i \in T PROVE i + 1 \in T
  <2> SUFFICES ASSUME i + 1 <= n PROVE Q(i + 1)
    OBVIOUS
  <2>1. i + 1 \in 1 .. n /\ (i + 1) - 1 = i /\ i <= n
    OBVIOUS
  <2>2. Q(i) /\ h[i + 1] = BackOn(ps, h[i])
    BY <1>2, <1>6, <2>1
  <2>3. PICK u, v : u = h[i] /\ v = h[i + 1]
    OBVIOUS
  <2>4. PICK m \in Nat : m = Len(u) /\ m >= 1 /\ u \in Seq(Heres)
    BY <2>2, <2>3 DEF BackWalk
  <2>5. PICK d : d = PreviousLeaf(ps, u[Len(u)])
    OBVIOUS
  <2>6. v = IF d.page = NoPage THEN u ELSE Append(u, d)
    BY <2>2, <2>3, <2>5 DEF BackOn, Last
  <2>7. CASE d.page = NoPage
    BY <2>2, <2>3, <2>5, <2>6, <2>7
  <2>8. CASE d.page # NoPage
    <3>1. Preceding(ps, lev, span, r, u[Len(u)].page, d)
      BY <1>5, <2>2, <2>3, <2>5, <2>8
    <3>2. BackWalk(ps, lev, span, r, v, end) /\ Len(v) = Len(u) + 1
      <4>1. /\ LinkedTree(ps, lev, span, r) /\ BackWalk(ps, lev, span, r, u, end)
            /\ GoesBack(ps, lev, span, r, u, v)
        BY <2>2, <2>3, <2>6, <2>8, <3>1 DEF GoesBack
      <4> QED
        BY ONLY <4>1, BackNext
    <3>3. Len(u) = i + 1
      BY <2>2, <2>3, <2>5, <2>8
    <3> QED
      BY <2>3, <3>2, <3>3
  <2> QED
    BY <2>7, <2>8
<1>7. Q(n)
  <2>1. n \in T
    <3> HIDE DEF T
    <3> QED
      BY <1>3, <1>6, NatInd
  <2> QED
    BY <2>1
<1>8. PICK w : w = h[n]
  OBVIOUS
<1>9. BackWalk(ps, lev, span, r, w, end)
  BY <1>7, <1>8
<1>10. Ended(w)
  <2>1. Len(w) <= MaxPages
    BY <1>9, BackBounded
  <2>2. Len(w) \in Nat
    BY <1>9 DEF BackWalk
  <2>3. Len(w) # n + 1
    BY <1>1, <2>1, <2>2
  <2> QED
    BY <1>7, <1>8, <2>3
<1>11. ASSUME NEW k \in Nat, end = NoKey \/ k < end
       PROVE  \E i \in 1 .. Len(w) : k \in span[w[i].page]
  <2>1. ~Under(k, span[w[Len(w)].page])
    BY <1>5, <1>9, <1>10
  <2> QED
    BY <1>9, <1>11, <2>1 DEF BackWalk
<1> QED
  BY <1>2, <1>8, <1>9, <1>11

(* What of the keys is handed out backward.                                *)
CoversBelow(es, end, X) == \A k \in es : end = NoKey \/ k < end => k \in X

LEMMA RangeListedBack ==
    ASSUME NEW es, es \subseteq Key, NEW start \in Nat, NEW end \in Nat,
           NEW keys, NEW X, Lists(keys, Falling, X), X \subseteq es,
           CoversBelow(es, end, X)
    PROVE  Only(TakeUntil(keys, {k \in Key : k < start}),
                {k \in Key : end = NoKey \/ k < end})
              = Reverse(Ascending({k \in es : Within(k, start, end)}))
<1>1. \A k \in X : k \in Nat /\ k \in Key
  BY KeyFacts
<1>2. PICK past : past = {k \in Key : k < start}
  OBVIOUS
<1>3. PICK wanted : wanted = {k \in Key : end = NoKey \/ k < end}
  OBVIOUS
<1>4. \A k, l \in X : k \in past /\ <<k, l>> \in Falling => l \in past
  BY <1>1, <1>2 DEF Falling
<1>5. PICK t : t = TakeUntil(keys, past)
  OBVIOUS
<1>6. Lists(t, Falling, X \ past)
  BY <1>4, <1>5, UntilLists
<1>7. PICK u : u = Only(t, wanted)
  OBVIOUS
<1>8. PICK all : all = (X \ past) \cap wanted
  OBVIOUS
<1>9. Lists(u, Falling, all)
  BY <1>6, <1>7, <1>8, OnlyLists
<1>10. all = {k \in es : Within(k, start, end)}
  BY <1>1, <1>2, <1>3, <1>8 DEF Within, CoversBelow
<1>11. Lists(Reverse(u), Rising, all) /\ Reverse(Reverse(u)) = u
  <2>1. \A k, l \in Nat : <<k, l>> \in Falling => <<l, k>> \in Rising
    BY DEF Falling, Rising
  <2> QED
    BY <1>9, <2>1, ReversedLists
<1>12. Reverse(u) = Ascending(all)
  BY <1>11, AscendingIs
<1>13. u = Reverse(Ascending(all))
  BY <1>11, <1>12
<1> QED
  BY <1>2, <1>3, <1>5, <1>7, <1>10, <1>13

LEMMA BackwardRight ==
    ASSUME NEW ps, NEW lev, NEW span, NEW r, NEW es,
           WholeWithin(ps, lev, span, r, es), NEW start \in Nat, NEW end \in Nat
    PROVE  Backward(ps, r, start, end)
              = Reverse(Ascending({k \in es : Within(k, start, end)}))
<1>1. LinkedTree(ps, lev, span, r) /\ lev[r] <= MaxDepth + 1 /\ es \subseteq Key
  BY WholeIs
<1>2. PICK w : /\ BackWalk(ps, lev, span, r, w, end)
               /\ Backward(ps, r, start, end) = HandedBack(ps, w, start, end)
               /\ \A k \in Nat : end = NoKey \/ k < end =>
                     \E i \in 1 .. Len(w) : k \in span[w[i].page]
  BY <1>1, BackLeavesRight
<1>3. PICK n \in Nat : n = Len(w) /\ w \in Seq(Heres)
  BY <1>2 DEF BackWalk
<1>4. \A i \in 1 .. n : lev[w[i].page] = 1 /\ w[i].page \in PageId
  <2>1. \A i \in 1 .. n : w[i] \in Heres
    BY <1>3
  <2> QED
    BY <1>2, <1>3, <2>1 DEF BackWalk, Heres
<1>5. PICK seqs : seqs = [i \in DOMAIN w |-> Reverse(LiveKeys(ps[w[i].page]))]
  OBVIOUS
<1>6. seqs = [i \in 1 .. n |-> Reverse(LiveKeys(ps[w[i].page]))]
  BY <1>3, <1>5
<1>7. Len(seqs) = n
  BY <1>6
<1>8. PICK X : X = [i \in 1 .. n |-> es \cap span[w[i].page]]
  OBVIOUS
<1>9. \A i \in 1 .. n : Lists(seqs[i], Falling, X[i])
  <2> SUFFICES ASSUME NEW i \in 1 .. n PROVE Lists(seqs[i], Falling, X[i])
    OBVIOUS
  <2>1. PICK p \in PageId : p = w[i].page /\ lev[p] = 1
    BY <1>4
  <2>2. /\ Lists(LiveKeys(ps[p]), Rising, KeysOf(ps[p].cells))
        /\ KeysOf(ps[p].cells) = es \cap span[p]
    BY <2>1, LeafHas
  <2>3. \A k, l \in Nat : <<k, l>> \in Rising => <<l, k>> \in Falling
    BY DEF Falling, Rising
  <2>4. Lists(Reverse(LiveKeys(ps[p])), Falling, KeysOf(ps[p].cells))
    BY <2>2, <2>3, ReversedLists
  <2> QED
    BY <1>6, <1>8, <2>1, <2>2, <2>4
<1>10. \A i, j \in 1 .. n : i < j => \A k \in X[i], l \in X[j] : <<k, l>> \in Falling
  <2> SUFFICES ASSUME NEW i \in 1 .. n, NEW j \in 1 .. n, i < j,
                      NEW k \in X[i], NEW l \in X[j]
               PROVE  <<k, l>> \in Falling
    OBVIOUS
  <2>1. k \in es /\ l \in es /\ k \in span[w[i].page] /\ l \in span[w[j].page]
    BY <1>8
  <2>2. l < k
    BY <1>2, <1>3, <2>1 DEF BackWalk
  <2>3. k \in Nat /\ l \in Nat
    BY <1>1, <2>1, KeyFacts
  <2> QED
    BY <2>2, <2>3 DEF Falling
<1>11. PICK keys : keys = Joined(seqs)
  OBVIOUS
<1>12. PICK all : all = UNION {X[i] : i \in 1 .. n}
  OBVIOUS
<1>13. Lists(keys, Falling, all)
  <2>1. ListsInOrder(seqs, n, Falling, X)
    BY <1>7, <1>9, <1>10 DEF ListsInOrder
  <2> QED
    BY <1>11, <1>12, <2>1, JoinedLists
<1>14. all \subseteq es
  BY <1>8, <1>12
<1>15. \A k \in es : end = NoKey \/ k < end => k \in all
  <2> SUFFICES ASSUME NEW k \in es, end = NoKey \/ k < end PROVE k \in all
    OBVIOUS
  <2>1. k \in Nat
    BY <1>1, KeyFacts
  <2>2. PICK i \in 1 .. n : k \in span[w[i].page]
    BY <1>2, <1>3, <2>1
  <2>3. k \in X[i]
    BY <1>8, <2>2
  <2> QED
    BY <1>12, <2>3
<1>16. Backward(ps, r, start, end)
          = Only(TakeUntil(keys, {k \in Key : k < start}),
                 {k \in Key : end = NoKey \/ k < end})
  BY <1>2, <1>5, <1>11 DEF HandedBack
<1>17. /\ es \subseteq Key /\ start \in Nat /\ end \in Nat
       /\ Lists(keys, Falling, all) /\ all \subseteq es
       /\ CoversBelow(es, end, all)
  BY <1>1, <1>13, <1>14, <1>15 DEF CoversBelow
<1>18. Only(TakeUntil(keys, {k \in Key : k < start}),
            {k \in Key : end = NoKey \/ k < end})
          = Reverse(Ascending({k \in es : Within(k, start, end)}))
  BY ONLY <1>17, RangeListedBack
<1> QED
  BY <1>16, <1>18

(* The index's tree as the walks and counts need it.                       *)
LEMMA WholeOf ==
    ASSUME BTreeInv, root # NoPage
    PROVE  \E lev, span : WholeWithin(pages, lev, span, root, entries)
<1>1. PICK lev, span : Whole(pages, lev, span, root, entries) /\ lev[root] <= MaxDepth + 1
  BY TreeOf
<1>2. len \in Lengths
  BY DEF BTreeInv, TypeInv
<1> QED
  BY <1>1, <1>2 DEF WholeWithin

LEMMA RangeEnds ==
    ASSUME NEW range \in Ranges
    PROVE  range[1] \in Nat /\ range[2] \in Nat
<1>1. NoKey \in Nat
  BY DEF NoKey
<1>2. \A k \in Used : k \in Nat
  BY BTreeAssumption
<1> QED
  BY <1>1, <1>2 DEF Ranges, Bounds

LEMMA WalksFollow == BTreeInv => WalksRight
<1> SUFFICES ASSUME BTreeInv, root # NoPage, NEW range \in Ranges
             PROVE  LET in == Ascending({k \in entries : Within(k, range[1], range[2])})
                    IN  /\ Forward(pages, root, range[1], range[2]) = in
                        /\ Backward(pages, root, range[1], range[2]) = Reverse(in)
  BY DEF WalksRight
<1>1. PICK lev, span : WholeWithin(pages, lev, span, root, entries)
  BY WholeOf
<1>2. PICK start, end \in Nat : start = range[1] /\ end = range[2]
  BY RangeEnds
<1>3. Forward(pages, root, start, end)
         = Ascending({k \in entries : Within(k, start, end)})
  BY <1>1, ForwardRight
<1>4. Backward(pages, root, start, end)
         = Reverse(Ascending({k \in entries : Within(k, start, end)}))
  BY <1>1, BackwardRight
<1> QED
  BY <1>2, <1>3, <1>4

LEMMA CountsFollow == BTreeInv => CountsRight
<1> SUFFICES ASSUME BTreeInv, root # NoPage, NEW range \in Ranges,
                    NEW cap \in {1, MaxPages}
             PROVE  LET n == Cardinality({k \in entries : Within(k, range[1], range[2])})
                        counted == CountAtMost(pages, root, range[1], range[2], cap)
                    IN  IF counted.whole THEN counted.entries = n
                        ELSE counted.entries < n /\ cap < MaxPages
  BY DEF CountsRight
<1>1. PICK lev, span : WholeWithin(pages, lev, span, root, entries)
  BY WholeOf
<1>2. PICK start, end \in Nat : start = range[1] /\ end = range[2]
  BY RangeEnds
<1>3. cap \in Nat
  BY BTreeAssumption
<1>4. CountIs(CountAtMost(pages, root, start, end, cap),
              Cardinality(In(entries, start, end)), cap)
  BY <1>1, <1>3, CountAtMostRight
<1> QED
  BY <1>2, <1>4 DEF CountIs, In

-----------------------------------------------------------------------------
(* Theorems.                                                               *)

(* Every operation of src/index/btree.rs leaves a tree: the keys below a   *)
(* page are those its parents route there, the leaves are equally deep and *)
(* hold the entries, and what is not in the tree is free.                  *)
THEOREM BTreeAlwaysInv == Spec => []BTreeInv
BY InvInit, InvNext, PTL DEF Spec

(* `find_leaf` and `slot_of` find a key in the index and no other, whatever *)
(* splits, removals, tombstones of older versions and compactions were     *)
(* before.                                                                 *)
THEOREM LookupsAlwaysRight == Spec => []LookupsRight
BY BTreeAlwaysInv, LookupsFollow, PTL

(* Whatever the keys' lengths, the pages `insert_into_leaf`,               *)
(* `insert_into_branch`, `grow_new_root` and `remove` write fit; a branch  *)
(* has a separator, no tombstone and a child in every place.               *)
THEOREM PagesAlwaysSound == Spec => []PagesSound
BY BTreeAlwaysInv, PagesFollow, PTL

(* `pages` reaches every allocated page, each once, which `clear` and      *)
(* `free_all` give back; and every way down is as long as the others,      *)
(* which `depth` takes for granted.                                        *)
THEOREM TreeAlwaysWhole == Spec => []TreeIsWhole
BY BTreeAlwaysInv, WholeFollows, PTL

(* A walk in either direction hands out the range's keys in order, each    *)
(* once, whatever splits and removals left: along the leaves' links and    *)
(* through the branches, `read_next_leaf`.                                 *)
THEOREM WalksAlwaysRight == Spec => []WalksRight
BY BTreeAlwaysInv, WalksFollow, PTL

(* `count_at_most` counts a range's entries, or says that some are left at *)
(* the leaves it may enter.                                                *)
THEOREM CountsAlwaysRight == Spec => []CountsRight
BY BTreeAlwaysInv, CountsFollow, PTL
=============================================================================
