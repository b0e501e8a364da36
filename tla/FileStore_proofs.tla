-------------------------- MODULE FileStore_proofs --------------------------
(***************************************************************************)
(* IInv is an invariant of the store, for any number of pages and any      *)
(* users: the free list is whole, nobody's page is touched, and what is    *)
(* committed is complete.                                                  *)
(***************************************************************************)
EXTENDS FileStore, Induction_proofs, FiniteSetTheorems

(* The page ids are numbers, the header's among them.                      *)
LEMMA PageIds == PageId \subseteq Nat /\ HEADER_PAGE \in PageId /\ MaxPages \in Nat
BY FileStoreAssumption DEF PageId, HEADER_PAGE

-----------------------------------------------------------------------------
(* The free list.                                                          *)

Meets(list, n, h, pages) ==
    \A i \in 0 .. MaxPages :
       FreeList(h, pages)[i] = IF i < n THEN list[i + 1] ELSE NO_FREE_PAGE

(* What a walk from the head meets is the list, and then the end.          *)
LEMMA WalkMeetsList ==
    ASSUME NEW h, NEW pages, NEW used, NEW n \in 0 .. MaxPages,
           NEW list \in [1 .. n -> 1 .. h.count - 1],
           h.count \in 0 .. MaxPages, IsFreeList(list, n, h, pages, used),
           h.count > 0
    PROVE  Meets(list, n, h, pages)
<1> DEFINE Link(p) == IF p < h.count THEN p ELSE -1
           Step(at, i) == IF i = 0 THEN Link(h.head)
                          ELSE IF at[i - 1] \in {NO_FREE_PAGE, -1} THEN at[i - 1]
                          ELSE IF pages[at[i - 1]].kind # "free" THEN -1
                          ELSE Link(pages[at[i - 1]].next)
           met == [i \in 0 .. MaxPages |->
                     IF i < n THEN list[i + 1] ELSE NO_FREE_PAGE]
           walk == FreeList(h, pages)
<1>1. MaxPages \in Nat /\ h.count \in Nat
  BY PageIds
<1>2. \A i \in 1 .. n : list[i] \in 1 .. h.count - 1
  OBVIOUS
<1>3. \A i \in 0 .. MaxPages : met[i] = Step(met, i)
  <2> SUFFICES ASSUME NEW i \in 0 .. MaxPages PROVE met[i] = Step(met, i)
    OBVIOUS
  <2>1. CASE i = 0
    BY <1>1, <1>2, <2>1 DEF IsFreeList, NO_FREE_PAGE
  <2>2. CASE i # 0 /\ n < i
    BY <1>1, <2>2 DEF NO_FREE_PAGE
  <2>3. CASE i # 0 /\ i <= n
    <3>1. met[i - 1] = list[i] /\ list[i] \in 1 .. h.count - 1
      BY <1>1, <1>2, <2>3
    <3>2. pages[list[i]] = FreePage(IF i = n THEN NO_FREE_PAGE ELSE list[i + 1])
      BY <1>1, <2>3 DEF IsFreeList
    <3>3. /\ pages[list[i]].kind = "free"
          /\ pages[list[i]].next = IF i = n THEN NO_FREE_PAGE ELSE list[i + 1]
      BY <3>2 DEF FreePage
    <3>4. met[i - 1] \notin {NO_FREE_PAGE, -1}
      BY <1>1, <3>1 DEF NO_FREE_PAGE
    <3>5. Step(met, i) = Link(IF i = n THEN NO_FREE_PAGE ELSE list[i + 1])
      BY <2>3, <3>1, <3>3, <3>4
    <3>6. i # n => i + 1 \in 1 .. n /\ list[i + 1] < h.count
      BY <1>1, <1>2, <2>3
    <3>7. met[i] = IF i = n THEN NO_FREE_PAGE ELSE list[i + 1]
      BY <1>1, <2>3
    <3> QED
      BY <1>1, <3>5, <3>6, <3>7 DEF NO_FREE_PAGE
  <2> QED
    BY <1>1, <2>1, <2>2, <2>3
<1>4. met = [i \in 0 .. MaxPages |-> Step(met, i)]
  BY <1>3
<1>5. walk = CHOOSE at : at = [i \in 0 .. MaxPages |-> Step(at, i)]
  BY DEF FreeList
<1> HIDE DEF met, walk
<1>6. walk = [i \in 0 .. MaxPages |-> Step(walk, i)]
  BY <1>4, <1>5
<1> DEFINE Same == {i \in Nat : i <= MaxPages => walk[i] = met[i]}
<1>7. 0 \in Same
  BY <1>1, <1>4, <1>6
<1>8. ASSUME NEW i \in Nat, i \in Same PROVE i + 1 \in Same
  <2> SUFFICES ASSUME i + 1 <= MaxPages PROVE walk[i + 1] = met[i + 1]
    OBVIOUS
  <2>1. walk[i] = met[i] /\ i + 1 \in 0 .. MaxPages
    BY <1>1, <1>8
  <2>2. walk[i + 1] = Step(walk, i + 1) /\ met[i + 1] = Step(met, i + 1)
    BY <1>4, <1>6, <2>1
  <2>3. i + 1 # 0 /\ (i + 1) - 1 = i
    OBVIOUS
  <2> QED
    BY <2>1, <2>2, <2>3
<1>9. Nat \subseteq Same
  <2> HIDE DEF Same
  <2> QED
    BY <1>7, <1>8, NatInd
<1>10. \A i \in 0 .. MaxPages : walk[i] = met[i]
  BY <1>1, <1>9
<1> QED
  BY <1>10 DEF Meets, met, walk

(* A list that links the pages nobody holds is what the walk finds.        *)
LEMMA LinkedIsSound ==
    ASSUME NEW h \in Header, NEW pages, NEW used, h.count > 0,
           Linked(h, pages, used)
    PROVE  ListSound(h, pages, used)
<1>1. h.count \in 0 .. MaxPages /\ MaxPages \in Nat
  BY PageIds DEF Header
<1> PICK n \in 0 .. MaxPages :
         \E list \in [1 .. n -> 1 .. h.count - 1] :
            IsFreeList(list, n, h, pages, used)
  BY DEF Linked
<1>2. PICK list \in [1 .. n -> 1 .. h.count - 1] :
         IsFreeList(list, n, h, pages, used)
  OBVIOUS
<1> DEFINE walk == FreeList(h, pages)
<1> HIDE DEF walk
<1>3. \A i \in 0 .. MaxPages :
         walk[i] = IF i < n THEN list[i + 1] ELSE NO_FREE_PAGE
  <2>1. Meets(list, n, h, pages)
    BY <1>1, <1>2, WalkMeetsList
  <2> QED
    BY <2>1 DEF Meets, walk
<1>4. walk[MaxPages] = NO_FREE_PAGE
  BY <1>1, <1>3
<1>5. \A i \in 1 .. n : list[i] \in 1 .. h.count - 1 /\ list[i] # NO_FREE_PAGE
  BY <1>1 DEF NO_FREE_PAGE
<1>6. {walk[i] : i \in 0 .. MaxPages} \ {NO_FREE_PAGE} = {list[i] : i \in 1 .. n}
  <2>1. ASSUME NEW i \in 0 .. MaxPages, walk[i] # NO_FREE_PAGE
        PROVE  \E j \in 1 .. n : walk[i] = list[j]
    BY <1>1, <1>3, <2>1
  <2>2. ASSUME NEW j \in 1 .. n
        PROVE  j - 1 \in 0 .. MaxPages /\ walk[j - 1] = list[j]
    BY <1>1, <1>3
  <2> DEFINE met == {walk[i] : i \in 0 .. MaxPages}
             pagesOf == {list[i] : i \in 1 .. n}
  <2>3. \A x : x \in met \ {NO_FREE_PAGE} => x \in pagesOf
    BY <2>1
  <2>4. \A x : x \in pagesOf => x \in met \ {NO_FREE_PAGE}
    BY <1>5, <2>2
  <2> QED
    BY <2>3, <2>4
<1> QED
  BY <1>2, <1>4, <1>6 DEF ListSound, IsFreeList, walk

(* Distinct members of 1 .. m number at most m.                            *)
LEMMA IndexBound ==
    ASSUME NEW m \in Nat, NEW n \in Nat, NEW f \in [1 .. n -> 1 .. m],
           \A i, j \in 1 .. n : f[i] = f[j] => i = j
    PROVE  n <= m
<1>1. /\ IsFiniteSet(1 .. n) /\ Cardinality(1 .. n) = n
      /\ IsFiniteSet(1 .. m) /\ Cardinality(1 .. m) = m
  BY FS_Interval
<1> QED
  BY <1>1, FS_PigeonHole

(* The list doesn't depend on the pages somebody holds.                    *)
LEMMA LinkFrame ==
    ASSUME NEW h, NEW pages, NEW used, Linked(h, pages, used), h.count \in Nat,
           NEW h2, NEW pages2, h2.count = h.count, h2.head = h.head,
           \A q \in (1 .. h.count - 1) \ used : pages2[q] = pages[q]
    PROVE  Linked(h2, pages2, used)
<1> PICK n \in 0 .. MaxPages :
         \E list \in [1 .. n -> 1 .. h.count - 1] :
            IsFreeList(list, n, h, pages, used)
  BY DEF Linked
<1>1. PICK list \in [1 .. n -> 1 .. h.count - 1] :
         IsFreeList(list, n, h, pages, used)
  OBVIOUS
<1>2. \A i \in 1 .. n : list[i] \in (1 .. h.count - 1) \ used
  BY <1>1 DEF IsFreeList
<1>3. IsFreeList(list, n, h2, pages2, used)
  BY <1>1, <1>2 DEF IsFreeList
<1> QED
  BY <1>3 DEF Linked

(* With no page free there is nothing to link.                             *)
LEMMA LinkNone ==
    ASSUME NEW h, NEW pages, NEW used, h.count \in Nat, h.head = NO_FREE_PAGE,
           1 .. h.count - 1 \subseteq used
    PROVE  Linked(h, pages, used)
<1> DEFINE list == [i \in 1 .. 0 |-> 1]
<1>1. list \in [1 .. 0 -> 1 .. h.count - 1]
  OBVIOUS
<1>2. IsFreeList(list, 0, h, pages, used)
  BY DEF IsFreeList
<1> HIDE DEF list
<1>3. 0 \in 0 .. MaxPages
  BY PageIds
<1> QED
  BY <1>1, <1>2, <1>3 DEF Linked

(* An empty list: every page is somebody's.                                *)
LEMMA LinkEmpty ==
    ASSUME NEW h, NEW pages, NEW used, Linked(h, pages, used), h.count \in Nat,
           h.head = NO_FREE_PAGE
    PROVE  1 .. h.count - 1 \subseteq used
<1> PICK n \in 0 .. MaxPages :
         \E list \in [1 .. n -> 1 .. h.count - 1] :
            IsFreeList(list, n, h, pages, used)
  BY DEF Linked
<1>1. PICK list \in [1 .. n -> 1 .. h.count - 1] :
         IsFreeList(list, n, h, pages, used)
  OBVIOUS
<1>2. n = 0
  <2> SUFFICES ASSUME n # 0 PROVE FALSE
    OBVIOUS
  <2>1. list[1] \in 1 .. h.count - 1
    BY PageIds
  <2> QED
    BY <1>1, <2>1 DEF IsFreeList, NO_FREE_PAGE
<1> QED
  BY <1>1, <1>2 DEF IsFreeList

(* A page given up is put in front of the list.                            *)
LEMMA LinkFree ==
    ASSUME NEW h, NEW pages, NEW used, Linked(h, pages, used),
           h.count \in 0 .. MaxPages,
           NEW p \in 1 .. h.count - 1, p \in used,
           NEW h2, NEW pages2, h2.count = h.count, h2.head = p,
           pages2[p] = FreePage(h.head),
           \A q \in (1 .. h.count - 1) \ used : pages2[q] = pages[q]
    PROVE  Linked(h2, pages2, used \ {p})
<1> PICK n \in 0 .. MaxPages :
         \E list \in [1 .. n -> 1 .. h.count - 1] :
            IsFreeList(list, n, h, pages, used)
  BY DEF Linked
<1>1. PICK list \in [1 .. n -> 1 .. h.count - 1] :
         IsFreeList(list, n, h, pages, used)
  OBVIOUS
<1>2. MaxPages \in Nat /\ n \in Nat /\ h.count \in Nat
  BY PageIds
<1>3. \A i \in 1 .. n : list[i] \in (1 .. h.count - 1) \ used
  BY <1>1 DEF IsFreeList
<1> DEFINE more == [i \in 1 .. n + 1 |-> IF i = 1 THEN p ELSE list[i - 1]]
<1>4. more \in [1 .. n + 1 -> 1 .. h.count - 1]
  BY <1>2
<1>5. more[1] = p /\ \A i \in 1 .. n : more[i + 1] = list[i]
  BY <1>2
<1>6. \A i \in 1 .. n + 1 : i # 1 => i - 1 \in 1 .. n /\ more[i] = list[i - 1]
  BY <1>2
<1> HIDE DEF more
<1>7. \A i, j \in 1 .. n + 1 : more[i] = more[j] => i = j
  <2> SUFFICES ASSUME NEW i \in 1 .. n + 1, NEW j \in 1 .. n + 1,
                      more[i] = more[j]
               PROVE  i = j
    OBVIOUS
  <2>1. CASE i = 1 \/ j = 1
    BY <1>3, <1>5, <1>6, <2>1
  <2>2. CASE i # 1 /\ j # 1
    <3>1. i - 1 = j - 1
      BY <1>1, <1>6, <2>2 DEF IsFreeList
    <3> QED
      BY <1>2, <3>1
  <2> QED
    BY <2>1, <2>2
<1>8. n + 1 \in 0 .. MaxPages
  <2>1. h.count - 1 \in Nat /\ n + 1 \in Nat
    BY <1>2
  <2> DEFINE m == h.count - 1
             k == n + 1
  <2> HIDE DEF m, k
  <2>2. k <= m
    <3>1. m \in Nat /\ k \in Nat /\ more \in [1 .. k -> 1 .. m]
      BY <1>4, <2>1 DEF m, k
    <3>2. \A i, j \in 1 .. k : more[i] = more[j] => i = j
      BY <1>7 DEF k
    <3> QED
      BY <3>1, <3>2, IndexBound
  <2> QED
    BY <1>2, <2>2 DEF m, k
<1>9. {more[i] : i \in 1 .. n + 1} = (1 .. h.count - 1) \ (used \ {p})
  <2>1. ASSUME NEW q \in (1 .. h.count - 1) \ (used \ {p})
        PROVE  \E i \in 1 .. n + 1 : more[i] = q
    <3>1. CASE q = p
      BY <1>2, <1>5, <3>1
    <3>2. CASE q # p
      <4>1. PICK i \in 1 .. n : list[i] = q
        BY <1>1, <2>1, <3>2 DEF IsFreeList
      <4>2. i + 1 \in 1 .. n + 1 /\ more[i + 1] = q
        BY <1>2, <1>5, <4>1
      <4> QED
        BY <4>2
    <3> QED
      BY <3>1, <3>2
  <2>2. ASSUME NEW i \in 1 .. n + 1
        PROVE  more[i] \in (1 .. h.count - 1) \ (used \ {p})
    BY <1>3, <1>5, <1>6
  <2> QED
    BY <2>1, <2>2
<1>10. \A i \in 1 .. n + 1 : pages2[more[i]] =
          FreePage(IF i = n + 1 THEN NO_FREE_PAGE ELSE more[i + 1])
  <2> SUFFICES ASSUME NEW i \in 1 .. n + 1
               PROVE  pages2[more[i]] =
                        FreePage(IF i = n + 1 THEN NO_FREE_PAGE ELSE more[i + 1])
    OBVIOUS
  <2>1. CASE i = 1
    <3>1. h.head = IF n = 0 THEN NO_FREE_PAGE ELSE list[1]
      BY <1>1 DEF IsFreeList
    <3>2. n # 0 => more[i + 1] = list[1]
      BY <1>2, <1>5, <2>1
    <3>3. n = 0 <=> i = n + 1
      BY <1>2, <2>1
    <3> QED
      BY <1>5, <2>1, <3>1, <3>2, <3>3
  <2>2. CASE i # 1
    <3>1. i - 1 \in 1 .. n /\ more[i] = list[i - 1]
      BY <1>6, <2>2
    <3>2. pages2[more[i]] = pages[list[i - 1]]
      BY <1>3, <3>1
    <3>3. pages[list[i - 1]] =
            FreePage(IF i - 1 = n THEN NO_FREE_PAGE ELSE list[(i - 1) + 1])
      BY <1>1, <3>1 DEF IsFreeList
    <3>4. i - 1 = n <=> i = n + 1
      BY <1>2
    <3>5. i - 1 # n => more[i + 1] = list[(i - 1) + 1]
      BY <1>2, <1>5
    <3> QED
      BY <3>2, <3>3, <3>4, <3>5
  <2> QED
    BY <2>1, <2>2
<1>11. h2.head = IF n + 1 = 0 THEN NO_FREE_PAGE ELSE more[1]
  BY <1>2, <1>5
<1>12. IsFreeList(more, n + 1, h2, pages2, used \ {p})
  BY <1>7, <1>9, <1>10, <1>11 DEF IsFreeList
<1> QED
  BY <1>4, <1>8, <1>12 DEF Linked

(* The page the list begins with is nobody's, and leads to another one's   *)
(* id or to the end.                                                       *)
LEMMA LinkHead ==
    ASSUME NEW h, NEW pages, NEW used, Linked(h, pages, used),
           h.count \in 0 .. MaxPages, h.head # NO_FREE_PAGE
    PROVE  /\ h.head \in (1 .. h.count - 1) \ used
           /\ pages[h.head].next \in 0 .. h.count - 1
<1> PICK n \in 0 .. MaxPages :
         \E list \in [1 .. n -> 1 .. h.count - 1] :
            IsFreeList(list, n, h, pages, used)
  BY DEF Linked
<1>1. PICK list \in [1 .. n -> 1 .. h.count - 1] :
         IsFreeList(list, n, h, pages, used)
  OBVIOUS
<1>2. MaxPages \in Nat /\ n \in Nat /\ h.count \in Nat
  BY PageIds
<1>3. n # 0 /\ list[1] = h.head /\ 1 \in 1 .. n
  BY <1>1, <1>2 DEF IsFreeList
<1>4. h.head \in (1 .. h.count - 1) \ used
  BY <1>1, <1>3 DEF IsFreeList
<1>5. pages[h.head] = FreePage(IF 1 = n THEN NO_FREE_PAGE ELSE list[1 + 1])
  BY <1>1, <1>3 DEF IsFreeList
<1>6. pages[h.head].next = IF n = 1 THEN NO_FREE_PAGE ELSE list[2]
  BY <1>5 DEF FreePage
<1>7. n # 1 => list[2] \in 1 .. h.count - 1
  BY <1>2, <1>3
<1> QED
  BY <1>2, <1>4, <1>6, <1>7 DEF NO_FREE_PAGE

(* With the page taken the list is the rest of it.                         *)
LEMMA LinkTake ==
    ASSUME NEW h, NEW pages, NEW used, Linked(h, pages, used),
           h.count \in 0 .. MaxPages, NEW p, h.head = p, p # NO_FREE_PAGE,
           NEW h2, NEW pages2, h2.count = h.count, h2.head = pages[p].next,
           \A q \in (1 .. h.count - 1) \ used : q # p => pages2[q] = pages[q]
    PROVE  Linked(h2, pages2, used \cup {p})
<1> PICK n \in 0 .. MaxPages :
         \E list \in [1 .. n -> 1 .. h.count - 1] :
            IsFreeList(list, n, h, pages, used)
  BY DEF Linked
<1>1. PICK list \in [1 .. n -> 1 .. h.count - 1] :
         IsFreeList(list, n, h, pages, used)
  OBVIOUS
<1>2. MaxPages \in Nat /\ n \in Nat /\ h.count \in Nat
  BY PageIds
<1>3. \A i \in 1 .. n : list[i] \in (1 .. h.count - 1) \ used
  BY <1>1 DEF IsFreeList
<1>4. n # 0 /\ list[1] = p /\ 1 \in 1 .. n
  BY <1>1, <1>2 DEF IsFreeList
<1>5. \A i, j \in 1 .. n : list[i] = list[j] => i = j
  BY <1>1 DEF IsFreeList
<1>6. \A i \in 1 .. n :
         pages[list[i]] = FreePage(IF i = n THEN NO_FREE_PAGE ELSE list[i + 1])
  BY <1>1 DEF IsFreeList
<1>7. pages[p].next = IF n = 1 THEN NO_FREE_PAGE ELSE list[2]
  <2>1. pages[p] = FreePage(IF 1 = n THEN NO_FREE_PAGE ELSE list[1 + 1])
    BY <1>4, <1>6
  <2> QED
    BY <2>1 DEF FreePage
<1> DEFINE rest == [i \in 1 .. n - 1 |-> list[i + 1]]
<1>8. /\ rest \in [1 .. n - 1 -> 1 .. h.count - 1]
      /\ \A i \in 1 .. n - 1 : i + 1 \in 1 .. n /\ rest[i] = list[i + 1]
  BY <1>2
<1>9. n # 1 => rest[1] = list[2]
  BY <1>2, <1>4
<1> HIDE DEF rest
<1>10. \A i, j \in 1 .. n - 1 : rest[i] = rest[j] => i = j
  <2> SUFFICES ASSUME NEW i \in 1 .. n - 1, NEW j \in 1 .. n - 1,
                      rest[i] = rest[j]
               PROVE  i = j
    OBVIOUS
  <2>1. i + 1 = j + 1
    BY <1>5, <1>8
  <2> QED
    BY <2>1
<1>11. \A i \in 1 .. n - 1 : rest[i] # p
  <2> SUFFICES ASSUME NEW i \in 1 .. n - 1, rest[i] = p PROVE FALSE
    OBVIOUS
  <2>1. i + 1 = 1
    BY <1>4, <1>5, <1>8
  <2> QED
    BY <2>1
<1>12. {rest[i] : i \in 1 .. n - 1} = (1 .. h.count - 1) \ (used \cup {p})
  <2>1. ASSUME NEW q \in (1 .. h.count - 1) \ (used \cup {p})
        PROVE  \E i \in 1 .. n - 1 : rest[i] = q
    <3>0. q \in {list[i] : i \in 1 .. n}
      BY <1>1, <2>1 DEF IsFreeList
    <3>1. PICK i \in 1 .. n : list[i] = q
      BY <3>0
    <3>2. i # 1
      BY <1>4, <3>1
    <3>3. i - 1 \in 1 .. n - 1 /\ rest[i - 1] = list[(i - 1) + 1]
      BY <1>2, <1>8, <3>2
    <3>4. (i - 1) + 1 = i
      OBVIOUS
    <3> QED
      BY <3>1, <3>3, <3>4
  <2>2. ASSUME NEW i \in 1 .. n - 1
        PROVE  rest[i] \in (1 .. h.count - 1) \ (used \cup {p})
    BY <1>3, <1>8, <1>11
  <2> DEFINE F == (1 .. h.count - 1) \ (used \cup {p})
  <2> HIDE DEF F
  <2>3. \A q \in F : \E i \in 1 .. n - 1 : rest[i] = q
    BY <2>1 DEF F
  <2>4. \A i \in 1 .. n - 1 : rest[i] \in F
    BY <2>2 DEF F
  <2>5. {rest[i] : i \in 1 .. n - 1} = F
    BY <2>3, <2>4
  <2> QED
    BY <2>5 DEF F
<1>13. \A i \in 1 .. n - 1 : pages2[rest[i]] =
          FreePage(IF i = n - 1 THEN NO_FREE_PAGE ELSE rest[i + 1])
  <2> SUFFICES ASSUME NEW i \in 1 .. n - 1
               PROVE  pages2[rest[i]] =
                        FreePage(IF i = n - 1 THEN NO_FREE_PAGE ELSE rest[i + 1])
    OBVIOUS
  <2>1. pages2[rest[i]] = pages[list[i + 1]]
    BY <1>3, <1>8, <1>11
  <2>2. pages[list[i + 1]] =
          FreePage(IF i + 1 = n THEN NO_FREE_PAGE ELSE list[(i + 1) + 1])
    BY <1>6, <1>8
  <2>3. i + 1 = n <=> i = n - 1
    BY <1>2
  <2>4. i # n - 1 => rest[i + 1] = list[(i + 1) + 1]
    BY <1>2, <1>8
  <2> QED
    BY <2>1, <2>2, <2>3, <2>4
<1>14. h2.head = IF n - 1 = 0 THEN NO_FREE_PAGE ELSE rest[1]
  BY <1>2, <1>7, <1>9
<1>15. IsFreeList(rest, n - 1, h2, pages2, used \cup {p})
  BY <1>10, <1>12, <1>13, <1>14 DEF IsFreeList
<1>16. n - 1 \in 0 .. MaxPages
  BY <1>2, <1>4
<1> QED
  BY <1>8, <1>15, <1>16 DEF Linked

-----------------------------------------------------------------------------
(* What the batch reads, page by page.                                     *)
Seen == [p \in PageId |-> Current(p)]

(* The kinds of page are told apart by their tag.                          *)
LEMMA Kinds ==
    /\ \A h : HeaderPage(h).kind = "header" /\ HeaderPage(h).header = h
    /\ \A p : FreePage(p).kind = "free" /\ FreePage(p).next = p
    /\ \A v : DataPage(v).kind = "data"
    /\ ZeroPage.kind = "zero" /\ OldPage.kind = "old"
    /\ Absent.kind = "absent" /\ Clean.kind = "clean"
BY DEF HeaderPage, FreePage, DataPage, ZeroPage, OldPage, Absent, Clean

(* The initial states satisfy the invariant.                               *)
LEMMA InitIInv == Init => IInv
<1> SUFFICES ASSUME Init PROVE IInv
  OBVIOUS
<1> USE PageIds, Kinds
<1> DEFINE Start ==
        /\ header \in Header /\ header.count > 0 /\ header.head = NO_FREE_PAGE
        /\ header = InFile(committed)
        /\ committed \in [PageId -> Page]
        /\ committed[HEADER_PAGE] \in {Absent, HeaderPage(header)}
        /\ \A p \in PageId : p >= header.count => committed[p] = Absent
        /\ \A p \in PageId : committed[p] # Clean
        /\ \A p \in PageId : committed[p].kind \notin Written
        /\ \A p \in 1 .. header.count - 1 : p \in PageId /\ committed[p] = OldPage
<1>1. Start
  <2>1. CASE header = fresh /\ committed = [p \in PageId |-> Absent]
    <3>1. /\ header.count = 1 /\ header.head = NO_FREE_PAGE
          /\ header.stamp = "current"
      BY <2>1 DEF fresh
    <3>2. header \in Header
      BY <2>1, FileStoreAssumption
         DEF fresh, Header, Stamp, PageId, NO_FREE_PAGE
    <3>3. /\ \A p \in PageId : committed[p] = Absent
          /\ committed \in [PageId -> Page]
      BY <2>1 DEF Page
    <3>4. InFile(committed) = fresh
      BY <3>3 DEF InFile
    <3> QED
      BY <2>1, <3>1, <3>2, <3>3, <3>4 DEF Written
  <2>2. ASSUME NEW stamp \in Stamp,
               header = [count |-> InitPages, head |-> NO_FREE_PAGE,
                         stamp |-> stamp],
               committed = [p \in PageId |->
                              IF p >= InitPages THEN Absent
                              ELSE IF p = HEADER_PAGE THEN HeaderPage(header)
                              ELSE OldPage]
        PROVE  Start
    <3>1. /\ header \in Header /\ header.count = InitPages
          /\ header.head = NO_FREE_PAGE /\ InitPages \in 1 .. MaxPages
      BY <2>2, FileStoreAssumption DEF Header, PageId, NO_FREE_PAGE
    <3>2. /\ committed[HEADER_PAGE] = HeaderPage(header)
          /\ \A p \in PageId : p >= InitPages => committed[p] = Absent
          /\ \A p \in PageId \ {HEADER_PAGE} :
                committed[p] \in {Absent, OldPage}
          /\ \A p \in 1 .. InitPages - 1 : p \in PageId /\ committed[p] = OldPage
      BY <2>2, <3>1 DEF PageId, HEADER_PAGE
    <3>3. committed \in [PageId -> Page]
      BY <2>2, <3>1 DEF Page
    <3>4. InFile(committed) = header
      BY <3>2 DEF InFile
    <3>5. \A p \in PageId : committed[p].kind \in {"header", "absent", "old"}
      BY <3>2
    <3> QED
      BY <3>1, <3>2, <3>3, <3>4, <3>5 DEF Written
  <2> QED
    BY <2>1, <2>2 DEF Init
<1>2. /\ staging = FALSE /\ dirty = None /\ before = None
      /\ replaces_all = FALSE
      /\ replacement = None /\ held = heldBefore /\ header_before = header
      /\ DOMAIN held = 1 .. header.count - 1
      /\ \A p \in DOMAIN held : held[p] = OldPage
  BY DEF Init
<1>3. None \in [PageId -> Page]
  BY DEF None, Page
<1>4. OldPage \in Page
  BY DEF Page
<1>5. TypeOK
  <2>1. DOMAIN heldBefore \subseteq PageId
    BY <1>1, <1>2
  <2> QED
    BY <1>1, <1>2, <1>3, <1>4, <2>1 DEF TypeOK
<1>6. Linked(header, committed, DOMAIN held)
  BY <1>1, <1>2, LinkNone DEF Header
<1>7. FileSound
  BY <1>1, <1>2, <1>6 DEF FileSound, UpToDate
<1>8. \A p \in PageId : Current(p) = committed[p]
  BY <1>2 DEF Current, None
<1>9. Seen = committed
  BY <1>1, <1>8 DEF Seen
<1>10. Linked(header, [p \in PageId |-> Current(p)], DOMAIN held)
  BY <1>6, <1>9 DEF Seen
<1>11. HeldIntact
  BY <1>1, <1>2, <1>8 DEF HeldIntact
<1> QED
  BY <1>1, <1>2, <1>5, <1>7, <1>10, <1>11
     DEF IInv, IdleSound, BatchSound, BeforeKept

-----------------------------------------------------------------------------
(* The steps.                                                              *)

(* A batch reads what it wrote, and the rest as before.                    *)
LEMMA ReadsWritten ==
    ASSUME NEW pages, WriteRaw(pages), ~replaces_all,
           UNCHANGED <<committed, batch>>,
           \A p \in DOMAIN pages : pages[p] # Clean
    PROVE  \A p \in PageId :
              Current(p)' = IF p \in DOMAIN pages THEN pages[p] ELSE Current(p)
BY DEF WriteRaw, Current, batch

(* What is committed stands until it changes.                              *)
LEMMA FileFrame ==
    ASSUME FileSound, committed' = committed, heldBefore' = heldBefore
    PROVE  FileSound' /\ InFile(committed)' = InFile(committed)
<1>1. InFile(committed)' = InFile(committed)
  BY DEF InFile
<1>2. UpToDate(committed, InFile(committed).stamp)'
  BY <1>1 DEF FileSound, UpToDate
<1>3. Linked(InFile(committed), committed, DOMAIN heldBefore)'
  BY <1>1 DEF FileSound
<1> QED
  BY <1>1, <1>2, <1>3 DEF FileSound

(* A batch that writes pages below the count, its header among them if it  *)
(* changes, keeps the invariant, if the list and what is held do.          *)
LEMMA Wrote ==
    ASSUME IInv, staging, ~replaces_all, NEW pages, WriteRaw(pages),
           UNCHANGED <<committed, batch, heldBefore>>,
           DOMAIN pages \subseteq PageId, DOMAIN pages # {},
           \A p \in DOMAIN pages : pages[p] \in Page /\ p < header'.count,
           \A p \in DOMAIN pages \ {HEADER_PAGE} : pages[p].kind \in Written,
           header' \in Header, header'.stamp = "current",
           header'.count >= header.count,
           IF HEADER_PAGE \in DOMAIN pages
           THEN pages[HEADER_PAGE] = HeaderPage(header') ELSE header' = header,
           DOMAIN held' \subseteq 1 .. header'.count - 1,
           \A p \in DOMAIN held' : held'[p] \in Page /\ Current(p)' = held'[p],
           Linked(header', Seen', DOMAIN held')
    PROVE  IInv'
<1> USE PageIds, Kinds
<1>1. /\ staging' = staging /\ header_before' = header_before
      /\ replaces_all' = replaces_all /\ replacement' = replacement
      /\ committed' = committed /\ heldBefore' = heldBefore
  BY DEF batch
<1>2. \A p \in PageId : dirty'[p] = IF p \in DOMAIN pages THEN pages[p]
                                    ELSE dirty[p]
  BY DEF WriteRaw
<1>3. \A p \in DOMAIN pages : pages[p] # Clean
  BY DEF Written
<1>4. TypeOK'
  <2>1. dirty' \in [PageId -> Page] /\ before' \in [PageId -> Page]
    BY DEF WriteRaw, IInv, TypeOK
  <2> QED
    BY <1>1, <2>1 DEF IInv, TypeOK
<1>5. FileSound'
  BY <1>1, FileFrame DEF IInv
<1>6. IdleSound'
  BY <1>1 DEF IdleSound
<1>7. BatchSound'
  <2>1. /\ header_before = InFile(committed) /\ header.count > 0
        /\ dirty[HEADER_PAGE] \in {Clean, HeaderPage(header)}
        /\ dirty[HEADER_PAGE] = Clean => header = header_before
        /\ \A p \in PageId : p >= header.count => dirty[p] = Clean
        /\ \A p \in PageId \ {HEADER_PAGE} :
              dirty[p] # Clean => dirty[p].kind \in Written
        /\ header.count >= header_before.count
        /\ header \in Header
    BY DEF IInv, BatchSound, TypeOK
  <2>2. header_before' = InFile(committed)'
    BY <1>1, <2>1 DEF InFile
  <2>3. header'.count > 0 /\ header'.count >= header_before'.count
    BY <1>1, <2>1 DEF Header, IInv, TypeOK
  <2>4. /\ dirty'[HEADER_PAGE] \in {Clean, HeaderPage(header')}
        /\ dirty'[HEADER_PAGE] = Clean => header' = header_before'
    BY <1>1, <1>2, <1>3, <2>1
  <2>5. \A p \in PageId : p >= header'.count => dirty'[p] = Clean
    BY <1>2, <2>1 DEF Header, PageId
  <2>6. \A p \in PageId \ {HEADER_PAGE} :
           dirty'[p] # Clean => dirty'[p].kind \in Written
    BY <1>2, <2>1
  <2> QED
    BY <1>1, <2>2, <2>3, <2>4, <2>5, <2>6 DEF BatchSound, UpToDate
<1>8. Linked(header, [p \in PageId |-> Current(p)], DOMAIN held)'
  BY DEF Seen
<1>9. HeldIntact'
  BY DEF HeldIntact
<1>10. BeforeKept'
  <2> SUFFICES ASSUME NEW p \in PageId
               PROVE  /\ before'[p] \in {Clean, committed[p]}
                      /\ dirty'[p] # Clean /\ committed[p] # Absent
                           => before'[p] = committed[p]
    BY <1>1 DEF BeforeKept
  <2>1. /\ before[p] \in {Clean, committed[p]}
        /\ dirty[p] # Clean /\ committed[p] # Absent => before[p] = committed[p]
    BY DEF IInv, BeforeKept
  <2>2. before'[p] = IF /\ p \in DOMAIN pages /\ p < header_before.count
                        /\ dirty[p] = Clean /\ committed[p] # Absent
                     THEN committed[p] ELSE before[p]
    BY DEF WriteRaw
  <2>3. committed[p] # Absent => p < header_before.count
    BY DEF IInv, FileSound, BatchSound, Header, PageId
  <2> QED
    BY <1>2, <2>1, <2>2, <2>3
<1> QED
  BY <1>4, <1>5, <1>6, <1>7, <1>8, <1>9, <1>10 DEF IInv

(* What the invariant says of a batch that writes.                         *)
LEMMA Writing ==
    ASSUME IInv, staging, ~replaces_all
    PROVE  /\ header \in Header /\ header.count \in 1 .. MaxPages
           /\ \A p \in PageId : Current(p) \in Page
           /\ Linked(header, Seen, DOMAIN held)
           /\ DOMAIN held \subseteq 1 .. header.count - 1
           /\ 1 .. header.count - 1 \subseteq PageId
           /\ \A p \in DOMAIN held : held[p] \in Page /\ Current(p) = held[p]
<1>1. header \in Header /\ header.count \in 1 .. MaxPages
  BY PageIds DEF IInv, TypeOK, BatchSound, Header
<1>2. \A p \in PageId : Current(p) \in Page
  BY DEF IInv, TypeOK, Current, BatchSound, FileSound
<1>3. DOMAIN held \subseteq 1 .. header.count - 1
  BY DEF IInv, TypeOK
<1>4. 1 .. header.count - 1 \subseteq PageId
  BY <1>1, PageIds DEF PageId
<1>5. \A p \in DOMAIN held : held[p] \in Page
  BY DEF IInv, TypeOK
<1>6. Linked(header, Seen, DOMAIN held)
  BY Zenon DEF IInv, Seen
<1>7. HeldIntact
  BY DEF IInv
<1> QED
  BY <1>1, <1>2, <1>3, <1>4, <1>5, <1>6, <1>7 DEF HeldIntact

(* The pages written with the header, stamped.                             *)
LEMMA HeaderWritten ==
    ASSUME NEW pages, NEW h \in Header, HEADER_PAGE \notin DOMAIN pages
    PROVE  /\ DOMAIN WithHeader(pages, h) = DOMAIN pages \cup {HEADER_PAGE}
           /\ WithHeader(pages, h)[HEADER_PAGE] = HeaderPage(Stamped(h))
           /\ \A p \in DOMAIN pages : WithHeader(pages, h)[p] = pages[p]
           /\ Stamped(h) \in Header /\ Stamped(h).stamp = "current"
           /\ Stamped(h).count = h.count /\ Stamped(h).head = h.head
BY DEF WithHeader, Stamped, Header, Stamp

(* `allocate_page` takes the free list's first page.                       *)
LEMMA AllocateFreeIInv == ASSUME IInv, AllocateFree PROVE IInv'
<1> USE PageIds, Kinds
<1> DEFINE id == header.head
           page == Current(id)
           h1 == [header EXCEPT !.head = page.next]
           S == WithHeader(NoPages, h1)
<1>1. staging /\ ~replaces_all /\ UNCHANGED <<committed, batch, heldBefore>>
  BY DEF AllocateFree
<1>2. id # NO_FREE_PAGE /\ page.kind = "free" /\ page.next < header.count
  BY DEF AllocateFree
<1>3. /\ WriteRaw(S) /\ header' = Stamped(h1)
      /\ held' = [p \in DOMAIN held \cup {id} |->
                    IF p = id THEN page ELSE held[p]]
  BY DEF AllocateFree, WriteWithHeader
<1>4. /\ header \in Header /\ header.count \in 1 .. MaxPages
      /\ \A p \in PageId : Current(p) \in Page
      /\ Linked(header, Seen, DOMAIN held)
      /\ DOMAIN held \subseteq 1 .. header.count - 1
      /\ 1 .. header.count - 1 \subseteq PageId
      /\ \A p \in DOMAIN held : held[p] \in Page /\ Current(p) = held[p]
  BY <1>1, Writing
<1>5. id \in PageId /\ Seen[id] = page
  BY <1>4 DEF Header, Seen
<1>6. id \in (1 .. header.count - 1) \ DOMAIN held
      /\ page.next \in 0 .. header.count - 1
  <2>1. header.count \in 0 .. MaxPages
    BY <1>4
  <2>2. /\ header.head \in (1 .. header.count - 1) \ DOMAIN held
        /\ Seen[header.head].next \in 0 .. header.count - 1
    BY <1>2, <1>4, <2>1, LinkHead
  <2> QED
    BY <1>5, <2>2
<1>7. /\ h1 \in Header /\ h1.count = header.count /\ h1.head = page.next
  BY <1>4, <1>6 DEF Header, PageId
<1> HIDE DEF h1
<1>8. /\ HEADER_PAGE \notin DOMAIN NoPages /\ DOMAIN NoPages = {}
      /\ S = WithHeader(NoPages, h1)
  BY DEF NoPages
<1> HIDE DEF S
<1>9. /\ DOMAIN S = {HEADER_PAGE} /\ S[HEADER_PAGE] = HeaderPage(header')
      /\ header' \in Header /\ header'.stamp = "current"
      /\ header'.count = header.count /\ header'.head = page.next
  <2>1. /\ DOMAIN S = DOMAIN NoPages \cup {HEADER_PAGE}
        /\ S[HEADER_PAGE] = HeaderPage(Stamped(h1))
        /\ Stamped(h1) \in Header /\ Stamped(h1).stamp = "current"
        /\ Stamped(h1).count = h1.count /\ Stamped(h1).head = h1.head
    BY <1>7, <1>8, HeaderWritten
  <2> QED
    BY <1>3, <1>7, <1>8, <2>1
<1>10. \A p \in PageId \ {HEADER_PAGE} : Current(p)' = Current(p)
  <2>1. \A p \in DOMAIN S : S[p] # Clean
    BY <1>9
  <2> QED
    BY <1>1, <1>3, <1>9, <2>1, ReadsWritten
<1>11. Linked(header', Seen', DOMAIN held')
  <2>1. /\ header'.count = header.count /\ header'.head = Seen[id].next
        /\ \A q \in (1 .. header.count - 1) \ DOMAIN held :
              q # id => Seen'[q] = Seen[q]
    BY <1>4, <1>5, <1>9, <1>10 DEF Seen, HEADER_PAGE
  <2>2. header.count \in 0 .. MaxPages /\ header.head = id
    BY <1>4
  <2> HIDE DEF id
  <2>3. Linked(header', Seen', DOMAIN held \cup {id})
    BY <1>2, <1>4, <2>1, <2>2, LinkTake
  <2> QED
    BY <1>3, <2>3
<1>12. \A p \in DOMAIN held' : held'[p] \in Page /\ Current(p)' = held'[p]
  BY <1>3, <1>4, <1>5, <1>6, <1>10 DEF HEADER_PAGE
<1>13. DOMAIN held' \subseteq 1 .. header'.count - 1
  BY <1>3, <1>4, <1>6, <1>9
<1>14. /\ HeaderPage(header') \in Page
       /\ HEADER_PAGE < header'.count /\ header'.count >= header.count
  BY <1>4, <1>9 DEF Page, HEADER_PAGE
<1> QED
  BY <1>1, <1>3, <1>9, <1>11, <1>12, <1>13, <1>14, Wrote

(* ... or a page more, when nobody's page is left.                         *)
LEMMA AllocateNewIInv == ASSUME IInv, AllocateNew PROVE IInv'
<1> USE PageIds, Kinds
<1> DEFINE id == header.count
           h1 == [header EXCEPT !.count = @ + 1]
           P == One(id, ZeroPage)
           S == WithHeader(P, h1)
<1>1. /\ staging /\ ~replaces_all /\ UNCHANGED <<committed, batch, heldBefore>>
      /\ header.head = NO_FREE_PAGE /\ id < MaxPages
  BY DEF AllocateNew
<1>2. /\ WriteRaw(S) /\ header' = Stamped(h1)
      /\ held' = [p \in DOMAIN held \cup {id} |->
                    IF p = id THEN ZeroPage ELSE held[p]]
  BY DEF AllocateNew, WriteWithHeader
<1>3. /\ header \in Header /\ header.count \in 1 .. MaxPages
      /\ \A p \in PageId : Current(p) \in Page
      /\ Linked(header, Seen, DOMAIN held)
      /\ DOMAIN held \subseteq 1 .. header.count - 1
      /\ 1 .. header.count - 1 \subseteq PageId
      /\ \A p \in DOMAIN held : held[p] \in Page /\ Current(p) = held[p]
  BY <1>1, Writing
<1>4. h1 \in Header /\ h1.count = header.count + 1 /\ h1.head = NO_FREE_PAGE
  BY <1>1, <1>3 DEF Header
<1>5. id \in PageId \ {HEADER_PAGE} /\ id \notin DOMAIN held
  BY <1>1, <1>3 DEF PageId, HEADER_PAGE
<1>6. DOMAIN P = {id} /\ P[id] = ZeroPage /\ HEADER_PAGE \notin DOMAIN P
  BY <1>5 DEF One
<1> HIDE DEF h1, P
<1>7. /\ DOMAIN S = {id, HEADER_PAGE} /\ S[HEADER_PAGE] = HeaderPage(header')
      /\ S[id] = ZeroPage
      /\ header' \in Header /\ header'.stamp = "current"
      /\ header'.count = header.count + 1 /\ header'.head = NO_FREE_PAGE
  <2>1. /\ DOMAIN S = DOMAIN P \cup {HEADER_PAGE}
        /\ S[HEADER_PAGE] = HeaderPage(Stamped(h1))
        /\ \A p \in DOMAIN P : S[p] = P[p]
        /\ Stamped(h1) \in Header /\ Stamped(h1).stamp = "current"
        /\ Stamped(h1).count = h1.count /\ Stamped(h1).head = h1.head
    BY <1>4, <1>6, HeaderWritten
  <2> QED
    BY <1>2, <1>4, <1>6, <2>1
<1> HIDE DEF S
<1>8. \A p \in PageId \ {HEADER_PAGE} :
         Current(p)' = IF p = id THEN ZeroPage ELSE Current(p)
  <2>1. \A p \in DOMAIN S : S[p] # Clean
    BY <1>7
  <2> QED
    BY <1>1, <1>2, <1>7, <2>1, ReadsWritten
<1>9. DOMAIN held = 1 .. header.count - 1
  <2>1. header.count \in Nat
    BY <1>3
  <2> QED
    BY <1>1, <1>3, <2>1, LinkEmpty
<1>10. DOMAIN held' = 1 .. header'.count - 1
  BY <1>2, <1>3, <1>7, <1>9
<1>11. Linked(header', Seen', DOMAIN held')
  <2>1. header'.count \in Nat
    BY <1>3, <1>7
  <2> QED
    BY <1>7, <1>10, <2>1, LinkNone
<1>12. \A p \in DOMAIN held' : held'[p] \in Page /\ Current(p)' = held'[p]
  <2>1. ZeroPage \in Page
    BY DEF Page
  <2>2. \A p \in DOMAIN held' : p \in PageId \ {HEADER_PAGE}
    BY <1>2, <1>3, <1>5 DEF HEADER_PAGE
  <2> QED
    BY <1>2, <1>3, <1>8, <2>1, <2>2
<1>13. /\ \A p \in DOMAIN S : S[p] \in Page /\ p < header'.count
       /\ \A p \in DOMAIN S \ {HEADER_PAGE} : S[p].kind \in Written
       /\ DOMAIN S \subseteq PageId /\ DOMAIN S # {}
       /\ HEADER_PAGE \in DOMAIN S
       /\ header'.count >= header.count
  BY <1>3, <1>5, <1>7 DEF Page, HEADER_PAGE, Written
<1>14. DOMAIN held' \subseteq 1 .. header'.count - 1
  BY <1>10
<1> HIDE DEF id
<1> QED
  BY <1>1, <1>2, <1>7, <1>11, <1>12, <1>13, <1>14, Wrote

(* A page somebody holds is written, with the header or under one that is  *)
(* current.                                                                *)
LEMMA DataWritten ==
    ASSUME IInv, staging, ~replaces_all,
           UNCHANGED <<committed, batch, heldBefore>>,
           NEW p \in DOMAIN held, NEW v \in Value, NEW S, WriteRaw(S),
           p \in DOMAIN S, DOMAIN S \subseteq {p, HEADER_PAGE},
           S[p] = DataPage(v),
           header' \in Header, header'.stamp = "current",
           header'.count = header.count, header'.head = header.head,
           IF HEADER_PAGE \in DOMAIN S
           THEN S[HEADER_PAGE] = HeaderPage(header') ELSE header' = header,
           held' = [held EXCEPT ![p] = DataPage(v)]
    PROVE  IInv'
<1> USE PageIds, Kinds
<1>1. /\ header \in Header /\ header.count \in 1 .. MaxPages
      /\ \A q \in PageId : Current(q) \in Page
      /\ Linked(header, Seen, DOMAIN held)
      /\ DOMAIN held \subseteq 1 .. header.count - 1
      /\ 1 .. header.count - 1 \subseteq PageId
      /\ \A q \in DOMAIN held : held[q] \in Page /\ Current(q) = held[q]
  BY Writing
<1>2. p \in PageId \ {HEADER_PAGE} /\ p < header.count
  BY <1>1 DEF HEADER_PAGE
<1>3. \A q \in PageId \ {HEADER_PAGE} :
         Current(q)' = IF q = p THEN DataPage(v) ELSE Current(q)
  <2>1. \A q \in DOMAIN S : S[q] # Clean
    OBVIOUS
  <2> QED
    BY <1>2, <2>1, ReadsWritten
<1>4. DOMAIN held' = DOMAIN held
  OBVIOUS
<1>5. Linked(header', Seen', DOMAIN held')
  <2>1. \A q \in (1 .. header.count - 1) \ DOMAIN held : Seen'[q] = Seen[q]
    BY <1>1, <1>3 DEF Seen, HEADER_PAGE
  <2>2. header.count \in Nat
    BY <1>1
  <2> QED
    BY <1>1, <1>4, <2>1, <2>2, LinkFrame
<1>6. DataPage(v) \in Page /\ HeaderPage(header') \in Page
  BY DEF Page
<1>7. \A q \in DOMAIN held' : held'[q] \in Page /\ Current(q)' = held'[q]
  BY <1>1, <1>3, <1>6 DEF HEADER_PAGE
<1>8. /\ \A q \in DOMAIN S : S[q] \in Page /\ q < header'.count
      /\ \A q \in DOMAIN S \ {HEADER_PAGE} : S[q].kind \in Written
      /\ DOMAIN S \subseteq PageId /\ DOMAIN S # {}
      /\ header'.count >= header.count
  BY <1>1, <1>2, <1>6 DEF HEADER_PAGE, Written
<1>9. DOMAIN held' \subseteq 1 .. header'.count - 1
  BY <1>1, <1>4
<1> QED
  BY <1>5, <1>7, <1>8, <1>9, Wrote

(* `write_page`, under an older header and under this one.                 *)
LEMMA WritePageIInv ==
    ASSUME IInv, NEW p \in PageId, NEW v \in Value, WritePage(p, v)
    PROVE  IInv'
<1> DEFINE P == One(p, DataPage(v))
           S == WithHeader(P, header)
<1>1. /\ staging /\ ~replaces_all /\ UNCHANGED <<committed, batch, heldBefore>>
      /\ p \in DOMAIN held /\ p # HEADER_PAGE
      /\ held' = [held EXCEPT ![p] = DataPage(v)]
  BY DEF WritePage
<1>2. header \in Header /\ DOMAIN P = {p} /\ P[p] = DataPage(v)
  BY DEF IInv, TypeOK, One
<1>3. CASE header.stamp # "current"
  <2>1. WriteRaw(S) /\ header' = Stamped(header)
    BY <1>3 DEF WritePage, WriteWithHeader
  <2> HIDE DEF P
  <2>2. HEADER_PAGE \notin DOMAIN P
    BY <1>1, <1>2
  <2>3. /\ DOMAIN S = DOMAIN P \cup {HEADER_PAGE}
        /\ S[HEADER_PAGE] = HeaderPage(Stamped(header))
        /\ \A q \in DOMAIN P : S[q] = P[q]
        /\ Stamped(header) \in Header /\ Stamped(header).stamp = "current"
        /\ Stamped(header).count = header.count
        /\ Stamped(header).head = header.head
    BY <1>2, <2>2, HeaderWritten
  <2> HIDE DEF S
  <2>4. p \in DOMAIN S /\ DOMAIN S \subseteq {p, HEADER_PAGE}
        /\ S[p] = DataPage(v)
    BY <1>2, <2>3
  <2> QED
    BY <1>1, <2>1, <2>3, <2>4, DataWritten
<1>4. CASE header.stamp = "current"
  <2>1. WriteRaw(P) /\ header' = header
    BY <1>4 DEF WritePage
  <2> HIDE DEF P
  <2> QED
    BY <1>1, <1>2, <1>4, <2>1, DataWritten
<1> QED
  BY <1>3, <1>4

(* `change_page` writes as `write_page` does: the page is staged already.  *)
LEMMA ChangePageIInv ==
    ASSUME IInv, NEW p \in PageId, NEW v \in Value, ChangePage(p, v)
    PROVE  IInv'
<1> USE PageIds
<1> DEFINE P == One(p, DataPage(v))
<1>1. /\ staging /\ ~replaces_all /\ UNCHANGED <<committed, batch, heldBefore>>
      /\ p \in DOMAIN held /\ dirty[p] # Clean
      /\ dirty' = [dirty EXCEPT ![p] = DataPage(v)]
      /\ held' = [held EXCEPT ![p] = DataPage(v)]
      /\ header' = header /\ before' = before
  BY DEF ChangePage
<1>2. header \in Header /\ DOMAIN P = {p} /\ P[p] = DataPage(v)
  BY DEF IInv, TypeOK, One
<1>3. p # HEADER_PAGE
  BY <1>1 DEF IInv, TypeOK, HEADER_PAGE, Header
<1>4. header.stamp = "current"
  BY <1>1, <1>3 DEF IInv, BatchSound, UpToDate
<1> HIDE DEF P
<1>5. WriteRaw(P)
  <2>1. dirty' = [q \in PageId |-> IF q \in DOMAIN P THEN P[q] ELSE dirty[q]]
    BY <1>1, <1>2 DEF IInv, TypeOK
  <2>2. before' = [q \in PageId |->
                     IF /\ q \in DOMAIN P
                        /\ ~replaces_all
                        /\ q < header_before.count
                        /\ dirty[q] = Clean
                        /\ committed[q] # Absent
                     THEN committed[q] ELSE before[q]]
    BY <1>1, <1>2 DEF IInv, TypeOK
  <2> QED
    BY <2>1, <2>2 DEF WriteRaw
<1> QED
  BY <1>1, <1>2, <1>3, <1>4, <1>5, DataWritten

(* `stamp_format_version` writes the header and nothing else.              *)
LEMMA StampFormatIInv == ASSUME IInv, StampFormat PROVE IInv'
<1> USE PageIds, Kinds
<1> DEFINE S == WithHeader(NoPages, header)
<1>1. /\ staging /\ ~replaces_all /\ UNCHANGED <<committed, batch, heldBefore>>
      /\ held' = held /\ WriteRaw(S) /\ header' = Stamped(header)
  BY DEF StampFormat, WriteWithHeader
<1>2. /\ header \in Header /\ header.count \in 1 .. MaxPages
      /\ Linked(header, Seen, DOMAIN held)
      /\ DOMAIN held \subseteq 1 .. header.count - 1
      /\ 1 .. header.count - 1 \subseteq PageId
      /\ \A q \in DOMAIN held : held[q] \in Page /\ Current(q) = held[q]
  BY <1>1, Writing
<1>3. HEADER_PAGE \notin DOMAIN NoPages /\ DOMAIN NoPages = {}
  BY DEF NoPages
<1>4. /\ DOMAIN S = DOMAIN NoPages \cup {HEADER_PAGE}
      /\ S[HEADER_PAGE] = HeaderPage(Stamped(header))
      /\ Stamped(header) \in Header /\ Stamped(header).stamp = "current"
      /\ Stamped(header).count = header.count
      /\ Stamped(header).head = header.head
  BY <1>2, <1>3, HeaderWritten
<1> HIDE DEF S
<1>5. DOMAIN S = {HEADER_PAGE}
  BY <1>3, <1>4
<1>6. \A q \in PageId \ {HEADER_PAGE} : Current(q)' = Current(q)
  <2>1. \A q \in DOMAIN S : S[q] # Clean
    BY <1>4, <1>5
  <2> QED
    BY <1>1, <1>5, <2>1, ReadsWritten
<1>7. Linked(header', Seen', DOMAIN held')
  <2>1. \A q \in (1 .. header.count - 1) \ DOMAIN held : Seen'[q] = Seen[q]
    BY <1>2, <1>6 DEF Seen, HEADER_PAGE
  <2>2. header.count \in Nat
    BY <1>2
  <2> QED
    BY <1>1, <1>2, <1>4, <2>1, <2>2, LinkFrame
<1>8. \A q \in DOMAIN held' : held'[q] \in Page /\ Current(q)' = held'[q]
  BY <1>1, <1>2, <1>6 DEF HEADER_PAGE
<1>9. HeaderPage(header') \in Page
  BY <1>1, <1>4 DEF Page
<1>10. /\ \A q \in DOMAIN S : S[q] \in Page /\ q < header'.count
       /\ HEADER_PAGE \in DOMAIN S
       /\ \A q \in DOMAIN S \ {HEADER_PAGE} : S[q].kind \in Written
       /\ DOMAIN S \subseteq PageId /\ DOMAIN S # {}
       /\ header'.count >= header.count
       /\ DOMAIN held' \subseteq 1 .. header'.count - 1
  BY <1>1, <1>2, <1>4, <1>5, <1>9 DEF HEADER_PAGE
<1> QED
  <2>1. /\ header' \in Header /\ header'.stamp = "current"
        /\ S[HEADER_PAGE] = HeaderPage(header')
    BY <1>1, <1>4
  <2> QED
    BY <1>1, <1>7, <1>8, <1>10, <2>1, Wrote

(* `free_page` links the page in front.                                    *)
LEMMA FreeIInv == ASSUME IInv, NEW p \in PageId, Free(p) PROVE IInv'
<1> USE PageIds, Kinds
<1> DEFINE P == One(p, FreePage(header.head))
           h1 == [header EXCEPT !.head = p]
           S == WithHeader(P, h1)
<1>1. /\ staging /\ ~replaces_all /\ UNCHANGED <<committed, batch, heldBefore>>
      /\ p \in DOMAIN held /\ p # HEADER_PAGE
      /\ WriteRaw(S) /\ header' = Stamped(h1)
      /\ held' = [q \in DOMAIN held \ {p} |-> held[q]]
  BY DEF Free, WriteWithHeader
<1>2. /\ header \in Header /\ header.count \in 1 .. MaxPages
      /\ Linked(header, Seen, DOMAIN held)
      /\ DOMAIN held \subseteq 1 .. header.count - 1
      /\ 1 .. header.count - 1 \subseteq PageId
      /\ \A q \in DOMAIN held : held[q] \in Page /\ Current(q) = held[q]
  BY <1>1, Writing
<1>3. h1 \in Header /\ h1.count = header.count /\ h1.head = p
  BY <1>2 DEF Header
<1>4. /\ DOMAIN P = {p} /\ P[p] = FreePage(header.head)
      /\ HEADER_PAGE \notin DOMAIN P
  BY <1>1 DEF One
<1> HIDE DEF P, h1
<1>5. /\ DOMAIN S = DOMAIN P \cup {HEADER_PAGE}
      /\ S[HEADER_PAGE] = HeaderPage(Stamped(h1))
      /\ \A q \in DOMAIN P : S[q] = P[q]
      /\ Stamped(h1) \in Header /\ Stamped(h1).stamp = "current"
      /\ Stamped(h1).count = h1.count /\ Stamped(h1).head = h1.head
  BY <1>3, <1>4, HeaderWritten
<1> HIDE DEF S
<1>6. /\ DOMAIN S = {p, HEADER_PAGE} /\ S[p] = FreePage(header.head)
      /\ S[HEADER_PAGE] = HeaderPage(header')
      /\ header' \in Header /\ header'.stamp = "current"
      /\ header'.count = header.count /\ header'.head = p
  BY <1>1, <1>3, <1>4, <1>5
<1>7. \A q \in PageId \ {HEADER_PAGE} :
         Current(q)' = IF q = p THEN FreePage(header.head) ELSE Current(q)
  <2>1. \A q \in DOMAIN S : S[q] # Clean
    BY <1>6
  <2> QED
    BY <1>1, <1>6, <2>1, ReadsWritten
<1>8. Linked(header', Seen', DOMAIN held \ {p})
  <2>1. /\ \A q \in (1 .. header.count - 1) \ DOMAIN held : Seen'[q] = Seen[q]
        /\ Seen'[p] = FreePage(header.head)
    BY <1>1, <1>2, <1>7 DEF Seen, HEADER_PAGE
  <2>2. header.count \in 0 .. MaxPages /\ p \in 1 .. header.count - 1
    BY <1>1, <1>2
  <2> QED
    BY <1>1, <1>2, <1>6, <2>1, <2>2, LinkFree
<1>9. Linked(header', Seen', DOMAIN held')
  BY <1>1, <1>8
<1>10. \A q \in DOMAIN held' : held'[q] \in Page /\ Current(q)' = held'[q]
  BY <1>1, <1>2, <1>7 DEF HEADER_PAGE
<1>11. FreePage(header.head) \in Page /\ HeaderPage(header') \in Page
  BY <1>2, <1>6 DEF Page, Header
<1>12. /\ \A q \in DOMAIN S : S[q] \in Page /\ q < header'.count
       /\ \A q \in DOMAIN S \ {HEADER_PAGE} : S[q].kind \in Written
       /\ DOMAIN S \subseteq PageId /\ DOMAIN S # {}
       /\ HEADER_PAGE \in DOMAIN S
       /\ header'.count >= header.count
       /\ DOMAIN held' \subseteq 1 .. header'.count - 1
  BY <1>1, <1>2, <1>6, <1>11 DEF HEADER_PAGE, Written
<1> QED
  BY <1>1, <1>6, <1>9, <1>10, <1>12, Wrote

(* `begin`: nothing is staged yet.                                         *)
LEMMA BeginIInv == ASSUME IInv, Begin PROVE IInv'
<1> USE PageIds, Kinds
<1>1. /\ ~staging /\ staging' = TRUE /\ header_before' = header
      /\ committed' = committed /\ header' = header /\ dirty' = dirty
      /\ before' = before /\ replaces_all' = replaces_all
      /\ replacement' = replacement /\ held' = held /\ heldBefore' = heldBefore
  BY DEF Begin
<1>2. TypeOK'
  BY <1>1 DEF IInv, TypeOK
<1>3. FileSound' /\ InFile(committed)' = InFile(committed)
  BY <1>1, FileFrame DEF IInv
<1>4. /\ header = InFile(committed) /\ ~replaces_all
      /\ \A p \in PageId : dirty[p] = Clean /\ before[p] = Clean
      /\ header.count \in Nat /\ header.count > 0
  BY <1>1 DEF IInv, IdleSound, None, FileSound, TypeOK, Header
<1>5. BatchSound'
  BY <1>1, <1>3, <1>4 DEF BatchSound, UpToDate, Written
<1>6. IdleSound'
  BY <1>1 DEF IdleSound
<1>7. \A p \in PageId : Current(p)' = Current(p)
  BY <1>1 DEF Current
<1>8. Linked(header', [p \in PageId |-> Current(p)]', DOMAIN held')
  <2>1. [p \in PageId |-> Current(p)]' = [p \in PageId |-> Current(p)]
    BY <1>7
  <2> QED
    BY <1>1, <2>1 DEF IInv
<1>9. HeldIntact'
  BY <1>1 DEF IInv, HeldIntact, Current
<1>10. BeforeKept'
  BY <1>1, <1>4 DEF BeforeKept
<1> QED
  BY <1>2, <1>3, <1>5, <1>6, <1>8, <1>9, <1>10 DEF IInv

(* What a batch leaves behind when it has ended: the header and the pages  *)
(* of the file, and nothing staged.                                        *)
LEMMA IdleIInv ==
    ASSUME TypeOK, Ended, header_before' \in Header, FileSound',
           committed' \in [PageId -> Page],
           header' = InFile(committed)', held' = heldBefore',
           \A p \in DOMAIN held' : held'[p] \in Page
    PROVE  IInv'
<1> USE PageIds, Kinds
<1>1. /\ staging' = FALSE /\ dirty' = None /\ before' = None
      /\ replaces_all' = FALSE /\ replacement' = None
  BY DEF Ended
<1>2. None \in [PageId -> Page]
  BY DEF None, Page
<1>3. /\ header' \in Header
      /\ DOMAIN heldBefore' \subseteq 1 .. header'.count - 1
      /\ Linked(header', committed', DOMAIN heldBefore')
      /\ \A p \in DOMAIN heldBefore' : committed'[p] = heldBefore'[p]
  BY DEF FileSound
<1>4. 1 .. header'.count - 1 \subseteq PageId
  BY <1>3 DEF Header, PageId
<1>5. TypeOK'
  BY <1>1, <1>2, <1>3, <1>4 DEF TypeOK
<1>6. \A p \in PageId : Current(p)' = committed'[p]
  BY <1>1 DEF Current, None
<1>7. Linked(header, [p \in PageId |-> Current(p)], DOMAIN held)'
  <2>1. [p \in PageId |-> Current(p)]' = committed'
    BY <1>6
  <2> QED
    BY <1>3, <2>1
<1>8. HeldIntact'
  BY <1>3, <1>4, <1>6 DEF HeldIntact
<1>9. IdleSound' /\ BatchSound' /\ BeforeKept'
  BY <1>1 DEF IdleSound, BatchSound, BeforeKept
<1> QED
  BY <1>5, <1>7, <1>8, <1>9 DEF IInv

(* `commit_beside`: what the batch reads is what is committed now.         *)
LEMMA CommitIInv == ASSUME IInv, Commit PROVE IInv'
<1> USE PageIds, Kinds
<1>1. /\ staging /\ Ended /\ header' = header /\ held' = held
      /\ header_before' = header_before /\ heldBefore' = held
      /\ committed' = [p \in PageId |-> IF p >= header.count THEN Absent
                                        ELSE Current(p)]
  BY DEF Commit
<1>2. /\ header \in Header /\ header.count \in 1 .. MaxPages
      /\ header_before = InFile(committed)
      /\ dirty[HEADER_PAGE] \in {Clean, HeaderPage(header)}
      /\ dirty[HEADER_PAGE] = Clean => header = header_before
      /\ replaces_all => dirty[HEADER_PAGE] # Clean
  BY <1>1 DEF IInv, TypeOK, BatchSound, Header
<1>3. /\ committed[HEADER_PAGE] \in {Absent, HeaderPage(header_before)}
      /\ committed[HEADER_PAGE] = Absent => header_before = fresh
  BY <1>2 DEF IInv, FileSound, InFile
<1>4. committed'[HEADER_PAGE] = Current(HEADER_PAGE)
  BY <1>1, <1>2 DEF HEADER_PAGE
<1>5. /\ committed'[HEADER_PAGE] \in {Absent, HeaderPage(header)}
      /\ InFile(committed)' = header
  <2>1. CASE dirty[HEADER_PAGE] # Clean
    BY <1>2, <1>4, <2>1 DEF Current, InFile
  <2>2. CASE dirty[HEADER_PAGE] = Clean
    BY <1>2, <1>3, <1>4, <2>2 DEF Current, InFile
  <2> QED
    BY <2>1, <2>2
<1>6. \A p \in PageId : Current(p) \in Page /\ Current(p) # Clean
  BY <1>1 DEF IInv, TypeOK, FileSound, BatchSound, Current
<1>7. committed' \in [PageId -> Page]
  BY <1>1, <1>6 DEF Page
<1>8. \A p \in PageId : Current(p).kind \in Written => header.stamp = "current"
  <2> SUFFICES ASSUME NEW p \in PageId, Current(p).kind \in Written
               PROVE  header.stamp = "current"
    OBVIOUS
  <2>1. CASE dirty[p] # Clean \/ replaces_all
    BY <1>1, <2>1 DEF IInv, BatchSound, UpToDate, Current
  <2>2. CASE dirty[p] = Clean /\ ~replaces_all
    <3>1. InFile(committed).stamp = "current"
      BY <2>2 DEF IInv, FileSound, UpToDate, Current
    <3> QED
      BY <1>1, <1>2, <2>2, <3>1 DEF IInv, BatchSound
  <2> QED
    BY <2>1, <2>2
<1>9. UpToDate(committed', header'.stamp)
  BY <1>1, <1>8 DEF UpToDate, Written
<1>10. DOMAIN held \subseteq 1 .. header.count - 1
       /\ 1 .. header.count - 1 \subseteq PageId
  BY <1>2 DEF IInv, TypeOK, PageId
<1>11. Linked(header', committed', DOMAIN held)
  <2>1. Linked(header, Seen, DOMAIN held)
    BY DEF IInv, Seen
  <2>2. \A q \in (1 .. header.count - 1) \ DOMAIN held :
           committed'[q] = Seen[q]
    BY <1>1, <1>2, <1>10 DEF Seen
  <2>3. header.count \in Nat
    BY <1>2
  <2> QED
    BY <1>1, <2>1, <2>2, <2>3, LinkFrame
<1>12. \A p \in DOMAIN held : committed'[p] = held[p] /\ held[p] \in Page
  BY <1>1, <1>2, <1>10 DEF IInv, HeldIntact, TypeOK
<1>13. /\ \A p \in PageId : p >= header.count => committed'[p] = Absent
       /\ \A p \in PageId : committed'[p] # Clean
  BY <1>1, <1>6
<1>14. FileSound'
  <2> DEFINE h == InFile(committed)'
  <2>1. h = header
    BY <1>5
  <2> HIDE DEF h
  <2>2. /\ h \in Header /\ h.count > 0
        /\ committed'[HEADER_PAGE] \in {Absent, HeaderPage(h)}
        /\ \A p \in PageId : p >= h.count => committed'[p] = Absent
        /\ \A p \in PageId : committed'[p] # Clean
        /\ UpToDate(committed', h.stamp)
        /\ Linked(h, committed', DOMAIN heldBefore')
        /\ DOMAIN heldBefore' \subseteq 1 .. h.count - 1
        /\ \A p \in DOMAIN heldBefore' : committed'[p] = heldBefore'[p]
    BY <1>1, <1>2, <1>5, <1>9, <1>10, <1>11, <1>12, <1>13, <2>1
  <2> QED
    BY <2>2 DEF FileSound, h
<1> QED
  <2>1. TypeOK /\ header_before' \in Header
    BY <1>1 DEF IInv, TypeOK
  <2> QED
    BY <1>1, <1>5, <1>7, <1>12, <1>14, <2>1, IdleIInv

(* `rollback`: dirty pages and header alike.                               *)
LEMMA RollbackIInv == ASSUME IInv, Rollback PROVE IInv'
<1>1. /\ staging /\ Ended /\ header' = header_before /\ held' = heldBefore
      /\ header_before' = header_before /\ heldBefore' = heldBefore
      /\ committed' = committed
  BY DEF Rollback
<1>2. FileSound' /\ InFile(committed)' = InFile(committed)
  BY <1>1, FileFrame DEF IInv
<1>3. header_before = InFile(committed)
  BY <1>1 DEF IInv, BatchSound
<1>4. /\ TypeOK /\ header_before' \in Header
      /\ committed' \in [PageId -> Page]
      /\ \A p \in DOMAIN held' : held'[p] \in Page
  BY <1>1 DEF IInv, TypeOK
<1> QED
  BY <1>1, <1>2, <1>3, <1>4, IdleIInv

(* An open finds what was committed.                                       *)
LEMMA ReopenIInv == ASSUME IInv, Reopen PROVE IInv'
<1>1. /\ Ended /\ header' = InFile(committed) /\ held' = heldBefore
      /\ header_before' = header_before /\ heldBefore' = heldBefore
      /\ committed' = committed
  BY DEF Reopen
<1>2. FileSound' /\ InFile(committed)' = InFile(committed)
  BY <1>1, FileFrame DEF IInv
<1>3. /\ TypeOK /\ header_before' \in Header
      /\ committed' \in [PageId -> Page]
      /\ \A p \in DOMAIN held' : held'[p] \in Page
  BY <1>1 DEF IInv, TypeOK
<1> QED
  BY <1>1, <1>2, <1>3, IdleIInv

(* `replace_all`: every page is the image's, and none is free.             *)
LEMMA ReplaceAllIInv ==
    ASSUME IInv, NEW n \in 2 .. MaxPages, NEW v \in Value, ReplaceAll(n, v)
    PROVE  IInv'
<1> USE PageIds, Kinds
<1>1. /\ staging /\ staging' = staging /\ replaces_all' = TRUE
      /\ replacement' = [p \in PageId |-> IF p \in 1 .. n - 1 THEN DataPage(v)
                                          ELSE Absent]
      /\ before' = None
      /\ header' = Stamped([header EXCEPT !.count = n, !.head = NO_FREE_PAGE])
      /\ dirty' = [None EXCEPT ![HEADER_PAGE] = HeaderPage(header')]
      /\ held' = [p \in 1 .. n - 1 |-> DataPage(v)]
      /\ committed' = committed /\ header_before' = header_before
      /\ heldBefore' = heldBefore
  BY DEF ReplaceAll
<1>2. header \in Header
  BY DEF IInv, TypeOK
<1>3. /\ header' \in Header /\ header'.count = n
      /\ header'.head = NO_FREE_PAGE /\ header'.stamp = "current"
  <2> DEFINE h1 == [header EXCEPT !.count = n, !.head = NO_FREE_PAGE]
  <2>0. n \in 0 .. MaxPages /\ NO_FREE_PAGE \in PageId
    BY DEF NO_FREE_PAGE, HEADER_PAGE
  <2>1. h1 \in Header /\ h1.count = n /\ h1.head = NO_FREE_PAGE
    BY <1>2, <2>0 DEF Header
  <2> HIDE DEF h1
  <2>2. /\ Stamped(h1) \in Header /\ Stamped(h1).count = n
        /\ Stamped(h1).head = NO_FREE_PAGE /\ Stamped(h1).stamp = "current"
    BY <2>1 DEF Stamped, Header, Stamp
  <2>3. header' = Stamped(h1)
    BY <1>1 DEF h1
  <2> QED
    BY <2>2, <2>3
<1>4. /\ dirty'[HEADER_PAGE] = HeaderPage(header')
      /\ \A p \in PageId \ {HEADER_PAGE} : dirty'[p] = Clean
      /\ dirty' \in [PageId -> Page]
  BY <1>1, <1>3 DEF None, Page
<1>5. /\ replacement' \in [PageId -> Page] /\ before' \in [PageId -> Page]
      /\ DataPage(v) \in Page
  BY <1>1 DEF None, Page
<1>6. 1 .. n - 1 \subseteq PageId
  BY DEF PageId
<1>7. TypeOK'
  BY <1>1, <1>3, <1>4, <1>5 DEF IInv, TypeOK
<1>8. FileSound' /\ InFile(committed)' = InFile(committed)
  BY <1>1, FileFrame DEF IInv
<1>9. /\ replacement'[HEADER_PAGE] = Absent
      /\ \A p \in PageId : replacement'[p] # Clean
      /\ \A p \in PageId : p >= n => replacement'[p] = Absent
  BY <1>1 DEF HEADER_PAGE, PageId
<1>10. BatchSound'
  <2>1. header_before = InFile(committed)
    BY <1>1 DEF IInv, BatchSound
  <2>2. \A p \in PageId : p >= n => dirty'[p] = Clean
    BY <1>4 DEF HEADER_PAGE, PageId
  <2> QED
    BY <1>1, <1>3, <1>4, <1>8, <1>9, <2>1, <2>2 DEF BatchSound, UpToDate
<1>11. \A p \in 1 .. n - 1 : Current(p)' = DataPage(v)
  BY <1>1, <1>4, <1>6 DEF Current, HEADER_PAGE
<1>12. HeldIntact'
  BY <1>1, <1>11 DEF HeldIntact
<1>13. Linked(header, [p \in PageId |-> Current(p)], DOMAIN held)'
  <2>1. /\ header'.count \in Nat
        /\ 1 .. header'.count - 1 \subseteq DOMAIN held'
    BY <1>1, <1>3
  <2> QED
    BY <1>3, <2>1, LinkNone
<1>14. IdleSound' /\ BeforeKept'
  BY <1>1 DEF IdleSound, BeforeKept
<1> QED
  BY <1>7, <1>8, <1>10, <1>12, <1>13, <1>14 DEF IInv

-----------------------------------------------------------------------------
(* The theorems.                                                           *)

(* Every step keeps the invariant.                                         *)
LEMMA NextIInv == ASSUME IInv, [Next]_vars PROVE IInv'
<1>1. CASE UNCHANGED vars
  <2>1. /\ committed' = committed /\ header' = header /\ staging' = staging
        /\ header_before' = header_before /\ dirty' = dirty /\ before' = before
        /\ replaces_all' = replaces_all /\ replacement' = replacement
        /\ held' = held /\ heldBefore' = heldBefore
    BY <1>1 DEF vars
  <2>2. FileSound' /\ InFile(committed)' = InFile(committed)
    BY <2>1, FileFrame DEF IInv
  <2>3. TypeOK'
    BY <2>1 DEF IInv, TypeOK
  <2>4. IdleSound' /\ BatchSound'
    BY <2>1, <2>2 DEF IInv, IdleSound, BatchSound, UpToDate
  <2>5. Linked(header, [p \in PageId |-> Current(p)], DOMAIN held)'
    <3>1. [p \in PageId |-> Current(p)]' = [p \in PageId |-> Current(p)]
      BY <2>1 DEF Current
    <3> QED
      BY <2>1, <3>1 DEF IInv
  <2>6. HeldIntact' /\ BeforeKept'
    BY <2>1 DEF IInv, HeldIntact, BeforeKept, Current
  <2> QED
    BY <2>2, <2>3, <2>4, <2>5, <2>6 DEF IInv
<1> QED
  BY <1>1, BeginIInv, AllocateFreeIInv, AllocateNewIInv, WritePageIInv,
     ChangePageIInv, FreeIInv, StampFormatIInv, ReplaceAllIInv, CommitIInv,
     RollbackIInv, ReopenIInv
     DEF Next

(* The invariant of file.rs's writer, for any number of pages.             *)
THEOREM SpecIInv == Spec => []IInv
BY InitIInv, NextIInv, PTL DEF Spec

(* The variables have their types: what is held is below the page count.   *)
THEOREM TypeCorrect == Spec => []TypeOK
<1>1. IInv => TypeOK
  BY DEF IInv
<1> QED
  BY <1>1, SpecIInv, PTL

(* `free_list`: the walk from the head ends, and meets the pages nobody    *)
(* holds, each once and no other; so `allocate_page` never hands out a     *)
(* page somebody holds, and `free_page` never loses one.                   *)
THEOREM FreeListIsSound == Spec => []FreeListSound
<1>1. IInv => FreeListSound
  <2> SUFFICES ASSUME IInv PROVE FreeListSound
    OBVIOUS
  <2>1. header \in Header /\ header.count > 0
    BY DEF IInv, TypeOK, IdleSound, BatchSound, FileSound
  <2>2. Linked(header, Seen, DOMAIN held)
    BY DEF IInv, Seen
  <2>3. ListSound(header, Seen, DOMAIN held)
    BY <2>1, <2>2, LinkedIsSound
  <2> QED
    BY <2>3 DEF FreeListSound, Seen
<1> QED
  BY <1>1, SpecIInv, PTL

(* A page somebody holds is as they wrote it, whatever else the store did. *)
THEOREM HeldPagesIntact == Spec => []HeldIntact
<1>1. IInv => HeldIntact
  BY DEF IInv
<1> QED
  BY <1>1, SpecIInv, PTL

(* What is committed is a whole database by itself: header, free list and  *)
(* pages, as the writer that committed it sees them.                       *)
THEOREM CommittedIsWhole == Spec => []CommittedWhole
<1>1. IInv => CommittedWhole
  <2> SUFFICES ASSUME IInv PROVE CommittedWhole
    OBVIOUS
  <2> DEFINE h == InFile(committed)
  <2>1. h = IF staging THEN header_before ELSE header
    BY DEF IInv, IdleSound, BatchSound
  <2>2. /\ h \in Header /\ h.count > 0
        /\ Linked(h, committed, DOMAIN heldBefore)
        /\ \A p \in DOMAIN heldBefore : committed[p] = heldBefore[p]
    BY DEF IInv, FileSound
  <2> HIDE DEF h
  <2>3. ListSound(h, committed, DOMAIN heldBefore)
    BY <2>2, LinkedIsSound
  <2> QED
    BY <2>1, <2>2, <2>3 DEF CommittedWhole, h
<1> QED
  BY <1>1, SpecIInv, PTL

(* `write_raw` keeps the committed page with its first change: a snapshot  *)
(* goes on reading it.                                                     *)
THEOREM BeforeIsKept == Spec => []BeforeKept
<1>1. IInv => BeforeKept
  BY DEF IInv
<1> QED
  BY <1>1, SpecIInv, PTL

(* No committed page of this build's is under an older build's stamp.      *)
THEOREM StampFirst == Spec => []StampedWithFirstPage
<1>1. IInv => StampedWithFirstPage
  <2> SUFFICES ASSUME IInv, NEW p \in PageId,
                      committed[p].kind \in {"data", "free", "zero"}
               PROVE  committed[HEADER_PAGE].header.stamp = "current"
    BY DEF StampedWithFirstPage
  <2>1. p < InFile(committed).count /\ InFile(committed).stamp = "current"
    BY Kinds, PageIds
       DEF IInv, FileSound, UpToDate, Written, Header, PageId
  <2>2. committed[HEADER_PAGE] # Absent
    <3> SUFFICES ASSUME committed[HEADER_PAGE] = Absent PROVE FALSE
      OBVIOUS
    <3>1. InFile(committed).count = 1
      BY DEF InFile, fresh
    <3>2. p = HEADER_PAGE
      BY <2>1, <3>1 DEF PageId, HEADER_PAGE
    <3> QED
      BY <3>2, Kinds
  <2> QED
    BY <2>1, <2>2 DEF InFile
<1> QED
  BY <1>1, SpecIInv, PTL
=============================================================================
