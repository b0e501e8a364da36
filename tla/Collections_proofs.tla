-------------------------- MODULE Collections_proofs --------------------------
(***************************************************************************)
(* IInv is an invariant of Collections, for any calls, documents, indexes  *)
(* and filters: after every operation of every call, each index holds the  *)
(* keys of the documents there are, and no others.  With it, unique        *)
(* indexes stay unique, and a collection implements DocumentSet.  What it  *)
(* takes of the parameters is that a key tells whose it is, that equal     *)
(* values are found under the same part of a key, and, for DocumentSet,    *)
(* that filters are answered right.                                        *)
(***************************************************************************)
EXTENDS Collections, SequenceTheorems, TLAPS

\* key::doc_id finds the id that key::secondary and key::compound end a key
\* with.
KeysLeadBack ==
    \A doc, index, id : \A k \in KeysOf(doc, index, id) : IdOfKey(k) = id

\* unique_tuples go by what an index is declared to be; same_values is an
\* equality; and the document that has values equal to a tuple's has a key
\* that begins as the tuple's part says.
TuplesKeyed ==
    /\ \A doc, index :
          TuplesOf(doc, Declared(index)) = {t.values : t \in Tuples(doc, index)}
    /\ \A x, y : SameValues(x, y) => SameValues(y, x)
    /\ \A x, y, z : SameValues(x, y) /\ SameValues(y, z) => SameValues(x, z)
    /\ \A doc, other, index, id :
          \A t \in Tuples(doc, index), u \in Tuples(other, index) :
             SameValues(t.values, u.values) =>
                \E k \in KeysOf(other, index, id) : UnderPart(t.part, k)

-----------------------------------------------------------------------------
(* What an index holds.                                                    *)

\* Where a document is, as update_secondary_indexes is told of it.
Where(c, id) == IF id \in DOMAIN c.primary
                THEN <<At(DocAt(c, id), c.primary[id])>> ELSE <<>>
Filled(c, index) == [k \in FilledKeys(c, index) |-> c.primary[IdOfKey(k)]]

\* Two collections with the same documents but for id's.
SameBut(c, d, id) ==
    /\ \A other : other # id =>
          (other \in DOMAIN c.primary <=> other \in DOMAIN d.primary)
    /\ \A other \in DOMAIN c.primary : other # id =>
          DocAt(c, other) = DocAt(d, other) /\ c.primary[other] = d.primary[other]

(* A key an index holds is one of the document it names.                   *)
LEMMA FilledBy ==
    ASSUME KeysLeadBack, NEW c, NEW index, NEW k
    PROVE  k \in FilledKeys(c, index) <=>
              /\ IdOfKey(k) \in DOMAIN c.primary
              /\ k \in KeysOf(DocAt(c, IdOfKey(k)), index, IdOfKey(k))
BY DEF FilledKeys, KeysLeadBack

(* The keys of a document that may not be there.                           *)
LEMMA KeysWhere ==
    ASSUME NEW c, NEW index, NEW id
    PROVE  /\ id \in DOMAIN c.primary =>
                 KeysAt(index, id, Where(c, id)) = KeysOf(DocAt(c, id), index, id)
           /\ id \notin DOMAIN c.primary => KeysAt(index, id, Where(c, id)) = {}
<1>1. CASE id \in DOMAIN c.primary
  <2>1. Where(c, id) # <<>> /\ Where(c, id)[1].doc = DocAt(c, id)
    BY <1>1 DEF Where, At
  <2> QED
    BY <1>1, <2>1 DEF KeysAt
<1>2. CASE id \notin DOMAIN c.primary
  BY <1>2 DEF Where, KeysAt
<1> QED
  BY <1>1, <1>2

(* update_secondary_indexes leaves an index with the keys of the documents *)
(* there are, wherever the one written was and is.                         *)
LEMMA EntriesFollow ==
    ASSUME KeysLeadBack, NEW c, NEW d, NEW id, NEW index,
           SameBut(c, d, id),
           c.trees[index.root] = Filled(c, index)
    PROVE  EntriesAfter(c, index, id, Where(c, id), Where(d, id))
             = Filled(d, index)
<1> DEFINE old == Where(c, id)
           new == Where(d, id)
           before == KeysAt(index, id, old)
           after == KeysAt(index, id, new)
           moved == HasMoved(old, new)
           gone == {k \in before : moved \/ k \notin after}
           come == {k \in after : moved \/ k \notin before}
           tree == c.trees[index.root]
           dom == (DOMAIN tree \ gone) \cup come
           result == [k \in dom |-> IF k \in come THEN new[1].loc ELSE tree[k]]
<1>1. EntriesAfter(c, index, id, old, new) = result
  BY DEF EntriesAfter
<1>2. \A k : k \in before <=> /\ id \in DOMAIN c.primary
                              /\ k \in KeysOf(DocAt(c, id), index, id)
  BY KeysWhere
<1>3. \A k : k \in after <=> /\ id \in DOMAIN d.primary
                             /\ k \in KeysOf(DocAt(d, id), index, id)
  BY KeysWhere
<1>4. /\ id \in DOMAIN d.primary => new[1].loc = d.primary[id]
      /\ id \in DOMAIN d.primary /\ id \in DOMAIN c.primary =>
            (moved <=> c.primary[id] # d.primary[id])
      /\ id \notin DOMAIN d.primary \/ id \notin DOMAIN c.primary => moved
  BY DEF Where, At, HasMoved
<1>5. /\ DOMAIN tree = FilledKeys(c, index)
      /\ \A k \in FilledKeys(c, index) : tree[k] = c.primary[IdOfKey(k)]
  BY DEF Filled
<1> HIDE DEF before, after, tree, moved, new, old
<1>6. \A k : k \in before \/ k \in after => IdOfKey(k) = id
  BY <1>2, <1>3 DEF KeysLeadBack
<1>7. ASSUME NEW k PROVE k \in dom <=> k \in FilledKeys(d, index)
  <2>1. CASE IdOfKey(k) = id
    <3>1. k \in FilledKeys(c, index) <=> k \in before
      BY <1>2, <2>1, FilledBy
    <3>2. k \in FilledKeys(d, index) <=> k \in after
      BY <1>3, <2>1, FilledBy
    <3> QED
      BY <1>5, <3>1, <3>2
  <2>2. CASE IdOfKey(k) # id
    <3>1. k \notin before /\ k \notin after
      BY <1>6, <2>2
    <3>2. k \in FilledKeys(c, index) <=> k \in FilledKeys(d, index)
      BY <2>2, FilledBy DEF SameBut
    <3> QED
      BY <1>5, <3>1, <3>2
  <2> QED
    BY <2>1, <2>2
<1>8. ASSUME NEW k \in dom
      PROVE  (IF k \in come THEN new[1].loc ELSE tree[k]) = d.primary[IdOfKey(k)]
  <2>1. CASE k \in come
    BY <1>3, <1>4, <1>6, <2>1
  <2>2. CASE k \notin come
    <3>1. k \in FilledKeys(c, index) /\ k \notin gone
      BY <1>5, <2>2
    <3>2. tree[k] = c.primary[IdOfKey(k)] /\ IdOfKey(k) \in DOMAIN c.primary
      BY <1>5, <3>1, FilledBy
    <3>3. CASE IdOfKey(k) # id
      BY <2>2, <3>2, <3>3 DEF SameBut
    <3>4. CASE IdOfKey(k) = id
      <4>1. k \in before
        BY <1>2, <3>1, <3>4, FilledBy
      <4>2. k \in after /\ ~moved
        BY <3>1, <4>1
      <4> QED
        BY <1>3, <1>4, <2>2, <3>2, <3>4, <4>2
    <3> QED
      BY <3>3, <3>4
  <2> QED
    BY <2>1, <2>2
<1> HIDE DEF dom
<1>9. dom = FilledKeys(d, index)
  BY <1>7
<1> HIDE DEF come
<1>10. result = Filled(d, index)
  BY <1>8, <1>9 DEF Filled
<1> QED
  BY <1>1, <1>10 DEF old, new

(* A document's write made in every index leaves the collection sound.     *)
LEMMA SecondarySound ==
    ASSUME KeysLeadBack, NEW c, NEW d, NEW id, Sound(c), SameBut(c, d, id),
           d = [heap |-> d.heap, primary |-> d.primary,
                indexes |-> d.indexes, trees |-> d.trees],
           d.indexes = c.indexes,
           d.trees = SecondaryAfter(c, id, Where(c, id), Where(d, id)),
           DOMAIN d.heap = {d.primary[e] : e \in DOMAIN d.primary},
           \A e \in DOMAIN d.primary : d.heap[d.primary[e]].id = e
    PROVE  Sound(d)
<1>1. OwnTrees(c) /\ EntriesMatch(c)
  BY DEF Sound
<1>2. /\ DOMAIN d.trees = DOMAIN c.trees
      /\ \A r \in DOMAIN c.trees :
            (\E i \in DOMAIN c.indexes : c.indexes[i].root = r) =>
            d.trees[r] = EntriesAfter(c, c.indexes[CHOOSE i \in DOMAIN c.indexes :
                                                      c.indexes[i].root = r],
                                      id, Where(c, id), Where(d, id))
  BY DEF SecondaryAfter
<1>3. OwnTrees(d)
  BY <1>1, <1>2 DEF OwnTrees
<1>4. ASSUME NEW i \in DOMAIN c.indexes
      PROVE  d.trees[c.indexes[i].root] = Filled(d, c.indexes[i])
  <2> DEFINE index == c.indexes[i]
             r == index.root
             at == CHOOSE j \in DOMAIN c.indexes : c.indexes[j].root = r
  <2>1. r \in DOMAIN c.trees
    BY <1>1 DEF OwnTrees
  <2>2. at \in DOMAIN c.indexes /\ c.indexes[at].root = r
    OBVIOUS
  <2>3. at = i
    BY <1>1, <2>2 DEF OwnTrees
  <2>4. d.trees[r] = EntriesAfter(c, c.indexes[at], id, Where(c, id), Where(d, id))
    BY <1>2, <2>1
  <2>5. c.trees[r] = Filled(c, index)
    BY <1>1 DEF EntriesMatch, Filled
  <2> HIDE DEF at
  <2>6. EntriesAfter(c, index, id, Where(c, id), Where(d, id)) = Filled(d, index)
    BY <2>5, EntriesFollow
  <2> QED
    BY <2>3, <2>4, <2>6
<1>5. EntriesMatch(d)
  BY <1>4 DEF EntriesMatch, Filled
<1> QED
  BY <1>3, <1>5 DEF Sound

-----------------------------------------------------------------------------
(* The writes of one document.                                             *)

(* A collection with nothing in it.                                        *)
LEMMA EmptySound == Sound(Empty)
<1>1. /\ Empty.heap = [l \in {} |-> 0] /\ Empty.primary = [id \in {} |-> 0]
      /\ Empty.indexes = <<>> /\ Empty.trees = [r \in {} |-> 0]
      /\ DOMAIN Empty.indexes = {}
  BY DEF Empty
<1>2. OwnTrees(Empty)
  BY <1>1 DEF OwnTrees, Range
<1>3. EntriesMatch(Empty)
  BY <1>1 DEF EntriesMatch
<1> QED
  BY <1>1, <1>2, <1>3 DEF Sound, Empty

(* No two documents lie at one place.                                      *)
LEMMA PlacesApart ==
    ASSUME NEW c, Sound(c)
    PROVE  /\ \A d, e \in DOMAIN c.primary : c.primary[d] = c.primary[e] => d = e
           /\ \A d \in DOMAIN c.primary : c.primary[d] \in DOMAIN c.heap
BY DEF Sound, EntriesMatch

(* What a function's values are.                                           *)
LEMMA ValuesOf ==
    ASSUME NEW f, NEW D,
           \A l : l \in D <=> \E e \in DOMAIN f : f[e] = l
    PROVE  D = {f[e] : e \in DOMAIN f}
OBVIOUS

\* One document written, and nothing else: what it was is gone from its
\* place, what it is lies in its own.
OneWritten(c, d, id) ==
    /\ d = [heap |-> d.heap, primary |-> d.primary,
            indexes |-> d.indexes, trees |-> d.trees]
    /\ d.indexes = c.indexes
    /\ d.trees = SecondaryAfter(c, id, Where(c, id), Where(d, id))
    /\ \A e : e # id => (e \in DOMAIN c.primary <=> e \in DOMAIN d.primary)
    /\ \A e \in DOMAIN c.primary : e # id =>
          /\ d.primary[e] = c.primary[e]
          /\ d.heap[c.primary[e]] = c.heap[c.primary[e]]
    /\ \A l : l \in DOMAIN d.heap <=>
          \/ /\ l \in DOMAIN c.heap
             /\ id \in DOMAIN c.primary => l # c.primary[id]
          \/ id \in DOMAIN d.primary /\ l = d.primary[id]
    /\ id \in DOMAIN d.primary => d.heap[d.primary[id]].id = id

(* It leaves the collection sound.                                         *)
LEMMA WriteSound ==
    ASSUME KeysLeadBack, NEW c, NEW d, NEW id, Sound(c), OneWritten(c, d, id)
    PROVE  Sound(d)
<1> USE DEF OneWritten
<1>1. SameBut(c, d, id)
  BY DEF SameBut, DocAt
<1>2. /\ DOMAIN c.heap = {c.primary[e] : e \in DOMAIN c.primary}
      /\ \A e \in DOMAIN c.primary : c.heap[c.primary[e]].id = e
  BY DEF Sound, EntriesMatch
<1>3. \A e \in DOMAIN d.primary : d.heap[d.primary[e]].id = e
  BY <1>2
<1>4. ASSUME NEW l
      PROVE  l \in DOMAIN d.heap <=> \E e \in DOMAIN d.primary : d.primary[e] = l
  <2>1. ASSUME l \in DOMAIN d.heap
        PROVE  \E e \in DOMAIN d.primary : d.primary[e] = l
    <3>1. CASE id \in DOMAIN d.primary /\ l = d.primary[id]
      BY <3>1
    <3>2. CASE l \in DOMAIN c.heap /\ (id \in DOMAIN c.primary => l # c.primary[id])
      <4>1. PICK e \in DOMAIN c.primary : c.primary[e] = l
        BY <1>2, <3>2
      <4>2. e # id
        BY <3>2, <4>1
      <4> QED
        BY <4>1, <4>2
    <3> QED
      BY <2>1, <3>1, <3>2
  <2>2. ASSUME NEW e \in DOMAIN d.primary, d.primary[e] = l
        PROVE  l \in DOMAIN d.heap
    <3>1. CASE e = id
      BY <2>2, <3>1
    <3>2. CASE e # id
      <4>1. e \in DOMAIN c.primary /\ c.primary[e] = l
        BY <2>2, <3>2
      <4>2. l \in DOMAIN c.heap
        BY <1>2, <4>1
      <4>3. id \in DOMAIN c.primary => l # c.primary[id]
        BY <1>2, <3>2, <4>1
      <4> QED
        BY <4>2, <4>3
    <3> QED
      BY <3>1, <3>2
  <2> QED
    BY <2>1, <2>2
<1>5. DOMAIN d.heap = {d.primary[e] : e \in DOMAIN d.primary}
  BY <1>4, ValuesOf
<1> QED
  BY <1>1, <1>3, <1>5, SecondarySound

\* The collection after each write, as apply_write_op leaves it.
Inserted(c, id, doc, loc) ==
    [c EXCEPT !.heap = [l \in DOMAIN @ \cup {loc} |->
                          IF l = loc THEN [id |-> id, doc |-> doc] ELSE @[l]],
              !.primary = [e \in DOMAIN @ \cup {id} |->
                             IF e = id THEN loc ELSE @[e]],
              !.trees = SecondaryAfter(c, id, <<>>, <<At(doc, loc)>>)]
Updated(c, id, doc, loc, to) ==
    [c EXCEPT !.heap = [l \in (DOMAIN @ \ {loc}) \cup {to} |->
                          IF l = to THEN [id |-> id, doc |-> doc] ELSE @[l]],
              !.primary[id] = to,
              !.trees = SecondaryAfter(c, id, <<At(c.heap[loc].doc, loc)>>,
                                       <<At(doc, to)>>)]
Removed(c, id, loc) ==
    [c EXCEPT !.heap = [l \in DOMAIN @ \ {loc} |-> @[l]],
              !.primary = [e \in DOMAIN @ \ {id} |-> @[e]],
              !.trees = SecondaryAfter(c, id, <<At(c.heap[loc].doc, loc)>>, <<>>)]

(* Insert.                                                                 *)
LEMMA InsertSound ==
    ASSUME KeysLeadBack, NEW c, Sound(c), NEW id, NEW doc,
           id \notin DOMAIN c.primary, NEW loc, loc \notin DOMAIN c.heap,
           NEW d, d = Inserted(c, id, doc, loc)
    PROVE  /\ OneWritten(c, d, id) /\ Sound(d)
           /\ id \in DOMAIN d.primary /\ DocAt(d, id) = doc
<1>2. c = [heap |-> c.heap, primary |-> c.primary,
           indexes |-> c.indexes, trees |-> c.trees]
  BY DEF Sound
<1>3. /\ d = [heap |-> d.heap, primary |-> d.primary,
              indexes |-> d.indexes, trees |-> d.trees]
      /\ d.indexes = c.indexes
      /\ d.heap = [l \in DOMAIN c.heap \cup {loc} |->
                     IF l = loc THEN [id |-> id, doc |-> doc] ELSE c.heap[l]]
      /\ d.primary = [e \in DOMAIN c.primary \cup {id} |->
                        IF e = id THEN loc ELSE c.primary[e]]
      /\ d.trees = SecondaryAfter(c, id, <<>>, <<At(doc, loc)>>)
  BY <1>2 DEF Inserted
<1>4. /\ DOMAIN d.heap = DOMAIN c.heap \cup {loc}
      /\ d.heap[loc] = [id |-> id, doc |-> doc]
      /\ \A l \in DOMAIN c.heap : d.heap[l] = c.heap[l]
      /\ DOMAIN d.primary = DOMAIN c.primary \cup {id}
      /\ d.primary[id] = loc
      /\ \A e \in DOMAIN c.primary : d.primary[e] = c.primary[e]
  BY <1>3
<1>5. Where(c, id) = <<>> /\ Where(d, id) = <<At(doc, loc)>>
  BY <1>4 DEF Where, DocAt
<1>6. \A e \in DOMAIN c.primary : c.primary[e] \in DOMAIN c.heap
  BY PlacesApart
<1>7. OneWritten(c, d, id)
  BY <1>3, <1>4, <1>5, <1>6 DEF OneWritten
<1>8. DocAt(d, id) = doc
  BY <1>4 DEF DocAt
<1> QED
  BY <1>4, <1>7, <1>8, WriteSound

(* Update: in its place, or moved to a free one.                           *)
LEMMA UpdateSound ==
    ASSUME KeysLeadBack, NEW c, Sound(c), NEW id \in DOMAIN c.primary, NEW doc,
           NEW loc, loc = c.primary[id], NEW to,
           to = loc \/ to \notin DOMAIN c.heap,
           NEW d, d = Updated(c, id, doc, loc, to)
    PROVE  /\ OneWritten(c, d, id) /\ Sound(d)
           /\ id \in DOMAIN d.primary /\ DocAt(d, id) = doc
<1>1. c = [heap |-> c.heap, primary |-> c.primary,
           indexes |-> c.indexes, trees |-> c.trees]
  BY DEF Sound
<1>2. /\ d = [heap |-> d.heap, primary |-> d.primary,
              indexes |-> d.indexes, trees |-> d.trees]
      /\ d.indexes = c.indexes
      /\ d.heap = [l \in (DOMAIN c.heap \ {loc}) \cup {to} |->
                     IF l = to THEN [id |-> id, doc |-> doc] ELSE c.heap[l]]
      /\ d.primary = [c.primary EXCEPT ![id] = to]
      /\ d.trees = SecondaryAfter(c, id, <<At(c.heap[loc].doc, loc)>>,
                                  <<At(doc, to)>>)
  BY <1>1 DEF Updated
<1>3. /\ DOMAIN d.heap = (DOMAIN c.heap \ {loc}) \cup {to}
      /\ d.heap[to] = [id |-> id, doc |-> doc]
      /\ \A l \in DOMAIN c.heap : l # loc => l # to /\ d.heap[l] = c.heap[l]
      /\ DOMAIN d.primary = DOMAIN c.primary
      /\ d.primary[id] = to
      /\ \A e \in DOMAIN c.primary : e # id => d.primary[e] = c.primary[e]
  BY <1>2
<1>4. \A e \in DOMAIN c.primary : e # id =>
         c.primary[e] \in DOMAIN c.heap /\ c.primary[e] # loc
  BY PlacesApart
<1>5. /\ Where(c, id) = <<At(c.heap[loc].doc, loc)>>
      /\ Where(d, id) = <<At(doc, to)>>
  BY <1>3 DEF Where, DocAt
<1>6. OneWritten(c, d, id)
  BY <1>2, <1>3, <1>4, <1>5 DEF OneWritten
<1>7. DocAt(d, id) = doc
  BY <1>3 DEF DocAt
<1> QED
  BY <1>3, <1>6, <1>7, WriteSound

(* Delete.                                                                 *)
LEMMA DeleteSound ==
    ASSUME KeysLeadBack, NEW c, Sound(c), NEW id \in DOMAIN c.primary,
           NEW loc, loc = c.primary[id], NEW d, d = Removed(c, id, loc)
    PROVE  OneWritten(c, d, id) /\ Sound(d) /\ id \notin DOMAIN d.primary
<1>1. c = [heap |-> c.heap, primary |-> c.primary,
           indexes |-> c.indexes, trees |-> c.trees]
  BY DEF Sound
<1>2. /\ d = [heap |-> d.heap, primary |-> d.primary,
              indexes |-> d.indexes, trees |-> d.trees]
      /\ d.indexes = c.indexes
      /\ d.heap = [l \in DOMAIN c.heap \ {loc} |-> c.heap[l]]
      /\ d.primary = [e \in DOMAIN c.primary \ {id} |-> c.primary[e]]
      /\ d.trees = SecondaryAfter(c, id, <<At(c.heap[loc].doc, loc)>>, <<>>)
  BY <1>1 DEF Removed
<1>3. /\ DOMAIN d.heap = DOMAIN c.heap \ {loc}
      /\ \A l \in DOMAIN c.heap : l # loc => d.heap[l] = c.heap[l]
      /\ DOMAIN d.primary = DOMAIN c.primary \ {id}
      /\ \A e \in DOMAIN c.primary : e # id => d.primary[e] = c.primary[e]
  BY <1>2
<1>4. \A e \in DOMAIN c.primary : e # id =>
         c.primary[e] \in DOMAIN c.heap /\ c.primary[e] # loc
  BY PlacesApart
<1>5. /\ Where(c, id) = <<At(c.heap[loc].doc, loc)>>
      /\ Where(d, id) = <<>>
  BY <1>3 DEF Where, DocAt
<1>6. OneWritten(c, d, id)
  BY <1>2, <1>3, <1>4, <1>5 DEF OneWritten
<1> QED
  BY <1>3, <1>6, WriteSound

-----------------------------------------------------------------------------
(* The indexes made and dropped.                                           *)

(* A sequence is one of what it holds.                                     *)
LEMMA OfItsOwn ==
    ASSUME NEW T, NEW s \in Seq(T)
    PROVE  /\ s \in Seq(Range(s)) /\ Len(s) \in Nat /\ DOMAIN s = 1 .. Len(s)
<1>1. Len(s) \in Nat /\ DOMAIN s = 1 .. Len(s) /\ s \in [1 .. Len(s) -> T]
  OBVIOUS
<1>2. s \in [1 .. Len(s) -> Range(s)]
  BY <1>1 DEF Range
<1> QED
  BY <1>1, <1>2

IsLonger(s, e, t) ==
    /\ t \in Seq(Range(t)) /\ Len(s) \in Nat
    /\ DOMAIN s = 1 .. Len(s) /\ DOMAIN t = 1 .. Len(s) + 1
    /\ t[Len(s) + 1] = e /\ \A i \in 1 .. Len(s) : t[i] = s[i]

(* An index more.                                                          *)
LEMMA Longer ==
    ASSUME NEW s, s \in Seq(Range(s)), NEW e, NEW t, t = Append(s, e)
    PROVE  IsLonger(s, e, t)
<1> DEFINE T == Range(s) \cup {e}
<1>1. s \in Seq(T) /\ e \in T
  <2>1. Range(s) \subseteq T /\ s \in Seq(Range(s))
    OBVIOUS
  <2> HIDE DEF T
  <2>2. s \in Seq(T)
    BY <2>1
  <2> QED
    BY <2>2 DEF T
<1> HIDE DEF T
<1>2. t \in Seq(T)
  BY <1>1
<1>3. t \in Seq(Range(t))
  BY <1>2, OfItsOwn
<1>4. /\ Len(s) \in Nat
      /\ DOMAIN s = 1 .. Len(s) /\ DOMAIN t = 1 .. Len(s) + 1
      /\ t[Len(s) + 1] = e /\ \A i \in 1 .. Len(s) : t[i] = s[i]
  BY <1>1
<1> QED
  BY <1>3, <1>4 DEF IsLonger

(* An index less.                                                          *)
LEMMA Shorter ==
    ASSUME NEW s, s \in Seq(Range(s)), NEW at \in DOMAIN s, NEW t,
           t = RemoveAt(s, at)
    PROVE  /\ t \in Seq(Range(t)) /\ Len(s) \in Nat
           /\ DOMAIN s = 1 .. Len(s) /\ DOMAIN t = 1 .. Len(s) - 1
           /\ \A i \in DOMAIN t : t[i] = s[IF i < at THEN i ELSE i + 1]
<1> DEFINE T == Range(s)
           before == SubSeq(s, 1, at - 1)
           after == SubSeq(s, at + 1, Len(s))
<1>1. s \in Seq(T) /\ Len(s) \in Nat /\ DOMAIN s = 1 .. Len(s)
  OBVIOUS
<1> HIDE DEF T
<1>2. at \in 1 .. Len(s)
  BY <1>1
<1>3. /\ before \in Seq(T) /\ Len(before) = at - 1
      /\ \A i \in 1 .. at - 1 : before[i] = s[i]
  BY <1>1, <1>2
<1>4. /\ after \in Seq(T) /\ Len(after) = Len(s) - at
      /\ \A i \in 1 .. Len(s) - at : after[i] = s[at + i]
  BY <1>1, <1>2
<1> HIDE DEF before, after
<1>5. t = before \o after
  BY DEF RemoveAt, before, after
<1>6. /\ t \in Seq(T) /\ Len(t) = Len(s) - 1
      /\ \A i \in 1 .. Len(s) - 1 :
            t[i] = IF i <= at - 1 THEN before[i] ELSE after[i - (at - 1)]
  <2>1. /\ t \in Seq(T) /\ Len(t) = Len(before) + Len(after)
        /\ \A i \in 1 .. Len(before) + Len(after) :
              t[i] = IF i <= Len(before) THEN before[i]
                     ELSE after[i - Len(before)]
    <3>1. before \in Seq(T) /\ after \in Seq(T)
      BY <1>3, <1>4
    <3>2. /\ before \o after \in Seq(T)
          /\ Len(before \o after) = Len(before) + Len(after)
          /\ \A i \in 1 .. Len(before) + Len(after) :
                (before \o after)[i] = IF i <= Len(before) THEN before[i]
                                       ELSE after[i - Len(before)]
      BY <3>1, ConcatProperties
    <3> QED
      BY <1>5, <3>2
  <2>2. (at - 1) + (Len(s) - at) = Len(s) - 1
    BY <1>1, <1>2
  <2> QED
    BY <1>3, <1>4, <2>1, <2>2
<1>7. DOMAIN t = 1 .. Len(s) - 1 /\ t \in Seq(Range(t))
  BY <1>6, OfItsOwn
<1>8. ASSUME NEW i \in DOMAIN t
      PROVE  t[i] = s[IF i < at THEN i ELSE i + 1]
  <2>1. i \in 1 .. Len(s) - 1
    BY <1>7
  <2>2. CASE i < at
    <3>1. i \in 1 .. at - 1 /\ i <= at - 1
      BY <1>2, <2>1, <2>2
    <3> QED
      BY <1>3, <1>6, <2>1, <2>2, <3>1
  <2>3. CASE ~(i < at)
    <3>1. /\ ~(i <= at - 1) /\ i - (at - 1) \in 1 .. Len(s) - at
          /\ at + (i - (at - 1)) = i + 1
      BY <1>2, <2>1, <2>3
    <3>2. t[i] = after[i - (at - 1)]
      BY <1>6, <2>1, <3>1
    <3>3. after[i - (at - 1)] = s[at + (i - (at - 1))]
      BY <1>4, <3>1
    <3> QED
      BY <2>3, <3>1, <3>2, <3>3
  <2> QED
    BY <2>2, <2>3
<1> QED
  BY <1>1, <1>7, <1>8

\* The collection with an index more, filled.
Built(c, index, root) ==
    [c EXCEPT !.indexes = Append(@, index),
              !.trees = [r \in DOMAIN @ \cup {root} |->
                            IF r = root THEN [k \in FilledKeys(c, index) |->
                                                c.primary[IdOfKey(k)]]
                            ELSE @[r]]]

(* build_index: the new index holds every document's keys.                 *)
LEMMA BuildSound ==
    ASSUME NEW c, Sound(c), NEW index, NEW root, index.root = root,
           root \notin DOMAIN c.trees, IndexesOn(c, index.fields) = {}, NEW d,
           d = Built(c, index, root)
    PROVE  Sound(d)
<1> DEFINE n == Len(c.indexes)
<1>1. /\ c = [heap |-> c.heap, primary |-> c.primary,
              indexes |-> c.indexes, trees |-> c.trees]
      /\ OwnTrees(c) /\ EntriesMatch(c)
  BY DEF Sound
<1>2. /\ d = [heap |-> d.heap, primary |-> d.primary,
              indexes |-> d.indexes, trees |-> d.trees]
      /\ d.heap = c.heap /\ d.primary = c.primary
      /\ d.indexes = Append(c.indexes, index)
      /\ d.trees = [r \in DOMAIN c.trees \cup {root} |->
                      IF r = root THEN Filled(c, index) ELSE c.trees[r]]
  BY <1>1 DEF Filled, Built
<1>3. /\ d.indexes \in Seq(Range(d.indexes)) /\ n \in Nat
      /\ DOMAIN c.indexes = 1 .. n /\ DOMAIN d.indexes = 1 .. n + 1
      /\ d.indexes[n + 1] = index
      /\ \A i \in 1 .. n : d.indexes[i] = c.indexes[i]
  <2> DEFINE s == c.indexes
             t == d.indexes
  <2>1. s \in Seq(Range(s)) /\ t = Append(s, index)
    BY <1>1, <1>2 DEF OwnTrees
  <2> HIDE DEF s, t
  <2>2. IsLonger(s, index, t)
    BY <2>1, Longer
  <2> QED
    BY <2>2 DEF IsLonger, s, t
<1>4. /\ DOMAIN d.trees = DOMAIN c.trees \cup {root}
      /\ d.trees[root] = Filled(c, index)
      /\ \A r \in DOMAIN c.trees : d.trees[r] = c.trees[r]
  BY <1>2
<1> HIDE DEF n
<1>5. \A i \in 1 .. n :
         /\ c.indexes[i].root \in DOMAIN c.trees /\ c.indexes[i].root # root
         /\ c.indexes[i].fields # index.fields
  BY <1>1, <1>3 DEF OwnTrees, IndexesOn
<1>6. \A i \in 1 .. n + 1 : i = n + 1 \/ i \in 1 .. n
  BY <1>3
<1>7. OwnTrees(d)
  <2>1. ASSUME NEW i \in DOMAIN d.indexes
        PROVE  d.indexes[i].root \in DOMAIN d.trees
    <3>1. CASE i = n + 1
      BY <1>3, <1>4, <3>1
    <3>2. CASE i \in 1 .. n
      BY <1>3, <1>4, <1>5, <3>2
    <3> QED
      BY <1>3, <1>6, <3>1, <3>2
  <2>2. ASSUME NEW i \in DOMAIN d.indexes, NEW j \in DOMAIN d.indexes,
               d.indexes[i].root = d.indexes[j].root
               \/ d.indexes[i].fields = d.indexes[j].fields
        PROVE  i = j
    <3>1. CASE i \in 1 .. n /\ j \in 1 .. n
      BY <1>1, <1>3, <2>2, <3>1 DEF OwnTrees
    <3>2. CASE i \in 1 .. n /\ j = n + 1
      BY <1>3, <1>5, <2>2, <3>2
    <3>3. CASE i = n + 1 /\ j \in 1 .. n
      BY <1>3, <1>5, <2>2, <3>3
    <3> QED
      BY <1>3, <1>6, <3>1, <3>2, <3>3
  <2> QED
    BY <1>3, <2>1, <2>2 DEF OwnTrees
<1>8. \A x : Filled(d, x) = Filled(c, x)
  BY <1>2 DEF Filled, FilledKeys, DocAt
<1>9. ASSUME NEW i \in DOMAIN d.indexes
      PROVE  d.trees[d.indexes[i].root] = Filled(d, d.indexes[i])
  <2>1. CASE i = n + 1
    <3>1. d.indexes[i] = index /\ d.indexes[i].root = root
      BY <1>3, <2>1
    <3>2. Filled(d, index) = Filled(c, index)
      BY <1>8
    <3> QED
      BY <1>4, <3>1, <3>2
  <2>2. CASE i \in 1 .. n
    <3>1. c.trees[c.indexes[i].root] = Filled(c, c.indexes[i])
      BY <1>1, <1>3, <2>2 DEF EntriesMatch, Filled
    <3> QED
      BY <1>3, <1>4, <1>5, <1>8, <2>2, <3>1
  <2> QED
    BY <1>3, <1>6, <2>1, <2>2
<1>10. EntriesMatch(d)
  <2>1. /\ DOMAIN d.heap = {d.primary[id] : id \in DOMAIN d.primary}
        /\ \A id \in DOMAIN d.primary : d.heap[d.primary[id]].id = id
    BY <1>1, <1>2 DEF EntriesMatch
  <2> QED
    BY <1>9, <2>1 DEF EntriesMatch, Filled
<1> QED
  BY <1>2, <1>7, <1>10 DEF Sound

(* drop_index: the others keep their trees.                                *)
LEMMA DropIndexSound ==
    ASSUME NEW c, Sound(c), NEW at \in DOMAIN c.indexes, NEW freed,
           freed = c.indexes[at].root, NEW d,
           d = [c EXCEPT !.indexes = RemoveAt(@, at),
                         !.trees = [r \in DOMAIN @ \ {freed} |-> @[r]]]
    PROVE  Sound(d)
<1> DEFINE n == Len(c.indexes)
           Was(i) == IF i < at THEN i ELSE i + 1
<1>1. /\ c = [heap |-> c.heap, primary |-> c.primary,
              indexes |-> c.indexes, trees |-> c.trees]
      /\ OwnTrees(c) /\ EntriesMatch(c)
  BY DEF Sound
<1>2. /\ d = [heap |-> d.heap, primary |-> d.primary,
              indexes |-> d.indexes, trees |-> d.trees]
      /\ d.heap = c.heap /\ d.primary = c.primary
      /\ d.indexes = RemoveAt(c.indexes, at)
      /\ d.trees = [r \in DOMAIN c.trees \ {freed} |-> c.trees[r]]
  BY <1>1
<1>3. /\ d.indexes \in Seq(Range(d.indexes)) /\ n \in Nat
      /\ DOMAIN c.indexes = 1 .. n /\ DOMAIN d.indexes = 1 .. n - 1
      /\ \A i \in DOMAIN d.indexes : d.indexes[i] = c.indexes[Was(i)]
  BY <1>1, <1>2, Shorter DEF OwnTrees
<1> HIDE DEF n
<1>4. /\ \A i \in DOMAIN d.indexes : Was(i) \in DOMAIN c.indexes /\ Was(i) # at
      /\ \A i, j \in DOMAIN d.indexes : Was(i) = Was(j) => i = j
  BY <1>3
<1> HIDE DEF Was
<1>5. \A i \in DOMAIN d.indexes :
         /\ d.indexes[i] = c.indexes[Was(i)]
         /\ d.indexes[i].root \in DOMAIN c.trees /\ d.indexes[i].root # freed
  BY <1>1, <1>3, <1>4 DEF OwnTrees
<1>6. \A i \in DOMAIN d.indexes :
         /\ d.indexes[i].root \in DOMAIN d.trees
         /\ d.trees[d.indexes[i].root] = c.trees[d.indexes[i].root]
  BY <1>2, <1>5
<1>7. OwnTrees(d)
  <2>1. ASSUME NEW i \in DOMAIN d.indexes, NEW j \in DOMAIN d.indexes,
               d.indexes[i].root = d.indexes[j].root
               \/ d.indexes[i].fields = d.indexes[j].fields
        PROVE  i = j
    <3>1. Was(i) = Was(j)
      BY <1>1, <1>4, <1>5, <2>1 DEF OwnTrees
    <3> QED
      BY <1>4, <3>1
  <2> QED
    BY <1>3, <1>6, <2>1 DEF OwnTrees
<1>8. \A x : Filled(d, x) = Filled(c, x)
  BY <1>2 DEF Filled, FilledKeys, DocAt
<1>9. ASSUME NEW i \in DOMAIN d.indexes
      PROVE  d.trees[d.indexes[i].root] = Filled(d, d.indexes[i])
  <2>1. c.trees[c.indexes[Was(i)].root] = Filled(c, c.indexes[Was(i)])
    BY <1>1, <1>4 DEF EntriesMatch, Filled
  <2> QED
    BY <1>5, <1>6, <1>8, <2>1
<1>10. EntriesMatch(d)
  <2>1. /\ DOMAIN d.heap = {d.primary[id] : id \in DOMAIN d.primary}
        /\ \A id \in DOMAIN d.primary : d.heap[d.primary[id]].id = id
    BY <1>1, <1>2 DEF EntriesMatch
  <2> QED
    BY <1>9, <2>1 DEF EntriesMatch, Filled
<1> QED
  BY <1>2, <1>7, <1>10 DEF Sound

-----------------------------------------------------------------------------
(* The operations.                                                         *)

(* An operation that leaves a sound copy, or fails.                        *)
LEMMA MadeIInv ==
    ASSUME IInv, NEW c, Sound(c), NEW ops, NEW written, Made(c, ops, written)
    PROVE  IInv'
<1>1. coll' = coll /\ work' = c
  BY DEF Made
<1> QED
  BY <1>1 DEF IInv

(* An error throws the copy away.                                          *)
LEMMA FailIInv ==
    ASSUME IInv, NEW error, Fail(error)
    PROVE  IInv'
<1>1. coll' = coll /\ work' = Empty
  BY DEF Fail
<1> QED
  BY <1>1, EmptySound DEF IInv

(* Insert.                                                                 *)
LEMMA InsertIInv ==
    ASSUME KeysLeadBack, IInv, NEW id, NEW doc, NEW written,
           InsertRecord(id, doc, written)
    PROVE  IInv'
<1> DEFINE loc == Place(work)
           d == Inserted(work, id, doc, loc)
<1>1. \/ \E error : Fail(error)
      \/ id \notin DOMAIN work.primary /\ HasPlace(work) /\ Made(d, <<>>, written)
  BY DEF InsertRecord, Inserted
<1>2. ASSUME id \notin DOMAIN work.primary, HasPlace(work)
      PROVE  Sound(d)
  <2>1. Sound(work) /\ loc \notin DOMAIN work.heap
    BY <1>2 DEF IInv, Place, HasPlace
  <2> QED
    BY <1>2, <2>1, InsertSound
<1> HIDE DEF d
<1> QED
  BY <1>1, <1>2, MadeIInv, FailIInv

(* Update.                                                                 *)
LEMMA UpdateIInv ==
    ASSUME KeysLeadBack, IInv, NEW id, NEW doc, NEW written,
           UpdateRecord(id, doc, written)
    PROVE  IInv'
<1> DEFINE loc == work.primary[id]
           to == IF Outgrows(work.heap[loc].doc, doc) THEN Place(work) ELSE loc
           d == Updated(work, id, doc, loc, to)
<1>1. \/ \E error : Fail(error)
      \/ /\ id \in DOMAIN work.primary /\ (to = loc \/ HasPlace(work))
         /\ Made(d, <<>>, written)
  <2>1. <<At(work.heap[loc].doc, loc)>>[1].doc = work.heap[loc].doc
    BY DEF At
  <2> QED
    BY <2>1 DEF UpdateRecord, Updated
<1>2. to = loc \/ HasPlace(work) => to = loc \/ to \notin DOMAIN work.heap
  BY DEF HasPlace, Place
<1> HIDE DEF to, loc
<1>3. ASSUME id \in DOMAIN work.primary, to = loc \/ HasPlace(work)
      PROVE  Sound(d)
  <2>1. Sound(work) /\ loc = work.primary[id]
    BY DEF IInv, loc
  <2>2. to = loc \/ to \notin DOMAIN work.heap
    BY <1>2, <1>3
  <2> QED
    BY <1>3, <2>1, <2>2, UpdateSound
<1> HIDE DEF d
<1> QED
  BY <1>1, <1>3, MadeIInv, FailIInv

(* Delete.                                                                 *)
LEMMA DeleteIInv ==
    ASSUME KeysLeadBack, IInv, NEW id, NEW written, DeleteRecord(id, written)
    PROVE  IInv'
<1> DEFINE loc == work.primary[id]
           d == Removed(work, id, loc)
<1>1. \/ \E error : Fail(error)
      \/ id \in DOMAIN work.primary /\ Made(d, <<>>, written)
  BY DEF DeleteRecord, Removed
<1> HIDE DEF loc
<1>2. ASSUME id \in DOMAIN work.primary PROVE Sound(d)
  <2>1. Sound(work) /\ loc = work.primary[id]
    BY DEF IInv, loc
  <2> QED
    BY <1>2, <2>1, DeleteSound
<1> HIDE DEF d
<1> QED
  BY <1>1, <1>2, MadeIInv, FailIInv

(* An index asked for.                                                     *)
LEMMA EnsureIInv ==
    ASSUME IInv, NEW asked, EnsureIndex(asked)
    PROVE  IInv'
<1> DEFINE root == CHOOSE r \in Roots : r \notin DOMAIN work.trees
           index == [fields |-> asked.fields, unique |-> asked.unique,
                     sparse |-> asked.sparse, root |-> root]
           d == Built(work, index, root)
<1>1. \/ \E error : Fail(error)
      \/ Made(work, <<>>, Counted(0))
      \/ /\ IndexesOn(work, asked.fields) = {}
         /\ \E r \in Roots : r \notin DOMAIN work.trees
         /\ Made(d, <<>>, Counted(1))
  BY DEF EnsureIndex, Built
<1>2. Sound(work)
  BY DEF IInv
<1>3. index.root = root /\ index.fields = asked.fields
  OBVIOUS
<1>4. (\E r \in Roots : r \notin DOMAIN work.trees) => root \notin DOMAIN work.trees
  OBVIOUS
<1> HIDE DEF root, index
<1>5. ASSUME IndexesOn(work, asked.fields) = {},
             \E r \in Roots : r \notin DOMAIN work.trees
      PROVE  Sound(d)
  <2>1. /\ Sound(work) /\ index.root = root /\ root \notin DOMAIN work.trees
        /\ IndexesOn(work, index.fields) = {}
    BY <1>2, <1>3, <1>4, <1>5
  <2> QED
    BY <2>1, BuildSound
<1> HIDE DEF d
<1> QED
  BY <1>1, <1>2, <1>5, MadeIInv, FailIInv

(* The first index on its fields is one of them.                           *)
LEMMA FirstIsThere ==
    ASSUME NEW c, OwnTrees(c), NEW fields, IndexesOn(c, fields) # {}
    PROVE  /\ FirstOn(c, fields) \in DOMAIN c.indexes
           /\ c.indexes[FirstOn(c, fields)].fields = fields
<1>1. PICK i \in IndexesOn(c, fields) : TRUE
  OBVIOUS
<1>2. DOMAIN c.indexes = 1 .. Len(c.indexes) /\ Len(c.indexes) \in Nat
  BY DEF OwnTrees
<1>3. i \in Nat
  BY <1>1, <1>2 DEF IndexesOn
<1>4. \A j \in IndexesOn(c, fields) : i <= j
  BY <1>1, <1>2, <1>3 DEF OwnTrees, IndexesOn
<1> QED
  BY <1>1, <1>4 DEF FirstOn, IndexesOn

(* An index dropped.                                                       *)
LEMMA DropIndexIInv ==
    ASSUME IInv, NEW fields, DropIndex(fields)
    PROVE  IInv'
<1> DEFINE at == FirstOn(work, fields)
           freed == work.indexes[at].root
           d == [work EXCEPT !.indexes = RemoveAt(@, at),
                             !.trees = [r \in DOMAIN @ \ {freed} |-> @[r]]]
<1>1. \/ Made(work, <<>>, Counted(0))
      \/ IndexesOn(work, fields) # {} /\ Made(d, <<>>, Counted(1))
  BY DEF DropIndex
<1>2. Sound(work)
  BY DEF IInv
<1>3. IndexesOn(work, fields) # {} => at \in DOMAIN work.indexes
  BY <1>2, FirstIsThere DEF Sound
<1> HIDE DEF at
<1>4. ASSUME IndexesOn(work, fields) # {} PROVE Sound(d)
  BY <1>2, <1>3, <1>4, DropIndexSound
<1> HIDE DEF d
<1> QED
  BY <1>1, <1>2, <1>4, MadeIInv

(* Each operation leaves the copy sound, or fails and throws it away.      *)
LEMMA OperationIInv ==
    ASSUME KeysLeadBack, IInv, NEW op, Operation(op)
    PROVE  IInv'
<1>1. Sound(work) /\ Sound(Empty)
  BY EmptySound DEF IInv
<1>2. ASSUME Insert(op[2], op[3]) PROVE IInv'
  BY <1>2, InsertIInv DEF Insert
<1>3. ASSUME Update(op[2], op[3]) PROVE IInv'
  BY <1>3, UpdateIInv DEF Update
<1>4. ASSUME Delete(op[2]) PROVE IInv'
  BY <1>4, DeleteIInv DEF Delete
<1>5. ASSUME Fields(op[2], op[3]) PROVE IInv'
  <2>1. \/ \E error : Fail(error)
        \/ Made(work, <<>>, Counted(0))
        \/ \E doc : UpdateRecord(op[2], doc, Counted(1))
    BY <1>5 DEF Fields
  <2> QED
    BY <1>1, <2>1, FailIInv, MadeIInv, UpdateIInv
<1>6. ASSUME Require(op[2], op[3]) PROVE IInv'
  BY <1>1, <1>6, FailIInv, MadeIInv DEF Require
<1>7. ASSUME UpdateMany(op[2], op[3]) PROVE IInv'
  BY <1>1, <1>7, FailIInv, MadeIInv DEF UpdateMany
<1>8. ASSUME DeleteMany(op[2]) PROVE IInv'
  BY <1>1, <1>8, FailIInv, MadeIInv DEF DeleteMany
<1>9. ASSUME Change(op[2], op[3], op[4]) PROVE IInv'
  <2>1. \/ \E error : Fail(error)
        \/ Made(work, <<>>, CountedToo(0))
        \/ \E doc : UpdateRecord(op[2], doc, CountedToo(1))
    BY <1>9 DEF Change
  <2> QED
    BY <1>1, <2>1, FailIInv, MadeIInv, UpdateIInv
<1>10. ASSUME DeleteRecord(op[2], CountedToo(1)) PROVE IInv'
  BY <1>10, DeleteIInv
<1>11. ASSUME Upsert(op[2], op[3], op[4]) PROVE IInv'
  <2>1. \/ \E error : Fail(error)
        \/ \E ops : Made(work, ops, counts)
    BY <1>11 DEF Upsert
  <2> QED
    BY <1>1, <2>1, FailIInv, MadeIInv
<1>12. ASSUME UpsertFields(op[2], op[3], op[4]) PROVE IInv'
  <2>1. \/ \E error : Fail(error)
        \/ \E ops : Made(work, ops, counts)
    BY <1>12 DEF UpsertFields
  <2> QED
    BY <1>1, <2>1, FailIInv, MadeIInv
<1>13. ASSUME EnsureIndex(op[2]) PROVE IInv'
  BY <1>13, EnsureIInv
<1>14. ASSUME DropIndex(op[2]) PROVE IInv'
  BY <1>14, DropIndexIInv
<1>15. ASSUME Drop PROVE IInv'
  BY <1>1, <1>15, MadeIInv DEF Drop
<1> QED
  BY <1>2, <1>3, <1>4, <1>5, <1>6, <1>7, <1>8, <1>9, <1>10, <1>11, <1>12,
     <1>13, <1>14, <1>15 DEF Operation

(* Every step keeps the invariant.                                         *)
LEMMA NextIInv == KeysLeadBack /\ IInv /\ [Next]_vars => IInv'
<1> SUFFICES ASSUME KeysLeadBack, IInv, [Next]_vars PROVE IInv'
  OBVIOUS
<1>1. CASE Step
  BY <1>1, OperationIInv DEF Step
<1>2. CASE End
  <2>1. work' = Empty /\ (coll' = work \/ coll' = coll)
    BY <1>2 DEF End
  <2> QED
    BY <2>1, EmptySound DEF IInv
<1>3. ASSUME NEW call, Begin(call) PROVE IInv'
  <2>1. work' = coll /\ coll' = coll
    BY <1>3 DEF Begin
  <2> QED
    BY <2>1 DEF IInv
<1>4. ASSUME NEW call, Refuse(call) PROVE IInv'
  <2>1. work' = work /\ coll' = coll
    BY <1>4 DEF Refuse
  <2> QED
    BY <2>1 DEF IInv
<1>5. CASE UNCHANGED vars
  <2>1. work' = work /\ coll' = coll
    BY <1>5 DEF vars
  <2> QED
    BY <2>1 DEF IInv
<1> QED
  BY <1>1, <1>2, <1>3, <1>4, <1>5 DEF Next

-----------------------------------------------------------------------------
(* The theorems.                                                           *)

(* The collection and the copy a call works on are sound after every       *)
(* operation: the indexes have trees of their own, and each holds exactly  *)
(* the keys of the documents there are.                                    *)
THEOREM SpecIInv == KeysLeadBack => (Spec => []IInv)
<1> SUFFICES ASSUME KeysLeadBack PROVE Spec => []IInv
  OBVIOUS
<1>1. Init => IInv
  BY EmptySound DEF Init, IInv
<1>2. IInv /\ [Next]_vars => IInv'
  BY NextIInv
<1> QED
  BY <1>1, <1>2, PTL DEF Spec

(* Every index holds the keys of the documents there are, each leading to  *)
(* its document's place, whatever calls were made, failed or dry ones      *)
(* among them (apply_write_op, update_secondary_indexes, build_index).     *)
THEOREM IndexesMatchDocuments == KeysLeadBack => (Spec => []EntriesMatchDocs)
<1> SUFFICES ASSUME KeysLeadBack PROVE Spec => []EntriesMatchDocs
  OBVIOUS
<1>1. IInv => EntriesMatchDocs
  BY DEF IInv, Sound, EntriesMatchDocs
<1>2. Spec => []IInv
  BY SpecIInv
<1> QED
  BY <1>1, <1>2, PTL

-----------------------------------------------------------------------------
(* Unique indexes.                                                         *)

\* Another document has values the index finds equal to this one's.
Clashes(c, index, id, doc) ==
    \E other \in DOMAIN c.primary : other # id /\
        \E t \in Tuples(doc, index), u \in Tuples(DocAt(c, other), index) :
            SameValues(t.values, u.values)

(* check_unique finds the documents with equal values by their keys.       *)
LEMMA HasDuplicateRight ==
    ASSUME KeysLeadBack, TuplesKeyed, NEW c, Sound(c),
           NEW i \in DOMAIN c.indexes, NEW index, index = c.indexes[i],
           NEW id, NEW doc, NEW tuple \in Tuples(doc, index)
    PROVE  HasDuplicate(c, index, id, tuple) <=>
              \E other \in DOMAIN c.primary : other # id /\
                 \E u \in Tuples(DocAt(c, other), index) :
                    SameValues(tuple.values, u.values)
<1> DEFINE tree == c.trees[index.root]
<1>1. tree = Filled(c, index)
  BY DEF Sound, EntriesMatch, Filled
<1>2. /\ DOMAIN tree = FilledKeys(c, index)
      /\ \A k \in DOMAIN tree : c.heap[tree[k]].doc = DocAt(c, IdOfKey(k))
  BY <1>1 DEF Filled, DocAt
<1> HIDE DEF tree
<1>3. HasDuplicate(c, index, id, tuple) <=>
         \E k \in FilledKeys(c, index) :
            /\ UnderPart(tuple.part, k) /\ IdOfKey(k) # id
            /\ \E u \in Tuples(DocAt(c, IdOfKey(k)), index) :
                  SameValues(u.values, tuple.values)
  BY <1>2 DEF HasDuplicate, tree
<1>4. ASSUME NEW k \in FilledKeys(c, index), IdOfKey(k) # id,
             NEW u \in Tuples(DocAt(c, IdOfKey(k)), index),
             SameValues(u.values, tuple.values)
      PROVE  \E other \in DOMAIN c.primary : other # id /\
                \E v \in Tuples(DocAt(c, other), index) :
                   SameValues(tuple.values, v.values)
  <2>1. IdOfKey(k) \in DOMAIN c.primary
    BY FilledBy
  <2>2. SameValues(tuple.values, u.values)
    BY <1>4 DEF TuplesKeyed
  <2> QED
    BY <1>4, <2>1, <2>2
<1>5. ASSUME NEW other \in DOMAIN c.primary, other # id,
             NEW u \in Tuples(DocAt(c, other), index),
             SameValues(tuple.values, u.values)
      PROVE  \E k \in FilledKeys(c, index) :
                /\ UnderPart(tuple.part, k) /\ IdOfKey(k) # id
                /\ \E v \in Tuples(DocAt(c, IdOfKey(k)), index) :
                      SameValues(v.values, tuple.values)
  <2>1. PICK k \in KeysOf(DocAt(c, other), index, other) : UnderPart(tuple.part, k)
    BY <1>5 DEF TuplesKeyed
  <2>2. IdOfKey(k) = other
    BY <2>1 DEF KeysLeadBack
  <2>3. k \in FilledKeys(c, index)
    BY <2>1, <2>2, FilledBy
  <2>4. SameValues(u.values, tuple.values)
    BY <1>5 DEF TuplesKeyed
  <2> QED
    BY <1>5, <2>1, <2>2, <2>3, <2>4
<1> QED
  BY <1>3, <1>4, <1>5

(* The tuples the old document held needn't be checked: in a collection    *)
(* that has none twice, nobody else has them.                              *)
LEMMA BreaksUniqueRight ==
    ASSUME KeysLeadBack, TuplesKeyed, NEW c, Sound(c), NoneTwice(c),
           NEW i \in DOMAIN c.indexes, NEW index, index = c.indexes[i],
           NEW id, NEW doc, NEW loc
    PROVE  BreaksUnique(c, index, id, Where(c, id), <<At(doc, loc)>>) <=>
              index.unique /\ Clashes(c, index, id, doc)
<1> DEFINE old == Where(c, id)
           Held(t) == \E h \in TuplesAt(index, old) :
                         h.part = t.part /\ SameValues(h.values, t.values)
<1>1. TuplesAt(index, <<At(doc, loc)>>) = Tuples(doc, index)
  BY DEF TuplesAt, At
<1>2. BreaksUnique(c, index, id, old, <<At(doc, loc)>>) <=>
         /\ index.unique
         /\ \E t \in Tuples(doc, index) : ~Held(t) /\ HasDuplicate(c, index, id, t)
  BY <1>1 DEF BreaksUnique
<1>3. ASSUME NEW t \in Tuples(doc, index)
      PROVE  HasDuplicate(c, index, id, t) <=>
                \E other \in DOMAIN c.primary : other # id /\
                   \E u \in Tuples(DocAt(c, other), index) :
                      SameValues(t.values, u.values)
  BY HasDuplicateRight
<1>4. ASSUME index.unique, NEW t \in Tuples(doc, index), Held(t),
             NEW other \in DOMAIN c.primary, other # id,
             NEW u \in Tuples(DocAt(c, other), index),
             SameValues(t.values, u.values)
      PROVE  FALSE
  <2>1. PICK h \in TuplesAt(index, old) : SameValues(h.values, t.values)
    BY <1>4
  <2>2. id \in DOMAIN c.primary /\ h \in Tuples(DocAt(c, id), index)
    <3>1. CASE id \in DOMAIN c.primary
      <4>1. old # <<>> /\ old[1].doc = DocAt(c, id)
        BY <3>1 DEF Where, At
      <4> QED
        BY <2>1, <3>1, <4>1 DEF TuplesAt
    <3>2. CASE id \notin DOMAIN c.primary
      BY <2>1, <3>2 DEF TuplesAt, Where
    <3> QED
      BY <3>1, <3>2
  <2>3. SameValues(h.values, u.values)
    BY <1>4, <2>1 DEF TuplesKeyed
  <2> QED
    BY <1>4, <2>2, <2>3 DEF NoneTwice
<1> HIDE DEF Held
<1> QED
  BY <1>2, <1>3, <1>4 DEF Clashes

(* update_secondary_indexes refuses a document exactly where a unique      *)
(* index would have its values twice.                                      *)
LEMMA DuplicateRight ==
    ASSUME KeysLeadBack, TuplesKeyed, NEW c, Sound(c), NoneTwice(c),
           NEW id, NEW doc, NEW loc
    PROVE  Duplicate(c, id, Where(c, id), <<At(doc, loc)>>) <=>
              \E i \in DOMAIN c.indexes :
                 c.indexes[i].unique /\ Clashes(c, c.indexes[i], id, doc)
BY BreaksUniqueRight DEF Duplicate

(* fill_index refuses a unique index exactly where it would have values    *)
(* twice.                                                                  *)
LEMMA FillFailsRight ==
    ASSUME TuplesKeyed, NEW c, NEW index
    PROVE  FillFails(c, index) <=>
              /\ index.unique
              /\ \E id \in DOMAIN c.primary : Clashes(c, index, id, DocAt(c, id))
<1>1. ASSUME FillFails(c, index)
      PROVE  /\ index.unique
             /\ \E id \in DOMAIN c.primary : Clashes(c, index, id, DocAt(c, id))
  BY <1>1 DEF FillFails, Clashes
<1>2. ASSUME index.unique, NEW id \in DOMAIN c.primary,
             Clashes(c, index, id, DocAt(c, id))
      PROVE  FillFails(c, index)
  <2>1. PICK other \in DOMAIN c.primary : other # id /\
           \E t \in Tuples(DocAt(c, id), index), u \in Tuples(DocAt(c, other), index) :
              SameValues(t.values, u.values)
    BY <1>2 DEF Clashes
  <2>2. PICK t \in Tuples(DocAt(c, id), index), u \in Tuples(DocAt(c, other), index) :
           SameValues(t.values, u.values)
    BY <2>1
  <2>3. \E k \in KeysOf(DocAt(c, other), index, other) : UnderPart(t.part, k)
    BY <2>2 DEF TuplesKeyed
  <2> QED
    BY <1>2, <2>1, <2>2, <2>3 DEF FillFails
<1> QED
  BY <1>1, <1>2

(* A document written where none has its values leaves none twice.         *)
LEMMA WriteNoneTwice ==
    ASSUME TuplesKeyed, NEW c, NEW d, NEW id, NEW doc,
           NoneTwice(c), OneWritten(c, d, id),
           id \in DOMAIN d.primary => DocAt(d, id) = doc,
           id \in DOMAIN d.primary =>
              \A i \in DOMAIN c.indexes :
                 c.indexes[i].unique => ~Clashes(c, c.indexes[i], id, doc)
    PROVE  NoneTwice(d)
<1>1. d.indexes = c.indexes
  BY DEF OneWritten
<1>2. \A e \in DOMAIN d.primary : e # id =>
         e \in DOMAIN c.primary /\ DocAt(d, e) = DocAt(c, e)
  BY DEF OneWritten, DocAt
<1>3. ASSUME NEW i \in DOMAIN c.indexes, c.indexes[i].unique,
             NEW e \in DOMAIN d.primary, NEW f \in DOMAIN d.primary,
             NEW t \in Tuples(DocAt(d, e), c.indexes[i]),
             NEW u \in Tuples(DocAt(d, f), c.indexes[i]),
             SameValues(t.values, u.values), e # f
      PROVE  FALSE
  <2>1. CASE e = id
    <3>1. DocAt(d, e) = doc /\ ~Clashes(c, c.indexes[i], id, doc)
      BY <1>3, <2>1
    <3>2. f \in DOMAIN c.primary /\ f # id /\ DocAt(d, f) = DocAt(c, f)
      BY <1>2, <1>3, <2>1
    <3> QED
      BY <1>3, <3>1, <3>2 DEF Clashes
  <2>2. CASE f = id
    <3>1. DocAt(d, f) = doc /\ ~Clashes(c, c.indexes[i], id, doc)
      BY <1>3, <2>2
    <3>2. e \in DOMAIN c.primary /\ e # id /\ DocAt(d, e) = DocAt(c, e)
      BY <1>2, <1>3, <2>2
    <3>3. SameValues(u.values, t.values)
      BY <1>3 DEF TuplesKeyed
    <3> QED
      BY <1>3, <3>1, <3>2, <3>3 DEF Clashes
  <2>3. CASE e # id /\ f # id
    BY <1>2, <1>3, <2>3 DEF NoneTwice
  <2> QED
    BY <2>1, <2>2, <2>3
<1> QED
  BY <1>1, <1>3 DEF NoneTwice

(* An index built where none has its values leaves none twice.             *)
LEMMA BuildNoneTwice ==
    ASSUME TuplesKeyed, NEW c, Sound(c), NoneTwice(c), NEW index, NEW root,
           ~FillFails(c, index), NEW d, d = Built(c, index, root)
    PROVE  /\ NoneTwice(d) /\ DocsOf(d) = DocsOf(c)
           /\ DeclaredOf(d) = DeclaredOf(c) \cup {Declared(index)}
<1>1. c = [heap |-> c.heap, primary |-> c.primary,
           indexes |-> c.indexes, trees |-> c.trees]
  BY DEF Sound
<1>2. /\ d.heap = c.heap /\ d.primary = c.primary
      /\ d.indexes = Append(c.indexes, index)
  BY <1>1 DEF Built
<1>3. IsLonger(c.indexes, index, d.indexes)
  BY <1>2, Longer DEF Sound, OwnTrees
<1>4. /\ \A x : DocAt(d, x) = DocAt(c, x)
      /\ DocsOf(d) = DocsOf(c)
  BY <1>2 DEF DocAt, DocsOf
<1> DEFINE n == Len(c.indexes)
<1>5. /\ n \in Nat /\ DOMAIN c.indexes = 1 .. n /\ DOMAIN d.indexes = 1 .. n + 1
      /\ d.indexes[n + 1] = index
      /\ \A i \in 1 .. n : d.indexes[i] = c.indexes[i]
  BY <1>3 DEF IsLonger
<1> HIDE DEF n
<1>6. \A i : i \in 1 .. n + 1 <=> i = n + 1 \/ i \in 1 .. n
  BY <1>5
<1>7. NoneTwice(d)
  <2> SUFFICES ASSUME NEW i \in DOMAIN d.indexes, d.indexes[i].unique,
                      NEW e \in DOMAIN c.primary, NEW f \in DOMAIN c.primary,
                      NEW t \in Tuples(DocAt(c, e), d.indexes[i]),
                      NEW u \in Tuples(DocAt(c, f), d.indexes[i]),
                      SameValues(t.values, u.values), e # f
               PROVE  FALSE
    BY <1>2, <1>4 DEF NoneTwice
  <2>1. CASE i = n + 1
    <3>1. d.indexes[i] = index
      BY <1>5, <2>1
    <3>2. Clashes(c, index, e, DocAt(c, e))
      BY <3>1 DEF Clashes
    <3> QED
      BY <3>1, <3>2, FillFailsRight
  <2>2. CASE i \in 1 .. n
    <3>1. d.indexes[i] = c.indexes[i] /\ i \in DOMAIN c.indexes
      BY <1>5, <2>2
    <3> QED
      BY <3>1 DEF NoneTwice
  <2> QED
    BY <1>5, <1>6, <2>1, <2>2
<1>8. DeclaredOf(d) = DeclaredOf(c) \cup {Declared(index)}
  <2>1. \A x : x \in DeclaredOf(d) <=>
           \E i \in 1 .. n + 1 : x = Declared(d.indexes[i])
    BY <1>5 DEF DeclaredOf
  <2>2. \A x : x \in DeclaredOf(c) <=>
           \E i \in 1 .. n : x = Declared(c.indexes[i])
    BY <1>5 DEF DeclaredOf
  <2>3. \A x : x \in DeclaredOf(d) <=> x \in DeclaredOf(c) \/ x = Declared(index)
    BY <1>5, <1>6, <2>1, <2>2
  <2> QED
    BY <2>3
<1> QED
  BY <1>4, <1>7, <1>8

\* The collection without one of its indexes, and those declared that aren't
\* on these fields.
Unindexed(c, at, freed) ==
    [c EXCEPT !.indexes = RemoveAt(@, at),
              !.trees = [r \in DOMAIN @ \ {freed} |-> @[r]]]
LeftOf(c, fields) == {i \in DeclaredOf(c) : i.fields # fields}

(* An index dropped: the others are as they were.                          *)
LEMMA DropNoneTwice ==
    ASSUME NEW c, Sound(c), NoneTwice(c), NEW at \in DOMAIN c.indexes,
           NEW freed, NEW d, d = Unindexed(c, at, freed)
    PROVE  /\ NoneTwice(d) /\ DocsOf(d) = DocsOf(c)
           /\ DeclaredOf(d) = LeftOf(c, c.indexes[at].fields)
<1> DEFINE n == Len(c.indexes)
           Was(i) == IF i < at THEN i ELSE i + 1
<1>1. /\ c = [heap |-> c.heap, primary |-> c.primary,
              indexes |-> c.indexes, trees |-> c.trees]
      /\ OwnTrees(c)
  BY DEF Sound
<1>2. /\ d.heap = c.heap /\ d.primary = c.primary
      /\ d.indexes = RemoveAt(c.indexes, at)
  BY <1>1 DEF Unindexed
<1>3. /\ n \in Nat
      /\ DOMAIN c.indexes = 1 .. n /\ DOMAIN d.indexes = 1 .. n - 1
      /\ \A i \in DOMAIN d.indexes : d.indexes[i] = c.indexes[Was(i)]
  BY <1>1, <1>2, Shorter DEF OwnTrees
<1>4. /\ \A x : DocAt(d, x) = DocAt(c, x)
      /\ DocsOf(d) = DocsOf(c)
  BY <1>2 DEF DocAt, DocsOf
<1> HIDE DEF n
<1>5. \A i \in DOMAIN d.indexes : Was(i) \in DOMAIN c.indexes /\ Was(i) # at
  BY <1>3
<1>6. \A i \in DOMAIN c.indexes : i # at =>
         \E j \in DOMAIN d.indexes : Was(j) = i
  <2> SUFFICES ASSUME NEW i \in DOMAIN c.indexes, i # at
               PROVE  \E j \in DOMAIN d.indexes : Was(j) = i
    OBVIOUS
  <2>1. CASE i < at
    <3>1. i \in DOMAIN d.indexes /\ Was(i) = i
      BY <1>3, <2>1
    <3> QED
      BY <3>1
  <2>2. CASE ~(i < at)
    <3>1. i - 1 \in DOMAIN d.indexes /\ Was(i - 1) = i
      BY <1>3, <2>2
    <3> QED
      BY <3>1
  <2> QED
    BY <2>1, <2>2
<1> HIDE DEF Was
<1>7. NoneTwice(d)
  <2> SUFFICES ASSUME NEW i \in DOMAIN d.indexes, d.indexes[i].unique,
                      NEW e \in DOMAIN c.primary, NEW f \in DOMAIN c.primary,
                      NEW t \in Tuples(DocAt(c, e), d.indexes[i]),
                      NEW u \in Tuples(DocAt(c, f), d.indexes[i]),
                      SameValues(t.values, u.values), e # f
               PROVE  FALSE
    BY <1>2, <1>4 DEF NoneTwice
  <2>1. d.indexes[i] = c.indexes[Was(i)] /\ Was(i) \in DOMAIN c.indexes
    BY <1>3, <1>5
  <2> QED
    BY <2>1 DEF NoneTwice
<1>8. \A i \in DOMAIN c.indexes : i # at =>
         c.indexes[i].fields # c.indexes[at].fields
  BY <1>1 DEF OwnTrees
<1>9. \A x : x \in DeclaredOf(d) <=>
         \E i \in DOMAIN c.indexes : i # at /\ x = Declared(c.indexes[i])
  BY <1>3, <1>5, <1>6 DEF DeclaredOf
<1>10. \A x : x \in DeclaredOf(c) <=>
         \E i \in DOMAIN c.indexes : x = Declared(c.indexes[i])
  BY DEF DeclaredOf
<1>11. \A i : Declared(i).fields = i.fields
  BY DEF Declared
<1>12. \A x : x \in DeclaredOf(d) <=>
          x \in DeclaredOf(c) /\ x.fields # c.indexes[at].fields
  <2>1. ASSUME NEW x \in DeclaredOf(d)
        PROVE  x \in DeclaredOf(c) /\ x.fields # c.indexes[at].fields
    <3>1. PICK i \in DOMAIN c.indexes : i # at /\ x = Declared(c.indexes[i])
      BY <1>9, <2>1
    <3>2. x.fields = c.indexes[i].fields
      BY <1>11, <3>1
    <3> QED
      BY <1>8, <1>10, <3>1, <3>2
  <2>2. ASSUME NEW x \in DeclaredOf(c), x.fields # c.indexes[at].fields
        PROVE  x \in DeclaredOf(d)
    <3>1. PICK i \in DOMAIN c.indexes : x = Declared(c.indexes[i])
      BY <1>10, <2>2
    <3>2. x.fields = c.indexes[i].fields
      BY <1>11, <3>1
    <3>3. i # at
      BY <2>2, <3>2
    <3> QED
      BY <1>9, <3>1, <3>3
  <2> QED
    BY <2>1, <2>2
<1> QED
  BY <1>4, <1>7, <1>12 DEF LeftOf

-----------------------------------------------------------------------------
(* What the operations come to: the documents and the indexes declared.    *)

TakenBy(c, id, doc) == \E i \in DOMAIN c.indexes :
                          c.indexes[i].unique /\ Clashes(c, c.indexes[i], id, doc)

\* The collection d is c with the document put, or without it.
IsPut(c, d, id, doc) ==
    /\ NoneTwice(d) /\ DeclaredOf(d) = DeclaredOf(c)
    /\ DocsOf(d) = [e \in DOMAIN DocsOf(c) \cup {id} |->
                      IF e = id THEN doc ELSE DocsOf(c)[e]]
IsErased(c, d, id) ==
    /\ NoneTwice(d) /\ DeclaredOf(d) = DeclaredOf(c)
    /\ DocsOf(d) = [e \in DOMAIN DocsOf(c) \ {id} |-> DocsOf(c)[e]]

(* One document written, and nothing else, is a document put.              *)
LEMMA WrittenIsPut ==
    ASSUME TuplesKeyed, NEW c, NEW d, NEW id, NEW doc,
           NoneTwice(c), OneWritten(c, d, id),
           id \in DOMAIN d.primary, DocAt(d, id) = doc, ~TakenBy(c, id, doc)
    PROVE  IsPut(c, d, id, doc)
<1>1. NoneTwice(d)
  BY WriteNoneTwice DEF TakenBy
<1>2. DeclaredOf(d) = DeclaredOf(c)
  BY DEF OneWritten, DeclaredOf
<1>3. /\ \A e : e \in DOMAIN d.primary <=> e \in DOMAIN c.primary \cup {id}
      /\ \A e \in DOMAIN c.primary : e # id => DocAt(d, e) = DocAt(c, e)
  BY DEF OneWritten, DocAt
<1>4. DOMAIN d.primary = DOMAIN c.primary \cup {id}
  BY <1>3
<1>5. DocsOf(d) = [e \in DOMAIN DocsOf(c) \cup {id} |->
                     IF e = id THEN doc ELSE DocsOf(c)[e]]
  BY <1>3, <1>4 DEF DocsOf
<1> QED
  BY <1>1, <1>2, <1>5 DEF IsPut

(* Or a document erased.                                                   *)
LEMMA WrittenIsErased ==
    ASSUME TuplesKeyed, NEW c, NEW d, NEW id,
           NoneTwice(c), OneWritten(c, d, id), id \notin DOMAIN d.primary
    PROVE  IsErased(c, d, id)
<1>1. NoneTwice(d)
  BY WriteNoneTwice
<1>2. DeclaredOf(d) = DeclaredOf(c)
  BY DEF OneWritten, DeclaredOf
<1>3. /\ \A e : e \in DOMAIN d.primary <=> e \in DOMAIN c.primary \ {id}
      /\ \A e \in DOMAIN c.primary : e # id => DocAt(d, e) = DocAt(c, e)
  BY DEF OneWritten, DocAt
<1>4. DOMAIN d.primary = DOMAIN c.primary \ {id}
  BY <1>3
<1>5. DocsOf(d) = [e \in DOMAIN DocsOf(c) \ {id} |-> DocsOf(c)[e]]
  BY <1>3, <1>4 DEF DocsOf
<1> QED
  BY <1>1, <1>2, <1>5 DEF IsErased

\* A document put, or why not; a document erased.
Puts(id, doc, written) ==
    \/ Refused(doc) /\ Fail("too_deep")
    \/ ~Refused(doc) /\ TakenBy(work, id, doc) /\ Fail("duplicate_value")
    \/ /\ ~Refused(doc) /\ ~TakenBy(work, id, doc)
       /\ \E d : IsPut(work, d, id, doc) /\ Made(d, <<>>, written)
Erases(id, written) ==
    \E d : IsErased(work, d, id) /\ Made(d, <<>>, written)

(* Insert.                                                                 *)
LEMMA InsertPuts ==
    ASSUME KeysLeadBack, TuplesKeyed, Sound(work), NoneTwice(work),
           NEW id, NEW doc, NEW written, InsertRecord(id, doc, written)
    PROVE  \/ id \in DOMAIN work.primary /\ Fail("duplicate_id")
           \/ id \notin DOMAIN work.primary /\ Puts(id, doc, written)
<1> DEFINE loc == Place(work)
           d == Inserted(work, id, doc, loc)
           clash == Duplicate(work, id, <<>>, <<At(doc, loc)>>)
<1>1. \/ id \in DOMAIN work.primary /\ Fail("duplicate_id")
      \/ /\ id \notin DOMAIN work.primary
         /\ \/ Refused(doc) /\ Fail("too_deep")
            \/ ~Refused(doc) /\ clash /\ Fail("duplicate_value")
            \/ ~Refused(doc) /\ ~clash /\ HasPlace(work) /\ Made(d, <<>>, written)
  BY DEF InsertRecord, Inserted
<1>2. HasPlace(work) => loc \notin DOMAIN work.heap
  BY DEF Place, HasPlace
<1> HIDE DEF loc
<1>3. id \notin DOMAIN work.primary => Where(work, id) = <<>>
  BY DEF Where
<1>4. id \notin DOMAIN work.primary => (clash <=> TakenBy(work, id, doc))
  <2>1. Duplicate(work, id, Where(work, id), <<At(doc, loc)>>) <=>
           TakenBy(work, id, doc)
    BY DuplicateRight DEF TakenBy
  <2> QED
    BY <1>3, <2>1
<1> HIDE DEF clash
<1>5. ASSUME id \notin DOMAIN work.primary, HasPlace(work), ~TakenBy(work, id, doc)
      PROVE  IsPut(work, d, id, doc)
  <2>1. OneWritten(work, d, id) /\ id \in DOMAIN d.primary /\ DocAt(d, id) = doc
    BY <1>2, <1>5, InsertSound
  <2> HIDE DEF d
  <2> QED
    BY <1>5, <2>1, WrittenIsPut
<1> HIDE DEF d
<1> QED
  BY <1>1, <1>4, <1>5 DEF Puts

(* Update.                                                                 *)
LEMMA UpdatePuts ==
    ASSUME KeysLeadBack, TuplesKeyed, Sound(work), NoneTwice(work),
           NEW id, NEW doc, NEW written, UpdateRecord(id, doc, written)
    PROVE  \/ id \notin DOMAIN work.primary /\ Fail("not_found")
           \/ id \in DOMAIN work.primary /\ Puts(id, doc, written)
<1> DEFINE loc == work.primary[id]
           old == <<At(work.heap[loc].doc, loc)>>
           to == IF Outgrows(work.heap[loc].doc, doc) THEN Place(work) ELSE loc
           d == Updated(work, id, doc, loc, to)
           clash == Duplicate(work, id, old, <<At(doc, to)>>)
<1>1. \/ id \notin DOMAIN work.primary /\ Fail("not_found")
      \/ /\ id \in DOMAIN work.primary
         /\ \/ Refused(doc) /\ Fail("too_deep")
            \/ ~Refused(doc) /\ clash /\ Fail("duplicate_value")
            \/ /\ ~Refused(doc) /\ ~clash /\ (to = loc \/ HasPlace(work))
               /\ Made(d, <<>>, written)
  <2>1. old[1].doc = work.heap[loc].doc
    BY DEF At
  <2> QED
    BY <2>1 DEF UpdateRecord, Updated
<1>2. to = loc \/ HasPlace(work) => to = loc \/ to \notin DOMAIN work.heap
  BY DEF HasPlace, Place
<1> HIDE DEF to
<1>3. id \in DOMAIN work.primary => Where(work, id) = old
  BY DEF Where, DocAt
<1>4. id \in DOMAIN work.primary => (clash <=> TakenBy(work, id, doc))
  <2>1. Duplicate(work, id, Where(work, id), <<At(doc, to)>>) <=>
           TakenBy(work, id, doc)
    BY DuplicateRight DEF TakenBy
  <2> QED
    BY <1>3, <2>1
<1>5. loc = work.primary[id]
  OBVIOUS
<1> HIDE DEF clash, old, loc
<1>6. ASSUME id \in DOMAIN work.primary, to = loc \/ HasPlace(work),
             ~TakenBy(work, id, doc)
      PROVE  IsPut(work, d, id, doc)
  <2>1. to = loc \/ to \notin DOMAIN work.heap
    BY <1>2, <1>6
  <2>2. id \in DOMAIN work.primary /\ d = Updated(work, id, doc, loc, to)
    BY <1>6
  <2> HIDE DEF d
  <2>3. /\ OneWritten(work, d, id) /\ Sound(d)
        /\ id \in DOMAIN d.primary /\ DocAt(d, id) = doc
    BY <1>5, <2>1, <2>2, UpdateSound, SMTT(30)
  <2> QED
    BY <1>6, <2>3, WrittenIsPut
<1> HIDE DEF d
<1> QED
  BY <1>1, <1>4, <1>6 DEF Puts

(* Delete.                                                                 *)
LEMMA DeleteErases ==
    ASSUME KeysLeadBack, TuplesKeyed, Sound(work), NoneTwice(work),
           NEW id, NEW written, DeleteRecord(id, written)
    PROVE  \/ id \notin DOMAIN work.primary /\ Fail("not_found")
           \/ id \in DOMAIN work.primary /\ Erases(id, written)
<1> DEFINE loc == work.primary[id]
           d == Removed(work, id, loc)
<1>1. \/ id \notin DOMAIN work.primary /\ Fail("not_found")
      \/ id \in DOMAIN work.primary /\ Made(d, <<>>, written)
  BY DEF DeleteRecord, Removed
<1>2. loc = work.primary[id]
  OBVIOUS
<1> HIDE DEF loc
<1>3. ASSUME id \in DOMAIN work.primary PROVE IsErased(work, d, id)
  <2>1. OneWritten(work, d, id) /\ id \notin DOMAIN d.primary
    BY <1>2, <1>3, DeleteSound
  <2> HIDE DEF d
  <2> QED
    BY <2>1, WrittenIsErased
<1> HIDE DEF d
<1> QED
  BY <1>1, <1>3 DEF Erases

\* An index as declared, and another document with values it finds equal.
Asked(asked) == [fields |-> asked.fields, unique |-> asked.unique,
                 sparse |-> asked.sparse]
DeclaredOn(c, fields) == {i \in DeclaredOf(c) : i.fields = fields}
Collide(docs, index, id, doc) ==
    \E other \in DOMAIN docs \ {id} :
        \E t \in TuplesOf(doc, index), u \in TuplesOf(docs[other], index) :
            SameValues(t, u)

(* What an index compares goes by what it is declared to be.               *)
LEMMA CollideRight ==
    ASSUME TuplesKeyed, NEW c, NEW index, NEW id, NEW doc
    PROVE  Clashes(c, index, id, doc) <=>
              Collide(DocsOf(c), Declared(index), id, doc)
<1>1. \A d : TuplesOf(d, Declared(index)) = {t.values : t \in Tuples(d, index)}
  BY DEF TuplesKeyed
<1>2. /\ DOMAIN DocsOf(c) = DOMAIN c.primary
      /\ \A e \in DOMAIN c.primary : DocsOf(c)[e] = DocAt(c, e)
  BY DEF DocsOf
<1>3. ASSUME Clashes(c, index, id, doc)
      PROVE  Collide(DocsOf(c), Declared(index), id, doc)
  <2>1. PICK other \in DOMAIN c.primary : other # id /\
           \E t \in Tuples(doc, index), u \in Tuples(DocAt(c, other), index) :
              SameValues(t.values, u.values)
    BY <1>3 DEF Clashes
  <2>2. PICK t \in Tuples(doc, index), u \in Tuples(DocAt(c, other), index) :
           SameValues(t.values, u.values)
    BY <2>1
  <2>3. /\ t.values \in TuplesOf(doc, Declared(index))
        /\ u.values \in TuplesOf(DocsOf(c)[other], Declared(index))
    BY <1>1, <1>2
  <2> QED
    BY <1>2, <2>1, <2>2, <2>3 DEF Collide
<1>4. ASSUME Collide(DocsOf(c), Declared(index), id, doc)
      PROVE  Clashes(c, index, id, doc)
  <2>1. PICK other \in DOMAIN c.primary : other # id /\
           \E x \in TuplesOf(doc, Declared(index)),
              y \in TuplesOf(DocsOf(c)[other], Declared(index)) : SameValues(x, y)
    BY <1>2, <1>4 DEF Collide
  <2>2. PICK x \in TuplesOf(doc, Declared(index)),
             y \in TuplesOf(DocsOf(c)[other], Declared(index)) : SameValues(x, y)
    BY <2>1
  <2>3. PICK t \in Tuples(doc, index) : t.values = x
    BY <1>1, <2>2
  <2>4. PICK u \in Tuples(DocAt(c, other), index) : u.values = y
    BY <1>1, <1>2, <2>2
  <2> QED
    BY <2>1, <2>2, <2>3, <2>4 DEF Clashes
<1> QED
  BY <1>3, <1>4

(* The first index on these fields is the only one.                        *)
LEMMA DeclaredOnRight ==
    ASSUME NEW c, OwnTrees(c), NEW fields
    PROVE  /\ IndexesOn(c, fields) = {} => DeclaredOn(c, fields) = {}
           /\ IndexesOn(c, fields) # {} =>
                 DeclaredOn(c, fields) = {Declared(c.indexes[FirstOn(c, fields)])}
<1>1. \A x : x \in DeclaredOn(c, fields) <=>
         \E i \in IndexesOn(c, fields) : x = Declared(c.indexes[i])
  <2>1. \A i : Declared(i).fields = i.fields
    BY DEF Declared
  <2> QED
    BY <2>1 DEF DeclaredOn, DeclaredOf, IndexesOn
<1>2. CASE IndexesOn(c, fields) = {}
  BY <1>1, <1>2
<1>3. CASE IndexesOn(c, fields) # {}
  <2>1. FirstOn(c, fields) \in IndexesOn(c, fields)
    BY <1>3, FirstIsThere DEF IndexesOn
  <2>2. \A i \in IndexesOn(c, fields) : i = FirstOn(c, fields)
    BY <2>1 DEF IndexesOn, OwnTrees
  <2> QED
    BY <1>1, <1>3, <2>1, <2>2
<1> QED
  BY <1>2, <1>3

\* An index added to those declared, left alone, or refused.
Builds(asked) ==
    LET index == Asked(asked)
        there == DeclaredOn(work, asked.fields)
        clash == asked.unique /\ \E id \in DOMAIN DocsOf(work) :
                    Collide(DocsOf(work), index, id, DocsOf(work)[id])
    IN  \/ there = {index} /\ Made(work, <<>>, Counted(0))
        \/ there # {index} /\ there # {} /\ Fail("other_options")
        \/ there = {} /\ clash /\ Fail("duplicate_value")
        \/ /\ there = {} /\ ~clash
           /\ \E d : /\ NoneTwice(d) /\ DocsOf(d) = DocsOf(work)
                     /\ DeclaredOf(d) = DeclaredOf(work) \cup {index}
                     /\ Made(d, <<>>, Counted(1))

(* build_index.                                                            *)
LEMMA EnsureBuilds ==
    ASSUME TuplesKeyed, Sound(work), NoneTwice(work), NEW asked,
           EnsureIndex(asked)
    PROVE  Builds(asked)
<1> DEFINE first == work.indexes[FirstOn(work, asked.fields)]
           root == CHOOSE r \in Roots : r \notin DOMAIN work.trees
           index == [fields |-> asked.fields, unique |-> asked.unique,
                     sparse |-> asked.sparse, root |-> root]
           d == Built(work, index, root)
           as == first.unique = asked.unique /\ first.sparse = asked.sparse
           there == DeclaredOn(work, asked.fields)
           clash == asked.unique /\ \E id \in DOMAIN DocsOf(work) :
                       Collide(DocsOf(work), Asked(asked), id, DocsOf(work)[id])
<1>1. \/ /\ IndexesOn(work, asked.fields) # {} /\ as
         /\ Made(work, <<>>, Counted(0))
      \/ IndexesOn(work, asked.fields) # {} /\ ~as /\ Fail("other_options")
      \/ /\ IndexesOn(work, asked.fields) = {} /\ FillFails(work, index)
         /\ Fail("duplicate_value")
      \/ /\ IndexesOn(work, asked.fields) = {} /\ ~FillFails(work, index)
         /\ Made(d, <<>>, Counted(1))
  BY DEF EnsureIndex, Built
<1>2. Declared(index) = Asked(asked) /\ index.unique = asked.unique
  BY DEF Declared, Asked
<1> HIDE DEF root, index
<1>3. FillFails(work, index) <=> clash
  <2>1. \A id \in DOMAIN work.primary :
           Clashes(work, index, id, DocAt(work, id)) <=>
              Collide(DocsOf(work), Asked(asked), id, DocAt(work, id))
    BY <1>2, CollideRight
  <2>2. /\ DOMAIN DocsOf(work) = DOMAIN work.primary
        /\ \A id \in DOMAIN work.primary : DocsOf(work)[id] = DocAt(work, id)
    BY DEF DocsOf
  <2> QED
    BY <1>2, <2>1, <2>2, FillFailsRight
<1>4. IndexesOn(work, asked.fields) # {} =>
         there # {} /\ (as <=> there = {Asked(asked)})
  <2> SUFFICES ASSUME IndexesOn(work, asked.fields) # {}
               PROVE  there # {} /\ (as <=> there = {Asked(asked)})
    OBVIOUS
  <2>1. OwnTrees(work)
    BY DEF Sound
  <2>2. there = {Declared(first)} /\ first.fields = asked.fields
    BY <2>1, DeclaredOnRight, FirstIsThere
  <2>3. as <=> Declared(first) = Asked(asked)
    <3> HIDE DEF first
    <3>1. /\ Declared(first).fields = first.fields
          /\ Declared(first).unique = first.unique
          /\ Declared(first).sparse = first.sparse
          /\ Asked(asked).unique = asked.unique
          /\ Asked(asked).sparse = asked.sparse
      BY DEF Declared, Asked
    <3>2. ASSUME as PROVE Declared(first) = Asked(asked)
      BY <2>2, <3>2 DEF Declared, Asked
    <3>3. ASSUME Declared(first) = Asked(asked) PROVE as
      BY <3>1, <3>3
    <3> QED
      BY <3>2, <3>3
  <2> HIDE DEF as, there
  <2> QED
    BY <2>2, <2>3
<1>5. IndexesOn(work, asked.fields) = {} => there = {}
  BY DeclaredOnRight DEF Sound
<1>6. ASSUME ~FillFails(work, index)
      PROVE  /\ NoneTwice(d) /\ DocsOf(d) = DocsOf(work)
             /\ DeclaredOf(d) = DeclaredOf(work) \cup {Asked(asked)}
  <2>1. d = Built(work, index, root)
    OBVIOUS
  <2> HIDE DEF d
  <2>2. /\ NoneTwice(d) /\ DocsOf(d) = DocsOf(work)
        /\ DeclaredOf(d) = DeclaredOf(work) \cup {Declared(index)}
    BY <1>6, <2>1, BuildNoneTwice, SMTT(30)
  <2> QED
    BY <1>2, <2>2
<1>7. Builds(asked) <=>
        \/ there = {Asked(asked)} /\ Made(work, <<>>, Counted(0))
        \/ there # {Asked(asked)} /\ there # {} /\ Fail("other_options")
        \/ there = {} /\ clash /\ Fail("duplicate_value")
        \/ /\ there = {} /\ ~clash
           /\ \E e : /\ NoneTwice(e) /\ DocsOf(e) = DocsOf(work)
                     /\ DeclaredOf(e) = DeclaredOf(work) \cup {Asked(asked)}
                     /\ Made(e, <<>>, Counted(1))
  BY DEF Builds
<1> HIDE DEF d, as, there, clash
<1> QED
  BY <1>1, <1>3, <1>4, <1>5, <1>6, <1>7

\* The indexes on these fields no longer declared.
Undeclares(fields) ==
    LET left == LeftOf(work, fields)
    IN  \E d : /\ NoneTwice(d) /\ DocsOf(d) = DocsOf(work)
               /\ DeclaredOf(d) = left
               /\ Made(d, <<>>, Counted(IF left = DeclaredOf(work) THEN 0 ELSE 1))

(* Collection::drop_index.                                                 *)
LEMMA DropUndeclares ==
    ASSUME Sound(work), NoneTwice(work), NEW fields, DropIndex(fields)
    PROVE  Undeclares(fields)
<1> DEFINE at == FirstOn(work, fields)
           freed == work.indexes[at].root
           d == Unindexed(work, at, freed)
           left == LeftOf(work, fields)
<1>1. \/ IndexesOn(work, fields) = {} /\ Made(work, <<>>, Counted(0))
      \/ IndexesOn(work, fields) # {} /\ Made(d, <<>>, Counted(1))
  BY DEF DropIndex, Unindexed
<1>2. /\ IndexesOn(work, fields) = {} => DeclaredOn(work, fields) = {}
      /\ IndexesOn(work, fields) # {} => DeclaredOn(work, fields) # {}
  BY DeclaredOnRight DEF Sound
<1>3. /\ DeclaredOn(work, fields) = {} => left = DeclaredOf(work)
      /\ DeclaredOn(work, fields) # {} => left # DeclaredOf(work)
  BY DEF DeclaredOn, LeftOf
<1>4. IndexesOn(work, fields) # {} =>
         at \in DOMAIN work.indexes /\ work.indexes[at].fields = fields
  BY FirstIsThere DEF Sound
<1> HIDE DEF at, freed
<1>5. ASSUME IndexesOn(work, fields) # {}
      PROVE  NoneTwice(d) /\ DocsOf(d) = DocsOf(work) /\ DeclaredOf(d) = left
  <2>1. at \in DOMAIN work.indexes /\ work.indexes[at].fields = fields
    BY <1>4, <1>5
  <2>2. d = Unindexed(work, at, freed)
    OBVIOUS
  <2> HIDE DEF d
  <2>3. /\ NoneTwice(d) /\ DocsOf(d) = DocsOf(work)
        /\ DeclaredOf(d) = LeftOf(work, work.indexes[at].fields)
    BY <2>1, <2>2, DropNoneTwice, SMTT(30)
  <2> QED
    BY <2>1, <2>3
<1>6. Undeclares(fields) <=>
         \E e : /\ NoneTwice(e) /\ DocsOf(e) = DocsOf(work) /\ DeclaredOf(e) = left
                /\ Made(e, <<>>, Counted(IF left = DeclaredOf(work) THEN 0 ELSE 1))
  BY DEF Undeclares
<1> HIDE DEF d, left
<1>7. CASE IndexesOn(work, fields) = {}
  BY <1>1, <1>2, <1>3, <1>6, <1>7
<1>8. CASE IndexesOn(work, fields) # {}
  BY <1>1, <1>2, <1>3, <1>5, <1>6, <1>8
<1> QED
  BY <1>7, <1>8

-----------------------------------------------------------------------------
(* Unique indexes stay unique.                                             *)

(* With no documents there are none twice.                                 *)
LEMMA EmptyNoneTwice == NoneTwice(Empty)
BY DEF NoneTwice, Empty

(* An operation that leaves a copy with none twice, or fails.              *)
LEMMA MadeUnique ==
    ASSUME UniquesHold, NEW c, NoneTwice(c), NEW ops, NEW written,
           Made(c, ops, written)
    PROVE  UniquesHold'
<1>1. coll' = coll /\ work' = c
  BY DEF Made
<1> QED
  BY <1>1 DEF UniquesHold

(* An error throws the copy away.                                          *)
LEMMA FailUnique ==
    ASSUME UniquesHold, NEW error, Fail(error)
    PROVE  UniquesHold'
<1>1. coll' = coll /\ work' = Empty
  BY DEF Fail
<1> QED
  BY <1>1, EmptyNoneTwice DEF UniquesHold

(* A document put, or refused.                                             *)
LEMMA PutsUnique ==
    ASSUME UniquesHold, NEW id, NEW doc, NEW written, Puts(id, doc, written)
    PROVE  UniquesHold'
<1>1. \/ \E error : Fail(error)
      \/ \E d : NoneTwice(d) /\ Made(d, <<>>, written)
  BY DEF Puts, IsPut
<1> QED
  BY <1>1, MadeUnique, FailUnique

(* Update.                                                                 *)
LEMMA UpdateUnique ==
    ASSUME KeysLeadBack, TuplesKeyed, IInv, UniquesHold,
           NEW id, NEW doc, NEW written, UpdateRecord(id, doc, written)
    PROVE  UniquesHold'
<1>1. Sound(work) /\ NoneTwice(work)
  BY DEF IInv, UniquesHold
<1>2. \/ \E error : Fail(error)
      \/ Puts(id, doc, written)
  BY <1>1, UpdatePuts
<1> QED
  BY <1>2, PutsUnique, FailUnique

(* Delete.                                                                 *)
LEMMA DeleteUnique ==
    ASSUME KeysLeadBack, TuplesKeyed, IInv, UniquesHold,
           NEW id, NEW written, DeleteRecord(id, written)
    PROVE  UniquesHold'
<1>1. Sound(work) /\ NoneTwice(work)
  BY DEF IInv, UniquesHold
<1>2. \/ \E error : Fail(error)
      \/ \E d : NoneTwice(d) /\ Made(d, <<>>, written)
  BY <1>1, DeleteErases DEF Erases, IsErased
<1> QED
  BY <1>2, MadeUnique, FailUnique

(* Each operation leaves the copy with none twice, or fails.               *)
LEMMA OperationUnique ==
    ASSUME KeysLeadBack, TuplesKeyed, IInv, UniquesHold, NEW op, Operation(op)
    PROVE  UniquesHold'
<1>1. Sound(work) /\ NoneTwice(work) /\ NoneTwice(Empty)
  BY EmptyNoneTwice DEF IInv, UniquesHold
<1> DEFINE Left == \/ \E error : Fail(error)
                   \/ \E c, ops, written : NoneTwice(c) /\ Made(c, ops, written)
<1>2. ASSUME Left PROVE UniquesHold'
  BY <1>2, MadeUnique, FailUnique
<1>3. ASSUME Insert(op[2], op[3]) PROVE UniquesHold'
  <2>1. \/ \E error : Fail(error)
        \/ Puts(op[2], WithId(op[3], op[2]), Counted(1))
    BY <1>1, <1>3, InsertPuts DEF Insert
  <2> QED
    BY <2>1, PutsUnique, FailUnique
<1>4. ASSUME Update(op[2], op[3]) PROVE UniquesHold'
  BY <1>4, UpdateUnique DEF Update
<1>5. ASSUME Delete(op[2]) PROVE UniquesHold'
  BY <1>5, DeleteUnique DEF Delete
<1>6. ASSUME Fields(op[2], op[3]) PROVE UniquesHold'
  <2>1. Left \/ \E doc : UpdateRecord(op[2], doc, Counted(1))
    BY <1>1, <1>6 DEF Fields
  <2> QED
    BY <1>2, <2>1, UpdateUnique
<1>7. ASSUME Require(op[2], op[3]) PROVE UniquesHold'
  BY <1>1, <1>2, <1>7 DEF Require
<1>8. ASSUME UpdateMany(op[2], op[3]) PROVE UniquesHold'
  <2>1. Left
    BY <1>1, <1>8 DEF UpdateMany
  <2> QED
    BY <1>2, <2>1
<1>9. ASSUME DeleteMany(op[2]) PROVE UniquesHold'
  <2>1. Left
    BY <1>1, <1>9 DEF DeleteMany
  <2> QED
    BY <1>2, <2>1
<1>10. ASSUME Change(op[2], op[3], op[4]) PROVE UniquesHold'
  <2>1. Left \/ \E doc : UpdateRecord(op[2], doc, CountedToo(1))
    BY <1>1, <1>10 DEF Change
  <2> QED
    BY <1>2, <2>1, UpdateUnique
<1>11. ASSUME DeleteRecord(op[2], CountedToo(1)) PROVE UniquesHold'
  BY <1>11, DeleteUnique
<1>12. ASSUME Upsert(op[2], op[3], op[4]) PROVE UniquesHold'
  <2>1. Left
    BY <1>1, <1>12 DEF Upsert
  <2> QED
    BY <1>2, <2>1
<1>13. ASSUME UpsertFields(op[2], op[3], op[4]) PROVE UniquesHold'
  <2>1. Left
    BY <1>1, <1>13 DEF UpsertFields
  <2> QED
    BY <1>2, <2>1
<1>14. ASSUME EnsureIndex(op[2]) PROVE UniquesHold'
  <2>1. Left
    BY <1>1, <1>14, EnsureBuilds DEF Builds
  <2> QED
    BY <1>2, <2>1
<1>15. ASSUME DropIndex(op[2]) PROVE UniquesHold'
  <2>1. Left
    BY <1>1, <1>15, DropUndeclares DEF Undeclares
  <2> QED
    BY <1>2, <2>1
<1>16. ASSUME Drop PROVE UniquesHold'
  BY <1>1, <1>2, <1>16 DEF Drop
<1> QED
  BY <1>3, <1>4, <1>5, <1>6, <1>7, <1>8, <1>9, <1>10, <1>11, <1>12,
     <1>13, <1>14, <1>15, <1>16 DEF Operation

(* No two documents ever have values a unique index finds equal: not after *)
(* an update that skips the values a document held already, nor in the     *)
(* copy of a call that goes on to fail (check_unique, fill_index).         *)
THEOREM UniqueStaysUnique ==
    KeysLeadBack /\ TuplesKeyed => (Spec => []UniquesHold)
<1> SUFFICES ASSUME KeysLeadBack, TuplesKeyed PROVE Spec => []UniquesHold
  OBVIOUS
<1>1. Init => UniquesHold
  BY EmptyNoneTwice DEF Init, UniquesHold
<1>2. ASSUME IInv, UniquesHold, [Next]_vars PROVE UniquesHold'
  <2>1. CASE Step
    BY <1>2, <2>1, OperationUnique DEF Step
  <2>2. CASE End
    <3>1. work' = Empty /\ (coll' = work \/ coll' = coll)
      BY <2>2 DEF End
    <3> QED
      BY <1>2, <3>1, EmptyNoneTwice DEF UniquesHold
  <2>3. ASSUME NEW call, Begin(call) \/ Refuse(call) PROVE UniquesHold'
    <3>1. (work' = coll \/ work' = work) /\ coll' = coll
      BY <2>3 DEF Begin, Refuse
    <3> QED
      BY <1>2, <3>1 DEF UniquesHold
  <2>4. CASE UNCHANGED vars
    <3>1. work' = work /\ coll' = coll
      BY <2>4 DEF vars
    <3> QED
      BY <1>2, <3>1 DEF UniquesHold
  <2> QED
    BY <1>2, <2>1, <2>2, <2>3, <2>4 DEF Next
<1>3. Spec => []IInv
  BY SpecIInv
<1> QED
  BY <1>1, <1>2, <1>3, PTL DEF Spec

-----------------------------------------------------------------------------
(* A collection implements DocumentSet: the documents at its locations are *)
(* the set's, the indexes in its catalog those declared.                   *)

(* An empty collection.                                                    *)
LEMMA EmptyStaged == Staged(Empty) = Set!NoDocs
<1>1. DocsOf(Empty) = [id \in {} |-> 0]
  BY DEF DocsOf, Empty
<1>2. DeclaredOf(Empty) = {}
  BY DEF DeclaredOf, Empty
<1> QED
  BY <1>1, <1>2 DEF Staged, Set!NoDocs

(* An error is an error of the set's.                                      *)
LEMMA FailFails ==
    ASSUME NEW error, Fail(error)
    PROVE  Set!Fail(error)
<1>1. /\ running' = "idle" /\ outcome' = <<"failed", error>>
      /\ work' = Empty /\ todo' = <<>> /\ counts' = <<>> /\ coll' = coll
  BY DEF Fail
<1>2. Staged(work)' = Set!NoDocs
  BY <1>1, EmptyStaged
<1>3. DocsOf(coll)' = DocsOf(coll) /\ DeclaredOf(coll)' = DeclaredOf(coll)
  BY <1>1
<1> QED
  BY <1>1, <1>2, <1>3 DEF Set!Fail

(* An operation made is one of the set's, of what it leaves.               *)
LEMMA MadeMade ==
    ASSUME NEW d, NEW ops, NEW written, Made(d, ops, written),
           NEW now, now = Staged(d)
    PROVE  Set!Made(now, ops, written)
<1>1. /\ work' = d /\ todo' = ops \o Tail(todo) /\ counts' = written
      /\ coll' = coll /\ running' = running /\ outcome' = outcome
  BY DEF Made
<1>2. Staged(work)' = now
  BY <1>1
<1>3. DocsOf(coll)' = DocsOf(coll) /\ DeclaredOf(coll)' = DeclaredOf(coll)
  BY <1>1
<1> QED
  BY <1>1, <1>2, <1>3 DEF Set!Made

(* The counts are counted alike.                                           *)
LEMMA SameCounts ==
    \A n : Set!Counted(n) = Counted(n) /\ Set!CountedToo(n) = CountedToo(n)
BY DEF Set!Counted, Counted, Set!CountedToo, CountedToo, Set!Front, Front,
       Set!Last, Last

(* A document is taken where the set finds it a duplicate.                 *)
LEMMA TakenDuplicate ==
    ASSUME TuplesKeyed, NEW id, NEW doc
    PROVE  TakenBy(work, id, doc) <=> Set!Duplicate(id, doc)
<1>1. Staged(work).docs = DocsOf(work) /\ Staged(work).declared = DeclaredOf(work)
  BY DEF Staged
<1>2. \A index : Set!Collides(index, id, doc) <=>
         Collide(DocsOf(work), index, id, doc)
  BY <1>1 DEF Set!Collides, Collide
<1>3. \A i : Declared(i).unique = i.unique
  BY DEF Declared
<1>4. \A i : Clashes(work, i, id, doc) <=>
         Collide(DocsOf(work), Declared(i), id, doc)
  BY CollideRight
<1>5. Set!Duplicate(id, doc) <=>
         \E index \in DeclaredOf(work) :
            index.unique /\ Collide(DocsOf(work), index, id, doc)
  BY <1>1, <1>2 DEF Set!Duplicate
<1>6. ASSUME NEW i \in DOMAIN work.indexes, work.indexes[i].unique,
             Clashes(work, work.indexes[i], id, doc)
      PROVE  \E index \in DeclaredOf(work) :
                index.unique /\ Collide(DocsOf(work), index, id, doc)
  <2>1. Declared(work.indexes[i]) \in DeclaredOf(work)
    BY DEF DeclaredOf
  <2> QED
    BY <1>3, <1>4, <1>6, <2>1
<1>7. ASSUME NEW index \in DeclaredOf(work), index.unique,
             Collide(DocsOf(work), index, id, doc)
      PROVE  TakenBy(work, id, doc)
  <2>1. PICK i \in DOMAIN work.indexes : index = Declared(work.indexes[i])
    BY DEF DeclaredOf
  <2> QED
    BY <1>3, <1>4, <1>7, <2>1 DEF TakenBy
<1> QED
  BY <1>5, <1>6, <1>7 DEF TakenBy

(* A document put.                                                         *)
LEMMA PutsPut ==
    ASSUME TuplesKeyed, NEW id, NEW doc, NEW written, Puts(id, doc, written)
    PROVE  Set!Put(id, doc, written)
<1> DEFINE now == [Staged(work) EXCEPT !.docs =
                     [d \in DOMAIN Staged(work).docs \cup {id} |->
                        IF d = id THEN doc ELSE Staged(work).docs[d]]]
<1>1. \A d : IsPut(work, d, id, doc) => now = Staged(d)
  BY DEF IsPut, Staged
<1>2. Set!Put(id, doc, written) =
         IF Refused(doc) THEN Set!Fail("too_deep")
         ELSE IF Set!Duplicate(id, doc) THEN Set!Fail("duplicate_value")
         ELSE Set!Made(now, <<>>, written)
  BY DEF Set!Put
<1> HIDE DEF now
<1>3. TakenBy(work, id, doc) <=> Set!Duplicate(id, doc)
  BY TakenDuplicate
<1>4. CASE Refused(doc) /\ Fail("too_deep")
  BY <1>2, <1>4, FailFails
<1>5. CASE ~Refused(doc) /\ TakenBy(work, id, doc) /\ Fail("duplicate_value")
  BY <1>2, <1>3, <1>5, FailFails
<1>6. ASSUME ~Refused(doc), ~TakenBy(work, id, doc),
             NEW d, IsPut(work, d, id, doc), Made(d, <<>>, written)
      PROVE  Set!Put(id, doc, written)
  <2>1. Set!Made(now, <<>>, written)
    BY <1>1, <1>6, MadeMade
  <2> QED
    BY <1>2, <1>3, <1>6, <2>1
<1> QED
  BY <1>4, <1>5, <1>6 DEF Puts

(* A document put in the place of the one there is.                        *)
LEMMA UpdateReplaces ==
    ASSUME KeysLeadBack, TuplesKeyed, Sound(work), NoneTwice(work),
           NEW id, NEW doc, NEW written, UpdateRecord(id, doc, written)
    PROVE  Set!Replace(id, doc, written)
<1>1. DOMAIN Staged(work).docs = DOMAIN work.primary
  BY DEF Staged, DocsOf
<1>2. \/ id \notin DOMAIN work.primary /\ Fail("not_found")
      \/ id \in DOMAIN work.primary /\ Puts(id, doc, written)
  BY UpdatePuts
<1> QED
  BY <1>1, <1>2, FailFails, PutsPut DEF Set!Replace

(* A document erased.                                                      *)
LEMMA DeleteErase ==
    ASSUME KeysLeadBack, TuplesKeyed, Sound(work), NoneTwice(work),
           NEW id, NEW written, DeleteRecord(id, written)
    PROVE  Set!Erase(id, written)
<1> DEFINE now == [Staged(work) EXCEPT !.docs =
                     [d \in DOMAIN Staged(work).docs \ {id} |-> Staged(work).docs[d]]]
<1>1. DOMAIN Staged(work).docs = DOMAIN work.primary
  BY DEF Staged, DocsOf
<1>2. \A d : IsErased(work, d, id) => now = Staged(d)
  BY DEF IsErased, Staged
<1>3. Set!Erase(id, written) =
         IF id \notin DOMAIN Staged(work).docs THEN Set!Fail("not_found")
         ELSE Set!Made(now, <<>>, written)
  BY DEF Set!Erase
<1> HIDE DEF now
<1>4. \/ id \notin DOMAIN work.primary /\ Fail("not_found")
      \/ id \in DOMAIN work.primary /\ Erases(id, written)
  BY DeleteErases
<1>5. CASE id \notin DOMAIN work.primary /\ Fail("not_found")
  BY <1>1, <1>3, <1>5, FailFails
<1>6. ASSUME id \in DOMAIN work.primary,
             NEW d, IsErased(work, d, id), Made(d, <<>>, written)
      PROVE  Set!Erase(id, written)
  <2>1. Set!Made(now, <<>>, written)
    BY <1>2, <1>6, MadeMade
  <2> QED
    BY <1>1, <1>3, <1>6, <2>1
<1> QED
  BY <1>4, <1>5, <1>6 DEF Erases

(* An index built.                                                         *)
LEMMA BuildsEnsure ==
    ASSUME NEW asked, Builds(asked)
    PROVE  Set!EnsureIndex(asked)
<1> DEFINE index == Asked(asked)
           there == DeclaredOn(work, asked.fields)
           clash == asked.unique /\ \E id \in DOMAIN DocsOf(work) :
                       Collide(DocsOf(work), index, id, DocsOf(work)[id])
           now == [Staged(work) EXCEPT !.declared = @ \cup {index}]
<1>1. Staged(work).docs = DocsOf(work) /\ Staged(work).declared = DeclaredOf(work)
  BY DEF Staged
<1>2. \A i, id, doc : Set!Collides(i, id, doc) <=>
         Collide(DocsOf(work), i, id, doc)
  BY <1>1 DEF Set!Collides, Collide
<1>3. index.unique = asked.unique /\ index.fields = asked.fields
  BY DEF Asked
<1>4. there = {i \in Staged(work).declared : i.fields = index.fields}
  BY <1>1, <1>3 DEF DeclaredOn
<1>5. clash <=> index.unique /\ \E id \in DOMAIN Staged(work).docs :
                   Set!Collides(index, id, Staged(work).docs[id])
  BY <1>1, <1>2, <1>3
<1>6. Set!EnsureIndex(asked) <=>
        (IF there = {index} THEN Set!Made(Staged(work), <<>>, Set!Counted(0))
         ELSE IF there # {} THEN Set!Fail("other_options")
         ELSE IF clash THEN Set!Fail("duplicate_value")
         ELSE Set!Made(now, <<>>, Set!Counted(1)))
  <2>1. index = [fields |-> asked.fields, unique |-> asked.unique,
                 sparse |-> asked.sparse]
    BY DEF Asked
  <2> HIDE DEF index, there, clash
  <2> QED
    BY <1>4, <1>5, <2>1 DEF Set!EnsureIndex
<1>7. \A d : /\ DocsOf(d) = DocsOf(work)
             /\ DeclaredOf(d) = DeclaredOf(work) \cup {index}
             => now = Staged(d)
  BY DEF Staged
<1>8. \/ there = {index} /\ Made(work, <<>>, Counted(0))
      \/ there # {index} /\ there # {} /\ Fail("other_options")
      \/ there = {} /\ clash /\ Fail("duplicate_value")
      \/ /\ there = {} /\ ~clash
         /\ \E d : /\ DocsOf(d) = DocsOf(work)
                   /\ DeclaredOf(d) = DeclaredOf(work) \cup {index}
                   /\ Made(d, <<>>, Counted(1))
  BY DEF Builds
<1> HIDE DEF index, there, clash, now
<1>9. \A d : Made(d, <<>>, Counted(1)) /\ now = Staged(d) =>
               Set!Made(now, <<>>, Set!Counted(1))
  BY MadeMade, SameCounts
<1>10. Made(work, <<>>, Counted(0)) => Set!Made(Staged(work), <<>>, Set!Counted(0))
  BY MadeMade, SameCounts
<1>11. \A error : Fail(error) => Set!Fail(error)
  BY FailFails
<1>12. {index} # {}
  OBVIOUS
<1> QED
  BY <1>6, <1>7, <1>8, <1>9, <1>10, <1>11, <1>12

(* An index dropped.                                                       *)
LEMMA UndeclaresDrop ==
    ASSUME NEW fields, Undeclares(fields)
    PROVE  Set!DropIndex(fields)
<1> DEFINE left == LeftOf(work, fields)
           now == [Staged(work) EXCEPT !.declared = left]
           n == IF left = DeclaredOf(work) THEN 0 ELSE 1
<1>1. Staged(work).declared = DeclaredOf(work)
  BY DEF Staged
<1>2. Set!DropIndex(fields) <=> Set!Made(now, <<>>, Set!Counted(n))
  <2>1. left = {i \in Staged(work).declared : i.fields # fields}
    BY <1>1 DEF LeftOf
  <2> HIDE DEF left
  <2> QED
    BY <1>1, <2>1 DEF Set!DropIndex
<1>3. PICK d : /\ DocsOf(d) = DocsOf(work) /\ DeclaredOf(d) = left
               /\ Made(d, <<>>, Counted(n))
  BY DEF Undeclares
<1>4. now = Staged(d)
  BY <1>3 DEF Staged
<1> HIDE DEF now, n, left
<1> QED
  BY <1>2, <1>3, <1>4, MadeMade, SameCounts

(* An update by operators.                                                 *)
LEMMA ChangeChanges ==
    ASSUME KeysLeadBack, TuplesKeyed, Sound(work), NoneTwice(work),
           NEW id, NEW old, NEW update, NEW none, NEW one,
           LET new == Changed(update, old, FALSE)
           IN  \/ new = <<>> /\ Fail("update")
               \/ /\ new # <<>> /\ WithId(new[1], id) = old
                  /\ Made(work, <<>>, none)
               \/ /\ new # <<>> /\ WithId(new[1], id) # old
                  /\ UpdateRecord(id, WithId(new[1], id), one)
    PROVE  Set!Change(id, old, update, none, one)
<1> DEFINE new == Changed(update, old, FALSE)
<1>1. CASE new = <<>> /\ Fail("update")
  BY <1>1, FailFails DEF Set!Change
<1>2. CASE new # <<>> /\ WithId(new[1], id) = old /\ Made(work, <<>>, none)
  BY <1>2, MadeMade DEF Set!Change
<1>3. CASE /\ new # <<>> /\ WithId(new[1], id) # old
           /\ UpdateRecord(id, WithId(new[1], id), one)
  <2>1. Set!Replace(id, WithId(new[1], id), one)
    BY <1>3, UpdateReplaces
  <2> QED
    BY <1>3, <2>1 DEF Set!Change
<1> QED
  BY <1>1, <1>2, <1>3

\* What a filter is answered, where its hint can be followed.
Answered(filter) ==
    /\ Found(work, filter) \in Answers(DocsOf(work), filter)
    /\ \A i \in DOMAIN Found(work, filter) :
          Found(work, filter)[i] \in DOMAIN work.primary
    /\ IsMatched(Matched(work, filter), Matching(DocsOf(work), filter))

(* Require, its hint followed, is the set's, and so are the four below.    *)
LEMMA RequireRight ==
    ASSUME NEW filter, NEW none, HintFollowed(filter, work.indexes),
           Answered(filter), Require(filter, none)
    PROVE  Set!Require(filter, none)
<1>1. (Matched(work, filter) # <<>>) <=> (Matching(DocsOf(work), filter) # {})
  BY DEF Answered, IsMatched
<1>2. Staged(work).docs = DocsOf(work)
  BY DEF Staged
<1>3. (Matched(work, filter) # <<>>) = (Matching(Staged(work).docs, filter) # {})
  BY <1>1, <1>2
<1>4. \/ /\ (Matched(work, filter) # <<>>) = none
         /\ Fail("precondition")
      \/ /\ ~((Matched(work, filter) # <<>>) = none)
         /\ Made(work, <<>>, Counted(0))
  BY DEF Require
<1>5. CASE (Matched(work, filter) # <<>>) = none /\ Fail("precondition")
  <2>1. Set!Fail("precondition")
    BY <1>5, FailFails
  <2> QED
    BY <1>3, <1>5, <2>1 DEF Set!Require
<1>6. CASE /\ ~((Matched(work, filter) # <<>>) = none)
           /\ Made(work, <<>>, Counted(0))
  <2>1. Set!Made(Staged(work), <<>>, Set!Counted(0))
    BY <1>6, MadeMade, SameCounts
  <2> QED
    BY <1>3, <1>6, <2>1 DEF Set!Require
<1> QED
  BY <1>4, <1>5, <1>6

(* update_matching_in: the documents as they are found.                    *)
LEMMA UpdateManyRight ==
    ASSUME NEW filter, NEW update, HintFollowed(filter, work.indexes),
           Answered(filter), UpdateMany(filter, update)
    PROVE  Set!UpdateMany(filter, update)
<1> DEFINE found == Found(work, filter)
           ops == [i \in DOMAIN found |->
                     <<"change", found[i], DocAt(work, found[i]), update>>]
<1>1. Made(work, ops, Counted(0))
  BY DEF UpdateMany
<1>2. Staged(work).docs = DocsOf(work)
  BY DEF Staged
<1>3. found \in Answers(Staged(work).docs, filter)
  BY <1>2 DEF Answered
<1>4. \A i \in DOMAIN found : Staged(work).docs[found[i]] = DocAt(work, found[i])
  BY <1>2 DEF Answered, DocsOf
<1>5. ops = [i \in DOMAIN found |->
               <<"change", found[i], Staged(work).docs[found[i]], update>>]
  BY <1>4
<1> HIDE DEF ops
<1>6. Set!Made(Staged(work), ops, Set!Counted(0))
  BY <1>1, MadeMade, SameCounts
<1> QED
  BY <1>3, <1>5, <1>6 DEF Set!UpdateMany

(* delete_matching_in.                                                     *)
LEMMA DeleteManyRight ==
    ASSUME NEW filter, HintFollowed(filter, work.indexes),
           Answered(filter), DeleteMany(filter)
    PROVE  Set!DeleteMany(filter)
<1> DEFINE found == Found(work, filter)
           ops == [i \in DOMAIN found |-> <<"doomed", found[i]>>]
<1>1. Made(work, ops, Counted(0))
  BY DEF DeleteMany
<1>2. found \in Answers(Staged(work).docs, filter)
  BY DEF Answered, Staged
<1>3. ops = [i \in DOMAIN found |-> <<"doomed", found[i]>>]
  OBVIOUS
<1> HIDE DEF ops
<1>4. Set!Made(Staged(work), ops, Set!Counted(0))
  BY <1>1, MadeMade, SameCounts
<1> QED
  BY <1>2, <1>3, <1>4 DEF Set!DeleteMany

(* Collection::upsert.                                                     *)
LEMMA UpsertRight ==
    ASSUME NEW filter, NEW doc, NEW new, HintFollowed(filter, work.indexes),
           Answered(filter), Upsert(filter, doc, new)
    PROVE  Set!Upsert(filter, doc, new)
<1> DEFINE ids == Matched(work, filter)
           all == Matching(DocsOf(work), filter)
<1>1. all = Matching(Staged(work).docs, filter)
  BY DEF Staged
<1>2. \/ Len(ids) > 1 /\ Fail("multiple")
      \/ ~(Len(ids) > 1) /\ ids = <<>> /\ Made(work, <<<<"insert", new, doc>>>>, counts)
      \/ ~(Len(ids) > 1) /\ ids # <<>> /\ Made(work, <<<<"update", ids[1], doc>>>>, counts)
  BY DEF Upsert
<1>3. IsMatched(ids, all)
  BY DEF Answered
<1>4. Len(<<>>) = 0
  OBVIOUS
<1> HIDE DEF ids, all
<1>5. CASE Len(ids) > 1 /\ Fail("multiple")
  <2>1. \E d, e \in all : d # e
    BY <1>3, <1>4, <1>5 DEF IsMatched
  <2>2. Set!Fail("multiple")
    BY <1>5, FailFails
  <2> QED
    BY <1>1, <2>1, <2>2 DEF Set!Upsert
<1>6. CASE ids = <<>> /\ Made(work, <<<<"insert", new, doc>>>>, counts)
  <2>1. all = {}
    BY <1>3, <1>6 DEF IsMatched
  <2>2. Set!Made(Staged(work), <<<<"insert", new, doc>>>>, counts)
    BY <1>6, MadeMade
  <2> QED
    BY <1>1, <2>1, <2>2 DEF Set!Upsert
<1>7. CASE /\ ~(Len(ids) > 1) /\ ids # <<>>
           /\ Made(work, <<<<"update", ids[1], doc>>>>, counts)
  <2>1. all = {ids[1]}
    BY <1>3, <1>7 DEF IsMatched
  <2>2. Set!Made(Staged(work), <<<<"update", ids[1], doc>>>>, counts)
    BY <1>7, MadeMade
  <2> QED
    BY <1>1, <2>1, <2>2 DEF Set!Upsert
<1> QED
  BY <1>2, <1>5, <1>6, <1>7

(* Collection::upsert_fields.                                              *)
LEMMA UpsertFieldsRight ==
    ASSUME NEW filter, NEW update, NEW new, HintFollowed(filter, work.indexes),
           Answered(filter), UpsertFields(filter, update, new)
    PROVE  Set!UpsertFields(filter, update, new)
<1> DEFINE ids == Matched(work, filter)
           all == Matching(DocsOf(work), filter)
           id == IF SeedOf(filter).id = <<>> THEN new ELSE SeedOf(filter).id[1]
           doc == Changed(update, SeedOf(filter).doc, TRUE)
<1>1. all = Matching(Staged(work).docs, filter)
  BY DEF Staged
<1>2. \/ Len(ids) > 1 /\ Fail("multiple")
      \/ ~(Len(ids) > 1) /\ ids # <<>> /\ Made(work, <<<<"fields", ids[1], update>>>>, counts)
      \/ ids = <<>> /\ doc = <<>> /\ Fail("update")
      \/ ids = <<>> /\ doc # <<>> /\ Made(work, <<<<"insert", id, doc[1]>>>>, counts)
  BY DEF UpsertFields
<1>3. IsMatched(ids, all)
  BY DEF Answered
<1>4. Len(<<>>) = 0
  OBVIOUS
<1>5. Set!UpsertFields(filter, update, new) <=>
        \/ /\ all = {} /\ doc = <<>>
           /\ Set!Fail("update")
        \/ /\ all = {} /\ doc # <<>>
           /\ Set!Made(Staged(work), <<<<"insert", id, doc[1]>>>>, counts)
        \/ \E d \in all : /\ all = {d}
                          /\ Set!Made(Staged(work), <<<<"fields", d, update>>>>, counts)
        \/ /\ \E d, e \in all : d # e
           /\ Set!Fail("multiple")
  BY <1>1 DEF Set!UpsertFields
<1> HIDE DEF ids, all, id, doc
<1>6. CASE Len(ids) > 1 /\ Fail("multiple")
  <2>1. \E d, e \in all : d # e
    BY <1>3, <1>4, <1>6 DEF IsMatched
  <2> QED
    BY <1>5, <1>6, <2>1, FailFails
<1>7. CASE ids = <<>> /\ doc = <<>> /\ Fail("update")
  <2>1. all = {}
    BY <1>3, <1>7 DEF IsMatched
  <2> QED
    BY <1>5, <1>7, <2>1, FailFails
<1>8. CASE ids = <<>> /\ doc # <<>> /\ Made(work, <<<<"insert", id, doc[1]>>>>, counts)
  <2>1. all = {}
    BY <1>3, <1>8 DEF IsMatched
  <2>2. Set!Made(Staged(work), <<<<"insert", id, doc[1]>>>>, counts)
    BY <1>8, MadeMade
  <2> QED
    BY <1>5, <1>8, <2>1, <2>2
<1>9. CASE /\ ~(Len(ids) > 1) /\ ids # <<>>
           /\ Made(work, <<<<"fields", ids[1], update>>>>, counts)
  <2>1. all = {ids[1]}
    BY <1>3, <1>9 DEF IsMatched
  <2>2. Set!Made(Staged(work), <<<<"fields", ids[1], update>>>>, counts)
    BY <1>9, MadeMade
  <2> QED
    BY <1>5, <2>1, <2>2
<1> QED
  BY <1>2, <1>6, <1>7, <1>8, <1>9

(* An operation on a filter: the set's, or a hint refused.                 *)
LEMMA AskedRight ==
    ASSUME running # "idle", todo # <<>>, ReadsRight,
           NEW op, op = Head(todo), AsksFilter(op)
    PROVE  /\ HintFollowed(op[2], work.indexes) => Answered(op[2])
           /\ ~HintFollowed(op[2], work.indexes) => Set!Hinted(op)
<1>1. IsAnswered(work, op[2], Answers(DocsOf(work), op[2]),
                 Matching(DocsOf(work), op[2]))
  BY DEF ReadsRight
<1>2. CASE HintFollowed(op[2], work.indexes)
  BY <1>1, <1>2 DEF IsAnswered, Answered
<1>3. CASE ~HintFollowed(op[2], work.indexes)
  BY <1>1, <1>3 DEF IsAnswered, Set!Hinted, AsksFilter
<1> QED
  BY <1>2, <1>3

(* Every operation is one of the set's.                                    *)
LEMMA OperationRight ==
    ASSUME KeysLeadBack, TuplesKeyed, Sound(work), NoneTwice(work),
           running # "idle", todo # <<>>, ReadsRight,
           NEW op, op = Head(todo), Operation(op)
    PROVE  Set!Operation(op) \/ (Set!Hinted(op) /\ Set!Fail("hint"))
<1>1. /\ DOMAIN Staged(work).docs = DOMAIN work.primary
      /\ \A id \in DOMAIN work.primary : Staged(work).docs[id] = DocAt(work, id)
  BY DEF Staged, DocsOf
<1>2. ASSUME op[1] = "insert", Insert(op[2], op[3]) PROVE Set!Operation(op)
  <2>1. \/ op[2] \in DOMAIN work.primary /\ Fail("duplicate_id")
        \/ /\ op[2] \notin DOMAIN work.primary
           /\ Puts(op[2], WithId(op[3], op[2]), Counted(1))
    BY <1>2, InsertPuts DEF Insert
  <2>2. Counted(1) = Set!Counted(1)
    BY SameCounts
  <2>3. Set!Insert(op[2], op[3])
    BY <1>1, <2>1, <2>2, FailFails, PutsPut DEF Set!Insert
  <2> QED
    BY <1>2, <2>3 DEF Set!Operation
<1>3. ASSUME op[1] = "update", Update(op[2], op[3]) PROVE Set!Operation(op)
  <2>1. Counted(1) = Set!Counted(1)
    BY SameCounts
  <2>2. Set!Update(op[2], op[3])
    BY <1>3, <2>1, UpdateReplaces DEF Update, Set!Update
  <2> QED
    BY <1>3, <2>2 DEF Set!Operation
<1>4. ASSUME op[1] = "delete", Delete(op[2]) PROVE Set!Operation(op)
  <2>1. Counted(1) = Set!Counted(1)
    BY SameCounts
  <2>2. Set!Delete(op[2])
    BY <1>4, <2>1, DeleteErase DEF Delete, Set!Delete
  <2> QED
    BY <1>4, <2>2 DEF Set!Operation
<1>5. ASSUME op[1] = "fields", Fields(op[2], op[3]) PROVE Set!Operation(op)
  <2> DEFINE old == DocAt(work, op[2])
             new == Changed(op[3], old, FALSE)
  <2>1. Counted(0) = Set!Counted(0) /\ Counted(1) = Set!Counted(1)
    BY SameCounts
  <2>2. CASE op[2] \notin DOMAIN work.primary
    <3>1. Set!Fail("not_found")
      BY <1>5, <2>2, FailFails DEF Fields
    <3> QED
      BY <1>1, <1>5, <2>2, <3>1 DEF Set!Operation, Set!Fields
  <2>3. CASE op[2] \in DOMAIN work.primary
    <3>1. \/ new = <<>> /\ Fail("update")
          \/ /\ new # <<>> /\ WithId(new[1], op[2]) = old
             /\ Made(work, <<>>, Counted(0))
          \/ /\ new # <<>> /\ WithId(new[1], op[2]) # old
             /\ UpdateRecord(op[2], WithId(new[1], op[2]), Counted(1))
      BY <1>5, <2>3 DEF Fields
    <3>2. Set!Change(op[2], old, op[3], Counted(0), Counted(1))
      BY <3>1, ChangeChanges
    <3>3. Set!Fields(op[2], op[3])
      BY <1>1, <2>1, <2>3, <3>2 DEF Set!Fields
    <3> QED
      BY <1>5, <3>3 DEF Set!Operation
  <2> QED
    BY <2>2, <2>3
<1>6. ASSUME op[1] = "change", Change(op[2], op[3], op[4]) PROVE Set!Operation(op)
  <2> DEFINE new == Changed(op[4], op[3], FALSE)
  <2>1. CountedToo(0) = Set!CountedToo(0) /\ CountedToo(1) = Set!CountedToo(1)
    BY SameCounts
  <2>2. \/ new = <<>> /\ Fail("update")
        \/ /\ new # <<>> /\ WithId(new[1], op[2]) = op[3]
           /\ Made(work, <<>>, CountedToo(0))
        \/ /\ new # <<>> /\ WithId(new[1], op[2]) # op[3]
           /\ UpdateRecord(op[2], WithId(new[1], op[2]), CountedToo(1))
    BY <1>6 DEF Change
  <2>3. Set!Change(op[2], op[3], op[4], CountedToo(0), CountedToo(1))
    BY <2>2, ChangeChanges
  <2> QED
    BY <1>6, <2>1, <2>3 DEF Set!Operation
<1>7. ASSUME op[1] = "doomed", DeleteRecord(op[2], CountedToo(1))
      PROVE  Set!Operation(op)
  <2>1. CountedToo(1) = Set!CountedToo(1)
    BY SameCounts
  <2>2. Set!Erase(op[2], CountedToo(1))
    BY <1>7, DeleteErase
  <2> QED
    BY <1>7, <2>1, <2>2 DEF Set!Operation
<1>8. ASSUME op[1] = "ensure_index", EnsureIndex(op[2]) PROVE Set!Operation(op)
  <2>1. Set!EnsureIndex(op[2])
    BY <1>8, EnsureBuilds, BuildsEnsure
  <2> QED
    BY <1>8, <2>1 DEF Set!Operation
<1>9. ASSUME op[1] = "drop_index", DropIndex(op[2]) PROVE Set!Operation(op)
  <2>1. Set!DropIndex(op[2])
    BY <1>9, DropUndeclares, UndeclaresDrop
  <2> QED
    BY <1>9, <2>1 DEF Set!Operation
<1>10. ASSUME op[1] = "drop", Drop PROVE Set!Operation(op)
  <2>1. Set!Made(Set!NoDocs, <<>>, Set!Counted(1))
    BY <1>10, EmptyStaged, MadeMade, SameCounts DEF Drop
  <2> QED
    BY <1>10, <2>1 DEF Set!Operation
<1> DEFINE Right == Set!Operation(op) \/ (Set!Hinted(op) /\ Set!Fail("hint"))
<1>11. ASSUME AsksFilter(op), ~HintFollowed(op[2], work.indexes), Fail("hint")
       PROVE  Right
  BY <1>11, AskedRight, FailFails
<1>12. ASSUME AsksFilter(op), HintFollowed(op[2], work.indexes)
       PROVE  Answered(op[2])
  BY <1>12, AskedRight
<1>13. ASSUME op[1] = "require", Require(op[2], op[3]) PROVE Right
  <2>1. AsksFilter(op)
    BY <1>13 DEF AsksFilter
  <2>2. CASE HintFollowed(op[2], work.indexes)
    <3>1. Set!Require(op[2], op[3])
      BY <1>12, <1>13, <2>1, <2>2, RequireRight
    <3> QED
      BY <1>13, <3>1 DEF Set!Operation
  <2>3. CASE ~HintFollowed(op[2], work.indexes)
    BY <1>11, <1>13, <2>1, <2>3 DEF Require
  <2> QED
    BY <2>2, <2>3
<1>14. ASSUME op[1] = "update_many", UpdateMany(op[2], op[3]) PROVE Right
  <2>1. AsksFilter(op)
    BY <1>14 DEF AsksFilter
  <2>2. CASE HintFollowed(op[2], work.indexes)
    <3>1. Set!UpdateMany(op[2], op[3])
      BY <1>12, <1>14, <2>1, <2>2, UpdateManyRight
    <3> QED
      BY <1>14, <3>1 DEF Set!Operation
  <2>3. CASE ~HintFollowed(op[2], work.indexes)
    BY <1>11, <1>14, <2>1, <2>3 DEF UpdateMany
  <2> QED
    BY <2>2, <2>3
<1>15. ASSUME op[1] = "delete_many", DeleteMany(op[2]) PROVE Right
  <2>1. AsksFilter(op)
    BY <1>15 DEF AsksFilter
  <2>2. CASE HintFollowed(op[2], work.indexes)
    <3>1. Set!DeleteMany(op[2])
      BY <1>12, <1>15, <2>1, <2>2, DeleteManyRight
    <3> QED
      BY <1>15, <3>1 DEF Set!Operation
  <2>3. CASE ~HintFollowed(op[2], work.indexes)
    BY <1>11, <1>15, <2>1, <2>3 DEF DeleteMany
  <2> QED
    BY <2>2, <2>3
<1>16. ASSUME op[1] = "upsert", Upsert(op[2], op[3], op[4]) PROVE Right
  <2>1. AsksFilter(op)
    BY <1>16 DEF AsksFilter
  <2>2. CASE HintFollowed(op[2], work.indexes)
    <3>1. Set!Upsert(op[2], op[3], op[4])
      BY <1>12, <1>16, <2>1, <2>2, UpsertRight
    <3> QED
      BY <1>16, <3>1 DEF Set!Operation
  <2>3. CASE ~HintFollowed(op[2], work.indexes)
    BY <1>11, <1>16, <2>1, <2>3 DEF Upsert
  <2> QED
    BY <2>2, <2>3
<1>17. ASSUME op[1] = "upsert_fields", UpsertFields(op[2], op[3], op[4]) PROVE Right
  <2>1. AsksFilter(op)
    BY <1>17 DEF AsksFilter
  <2>2. CASE HintFollowed(op[2], work.indexes)
    <3>1. Set!UpsertFields(op[2], op[3], op[4])
      BY <1>12, <1>17, <2>1, <2>2, UpsertFieldsRight
    <3> QED
      BY <1>17, <3>1 DEF Set!Operation
  <2>3. CASE ~HintFollowed(op[2], work.indexes)
    BY <1>11, <1>17, <2>1, <2>3 DEF UpsertFields
  <2> QED
    BY <2>2, <2>3
<1> QED
  BY <1>2, <1>3, <1>4, <1>5, <1>6, <1>7, <1>8, <1>9, <1>10, <1>13, <1>14,
     <1>15, <1>16, <1>17 DEF Operation

(* Every step is one of the set's, or changes nothing there.               *)
LEMMA StepRight ==
    ASSUME KeysLeadBack, TuplesKeyed, IInv, UniquesHold, ReadsRight, [Next]_vars
    PROVE  [Set!Next]_(Set!vars)
<1>1. Sound(work) /\ NoneTwice(work)
  BY DEF IInv, UniquesHold
<1>2. /\ Staged(work).docs = DocsOf(work)
      /\ Staged(work).declared = DeclaredOf(work)
  BY DEF Staged
<1>3. CASE Step
  <2>1. Set!Step
    BY <1>1, <1>3, OperationRight DEF Step, Set!Step
  <2> QED
    BY <2>1 DEF Set!Next
<1>4. CASE End
  <2>1. /\ running # "idle" /\ todo = <<>>
        /\ outcome' = <<"done", counts>> /\ running' = "idle"
        /\ coll' = IF running = "commit" THEN work ELSE coll
        /\ work' = Empty /\ counts' = <<>> /\ todo' = todo
    BY <1>4 DEF End
  <2>2. Staged(work)' = Set!NoDocs
    BY <2>1, EmptyStaged
  <2>3. /\ DocsOf(coll)' = IF running = "commit" THEN DocsOf(work) ELSE DocsOf(coll)
        /\ DeclaredOf(coll)' =
              IF running = "commit" THEN DeclaredOf(work) ELSE DeclaredOf(coll)
    BY <2>1
  <2>4. Set!End
    BY <1>2, <2>1, <2>2, <2>3 DEF Set!End
  <2> QED
    BY <2>4 DEF Set!Next
<1>5. ASSUME NEW call \in Calls \cup Starts, Begin(call)
      PROVE  Set!Next
  <2>1. /\ running = "idle" /\ ~IsRefused(call)
        /\ running' = IF call.dry THEN "dry" ELSE "commit"
        /\ work' = coll /\ todo' = call.ops /\ counts' = <<>>
        /\ outcome' = <<"none">> /\ coll' = coll
    BY <1>5 DEF Begin
  <2>2. Staged(work)' = [docs |-> DocsOf(coll), declared |-> DeclaredOf(coll)]
    BY <2>1 DEF Staged
  <2>3. DocsOf(coll)' = DocsOf(coll) /\ DeclaredOf(coll)' = DeclaredOf(coll)
    BY <2>1
  <2>4. Set!Begin(call)
    BY <2>1, <2>2, <2>3 DEF Set!Begin, IsRefused
  <2> QED
    BY <2>4 DEF Set!Next
<1>6. ASSUME NEW call \in Calls, Refuse(call)
      PROVE  Set!Next
  <2>1. /\ running = "idle" /\ IsRefused(call)
        /\ outcome' = <<"failed", "invalid">> /\ coll' = coll /\ work' = work
        /\ todo' = todo /\ counts' = counts /\ running' = running
    BY <1>6 DEF Refuse
  <2>2. /\ Staged(work)' = Staged(work)
        /\ DocsOf(coll)' = DocsOf(coll) /\ DeclaredOf(coll)' = DeclaredOf(coll)
    BY <2>1
  <2>3. Set!Refuse(call)
    BY <2>1, <2>2 DEF Set!Refuse, IsRefused
  <2> QED
    BY <2>3 DEF Set!Next
<1>7. CASE UNCHANGED vars
  <2>1. /\ coll' = coll /\ work' = work /\ todo' = todo /\ counts' = counts
        /\ running' = running /\ outcome' = outcome
    BY <1>7 DEF vars
  <2>2. /\ Staged(work)' = Staged(work)
        /\ DocsOf(coll)' = DocsOf(coll) /\ DeclaredOf(coll)' = DeclaredOf(coll)
    BY <2>1
  <2> QED
    BY <2>1, <2>2 DEF Set!vars
<1> QED
  BY <1>3, <1>4, <1>5, <1>6, <1>7 DEF Next

(* A call does to a collection's documents what the same call does to a    *)
(* plain set of them, operation by operation, whatever its indexes hold,   *)
(* as long as filters are answered right: it is made whole or not at all,  *)
(* a unique index refuses exactly the equal values, and the counts agree   *)
(* (Batch::run, apply_write_op, build_index, Collection::upsert).          *)
THEOREM CollectionIsDocumentSet ==
    KeysLeadBack /\ TuplesKeyed => (Spec /\ []ReadsRight => ImplementsDocuments)
<1> SUFFICES ASSUME KeysLeadBack, TuplesKeyed
             PROVE  Spec /\ []ReadsRight => ImplementsDocuments
  OBVIOUS
<1>1. Init => Set!Init
  <2> SUFFICES ASSUME Init PROVE Set!Init
    OBVIOUS
  <2>1. /\ coll = Empty /\ work = Empty /\ todo = <<>> /\ counts = <<>>
        /\ running = "idle" /\ outcome = <<"none">>
    BY DEF Init
  <2>2. Staged(work) = Set!NoDocs
    BY <2>1, EmptyStaged
  <2>3. DocsOf(coll) = Set!NoDocs.docs /\ DeclaredOf(coll) = {}
    BY <2>1, EmptyStaged DEF Staged, Set!NoDocs
  <2> QED
    BY <2>1, <2>2, <2>3 DEF Set!Init
<1>2. IInv /\ UniquesHold /\ ReadsRight /\ [Next]_vars => [Set!Next]_(Set!vars)
  BY StepRight
<1>3. Spec => []IInv
  BY SpecIInv
<1>4. Spec => []UniquesHold
  BY UniqueStaysUnique
<1> QED
  BY <1>1, <1>2, <1>3, <1>4, PTL DEF Spec, ImplementsDocuments, Set!Spec
=============================================================================
