------------------------ MODULE LiveQueries_proofs ------------------------
(***************************************************************************)
(* Change reports and the live queries fed by them, for any collections,   *)
(* documents, subscribers, filter, limit and `having`, and batches of any  *)
(* length.                                                                 *)
(*                                                                         *)
(* IInv is an invariant of Changes: a report is its batch's net effect,    *)
(* and a subscriber that reads its reports misses nothing.  LiveInv is one *)
(* of LiveQueries: the events not read always lead a reader to the result, *)
(* each one fitting what those before it leave.                            *)
(***************************************************************************)
EXTENDS LiveQueries, Induction_proofs, FiniteSetTheorems

-----------------------------------------------------------------------------
(* What `retain` and `filter_map` leave.                                   *)

(* A sequence's places taken, taken up to place n.                          *)
Take(upTo, entries, at, n) ==
    IF n = 0 THEN <<>>
    ELSE IF n \in at THEN Append(upTo[n - 1], entries[n])
    ELSE upTo[n - 1]

(* The recursion has a solution.                                           *)
LEMMA OnlyDefined ==
    ASSUME NEW T, NEW entries \in Seq(T), NEW at
    PROVE  \E upTo \in [0 .. Len(entries) -> Seq(T)] :
              /\ Only(entries, at) = upTo[Len(entries)]
              /\ \A n \in 0 .. Len(entries) : upTo[n] = Take(upTo, entries, at, n)
<1> DEFINE last == Len(entries)
           Solves(u, m) == /\ u \in [0 .. m -> Seq(T)]
                           /\ \A n \in 0 .. m : u[n] = Take(u, entries, at, n)
           Solved == {m \in Nat : m <= last =>
                        \E u \in [0 .. m -> Seq(T)] : Solves(u, m)}
<1>1. last \in Nat /\ \A n \in 1 .. last : entries[n] \in T
  OBVIOUS
<1> HIDE DEF last
<1>2. 0 \in Solved
  <2> DEFINE u == [n \in 0 .. 0 |-> <<>>]
  <2>1. u \in [0 .. 0 -> Seq(T)]
    OBVIOUS
  <2>2. \A n \in 0 .. 0 : u[n] = Take(u, entries, at, n)
    BY DEF Take
  <2> HIDE DEF u
  <2> QED
    BY <2>1, <2>2
<1>3. ASSUME NEW m \in Nat, m \in Solved PROVE m + 1 \in Solved
  <2> SUFFICES ASSUME m + 1 <= last
               PROVE  \E u \in [0 .. m + 1 -> Seq(T)] : Solves(u, m + 1)
    <3> HIDE DEF Solves
    <3> QED
      OBVIOUS
  <2>1. PICK u \in [0 .. m -> Seq(T)] : Solves(u, m)
    BY <1>1, <1>3
  <2> DEFINE v == [n \in 0 .. m + 1 |-> IF n <= m THEN u[n]
                                        ELSE Take(u, entries, at, m + 1)]
  <2>2. /\ u[m] \in Seq(T) /\ entries[m + 1] \in T
        /\ Take(u, entries, at, m + 1) \in Seq(T)
    BY <1>1 DEF Take
  <2>3. v \in [0 .. m + 1 -> Seq(T)]
    BY <2>2
  <2>4. /\ \A n \in 0 .. m : v[n] = u[n]
        /\ v[m + 1] = Take(u, entries, at, m + 1)
    OBVIOUS
  <2> HIDE DEF v
  <2>5. \A n \in 0 .. m + 1 : v[n] = Take(v, entries, at, n)
    <3> SUFFICES ASSUME NEW n \in 0 .. m + 1
                 PROVE  v[n] = Take(v, entries, at, n)
      OBVIOUS
    <3>1. CASE n = m + 1
      <4>1. (m + 1) - 1 = m /\ m + 1 # 0 /\ v[m] = u[m]
        BY <2>4
      <4> QED
        BY <2>4, <3>1, <4>1 DEF Take
    <3>2. CASE n # m + 1
      <4>1. n \in 0 .. m /\ v[n] = Take(u, entries, at, n)
        BY <2>1, <2>4, <3>2
      <4>2. n # 0 => v[n - 1] = u[n - 1]
        BY <2>4, <4>1
      <4> QED
        BY <4>1, <4>2 DEF Take
    <3> QED
      BY <3>1, <3>2
  <2> QED
    BY <2>3, <2>5
<1>4. Nat \subseteq Solved
  <2> HIDE DEF Solved
  <2> QED
    BY <1>2, <1>3, NatInd
<1>5. PICK u \in [0 .. last -> Seq(T)] : Solves(u, last)
  <2> HIDE DEF Solves
  <2>1. last \in Solved
    BY <1>1, <1>4
  <2> QED
    BY <1>1, <2>1
<1> DEFINE Table(f) == [n \in 0 .. last |-> Take(f, entries, at, n)]
           upTo == CHOOSE f : f = Table(f)
<1>6. u = Table(u)
  BY <1>5
<1>7. upTo = Table(upTo)
  <2> HIDE DEF Table
  <2> QED
    BY <1>6
<1>8. Only(entries, at) = upTo[last]
  BY DEF Only, Take, last
<1> HIDE DEF upTo
<1> DEFINE Same == {n \in Nat : n <= last => upTo[n] = u[n]}
<1>9. \A n \in 0 .. last : upTo[n] = Take(upTo, entries, at, n)
  BY <1>7
<1>10. 0 \in Same
  BY <1>1, <1>5, <1>9 DEF Take
<1>11. ASSUME NEW n \in Nat, n \in Same PROVE n + 1 \in Same
  <2> SUFFICES ASSUME n + 1 <= last PROVE upTo[n + 1] = u[n + 1]
    OBVIOUS
  <2>1. upTo[n] = u[n] /\ n + 1 \in 0 .. last
    BY <1>1, <1>11
  <2>2. /\ upTo[n + 1] = Take(upTo, entries, at, n + 1)
        /\ u[n + 1] = Take(u, entries, at, n + 1)
    BY <1>5, <1>9, <2>1
  <2>3. (n + 1) - 1 = n /\ n + 1 # 0
    OBVIOUS
  <2> QED
    BY <2>1, <2>2, <2>3 DEF Take
<1>12. Nat \subseteq Same
  <2> HIDE DEF Same
  <2> QED
    BY <1>10, <1>11, NatInd
<1>13. upTo[last] = u[last]
  BY <1>1, <1>12
<1> QED
  BY <1>5, <1>8, <1>13 DEF last

(* A sequence holds what another does at the places `at`, each once and in *)
(* their order.                                                            *)
Keeps(taken, entries, at) ==
    /\ \A i \in DOMAIN entries : i \in at =>
          \E n \in DOMAIN taken : taken[n] = entries[i]
    /\ \E from \in [DOMAIN taken -> DOMAIN entries] :
          /\ \A n \in DOMAIN taken : from[n] \in at
                                    /\ taken[n] = entries[from[n]]
          /\ \A n, m \in DOMAIN taken : from[n] = from[m] => n = m
          /\ \A n, m \in DOMAIN taken : n < m => from[n] < from[m]

(* What is left is what was there at the places taken, each once.           *)
LEMMA OnlyKeeps ==
    ASSUME NEW T, NEW entries \in Seq(T), NEW at, NEW taken,
           taken = Only(entries, at)
    PROVE  taken \in Seq(T) /\ Keeps(taken, entries, at)
<1> DEFINE last == Len(entries)
<1>1. /\ last \in Nat /\ DOMAIN entries = 1 .. last
      /\ \A n \in 1 .. last : entries[n] \in T
  OBVIOUS
<1>2. PICK upTo \in [0 .. last -> Seq(T)] :
         /\ Only(entries, at) = upTo[last]
         /\ \A n \in 0 .. last : upTo[n] = Take(upTo, entries, at, n)
  BY OnlyDefined
<1> HIDE DEF last
<1> DEFINE Has(u, i) == \A j \in 1 .. i : j \in at =>
                           \E n \in 1 .. Len(u) : u[n] = entries[j]
           From(from, u) ==
              /\ \A n \in 1 .. Len(u) : from[n] \in at /\ u[n] = entries[from[n]]
              /\ \A n, m \in 1 .. Len(u) : from[n] = from[m] => n = m
              /\ \A n, m \in 1 .. Len(u) : n < m => from[n] < from[m]
           Good == {i \in Nat : i <= last =>
                      /\ Has(upTo[i], i)
                      /\ \E from \in [1 .. Len(upTo[i]) -> 1 .. i] :
                            From(from, upTo[i])}
<1>3. 0 \in Good
  <2>1. upTo[0] = <<>>
    BY <1>1, <1>2 DEF Take
  <2> DEFINE from == [n \in 1 .. 0 |-> n]
  <2>2. from \in [1 .. Len(upTo[0]) -> 1 .. 0] /\ From(from, upTo[0])
    BY <2>1
  <2>3. Has(upTo[0], 0)
    OBVIOUS
  <2> HIDE DEF from, From, Has
  <2> QED
    BY <2>2, <2>3
<1>4. ASSUME NEW i \in Nat, i \in Good PROVE i + 1 \in Good
  <2> DEFINE u == upTo[i]
             w == upTo[i + 1]
  <2> SUFFICES ASSUME i + 1 <= last
               PROVE  /\ Has(w, i + 1)
                      /\ \E from \in [1 .. Len(w) -> 1 .. i + 1] : From(from, w)
    <3> HIDE DEF Has, From
    <3> QED
      OBVIOUS
  <2>1. /\ Has(u, i)
        /\ \E from \in [1 .. Len(u) -> 1 .. i] : From(from, u)
    <3> HIDE DEF Has, From
    <3> QED
      BY <1>1, <1>4
  <2>2. PICK from \in [1 .. Len(u) -> 1 .. i] : From(from, u)
    <3> HIDE DEF Has, From
    <3> QED
      BY <2>1
  <2>3. /\ u \in Seq(T) /\ i + 1 \in 1 .. last /\ entries[i + 1] \in T
        /\ w = IF i + 1 \in at THEN Append(u, entries[i + 1]) ELSE u
    <3>1. i \in 0 .. last /\ i + 1 \in 0 .. last /\ i + 1 # 0 /\ (i + 1) - 1 = i
      BY <1>1
    <3>2. u \in Seq(T) /\ w = Take(upTo, entries, at, i + 1)
      BY <1>2, <3>1
    <3>3. w = IF i + 1 \in at THEN Append(u, entries[i + 1]) ELSE u
      <4>1. Take(upTo, entries, at, i + 1) =
              IF i + 1 \in at THEN Append(upTo[i], entries[i + 1]) ELSE upTo[i]
        BY <3>1 DEF Take
      <4> QED
        BY <3>2, <4>1
    <3>4. i + 1 \in 1 .. last
      BY <1>1
    <3>5. entries[i + 1] \in T
      BY <1>1, <3>4
    <3> HIDE DEF u, w
    <3> QED
      BY <3>2, <3>3, <3>4, <3>5
  <2> HIDE DEF u, w
  <2>4. Len(u) \in Nat
    BY <2>3
  <2>5. CASE i + 1 \notin at
    <3>1. w = u
      BY <2>3, <2>5
    <3>2. Has(w, i + 1)
      BY <2>1, <2>5, <3>1
    <3>3. from \in [1 .. Len(w) -> 1 .. i + 1] /\ From(from, w)
      BY <2>2, <3>1
    <3> QED
      BY <3>2, <3>3
  <2>6. CASE i + 1 \in at
    <3>1. /\ Len(w) = Len(u) + 1 /\ w[Len(u) + 1] = entries[i + 1]
          /\ \A n \in 1 .. Len(u) : w[n] = u[n]
      BY <2>3, <2>4, <2>6
    <3>2. Has(w, i + 1)
      <4> SUFFICES ASSUME NEW j \in 1 .. i + 1, j \in at
                   PROVE  \E n \in 1 .. Len(w) : w[n] = entries[j]
        OBVIOUS
      <4>1. CASE j = i + 1
        BY <2>4, <3>1, <4>1
      <4>2. CASE j # i + 1
        <5>1. PICK n \in 1 .. Len(u) : u[n] = entries[j]
          BY <2>1, <4>2
        <5>2. n \in 1 .. Len(w) /\ w[n] = entries[j]
          BY <2>4, <3>1, <5>1
        <5> QED
          BY <5>2
      <4> QED
        BY <4>1, <4>2
    <3> DEFINE more == [n \in 1 .. Len(w) |-> IF n = Len(w) THEN i + 1
                                              ELSE from[n]]
    <3>3. /\ more \in [1 .. Len(w) -> 1 .. i + 1]
          /\ more[Len(w)] = i + 1
          /\ \A n \in 1 .. Len(w) : n # Len(w) =>
                n \in 1 .. Len(u) /\ more[n] = from[n] /\ from[n] \in 1 .. i
      BY <2>4, <3>1
    <3> HIDE DEF more
    <3>4. \A n \in 1 .. Len(w) : more[n] \in at /\ w[n] = entries[more[n]]
      BY <2>2, <2>6, <3>1, <3>3
    <3>5. \A n, m \in 1 .. Len(w) : more[n] = more[m] => n = m
      BY <2>2, <3>3
    <3>6. ASSUME NEW n \in 1 .. Len(w), NEW m \in 1 .. Len(w), n < m
          PROVE  more[n] < more[m]
      <4>1. n # Len(w) /\ n \in 1 .. Len(u) /\ more[n] = from[n] /\ from[n] \in 1 .. i
        BY <2>4, <3>1, <3>3, <3>6
      <4>2. CASE m = Len(w)
        BY <3>3, <4>1, <4>2
      <4>3. CASE m # Len(w)
        BY <2>2, <3>3, <3>6, <4>1, <4>3
      <4> QED
        BY <4>2, <4>3
    <3>7. From(more, w)
      BY <3>4, <3>5, <3>6
    <3> HIDE DEF Has, From
    <3> QED
      BY <3>2, <3>3, <3>7
  <2> QED
    BY <2>5, <2>6
<1>5. last \in Good
  <2> HIDE DEF Good
  <2>1. Nat \subseteq Good
    BY <1>3, <1>4, NatInd
  <2> QED
    BY <1>1, <2>1
<1>6. /\ Has(taken, last)
      /\ \E from \in [1 .. Len(taken) -> 1 .. last] : From(from, taken)
  <2> HIDE DEF Has, From
  <2> QED
    BY <1>1, <1>2, <1>5
<1>7. taken \in Seq(T) /\ DOMAIN taken = 1 .. Len(taken)
  BY <1>1, <1>2
<1>8. PICK from \in [1 .. Len(taken) -> 1 .. last] : From(from, taken)
  <2> HIDE DEF Has, From
  <2> QED
    BY <1>6
<1>9. \A i \in DOMAIN entries : i \in at =>
         \E n \in DOMAIN taken : taken[n] = entries[i]
  BY <1>1, <1>6, <1>7
<1>10. /\ from \in [DOMAIN taken -> DOMAIN entries]
       /\ \A n \in DOMAIN taken : from[n] \in at
                                 /\ taken[n] = entries[from[n]]
       /\ \A n, m \in DOMAIN taken : from[n] = from[m] => n = m
       /\ \A n, m \in DOMAIN taken : n < m => from[n] < from[m]
  BY <1>1, <1>7, <1>8
<1> HIDE DEF From, Has
<1> QED
  BY <1>7, <1>9, <1>10 DEF Keeps

-----------------------------------------------------------------------------
(* The steps.                                                              *)

(* A document is named by its collection and its id.                       *)
LEMMA Keys ==
    /\ \A k \in Key : k[1] \in Collection /\ k[2] \in Id /\ k = <<k[1], k[2]>>
    /\ \A c \in Collection, id \in Id : <<c, id>> \in Key
    /\ NoDoc \notin Value /\ NoId \notin Id /\ NoId \notin Collection
BY ChangesAssumption DEF Key

(* What a log records is told apart from its not being there.              *)
LEMMA LogIsRecorded == NotRecorded \notin Seq(EntryType)
<1> SUFFICES ASSUME NotRecorded \in Seq(EntryType) PROVE FALSE
  OBVIOUS
<1>1. NotRecorded[1] \in EntryType /\ NotRecorded[1].collection = NoId
  BY DEF NotRecorded
<1> QED
  BY <1>1, ChangesAssumption DEF EntryType

(* The initial states satisfy the invariant.                               *)
LEMMA InitIInv == Init => IInv
<1> SUFFICES ASSUME Init PROVE IInv
  OBVIOUS
<1> USE DEF Init
<1>1. Empty \in Docs
  BY DEF Empty, Docs
<1>2. changes = <<>> /\ queue = [s \in Subscriber |-> <<>>]
  OBVIOUS
<1>3. TypeOK
  <2>1. ops \in 0 .. MaxOps /\ commits \in 0 .. MaxCommits
    BY ChangesAssumption
  <2>2. docs \in Docs /\ stagedDocs \in Docs /\ before \in Docs
        /\ copy \in [Subscriber -> Docs]
    BY <1>1 DEF Docs
  <2>3. /\ \A i \in DOMAIN changes : changes[i] \in ChangeType
        /\ \A s \in Subscriber : DOMAIN queue[s] = {}
    OBVIOUS
  <2> QED
    BY <2>1, <2>2, <2>3 DEF TypeOK
<1>4. Sent
  BY DEF Sent
<1> QED
  BY <1>3, <1>4 DEF IInv, Recorded, NetEffect, CopiesCurrent

(* What appending to a sequence does.                                      *)
LEMMA Appended ==
    ASSUME NEW T, NEW s \in Seq(T), NEW e \in T, NEW t, t = Append(s, e)
    PROVE  /\ t \in Seq(T) /\ Len(s) \in Nat
           /\ DOMAIN s = 1 .. Len(s) /\ DOMAIN t = 1 .. Len(s) + 1
           /\ t[Len(s) + 1] = e /\ \A i \in 1 .. Len(s) : t[i] = s[i]
OBVIOUS

(* What a log's entries are.                                               *)
LEMMA Entries ==
    ASSUME NEW l \in Seq(EntryType)
    PROVE  /\ Len(l) \in Nat /\ DOMAIN l = 1 .. Len(l)
           /\ \A i \in DOMAIN l :
                 /\ l[i] \in EntryType
                 /\ l[i].collection \in Collection /\ l[i].id \in Id \cup {NoId}
                 /\ l[i].existed \in BOOLEAN /\ l[i].exists \in BOOLEAN
<1>1. /\ Len(l) \in Nat /\ DOMAIN l = 1 .. Len(l)
      /\ \A i \in DOMAIN l : l[i] \in EntryType
  OBVIOUS
<1> QED
  BY <1>1 DEF EntryType

(* One write noted keeps the log right.                                    *)
LEMMA WrittenSound ==
    ASSUME TypeOK, log \in Seq(EntryType), LogSound,
           NEW c \in Collection, NEW id \in Id,
           NEW value \in Value \cup {NoDoc}, NEW inserts \in BOOLEAN,
           inserts <=> stagedDocs[<<c, id>>] = NoDoc,
           ops < MaxOps, docs' = docs,
           stagedDocs' = [stagedDocs EXCEPT ![<<c, id>>] = value],
           log' = Written(log, c, id, inserts, value # NoDoc)
    PROVE  log' \in Seq(EntryType) /\ LogSound'
<1> DEFINE at == {i \in DOMAIN log : log[i].collection = c /\ log[i].id = id}
           exists == value # NoDoc
           k0 == <<c, id>>
           KeyOf(e) == <<e.collection, e.id>>
<1>1. /\ k0 \in Key /\ stagedDocs'[k0] = value
      /\ \A k \in Key : k # k0 => stagedDocs'[k] = stagedDocs[k]
  BY Keys DEF TypeOK, Docs
<1>2. \A i \in DOMAIN log : log[i].id # NoId
  BY ChangesAssumption DEF LogSound, LogDrops, TypeOK
<1>3. /\ Len(log) \in Nat /\ DOMAIN log = 1 .. Len(log)
      /\ \A i \in DOMAIN log :
            /\ log[i] \in EntryType
            /\ log[i].collection \in Collection /\ log[i].id \in Id
  BY <1>2, Entries
<1>4. \A i \in DOMAIN log : /\ KeyOf(log[i]) \in Key
                            /\ i \in at <=> KeyOf(log[i]) = k0
  BY <1>3, Keys
<1>5. \A i \in DOMAIN log :
         /\ log[i].existed <=> docs[KeyOf(log[i])] # NoDoc
         /\ log[i].exists <=> stagedDocs[KeyOf(log[i])] # NoDoc
  BY <1>2 DEF LogSound, LogRight
<1>6. \A i, j \in DOMAIN log :
         log[i].collection = log[j].collection /\ log[i].id = log[j].id => i = j
  BY DEF LogSound, LogOnce
<1>7. \A k \in Key : stagedDocs[k] # docs[k] =>
         \E i \in DOMAIN log : log[i].collection = k[1] /\ log[i].id = k[2]
  BY <1>2 DEF LogSound, LogWhole
<1>8. CASE at # {}
  <2>1. log' = [i \in DOMAIN log |-> IF i \in at
                                     THEN [log[i] EXCEPT !.exists = exists]
                                     ELSE log[i]]
    BY <1>8 DEF Written
  <2>2. DOMAIN log' = DOMAIN log
    BY <2>1
  <2> HIDE DEF at
  <2>3. \A i \in DOMAIN log : i \in at =>
           /\ log'[i] \in EntryType
           /\ log'[i].collection = log[i].collection /\ log'[i].id = log[i].id
           /\ log'[i].existed <=> log[i].existed
           /\ log'[i].exists <=> exists
    <3> SUFFICES ASSUME NEW i \in DOMAIN log, i \in at
                 PROVE  /\ log'[i] \in EntryType
                        /\ log'[i].collection = log[i].collection
                        /\ log'[i].id = log[i].id
                        /\ log'[i].existed <=> log[i].existed
                        /\ log'[i].exists <=> exists
      OBVIOUS
    <3>1. log'[i] = [log[i] EXCEPT !.exists = exists] /\ log[i] \in EntryType
      BY <1>3, <2>1
    <3> QED
      BY <3>1 DEF EntryType
  <2>4. \A i \in DOMAIN log : i \notin at => log'[i] = log[i]
    BY <2>1
  <2>5. \A i \in DOMAIN log :
           /\ log'[i] \in EntryType
           /\ log'[i].collection = log[i].collection /\ log'[i].id = log[i].id
           /\ log'[i].existed <=> log[i].existed
    BY <1>3, <2>3, <2>4
  <2>6. log' \in Seq(EntryType)
    BY <1>3, <2>1, <2>5
  <2>7. LogOnce' /\ LogDrops'
    BY <1>2, <1>6, <2>2, <2>5 DEF LogOnce, LogDrops
  <2>8. LogRight'
    <3> SUFFICES ASSUME NEW i \in DOMAIN log
                 PROVE  /\ log'[i].existed <=> docs[KeyOf(log[i])] # NoDoc
                        /\ log'[i].exists <=> stagedDocs'[KeyOf(log[i])] # NoDoc
      BY <2>2, <2>5 DEF LogRight
    <3>1. CASE i \in at
      BY <1>1, <1>4, <1>5, <2>3, <3>1
    <3>2. CASE i \notin at
      BY <1>1, <1>4, <1>5, <2>4, <3>2
    <3> QED
      BY <3>1, <3>2
  <2>9. LogWhole'
    <3> SUFFICES ASSUME NEW k \in Key, stagedDocs'[k] # docs[k]
                 PROVE  \E i \in DOMAIN log :
                           log[i].collection = k[1] /\ log[i].id = k[2]
      BY <2>2, <2>5 DEF LogWhole
    <3>1. CASE k = k0
      BY <1>8, <3>1 DEF at
    <3>2. CASE k # k0
      BY <1>1, <1>7, <3>2
    <3> QED
      BY <3>1, <3>2
  <2> QED
    BY <2>6, <2>7, <2>8, <2>9 DEF LogSound
<1>9. CASE at = {}
  <2> DEFINE e == Entry(c, id, ~inserts, exists)
             n == Len(log)
  <2>1. /\ e \in EntryType /\ e.collection = c /\ e.id = id
        /\ e.existed <=> ~inserts
        /\ e.exists <=> exists
    BY DEF Entry, EntryType
  <2>2. log' = Append(log, e)
    BY <1>9 DEF Written
  <2> HIDE DEF e
  <2>3. /\ log' \in Seq(EntryType) /\ DOMAIN log' = 1 .. n + 1
        /\ log'[n + 1] = e /\ \A i \in 1 .. n : log'[i] = log[i]
    BY <2>1, <2>2, Appended
  <2>4. docs[k0] = stagedDocs[k0]
    BY <1>1, <1>7, <1>9
  <2>5. n \in Nat /\ DOMAIN log = 1 .. n
    BY <1>3
  <2> HIDE DEF n
  <2>6. \A i \in 1 .. n : /\ KeyOf(log[i]) # k0 /\ KeyOf(log[i]) \in Key
                          /\ ~(log[i].collection = c /\ log[i].id = id)
    BY <1>4, <1>9, <2>5
  <2>7. \A i \in 1 .. n + 1 : i = n + 1 \/ i \in 1 .. n
    BY <2>5
  <2>8. LogOnce' /\ LogDrops'
    <3>1. \A i \in DOMAIN log' : log'[i].id # NoId
      <4> SUFFICES ASSUME NEW i \in DOMAIN log' PROVE log'[i].id # NoId
        OBVIOUS
      <4>1. CASE i = n + 1
        BY <2>1, <2>3, <4>1, Keys
      <4>2. CASE i \in 1 .. n
        BY <1>2, <2>3, <2>5, <4>2
      <4> QED
        BY <2>3, <2>7, <4>1, <4>2
    <3>2. \A i, j \in DOMAIN log' :
             log'[i].collection = log'[j].collection /\ log'[i].id = log'[j].id
               => i = j
      <4> SUFFICES ASSUME NEW i \in DOMAIN log', NEW j \in DOMAIN log',
                          log'[i].collection = log'[j].collection,
                          log'[i].id = log'[j].id
                   PROVE  i = j
        OBVIOUS
      <4>1. CASE i \in 1 .. n /\ j \in 1 .. n
        BY <1>6, <2>3, <2>5, <4>1
      <4>2. CASE i = n + 1 /\ j \in 1 .. n
        BY <2>1, <2>3, <2>6, <4>2
      <4>3. CASE i \in 1 .. n /\ j = n + 1
        BY <2>1, <2>3, <2>6, <4>3
      <4> QED
        BY <2>3, <2>7, <4>1, <4>2, <4>3
    <3> QED
      BY <3>1, <3>2 DEF LogOnce, LogDrops
  <2>9. LogRight'
    <3> SUFFICES ASSUME NEW i \in DOMAIN log'
                 PROVE  /\ log'[i].existed <=> docs[KeyOf(log'[i])] # NoDoc
                        /\ log'[i].exists <=>
                             stagedDocs'[KeyOf(log'[i])] # NoDoc
      BY DEF LogRight
    <3>1. CASE i = n + 1
      <4>1. log'[i] = e /\ KeyOf(log'[i]) = k0
        BY <2>1, <2>3, <3>1
      <4> QED
        BY <1>1, <2>1, <2>4, <4>1
    <3>2. CASE i \in 1 .. n
      <4>1. log'[i] = log[i] /\ KeyOf(log[i]) # k0 /\ KeyOf(log[i]) \in Key
        BY <2>3, <2>6, <3>2
      <4> QED
        BY <1>1, <1>5, <2>5, <3>2, <4>1
    <3> QED
      BY <2>3, <2>7, <3>1, <3>2
  <2>10. LogWhole'
    <3> SUFFICES ASSUME NEW k \in Key, stagedDocs'[k] # docs[k]
                 PROVE  \E i \in DOMAIN log' :
                           log'[i].collection = k[1] /\ log'[i].id = k[2]
      BY DEF LogWhole
    <3>1. CASE k = k0
      <4>1. n + 1 \in DOMAIN log' /\ log'[n + 1].collection = k[1]
            /\ log'[n + 1].id = k[2]
        BY <2>1, <2>3, <2>5, <3>1
      <4> QED
        BY <4>1
    <3>2. CASE k # k0
      <4>1. PICK i \in DOMAIN log : log[i].collection = k[1] /\ log[i].id = k[2]
        BY <1>1, <1>7, <3>2
      <4>2. i \in DOMAIN log' /\ log'[i] = log[i]
        BY <2>3, <2>5
      <4> QED
        BY <4>1, <4>2
    <3> QED
      BY <3>1, <3>2
  <2> QED
    BY <2>3, <2>8, <2>9, <2>10 DEF LogSound
<1> QED
  BY <1>8, <1>9

(* A collection dropped: what was noted of its documents goes, and the     *)
(* drop stands for them all.                                               *)
LEMMA DroppedSound ==
    ASSUME TypeOK, log \in Seq(EntryType), LogSound,
           NEW c \in Collection, ops = 0, ops' = MaxOps, docs' = docs,
           stagedDocs' = [k \in Key |-> IF k[1] = c THEN NoDoc
                                        ELSE stagedDocs[k]],
           log' = Dropped(log, c)
    PROVE  log' \in Seq(EntryType) /\ LogSound'
<1> DEFINE at == {i \in DOMAIN log : log[i].collection # c}
           taken == Only(log, at)
           e == Entry(c, NoId, TRUE, FALSE)
           n == Len(taken)
           KeyOf(x) == <<x.collection, x.id>>
<1>1. /\ e \in EntryType /\ e.collection = c /\ e.id = NoId
  BY DEF Entry, EntryType
<1>2. log' = Append(taken, e)
  BY DEF Dropped
<1>3. /\ taken \in Seq(EntryType)
      /\ \A i \in DOMAIN log : i \in at => \E m \in DOMAIN taken : taken[m] = log[i]
      /\ \E from \in [DOMAIN taken -> DOMAIN log] :
            /\ \A m \in DOMAIN taken : from[m] \in at /\ taken[m] = log[from[m]]
            /\ \A m, j \in DOMAIN taken : from[m] = from[j] => m = j
  <2>1. taken = Only(log, at) /\ log \in Seq(EntryType)
    OBVIOUS
  <2> HIDE DEF at, taken
  <2>2. taken \in Seq(EntryType) /\ Keeps(taken, log, at)
    BY <2>1, OnlyKeeps
  <2> QED
    BY <2>2 DEF Keeps
<1> HIDE DEF taken, e
<1>4. /\ log' \in Seq(EntryType) /\ n \in Nat
      /\ DOMAIN taken = 1 .. n /\ DOMAIN log' = 1 .. n + 1
      /\ log'[n + 1] = e /\ \A i \in 1 .. n : log'[i] = taken[i]
  BY <1>1, <1>2, <1>3, Appended
<1> HIDE DEF n
<1>5. PICK from \in [1 .. n -> DOMAIN log] :
         /\ \A m \in 1 .. n : from[m] \in at /\ log'[m] = log[from[m]]
         /\ \A m, j \in 1 .. n : from[m] = from[j] => m = j
  <2> HIDE DEF at
  <2>1. PICK from \in [1 .. n -> DOMAIN log] :
           /\ \A m \in 1 .. n : from[m] \in at /\ taken[m] = log[from[m]]
           /\ \A m, j \in 1 .. n : from[m] = from[j] => m = j
    BY <1>3, <1>4
  <2>2. \A m \in 1 .. n : from[m] \in at /\ log'[m] = log[from[m]]
    BY <1>4, <2>1
  <2> QED
    BY <2>1, <2>2
<1>6. \A i \in DOMAIN log : log[i].id # NoId
  BY ChangesAssumption DEF LogSound, LogDrops, TypeOK
<1>7. \A i \in DOMAIN log : /\ log[i].collection \in Collection
                            /\ log[i].id \in Id /\ KeyOf(log[i]) \in Key
  BY <1>6, Entries, Keys
<1>8. \A k \in Key : stagedDocs'[k] = IF k[1] = c THEN NoDoc ELSE stagedDocs[k]
  OBVIOUS
<1>9. \A m \in 1 .. n :
         /\ log'[m].collection # c /\ log'[m].id # NoId
         /\ stagedDocs'[KeyOf(log'[m])] = stagedDocs[KeyOf(log'[m])]
  <2> SUFFICES ASSUME NEW m \in 1 .. n
               PROVE  /\ log'[m].collection # c /\ log'[m].id # NoId
                      /\ stagedDocs'[KeyOf(log'[m])] =
                           stagedDocs[KeyOf(log'[m])]
    OBVIOUS
  <2>1. /\ from[m] \in DOMAIN log /\ log'[m] = log[from[m]]
        /\ log[from[m]].collection # c
    BY <1>5
  <2> QED
    BY <1>6, <1>7, <1>8, <2>1
<1>10. \A i \in 1 .. n + 1 : i = n + 1 \/ i \in 1 .. n
  BY <1>4
<1>11. LogOnce'
  <2> SUFFICES ASSUME NEW i \in DOMAIN log', NEW j \in DOMAIN log',
                      log'[i].collection = log'[j].collection,
                      log'[i].id \in {NoId, log'[j].id}
               PROVE  i = j
    BY DEF LogOnce
  <2>1. CASE i \in 1 .. n /\ j \in 1 .. n
    <3>1. /\ from[i] \in DOMAIN log /\ log'[i] = log[from[i]]
          /\ from[j] \in DOMAIN log /\ log'[j] = log[from[j]]
      BY <1>5, <2>1
    <3>2. from[i] = from[j]
      BY <3>1 DEF LogSound, LogOnce
    <3> QED
      BY <1>5, <2>1, <3>2
  <2>2. CASE i \in 1 .. n /\ j = n + 1
    BY <1>1, <1>4, <1>9, <2>2
  <2>3. CASE i = n + 1 /\ j \in 1 .. n
    BY <1>1, <1>4, <1>9, <2>3
  <2> QED
    BY <1>4, <1>10, <2>1, <2>2, <2>3
<1>12. LogDrops'
  <2> SUFFICES ASSUME NEW i \in DOMAIN log', log'[i].id = NoId
               PROVE  \A id \in Id :
                         stagedDocs'[<<log'[i].collection, id>>] = NoDoc
    BY DEF LogDrops
  <2>1. i = n + 1
    BY <1>4, <1>9, <1>10
  <2>2. log'[i].collection = c
    BY <1>1, <1>4, <2>1
  <2> QED
    BY <1>8, <2>2, Keys
<1>13. LogRight'
  <2> SUFFICES ASSUME NEW i \in DOMAIN log', log'[i].id # NoId
               PROVE  /\ log'[i].existed <=> docs[KeyOf(log'[i])] # NoDoc
                      /\ log'[i].exists <=>
                           stagedDocs'[KeyOf(log'[i])] # NoDoc
    BY DEF LogRight
  <2>1. i \in 1 .. n
    BY <1>1, <1>4, <1>10
  <2>2. from[i] \in DOMAIN log /\ log'[i] = log[from[i]]
    BY <1>5, <2>1
  <2>3. /\ log[from[i]].existed <=> docs[KeyOf(log[from[i]])] # NoDoc
        /\ log[from[i]].exists <=> stagedDocs[KeyOf(log[from[i]])] # NoDoc
    BY <1>6, <2>2 DEF LogSound, LogRight
  <2> QED
    BY <1>9, <2>1, <2>2, <2>3
<1>14. LogWhole'
  <2> SUFFICES ASSUME NEW k \in Key, stagedDocs'[k] # docs[k]
               PROVE  \E i \in DOMAIN log' : /\ log'[i].collection = k[1]
                                             /\ log'[i].id \in {NoId, k[2]}
    BY DEF LogWhole
  <2>1. CASE k[1] = c
    <3>1. /\ n + 1 \in DOMAIN log' /\ log'[n + 1].collection = k[1]
          /\ log'[n + 1].id = NoId
      BY <1>1, <1>4, <2>1
    <3> QED
      BY <3>1
  <2>2. CASE k[1] # c
    <3>1. PICK i \in DOMAIN log : log[i].collection = k[1]
                                  /\ log[i].id \in {NoId, k[2]}
      BY <1>8, <2>2 DEF LogSound, LogWhole
    <3>2. PICK m \in 1 .. n : taken[m] = log[i]
      BY <1>3, <1>4, <2>2, <3>1
    <3>3. m \in DOMAIN log' /\ log'[m] = log[i]
      BY <1>4, <3>2
    <3> QED
      BY <3>1, <3>3
  <2> QED
    BY <2>1, <2>2
<1> QED
  BY <1>4, <1>11, <1>12, <1>13, <1>14 DEF LogSound

(* The kinds of change, and when each is reported.                         *)
LEMMA KindsRight ==
    ASSUME NEW e \in EntryType
    PROVE  /\ Kind(e) = "Dropped" <=> e.id = NoId
           /\ Kind(e) = "Inserted" <=> e.id # NoId /\ ~e.existed /\ e.exists
           /\ Kind(e) = "Updated" <=> e.id # NoId /\ e.existed /\ e.exists
           /\ Kind(e) = "Deleted" <=> e.id # NoId /\ e.existed /\ ~e.exists
           /\ Kind(e) = "None" <=> e.id # NoId /\ ~e.existed /\ ~e.exists
           /\ Kind(e) # "None" => Change(e) \in ChangeType
<1>1. /\ e.existed \in BOOLEAN /\ e.exists \in BOOLEAN
      /\ e.collection \in Collection /\ e.id \in Id \cup {NoId}
  BY DEF EntryType
<1>2. CASE e.id = NoId
  BY <1>1, <1>2 DEF Kind, Change, ChangeType
<1>3. CASE e.id # NoId /\ e.existed /\ e.exists
  BY <1>1, <1>3 DEF Kind, Change, ChangeType
<1>4. CASE e.id # NoId /\ e.existed /\ ~e.exists
  BY <1>1, <1>4 DEF Kind, Change, ChangeType
<1>5. CASE e.id # NoId /\ ~e.existed /\ e.exists
  BY <1>1, <1>5 DEF Kind, Change, ChangeType
<1>6. CASE e.id # NoId /\ ~e.existed /\ ~e.exists
  BY <1>1, <1>6 DEF Kind, Change, ChangeType
<1> QED
  BY <1>1, <1>2, <1>3, <1>4, <1>5, <1>6

(* A report is its batch's net effect: the log, finished.                  *)
LEMMA FinishRight ==
    ASSUME TypeOK, log \in Seq(EntryType), LogSound,
           docs' = stagedDocs, before' = docs, changes' = Finish(log)
    PROVE  changes' \in Seq(ChangeType) /\ NetEffect'
<1> DEFINE at == {i \in DOMAIN log : Kind(log[i]) # "None"}
           taken == Only(log, at)
           n == Len(taken)
           KeyOf(x) == <<x.collection, x.id>>
           On(x, k) == x.collection = k[1] /\ x.id \in {NoId, k[2]}
<1>1. changes' = [i \in DOMAIN taken |-> Change(taken[i])]
  BY DEF Finish
<1>2. /\ taken \in Seq(EntryType)
      /\ \A i \in DOMAIN log : i \in at => \E m \in DOMAIN taken : taken[m] = log[i]
      /\ \E from \in [DOMAIN taken -> DOMAIN log] :
            /\ \A m \in DOMAIN taken : from[m] \in at /\ taken[m] = log[from[m]]
            /\ \A m, j \in DOMAIN taken : from[m] = from[j] => m = j
  <2>1. taken = Only(log, at) /\ log \in Seq(EntryType)
    OBVIOUS
  <2> HIDE DEF at, taken
  <2>2. taken \in Seq(EntryType) /\ Keeps(taken, log, at)
    BY <2>1, OnlyKeeps
  <2> QED
    BY <2>2 DEF Keeps
<1> HIDE DEF taken
<1>3. n \in Nat /\ DOMAIN taken = 1 .. n
  BY <1>2, Entries
<1> HIDE DEF n
<1>4. PICK from \in [1 .. n -> DOMAIN log] :
         /\ \A m \in 1 .. n : from[m] \in at /\ taken[m] = log[from[m]]
         /\ \A m, j \in 1 .. n : from[m] = from[j] => m = j
  <2> HIDE DEF at
  <2> QED
    BY <1>2, <1>3
<1>5. \A i \in DOMAIN log : log[i] \in EntryType
  BY Entries
<1>6. \A m \in 1 .. n :
         /\ from[m] \in DOMAIN log /\ log[from[m]] \in EntryType
         /\ taken[m] = log[from[m]] /\ Kind(log[from[m]]) # "None"
  BY <1>4, <1>5
<1>7. \A m \in 1 .. n : changes'[m] = Change(log[from[m]])
  BY <1>1, <1>3, <1>6
<1>8. DOMAIN changes' = 1 .. n
  BY <1>1, <1>3
<1>9. \A m \in 1 .. n :
         /\ changes'[m] \in ChangeType
         /\ changes'[m].kind = Kind(log[from[m]])
         /\ changes'[m].collection = log[from[m]].collection
         /\ changes'[m].id = log[from[m]].id
  <2> SUFFICES ASSUME NEW m \in 1 .. n
               PROVE  /\ changes'[m] \in ChangeType
                      /\ changes'[m].kind = Kind(log[from[m]])
                      /\ changes'[m].collection = log[from[m]].collection
                      /\ changes'[m].id = log[from[m]].id
    OBVIOUS
  <2>1. Change(log[from[m]]) \in ChangeType
    BY <1>6, KindsRight
  <2> QED
    BY <1>7, <2>1 DEF Change
<1>10. changes' \in Seq(ChangeType)
  <2>1. changes' \in [1 .. n -> ChangeType]
    BY <1>1, <1>3, <1>8, <1>9
  <2> QED
    BY <1>3, <2>1
<1>11. \A m \in 1 .. n, k \in Key :
          Names(changes'[m], k) <=> On(log[from[m]], k)
  <2> SUFFICES ASSUME NEW m \in 1 .. n, NEW k \in Key
               PROVE  Names(changes'[m], k) <=> On(log[from[m]], k)
    OBVIOUS
  <2>1. Kind(log[from[m]]) = "Dropped" <=> log[from[m]].id = NoId
    BY <1>6, KindsRight
  <2> QED
    BY <1>9, <2>1 DEF Names
<1>12. \A k \in Key : stagedDocs[k] # docs[k] =>
          \E i \in DOMAIN changes' : Names(changes'[i], k)
  <2> SUFFICES ASSUME NEW k \in Key, stagedDocs[k] # docs[k]
               PROVE  \E i \in DOMAIN changes' : Names(changes'[i], k)
    OBVIOUS
  <2>1. PICK i \in DOMAIN log : On(log[i], k)
    BY DEF LogSound, LogWhole
  <2>2. Kind(log[i]) # "None"
    <3>1. CASE log[i].id = NoId
      BY <1>5, <3>1, KindsRight
    <3>2. CASE log[i].id # NoId
      <4>1. KeyOf(log[i]) = k
        BY <2>1, <3>2, Keys
      <4>2. /\ log[i].existed <=> docs[k] # NoDoc
            /\ log[i].exists <=> stagedDocs[k] # NoDoc
        BY <3>2, <4>1 DEF LogSound, LogRight
      <4> QED
        BY <1>5, <4>2, KindsRight
    <3> QED
      BY <3>1, <3>2
  <2>3. PICK m \in 1 .. n : taken[m] = log[i]
    BY <1>2, <1>3, <2>2
  <2>4. On(log[from[m]], k)
    BY <1>6, <2>1, <2>3
  <2> QED
    BY <1>8, <1>11, <2>4
<1>13. \A k \in Key : \A i, j \in DOMAIN changes' :
          Names(changes'[i], k) /\ Names(changes'[j], k) => i = j
  <2> SUFFICES ASSUME NEW k \in Key, NEW i \in 1 .. n, NEW j \in 1 .. n,
                      On(log[from[i]], k), On(log[from[j]], k)
               PROVE  i = j
    <3> HIDE DEF On
    <3> QED
      BY <1>8, <1>11
  <2>1. /\ log[from[i]].collection = log[from[j]].collection
        /\ \/ log[from[i]].id \in {NoId, log[from[j]].id}
           \/ log[from[j]].id \in {NoId, log[from[i]].id}
    OBVIOUS
  <2>2. from[i] \in DOMAIN log /\ from[j] \in DOMAIN log
    BY <1>6
  <2>3. from[i] = from[j]
    BY <2>1, <2>2 DEF LogSound, LogOnce
  <2> QED
    BY <1>4, <2>3
<1>14. ASSUME NEW i \in DOMAIN changes'
       PROVE  LET k == <<changes'[i].collection, changes'[i].id>>
              IN  CASE changes'[i].kind = "Inserted" ->
                         docs[k] = NoDoc /\ stagedDocs[k] # NoDoc
                    [] changes'[i].kind = "Updated" ->
                         docs[k] # NoDoc /\ stagedDocs[k] # NoDoc
                    [] changes'[i].kind = "Deleted" ->
                         docs[k] # NoDoc /\ stagedDocs[k] = NoDoc
                    [] OTHER ->
                         \A id \in Id : stagedDocs[<<k[1], id>>] = NoDoc
  <2> DEFINE x == log[from[i]]
  <2>1. /\ i \in 1 .. n /\ from[i] \in DOMAIN log /\ x \in EntryType
        /\ changes'[i].kind = Kind(x) /\ Kind(x) # "None"
        /\ changes'[i].collection = x.collection /\ changes'[i].id = x.id
    BY <1>6, <1>8, <1>9
  <2>2. x.id # NoId =>
           /\ x.existed <=> docs[KeyOf(x)] # NoDoc
           /\ x.exists <=> stagedDocs[KeyOf(x)] # NoDoc
    BY <2>1 DEF LogSound, LogRight
  <2>3. x.id = NoId => \A id \in Id : stagedDocs[<<x.collection, id>>] = NoDoc
    BY <2>1 DEF LogSound, LogDrops
  <2>4. x.existed \in BOOLEAN /\ x.exists \in BOOLEAN
    BY <2>1 DEF EntryType
  <2> HIDE DEF x
  <2>5. CASE x.id = NoId
    <3>1. changes'[i].kind = "Dropped"
      BY <2>1, <2>5, KindsRight
    <3> QED
      BY <2>1, <2>3, <2>5, <3>1
  <2>6. CASE x.id # NoId
    <3>1. \/ ~x.existed /\ x.exists /\ changes'[i].kind = "Inserted"
          \/ x.existed /\ x.exists /\ changes'[i].kind = "Updated"
          \/ x.existed /\ ~x.exists /\ changes'[i].kind = "Deleted"
      BY <2>1, <2>4, <2>6, KindsRight
    <3> QED
      BY <2>1, <2>2, <2>6, <3>1
  <2> QED
    BY <2>5, <2>6
<1> QED
  BY <1>10, <1>12, <1>13, <1>14 DEF NetEffect

-----------------------------------------------------------------------------
(* Each action keeps the invariant.                                        *)

(* A batch begins.                                                         *)
LEMMA BeginIInv ==
    ASSUME IInv, NEW recording, Begin(recording), subscribers # {} => recording
    PROVE  IInv' /\ (log' = NotRecorded => ~recording)
<1> USE DEF Begin
<1>1. TypeOK /\ Recorded /\ Sent /\ NetEffect /\ CopiesCurrent
  BY DEF IInv
<1>2. wpc = "idle" /\ wpc' = "batch" /\ docs' = docs /\ stagedDocs' = docs
      /\ subscribers' = subscribers /\ listening' = listening
      /\ queue' = queue /\ copy' = copy /\ changes' = changes /\ before' = before
      /\ catalog' = catalog /\ staged' = catalog
  BY DEF channels
<1>3. log' = NotRecorded \/ log' = <<>>
  OBVIOUS
<1>4. TypeOK'
  <2>1. ops' \in 0 .. MaxOps /\ commits' \in 0 .. MaxCommits
    BY <1>1, ChangesAssumption DEF TypeOK
  <2>2. log' = NotRecorded \/ \A i \in DOMAIN log' : log'[i] \in EntryType
    BY <1>3
  <2> QED
    BY <1>1, <1>2, <2>1, <2>2 DEF TypeOK
<1>5. ASSUME recording PROVE Recorded' /\ log' # NotRecorded
  <2>1. log' = <<>> /\ log' \in Seq(EntryType) /\ DOMAIN log' = {}
    BY <1>5
  <2>2. log' # NotRecorded
    BY <2>1, LogIsRecorded
  <2>3. LogSound'
    BY <1>2, <2>1 DEF LogSound, LogOnce, LogDrops, LogRight, LogWhole
  <2> QED
    BY <1>2, <2>1, <2>2, <2>3 DEF Recorded
<1>6. ASSUME ~recording PROVE Recorded'
  <2>1. log' = NotRecorded /\ subscribers = {}
    BY <1>6
  <2> QED
    BY <1>2, <1>6, <2>1 DEF Recorded
<1>7. Sent' /\ NetEffect' /\ CopiesCurrent'
  BY <1>1, <1>2 DEF Sent, NetEffect, CopiesCurrent
<1> QED
  BY <1>4, <1>5, <1>6, <1>7 DEF IInv

(* A write of the batch's.                                                 *)
LEMMA WriteIInv ==
    ASSUME IInv, NEW c \in Collection, NEW id \in Id,
           NEW value \in Value \cup {NoDoc}, NEW inserts \in BOOLEAN,
           Write(c, id, value, inserts),
           inserts <=> stagedDocs[<<c, id>>] = NoDoc,
           staged' \in SUBSET Collection
    PROVE  IInv' /\ (log' = NotRecorded => log = NotRecorded)
<1> USE DEF Write
<1>1. TypeOK /\ Recorded /\ Sent /\ NetEffect /\ CopiesCurrent
  BY DEF IInv
<1>2. wpc = "batch" /\ wpc' = wpc /\ docs' = docs
      /\ subscribers' = subscribers /\ listening' = listening
      /\ queue' = queue /\ copy' = copy /\ changes' = changes /\ before' = before
      /\ catalog' = catalog /\ commits' = commits
  BY DEF channels
<1>3. stagedDocs' \in Docs
  BY <1>1 DEF TypeOK, Docs
<1>4. ops' \in 0 .. MaxOps
  BY <1>1, ChangesAssumption DEF TypeOK
<1>5. CASE log = NotRecorded
  <2>1. log' = log
    BY <1>5
  <2>2. TypeOK'
    BY <1>1, <1>2, <1>3, <1>4, <2>1 DEF TypeOK
  <2>3. Recorded'
    BY <1>1, <1>2, <1>5, <2>1 DEF Recorded
  <2>4. Sent' /\ NetEffect' /\ CopiesCurrent'
    BY <1>1, <1>2 DEF Sent, NetEffect, CopiesCurrent
  <2> QED
    BY <1>5, <2>2, <2>3, <2>4 DEF IInv
<1>6. CASE log # NotRecorded
  <2>1. /\ log \in Seq(EntryType) /\ LogSound
        /\ log' = Written(log, c, id, inserts, value # NoDoc)
        /\ stagedDocs' = [stagedDocs EXCEPT ![<<c, id>>] = value]
        /\ ops < MaxOps
    BY <1>1, <1>2, <1>6 DEF Recorded
  <2>2. log' \in Seq(EntryType) /\ LogSound'
    BY <1>1, <1>2, <2>1, WrittenSound
  <2>3. log' # NotRecorded /\ \A i \in DOMAIN log' : log'[i] \in EntryType
    BY <2>2, LogIsRecorded, Entries
  <2>4. TypeOK'
    BY <1>1, <1>2, <1>3, <1>4, <2>3 DEF TypeOK
  <2>5. Recorded'
    BY <1>2, <2>2, <2>3 DEF Recorded
  <2>6. Sent' /\ NetEffect' /\ CopiesCurrent'
    BY <1>1, <1>2 DEF Sent, NetEffect, CopiesCurrent
  <2> QED
    BY <2>3, <2>4, <2>5, <2>6 DEF IInv
<1> QED
  BY <1>5, <1>6

(* A collection dropped.                                                   *)
LEMMA DropIInv ==
    ASSUME IInv, NEW c \in Collection, DropCollection(c)
    PROVE  IInv' /\ (log' = NotRecorded => log = NotRecorded)
<1> USE DEF DropCollection
<1>1. TypeOK /\ Recorded /\ Sent /\ NetEffect /\ CopiesCurrent
  BY DEF IInv
<1>2. wpc = "batch" /\ wpc' = wpc /\ docs' = docs
      /\ subscribers' = subscribers /\ listening' = listening
      /\ queue' = queue /\ copy' = copy /\ changes' = changes /\ before' = before
      /\ catalog' = catalog /\ commits' = commits
  BY DEF channels
<1>3. stagedDocs' \in Docs /\ staged' \in SUBSET Collection
  BY <1>1 DEF TypeOK, Docs
<1>4. ops' \in 0 .. MaxOps
  BY ChangesAssumption
<1>5. CASE log = NotRecorded
  <2>1. log' = log
    BY <1>5
  <2>2. TypeOK'
    BY <1>1, <1>2, <1>3, <1>4, <2>1 DEF TypeOK
  <2>3. Recorded'
    BY <1>1, <1>2, <1>5, <2>1 DEF Recorded
  <2>4. Sent' /\ NetEffect' /\ CopiesCurrent'
    BY <1>1, <1>2 DEF Sent, NetEffect, CopiesCurrent
  <2> QED
    BY <1>5, <2>2, <2>3, <2>4 DEF IInv
<1>6. CASE log # NotRecorded
  <2>1. log \in Seq(EntryType) /\ LogSound /\ log' = Dropped(log, c)
    BY <1>1, <1>2, <1>6 DEF Recorded
  <2>2. log' \in Seq(EntryType) /\ LogSound'
    BY <1>1, <1>2, <2>1, DroppedSound
  <2>3. log' # NotRecorded /\ \A i \in DOMAIN log' : log'[i] \in EntryType
    BY <2>2, LogIsRecorded, Entries
  <2>4. TypeOK'
    BY <1>1, <1>2, <1>3, <1>4, <2>3 DEF TypeOK
  <2>5. Recorded'
    BY <1>2, <2>2, <2>3 DEF Recorded
  <2>6. Sent' /\ NetEffect' /\ CopiesCurrent'
    BY <1>1, <1>2 DEF Sent, NetEffect, CopiesCurrent
  <2> QED
    BY <2>3, <2>4, <2>5, <2>6 DEF IInv
<1> QED
  BY <1>5, <1>6

(* A batch given up.                                                       *)
LEMMA FailIInv == IInv /\ Fail => IInv'
<1> SUFFICES ASSUME IInv, Fail PROVE IInv'
  OBVIOUS
<1> USE DEF Fail, Ended
<1>1. TypeOK /\ Recorded /\ Sent /\ NetEffect /\ CopiesCurrent
  BY DEF IInv
<1>2. wpc = "batch" /\ wpc' = "idle" /\ docs' = docs /\ log' = NotRecorded
      /\ subscribers' = subscribers /\ listening' = listening
      /\ queue' = queue /\ copy' = copy /\ changes' = changes /\ before' = before
      /\ catalog' = catalog /\ commits' = commits
  BY DEF channels
<1>3. stagedDocs' \in Docs /\ staged' \in SUBSET Collection
      /\ ops' \in 0 .. MaxOps
  BY ChangesAssumption DEF Docs, Empty
<1>4. TypeOK'
  BY <1>1, <1>2, <1>3 DEF TypeOK
<1>5. Recorded' /\ Sent' /\ NetEffect' /\ CopiesCurrent'
  BY <1>1, <1>2 DEF Recorded, Sent, NetEffect, CopiesCurrent
<1> QED
  BY <1>4, <1>5 DEF IInv

(* A batch committed: its report is its net effect, and it names what a    *)
(* copy no longer has right.                                               *)
LEMMA CommitIInv == IInv /\ Commit => IInv'
<1> SUFFICES ASSUME IInv, Commit PROVE IInv'
  OBVIOUS
<1> USE DEF Commit, Ended
<1>1. TypeOK /\ Recorded /\ Sent /\ NetEffect /\ CopiesCurrent
  BY DEF IInv
<1>2. wpc = "batch" /\ docs' = stagedDocs /\ log' = NotRecorded
      /\ subscribers' = subscribers /\ listening' = listening
      /\ queue' = queue /\ copy' = copy /\ commits' = commits
      /\ catalog' = staged
  BY DEF channels
<1>3. stagedDocs' \in Docs /\ staged' \in SUBSET Collection
      /\ ops' \in 0 .. MaxOps /\ Empty \in Docs
  BY ChangesAssumption DEF Docs, Empty
<1>4. CASE log = NotRecorded
  <2>1. wpc' = "idle" /\ changes' = <<>> /\ before' = Empty /\ subscribers = {}
    BY <1>1, <1>2, <1>4 DEF Recorded
  <2>2. TypeOK'
    BY <1>1, <1>2, <1>3, <2>1 DEF TypeOK
  <2>3. Recorded' /\ Sent' /\ NetEffect' /\ CopiesCurrent'
    BY <1>1, <1>2, <2>1 DEF Recorded, Sent, NetEffect, CopiesCurrent
  <2> QED
    BY <2>2, <2>3 DEF IInv
<1>5. CASE log # NotRecorded
  <2>1. /\ wpc' = "report" /\ changes' = Finish(log) /\ before' = docs
        /\ log \in Seq(EntryType) /\ LogSound
    BY <1>1, <1>2, <1>5 DEF Recorded
  <2>2. changes' \in Seq(ChangeType) /\ NetEffect'
    BY <1>1, <1>2, <2>1, FinishRight
  <2>3. \A i \in DOMAIN changes' : changes'[i] \in ChangeType
    BY <2>2
  <2>4. TypeOK'
    BY <1>1, <1>2, <1>3, <2>1, <2>3 DEF TypeOK
  <2>5. Recorded' /\ Sent'
    BY <1>1, <1>2, <2>1, <2>2 DEF Recorded, Sent
  <2>6. \A k \in Key : docs'[k] # docs[k] =>
           \E i \in DOMAIN changes' : Names(changes'[i], k)
    BY <2>1, <2>2 DEF NetEffect
  <2>7. CopiesCurrent'
    BY <1>1, <1>2, <2>1, <2>6 DEF CopiesCurrent
  <2> QED
    BY <2>2, <2>4, <2>5, <2>7 DEF IInv
<1> QED
  BY <1>4, <1>5

(* The report sent: those that listen get it, in their order.              *)
LEMMA ReportIInv == IInv /\ Report => IInv'
<1> SUFFICES ASSUME IInv, Report PROVE IInv'
  OBVIOUS
<1> USE DEF Report
<1>1. TypeOK /\ Recorded /\ Sent /\ NetEffect /\ CopiesCurrent
  BY DEF IInv
<1>2. wpc = "report" /\ wpc' = "idle" /\ docs' = docs /\ log' = log
      /\ listening' = listening /\ copy' = copy /\ commits' = commits
      /\ catalog' = catalog /\ staged' = staged /\ stagedDocs' = stagedDocs
      /\ ops' = ops /\ changes' = <<>> /\ before' = Empty
  OBVIOUS
<1>3. Empty \in Docs
  BY DEF Empty, Docs
<1>4. Recorded' /\ NetEffect'
  BY <1>1, <1>2 DEF Recorded, NetEffect
<1>5. CASE changes = <<>>
  <2>1. subscribers' = subscribers /\ queue' = queue
    BY <1>5
  <2>2. TypeOK'
    BY <1>1, <1>2, <1>3, <2>1 DEF TypeOK
  <2>3. Sent'
    BY <1>1, <1>2, <2>1 DEF Sent
  <2>4. DOMAIN changes = {}
    BY <1>5
  <2>5. CopiesCurrent'
    BY <1>1, <1>2, <2>1, <2>4 DEF CopiesCurrent
  <2> QED
    BY <1>4, <2>2, <2>3, <2>5 DEF IInv
<1>6. CASE changes # <<>>
  <2> DEFINE told == subscribers \cap listening
  <2>1. /\ subscribers' = told
        /\ queue' = [s \in Subscriber |->
                       IF s \in told THEN Append(queue[s], changes) ELSE queue[s]]
    BY <1>6
  <2>2. /\ changes \in Seq(ChangeType) /\ subscribers \subseteq Subscriber
        /\ \A s \in Subscriber : queue[s] \in Seq(Seq(ChangeType))
    BY <1>1 DEF Sent, TypeOK
  <2>3. \A i \in DOMAIN changes : changes[i] \in ChangeType
    BY <2>2
  <2> HIDE DEF told
  <2>4. \A s \in Subscriber :
           /\ s \notin told => queue'[s] = queue[s]
           /\ s \in told => queue'[s] = Append(queue[s], changes)
    BY <2>1
  <2>5. ASSUME NEW s \in Subscriber, s \in told
        PROVE  /\ queue'[s] \in Seq(Seq(ChangeType)) /\ Len(queue[s]) \in Nat
               /\ DOMAIN queue[s] = 1 .. Len(queue[s])
               /\ DOMAIN queue'[s] = 1 .. Len(queue[s]) + 1
               /\ queue'[s][Len(queue[s]) + 1] = changes
               /\ \A i \in 1 .. Len(queue[s]) : queue'[s][i] = queue[s][i]
    <3>1. queue'[s] = Append(queue[s], changes)
      BY <2>4, <2>5
    <3>2. queue[s] \in Seq(Seq(ChangeType)) /\ changes \in Seq(ChangeType)
      BY <2>2
    <3> QED
      BY <3>1, <3>2, Appended
  <2>6. Sent'
    <3>1. \A s \in Subscriber : queue'[s] \in Seq(Seq(ChangeType))
      BY <2>2, <2>4, <2>5
    <3>2. queue' \in [Subscriber -> Seq(Seq(ChangeType))]
      BY <2>1, <3>1
    <3> QED
      BY <1>2, <3>2 DEF Sent
  <2>7. \A s \in Subscriber : \A i \in DOMAIN queue'[s] :
           /\ queue'[s][i] # <<>>
           /\ \A j \in DOMAIN queue'[s][i] : queue'[s][i][j] \in ChangeType
    <3> SUFFICES ASSUME NEW s \in Subscriber, NEW i \in DOMAIN queue'[s]
                 PROVE  /\ queue'[s][i] # <<>>
                        /\ \A j \in DOMAIN queue'[s][i] :
                              queue'[s][i][j] \in ChangeType
      OBVIOUS
    <3>1. \A m \in DOMAIN queue[s] :
             /\ queue[s][m] # <<>>
             /\ \A j \in DOMAIN queue[s][m] : queue[s][m][j] \in ChangeType
      BY <1>1 DEF TypeOK
    <3>2. CASE s \notin told
      BY <2>4, <3>1, <3>2
    <3>3. CASE s \in told
      <4>1. CASE i = Len(queue[s]) + 1
        BY <1>6, <2>3, <2>5, <3>3, <4>1
      <4>2. CASE i # Len(queue[s]) + 1
        <5>1. i \in 1 .. Len(queue[s])
          BY <2>5, <3>3, <4>2
        <5>2. i \in DOMAIN queue[s] /\ queue'[s][i] = queue[s][i]
          BY <2>5, <3>3, <5>1
        <5> QED
          BY <3>1, <5>2
      <4> QED
        BY <4>1, <4>2
    <3> QED
      BY <3>2, <3>3
  <2>8. TypeOK'
    <3>1. subscribers' \in SUBSET Subscriber
      BY <2>1, <2>2 DEF told
    <3> QED
      BY <1>1, <1>2, <1>3, <2>7, <3>1 DEF TypeOK
  <2>9. CopiesCurrent'
    <3> SUFFICES ASSUME NEW s \in subscribers' \cap listening', NEW k \in Key
                 PROVE  \/ copy'[s][k] = docs'[k]
                        \/ \E i \in DOMAIN queue'[s] :
                              \E j \in DOMAIN queue'[s][i] :
                                 Names(queue'[s][i][j], k)
      BY DEF CopiesCurrent
    <3>1. s \in Subscriber /\ s \in told /\ s \in subscribers \cap listening
      BY <1>2, <2>1, <2>2 DEF told
    <3>2. CASE copy[s][k] = docs[k]
      BY <1>2, <3>2
    <3>3. CASE \E i \in DOMAIN queue[s] :
                  \E j \in DOMAIN queue[s][i] : Names(queue[s][i][j], k)
      <4>1. PICK i \in DOMAIN queue[s] :
                    \E j \in DOMAIN queue[s][i] : Names(queue[s][i][j], k)
        BY <3>3
      <4>2. i \in 1 .. Len(queue[s]) /\ Len(queue[s]) \in Nat
        BY <2>5, <3>1
      <4>3. i \in 1 .. Len(queue[s]) + 1
        BY <4>2
      <4>4. i \in DOMAIN queue'[s] /\ queue'[s][i] = queue[s][i]
        BY <2>5, <3>1, <4>2, <4>3
      <4> QED
        BY <4>1, <4>4
    <3>4. CASE \E i \in DOMAIN changes : Names(changes[i], k)
      <4> DEFINE n == Len(queue[s]) + 1
      <4>1. n \in DOMAIN queue'[s] /\ queue'[s][n] = changes
        BY <2>5, <3>1
      <4> HIDE DEF n
      <4> QED
        BY <3>4, <4>1
    <3> QED
      BY <1>1, <3>1, <3>2, <3>3, <3>4 DEF CopiesCurrent
  <2> QED
    BY <1>4, <2>6, <2>8, <2>9 DEF IInv
<1> QED
  BY <1>5, <1>6

(* A subscriber begins with what is committed.                             *)
LEMMA SubscribeIInv ==
    ASSUME IInv, NEW s \in Subscriber, Subscribe(s)
    PROVE  IInv'
<1> USE DEF Subscribe
<1>1. TypeOK /\ Recorded /\ Sent /\ NetEffect /\ CopiesCurrent
  BY DEF IInv
<1>2. wpc = "idle" /\ wpc' = wpc /\ docs' = docs /\ log' = log
      /\ commits' = commits /\ catalog' = catalog /\ staged' = staged
      /\ stagedDocs' = stagedDocs /\ ops' = ops /\ changes' = changes
      /\ before' = before /\ queue' = queue
      /\ copy' = [copy EXCEPT ![s] = docs]
      /\ subscribers' = subscribers \cup {s} /\ listening' = listening \cup {s}
  BY DEF writer
<1>3. TypeOK'
  BY <1>1, <1>2 DEF TypeOK
<1>4. Recorded' /\ Sent' /\ NetEffect'
  BY <1>1, <1>2 DEF Recorded, Sent, NetEffect
<1>5. CopiesCurrent'
  <2> SUFFICES ASSUME NEW r \in subscribers' \cap listening', NEW k \in Key
               PROVE  \/ copy'[r][k] = docs'[k]
                      \/ \E i \in DOMAIN queue'[r] :
                            \E j \in DOMAIN queue'[r][i] :
                               Names(queue'[r][i][j], k)
    BY DEF CopiesCurrent
  <2>1. /\ copy'[s] = docs
        /\ \A q \in Subscriber : q # s => copy'[q] = copy[q]
    BY <1>1, <1>2 DEF TypeOK
  <2>2. CASE r = s
    BY <1>2, <2>1, <2>2
  <2>3. CASE r # s
    <3>1. r \in subscribers \cap listening /\ r \in Subscriber
      BY <1>1, <1>2, <2>3 DEF TypeOK
    <3> QED
      BY <1>1, <1>2, <2>1, <2>3, <3>1 DEF CopiesCurrent
  <2> QED
    BY <2>2, <2>3
<1> QED
  BY <1>3, <1>4, <1>5 DEF IInv

(* A report read, and what it names.                                       *)
LEMMA RecvIInv ==
    ASSUME IInv, NEW s \in Subscriber, Recv(s)
    PROVE  IInv'
<1> DEFINE q == queue[s]
           report == Head(q)
           Named(r, k) == \E i \in DOMAIN r : Names(r[i], k)
           mine == [k \in Key |-> IF Named(report, k) THEN docs[k]
                                  ELSE copy[s][k]]
<1>1. TypeOK /\ Recorded /\ Sent /\ NetEffect /\ CopiesCurrent
  BY DEF IInv
<1>2. wpc' = wpc /\ docs' = docs /\ log' = log
      /\ commits' = commits /\ catalog' = catalog /\ staged' = staged
      /\ stagedDocs' = stagedDocs /\ ops' = ops /\ changes' = changes
      /\ before' = before /\ subscribers' = subscribers
      /\ listening' = listening
  BY DEF Recv, writer
<1>3. /\ q # <<>> /\ copy' = [copy EXCEPT ![s] = mine]
      /\ queue' = [queue EXCEPT ![s] = Tail(q)]
  BY DEF Recv
<1>4. q \in Seq(Seq(ChangeType))
  BY <1>1 DEF Sent
<1> HIDE DEF q
<1>5. /\ Len(q) \in Nat \ {0} /\ DOMAIN q = 1 .. Len(q) /\ report = q[1]
      /\ Tail(q) \in Seq(Seq(ChangeType))
      /\ DOMAIN Tail(q) = 1 .. Len(q) - 1
      /\ \A i \in 1 .. Len(q) - 1 : Tail(q)[i] = q[i + 1]
  BY <1>3, <1>4
<1>6. /\ queue'[s] = Tail(q)
      /\ \A r \in Subscriber : r # s => queue'[r] = queue[r]
  BY <1>1, <1>3 DEF Sent
<1>7. mine \in Docs
  BY <1>1 DEF TypeOK, Docs
<1>8. \A k \in Key : mine[k] = IF Named(report, k) THEN docs[k] ELSE copy[s][k]
  OBVIOUS
<1> HIDE DEF mine, report
<1>9. /\ copy'[s] = mine
      /\ \A r \in Subscriber : r # s => copy'[r] = copy[r]
  BY <1>1, <1>3 DEF TypeOK
<1>10. Recorded' /\ NetEffect'
  <2>1. LogSound' <=> LogSound
    BY <1>2 DEF LogSound, LogOnce, LogDrops, LogRight, LogWhole
  <2> QED
    BY <1>1, <1>2, <2>1 DEF Recorded, NetEffect
<1>11. Sent'
  <2>1. queue' \in [Subscriber -> Seq(Seq(ChangeType))]
    BY <1>1, <1>3, <1>5 DEF Sent
  <2> QED
    BY <1>1, <1>2, <2>1 DEF Sent
<1>12. TypeOK'
  <2>1. \A r \in Subscriber : \A i \in DOMAIN queue'[r] :
           /\ queue'[r][i] # <<>>
           /\ \A j \in DOMAIN queue'[r][i] : queue'[r][i][j] \in ChangeType
    <3> SUFFICES ASSUME NEW r \in Subscriber, NEW i \in DOMAIN queue'[r]
                 PROVE  /\ queue'[r][i] # <<>>
                        /\ \A j \in DOMAIN queue'[r][i] :
                              queue'[r][i][j] \in ChangeType
      OBVIOUS
    <3>1. \A m \in DOMAIN queue[r] :
             /\ queue[r][m] # <<>>
             /\ \A j \in DOMAIN queue[r][m] : queue[r][m][j] \in ChangeType
      BY <1>1 DEF TypeOK
    <3>2. CASE r # s
      BY <1>6, <3>1, <3>2
    <3>3. CASE r = s
      <4>1. queue[r] = q
        BY <3>3 DEF q
      <4>2. i \in 1 .. Len(q) - 1
        BY <1>5, <1>6, <3>3
      <4>3. i + 1 \in DOMAIN q /\ queue'[r][i] = q[i + 1]
        BY <1>5, <1>6, <3>3, <4>2
      <4> QED
        BY <3>1, <4>1, <4>3
    <3> QED
      BY <3>2, <3>3
  <2>2. copy' \in [Subscriber -> Docs]
    BY <1>1, <1>3, <1>7 DEF TypeOK
  <2> QED
    BY <1>1, <1>2, <2>1, <2>2 DEF TypeOK
<1>13. CopiesCurrent'
  <2> SUFFICES ASSUME NEW r \in subscribers \cap listening, NEW k \in Key
               PROVE  \/ copy'[r][k] = docs[k]
                      \/ \E i \in DOMAIN queue'[r] : Named(queue'[r][i], k)
                      \/ wpc = "report" /\ Named(changes, k)
    BY <1>2 DEF CopiesCurrent
  <2>1. \/ copy[r][k] = docs[k]
        \/ \E i \in DOMAIN queue[r] : Named(queue[r][i], k)
        \/ wpc = "report" /\ Named(changes, k)
    BY <1>1 DEF CopiesCurrent
  <2>2. r \in Subscriber
    BY <1>1 DEF TypeOK
  <2> HIDE DEF Named
  <2>3. CASE r # s
    BY <1>6, <1>9, <2>1, <2>2, <2>3
  <2>4. CASE r = s
    <3>1. queue[r] = q
      BY <2>4 DEF q
    <3>2. CASE copy[r][k] = docs[k]
      BY <1>8, <1>9, <2>4, <3>2
    <3>3. CASE \E i \in DOMAIN q : Named(q[i], k)
      <4>1. PICK i \in DOMAIN q : Named(q[i], k)
        BY <3>3
      <4>2. CASE i = 1
        BY <1>5, <1>8, <1>9, <2>4, <4>1, <4>2
      <4>3. CASE i # 1
        <5>1. i - 1 \in 1 .. Len(q) - 1 /\ (i - 1) + 1 = i
          BY <1>5, <4>3
        <5>2. i - 1 \in DOMAIN queue'[r] /\ queue'[r][i - 1] = q[i]
          BY <1>5, <1>6, <2>4, <5>1
        <5> QED
          BY <4>1, <5>2
      <4> QED
        BY <4>2, <4>3
    <3> QED
      BY <2>1, <3>1, <3>2, <3>3
  <2> QED
    BY <2>3, <2>4
<1> QED
  BY <1>10, <1>11, <1>12, <1>13 DEF IInv

(* A subscriber gone.                                                      *)
LEMMA UnsubscribeIInv ==
    ASSUME IInv, NEW s \in Subscriber, Unsubscribe(s)
    PROVE  IInv'
<1> USE DEF Unsubscribe
<1>1. TypeOK /\ Recorded /\ Sent /\ NetEffect /\ CopiesCurrent
  BY DEF IInv
<1>2. wpc' = wpc /\ docs' = docs /\ log' = log
      /\ commits' = commits /\ catalog' = catalog /\ staged' = staged
      /\ stagedDocs' = stagedDocs /\ ops' = ops /\ changes' = changes
      /\ before' = before /\ subscribers' = subscribers
      /\ listening' = listening \ {s}
  BY DEF writer
<1>3. /\ queue'[s] = <<>> /\ Empty \in Docs
      /\ queue' \in [Subscriber -> Seq(Seq(ChangeType))]
      /\ copy' \in [Subscriber -> Docs]
      /\ \A r \in Subscriber : r # s =>
            queue'[r] = queue[r] /\ copy'[r] = copy[r]
  BY <1>1 DEF TypeOK, Sent, Empty, Docs
<1>4. TypeOK'
  <2>1. \A r \in Subscriber : \A i \in DOMAIN queue'[r] :
           /\ queue'[r][i] # <<>>
           /\ \A j \in DOMAIN queue'[r][i] : queue'[r][i][j] \in ChangeType
    <3> SUFFICES ASSUME NEW r \in Subscriber
                 PROVE  \A i \in DOMAIN queue'[r] :
                           /\ queue'[r][i] # <<>>
                           /\ \A j \in DOMAIN queue'[r][i] :
                                 queue'[r][i][j] \in ChangeType
      OBVIOUS
    <3>1. CASE r # s
      BY <1>1, <1>3, <3>1 DEF TypeOK
    <3>2. CASE r = s
      <4>1. DOMAIN queue'[r] = {}
        BY <1>3, <3>2
      <4> QED
        BY <4>1
    <3> QED
      BY <3>1, <3>2
  <2> QED
    BY <1>1, <1>2, <1>3, <2>1 DEF TypeOK
<1>5. Recorded' /\ Sent' /\ NetEffect'
  <2>1. LogSound' <=> LogSound
    BY <1>2 DEF LogSound, LogOnce, LogDrops, LogRight, LogWhole
  <2> QED
    BY <1>1, <1>2, <1>3, <2>1 DEF Recorded, Sent, NetEffect
<1>6. CopiesCurrent'
  BY <1>1, <1>2, <1>3 DEF TypeOK, CopiesCurrent
<1> QED
  BY <1>4, <1>5, <1>6 DEF IInv

-----------------------------------------------------------------------------
(* The theorems.                                                           *)

(* A step of the batch keeps the invariant; before its end, a batch that   *)
(* is recorded stays so, and no reader sees anything of it.                *)
Running == /\ wpc = "batch" /\ wpc' = wpc /\ docs' = docs
           /\ changes' = changes /\ before' = before
           /\ log' = NotRecorded => log = NotRecorded

LEMMA BatchIInv ==
    ASSUME IInv, InBatch
    PROVE  IInv' /\ (Running \/ Fail \/ Commit)
<1>1. TypeOK
  BY DEF IInv
<1>2. ASSUME NEW c \in Collection, NEW id \in Id, NEW v \in Value,
             Insert(c, id, v)
      PROVE  IInv' /\ Running
  <2>1. /\ Write(c, id, v, TRUE) /\ stagedDocs[<<c, id>>] = NoDoc
        /\ staged' \in SUBSET Collection
    BY <1>1, <1>2 DEF Insert, TypeOK
  <2>2. IInv' /\ (log' = NotRecorded => log = NotRecorded)
    BY <2>1, WriteIInv
  <2> QED
    BY <2>1, <2>2 DEF Running, Write
<1>3. ASSUME NEW c \in Collection, NEW id \in Id, NEW v \in Value,
             Update(c, id, v)
      PROVE  IInv' /\ Running
  <2>1. /\ Write(c, id, v, FALSE) /\ stagedDocs[<<c, id>>] # NoDoc
        /\ staged' \in SUBSET Collection
    BY <1>1, <1>3 DEF Update, TypeOK
  <2>2. IInv' /\ (log' = NotRecorded => log = NotRecorded)
    BY <2>1, WriteIInv
  <2> QED
    BY <2>1, <2>2 DEF Running, Write
<1>4. ASSUME NEW c \in Collection, NEW id \in Id, Delete(c, id)
      PROVE  IInv' /\ Running
  <2>1. /\ Write(c, id, NoDoc, FALSE) /\ stagedDocs[<<c, id>>] # NoDoc
        /\ staged' \in SUBSET Collection
    BY <1>1, <1>4 DEF Delete, TypeOK
  <2>2. IInv' /\ (log' = NotRecorded => log = NotRecorded)
    BY <2>1, WriteIInv
  <2> QED
    BY <2>1, <2>2 DEF Running, Write
<1>5. ASSUME NEW c \in Collection, DropCollection(c)
      PROVE  IInv' /\ Running
  <2>1. IInv' /\ (log' = NotRecorded => log = NotRecorded)
    BY <1>5, DropIInv
  <2> QED
    BY <1>5, <2>1 DEF Running, DropCollection
<1>6. CASE Fail
  BY <1>6, FailIInv
<1>7. CASE Commit
  BY <1>7, CommitIInv
<1> QED
  BY <1>2, <1>3, <1>4, <1>5, <1>6, <1>7 DEF InBatch

LEMMA StillIInv == IInv /\ UNCHANGED changesVars => IInv'
<1> SUFFICES ASSUME IInv, UNCHANGED changesVars PROVE IInv'
  OBVIOUS
<1>1. wpc' = wpc /\ docs' = docs /\ log' = log
      /\ commits' = commits /\ catalog' = catalog /\ staged' = staged
      /\ stagedDocs' = stagedDocs /\ ops' = ops /\ changes' = changes
      /\ before' = before /\ subscribers' = subscribers
      /\ listening' = listening /\ queue' = queue /\ copy' = copy
  BY DEF changesVars, writer, channels
<1>2. TypeOK' /\ Sent' /\ NetEffect' /\ CopiesCurrent'
  BY <1>1 DEF IInv, TypeOK, Sent, NetEffect, CopiesCurrent
<1>3. LogSound' <=> LogSound
  BY <1>1 DEF LogSound, LogOnce, LogDrops, LogRight, LogWhole
<1>4. Recorded'
  BY <1>1, <1>3 DEF IInv, Recorded
<1> QED
  BY <1>2, <1>4 DEF IInv

(* Every step keeps the invariant.                                         *)
LEMMA NextIInv == IInv /\ [Next]_changesVars => IInv'
<1> SUFFICES ASSUME IInv, [Next]_changesVars PROVE IInv'
  OBVIOUS
<1>1. CASE Begin(subscribers # {})
  <2>1. PICK recording : recording = (subscribers # {})
    OBVIOUS
  <2>2. Begin(recording) /\ (subscribers # {} => recording)
    BY <1>1, <2>1
  <2> QED
    BY <2>2, BeginIInv
<1>2. CASE InBatch
  BY <1>2, BatchIInv
<1>3. CASE Report
  BY <1>3, ReportIInv
<1>4. ASSUME NEW s \in Subscriber, Subscribe(s) \/ Recv(s) \/ Unsubscribe(s)
      PROVE  IInv'
  BY <1>4, SubscribeIInv, RecvIInv, UnsubscribeIInv
<1>5. CASE UNCHANGED changesVars
  BY <1>5, StillIInv
<1> QED
  BY <1>1, <1>2, <1>3, <1>4, <1>5 DEF Next

(* satisfy together.                                                       *)
THEOREM SpecIInv == Spec => []IInv
<1>1. Init => IInv
  BY InitIInv
<1>2. IInv /\ [Next]_changesVars => IInv'
  BY NextIInv
<1> QED
  BY <1>1, <1>2, PTL DEF Spec

(* Every variable has its type, and no report that is sent is empty.       *)
THEOREM TypeCorrect == Spec => []TypeOK
<1>1. IInv => TypeOK
  BY DEF IInv
<1> QED
  BY <1>1, SpecIInv, PTL

(* A report is its batch's net effect, whatever the batch wrote and in     *)
(* whatever order (`ChangeLog::finish`).                                   *)
THEOREM ReportsNetEffect == Spec => []NetEffect
<1>1. IInv => NetEffect
  BY DEF IInv
<1> QED
  BY <1>1, SpecIInv, PTL

(* A subscriber that reads its reports, however late, misses no commit:    *)
(* its copy differs from the database only where an unread report says so. *)
THEOREM SubscribersMissNothing == Spec => []CopiesCurrent
<1>1. IInv => CopiesCurrent
  BY DEF IInv
<1> QED
  BY <1>1, SpecIInv, PTL

-----------------------------------------------------------------------------
(* Lists in order.                                                         *)

(* R orders the set S.                                                     *)
Orders(R, S) ==
    /\ \A a \in S : <<a, a>> \notin R
    /\ \A a, b \in S : a # b => <<a, b>> \in R \/ <<b, a>> \in R
    /\ \A a, b, c \in S : <<a, b>> \in R /\ <<b, c>> \in R => <<a, c>> \in R
Below(R, S, m) == {o \in S : <<o, m>> \in R}

LEMMA OneWay ==
    ASSUME NEW S, NEW R, Orders(R, S), NEW a \in S, NEW b \in S,
           <<a, b>> \in R
    PROVE  a # b /\ <<b, a>> \notin R
BY DEF Orders

(* Of two of an ordered set, the one below has fewer below it.             *)
LEMMA BelowGrows ==
    ASSUME NEW S, IsFiniteSet(S), NEW R, Orders(R, S),
           NEW a \in S, NEW b \in S, <<a, b>> \in R
    PROVE  Cardinality(Below(R, S, a)) < Cardinality(Below(R, S, b))
<1>1. Below(R, S, a) \in SUBSET Below(R, S, b)
  BY DEF Below, Orders
<1>2. a \in Below(R, S, b) /\ a \notin Below(R, S, a)
  BY DEF Below, Orders
<1>3. Below(R, S, b) \in SUBSET S
  BY DEF Below
<1>4. IsFiniteSet(Below(R, S, b))
  BY <1>3, FS_Subset
<1>5. /\ Cardinality(Below(R, S, a)) <= Cardinality(Below(R, S, b))
      /\ Cardinality(Below(R, S, a)) # Cardinality(Below(R, S, b))
      /\ IsFiniteSet(Below(R, S, a))
  BY <1>1, <1>2, <1>4, FS_Subset
<1>6. /\ Cardinality(Below(R, S, a)) \in Nat
      /\ Cardinality(Below(R, S, b)) \in Nat
  BY <1>4, <1>5, FS_CardinalityType
<1> QED
  BY <1>5, <1>6

(* Every place of a finite ordered set is somebody's.                      *)
LEMMA RanksTaken ==
    ASSUME NEW S, IsFiniteSet(S), NEW R, Orders(R, S),
           NEW i \in 1 .. Cardinality(S)
    PROVE  \E m \in S : Cardinality(Below(R, S, m)) = i - 1
<1>1. Cardinality(S) \in Nat
  BY FS_CardinalityType
<1> DEFINE n == Cardinality(S)
           T == 0 .. n - 1
           rank == [m \in S |-> Cardinality(Below(R, S, m))]
<1>2. ASSUME NEW m \in S PROVE rank[m] \in T
  <2>1. Below(R, S, m) \in SUBSET S /\ Below(R, S, m) # S
    BY DEF Below, Orders
  <2>2. /\ IsFiniteSet(Below(R, S, m))
        /\ Cardinality(Below(R, S, m)) <= n
        /\ Cardinality(Below(R, S, m)) # n
    BY <2>1, FS_Subset
  <2>3. Cardinality(Below(R, S, m)) \in Nat
    BY <2>2, FS_CardinalityType
  <2> QED
    BY <1>1, <2>2, <2>3
<1>3. ASSUME NEW a \in S, NEW b \in S, rank[a] = rank[b] PROVE a = b
  <2> SUFFICES ASSUME a # b PROVE FALSE
    OBVIOUS
  <2>1. <<a, b>> \in R \/ <<b, a>> \in R
    BY DEF Orders
  <2>2. \/ Cardinality(Below(R, S, a)) < Cardinality(Below(R, S, b))
        \/ Cardinality(Below(R, S, b)) < Cardinality(Below(R, S, a))
    BY <2>1, BelowGrows
  <2>3. rank[a] \in Int /\ rank[b] \in Int
    BY <1>2
  <2> QED
    BY <1>3, <2>2, <2>3
<1>4. rank \in Injection(S, T)
  <2>1. rank \in [S -> T]
    BY <1>2
  <2> HIDE DEF rank, T
  <2> QED
    BY <1>3, <2>1 DEF Injection, IsInjective
<1>5. IsFiniteSet(T) /\ Cardinality(T) = n
  <2>1. 0 \in Int /\ n - 1 \in Int
    BY <1>1
  <2>2. /\ IsFiniteSet(0 .. n - 1)
        /\ Cardinality(0 .. n - 1) = IF 0 > n - 1 THEN 0 ELSE (n - 1) - 0 + 1
    BY <2>1, FS_Interval
  <2> QED
    BY <1>1, <2>2
<1>6. rank \in Surjection(S, T)
  <2> HIDE DEF rank, T
  <2> QED
    BY <1>4, <1>5, FS_Injection
<1>7. i - 1 \in T
  BY <1>1
<1>8. PICK m \in S : rank[m] = i - 1
  <2> HIDE DEF rank, T
  <2> QED
    BY <1>6, <1>7 DEF Surjection
<1> QED
  BY <1>8

(* A sequence has each of a set once, and has it in the order R.           *)
InOrder(s, S, R) ==
    /\ s \in Seq(S)
    /\ \A m \in S : \E i \in 1 .. Len(s) : s[i] = m
    /\ \A i, j \in 1 .. Len(s) : i < j => <<s[i], s[j]>> \in R

(* What has each member at its rank has them in order.                     *)
LEMMA RankedInOrder ==
    ASSUME NEW S, IsFiniteSet(S), NEW R, Orders(R, S), NEW s,
           s = [i \in 1 .. Cardinality(S) |-> s[i]],
           \A i \in 1 .. Cardinality(S) :
              s[i] \in S /\ Cardinality(Below(R, S, s[i])) = i - 1
    PROVE  InOrder(s, S, R) /\ Len(s) = Cardinality(S)
<1>1. Cardinality(S) \in Nat
  BY FS_CardinalityType
<1>2. s \in Seq(S) /\ Len(s) = Cardinality(S)
  BY <1>1
<1>3. ASSUME NEW m \in S PROVE \E i \in 1 .. Len(s) : s[i] = m
  <2> DEFINE r == Cardinality(Below(R, S, m))
  <2>1. Below(R, S, m) \in SUBSET S /\ Below(R, S, m) # S
    BY DEF Below, Orders
  <2>2. r \in Nat /\ r < Cardinality(S)
    <3>1. /\ IsFiniteSet(Below(R, S, m))
          /\ r <= Cardinality(S) /\ r # Cardinality(S)
      BY <2>1, FS_Subset
    <3>2. r \in Nat
      BY <3>1, FS_CardinalityType
    <3> QED
      BY <1>1, <3>1, <3>2
  <2>3. r + 1 \in 1 .. Cardinality(S)
    BY <1>1, <2>2
  <2>4. s[r + 1] \in S /\ Cardinality(Below(R, S, s[r + 1])) = r
    BY <2>2, <2>3
  <2>5. s[r + 1] = m
    <3> SUFFICES ASSUME s[r + 1] # m PROVE FALSE
      OBVIOUS
    <3>1. <<s[r + 1], m>> \in R \/ <<m, s[r + 1]>> \in R
      BY <2>4 DEF Orders
    <3>2. \/ Cardinality(Below(R, S, s[r + 1])) < r
          \/ r < Cardinality(Below(R, S, s[r + 1]))
      BY <2>4, <3>1, BelowGrows
    <3> QED
      BY <2>2, <2>4, <3>2
  <2> QED
    BY <1>2, <2>3, <2>5
<1>4. ASSUME NEW i \in 1 .. Len(s), NEW j \in 1 .. Len(s), i < j
      PROVE  <<s[i], s[j]>> \in R
  <2>1. s[i] \in S /\ s[j] \in S
    BY <1>2
  <2>2. /\ Cardinality(Below(R, S, s[i])) = i - 1
        /\ Cardinality(Below(R, S, s[j])) = j - 1
    BY <1>2
  <2>3. s[i] # s[j]
    BY <1>1, <1>4, <2>2
  <2>4. <<s[j], s[i]>> \notin R
    <3> SUFFICES ASSUME <<s[j], s[i]>> \in R PROVE FALSE
      OBVIOUS
    <3>1. Cardinality(Below(R, S, s[j])) < Cardinality(Below(R, S, s[i]))
      BY <2>1, BelowGrows
    <3> QED
      BY <1>1, <1>4, <2>2, <3>1
  <2> QED
    BY <2>1, <2>3, <2>4 DEF Orders
<1> QED
  BY <1>2, <1>3, <1>4 DEF InOrder

(* What it is to be in order, place by place.                              *)
LEMMA Ordered ==
    ASSUME NEW S, NEW R, NEW s, InOrder(s, S, R)
    PROVE  /\ s \in Seq(S) /\ Len(s) \in Nat
           /\ \A i \in 1 .. Len(s) : s[i] \in S
           /\ \A m \in S : \E i \in 1 .. Len(s) : s[i] = m
           /\ \A i, j \in 1 .. Len(s) : i < j => <<s[i], s[j]>> \in R
<1>1. s \in Seq(S)
  BY DEF InOrder
<1>2. Len(s) \in Nat /\ \A i \in 1 .. Len(s) : s[i] \in S
  BY <1>1
<1> QED
  BY <1>1, <1>2 DEF InOrder

(* Two sequences in order of the same set are one.                         *)
LEMMA OneInOrder ==
    ASSUME NEW S, NEW R, Orders(R, S),
           NEW s, InOrder(s, S, R), NEW t, InOrder(t, S, R)
    PROVE  s = t
<1>1. /\ s \in Seq(S) /\ Len(s) \in Nat /\ t \in Seq(S) /\ Len(t) \in Nat
      /\ \A i \in 1 .. Len(s) : s[i] \in S
      /\ \A i \in 1 .. Len(t) : t[i] \in S
  BY DEF InOrder
<1> DEFINE Good == {n \in Nat : \A i \in 1 .. n :
                      /\ i <= Len(s) <=> i <= Len(t)
                      /\ i <= Len(s) => s[i] = t[i]}
<1>2. 0 \in Good
  OBVIOUS
<1>3. ASSUME NEW n \in Nat, n \in Good PROVE n + 1 \in Good
  <2>1. ASSUME NEW u, NEW v, InOrder(u, S, R), InOrder(v, S, R),
               n + 1 <= Len(u),
               \A i \in 1 .. n : i <= Len(u) /\ i <= Len(v) /\ u[i] = v[i]
        PROVE  /\ n + 1 <= Len(v)
               /\ v[n + 1] = u[n + 1] \/ <<v[n + 1], u[n + 1]>> \in R
    <3>1. Len(u) \in Nat /\ Len(v) \in Nat
      BY <2>1, Ordered
    <3>0. /\ n + 1 \in 1 .. Len(u) /\ u[n + 1] \in S
          /\ \A i, j \in 1 .. Len(u) : i < j => <<u[i], u[j]>> \in R
          /\ \A i, j \in 1 .. Len(v) : i < j => <<v[i], v[j]>> \in R
      <4>1. n + 1 \in 1 .. Len(u)
        BY <2>1, <3>1
      <4> QED
        BY <2>1, <4>1, Ordered
    <3>2. PICK j \in 1 .. Len(v) : v[j] = u[n + 1]
      <4>1. \A m \in S : \E i \in 1 .. Len(v) : v[i] = m
        BY <2>1, Ordered
      <4> QED
        BY <3>0, <4>1
    <3>3. j > n
      <4> SUFFICES ASSUME j <= n PROVE FALSE
        BY <3>1, <3>2
      <4>1. j \in 1 .. Len(u) /\ n + 1 \in 1 .. Len(u) /\ j < n + 1
        BY <2>1, <3>1, <3>2
      <4>2. <<u[j], u[n + 1]>> \in R /\ u[j] = u[n + 1]
        BY <2>1, <3>0, <3>1, <3>2, <4>1
      <4> QED
        BY <3>0, <4>2 DEF Orders
    <3>4. n + 1 <= Len(v)
      BY <3>1, <3>2, <3>3
    <3>5. n + 1 < j => <<v[n + 1], v[j]>> \in R
      BY <3>0, <3>1, <3>2, <3>4
    <3> QED
      BY <3>2, <3>3, <3>4, <3>5
  <2>2. CASE n + 1 <= Len(s) \/ n + 1 <= Len(t)
    <3>1. \A i \in 1 .. n : i <= Len(s) /\ i <= Len(t) /\ s[i] = t[i]
      BY <1>1, <1>3, <2>2
    <3>2. n + 1 <= Len(s) /\ n + 1 <= Len(t)
      BY <2>1, <2>2, <3>1
    <3>3. /\ t[n + 1] = s[n + 1] \/ <<t[n + 1], s[n + 1]>> \in R
          /\ s[n + 1] = t[n + 1] \/ <<s[n + 1], t[n + 1]>> \in R
      BY <2>1, <3>1, <3>2
    <3>4. s[n + 1] \in S /\ t[n + 1] \in S
      BY <1>1, <3>2
    <3>5. s[n + 1] = t[n + 1]
      <4>1. ~(<<s[n + 1], t[n + 1]>> \in R /\ <<t[n + 1], s[n + 1]>> \in R)
        BY <3>4, OneWay
      <4> QED
        BY <3>3, <4>1
    <3> QED
      BY <1>3, <3>2, <3>5
  <2>3. CASE ~(n + 1 <= Len(s)) /\ ~(n + 1 <= Len(t))
    BY <1>3, <2>3
  <2> QED
    BY <2>2, <2>3
<1>4. Nat \subseteq Good
  <2> HIDE DEF Good
  <2> QED
    BY <1>2, <1>3, NatInd
<1>5. Len(s) \in Good /\ Len(t) \in Good
  BY <1>1, <1>4
<1>6. Len(s) = Len(t)
  <2>1. Len(s) # 0 => Len(s) <= Len(t)
    BY <1>1, <1>5
  <2>2. Len(t) # 0 => Len(t) <= Len(s)
    BY <1>1, <1>5
  <2> QED
    BY <1>1, <2>1, <2>2
<1>7. \A i \in 1 .. Len(s) : s[i] = t[i]
  BY <1>1, <1>5
<1> QED
  BY <1>1, <1>6, <1>7

(* The order of a window's list, and that of a set's events.               *)
Pairs == [id : Nat, doc : Nat]
LessRel == {p \in Pairs \X Pairs : Less(p[1], p[2])}
IdRel(S) == {p \in S \X S : ById(p[1], p[2])}
OneEach(S) == \A a, b \in S : a.id = b.id => a = b

LEMMA InLess ==
    ASSUME NEW a \in Pairs, NEW b \in Pairs
    PROVE  <<a, b>> \in LessRel <=> Less(a, b)
BY DEF LessRel

LEMMA LessTotal ==
    ASSUME NEW a \in Pairs, NEW b \in Pairs
    PROVE  /\ ~Less(a, a) /\ (a # b => Less(a, b) \/ Less(b, a))
           /\ ~(Less(a, b) /\ Less(b, a))
<1>1. a.id \in Nat /\ a.doc \in Nat /\ b.id \in Nat /\ b.doc \in Nat
  BY DEF Pairs
<1>2. a.id = b.id /\ a.doc = b.doc => a = b
  BY DEF Pairs
<1> QED
  BY <1>1, <1>2 DEF Less

LEMMA LessTransitive ==
    ASSUME NEW a \in Pairs, NEW b \in Pairs, NEW c \in Pairs,
           Less(a, b), Less(b, c)
    PROVE  Less(a, c)
<1>1. /\ a.id \in Nat /\ a.doc \in Nat /\ b.id \in Nat /\ b.doc \in Nat
      /\ c.id \in Nat /\ c.doc \in Nat
  BY DEF Pairs
<1> QED
  BY <1>1 DEF Less

LEMMA LessOrders ==
    ASSUME NEW S, S \subseteq Pairs
    PROVE  Orders(LessRel, S)
<1>1. \A a \in S : <<a, a>> \notin LessRel
  BY InLess, LessTotal
<1>2. \A a, b \in S : a # b => <<a, b>> \in LessRel \/ <<b, a>> \in LessRel
  BY InLess, LessTotal
<1>3. ASSUME NEW a \in S, NEW b \in S, NEW c \in S,
             <<a, b>> \in LessRel, <<b, c>> \in LessRel
      PROVE  <<a, c>> \in LessRel
  <2>1. Less(a, b) /\ Less(b, c)
    BY <1>3, InLess
  <2> QED
    BY <2>1, InLess, LessTransitive
<1> QED
  BY <1>1, <1>2, <1>3 DEF Orders

LEMMA IdOrders ==
    ASSUME NEW S, OneEach(S), \A m \in S : m.id \in Nat
    PROVE  Orders(IdRel(S), S)
<1>1. \A a, b \in S : <<a, b>> \in IdRel(S) <=> a.id < b.id
  BY DEF IdRel, ById
<1>2. \A a \in S : ~(a.id < a.id)
  OBVIOUS
<1>3. \A a, b \in S : a # b => a.id < b.id \/ b.id < a.id
  BY DEF OneEach
<1>4. \A a, b, c \in S : a.id < b.id /\ b.id < c.id => a.id < c.id
  OBVIOUS
<1> QED
  BY <1>1, <1>2, <1>3, <1>4 DEF Orders

(* `sort_by`, and a set in the order of its ids.                           *)
LEMMA SortedLess ==
    ASSUME NEW S, S \subseteq Pairs, IsFiniteSet(S)
    PROVE  /\ InOrder(Sorted(S, Less), S, LessRel)
           /\ Len(Sorted(S, Less)) = Cardinality(S)
<1>1. PICK s : s = Sorted(S, Less)
  OBVIOUS
<1>2. s = [i \in 1 .. Cardinality(S) |-> s[i]]
  <2> DEFINE Pick(i) == CHOOSE m \in S :
                Cardinality({other \in S : Less(other, m)}) = i - 1
  <2>1. s = [i \in 1 .. Cardinality(S) |-> Pick(i)]
    BY <1>1 DEF Sorted
  <2> HIDE DEF Pick
  <2> QED
    BY <2>1
<1>3. Orders(LessRel, S)
  BY LessOrders
<1>4. ASSUME NEW i \in 1 .. Cardinality(S)
      PROVE  s[i] \in S /\ Cardinality(Below(LessRel, S, s[i])) = i - 1
  <2>1. \A m \in S : Below(LessRel, S, m) = {other \in S : Less(other, m)}
    BY InLess DEF Below
  <2>2. PICK m \in S : Cardinality(Below(LessRel, S, m)) = i - 1
    BY <1>3, RanksTaken
  <2>3. s[i] = CHOOSE c \in S : Cardinality({other \in S : Less(other, c)}) = i - 1
    BY <1>1 DEF Sorted
  <2>4. Cardinality({other \in S : Less(other, m)}) = i - 1
    BY <2>1, <2>2
  <2>5. s[i] \in S /\ Cardinality({other \in S : Less(other, s[i])}) = i - 1
    <3> HIDE DEF Less
    <3> QED
      BY <2>3, <2>4
  <2> QED
    BY <2>1, <2>5
<1>5. InOrder(s, S, LessRel) /\ Len(s) = Cardinality(S)
  BY <1>2, <1>3, <1>4, RankedInOrder
<1> QED
  BY <1>1, <1>5

LEMMA SortedById ==
    ASSUME NEW S, IsFiniteSet(S), OneEach(S), \A m \in S : m.id \in Nat
    PROVE  /\ InOrder(Sorted(S, ById), S, IdRel(S))
           /\ Len(Sorted(S, ById)) = Cardinality(S)
<1>1. PICK s : s = Sorted(S, ById)
  OBVIOUS
<1>2. s = [i \in 1 .. Cardinality(S) |-> s[i]]
  <2> DEFINE Pick(i) == CHOOSE m \in S :
                Cardinality({other \in S : ById(other, m)}) = i - 1
  <2>1. s = [i \in 1 .. Cardinality(S) |-> Pick(i)]
    BY <1>1 DEF Sorted
  <2> HIDE DEF Pick
  <2> QED
    BY <2>1
<1>3. Orders(IdRel(S), S)
  BY IdOrders
<1>4. ASSUME NEW i \in 1 .. Cardinality(S)
      PROVE  s[i] \in S /\ Cardinality(Below(IdRel(S), S, s[i])) = i - 1
  <2>1. \A m \in S : Below(IdRel(S), S, m) = {other \in S : ById(other, m)}
    BY DEF Below, IdRel
  <2>2. PICK m \in S : Cardinality(Below(IdRel(S), S, m)) = i - 1
    BY <1>3, RanksTaken
  <2>3. s[i] = CHOOSE c \in S : Cardinality({other \in S : ById(other, c)}) = i - 1
    BY <1>1 DEF Sorted
  <2>4. Cardinality({other \in S : ById(other, m)}) = i - 1
    BY <2>1, <2>2
  <2>5. s[i] \in S /\ Cardinality({other \in S : ById(other, s[i])}) = i - 1
    <3> HIDE DEF ById
    <3> QED
      BY <2>3, <2>4
  <2> QED
    BY <2>1, <2>5
<1>5. InOrder(s, S, IdRel(S)) /\ Len(s) = Cardinality(S)
  BY <1>2, <1>3, <1>4, RankedInOrder
<1> QED
  BY <1>1, <1>5

(* What putting in and taking out does, place by place.                    *)
LEMMA InsertedAt ==
    ASSUME NEW T, NEW s \in Seq(T), NEW i \in 1 .. Len(s) + 1, NEW e \in T,
           NEW t, t = InsertAt(s, i, e)
    PROVE  /\ t \in Seq(T) /\ Len(t) = Len(s) + 1 /\ t[i] = e
           /\ \A j \in 1 .. i - 1 : t[j] = s[j]
           /\ \A j \in i + 1 .. Len(s) + 1 : t[j] = s[j - 1]
<1>1. Len(s) \in Nat
  OBVIOUS
<1>2. PICK a : a = SubSeq(s, 1, i - 1)
  OBVIOUS
<1>3. PICK b : b = SubSeq(s, i, Len(s))
  OBVIOUS
<1>4. a \in Seq(T) /\ Len(a) = i - 1 /\ \A j \in 1 .. i - 1 : a[j] = s[j]
  BY <1>1, <1>2
<1>5. /\ b \in Seq(T) /\ Len(b) = Len(s) - i + 1
      /\ \A j \in 1 .. Len(s) - i + 1 : b[j] = s[i + j - 1]
  BY <1>1, <1>3
<1>6. t = (a \o <<e>>) \o b
  BY <1>2, <1>3 DEF InsertAt
<1>7. PICK c : c = a \o <<e>>
  OBVIOUS
<1>8. /\ c \in Seq(T) /\ Len(c) = i /\ c[i] = e
      /\ \A j \in 1 .. i - 1 : c[j] = s[j]
  BY <1>1, <1>4, <1>7
<1>9. t = c \o b
  BY <1>6, <1>7
<1>10. t \in Seq(T) /\ Len(t) = Len(s) + 1
  <2>1. t \in Seq(T) /\ Len(t) = Len(c) + Len(b)
    <3>1. c \in Seq(T) /\ b \in Seq(T)
      BY <1>5, <1>8
    <3> QED
      BY ONLY <1>9, <3>1
  <2>2. Len(c) + Len(b) = Len(s) + 1
    BY <1>1, <1>5, <1>8
  <2> QED
    BY <2>1, <2>2
<1>11. \A j \in 1 .. i : t[j] = c[j]
  BY <1>1, <1>5, <1>8, <1>9
<1>12. ASSUME NEW j \in i + 1 .. Len(s) + 1 PROVE t[j] = s[j - 1]
  <2>1. t[j] = b[j - i]
    BY <1>1, <1>5, <1>8, <1>9
  <2>2. j - i \in 1 .. Len(s) - i + 1 /\ i + (j - i) - 1 = j - 1
    BY <1>1
  <2> QED
    BY <1>5, <2>1, <2>2
<1> QED
  BY <1>1, <1>8, <1>10, <1>11, <1>12

LEMMA RemovedAt ==
    ASSUME NEW T, NEW s \in Seq(T), NEW i \in 1 .. Len(s),
           NEW t, t = RemoveAt(s, i)
    PROVE  /\ t \in Seq(T) /\ Len(t) = Len(s) - 1
           /\ \A j \in 1 .. i - 1 : t[j] = s[j]
           /\ \A j \in i .. Len(s) - 1 : t[j] = s[j + 1]
<1>1. Len(s) \in Nat
  OBVIOUS
<1>2. PICK a : a = SubSeq(s, 1, i - 1)
  OBVIOUS
<1>3. PICK b : b = SubSeq(s, i + 1, Len(s))
  OBVIOUS
<1>4. a \in Seq(T) /\ Len(a) = i - 1 /\ \A j \in 1 .. i - 1 : a[j] = s[j]
  BY <1>1, <1>2
<1>5. /\ b \in Seq(T) /\ Len(b) = Len(s) - i
      /\ \A j \in 1 .. Len(s) - i : b[j] = s[i + j]
  <2>1. b \in Seq(T) /\ Len(b) = Len(s) - i
    BY <1>1, <1>3
  <2>2. ASSUME NEW j \in 1 .. Len(s) - i PROVE b[j] = s[i + j]
    <3>1. b[j] = s[i + 1 + j - 1]
      BY <1>1, <1>3
    <3>2. i + 1 + j - 1 = i + j
      OBVIOUS
    <3> QED
      BY <3>1, <3>2
  <2> QED
    BY <2>1, <2>2
<1>6. t = a \o b
  BY <1>2, <1>3 DEF RemoveAt
<1>7. t \in Seq(T) /\ Len(t) = Len(s) - 1
  BY <1>1, <1>4, <1>5, <1>6
<1>8. \A j \in 1 .. i - 1 : t[j] = a[j]
  BY <1>1, <1>4, <1>5, <1>6
<1>9. ASSUME NEW j \in i .. Len(s) - 1 PROVE t[j] = s[j + 1]
  <2>1. t[j] = b[j - (i - 1)]
    BY <1>1, <1>4, <1>5, <1>6
  <2>2. j - (i - 1) \in 1 .. Len(s) - i /\ i + (j - (i - 1)) = j + 1
    BY <1>1
  <2> QED
    BY <1>5, <2>1, <2>2
<1> QED
  BY <1>4, <1>7, <1>8, <1>9

(* Places of a list with every one before it: as many as there are.        *)
LEMMA DownTo ==
    ASSUME NEW n \in Nat, NEW D, D \subseteq 1 .. n,
           \A i \in D : \A j \in 1 .. i : j \in D
    PROVE  Cardinality(D) \in 0 .. n /\ D = 1 .. Cardinality(D)
<1>1. \E k \in 0 .. n : D = 1 .. k
  <2>1. CASE D = {}
    <3>1. D = 1 .. 0 /\ 0 \in 0 .. n
      BY <2>1
    <3> QED
      BY <3>1
  <2>2. CASE D # {}
    <3> DEFINE out == {k \in Nat : k \notin 0 .. n \/ k + 1 \notin D}
    <3>1. n \in out /\ out \subseteq Nat
      OBVIOUS
    <3>2. PICK k \in out : \A m \in out : k <= m
      <4> HIDE DEF out
      <4> QED
        BY <3>1, NatMin
    <3>3. k \in 0 .. n /\ k + 1 \notin D
      BY <3>1, <3>2
    <3>4. ASSUME NEW j \in 1 .. k PROVE j \in D
      <4>1. j - 1 \in Nat /\ j - 1 \notin out
        BY <3>2, <3>3
      <4> QED
        BY <3>3, <4>1
    <3>5. ASSUME NEW j \in D PROVE j \in 1 .. k
      <4>1. j \in 1 .. n /\ ~(k + 1 \in 1 .. j)
        BY <3>3
      <4> QED
        BY <3>3, <4>1
    <3>6. D = 1 .. k
      BY <3>4, <3>5
    <3> QED
      BY <3>3, <3>6
  <2> QED
    BY <2>1, <2>2
<1>2. PICK k \in 0 .. n : D = 1 .. k
  BY <1>1
<1>3. Cardinality(1 .. k) = k
  <2>1. Cardinality(1 .. k) = IF 1 > k THEN 0 ELSE k - 1 + 1
    BY <1>2, FS_Interval
  <2> QED
    BY <1>2, <2>1
<1> QED
  BY <1>2, <1>3

(* `partition_point` and `insert` keep a list in order.                    *)
LEMMA InsertInOrder ==
    ASSUME NEW S, S \subseteq Pairs, NEW s, InOrder(s, S, LessRel),
           NEW m \in Pairs, m \notin S, NEW t, t = InsertAt(s, Place(s, m), m)
    PROVE  /\ Place(s, m) \in 1 .. Len(s) + 1 /\ Len(t) = Len(s) + 1
           /\ InOrder(t, S \cup {m}, LessRel)
<1>1. /\ s \in Seq(S) /\ Len(s) \in Nat
      /\ \A i \in 1 .. Len(s) : s[i] \in S /\ s[i] \in Pairs /\ s[i] # m
      /\ \A c \in S : \E i \in 1 .. Len(s) : s[i] = c
      /\ \A i, j \in 1 .. Len(s) : i < j => <<s[i], s[j]>> \in LessRel
  BY Ordered
<1> DEFINE D == {i \in DOMAIN s : Less(s[i], m)}
           q == Place(s, m)
<1>2. /\ Cardinality(D) \in 0 .. Len(s) /\ D = 1 .. Cardinality(D)
  <2>1. D \subseteq 1 .. Len(s)
    BY <1>1
  <2>2. ASSUME NEW i \in D, NEW j \in 1 .. i PROVE j \in D
    <3>1. i \in 1 .. Len(s) /\ j \in 1 .. Len(s) /\ Less(s[i], m)
      BY <1>1, <2>1
    <3>2. j < i => Less(s[j], s[i])
      BY <1>1, <3>1, InLess
    <3>3. j < i \/ j = i
      BY <3>1
    <3>4. Less(s[j], m)
      BY <1>1, <3>1, <3>2, <3>3, LessTransitive
    <3> QED
      BY <1>1, <3>1, <3>4
  <2> HIDE DEF D
  <2> QED
    BY <1>1, <2>1, <2>2, DownTo
<1>3. q = 1 + Cardinality(D)
  BY DEF Place
<1>4. q \in 1 .. Len(s) + 1
  BY <1>1, <1>2, <1>3
<1>5. \A i \in 1 .. Len(s) :
         /\ i < q => <<s[i], m>> \in LessRel
         /\ i >= q => <<m, s[i]>> \in LessRel
  <2> SUFFICES ASSUME NEW i \in 1 .. Len(s)
               PROVE  /\ i < q => <<s[i], m>> \in LessRel
                      /\ i >= q => <<m, s[i]>> \in LessRel
    OBVIOUS
  <2>1. Less(s[i], m) <=> i < q
    <3>1. i \in D <=> i < q
      <4> HIDE DEF D, q
      <4> QED
        BY <1>1, <1>2, <1>3
    <3> QED
      BY <1>1, <3>1
  <2>2. Less(s[i], m) \/ Less(m, s[i])
    BY <1>1, LessTotal
  <2>3. i >= q => ~(i < q)
    BY <1>4
  <2> QED
    BY <1>1, <2>1, <2>2, <2>3, InLess
<1> HIDE DEF D, q
<1>6. t = InsertAt(s, q, m)
  BY DEF q
<1> DEFINE T == S \cup {m}
<1>7. s \in Seq(T) /\ m \in T
  BY <1>1
<1>8. /\ t \in Seq(T) /\ Len(t) = Len(s) + 1 /\ t[q] = m
      /\ \A j \in 1 .. q - 1 : t[j] = s[j]
      /\ \A j \in q + 1 .. Len(s) + 1 : t[j] = s[j - 1]
  BY <1>4, <1>6, <1>7, InsertedAt
<1>9. ASSUME NEW c \in T PROVE \E i \in 1 .. Len(t) : t[i] = c
  <2>1. CASE c = m
    BY <1>1, <1>4, <1>8, <2>1
  <2>2. CASE c # m
    <3>1. PICK i \in 1 .. Len(s) : s[i] = c
      BY <1>1, <2>2
    <3>2. CASE i < q
      <4>1. i \in 1 .. q - 1 /\ i \in 1 .. Len(t)
        BY <1>1, <1>4, <1>8, <3>2
      <4> QED
        BY <1>8, <3>1, <4>1
    <3>3. CASE ~(i < q)
      <4>1. i + 1 \in q + 1 .. Len(s) + 1 /\ i + 1 \in 1 .. Len(t) /\ (i + 1) - 1 = i
        BY <1>1, <1>4, <1>8, <3>3
      <4>2. t[i + 1] = c
        BY <1>8, <3>1, <4>1
      <4> QED
        BY <4>1, <4>2
    <3> QED
      BY <3>2, <3>3
  <2> QED
    BY <2>1, <2>2
<1>10. ASSUME NEW i \in 1 .. Len(t), NEW j \in 1 .. Len(t), i < j
       PROVE  <<t[i], t[j]>> \in LessRel
  <2>0. /\ Len(s) \in Nat /\ q \in 1 .. Len(s) + 1 /\ i < j
        /\ i \in 1 .. Len(s) + 1 /\ j \in 1 .. Len(s) + 1
    <3>1. Len(s) \in Nat /\ Len(t) = Len(s) + 1
      BY <1>1, <1>8
    <3> QED
      BY <1>4, <1>10, <3>1
  <2>1. \/ i < q /\ j < q
        \/ i < q /\ j = q
        \/ i < q /\ j > q
        \/ i = q /\ j > q
        \/ i > q /\ j > q
    BY <2>0
  <2>2. /\ i < q => i \in 1 .. q - 1 /\ i \in 1 .. Len(s)
        /\ j < q => j \in 1 .. q - 1 /\ j \in 1 .. Len(s)
        /\ i > q => i \in q + 1 .. Len(s) + 1 /\ i - 1 \in 1 .. Len(s) /\ i - 1 >= q
        /\ j > q => j \in q + 1 .. Len(s) + 1 /\ j - 1 \in 1 .. Len(s) /\ j - 1 >= q
    BY <2>0
  <2>3. CASE i < q /\ j < q
    BY <1>1, <1>8, <1>10, <2>2, <2>3
  <2>4. CASE i < q /\ j = q
    BY <1>5, <1>8, <2>2, <2>4
  <2>5. CASE i < q /\ j > q
    <3>1. i < j - 1
      BY <1>1, <1>4, <1>8, <2>2, <2>5
    <3> QED
      BY <1>1, <1>8, <2>2, <2>5, <3>1
  <2>6. CASE i = q /\ j > q
    BY <1>5, <1>8, <2>2, <2>6
  <2>7. CASE i > q /\ j > q
    <3>1. i - 1 < j - 1
      BY <1>10
    <3> QED
      BY <1>1, <1>8, <2>2, <2>7, <3>1
  <2> QED
    BY <2>1, <2>3, <2>4, <2>5, <2>6, <2>7
<1>11. InOrder(t, S \cup {m}, LessRel)
  BY <1>8, <1>9, <1>10 DEF InOrder
<1> QED
  BY <1>4, <1>8, <1>11 DEF q

(* `remove` too.                                                           *)
LEMMA RemoveInOrder ==
    ASSUME NEW S, S \subseteq Pairs, NEW s, InOrder(s, S, LessRel),
           NEW q \in 1 .. Len(s), NEW t, t = RemoveAt(s, q)
    PROVE  Len(t) = Len(s) - 1 /\ InOrder(t, S \ {s[q]}, LessRel)
<1>1. /\ s \in Seq(S) /\ Len(s) \in Nat
      /\ \A i \in 1 .. Len(s) : s[i] \in S
      /\ \A c \in S : \E i \in 1 .. Len(s) : s[i] = c
      /\ \A i, j \in 1 .. Len(s) : i < j => <<s[i], s[j]>> \in LessRel
  BY Ordered
<1>a. s \in Seq(S) /\ Len(s) \in Nat
  BY <1>1
<1>2. /\ t \in Seq(S) /\ Len(t) = Len(s) - 1
      /\ \A j \in 1 .. q - 1 : t[j] = s[j]
      /\ \A j \in q .. Len(s) - 1 : t[j] = s[j + 1]
  BY <1>a, RemovedAt
<1>3. \A j \in 1 .. Len(t) :
         \/ j < q /\ j \in 1 .. Len(s) /\ t[j] = s[j]
         \/ j >= q /\ j + 1 \in 1 .. Len(s) /\ t[j] = s[j + 1]
  <2> SUFFICES ASSUME NEW j \in 1 .. Len(t)
               PROVE  \/ j < q /\ j \in 1 .. Len(s) /\ t[j] = s[j]
                      \/ j >= q /\ j + 1 \in 1 .. Len(s) /\ t[j] = s[j + 1]
    OBVIOUS
  <2>1. Len(s) \in Nat /\ j \in 1 .. Len(s) - 1 /\ q \in 1 .. Len(s)
    BY <1>a, <1>2
  <2>2. \/ j < q /\ j \in 1 .. Len(s) /\ j \in 1 .. q - 1
        \/ j >= q /\ j + 1 \in 1 .. Len(s) /\ j \in q .. Len(s) - 1
    BY <2>1
  <2> QED
    BY <1>2, <2>2
<1>4. \A i, j \in 1 .. Len(s) : i # j => s[i] # s[j]
  <2> SUFFICES ASSUME NEW i \in 1 .. Len(s), NEW j \in 1 .. Len(s), i # j,
                      s[i] = s[j]
               PROVE  FALSE
    OBVIOUS
  <2>1. \A k, l \in 1 .. Len(s) : k < l => <<s[k], s[l]>> \in LessRel
    BY <1>1
  <2>2. i < j \/ j < i
    BY <1>a
  <2>3. <<s[i], s[j]>> \in LessRel \/ <<s[j], s[i]>> \in LessRel
    BY <2>1, <2>2
  <2>4. s[i] \in S /\ s[j] \in S /\ Orders(LessRel, S)
    BY <1>1, LessOrders
  <2> QED
    BY <2>3, <2>4, OneWay
<1>5. ASSUME NEW j \in 1 .. Len(t) PROVE t[j] \in S \ {s[q]}
  <2>1. PICK k \in 1 .. Len(s) : t[j] = s[k] /\ k # q
    BY <1>a, <1>3
  <2>2. s[k] \in S
    BY <1>1
  <2> QED
    BY <1>4, <2>1, <2>2
<1>6. t \in Seq(S \ {s[q]})
  BY <1>2, <1>5
<1>7. ASSUME NEW c \in S \ {s[q]} PROVE \E i \in 1 .. Len(t) : t[i] = c
  <2>1. PICK i \in 1 .. Len(s) : s[i] = c
    BY <1>1
  <2>2. i # q
    BY <1>7, <2>1
  <2>a. Len(s) \in Nat /\ Len(t) = Len(s) - 1
    BY <1>a, <1>2
  <2>3. CASE i < q
    <3>1. i \in 1 .. q - 1 /\ i \in 1 .. Len(t)
      BY <2>a, <2>3
    <3>2. t[i] = c
      BY <1>2, <2>1, <3>1
    <3> QED
      BY <3>1, <3>2
  <2>4. CASE i > q
    <3>1. i - 1 \in q .. Len(s) - 1 /\ i - 1 \in 1 .. Len(t) /\ (i - 1) + 1 = i
      BY <2>a, <2>4
    <3>2. t[i - 1] = c
      BY <1>2, <2>1, <3>1
    <3> QED
      BY <3>1, <3>2
  <2> QED
    BY <2>2, <2>3, <2>4
<1>8. ASSUME NEW i \in 1 .. Len(t), NEW j \in 1 .. Len(t), i < j
      PROVE  <<t[i], t[j]>> \in LessRel
  <2>1. PICK a \in 1 .. Len(s) :
           t[i] = s[a] /\ ((a = i /\ i < q) \/ (a = i + 1 /\ i >= q))
    BY <1>3
  <2>2. PICK b \in 1 .. Len(s) :
           t[j] = s[b] /\ ((b = j /\ j < q) \/ (b = j + 1 /\ j >= q))
    BY <1>3
  <2>3. i \in Nat /\ j \in Nat /\ q \in Nat
    BY <1>a, <1>2
  <2>4. a < b
    BY <1>8, <2>1, <2>2, <2>3
  <2>5. \A k, l \in 1 .. Len(s) : k < l => <<s[k], s[l]>> \in LessRel
    BY <1>1
  <2> QED
    BY <2>1, <2>2, <2>4, <2>5
<1> QED
  BY <1>2, <1>6, <1>7, <1>8 DEF InOrder

(* `retain` keeps a list in order.                                         *)
LEMMA OnlyInOrder ==
    ASSUME NEW S, S \subseteq Pairs, NEW s, InOrder(s, S, LessRel),
           NEW at, NEW K, K = {m \in S : \E i \in 1 .. Len(s) : i \in at /\ s[i] = m},
           NEW t, t = Only(s, at)
    PROVE  InOrder(t, K, LessRel)
<1>1. /\ s \in Seq(S) /\ Len(s) \in Nat
      /\ \A i \in 1 .. Len(s) : s[i] \in S
  BY Ordered
<1>a. \A i, j \in 1 .. Len(s) : i < j => <<s[i], s[j]>> \in LessRel
  BY Ordered
<1>2. t \in Seq(S) /\ Keeps(t, s, at)
  BY <1>1, OnlyKeeps
<1>3. DOMAIN s = 1 .. Len(s) /\ DOMAIN t = 1 .. Len(t) /\ Len(t) \in Nat
  BY <1>1, <1>2
<1>4. PICK from \in [1 .. Len(t) -> 1 .. Len(s)] :
         /\ \A n \in 1 .. Len(t) : from[n] \in at /\ t[n] = s[from[n]]
         /\ \A n, m \in 1 .. Len(t) : n < m => from[n] < from[m]
  BY <1>2, <1>3 DEF Keeps
<1>5. ASSUME NEW n \in 1 .. Len(t) PROVE t[n] \in K
  BY <1>1, <1>4
<1>6. t \in Seq(K)
  BY <1>2, <1>5
<1>7. ASSUME NEW m \in K PROVE \E n \in 1 .. Len(t) : t[n] = m
  <2>1. PICK i \in 1 .. Len(s) : i \in at /\ s[i] = m
    OBVIOUS
  <2> QED
    BY <1>2, <1>3, <2>1 DEF Keeps
<1>8. ASSUME NEW n \in 1 .. Len(t), NEW m \in 1 .. Len(t), n < m
      PROVE  <<t[n], t[m]>> \in LessRel
  <2>1. from[n] \in 1 .. Len(s) /\ from[m] \in 1 .. Len(s) /\ from[n] < from[m]
    BY <1>4, <1>8
  <2>2. <<s[from[n]], s[from[m]]>> \in LessRel
    BY <1>a, <2>1
  <2> QED
    BY <1>4, <2>2
<1> QED
  BY <1>6, <1>7, <1>8 DEF InOrder

(* A list in order is as long as its set is large.                         *)
LEMMA OrderedLength ==
    ASSUME NEW S, S \subseteq Pairs, NEW s, InOrder(s, S, LessRel)
    PROVE  IsFiniteSet(S) /\ Cardinality(S) = Len(s)
<1>1. /\ s \in Seq(S) /\ Len(s) \in Nat
      /\ \A i \in 1 .. Len(s) : s[i] \in S
      /\ \A m \in S : \E i \in 1 .. Len(s) : s[i] = m
  BY Ordered
<1>2. \A i, j \in 1 .. Len(s) : i < j => <<s[i], s[j]>> \in LessRel
  BY Ordered
<1>3. s \in [1 .. Len(s) -> S]
  BY <1>1
<1>4. ASSUME NEW i \in 1 .. Len(s), NEW j \in 1 .. Len(s), s[i] = s[j]
      PROVE  i = j
  <2> SUFFICES ASSUME i # j PROVE FALSE
    OBVIOUS
  <2>1. i < j \/ j < i
    BY <1>1
  <2>2. <<s[i], s[j]>> \in LessRel \/ <<s[j], s[i]>> \in LessRel
    BY <1>2, <2>1
  <2> QED
    BY <1>1, <1>4, <2>2, LessOrders, OneWay
<1>5. s \in Bijection(1 .. Len(s), S)
  BY <1>1, <1>3, <1>4 DEF Bijection, Injection, IsInjective, Surjection
<1>6. ExistsBijection(1 .. Len(s), S)
  BY <1>5 DEF ExistsBijection
<1>7. IsFiniteSet(1 .. Len(s))
  BY <1>1, FS_Interval
<1> QED
  BY <1>1, <1>6, <1>7, FS_Bijection, FS_CountingElements

(* A list's first ones.                                                    *)
LEMMA FirstInOrder ==
    ASSUME NEW S, S \subseteq Pairs, NEW s, InOrder(s, S, LessRel),
           NEW t, t = FirstOf(s)
    PROVE  /\ Len(t) = IF Limit < Len(s) THEN Limit ELSE Len(s)
           /\ \A i \in 1 .. Len(t) : t[i] = s[i]
           /\ \E K : K \subseteq S /\ InOrder(t, K, LessRel)
<1>1. /\ s \in Seq(S) /\ Len(s) \in Nat
      /\ \A i \in 1 .. Len(s) : s[i] \in S
  BY Ordered
<1>2. \A i, j \in 1 .. Len(s) : i < j => <<s[i], s[j]>> \in LessRel
  BY Ordered
<1>3. Limit \in Nat
  BY LiveAssumption
<1>4. PICK n \in 0 .. Len(s) : n = IF Limit < Len(s) THEN Limit ELSE Len(s)
  BY <1>1, <1>3
<1>5. t = SubSeq(s, 1, n)
  BY <1>4 DEF FirstOf
<1>6. t \in Seq(S) /\ Len(t) = n /\ \A i \in 1 .. n : t[i] = s[i]
  BY <1>1, <1>4, <1>5
<1> DEFINE K == {s[i] : i \in 1 .. n}
<1>7. K \subseteq S
  BY <1>1, <1>4
<1>8. InOrder(t, K, LessRel)
  <2>1. \A i \in 1 .. Len(t) : t[i] \in K
    BY <1>6
  <2>2. t \in Seq(K)
    <3> HIDE DEF K
    <3> QED
      BY <1>6, <2>1
  <2>3. \A m \in K : \E i \in 1 .. Len(t) : t[i] = m
    BY <1>6
  <2>4. \A i, j \in 1 .. Len(t) : i < j => <<t[i], t[j]>> \in LessRel
    BY <1>1, <1>2, <1>4, <1>6
  <2> QED
    BY <2>2, <2>3, <2>4 DEF InOrder
<1> QED
  BY <1>4, <1>6, <1>7, <1>8

(* The first ones of a set, as many as the limit has room for.             *)
Firsts(K, S) ==
    /\ K \subseteq S
    /\ \A a \in S \ K, b \in K : <<b, a>> \in LessRel
    /\ \/ Cardinality(K) = Limit
       \/ Cardinality(K) <= Limit /\ K = S

(* They are told.                                                          *)
LEMMA FirstsOne ==
    ASSUME NEW S, S \subseteq Pairs, IsFiniteSet(S),
           NEW K, Firsts(K, S), NEW L, Firsts(L, S)
    PROVE  K = L
<1>1. K \in SUBSET S /\ L \in SUBSET S
  BY DEF Firsts
<1>2. IsFiniteSet(K) /\ IsFiniteSet(L)
  BY <1>1, FS_Subset
<1>3. Cardinality(K) \in Nat /\ Cardinality(L) \in Nat /\ Limit \in Nat
  BY <1>2, FS_CardinalityType, LiveAssumption
<1>4. K \subseteq L \/ L \subseteq K
  <2> SUFFICES ASSUME NEW a \in K, a \notin L, NEW b \in L, b \notin K
               PROVE  FALSE
    OBVIOUS
  <2>1. <<b, a>> \in LessRel /\ <<a, b>> \in LessRel
    BY <1>1 DEF Firsts
  <2>2. a \in S /\ b \in S
    BY <1>1
  <2> QED
    BY <2>1, <2>2, LessOrders, OneWay
<1>5. CASE K \subseteq L
  <2>1. /\ Cardinality(K) <= Cardinality(L)
        /\ Cardinality(L) = Cardinality(K) => K = L
    BY <1>2, <1>5, FS_Subset
  <2>2. K = S => K = L
    BY <1>1, <1>5
  <2> QED
    BY <1>3, <2>1, <2>2 DEF Firsts
<1>6. CASE L \subseteq K
  <2>1. /\ Cardinality(L) <= Cardinality(K)
        /\ Cardinality(L) = Cardinality(K) => K = L
    BY <1>2, <1>6, FS_Subset
  <2>2. L = S => K = L
    BY <1>1, <1>6
  <2> QED
    BY <1>3, <2>1, <2>2 DEF Firsts
<1> QED
  BY <1>4, <1>5, <1>6

(* The sorted list cut at the limit is theirs.                             *)
LEMMA FirstsFound ==
    ASSUME NEW S, S \subseteq Pairs, IsFiniteSet(S),
           NEW t, t = FirstOf(Sorted(S, Less))
    PROVE  \E K : Firsts(K, S) /\ InOrder(t, K, LessRel)
<1>1. PICK s : s = Sorted(S, Less)
  OBVIOUS
<1>2. InOrder(s, S, LessRel)
  BY <1>1, SortedLess
<1>3. /\ Len(s) \in Nat /\ s \in Seq(S)
      /\ \A m \in S : \E i \in 1 .. Len(s) : s[i] = m
  BY <1>2, Ordered
<1>4. \A i, j \in 1 .. Len(s) : i < j => <<s[i], s[j]>> \in LessRel
  BY <1>2, Ordered
<1>5. t = FirstOf(s)
  BY <1>1
<1>6. /\ Len(t) = IF Limit < Len(s) THEN Limit ELSE Len(s)
      /\ \A i \in 1 .. Len(t) : t[i] = s[i]
      /\ \E K : K \subseteq S /\ InOrder(t, K, LessRel)
  BY <1>2, <1>5, FirstInOrder
<1>7. PICK K : K \subseteq S /\ InOrder(t, K, LessRel)
  BY <1>6
<1>8. /\ Len(t) \in Nat
      /\ \A i \in 1 .. Len(t) : t[i] \in K
      /\ \A m \in K : \E i \in 1 .. Len(t) : t[i] = m
  BY <1>7, Ordered
<1>9. Limit \in Nat /\ Len(t) <= Len(s)
  BY <1>3, <1>6, LiveAssumption
<1>10. K \subseteq Pairs
  BY <1>7
<1>11. Cardinality(K) = Len(t)
  BY <1>7, <1>10, OrderedLength
<1>12. ASSUME NEW a \in S \ K, NEW b \in K PROVE <<b, a>> \in LessRel
  <2>1. PICK i \in 1 .. Len(t) : t[i] = b
    BY <1>8
  <2>2. PICK j \in 1 .. Len(s) : s[j] = a
    BY <1>3
  <2>3. j > Len(t)
    <3> SUFFICES ASSUME j \in 1 .. Len(t) PROVE FALSE
      BY <1>3, <1>8
    <3>1. t[j] = a /\ t[j] \in K
      BY <1>6, <1>8, <2>2
    <3> QED
      BY <1>12, <3>1
  <2>4. i \in 1 .. Len(s) /\ i < j /\ s[i] = b
    <3>1. Len(s) \in Nat /\ Len(t) \in Nat /\ Len(t) <= Len(s)
      BY <1>3, <1>8, <1>9
    <3>2. i \in 1 .. Len(s) /\ i < j
      BY <2>3, <3>1
    <3>3. s[i] = b
      BY <1>6, <2>1
    <3> QED
      BY <3>2, <3>3
  <2> QED
    BY <1>4, <2>2, <2>4
<1>13. \/ Cardinality(K) = Limit
       \/ Cardinality(K) <= Limit /\ K = S
  <2>1. CASE Limit < Len(s)
    BY <1>6, <1>11, <2>1
  <2>2. CASE ~(Limit < Len(s))
    <3>1. Len(t) = Len(s)
      BY <1>6, <2>2
    <3>2. S \subseteq K
      BY <1>3, <1>6, <1>8, <3>1
    <3> QED
      BY <1>3, <1>7, <1>9, <1>11, <2>2, <3>1, <3>2
  <2> QED
    BY <2>1, <2>2
<1>14. Firsts(K, S)
  BY <1>7, <1>12, <1>13 DEF Firsts
<1> QED
  BY <1>7, <1>14

(* And a list of theirs in order is that one.                              *)
LEMMA FirstsListed ==
    ASSUME NEW S, S \subseteq Pairs, IsFiniteSet(S), NEW K, Firsts(K, S),
           NEW t, InOrder(t, K, LessRel)
    PROVE  t = FirstOf(Sorted(S, Less))
<1>1. PICK u : u = FirstOf(Sorted(S, Less))
  OBVIOUS
<1>2. PICK L : Firsts(L, S) /\ InOrder(u, L, LessRel)
  BY <1>1, FirstsFound
<1>3. K = L
  BY <1>2, FirstsOne
<1>4. Orders(LessRel, K)
  <2>1. K \subseteq Pairs
    BY DEF Firsts
  <2> QED
    BY <2>1, LessOrders
<1>5. t = u
  BY <1>2, <1>3, <1>4, OneInOrder
<1> QED
  BY <1>1, <1>5

-----------------------------------------------------------------------------
(* The queries.                                                            *)

(* What matches is finite, and told apart by id.                           *)
LEMMA MatchesSound ==
    ASSUME NEW d
    PROVE  /\ Matches(d) \subseteq Pairs /\ IsFiniteSet(Matches(d))
           /\ OneEach(Matches(d))
           /\ \A m \in Matches(d) :
                 m.id \in Id /\ m.doc = Doc(d, m.id) /\ m.doc \in Matching
           /\ \A id \in Id : Doc(d, id) \in Matching =>
                 Item(id, Doc(d, id)) \in Matches(d)
<1> DEFINE I == {i \in Id : Doc(d, i) \in Matching}
           f == [i \in I |-> Item(i, Doc(d, i))]
<1>1. /\ Id \subseteq Nat /\ IsFiniteSet(Id) /\ Matching \subseteq Nat
  BY LiveAssumption
<1>2. \A m \in Matches(d) : \E i \in I : m = Item(i, Doc(d, i))
  BY DEF Matches
<1>3. \A i \in I : Item(i, Doc(d, i)) \in Matches(d)
  BY DEF Matches
<1>4. IsFiniteSet(Matches(d))
  <2>1. I \in SUBSET Id
    OBVIOUS
  <2>2. IsFiniteSet(I)
    BY <1>1, <2>1, FS_Subset
  <2>3. f \in Surjection(I, Matches(d))
    <3>1. f \in [I -> Matches(d)]
      BY <1>3
    <3>2. \A m \in Matches(d) : \E i \in I : f[i] = m
      BY <1>2
    <3> HIDE DEF f, I
    <3> QED
      BY <3>1, <3>2 DEF Surjection
  <2> HIDE DEF f, I
  <2> QED
    BY <2>2, <2>3, FS_Surjection
<1>5. \A m \in Matches(d) :
         m.id \in Id /\ m.doc = Doc(d, m.id) /\ m.doc \in Matching
  BY <1>2 DEF Item
<1>6. \A m \in Matches(d) : m = [id |-> m.id, doc |-> m.doc]
  BY <1>2 DEF Item
<1>7. Matches(d) \subseteq Pairs
  BY <1>1, <1>5, <1>6 DEF Pairs
<1>8. OneEach(Matches(d))
  BY <1>5, <1>6 DEF OneEach
<1> QED
  BY <1>3, <1>4, <1>5, <1>7, <1>8

(* A list in order has its set.                                            *)
LEMMA OrderedRange ==
    ASSUME NEW S, NEW R, NEW s, InOrder(s, S, R)
    PROVE  Range(s) = S /\ DOMAIN s = 1 .. Len(s)
<1>1. /\ s \in Seq(S) /\ \A i \in 1 .. Len(s) : s[i] \in S
      /\ \A m \in S : \E i \in 1 .. Len(s) : s[i] = m
  BY Ordered
<1>2. DOMAIN s = 1 .. Len(s)
  BY <1>1
<1> QED
  BY <1>1, <1>2 DEF Range

(* Nothing but the documents of P changed between b and d.                 *)
Same(b, d, P) == \A id \in Id \ P : Doc(b, id) = Doc(d, id)

LEMMA MatchesAfter ==
    ASSUME NEW b, NEW d, NEW P, Same(b, d, P)
    PROVE  \A m : m.id \notin P => (m \in Matches(b) <=> m \in Matches(d))
<1>1. ASSUME NEW x, NEW y, Same(x, y, P), NEW m \in Matches(x), m.id \notin P
      PROVE  m \in Matches(y)
  <2>1. PICK i \in Id : Doc(x, i) \in Matching /\ m = Item(i, Doc(x, i))
    BY DEF Matches
  <2>2. m.id = i
    BY <2>1 DEF Item
  <2>3. Doc(y, i) = Doc(x, i)
    BY <1>1, <2>2 DEF Same
  <2> QED
    BY <2>1, <2>3 DEF Matches
<1>2. Same(d, b, P)
  BY DEF Same
<1> QED
  BY <1>1, <1>2

(* The list made anew is the one a query would find: the known ones are    *)
(* enough, or all are read again.                                          *)
LEMMA NewListFinds ==
    ASSUME NEW b, NEW d, NEW P, Same(b, d, P), NEW list, list = Find(b)
    PROVE  NewList(list, P, d) = Find(d)
<1> DEFINE S == Matches(b)
           N == Matches(d)
           unwritten == {m \in Range(list) : m.id \notin P}
           written == {m \in Matches(d) : m.id \in P}
           known == unwritten \cup written
           full == Limit > 0 /\ Len(list) >= Limit
           last == list[Len(list)]
           certain == {m \in known : ~Less(last, m)}
<1>1. S \subseteq Pairs /\ IsFiniteSet(S) /\ N \subseteq Pairs /\ IsFiniteSet(N)
  BY MatchesSound
<1>2. \A m : m.id \notin P => (m \in S <=> m \in N)
  BY MatchesAfter
<1>3. PICK K : Firsts(K, S) /\ InOrder(list, K, LessRel)
  <2> HIDE DEF S
  <2>1. list = FirstOf(Sorted(S, Less))
    BY DEF Find, S
  <2> QED
    BY <1>1, <2>1, FirstsFound
<1>4. K \subseteq S /\ K \subseteq Pairs
  BY <1>1, <1>3 DEF Firsts
<1>5. Range(list) = K /\ Len(list) = Cardinality(K) /\ Len(list) \in Nat
  BY <1>3, <1>4, OrderedRange, OrderedLength, Ordered
<1>6. Limit \in Nat
  BY LiveAssumption
<1>7. \A m \in known : m \in N
  BY <1>2, <1>4, <1>5
<1>8. NewList(list, P, d) =
        IF ~full THEN FirstOf(Sorted(known, Less))
        ELSE IF Cardinality(certain) >= Limit THEN FirstOf(Sorted(certain, Less))
        ELSE Find(d)
  BY DEF NewList
<1>9. Find(d) = FirstOf(Sorted(N, Less))
  BY DEF Find
<1>10. known \subseteq N
  BY <1>7
<1>11. known \subseteq Pairs /\ IsFiniteSet(known)
  <2> HIDE DEF known, N
  <2> QED
    BY <1>1, <1>10, FS_Subset
<1>12. CASE Limit = 0
  <2>1. ASSUME NEW X, X \subseteq Pairs, IsFiniteSet(X)
        PROVE  FirstOf(Sorted(X, Less)) = <<>>
    <3>1. PICK s : s = Sorted(X, Less)
      OBVIOUS
    <3>2. InOrder(s, X, LessRel)
      BY <2>1, <3>1, SortedLess
    <3>3. s \in Seq(X) /\ Len(s) \in Nat
      BY <3>2, Ordered
    <3>4. FirstOf(s) = SubSeq(s, 1, 0)
      BY <1>12, <3>3 DEF FirstOf
    <3> QED
      BY <3>1, <3>3, <3>4
  <2> HIDE DEF known, N, certain
  <2> QED
    BY <1>1, <1>8, <1>9, <1>11, <1>12, <2>1
<1>13. CASE Limit # 0 /\ Len(list) < Limit
  <2>1. K = S
    BY <1>3, <1>5, <1>6, <1>13 DEF Firsts
  <2>2. known = N
    BY <1>2, <1>5, <1>10, <2>1
  <2>3. ~full
    BY <1>5, <1>6, <1>13
  <2> HIDE DEF known, N, certain, full
  <2> QED
    BY <1>8, <1>9, <2>2, <2>3
<1>14. CASE Limit # 0 /\ ~(Len(list) < Limit)
  <2>1. full
    BY <1>5, <1>6, <1>14
  <2>2. CASE ~(Cardinality(certain) >= Limit)
    <3> HIDE DEF certain, known, full
    <3> QED
      BY <1>8, <2>1, <2>2
  <2>3. CASE Cardinality(certain) >= Limit
    <3>1. certain \subseteq known
      OBVIOUS
    <3>2. certain \subseteq Pairs /\ IsFiniteSet(certain) /\ certain \subseteq N
      <4> HIDE DEF certain, known, N
      <4> QED
        BY <1>10, <1>11, <3>1, FS_Subset
    <3>3. PICK t : t = FirstOf(Sorted(certain, Less))
      OBVIOUS
    <3>4. PICK L : Firsts(L, certain) /\ InOrder(t, L, LessRel)
      <4> HIDE DEF certain
      <4> QED
        BY <3>2, <3>3, FirstsFound
    <3>5. last \in K /\ \A c \in K : c = last \/ Less(c, last)
      <4>1. /\ \A i \in 1 .. Len(list) : list[i] \in K
            /\ \A m \in K : \E i \in 1 .. Len(list) : list[i] = m
        BY <1>3, Ordered
      <4>2. \A i, j \in 1 .. Len(list) : i < j => <<list[i], list[j]>> \in LessRel
        BY <1>3, Ordered
      <4>3. Len(list) \in 1 .. Len(list)
        BY <1>5, <1>6, <1>14
      <4>4. ASSUME NEW c \in K, c # last PROVE Less(c, last)
        <5>1. PICK i \in 1 .. Len(list) : list[i] = c
          BY <4>1
        <5>2. i < Len(list)
          BY <1>5, <4>4, <5>1
        <5>3. <<c, last>> \in LessRel
          BY <4>2, <4>3, <5>1, <5>2
        <5> QED
          BY <1>4, <4>1, <4>3, <5>3, InLess
      <4> QED
        BY <4>1, <4>3, <4>4
    <3>6. ASSUME NEW c \in certain, NEW a \in N \ certain
          PROVE  <<c, a>> \in LessRel
      <4>1. c \in Pairs /\ a \in Pairs /\ last \in Pairs
        BY <1>1, <1>4, <3>2, <3>5
      <4>2. Less(last, a)
        <5>1. CASE a \in known
          BY <3>6, <5>1
        <5>2. CASE a \notin known
          <6>1. a.id \notin P /\ a \in S
            BY <1>2, <3>6, <5>2
          <6>2. a \notin K
            BY <1>5, <5>2, <6>1
          <6>3. <<last, a>> \in LessRel
            BY <1>3, <3>5, <6>1, <6>2 DEF Firsts
          <6> QED
            BY <4>1, <6>3, InLess
        <5> QED
          BY <5>1, <5>2
      <4>3. c = last \/ Less(c, last)
        <5>1. ~Less(last, c)
          BY <3>6
        <5> QED
          BY <4>1, <5>1, LessTotal
      <4>4. Less(c, a)
        BY <4>1, <4>2, <4>3, LessTransitive
      <4> QED
        BY <4>1, <4>4, InLess
    <3>7. Firsts(L, N)
      <4>1. L \in SUBSET certain
        BY <3>4 DEF Firsts
      <4>2. ASSUME NEW a \in N \ L, NEW c \in L PROVE <<c, a>> \in LessRel
        <5> HIDE DEF certain, N
        <5>1. CASE a \in certain
          BY <3>4, <4>2, <5>1 DEF Firsts
        <5>2. CASE a \notin certain
          BY <3>6, <4>1, <5>2
        <5> QED
          BY <5>1, <5>2
      <4>3. Cardinality(L) = Limit
        <5> HIDE DEF certain, N
        <5>1. Cardinality(certain) \in Nat
          BY <3>2, FS_CardinalityType
        <5> QED
          BY <1>6, <2>3, <3>4, <5>1 DEF Firsts
      <4> HIDE DEF certain, N
      <4> QED
        BY <3>2, <4>1, <4>2, <4>3 DEF Firsts
    <3>8. t = FirstOf(Sorted(N, Less))
      <4> HIDE DEF N
      <4> QED
        BY <1>1, <3>4, <3>7, FirstsListed
    <3> HIDE DEF certain, known, full, N
    <3> QED
      BY <1>8, <1>9, <2>1, <2>3, <3>3, <3>8
  <2> QED
    BY <2>2, <2>3
<1> QED
  BY <1>5, <1>6, <1>12, <1>13, <1>14

-----------------------------------------------------------------------------
(* Events read one by one.                                                 *)

(* h is what a reader has after each of the events, all of which fit.      *)
Trace(h, kind, seen, sent) ==
    /\ h = [i \in 0 .. Len(sent) |-> h[i]] /\ h[0] = seen
    /\ \A i \in 1 .. Len(sent) :
          Fits(kind, h[i - 1], sent[i]) /\ h[i] = Apply(kind, h[i - 1], sent[i])

(* Events that lead a reader from one view to another.                     *)
Leads(kind, seen, sent, to) ==
    /\ sent \in Seq(EventType)
    /\ \A i \in 1 .. Len(sent) : sent[i].kind # "Err"
    /\ \E h : Trace(h, kind, seen, sent) /\ h[Len(sent)] = to

LEMMA LeadsNowhere ==
    ASSUME NEW kind, NEW seen
    PROVE  Leads(kind, seen, <<>>, seen)
<1> DEFINE h == [i \in 0 .. 0 |-> seen]
<1>1. Trace(h, kind, seen, <<>>) /\ h[Len(<<>>)] = seen
  BY DEF Trace
<1> HIDE DEF h
<1>2. <<>> \in Seq(EventType) /\ \A i \in 1 .. Len(<<>>) : <<>>[i].kind # "Err"
  OBVIOUS
<1> QED
  BY <1>1, <1>2 DEF Leads

Traced(kind, seen, sent, to) ==
    \E h : Trace(h, kind, seen, sent) /\ h[Len(sent)] = to

LEMMA TracedOn ==
    ASSUME NEW kind, NEW seen, NEW sent \in Seq(EventType), NEW to,
           Traced(kind, seen, sent, to),
           NEW e \in EventType, Fits(kind, to, e), NEW all, all = Append(sent, e)
    PROVE  Traced(kind, seen, all, Apply(kind, to, e))
<1>0. PICK h : Trace(h, kind, seen, sent) /\ h[Len(sent)] = to
  BY DEF Traced
<1>1. PICK n \in Nat : n = Len(sent)
  OBVIOUS
<1>2. /\ all \in Seq(EventType) /\ Len(all) = n + 1 /\ all[n + 1] = e
      /\ \A i \in 1 .. n : all[i] = sent[i]
  BY <1>1
<1>3. PICK next : next = Apply(kind, to, e)
  OBVIOUS
<1> DEFINE g == [i \in 0 .. n + 1 |-> IF i = n + 1 THEN next ELSE h[i]]
<1>4. g = [i \in 0 .. n + 1 |-> g[i]]
  OBVIOUS
<1>5. g[n + 1] = next /\ \A i \in 0 .. n : g[i] = h[i]
  OBVIOUS
<1> HIDE DEF g
<1>6. h[0] = seen /\ h[n] = to
  BY <1>0, <1>1 DEF Trace
<1>7. ASSUME NEW i \in 1 .. n + 1
      PROVE  Fits(kind, g[i - 1], all[i]) /\ g[i] = Apply(kind, g[i - 1], all[i])
  <2>1. CASE i = n + 1
    <3>1. g[i - 1] = to /\ all[i] = e /\ g[i] = next
      BY <1>2, <1>5, <1>6, <2>1
    <3> QED
      BY <1>3, <3>1
  <2>2. CASE i # n + 1
    <3>1. i \in 1 .. n
      BY <2>2
    <3>2. g[i - 1] = h[i - 1] /\ g[i] = h[i] /\ all[i] = sent[i]
      <4>1. i \in 0 .. n /\ i - 1 \in 0 .. n
        BY <3>1
      <4>2. all[i] = sent[i]
        BY <1>2, <3>1
      <4> QED
        BY <1>5, <4>1, <4>2
    <3>3. Fits(kind, h[i - 1], sent[i]) /\ h[i] = Apply(kind, h[i - 1], sent[i])
      BY <1>0, <1>1, <3>1 DEF Trace
    <3> QED
      BY <3>2, <3>3
  <2> QED
    BY <2>1, <2>2
<1>8. Trace(g, kind, seen, all)
  <2>1. g[0] = seen
    BY <1>5, <1>6
  <2> QED
    BY <1>2, <1>4, <1>7, <2>1 DEF Trace
<1> QED
  BY <1>2, <1>3, <1>5, <1>8 DEF Traced

LEMMA LeadsOn ==
    ASSUME NEW kind, NEW seen, NEW sent, NEW to, Leads(kind, seen, sent, to),
           NEW e \in EventType, e.kind # "Err", Fits(kind, to, e),
           NEW all, all = Append(sent, e)
    PROVE  Leads(kind, seen, all, Apply(kind, to, e))
<1>1. sent \in Seq(EventType) /\ \A i \in 1 .. Len(sent) : sent[i].kind # "Err"
  BY DEF Leads
<1>2. Traced(kind, seen, sent, to)
  BY DEF Leads, Traced
<1>3. Traced(kind, seen, all, Apply(kind, to, e))
  BY <1>1, <1>2, TracedOn
<1>4. all \in Seq(EventType) /\ \A i \in 1 .. Len(all) : all[i].kind # "Err"
  BY <1>1
<1> QED
  BY <1>3, <1>4 DEF Leads, Traced

LEMMA LeadsThrough ==
    ASSUME NEW kind, NEW seen, NEW a, NEW to, Leads(kind, seen, a, to),
           NEW b, NEW end, Leads(kind, to, b, end), NEW all, all = a \o b
    PROVE  Leads(kind, seen, all, end)
<1>1. a \in Seq(EventType) /\ \A i \in 1 .. Len(a) : a[i].kind # "Err"
  BY DEF Leads
<1>2. b \in Seq(EventType) /\ \A i \in 1 .. Len(b) : b[i].kind # "Err"
  BY DEF Leads
<1>3. PICK h : Trace(h, kind, seen, a) /\ h[Len(a)] = to
  BY DEF Leads
<1>4. PICK g : Trace(g, kind, to, b) /\ g[Len(b)] = end
  BY DEF Leads
<1>5. PICK n \in Nat, m \in Nat : n = Len(a) /\ m = Len(b)
  BY <1>1, <1>2
<1>6. /\ all \in Seq(EventType) /\ Len(all) = n + m
      /\ \A i \in 1 .. n : all[i] = a[i]
      /\ \A i \in n + 1 .. n + m : all[i] = b[i - n]
  BY <1>1, <1>2, <1>5
<1> DEFINE f == [i \in 0 .. n + m |-> IF i <= n THEN h[i] ELSE g[i - n]]
<1>a. f = [i \in 0 .. n + m |-> f[i]]
  OBVIOUS
<1>7. \A i \in 0 .. n + m : f[i] = IF i <= n THEN h[i] ELSE g[i - n]
  OBVIOUS
<1> HIDE DEF f
<1>8. h[0] = seen /\ h[n] = to /\ g[0] = to /\ g[m] = end
  BY <1>3, <1>4, <1>5 DEF Trace
<1>9. ASSUME NEW i \in 1 .. n + m
      PROVE  Fits(kind, f[i - 1], all[i]) /\ f[i] = Apply(kind, f[i - 1], all[i])
  <2>1. CASE i <= n
    <3>1. i \in 1 .. n /\ f[i] = h[i] /\ f[i - 1] = h[i - 1] /\ all[i] = a[i]
      BY <1>6, <1>7, <2>1
    <3> QED
      BY <1>3, <1>5, <3>1 DEF Trace
  <2>2. CASE ~(i <= n)
    <3>1. i \in n + 1 .. n + m /\ i - n \in 1 .. m /\ (i - n) - 1 = (i - 1) - n
      BY <2>2
    <3>2. f[i] = g[i - n] /\ all[i] = b[i - n]
      <4>1. f[i] = g[i - n]
        BY <1>7, <2>2
      <4>2. all[i] = b[i - n]
        BY <1>6, <3>1
      <4> QED
        BY <4>1, <4>2
    <3>3. f[i - 1] = g[(i - 1) - n]
      <4>1. CASE i = n + 1
        <5>1. i - 1 = n /\ (i - 1) - n = 0 /\ f[n] = h[n]
          BY <1>7, <4>1
        <5> QED
          BY <1>8, <5>1
      <4>2. CASE i # n + 1
        BY <1>7, <2>2, <3>1, <4>2
      <4> QED
        BY <4>1, <4>2
    <3> QED
      BY <1>4, <1>5, <3>1, <3>2, <3>3 DEF Trace
  <2> QED
    BY <2>1, <2>2
<1>10. f[0] = seen
  BY <1>7, <1>8
<1>11. f[n + m] = end
  <2>1. CASE m = 0
    BY <1>7, <1>8, <2>1
  <2>2. CASE m # 0
    <3>1. n + m \in 0 .. n + m /\ ~(n + m <= n) /\ (n + m) - n = m
      BY <2>2
    <3> QED
      BY <1>7, <1>8, <3>1
  <2> QED
    BY <2>1, <2>2
<1>12. Trace(f, kind, seen, all)
  BY <1>a, <1>6, <1>9, <1>10 DEF Trace
<1>13. \A i \in 1 .. Len(all) : all[i].kind # "Err"
  <2> SUFFICES ASSUME NEW i \in 1 .. n + m PROVE all[i].kind # "Err"
    BY <1>6
  <2>1. CASE i <= n
    BY <1>1, <1>5, <1>6, <2>1
  <2>2. CASE ~(i <= n)
    <3>1. i \in n + 1 .. n + m /\ i - n \in 1 .. m
      BY <2>2
    <3> QED
      BY <1>2, <1>5, <1>6, <3>1
  <2> QED
    BY <2>1, <2>2
<1> QED
  BY <1>6, <1>11, <1>12, <1>13 DEF Leads

(* What the views are.                                                     *)
LEMMA TraceIsViews ==
    ASSUME NEW kind, NEW seen, NEW sent, Len(sent) \in Nat,
           NEW h, Trace(h, kind, seen, sent)
    PROVE  \A i \in 0 .. Len(sent) : Views(kind, seen, sent)[i] = h[i]
<1> DEFINE last == Len(sent)
           Table(f) == [n \in 0 .. last |-> IF n = 0 THEN seen
                           ELSE Apply(kind, f[n - 1], sent[n])]
           views == CHOOSE f : f = Table(f)
<1>1. h = Table(h)
  <2>1. h = [i \in 0 .. last |-> h[i]]
    BY DEF Trace
  <2>2. \A i \in 0 .. last :
           h[i] = IF i = 0 THEN seen ELSE Apply(kind, h[i - 1], sent[i])
    BY DEF Trace
  <2> QED
    BY <2>1, <2>2
<1>2. views = Table(views)
  <2> HIDE DEF Table
  <2> QED
    BY <1>1
<1>3. Views(kind, seen, sent) = views
  BY DEF Views
<1> HIDE DEF views
<1>4. \A n \in 0 .. last :
         views[n] = IF n = 0 THEN seen ELSE Apply(kind, views[n - 1], sent[n])
  BY <1>2
<1> DEFINE Good == {n \in Nat : n <= last => views[n] = h[n]}
<1>5. 0 \in Good
  BY <1>4 DEF Trace
<1>6. ASSUME NEW n \in Nat, n \in Good PROVE n + 1 \in Good
  <2> SUFFICES ASSUME n + 1 <= last PROVE views[n + 1] = h[n + 1]
    OBVIOUS
  <2>1. /\ views[n] = h[n] /\ n + 1 \in 0 .. last /\ n + 1 \in 1 .. last
        /\ n + 1 # 0 /\ (n + 1) - 1 = n
    BY <1>6
  <2>2. views[n + 1] = Apply(kind, views[n], sent[n + 1])
    BY <1>4, <2>1
  <2>3. h[n + 1] = Apply(kind, h[n], sent[n + 1])
    BY <2>1 DEF Trace
  <2> QED
    BY <2>1, <2>2, <2>3
<1>7. Nat \subseteq Good
  <2> HIDE DEF Good
  <2> QED
    BY <1>5, <1>6, NatInd
<1> QED
  BY <1>3, <1>7

LEMMA LeadsRead ==
    ASSUME NEW kind, NEW seen, NEW sent, NEW to, Leads(kind, seen, sent, to)
    PROVE  /\ Views(kind, seen, sent)[Len(sent)] = to
           /\ \A i \in DOMAIN sent :
                 Fits(kind, Views(kind, seen, sent)[i - 1], sent[i])
<1>1. sent \in Seq(EventType) /\ Len(sent) \in Nat /\ DOMAIN sent = 1 .. Len(sent)
  BY DEF Leads
<1>2. PICK h : Trace(h, kind, seen, sent) /\ h[Len(sent)] = to
  BY DEF Leads
<1>3. \A i \in 0 .. Len(sent) : Views(kind, seen, sent)[i] = h[i]
  BY <1>1, <1>2, TraceIsViews
<1>4. \A i \in 1 .. Len(sent) : Fits(kind, h[i - 1], sent[i])
  BY <1>2 DEF Trace
<1> QED
  BY <1>1, <1>2, <1>3, <1>4

(* There are views, whatever the events.                                   *)
LEMMA ViewsStep ==
    ASSUME NEW kind, NEW seen, NEW sent, Len(sent) \in Nat,
           NEW views, views = Views(kind, seen, sent)
    PROVE  /\ views = [i \in 0 .. Len(sent) |-> views[i]]
           /\ views[0] = seen
           /\ \A i \in 1 .. Len(sent) : views[i] = Apply(kind, views[i - 1], sent[i])
<1> DEFINE last == Len(sent)
           Solves(u, m) == /\ u = [i \in 0 .. m |-> u[i]] /\ u[0] = seen
                           /\ \A i \in 1 .. m : u[i] = Apply(kind, u[i - 1], sent[i])
           Solved == {m \in Nat : \E u : Solves(u, m)}
<1>1. 0 \in Solved
  <2> DEFINE u == [n \in 0 .. 0 |-> seen]
  <2>1. Solves(u, 0)
    OBVIOUS
  <2> HIDE DEF u, Solves
  <2> QED
    BY <2>1
<1>2. ASSUME NEW m \in Nat, m \in Solved PROVE m + 1 \in Solved
  <2>1. PICK u : Solves(u, m)
    BY <1>2
  <2>2. PICK next : next = Apply(kind, u[m], sent[m + 1])
    OBVIOUS
  <2> DEFINE v == [n \in 0 .. m + 1 |-> IF n <= m THEN u[n] ELSE next]
  <2>3. v = [n \in 0 .. m + 1 |-> v[n]]
    OBVIOUS
  <2>4. v[m + 1] = next /\ \A i \in 0 .. m : v[i] = u[i]
    OBVIOUS
  <2> HIDE DEF v
  <2>5. v[0] = seen
    BY <2>1, <2>4
  <2>6. ASSUME NEW i \in 1 .. m + 1 PROVE v[i] = Apply(kind, v[i - 1], sent[i])
    <3>1. CASE i = m + 1
      <4>1. v[i] = next /\ v[i - 1] = u[m]
        BY <2>4, <3>1
      <4> QED
        BY <2>2, <3>1, <4>1
    <3>2. CASE i # m + 1
      <4>1. i \in 1 .. m /\ v[i] = u[i] /\ v[i - 1] = u[i - 1]
        BY <2>4, <3>2
      <4>2. u[i] = Apply(kind, u[i - 1], sent[i])
        BY <2>1, <4>1
      <4> QED
        BY <4>1, <4>2
    <3> QED
      BY <3>1, <3>2
  <2>7. Solves(v, m + 1)
    BY <2>3, <2>5, <2>6
  <2> HIDE DEF Solves
  <2> QED
    BY <2>7
<1>3. last \in Solved
  <2> HIDE DEF Solved
  <2> QED
    BY <1>1, <1>2, NatInd
<1>4. PICK u : Solves(u, last)
  BY <1>3
<1> DEFINE Table(f) == [n \in 0 .. last |-> IF n = 0 THEN seen
                           ELSE Apply(kind, f[n - 1], sent[n])]
<1>5. u = Table(u)
  <2>1. u = [i \in 0 .. last |-> u[i]]
    BY <1>4
  <2>2. \A i \in 0 .. last :
           u[i] = IF i = 0 THEN seen ELSE Apply(kind, u[i - 1], sent[i])
    BY <1>4
  <2> QED
    BY <2>1, <2>2
<1>6. views = CHOOSE f : f = Table(f)
  BY DEF Views
<1>7. views = Table(views)
  <2> HIDE DEF Table
  <2> QED
    BY <1>5, <1>6
<1>8. \A n \in 0 .. last :
         views[n] = IF n = 0 THEN seen ELSE Apply(kind, views[n - 1], sent[n])
  BY <1>7
<1>9. views = [i \in 0 .. last |-> views[i]]
  <2> DEFINE Entry1(n) == IF n = 0 THEN seen ELSE Apply(kind, views[n - 1], sent[n])
  <2>1. views = [n \in 0 .. last |-> Entry1(n)]
    BY <1>7
  <2> HIDE DEF Entry1
  <2> QED
    BY <2>1
<1> QED
  BY <1>8, <1>9

LEMMA ReadLeads ==
    ASSUME NEW kind, NEW seen, NEW sent \in Seq(EventType),
           \A i \in 1 .. Len(sent) : sent[i].kind # "Err",
           \A i \in 1 .. Len(sent) :
              Fits(kind, Views(kind, seen, sent)[i - 1], sent[i])
    PROVE  Leads(kind, seen, sent, Views(kind, seen, sent)[Len(sent)])
<1>1. PICK v : v = Views(kind, seen, sent)
  OBVIOUS
<1>2. Len(sent) \in Nat
  OBVIOUS
<1>3. Trace(v, kind, seen, sent)
  BY <1>1, <1>2, ViewsStep DEF Trace
<1> QED
  BY <1>1, <1>3 DEF Leads

-----------------------------------------------------------------------------
(* Events of the kinds that a set is kept of.                              *)

IdsOf(S) == {m.id : m \in S}

(* An event takes a document of one set to where it is in another.         *)
Right(e, seen, goal) ==
    \/ /\ e.kind = "Entered" /\ e.id \notin IdsOf(seen)
       /\ Item(e.id, e.doc) \in goal
    \/ /\ e.kind = "Changed" /\ e.id \in IdsOf(seen)
       /\ Item(e.id, e.doc) \in goal
    \/ /\ e.kind = "Left" /\ e.id \in IdsOf(seen)
       /\ e.id \notin IdsOf(goal)
AllRight(sent, seen, goal) ==
    /\ sent \in Seq(EventType)
    /\ \A i \in 1 .. Len(sent) : Right(sent[i], seen, goal)
    /\ \A i, j \in 1 .. Len(sent) : sent[i].id = sent[j].id => i = j

(* The set once the documents J are where the other has them.              *)
Midway(seen, goal, J) == {m \in seen : m.id \notin J}
                           \cup {m \in goal : m.id \in J}
SentIds(sent, n) == {sent[i].id : i \in 1 .. n}

LEMMA MidwayIds ==
    ASSUME NEW seen, NEW goal, NEW J, NEW id, id \notin J
    PROVE  id \in IdsOf(Midway(seen, goal, J)) <=> id \in IdsOf(seen)
BY DEF IdsOf, Midway

(* One event more.                                                         *)
LEMMA MidwayOn ==
    ASSUME NEW kind, kind # "window", NEW seen, NEW goal, OneEach(goal),
           NEW J, NEW e, Right(e, seen, goal), e.id \notin J
    PROVE  /\ Fits(kind, Midway(seen, goal, J), e)
           /\ Apply(kind, Midway(seen, goal, J), e)
                = Midway(seen, goal, J \cup {e.id})
<1> DEFINE now == Midway(seen, goal, J)
           new == IF e.kind = "Left" THEN {} ELSE {Item(e.id, e.doc)}
<1>1. Fits(kind, now, e)
  <2>1. e.id \in {m.id : m \in now} <=> e.id \in IdsOf(seen)
    <3>1. IdsOf(now) = {m.id : m \in now}
      BY DEF IdsOf
    <3> QED
      BY <3>1, MidwayIds
  <2> HIDE DEF now
  <2>2. e.kind = "Entered" <=> e.id \notin {m.id : m \in now}
    BY <2>1 DEF Right
  <2> QED
    BY <2>2 DEF Fits
<1>2. Apply(kind, now, e) = {m \in now : m.id # e.id} \cup new
  <2>1. e.kind # "Err"
    BY DEF Right
  <2> HIDE DEF now
  <2> QED
    BY <2>1 DEF Apply
<1>3. \A m : m \in new <=> m \in goal /\ m.id = e.id
  <2>1. CASE e.kind = "Left"
    <3>1. e.id \notin IdsOf(goal)
      BY <2>1 DEF Right
    <3> QED
      BY <2>1, <3>1 DEF IdsOf
  <2>2. CASE e.kind # "Left"
    <3>1. Item(e.id, e.doc) \in goal /\ Item(e.id, e.doc).id = e.id
      BY <2>2 DEF Right, Item
    <3> QED
      BY <2>2, <3>1 DEF OneEach
  <2> QED
    BY <2>1, <2>2
<1>4. {m \in now : m.id # e.id} \cup new = Midway(seen, goal, J \cup {e.id})
  <2> HIDE DEF new
  <2> QED
    BY <1>3 DEF Midway
<1> QED
  BY <1>1, <1>2, <1>4

(* Right events lead where the documents they name are right.              *)
LEMMA RightLeads ==
    ASSUME NEW kind, kind # "window", NEW seen, NEW goal, OneEach(goal),
           NEW sent, AllRight(sent, seen, goal)
    PROVE  Leads(kind, seen, sent, Midway(seen, goal, SentIds(sent, Len(sent))))
<1>1. /\ sent \in Seq(EventType) /\ Len(sent) \in Nat
      /\ \A i \in 1 .. Len(sent) : Right(sent[i], seen, goal)
      /\ \A i, j \in 1 .. Len(sent) : sent[i].id = sent[j].id => i = j
  BY DEF AllRight
<1> DEFINE h == [n \in 0 .. Len(sent) |-> Midway(seen, goal, SentIds(sent, n))]
<1>2. /\ h = [n \in 0 .. Len(sent) |-> h[n]]
  OBVIOUS
<1>3. \A n \in 0 .. Len(sent) : h[n] = Midway(seen, goal, SentIds(sent, n))
  OBVIOUS
<1> HIDE DEF h
<1>4. h[0] = seen
  <2>1. SentIds(sent, 0) = {}
    BY DEF SentIds
  <2>2. Midway(seen, goal, {}) = seen
    BY DEF Midway
  <2> QED
    <3>1. h[0] = Midway(seen, goal, SentIds(sent, 0))
      BY <1>1, <1>3
    <3> QED
      BY <2>1, <2>2, <3>1
<1>5. ASSUME NEW n \in 1 .. Len(sent)
      PROVE  Fits(kind, h[n - 1], sent[n]) /\ h[n] = Apply(kind, h[n - 1], sent[n])
  <2>1. PICK J : J = SentIds(sent, n - 1)
    OBVIOUS
  <2>2. sent[n].id \notin J
    <3> SUFFICES ASSUME sent[n].id \in J PROVE FALSE
      OBVIOUS
    <3>1. PICK i \in 1 .. n - 1 : sent[i].id = sent[n].id
      BY <2>1 DEF SentIds
    <3> QED
      BY <1>1, <3>1
  <2>3. SentIds(sent, n) = J \cup {sent[n].id}
    <3>1. \A i : i \in 1 .. n <=> i \in 1 .. n - 1 \/ i = n
      BY <1>1
    <3> QED
      BY <2>1, <3>1 DEF SentIds
  <2>4. h[n - 1] = Midway(seen, goal, J)
    BY <1>1, <1>3, <2>1
  <2>5. h[n] = Midway(seen, goal, J \cup {sent[n].id})
    <3>1. n \in 0 .. Len(sent)
      BY <1>1
    <3>2. h[n] = Midway(seen, goal, SentIds(sent, n))
      BY <1>3, <3>1
    <3> QED
      BY <2>3, <3>2
  <2>6. Right(sent[n], seen, goal)
    BY <1>1
  <2> QED
    BY <2>2, <2>4, <2>5, <2>6, MidwayOn
<1>6. Trace(h, kind, seen, sent)
  BY <1>2, <1>4, <1>5 DEF Trace
<1>7. \A i \in 1 .. Len(sent) : sent[i].kind # "Err"
  BY <1>1 DEF Right
<1>8. h[Len(sent)] = Midway(seen, goal, SentIds(sent, Len(sent)))
  BY <1>1, <1>3
<1> QED
  BY <1>1, <1>6, <1>7, <1>8 DEF Leads

(* And if that is every document that changed, all are.                    *)
LEMMA RightLeadsTo ==
    ASSUME NEW kind, kind # "window", NEW seen, NEW goal, OneEach(goal),
           NEW sent, AllRight(sent, seen, goal),
           \A m \in (seen \ goal) \cup (goal \ seen) :
              \E i \in 1 .. Len(sent) : sent[i].id = m.id
    PROVE  Leads(kind, seen, sent, goal)
<1>1. PICK J : J = SentIds(sent, Len(sent))
  OBVIOUS
<1>2. \A m \in (seen \ goal) \cup (goal \ seen) : m.id \in J
  BY <1>1 DEF SentIds
<1>3. Midway(seen, goal, J) = goal
  BY <1>2 DEF Midway
<1> QED
  BY <1>1, <1>3, RightLeads

(* A set that events can be sent of, and one event sent of each.           *)
SetOfDocs(S) == /\ IsFiniteSet(S) /\ OneEach(S)
                /\ \A m \in S : /\ m.id \in Id \cup Value
                                /\ m.doc \in Value \cup Nat \cup {NoDoc}
                                /\ Item(m.id, m.doc) = m
Tells(sent, ev, S) ==
    /\ sent \in Seq(EventType)
    /\ \A i \in 1 .. Len(sent) : \E m \in S :
          sent[i] = Event(ev, m, NoPlace, NoPlace)
    /\ \A m \in S : \E i \in 1 .. Len(sent) : sent[i].id = m.id
    /\ \A i, j \in 1 .. Len(sent) : sent[i].id = sent[j].id => i = j

LEMMA AllSent ==
    ASSUME NEW S, SetOfDocs(S), NEW ev \in {"Entered", "Left"}
    PROVE  Tells(All(ev, S), ev, S)
<1>0. PICK sent : sent = All(ev, S)
  OBVIOUS
<1>a. /\ IsFiniteSet(S) /\ OneEach(S)
      /\ \A m \in S : /\ m.id \in Id \cup Value
                      /\ m.doc \in Value \cup Nat \cup {NoDoc}
  BY DEF SetOfDocs
<1>1. \A m \in S : m.id \in Nat
  BY <1>a, LiveAssumption
<1>2. PICK seq : seq = Sorted(S, ById)
  OBVIOUS
<1>3. InOrder(seq, S, IdRel(S))
  BY <1>a, <1>1, <1>2, SortedById
<1>4. /\ seq \in Seq(S) /\ Len(seq) \in Nat
      /\ \A i \in 1 .. Len(seq) : seq[i] \in S
      /\ \A m \in S : \E i \in 1 .. Len(seq) : seq[i] = m
  BY <1>3, Ordered
<1>5. \A i, j \in 1 .. Len(seq) : i < j => <<seq[i], seq[j]>> \in IdRel(S)
  BY <1>3, Ordered
<1>6. \A i, j \in 1 .. Len(seq) : i < j => seq[i].id < seq[j].id
  BY <1>5 DEF IdRel, ById
<1>7. \A m \in S : Event(ev, m, NoPlace, NoPlace) \in EventType
  BY <1>a DEF Event, EventType, NoPlace
<1>8. sent = [i \in 1 .. Len(seq) |-> Event(ev, seq[i], NoPlace, NoPlace)]
  <2>1. DOMAIN seq = 1 .. Len(seq)
    BY <1>4
  <2>2. sent = [i \in DOMAIN seq |-> Event(ev, seq[i], NoPlace, NoPlace)]
    BY <1>0, <1>2 DEF All
  <2> QED
    BY <2>1, <2>2
<1>9. sent \in Seq(EventType) /\ Len(sent) = Len(seq)
  BY <1>4, <1>7, <1>8
<1>10. \A i \in 1 .. Len(seq) : sent[i] = Event(ev, seq[i], NoPlace, NoPlace)
  BY <1>8
<1>11. \A i \in 1 .. Len(seq) : sent[i].id = seq[i].id
  <2>1. \A m : Event(ev, m, NoPlace, NoPlace).id = m.id
    BY DEF Event
  <2> QED
    BY <1>10, <2>1
<1>12. ASSUME NEW i \in 1 .. Len(seq), NEW j \in 1 .. Len(seq),
              seq[i].id = seq[j].id
       PROVE  i = j
  <2>1. seq[i].id \in Nat /\ seq[j].id \in Nat
    BY <1>1, <1>4
  <2>2. ~(i < j) /\ ~(j < i)
    BY <1>6, <1>12, <2>1
  <2> QED
    BY <1>4, <2>2
<1>13. \A i \in 1 .. Len(sent) : \E m \in S :
          sent[i] = Event(ev, m, NoPlace, NoPlace)
  BY <1>4, <1>9, <1>10
<1>14. \A m \in S : \E i \in 1 .. Len(sent) : sent[i].id = m.id
  BY <1>4, <1>9, <1>11
<1> QED
  BY <1>0, <1>9, <1>11, <1>12, <1>13, <1>14 DEF Tells

(* The changes of a commit are taken one by one.                           *)
LEMMA ChangedSteps ==
    ASSUME NEW list, NEW seen, Len(seen) \in Nat, NEW d,
           NEW all, all = ChangedAll(list, seen, d)
    PROVE  \E upTo : /\ upTo[0] = Outcome(list, <<>>)
                     /\ \A i \in 1 .. Len(seen) :
                           upTo[i] = Changed(upTo[i - 1], seen[i].id, d)
                     /\ all = upTo[Len(seen)]
<1> DEFINE last == Len(seen)
           Solves(u, m) ==
             /\ u = [i \in 0 .. m |-> u[i]] /\ u[0] = Outcome(list, <<>>)
             /\ \A i \in 1 .. m : u[i] = Changed(u[i - 1], seen[i].id, d)
           Solved == {m \in Nat : \E u : Solves(u, m)}
<1>1. 0 \in Solved
  <2> DEFINE u == [n \in 0 .. 0 |-> Outcome(list, <<>>)]
  <2>1. Solves(u, 0)
    OBVIOUS
  <2> HIDE DEF u, Solves
  <2> QED
    BY <2>1
<1>2. ASSUME NEW m \in Nat, m \in Solved PROVE m + 1 \in Solved
  <2>1. PICK u : Solves(u, m)
    BY <1>2
  <2>2. PICK next : next = Changed(u[m], seen[m + 1].id, d)
    OBVIOUS
  <2> DEFINE v == [n \in 0 .. m + 1 |-> IF n <= m THEN u[n] ELSE next]
  <2>3. v = [n \in 0 .. m + 1 |-> v[n]]
    OBVIOUS
  <2>4. v[m + 1] = next /\ \A i \in 0 .. m : v[i] = u[i]
    OBVIOUS
  <2> HIDE DEF v
  <2>5. v[0] = Outcome(list, <<>>)
    BY <2>1, <2>4
  <2>6. ASSUME NEW i \in 1 .. m + 1 PROVE v[i] = Changed(v[i - 1], seen[i].id, d)
    <3>1. CASE i = m + 1
      <4>1. v[i] = next /\ v[i - 1] = u[m]
        BY <2>4, <3>1
      <4> QED
        BY <2>2, <3>1, <4>1
    <3>2. CASE i # m + 1
      <4>1. i \in 1 .. m /\ v[i] = u[i] /\ v[i - 1] = u[i - 1]
        BY <2>4, <3>2
      <4>2. u[i] = Changed(u[i - 1], seen[i].id, d)
        BY <2>1, <4>1
      <4> QED
        BY <4>1, <4>2
    <3> QED
      BY <3>1, <3>2
  <2>7. Solves(v, m + 1)
    BY <2>3, <2>5, <2>6
  <2> HIDE DEF Solves
  <2> QED
    BY <2>7
<1>3. last \in Solved
  <2> HIDE DEF Solved
  <2> QED
    BY <1>1, <1>2, NatInd
<1>4. PICK u : Solves(u, last)
  BY <1>3
<1> DEFINE Table(f) == [n \in 0 .. last |-> IF n = 0 THEN Outcome(list, <<>>)
                           ELSE Changed(f[n - 1], seen[n].id, d)]
<1>5. u = Table(u)
  <2>1. u = [i \in 0 .. last |-> u[i]]
    BY <1>4
  <2>2. \A i \in 0 .. last :
           u[i] = IF i = 0 THEN Outcome(list, <<>>)
                  ELSE Changed(u[i - 1], seen[i].id, d)
    BY <1>4
  <2> QED
    BY <2>1, <2>2
<1> DEFINE steps == CHOOSE f : f = Table(f)
<1>6. all = steps[last]
  BY DEF ChangedAll
<1>7. steps = Table(steps)
  <2> HIDE DEF Table
  <2> QED
    BY <1>5
<1> HIDE DEF steps
<1>8. \A n \in 0 .. last :
         steps[n] = IF n = 0 THEN Outcome(list, <<>>)
                    ELSE Changed(steps[n - 1], seen[n].id, d)
  BY <1>7
<1>9. /\ steps[0] = Outcome(list, <<>>)
      /\ \A i \in 1 .. last : steps[i] = Changed(steps[i - 1], seen[i].id, d)
  BY <1>8
<1> QED
  BY <1>6, <1>9

(* So are the documents of the new list.                                   *)
LEMMA PutSteps ==
    ASSUME NEW left, NEW new, Len(new) \in Nat, NEW was, NEW pending,
           NEW all, all = PutAll(left, new, was, pending)
    PROVE  \E upTo : /\ upTo[0] = left
                     /\ \A i \in 1 .. Len(new) :
                           upTo[i] = Put(upTo[i - 1], new[i], was, pending)
                     /\ all = upTo[Len(new)]
<1> DEFINE last == Len(new)
           Solves(u, m) == /\ u = [i \in 0 .. m |-> u[i]] /\ u[0] = left
                           /\ \A i \in 1 .. m :
                                 u[i] = Put(u[i - 1], new[i], was, pending)
           Solved == {m \in Nat : \E u : Solves(u, m)}
<1>1. 0 \in Solved
  <2> DEFINE u == [n \in 0 .. 0 |-> left]
  <2>1. Solves(u, 0)
    OBVIOUS
  <2> HIDE DEF u, Solves
  <2> QED
    BY <2>1
<1>2. ASSUME NEW m \in Nat, m \in Solved PROVE m + 1 \in Solved
  <2>1. PICK u : Solves(u, m)
    BY <1>2
  <2>2. PICK next : next = Put(u[m], new[m + 1], was, pending)
    OBVIOUS
  <2> DEFINE v == [n \in 0 .. m + 1 |-> IF n <= m THEN u[n] ELSE next]
  <2>3. v = [n \in 0 .. m + 1 |-> v[n]]
    OBVIOUS
  <2>4. v[m + 1] = next /\ \A i \in 0 .. m : v[i] = u[i]
    OBVIOUS
  <2> HIDE DEF v
  <2>5. v[0] = left
    BY <2>1, <2>4
  <2>6. ASSUME NEW i \in 1 .. m + 1 PROVE v[i] = Put(v[i - 1], new[i], was, pending)
    <3>1. CASE i = m + 1
      <4>1. v[i] = next /\ v[i - 1] = u[m]
        BY <2>4, <3>1
      <4> QED
        BY <2>2, <3>1, <4>1
    <3>2. CASE i # m + 1
      <4>1. i \in 1 .. m /\ v[i] = u[i] /\ v[i - 1] = u[i - 1]
        BY <2>4, <3>2
      <4>2. u[i] = Put(u[i - 1], new[i], was, pending)
        BY <2>1, <4>1
      <4> QED
        BY <4>1, <4>2
    <3> QED
      BY <3>1, <3>2
  <2>7. Solves(v, m + 1)
    BY <2>3, <2>5, <2>6
  <2> HIDE DEF Solves
  <2> QED
    BY <2>7
<1>3. last \in Solved
  <2> HIDE DEF Solved
  <2> QED
    BY <1>1, <1>2, NatInd
<1>4. PICK u : Solves(u, last)
  BY <1>3
<1> DEFINE Table(f) == [n \in 0 .. last |-> IF n = 0 THEN left
                           ELSE Put(f[n - 1], new[n], was, pending)]
<1>5. u = Table(u)
  <2>1. u = [i \in 0 .. last |-> u[i]]
    BY <1>4
  <2>2. \A i \in 0 .. last :
           u[i] = IF i = 0 THEN left ELSE Put(u[i - 1], new[i], was, pending)
    BY <1>4
  <2> QED
    BY <2>1, <2>2
<1> DEFINE steps == CHOOSE f : f = Table(f)
<1>6. all = steps[last]
  BY DEF PutAll
<1>7. steps = Table(steps)
  <2> HIDE DEF Table
  <2> QED
    BY <1>5
<1> HIDE DEF steps
<1>8. \A n \in 0 .. last :
         steps[n] = IF n = 0 THEN left ELSE Put(steps[n - 1], new[n], was, pending)
  BY <1>7
<1>9. /\ steps[0] = left
      /\ \A i \in 1 .. last : steps[i] = Put(steps[i - 1], new[i], was, pending)
  BY <1>8
<1> QED
  BY <1>6, <1>9

-----------------------------------------------------------------------------
(* A filter's events.                                                      *)

(* Which documents match, by id.                                           *)
Hits(d) == {id \in Id : Doc(d, id) \in Matching}
HasDocs(d) == \A id \in Id : Doc(d, id) \in Value \cup {NoDoc}

LEMMA MatchIds ==
    ASSUME NEW d
    PROVE  /\ IdsOf(Matches(d)) = Hits(d)
           /\ \A id \in Hits(d) : Item(id, Doc(d, id)) \in Matches(d)
<1>1. \A m \in Matches(d) : m.id \in Hits(d)
  BY MatchesSound DEF Hits
<1>2. \A id \in Hits(d) : Item(id, Doc(d, id)) \in Matches(d)
  BY MatchesSound DEF Hits
<1>3. \A id \in Hits(d) : Item(id, Doc(d, id)).id = id
  BY DEF Item
<1> QED
  BY <1>1, <1>2, <1>3 DEF IdsOf

(* The documents J are settled: kept as they are now, and told of.         *)
Told(acc, J, b, d) ==
    /\ acc.kept = {id \in Id : IF id \in J THEN id \in Hits(d)
                               ELSE id \in Hits(b)}
    /\ AllRight(acc.events, Matches(b), Matches(d))
    /\ \A i \in 1 .. Len(acc.events) : acc.events[i].id \in J
    /\ \A id \in J : id \in Hits(b) \/ id \in Hits(d) =>
          \E i \in 1 .. Len(acc.events) : acc.events[i].id = id

(* One event more, of a document that there was none of.                   *)
Unsent(sent, id) == \A i \in 1 .. Len(sent) : sent[i].id # id

LEMMA AllRightOn ==
    ASSUME NEW sent, NEW seen, NEW goal, AllRight(sent, seen, goal),
           NEW e \in EventType, Right(e, seen, goal),
           Unsent(sent, e.id), NEW more, more = Append(sent, e)
    PROVE  AllRight(more, seen, goal)
<1>1. /\ sent \in Seq(EventType) /\ Len(sent) \in Nat
      /\ \A i \in 1 .. Len(sent) : Right(sent[i], seen, goal)
      /\ \A i, j \in 1 .. Len(sent) : sent[i].id = sent[j].id => i = j
  BY DEF AllRight
<1>2. /\ more \in Seq(EventType)
      /\ Len(more) = Len(sent) + 1 /\ more[Len(sent) + 1] = e
      /\ \A i \in 1 .. Len(sent) : more[i] = sent[i]
  BY <1>1
<1>3. \A i \in 1 .. Len(more) : i \in 1 .. Len(sent) \/ i = Len(sent) + 1
  BY <1>1, <1>2
<1>4. \A i \in 1 .. Len(more) : Right(more[i], seen, goal)
  BY <1>1, <1>2, <1>3
<1>5. \A i, j \in 1 .. Len(more) : more[i].id = more[j].id => i = j
  BY <1>1, <1>2, <1>3 DEF Unsent
<1> QED
  BY <1>1, <1>2, <1>4, <1>5 DEF AllRight

LEMMA ToldOn ==
    ASSUME NEW b, NEW d, HasDocs(d), NEW J, NEW acc, Told(acc, J, b, d),
           NEW id \in Id, id \notin J
    PROVE  Told(Changed(acc, id, d), J \cup {id}, b, d)
<1> DEFINE was == id \in acc.kept
           is == Doc(d, id) \in Matching
           ev == CASE is /\ ~was -> "Entered"
                   [] was /\ ~is -> "Left"
                   [] OTHER      -> "Changed"
           e == Event(ev, Item(id, Doc(d, id)), NoPlace, NoPlace)
           out == Changed(acc, id, d)
<1>1. was <=> id \in Hits(b)
  BY DEF Told
<1>2. is <=> id \in Hits(d)
  BY DEF Hits
<1>3. out.kept = (IF is THEN acc.kept \cup {id} ELSE acc.kept \ {id})
  BY DEF Changed, Outcome
<1>4. out.events = IF was \/ is THEN Append(acc.events, e) ELSE acc.events
  BY DEF Changed, Outcome
<1>5. out.kept = {x \in Id : IF x \in J \cup {id} THEN x \in Hits(d)
                             ELSE x \in Hits(b)}
  BY <1>2, <1>3 DEF Told
<1>6. /\ AllRight(acc.events, Matches(b), Matches(d))
      /\ \A i \in 1 .. Len(acc.events) : acc.events[i].id \in J
      /\ \A x \in J : x \in Hits(b) \/ x \in Hits(d) =>
            \E i \in 1 .. Len(acc.events) : acc.events[i].id = x
  BY DEF Told
<1>7. CASE ~(was \/ is)
  BY <1>1, <1>2, <1>4, <1>5, <1>6, <1>7 DEF Told
<1>8. CASE was \/ is
  <2>1. /\ e.id = id /\ e.doc = Doc(d, id) /\ e.kind = ev
        /\ ev \in {"Entered", "Left", "Changed"}
    BY DEF Event, Item
  <2>2. e \in EventType
    <3>1. Doc(d, id) \in Value \cup {NoDoc}
      BY DEF HasDocs
    <3>2. ev \in {"Entered", "Left", "Changed"}
      OBVIOUS
    <3> HIDE DEF ev
    <3> QED
      BY <3>1, <3>2 DEF Event, Item, EventType, NoPlace
  <2>3. Right(e, Matches(b), Matches(d))
    <3>1. /\ id \in IdsOf(Matches(b)) <=> was
          /\ id \in IdsOf(Matches(d)) <=> is
      BY <1>1, <1>2, MatchIds
    <3>2. is => Item(id, Doc(d, id)) \in Matches(d)
      BY <1>2, MatchIds
    <3>3. \/ ev = "Entered" /\ is /\ ~was
          \/ ev = "Left" /\ was /\ ~is
          \/ ev = "Changed" /\ was /\ is
      BY <1>8
    <3> HIDE DEF ev, was, is, e
    <3> QED
      BY <2>1, <3>1, <3>2, <3>3 DEF Right
  <2>4. PICK sent, more : sent = acc.events /\ more = out.events
    OBVIOUS
  <2>5. more = Append(sent, e)
    BY <1>4, <1>8, <2>4
  <2>6. \A i \in 1 .. Len(sent) : sent[i].id # e.id
    BY <1>6, <2>1, <2>4
  <2> HIDE DEF e, out, was, is
  <2>7. /\ AllRight(more, Matches(b), Matches(d)) /\ Len(sent) \in Nat
        /\ Len(more) = Len(sent) + 1 /\ more[Len(sent) + 1] = e
        /\ \A i \in 1 .. Len(sent) : more[i] = sent[i]
    <3>1. AllRight(sent, Matches(b), Matches(d))
      BY <1>6, <2>4
    <3>2. PICK seen, goal : seen = Matches(b) /\ goal = Matches(d)
      OBVIOUS
    <3>3. AllRight(sent, seen, goal) /\ Right(e, seen, goal)
      BY <2>3, <3>1, <3>2
    <3>4. Unsent(sent, e.id)
      BY <2>6 DEF Unsent
    <3>5. AllRight(more, seen, goal)
      BY ONLY <2>2, <2>5, <3>3, <3>4, AllRightOn
    <3>6. sent \in Seq(EventType)
      BY <3>1 DEF AllRight
    <3> QED
      BY <2>2, <2>5, <3>2, <3>5, <3>6
  <2>8. \A i \in 1 .. Len(more) : more[i].id \in J \cup {id}
    BY <1>6, <2>1, <2>4, <2>7
  <2>9. ASSUME NEW x \in J \cup {id}, x \in Hits(b) \/ x \in Hits(d)
        PROVE  \E i \in 1 .. Len(more) : more[i].id = x
    <3>1. CASE x = id
      BY <2>1, <2>7, <3>1
    <3>2. CASE x # id
      <4>1. PICK i \in 1 .. Len(sent) : sent[i].id = x
        BY <1>6, <2>4, <2>9, <3>2
      <4> QED
        BY <2>7, <4>1
    <3> QED
      BY <3>1, <3>2
  <2>10. Told(out, J \cup {id}, b, d)
    BY <1>5, <2>4, <2>7, <2>8, <2>9 DEF Told
  <2> QED
    BY <2>10 DEF out
<1> QED
  BY <1>7, <1>8

(* The documents that the first n changes name.                            *)
Named(seen, n) == {seen[i].id : i \in 1 .. n}

LEMMA NamedOn ==
    ASSUME NEW seen, NEW n \in Nat
    PROVE  Named(seen, n + 1) = Named(seen, n) \cup {seen[n + 1].id}
<1>1. \A i : i \in 1 .. n + 1 <=> i \in 1 .. n \/ i = n + 1
  OBVIOUS
<1> QED
  BY <1>1 DEF Named

LEMMA ChangedTold ==
    ASSUME NEW b, NEW d, HasDocs(d), NEW seen, Len(seen) \in Nat,
           \A i \in 1 .. Len(seen) : seen[i].id \in Id,
           \A i, j \in 1 .. Len(seen) : seen[i].id = seen[j].id => i = j,
           NEW out, out = ChangedAll(IdsOf(Matches(b)), seen, d)
    PROVE  Told(out, Named(seen, Len(seen)), b, d)
<1>0. PICK list : list = IdsOf(Matches(b))
  OBVIOUS
<1>a. out = ChangedAll(list, seen, d) /\ Len(seen) \in Nat
  BY <1>0
<1>b. PICK upTo :
         /\ upTo[0] = Outcome(list, <<>>)
         /\ \A i \in 1 .. Len(seen) : upTo[i] = Changed(upTo[i - 1], seen[i].id, d)
         /\ out = upTo[Len(seen)]
  BY ONLY <1>a, ChangedSteps
<1>1. /\ upTo[0] = Outcome(IdsOf(Matches(b)), <<>>)
      /\ \A i \in 1 .. Len(seen) : upTo[i] = Changed(upTo[i - 1], seen[i].id, d)
      /\ out = upTo[Len(seen)]
  BY <1>0, <1>b
<1> DEFINE Good == {n \in Nat : n <= Len(seen) =>
                      Told(upTo[n], Named(seen, n), b, d)}
<1>2. 0 \in Good
  <2>1. Named(seen, 0) = {}
    BY DEF Named
  <2>2. upTo[0].kept = Hits(b) /\ upTo[0].events = <<>>
    BY <1>1, MatchIds DEF Outcome
  <2>3. AllRight(<<>>, Matches(b), Matches(d))
    BY DEF AllRight
  <2>4. upTo[0].kept = {id \in Id : id \in Hits(b)}
    BY <2>2 DEF Hits
  <2>5. Told(upTo[0], {}, b, d)
    BY <2>2, <2>3, <2>4 DEF Told
  <2> QED
    BY <2>1, <2>5
<1>3. ASSUME NEW n \in Nat, n \in Good PROVE n + 1 \in Good
  <2> SUFFICES ASSUME n + 1 <= Len(seen)
               PROVE  Told(upTo[n + 1], Named(seen, n + 1), b, d)
    OBVIOUS
  <2>1. Told(upTo[n], Named(seen, n), b, d) /\ n + 1 \in 1 .. Len(seen)
    BY <1>3
  <2>2. (n + 1) - 1 = n
    OBVIOUS
  <2>3. upTo[n + 1] = Changed(upTo[n], seen[n + 1].id, d)
    BY <1>1, <2>1, <2>2
  <2>4. seen[n + 1].id \notin Named(seen, n)
    <3> SUFFICES ASSUME NEW i \in 1 .. n, seen[i].id = seen[n + 1].id
                 PROVE  FALSE
      BY DEF Named
    <3>1. i \in 1 .. Len(seen) /\ i # n + 1
      OBVIOUS
    <3> QED
      BY <2>1, <3>1
  <2>5. Named(seen, n + 1) = Named(seen, n) \cup {seen[n + 1].id}
    BY NamedOn
  <2> QED
    BY <2>1, <2>3, <2>4, <2>5, ToldOn
<1>4. Nat \subseteq Good
  <2> HIDE DEF Good
  <2> QED
    BY <1>2, <1>3, NatInd
<1> QED
  BY <1>1, <1>4

(* Told of, what was there leads a reader on; told of all that changed, it *)
(* leads it to what is.                                                    *)
LEMMA ToldLeads ==
    ASSUME NEW b, NEW d, NEW J, NEW out, Told(out, J, b, d)
    PROVE  \E to : Leads("matching", Matches(b), out.events, to)
<1>1. OneEach(Matches(d)) /\ AllRight(out.events, Matches(b), Matches(d))
  BY MatchesSound DEF Told
<1> QED
  BY <1>1, RightLeads

LEMMA ToldLeadsTo ==
    ASSUME NEW b, NEW d, NEW J, NEW out, Told(out, J, b, d), Same(b, d, J)
    PROVE  /\ out.kept = IdsOf(Matches(d))
           /\ Leads("matching", Matches(b), out.events, Matches(d))
<1>1. OneEach(Matches(d)) /\ AllRight(out.events, Matches(b), Matches(d))
  BY MatchesSound DEF Told
<1>2. \A id \in Id \ J : id \in Hits(b) <=> id \in Hits(d)
  BY DEF Same, Hits
<1>3. out.kept = Hits(d)
  <2>1. out.kept = {id \in Id : IF id \in J THEN id \in Hits(d)
                                ELSE id \in Hits(b)}
    BY DEF Told
  <2>2. \A id \in Hits(d) : id \in Id
    BY DEF Hits
  <2> QED
    BY <1>2, <2>1, <2>2
<1>4. ASSUME NEW m \in (Matches(b) \ Matches(d)) \cup (Matches(d) \ Matches(b))
      PROVE  \E i \in 1 .. Len(out.events) : out.events[i].id = m.id
  <2>1. m.id \in J
    BY <1>4, MatchesAfter
  <2>2. m.id \in Hits(b) \/ m.id \in Hits(d)
    BY MatchIds DEF IdsOf
  <2> QED
    BY <2>1, <2>2 DEF Told
<1>5. Leads("matching", Matches(b), out.events, Matches(d))
  BY <1>1, <1>4, RightLeadsTo
<1> QED
  BY <1>3, <1>5, MatchIds

-----------------------------------------------------------------------------
(* An aggregate's events, and those of a set that comes or goes.           *)

(* The image of a finite set, as a function gives it.                      *)
LEMMA ImageFinite ==
    ASSUME NEW S, IsFiniteSet(S), NEW T, NEW f \in [S -> T],
           \A t \in T : \E s \in S : f[s] = t
    PROVE  IsFiniteSet(T)
<1>1. f \in Surjection(S, T)
  BY DEF Surjection
<1> QED
  BY <1>1, FS_Surjection

(* The rows are told apart by their groups.                                *)
LEMMA AllRowsSound ==
    ASSUME NEW d
    PROVE  /\ IsFiniteSet(AllRows(d)) /\ OneEach(AllRows(d))
           /\ \A row \in AllRows(d) : row.id \in Value /\ row.doc \in Nat
                                      /\ Item(row.id, row.doc) = row
<1> DEFINE M == Matches(d)
           Count(v) == Cardinality({m \in M : m.doc = v})
           f == [m \in M |-> Item(m.doc, Count(m.doc))]
<1>1. IsFiniteSet(M) /\ \A m \in M : m.doc \in Value
  BY MatchesSound, LiveAssumption
<1>2. /\ \A row \in AllRows(d) : \E m \in M : row = Item(m.doc, Count(m.doc))
      /\ \A m \in M : Item(m.doc, Count(m.doc)) \in AllRows(d)
  BY DEF AllRows
<1>3. \A m \in M : Count(m.doc) \in Nat
  <2> SUFFICES ASSUME NEW m \in M PROVE Count(m.doc) \in Nat
    OBVIOUS
  <2>1. {o \in M : o.doc = m.doc} \in SUBSET M
    OBVIOUS
  <2>2. IsFiniteSet({o \in M : o.doc = m.doc})
    BY <1>1, <2>1, FS_Subset
  <2> QED
    BY <2>2, FS_CardinalityType
<1> HIDE DEF Count, M
<1>4. IsFiniteSet(AllRows(d))
  <2>1. f \in [M -> AllRows(d)]
    BY <1>2
  <2>2. \A row \in AllRows(d) : \E m \in M : f[m] = row
    BY <1>2
  <2> HIDE DEF f
  <2> QED
    BY <1>1, <2>1, <2>2, ImageFinite
<1>5. \A row \in AllRows(d) : row.id \in Value /\ row.doc \in Nat
                              /\ Item(row.id, row.doc) = row
  <2> SUFFICES ASSUME NEW row \in AllRows(d)
               PROVE  row.id \in Value /\ row.doc \in Nat
                      /\ Item(row.id, row.doc) = row
    OBVIOUS
  <2>1. PICK m \in M : row = Item(m.doc, Count(m.doc))
    BY <1>2
  <2>2. row.id = m.doc /\ row.doc = Count(m.doc)
    BY <2>1 DEF Item
  <2> QED
    BY <1>1, <1>3, <2>1, <2>2
<1>6. ASSUME NEW x \in AllRows(d), NEW y \in AllRows(d), x.id = y.id
      PROVE  x = y
  <2>1. PICK m \in M : x = Item(m.doc, Count(m.doc))
    BY <1>2
  <2>2. PICK o \in M : y = Item(o.doc, Count(o.doc))
    BY <1>2
  <2>3. x.id = m.doc /\ y.id = o.doc
    BY <2>1, <2>2 DEF Item
  <2> QED
    BY <1>6, <2>1, <2>2, <2>3
<1> QED
  BY <1>4, <1>5, <1>6 DEF OneEach

LEMMA RowsSound ==
    ASSUME NEW d
    PROVE  /\ Rows(d) \subseteq AllRows(d)
           /\ IsFiniteSet(Rows(d)) /\ OneEach(Rows(d))
           /\ \A row \in Rows(d) : row.id \in Value /\ row.doc \in Nat
                                   /\ Item(row.id, row.doc) = row
<1>1. Rows(d) \in SUBSET AllRows(d)
  BY DEF Rows
<1>2. IsFiniteSet(Rows(d))
  BY <1>1, AllRowsSound, FS_Subset
<1>3. OneEach(Rows(d))
  BY <1>1, AllRowsSound DEF OneEach
<1> QED
  BY <1>1, <1>2, <1>3, AllRowsSound

(* A set that comes in whole, and one that leaves.                         *)
LEMMA AllEnter ==
    ASSUME NEW kind, kind # "window", NEW S, SetOfDocs(S)
    PROVE  Leads(kind, {}, All("Entered", S), S)
<1>1. PICK sent : sent = All("Entered", S)
  OBVIOUS
<1>a. Tells(sent, "Entered", S)
  BY <1>1, AllSent
<1>2. /\ sent \in Seq(EventType)
      /\ \A i \in 1 .. Len(sent) : \E m \in S :
            sent[i] = Event("Entered", m, NoPlace, NoPlace)
      /\ \A m \in S : \E i \in 1 .. Len(sent) : sent[i].id = m.id
      /\ \A i, j \in 1 .. Len(sent) : sent[i].id = sent[j].id => i = j
  BY <1>a DEF Tells
<1>3. ASSUME NEW i \in 1 .. Len(sent) PROVE Right(sent[i], {}, S)
  <2>1. PICK m \in S : sent[i] = Event("Entered", m, NoPlace, NoPlace)
    BY <1>2
  <2>2. sent[i].kind = "Entered" /\ sent[i].id = m.id /\ sent[i].doc = m.doc
    BY <2>1 DEF Event
  <2>3. Item(sent[i].id, sent[i].doc) \in S
    BY <2>2 DEF SetOfDocs
  <2>4. sent[i].id \notin IdsOf({})
    BY DEF IdsOf
  <2> QED
    BY <2>2, <2>3, <2>4 DEF Right
<1>4. AllRight(sent, {}, S)
  BY <1>2, <1>3 DEF AllRight
<1>5. OneEach(S)
  BY DEF SetOfDocs
<1>6. \A m \in ({} \ S) \cup (S \ {}) : \E i \in 1 .. Len(sent) : sent[i].id = m.id
  BY <1>2
<1>7. Leads(kind, {}, sent, S)
  BY <1>4, <1>5, <1>6, RightLeadsTo
<1> QED
  BY <1>1, <1>7

LEMMA AllLeave ==
    ASSUME NEW kind, kind # "window", NEW S, OneEach(S), NEW gone, gone \subseteq S,
           NEW L, SetOfDocs(L), IdsOf(L) = IdsOf(gone)
    PROVE  Leads(kind, S, All("Left", L), S \ gone)
<1>1. PICK sent : sent = All("Left", L)
  OBVIOUS
<1>a. Tells(sent, "Left", L)
  BY <1>1, AllSent
<1>2. /\ sent \in Seq(EventType)
      /\ \A i \in 1 .. Len(sent) : \E m \in L :
            sent[i] = Event("Left", m, NoPlace, NoPlace)
      /\ \A m \in L : \E i \in 1 .. Len(sent) : sent[i].id = m.id
      /\ \A i, j \in 1 .. Len(sent) : sent[i].id = sent[j].id => i = j
  BY <1>a DEF Tells
<1>3. ASSUME NEW i \in 1 .. Len(sent) PROVE Right(sent[i], S, S \ gone)
  <2>1. PICK m \in L : sent[i] = Event("Left", m, NoPlace, NoPlace)
    BY <1>2
  <2>2. sent[i].kind = "Left" /\ sent[i].id = m.id
    BY <2>1 DEF Event
  <2>3. m.id \in IdsOf(gone)
    BY DEF IdsOf
  <2>4. PICK o \in gone : o.id = m.id
    BY <2>3 DEF IdsOf
  <2>5. m.id \in IdsOf(S)
    BY <2>4 DEF IdsOf
  <2>6. m.id \notin IdsOf(S \ gone)
    BY <2>4 DEF IdsOf, OneEach
  <2> QED
    BY <2>2, <2>5, <2>6 DEF Right
<1>4. AllRight(sent, S, S \ gone)
  BY <1>2, <1>3 DEF AllRight
<1>5. OneEach(S \ gone)
  BY DEF OneEach
<1>6. ASSUME NEW m \in (S \ (S \ gone)) \cup ((S \ gone) \ S)
      PROVE  \E i \in 1 .. Len(sent) : sent[i].id = m.id
  <2>1. m.id \in IdsOf(L)
    BY DEF IdsOf
  <2>2. PICK o \in L : o.id = m.id
    BY <2>1 DEF IdsOf
  <2> QED
    BY <1>2, <2>2
<1>7. Leads(kind, S, sent, S \ gone)
  BY <1>4, <1>5, <1>6, RightLeadsTo
<1> QED
  BY <1>1, <1>7

(* What matches, and rows, are such sets.                                  *)
LEMMA ResultsAreDocs ==
    ASSUME NEW d
    PROVE  SetOfDocs(Matches(d)) /\ SetOfDocs(Rows(d))
<1>1. \A m \in Matches(d) : /\ m.id \in Id /\ m.doc \in Value
                            /\ Item(m.id, m.doc) = m
  <2> SUFFICES ASSUME NEW m \in Matches(d)
               PROVE  m.id \in Id /\ m.doc \in Value /\ Item(m.id, m.doc) = m
    OBVIOUS
  <2>1. m.id \in Id /\ m.doc \in Matching /\ m \in Pairs
    BY MatchesSound
  <2> QED
    BY <2>1, LiveAssumption DEF Item, Pairs
<1>2. SetOfDocs(Matches(d))
  BY <1>1, MatchesSound DEF SetOfDocs
<1>3. SetOfDocs(Rows(d))
  BY RowsSound DEF SetOfDocs
<1> QED
  BY <1>2, <1>3

(* A collection dropped.                                                   *)
LEMMA DropLeads ==
    ASSUME NEW b, NEW out, out = DroppedAll("matching", IdsOf(Matches(b)))
    PROVE  out.kept = {} /\ Leads("matching", Matches(b), out.events, {})
<1>1. PICK L : L = {Item(id, NoDoc) : id \in IdsOf(Matches(b))}
  OBVIOUS
<1>2. out.kept = {} /\ out.events = All("Left", L)
  BY <1>1 DEF DroppedAll, Outcome
<1>3. /\ IsFiniteSet(Matches(b)) /\ OneEach(Matches(b))
      /\ \A m \in Matches(b) : m.id \in Id
  BY MatchesSound
<1>4. \A id \in IdsOf(Matches(b)) : Item(id, NoDoc).id = id
                                    /\ Item(id, NoDoc).doc = NoDoc
  BY DEF Item
<1>5. IdsOf(L) = IdsOf(Matches(b))
  BY <1>1, <1>4 DEF IdsOf
<1>6. SetOfDocs(L)
  <2> DEFINE f == [m \in Matches(b) |-> Item(m.id, NoDoc)]
  <2>1. /\ \A m \in Matches(b) : Item(m.id, NoDoc) \in L
        /\ \A l \in L : \E m \in Matches(b) : l = Item(m.id, NoDoc)
    BY <1>1 DEF IdsOf
  <2>2. f \in [Matches(b) -> L]
    BY <2>1
  <2>3. \A l \in L : \E m \in Matches(b) : f[m] = l
    BY <2>1
  <2> HIDE DEF f
  <2>4. IsFiniteSet(L)
    BY <1>3, <2>2, <2>3, ImageFinite
  <2>5. \A l \in L : l.id \in Id /\ l.doc = NoDoc /\ Item(l.id, l.doc) = l
    BY <1>3, <2>1 DEF Item
  <2>6. OneEach(L)
    BY <2>5 DEF OneEach
  <2> QED
    BY <2>4, <2>5, <2>6 DEF SetOfDocs
<1>7. Leads("matching", Matches(b), All("Left", L), Matches(b) \ Matches(b))
  <2>1. PICK S : S = Matches(b)
    OBVIOUS
  <2>2. OneEach(S) /\ S \subseteq S /\ IdsOf(L) = IdsOf(S)
    BY <1>3, <1>5, <2>1
  <2>3. Leads("matching", S, All("Left", L), S \ S)
    BY <1>6, <2>2, AllLeave
  <2> QED
    BY <2>1, <2>3
<1>8. Matches(b) \ Matches(b) = {}
  OBVIOUS
<1> QED
  BY <1>2, <1>7, <1>8

(* The rows again: those that left, then those that came in or changed.    *)
LEMMA RerunLeads ==
    ASSUME NEW b, NEW d, NEW out, out = Rerun(Rows(b), d)
    PROVE  out.kept = Rows(d) /\ Leads("rows", Rows(b), out.events, Rows(d))
<1> DEFINE left == {was \in Rows(b) : \A row \in Rows(d) : row.id # was.id}
           Still(was) == {row \in AllRows(d) : row.id = was.id}
           DocOf(was) == IF Still(was) = {} THEN NoDoc
                         ELSE (CHOOSE row \in Still(was) : TRUE).doc
           shown == {Item(was.id, DocOf(was)) : was \in left}
           come == {row \in Rows(d) : \A was \in Rows(b) : was.id # row.id}
           moved == {row \in Rows(d) \ Rows(b) : \E was \in Rows(b) : was.id = row.id}
           more == come \cup moved
           new == Sorted(more, ById)
           sent == [i \in DOMAIN new |->
                      Event(IF new[i] \in come THEN "Entered" ELSE "Changed",
                            new[i], NoPlace, NoPlace)]
           stay == Rows(b) \ left
<1>1. out.kept = Rows(d) /\ out.events = All("Left", shown) \o sent
  BY DEF Rerun, Outcome
<1>2. /\ IsFiniteSet(Rows(b)) /\ OneEach(Rows(b))
      /\ IsFiniteSet(Rows(d)) /\ OneEach(Rows(d))
      /\ \A row \in Rows(b) : row.id \in Value /\ row.doc \in Nat
      /\ \A row \in Rows(d) : row.id \in Value /\ row.doc \in Nat
                              /\ Item(row.id, row.doc) = row
  BY RowsSound
<1>3. \A was \in left : DocOf(was) \in Nat \cup {NoDoc}
  <2> SUFFICES ASSUME NEW was \in left, Still(was) # {}
               PROVE  (CHOOSE row \in Still(was) : TRUE).doc \in Nat
    OBVIOUS
  <2>1. (CHOOSE row \in Still(was) : TRUE) \in Still(was)
    OBVIOUS
  <2> QED
    BY <2>1, AllRowsSound
<1> HIDE DEF DocOf
<1>4. SetOfDocs(shown) /\ IdsOf(shown) = IdsOf(left)
  <2>1. \A was \in left : /\ Item(was.id, DocOf(was)).id = was.id
                          /\ Item(was.id, DocOf(was)).doc = DocOf(was)
    BY DEF Item
  <2>2. IdsOf(shown) = IdsOf(left)
    BY <2>1 DEF IdsOf
  <2> DEFINE f == [was \in left |-> Item(was.id, DocOf(was))]
  <2>3. f \in [left -> shown] /\ \A l \in shown : \E was \in left : f[was] = l
    OBVIOUS
  <2>4. left \in SUBSET Rows(b)
    OBVIOUS
  <2>5. IsFiniteSet(left)
    BY <1>2, <2>4, FS_Subset
  <2>6. IsFiniteSet(shown)
    <3> HIDE DEF f, left, shown
    <3> QED
      BY <2>3, <2>5, ImageFinite
  <2>7. \A l \in shown : \E was \in left : l = Item(was.id, DocOf(was))
    OBVIOUS
  <2>8. OneEach(shown)
    <3> SUFFICES ASSUME NEW x \in shown, NEW y \in shown, x.id = y.id
                 PROVE  x = y
      BY DEF OneEach
    <3>1. PICK was \in left : x = Item(was.id, DocOf(was))
      BY <2>7
    <3>2. PICK other \in left : y = Item(other.id, DocOf(other))
      BY <2>7
    <3>3. was.id = other.id
      BY <2>1, <3>1, <3>2
    <3>4. was = other
      BY <1>2, <2>4, <3>3 DEF OneEach
    <3> QED
      BY <3>1, <3>2, <3>4
  <2>9. ASSUME NEW l \in shown
        PROVE  l.id \in Value /\ l.doc \in Nat \cup {NoDoc} /\ Item(l.id, l.doc) = l
    <3>1. PICK was \in left : l = Item(was.id, DocOf(was))
      BY <2>7
    <3>2. l.id = was.id /\ l.doc = DocOf(was) /\ was \in Rows(b)
      BY <2>1, <3>1
    <3> QED
      BY <1>2, <1>3, <3>1, <3>2
  <2> QED
    BY <2>2, <2>6, <2>8, <2>9 DEF SetOfDocs
<1>5. Leads("rows", Rows(b), All("Left", shown), stay)
  <2>1. left \subseteq Rows(b)
    OBVIOUS
  <2> HIDE DEF left, shown
  <2> QED
    BY <1>2, <1>4, <2>1, AllLeave
<1>6. /\ more \in SUBSET Rows(d)
      /\ \A row \in more : row \notin come => row \in moved
  OBVIOUS
<1>7. IsFiniteSet(more) /\ OneEach(more) /\ \A m \in more : m.id \in Nat
  <2>1. IsFiniteSet(more)
    <3> HIDE DEF more
    <3> QED
      BY <1>2, <1>6, FS_Subset
  <2>2. \A m \in more : m \in Rows(d)
    BY <1>6
  <2> HIDE DEF more
  <2> QED
    BY <1>2, <2>1, <2>2, LiveAssumption DEF OneEach
<1>8. InOrder(new, more, IdRel(more))
  <2> HIDE DEF more
  <2> QED
    BY <1>7, SortedById
<1>9. /\ new \in Seq(more) /\ Len(new) \in Nat
      /\ \A i \in 1 .. Len(new) : new[i] \in more
      /\ \A m \in more : \E i \in 1 .. Len(new) : new[i] = m
  <2> HIDE DEF more, new
  <2> QED
    BY <1>8, Ordered
<1>10. \A i, j \in 1 .. Len(new) : i < j => new[i].id < new[j].id
  <2> HIDE DEF more, new
  <2>1. \A i, j \in 1 .. Len(new) : i < j => <<new[i], new[j]>> \in IdRel(more)
    BY <1>8, Ordered
  <2> QED
    BY <2>1 DEF IdRel, ById
<1> HIDE DEF new
<1>11. /\ sent = [i \in 1 .. Len(new) |->
                   Event(IF new[i] \in come THEN "Entered" ELSE "Changed",
                         new[i], NoPlace, NoPlace)]
       /\ DOMAIN new = 1 .. Len(new)
  BY <1>9
<1>12. \A i \in 1 .. Len(new) :
          /\ sent[i].kind = IF new[i] \in come THEN "Entered" ELSE "Changed"
          /\ sent[i].id = new[i].id /\ sent[i].doc = new[i].doc
          /\ sent[i] \in EventType
  <2> SUFFICES ASSUME NEW i \in 1 .. Len(new)
               PROVE  /\ sent[i].kind = IF new[i] \in come THEN "Entered"
                                        ELSE "Changed"
                      /\ sent[i].id = new[i].id /\ sent[i].doc = new[i].doc
                      /\ sent[i] \in EventType
    OBVIOUS
  <2>1. new[i].id \in Value /\ new[i].doc \in Nat
    BY <1>2, <1>6, <1>9
  <2>2. PICK ev \in {"Entered", "Changed"} :
           ev = IF new[i] \in come THEN "Entered" ELSE "Changed"
    OBVIOUS
  <2>3. sent[i] = Event(ev, new[i], NoPlace, NoPlace)
    BY <1>11, <2>2
  <2> HIDE DEF sent, come
  <2> QED
    BY <2>1, <2>2, <2>3 DEF Event, EventType, NoPlace
<1>13. sent \in Seq(EventType) /\ Len(sent) = Len(new)
  <2>1. \A i \in 1 .. Len(new) : sent[i] \in EventType
    BY <1>12
  <2> DEFINE At1(i) == Event(IF new[i] \in come THEN "Entered" ELSE "Changed",
                            new[i], NoPlace, NoPlace)
  <2>2. sent = [i \in 1 .. Len(new) |-> At1(i)]
    BY <1>11
  <2> HIDE DEF sent, come, At1
  <2> QED
    BY <1>9, <2>1, <2>2
<1> HIDE DEF sent
<1>14. ASSUME NEW i \in 1 .. Len(sent) PROVE Right(sent[i], stay, Rows(d))
  <2>1. new[i] \in more /\ new[i] \in Rows(d)
    BY <1>6, <1>9, <1>13
  <2>2. Item(sent[i].id, sent[i].doc) \in Rows(d)
    BY <1>2, <1>12, <1>13, <2>1
  <2>3. CASE new[i] \in come
    <3>1. sent[i].id \notin IdsOf(stay)
      BY <1>12, <1>13, <2>3 DEF IdsOf
    <3> QED
      BY <1>12, <1>13, <2>2, <2>3, <3>1 DEF Right
  <2>4. CASE new[i] \notin come
    <3>1. new[i] \in moved
      BY <1>6, <2>1, <2>4
    <3>2. PICK was \in Rows(b) : was.id = new[i].id
      BY <3>1
    <3>3. was \in stay
      BY <2>1, <3>2
    <3>4. sent[i].id \in IdsOf(stay)
      BY <1>12, <1>13, <3>2, <3>3 DEF IdsOf
    <3> QED
      BY <1>12, <1>13, <2>2, <2>4, <3>4 DEF Right
  <2> QED
    BY <2>3, <2>4
<1>15. ASSUME NEW i \in 1 .. Len(sent), NEW j \in 1 .. Len(sent),
              sent[i].id = sent[j].id
       PROVE  i = j
  <2>1. new[i].id = new[j].id /\ new[i].id \in Nat
    BY <1>7, <1>9, <1>12, <1>13, <1>15
  <2>2. ~(i < j) /\ ~(j < i)
    BY <1>10, <1>13, <2>1
  <2> QED
    BY <1>9, <1>13, <2>2
<1>16. AllRight(sent, stay, Rows(d))
  BY <1>13, <1>14, <1>15 DEF AllRight
<1>17. ASSUME NEW m \in (stay \ Rows(d)) \cup (Rows(d) \ stay)
       PROVE  \E i \in 1 .. Len(sent) : sent[i].id = m.id
  <2>1. \E row \in more : row.id = m.id
    <3>1. CASE m \in stay \ Rows(d)
      <4>1. PICK row \in Rows(d) : row.id = m.id
        BY <3>1
      <4>2. row \notin Rows(b)
        BY <1>2, <3>1, <4>1 DEF OneEach
      <4>3. row \in moved
        BY <3>1, <4>1, <4>2
      <4> QED
        BY <4>1, <4>3
    <3>2. CASE m \in Rows(d) \ stay
      <4>1. m \notin Rows(b)
        BY <3>2
      <4>2. m \in come \/ m \in moved
        BY <3>2, <4>1
      <4> QED
        BY <4>2
    <3> QED
      BY <1>17, <3>1, <3>2
  <2>2. PICK row \in more : row.id = m.id
    BY <2>1
  <2> QED
    BY <1>9, <1>12, <1>13, <2>2
<1>18. Leads("rows", stay, sent, Rows(d))
  <2> HIDE DEF stay
  <2> QED
    BY <1>2, <1>16, <1>17, RightLeadsTo
<1> HIDE DEF stay, shown
<1> QED
  BY <1>1, <1>5, <1>18, LeadsThrough

-----------------------------------------------------------------------------
(* A window's events.                                                      *)

(* A list of documents in order, each once.                                *)
DocItems == [id : Id, doc : Value]
ListOf(s, S) == S \subseteq DocItems /\ OneEach(S) /\ InOrder(s, S, LessRel)

LEMMA DocItem ==
    ASSUME NEW m \in DocItems
    PROVE  m \in Pairs /\ m.id \in Id /\ m.doc \in Value /\ Item(m.id, m.doc) = m
BY LiveAssumption DEF DocItems, Pairs, Item

LEMMA Listed ==
    ASSUME NEW s, NEW S, ListOf(s, S)
    PROVE  /\ s \in Seq(S) /\ Len(s) \in Nat /\ DOMAIN s = 1 .. Len(s)
           /\ S \subseteq Pairs /\ S \subseteq DocItems /\ OneEach(S)
           /\ IsFiniteSet(S) /\ Cardinality(S) = Len(s) /\ Range(s) = S
           /\ \A i \in 1 .. Len(s) : s[i] \in S
           /\ \A m \in S : \E i \in 1 .. Len(s) : s[i] = m
           /\ \A i, j \in 1 .. Len(s) : s[i].id = s[j].id => i = j
           /\ Ids(s) = IdsOf(S)
<1>1. S \subseteq DocItems /\ OneEach(S) /\ InOrder(s, S, LessRel)
  BY DEF ListOf
<1>2. S \subseteq Pairs
  BY <1>1, DocItem
<1>3a. s \in Seq(S) /\ Len(s) \in Nat /\ \A i \in 1 .. Len(s) : s[i] \in S
  BY <1>1, Ordered
<1>3b. \A m \in S : \E i \in 1 .. Len(s) : s[i] = m
  BY <1>1 DEF InOrder
<1>3. /\ s \in Seq(S) /\ Len(s) \in Nat
      /\ \A i \in 1 .. Len(s) : s[i] \in S
      /\ \A m \in S : \E i \in 1 .. Len(s) : s[i] = m
  BY <1>3a, <1>3b
<1>4. \A i, j \in 1 .. Len(s) : i < j => <<s[i], s[j]>> \in LessRel
  BY <1>1, Ordered
<1>5. DOMAIN s = 1 .. Len(s) /\ Range(s) = S
  BY <1>1, OrderedRange
<1>6. IsFiniteSet(S) /\ Cardinality(S) = Len(s)
  BY <1>1, <1>2, OrderedLength
<1>7. ASSUME NEW i \in 1 .. Len(s), NEW j \in 1 .. Len(s), s[i].id = s[j].id
      PROVE  i = j
  <2>1. s[i] = s[j] /\ s[i] \in S /\ s[i] \in Pairs
    BY <1>1, <1>2, <1>3, <1>7 DEF OneEach
  <2>2. <<s[i], s[i]>> \notin LessRel
    BY <1>2, <2>1, LessOrders DEF Orders
  <2>3. ~(i < j) /\ ~(j < i)
    BY <1>4, <2>1, <2>2
  <2> QED
    BY <1>3, <2>3
<1>8. Ids(s) = IdsOf(S)
  BY <1>3, <1>5 DEF Ids, IdsOf
<1> QED
  BY <1>1, <1>2, <1>3, <1>5, <1>6, <1>7, <1>8

(* A query's result is such a list, no longer than its limit.              *)
LEMMA FindListed ==
    ASSUME NEW d
    PROVE  \E K : /\ ListOf(Find(d), K) /\ Firsts(K, Matches(d))
                  /\ K \subseteq Matches(d) /\ Len(Find(d)) <= Limit
<1>1. PICK S : S = Matches(d)
  OBVIOUS
<1>2. S \subseteq Pairs /\ IsFiniteSet(S) /\ OneEach(S)
  BY <1>1, MatchesSound
<1>3. PICK t : t = Find(d)
  OBVIOUS
<1>4. t = FirstOf(Sorted(S, Less))
  BY <1>1, <1>3 DEF Find
<1>5. PICK K : Firsts(K, S) /\ InOrder(t, K, LessRel)
  BY <1>2, <1>4, FirstsFound
<1>6. K \subseteq S
  BY <1>5 DEF Firsts
<1>7. S \subseteq DocItems
  <2> SUFFICES ASSUME NEW m \in S PROVE m \in DocItems
    OBVIOUS
  <2>1. m.id \in Id /\ m.doc \in Value /\ m \in Pairs
    BY <1>1, MatchesSound, LiveAssumption
  <2> QED
    BY <2>1 DEF Pairs, DocItems
<1>8. ListOf(t, K)
  BY <1>2, <1>5, <1>6, <1>7 DEF ListOf, OneEach
<1>9. Len(t) = Cardinality(K) /\ Len(t) \in Nat
  BY <1>8, Listed
<1>10. Len(t) <= Limit
  BY <1>5, <1>9, LiveAssumption DEF Firsts
<1> QED
  BY <1>1, <1>3, <1>5, <1>6, <1>8, <1>10

(* The list comes in, one by one.                                          *)
LEMMA WindowEnters ==
    ASSUME NEW f, NEW K, ListOf(f, K), Len(f) <= Limit, NEW sent,
           sent = [i \in DOMAIN f |-> Event("Entered", f[i], NoPlace, i - 1)]
    PROVE  Leads("window", <<>>, sent, f)
<1>1. /\ f \in Seq(K) /\ Len(f) \in Nat /\ DOMAIN f = 1 .. Len(f)
      /\ K \subseteq DocItems
      /\ \A i \in 1 .. Len(f) : f[i] \in K
      /\ \A i, j \in 1 .. Len(f) : f[i].id = f[j].id => i = j
  BY Listed
<1>2. PICK n \in Nat : n = Len(f)
  BY <1>1
<1>3. \A i \in 1 .. n : f[i] \in K /\ f[i] \in DocItems
  BY <1>1, <1>2
<1>4. sent = [i \in 1 .. n |-> Event("Entered", f[i], NoPlace, i - 1)]
  BY <1>1, <1>2
<1>5. \A i \in 1 .. n : Event("Entered", f[i], NoPlace, i - 1) \in EventType
  BY <1>3, DocItem DEF Event, EventType, NoPlace
<1>6. sent \in Seq(EventType) /\ Len(sent) = n
  BY <1>4, <1>5
<1>7. \A i \in 1 .. n : /\ sent[i].kind = "Entered" /\ sent[i].id = f[i].id
                        /\ sent[i].doc = f[i].doc /\ sent[i].at = i - 1
  BY <1>4 DEF Event
<1> DEFINE h == [i \in 0 .. n |-> SubSeq(f, 1, i)]
<1>8. h = [i \in 0 .. n |-> h[i]]
  OBVIOUS
<1>9. \A i \in 0 .. n : h[i] = SubSeq(f, 1, i)
  OBVIOUS
<1> HIDE DEF h
<1>10. h[0] = <<>> /\ h[n] = f
  BY <1>1, <1>2, <1>9
<1>11. ASSUME NEW i \in 1 .. n
       PROVE  /\ Fits("window", h[i - 1], sent[i])
              /\ h[i] = Apply("window", h[i - 1], sent[i])
  <2>1. PICK s, t : s = h[i - 1] /\ t = h[i]
    OBVIOUS
  <2>2. s = SubSeq(f, 1, i - 1) /\ t = SubSeq(f, 1, i)
    BY <1>9, <2>1
  <2>3. s \in Seq(K) /\ Len(s) = i - 1 /\ \A j \in 1 .. i - 1 : s[j] = f[j]
    BY <1>1, <1>2, <2>2
  <2>4. t \in Seq(K) /\ Len(t) = i /\ \A j \in 1 .. i : t[j] = f[j]
    BY <1>1, <1>2, <2>2
  <2>5. PICK u : u = InsertAt(s, i, f[i])
    OBVIOUS
  <2>6. i \in 1 .. Len(s) + 1 /\ f[i] \in K
    BY <1>3, <2>3
  <2>7. /\ u \in Seq(K) /\ Len(u) = Len(s) + 1 /\ u[i] = f[i]
        /\ \A j \in 1 .. i - 1 : u[j] = s[j]
    <3>1. PICK e : e = f[i]
      OBVIOUS
    <3>2. s \in Seq(K) /\ i \in 1 .. Len(s) + 1 /\ e \in K /\ u = InsertAt(s, i, e)
      BY <2>3, <2>5, <2>6, <3>1
    <3>3. u \in Seq(K) /\ Len(u) = Len(s) + 1 /\ u[i] = e
      BY ONLY <3>2, InsertedAt
    <3>4. \A j \in 1 .. i - 1 : u[j] = s[j]
      BY ONLY <3>2, InsertedAt
    <3> QED
      BY <3>1, <3>3, <3>4
  <2>8. t = u
    <3>1. Len(t) = Len(u)
      BY <2>3, <2>4, <2>7
    <3>2. \A j \in 1 .. i : t[j] = u[j]
      BY <2>3, <2>4, <2>7
    <3> QED
      BY <2>4, <2>7, <3>1, <3>2
  <2>9. Item(sent[i].id, sent[i].doc) = f[i]
    BY <1>3, <1>7, DocItem
  <2>10. Apply("window", s, sent[i])
           = InsertAt(s, sent[i].at + 1, Item(sent[i].id, sent[i].doc))
    BY <1>7 DEF Apply
  <2>11. sent[i].at + 1 = i
    <3>1. sent[i].at = i - 1
      BY <1>7
    <3>2. (i - 1) + 1 = i
      OBVIOUS
    <3> QED
      BY <3>1, <3>2
  <2>12. Apply("window", s, sent[i]) = t
    BY <2>5, <2>8, <2>9, <2>10, <2>11
  <2>13. sent[i].id \notin Ids(s)
    <3> SUFFICES ASSUME sent[i].id \in Ids(s) PROVE FALSE
      OBVIOUS
    <3>1. PICK j \in DOMAIN s : s[j].id = sent[i].id
      BY DEF Ids
    <3>2. j \in 1 .. i - 1
      BY <2>3
    <3>3. f[j].id = f[i].id
      BY <1>7, <2>3, <3>1, <3>2
    <3> QED
      BY <1>1, <1>2, <3>2, <3>3
  <2>14. sent[i].at <= Len(s) /\ Len(s) < Limit
    <3>1. sent[i].at = i - 1 /\ Len(s) = i - 1
      BY <1>7, <2>3
    <3>2. n <= Limit /\ Limit \in Nat
      BY <1>2, LiveAssumption
    <3>3. i - 1 <= i - 1 /\ i - 1 < Limit
      BY <3>2
    <3> QED
      BY <3>1, <3>3
  <2>15. Fits("window", s, sent[i])
    BY <1>7, <2>13, <2>14 DEF Fits
  <2> QED
    BY <2>1, <2>12, <2>15
<1>12. Trace(h, "window", <<>>, sent)
  BY <1>6, <1>8, <1>10, <1>11 DEF Trace
<1>13. \A i \in 1 .. Len(sent) : sent[i].kind # "Err"
  BY <1>6, <1>7
<1> QED
  BY <1>6, <1>10, <1>12, <1>13 DEF Leads

(* The list of a collection dropped goes from its start.                   *)
LEMMA WindowDrops ==
    ASSUME NEW f, NEW K, ListOf(f, K), NEW out, out = DroppedAll("window", f)
    PROVE  out.kept = <<>> /\ Leads("window", f, out.events, <<>>)
<1>1. /\ f \in Seq(K) /\ Len(f) \in Nat /\ DOMAIN f = 1 .. Len(f)
      /\ K \subseteq DocItems
      /\ \A i \in 1 .. Len(f) : f[i] \in K
  BY Listed
<1>2. PICK n \in Nat : n = Len(f)
  BY <1>1
<1>3. PICK sent : sent = out.events
  OBVIOUS
<1>4. sent = [i \in 1 .. n |-> Event("Left", Item(f[i].id, NoDoc), 0, NoPlace)]
  BY <1>1, <1>2, <1>3 DEF DroppedAll, Outcome
<1>5. \A i \in 1 .. n : f[i].id \in Id
  BY <1>1, <1>2, DocItem
<1>6. \A i \in 1 .. n :
         Event("Left", Item(f[i].id, NoDoc), 0, NoPlace) \in EventType
  BY <1>5 DEF Event, Item, EventType, NoPlace
<1>7. sent \in Seq(EventType) /\ Len(sent) = n
  BY <1>4, <1>6
<1>8. \A i \in 1 .. n : /\ sent[i].kind = "Left" /\ sent[i].id = f[i].id
                        /\ sent[i].from = 0
  BY <1>4 DEF Event, Item
<1> DEFINE h == [i \in 0 .. n |-> SubSeq(f, i + 1, n)]
<1>9. h = [i \in 0 .. n |-> h[i]]
  OBVIOUS
<1>10. \A i \in 0 .. n : h[i] = SubSeq(f, i + 1, n)
  OBVIOUS
<1> HIDE DEF h
<1>11. h[0] = f /\ h[n] = <<>>
  <2>1. h[0] = SubSeq(f, 1, n) /\ h[n] = SubSeq(f, n + 1, n)
    BY <1>10
  <2> QED
    BY <1>1, <1>2, <2>1
<1>12. ASSUME NEW i \in 1 .. n
       PROVE  /\ Fits("window", h[i - 1], sent[i])
              /\ h[i] = Apply("window", h[i - 1], sent[i])
  <2>1. PICK s, t : s = h[i - 1] /\ t = h[i]
    OBVIOUS
  <2>2. s = SubSeq(f, i, n) /\ t = SubSeq(f, i + 1, n)
    <3>1. (i - 1) + 1 = i /\ i - 1 \in 0 .. n /\ i \in 0 .. n
      OBVIOUS
    <3> QED
      BY <1>10, <2>1, <3>1
  <2>3. /\ s \in Seq(K) /\ Len(s) = n - i + 1
        /\ \A j \in 1 .. n - i + 1 : s[j] = f[i + j - 1]
    BY <1>1, <1>2, <2>2
  <2>4. /\ t \in Seq(K) /\ Len(t) = n - i
        /\ \A j \in 1 .. n - i : t[j] = f[i + j]
    <3>1. t \in Seq(K) /\ Len(t) = n - i
      <4>1. CASE i = n
        BY <1>1, <1>2, <2>2, <4>1
      <4>2. CASE i < n
        <5>1. i + 1 \in 1 .. Len(f) /\ n \in 1 .. Len(f) /\ i + 1 <= n
          BY <1>2, <4>2
        <5>2. Len(t) = n - (i + 1) + 1 /\ \A j \in 1 .. n - (i + 1) + 1 : t[j] \in K
          BY <1>1, <2>2, <5>1
        <5>3. t \in Seq(K)
          BY <1>1, <2>2, <5>1
        <5> QED
          BY <5>2, <5>3
      <4> QED
        BY <4>1, <4>2
    <3>2. ASSUME NEW j \in 1 .. n - i PROVE t[j] = f[i + j]
      <4>1. t[j] = f[i + 1 + j - 1]
        BY <1>1, <1>2, <2>2
      <4>2. i + 1 + j - 1 = i + j
        OBVIOUS
      <4> QED
        BY <4>1, <4>2
    <3> QED
      BY <3>1, <3>2
  <2>5. PICK u : u = RemoveAt(s, 1)
    OBVIOUS
  <2>6. 1 \in 1 .. Len(s)
    BY <2>3
  <2>7. /\ u \in Seq(K) /\ Len(u) = Len(s) - 1
        /\ \A j \in 1 .. 1 - 1 : u[j] = s[j]
        /\ \A j \in 1 .. Len(s) - 1 : u[j] = s[j + 1]
    <3>1. s \in Seq(K) /\ 1 \in 1 .. Len(s)
      BY <2>3, <2>6
    <3> QED
      BY ONLY <2>5, <3>1, RemovedAt
  <2>8. t = u
    <3>1. Len(t) = Len(u) /\ Len(t) = n - i
      BY <2>3, <2>4, <2>7
    <3>2. ASSUME NEW j \in 1 .. n - i PROVE t[j] = u[j]
      <4>1. /\ j \in 1 .. Len(s) - 1 /\ j + 1 \in 1 .. n - i + 1
            /\ i + (j + 1) - 1 = i + j
        BY <2>3
      <4>2. u[j] = s[j + 1] /\ s[j + 1] = f[i + j]
        BY <2>3, <2>7, <4>1
      <4> QED
        BY <2>4, <4>2
    <3> QED
      BY <2>4, <2>7, <3>1, <3>2
  <2>9. Apply("window", s, sent[i]) = RemoveAt(s, sent[i].from + 1)
    BY <1>8 DEF Apply
  <2>10. sent[i].from + 1 = 1
    BY <1>8
  <2>11. s[1].id = sent[i].id
    <3>1. s[1] = f[i + 1 - 1] /\ i + 1 - 1 = i
      BY <2>3
    <3> QED
      BY <1>8, <3>1
  <2>12. sent[i].id \in Ids(s)
    BY <2>3, <2>6, <2>11 DEF Ids
  <2>13. sent[i].from < Len(s)
    BY <1>8, <2>3
  <2>14. Fits("window", s, sent[i])
    BY <1>8, <2>10, <2>11, <2>12, <2>13 DEF Fits
  <2> QED
    BY <2>1, <2>5, <2>8, <2>9, <2>10, <2>14
<1>13. Trace(h, "window", f, sent)
  BY <1>7, <1>9, <1>11, <1>12 DEF Trace
<1>14. \A i \in 1 .. Len(sent) : sent[i].kind # "Err"
  BY <1>7, <1>8
<1>15. out.kept = <<>>
  BY DEF DroppedAll, Outcome
<1> QED
  BY <1>3, <1>7, <1>11, <1>13, <1>14, <1>15 DEF Leads

-----------------------------------------------------------------------------
(* Those that leave a window.                                              *)

Under(S, g) == {m \in S : Less(m, g)}

(* As many come before a document as its place says.                       *)
LEMMA RankIsPlace ==
    ASSUME NEW S, S \subseteq Pairs, NEW s, InOrder(s, S, LessRel),
           NEW p \in 1 .. Len(s)
    PROVE  Cardinality(Under(S, s[p])) = p - 1
<1>1. s \in Seq(S) /\ Len(s) \in Nat /\ \A i \in 1 .. Len(s) : s[i] \in S
  BY Ordered
<1>2. \A i, j \in 1 .. Len(s) : i < j => <<s[i], s[j]>> \in LessRel
  BY Ordered
<1>3. PICK g, U : g = s[p] /\ U = Under(S, g)
  OBVIOUS
<1>4. g \in S /\ g \in Pairs /\ U \subseteq S /\ U \subseteq Pairs
  BY <1>1, <1>3 DEF Under
<1>5. PICK t : t = SubSeq(s, 1, p - 1)
  OBVIOUS
<1>6. p - 1 \in 0 .. Len(s) /\ p \in Nat
  BY <1>1
<1>7. t \in Seq(S) /\ Len(t) = p - 1 /\ \A i \in 1 .. p - 1 : t[i] = s[i]
  BY <1>1, <1>5, <1>6
<1>8. ASSUME NEW i \in 1 .. p - 1 PROVE t[i] \in U
  <2>1. i \in 1 .. Len(s) /\ i < p
    BY <1>1
  <2>2. <<s[i], g>> \in LessRel /\ s[i] \in S
    BY <1>1, <1>2, <1>3, <2>1
  <2>3. Less(s[i], g)
    BY <1>4, <2>2, InLess
  <2> QED
    BY <1>3, <1>7, <2>2, <2>3 DEF Under
<1>9. t \in Seq(U)
  BY <1>6, <1>7, <1>8
<1>10. ASSUME NEW m \in U PROVE \E i \in 1 .. Len(t) : t[i] = m
  <2>1. m \in S /\ Less(m, g) /\ m \in Pairs
    BY <1>3, <1>4 DEF Under
  <2>2. PICK i \in 1 .. Len(s) : s[i] = m
    BY <2>1 DEF InOrder
  <2>3. i # p
    BY <1>3, <1>4, <2>1, <2>2, LessTotal
  <2>4. ~(p < i)
    <3> SUFFICES ASSUME p < i PROVE FALSE
      OBVIOUS
    <3>1. <<g, m>> \in LessRel
      BY <1>2, <1>3, <2>2
    <3>2. Less(g, m)
      BY <1>4, <2>1, <3>1, InLess
    <3> QED
      BY <1>4, <2>1, <3>2, LessTotal
  <2>5. i \in 1 .. p - 1
    BY <1>1, <2>3, <2>4
  <2> QED
    BY <1>7, <2>2, <2>5
<1>11. ASSUME NEW i \in 1 .. Len(t), NEW j \in 1 .. Len(t), i < j
       PROVE  <<t[i], t[j]>> \in LessRel
  <2>1. i \in 1 .. p - 1 /\ j \in 1 .. p - 1 /\ i \in 1 .. Len(s) /\ j \in 1 .. Len(s)
    BY <1>6, <1>7
  <2> QED
    BY <1>2, <1>7, <1>11, <2>1
<1>12. InOrder(t, U, LessRel)
  BY <1>9, <1>10, <1>11 DEF InOrder
<1>13. Cardinality(U) = Len(t)
  BY <1>4, <1>12, OrderedLength
<1> QED
  BY <1>3, <1>7, <1>13

(* An event for one that leaves fits the list, and takes it out.           *)
LEMMA LeftFits ==
    ASSUME NEW s, NEW S, ListOf(s, S), NEW g \in S, NEW e,
           e.kind = "Left", e.id = g.id, e.from = Cardinality(Under(S, g))
    PROVE  /\ Fits("window", s, e)
           /\ ListOf(Apply("window", s, e), S \ {g})
<1>1. /\ Len(s) \in Nat /\ S \subseteq Pairs /\ S \subseteq DocItems
      /\ OneEach(S) /\ Ids(s) = IdsOf(S)
  BY Listed
<1>2. InOrder(s, S, LessRel)
  BY DEF ListOf
<1>3. PICK p \in 1 .. Len(s) : s[p] = g
  BY <1>2 DEF InOrder
<1>4. e.from = p - 1
  BY <1>1, <1>2, <1>3, RankIsPlace
<1>5. p - 1 + 1 = p /\ p - 1 < Len(s)
  BY <1>1
<1>6. e.from + 1 = p /\ e.from < Len(s)
  BY <1>4, <1>5
<1>7. e.id \in Ids(s)
  BY <1>1 DEF IdsOf
<1>8. Fits("window", s, e)
  BY <1>3, <1>6, <1>7 DEF Fits
<1>9. PICK t : t = Apply("window", s, e)
  OBVIOUS
<1>10. t = RemoveAt(s, p)
  BY <1>6, <1>9 DEF Apply
<1>11. InOrder(t, S \ {g}, LessRel)
  BY <1>1, <1>2, <1>3, <1>10, RemoveInOrder
<1>12. ListOf(t, S \ {g})
  BY <1>1, <1>11 DEF ListOf, OneEach
<1> QED
  BY <1>8, <1>9, <1>12

(* A list's documents in order make one list.                              *)
LEMMA OneList ==
    ASSUME NEW S, NEW s, ListOf(s, S), NEW t, ListOf(t, S)
    PROVE  s = t
<1>1. S \subseteq Pairs
  BY Listed
<1> QED
  BY <1>1, LessOrders, OneInOrder DEF ListOf

LEMMA SortedList ==
    ASSUME NEW S, S \subseteq DocItems, OneEach(S), IsFiniteSet(S)
    PROVE  ListOf(Sorted(S, Less), S)
<1>1. S \subseteq Pairs
  BY DocItem
<1> QED
  BY <1>1, SortedLess DEF ListOf

LEMMA SubList ==
    ASSUME NEW S, NEW s, ListOf(s, S), NEW K, K \subseteq S
    PROVE  ListOf(Sorted(K, Less), K)
<1>1. S \subseteq DocItems /\ OneEach(S) /\ IsFiniteSet(S)
  BY Listed
<1>2. K \subseteq DocItems /\ OneEach(K) /\ IsFiniteSet(K)
  BY <1>1, FS_Subset DEF OneEach
<1> QED
  BY <1>2, SortedList

(* `retain` leaves a list, and what it takes out is one.                   *)
LEMMA OnlyList ==
    ASSUME NEW S, NEW s, ListOf(s, S), NEW ids
    PROVE  /\ ListOf(Staying(s, ids), {m \in S : m.id \in ids})
           /\ ListOf(Leaving(s, ids), {m \in S : m.id \notin ids})
<1>1. /\ s \in Seq(S) /\ Len(s) \in Nat /\ DOMAIN s = 1 .. Len(s)
      /\ S \subseteq Pairs /\ S \subseteq DocItems /\ OneEach(S)
  BY Listed
<1>2. \A m \in S : \E i \in 1 .. Len(s) : s[i] = m
  BY DEF ListOf, InOrder
<1>3. InOrder(s, S, LessRel)
  BY DEF ListOf
<1>4. ASSUME NEW at, NEW K, K \subseteq S,
             K = {m \in S : \E i \in 1 .. Len(s) : i \in at /\ s[i] = m}
      PROVE  ListOf(Only(s, at), K)
  <2>1. PICK t : t = Only(s, at)
    OBVIOUS
  <2>2. InOrder(t, K, LessRel)
    BY <1>1, <1>3, <1>4, <2>1, OnlyInOrder
  <2> QED
    BY <1>1, <1>4, <2>1, <2>2 DEF ListOf, OneEach
<1> DEFINE in == {i \in DOMAIN s : s[i].id \in ids}
           out == {i \in DOMAIN s : s[i].id \notin ids}
           A == {m \in S : m.id \in ids}
           B == {m \in S : m.id \notin ids}
<1>5. A = {m \in S : \E i \in 1 .. Len(s) : i \in in /\ s[i] = m}
  BY <1>1, <1>2
<1>6. B = {m \in S : \E i \in 1 .. Len(s) : i \in out /\ s[i] = m}
  BY <1>1, <1>2
<1>7. A \subseteq S /\ B \subseteq S
  OBVIOUS
<1>8. Staying(s, ids) = Only(s, in) /\ Leaving(s, ids) = Only(s, out)
  BY DEF Staying, Leaving
<1> HIDE DEF in, out, A, B
<1>9. ListOf(Only(s, in), A)
  BY <1>4, <1>5, <1>7
<1>10. ListOf(Only(s, out), B)
  BY <1>4, <1>6, <1>7
<1> QED
  BY <1>8, <1>9, <1>10 DEF A, B

(* Those of a list from place n + 1 on are gone from it one by one.        *)
Gone(K, gone, n) == K \ {gone[j] : j \in 1 .. n}

OneLess(K, B, next, S, g) ==
    g \in S /\ next = S \ {g} /\ Under(S, g) = Under(K \ B, g)

LEMMA GoneOn ==
    ASSUME NEW K, NEW B, NEW gone, ListOf(gone, B), B \subseteq K,
           NEW i \in 1 .. Len(gone), NEW S, S = Gone(K, gone, i - 1),
           NEW g, g = gone[i]
    PROVE  OneLess(K, B, Gone(K, gone, i), S, g)
<1>1. /\ Len(gone) \in Nat /\ B \subseteq Pairs
      /\ \A j \in 1 .. Len(gone) : gone[j] \in B
      /\ \A a, b \in 1 .. Len(gone) : gone[a].id = gone[b].id => a = b
  BY Listed
<1>2. \A a, b \in 1 .. Len(gone) : a < b => <<gone[a], gone[b]>> \in LessRel
  BY DEF ListOf, InOrder
<1>3. \A m \in B : \E j \in 1 .. Len(gone) : gone[j] = m
  BY DEF ListOf, InOrder
<1>4. \A j \in 1 .. i - 1 : j \in 1 .. Len(gone) /\ j # i
  BY <1>1
<1>5. gone[i] \in Gone(K, gone, i - 1)
  BY <1>1, <1>4 DEF Gone
<1>6. 1 .. i = (1 .. i - 1) \cup {i}
  BY <1>1
<1>7. Gone(K, gone, i) = Gone(K, gone, i - 1) \ {gone[i]}
  BY <1>6 DEF Gone
<1>9. g \in B /\ g \in Pairs
  BY <1>1
<1>10. ASSUME NEW m \in Under(Gone(K, gone, i - 1), g)
       PROVE  m \in Under(K \ B, g)
  <2>1. m \in K /\ Less(m, g) /\ \A j \in 1 .. i - 1 : gone[j] # m
    BY DEF Under, Gone
  <2>2. m \notin B
    <3> SUFFICES ASSUME m \in B PROVE FALSE
      OBVIOUS
    <3>1. PICK j \in 1 .. Len(gone) : gone[j] = m
      BY <1>3
    <3>2. j \notin 1 .. i - 1
      BY <2>1, <3>1
    <3>3. j = i \/ i < j
      BY <1>1, <3>2
    <3>4. m \in Pairs
      BY <1>1
    <3>5. CASE j = i
      BY <1>9, <2>1, <3>1, <3>5, LessTotal
    <3>6. CASE i < j
      <4>1. <<g, m>> \in LessRel
        BY <1>2, <3>1, <3>6
      <4>2. Less(g, m)
        BY <1>9, <3>4, <4>1, InLess
      <4> QED
        BY <1>9, <2>1, <3>4, <4>2, LessTotal
    <3> QED
      BY <3>3, <3>5, <3>6
  <2> QED
    BY <2>1, <2>2 DEF Under
<1>11. ASSUME NEW m \in Under(K \ B, g)
       PROVE  m \in Under(Gone(K, gone, i - 1), g)
  <2>1. m \in K /\ m \notin B /\ Less(m, g)
    BY DEF Under
  <2>2. \A j \in 1 .. i - 1 : gone[j] # m
    BY <1>1, <1>4, <2>1
  <2> QED
    BY <2>1, <2>2 DEF Under, Gone
<1>12. Under(Gone(K, gone, i - 1), g) = Under(K \ B, g)
  BY <1>10, <1>11
<1> QED
  BY <1>5, <1>7, <1>12 DEF OneLess

(* Those not in the new list leave one by one, and the rest stays.         *)
LEMMA LeaveLeads ==
    ASSUME NEW f, NEW K, ListOf(f, K), NEW ids, NEW d, HasDocs(d),
           NEW sent, sent = Leave(f, ids, d)
    PROVE  Leads("window", f, sent, Staying(f, ids))
<1>1. PICK gone, rest : gone = Leaving(f, ids) /\ rest = Staying(f, ids)
  OBVIOUS
<1>2. PICK A, B : A = {m \in K : m.id \in ids} /\ B = {m \in K : m.id \notin ids}
  OBVIOUS
<1>3. ListOf(rest, A) /\ ListOf(gone, B)
  BY <1>1, <1>2, OnlyList
<1>4. B \subseteq K /\ A = K \ B
  BY <1>2
<1>5. K \subseteq DocItems /\ Range(f) = K
  BY Listed
<1>6. Len(gone) \in Nat /\ DOMAIN gone = 1 .. Len(gone)
  BY <1>3, Listed
<1>7. PICK n \in Nat : n = Len(gone)
  BY <1>6
<1>8. \A i \in 1 .. n : gone[i] \in B
  BY <1>3, <1>7, Listed
<1>9. \A m \in B : \E i \in 1 .. n : gone[i] = m
  BY <1>3, <1>7 DEF ListOf, InOrder
<1> DEFINE E(i) == Event("Left", Item(gone[i].id, Doc(d, gone[i].id)),
                         Cardinality(Under(A, gone[i])), NoPlace)
<1>10. \A i \in 1 .. n : {m \in Range(f) : m.id \in ids /\ Less(m, gone[i])}
                          = Under(A, gone[i])
  BY <1>2, <1>5 DEF Under
<1>11. sent = [i \in 1 .. n |-> E(i)]
  <2>1. sent = [i \in DOMAIN gone |->
                  Event("Left", Item(gone[i].id, Doc(d, gone[i].id)),
                        Cardinality({m \in Range(f) : /\ m.id \in ids
                                                      /\ Less(m, gone[i])}),
                        NoPlace)]
    BY <1>1 DEF Leave
  <2> QED
    BY <1>6, <1>7, <1>10, <2>1
<1>12. ASSUME NEW i \in 1 .. n PROVE E(i) \in EventType
  <2>1. gone[i] \in DocItems
    BY <1>4, <1>5, <1>8
  <2>2. gone[i].id \in Id /\ gone[i] \in Pairs
    BY <2>1, DocItem
  <2>3. Doc(d, gone[i].id) \in Value \cup {NoDoc}
    BY <2>2 DEF HasDocs
  <2>4. IsFiniteSet(A)
    BY <1>3, Listed
  <2>5. Cardinality(Under(A, gone[i])) \in Nat
    BY <2>4, FS_Subset, FS_CardinalityType DEF Under
  <2> QED
    BY <2>2, <2>3, <2>5 DEF Event, Item, EventType, NoPlace
<1>13. sent \in Seq(EventType) /\ Len(sent) = n
  BY <1>11, <1>12
<1>14. \A i \in 1 .. n : /\ sent[i].kind = "Left" /\ sent[i].id = gone[i].id
                         /\ sent[i].from = Cardinality(Under(A, gone[i]))
  BY <1>11 DEF Event, Item
<1> HIDE DEF E
<1> DEFINE h == [i \in 0 .. n |-> Sorted(Gone(K, gone, i), Less)]
<1>15. h = [i \in 0 .. n |-> h[i]]
  OBVIOUS
<1>16. \A i \in 0 .. n : h[i] = Sorted(Gone(K, gone, i), Less)
  OBVIOUS
<1> HIDE DEF h
<1>17. \A i \in 0 .. n : ListOf(h[i], Gone(K, gone, i))
  <2> SUFFICES ASSUME NEW i \in 0 .. n PROVE ListOf(h[i], Gone(K, gone, i))
    OBVIOUS
  <2>1. Gone(K, gone, i) \subseteq K
    BY DEF Gone
  <2> QED
    BY <1>16, <2>1, SubList
<1>18. h[0] = f
  <2>1. Gone(K, gone, 0) = K
    BY DEF Gone
  <2> QED
    BY <1>17, <2>1, OneList
<1>19. h[n] = rest
  <2>1. Gone(K, gone, n) = A
    BY <1>4, <1>8, <1>9 DEF Gone
  <2> QED
    BY <1>3, <1>17, <2>1, OneList
<1>20. ASSUME NEW i \in 1 .. n
       PROVE  /\ Fits("window", h[i - 1], sent[i])
              /\ h[i] = Apply("window", h[i - 1], sent[i])
  <2>1. i - 1 \in 0 .. n /\ i \in 0 .. n /\ i \in 1 .. Len(gone)
    BY <1>7
  <2>2. PICK s, S, g, e : s = h[i - 1] /\ S = Gone(K, gone, i - 1)
                          /\ g = gone[i] /\ e = sent[i]
    OBVIOUS
  <2>3. g \in S /\ Gone(K, gone, i) = S \ {g} /\ Under(S, g) = Under(A, g)
    <3>1. PICK k : k = i
      OBVIOUS
    <3>2. k \in 1 .. Len(gone) /\ S = Gone(K, gone, k - 1) /\ g = gone[k]
      BY <2>1, <2>2, <3>1
    <3>3. ListOf(gone, B) /\ B \subseteq K
      BY <1>3, <1>4
    <3>4. OneLess(K, B, Gone(K, gone, k), S, g)
      BY ONLY <3>2, <3>3, GoneOn
    <3> QED
      BY <1>4, <3>1, <3>4 DEF OneLess
  <2>4. ListOf(s, S)
    BY <1>17, <2>1, <2>2
  <2>5. e.kind = "Left" /\ e.id = g.id /\ e.from = Cardinality(Under(S, g))
    BY <1>14, <2>2, <2>3
  <2>6. Fits("window", s, e) /\ ListOf(Apply("window", s, e), S \ {g})
    BY <2>3, <2>4, <2>5, LeftFits
  <2>7. ListOf(h[i], S \ {g})
    BY <1>17, <2>1, <2>3
  <2>8. h[i] = Apply("window", s, e)
    BY <2>6, <2>7, OneList
  <2> QED
    BY <2>2, <2>6, <2>8
<1>21. Trace(h, "window", f, sent)
  BY <1>13, <1>15, <1>18, <1>20 DEF Trace
<1>22. \A i \in 1 .. Len(sent) : sent[i].kind # "Err"
  BY <1>13, <1>14
<1> QED
  BY <1>1, <1>13, <1>19, <1>21, <1>22 DEF Leads

-----------------------------------------------------------------------------
(* Those that come in or change.                                           *)

(* A set with no more ids than another is no larger.                       *)
LEMMA NoMore ==
    ASSUME NEW N, IsFiniteSet(N), NEW S, OneEach(S), IdsOf(S) \subseteq IdsOf(N)
    PROVE  IsFiniteSet(S) /\ Cardinality(S) <= Cardinality(N)
<1> DEFINE f == [m \in S |-> CHOOSE x \in N : x.id = m.id]
<1>1. ASSUME NEW m \in S PROVE f[m] \in N /\ f[m].id = m.id
  <2>1. \E x \in N : x.id = m.id
    BY DEF IdsOf
  <2> QED
    BY <2>1
<1>2. f \in [S -> N]
  BY <1>1
<1> HIDE DEF f
<1>3. \A a, b \in S : f[a] = f[b] => a = b
  BY <1>1 DEF OneEach
<1>4. f \in Injection(S, N)
  BY <1>2, <1>3 DEF Injection, IsInjective
<1> QED
  BY <1>4, FS_Injection

(* What a document put into the list replaces.                             *)
With(S, m) == {x \in S : x.id # m.id} \cup {m}

LEMMA WithOne ==
    ASSUME NEW S, S \subseteq DocItems, OneEach(S), NEW m \in DocItems
    PROVE  /\ With(S, m) \subseteq DocItems /\ OneEach(With(S, m))
           /\ m.id \notin IdsOf(S) => m \notin S /\ With(S, m) = S \cup {m}
           /\ m \in S => With(S, m) = S
           /\ \A x \in S : x.id = m.id =>
                 /\ With(S, m) = (S \ {x}) \cup {m} /\ m \notin S \ {x}
BY DEF With, OneEach, IdsOf

LEMMA PutIn ==
    ASSUME NEW s, NEW S, ListOf(s, S), NEW m \in DocItems,
           m.id \notin IdsOf(S), NEW t, t = InsertAt(s, Place(s, m), m)
    PROVE  /\ Place(s, m) \in 1 .. Len(s) + 1 /\ Len(t) = Len(s) + 1
           /\ ListOf(t, With(S, m))
<1>1. S \subseteq DocItems /\ OneEach(S) /\ S \subseteq Pairs
  BY Listed
<1>2. /\ With(S, m) \subseteq DocItems /\ OneEach(With(S, m))
      /\ m \notin S /\ With(S, m) = S \cup {m}
  BY <1>1, WithOne
<1>3. m \in Pairs
  BY DocItem
<1>4. /\ Place(s, m) \in 1 .. Len(s) + 1 /\ Len(t) = Len(s) + 1
      /\ InOrder(t, S \cup {m}, LessRel)
  BY <1>1, <1>2, <1>3, InsertInOrder DEF ListOf
<1> QED
  BY <1>2, <1>4 DEF ListOf

LEMMA TakeOut ==
    ASSUME NEW s, NEW S, ListOf(s, S), NEW id \in IdsOf(S), NEW from,
           from = At(s, id), NEW t, t = RemoveAt(s, from)
    PROVE  /\ from \in 1 .. Len(s) /\ s[from].id = id /\ s[from] \in S
           /\ Len(t) = Len(s) - 1
           /\ ListOf(t, {x \in S : x.id # id})
<1>1. /\ S \subseteq DocItems /\ OneEach(S) /\ S \subseteq Pairs
      /\ DOMAIN s = 1 .. Len(s) /\ Ids(s) = IdsOf(S)
      /\ \A i \in 1 .. Len(s) : s[i] \in S
  BY Listed
<1>2. \E i \in DOMAIN s : s[i].id = id
  BY <1>1 DEF Ids
<1>3. from \in 1 .. Len(s) /\ s[from].id = id
  BY <1>1, <1>2 DEF At
<1>4. s[from] \in S
  BY <1>1, <1>3
<1>5. PICK x : x = s[from]
  OBVIOUS
<1>6. S \ {x} = {y \in S : y.id # id}
  BY <1>1, <1>3, <1>4, <1>5 DEF OneEach
<1>7. Len(t) = Len(s) - 1 /\ InOrder(t, S \ {x}, LessRel)
  BY <1>1, <1>3, <1>5, RemoveInOrder DEF ListOf
<1>8. ListOf(t, S \ {x})
  BY <1>1, <1>7 DEF ListOf, OneEach
<1> QED
  BY <1>3, <1>4, <1>6, <1>7, <1>8

(* What a reader has once it has read what was sent from the list f on is  *)
(* the list as the writer has it.                                          *)
Follows(acc, f, S) ==
    ListOf(acc.kept, S) /\ Leads("window", f, acc.events, acc.kept)

LEMMA FollowsOn ==
    ASSUME NEW acc, NEW f, NEW S, Follows(acc, f, S), NEW e \in EventType,
           e.kind # "Err", Fits("window", acc.kept, e), NEW t,
           t = Apply("window", acc.kept, e), NEW T, ListOf(t, T)
    PROVE  Follows(Outcome(t, Append(acc.events, e)), f, T)
<1>1. PICK s, sent : s = acc.kept /\ sent = acc.events
  OBVIOUS
<1>2. Leads("window", f, sent, s) /\ Fits("window", s, e) /\ t = Apply("window", s, e)
  BY <1>1 DEF Follows
<1>3. PICK all : all = Append(sent, e)
  OBVIOUS
<1>4. Leads("window", f, all, t)
  BY <1>2, <1>3, LeadsOn
<1> QED
  BY <1>1, <1>3, <1>4 DEF Follows, Outcome

(* One that comes in.                                                      *)
LEMMA PutNew ==
    ASSUME NEW acc, NEW f, NEW S, Follows(acc, f, S), NEW m \in DocItems,
           Cardinality(With(S, m)) <= Limit, m.id \notin IdsOf(S),
           NEW was, NEW pending, m.id \notin was
    PROVE  Follows(Put(acc, m, was, pending), f, With(S, m))
<1>1. PICK s : s = acc.kept
  OBVIOUS
<1>2. ListOf(s, S)
  BY <1>1 DEF Follows
<1>3. Len(s) \in Nat /\ Ids(s) = IdsOf(S)
  BY <1>2, Listed
<1>4. PICK to : to = Place(s, m)
  OBVIOUS
<1>5. PICK t : t = InsertAt(s, to, m)
  OBVIOUS
<1>6. to \in 1 .. Len(s) + 1 /\ Len(t) = Len(s) + 1 /\ ListOf(t, With(S, m))
  BY <1>2, <1>4, <1>5, PutIn
<1>7. PICK e : e = Event("Entered", m, NoPlace, to - 1)
  OBVIOUS
<1>8. m.id \in Id /\ m.doc \in Value /\ Item(m.id, m.doc) = m
  BY DocItem
<1>9. to - 1 \in Nat /\ to - 1 + 1 = to /\ to - 1 <= Len(s)
  BY <1>3, <1>6
<1>10. e \in EventType
  BY <1>7, <1>8, <1>9 DEF Event, EventType, NoPlace
<1>11. e.kind = "Entered" /\ e.id = m.id /\ e.doc = m.doc /\ e.at = to - 1
  BY <1>7 DEF Event
<1>12. Len(s) < Limit
  <2>1. Cardinality(With(S, m)) = Len(s) + 1
    BY <1>6, Listed
  <2> QED
    BY <1>3, <2>1, LiveAssumption
<1>13. Fits("window", s, e)
  BY <1>3, <1>9, <1>11, <1>12 DEF Fits
<1>14. Apply("window", s, e) = InsertAt(s, e.at + 1, Item(e.id, e.doc))
  BY <1>11 DEF Apply
<1>15. e.at + 1 = to /\ Item(e.id, e.doc) = m
  BY <1>8, <1>9, <1>11
<1>16. Apply("window", s, e) = t
  BY <1>5, <1>14, <1>15
<1>17. Put(acc, m, was, pending) = Outcome(t, Append(acc.events, e))
  BY <1>1, <1>4, <1>5, <1>7 DEF Put
<1>18. e.kind # "Err"
  BY <1>11
<1> QED
  BY <1>1, <1>6, <1>10, <1>13, <1>16, <1>17, <1>18, FollowsOn

(* One that was there, written: it is taken out and put in again.          *)
LEMMA PutMoved ==
    ASSUME NEW acc, NEW f, NEW S, Follows(acc, f, S), NEW m \in DocItems,
           m.id \in IdsOf(S),
           NEW was, NEW pending, m.id \in was, m.id \in pending
    PROVE  Follows(Put(acc, m, was, pending), f, With(S, m))
<1>1. PICK s : s = acc.kept
  OBVIOUS
<1>2. ListOf(s, S)
  BY <1>1 DEF Follows
<1>3. Len(s) \in Nat /\ Ids(s) = IdsOf(S)
  BY <1>2, Listed
<1>4. PICK from : from = At(s, m.id)
  OBVIOUS
<1>5. PICK rest : rest = RemoveAt(s, from)
  OBVIOUS
<1>6. PICK R : R = {x \in S : x.id # m.id}
  OBVIOUS
<1>7. PICK id : id = m.id
  OBVIOUS
<1>8. /\ from \in 1 .. Len(s) /\ s[from].id = m.id
      /\ Len(rest) = Len(s) - 1 /\ ListOf(rest, R)
  <2>1. id \in IdsOf(S) /\ from = At(s, id) /\ R = {x \in S : x.id # id}
    BY <1>4, <1>6, <1>7
  <2>2. /\ from \in 1 .. Len(s) /\ s[from].id = id
        /\ Len(rest) = Len(s) - 1 /\ ListOf(rest, {x \in S : x.id # id})
    BY <1>2, <1>5, <2>1, TakeOut
  <2> QED
    BY <1>7, <2>1, <2>2
<1>9. PICK to : to = Place(rest, m)
  OBVIOUS
<1>10. PICK t : t = InsertAt(rest, to, m)
  OBVIOUS
<1>11. m.id \notin IdsOf(R)
  BY <1>6 DEF IdsOf
<1>12. to \in 1 .. Len(rest) + 1 /\ ListOf(t, With(R, m))
  BY <1>8, <1>9, <1>10, <1>11, PutIn
<1>13. With(R, m) = With(S, m)
  BY <1>6 DEF With
<1>14. PICK e : e = Event("Changed", m, from - 1, to - 1)
  OBVIOUS
<1>15. m.id \in Id /\ m.doc \in Value /\ Item(m.id, m.doc) = m
  BY DocItem
<1>16. /\ to - 1 \in Nat /\ to - 1 + 1 = to
       /\ from - 1 \in Nat /\ from - 1 + 1 = from /\ from - 1 < Len(s)
  BY <1>3, <1>8, <1>12
<1>17. e \in EventType
  BY <1>14, <1>15, <1>16 DEF Event, EventType, NoPlace
<1>18. /\ e.kind = "Changed" /\ e.id = m.id /\ e.doc = m.doc
       /\ e.from = from - 1 /\ e.at = to - 1
  BY <1>14 DEF Event
<1>19. e.from + 1 = from /\ e.at + 1 = to /\ e.from < Len(s)
  BY <1>16, <1>18
<1>20. Fits("window", s, e)
  BY <1>3, <1>8, <1>18, <1>19 DEF Fits
<1>21. Apply("window", s, e)
         = InsertAt(RemoveAt(s, e.from + 1), e.at + 1, Item(e.id, e.doc))
  BY <1>18 DEF Apply
<1>22. Apply("window", s, e) = t
  BY <1>5, <1>10, <1>15, <1>18, <1>19, <1>21
<1>23. Put(acc, m, was, pending) = Outcome(t, Append(acc.events, e))
  BY <1>1, <1>4, <1>5, <1>9, <1>10, <1>14 DEF Put
<1>24. e.kind # "Err" /\ ListOf(t, With(S, m))
  BY <1>12, <1>13, <1>18
<1> QED
  BY <1>1, <1>17, <1>20, <1>22, <1>23, <1>24, FollowsOn

LEMMA PutOn ==
    ASSUME NEW acc, NEW f, NEW S, Follows(acc, f, S), NEW m \in DocItems,
           Cardinality(With(S, m)) <= Limit, NEW was, NEW pending,
           m.id \in IdsOf(S) <=> m.id \in was,
           m.id \in was /\ m.id \notin pending => m \in S
    PROVE  Follows(Put(acc, m, was, pending), f, With(S, m))
<1>1. CASE m.id \notin was
  BY <1>1, PutNew
<1>2. CASE m.id \in was /\ m.id \in pending
  BY <1>2, PutMoved
<1>3. CASE m.id \in was /\ m.id \notin pending
  <2>1. Put(acc, m, was, pending) = acc
    BY <1>3 DEF Put
  <2>2. S \subseteq DocItems /\ OneEach(S)
    BY Listed DEF Follows
  <2>3. With(S, m) = S
    BY <1>3, <2>2, WithOne
  <2> QED
    BY <2>1, <2>3
<1> QED
  BY <1>1, <1>2, <1>3

(* The list with the first n of the new one put in.                        *)
Halfway(A, new, n) == {new[j] : j \in 1 .. n}
                        \cup {x \in A : x.id \notin Named(new, n)}

LEMMA HalfwayOn ==
    ASSUME NEW new, NEW N, ListOf(new, N), NEW A, NEW n \in Nat,
           n + 1 \in 1 .. Len(new), NEW m, m = new[n + 1]
    PROVE  /\ Halfway(A, new, n + 1) = With(Halfway(A, new, n), m)
           /\ m \in N /\ m.id \notin Named(new, n)
<1>1. /\ Len(new) \in Nat /\ \A i \in 1 .. Len(new) : new[i] \in N
      /\ \A i, j \in 1 .. Len(new) : new[i].id = new[j].id => i = j
  BY Listed
<1>2. \A j \in 1 .. n : j \in 1 .. Len(new) /\ j # n + 1
  BY <1>1
<1>3. \A j \in 1 .. n : new[j].id # m.id
  BY <1>1, <1>2
<1>4. 1 .. n + 1 = (1 .. n) \cup {n + 1}
  OBVIOUS
<1>5. Named(new, n + 1) = Named(new, n) \cup {m.id}
  BY NamedOn
<1>6. {new[j] : j \in 1 .. n + 1} = {new[j] : j \in 1 .. n} \cup {m}
  BY <1>4
<1>7. {x \in A : x.id \notin Named(new, n + 1)}
        = {x \in {y \in A : y.id \notin Named(new, n)} : x.id # m.id}
  BY <1>5
<1>8. Halfway(A, new, n + 1) = With(Halfway(A, new, n), m)
  BY <1>3, <1>6, <1>7 DEF Halfway, With
<1> QED
  BY <1>1, <1>3, <1>8 DEF Named

(* Documents of the old list and the new: one that wasn't written is the   *)
(* same in both.                                                           *)
Agree(K, N, pending) ==
    \A m \in N : m.id \in IdsOf(K) /\ m.id \notin pending => m \in K

LEMMA PutStep ==
    ASSUME NEW f, NEW K, ListOf(f, K), NEW new, NEW N, ListOf(new, N),
           Len(new) <= Limit, NEW pending, Agree(K, N, pending),
           NEW A, A = {x \in K : x.id \in IdsOf(N)},
           NEW n \in Nat, n + 1 \in 1 .. Len(new), NEW acc,
           Follows(acc, f, Halfway(A, new, n))
    PROVE  Follows(Put(acc, new[n + 1], IdsOf(K), pending), f, Halfway(A, new, n + 1))
<1>1. PICK m, S, was : m = new[n + 1] /\ S = Halfway(A, new, n) /\ was = IdsOf(K)
  OBVIOUS
<1>2. Halfway(A, new, n + 1) = With(S, m) /\ m \in N /\ m.id \notin Named(new, n)
  BY <1>1, HalfwayOn
<1>3. /\ N \subseteq DocItems /\ IsFiniteSet(N) /\ Cardinality(N) = Len(new)
      /\ Len(new) \in Nat
      /\ \A i \in 1 .. Len(new) : new[i] \in N
  BY Listed
<1>4. m \in DocItems
  BY <1>2, <1>3
<1>5. S \subseteq DocItems /\ OneEach(S)
  BY <1>1, Listed DEF Follows
<1>6. \A j \in 1 .. n : j \in 1 .. Len(new)
  BY <1>3
<1>7. IdsOf(S) \subseteq IdsOf(N)
  BY <1>1, <1>3, <1>6 DEF Halfway, IdsOf
<1>8. With(S, m) \subseteq DocItems /\ OneEach(With(S, m))
  BY <1>4, <1>5, WithOne
<1>9. IdsOf(With(S, m)) \subseteq IdsOf(N)
  BY <1>2, <1>7 DEF With, IdsOf
<1>10. IsFiniteSet(With(S, m)) /\ Cardinality(With(S, m)) <= Cardinality(N)
  BY <1>3, <1>8, <1>9, NoMore
<1>11. Cardinality(With(S, m)) <= Limit
  BY <1>3, <1>10, FS_CardinalityType, LiveAssumption
<1>12. m.id \in IdsOf(S) <=> m.id \in was
  <2>1. \A j \in 1 .. n : new[j].id # m.id
    BY <1>2 DEF Named
  <2>2. m.id \in IdsOf(S) <=> \E x \in A : x.id = m.id
    BY <1>1, <1>2, <2>1 DEF Halfway, IdsOf
  <2>3. (\E x \in A : x.id = m.id) <=> \E x \in K : x.id = m.id
    BY <1>2 DEF IdsOf
  <2> QED
    BY <1>1, <2>2, <2>3 DEF IdsOf
<1>13. ASSUME m.id \in was, m.id \notin pending PROVE m \in S
  <2>1. m \in K /\ m.id \in IdsOf(N)
    BY <1>1, <1>2, <1>13 DEF Agree, IdsOf
  <2> QED
    BY <1>1, <1>2, <2>1 DEF Halfway
<1>14. Follows(acc, f, S)
  BY <1>1
<1>15. Follows(Put(acc, m, was, pending), f, With(S, m))
  BY <1>4, <1>11, <1>12, <1>13, <1>14, PutOn
<1> QED
  BY <1>1, <1>2, <1>15

LEMMA PutAllLeads ==
    ASSUME NEW f, NEW K, ListOf(f, K), NEW new, NEW N, ListOf(new, N),
           Len(new) <= Limit, NEW pending, Agree(K, N, pending),
           NEW A, A = {x \in K : x.id \in IdsOf(N)},
           NEW left, Follows(left, f, A),
           NEW out, out = PutAll(left, new, IdsOf(K), pending)
    PROVE  out.kept = new /\ Leads("window", f, out.events, new)
<1>1. /\ Len(new) \in Nat /\ \A i \in 1 .. Len(new) : new[i] \in N
      /\ Range(new) = N
  BY Listed
<1>2. \A m \in N : \E i \in 1 .. Len(new) : new[i] = m
  BY DEF ListOf, InOrder
<1>3. PICK was : was = IdsOf(K)
  OBVIOUS
<1>4. PICK upTo : /\ upTo[0] = left
                  /\ \A i \in 1 .. Len(new) :
                        upTo[i] = Put(upTo[i - 1], new[i], was, pending)
                  /\ out = upTo[Len(new)]
  BY <1>1, <1>3, PutSteps
<1> DEFINE T == {n \in Nat : n <= Len(new) => Follows(upTo[n], f, Halfway(A, new, n))}
<1>5. 0 \in T
  <2>1. Halfway(A, new, 0) = A
    BY DEF Halfway, Named
  <2> QED
    BY <1>4, <2>1
<1>6. ASSUME NEW n \in Nat, n \in T PROVE n + 1 \in T
  <2> SUFFICES ASSUME n + 1 <= Len(new)
               PROVE  Follows(upTo[n + 1], f, Halfway(A, new, n + 1))
    OBVIOUS
  <2>1. n + 1 \in 1 .. Len(new) /\ n <= Len(new) /\ (n + 1) - 1 = n
    BY <1>1
  <2>2. PICK acc : acc = upTo[n]
    OBVIOUS
  <2>3. Follows(acc, f, Halfway(A, new, n))
    BY <1>6, <2>1, <2>2
  <2>4. upTo[n + 1] = Put(acc, new[n + 1], was, pending)
    BY <1>4, <2>1, <2>2
  <2>5. Follows(Put(acc, new[n + 1], was, pending), f, Halfway(A, new, n + 1))
    BY <1>3, <2>1, <2>3, PutStep
  <2> QED
    BY <2>4, <2>5
<1> HIDE DEF T
<1>7. Nat \subseteq T
  BY <1>5, <1>6, NatInd
<1>8. Follows(out, f, Halfway(A, new, Len(new)))
  BY <1>1, <1>4, <1>7 DEF T
<1>9. Halfway(A, new, Len(new)) = N
  <2>1. {new[j] : j \in 1 .. Len(new)} = N
    BY <1>1, <1>2
  <2>2. Named(new, Len(new)) = IdsOf(N)
    BY <1>1, <1>2 DEF Named, IdsOf
  <2> QED
    BY <2>1, <2>2 DEF Halfway
<1>10. out.kept = new
  BY <1>8, <1>9, OneList DEF Follows
<1> QED
  BY <1>8, <1>10 DEF Follows

(* `reorder` leads from the list before a commit to the one after it.      *)
LEMMA ReorderLeads ==
    ASSUME NEW b, NEW d, HasDocs(d), NEW P, Same(b, d, P),
           NEW out, out = Reorder(Find(b), P, d)
    PROVE  out.kept = Find(d) /\ Leads("window", Find(b), out.events, Find(d))
<1>1. PICK f, new : f = Find(b) /\ new = Find(d)
  OBVIOUS
<1>2. PICK K : ListOf(f, K) /\ K \subseteq Matches(b)
  BY <1>1, FindListed
<1>3. PICK N : ListOf(new, N) /\ N \subseteq Matches(d) /\ Len(new) <= Limit
  BY <1>1, FindListed
<1>4. NewList(f, P, d) = new
  BY <1>1, NewListFinds
<1>5. Ids(f) = IdsOf(K) /\ Ids(new) = IdsOf(N)
  BY <1>2, <1>3, Listed
<1>6. PICK ids, A : ids = IdsOf(N) /\ A = {x \in K : x.id \in IdsOf(N)}
  OBVIOUS
<1>7. PICK left : left = Outcome(Staying(f, ids), Leave(f, ids, d))
  OBVIOUS
<1>8. out = PutAll(left, new, IdsOf(K), P)
  BY <1>1, <1>4, <1>5, <1>6, <1>7 DEF Reorder
<1>9. ListOf(Staying(f, ids), A)
  BY <1>2, <1>6, OnlyList
<1>10. Leads("window", f, Leave(f, ids, d), Staying(f, ids))
  BY <1>2, LeaveLeads
<1>11. Follows(left, f, A)
  BY <1>7, <1>9, <1>10 DEF Follows, Outcome
<1>12. Agree(K, N, P)
  <2> SUFFICES ASSUME NEW m \in N, m.id \in IdsOf(K), m.id \notin P
               PROVE  m \in K
    BY DEF Agree
  <2>1. PICK x \in K : x.id = m.id
    BY DEF IdsOf
  <2>2. x \in Matches(d)
    BY <1>2, <2>1, MatchesAfter
  <2>3. x = m
    BY <1>3, <2>1, <2>2, MatchesSound DEF OneEach
  <2> QED
    BY <2>1, <2>3
<1>13. out.kept = new /\ Leads("window", f, out.events, new)
  BY <1>2, <1>3, <1>6, <1>8, <1>11, <1>12, PutAllLeads
<1> QED
  BY <1>1, <1>13

-----------------------------------------------------------------------------
(* A watcher's start, and its check of a commit.                           *)

(* What is sent and ends in an error fits too.                             *)
Ends(kind, seen, sent) ==
    /\ sent \in Seq(EventType)
    /\ \A i \in DOMAIN sent :
          Fits(kind, Views(kind, seen, sent)[i - 1], sent[i])
    /\ \A i \in DOMAIN sent : sent[i].kind = "Err" => i = Len(sent)

LEMMA ErrEnds ==
    ASSUME NEW kind, NEW seen, NEW sent, NEW to, Leads(kind, seen, sent, to),
           NEW all, all = Append(sent, Err)
    PROVE  Ends(kind, seen, all)
<1>1. sent \in Seq(EventType) /\ \A i \in 1 .. Len(sent) : sent[i].kind # "Err"
  BY DEF Leads
<1>2. Traced(kind, seen, sent, to)
  BY DEF Leads, Traced
<1>3. Err \in EventType /\ Err.kind = "Err"
  BY DEF Err, Event, Item, EventType, NoPlace
<1>4. Fits(kind, to, Err)
  BY <1>3 DEF Fits
<1>5. PICK e : e = Err
  OBVIOUS
<1>6. Traced(kind, seen, all, Apply(kind, to, e))
  BY <1>1, <1>2, <1>3, <1>4, <1>5, TracedOn
<1>7. PICK h : Trace(h, kind, seen, all)
  BY <1>6 DEF Traced
<1>8. /\ all \in Seq(EventType) /\ Len(all) = Len(sent) + 1 /\ Len(all) \in Nat
      /\ DOMAIN all = 1 .. Len(all) /\ Len(sent) \in Nat
      /\ \A i \in 1 .. Len(sent) : all[i] = sent[i]
  BY <1>1, <1>3
<1>9. \A i \in 0 .. Len(all) : Views(kind, seen, all)[i] = h[i]
  <2>1. Len(all) \in Nat
    BY <1>8
  <2> QED
    BY ONLY <1>7, <2>1, TraceIsViews
<1>10. ASSUME NEW i \in DOMAIN all
       PROVE  Fits(kind, Views(kind, seen, all)[i - 1], all[i])
  <2>1. i \in 1 .. Len(all) /\ i - 1 \in 0 .. Len(all)
    BY <1>8
  <2>2. Fits(kind, h[i - 1], all[i])
    BY <1>7, <2>1 DEF Trace
  <2>3. Views(kind, seen, all)[i - 1] = h[i - 1]
    BY <1>9, <2>1
  <2> QED
    BY <2>2, <2>3
<1>11. ASSUME NEW i \in DOMAIN all, all[i].kind = "Err" PROVE i = Len(all)
  <2>1. i \notin 1 .. Len(sent)
    BY <1>1, <1>8, <1>11
  <2> QED
    BY <1>8, <2>1
<1> QED
  BY <1>8, <1>10, <1>11 DEF Ends

(* What the writer keeps.                                                  *)
Kept(k, d) == CASE k = "matching" -> IdsOf(Matches(d))
                [] k = "window"   -> Find(d)
                [] k = "rows"     -> Rows(d)

LEMMA StartLeads ==
    ASSUME NEW k \in Kinds, NEW d
    PROVE  /\ Start(k, d).kept = Kept(k, d)
           /\ Leads(k, Nothing(k), Start(k, d).events, Result(k, d))
<1>1. CASE k = "matching"
  <2>1. Start(k, d) = Outcome(IdsOf(Matches(d)), All("Entered", Matches(d)))
    BY <1>1 DEF Start, IdsOf
  <2>2. SetOfDocs(Matches(d))
    BY ResultsAreDocs
  <2>3. Leads("matching", {}, All("Entered", Matches(d)), Matches(d))
    BY <2>2, AllEnter
  <2> QED
    BY <1>1, <2>1, <2>3 DEF Kept, Nothing, Result, Outcome
<1>2. CASE k = "window"
  <2>1. PICK f : f = Find(d)
    OBVIOUS
  <2>2. PICK sent : sent = [i \in DOMAIN f |-> Event("Entered", f[i], NoPlace, i - 1)]
    OBVIOUS
  <2>3. Start(k, d) = Outcome(f, sent)
    BY <1>2, <2>1, <2>2 DEF Start
  <2>4. PICK K : ListOf(f, K) /\ Len(f) <= Limit
    BY <2>1, FindListed
  <2>5. Leads("window", <<>>, sent, f)
    BY <2>2, <2>4, WindowEnters
  <2> QED
    BY <1>2, <2>1, <2>3, <2>5 DEF Kept, Nothing, Result, Outcome
<1>3. CASE k = "rows"
  <2>1. Start(k, d) = Outcome(Rows(d), All("Entered", Rows(d)))
    BY <1>3 DEF Start
  <2>2. SetOfDocs(Rows(d))
    BY ResultsAreDocs
  <2>3. Leads("rows", {}, All("Entered", Rows(d)), Rows(d))
    BY <2>2, AllEnter
  <2> QED
    BY <1>3, <2>1, <2>3 DEF Kept, Nothing, Result, Outcome
<1> QED
  BY <1>1, <1>2, <1>3 DEF Kinds

(* The commit's changes to the collection, from the documents b to d.      *)
Drops(ours) == \E i \in DOMAIN ours : ours[i].kind = "Dropped"
Gives(ours, b, d) ==
    /\ ours \in Seq(ChangeType)
    /\ \A i \in 1 .. Len(ours) : ours[i].kind # "Dropped" => ours[i].id \in Id
    /\ \A i, j \in 1 .. Len(ours) :
          ours[i].id \in Id /\ ours[i].id = ours[j].id => i = j
    /\ Drops(ours) => \A id \in Id : Doc(d, id) = NoDoc
    /\ ~Drops(ours) => Same(b, d, Named(ours, Len(ours)))

LEMMA NothingLeft ==
    ASSUME NEW d, \A id \in Id : Doc(d, id) = NoDoc
    PROVE  Matches(d) = {} /\ Find(d) = <<>>
<1>1. NoDoc \notin Matching
  BY ChangesAssumption, LiveAssumption
<1>2. Matches(d) = {}
  BY <1>1 DEF Matches
<1>3. PICK f : f = Find(d)
  OBVIOUS
<1>4. PICK K : ListOf(f, K) /\ K \subseteq Matches(d)
  BY <1>3, FindListed
<1>5. K = {} /\ f \in Seq(K) /\ Len(f) = Cardinality(K)
  BY <1>2, <1>4, Listed
<1>6. f = <<>>
  BY <1>5, FS_EmptySet
<1> QED
  BY <1>2, <1>3, <1>6

LEMMA SameResults ==
    ASSUME NEW b, NEW d, Same(b, d, {}), NEW k \in Kinds
    PROVE  Kept(k, b) = Kept(k, d) /\ Result(k, b) = Result(k, d)
<1>1. \A m : m \in Matches(b) <=> m \in Matches(d)
  BY MatchesAfter
<1>2. Matches(b) = Matches(d)
  BY <1>1
<1>3. Find(b) = Find(d)
  BY <1>2 DEF Find
<1>4. AllRows(b) = AllRows(d)
  BY <1>2 DEF AllRows
<1>5. Rows(b) = Rows(d)
  BY <1>4 DEF Rows
<1> QED
  BY <1>2, <1>3, <1>5 DEF Kept, Result

LEMMA NothingGiven ==
    ASSUME NEW b, NEW d, NEW ours, Gives(ours, b, d), ours = <<>>, NEW k \in Kinds
    PROVE  Kept(k, b) = Kept(k, d) /\ Result(k, b) = Result(k, d)
<1>1. ~Drops(ours) /\ Named(ours, Len(ours)) = {}
  BY DEF Drops, Named
<1>2. Same(b, d, {})
  BY <1>1 DEF Gives
<1> QED
  BY <1>2, SameResults

(* A filter told of the first of the changes, or of all.                   *)
LEMMA FilterLeads ==
    ASSUME NEW b, NEW d, HasDocs(d), NEW ours, Gives(ours, b, d), ~Drops(ours),
           NEW out, out = ChangedAll(IdsOf(Matches(b)), ours, d)
    PROVE  /\ out.kept = IdsOf(Matches(d))
           /\ Leads("matching", Matches(b), out.events, Matches(d))
<1>1. Len(ours) \in Nat /\ DOMAIN ours = 1 .. Len(ours)
  BY DEF Gives
<1>2. \A i \in 1 .. Len(ours) : ours[i].id \in Id
  BY <1>1 DEF Gives, Drops
<1>3. \A i, j \in 1 .. Len(ours) : ours[i].id = ours[j].id => i = j
  BY <1>2 DEF Gives
<1>4. PICK J : J = Named(ours, Len(ours))
  OBVIOUS
<1>5. Told(out, J, b, d)
  BY <1>1, <1>2, <1>3, <1>4, ChangedTold
<1>6. Same(b, d, J)
  BY <1>4 DEF Gives
<1> QED
  BY <1>5, <1>6, ToldLeadsTo

LEMMA CheckLeads ==
    ASSUME NEW b, NEW d, HasDocs(d), NEW ours, Gives(ours, b, d),
           NEW k \in Kinds, NEW out, out = Check(k, Kept(k, b), ours, d)
    PROVE  /\ out.kept = Kept(k, d)
           /\ Leads(k, Result(k, b), out.events, Result(k, d))
<1>1. CASE k = "rows"
  <2>1. out = Rerun(Rows(b), d)
    BY <1>1 DEF Check, Kept
  <2>2. out.kept = Rows(d) /\ Leads("rows", Rows(b), out.events, Rows(d))
    BY <2>1, RerunLeads
  <2> QED
    BY <1>1, <2>2 DEF Kept, Result
<1>2. CASE k # "rows" /\ Drops(ours)
  <2>1. Matches(d) = {} /\ Find(d) = <<>>
    BY <1>2, NothingLeft DEF Gives
  <2>2. out = DroppedAll(k, Kept(k, b))
    BY <1>2 DEF Check, Drops
  <2>3. CASE k = "matching"
    <3>1. out = DroppedAll("matching", IdsOf(Matches(b)))
      BY <2>2, <2>3 DEF Kept
    <3>2. out.kept = {} /\ Leads("matching", Matches(b), out.events, {})
      BY <3>1, DropLeads
    <3>3. IdsOf(Matches(d)) = {}
      BY <2>1 DEF IdsOf
    <3> QED
      BY <2>1, <2>3, <3>2, <3>3 DEF Kept, Result
  <2>4. CASE k = "window"
    <3>1. PICK f : f = Find(b)
      OBVIOUS
    <3>2. PICK K : ListOf(f, K)
      BY <3>1, FindListed
    <3>3. out = DroppedAll("window", f)
      BY <2>2, <2>4, <3>1 DEF Kept
    <3>4. out.kept = <<>> /\ Leads("window", f, out.events, <<>>)
      BY <3>2, <3>3, WindowDrops
    <3> QED
      BY <2>1, <2>4, <3>1, <3>4 DEF Kept, Result
  <2> QED
    BY <1>2, <2>3, <2>4 DEF Kinds
<1>3. CASE k = "matching" /\ ~Drops(ours)
  <2>1. out = ChangedAll(IdsOf(Matches(b)), ours, d)
    BY <1>3 DEF Check, Drops, Kept
  <2>2. /\ out.kept = IdsOf(Matches(d))
        /\ Leads("matching", Matches(b), out.events, Matches(d))
    BY <1>3, <2>1, FilterLeads
  <2> QED
    BY <1>3, <2>2 DEF Kept, Result
<1>4. CASE k = "window" /\ ~Drops(ours)
  <2>1. PICK P : P = Named(ours, Len(ours))
    OBVIOUS
  <2>2. P = {ours[i].id : i \in DOMAIN ours}
    BY <2>1 DEF Named, Gives
  <2>3. out = Reorder(Find(b), P, d)
    BY <1>4, <2>2 DEF Check, Drops, Kept
  <2>4. Same(b, d, P)
    BY <1>4, <2>1 DEF Gives
  <2>5. out.kept = Find(d) /\ Leads("window", Find(b), out.events, Find(d))
    BY <2>3, <2>4, ReorderLeads
  <2> QED
    BY <1>4, <2>5 DEF Kept, Result
<1> QED
  BY <1>1, <1>2, <1>3, <1>4 DEF Kinds

(* One that ends before the last change has sent what fits.                *)
LEMMA PartLeads ==
    ASSUME NEW b, NEW d, HasDocs(d), NEW ours, Gives(ours, b, d),
           NEW n \in 0 .. Len(ours), NEW part, part = SubSeq(ours, 1, n),
           NEW out, out = Check("matching", IdsOf(Matches(b)), part, d)
    PROVE  \E to : Leads("matching", Matches(b), out.events, to)
<1>1. ours \in Seq(ChangeType) /\ Len(ours) \in Nat
  BY DEF Gives
<1>2. /\ Len(part) = n /\ DOMAIN part = 1 .. n /\ n \in Nat
      /\ \A i \in 1 .. n : part[i] = ours[i] /\ i \in 1 .. Len(ours)
  BY <1>1
<1>3. CASE Drops(part)
  <2>1. out = DroppedAll("matching", IdsOf(Matches(b)))
    BY <1>3 DEF Check, Drops
  <2> QED
    BY <2>1, DropLeads
<1>4. CASE ~Drops(part)
  <2>1. \A i \in 1 .. Len(part) : part[i].id \in Id
    BY <1>2, <1>4 DEF Gives, Drops
  <2>2. \A i, j \in 1 .. Len(part) : part[i].id = part[j].id => i = j
    <3> SUFFICES ASSUME NEW i \in 1 .. Len(part), NEW j \in 1 .. Len(part),
                        part[i].id = part[j].id
                 PROVE  i = j
      OBVIOUS
    <3>1. /\ ours[i].id \in Id /\ ours[i].id = ours[j].id
          /\ i \in 1 .. Len(ours) /\ j \in 1 .. Len(ours)
      BY <1>2, <2>1
    <3> QED
      BY <3>1 DEF Gives
  <2>3. out = ChangedAll(IdsOf(Matches(b)), part, d)
    BY <1>4 DEF Check, Drops
  <2>4. Len(part) \in Nat
    BY <1>2
  <2>5. PICK J : J = Named(part, Len(part))
    OBVIOUS
  <2>6. Told(out, J, b, d)
    BY <2>1, <2>2, <2>3, <2>4, <2>5, ChangedTold
  <2> QED
    BY <2>6, ToldLeads
<1> QED
  BY <1>3, <1>4

(* What the report of the batch gives: the collection's changes.           *)
LEMMA ReportGives ==
    ASSUME IInv, DropsNamed, wpc = "report",
           NEW ours, ours = Only(changes, {i \in DOMAIN changes :
                                             changes[i].collection = Watched})
    PROVE  Gives(ours, before, docs)
<1> DEFINE at == {i \in DOMAIN changes : changes[i].collection = Watched}
<1>1. changes \in Seq(ChangeType) /\ DOMAIN changes = 1 .. Len(changes)
  BY DEF IInv, Sent
<1>2. \A i \in DOMAIN changes : /\ changes[i].id \in Id \cup {NoId}
                                /\ changes[i].collection \in Collection
  <2>1. \A i \in DOMAIN changes : changes[i] \in ChangeType
    BY <1>1
  <2> QED
    BY <2>1 DEF ChangeType
<1>3. ours \in Seq(ChangeType) /\ Keeps(ours, changes, at)
  BY <1>1, OnlyKeeps
<1>4. Len(ours) \in Nat /\ DOMAIN ours = 1 .. Len(ours)
  BY <1>3
<1>5. \A i \in DOMAIN changes : changes[i].collection = Watched =>
         \E n \in DOMAIN ours : ours[n] = changes[i]
  BY <1>3 DEF Keeps
<1>6. PICK from \in [DOMAIN ours -> DOMAIN changes] :
         /\ \A n \in DOMAIN ours : from[n] \in at /\ ours[n] = changes[from[n]]
         /\ \A n, m \in DOMAIN ours : from[n] = from[m] => n = m
  BY <1>3 DEF Keeps
<1>7. \A n \in DOMAIN ours : /\ from[n] \in DOMAIN changes
                             /\ ours[n] = changes[from[n]]
                             /\ ours[n].collection = Watched
  BY <1>6
<1>8. NetEffect /\ Watched \in Collection
  BY LiveAssumption DEF IInv
<1> HIDE DEF at
<1>9. ASSUME NEW i \in 1 .. Len(ours), ours[i].kind # "Dropped"
      PROVE  ours[i].id \in Id
  BY <1>2, <1>4, <1>7, <1>9 DEF DropsNamed
<1>10. ASSUME NEW i \in 1 .. Len(ours), NEW j \in 1 .. Len(ours),
              ours[i].id \in Id, ours[i].id = ours[j].id
       PROVE  i = j
  <2>1. PICK key : key = <<Watched, ours[i].id>>
    OBVIOUS
  <2>2. key \in Key /\ key[1] = Watched /\ key[2] = ours[i].id
    BY <1>8, <1>10, <2>1, Keys
  <2>3. Names(changes[from[i]], key) /\ Names(changes[from[j]], key)
    BY <1>4, <1>7, <1>10, <2>2 DEF Names
  <2>4. from[i] = from[j]
    BY <1>4, <1>7, <1>8, <2>2, <2>3 DEF NetEffect
  <2> QED
    BY <1>4, <1>6, <2>4
<1>11. ASSUME Drops(ours), NEW id \in Id PROVE Doc(docs, id) = NoDoc
  <2>1. PICK n \in DOMAIN ours : ours[n].kind = "Dropped"
    BY <1>11 DEF Drops
  <2>2. PICK i \in DOMAIN changes : changes[i].kind = "Dropped"
                                    /\ changes[i].collection = Watched
    BY <1>7, <2>1
  <2>3. PICK key : key = <<changes[i].collection, changes[i].id>>
    OBVIOUS
  <2>4. key[1] = Watched
    BY <2>2, <2>3
  <2>5. \A o \in Id : docs[<<key[1], o>>] = NoDoc
    BY <1>8, <2>2, <2>3 DEF NetEffect
  <2> QED
    BY <2>4, <2>5 DEF Doc
<1>12. ASSUME ~Drops(ours), NEW id \in Id \ Named(ours, Len(ours))
       PROVE  Doc(before, id) = Doc(docs, id)
  <2> SUFFICES ASSUME docs[<<Watched, id>>] # before[<<Watched, id>>]
               PROVE  FALSE
    BY DEF Doc
  <2>1. PICK key : key = <<Watched, id>>
    OBVIOUS
  <2>2. key \in Key /\ key[1] = Watched /\ key[2] = id
    BY <1>8, <2>1, Keys
  <2>3. PICK i \in DOMAIN changes : Names(changes[i], key)
    BY <1>8, <2>1, <2>2 DEF NetEffect
  <2>4. changes[i].collection = Watched
    BY <2>2, <2>3 DEF Names
  <2>5. PICK n \in DOMAIN ours : ours[n] = changes[i]
    BY <1>5, <2>4
  <2>6. ours[n].kind # "Dropped"
    BY <1>12 DEF Drops
  <2>7. ours[n].id = id
    BY <2>2, <2>3, <2>5, <2>6 DEF Names
  <2> QED
    BY <1>4, <1>12, <2>7 DEF Named
<1> QED
  BY <1>3, <1>9, <1>10, <1>11, <1>12 DEF Gives, Same

-----------------------------------------------------------------------------
(* One live query, by its values: what its writer and its reader have.     *)

Following(k, w, list, sent, seen, d) ==
    /\ sent \in Seq(EventType)
    /\ w \in {"on", "dropped"} => list = Kept(k, d)
    /\ w \in {"off", "dropped"} => sent = <<>> /\ seen = Nothing(k)
    /\ w = "on" => Leads(k, seen, sent, Result(k, d))
    /\ w = "ended" => Ends(k, seen, sent)

LEMMA StartFollows ==
    ASSUME NEW k \in Kinds, NEW d
    PROVE  Following(k, "on", Start(k, d).kept, Start(k, d).events, Nothing(k), d)
<1>1. /\ Start(k, d).kept = Kept(k, d)
      /\ Leads(k, Nothing(k), Start(k, d).events, Result(k, d))
  BY StartLeads
<1>2. Start(k, d).events \in Seq(EventType)
  BY <1>1 DEF Leads
<1> QED
  BY <1>1, <1>2 DEF Following

LEMMA ReadFollows ==
    ASSUME NEW k, NEW w \in {"on", "off", "dropped", "ended"}, NEW list, NEW sent,
           NEW seen, NEW d, Following(k, w, list, sent, seen, d), sent # <<>>,
           NEW all, all = Views(k, seen, sent)[Len(sent)]
    PROVE  Following(k, w, list, <<>>, all, d)
<1>1. w \notin {"off", "dropped"}
  BY DEF Following
<1>2. <<>> \in Seq(EventType) /\ DOMAIN <<>> = {}
  OBVIOUS
<1>3. CASE w = "on"
  <2>1. Leads(k, seen, sent, Result(k, d)) /\ list = Kept(k, d)
    BY <1>3 DEF Following
  <2>2. all = Result(k, d)
    BY <2>1, LeadsRead
  <2>3. Leads(k, all, <<>>, Result(k, d))
    BY <2>2, LeadsNowhere
  <2> QED
    BY <1>2, <1>3, <2>1, <2>3 DEF Following
<1>4. CASE w = "ended"
  <2>1. Ends(k, all, <<>>)
    BY <1>2 DEF Ends
  <2> QED
    BY <1>2, <1>4, <2>1 DEF Following
<1> QED
  BY <1>1, <1>3, <1>4

LEMMA StopFollows ==
    ASSUME NEW k, NEW w \in {"on", "ended"}, NEW list, NEW sent, NEW seen, NEW d,
           Following(k, w, list, sent, seen, d), NEW next,
           next = IF w = "on" THEN "dropped" ELSE "off"
    PROVE  Following(k, next, list, <<>>, Nothing(k), d)
<1>1. <<>> \in Seq(EventType)
  OBVIOUS
<1> QED
  BY <1>1 DEF Following

(* One not checked: nothing of its collection changed, or nobody reads it. *)
LEMMA UncheckedFollows ==
    ASSUME NEW k \in Kinds, NEW w, NEW list, NEW sent, NEW seen, NEW b, NEW d,
           NEW ours, Gives(ours, b, d), Following(k, w, list, sent, seen, b),
           ours = <<>> \/ w \notin {"on", "dropped"}, NEW next,
           next = IF w \in {"off", "ended"} THEN Nothing(k) ELSE list
    PROVE  Following(k, w, next, sent, seen, d)
<1>1. CASE w \in {"on", "dropped"}
  <2>1. ours = <<>> /\ next = list
    BY <1>1
  <2>2. Kept(k, b) = Kept(k, d) /\ Result(k, b) = Result(k, d)
    BY <2>1, NothingGiven
  <2> QED
    BY <1>1, <2>1, <2>2 DEF Following
<1>2. CASE w \notin {"on", "dropped"}
  BY <1>2 DEF Following
<1> QED
  BY <1>1, <1>2

(* One checked, `out` its outcome.                                         *)
Goes(k, w, out, w2, list2, sent, sent2) ==
    /\ w2 = GoingOn(w, FALSE, out.events)
    /\ list2 = IF w2 \in {"off", "ended"} THEN Nothing(k) ELSE out.kept
    /\ sent2 = IF w = "on" THEN sent \o out.events ELSE sent

LEMMA CheckFollows ==
    ASSUME NEW k \in Kinds, NEW w \in {"on", "dropped"}, NEW list, NEW sent,
           NEW seen, NEW b, NEW d, HasDocs(d), NEW ours, Gives(ours, b, d),
           Following(k, w, list, sent, seen, b),
           NEW out, out = Check(k, list, ours, d),
           NEW w2, NEW list2, NEW sent2, Goes(k, w, out, w2, list2, sent, sent2)
    PROVE  w2 \in {"on", "off", "dropped"} /\ Following(k, w2, list2, sent2, seen, d)
<1>1. list = Kept(k, b) /\ sent \in Seq(EventType)
  BY DEF Following
<1>2. /\ out.kept = Kept(k, d)
      /\ Leads(k, Result(k, b), out.events, Result(k, d))
  BY <1>1, CheckLeads
<1>3. CASE w = "on"
  <2>1. w2 = "on" /\ list2 = out.kept /\ sent2 = sent \o out.events
    BY <1>3 DEF Goes, GoingOn
  <2>2. Leads(k, seen, sent, Result(k, b))
    BY <1>3 DEF Following
  <2>3. PICK more : more = out.events
    OBVIOUS
  <2>4. Leads(k, seen, sent2, Result(k, d))
    BY <1>2, <2>1, <2>2, <2>3, LeadsThrough
  <2>5. sent2 \in Seq(EventType)
    BY <2>4 DEF Leads
  <2> QED
    BY <1>2, <2>1, <2>4, <2>5 DEF Following
<1>4. CASE w = "dropped"
  <2>1. w2 \in {"off", "dropped"} /\ sent2 = sent
    BY <1>4 DEF Goes, GoingOn
  <2>2. sent = <<>> /\ seen = Nothing(k)
    BY <1>4 DEF Following
  <2> QED
    BY <1>1, <1>2, <2>1, <2>2 DEF Following, Goes
<1> QED
  BY <1>3, <1>4

(* One ended by an error.                                                  *)
LEMMA ErrFollows ==
    ASSUME NEW k \in Kinds, NEW list, NEW sent, NEW seen, NEW b, NEW d,
           HasDocs(d), NEW ours, Gives(ours, b, d),
           Following(k, "on", list, sent, seen, b),
           NEW n \in 0 .. Len(ours), NEW told,
           told = IF k = "matching" THEN Check(k, list, SubSeq(ours, 1, n), d)
                  ELSE Outcome(list, <<>>),
           NEW sent2, sent2 = sent \o Append(told.events, Err)
    PROVE  Following(k, "ended", Nothing(k), sent2, seen, d)
<1>1. list = Kept(k, b) /\ Leads(k, seen, sent, Result(k, b))
  BY DEF Following
<1>2. PICK more : more = told.events
  OBVIOUS
<1>3. \E to : Leads(k, Result(k, b), more, to)
  <2>1. CASE k = "matching"
    <3>1. list = IdsOf(Matches(b)) /\ Result(k, b) = Matches(b)
      BY <1>1, <2>1 DEF Kept, Result
    <3>2. PICK part : part = SubSeq(ours, 1, n)
      OBVIOUS
    <3>3. told = Check("matching", IdsOf(Matches(b)), part, d)
      BY <2>1, <3>1, <3>2
    <3>4. \E to : Leads("matching", Matches(b), told.events, to)
      BY <3>2, <3>3, PartLeads
    <3> QED
      BY <1>2, <2>1, <3>1, <3>4
  <2>2. CASE k # "matching"
    <3>1. more = <<>>
      BY <1>2, <2>2 DEF Outcome
    <3> QED
      BY <3>1, LeadsNowhere
  <2> QED
    BY <2>1, <2>2
<1>4. PICK to : Leads(k, Result(k, b), more, to)
  BY <1>3
<1>5. PICK all : all = sent \o more
  OBVIOUS
<1>6. Leads(k, seen, all, to)
  BY <1>1, <1>4, <1>5, LeadsThrough
<1>7. sent \in Seq(EventType) /\ more \in Seq(EventType) /\ Err \in EventType
  BY <1>1, <1>4 DEF Leads, Err, Event, Item, EventType, NoPlace
<1>8. sent2 = Append(all, Err)
  <2>1. PICK e : e = Err
    OBVIOUS
  <2>2. e \in EventType /\ sent2 = sent \o Append(more, e)
    BY <1>2, <1>7, <2>1
  <2>3. sent \o Append(more, e) = Append(sent \o more, e)
    BY <1>7, <2>2
  <2> QED
    BY <1>5, <2>1, <2>2, <2>3
<1>9. Ends(k, seen, sent2)
  BY <1>6, <1>8, ErrEnds
<1>10. sent2 \in Seq(EventType)
  BY <1>9 DEF Ends
<1> QED
  BY <1>9, <1>10 DEF Following

-----------------------------------------------------------------------------
(* The invariant, by each live query's values.                             *)

Shapes == /\ watching \in [Kinds -> {"off", "on", "dropped", "ended"}]
          /\ DOMAIN kept = Kinds /\ DOMAIN events = Kinds /\ DOMAIN view = Kinds
AllFollow == \A k \in Kinds :
                Following(k, watching[k], kept[k], events[k], view[k], Known)
Followed == IInv /\ Shapes /\ WatchRecorded /\ DropsNamed /\ AllFollow

LEMMA LiveInvIs == LiveInv <=> Followed
<1>1. ASSUME NEW k \in Kinds PROVE Start(k, Known).kept = Kept(k, Known)
  BY StartLeads
<1>2. ASSUME LiveInv PROVE Followed
  <2>1. IInv /\ Shapes /\ WatchRecorded /\ DropsNamed /\ KeptRight /\ EventsRight
    BY <1>2 DEF LiveInv, Shapes
  <2>2. ASSUME NEW k \in Kinds
        PROVE  Following(k, watching[k], kept[k], events[k], view[k], Known)
    <3>1. PICK sent, seen, d : sent = events[k] /\ seen = view[k] /\ d = Known
      OBVIOUS
    <3>2. sent \in Seq(EventType) /\ DOMAIN sent = 1 .. Len(sent)
      BY <2>1, <3>1 DEF EventsRight
    <3>3. watching[k] \in {"on", "dropped"} => kept[k] = Kept(k, d)
      BY <1>1, <2>1, <3>1 DEF KeptRight
    <3>4. watching[k] \in {"off", "dropped"} => sent = <<>> /\ seen = Nothing(k)
      BY <2>1, <3>1 DEF KeptRight
    <3>5. ASSUME watching[k] = "on" PROVE Leads(k, seen, sent, Result(k, d))
      <4>1. /\ \A i \in DOMAIN sent : Fits(k, Views(k, seen, sent)[i - 1], sent[i])
            /\ Views(k, seen, sent)[Len(sent)] = Result(k, d)
            /\ \A i \in DOMAIN sent : sent[i].kind # "Err"
        BY <2>1, <3>1, <3>5 DEF EventsRight, ReadsFit, AllRead
      <4>2. Leads(k, seen, sent, Views(k, seen, sent)[Len(sent)])
        BY <3>2, <4>1, ReadLeads
      <4> QED
        BY <4>1, <4>2
    <3>6. ASSUME watching[k] = "ended" PROVE Ends(k, seen, sent)
      BY <2>1, <3>1, <3>2, <3>6 DEF EventsRight, ReadsFit, Ends
    <3> QED
      BY <3>1, <3>2, <3>3, <3>4, <3>5, <3>6 DEF Following
  <2> QED
    BY <2>1, <2>2 DEF Followed, AllFollow
<1>3. ASSUME Followed PROVE LiveInv
  <2>1. IInv /\ Shapes /\ WatchRecorded /\ DropsNamed /\ AllFollow
    BY <1>3 DEF Followed
  <2>2. KeptRight
    <3> SUFFICES ASSUME NEW k \in Kinds
                 PROVE  /\ watching[k] \in {"on", "dropped"} =>
                              kept[k] = Start(k, Known).kept
                        /\ watching[k] \in {"off", "dropped"} =>
                              events[k] = <<>> /\ view[k] = Nothing(k)
      BY DEF KeptRight
    <3>1. Following(k, watching[k], kept[k], events[k], view[k], Known)
      BY <2>1 DEF AllFollow
    <3> QED
      BY <1>1, <3>1 DEF Following
  <2>3. EventsRight
    <3> SUFFICES ASSUME NEW k \in Kinds
                 PROVE  /\ events[k] \in Seq(EventType)
                        /\ watching[k] = "on" =>
                              /\ ReadsFit(k)
                              /\ AllRead(k) = Result(k, Known)
                              /\ \A i \in DOMAIN events[k] :
                                    events[k][i].kind # "Err"
                        /\ watching[k] = "ended" =>
                              /\ ReadsFit(k)
                              /\ \A i \in DOMAIN events[k] :
                                    events[k][i].kind = "Err" =>
                                       i = Len(events[k])
      BY DEF EventsRight
    <3>1. Following(k, watching[k], kept[k], events[k], view[k], Known)
      BY <2>1 DEF AllFollow
    <3>2. PICK sent, seen, d : sent = events[k] /\ seen = view[k] /\ d = Known
      OBVIOUS
    <3>3. sent \in Seq(EventType) /\ DOMAIN sent = 1 .. Len(sent)
      BY <3>1, <3>2 DEF Following
    <3>4. ASSUME watching[k] = "on"
          PROVE  /\ ReadsFit(k) /\ AllRead(k) = Result(k, d)
                 /\ \A i \in DOMAIN sent : sent[i].kind # "Err"
      <4>1. Leads(k, seen, sent, Result(k, d))
        BY <3>1, <3>2, <3>4 DEF Following
      <4>2. /\ Views(k, seen, sent)[Len(sent)] = Result(k, d)
            /\ \A i \in DOMAIN sent : Fits(k, Views(k, seen, sent)[i - 1], sent[i])
        BY <4>1, LeadsRead
      <4>3. \A i \in DOMAIN sent : sent[i].kind # "Err"
        BY <3>3, <4>1 DEF Leads
      <4> QED
        BY <3>2, <4>2, <4>3 DEF ReadsFit, AllRead
    <3>5. ASSUME watching[k] = "ended"
          PROVE  /\ ReadsFit(k)
                 /\ \A i \in DOMAIN sent : sent[i].kind = "Err" => i = Len(sent)
      <4>1. Ends(k, seen, sent)
        BY <3>1, <3>2, <3>5 DEF Following
      <4> QED
        BY <3>2, <4>1 DEF Ends, ReadsFit
    <3> QED
      BY <3>2, <3>3, <3>4, <3>5
  <2> QED
    BY <2>1, <2>2, <2>3 DEF LiveInv, Shapes
<1> QED
  BY <1>2, <1>3

(* A step that leaves the live queries alone and shows them nothing new.   *)
LEMMA SameKnown ==
    ASSUME AllFollow, UNCHANGED liveVars, Known' = Known
    PROVE  AllFollow'
BY DEF AllFollow, liveVars

LEMMA SameShapes ==
    ASSUME Shapes, UNCHANGED liveVars
    PROVE  Shapes'
BY DEF Shapes, liveVars

LEMMA InitFollowed == LiveInit => Followed
<1> SUFFICES ASSUME LiveInit PROVE Followed
  OBVIOUS
<1> USE DEF LiveInit
<1>1. IInv
  BY InitIInv
<1>2. wpc = "idle" /\ changes = <<>>
  BY DEF Init
<1>3. Shapes
  BY DEF Shapes
<1>4. WatchRecorded /\ DropsNamed
  BY <1>2 DEF WatchRecorded, DropsNamed
<1>5. ASSUME NEW k \in Kinds
      PROVE  Following(k, watching[k], kept[k], events[k], view[k], Known)
  <2>1. watching[k] = "off" /\ events[k] = <<>> /\ view[k] = Nothing(k)
    OBVIOUS
  <2>2. <<>> \in Seq(EventType)
    OBVIOUS
  <2> QED
    BY <2>1, <2>2 DEF Following
<1> QED
  BY <1>1, <1>3, <1>4, <1>5 DEF Followed, AllFollow

LEMMA BeginFollowed == Followed /\ BeginBatch => Followed'
<1> SUFFICES ASSUME Followed, BeginBatch PROVE Followed'
  OBVIOUS
<1>1. IInv /\ Shapes /\ DropsNamed /\ AllFollow
  BY DEF Followed
<1>2. PICK recording :
         recording = (\/ subscribers # {}
                      \/ \E k \in Kinds : watching[k] \in {"on", "dropped"})
  OBVIOUS
<1>3. Begin(recording) /\ UNCHANGED liveVars /\ (subscribers # {} => recording)
  BY <1>2 DEF BeginBatch
<1>4. IInv' /\ (log' = NotRecorded => ~recording)
  BY <1>1, <1>3, BeginIInv
<1>5. /\ wpc = "idle" /\ wpc' = "batch" /\ docs' = docs /\ changes' = changes
      /\ watching' = watching
  BY <1>3 DEF Begin, liveVars
<1>6. Known' = Known
  BY <1>5 DEF Known
<1>7. WatchRecorded'
  <2> SUFFICES ASSUME log' = NotRecorded, NEW k \in Kinds
               PROVE  watching[k] \in {"off", "ended"}
    BY <1>5 DEF WatchRecorded
  <2>1. watching[k] \notin {"on", "dropped"}
    BY <1>2, <1>4
  <2> QED
    BY <1>1, <2>1 DEF Shapes
<1>8. DropsNamed'
  BY <1>1, <1>5 DEF DropsNamed
<1>9. AllFollow' /\ Shapes'
  BY <1>1, <1>3, <1>6, SameKnown, SameShapes
<1> QED
  BY <1>4, <1>7, <1>8, <1>9 DEF Followed

(* A report says "Dropped" of what has no id.                              *)
LEMMA FinishNames ==
    ASSUME NEW entries \in Seq(EntryType), NEW all, all = Finish(entries)
    PROVE  \A i \in DOMAIN all : all[i].kind = "Dropped" <=> all[i].id = NoId
<1> DEFINE at == {i \in DOMAIN entries : Kind(entries[i]) # "None"}
<1>1. PICK those : those = Only(entries, at)
  OBVIOUS
<1>2. all = [i \in DOMAIN those |-> Change(those[i])]
  BY <1>1 DEF Finish
<1> HIDE DEF at
<1>3. those \in Seq(EntryType)
  BY <1>1, OnlyKeeps
<1>4. ASSUME NEW i \in DOMAIN all
      PROVE  all[i].kind = "Dropped" <=> all[i].id = NoId
  <2>1. i \in DOMAIN those /\ all[i] = Change(those[i])
    BY <1>2, <1>4
  <2>2. those[i] \in EntryType
    BY <1>3, <2>1, Entries
  <2>3. all[i].kind = Kind(those[i]) /\ all[i].id = those[i].id
    BY <2>1 DEF Change
  <2> QED
    BY <2>2, <2>3, KindsRight
<1> QED
  BY <1>4

LEMMA BatchFollowed == Followed /\ InBatch /\ UNCHANGED liveVars => Followed'
<1> SUFFICES ASSUME Followed, InBatch, UNCHANGED liveVars PROVE Followed'
  OBVIOUS
<1>1. IInv /\ Shapes /\ WatchRecorded /\ DropsNamed /\ AllFollow
  BY DEF Followed
<1>2. IInv' /\ (Running \/ Fail \/ Commit)
  BY <1>1, BatchIInv
<1>3. Shapes' /\ watching' = watching
  BY <1>1, SameShapes DEF liveVars
<1>4. CASE Running
  <2>1. /\ wpc = "batch" /\ wpc' = wpc /\ docs' = docs /\ changes' = changes
        /\ log' = NotRecorded => log = NotRecorded
    BY <1>4 DEF Running
  <2>2. Known' = Known
    BY <2>1 DEF Known
  <2>3. AllFollow'
    BY <1>1, <2>2, SameKnown
  <2>4. WatchRecorded' /\ DropsNamed'
    BY <1>1, <1>3, <2>1 DEF WatchRecorded, DropsNamed
  <2> QED
    BY <1>2, <1>3, <2>3, <2>4 DEF Followed
<1>5. CASE Fail
  <2>1. wpc = "batch" /\ wpc' = "idle" /\ docs' = docs /\ changes' = changes
    BY <1>5 DEF Fail
  <2>2. Known' = Known
    BY <2>1 DEF Known
  <2>3. AllFollow'
    BY <1>1, <2>2, SameKnown
  <2>4. WatchRecorded' /\ DropsNamed'
    BY <1>1, <2>1 DEF WatchRecorded, DropsNamed
  <2> QED
    BY <1>2, <1>3, <2>3, <2>4 DEF Followed
<1>6. CASE Commit /\ log = NotRecorded
  <2>1. wpc = "batch" /\ wpc' = "idle" /\ changes' = <<>>
    BY <1>6 DEF Commit
  <2>2. WatchRecorded' /\ DropsNamed'
    BY <2>1 DEF WatchRecorded, DropsNamed
  <2>3. ASSUME NEW k \in Kinds
        PROVE  Following(k, watching[k], kept[k], events[k], view[k], Known')
    <3>1. watching[k] \in {"off", "ended"}
      BY <1>1, <1>6, <2>1 DEF WatchRecorded
    <3>2. Following(k, watching[k], kept[k], events[k], view[k], Known)
      BY <1>1 DEF AllFollow
    <3> QED
      BY <3>1, <3>2 DEF Following
  <2>4. AllFollow'
    BY <2>3 DEF AllFollow, liveVars
  <2> QED
    BY <1>2, <1>3, <2>2, <2>4 DEF Followed
<1>7. CASE Commit /\ log # NotRecorded
  <2>1. /\ wpc = "batch" /\ wpc' = "report" /\ before' = docs
        /\ changes' = Finish(log)
    BY <1>7 DEF Commit
  <2>2. Known' = Known
    BY <2>1 DEF Known
  <2>3. AllFollow'
    BY <1>1, <2>2, SameKnown
  <2>4. log \in Seq(EntryType)
    BY <1>1, <1>7 DEF IInv, Recorded
  <2>5. DropsNamed'
    BY <2>1, <2>4, FinishNames DEF DropsNamed
  <2>6. WatchRecorded'
    BY <2>1 DEF WatchRecorded
  <2> QED
    BY <1>2, <1>3, <2>3, <2>5, <2>6 DEF Followed
<1> QED
  BY <1>2, <1>4, <1>5, <1>6, <1>7

(* The documents of a state are documents, or none.                        *)
LEMMA DocsHere ==
    ASSUME IInv
    PROVE  HasDocs(docs)
<1>1. docs \in [Key -> Value \cup {NoDoc}]
  BY DEF IInv, TypeOK, Docs
<1>2. ASSUME NEW id \in Id PROVE docs[<<Watched, id>>] \in Value \cup {NoDoc}
  <2>1. <<Watched, id>> \in Key
    BY LiveAssumption, Keys
  <2> QED
    BY <1>1, <2>1
<1> QED
  BY <1>2 DEF HasDocs, Doc

(* Every live query is checked against the commit.                         *)
LEMMA CheckFollowed ==
    ASSUME Followed, NEW bad \in SUBSET Watch, NEW n \in 0 .. MaxOps - 1,
           CheckLive(bad, n)
    PROVE  Followed'
<1>1. IInv /\ Shapes /\ DropsNamed /\ AllFollow
  BY DEF Followed
<1>2. PICK ours : ours = Only(changes, {i \in DOMAIN changes :
                                          changes[i].collection = Watched})
  OBVIOUS
<1>3. PICK checks : checks = IF ours = <<>> THEN {}
                             ELSE {k \in Kinds : watching[k] \in {"on", "dropped"}}
  OBVIOUS
<1> DEFINE Part(k) == IF k = "matching"
                      THEN Check(k, kept[k], SubSeq(ours, 1, n), docs)
                      ELSE Outcome(kept[k], <<>>)
           After(k) == IF k \notin bad THEN Check(k, kept[k], ours, docs)
                       ELSE Outcome(Nothing(k), Append(Part(k).events, Err))
<1>4. /\ wpc = "report" /\ Report /\ view' = view
      /\ bad \subseteq {k \in checks : watching[k] = "on"}
      /\ n > 0 => "matching" \in bad /\ n < Len(ours)
  BY <1>2, <1>3 DEF CheckLive
<1>5. /\ watching' = [k \in Kinds |->
                        IF k \in checks
                        THEN GoingOn(watching[k], k \in bad, After(k).events)
                        ELSE watching[k]]
      /\ kept' = [k \in Kinds |->
                    IF watching'[k] \in {"off", "ended"} THEN Nothing(k)
                    ELSE IF k \in checks THEN After(k).kept ELSE kept[k]]
      /\ events' = [k \in Kinds |->
                      IF k \in checks /\ watching[k] = "on"
                      THEN events[k] \o After(k).events ELSE events[k]]
  BY <1>2, <1>3 DEF CheckLive
<1>6. IInv'
  BY <1>1, <1>4, ReportIInv
<1>7. wpc' = "idle" /\ docs' = docs /\ changes' = <<>>
  BY <1>4 DEF Report
<1>8. Known = before /\ Known' = docs
  BY <1>4, <1>7 DEF Known
<1>9. Gives(ours, before, docs)
  BY <1>1, <1>2, <1>4, ReportGives
<1>10. HasDocs(docs)
  BY <1>1, DocsHere
<1>11. n \in 0 .. Len(ours)
  <2>1. Len(ours) \in Nat
    BY <1>9 DEF Gives
  <2> QED
    BY <1>4, <2>1
<1>12. ASSUME NEW k \in Kinds
       PROVE  /\ watching'[k] \in {"off", "on", "dropped", "ended"}
              /\ Following(k, watching'[k], kept'[k], events'[k], view'[k], docs)
  <2>1. PICK w, list, sent, seen : /\ w = watching[k] /\ list = kept[k]
                                   /\ sent = events[k] /\ seen = view[k]
    OBVIOUS
  <2>2. PICK w2, list2, sent2 : /\ w2 = watching'[k] /\ list2 = kept'[k]
                                /\ sent2 = events'[k]
    OBVIOUS
  <2>3. w \in {"off", "on", "dropped", "ended"}
    BY <1>1, <2>1 DEF Shapes
  <2>4. Following(k, w, list, sent, seen, before)
    BY <1>1, <1>8, <2>1 DEF AllFollow
  <2>5. view'[k] = seen
    BY <1>4, <2>1
  <2>6. CASE k \notin checks
    <3>1. w2 = w /\ sent2 = sent
      BY <1>5, <2>1, <2>2, <2>6
    <3>2. list2 = IF w \in {"off", "ended"} THEN Nothing(k) ELSE list
      BY <1>5, <2>1, <2>2, <2>6, <3>1
    <3>3. ours = <<>> \/ w \notin {"on", "dropped"}
      BY <1>3, <2>1, <2>6
    <3>4. Following(k, w, list2, sent, seen, docs)
      BY <1>9, <2>4, <3>2, <3>3, UncheckedFollows
    <3> QED
      BY <2>2, <2>3, <2>5, <3>1, <3>4
  <2>7. CASE k \in checks /\ k \notin bad
    <3>1. w \in {"on", "dropped"}
      BY <1>3, <2>1, <2>7
    <3>2. PICK out : out = Check(k, list, ours, docs)
      OBVIOUS
    <3>3. After(k) = out
      BY <2>1, <2>7, <3>2
    <3>4. w2 = GoingOn(w, FALSE, out.events)
      BY <1>5, <2>1, <2>2, <2>7, <3>3 DEF GoingOn
    <3> HIDE DEF After
    <3>5. list2 = IF w2 \in {"off", "ended"} THEN Nothing(k) ELSE out.kept
      BY <1>5, <2>2, <2>7, <3>3
    <3>6. sent2 = IF w = "on" THEN sent \o out.events ELSE sent
      BY <1>5, <2>1, <2>2, <2>7, <3>3
    <3>7. /\ w2 \in {"on", "off", "dropped"}
          /\ Following(k, w2, list2, sent2, seen, docs)
      <4>1. Goes(k, w, out, w2, list2, sent, sent2)
        BY <3>4, <3>5, <3>6 DEF Goes
      <4> QED
        BY <1>9, <1>10, <2>4, <3>1, <3>2, <4>1, CheckFollows
    <3> QED
      BY <2>2, <2>5, <3>7
  <2>8. CASE k \in bad
    <3>1. k \in checks /\ w = "on"
      BY <1>4, <2>1, <2>8
    <3>2. PICK told :
             told = IF k = "matching" THEN Check(k, list, SubSeq(ours, 1, n), docs)
                    ELSE Outcome(list, <<>>)
      OBVIOUS
    <3>3. After(k) = Outcome(Nothing(k), Append(told.events, Err))
      BY <2>1, <2>8, <3>2
    <3> HIDE DEF After
    <3>4. After(k).events = Append(told.events, Err)
      BY <3>3 DEF Outcome
    <3>5. w2 = "ended"
      <4>1. w2 = GoingOn(w, k \in bad, After(k).events)
        BY <1>5, <2>1, <2>2, <3>1
      <4> QED
        BY <2>8, <3>1, <4>1 DEF GoingOn
    <3>6. list2 = Nothing(k)
      BY <1>5, <2>2, <3>5
    <3>7. sent2 = sent \o Append(told.events, Err)
      BY <1>5, <2>1, <2>2, <3>1, <3>4
    <3>8. Following(k, "on", list, sent, seen, before)
      BY <2>4, <3>1
    <3>9. Following(k, "ended", Nothing(k), sent2, seen, docs)
      BY <1>9, <1>10, <1>11, <3>2, <3>7, <3>8, ErrFollows
    <3> QED
      BY <2>2, <2>5, <3>5, <3>6, <3>9
  <2> QED
    BY <2>6, <2>7, <2>8
<1>13. AllFollow'
  BY <1>8, <1>12 DEF AllFollow
<1>14. Shapes'
  BY <1>1, <1>4, <1>5, <1>12 DEF Shapes
<1>15. WatchRecorded' /\ DropsNamed'
  BY <1>7 DEF WatchRecorded, DropsNamed
<1> QED
  BY <1>6, <1>13, <1>14, <1>15 DEF Followed

OnlyAt(f, g, k, x) ==
    DOMAIN g = Kinds /\ g[k] = x /\ \A j \in Kinds \ {k} : g[j] = f[j]

LEMMA AtOne ==
    ASSUME NEW f, DOMAIN f = Kinds, NEW k \in Kinds, NEW x
    PROVE  OnlyAt(f, [f EXCEPT ![k] = x], k, x) /\ OnlyAt(f, f, k, f[k])
BY DEF OnlyAt

(* A step of one live query's reader or its start, while the writer idles. *)
LEMMA OneFollowed ==
    ASSUME Followed, wpc = "idle", UNCHANGED changesVars, NEW k \in Kinds,
           NEW w \in {"off", "on", "dropped", "ended"}, NEW list, NEW sent, NEW seen,
           watching' = [watching EXCEPT ![k] = w],
           OnlyAt(kept, kept', k, list), OnlyAt(events, events', k, sent),
           OnlyAt(view, view', k, seen),
           Following(k, w, list, sent, seen, docs)
    PROVE  Followed'
<1>1. IInv /\ Shapes /\ DropsNamed /\ AllFollow
  BY DEF Followed
<1>2. IInv'
  BY <1>1, StillIInv
<1>3. wpc' = "idle" /\ docs' = docs /\ changes' = changes
  BY DEF changesVars, writer
<1>4. Known = docs /\ Known' = docs
  BY <1>3 DEF Known
<1>5. WatchRecorded' /\ DropsNamed'
  BY <1>1, <1>3 DEF WatchRecorded, DropsNamed
<1>6. Shapes'
  BY <1>1 DEF Shapes, OnlyAt
<1>7. ASSUME NEW j \in Kinds
      PROVE  Following(j, watching'[j], kept'[j], events'[j], view'[j], docs)
  <2>1. CASE j = k
    <3>1. watching'[j] = w /\ kept'[j] = list /\ events'[j] = sent /\ view'[j] = seen
      BY <1>1, <2>1 DEF Shapes, OnlyAt
    <3> QED
      BY <2>1, <3>1
  <2>2. CASE j # k
    <3>1. /\ watching'[j] = watching[j] /\ kept'[j] = kept[j]
          /\ events'[j] = events[j] /\ view'[j] = view[j]
      BY <1>1, <2>2 DEF Shapes, OnlyAt
    <3>2. Following(j, watching[j], kept[j], events[j], view[j], docs)
      BY <1>1, <1>4 DEF AllFollow
    <3> QED
      BY <3>1, <3>2
  <2> QED
    BY <2>1, <2>2
<1>8. AllFollow'
  BY <1>4, <1>7 DEF AllFollow
<1> QED
  BY <1>2, <1>5, <1>6, <1>8 DEF Followed

LEMMA StartFollowed ==
    ASSUME Followed, NEW k \in Kinds, StartWatch(k)
    PROVE  Followed'
<1>1. Shapes /\ AllFollow
  BY DEF Followed
<1>2. /\ wpc = "idle" /\ UNCHANGED changesVars /\ view' = view
      /\ watching[k] \in {"off", "dropped"}
      /\ watching' = [watching EXCEPT ![k] = "on"]
      /\ kept' = [kept EXCEPT ![k] = Start(k, docs).kept]
      /\ events' = [events EXCEPT ![k] = Start(k, docs).events]
  BY DEF StartWatch
<1>3. Known = docs
  BY <1>2 DEF Known
<1>4. PICK list, sent, seen : /\ list = Start(k, docs).kept
                              /\ sent = Start(k, docs).events /\ seen = view[k]
  OBVIOUS
<1>5. Following(k, watching[k], kept[k], events[k], view[k], docs)
  BY <1>1, <1>3 DEF AllFollow
<1>6. seen = Nothing(k)
  BY <1>2, <1>4, <1>5 DEF Following
<1>7. Following(k, "on", list, sent, seen, docs)
  BY <1>4, <1>6, StartFollows
<1>8. /\ OnlyAt(kept, kept', k, list) /\ OnlyAt(events, events', k, sent)
      /\ OnlyAt(view, view', k, seen)
  BY <1>1, <1>2, <1>4, AtOne DEF Shapes
<1> QED
  BY <1>2, <1>7, <1>8, OneFollowed

LEMMA RecvFollowed ==
    ASSUME Followed, NEW k \in Kinds, RecvLive(k)
    PROVE  Followed'
<1>1. Shapes /\ AllFollow
  BY DEF Followed
<1>2. /\ wpc = "idle" /\ UNCHANGED changesVars /\ events[k] # <<>>
      /\ watching' = watching /\ kept' = kept
      /\ view' = [view EXCEPT ![k] = AllRead(k)]
      /\ events' = [events EXCEPT ![k] = <<>>]
  BY DEF RecvLive
<1>3. Known = docs
  BY <1>2 DEF Known
<1>4. PICK w, list, sent, seen : /\ w = watching[k] /\ list = kept[k]
                                 /\ sent = events[k] /\ seen = view[k]
  OBVIOUS
<1>5. Following(k, w, list, sent, seen, docs)
  BY <1>1, <1>3, <1>4 DEF AllFollow
<1>6. w \in {"on", "off", "dropped", "ended"}
  BY <1>1, <1>4 DEF Shapes
<1>7. PICK all : all = AllRead(k)
  OBVIOUS
<1>8. all = Views(k, seen, sent)[Len(sent)]
  BY <1>4, <1>7 DEF AllRead
<1>9. Following(k, w, list, <<>>, all, docs)
  BY <1>2, <1>4, <1>5, <1>6, <1>8, ReadFollows
<1>10. watching' = [watching EXCEPT ![k] = w]
  BY <1>1, <1>2, <1>4 DEF Shapes
<1>11. /\ OnlyAt(kept, kept', k, list) /\ OnlyAt(events, events', k, <<>>)
       /\ OnlyAt(view, view', k, all)
  BY <1>1, <1>2, <1>4, <1>7, AtOne DEF Shapes
<1> QED
  BY <1>2, <1>6, <1>9, <1>10, <1>11, OneFollowed

LEMMA StopFollowed ==
    ASSUME Followed, NEW k \in Kinds, StopWatch(k)
    PROVE  Followed'
<1>1. Shapes /\ AllFollow
  BY DEF Followed
<1>2. PICK w, list, sent, seen : /\ w = watching[k] /\ list = kept[k]
                                 /\ sent = events[k] /\ seen = view[k]
  OBVIOUS
<1>3. PICK next : next = IF w = "on" THEN "dropped" ELSE "off"
  OBVIOUS
<1>4. /\ wpc = "idle" /\ UNCHANGED changesVars /\ kept' = kept
      /\ w \in {"on", "ended"}
      /\ watching' = [watching EXCEPT ![k] = next]
      /\ events' = [events EXCEPT ![k] = <<>>]
      /\ view' = [view EXCEPT ![k] = Nothing(k)]
  BY <1>2, <1>3 DEF StopWatch
<1>5. Known = docs
  BY <1>4 DEF Known
<1>6. Following(k, w, list, sent, seen, docs)
  BY <1>1, <1>2, <1>5 DEF AllFollow
<1>7. Following(k, next, list, <<>>, Nothing(k), docs)
  BY <1>3, <1>4, <1>6, StopFollows
<1>8. /\ OnlyAt(kept, kept', k, list) /\ OnlyAt(events, events', k, <<>>)
      /\ OnlyAt(view, view', k, Nothing(k))
  BY <1>1, <1>2, <1>4, AtOne DEF Shapes
<1>9. next \in {"off", "on", "dropped", "ended"}
  BY <1>3
<1> QED
  BY <1>4, <1>7, <1>8, <1>9, OneFollowed

LEMMA StillFollowed == Followed /\ UNCHANGED vars => Followed'
<1> SUFFICES ASSUME Followed, UNCHANGED vars PROVE Followed'
  OBVIOUS
<1>1. IInv /\ Shapes /\ WatchRecorded /\ DropsNamed /\ AllFollow
  BY DEF Followed
<1>2. UNCHANGED changesVars /\ UNCHANGED liveVars
  BY DEF vars
<1>3. IInv'
  BY <1>1, <1>2, StillIInv
<1>4. /\ wpc' = wpc /\ docs' = docs /\ changes' = changes /\ before' = before
      /\ log' = log /\ watching' = watching
  BY <1>2 DEF changesVars, writer, liveVars
<1>5. Known' = Known
  BY <1>4 DEF Known
<1>6. AllFollow' /\ Shapes'
  BY <1>1, <1>2, <1>5, SameKnown, SameShapes
<1>7. WatchRecorded' /\ DropsNamed'
  BY <1>1, <1>4 DEF WatchRecorded, DropsNamed
<1> QED
  BY <1>3, <1>6, <1>7 DEF Followed

LEMMA LiveNextFollowed == Followed /\ [LiveNext]_vars => Followed'
<1> SUFFICES ASSUME Followed, [LiveNext]_vars PROVE Followed'
  OBVIOUS
<1>1. CASE BeginBatch
  BY <1>1, BeginFollowed
<1>2. CASE InBatch /\ UNCHANGED liveVars
  BY <1>2, BatchFollowed
<1>3. ASSUME NEW bad \in SUBSET Watch, NEW n \in 0 .. MaxOps - 1, CheckLive(bad, n)
      PROVE  Followed'
  BY <1>3, CheckFollowed
<1>4. ASSUME NEW k \in Watch, StartWatch(k) \/ RecvLive(k) \/ StopWatch(k)
      PROVE  Followed'
  <2>1. k \in Kinds
    BY LiveAssumption DEF Kinds
  <2> QED
    BY <1>4, <2>1, StartFollowed, RecvFollowed, StopFollowed
<1>5. CASE UNCHANGED vars
  BY <1>5, StillFollowed
<1> QED
  BY <1>1, <1>2, <1>3, <1>4, <1>5 DEF LiveNext

-----------------------------------------------------------------------------
(* The theorems about live queries.                                        *)

(* In every state the events not read lead each live query's reader from   *)
(* what it has to the result on the documents reported, and what the       *)
(* writer keeps is what a start would give it now (src/live.rs).           *)
THEOREM LiveInvHolds == LiveSpec => []LiveInv
<1>1. LiveInit => Followed
  BY InitFollowed
<1>2. Followed /\ [LiveNext]_vars => Followed'
  BY LiveNextFollowed
<1>3. Followed => LiveInv
  BY LiveInvIs
<1> QED
  BY <1>1, <1>2, <1>3, PTL DEF LiveSpec

(* Every event `live::check` sends fits what the events before it leave    *)
(* the reader, and an error is the last.                                   *)
THEOREM EventsAlwaysFit == LiveSpec => []EventsFit
<1>1. LiveInv => EventsFit
  <2> SUFFICES ASSUME LiveInv, NEW k \in Watch, watching[k] \in {"on", "ended"}
               PROVE  /\ ReadsFit(k)
                      /\ \A i \in DOMAIN events[k] :
                            events[k][i].kind = "Err" =>
                               i = Len(events[k]) /\ watching[k] = "ended"
    BY DEF EventsFit, ReadsFit
  <2>1. k \in Kinds
    BY LiveAssumption DEF Kinds
  <2>2. EventsRight
    BY DEF LiveInv
  <2> QED
    BY <2>1, <2>2 DEF EventsRight
<1> QED
  BY <1>1, LiveInvHolds, PTL

(* A reader that has read all has the query's result on the documents      *)
(* committed, after any number of batches.                                 *)
THEOREM ViewsAlwaysFollow == LiveSpec => []ViewsFollow
<1>1. LiveInv => ViewsFollow
  <2> SUFFICES ASSUME LiveInv, wpc = "idle", NEW k \in Watch, watching[k] = "on"
               PROVE  AllRead(k) = Result(k, docs)
    BY DEF ViewsFollow, Result
  <2>1. k \in Kinds
    BY LiveAssumption DEF Kinds
  <2>2. EventsRight
    BY DEF LiveInv
  <2>3. Known = docs
    BY DEF Known
  <2> QED
    BY <2>1, <2>2, <2>3 DEF EventsRight
<1> QED
  BY <1>1, LiveInvHolds, PTL
=============================================================================
