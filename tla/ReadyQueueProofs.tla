-------------------------- MODULE ReadyQueueProofs --------------------------
(***************************************************************************)
(* What the queue operations return, seen as a set of processes: each adds *)
(* or removes one process and neither drops nor repeats another.           *)
(***************************************************************************)
EXTENDS ReadyQueue, FiniteSets, SequenceTheorems, FiniteSetTheorems, WellFoundedInduction, TLAPS

\* The sequence lists every element of the set once, and nothing else.
Lists(queue, set) ==
  /\ queue \in Seq(set)
  /\ \A p \in set : \E i \in DOMAIN queue : queue[i] = p
  /\ \A i, j \in DOMAIN queue : queue[i] = queue[j] => i = j
-----------------------------------------------------------------------------
LEMMA ListsSet ==
  ASSUME NEW queue, NEW set, Lists(queue, set)
  PROVE  ToSet(queue) = set
<1>1. \A i \in DOMAIN queue : queue[i] \in set
  BY ElementOfSeq, LenProperties DEF Lists
<1> QED BY <1>1 DEF Lists, ToSet

\* The number of processes is the length of the list.
LEMMA ListsCardinality ==
  ASSUME NEW queue, NEW set, Lists(queue, set)
  PROVE  IsFiniteSet(set) /\ Cardinality(set) = Len(queue)
<1>1. Len(queue) \in Nat /\ queue \in [1 .. Len(queue) -> set] /\ DOMAIN queue = 1 .. Len(queue)
  BY LenProperties DEF Lists
<1>2. queue \in Bijection(1 .. Len(queue), set)
  BY <1>1 DEF Lists, Bijection, Injection, Surjection, IsInjective
<1>3. IsFiniteSet(1 .. Len(queue)) /\ Cardinality(1 .. Len(queue)) = Len(queue)
  BY <1>1, FS_Interval
<1> QED BY <1>2, <1>3, FS_Bijection DEF ExistsBijection

LEMMA ListsEmpty == Lists(<<>>, {}) /\ \A set : Lists(<<>>, set) => set = {}
  BY DEF Lists

LEMMA ListsOne == \A p : Lists(<<p>>, {p})
  BY DEF Lists

\* One list after another.
LEMMA ListsConcat ==
  ASSUME NEW queue, NEW set, Lists(queue, set), NEW queue2, NEW set2, Lists(queue2, set2),
         set \cap set2 = {}
  PROVE  Lists(queue \o queue2, set \cup set2)
<1> DEFINE all == queue \o queue2
<1>1. queue \in Seq(set \cup set2) /\ queue2 \in Seq(set \cup set2)
  BY SeqMonotonic DEF Lists
<1>2. /\ all \in Seq(set \cup set2)
      /\ Len(all) = Len(queue) + Len(queue2)
      /\ \A i \in 1 .. Len(queue) + Len(queue2) :
           all[i] = IF i <= Len(queue) THEN queue[i] ELSE queue2[i - Len(queue)]
  BY <1>1, ConcatProperties
<1>3. /\ Len(queue) \in Nat /\ DOMAIN queue = 1 .. Len(queue)
      /\ Len(queue2) \in Nat /\ DOMAIN queue2 = 1 .. Len(queue2)
      /\ DOMAIN all = 1 .. Len(queue) + Len(queue2)
  BY <1>1, <1>2, LenProperties
<1>4. /\ \A i \in 1 .. Len(queue) : queue[i] \in set
      /\ \A i \in 1 .. Len(queue2) : queue2[i] \in set2
  BY ElementOfSeq DEF Lists
<1> HIDE DEF all
<1>5. ASSUME NEW p \in set \cup set2 PROVE \E i \in DOMAIN all : all[i] = p
  <2>1. CASE p \in set
    <3>1. PICK i \in 1 .. Len(queue) : queue[i] = p
      BY <1>3, <2>1 DEF Lists
    <3>2. i \in 1 .. Len(queue) + Len(queue2) /\ all[i] = p
      BY <1>2, <1>3, <3>1
    <3> QED BY <1>3, <3>2
  <2>2. CASE p \in set2
    <3>1. PICK i \in 1 .. Len(queue2) : queue2[i] = p
      BY <1>3, <2>2 DEF Lists
    <3>2. /\ i + Len(queue) \in 1 .. Len(queue) + Len(queue2)
          /\ ~(i + Len(queue) <= Len(queue)) /\ (i + Len(queue)) - Len(queue) = i
      BY <1>3, <3>1
    <3>3. all[i + Len(queue)] = p
      BY <1>2, <3>1, <3>2
    <3> QED BY <1>3, <3>2, <3>3
  <2> QED BY <2>1, <2>2
<1>6. ASSUME NEW i \in DOMAIN all, NEW j \in DOMAIN all, all[i] = all[j] PROVE i = j
  <2>1. CASE i <= Len(queue) /\ j <= Len(queue)
    BY <1>2, <1>3, <1>6, <2>1 DEF Lists
  <2>2. CASE ~(i <= Len(queue)) /\ ~(j <= Len(queue))
    <3>1. i - Len(queue) \in DOMAIN queue2 /\ j - Len(queue) \in DOMAIN queue2
      BY <1>3, <2>2
    <3>2. queue2[i - Len(queue)] = queue2[j - Len(queue)]
      BY <1>2, <1>3, <1>6, <2>2
    <3>3. i - Len(queue) = j - Len(queue)
      BY <3>1, <3>2 DEF Lists
    <3> QED BY <1>3, <3>3
  <2>3. CASE i <= Len(queue) /\ ~(j <= Len(queue))
    <3>1. all[i] \in set /\ all[j] \in set2
      BY <1>2, <1>3, <1>4, <2>3
    <3> QED BY <1>6, <3>1
  <2>4. CASE ~(i <= Len(queue)) /\ j <= Len(queue)
    <3>1. all[i] \in set2 /\ all[j] \in set
      BY <1>2, <1>3, <1>4, <2>4
    <3> QED BY <1>6, <3>1
  <2> QED BY <2>1, <2>2, <2>3, <2>4
<1> QED BY <1>2, <1>5, <1>6 DEF Lists, all

\* A stretch of a list is a list of what it holds.
Stretch(queue, m, n) == {queue[i] : i \in m .. n}

LEMMA ListsSubSeq ==
  ASSUME NEW queue, NEW set, Lists(queue, set),
         NEW m \in 1 .. Len(queue) + 1, NEW n \in 0 .. Len(queue)
  PROVE  Lists(SubSeq(queue, m, n), Stretch(queue, m, n))
<1>1. Len(queue) \in Nat /\ DOMAIN queue = 1 .. Len(queue)
  BY LenProperties DEF Lists
<1>2. /\ SubSeq(queue, m, n) \in Seq(Stretch(queue, m, n))
      /\ Len(SubSeq(queue, m, n)) = IF m <= n THEN n - m + 1 ELSE 0
      /\ \A i \in 1 .. n - m + 1 : SubSeq(queue, m, n)[i] = queue[m + i - 1]
  <2>1. \A i \in m .. n : queue[i] \in Stretch(queue, m, n)
    BY DEF Stretch
  <2>2. m \in Int /\ n \in Int
    BY <1>1
  <2> QED BY <2>1, <2>2, SubSeqProperties
<1>3. DOMAIN SubSeq(queue, m, n) = 1 .. (IF m <= n THEN n - m + 1 ELSE 0)
  BY <1>2, LenProperties
<1>4. ASSUME NEW p \in Stretch(queue, m, n)
      PROVE  \E i \in DOMAIN SubSeq(queue, m, n) : SubSeq(queue, m, n)[i] = p
  <2>1. PICK k \in m .. n : queue[k] = p
    BY DEF Stretch
  <2>2. k - m + 1 \in 1 .. n - m + 1 /\ m + (k - m + 1) - 1 = k /\ m <= n
    BY <1>1, <2>1
  <2>3. SubSeq(queue, m, n)[k - m + 1] = p
    BY <1>2, <2>1, <2>2
  <2> QED BY <1>3, <2>2, <2>3
<1>5. ASSUME NEW i \in DOMAIN SubSeq(queue, m, n), NEW j \in DOMAIN SubSeq(queue, m, n),
             SubSeq(queue, m, n)[i] = SubSeq(queue, m, n)[j]
      PROVE  i = j
  <2>1. m <= n /\ i \in 1 .. n - m + 1 /\ j \in 1 .. n - m + 1
    BY <1>1, <1>3
  <2>2. queue[m + i - 1] = queue[m + j - 1]
    BY <1>2, <1>5, <2>1
  <2>3. m + i - 1 \in DOMAIN queue /\ m + j - 1 \in DOMAIN queue
    BY <1>1, <2>1
  <2>4. m + i - 1 = m + j - 1
    BY <2>2, <2>3 DEF Lists
  <2> QED BY <1>1, <2>1, <2>4
<1> QED BY <1>2, <1>4, <1>5 DEF Lists
-----------------------------------------------------------------------------
THEOREM AddToTailLists ==
  ASSUME NEW queue, NEW set, Lists(queue, set), NEW p, p \notin set
  PROVE  Lists(AddToTail(queue, p), set \cup {p})
<1>1. queue \in Seq(set \cup {p})
  BY SeqMonotonic DEF Lists
<1>2. Append(queue, p) = queue \o <<p>>
  BY <1>1
<1>3. Lists(queue \o <<p>>, set \cup {p})
  BY ListsOne, ListsConcat
<1> QED BY <1>2, <1>3 DEF AddToTail

THEOREM AddToHeadLists ==
  ASSUME NEW queue, NEW set, Lists(queue, set), NEW p, p \notin set
  PROVE  Lists(AddToHead(queue, p), set \cup {p})
<1>1. Lists(<<p>> \o queue, {p} \cup set)
  BY ListsOne, ListsConcat
<1>2. {p} \cup set = set \cup {p}
  OBVIOUS
<1> QED BY <1>1, <1>2 DEF AddToHead

THEOREM PopHeadLists ==
  ASSUME NEW queue, NEW set, Lists(queue, set), queue # <<>>
  PROVE  queue[1] \in set /\ Lists(PopHead(queue), set \ {queue[1]})
<1>1. Len(queue) \in Nat \ {0} /\ DOMAIN queue = 1 .. Len(queue)
  BY LenProperties, EmptySeq DEF Lists
<1>2. queue[1] \in set
  BY <1>1, ElementOfSeq DEF Lists
<1>3. Tail(queue) = SubSeq(queue, 2, Len(queue))
  BY TailIsSubSeq DEF Lists
<1>4. Stretch(queue, 2, Len(queue)) = set \ {queue[1]}
  <2>1. ASSUME NEW i \in 2 .. Len(queue) PROVE queue[i] \in set \ {queue[1]}
    BY <1>1, ElementOfSeq DEF Lists
  <2>2. ASSUME NEW p \in set \ {queue[1]} PROVE \E i \in 2 .. Len(queue) : queue[i] = p
    <3>1. PICK i \in 1 .. Len(queue) : queue[i] = p
      BY <1>1 DEF Lists
    <3>2. i \in 2 .. Len(queue)
      BY <1>1, <3>1
    <3> QED BY <3>1, <3>2
  <2> QED BY <2>1, <2>2 DEF Stretch
<1>5. 2 \in 1 .. Len(queue) + 1 /\ Len(queue) \in 0 .. Len(queue)
  BY <1>1
<1> QED BY <1>2, <1>3, <1>4, <1>5, ListsSubSeq DEF PopHead
-----------------------------------------------------------------------------
\* Sets of natural numbers have a least element.
LessOnNat == {ss \in Nat \X Nat : ss[1] < ss[2]}

LEMMA LeastNat ==
  ASSUME NEW T \in SUBSET Nat, T # {}
  PROVE  \E x \in T : \A y \in T : x <= y
<1>1. IsWellFoundedOn(LessOnNat, Nat)
  BY NatLessThanWellFounded DEF OpToRel, LessOnNat
<1>2. PICK x \in T : \A y \in T : ~(<<y, x>> \in LessOnNat)
  BY <1>1, WFMin
<1>3. ASSUME NEW y \in T PROVE x <= y
  <2>1. x \in Nat /\ y \in Nat
    OBVIOUS
  <2>2. <<y, x>> \notin LessOnNat
    BY <1>2
  <2>3. ~(y < x)
    BY <2>1, <2>2 DEF LessOnNat
  <2> QED BY <2>1, <2>3
<1> QED BY <1>3

\* Whatever the scores are, the queue gains the one process.
THEOREM InsertSortedLists ==
  ASSUME NEW queue, NEW set, Lists(queue, set), NEW p, p \notin set, NEW score
  PROVE  Lists(InsertSorted(queue, p, score), set \cup {p})
<1> DEFINE greater == {i \in DOMAIN queue : score[queue[i]] > score[p]}
<1>1. CASE greater = {}
  BY <1>1, AddToTailLists DEF InsertSorted, AddToTail
<1>2. CASE greater # {}
  <2>1. Len(queue) \in Nat /\ DOMAIN queue = 1 .. Len(queue)
    BY LenProperties DEF Lists
  <2>2. greater \in SUBSET Nat
    BY <2>1
  <2>3. \E x \in greater : \A y \in greater : x <= y
    BY <1>2, <2>2, LeastNat
  <2>4. Min(greater) \in greater
    BY <2>3 DEF Min
  <2>5. PICK m : m = Min(greater)
    OBVIOUS
  <2>6. m \in 1 .. Len(queue)
    BY <2>1, <2>4, <2>5
  <2>7. InsertSorted(queue, p, score)
          = SubSeq(queue, 1, m - 1) \o <<p>> \o SubSeq(queue, m, Len(queue))
    BY <1>2, <2>5 DEF InsertSorted, InsertAt
  <2>8. /\ Lists(SubSeq(queue, 1, m - 1), Stretch(queue, 1, m - 1))
        /\ Lists(SubSeq(queue, m, Len(queue)), Stretch(queue, m, Len(queue)))
    <3>1. /\ 1 \in 1 .. Len(queue) + 1 /\ m - 1 \in 0 .. Len(queue)
          /\ m \in 1 .. Len(queue) + 1 /\ Len(queue) \in 0 .. Len(queue)
      BY <2>1, <2>6
    <3> QED BY <3>1, ListsSubSeq
  <2>9. \A i \in 1 .. Len(queue) : queue[i] \in set
    BY ElementOfSeq DEF Lists
  <2>10. p \notin Stretch(queue, 1, m - 1)
    BY <2>1, <2>6, <2>9 DEF Stretch
  <2>11. Lists(SubSeq(queue, 1, m - 1) \o <<p>>, Stretch(queue, 1, m - 1) \cup {p})
    BY <2>8, <2>10, ListsOne, ListsConcat
  <2>12. (Stretch(queue, 1, m - 1) \cup {p}) \cap Stretch(queue, m, Len(queue)) = {}
    <3>1. \A i \in 1 .. m - 1, j \in m .. Len(queue) : queue[i] # queue[j]
      BY <2>1, <2>6 DEF Lists
    <3>2. \A j \in m .. Len(queue) : queue[j] # p
      BY <2>1, <2>6, <2>9
    <3> QED BY <3>1, <3>2 DEF Stretch
  <2>13. Lists(SubSeq(queue, 1, m - 1) \o <<p>> \o SubSeq(queue, m, Len(queue)),
               (Stretch(queue, 1, m - 1) \cup {p}) \cup Stretch(queue, m, Len(queue)))
    BY <2>8, <2>11, <2>12, ListsConcat
  <2>14. Stretch(queue, 1, m - 1) \cup Stretch(queue, m, Len(queue)) = set
    <3>1. \A i \in 1 .. m - 1 : queue[i] \in set
      BY <2>1, <2>6, <2>9
    <3>2. \A i \in m .. Len(queue) : queue[i] \in set
      BY <2>1, <2>6, <2>9
    <3>3. ASSUME NEW q \in set
          PROVE  \/ \E i \in 1 .. m - 1 : queue[i] = q
                 \/ \E i \in m .. Len(queue) : queue[i] = q
      <4>1. PICK i \in 1 .. Len(queue) : queue[i] = q
        BY <2>1 DEF Lists
      <4> QED BY <2>1, <2>6, <4>1
    <3> QED BY <3>1, <3>2, <3>3 DEF Stretch
  <2>15. (Stretch(queue, 1, m - 1) \cup {p}) \cup Stretch(queue, m, Len(queue)) = set \cup {p}
    BY <2>14
  <2> QED BY <2>7, <2>13, <2>15
<1> QED BY <1>1, <1>2

\* The first process of least job time exists.
LEMMA ShortestIndexExists ==
  ASSUME NEW queue, NEW set, Lists(queue, set), queue # <<>>,
         NEW job_time, \A p \in set : job_time[p] \in Nat
  PROVE  /\ ShortestIndex(queue, job_time) \in 1 .. Len(queue)
         /\ \A j \in 1 .. Len(queue) :
              job_time[queue[ShortestIndex(queue, job_time)]] <= job_time[queue[j]]
<1>1. Len(queue) \in Nat \ {0} /\ DOMAIN queue = 1 .. Len(queue)
  BY LenProperties, EmptySeq DEF Lists
<1>2. \A i \in DOMAIN queue : job_time[queue[i]] \in Nat
  BY <1>1, ElementOfSeq DEF Lists
<1> DEFINE times == {job_time[queue[i]] : i \in DOMAIN queue}
<1>3. times \in SUBSET Nat /\ job_time[queue[1]] \in times
  BY <1>1, <1>2
<1>4. PICK t \in times : \A u \in times : t <= u
  BY <1>3, LeastNat
<1> DEFINE shortest == {i \in DOMAIN queue : job_time[queue[i]] = t}
<1>5. shortest \in SUBSET Nat /\ shortest # {}
  BY <1>1, <1>4
<1>6. PICK i \in shortest : \A j \in shortest : i <= j
  BY <1>5, LeastNat
<1>7. i \in DOMAIN queue /\ \A j \in DOMAIN queue :
        \/ job_time[queue[i]] < job_time[queue[j]]
        \/ job_time[queue[i]] = job_time[queue[j]] /\ i <= j
  <2>1. i \in DOMAIN queue /\ job_time[queue[i]] = t
    BY <1>6
  <2>2. ASSUME NEW j \in DOMAIN queue
        PROVE  \/ job_time[queue[i]] < job_time[queue[j]]
               \/ job_time[queue[i]] = job_time[queue[j]] /\ i <= j
    <3>1. t <= job_time[queue[j]]
      BY <1>4
    <3>2. t \in Nat /\ job_time[queue[j]] \in Nat
      BY <1>2, <1>3, <1>4
    <3>3. CASE job_time[queue[j]] = t
      BY <1>6, <2>1, <3>3
    <3>4. CASE job_time[queue[j]] # t
      BY <2>1, <3>1, <3>2, <3>4
    <3> QED BY <3>3, <3>4
  <2> QED BY <2>1, <2>2
<1>8. /\ ShortestIndex(queue, job_time) \in DOMAIN queue
      /\ \A j \in DOMAIN queue :
           \/ job_time[queue[ShortestIndex(queue, job_time)]] < job_time[queue[j]]
           \/ /\ job_time[queue[ShortestIndex(queue, job_time)]] = job_time[queue[j]]
              /\ ShortestIndex(queue, job_time) <= j
  BY <1>7 DEF ShortestIndex
<1> QED BY <1>1, <1>2, <1>8

\* The queue loses the process that is popped, wherever it stands.
THEOREM PopShortestLists ==
  ASSUME NEW queue, NEW set, Lists(queue, set), queue # <<>>,
         NEW job_time, \A p \in set : job_time[p] \in Nat
  PROVE  LET q == queue[ShortestIndex(queue, job_time)] IN
           q \in set /\ Lists(PopShortest(queue, job_time), set \ {q})
<1>1. Len(queue) \in Nat /\ DOMAIN queue = 1 .. Len(queue)
  BY LenProperties DEF Lists
<1>2. PICK m : m = ShortestIndex(queue, job_time)
  OBVIOUS
<1>3. m \in 1 .. Len(queue)
  BY <1>2, ShortestIndexExists
<1>4. PopShortest(queue, job_time) = SubSeq(queue, 1, m - 1) \o SubSeq(queue, m + 1, Len(queue))
  BY <1>2 DEF PopShortest, RemoveAt
<1>5. /\ Lists(SubSeq(queue, 1, m - 1), Stretch(queue, 1, m - 1))
      /\ Lists(SubSeq(queue, m + 1, Len(queue)), Stretch(queue, m + 1, Len(queue)))
  <2>1. /\ 1 \in 1 .. Len(queue) + 1 /\ m - 1 \in 0 .. Len(queue)
        /\ m + 1 \in 1 .. Len(queue) + 1 /\ Len(queue) \in 0 .. Len(queue)
    BY <1>1, <1>3
  <2> QED BY <2>1, ListsSubSeq
<1>6. Stretch(queue, 1, m - 1) \cap Stretch(queue, m + 1, Len(queue)) = {}
  <2>1. \A i \in 1 .. m - 1, j \in m + 1 .. Len(queue) : queue[i] # queue[j]
    BY <1>1, <1>3 DEF Lists
  <2> QED BY <2>1 DEF Stretch
<1>7. \A i \in 1 .. Len(queue) : queue[i] \in set
  BY ElementOfSeq DEF Lists
<1>8. Stretch(queue, 1, m - 1) \cup Stretch(queue, m + 1, Len(queue)) = set \ {queue[m]}
  <2>1. \A i \in 1 .. m - 1 : queue[i] \in set \ {queue[m]}
    BY <1>1, <1>3, <1>7 DEF Lists
  <2>2. \A i \in m + 1 .. Len(queue) : queue[i] \in set \ {queue[m]}
    BY <1>1, <1>3, <1>7 DEF Lists
  <2>3. ASSUME NEW q \in set \ {queue[m]}
        PROVE  \/ \E i \in 1 .. m - 1 : queue[i] = q
               \/ \E i \in m + 1 .. Len(queue) : queue[i] = q
    <3>1. PICK i \in 1 .. Len(queue) : queue[i] = q
      BY <1>1 DEF Lists
    <3> QED BY <1>1, <1>3, <3>1
  <2> QED BY <2>1, <2>2, <2>3 DEF Stretch
<1>9. queue[m] \in set
  BY <1>3, <1>7
<1>10. Lists(SubSeq(queue, 1, m - 1) \o SubSeq(queue, m + 1, Len(queue)),
             Stretch(queue, 1, m - 1) \cup Stretch(queue, m + 1, Len(queue)))
  BY <1>5, <1>6, ListsConcat
<1>11. Lists(PopShortest(queue, job_time), set \ {queue[m]})
  BY <1>4, <1>8, <1>10
<1> QED BY <1>2, <1>9, <1>11
-----------------------------------------------------------------------------
(***************************************************************************)
(* The AGING queue: each operation of it keeps a queue that is sorted by   *)
(* score sorted.                                                           *)
(***************************************************************************)
THEOREM InsertSortedSorted ==
  ASSUME NEW set, NEW queue \in Seq(set), NEW p, NEW score,
         \A q \in set \cup {p} : score[q] \in Int,
         SortedByScore(queue, score)
  PROVE  SortedByScore(InsertSorted(queue, p, score), score)
<1> DEFINE greater == {i \in DOMAIN queue : score[queue[i]] > score[p]}
<1>1. /\ Len(queue) \in Nat /\ DOMAIN queue = 1 .. Len(queue) /\ score[p] \in Int
      /\ \A i \in 1 .. Len(queue) : score[queue[i]] \in Int
  BY LenProperties, ElementOfSeq
<1>2. CASE greater = {}
  <2>1. PICK result : result = Append(queue, p)
    OBVIOUS
  <2>2. /\ DOMAIN result = 1 .. Len(queue) + 1
        /\ \A i \in 1 .. Len(queue) : result[i] = queue[i]
        /\ result[Len(queue) + 1] = p
    <3>1. queue \in Seq(set \cup {p}) /\ p \in set \cup {p}
      BY SeqMonotonic
    <3> QED BY <2>1, <3>1, AppendProperties, LenProperties
  <2>3. \A i \in 1 .. Len(queue) : score[queue[i]] <= score[p]
    BY <1>1, <1>2
  <2>4. SortedByScore(result, score)
    <3> SUFFICES ASSUME NEW i \in 1 .. Len(queue) + 1, NEW j \in 1 .. Len(queue) + 1, i < j
                 PROVE  score[result[i]] <= score[result[j]]
      BY <2>2 DEF SortedByScore
    <3>1. i \in 1 .. Len(queue)
      BY <1>1
    <3>2. CASE j = Len(queue) + 1
      BY <2>2, <2>3, <3>1, <3>2
    <3>3. CASE j # Len(queue) + 1
      <4>1. j \in 1 .. Len(queue)
        BY <1>1, <3>3
      <4> QED BY <1>1, <2>2, <3>1, <4>1 DEF SortedByScore
    <3> QED BY <3>2, <3>3
  <2> QED BY <1>2, <2>1, <2>4 DEF InsertSorted
<1>3. CASE greater # {}
  <2>1. greater \in SUBSET Nat
    BY <1>1
  <2>2. PICK m : m = Min(greater)
    OBVIOUS
  <2>3. m \in greater /\ \A y \in greater : m <= y
    <3>1. \E x \in greater : \A y \in greater : x <= y
      BY <1>3, <2>1, LeastNat
    <3> QED BY <2>2, <3>1 DEF Min
  <2>4. m \in 1 .. Len(queue) /\ score[queue[m]] > score[p]
    BY <1>1, <2>3
  <2>5. \A i \in 1 .. Len(queue) : i < m => score[queue[i]] <= score[p]
    <3> SUFFICES ASSUME NEW i \in 1 .. Len(queue), i < m, ~(score[queue[i]] <= score[p])
                 PROVE  FALSE
      OBVIOUS
    <3>1. i \in greater
      BY <1>1
    <3> QED BY <1>1, <2>3, <2>4, <3>1
  <2>6. \A i \in 1 .. Len(queue) : m <= i => score[p] <= score[queue[i]]
    <3> SUFFICES ASSUME NEW i \in 1 .. Len(queue), m <= i
                 PROVE  score[p] <= score[queue[i]]
      OBVIOUS
    <3>1. score[queue[m]] <= score[queue[i]]
      BY <1>1, <2>4 DEF SortedByScore
    <3> QED BY <1>1, <2>4, <3>1
  <2>7. PICK result :
          result = SubSeq(queue, 1, m - 1) \o <<p>> \o SubSeq(queue, m, Len(queue))
    OBVIOUS
  <2>8. /\ DOMAIN result = 1 .. Len(queue) + 1
        /\ \A i \in 1 .. Len(queue) + 1 :
             result[i] = IF i < m THEN queue[i] ELSE IF i = m THEN p ELSE queue[i - 1]
    <3>1. /\ m \in Int /\ m - 1 \in Int /\ 1 \in Int /\ Len(queue) \in Int
          /\ \A i \in 1 .. m - 1 : queue[i] \in set
          /\ \A i \in m .. Len(queue) : queue[i] \in set
      BY <1>1, <2>4, ElementOfSeq
    <3>2. PICK front : front = SubSeq(queue, 1, m - 1)
      OBVIOUS
    <3>3. PICK back : back = SubSeq(queue, m, Len(queue))
      OBVIOUS
    <3>4. /\ front \in Seq(set) /\ Len(front) = m - 1
          /\ \A i \in 1 .. m - 1 : front[i] = queue[i]
      BY <1>1, <2>4, <3>1, <3>2, SubSeqProperties
    <3>5. /\ back \in Seq(set) /\ Len(back) = Len(queue) - m + 1
          /\ \A i \in 1 .. Len(queue) - m + 1 : back[i] = queue[m + i - 1]
      BY <1>1, <2>4, <3>1, <3>3, SubSeqProperties
    <3>6. /\ front \in Seq(set \cup {p}) /\ back \in Seq(set \cup {p})
          /\ <<p>> \in Seq(set \cup {p}) /\ Len(<<p>>) = 1
      BY <3>4, <3>5, SeqMonotonic
    <3>7. PICK upto : upto = front \o <<p>>
      OBVIOUS
    <3>8. /\ upto \in Seq(set \cup {p}) /\ Len(upto) = m
          /\ \A i \in 1 .. m - 1 : upto[i] = queue[i]
          /\ upto[m] = p
      <4>1. /\ upto \in Seq(set \cup {p}) /\ Len(upto) = Len(front) + 1
            /\ \A i \in 1 .. Len(front) + 1 :
                 upto[i] = IF i <= Len(front) THEN front[i] ELSE <<p>>[i - Len(front)]
        BY <3>6, <3>7, ConcatProperties
      <4>2. m \in 1 .. Len(front) + 1 /\ ~(m <= Len(front)) /\ m - Len(front) = 1
        BY <1>1, <2>4, <3>4
      <4>3. upto[m] = p
        BY <4>1, <4>2
      <4>4. \A i \in 1 .. m - 1 : i \in 1 .. Len(front) + 1 /\ i <= Len(front)
        BY <1>1, <2>4, <3>4
      <4>5. \A i \in 1 .. m - 1 : upto[i] = queue[i]
        BY <3>4, <4>1, <4>4
      <4>6. Len(upto) = m
        BY <1>1, <2>4, <3>4, <4>1
      <4> QED BY <4>1, <4>3, <4>5, <4>6
    <3>9. /\ result \in Seq(set \cup {p}) /\ Len(result) = Len(queue) + 1
          /\ \A i \in 1 .. Len(queue) + 1 :
               result[i] = IF i <= m THEN upto[i] ELSE back[i - m]
      <4>1. result = upto \o back
        BY <2>7, <3>2, <3>3, <3>7
      <4>0. upto \in Seq(set \cup {p}) /\ back \in Seq(set \cup {p})
        BY <3>6, <3>8
      <4>2. /\ result \in Seq(set \cup {p}) /\ Len(result) = Len(upto) + Len(back)
            /\ \A i \in 1 .. Len(upto) + Len(back) :
                 result[i] = IF i <= Len(upto) THEN upto[i] ELSE back[i - Len(upto)]
        BY <4>0, <4>1, ConcatProperties
      <4>3. Len(upto) + Len(back) = Len(queue) + 1
        BY <1>1, <2>4, <3>5, <3>8
      <4> QED BY <3>8, <4>2, <4>3
    <3>10. \A i \in 1 .. Len(queue) + 1 : i > m => back[i - m] = queue[i - 1]
      <4> SUFFICES ASSUME NEW i \in 1 .. Len(queue) + 1, i > m
                   PROVE  back[i - m] = queue[i - 1]
        OBVIOUS
      <4>1. i - m \in 1 .. Len(queue) - m + 1 /\ m + (i - m) - 1 = i - 1
        BY <1>1, <2>4
      <4> QED BY <3>5, <4>1
    <3>11. ASSUME NEW i \in 1 .. Len(queue) + 1
           PROVE  result[i] = IF i < m THEN queue[i] ELSE IF i = m THEN p ELSE queue[i - 1]
      <4>1. CASE i < m
        <5>1. i \in 1 .. m - 1 /\ i <= m
          BY <1>1, <2>4, <4>1
        <5> QED BY <3>8, <3>9, <4>1, <5>1
      <4>2. CASE i = m
        BY <2>4, <3>8, <3>9, <4>2
      <4>3. CASE i > m
        BY <1>1, <2>4, <3>9, <3>10, <4>3
      <4> QED BY <1>1, <2>4, <4>1, <4>2, <4>3
    <3> QED BY <3>9, <3>11, LenProperties
  <2>9. SortedByScore(result, score)
    <3> SUFFICES ASSUME NEW i \in 1 .. Len(queue) + 1, NEW j \in 1 .. Len(queue) + 1, i < j
                 PROVE  score[result[i]] <= score[result[j]]
      BY <2>8 DEF SortedByScore
    <3>1. CASE j < m
      <4>1. /\ i \in 1 .. Len(queue) /\ j \in 1 .. Len(queue)
            /\ result[i] = queue[i] /\ result[j] = queue[j]
        BY <1>1, <2>4, <2>8, <3>1
      <4> QED BY <1>1, <4>1 DEF SortedByScore
    <3>2. CASE i < m /\ j = m
      <4>1. i \in 1 .. Len(queue) /\ result[i] = queue[i] /\ result[j] = p
        BY <1>1, <2>4, <2>8, <3>2
      <4> QED BY <2>5, <3>2, <4>1
    <3>3. CASE i < m /\ j > m
      <4>1. /\ i \in 1 .. Len(queue) /\ j - 1 \in 1 .. Len(queue) /\ i < j - 1
            /\ result[i] = queue[i] /\ result[j] = queue[j - 1]
        BY <1>1, <2>4, <2>8, <3>3
      <4> QED BY <1>1, <4>1 DEF SortedByScore
    <3>4. CASE i = m
      <4>1. /\ j - 1 \in 1 .. Len(queue) /\ m <= j - 1
            /\ result[i] = p /\ result[j] = queue[j - 1]
        BY <1>1, <2>4, <2>8, <3>4
      <4> QED BY <2>6, <4>1
    <3>5. CASE i > m
      <4>1. /\ i - 1 \in 1 .. Len(queue) /\ j - 1 \in 1 .. Len(queue) /\ i - 1 < j - 1
            /\ result[i] = queue[i - 1] /\ result[j] = queue[j - 1]
        BY <1>1, <2>4, <2>8, <3>5
      <4> QED BY <1>1, <4>1 DEF SortedByScore
    <3> QED BY <1>1, <2>4, <3>1, <3>2, <3>3, <3>4, <3>5
  <2>10. InsertSorted(queue, p, score) = result
    BY <1>3, <2>2, <2>7 DEF InsertSorted, InsertAt
  <2> QED BY <2>9, <2>10
<1> QED BY <1>2, <1>3

\* A process whose score is no greater than that of the head may go before it.
THEOREM AddToHeadSorted ==
  ASSUME NEW set, NEW queue \in Seq(set), NEW p, NEW score,
         \A q \in set \cup {p} : score[q] \in Int,
         SortedByScore(queue, score),
         queue = <<>> \/ score[p] <= score[Head(queue)]
  PROVE  SortedByScore(AddToHead(queue, p), score)
<1>1. /\ Len(queue) \in Nat /\ DOMAIN queue = 1 .. Len(queue) /\ score[p] \in Int
      /\ \A i \in 1 .. Len(queue) : score[queue[i]] \in Int
  BY LenProperties, ElementOfSeq
<1>2. \A i \in 1 .. Len(queue) : score[p] <= score[queue[i]]
  <2> SUFFICES ASSUME NEW i \in 1 .. Len(queue) PROVE score[p] <= score[queue[i]]
    OBVIOUS
  <2>1. queue # <<>> /\ 1 \in 1 .. Len(queue)
    BY <1>1, EmptySeq
  <2>2. Head(queue) = queue[1]
    BY <2>1
  <2>3. score[queue[1]] <= score[queue[i]]
    BY <1>1, <2>1 DEF SortedByScore
  <2> QED BY <1>1, <2>1, <2>2, <2>3
<1>3. PICK result : result = <<p>> \o queue
  OBVIOUS
<1>4. /\ DOMAIN result = 1 .. Len(queue) + 1 /\ result[1] = p
      /\ \A i \in 2 .. Len(queue) + 1 : result[i] = queue[i - 1]
  <2>1. queue \in Seq(set \cup {p}) /\ <<p>> \in Seq(set \cup {p}) /\ Len(<<p>>) = 1
    BY SeqMonotonic
  <2> QED BY <1>1, <1>3, <2>1, ConcatProperties, LenProperties
<1>5. SortedByScore(result, score)
  <2> SUFFICES ASSUME NEW i \in 1 .. Len(queue) + 1, NEW j \in 1 .. Len(queue) + 1, i < j
               PROVE  score[result[i]] <= score[result[j]]
    BY <1>4 DEF SortedByScore
  <2>1. j - 1 \in 1 .. Len(queue) /\ result[j] = queue[j - 1]
    BY <1>1, <1>4
  <2>2. CASE i = 1
    BY <1>2, <1>4, <2>1, <2>2
  <2>3. CASE i # 1
    <3>1. i - 1 \in 1 .. Len(queue) /\ result[i] = queue[i - 1] /\ i - 1 < j - 1
      BY <1>1, <1>4, <2>3
    <3> QED BY <1>1, <2>1, <3>1 DEF SortedByScore
  <2> QED BY <2>2, <2>3
<1> QED BY <1>3, <1>5 DEF AddToHead

THEOREM PopHeadSorted ==
  ASSUME NEW set, NEW queue \in Seq(set), NEW score, queue # <<>>, SortedByScore(queue, score)
  PROVE  SortedByScore(PopHead(queue), score)
<1>1. Len(queue) \in Nat \ {0} /\ DOMAIN queue = 1 .. Len(queue)
  BY LenProperties, EmptySeq
<1>2. /\ DOMAIN Tail(queue) = 1 .. Len(queue) - 1
      /\ \A i \in 1 .. Len(queue) - 1 : Tail(queue)[i] = queue[i + 1]
  BY <1>1, HeadTailProperties, LenProperties
<1> SUFFICES ASSUME NEW i \in 1 .. Len(queue) - 1, NEW j \in 1 .. Len(queue) - 1, i < j
             PROVE  score[Tail(queue)[i]] <= score[Tail(queue)[j]]
  BY <1>2 DEF SortedByScore, PopHead
<1>3. i + 1 \in 1 .. Len(queue) /\ j + 1 \in 1 .. Len(queue) /\ i + 1 < j + 1
  BY <1>1
<1> QED BY <1>1, <1>2, <1>3 DEF SortedByScore

\* Ageing all of the queue keeps its order, down to zero where scores meet.
THEOREM AgeAllSorted ==
  ASSUME NEW queue, NEW score, \A i \in DOMAIN queue : queue[i] \in DOMAIN score,
         \A q \in DOMAIN score : score[q] \in Nat, SortedByScore(queue, score)
  PROVE  SortedByScore(queue, AgeAll(queue, score))
<1> SUFFICES ASSUME NEW i \in DOMAIN queue, NEW j \in DOMAIN queue, i < j
             PROVE  AgeAll(queue, score)[queue[i]] <= AgeAll(queue, score)[queue[j]]
  BY DEF SortedByScore
<1>1. score[queue[i]] <= score[queue[j]]
  BY DEF SortedByScore
<1>2. queue[i] \in ToSet(queue) /\ queue[j] \in ToSet(queue)
  BY DEF ToSet
<1>3. /\ AgeAll(queue, score)[queue[i]] =
           IF score[queue[i]] > 0 THEN score[queue[i]] - 1 ELSE score[queue[i]]
      /\ AgeAll(queue, score)[queue[j]] =
           IF score[queue[j]] > 0 THEN score[queue[j]] - 1 ELSE score[queue[j]]
  BY <1>2 DEF AgeAll
<1>4. score[queue[i]] \in Nat /\ score[queue[j]] \in Nat
  OBVIOUS
<1> QED BY <1>1, <1>3, <1>4
=============================================================================
