------------------------ MODULE ReadyQueueListProofs ------------------------
(***************************************************************************)
(* For any number of processes the linked list stays intact and implements *)
(* the queue.  An operation puts one process into the list at some place,  *)
(* or takes one out; Inserted and Removed say what that does to the        *)
(* sequence, to its elements and to the pointers that spell it out.        *)
(***************************************************************************)
EXTENDS ReadyQueueList, SequenceTheorems, FiniteSetTheorems, WellFoundedInduction, TLAPS

\* s has every element of W once, and nothing else.
Order(s, W) ==
  /\ s \in Seq(W)
  /\ \A p \in W : \E i \in 1 .. Len(s) : s[i] = p
  /\ \A i, j \in 1 .. Len(s) : s[i] = s[j] => i = j

\* The node at place i of the list, and what the pointers have to be.
Node(s, i) == IF i \in 1 .. Len(s) THEN s[i] ELSE NULL

Linked(s, first, last, link) ==
  /\ first = Node(s, 1) /\ last = Node(s, Len(s))
  /\ \A i \in 1 .. Len(s) : link[s[i]] = Node(s, i + 1)

Inserted(s, i, p) ==
  [j \in 1 .. Len(s) + 1 |-> IF j < i THEN s[j] ELSE IF j = i THEN p ELSE s[j - 1]]

Removed(s, i) == [j \in 1 .. Len(s) - 1 |-> IF j < i THEN s[j] ELSE s[j + 1]]
-----------------------------------------------------------------------------
LEMMA OrderType ==
  ASSUME NEW s, NEW W, Order(s, W)
  PROVE  /\ s \in Seq(W) /\ Len(s) \in Nat /\ DOMAIN s = 1 .. Len(s)
         /\ s = [i \in 1 .. Len(s) |-> s[i]]
         /\ \A i \in 1 .. Len(s) : s[i] \in W
<1>1. s \in Seq(W) /\ Len(s) \in Nat /\ DOMAIN s = 1 .. Len(s) /\ s \in [1 .. Len(s) -> W]
  BY LenProperties DEF Order
<1> QED BY <1>1

LEMMA InsertedOrder ==
  ASSUME NEW s, NEW W, Order(s, W), NEW i \in 1 .. Len(s) + 1, NEW p, p \notin W
  PROVE  Order(Inserted(s, i, p), W \cup {p}) /\ Len(Inserted(s, i, p)) = Len(s) + 1
<1>1. PICK t : t = Inserted(s, i, p)
  OBVIOUS
<1>2. Len(s) \in Nat /\ i \in Nat /\ \A k \in 1 .. Len(s) : s[k] \in W
  BY OrderType
<1>3. t \in [1 .. Len(s) + 1 -> W \cup {p}]
  BY <1>1, <1>2 DEF Inserted
<1>4. t \in Seq(W \cup {p}) /\ Len(t) = Len(s) + 1
  BY <1>2, <1>3, SeqDef
<1>5. \A j \in 1 .. Len(s) + 1 : t[j] = IF j < i THEN s[j] ELSE IF j = i THEN p ELSE s[j - 1]
  BY <1>1 DEF Inserted
<1>6. ASSUME NEW q \in W \cup {p} PROVE \E j \in 1 .. Len(s) + 1 : t[j] = q
  <2>1. CASE q = p
    BY <1>2, <1>5, <2>1
  <2>2. CASE q \in W
    <3>1. PICK k \in 1 .. Len(s) : s[k] = q
      BY <2>2 DEF Order
    <3>2. CASE k < i
      BY <1>2, <1>5, <3>1, <3>2
    <3>3. CASE ~(k < i)
      <4>1. k + 1 \in 1 .. Len(s) + 1 /\ ~(k + 1 < i) /\ k + 1 # i /\ k + 1 - 1 = k
        BY <1>2, <3>1, <3>3
      <4>2. t[k + 1] = q
        BY <1>5, <3>1, <4>1
      <4> QED BY <4>1, <4>2
    <3> QED BY <3>2, <3>3
  <2> QED BY <2>1, <2>2
<1>7. ASSUME NEW j \in 1 .. Len(s) + 1, NEW k \in 1 .. Len(s) + 1, t[j] = t[k] PROVE j = k
  <2>1. ASSUME NEW n \in 1 .. Len(s) + 1, n # i PROVE t[n] \in W
    <3>1. CASE n < i
      BY <1>2, <1>5, <3>1
    <3>2. CASE ~(n < i)
      <4>1. n - 1 \in 1 .. Len(s)
        BY <1>2, <2>1, <3>2
      <4> QED BY <1>2, <1>5, <2>1, <3>2, <4>1
    <3> QED BY <3>1, <3>2
  <2>2. CASE j = i \/ k = i
    BY <1>5, <1>7, <2>1, <2>2
  <2>3. CASE j # i /\ k # i
    <3>1. PICK m \in 1 .. Len(s) : m = (IF j < i THEN j ELSE j - 1)
      BY <1>2, <2>3
    <3>2. PICK n \in 1 .. Len(s) : n = (IF k < i THEN k ELSE k - 1)
      BY <1>2, <2>3
    <3>3. s[m] = s[n]
      BY <1>5, <1>7, <2>3, <3>1, <3>2
    <3>4. m = n
      BY <3>3 DEF Order
    <3> QED BY <1>2, <2>3, <3>1, <3>2, <3>4
  <2> QED BY <2>2, <2>3
<1> QED BY <1>1, <1>4, <1>6, <1>7 DEF Order

LEMMA RemovedOrder ==
  ASSUME NEW s, NEW W, Order(s, W), NEW i \in 1 .. Len(s)
  PROVE  Order(Removed(s, i), W \ {s[i]}) /\ Len(Removed(s, i)) = Len(s) - 1
<1>1. PICK t : t = Removed(s, i)
  OBVIOUS
<1>2. Len(s) \in Nat /\ i \in Nat /\ \A k \in 1 .. Len(s) : s[k] \in W
  BY OrderType
<1>3. \A j \in 1 .. Len(s) - 1 : t[j] = IF j < i THEN s[j] ELSE s[j + 1]
  BY <1>1 DEF Removed
<1>4. \A j \in 1 .. Len(s) : j # i => s[j] \in W \ {s[i]}
  BY <1>2 DEF Order
<1>5. t \in [1 .. Len(s) - 1 -> W \ {s[i]}]
  <2>1. ASSUME NEW j \in 1 .. Len(s) - 1 PROVE t[j] \in W \ {s[i]}
    <3>1. CASE j < i
      BY <1>2, <1>3, <1>4, <3>1
    <3>2. CASE ~(j < i)
      <4>1. j + 1 \in 1 .. Len(s) /\ j + 1 # i
        BY <1>2, <3>2
      <4> QED BY <1>3, <1>4, <3>2, <4>1
    <3> QED BY <3>1, <3>2
  <2> QED BY <1>1, <2>1 DEF Removed
<1>6. t \in Seq(W \ {s[i]}) /\ Len(t) = Len(s) - 1
  <2>1. Len(s) - 1 \in Nat
    BY <1>2
  <2> QED BY <1>5, <2>1, SeqDef
<1>7. ASSUME NEW q \in W \ {s[i]} PROVE \E j \in 1 .. Len(s) - 1 : t[j] = q
  <2>1. PICK k \in 1 .. Len(s) : s[k] = q
    BY DEF Order
  <2>2. CASE k < i
    BY <1>2, <1>3, <2>1, <2>2
  <2>3. CASE ~(k < i)
    <3>1. k - 1 \in 1 .. Len(s) - 1 /\ ~(k - 1 < i) /\ k - 1 + 1 = k
      BY <1>2, <2>1, <2>3
    <3>2. t[k - 1] = q
      BY <1>3, <2>1, <3>1
    <3> QED BY <3>1, <3>2
  <2> QED BY <2>2, <2>3
<1>8. ASSUME NEW j \in 1 .. Len(s) - 1, NEW k \in 1 .. Len(s) - 1, t[j] = t[k] PROVE j = k
  <2>1. PICK m \in 1 .. Len(s) : m = (IF j < i THEN j ELSE j + 1)
    BY <1>2
  <2>2. PICK n \in 1 .. Len(s) : n = (IF k < i THEN k ELSE k + 1)
    BY <1>2
  <2>3. s[m] = s[n]
    BY <1>3, <1>8, <2>1, <2>2
  <2>4. m = n
    BY <2>3 DEF Order
  <2> QED BY <1>2, <2>1, <2>2, <2>4
<1> QED BY <1>1, <1>6, <1>7, <1>8 DEF Order
-----------------------------------------------------------------------------
\* A process put in at place i: one pointer to it and one from it.
LEMMA InsertedLinked ==
  ASSUME NEW s, NEW W, Order(s, W), NULL \notin W,
         NEW i \in 1 .. Len(s) + 1, NEW p, p \notin W,
         NEW h, NEW l, NEW n, Linked(s, h, l, n),
         NEW h2, h2 = IF i = 1 THEN p ELSE h,
         NEW l2, l2 = IF i = Len(s) + 1 THEN p ELSE l,
         NEW n2, n2[p] = Node(s, i),
         \A q \in W : n2[q] = IF i # 1 /\ q = s[i - 1] THEN p ELSE n[q]
  PROVE  Linked(Inserted(s, i, p), h2, l2, n2)
<1>1. PICK t : t = Inserted(s, i, p)
  OBVIOUS
<1>2. Len(s) \in Nat /\ i \in Nat /\ \A k \in 1 .. Len(s) : s[k] \in W
  BY OrderType
<1>3. Len(t) = Len(s) + 1
  BY <1>1, InsertedOrder
<1>4. \A j \in 1 .. Len(s) + 1 : t[j] = IF j < i THEN s[j] ELSE IF j = i THEN p ELSE s[j - 1]
  BY <1>1 DEF Inserted
<1>5. h2 = Node(t, 1)
  <2>1. CASE i = 1
    BY <1>2, <1>3, <1>4, <2>1 DEF Node
  <2>2. CASE i # 1
    <3>1. 1 \in 1 .. Len(s) /\ 1 \in 1 .. Len(s) + 1 /\ 1 < i
      BY <1>2, <2>2
    <3> QED BY <1>3, <1>4, <2>2, <3>1 DEF Node, Linked
  <2> QED BY <2>1, <2>2
<1>6. l2 = Node(t, Len(t))
  <2>1. CASE i = Len(s) + 1
    BY <1>2, <1>3, <1>4, <2>1 DEF Node
  <2>2. CASE i # Len(s) + 1
    <3>1. /\ Len(s) \in 1 .. Len(s) /\ Len(s) + 1 \in 1 .. Len(s) + 1
          /\ ~(Len(s) + 1 < i) /\ Len(s) + 1 - 1 = Len(s)
      BY <1>2, <2>2
    <3>2. t[Len(s) + 1] = s[Len(s)]
      BY <1>4, <2>2, <3>1
    <3> QED BY <1>3, <2>2, <3>1, <3>2 DEF Node, Linked
  <2> QED BY <2>1, <2>2
<1>7. ASSUME NEW j \in 1 .. Len(s) + 1 PROVE n2[t[j]] = Node(t, j + 1)
  <2>1. CASE j = i
    <3>1. t[j] = p
      BY <1>4, <2>1
    <3>2. Node(t, j + 1) = Node(s, i)
      <4>1. CASE i = Len(s) + 1
        BY <1>2, <1>3, <2>1, <4>1 DEF Node
      <4>2. CASE i # Len(s) + 1
        <5>1. j + 1 \in 1 .. Len(s) + 1 /\ ~(j + 1 < i) /\ j + 1 # i /\ j + 1 - 1 = i /\ i \in 1 .. Len(s)
          BY <1>2, <2>1, <4>2
        <5> QED BY <1>3, <1>4, <5>1 DEF Node
      <4> QED BY <4>1, <4>2
    <3> QED BY <3>1, <3>2
  <2>2. CASE j < i
    <3>1. j \in 1 .. Len(s) /\ t[j] = s[j] /\ s[j] \in W
      BY <1>2, <1>4, <2>2
    <3>2. CASE j = i - 1
      <4>1. i # 1 /\ j + 1 = i /\ j + 1 \in 1 .. Len(s) + 1
        BY <1>2, <3>2
      <4>2. n2[s[j]] = p
        BY <3>1, <3>2, <4>1
      <4>3. Node(t, j + 1) = p
        BY <1>3, <1>4, <4>1 DEF Node
      <4> QED BY <3>1, <4>2, <4>3
    <3>3. CASE j # i - 1
      <4>1. i # 1 => i - 1 \in 1 .. Len(s)
        BY <1>2
      <4>2. ~(i # 1 /\ s[j] = s[i - 1])
        BY <3>1, <3>3, <4>1 DEF Order
      <4>3. n2[s[j]] = Node(s, j + 1)
        BY <3>1, <4>2 DEF Linked
      <4>4. j + 1 \in 1 .. Len(s) /\ j + 1 \in 1 .. Len(s) + 1 /\ j + 1 < i
        BY <1>2, <2>2, <3>3
      <4> QED BY <1>3, <1>4, <3>1, <4>3, <4>4 DEF Node
    <3> QED BY <3>2, <3>3
  <2>3. CASE ~(j < i) /\ j # i
    <3>1. j - 1 \in 1 .. Len(s) /\ t[j] = s[j - 1] /\ i <= j - 1 /\ j - 1 + 1 = j
      BY <1>2, <1>4, <2>3
    <3>2. i # 1 => i - 1 \in 1 .. Len(s) /\ i - 1 # j - 1
      BY <1>2, <3>1
    <3>3. ~(i # 1 /\ s[j - 1] = s[i - 1])
      BY <3>1, <3>2 DEF Order
    <3>4. s[j - 1] \in W /\ n[s[j - 1]] = Node(s, j)
      BY <1>2, <3>1 DEF Linked
    <3>5. n2[t[j]] = Node(s, j)
      BY <3>1, <3>3, <3>4
    <3>6. Node(t, j + 1) = Node(s, j)
      <4>1. CASE j = Len(s) + 1
        BY <1>2, <1>3, <4>1 DEF Node
      <4>2. CASE j # Len(s) + 1
        <5>1. j + 1 \in 1 .. Len(s) + 1 /\ ~(j + 1 < i) /\ j + 1 # i /\ j + 1 - 1 = j /\ j \in 1 .. Len(s)
          BY <1>2, <2>3, <4>2
        <5> QED BY <1>3, <1>4, <5>1 DEF Node
      <4> QED BY <4>1, <4>2
    <3> QED BY <3>5, <3>6
  <2> QED BY <1>2, <2>1, <2>2, <2>3
<1> QED BY <1>1, <1>3, <1>5, <1>6, <1>7 DEF Linked

\* The process at place i taken out: its predecessor points past it.
LEMMA RemovedLinked ==
  ASSUME NEW s, NEW W, Order(s, W), NULL \notin W, NEW i \in 1 .. Len(s),
         NEW h, NEW l, NEW n, Linked(s, h, l, n),
         NEW h2, h2 = IF i = 1 THEN Node(s, 2) ELSE h,
         NEW l2, l2 = IF i = Len(s) THEN Node(s, i - 1) ELSE l,
         NEW n2, \A q \in W \ {s[i]} : n2[q] = IF i # 1 /\ q = s[i - 1] THEN Node(s, i + 1) ELSE n[q]
  PROVE  Linked(Removed(s, i), h2, l2, n2)
<1>1. PICK t : t = Removed(s, i)
  OBVIOUS
<1>2. Len(s) \in Nat /\ i \in Nat /\ \A k \in 1 .. Len(s) : s[k] \in W
  BY OrderType
<1>3. Len(t) = Len(s) - 1
  BY <1>1, RemovedOrder
<1>4. \A j \in 1 .. Len(s) - 1 : t[j] = IF j < i THEN s[j] ELSE s[j + 1]
  BY <1>1 DEF Removed
\* The nodes before place i keep their places, those after it move up.
<1>5. ASSUME NEW j \in 0 .. Len(s) PROVE Node(t, j) = IF j < i THEN Node(s, j) ELSE Node(s, j + 1)
  <2>1. CASE j \in 1 .. Len(s) - 1
    <3>1. j \in 1 .. Len(s) /\ j + 1 \in 1 .. Len(s)
      BY <1>2, <2>1
    <3> QED BY <1>3, <1>4, <2>1, <3>1 DEF Node
  <2>2. CASE j = 0
    BY <1>2, <1>3, <2>2 DEF Node
  <2>3. CASE j = Len(s)
    BY <1>2, <1>3, <2>3 DEF Node
  <2> QED BY <1>2, <2>1, <2>2, <2>3
<1>6. h2 = Node(t, 1)
  <2>1. 1 \in 0 .. Len(s) /\ (1 < i <=> i # 1) /\ 1 + 1 = 2
    BY <1>2
  <2> QED BY <1>5, <2>1 DEF Linked
<1>7. l2 = Node(t, Len(t))
  <2>1. Len(s) - 1 \in 0 .. Len(s) /\ Len(s) - 1 + 1 = Len(s) /\ (Len(s) - 1 < i <=> i = Len(s))
    BY <1>2
  <2> QED BY <1>3, <1>5, <2>1 DEF Linked
<1>8. ASSUME NEW j \in 1 .. Len(s) - 1 PROVE n2[t[j]] = Node(t, j + 1)
  <2>1. PICK k \in 1 .. Len(s) : k = (IF j < i THEN j ELSE j + 1)
    BY <1>2
  <2>2. t[j] = s[k] /\ k # i
    BY <1>2, <1>4, <2>1
  <2>3. s[k] \in W \ {s[i]} /\ n[s[k]] = Node(s, k + 1)
    BY <1>2, <2>2 DEF Order, Linked
  <2>4. i # 1 => i - 1 \in 1 .. Len(s)
    BY <1>2
  <2>5. i # 1 /\ s[k] = s[i - 1] <=> k = i - 1
    <3>1. i # 1 /\ s[k] = s[i - 1] => k = i - 1
      BY <2>4 DEF Order
    <3>2. k = i - 1 => i # 1
      BY <1>2
    <3> QED BY <3>1, <3>2
  <2>6. n2[t[j]] = IF k = i - 1 THEN Node(s, i + 1) ELSE Node(s, k + 1)
    BY <2>2, <2>3, <2>5
  <2>7. j + 1 \in 0 .. Len(s)
    BY <1>2
  <2>8. Node(t, j + 1) = IF j + 1 < i THEN Node(s, j + 1) ELSE Node(s, j + 1 + 1)
    BY <1>5, <2>7
  <2>9. CASE k = i - 1
    <3>1. ~(j + 1 < i) /\ j + 1 + 1 = i + 1
      BY <1>2, <2>1, <2>9
    <3> QED BY <2>6, <2>8, <2>9, <3>1
  <2>10. CASE k # i - 1
    <3>1. k + 1 = IF j + 1 < i THEN j + 1 ELSE j + 1 + 1
      BY <1>2, <2>1, <2>2, <2>10
    <3> QED BY <2>6, <2>8, <2>10, <3>1
  <2> QED BY <2>9, <2>10
<1> QED BY <1>1, <1>3, <1>6, <1>7, <1>8 DEF Linked
-----------------------------------------------------------------------------
\* Sets of natural numbers have a least element.
LessOnNat == {ss \in Nat \X Nat : ss[1] < ss[2]}

LEMMA LeastNat ==
  ASSUME NEW T \in SUBSET Nat, T # {}
  PROVE  \E x \in T : \A y \in T : x <= y
<1>1. IsWellFoundedOn(LessOnNat, Nat)
  BY NatLessThanWellFounded DEF OpToRel, LessOnNat
<1>2. PICK x \in T : \A y \in T : ~(<<y, x>> \in LessOnNat)
  BY <1>1, WFMin
<1>3. ASSUME NEW y \in T PROVE x <= y
  <2>1. x \in Nat /\ y \in Nat
    OBVIOUS
  <2>2. <<y, x>> \notin LessOnNat
    BY <1>2
  <2> QED BY <2>1, <2>2 DEF LessOnNat
<1> QED BY <1>3

\* The pointers spell out one sequence only: two would differ first behind a
\* common node, whose pointer leads to the next node of both.
LEMMA LinkedOnce ==
  ASSUME NEW s, NEW t, NEW W, Order(s, W), Order(t, W), NULL \notin W,
         NEW h, NEW l, NEW n, Linked(s, h, l, n), Linked(t, h, l, n)
  PROVE  s = t
<1>1. /\ Len(s) \in Nat /\ s = [i \in 1 .. Len(s) |-> s[i]] /\ \A i \in 1 .. Len(s) : s[i] \in W
      /\ Len(t) \in Nat /\ t = [i \in 1 .. Len(t) |-> t[i]] /\ \A i \in 1 .. Len(t) : t[i] \in W
  BY OrderType
<1> DEFINE T == {k \in Nat \ {0} : Node(s, k) # Node(t, k)}
<1>2. T = {}
  <2> SUFFICES ASSUME T # {} PROVE FALSE
    OBVIOUS
  <2>1. PICK k \in T : \A y \in T : k <= y
    BY LeastNat
  <2>2. k # 1
    BY <2>1 DEF Linked
  <2>3. k - 1 \in Nat \ {0} /\ Node(s, k - 1) = Node(t, k - 1)
    BY <2>1, <2>2
  <2>4. CASE k - 1 \in 1 .. Len(s)
    <3>1. k - 1 \in 1 .. Len(t) /\ s[k - 1] = t[k - 1]
      BY <1>1, <2>3, <2>4 DEF Node
    <3>2. n[s[k - 1]] = Node(s, k) /\ n[t[k - 1]] = Node(t, k)
      <4>1. k - 1 + 1 = k
        BY <2>1
      <4> QED BY <2>4, <3>1, <4>1 DEF Linked
    <3> QED BY <2>1, <3>1, <3>2
  <2>5. CASE k - 1 \notin 1 .. Len(s)
    <3>1. k - 1 \notin 1 .. Len(t)
      BY <1>1, <2>3, <2>5 DEF Node
    <3>2. k \notin 1 .. Len(s) /\ k \notin 1 .. Len(t)
      BY <1>1, <2>1, <2>3, <2>5, <3>1
    <3> QED BY <2>1, <3>2 DEF Node
  <2> QED BY <2>4, <2>5
<1>3. \A k \in Nat \ {0} : Node(s, k) = Node(t, k)
  BY <1>2
<1>4. Len(s) = Len(t)
  <2>1. CASE Len(s) < Len(t)
    <3>1. Len(s) + 1 \in 1 .. Len(t) /\ Len(s) + 1 \in Nat \ {0} /\ Len(s) + 1 \notin 1 .. Len(s)
      BY <1>1, <2>1
    <3> QED BY <1>1, <1>3, <3>1 DEF Node
  <2>2. CASE Len(t) < Len(s)
    <3>1. Len(t) + 1 \in 1 .. Len(s) /\ Len(t) + 1 \in Nat \ {0} /\ Len(t) + 1 \notin 1 .. Len(t)
      BY <1>1, <2>2
    <3> QED BY <1>1, <1>3, <3>1 DEF Node
  <2>3. Len(s) \in Nat /\ Len(t) \in Nat
    BY <1>1
  <2> QED BY <2>1, <2>2, <2>3
<1>5. \A i \in 1 .. Len(s) : s[i] = t[i]
  BY <1>1, <1>3, <1>4 DEF Node
<1> QED BY <1>1, <1>4, <1>5
-----------------------------------------------------------------------------
LEMMA OrdersAre == \A s : s \in Orders <=> Order(s, Processes \ loose)
<1> DEFINE W == Processes \ loose
<1>1. IsFiniteSet(W) /\ Cardinality(W) \in Nat
  BY ListAssumption, FS_Subset, FS_CardinalityType
<1>2. ASSUME NEW s \in Orders PROVE Order(s, W)
  <2>1. s \in [1 .. Cardinality(W) -> W] /\ {s[i] : i \in DOMAIN s} = W
    BY DEF Orders
  <2> HIDE DEF W
  <2>2. s \in Seq(W) /\ Len(s) = Cardinality(W)
    BY <1>1, <2>1, SeqDef
  <2>3. \A p \in W : \E i \in 1 .. Cardinality(W) : s[i] = p
    BY <2>1
  <2>4. s \in Surjection(1 .. Cardinality(W), W)
    BY <2>1, <2>3 DEF Surjection
  <2>5. IsFiniteSet(1 .. Cardinality(W)) /\ Cardinality(1 .. Cardinality(W)) = Cardinality(W)
    BY <1>1, FS_Interval
  <2>6. s \in Injection(1 .. Cardinality(W), W)
    BY <2>4, <2>5, FS_SurjSameCardinalityImpliesInj
  <2>7. \A i, j \in 1 .. Cardinality(W) : s[i] = s[j] => i = j
    BY <2>6 DEF Injection, IsInjective
  <2> QED BY <2>2, <2>3, <2>7 DEF Order
<1>3. ASSUME NEW s, Order(s, W) PROVE s \in Orders
  <2>1. Len(s) \in Nat /\ DOMAIN s = 1 .. Len(s) /\ s \in [1 .. Len(s) -> W] /\ \A i \in 1 .. Len(s) : s[i] \in W
    BY <1>3, LenProperties, OrderType DEF Order
  <2> HIDE DEF W
  <2>2. s \in Bijection(1 .. Len(s), W)
    BY <1>3, <2>1 DEF Order, Bijection, Injection, Surjection, IsInjective
  <2>3. IsFiniteSet(1 .. Len(s)) /\ Cardinality(1 .. Len(s)) = Len(s)
    BY <2>1, FS_Interval
  <2>4. Cardinality(W) = Len(s)
    BY <2>2, <2>3, FS_Bijection DEF ExistsBijection
  <2>5. {s[i] : i \in DOMAIN s} = W
    BY <1>3, <2>1 DEF Order
  <2> QED BY <2>1, <2>4, <2>5 DEF Orders, W
<1> QED BY <1>2, <1>3

LEMMA SpellsAre ==
  \A s : Order(s, Processes \ loose) => (Spells(s) <=> Linked(s, head, tail, next))
<1> SUFFICES ASSUME NEW s, Order(s, Processes \ loose)
             PROVE  Spells(s) <=> Linked(s, head, tail, next)
  OBVIOUS
<1>1. Len(s) \in Nat /\ DOMAIN s = 1 .. Len(s) /\ s \in Seq(Processes \ loose)
  BY OrderType
<1>2. s = <<>> <=> Len(s) = 0
  BY <1>1, EmptySeq
<1>3. Node(s, 1) = IF s = <<>> THEN NULL ELSE s[1]
  BY <1>1, <1>2 DEF Node
<1>4. Node(s, Len(s)) = IF s = <<>> THEN NULL ELSE s[Len(s)]
  BY <1>1, <1>2 DEF Node
<1>5. ASSUME NEW i \in 1 .. Len(s) PROVE Node(s, i + 1) = IF i = Len(s) THEN NULL ELSE s[i + 1]
  <2>0. Len(s) \in Nat /\ i \in Int /\ 1 <= i /\ i <= Len(s)
    BY <1>1
  <2>1. i + 1 \in 1 .. Len(s) <=> i # Len(s)
    BY <2>0
  <2> QED BY <2>1 DEF Node
<1>6. /\ head = (IF s = <<>> THEN NULL ELSE s[1]) <=> head = Node(s, 1)
      /\ tail = (IF s = <<>> THEN NULL ELSE s[Len(s)]) <=> tail = Node(s, Len(s))
  BY <1>3, <1>4
<1>7. (\A i \in DOMAIN s : next[s[i]] = IF i = Len(s) THEN NULL ELSE s[i + 1])
        <=> \A i \in 1 .. Len(s) : next[s[i]] = Node(s, i + 1)
  BY <1>1, <1>5
<1> QED BY <1>6, <1>7 DEF Spells, Linked

\* In an intact list, Contents is the one sequence that the pointers spell out.
LEMMA ContentsAre ==
  ListIntact => Order(Contents, Processes \ loose) /\ Linked(Contents, head, tail, next)
<1> SUFFICES ASSUME ListIntact
             PROVE  Order(Contents, Processes \ loose) /\ Linked(Contents, head, tail, next)
  OBVIOUS
<1>1. Contents \in Orders /\ Spells(Contents)
  BY DEF ListIntact, Contents
<1> QED BY <1>1, OrdersAre, SpellsAre

LEMMA ContentsIs ==
  \A s : Order(s, Processes \ loose) /\ Linked(s, head, tail, next)
         => (\E t \in Orders : Spells(t)) /\ Contents = s
<1> SUFFICES ASSUME NEW s, Order(s, Processes \ loose), Linked(s, head, tail, next)
             PROVE  (\E t \in Orders : Spells(t)) /\ Contents = s
  OBVIOUS
<1>1. s \in Orders /\ Spells(s)
  BY OrdersAre, SpellsAre
<1>2. Contents \in Orders /\ Spells(Contents)
  BY <1>1 DEF Contents
<1>3. Order(Contents, Processes \ loose) /\ Linked(Contents, head, tail, next)
  BY <1>2, OrdersAre, SpellsAre
<1>4. NULL \notin Processes \ loose
  BY ListAssumption
<1>5. Contents = s
  BY <1>3, <1>4, LinkedOnce
<1> QED BY <1>1, <1>5

\* The same after a step.
LEMMA ContentsLater ==
  \A s : Order(s, Processes \ loose') /\ Linked(s, head', tail', next')
         => (\E t \in Orders : Spells(t))' /\ Contents' = s
<1>1. (\A s : Order(s, Processes \ loose) /\ Linked(s, head, tail, next)
         => (\E t \in Orders : Spells(t)) /\ Contents = s)'
  BY ContentsIs, PTL
<1> QED BY <1>1
-----------------------------------------------------------------------------
\* Where the cursors of a loop stand in the list s: the search for a place has
\* passed only processes of no greater score, the scan has found the first of the
\* shortest so far, and a walk is somewhere in the list or at its end.
Seeking(s) ==
  /\ arg \in loose
  /\ \E i \in 1 .. Len(s) :
       /\ curr = s[i]
       /\ \A j \in 1 .. i : job_length_score[s[j]] <= job_length_score[arg]

Shortest(s, m, n) ==
  \A j \in 1 .. n :
    \/ job_time[s[m]] < job_time[s[j]]
    \/ job_time[s[m]] = job_time[s[j]] /\ m <= j

Scanning(s) ==
  \E i \in 1 .. Len(s) + 1, m \in 1 .. Len(s) :
    /\ curr = Node(s, i) /\ prev = Node(s, i - 1)
    /\ min_node = s[m] /\ min_prev = Node(s, m - 1)
    /\ m <= i /\ Shortest(s, m, i - 1)

Walking(s) == \E i \in 1 .. Len(s) + 1 : curr = Node(s, i)

ListInv ==
  /\ TypeOK /\ ListIntact
  /\ loop = "seek" => Seeking(Contents)
  /\ loop = "scan" => Scanning(Contents)
  /\ loop = "age" => Walking(Contents)

\* The sequence of an intact list, and what it says of the pointers.
LEMMA ListOf ==
  ASSUME ListInv, NEW s, s = Contents
  PROVE  /\ Order(s, Processes \ loose) /\ Linked(s, head, tail, next)
         /\ NULL \notin Processes \ loose /\ loose \subseteq Processes
         /\ Len(s) \in Nat /\ DOMAIN s = 1 .. Len(s) /\ s \in Seq(Processes \ loose)
         /\ \A i \in 1 .. Len(s) : s[i] \in Processes \ loose /\ s[i] # NULL
         /\ \A p \in loose : next[p] = NULL
         /\ head = NULL <=> Len(s) = 0
         /\ s = <<>> <=> Len(s) = 0
<1>1. Order(s, Processes \ loose) /\ Linked(s, head, tail, next)
  BY ContentsAre DEF ListInv
<1>2. NULL \notin Processes /\ loose \subseteq Processes /\ \A p \in loose : next[p] = NULL
  BY ListAssumption DEF ListInv, TypeOK, ListIntact
<1>3. /\ Len(s) \in Nat /\ DOMAIN s = 1 .. Len(s) /\ s \in Seq(Processes \ loose)
      /\ \A i \in 1 .. Len(s) : s[i] \in Processes \ loose /\ s[i] # NULL
  BY <1>1, <1>2, OrderType
<1>4. head = NULL <=> Len(s) = 0
  <2>1. Len(s) = 0 \/ 1 \in 1 .. Len(s)
    BY <1>3
  <2> QED BY <1>1, <1>3, <2>1 DEF Linked, Node
<1>5. s = <<>> <=> Len(s) = 0
  BY <1>3, EmptySeq
<1> QED BY <1>1, <1>2, <1>3, <1>4, <1>5

\* What the three kinds of steps do to the sequence.
LEMMA InsertStep ==
  ASSUME ListInv, NEW CONSTANT s, s = Contents, NEW i \in 1 .. Len(s) + 1, NEW p \in loose,
         loose' = loose \ {p},
         head' = IF i = 1 THEN p ELSE head,
         tail' = IF i = Len(s) + 1 THEN p ELSE tail,
         next'[p] = Node(s, i),
         \A q \in Processes \ {p} : next'[q] = IF i # 1 /\ q = s[i - 1] THEN p ELSE next[q]
  PROVE  Contents' = Inserted(s, i, p) /\ ListIntact'
<1>1. /\ Order(s, Processes \ loose) /\ Linked(s, head, tail, next)
      /\ NULL \notin Processes \ loose /\ loose \subseteq Processes /\ Len(s) \in Nat
      /\ \A k \in 1 .. Len(s) : s[k] \in Processes \ loose
      /\ \A q \in loose : next[q] = NULL
  BY ListOf
<1>2. p \notin Processes \ loose /\ Processes \ loose' = (Processes \ loose) \cup {p}
  BY <1>1
<1>3. Order(Inserted(s, i, p), Processes \ loose')
  BY <1>1, <1>2, InsertedOrder
<1>4. Linked(Inserted(s, i, p), head', tail', next')
  <2>1. \A q \in Processes \ loose : next'[q] = IF i # 1 /\ q = s[i - 1] THEN p ELSE next[q]
    BY <1>2
  <2> QED BY <1>1, <1>2, <2>1, InsertedLinked
<1>5. \A q \in loose' : next'[q] = NULL
  <2> SUFFICES ASSUME NEW q \in loose', i # 1, q = s[i - 1] PROVE FALSE
    BY <1>1
  <2>1. i - 1 \in 1 .. Len(s)
    BY <1>1
  <2> QED BY <1>1, <2>1
<1> QED BY <1>3, <1>4, <1>5, ContentsLater DEF ListIntact

LEMMA RemoveStep ==
  ASSUME ListInv, NEW CONSTANT s, s = Contents, NEW i \in 1 .. Len(s),
         loose' = loose \cup {s[i]},
         head' = IF i = 1 THEN Node(s, 2) ELSE head,
         tail' = IF i = Len(s) THEN Node(s, i - 1) ELSE tail,
         next'[s[i]] = NULL,
         \A q \in Processes \ {s[i]} :
           next'[q] = IF i # 1 /\ q = s[i - 1] THEN Node(s, i + 1) ELSE next[q]
  PROVE  Contents' = Removed(s, i) /\ ListIntact'
<1>1. /\ Order(s, Processes \ loose) /\ Linked(s, head, tail, next)
      /\ NULL \notin Processes \ loose /\ loose \subseteq Processes /\ Len(s) \in Nat
      /\ \A k \in 1 .. Len(s) : s[k] \in Processes \ loose
      /\ \A q \in loose : next[q] = NULL
  BY ListOf
<1>2. Processes \ loose' = (Processes \ loose) \ {s[i]}
  BY <1>1
<1>3. Order(Removed(s, i), Processes \ loose')
  BY <1>1, <1>2, RemovedOrder
<1>4. Linked(Removed(s, i), head', tail', next')
  <2>1. \A q \in (Processes \ loose) \ {s[i]} :
          next'[q] = IF i # 1 /\ q = s[i - 1] THEN Node(s, i + 1) ELSE next[q]
    BY <1>2
  <2> QED BY <1>1, <2>1, RemovedLinked
<1>5. \A q \in loose' : next'[q] = NULL
  <2> SUFFICES ASSUME NEW q \in loose, q # s[i], i # 1, q = s[i - 1] PROVE FALSE
    BY <1>1
  <2>1. i - 1 \in 1 .. Len(s)
    BY <1>1
  <2> QED BY <1>1, <2>1
<1> QED BY <1>3, <1>4, <1>5, ContentsLater DEF ListIntact

LEMMA QuietStep ==
  ASSUME ListInv, UNCHANGED <<listVars, loose>>
  PROVE  Contents' = Contents /\ ListIntact'
  BY DEF ListInv, ListIntact, Contents, Orders, Spells, listVars
-----------------------------------------------------------------------------
\* What a caller sees of the scores, unless the queue is being aged, ...
LEMMA SeenIs ==
  TypeOK /\ loop # "age" => SeenScore = job_length_score
  BY DEF TypeOK, SeenScore

LEMMA SeenLater ==
  TypeOK' /\ loop' # "age" => SeenScore' = job_length_score'
<1>1. (TypeOK /\ loop # "age" => SeenScore = job_length_score)'
  BY SeenIs, PTL
<1> QED BY <1>1

\* ... and while it is: the walk has still to visit the processes from place i on.
AgedFrom(s, i, score) ==
  [p \in Processes |->
     IF score[p] > 0 /\ \E j \in i .. Len(s) : s[j] = p THEN score[p] - 1 ELSE score[p]]

LEMMA SeenAging ==
  \A s : ListInv /\ loop = "age" /\ s = Contents
         => \A i \in 1 .. Len(s) + 1 :
              curr = Node(s, i) => SeenScore = AgedFrom(s, i, job_length_score)
<1> SUFFICES ASSUME NEW s, ListInv, loop = "age", s = Contents,
                    NEW i \in 1 .. Len(s) + 1, curr = Node(s, i)
             PROVE  SeenScore = AgedFrom(s, i, job_length_score)
  OBVIOUS
<1>1. /\ Order(s, Processes \ loose) /\ Len(s) \in Nat /\ DOMAIN s = 1 .. Len(s)
      /\ \A k \in 1 .. Len(s) : s[k] \in Processes \ loose /\ s[k] # NULL
  BY ListOf
<1>2. ASSUME NEW p \in Processes
      PROVE  p \in Ahead(curr) <=> \E j \in i .. Len(s) : s[j] = p
  <2>1. p \in Ahead(curr) <=> \E k \in 1 .. Len(s) : s[k] = p /\ \E j \in 1 .. Len(s) : j <= k /\ s[j] = curr
    BY <1>1 DEF Ahead
  <2>2. \A j \in 1 .. Len(s) : s[j] = curr <=> j = i
    BY <1>1 DEF Node, Order
  <2>3. \A k \in 1 .. Len(s) : (\E j \in 1 .. Len(s) : j <= k /\ s[j] = curr) <=> i <= k
    BY <1>1, <2>2
  <2> QED BY <1>1, <2>1, <2>3
<1> QED BY <1>2 DEF SeenScore, AgedFrom

LEMMA SeenAgingLater ==
  \A s : ListInv' /\ loop' = "age" /\ s = Contents'
         => \A i \in 1 .. Len(s) + 1 :
              curr' = Node(s, i) => SeenScore' = AgedFrom(s, i, job_length_score')
<1>1. (\A s : ListInv /\ loop = "age" /\ s = Contents
         => \A i \in 1 .. Len(s) + 1 :
              curr = Node(s, i) => SeenScore = AgedFrom(s, i, job_length_score))'
  BY SeenAging, PTL
<1> QED BY <1>1
-----------------------------------------------------------------------------
\* The operations of the queue, as one insertion or removal.
LEMMA QueueSet ==
  ASSUME NEW s, NEW W, Order(s, W)
  PROVE  Queue!ToSet(s) = W
  BY OrderType DEF Order, Queue!ToSet

LEMMA SubSeqOf ==
  ASSUME NEW s, NEW W, s \in Seq(W), NEW m \in Nat \ {0}, NEW n \in 0 .. Len(s)
  PROVE  /\ SubSeq(s, m, n) \in Seq(W)
         /\ Len(SubSeq(s, m, n)) = IF m <= n THEN n - m + 1 ELSE 0
         /\ \A j \in 1 .. n - m + 1 : SubSeq(s, m, n)[j] = s[m + j - 1]
<1>1. Len(s) \in Nat
  BY LenProperties
<1>2. \A j \in m .. n : s[j] \in W
  BY <1>1, ElementOfSeq
<1>3. m \in Int /\ n \in Int
  BY <1>1
<1> QED BY <1>2, <1>3, SubSeqProperties

\* Two sequences of the same elements are the same.
LEMMA SameSeq ==
  ASSUME NEW s, NEW W, s \in Seq(W), NEW t,
         t = [j \in 1 .. Len(s) |-> t[j]], \A j \in 1 .. Len(s) : s[j] = t[j]
  PROVE  s = t
<1>1. s = [j \in 1 .. Len(s) |-> s[j]]
  BY LenProperties
<1> QED BY <1>1

LEMMA SplitInsert ==
  ASSUME NEW s, NEW W, Order(s, W), NEW i \in 1 .. Len(s) + 1, NEW p
  PROVE  SubSeq(s, 1, i - 1) \o <<p>> \o SubSeq(s, i, Len(s)) = Inserted(s, i, p)
<1>1. Len(s) \in Nat /\ s \in Seq(W) /\ s \in Seq(W \cup {p})
  BY OrderType, SeqMonotonic
<1>2. PICK a : a = SubSeq(s, 1, i - 1)
  OBVIOUS
<1>3. PICK c : c = SubSeq(s, i, Len(s))
  OBVIOUS
<1>4. a \in Seq(W \cup {p}) /\ Len(a) = i - 1 /\ \A j \in 1 .. i - 1 : a[j] = s[j]
  <2>1. 1 \in Nat \ {0} /\ i - 1 \in 0 .. Len(s)
    BY <1>1
  <2>2. /\ SubSeq(s, 1, i - 1) \in Seq(W \cup {p})
        /\ Len(SubSeq(s, 1, i - 1)) = IF 1 <= i - 1 THEN i - 1 - 1 + 1 ELSE 0
        /\ \A j \in 1 .. i - 1 - 1 + 1 : SubSeq(s, 1, i - 1)[j] = s[1 + j - 1]
    BY <1>1, <2>1, SubSeqOf
  <2> QED BY <1>1, <1>2, <2>2
<1>5. /\ c \in Seq(W \cup {p}) /\ Len(c) = Len(s) - i + 1
      /\ \A j \in 1 .. Len(s) - i + 1 : c[j] = s[i + j - 1]
  <2>1. i \in Nat \ {0} /\ Len(s) \in 0 .. Len(s)
    BY <1>1
  <2>2. /\ SubSeq(s, i, Len(s)) \in Seq(W \cup {p})
        /\ Len(SubSeq(s, i, Len(s))) = IF i <= Len(s) THEN Len(s) - i + 1 ELSE 0
        /\ \A j \in 1 .. Len(s) - i + 1 : SubSeq(s, i, Len(s))[j] = s[i + j - 1]
    BY <1>1, <2>1, SubSeqOf
  <2> QED BY <1>1, <1>3, <2>2
<1>6. PICK d : d = a \o <<p>>
  OBVIOUS
<1>7. /\ d \in Seq(W \cup {p}) /\ Len(d) = i
      /\ \A j \in 1 .. i : d[j] = IF j < i THEN s[j] ELSE p
  <2>1. <<p>> \in Seq(W \cup {p}) /\ Len(<<p>>) = 1 /\ <<p>>[1] = p
    OBVIOUS
  <2>2. /\ d \in Seq(W \cup {p}) /\ Len(d) = Len(a) + 1
        /\ \A j \in 1 .. Len(a) + 1 : d[j] = IF j <= Len(a) THEN a[j] ELSE <<p>>[j - Len(a)]
    BY <1>4, <1>6, <2>1, ConcatProperties
  <2> QED BY <1>1, <1>4, <2>1, <2>2
<1>8. PICK t : t = d \o c
  OBVIOUS
<1>9. /\ t \in Seq(W \cup {p}) /\ Len(t) = Len(s) + 1
      /\ \A j \in 1 .. Len(s) + 1 : t[j] = IF j <= i THEN d[j] ELSE c[j - i]
  <2>1. /\ t \in Seq(W \cup {p}) /\ Len(t) = Len(d) + Len(c)
        /\ \A j \in 1 .. Len(d) + Len(c) : t[j] = IF j <= Len(d) THEN d[j] ELSE c[j - Len(d)]
    BY <1>5, <1>7, <1>8, ConcatProperties
  <2>2. Len(d) + Len(c) = Len(s) + 1
    BY <1>1, <1>5, <1>7
  <2> QED BY <1>7, <2>1, <2>2
<1>10. PICK u : u = Inserted(s, i, p)
  OBVIOUS
<1>11. /\ u = [j \in 1 .. Len(s) + 1 |-> u[j]]
       /\ \A j \in 1 .. Len(s) + 1 : u[j] = IF j < i THEN s[j] ELSE IF j = i THEN p ELSE s[j - 1]
  BY <1>10 DEF Inserted
<1>12. ASSUME NEW j \in 1 .. Len(s) + 1 PROVE t[j] = u[j]
  <2>1. CASE j <= i
    BY <1>1, <1>7, <1>9, <1>11, <2>1
  <2>2. CASE ~(j <= i)
    <3>1. j - i \in 1 .. Len(s) - i + 1 /\ i + (j - i) - 1 = j - 1 /\ ~(j < i) /\ j # i
      BY <1>1, <2>2
    <3>2. t[j] = c[j - i] /\ c[j - i] = s[j - 1]
      BY <1>5, <1>9, <2>2, <3>1
    <3> QED BY <1>11, <3>1, <3>2
  <2> QED BY <2>1, <2>2
<1>13. t = u
  BY <1>9, <1>11, <1>12, SameSeq
<1> QED BY <1>2, <1>3, <1>6, <1>8, <1>10, <1>13

LEMMA SplitRemove ==
  ASSUME NEW s, NEW W, Order(s, W), NEW i \in 1 .. Len(s)
  PROVE  SubSeq(s, 1, i - 1) \o SubSeq(s, i + 1, Len(s)) = Removed(s, i)
<1>1. Len(s) \in Nat /\ s \in Seq(W)
  BY OrderType
<1>2. PICK a : a = SubSeq(s, 1, i - 1)
  OBVIOUS
<1>3. PICK c : c = SubSeq(s, i + 1, Len(s))
  OBVIOUS
<1>4. a \in Seq(W) /\ Len(a) = i - 1 /\ \A j \in 1 .. i - 1 : a[j] = s[j]
  <2>1. 1 \in Nat \ {0} /\ i - 1 \in 0 .. Len(s)
    BY <1>1
  <2>2. /\ SubSeq(s, 1, i - 1) \in Seq(W)
        /\ Len(SubSeq(s, 1, i - 1)) = IF 1 <= i - 1 THEN i - 1 - 1 + 1 ELSE 0
        /\ \A j \in 1 .. i - 1 - 1 + 1 : SubSeq(s, 1, i - 1)[j] = s[1 + j - 1]
    BY <1>1, <2>1, SubSeqOf
  <2> QED BY <1>1, <1>2, <2>2
<1>5. /\ c \in Seq(W) /\ Len(c) = Len(s) - i
      /\ \A j \in 1 .. Len(s) - i : c[j] = s[i + j]
  <2>1. i + 1 \in Nat \ {0} /\ Len(s) \in 0 .. Len(s)
    BY <1>1
  <2>2. /\ SubSeq(s, i + 1, Len(s)) \in Seq(W)
        /\ Len(SubSeq(s, i + 1, Len(s))) = IF i + 1 <= Len(s) THEN Len(s) - (i + 1) + 1 ELSE 0
        /\ \A j \in 1 .. Len(s) - (i + 1) + 1 : SubSeq(s, i + 1, Len(s))[j] = s[i + 1 + j - 1]
    BY <1>1, <2>1, SubSeqOf
  <2>3. \A j \in 1 .. Len(s) - i : j \in 1 .. Len(s) - (i + 1) + 1 /\ i + 1 + j - 1 = i + j
    BY <1>1
  <2> QED BY <1>1, <1>3, <2>2, <2>3
<1>6. PICK t : t = a \o c
  OBVIOUS
<1>7. /\ t \in Seq(W) /\ Len(t) = Len(s) - 1
      /\ \A j \in 1 .. Len(s) - 1 : t[j] = IF j < i THEN a[j] ELSE c[j - (i - 1)]
  <2>1. /\ t \in Seq(W) /\ Len(t) = Len(a) + Len(c)
        /\ \A j \in 1 .. Len(a) + Len(c) : t[j] = IF j <= Len(a) THEN a[j] ELSE c[j - Len(a)]
    BY <1>4, <1>5, <1>6, ConcatProperties
  <2>2. Len(a) + Len(c) = Len(s) - 1 /\ \A j \in 1 .. Len(s) - 1 : j <= Len(a) <=> j < i
    BY <1>1, <1>4, <1>5
  <2> QED BY <1>4, <2>1, <2>2
<1>8. PICK u : u = Removed(s, i)
  OBVIOUS
<1>9. /\ u = [j \in 1 .. Len(s) - 1 |-> u[j]]
      /\ \A j \in 1 .. Len(s) - 1 : u[j] = IF j < i THEN s[j] ELSE s[j + 1]
  BY <1>8 DEF Removed
<1>10. ASSUME NEW j \in 1 .. Len(s) - 1 PROVE t[j] = u[j]
  <2>1. CASE j < i
    BY <1>1, <1>4, <1>7, <1>9, <2>1
  <2>2. CASE ~(j < i)
    <3>1. j - (i - 1) \in 1 .. Len(s) - i /\ i + (j - (i - 1)) = j + 1
      BY <1>1, <2>2
    <3> QED BY <1>5, <1>7, <1>9, <2>2, <3>1
  <2> QED BY <2>1, <2>2
<1>11. t = u
  BY <1>7, <1>9, <1>10, SameSeq
<1> QED BY <1>2, <1>3, <1>6, <1>8, <1>11

LEMMA QueueAddToTail ==
  ASSUME NEW s, NEW W, Order(s, W), NEW p
  PROVE  Queue!AddToTail(s, p) = Inserted(s, Len(s) + 1, p)
<1>1. Len(s) \in Nat /\ s \in Seq(W) /\ s \in Seq(W \cup {p})
  BY OrderType, SeqMonotonic
<1>2. PICK t : t = Append(s, p)
  OBVIOUS
<1>3. /\ t \in Seq(W \cup {p}) /\ Len(t) = Len(s) + 1
      /\ \A j \in 1 .. Len(s) : t[j] = s[j]
      /\ t[Len(s) + 1] = p
  BY <1>1, <1>2, AppendProperties
<1>4. PICK u : u = Inserted(s, Len(s) + 1, p)
  OBVIOUS
<1>5. /\ u = [j \in 1 .. Len(s) + 1 |-> u[j]]
      /\ \A j \in 1 .. Len(s) + 1 : u[j] = IF j < Len(s) + 1 THEN s[j] ELSE IF j = Len(s) + 1 THEN p ELSE s[j - 1]
  BY <1>4 DEF Inserted
<1>6. \A j \in 1 .. Len(s) + 1 : t[j] = u[j]
  BY <1>1, <1>3, <1>5
<1>7. t = u
  BY <1>3, <1>5, <1>6, SameSeq
<1> QED BY <1>2, <1>4, <1>7 DEF Queue!AddToTail

LEMMA QueueAddToHead ==
  ASSUME NEW s, NEW W, Order(s, W), NEW p
  PROVE  Queue!AddToHead(s, p) = Inserted(s, 1, p)
<1>1. Len(s) \in Nat /\ s \in Seq(W) /\ s \in Seq(W \cup {p}) /\ <<p>> \in Seq(W \cup {p})
  BY OrderType, SeqMonotonic
<1>2. PICK t : t = <<p>> \o s
  OBVIOUS
<1>3. /\ t \in Seq(W \cup {p}) /\ Len(t) = Len(s) + 1
      /\ \A j \in 1 .. Len(s) + 1 : t[j] = IF j = 1 THEN p ELSE s[j - 1]
  <2>1. Len(<<p>>) = 1 /\ <<p>>[1] = p
    OBVIOUS
  <2>2. /\ t \in Seq(W \cup {p}) /\ Len(t) = 1 + Len(s)
        /\ \A j \in 1 .. 1 + Len(s) : t[j] = IF j <= 1 THEN <<p>>[j] ELSE s[j - 1]
    BY <1>1, <1>2, <2>1, ConcatProperties
  <2> QED BY <1>1, <2>1, <2>2
<1>4. PICK u : u = Inserted(s, 1, p)
  OBVIOUS
<1>5. /\ u = [j \in 1 .. Len(s) + 1 |-> u[j]]
      /\ \A j \in 1 .. Len(s) + 1 : u[j] = IF j < 1 THEN s[j] ELSE IF j = 1 THEN p ELSE s[j - 1]
  BY <1>4 DEF Inserted
<1>6. \A j \in 1 .. Len(s) + 1 : t[j] = u[j]
  BY <1>1, <1>3, <1>5
<1>7. t = u
  BY <1>3, <1>5, <1>6, SameSeq
<1> QED BY <1>2, <1>4, <1>7 DEF Queue!AddToHead

LEMMA QueuePopHead ==
  ASSUME NEW s, NEW W, Order(s, W), s # <<>>
  PROVE  Queue!PopHead(s) = Removed(s, 1) /\ Head(s) = s[1]
<1>1. Len(s) \in Nat \ {0} /\ s \in Seq(W)
  BY OrderType, EmptySeq
<1>2. PICK t : t = Tail(s)
  OBVIOUS
<1>3. t \in Seq(W) /\ Len(t) = Len(s) - 1 /\ \A j \in 1 .. Len(t) : t[j] = s[j + 1]
  BY <1>1, <1>2, HeadTailProperties
<1>4. PICK u : u = Removed(s, 1)
  OBVIOUS
<1>5. /\ u = [j \in 1 .. Len(s) - 1 |-> u[j]]
      /\ \A j \in 1 .. Len(s) - 1 : u[j] = IF j < 1 THEN s[j] ELSE s[j + 1]
  BY <1>4 DEF Removed
<1>6. \A j \in 1 .. Len(s) - 1 : t[j] = u[j]
  BY <1>1, <1>3, <1>5
<1>7. t = u
  BY <1>3, <1>5, <1>6, SameSeq
<1>8. Head(s) = s[1]
  BY <1>1
<1> QED BY <1>2, <1>4, <1>7, <1>8 DEF Queue!PopHead

\* The place that the search finds is the one that the queue looks for: behind
\* the processes of no greater score, before one of a greater score or at the end.
LEMMA QueueInsertSorted ==
  ASSUME NEW s, NEW W, Order(s, W), NEW p, NEW score, score[p] \in Nat,
         \A q \in W : score[q] \in Nat,
         NEW i \in 1 .. Len(s) + 1,
         \A j \in 1 .. i - 1 : score[s[j]] <= score[p],
         i \in 1 .. Len(s) => score[p] < score[s[i]]
  PROVE  Queue!InsertSorted(s, p, score) = Inserted(s, i, p)
<1>1. Len(s) \in Nat /\ DOMAIN s = 1 .. Len(s) /\ \A k \in 1 .. Len(s) : s[k] \in W
  BY OrderType
<1> DEFINE greater == {k \in DOMAIN s : score[s[k]] > score[p]}
<1>2. \A k \in greater : i <= k
  <2> SUFFICES ASSUME NEW k \in 1 .. Len(s), score[s[k]] > score[p], ~(i <= k) PROVE FALSE
    BY <1>1
  <2>1. k \in 1 .. i - 1
    BY <1>1
  <2> QED BY <1>1, <2>1
<1>3. CASE i = Len(s) + 1
  <2>1. greater = {}
    BY <1>1, <1>2, <1>3
  <2>2. Queue!InsertSorted(s, p, score) = Queue!AddToTail(s, p)
    BY <2>1 DEF Queue!InsertSorted, Queue!AddToTail
  <2> QED BY <1>3, <2>2, QueueAddToTail
<1>4. CASE i # Len(s) + 1
  <2>1. i \in greater
    BY <1>1, <1>4
  <2>2. Queue!Min(greater) = i
    <3>1. \A k \in greater : k \in Int /\ i \in Int
      BY <1>1
    <3>2. Queue!Min(greater) \in greater /\ \A k \in greater : Queue!Min(greater) <= k
      BY <1>2, <2>1 DEF Queue!Min
    <3>3. PICK m : m = Queue!Min(greater)
      OBVIOUS
    <3>4. m \in greater /\ m <= i /\ i <= m /\ m \in Int /\ i \in Int
      BY <1>2, <2>1, <3>1, <3>2, <3>3
    <3> QED BY <3>3, <3>4
  <2>3. Queue!InsertSorted(s, p, score) = Queue!InsertAt(s, i, p)
    BY <2>1, <2>2 DEF Queue!InsertSorted
  <2> QED BY <2>3, SplitInsert DEF Queue!InsertAt
<1> QED BY <1>3, <1>4

LEMMA QueuePopShortest ==
  ASSUME NEW s, NEW W, Order(s, W), NEW m \in 1 .. Len(s),
         \A q \in W : job_time[q] \in Nat, Shortest(s, m, Len(s))
  PROVE  /\ Queue!ShortestIndex(s, job_time) = m
         /\ Queue!PopShortest(s, job_time) = Removed(s, m)
<1>1. Len(s) \in Nat /\ DOMAIN s = 1 .. Len(s) /\ \A k \in 1 .. Len(s) : s[k] \in W
  BY OrderType
<1>2. PICK k : k = Queue!ShortestIndex(s, job_time)
  OBVIOUS
<1>3. /\ k \in 1 .. Len(s)
      /\ \A j \in 1 .. Len(s) :
           job_time[s[k]] < job_time[s[j]] \/ (job_time[s[k]] = job_time[s[j]] /\ k <= j)
  BY <1>1, <1>2 DEF Queue!ShortestIndex, Shortest
<1>4. job_time[s[m]] < job_time[s[k]] \/ (job_time[s[m]] = job_time[s[k]] /\ m <= k)
  BY <1>3 DEF Shortest
<1>5. k = m
  BY <1>1, <1>3, <1>4
<1> QED BY <1>2, <1>5, SplitRemove DEF Queue!PopShortest, Queue!RemoveAt
-----------------------------------------------------------------------------
LEMMA SameScores ==
  ASSUME ListInv, TypeOK', loop # "age", loop' # "age", UNCHANGED job_length_score
  PROVE  SeenScore = job_length_score /\ SeenScore' = SeenScore
<1>1. SeenScore = job_length_score
  BY SeenIs DEF ListInv
<1>2. SeenScore' = job_length_score'
  BY SeenLater
<1> QED BY <1>1, <1>2

\* A process that a call queues was not in the queue.
LEMMA QueuedStep ==
  ASSUME ListInv, TypeOK', ListIntact', loop # "age", loop' = "none",
         UNCHANGED job_length_score, NEW p \in loose, NEW name, Queued(name, p),
         \/ name = "add_to_tail" /\ Contents' = Queue!AddToTail(Contents, p)
         \/ name = "add_to_head" /\ Contents' = Queue!AddToHead(Contents, p)
         \/ name = "insert_sorted" /\ Contents' = Queue!InsertSorted(Contents, p, job_length_score)
  PROVE  ListInv' /\ Queue!QueueNext
<1>1. SeenScore = job_length_score /\ SeenScore' = SeenScore
  BY SameScores
<1>2. Queue!ToSet(Contents) = Processes \ loose /\ p \in Processes
  BY ListOf, QueueSet
<1>3. done' = Queue!Call(name, p)
  BY DEF Queued, Call, Queue!Call
<1>4. \/ Queue!Queued("add_to_tail", p, Queue!AddToTail(Contents, p))
      \/ Queue!Queued("add_to_head", p, Queue!AddToHead(Contents, p))
      \/ Queue!Queued("insert_sorted", p, Queue!InsertSorted(Contents, p, SeenScore))
  BY <1>1, <1>2, <1>3 DEF Queue!Queued
<1>5. Queue!QueueNext
  BY <1>2, <1>4 DEF Queue!QueueNext
<1>6. ListInv'
  BY DEF ListInv
<1> QED BY <1>5, <1>6

LEMMA AddToTailStep ==
  ASSUME ListInv, NEW p \in Processes, AddToTail(p)
  PROVE  ListInv' /\ Queue!QueueNext
<1>1. PICK s : s = Contents
  OBVIOUS
<1>2. /\ Order(s, Processes \ loose) /\ Linked(s, head, tail, next) /\ Len(s) \in Nat
      /\ \A k \in 1 .. Len(s) : s[k] \in Processes \ loose /\ s[k] # NULL
      /\ head = NULL <=> Len(s) = 0
  BY <1>1, ListOf
<1>3. /\ loop = "none" /\ p \in loose /\ loop' = "none" /\ loose' = loose \ {p}
      /\ head' = (IF head = NULL THEN p ELSE head) /\ tail' = p
      /\ next' = [q \in Processes |->
           IF q = p THEN NULL ELSE IF head # NULL /\ q = tail THEN p ELSE next[q]]
      /\ Queued("add_to_tail", p) /\ UNCHANGED <<job_length_score, localVars>>
  BY DEF AddToTail, Queued
<1>4. TypeOK'
  BY <1>3, ListAssumption DEF ListInv, TypeOK, Queued, Call, Pointers, localVars
<1>5. Contents' = Inserted(s, Len(s) + 1, p) /\ ListIntact'
  <2>1. /\ Len(s) + 1 \in 1 .. Len(s) + 1 /\ Len(s) + 1 - 1 = Len(s)
        /\ Len(s) + 1 = 1 <=> head = NULL
    BY <1>2
  <2>2. next'[p] = NULL /\ Node(s, Len(s) + 1) = NULL
    BY <1>2, <1>3 DEF Node
  <2>3. head # NULL => tail = s[Len(s)]
    BY <1>2 DEF Linked, Node
  <2>4. \A q \in Processes \ {p} :
          next'[q] = IF Len(s) + 1 # 1 /\ q = s[Len(s) + 1 - 1] THEN p ELSE next[q]
    BY <1>3, <2>1, <2>3
  <2>5. /\ head' = IF Len(s) + 1 = 1 THEN p ELSE head
        /\ tail' = IF Len(s) + 1 = Len(s) + 1 THEN p ELSE tail
        /\ next'[p] = Node(s, Len(s) + 1)
    BY <1>3, <2>1, <2>2
  <2>6. loose' = loose \ {p} /\ p \in loose /\ Len(s) + 1 \in 1 .. Len(s) + 1
    BY <1>3, <2>1
  <2> QED BY <1>1, <2>4, <2>5, <2>6, InsertStep
<1>6. Contents' = Queue!AddToTail(Contents, p)
  BY <1>1, <1>2, <1>5, QueueAddToTail
<1> QED BY <1>3, <1>4, <1>5, <1>6, QueuedStep

LEMMA AddToHeadStep ==
  ASSUME ListInv, NEW p \in Processes, AddToHead(p)
  PROVE  ListInv' /\ Queue!QueueNext
<1>1. PICK s : s = Contents
  OBVIOUS
<1>2. /\ Order(s, Processes \ loose) /\ Linked(s, head, tail, next) /\ Len(s) \in Nat
      /\ head = NULL <=> Len(s) = 0
  BY <1>1, ListOf
<1>3. /\ loop = "none" /\ p \in loose /\ loop' = "none" /\ loose' = loose \ {p}
      /\ head' = p /\ tail' = (IF head = NULL THEN p ELSE tail)
      /\ next' = [next EXCEPT ![p] = head]
      /\ Queued("add_to_head", p) /\ UNCHANGED <<job_length_score, localVars>>
  BY DEF AddToHead, Queued
<1>4. TypeOK'
  BY <1>3, ListAssumption DEF ListInv, TypeOK, Queued, Call, Pointers, localVars
<1>5. Contents' = Inserted(s, 1, p) /\ ListIntact'
  <2>1. 1 \in 1 .. Len(s) + 1 /\ (1 = Len(s) + 1 <=> head = NULL) /\ head = Node(s, 1)
    BY <1>2 DEF Linked
  <2>2. next \in [Processes -> Pointers]
    BY DEF ListInv, TypeOK
  <2>3. next'[p] = Node(s, 1) /\ \A q \in Processes \ {p} : next'[q] = next[q]
    BY <1>3, <2>1, <2>2
  <2> QED BY <1>1, <1>3, <2>1, <2>3, InsertStep
<1>6. Contents' = Queue!AddToHead(Contents, p)
  BY <1>1, <1>2, <1>5, QueueAddToHead
<1> QED BY <1>3, <1>4, <1>5, <1>6, QueuedStep

LEMMA InsertIntoEmptyStep ==
  ASSUME ListInv, NEW p \in Processes, InsertIntoEmpty(p)
  PROVE  ListInv' /\ Queue!QueueNext
<1>1. PICK s : s = Contents
  OBVIOUS
<1>2. /\ Order(s, Processes \ loose) /\ Linked(s, head, tail, next) /\ Len(s) = 0
      /\ \A q \in loose : next[q] = NULL
  BY <1>1, ListOf DEF InsertIntoEmpty
<1>3. /\ loop = "none" /\ p \in loose /\ loop' = "none" /\ loose' = loose \ {p}
      /\ head' = p /\ tail' = p /\ next' = [next EXCEPT ![p] = NULL]
      /\ Queued("insert_sorted", p) /\ UNCHANGED <<job_length_score, localVars>>
  BY DEF InsertIntoEmpty, Queued
<1>4. TypeOK'
  BY <1>3, ListAssumption DEF ListInv, TypeOK, Queued, Call, Pointers, localVars
<1>5. Contents' = Inserted(s, 1, p) /\ ListIntact'
  <2>1. next \in [Processes -> Pointers]
    BY DEF ListInv, TypeOK
  <2>2. next'[p] = Node(s, 1) /\ \A q \in Processes \ {p} : next'[q] = next[q]
    BY <1>2, <1>3, <2>1 DEF Node
  <2>3. 1 \in 1 .. Len(s) + 1 /\ 1 = Len(s) + 1
    BY <1>2
  <2> QED BY <1>1, <1>3, <2>2, <2>3, InsertStep
<1>6. job_length_score[p] \in Nat /\ \A q \in Processes \ loose : job_length_score[q] \in Nat
  BY DEF ListInv, TypeOK
<1>7. 1 \in 1 .. Len(s) + 1 /\ 1 \notin 1 .. Len(s) /\ \A j \in 1 .. 1 - 1 : FALSE
  BY <1>2
<1>8. Contents' = Queue!InsertSorted(Contents, p, job_length_score)
  BY <1>1, <1>2, <1>5, <1>6, <1>7, QueueInsertSorted
<1> QED BY <1>3, <1>4, <1>5, <1>8, QueuedStep

LEMMA InsertBeforeHeadStep ==
  ASSUME ListInv, NEW p \in Processes, InsertBeforeHead(p)
  PROVE  ListInv' /\ Queue!QueueNext
<1>1. PICK s : s = Contents
  OBVIOUS
<1>2. /\ Order(s, Processes \ loose) /\ Linked(s, head, tail, next) /\ Len(s) \in Nat \ {0}
      /\ head = s[1]
  BY <1>1, ListOf DEF InsertBeforeHead, Linked, Node
<1>3. /\ loop = "none" /\ p \in loose /\ loop' = "none" /\ loose' = loose \ {p}
      /\ job_length_score[p] < job_length_score[s[1]]
      /\ head' = p /\ tail' = tail /\ next' = [next EXCEPT ![p] = head]
      /\ Queued("insert_sorted", p) /\ UNCHANGED <<job_length_score, localVars>>
  BY <1>2 DEF InsertBeforeHead, Queued
<1>4. TypeOK'
  BY <1>3, ListAssumption DEF ListInv, TypeOK, Queued, Call, Pointers, localVars
<1>5. Contents' = Inserted(s, 1, p) /\ ListIntact'
  <2>1. next \in [Processes -> Pointers]
    BY DEF ListInv, TypeOK
  <2>2. next'[p] = Node(s, 1) /\ \A q \in Processes \ {p} : next'[q] = next[q]
    BY <1>2, <1>3, <2>1 DEF Linked
  <2>3. 1 \in 1 .. Len(s) + 1 /\ 1 # Len(s) + 1
    BY <1>2
  <2> QED BY <1>1, <1>3, <2>2, <2>3, InsertStep
<1>6. job_length_score[p] \in Nat /\ \A q \in Processes \ loose : job_length_score[q] \in Nat
  BY DEF ListInv, TypeOK
<1>7. 1 \in 1 .. Len(s) + 1 /\ \A j \in 1 .. 1 - 1 : FALSE
  BY <1>2
<1>8. Contents' = Queue!InsertSorted(Contents, p, job_length_score)
  BY <1>1, <1>2, <1>3, <1>5, <1>6, <1>7, QueueInsertSorted
<1> QED BY <1>3, <1>4, <1>5, <1>8, QueuedStep
\* The processes that a search has passed, and the next one if it stops there.
LEMMA Sought ==
  ASSUME ListInv, loop = "seek", NEW s, s = Contents
  PROVE  /\ arg \in loose /\ arg \in Processes /\ curr \in Processes
         /\ \E i \in 1 .. Len(s) :
              /\ curr = s[i] /\ next[curr] = Node(s, i + 1)
              /\ \A j \in 1 .. i : job_length_score[s[j]] <= job_length_score[arg]
<1>1. Seeking(s)
  BY DEF ListInv
<1>2. PICK i \in 1 .. Len(s) : curr = s[i] /\ \A j \in 1 .. i : job_length_score[s[j]] <= job_length_score[arg]
  BY <1>1 DEF Seeking
<1>3. Linked(s, head, tail, next) /\ loose \subseteq Processes /\ s[i] \in Processes
  BY <1>2, ListOf
<1>4. next[curr] = Node(s, i + 1)
  BY <1>2, <1>3 DEF Linked
<1> QED BY <1>1, <1>2, <1>3, <1>4 DEF Seeking

LEMMA SeekStep ==
  ASSUME ListInv, NEW p \in Processes, Seek(p)
  PROVE  ListInv' /\ UNCHANGED <<Contents, SeenScore, done>>
<1>1. PICK s : s = Contents
  OBVIOUS
<1>2. /\ Linked(s, head, tail, next) /\ Len(s) \in Nat \ {0} /\ head = s[1]
      /\ s[1] \in Processes /\ \A q \in loose : next[q] = NULL
  BY <1>1, ListOf DEF Seek, Linked, Node
<1>3. next' = next
  <2>1. next \in [Processes -> Pointers] /\ next[p] = NULL
    BY <1>2 DEF ListInv, TypeOK, Seek
  <2> QED BY <2>1 DEF Seek
<1>4. /\ loop = "none" /\ p \in loose /\ loop' = "seek" /\ arg' = p /\ curr' = head
      /\ job_length_score[p] >= job_length_score[head]
      /\ UNCHANGED <<listVars, job_length_score, loose, done, prev, min_node, min_prev>>
  BY <1>3 DEF Seek, listVars
<1>5. TypeOK'
  BY <1>4, ListAssumption DEF ListInv, TypeOK, Pointers, listVars
<1>6. Contents' = Contents /\ ListIntact'
  BY <1>4, QuietStep
<1>7. Seeking(s)'
  <2>1. 1 \in 1 .. Len(s) /\ curr' = s[1] /\ job_length_score'[s[1]] <= job_length_score'[arg']
    <3>1. job_length_score[p] \in Nat /\ job_length_score[s[1]] \in Nat
      BY <1>2 DEF ListInv, TypeOK
    <3> QED BY <1>2, <1>4, <3>1
  <2>2. \A j \in 1 .. 1 : job_length_score'[s[j]] <= job_length_score'[arg']
    BY <2>1
  <2>3. arg' \in loose'
    BY <1>4
  <2> QED BY <2>1, <2>2, <2>3 DEF Seeking
<1>8. ListInv'
  BY <1>1, <1>4, <1>5, <1>6, <1>7 DEF ListInv
<1>9. SeenScore' = SeenScore
  BY <1>4, <1>5, SameScores
<1> QED BY <1>4, <1>6, <1>8, <1>9

LEMMA SeekOnStep ==
  ASSUME ListInv, SeekOn
  PROVE  ListInv' /\ UNCHANGED <<Contents, SeenScore, done>>
<1>1. PICK s : s = Contents
  OBVIOUS
<1>2. /\ loop = "seek" /\ loop' = "seek" /\ curr' = next[curr] /\ next[curr] # NULL
      /\ job_length_score[next[curr]] <= job_length_score[arg]
      /\ UNCHANGED <<listVars, job_length_score, loose, done, arg, prev, min_node, min_prev>>
  BY DEF SeekOn, GoesOn
<1>3. PICK i \in 1 .. Len(s) :
        /\ curr = s[i] /\ next[curr] = Node(s, i + 1)
        /\ \A j \in 1 .. i : job_length_score[s[j]] <= job_length_score[arg]
  BY <1>1, <1>2, Sought
<1>4. arg \in loose /\ curr \in Processes /\ Len(s) \in Nat
  BY <1>1, <1>2, Sought, ListOf
<1>5. i + 1 \in 1 .. Len(s) /\ next[curr] = s[i + 1]
  BY <1>2, <1>3 DEF Node
<1>6. TypeOK'
  BY <1>2, <1>4 DEF ListInv, TypeOK, listVars
<1>7. Contents' = Contents /\ ListIntact'
  BY <1>2, QuietStep
<1>8. Seeking(s)'
  <2>1. \A j \in 1 .. i + 1 : j \in 1 .. i \/ j = i + 1
    BY <1>4
  <2>2. \A j \in 1 .. i + 1 : job_length_score'[s[j]] <= job_length_score'[arg']
    BY <1>2, <1>3, <1>5, <2>1
  <2>3. curr' = s[i + 1] /\ arg' \in loose'
    BY <1>2, <1>4, <1>5
  <2> QED BY <1>5, <2>2, <2>3 DEF Seeking
<1>9. ListInv'
  BY <1>1, <1>2, <1>6, <1>7, <1>8 DEF ListInv
<1>10. SeenScore' = SeenScore
  BY <1>2, <1>6, SameScores
<1> QED BY <1>2, <1>7, <1>9, <1>10

LEMMA InsertAfterStep ==
  ASSUME ListInv, InsertAfter
  PROVE  ListInv' /\ Queue!QueueNext
<1>1. PICK s : s = Contents
  OBVIOUS
<1>2. /\ loop = "seek" /\ loop' = "none" /\ ~GoesOn(curr) /\ loose' = loose \ {arg}
      /\ next' = [next EXCEPT ![arg] = next[curr], ![curr] = arg]
      /\ tail' = (IF next[curr] = NULL THEN arg ELSE tail) /\ head' = head
      /\ Queued("insert_sorted", arg) /\ NoLocals /\ UNCHANGED job_length_score
  BY DEF InsertAfter, Queued
<1>3. PICK i \in 1 .. Len(s) :
        /\ curr = s[i] /\ next[curr] = Node(s, i + 1)
        /\ \A j \in 1 .. i : job_length_score[s[j]] <= job_length_score[arg]
  BY <1>1, <1>2, Sought
<1>4. /\ arg \in loose /\ arg \in Processes /\ curr \in Processes /\ Len(s) \in Nat
      /\ Order(s, Processes \ loose)
      /\ \A k \in 1 .. Len(s) : s[k] \in Processes \ loose /\ s[k] # NULL
  BY <1>1, <1>2, Sought, ListOf
<1>5. next \in [Processes -> Pointers] /\ arg # curr
  BY <1>3, <1>4 DEF ListInv, TypeOK
<1>6. TypeOK'
  <2>1. next' \in [Processes -> Pointers]
    BY <1>2, <1>4, <1>5 DEF Pointers
  <2>2. {head', tail', arg', curr', prev', min_node', min_prev'} \subseteq Pointers
    BY <1>2, <1>4 DEF ListInv, TypeOK, NoLocals, Pointers
  <2> QED BY <1>2, <1>4, <2>1, <2>2 DEF ListInv, TypeOK, Queued, Call, Pointers
<1>7. Contents' = Inserted(s, i + 1, arg) /\ ListIntact'
  <2>1. PICK m : m = i + 1
    OBVIOUS
  <2>2. m \in 1 .. Len(s) + 1 /\ m # 1 /\ m - 1 = i /\ (m = Len(s) + 1 <=> m \notin 1 .. Len(s))
    BY <1>4, <2>1
  <2>3. m = Len(s) + 1 <=> next[curr] = NULL
    BY <1>3, <1>4, <2>1, <2>2 DEF Node
  <2>4. /\ head' = IF m = 1 THEN arg ELSE head
        /\ tail' = IF m = Len(s) + 1 THEN arg ELSE tail
    BY <1>2, <2>2, <2>3
  <2>5. next'[arg] = Node(s, m)
    BY <1>2, <1>3, <1>4, <1>5, <2>1
  <2>6. \A q \in Processes \ {arg} : next'[q] = IF m # 1 /\ q = s[m - 1] THEN arg ELSE next[q]
    BY <1>2, <1>3, <1>5, <2>2
  <2>7. PICK a : a = arg
    OBVIOUS
  <2>8. /\ a \in loose /\ loose' = loose \ {a} /\ m \in 1 .. Len(s) + 1
        /\ head' = IF m = 1 THEN a ELSE head
        /\ tail' = IF m = Len(s) + 1 THEN a ELSE tail
        /\ next'[a] = Node(s, m)
        /\ \A q \in Processes \ {a} : next'[q] = IF m # 1 /\ q = s[m - 1] THEN a ELSE next[q]
    BY <1>2, <1>4, <2>2, <2>4, <2>5, <2>6, <2>7
  <2>9. Contents' = Inserted(s, m, a) /\ ListIntact'
    BY <1>1, <2>8, InsertStep
  <2> QED BY <2>1, <2>7, <2>9
<1>8. job_length_score[arg] \in Nat /\ \A q \in Processes \ loose : job_length_score[q] \in Nat
  BY <1>4 DEF ListInv, TypeOK
<1>9. /\ i + 1 \in 1 .. Len(s) + 1
      /\ \A j \in 1 .. i + 1 - 1 : job_length_score[s[j]] <= job_length_score[arg]
      /\ i + 1 \in 1 .. Len(s) => job_length_score[arg] < job_length_score[s[i + 1]]
  <2>1. i + 1 - 1 = i /\ i + 1 \in 1 .. Len(s) + 1
    BY <1>4
  <2>2. ASSUME i + 1 \in 1 .. Len(s) PROVE job_length_score[arg] < job_length_score[s[i + 1]]
    <3>1. next[curr] = s[i + 1] /\ s[i + 1] # NULL /\ s[i + 1] \in Processes \ loose
      BY <1>3, <1>4, <2>2 DEF Node
    <3>2. ~(job_length_score[s[i + 1]] <= job_length_score[arg])
      BY <1>2, <3>1 DEF GoesOn
    <3> QED BY <1>8, <3>1, <3>2
  <2> QED BY <1>3, <2>1, <2>2
<1>10. Contents' = Queue!InsertSorted(Contents, arg, job_length_score)
  BY <1>1, <1>4, <1>7, <1>8, <1>9, QueueInsertSorted
<1> QED BY <1>2, <1>4, <1>6, <1>7, <1>10, QueuedStep
-----------------------------------------------------------------------------
LEMMA PoppedStep ==
  ASSUME ListInv, TypeOK', ListIntact', loop # "age", loop' = "none",
         UNCHANGED job_length_score, Contents # <<>>, NEW name, NEW p, done' = Call(name, p),
         \/ name = "pop_head" /\ Contents' = Queue!PopHead(Contents) /\ p = Head(Contents)
         \/ /\ name = "pop_shortest" /\ Contents' = Queue!PopShortest(Contents, job_time)
            /\ p = Contents[Queue!ShortestIndex(Contents, job_time)]
  PROVE  ListInv' /\ Queue!QueueNext
<1>1. SeenScore' = SeenScore
  BY SameScores
<1>2. done' = Queue!Call(name, p)
  BY DEF Call, Queue!Call
<1>3. \/ Queue!Popped("pop_head", Queue!PopHead(Contents), Head(Contents))
      \/ Queue!Popped("pop_shortest", Queue!PopShortest(Contents, job_time),
                      Contents[Queue!ShortestIndex(Contents, job_time)])
  BY <1>1, <1>2 DEF Queue!Popped
<1>4. Queue!QueueNext
  BY <1>3 DEF Queue!QueueNext
<1>5. ListInv'
  BY DEF ListInv
<1> QED BY <1>4, <1>5

LEMMA PopHeadStep ==
  ASSUME ListInv, PopHead
  PROVE  ListInv' /\ Queue!QueueNext
<1>1. PICK s : s = Contents
  OBVIOUS
<1>2. /\ Order(s, Processes \ loose) /\ Linked(s, head, tail, next) /\ Len(s) \in Nat \ {0}
      /\ s # <<>> /\ head = s[1]
      /\ \A k \in 1 .. Len(s) : s[k] \in Processes \ loose /\ s[k] # NULL
  BY <1>1, ListOf DEF PopHead, Linked, Node
<1>3. next[head] = Node(s, 2) /\ 1 \in 1 .. Len(s)
  <2>1. 1 \in 1 .. Len(s) /\ 1 + 1 = 2
    BY <1>2
  <2> QED BY <1>2, <2>1 DEF Linked
<1>4. /\ loop = "none" /\ loop' = "none" /\ loose' = loose \cup {s[1]}
      /\ head' = Node(s, 2) /\ tail' = (IF Node(s, 2) = NULL THEN NULL ELSE tail)
      /\ next' = [next EXCEPT ![s[1]] = NULL]
      /\ done' = Call("pop_head", s[1]) /\ UNCHANGED <<job_length_score, localVars>>
  BY <1>2, <1>3 DEF PopHead
<1>5. s[1] \in Processes /\ next \in [Processes -> Pointers] /\ Node(s, 2) \in Pointers
  BY <1>2, <1>3 DEF ListInv, TypeOK, Node, Pointers
<1>6. TypeOK'
  BY <1>4, <1>5 DEF ListInv, TypeOK, Call, Pointers, localVars
<1>7. Contents' = Removed(s, 1) /\ ListIntact'
  <2>1. Node(s, 2) = NULL <=> 1 = Len(s)
    <3>1. 2 \in 1 .. Len(s) <=> 1 # Len(s)
      BY <1>2
    <3> QED BY <1>2, <3>1 DEF Node
  <2>2. PICK m \in 1 .. Len(s) : m = 1
    BY <1>3
  <2>3. Node(s, m - 1) = NULL
    <3>1. m - 1 \notin 1 .. Len(s)
      BY <1>2, <2>2
    <3> QED BY <3>1 DEF Node
  <2>4. /\ loose' = loose \cup {s[m]}
        /\ head' = IF m = 1 THEN Node(s, 2) ELSE head
        /\ tail' = IF m = Len(s) THEN Node(s, m - 1) ELSE tail
    BY <1>4, <2>1, <2>2, <2>3
  <2>5. /\ next'[s[m]] = NULL
        /\ \A q \in Processes \ {s[m]} :
             next'[q] = IF m # 1 /\ q = s[m - 1] THEN Node(s, m + 1) ELSE next[q]
    BY <1>4, <1>5, <2>2
  <2>6. Contents' = Removed(s, m) /\ ListIntact'
    BY <1>1, <2>4, <2>5, RemoveStep
  <2> QED BY <2>2, <2>6
<1>8. Contents' = Queue!PopHead(Contents) /\ s[1] = Head(Contents) /\ Contents # <<>>
  BY <1>1, <1>2, <1>7, QueuePopHead
<1> QED BY <1>4, <1>6, <1>7, <1>8, PoppedStep

LEMMA PopNothingStep ==
  ASSUME ListInv, PopNothing
  PROVE  ListInv' /\ Queue!QueueNext
<1>1. /\ loop = "none" /\ loop' = "none" /\ Contents = <<>>
      /\ UNCHANGED <<listVars, job_length_score, loose, localVars>>
  BY ListOf DEF PopNothing
<1>2. PICK name \in {"pop_head", "pop_shortest"} : done' = Call(name, NULL)
  BY DEF PopNothing
<1>3. TypeOK'
  BY <1>1, <1>2 DEF ListInv, TypeOK, Call, Pointers, listVars, localVars
<1>4. Contents' = Contents /\ ListIntact'
  BY <1>1, QuietStep
<1>5. SeenScore' = SeenScore
  BY <1>1, <1>3, SameScores
<1>6. Queue!Popped(name, <<>>, NULL)
  BY <1>1, <1>2, <1>4, <1>5 DEF Queue!Popped, Call, Queue!Call
<1>7. Queue!QueueNext
  BY <1>1, <1>6 DEF Queue!QueueNext
<1> QED BY <1>1, <1>3, <1>4, <1>7 DEF ListInv

LEMMA ScanStep ==
  ASSUME ListInv, Scan
  PROVE  ListInv' /\ UNCHANGED <<Contents, SeenScore, done>>
<1>1. PICK s : s = Contents
  OBVIOUS
<1>2. Linked(s, head, tail, next) /\ Len(s) \in Nat \ {0} /\ head = Node(s, 1) /\ head = s[1]
  BY <1>1, ListOf DEF Scan, Linked, Node
<1>3. /\ loop = "none" /\ loop' = "scan"
      /\ prev' = NULL /\ curr' = head /\ min_prev' = NULL /\ min_node' = head
      /\ UNCHANGED <<listVars, job_length_score, loose, done, arg>>
  BY DEF Scan
<1>4. TypeOK'
  BY <1>3 DEF ListInv, TypeOK, Pointers, listVars
<1>5. Contents' = Contents /\ ListIntact'
  BY <1>3, QuietStep
<1>6. Scanning(s)'
  <2>1. 1 \in 1 .. Len(s) /\ 1 \in 1 .. Len(s) + 1 /\ 1 <= 1
    BY <1>2
  <2>2. Node(s, 1 - 1) = NULL
    BY DEF Node
  <2>3. Shortest(s, 1, 1 - 1)
    BY DEF Shortest
  <2> QED BY <1>2, <1>3, <2>1, <2>2, <2>3 DEF Scanning
<1>7. ListInv'
  BY <1>1, <1>3, <1>4, <1>5, <1>6 DEF ListInv
<1>8. SeenScore' = SeenScore
  BY <1>3, <1>4, SameScores
<1> QED BY <1>3, <1>5, <1>7, <1>8

LEMMA ScanOnStep ==
  ASSUME ListInv, ScanOn
  PROVE  ListInv' /\ UNCHANGED <<Contents, SeenScore, done>>
<1>1. PICK s : s = Contents
  OBVIOUS
<1>2. /\ Linked(s, head, tail, next) /\ Len(s) \in Nat
      /\ \A k \in 1 .. Len(s) : s[k] \in Processes /\ job_time[s[k]] \in Nat
  BY <1>1, ListOf, ListAssumption
<1>3. PICK i \in 1 .. Len(s) + 1, m \in 1 .. Len(s) :
        /\ curr = Node(s, i) /\ prev = Node(s, i - 1)
        /\ min_node = s[m] /\ min_prev = Node(s, m - 1)
        /\ m <= i /\ Shortest(s, m, i - 1)
  BY <1>1 DEF ListInv, ScanOn, Scanning
<1>4. i \in 1 .. Len(s) /\ curr = s[i] /\ next[curr] = Node(s, i + 1)
  BY <1>2, <1>3 DEF ScanOn, Node, Linked
<1>5. /\ loop = "scan" /\ loop' = "scan" /\ prev' = curr /\ curr' = next[curr]
      /\ IF job_time[curr] < job_time[min_node]
         THEN min_node' = curr /\ min_prev' = prev
         ELSE UNCHANGED <<min_node, min_prev>>
      /\ UNCHANGED <<listVars, job_length_score, loose, done, arg>>
  BY DEF ScanOn
<1>6. TypeOK'
  <2>1. next[curr] \in Pointers
    BY <1>2, <1>4 DEF ListInv, TypeOK
  <2> QED BY <1>5, <2>1 DEF ListInv, TypeOK, Pointers, listVars
<1>7. Contents' = Contents /\ ListIntact'
  BY <1>5, QuietStep
<1>8. Scanning(s)'
  <2>1. PICK n : n = i + 1
    OBVIOUS
  <2>2. n \in 1 .. Len(s) + 1 /\ n - 1 = i /\ i <= n /\ m <= n /\ m \in Nat /\ i \in Nat
    BY <1>2, <1>3, <1>4, <2>1
  <2>3. curr' = Node(s, n) /\ prev' = Node(s, n - 1)
    BY <1>4, <1>5, <2>1, <2>2 DEF Node
  <2>4. \A j \in 1 .. i : j \in 1 .. i - 1 \/ j = i
    BY <2>2
  <2>5. CASE job_time[curr] < job_time[min_node]
    <3>1. Shortest(s, i, i)
      <4> SUFFICES ASSUME NEW j \in 1 .. i
                   PROVE  \/ job_time[s[i]] < job_time[s[j]]
                          \/ job_time[s[i]] = job_time[s[j]] /\ i <= j
        BY DEF Shortest
      <4>1. CASE j = i
        BY <2>2, <4>1
      <4>2. CASE j \in 1 .. i - 1
        <5>1. job_time[s[m]] <= job_time[s[j]] /\ job_time[s[i]] < job_time[s[m]]
          BY <1>2, <1>3, <1>4, <2>2, <2>5, <4>2 DEF Shortest
        <5>2. job_time[s[j]] \in Nat /\ job_time[s[m]] \in Nat /\ job_time[s[i]] \in Nat
          BY <1>2, <1>4, <2>2
        <5> QED BY <5>1, <5>2
      <4> QED BY <2>4, <4>1, <4>2
    <3>2. min_node' = s[i] /\ min_prev' = Node(s, i - 1)
      BY <1>3, <1>4, <1>5, <2>5
    <3>3. Shortest(s, i, n - 1)
      BY <2>2, <3>1
    <3> QED BY <1>4, <2>2, <2>3, <3>2, <3>3 DEF Scanning
  <2>6. CASE ~(job_time[curr] < job_time[min_node])
    <3>1. Shortest(s, m, i)
      <4> SUFFICES ASSUME NEW j \in 1 .. i
                   PROVE  \/ job_time[s[m]] < job_time[s[j]]
                          \/ job_time[s[m]] = job_time[s[j]] /\ m <= j
        BY DEF Shortest
      <4>1. CASE j = i
        <5>1. job_time[s[m]] \in Nat /\ job_time[s[i]] \in Nat
          BY <1>2, <1>4
        <5> QED BY <1>3, <1>4, <2>6, <4>1, <5>1
      <4>2. CASE j \in 1 .. i - 1
        BY <1>3, <4>2 DEF Shortest
      <4> QED BY <2>4, <4>1, <4>2
    <3>2. min_node' = s[m] /\ min_prev' = Node(s, m - 1)
      BY <1>3, <1>5, <2>6
    <3>3. Shortest(s, m, n - 1)
      BY <2>2, <3>1
    <3> QED BY <2>2, <2>3, <3>2, <3>3 DEF Scanning
  <2> QED BY <2>5, <2>6
<1>9. ListInv'
  BY <1>1, <1>5, <1>6, <1>7, <1>8 DEF ListInv
<1>10. SeenScore' = SeenScore
  BY <1>5, <1>6, SameScores
<1> QED BY <1>5, <1>7, <1>9, <1>10

LEMMA UnlinkStep ==
  ASSUME ListInv, Unlink
  PROVE  ListInv' /\ Queue!QueueNext
<1>1. PICK s : s = Contents
  OBVIOUS
<1>2. /\ Order(s, Processes \ loose) /\ Linked(s, head, tail, next) /\ Len(s) \in Nat
      /\ \A k \in 1 .. Len(s) : s[k] \in Processes \ loose /\ s[k] # NULL
  BY <1>1, ListOf
<1>3. PICK i \in 1 .. Len(s) + 1, m \in 1 .. Len(s) :
        /\ curr = Node(s, i) /\ prev = Node(s, i - 1)
        /\ min_node = s[m] /\ min_prev = Node(s, m - 1)
        /\ m <= i /\ Shortest(s, m, i - 1)
  BY <1>1 DEF ListInv, Unlink, Scanning
<1>4. /\ loop = "scan" /\ loop' = "none" /\ curr = NULL
      /\ head' = (IF min_prev = NULL THEN next[min_node] ELSE head)
      /\ next' = [q \in Processes |->
           IF q = min_node THEN NULL ELSE IF q = min_prev THEN next[min_node] ELSE next[q]]
      /\ tail' = (IF tail = min_node THEN min_prev ELSE tail)
      /\ loose' = loose \cup {min_node} /\ done' = Call("pop_shortest", min_node)
      /\ NoLocals /\ UNCHANGED job_length_score
  BY DEF Unlink
<1>5. i = Len(s) + 1 /\ Shortest(s, m, Len(s))
  <2>1. i = Len(s) + 1
    BY <1>2, <1>3, <1>4 DEF Node
  <2>2. i - 1 = Len(s)
    BY <1>2, <2>1
  <2> QED BY <1>3, <2>1, <2>2
<1>6. next[min_node] = Node(s, m + 1) /\ min_node \in Processes
  BY <1>2, <1>3 DEF Linked
\* The predecessor is null just at the head.
<1>7. min_prev = IF m # 1 THEN s[m - 1] ELSE NULL
  <2>1. m # 1 => m - 1 \in 1 .. Len(s)
    BY <1>2
  <2>2. m = 1 => m - 1 \notin 1 .. Len(s)
    BY <1>2
  <2> QED BY <1>3, <2>1, <2>2 DEF Node
<1>8. m # 1 => m - 1 \in 1 .. Len(s) /\ s[m - 1] # NULL /\ s[m - 1] # s[m]
  <2>1. m # 1 => m - 1 \in 1 .. Len(s) /\ m - 1 # m
    BY <1>2
  <2> QED BY <1>2, <2>1 DEF Order
<1>9. TypeOK'
  <2>1. Node(s, m + 1) \in Pointers /\ min_prev \in Pointers
    BY <1>2 DEF Node, Pointers, ListInv, TypeOK
  <2>2. next' \in [Processes -> Pointers]
    BY <1>4, <1>6, <2>1 DEF ListInv, TypeOK, Pointers
  <2>3. {head', tail', arg', curr', prev', min_node', min_prev'} \subseteq Pointers
    BY <1>4, <1>6, <2>1 DEF ListInv, TypeOK, NoLocals, Pointers
  <2> QED BY <1>4, <1>6, <2>2, <2>3 DEF ListInv, TypeOK, Call, Pointers
<1>10. Contents' = Removed(s, m) /\ ListIntact'
  <2>1. head' = IF m = 1 THEN Node(s, 2) ELSE head
    <3>1. m = 1 => m + 1 = 2
      OBVIOUS
    <3> QED BY <1>4, <1>6, <1>7, <1>8, <3>1
  <2>2. tail' = IF m = Len(s) THEN Node(s, m - 1) ELSE tail
    <3>1. Len(s) \in 1 .. Len(s)
      BY <1>2
    <3>2. tail = s[Len(s)]
      BY <1>2, <3>1 DEF Linked, Node
    <3>3. tail = min_node <=> m = Len(s)
      BY <1>2, <1>3, <3>1, <3>2 DEF Order
    <3> QED BY <1>3, <1>4, <3>3
  <2>3. next'[s[m]] = NULL
    BY <1>3, <1>4, <1>6
  <2>4. \A q \in Processes \ {s[m]} :
          next'[q] = IF m # 1 /\ q = s[m - 1] THEN Node(s, m + 1) ELSE next[q]
    <3>1. NULL \notin Processes
      BY ListAssumption
    <3> QED BY <1>3, <1>4, <1>6, <1>7, <3>1
  <2>5. loose' = loose \cup {s[m]}
    BY <1>3, <1>4
  <2> QED BY <1>1, <2>1, <2>2, <2>3, <2>4, <2>5, RemoveStep
<1>11. /\ Queue!ShortestIndex(s, job_time) = m
       /\ Queue!PopShortest(s, job_time) = Removed(s, m)
  <2>1. \A q \in Processes \ loose : job_time[q] \in Nat
    BY ListAssumption
  <2> QED BY <1>2, <1>5, <2>1, QueuePopShortest
<1>12. Contents # <<>>
  BY <1>1, <1>2, ListOf
<1> QED BY <1>1, <1>3, <1>4, <1>9, <1>10, <1>11, <1>12, PoppedStep
-----------------------------------------------------------------------------
\* Aging takes effect for the caller when it is called, ...
LEMMA AgeStep ==
  ASSUME ListInv, Age
  PROVE  ListInv' /\ Queue!QueueNext
<1>1. PICK s : s = Contents
  OBVIOUS
<1>2. /\ Order(s, Processes \ loose) /\ Linked(s, head, tail, next) /\ Len(s) \in Nat
      /\ \A k \in 1 .. Len(s) : s[k] \in Processes
  BY <1>1, ListOf
<1>3. /\ loop = "none" /\ loop' = "age" /\ curr' = head /\ done' = Call("age_all", NULL)
      /\ UNCHANGED <<listVars, job_length_score, loose, arg, prev, min_node, min_prev>>
  BY DEF Age
<1>4. TypeOK'
  BY <1>3 DEF ListInv, TypeOK, Call, Pointers, listVars
<1>5. Contents' = Contents /\ ListIntact'
  BY <1>3, QuietStep
<1>6. PICK i \in 1 .. Len(s) + 1 : i = 1
  BY <1>2
<1>7. curr' = Node(s, i)
  BY <1>2, <1>3, <1>6 DEF Linked
<1>8. ListInv'
  BY <1>1, <1>3, <1>4, <1>5, <1>7 DEF ListInv, Walking
<1>9. SeenScore' = AgedFrom(s, i, job_length_score)
  BY <1>1, <1>3, <1>5, <1>7, <1>8, SeenAgingLater
<1>10. SeenScore = job_length_score
  BY <1>3, SeenIs DEF ListInv
<1>11. SeenScore' = Queue!AgeAll(Contents, SeenScore)
  <2>1. DOMAIN job_length_score = Processes
    BY DEF ListInv, TypeOK
  <2>2. \A p \in Processes : p \in Queue!ToSet(Contents) <=> \E j \in i .. Len(s) : s[j] = p
    <3>1. Queue!ToSet(Contents) = Processes \ loose
      BY <1>1, <1>2, QueueSet
    <3>2. i .. Len(s) = 1 .. Len(s)
      BY <1>6
    <3>3. \A p \in Processes : p \in Processes \ loose <=> \E j \in 1 .. Len(s) : s[j] = p
      <4>1. \A k \in 1 .. Len(s) : s[k] \in Processes \ loose
        BY <1>1, ListOf
      <4>2. \A p \in Processes \ loose : \E j \in 1 .. Len(s) : s[j] = p
        BY <1>2 DEF Order
      <4> QED BY <4>1, <4>2
    <3> QED BY <3>1, <3>2, <3>3
  <2> QED BY <1>9, <1>10, <2>1, <2>2 DEF AgedFrom, Queue!AgeAll
<1> QED BY <1>3, <1>5, <1>8, <1>11 DEF Queue!QueueNext, Call, Queue!Call

\* ... and each round lowers the score of one process that was seen lowered.
LEMMA AgeOnStep ==
  ASSUME ListInv, AgeOn
  PROVE  ListInv' /\ UNCHANGED <<Contents, SeenScore, done>>
<1>1. PICK s : s = Contents
  OBVIOUS
<1>2. /\ Order(s, Processes \ loose) /\ Linked(s, head, tail, next) /\ Len(s) \in Nat
      /\ \A k \in 1 .. Len(s) : s[k] \in Processes
  BY <1>1, ListOf
<1>3. /\ loop = "age" /\ loop' = "age" /\ curr # NULL /\ curr' = next[curr]
      /\ job_length_score' = [job_length_score EXCEPT ![curr] = IF @ > 0 THEN @ - 1 ELSE @]
      /\ UNCHANGED <<listVars, loose, done, arg, prev, min_node, min_prev>>
  BY DEF AgeOn
<1>4. PICK i \in 1 .. Len(s) + 1 : curr = Node(s, i)
  BY <1>1, <1>3 DEF ListInv, Walking
<1>5. i \in 1 .. Len(s) /\ curr = s[i] /\ next[curr] = Node(s, i + 1)
  BY <1>2, <1>3, <1>4 DEF Node, Linked
<1>6. PICK k \in 1 .. Len(s) + 1 : k = i + 1
  BY <1>2, <1>5
<1>7. TypeOK'
  <2>1. next[curr] \in Pointers /\ curr \in Processes
    BY <1>2, <1>5 DEF ListInv, TypeOK
  <2>2. job_length_score' \in [Processes -> Nat]
    BY <1>3, <2>1 DEF ListInv, TypeOK
  <2> QED BY <1>3, <2>1, <2>2 DEF ListInv, TypeOK, listVars
<1>8. Contents' = Contents /\ ListIntact'
  BY <1>3, QuietStep
<1>9. curr' = Node(s, k)
  BY <1>3, <1>5, <1>6
<1>10. ListInv'
  BY <1>1, <1>3, <1>7, <1>8, <1>9 DEF ListInv, Walking
<1>11. SeenScore = AgedFrom(s, i, job_length_score)
  BY <1>1, <1>3, <1>4, SeenAging
<1>12. SeenScore' = AgedFrom(s, k, job_length_score')
  BY <1>1, <1>3, <1>8, <1>9, <1>10, SeenAgingLater
<1>13. ASSUME NEW p \in Processes
       PROVE  AgedFrom(s, k, job_length_score')[p] = AgedFrom(s, i, job_length_score)[p]
  <2>1. job_length_score \in [Processes -> Nat]
    BY DEF ListInv, TypeOK
  <2>2. \A j \in i .. Len(s) : j = i \/ j \in k .. Len(s)
    BY <1>2, <1>5, <1>6
  <2>3. i \in i .. Len(s) /\ i \notin k .. Len(s) /\ \A j \in k .. Len(s) : j \in i .. Len(s) /\ j \in 1 .. Len(s)
    BY <1>2, <1>5, <1>6
  <2>4. CASE p = s[i]
    <3>1. ~\E j \in k .. Len(s) : s[j] = p
      BY <1>2, <1>5, <2>3, <2>4 DEF Order
    <3>2. job_length_score'[p] = IF job_length_score[p] > 0 THEN job_length_score[p] - 1 ELSE job_length_score[p]
      BY <1>3, <1>5, <2>1, <2>4
    <3> QED BY <2>3, <2>4, <3>1, <3>2 DEF AgedFrom
  <2>5. CASE p # s[i]
    <3>1. (\E j \in k .. Len(s) : s[j] = p) <=> \E j \in i .. Len(s) : s[j] = p
      BY <2>2, <2>3, <2>5
    <3>2. job_length_score'[p] = job_length_score[p]
      BY <1>3, <1>5, <2>1, <2>5
    <3> QED BY <3>1, <3>2 DEF AgedFrom
  <2> QED BY <2>4, <2>5
<1>14. SeenScore' = SeenScore
  BY <1>11, <1>12, <1>13 DEF AgedFrom
<1> QED BY <1>3, <1>8, <1>10, <1>14

LEMMA AgedStep ==
  ASSUME ListInv, Aged
  PROVE  ListInv' /\ UNCHANGED <<Contents, SeenScore, done>>
<1>1. PICK s : s = Contents
  OBVIOUS
<1>2. Len(s) \in Nat /\ \A k \in 1 .. Len(s) : s[k] # NULL
  BY <1>1, ListOf
<1>3. /\ loop = "age" /\ loop' = "none" /\ curr = NULL /\ NoLocals
      /\ UNCHANGED <<listVars, job_length_score, loose, done>>
  BY DEF Aged
<1>4. TypeOK'
  BY <1>3 DEF ListInv, TypeOK, NoLocals, Pointers, listVars
<1>5. Contents' = Contents /\ ListIntact'
  BY <1>3, QuietStep
<1>6. ListInv'
  BY <1>3, <1>4, <1>5 DEF ListInv
<1>7. PICK i \in 1 .. Len(s) + 1 : curr = Node(s, i)
  BY <1>1, <1>3 DEF ListInv, Walking
<1>8. SeenScore = AgedFrom(s, i, job_length_score)
  BY <1>1, <1>3, <1>7, SeenAging
<1>9. i .. Len(s) = {}
  <2>1. i \notin 1 .. Len(s)
    BY <1>2, <1>3, <1>7 DEF Node
  <2> QED BY <1>2, <2>1
<1>10. SeenScore = job_length_score
  BY <1>8, <1>9 DEF AgedFrom, ListInv, TypeOK
<1>11. SeenScore' = job_length_score'
  BY <1>3, <1>4, SeenLater
<1> QED BY <1>3, <1>5, <1>6, <1>10, <1>11
-----------------------------------------------------------------------------
LEMMA ListStep ==
  ListInv /\ [Next]_vars => ListInv' /\ [Queue!QueueNext]_(Queue!queueVars)
<1> SUFFICES ASSUME ListInv, [Next]_vars
             PROVE  ListInv' /\ [Queue!QueueNext]_(Queue!queueVars)
  OBVIOUS
<1> USE DEF Queue!queueVars
<1>1. CASE UNCHANGED vars
  <2>1. Contents' = Contents
    BY <1>1, QuietStep DEF vars
  <2>2. SeenScore' = SeenScore
    BY <1>1, <2>1 DEF vars, localVars, SeenScore, Ahead
  <2>3. ListInv'
    BY <1>1, <2>1 DEF vars, listVars, localVars, ListInv, TypeOK, ListIntact, Orders, Spells,
                      Seeking, Scanning, Walking
  <2> QED BY <1>1, <2>1, <2>2, <2>3 DEF vars
<1>2. ASSUME NEW p \in Processes, AddToTail(p)
      PROVE  ListInv' /\ [Queue!QueueNext]_(Queue!queueVars)
  BY <1>2, AddToTailStep
<1>3. ASSUME NEW p \in Processes, AddToHead(p)
      PROVE  ListInv' /\ [Queue!QueueNext]_(Queue!queueVars)
  BY <1>3, AddToHeadStep
<1>4. ASSUME NEW p \in Processes, InsertIntoEmpty(p)
      PROVE  ListInv' /\ [Queue!QueueNext]_(Queue!queueVars)
  BY <1>4, InsertIntoEmptyStep
<1>5. ASSUME NEW p \in Processes, InsertBeforeHead(p)
      PROVE  ListInv' /\ [Queue!QueueNext]_(Queue!queueVars)
  BY <1>5, InsertBeforeHeadStep
<1>6. ASSUME NEW p \in Processes, Seek(p)
      PROVE  ListInv' /\ [Queue!QueueNext]_(Queue!queueVars)
  BY <1>6, SeekStep
<1>7. CASE PopHead
  BY <1>7, PopHeadStep
<1>8. CASE PopNothing
  BY <1>8, PopNothingStep
<1>9. CASE Scan
  BY <1>9, ScanStep
<1>10. CASE Age
  BY <1>10, AgeStep
<1>11. CASE SeekOn
  BY <1>11, SeekOnStep
<1>12. CASE InsertAfter
  BY <1>12, InsertAfterStep
<1>13. CASE ScanOn
  BY <1>13, ScanOnStep
<1>14. CASE Unlink
  BY <1>14, UnlinkStep
<1>15. CASE AgeOn
  BY <1>15, AgeOnStep
<1>16. CASE Aged
  BY <1>16, AgedStep
<1> QED
  BY <1>1, <1>2, <1>3, <1>4, <1>5, <1>6, <1>7, <1>8, <1>9, <1>10, <1>11, <1>12, <1>13,
     <1>14, <1>15, <1>16 DEF Next, CallNext, LoopNext

LEMMA ListStart ==
  Init => ListInv /\ Queue!QueueInit
<1> SUFFICES ASSUME Init PROVE ListInv /\ Queue!QueueInit
  OBVIOUS
<1>1. TypeOK
  BY ListAssumption DEF Init, TypeOK, Pointers, Call
<1>2. Order(<<>>, Processes \ loose)
  <2>1. Processes \ loose = {}
    BY DEF Init
  <2> QED BY <2>1 DEF Order
<1>3. Linked(<<>>, head, tail, next)
  BY DEF Init, Linked, Node
<1>4. ListIntact /\ Contents = <<>>
  BY <1>2, <1>3, ContentsIs DEF Init, ListIntact
<1>5. ListInv
  BY <1>1, <1>4 DEF ListInv, Init
<1>6. SeenScore = job_length_score
  BY <1>1, SeenIs DEF Init
<1>7. Queue!QueueInit
  BY <1>1, <1>4, <1>6 DEF Init, TypeOK, Queue!QueueInit, Call, Queue!Call
<1> QED BY <1>5, <1>7

\* The pointers stay PCBs or null and a score never falls below zero: no call follows
\* a pointer that is none, and aging stops at zero (ready_queue.c:97).
THEOREM ListTypeCorrect == Spec => []TypeOK
<1>1. ListInv => TypeOK
  BY DEF ListInv
<1> QED BY <1>1, ListStart, ListStep, PTL DEF Spec

\* Whatever calls come, in whatever order: the list has the processes that were
\* queued and not popped, each once, from head to tail, and a popped PCB points
\* nowhere (ready_queue.c).
THEOREM ListStaysIntact == Spec => []ListIntact
<1>1. ListInv => ListIntact
  BY DEF ListInv
<1> QED BY <1>1, ListStart, ListStep, PTL DEF Spec

\* The five hand-written list operations and the two scans behave as the queue
\* of WaitingQueue, from which the scheduler takes its order of execution.
THEOREM ListIsQueue == Spec => ImplementsQueue
<1> QED BY ListStart, ListStep, PTL DEF Spec, ImplementsQueue, Queue!QueueSpec
=============================================================================
