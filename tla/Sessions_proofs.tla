--------------------------- MODULE Sessions_proofs ---------------------------
(***************************************************************************)
(* Proofs about WebSocketSession and HttpSession, about the SendQueue that *)
(* both are built on, and about the RateLimiter that decides what they may *)
(* send: for any number of messages of any kinds sent with any             *)
(* max_queue_size, any number of requests, any number of rate enforcers.   *)
(***************************************************************************)
EXTENDS WebSocketSession, HttpSession, RateLimiter, FiniteSetTheorems, SequenceTheorems,
        WellFoundedInduction, TLAPS

-----------------------------------------------------------------------------
(* Counting positions *)

\* The order the well-foundedness theorems speak of is the order of numbers.
LEMMA LessIs == \A m, n \in Nat : <<m, n>> \in OpToRel(<, Nat) <=> m < n
BY DEF OpToRel

\* A set of numbers that is not empty has a least one...
LEMMA Minimum ==
  ASSUME NEW S \in SUBSET Nat, S /= {}
  PROVE  \E m \in S : \A x \in S : m <= x
<1>1. PICK R : R = OpToRel(<, Nat)
  OBVIOUS
<1>2. IsWellFoundedOn(R, Nat)
  BY <1>1, NatLessThanWellFounded
<1>3. \A m, n \in Nat : <<m, n>> \in R <=> m < n
  BY <1>1, LessIs
<1>4. S \subseteq Nat
  OBVIOUS
<1>5. PICK x \in S : \A y \in S : ~ (<<y, x>> \in R)
  BY ONLY <1>2, <1>4, S /= {}, WFMin
<1>6. \A y \in S : x <= y
  <2> TAKE y \in S
  <2>1. ~ (y < x)
    BY <1>3, <1>4, <1>5
  <2> QED BY <2>1
<1> QED BY <1>6

\* ...and below a bound a greatest one.
LEMMA Maximum ==
  ASSUME NEW n \in Nat, NEW S \in SUBSET (1 .. n), S /= {}
  PROVE  \E m \in S : \A x \in S : x <= m
<1> DEFINE T == {y \in Nat : n - y \in S}
<1>1. T \in SUBSET Nat
  OBVIOUS
<1>2. PICK x : x \in S
  OBVIOUS
<1>3. n - x \in T
  <2>1. x \in 1 .. n /\ n - (n - x) = x
    BY <1>2
  <2> QED BY <1>2, <2>1
<1>4. PICK y \in T : \A z \in T : y <= z
  BY ONLY <1>1, <1>3, Minimum
<1>5. \A s \in S : n - s \in T
  <2>1. \A s \in S : s \in 1 .. n /\ n - (n - s) = s /\ n - s \in Nat
    OBVIOUS
  <2> QED BY <2>1
<1>6. \A s \in S : s <= n - y
  <2> TAKE s \in S
  <2>1. y <= n - s
    BY <1>4, <1>5
  <2>2. s \in Nat /\ y \in Nat
    BY <1>4
  <2> QED BY <2>1, <2>2
<1>7. n - y \in S
  BY <1>4
<1> QED BY <1>6, <1>7

\* A rank is a number, no more than the index and the size of the set.
LEMMA RankType ==
  ASSUME NEW n \in Nat, NEW K \in SUBSET (1 .. n), NEW j \in Nat
  PROVE  /\ IsFiniteSet(K) /\ Cardinality(K) \in Nat /\ Cardinality(K) <= n
         /\ Rank(K, j) \in Nat
         /\ Rank(K, j) <= j
         /\ Rank(K, j) <= Cardinality(K)
<1>1. IsFiniteSet(1 .. n) /\ Cardinality(1 .. n) = n
  BY FS_Interval
<1>2. IsFiniteSet(1 .. j) /\ Cardinality(1 .. j) = j
  BY FS_Interval
<1>3. IsFiniteSet(K) /\ Cardinality(K) <= n
  BY <1>1, FS_Subset
<1>4. Cardinality(K) \in Nat
  BY <1>3, FS_CardinalityType
<1> DEFINE A == {k \in K : k <= j}
<1>5. A \in SUBSET K /\ A \in SUBSET (1 .. j)
  <2>1. \A k \in A : k \in K /\ k \in 1 .. n /\ k <= j
    OBVIOUS
  <2>2. \A k \in A : k \in 1 .. j
    BY <2>1
  <2> QED BY <2>1, <2>2
<1>6. IsFiniteSet(A) /\ Cardinality(A) <= Cardinality(K)
  BY ONLY <1>3, <1>5, FS_Subset
<1>7. Cardinality(A) <= j
  BY ONLY <1>2, <1>5, FS_Subset
<1>8. Cardinality(A) \in Nat
  BY ONLY <1>6, FS_CardinalityType
<1> QED BY <1>3, <1>4, <1>6, <1>7, <1>8 DEF Rank

\* j is one more than the number of elements before it.
LEMMA RankSucceeds ==
  ASSUME NEW n \in Nat, NEW K \in SUBSET (1 .. n), NEW j \in K
  PROVE  /\ IsFiniteSet({k \in K : k < j})
         /\ Cardinality({k \in K : k < j}) \in Nat
         /\ Rank(K, j) = Cardinality({k \in K : k < j}) + 1
<1> DEFINE B == {k \in K : k < j}
<1>1. {k \in K : k <= j} = B \cup {j}
  <2>1. \A k \in K : k \in Nat /\ j \in Nat
    OBVIOUS
  <2>2. \A k \in K : k <= j <=> k < j \/ k = j
    BY <2>1
  <2> QED BY <2>2
<1>2. IsFiniteSet(K)
  BY RankType
<1>3. B \in SUBSET K
  OBVIOUS
<1>4. IsFiniteSet(B)
  BY ONLY <1>2, <1>3, FS_Subset
<1>5. Cardinality(B) \in Nat
  BY ONLY <1>4, FS_CardinalityType
<1>6. j \notin B
  OBVIOUS
<1>7. Cardinality(B \cup {j}) = Cardinality(B) + 1
  BY ONLY <1>4, <1>6, FS_AddElement
<1> QED BY <1>1, <1>4, <1>5, <1>7 DEF Rank

\* Ranks keep the order of the indices.
LEMMA RankIncreases ==
  ASSUME NEW n \in Nat, NEW K \in SUBSET (1 .. n), NEW j \in K, NEW k \in K, j < k
  PROVE  Rank(K, j) < Rank(K, k)
<1> DEFINE A == {i \in K : i <= j}
           B == {i \in K : i < k}
<1>1. A \in SUBSET B
  <2>1. \A i \in K : i \in Nat /\ j \in Nat /\ k \in Nat
    OBVIOUS
  <2>2. \A i \in K : i <= j => i < k
    BY <2>1
  <2> QED BY <2>2
<1>2. IsFiniteSet(B) /\ Cardinality(B) \in Nat /\ Rank(K, k) = Cardinality(B) + 1
  BY RankSucceeds
<1>3. Cardinality(A) <= Cardinality(B)
  BY ONLY <1>1, <1>2, FS_Subset
<1>4. Rank(K, j) = Cardinality(A)
  BY DEF Rank
<1>5. Cardinality(A) \in Nat
  BY <1>4, RankType
<1> QED BY <1>2, <1>3, <1>4, <1>5

\* The ranks of K are 1 .. Cardinality(K).
LEMMA RankOnto ==
  ASSUME NEW n \in Nat, NEW K \in SUBSET (1 .. n), NEW i \in 1 .. Cardinality(K)
  PROVE  \E j \in K : Rank(K, j) = i
<1>1. IsFiniteSet(K) /\ Cardinality(K) \in Nat
  BY RankType, n \in Nat
<1>2. K /= {}
  BY <1>1, FS_EmptySet
<1> DEFINE T == {j \in K : Rank(K, j) >= i}
<1>3. T /= {}
  <2>1. PICK m \in K : \A x \in K : x <= m
    BY ONLY n \in Nat, K \in SUBSET (1 .. n), <1>2, Maximum
  <2>2. {k \in K : k <= m} = K
    BY <2>1
  <2>3. Rank(K, m) = Cardinality(K)
    BY <2>2 DEF Rank
  <2> QED BY <2>1, <2>3, <1>1
<1>4. T \in SUBSET Nat
  <2>1. \A j \in T : j \in K /\ j \in Nat
    OBVIOUS
  <2> QED BY <2>1
<1>5. PICK j \in T : \A x \in T : j <= x
  BY ONLY <1>3, <1>4, Minimum
<1>6. j \in K /\ j \in Nat /\ Rank(K, j) >= i
  BY <1>5
<1> DEFINE B == {k \in K : k < j}
<1>7. /\ IsFiniteSet(B) /\ Cardinality(B) \in Nat
      /\ Rank(K, j) = Cardinality(B) + 1
  BY <1>6, RankSucceeds
<1>8. \A k \in B : Rank(K, k) < i /\ Rank(K, k) \in Nat
  <2> TAKE k \in B
  <2>1. k \in K /\ k \in Nat /\ k < j
    BY <1>6
  <2>2. k \notin T
    BY <1>5, <2>1
  <2>3. Rank(K, k) \in Nat
    BY <2>1, RankType
  <2> QED BY <2>1, <2>2, <2>3
<1>9. Cardinality(B) < i
  <2>1. CASE B = {}
    BY <2>1, FS_EmptySet
  <2>2. CASE B /= {}
    <3>0. B \in SUBSET (1 .. n)
      OBVIOUS
    <3>1. PICK m \in B : \A x \in B : x <= m
      BY ONLY n \in Nat, <3>0, <2>2, Maximum
    <3>2. {k \in K : k <= m} = B
      <4>1. \A k \in K : k \in Nat /\ m \in K /\ m \in Nat /\ m < j
        BY <3>1
      <4>2. \A k \in K : k <= m => k < j
        BY <4>1, <1>6
      <4>3. \A k \in K : k < j => k <= m
        BY <3>1
      <4> QED BY <4>2, <4>3
    <3>3. Rank(K, m) = Cardinality(B)
      BY <3>2 DEF Rank
    <3> QED BY <3>1, <3>3, <1>8
  <2> QED BY <2>1, <2>2
<1> QED BY <1>6, <1>7, <1>9

-----------------------------------------------------------------------------
(* The queue *)

\* The first n elements of r are those of q at the positions K, in order: e lists K.
Lists(e, r, n, q, K) ==
  /\ e \in [1 .. n -> K]
  /\ \A i \in 1 .. n : e[i] >= i
  /\ \A i, j \in 1 .. n : i < j => e[i] < e[j]
  /\ \A k \in K : \E i \in 1 .. n : e[i] = k
  /\ \A i \in 1 .. n : r[i] = q[e[i]]

\* Without keeps the elements at the other positions, in their order.
LEMMA WithoutKeeps ==
  ASSUME NEW S, NEW q \in Seq(S), NEW D
  PROVE  LET r == Without(q, D) IN
         /\ r \in Seq(S)
         /\ Len(r) = Cardinality(DOMAIN q \ D)
         /\ \E e : Lists(e, r, Len(r), q, DOMAIN q \ D)
<1> DEFINE n == Len(q)
           K == DOMAIN q \ D
           c == Cardinality(K)
           e == [i \in 1 .. c |-> CHOOSE j \in K : Rank(K, j) = i]
           r == Without(q, D)
<1>1. n \in Nat /\ K \in SUBSET (1 .. n)
  OBVIOUS
<1>2. c \in Nat
  BY ONLY <1>1, RankType
<1>3. r = [i \in 1 .. c |-> q[e[i]]]
  BY DEF Without
<1>4. \A i \in 1 .. c : e[i] \in K /\ Rank(K, e[i]) = i
  <2> TAKE i \in 1 .. c
  <2>1. \E j \in K : Rank(K, j) = i
    BY ONLY <1>1, i \in 1 .. c, RankOnto
  <2> QED BY <2>1
<1>5. \A k \in K : q[k] \in S
  OBVIOUS
<1> HIDE DEF c, e, K, n, r
<1>6. r \in Seq(S) /\ Len(r) = c
  BY <1>2, <1>3, <1>4, <1>5
<1>7. e \in [1 .. c -> K]
  BY <1>4 DEF e
<1>8. \A k \in K : k \in Nat /\ Rank(K, k) \in Nat /\ Rank(K, k) <= k /\ Rank(K, k) <= c
  <2> TAKE k \in K
  <2>1. k \in Nat
    BY <1>1
  <2> QED BY <1>1, <2>1, RankType DEF c
<1>9. \A j, k \in K : j < k => Rank(K, j) < Rank(K, k)
  BY <1>1, RankIncreases
<1>10. \A i \in 1 .. c : e[i] >= i
  BY <1>4, <1>8
<1>11. \A i, j \in 1 .. c : i < j => e[i] < e[j]
  <2> SUFFICES ASSUME NEW i \in 1 .. c, NEW j \in 1 .. c, i < j, ~ (e[i] < e[j])
               PROVE  FALSE
    OBVIOUS
  <2>1. e[i] \in K /\ e[j] \in K /\ Rank(K, e[i]) = i /\ Rank(K, e[j]) = j
    BY <1>4
  <2>2. e[j] < e[i] \/ e[j] = e[i]
    BY <1>8, <2>1
  <2>3. Rank(K, e[j]) < Rank(K, e[i]) \/ e[j] = e[i]
    BY <1>9, <2>1, <2>2
  <2> QED BY <2>1, <2>3
<1>12. \A k \in K : \E i \in 1 .. c : e[i] = k
  <2> TAKE k \in K
  <2>1. {i \in K : i <= k} /= {} /\ k \in {i \in K : i <= k}
    BY <1>8
  <2>2. Rank(K, k) /= 0
    <3> DEFINE A == {i \in K : i <= k}
    <3>1. IsFiniteSet(K)
      BY <1>1, RankType
    <3>2. A \in SUBSET K /\ A /= {}
      BY <2>1
    <3>3. IsFiniteSet(A)
      BY ONLY <3>1, <3>2, FS_Subset
    <3>4. Cardinality(A) /= 0
      BY ONLY <3>2, <3>3, FS_EmptySet
    <3> QED BY <3>4 DEF Rank
  <2>3. Rank(K, k) \in 1 .. c
    BY <1>2, <1>8, <2>2
  <2>4. PICK i \in 1 .. c : i = Rank(K, k)
    BY <2>3
  <2>5. e[i] \in K /\ Rank(K, e[i]) = i
    BY <1>4
  <2>6. e[i] = k
    BY <1>8, <1>9, <2>4, <2>5
  <2> QED BY <2>6
<1>13. \A i \in 1 .. c : r[i] = q[e[i]]
  BY <1>3
<1>14. Lists(e, r, Len(r), q, K)
  BY <1>6, <1>7, <1>10, <1>11, <1>12, <1>13 DEF Lists
<1> QED BY <1>6, <1>14 DEF r, K, c

\* What is dropped is neither among the first two nor forced.  If anything that could
\* be is not, then fewer than max messages (or 2) are left.
LEMMA DropsEnough ==
  ASSUME NEW q \in Seq(Message), NEW max \in Nat
  PROVE  LET D == Drops(q, max) IN
         /\ D \subseteq DOMAIN q
         /\ \A i \in D : i >= 3 /\ ~Forced(q[i])
         /\ \/ \A i \in DOMAIN q : i >= 3 /\ ~Forced(q[i]) => i \in D
            \/ Cardinality(DOMAIN q \ D) < AtLeast2(max)
<1> DEFINE n == Len(q)
           P == {i \in DOMAIN q : Droppable(q, i)}
           D == Drops(q, max)
           a == AtLeast2(max)
<1>1. n \in Nat /\ DOMAIN q = 1 .. n /\ a \in Nat
  BY DEF AtLeast2
<1>2. P \in SUBSET (1 .. n)
  BY <1>1
<1>3. \A i \in 1 .. n : DroppablesTo(q, i) = Rank(P, i)
  <2> TAKE i \in 1 .. n
  <2>1. {k \in 1 .. i : Droppable(q, k)} = {k \in P : k <= i}
    BY <1>1
  <2> QED BY <2>1 DEF DroppablesTo, Rank
<1>4. D = {i \in P : Rank(P, i) <= n - a + 1}
  BY <1>1, <1>3 DEF Drops
<1>5. D \subseteq DOMAIN q /\ \A i \in D : i >= 3 /\ ~Forced(q[i])
  BY <1>4 DEF Droppable
<1>6. CASE P \subseteq D
  BY <1>5, <1>6 DEF Droppable
<1>7. CASE ~ (P \subseteq D)
  <2> HIDE DEF P, D, a, n
  <2>0. \A k \in P : k \in 1 .. n /\ k \in Nat
    BY <1>2
  <2>1. P \ D \in SUBSET Nat /\ P \ D /= {}
    BY <2>0, <1>7
  <2>2. PICK d \in P \ D : \A x \in P \ D : d <= x
    BY ONLY <2>1, Minimum
  <2>3. d \in P /\ d \in Nat /\ \A k \in P : k \in Nat
    BY <1>2, <2>2
  <2> DEFINE B == {k \in P : k < d}
  <2>4. IsFiniteSet(B) /\ Cardinality(B) \in Nat /\ Rank(P, d) = Cardinality(B) + 1
    BY <1>1, <1>2, <2>3, RankSucceeds
  <2>5. ~ (Rank(P, d) <= n - a + 1)
    BY <1>4, <2>2
  <2>6. Cardinality(B) >= n - a + 1
    BY <1>1, <2>4, <2>5
  <2>7. B \in SUBSET D
    <3>1. \A k \in B : ~ (d <= k)
      BY <2>3
    <3> QED BY <2>2, <3>1
  <2>8. IsFiniteSet(1 .. n) /\ Cardinality(1 .. n) = n
    BY <1>1, FS_Interval
  <2>9. D \in SUBSET (1 .. n) /\ (1 .. n) \ D \in SUBSET (1 .. n)
    BY <1>1, <1>5
  <2>10. IsFiniteSet(D) /\ IsFiniteSet((1 .. n) \ D)
    BY ONLY <2>8, <2>9, FS_Subset
  <2>11. Cardinality(B) <= Cardinality(D)
    BY ONLY <2>7, <2>10, FS_Subset
  <2>12. /\ Cardinality(D) \in Nat /\ Cardinality((1 .. n) \ D) \in Nat
    BY ONLY <2>10, FS_CardinalityType
  <2>13. Cardinality(((1 .. n) \ D) \cup D) =
           Cardinality((1 .. n) \ D) + Cardinality(D) - Cardinality(((1 .. n) \ D) \cap D)
    BY ONLY <2>10, FS_Union
  <2>14. ((1 .. n) \ D) \cup D = 1 .. n /\ ((1 .. n) \ D) \cap D = {}
    BY <2>9
  <2>15. Cardinality((1 .. n) \ D) = n - Cardinality(D)
    <3>1. Cardinality(((1 .. n) \ D) \cap D) = 0
      BY ONLY <2>14, FS_EmptySet
    <3>2. n = Cardinality((1 .. n) \ D) + Cardinality(D) - 0
      BY ONLY <2>8, <2>13, <2>14, <3>1
    <3> QED BY ONLY <1>1, <2>12, <3>2
  <2>16. Cardinality((1 .. n) \ D) < a
    BY <1>1, <2>4, <2>6, <2>11, <2>12, <2>15
  <2> QED BY <1>1, <1>5, <2>16 DEF D, a
<1> QED BY <1>6, <1>7

\* on_send keeps the others in their order, the first two in their place, and puts
\* msg at the back.  If the queue has then more than max messages and 3, those
\* between the first two and msg are forced.
LEMMA EnqueueKeeps ==
  ASSUME NEW q \in Seq(Message), NEW msg \in Message
  PROVE  LET r == Enqueue(q, msg)
             m == Len(r) - 1
             K == DOMAIN q \ Drops(q, msg.max)
         IN
         /\ r \in Seq(Message) /\ m \in Nat /\ r[m + 1] = msg
         /\ \E e : Lists(e, r, m, q, K)
         /\ q = <<>> => r = <<msg>>
         /\ q /= <<>> => r[1] = q[1]
         /\ Len(r) > 3 /\ Len(r) > msg.max => \A i \in 3 .. Len(r) - 1 : Forced(r[i])
<1> DEFINE D == Drops(q, msg.max)
           K == DOMAIN q \ D
           w == Without(q, D)
           m == Len(w)
           r == Enqueue(q, msg)
<1>0. msg.max \in Nat
  BY MessagesAssumption DEF Message
<1>1. /\ D \subseteq DOMAIN q
      /\ \A i \in D : i >= 3 /\ ~Forced(q[i])
      /\ \/ \A i \in DOMAIN q : i >= 3 /\ ~Forced(q[i]) => i \in D
         \/ Cardinality(K) < AtLeast2(msg.max)
  BY <1>0, DropsEnough
<1>2. /\ w \in Seq(Message)
      /\ m = Cardinality(K)
      /\ \E e : Lists(e, w, m, q, K)
  <2> HIDE DEF D
  <2>1. q \in Seq(Message)
    OBVIOUS
  <2> QED BY ONLY <2>1, WithoutKeeps
<1>3. r = Append(w, msg)
  BY DEF Enqueue
<1>4. DOMAIN q = 1 .. Len(q) /\ Len(q) \in Nat /\ K \subseteq DOMAIN q
  OBVIOUS
<1>5. K = DOMAIN q \ D
  OBVIOUS
<1> HIDE DEF D, K, w, r
<1>6. m \in Nat
  BY <1>2
<1>7. r \in Seq(Message) /\ Len(r) = m + 1 /\ r[m + 1] = msg /\ \A i \in 1 .. m : r[i] = w[i]
  BY <1>2, <1>3
<1> HIDE DEF m
<1>8. PICK e : Lists(e, w, m, q, K)
  BY <1>2
<1>9. \A i \in 1 .. m : r[i] = q[e[i]] /\ e[i] \in K /\ e[i] >= i
  BY <1>7, <1>8 DEF Lists
<1>10. ASSUME q = <<>> PROVE r = <<msg>>
  <2>1. K = {}
    BY <1>4, <1>10
  <2>2. m = 0
    BY <1>6, <1>9, <2>1
  <2>3. w = <<>>
    BY <1>2, <2>2 DEF m
  <2> QED BY <1>3, <2>3
<1>11. ASSUME q /= <<>> PROVE r[1] = q[1]
  <2>1. 1 \in K
    BY <1>1, <1>4, <1>5, <1>11
  <2>2. PICK i \in 1 .. m : e[i] = 1
    BY <1>8, <2>1 DEF Lists
  <2>3. i = 1
    BY <1>6, <1>9, <2>2
  <2> QED BY <1>9, <2>2, <2>3
<1>12. ASSUME Len(r) > 3, Len(r) > msg.max, NEW i \in 3 .. Len(r) - 1
       PROVE  Forced(r[i])
  <2>1. ~ (m < AtLeast2(msg.max))
    BY <1>0, <1>6, <1>7, <1>12 DEF AtLeast2
  <2>2. \A j \in DOMAIN q : j >= 3 /\ ~Forced(q[j]) => j \in D
    BY <1>1, <1>2, <2>1 DEF m
  <2>3. i \in 1 .. m
    BY <1>6, <1>7
  <2>4. e[i] \in DOMAIN q /\ e[i] \notin D /\ e[i] >= i
    BY <1>4, <1>5, <1>9, <2>3
  <2>5. e[i] >= 3
    BY <1>4, <2>3, <2>4
  <2> QED BY <1>9, <2>2, <2>3, <2>4, <2>5
<1>13. Len(r) - 1 = m
  BY <1>6, <1>7
<1>14. Lists(e, r, m, q, K)
  BY <1>8, <1>9 DEF Lists
<1> QED BY <1>6, <1>7, <1>10, <1>11, <1>12, <1>13, <1>14 DEF r, K, D

-----------------------------------------------------------------------------
(* The invariant of the queue *)

IdsOf(q) == {q[i].id : i \in DOMAIN q}

InOrder(q) == \A i, j \in DOMAIN q : i < j => q[i].id < q[j].id

\* Messages are queued in the order of the sendAsync calls, those still posted
\* after all that are queued, and nobody has called the handler of one of them.
SendInv ==
  /\ QueueTypeOK
  /\ InOrder(queue) /\ InOrder(posted)
  /\ \A m \in IdsOf(queue), n \in IdsOf(posted) : m < n
  /\ \A m \in IdsOf(queue) \cup IdsOf(posted) : m <= sent
  /\ \A m \in IdsOf(queue) \cup IdsOf(posted) : calls[m] = 0
  /\ \A m \in Ids : m > sent => calls[m] = 0

\* The messages of a queue have ids.
LEMMA IdsType ==
  ASSUME NEW q \in Seq(Message)
  PROVE  IdsOf(q) \subseteq Ids /\ \A i \in DOMAIN q : q[i].id \in IdsOf(q) /\ q[i].id \in Nat
<1>1. \A i \in DOMAIN q : q[i] \in Message
  OBVIOUS
<1>2. \A i \in DOMAIN q : q[i].id \in Ids
  BY <1>1 DEF Message
<1> QED BY <1>2, MessagesAssumption DEF IdsOf, Ids

\* A queue as constructed.
LEMMA SendInitially ==
  ASSUME QueueInit PROVE SendInv
<1>1. posted = <<>> /\ queue = <<>> /\ sent = 0
  BY DEF QueueInit
<1>2. QueueTypeOK
  BY MessagesAssumption DEF QueueInit, QueueTypeOK, Ids
<1>3. InOrder(queue) /\ InOrder(posted) /\ IdsOf(queue) = {} /\ IdsOf(posted) = {}
  BY <1>1 DEF InOrder, IdsOf
<1>4. \A m \in Ids : calls[m] = 0
  BY DEF QueueInit
<1> QED BY <1>2, <1>3, <1>4 DEF SendInv

\* The invariant speaks of the queue only.
LEMMA SendStays ==
  ASSUME SendInv, UNCHANGED sendVars PROVE SendInv'
BY DEF SendInv, sendVars, QueueTypeOK, InOrder, IdsOf

\* A message is posted under an id of its own.
LEMMA PostKeeps ==
  ASSUME SendInv, NEW k \in Kinds, NEW x \in MaxQueueSizes, PostMessage(k, x)
  PROVE  /\ SendInv'
         /\ sent \in Nat /\ sent' = sent + 1
         /\ IdsOf(posted)' = IdsOf(posted) \cup {sent + 1}
<1> DEFINE msg == [id |-> sent + 1, kind |-> k, max |-> x]
<1>1. /\ posted \in Seq(Message) /\ queue \in Seq(Message) /\ sent \in Nat
      /\ sent' = sent + 1 /\ sent' \in 0 .. MaxMessages /\ sent' \in Ids
      /\ posted' = Append(posted, msg) /\ queue' = queue /\ op' = op /\ calls' = calls
  BY MessagesAssumption DEF SendInv, QueueTypeOK, PostMessage, Ids
<1>2. msg \in Message /\ msg.id = sent + 1
  BY <1>1 DEF Message
<1>3. IdsOf(posted) \subseteq Ids /\ IdsOf(queue) \subseteq Ids /\ Ids \subseteq Nat
  BY <1>1, IdsType DEF Ids
<1> HIDE DEF msg
<1>4. QueueTypeOK'
  BY <1>1, <1>2 DEF SendInv, QueueTypeOK
<1>5. InOrder(posted) /\ \A m \in IdsOf(posted) : m <= sent
  BY DEF SendInv
<1>6. \A i \in DOMAIN posted' :
        \/ i \in DOMAIN posted /\ posted'[i] = posted[i]
        \/ i = Len(posted) + 1 /\ posted'[i] = msg
  <2>1. Len(posted) \in Nat /\ DOMAIN posted = 1 .. Len(posted)
    BY <1>1
  <2>2. DOMAIN posted' = 1 .. Len(posted) + 1
    BY <1>1, <1>2
  <2>3. posted'[Len(posted) + 1] = msg /\ \A i \in 1 .. Len(posted) : posted'[i] = posted[i]
    BY <1>1, <1>2, <2>1
  <2>4. \A i \in 1 .. Len(posted) + 1 : i \in 1 .. Len(posted) \/ i = Len(posted) + 1
    BY <2>1
  <2>5. \A i \in 1 .. Len(posted) + 1 :
          \/ i \in 1 .. Len(posted) /\ posted'[i] = posted[i]
          \/ i = Len(posted) + 1 /\ posted'[i] = msg
    BY <2>3, <2>4
  <2> QED BY ONLY <2>1, <2>2, <2>5
<1>7. \A i \in DOMAIN posted : posted[i].id <= sent /\ posted[i].id \in Nat /\ i <= Len(posted)
  BY <1>1, <1>5, IdsType
<1>8. InOrder(posted)'
  BY <1>1, <1>2, <1>5, <1>6, <1>7 DEF InOrder
<1>9. IdsOf(posted)' = IdsOf(posted) \cup {sent + 1}
  <2>1. IdsOf(posted)' \subseteq IdsOf(posted) \cup {sent + 1}
    BY <1>2, <1>6 DEF IdsOf
  <2>2. /\ \A i \in DOMAIN posted : i \in DOMAIN posted' /\ posted'[i] = posted[i]
        /\ Len(posted) + 1 \in DOMAIN posted' /\ posted'[Len(posted) + 1] = msg
    BY <1>1, <1>2
  <2>3. IdsOf(posted) \cup {sent + 1} \subseteq IdsOf(posted)'
    BY <1>2, <2>2 DEF IdsOf
  <2> QED BY <2>1, <2>3
<1>10. InOrder(queue)' /\ IdsOf(queue)' = IdsOf(queue)
  BY <1>1 DEF SendInv, InOrder, IdsOf
<1>15. \A m \in IdsOf(queue) \cup IdsOf(posted) : m <= sent /\ m < sent + 1 /\ m <= sent + 1
  <2>1. \A m \in IdsOf(queue) \cup IdsOf(posted) : m <= sent /\ m \in Nat
    BY <1>3 DEF SendInv
  <2> QED BY <1>1, <2>1
<1>11. \A m \in IdsOf(queue)', n \in IdsOf(posted)' : m < n
  BY <1>9, <1>10, <1>15 DEF SendInv
<1>12. \A m \in IdsOf(queue)' \cup IdsOf(posted)' : m <= sent'
  <2>1. sent + 1 <= sent + 1
    BY <1>1
  <2> QED BY <1>1, <1>9, <1>10, <1>15, <2>1
<1>13. \A m \in IdsOf(queue)' \cup IdsOf(posted)' : calls'[m] = 0
  BY <1>1, <1>9, <1>10 DEF SendInv
<1>14. \A m \in Ids : m > sent' => calls'[m] = 0
  BY <1>1, <1>3 DEF SendInv
<1> QED BY <1>1, <1>4, <1>8, <1>9, <1>10, <1>11, <1>12, <1>13, <1>14 DEF SendInv

\* Calling the handlers of queued messages that leave the queue.
LEMMA CallKeeps ==
  ASSUME SendInv, NEW S \in SUBSET IdsOf(queue), CallHandlers(S)
  PROVE  /\ calls' \in [Ids -> 0 .. 1]
         /\ \A m \in S : calls'[m] = 1
         /\ \A m \in Ids \ S : calls'[m] = calls[m]
         /\ \A m \in Ids : calls[m] = 1 => calls'[m] = 1
<1>1. queue \in Seq(Message) /\ calls \in [Ids -> 0 .. 1]
  BY DEF SendInv, QueueTypeOK
<1>2. S \subseteq Ids
  BY <1>1, IdsType
<1>3. \A m \in S : calls[m] = 0
  BY DEF SendInv
<1> QED BY <1>1, <1>2, <1>3 DEF CallHandlers

\* What on_send does to the queue.
LEMMA QueueKeeps ==
  ASSUME SendInv, QueueMessage, op' \in {"none", "write", "abort"}
  PROVE  /\ SendInv'
         /\ queue' \in Seq(Message)
         /\ IdsOf(queue)' \subseteq IdsOf(queue) \cup {Head(posted).id}
         /\ IdsOf(posted)' \subseteq IdsOf(posted)
         /\ Head(posted).id \in IdsOf(posted)
         /\ \A m \in IdsOf(queue) \cup IdsOf(posted) :
              calls'[m] = 1 \/ m \in IdsOf(queue)' \/ m \in IdsOf(posted)'
         /\ \A m \in Ids : calls[m] = 1 => calls'[m] = 1
         /\ queue' /= <<>>
         /\ queue /= <<>> => Head(queue') = Head(queue)
         /\ queue = <<>> => queue' = <<Head(posted)>>
         /\ QueueBounded'
<1> DEFINE msg == Head(posted)
           d == Drops(queue, msg.max)
           K == DOMAIN queue \ d
           l == Len(queue') - 1
           S == {queue[i].id : i \in d}
<1>1. /\ posted \in Seq(Message) /\ queue \in Seq(Message) /\ sent \in Nat
      /\ posted /= <<>> /\ posted' = Tail(posted) /\ sent' = sent /\ CallHandlers(S)
      /\ queue' = Enqueue(queue, msg) /\ sent \in 0 .. MaxMessages
  BY MessagesAssumption DEF SendInv, QueueTypeOK, QueueMessage
<1>2. msg \in Message /\ msg = posted[1] /\ 1 \in DOMAIN posted
  BY <1>1
<1>3. /\ queue' \in Seq(Message) /\ l \in Nat /\ queue'[l + 1] = msg
      /\ \E e : Lists(e, queue', l, queue, K)
      /\ queue = <<>> => queue' = <<msg>>
      /\ queue /= <<>> => queue'[1] = queue[1]
      /\ Len(queue') > 3 /\ Len(queue') > msg.max =>
           \A i \in 3 .. Len(queue') - 1 : Forced(queue'[i])
  BY <1>1, <1>2, EnqueueKeeps
<1>4. d \subseteq DOMAIN queue
  <2>1. msg.max \in Nat
    BY <1>2, MessagesAssumption DEF Message
  <2> QED BY <1>1, <2>1, DropsEnough
<1>5. DOMAIN queue' = 1 .. l + 1 /\ queue' /= <<>> /\ Head(queue') = queue'[1]
  BY <1>3
<1>6. DOMAIN queue = 1 .. Len(queue) /\ Len(queue) \in Nat
  BY <1>1
<1>7. queue /= <<>> => Head(queue') = Head(queue)
  BY <1>1, <1>3, <1>5
<1>8. K \subseteq DOMAIN queue /\ K \cap d = {} /\ DOMAIN queue \subseteq K \cup d
  OBVIOUS
<1>9. S \in SUBSET IdsOf(queue)
  BY <1>4 DEF IdsOf
<1>10. /\ calls' \in [Ids -> 0 .. 1]
       /\ \A m \in S : calls'[m] = 1
       /\ \A m \in Ids \ S : calls'[m] = calls[m]
       /\ \A m \in Ids : calls[m] = 1 => calls'[m] = 1
  BY <1>1, <1>9, CallKeeps
<1>11. /\ IdsOf(queue) \subseteq Ids /\ IdsOf(posted) \subseteq Ids /\ Ids \subseteq Nat
       /\ \A i \in DOMAIN queue : queue[i].id \in IdsOf(queue) /\ queue[i].id \in Nat
       /\ \A i \in DOMAIN posted : posted[i].id \in IdsOf(posted) /\ posted[i].id \in Nat
  BY <1>1, IdsType DEF Ids
<1>12. \A i \in d : queue[i].id \in S
  OBVIOUS
<1>13. \A m \in S : \E i \in d : m = queue[i].id
  OBVIOUS
<1>14. DOMAIN posted = 1 .. Len(posted) /\ Len(posted) \in Nat
  BY <1>1
<1>15. PICK e : Lists(e, queue', l, queue, K)
  BY <1>3
<1> HIDE DEF msg, d, K, l, S
<1>16. /\ \A i \in 1 .. l : queue'[i] = queue[e[i]] /\ e[i] \in K /\ e[i] \in DOMAIN queue
       /\ \A i, j \in 1 .. l : i < j => e[i] < e[j]
       /\ \A k \in K : \E i \in 1 .. l : e[i] = k
  BY <1>8, <1>15 DEF Lists
<1>17. msg.id \in IdsOf(posted)
  BY <1>2, <1>11
<1>18. \A i \in DOMAIN queue' :
         \/ i \in 1 .. l
         \/ i = l + 1 /\ queue'[i] = msg
  BY <1>3, <1>5
<1>19. \A j \in DOMAIN posted' : posted'[j] = posted[j + 1] /\ j + 1 \in DOMAIN posted /\ j \in Nat
  BY <1>1, <1>14
<1>20. \A j \in DOMAIN posted : j = 1 \/ (j - 1 \in DOMAIN posted' /\ posted'[j - 1] = posted[j])
  BY <1>1, <1>14
<1>21. IdsOf(queue)' \subseteq IdsOf(queue) \cup {msg.id}
  BY <1>16, <1>18, <1>11 DEF IdsOf
<1>22. IdsOf(posted)' \subseteq IdsOf(posted)
  BY <1>19, <1>11 DEF IdsOf
<1>23. \A m \in IdsOf(queue) : m \in S \/ m \in IdsOf(queue)'
  <2> SUFFICES ASSUME NEW i \in DOMAIN queue PROVE queue[i].id \in S \cup IdsOf(queue)'
    BY DEF IdsOf
  <2>1. CASE i \in d
    BY <1>12, <2>1
  <2>2. CASE i \in K
    <3>1. PICK j \in 1 .. l : e[j] = i
      BY <1>16, <2>2
    <3>2. j \in DOMAIN queue' /\ queue'[j] = queue[i]
      BY <1>3, <1>5, <1>16, <3>1
    <3> QED BY <3>2 DEF IdsOf
  <2> QED BY <1>8, <2>1, <2>2
<1>24. \A m \in IdsOf(posted) : m \in IdsOf(queue)' \/ m \in IdsOf(posted)'
  <2>1. l + 1 \in DOMAIN queue'
    BY <1>3, <1>5
  <2>2. msg.id \in IdsOf(queue)'
    BY <1>3, <2>1 DEF IdsOf
  <2>3. \A j \in DOMAIN posted : j /= 1 => posted[j].id \in IdsOf(posted)'
    BY <1>20 DEF IdsOf
  <2> QED BY <1>2, <2>2, <2>3 DEF IdsOf
<1>25. InOrder(queue)'
  <2> SUFFICES ASSUME NEW i \in DOMAIN queue', NEW j \in DOMAIN queue', i < j
               PROVE  queue'[i].id < queue'[j].id
    BY DEF InOrder
  <2>1. i \in 1 .. l
    BY <1>3, <1>5, <1>18
  <2>2. CASE j \in 1 .. l
    BY <1>16, <2>1, <2>2 DEF SendInv, InOrder
  <2>3. CASE j = l + 1 /\ queue'[j] = msg
    BY <1>11, <1>16, <1>17, <2>1, <2>3 DEF SendInv
  <2> QED BY <1>18, <2>2, <2>3
<1>26. InOrder(posted)'
  <2> SUFFICES ASSUME NEW i \in DOMAIN posted', NEW j \in DOMAIN posted', i < j
               PROVE  posted'[i].id < posted'[j].id
    BY DEF InOrder
  <2>1. i + 1 < j + 1
    BY <1>19
  <2> QED BY <1>19, <2>1 DEF SendInv, InOrder
<1>27. \A m \in IdsOf(queue)', n \in IdsOf(posted)' : m < n
  <2>1. \A n \in IdsOf(posted)' : msg.id < n
    <3> SUFFICES ASSUME NEW j \in DOMAIN posted' PROVE msg.id < posted'[j].id
      BY DEF IdsOf
    <3>1. 1 < j + 1
      BY <1>5, <1>1, <1>14, <1>19
    <3> QED BY <1>2, <1>19, <3>1 DEF SendInv, InOrder
  <2> QED BY <1>21, <1>22, <2>1 DEF SendInv
<1>28. \A m \in IdsOf(queue)' \cup IdsOf(posted)' : m <= sent'
  BY <1>1, <1>17, <1>21, <1>22 DEF SendInv
<1>29. \A m \in IdsOf(queue)' \cup IdsOf(posted)' : m \notin S
  <2>1. \A m \in IdsOf(posted) : m \notin S
    <3>1. \A m \in Nat : ~ (m < m)
      OBVIOUS
    <3>2. \A m \in S : m \in IdsOf(queue) /\ m \in Nat
      BY <1>9, <1>11
    <3> QED BY <3>1, <3>2 DEF SendInv
  <2>2. \A i \in 1 .. l : queue'[i].id \notin S
    <3> SUFFICES ASSUME NEW i \in 1 .. l, NEW j \in d, queue[e[i]].id = queue[j].id
                 PROVE  FALSE
      BY <1>13, <1>16
    <3>1. e[i] \in DOMAIN queue /\ j \in DOMAIN queue /\ e[i] /= j
      BY <1>4, <1>8, <1>16
    <3>2. e[i] < j \/ j < e[i]
      BY <1>6, <3>1
    <3>3. queue[e[i]].id < queue[j].id \/ queue[j].id < queue[e[i]].id
      BY <3>1, <3>2 DEF SendInv, InOrder
    <3> QED BY <1>11, <3>1, <3>3
  <2>3. \A m \in IdsOf(queue)' : m \notin S
    BY <1>17, <1>18, <2>1, <2>2 DEF IdsOf
  <2> QED BY <1>22, <2>1, <2>3
<1>30. \A m \in IdsOf(queue)' \cup IdsOf(posted)' : calls'[m] = 0
  <2>1. \A m \in IdsOf(queue)' \cup IdsOf(posted)' : m \in IdsOf(queue) \cup IdsOf(posted)
    BY <1>17, <1>21, <1>22
  <2> QED BY <1>10, <1>11, <1>29, <2>1 DEF SendInv
<1>31. \A m \in Ids : m > sent' => calls'[m] = 0
  <2>1. \A m \in Ids : m > sent => m \notin S
    BY <1>1, <1>9, <1>11 DEF SendInv
  <2> QED BY <1>1, <1>10, <2>1 DEF SendInv
<1>32. QueueTypeOK'
  <2>1. posted' \in Seq(Message)
    BY <1>1
  <2> QED BY <1>1, <1>3, <1>10, <2>1 DEF QueueTypeOK
<1>33. SendInv'
  BY <1>25, <1>26, <1>27, <1>28, <1>30, <1>31, <1>32 DEF SendInv
<1>34. \A m \in IdsOf(queue) \cup IdsOf(posted) :
         calls'[m] = 1 \/ m \in IdsOf(queue)' \/ m \in IdsOf(posted)'
  BY <1>10, <1>23, <1>24
<1>35. QueueBounded'
  <2>1. msg.max \in MaxQueueSizes
    BY <1>2 DEF Message
  <2> QED BY <1>3, <2>1 DEF QueueBounded, Forced
<1> QED BY <1>3, <1>5, <1>7, <1>10, <1>17, <1>21, <1>22, <1>33, <1>34, <1>35 DEF msg

\* What on_write does to the queue.
LEMMA PopKeeps ==
  ASSUME SendInv, PopFront, queue /= <<>>, op' \in {"none", "write", "abort"}
  PROVE  /\ SendInv'
         /\ queue' \in Seq(Message)
         /\ Head(queue).id \in IdsOf(queue) /\ Head(queue).id \in Ids
         /\ IdsOf(queue)' \subseteq IdsOf(queue) /\ IdsOf(posted)' = IdsOf(posted)
         /\ \A m \in IdsOf(queue)' \cup IdsOf(posted)' : Head(queue).id < m
         /\ \A m \in IdsOf(queue) : calls'[m] = 1 \/ m \in IdsOf(queue)'
         /\ \A m \in Ids : calls[m] = 1 => calls'[m] = 1
         /\ QueueBounded => QueueBounded'
<1> DEFINE first == Head(queue).id
<1>1. /\ posted \in Seq(Message) /\ queue \in Seq(Message)
      /\ posted' = posted /\ sent' = sent /\ sent \in 0 .. MaxMessages
      /\ queue' = Tail(queue) /\ CallHandlers({first})
  BY DEF SendInv, QueueTypeOK, PopFront
<1>2. DOMAIN queue = 1 .. Len(queue) /\ Len(queue) \in Nat /\ 1 \in DOMAIN queue
  BY <1>1
<1>3. /\ IdsOf(queue) \subseteq Ids /\ IdsOf(posted) \subseteq Ids /\ Ids \subseteq Nat
      /\ \A i \in DOMAIN queue : queue[i].id \in IdsOf(queue) /\ queue[i].id \in Nat
  BY <1>1, IdsType DEF Ids
<1>4. first = queue[1].id /\ first \in IdsOf(queue)
  BY <1>1, <1>2, <1>3
<1>5. /\ queue' \in Seq(Message) /\ Len(queue') = Len(queue) - 1
      /\ \A j \in DOMAIN queue' : queue'[j] = queue[j + 1] /\ j + 1 \in DOMAIN queue /\ j \in Nat \ {0}
      /\ \A j \in DOMAIN queue : j = 1 \/ (j - 1 \in DOMAIN queue' /\ queue'[j - 1] = queue[j])
  BY <1>1, <1>2
<1>6. /\ calls' \in [Ids -> 0 .. 1]
      /\ calls'[first] = 1
      /\ \A m \in Ids \ {first} : calls'[m] = calls[m]
      /\ \A m \in Ids : calls[m] = 1 => calls'[m] = 1
  <2>1. {first} \in SUBSET IdsOf(queue)
    BY <1>4
  <2> QED BY ONLY SendInv, <1>1, <2>1, CallKeeps
<1> HIDE DEF first
<1>7. IdsOf(queue)' \subseteq IdsOf(queue) /\ IdsOf(posted)' = IdsOf(posted)
  BY <1>1, <1>3, <1>5 DEF IdsOf
<1>8. \A m \in IdsOf(queue)' : first < m
  <2> SUFFICES ASSUME NEW j \in DOMAIN queue' PROVE first < queue'[j].id
    BY DEF IdsOf
  <2>1. 1 < j + 1
    BY <1>5
  <2> QED BY <1>2, <1>4, <1>5, <2>1 DEF SendInv, InOrder
<1>9. \A m \in IdsOf(posted)' : first < m
  BY <1>4, <1>7 DEF SendInv
<1>10. InOrder(queue)' /\ InOrder(posted)'
  <2>1. InOrder(posted)'
    BY <1>1 DEF SendInv, InOrder
  <2> SUFFICES ASSUME NEW i \in DOMAIN queue', NEW j \in DOMAIN queue', i < j
               PROVE  queue'[i].id < queue'[j].id
    BY <2>1 DEF InOrder
  <2>2. i + 1 < j + 1
    BY <1>5
  <2> QED BY <1>5, <2>2 DEF SendInv, InOrder
<1>11. \A m \in IdsOf(queue)', n \in IdsOf(posted)' : m < n
  BY <1>7 DEF SendInv
<1>12. \A m \in IdsOf(queue)' \cup IdsOf(posted)' : m <= sent'
  BY <1>1, <1>7 DEF SendInv
<1>13. \A m \in IdsOf(queue)' \cup IdsOf(posted)' : calls'[m] = 0
  <2>1. \A m \in IdsOf(queue)' \cup IdsOf(posted)' : m \in Nat /\ first \in Nat /\ m /= first
    <3>1. \A m \in Nat : ~ (m < m)
      OBVIOUS
    <3> QED BY <1>3, <1>4, <1>7, <1>8, <1>9, <3>1
  <2> QED BY <1>3, <1>6, <1>7, <2>1 DEF SendInv
<1>14. \A m \in Ids : m > sent' => calls'[m] = 0
  <2>1. first <= sent /\ first \in Nat /\ sent \in Nat
    BY <1>1, <1>3, <1>4 DEF SendInv
  <2>2. \A m \in Ids : m > sent => m /= first
    BY <1>3, <2>1
  <2> QED BY <1>1, <1>6, <2>2 DEF SendInv
<1>15. QueueTypeOK'
  BY <1>1, <1>5, <1>6 DEF QueueTypeOK
<1>16. \A m \in IdsOf(queue) : calls'[m] = 1 \/ m \in IdsOf(queue)'
  <2> SUFFICES ASSUME NEW j \in DOMAIN queue
               PROVE  calls'[queue[j].id] = 1 \/ queue[j].id \in IdsOf(queue)'
    BY DEF IdsOf
  <2>1. CASE j = 1
    BY <1>4, <1>6, <2>1
  <2>2. CASE j /= 1
    BY <1>5, <2>2 DEF IdsOf
  <2> QED BY <2>1, <2>2
<1>17. ASSUME QueueBounded PROVE QueueBounded'
  <2> SUFFICES ASSUME Len(queue') > 3, \A x \in MaxQueueSizes : Len(queue') > x,
                      NEW i \in 3 .. Len(queue') - 1
               PROVE  Forced(queue'[i])
    BY DEF QueueBounded, Forced
  <2>1. Len(queue) > 3 /\ \A x \in MaxQueueSizes : Len(queue) > x
    BY <1>2, <1>5, MessagesAssumption
  <2>2. i + 1 \in 3 .. Len(queue) - 1
    BY <1>2, <1>5
  <2>3. i \in DOMAIN queue'
    BY <1>2, <1>5
  <2>4. queue'[i] = queue[i + 1]
    BY <1>5, <2>3
  <2> QED BY <1>17, <2>1, <2>2, <2>4 DEF QueueBounded
<1>18. SendInv'
  BY <1>10, <1>11, <1>12, <1>13, <1>14, <1>15 DEF SendInv
<1> QED BY <1>3, <1>4, <1>5, <1>6, <1>7, <1>8, <1>9, <1>16, <1>17, <1>18 DEF first

\* What a destructor does to the queue.
LEMMA ClearKeeps ==
  ASSUME SendInv, CallHandlers(IdsOf(queue)), queue' = <<>>, posted' = <<>>,
         sent' = sent, op' = "none"
  PROVE  /\ SendInv'
         /\ IdsOf(queue)' = {} /\ IdsOf(posted)' = {}
         /\ \A m \in IdsOf(queue) : calls'[m] = 1
         /\ \A m \in Ids : calls[m] = 1 => calls'[m] = 1
<1>1. /\ calls' \in [Ids -> 0 .. 1]
      /\ \A m \in IdsOf(queue) : calls'[m] = 1
      /\ \A m \in Ids \ IdsOf(queue) : calls'[m] = calls[m]
      /\ \A m \in Ids : calls[m] = 1 => calls'[m] = 1
  <2>1. IdsOf(queue) \in SUBSET IdsOf(queue)
    OBVIOUS
  <2> QED BY ONLY SendInv, CallHandlers(IdsOf(queue)), <2>1, CallKeeps
<1>2. InOrder(queue)' /\ InOrder(posted)' /\ IdsOf(queue)' = {} /\ IdsOf(posted)' = {}
  BY DEF InOrder, IdsOf
<1>3. QueueTypeOK'
  BY <1>1 DEF SendInv, QueueTypeOK
<1>4. \A m \in Ids : m > sent' => calls'[m] = 0
  <2>1. sent \in Nat /\ Ids \subseteq Nat
    BY MessagesAssumption DEF SendInv, QueueTypeOK, Ids
  <2>2. \A m \in Ids : m > sent => m \notin IdsOf(queue)
    <3>1. \A m \in IdsOf(queue) : m <= sent
      BY DEF SendInv
    <3> QED BY <2>1, <3>1
  <2> QED BY <1>1, <2>2 DEF SendInv
<1> QED BY <1>1, <1>2, <1>3, <1>4 DEF SendInv

-----------------------------------------------------------------------------
(* websocket_session *)

ConnectionOK ==
  /\ role \in {"server", "plain", "secure"}
  /\ life \in Stages \cup {"open", "closed", "destroyed"}
  /\ upgraded \in BOOLEAN
  /\ upgraded => Alive

\* What went to the wire is behind all that waits.
WireBehind ==
  /\ wire \in 0 .. sent
  /\ \A m \in IdsOf(queue) \cup IdsOf(posted) : wire < m

\* A message whose handler was not called is still there to be handled.
Accounted ==
  Alive => \A m \in 1 .. sent : calls[m] = 1 \/ m \in IdsOf(queue) \/ m \in IdsOf(posted)

SessionInv ==
  /\ ConnectionOK
  /\ SendInv
  /\ op /= "none" <=> queue /= <<>>
  /\ QueueBounded
  /\ WireBehind
  /\ Accounted

\* StartWrite starts something.
LEMMA StartWriteStarts ==
  ASSUME NEW front, StartWrite(front)
  PROVE  op' \in {"write", "abort"}
BY DEF StartWrite

\* A session as constructed, of a client or a server.
LEMMA SessionInitially ==
  ASSUME Init PROVE SessionInv
<1>1. SendInv
  BY SendInitially DEF Init
<1>2. posted = <<>> /\ queue = <<>> /\ op = "none" /\ sent = 0 /\ wire = 0
  BY DEF Init, QueueInit
<1>3. ConnectionOK
  BY DEF Init, ConnectionOK, Stages
<1>4. QueueBounded /\ WireBehind /\ Accounted
  BY <1>2 DEF QueueBounded, WireBehind, Accounted, IdsOf
<1> QED BY <1>1, <1>2, <1>3, <1>4 DEF SessionInv

\* A step of the connection leaves the queue alone.
LEMMA ConnectionKeeps ==
  ASSUME SessionInv, ConnectionOK', UNCHANGED <<wire, sendVars>>, Alive' => Alive
  PROVE  SessionInv'
<1>1. SendInv'
  BY SendStays DEF SessionInv
<1>2. posted' = posted /\ queue' = queue /\ op' = op /\ sent' = sent /\ calls' = calls /\ wire' = wire
  BY DEF sendVars
<1>3. IdsOf(queue)' = IdsOf(queue) /\ IdsOf(posted)' = IdsOf(posted)
  BY <1>2 DEF IdsOf
<1>4. QueueBounded'
  BY <1>2 DEF SessionInv, QueueBounded, Forced
<1>5. WireBehind'
  BY <1>2, <1>3 DEF SessionInv, WireBehind
<1>6. Accounted'
  BY <1>2, <1>3 DEF SessionInv, Accounted
<1> QED BY <1>1, <1>2, <1>4, <1>5, <1>6 DEF SessionInv

\* The chain of handlers up to the open connection, and its end, keep the
\* invariant.
LEMMA ConnectionStep ==
  ASSUME SessionInv, OnResolve \/ OnConnect \/ OnSslHandshake \/ OnHandshake \/ ChainEnds
  PROVE  SessionInv'
<1>1. UNCHANGED <<wire, sendVars>>
  BY DEF OnResolve, OnConnect, OnSslHandshake, OnHandshake, ChainEnds, rest
<1>2. ConnectionOK'
  BY DEF SessionInv, ConnectionOK, Alive, Stages, rest,
         OnResolve, OnConnect, OnSslHandshake, OnHandshake, ChainEnds
<1>3. Alive
  BY DEF Alive, Stages, OnResolve, OnConnect, OnSslHandshake, OnHandshake, ChainEnds
<1> QED BY <1>1, <1>2, <1>3, ConnectionKeeps

\* sendAsync from any thread keeps the invariant.
LEMMA SendAsyncStep ==
  ASSUME SessionInv, NEW k \in Kinds, NEW x \in MaxQueueSizes, SendAsync(k, x)
  PROVE  SessionInv'
<1>1. /\ SendInv'
      /\ sent \in Nat /\ sent' = sent + 1
      /\ IdsOf(posted)' = IdsOf(posted) \cup {sent + 1}
  BY PostKeeps DEF SessionInv, SendAsync
<1>2. queue' = queue /\ op' = op /\ calls' = calls /\ wire' = wire
  BY DEF SendAsync, PostMessage
<1>3. ConnectionOK'
  BY DEF SessionInv, ConnectionOK, SendAsync, Alive
<1>4. IdsOf(queue)' = IdsOf(queue)
  BY <1>2 DEF IdsOf
<1>5. QueueBounded'
  BY <1>2 DEF SessionInv, QueueBounded, Forced
<1>6. WireBehind'
  <2>1. wire \in 0 .. sent + 1 /\ wire < sent + 1
    BY <1>1 DEF SessionInv, WireBehind
  <2> QED BY <1>1, <1>2, <1>4, <2>1 DEF SessionInv, WireBehind
<1>7. Accounted'
  <2>1. \A m \in 1 .. sent + 1 : m \in 1 .. sent \/ m = sent + 1
    BY <1>1
  <2>2. Alive
    BY DEF SendAsync
  <2> QED BY <1>1, <1>2, <1>4, <2>1, <2>2 DEF SessionInv, Accounted
<1> QED BY <1>1, <1>2, <1>3, <1>5, <1>6, <1>7 DEF SessionInv

\* on_send keeps the invariant, and the message that is being written at the
\* front.
LEMMA OnSendStep ==
  ASSUME SessionInv, OnSend
  PROVE  SessionInv' /\ (op = "write" => Head(queue') = Head(queue))
<1>1. /\ QueueMessage /\ SendInv /\ wire' = wire /\ sent' = sent
      /\ IF queue = <<>> THEN StartWrite(Head(posted)) ELSE op' = op
  BY DEF OnSend, SessionInv, QueueMessage
<1>2. op \in {"none", "write", "abort"} /\ sent \in Nat
  BY <1>1, MessagesAssumption DEF SendInv, QueueTypeOK
<1>3. op' \in {"write", "abort"}
  BY <1>1, <1>2, StartWriteStarts DEF SessionInv
<1>4. /\ SendInv'
      /\ IdsOf(queue)' \subseteq IdsOf(queue) \cup {Head(posted).id}
      /\ IdsOf(posted)' \subseteq IdsOf(posted)
      /\ Head(posted).id \in IdsOf(posted)
      /\ \A m \in IdsOf(queue) \cup IdsOf(posted) :
           calls'[m] = 1 \/ m \in IdsOf(queue)' \/ m \in IdsOf(posted)'
      /\ \A m \in Ids : calls[m] = 1 => calls'[m] = 1
      /\ queue' /= <<>>
      /\ queue /= <<>> => Head(queue') = Head(queue)
      /\ QueueBounded'
  BY <1>1, <1>3, QueueKeeps
<1>5. ConnectionOK'
  BY DEF SessionInv, ConnectionOK, OnSend, Alive
<1>6. WireBehind'
  BY <1>1, <1>4 DEF SessionInv, WireBehind
<1>7. Accounted'
  <2>1. \A m \in 1 .. sent : m \in Ids
    BY <1>1, MessagesAssumption DEF SendInv, QueueTypeOK, Ids
  <2>2. Alive' => Alive
    BY DEF OnSend, Alive
  <2> QED BY <1>1, <1>4, <2>1, <2>2 DEF SessionInv, Accounted
<1> QED BY <1>3, <1>4, <1>5, <1>6, <1>7 DEF SessionInv

\* on_write keeps the invariant, and what was written stays written.
LEMMA OnWriteStep ==
  ASSUME SessionInv, NEW r, OnWrite(r)
  PROVE  SessionInv' /\ wire' >= wire
<1>1. /\ PopFront /\ SendInv /\ sent' = sent /\ op /= "none" /\ queue /= <<>>
      /\ wire' = IF op = "write" THEN Head(queue).id ELSE wire
      /\ IF queue' = <<>> THEN op' = "none" ELSE StartWrite(Head(queue'))
  BY DEF OnWrite, SessionInv, PopFront
<1>2. op' \in {"none", "write", "abort"} /\ (op' /= "none" <=> queue' /= <<>>)
  BY <1>1, StartWriteStarts
<1>3. /\ SendInv'
      /\ Head(queue).id \in IdsOf(queue) /\ Head(queue).id \in Ids
      /\ IdsOf(queue)' \subseteq IdsOf(queue) /\ IdsOf(posted)' = IdsOf(posted)
      /\ \A m \in IdsOf(queue)' \cup IdsOf(posted)' : Head(queue).id < m
      /\ \A m \in IdsOf(queue) : calls'[m] = 1 \/ m \in IdsOf(queue)'
      /\ \A m \in Ids : calls[m] = 1 => calls'[m] = 1
      /\ QueueBounded'
  BY <1>1, <1>2, PopKeeps DEF SessionInv
<1>4. ConnectionOK'
  BY DEF SessionInv, ConnectionOK, OnWrite, Alive
<1>5. Head(queue).id \in 0 .. sent /\ wire < Head(queue).id /\ wire \in 0 .. sent
  <2>1. Head(queue).id <= sent /\ sent \in Nat
    BY <1>1, <1>3, MessagesAssumption DEF SendInv, QueueTypeOK
  <2> QED BY <1>3, <2>1 DEF SessionInv, WireBehind, Ids
<1>6. WireBehind'
  BY <1>1, <1>3, <1>5 DEF SessionInv, WireBehind
<1>7. Accounted'
  <2>1. \A m \in 1 .. sent : m \in Ids
    BY <1>1, MessagesAssumption DEF SendInv, QueueTypeOK, Ids
  <2>2. Alive' => Alive
    BY DEF OnWrite, Alive
  <2> QED BY <1>1, <1>3, <2>1, <2>2 DEF SessionInv, Accounted
<1>8. wire' >= wire
  <2>1. wire \in Nat /\ Head(queue).id \in Nat
    BY <1>5
  <2> QED BY <1>1, <1>5, <2>1
<1> QED BY <1>2, <1>3, <1>4, <1>6, <1>7, <1>8 DEF SessionInv

\* After the destructor every handler has been called or its message was never
\* queued.
LEMMA DestructorStep ==
  ASSUME SessionInv, Destructor
  PROVE  /\ SessionInv'
         /\ Alive => \A m \in 1 .. sent : calls'[m] = 1 \/ m \in IdsOf(posted)
<1>1. /\ SendInv /\ CallHandlers(IdsOf(queue)) /\ sent' = sent /\ wire' = wire
      /\ queue' = <<>> /\ posted' = <<>> /\ op' = "none"
  BY DEF Destructor, IdsOf, SessionInv
<1>2. /\ SendInv'
      /\ IdsOf(queue)' = {} /\ IdsOf(posted)' = {}
      /\ \A m \in IdsOf(queue) : calls'[m] = 1
      /\ \A m \in Ids : calls[m] = 1 => calls'[m] = 1
  BY <1>1, ClearKeeps
<1>3. ConnectionOK' /\ ~Alive'
  BY DEF SessionInv, ConnectionOK, Destructor, Alive
<1>4. QueueBounded' /\ WireBehind' /\ Accounted'
  BY <1>1, <1>2, <1>3 DEF SessionInv, QueueBounded, WireBehind, Accounted
<1>5. \A m \in 1 .. sent : m \in Ids
  BY <1>1, MessagesAssumption DEF SendInv, QueueTypeOK, Ids
<1>6. Alive => \A m \in 1 .. sent : calls'[m] = 1 \/ m \in IdsOf(posted)
  BY <1>2, <1>5 DEF SessionInv, Accounted
<1> QED BY <1>1, <1>2, <1>3, <1>4, <1>6 DEF SessionInv

\* Every step keeps the invariant.
LEMMA SessionStep ==
  ASSUME SessionInv, [Next]_vars
  PROVE  SessionInv'
<1>1. CASE OnResolve \/ OnConnect \/ OnSslHandshake \/ OnHandshake \/ ChainEnds
  BY <1>1, ConnectionStep
<1>2. ASSUME NEW k \in Kinds, NEW x \in MaxQueueSizes, SendAsync(k, x) PROVE SessionInv'
  BY <1>2, SendAsyncStep
<1>3. CASE OnSend
  BY <1>3, OnSendStep
<1>4. ASSUME NEW r, OnWrite(r) PROVE SessionInv'
  BY <1>4, OnWriteStep
<1>5. CASE Destroy \/ ContextDestroyed
  BY <1>5, DestructorStep DEF Destroy, ContextDestroyed
<1>6. CASE UNCHANGED vars
  <2>1. ConnectionOK' /\ Alive' = Alive /\ UNCHANGED <<wire, sendVars>>
    BY <1>6 DEF vars, SessionInv, ConnectionOK, Alive
  <2> QED BY <2>1, ConnectionKeeps
<1> QED BY <1>1, <1>2, <1>3, <1>4, <1>5, <1>6 DEF Next, Handlers

\* The invariant of websocket_session: SessionInv holds in every state.
THEOREM SessionInvariance == Spec => []SessionInv
BY SessionInitially, SessionStep, PTL DEF Spec

\* The chain of writes neither breaks nor forks, the queue is bounded, no
\* completion handler is called twice (on_send, on_write and the destructor), and
\* shared_state keeps no pointer to a destroyed session.
THEOREM ChainUnbroken == Spec => []QueueServed
<1>1. ASSUME SessionInv PROVE QueueServed
  <2>1. wire \in 0 .. MaxMessages
    BY <1>1, MessagesAssumption DEF SessionInv, WireBehind, SendInv, QueueTypeOK
  <2>2. TypeOK
    BY <1>1, <2>1 DEF SessionInv, ConnectionOK, SendInv, TypeOK
  <2> QED BY <1>1, <2>2 DEF SessionInv, ConnectionOK, QueueServed
<1> QED BY <1>1, SessionInvariance, PTL

\* ~websocket_session leaves no handler uncalled of what it had queued or written.
THEOREM DestructorHandles == Spec => HandledWhenDestroyed
<1>1. ASSUME SessionInv, [Next]_vars
      PROVE  [life /= "destroyed" /\ life' = "destroyed" =>
               \A m \in 1 .. sent :
                 calls'[m] = 1 \/ \E i \in DOMAIN posted : posted[i].id = m]_vars
  <2> SUFFICES ASSUME Alive, life' = "destroyed", NEW m \in 1 .. sent
               PROVE  calls'[m] = 1 \/ m \in IdsOf(posted)
    BY DEF Alive, IdsOf
  <2>1. Destructor
    <3>1. life' /= life
      BY DEF Alive
    <3>2. Next
      BY <1>1, <3>1 DEF vars
    <3>3. OnSend \/ (\E r : OnWrite(r)) => life' = life
      BY DEF OnSend, OnWrite
    <3>4. \A k, x : SendAsync(k, x) => life' = life
      BY DEF SendAsync
    <3> QED BY <3>1, <3>2, <3>3, <3>4
            DEF Next, Handlers, OnResolve, OnConnect, OnSslHandshake, OnHandshake,
                ChainEnds, Destroy, ContextDestroyed
  <2> QED BY <1>1, <2>1, DestructorStep
<1> QED BY <1>1, SessionInvariance, PTL DEF Spec, HandledWhenDestroyed

\* Messages go to the wire in the order of sendAsync, and dropping old ones never
\* touches the one that is being written.
THEOREM OrderKept == Spec => SentInOrder
<1>1. ASSUME SessionInv, [Next]_vars
      PROVE  [/\ wire' >= wire
              /\ op = "write" /\ life' /= "destroyed" /\ Len(posted') < Len(posted) =>
                   Head(queue') = Head(queue)]_vars
  <2>1. CASE OnSend
    <3>1. wire' = wire /\ wire \in Nat
      BY <1>1, <2>1, MessagesAssumption DEF OnSend, SessionInv, WireBehind, SendInv, QueueTypeOK
    <3> QED BY <1>1, <2>1, <3>1, OnSendStep
  <2>2. ASSUME NEW r, OnWrite(r)
        PROVE  wire' >= wire /\ posted' = posted
    BY <1>1, <2>2, OnWriteStep DEF OnWrite, PopFront
  <2>3. CASE ~OnSend /\ ~ \E r : OnWrite(r)
    <3>1. wire' = wire /\ wire \in Nat
      <4>1. \A k, x : SendAsync(k, x) => wire' = wire
        BY DEF SendAsync
      <4> QED BY <1>1, <2>3, <4>1, MessagesAssumption
              DEF SessionInv, WireBehind, SendInv, QueueTypeOK, vars, Next, Handlers,
                  OnResolve, OnConnect, OnSslHandshake, OnHandshake, ChainEnds, rest,
                  Destroy, ContextDestroyed, Destructor
    <3>2. life' /= "destroyed" => posted' = posted \/ \E m \in Message : posted' = Append(posted, m)
      <4>1. ASSUME NEW k \in Kinds, NEW x \in MaxQueueSizes, SendAsync(k, x)
            PROVE  \E m \in Message : posted' = Append(posted, m)
        <5>1. sent + 1 \in Ids
          BY <4>1, MessagesAssumption, <1>1
             DEF SendAsync, PostMessage, SessionInv, SendInv, QueueTypeOK, Ids
        <5> QED BY <4>1, <5>1 DEF SendAsync, PostMessage, Message
      <4> QED BY <1>1, <2>3, <4>1
              DEF vars, Next, Handlers, sendVars,
                  OnResolve, OnConnect, OnSslHandshake, OnHandshake, ChainEnds, rest,
                  Destroy, ContextDestroyed, Destructor
    <3>3. posted \in Seq(Message)
      BY <1>1 DEF SessionInv, SendInv, QueueTypeOK
    <3>4. life' /= "destroyed" => ~ (Len(posted') < Len(posted))
      BY <3>2, <3>3
    <3> QED BY <3>1, <3>4
  <2>4. \A n \in Nat : ~ (n < n)
    OBVIOUS
  <2>5. Len(posted) \in Nat
    BY <1>1 DEF SessionInv, SendInv, QueueTypeOK
  <2> QED BY <2>1, <2>2, <2>3, <2>4, <2>5
<1> QED BY <1>1, SessionInvariance, PTL DEF Spec, SentInOrder

-----------------------------------------------------------------------------
(* http_session *)

HttpTypes ==
  /\ protocol \in Protocols
  /\ phase \in {"detecting", "handshake", "open", "destroyed", "dropped", "crashed"}
  /\ secure \in BOOLEAN /\ joined \in BOOLEAN /\ moved \in BOOLEAN
  /\ readEnded \in BOOLEAN /\ writeEnded \in BOOLEAN
  /\ part \in {"header", "body"}
  /\ requests \in 0 .. MaxRequests /\ answered \in 0 .. MaxRequests
  /\ items \in Items

\* Reading ended while the queue had room, and has had room since; writing ended
\* with a response in the queue, which stays there.
Pipeline ==
  /\ Len(items) <= limit
  /\ reads = IF phase /= "open" \/ readEnded \/ is_full(items) THEN 0 ELSE 1
  /\ phase \in {"detecting", "handshake", "open"} =>
       writes = IF writeEnded \/ items = <<>> THEN 0 ELSE 1
  /\ phase \in {"destroyed", "dropped", "crashed"} => writes = 0
  /\ readEnded => Len(items) < limit
  /\ writeEnded => items /= <<>>
  /\ moved => readEnded

\* Each of the two halves says goodbye at most once.
Goodbyes ==
  /\ shutdowns \in Nat
  /\ shutdowns <= (IF readEnded THEN 1 ELSE 0) + (IF writeEnded THEN 1 ELSE 0)

\* Nothing is under way before a session starts, or after its io_context is gone.
Stopped ==
  /\ phase \in {"detecting", "handshake"} =>
       items = <<>> /\ ~readEnded /\ ~writeEnded
  /\ joined => phase = "open"
  /\ phase \in {"dropped", "crashed"} => op = "none" /\ posted = <<>>

HttpInv ==
  /\ HttpTypes
  /\ Pipeline
  /\ Goodbyes
  /\ Stopped
  /\ SendInv
  /\ phase \notin {"dropped", "crashed"} => (op /= "none" <=> queue /= <<>>)

\* What a step that does not touch the raw messages has to show.
LEMMA PipelineKeeps ==
  ASSUME HttpInv, UNCHANGED sendVars,
         phase \notin {"dropped", "crashed"}, phase' \notin {"dropped", "crashed"},
         HttpTypes', Pipeline', Goodbyes',
         phase' \in {"detecting", "handshake"} =>
           phase \in {"detecting", "handshake"} /\ UNCHANGED <<items, readEnded, writeEnded>>,
         joined' => phase' = "open"
  PROVE  HttpInv'
<1>1. SendInv'
  BY SendStays DEF HttpInv
<1>2. Stopped'
  BY DEF HttpInv, Stopped
<1> QED BY <1>1, <1>2 DEF HttpInv, sendVars

\* A session as constructed.
LEMMA HttpInitially ==
  ASSUME HttpInit PROVE HttpInv
<1>1. SendInv
  BY SendInitially DEF HttpInit
<1>2. posted = <<>> /\ queue = <<>> /\ op = "none" /\ items = <<>>
  BY DEF HttpInit, QueueInit
<1>3. HttpTypes
  <2>1. items \in Items
    BY <1>2 DEF Items
  <2>2. requests \in 0 .. MaxRequests /\ answered \in 0 .. MaxRequests
    BY HttpAssumption DEF HttpInit
  <2> QED BY <2>1, <2>2 DEF HttpInit, HttpTypes
<1>4. Pipeline /\ Goodbyes /\ Stopped
  BY HttpAssumption DEF HttpInit, Pipeline, Goodbyes, Stopped, is_full
<1> QED BY <1>1, <1>2, <1>3, <1>4 DEF HttpInv, HttpInit

\* detect_session and the handshake start the first read, or nothing.
LEMMA StartStep ==
  ASSUME HttpInv, OnDetect \/ OnHttpHandshake \/ StartFails
  PROVE  HttpInv'
<1>1. /\ phase \in {"detecting", "handshake"} /\ phase' \in {"handshake", "open", "destroyed"}
      /\ items = <<>> /\ ~readEnded /\ ~writeEnded
      /\ UNCHANGED <<fixed, shutdowns, writeVars, sendVars>>
      /\ UNCHANGED <<part, requests, readEnded, moved>>
      /\ joined' = (phase' = "open") /\ reads' = IF phase' = "open" THEN 1 ELSE 0
  BY DEF HttpInv, HttpTypes, Stopped, Pipeline, Start, OnDetect, OnHttpHandshake, StartFails, readVars
<1>2. HttpTypes'
  BY <1>1 DEF HttpInv, HttpTypes, fixed, writeVars
<1>3. Pipeline'
  BY <1>1, HttpAssumption DEF HttpInv, Pipeline, writeVars, is_full
<1>4. Goodbyes'
  BY <1>1 DEF HttpInv, Goodbyes, writeVars
<1>5. UNCHANGED sendVars /\ UNCHANGED <<items, readEnded, writeEnded>>
  BY <1>1 DEF writeVars
<1> QED BY <1>1, <1>2, <1>3, <1>4, <1>5, PipelineKeeps

\* A pending read or write: the session is open, and which.
LEMMA Under ==
  ASSUME HttpInv
  PROVE  /\ items \in Items /\ Len(items) \in Nat /\ limit \in Nat
         /\ reads > 0 => phase = "open" /\ reads = 1 /\ ~readEnded /\ ~moved /\ Len(items) < limit
         /\ writes > 0 => phase = "open" /\ writes = 1 /\ ~writeEnded /\ items /= <<>>
<1>1. items \in Items /\ Len(items) \in Nat /\ limit \in Nat
  BY HttpAssumption DEF HttpInv, HttpTypes, Items
<1>2. reads > 0 => phase = "open" /\ reads = 1 /\ ~readEnded /\ ~moved /\ Len(items) < limit
  BY <1>1 DEF HttpInv, Pipeline, is_full
<1>3. writes > 0 => phase = "open" /\ writes = 1 /\ ~writeEnded /\ items /= <<>>
  BY DEF HttpInv, HttpTypes, Pipeline, Stopped
<1> QED BY <1>1, <1>2, <1>3

\* Reading keeps the invariant: of requests, of the parts of plain TCP, and its
\* ends.
LEMMA ReadStep ==
  ASSUME HttpInv, ReadEnds \/ Upgrade \/ ReadPart \/ ReadRequest
  PROVE  HttpInv'
<1>1. /\ phase = "open" /\ phase' = "open" /\ reads = 1 /\ ~readEnded /\ ~moved
      /\ joined' = joined /\ UNCHANGED sendVars
      /\ items \in Items /\ Len(items) \in Nat /\ limit \in Nat /\ Len(items) < limit
  BY Under DEF ReadEnds, Upgrade, ReadPart, ReadRequest
<1>2. writes = IF writeEnded \/ items = <<>> THEN 0 ELSE 1
  BY <1>1 DEF HttpInv, Pipeline
<1>3. CASE ReadEnds
  <2>1. reads' = 0 /\ readEnded' = TRUE /\ shutdowns' \in {shutdowns, shutdowns + 1}
        /\ UNCHANGED <<fixed, part, requests, moved, writeVars>>
    BY <1>1, <1>3 DEF ReadEnds, do_eof
  <2>2. HttpTypes'
    BY <1>1, <2>1 DEF HttpInv, HttpTypes, fixed, writeVars
  <2>3. Pipeline'
    BY <1>1, <1>2, <2>1 DEF HttpInv, Pipeline, writeVars, is_full
  <2>4. Goodbyes'
    BY <1>1, <2>1 DEF HttpInv, Goodbyes, writeVars
  <2> QED BY <1>1, <2>2, <2>3, <2>4, PipelineKeeps
<1>4. CASE Upgrade
  <2>1. reads' = 0 /\ readEnded' = TRUE /\ moved' = TRUE /\ shutdowns' = shutdowns
        /\ UNCHANGED <<fixed, part, requests, writeVars>>
    BY <1>1, <1>4 DEF Upgrade
  <2>2. HttpTypes'
    BY <1>1, <2>1 DEF HttpInv, HttpTypes, fixed, writeVars
  <2>3. Pipeline'
    BY <1>1, <1>2, <2>1 DEF HttpInv, Pipeline, writeVars, is_full
  <2>4. Goodbyes'
    BY <1>1, <2>1 DEF HttpInv, Goodbyes, writeVars
  <2> QED BY <1>1, <2>2, <2>3, <2>4, PipelineKeeps
<1>5. CASE ReadPart
  <2>1. HttpTypes'
    BY <1>1, <1>5 DEF ReadPart, HttpInv, HttpTypes, fixed, writeVars
  <2>2. Pipeline' /\ Goodbyes'
    BY <1>1, <1>5 DEF ReadPart, HttpInv, Pipeline, Goodbyes, writeVars, is_full
  <2> QED BY <1>1, <2>1, <2>2, PipelineKeeps
<1>6. CASE ReadRequest
  <2>1. PICK response \in handle_request(requests') : QueueResponse(response)
    BY <1>6 DEF ReadRequest
  <2>2. requests' \in 1 .. MaxRequests
    BY <1>6, HttpAssumption DEF ReadRequest, HttpInv, HttpTypes
  <2>3. /\ items' \in Items /\ Len(items') = Len(items) + 1
        /\ items' /= <<>> /\ (Len(items') = 1 <=> items = <<>>)
    <3>1. response \in [id : 1 .. MaxRequests, close : BOOLEAN]
      BY <2>1, <2>2 DEF handle_request
    <3> QED BY <1>1, <2>1, <3>1 DEF QueueResponse, Items
  <2>4. /\ UNCHANGED <<fixed, joined, shutdowns, part, readEnded, moved, answered, writeEnded>>
        /\ reads' = IF is_full(items') THEN 0 ELSE 1
        /\ writes' = IF items = <<>> THEN writes + 1 ELSE writes
    BY <1>1, <1>6, <2>1, <2>3 DEF ReadRequest, QueueResponse
  <2>5. HttpTypes'
    BY <1>1, <2>2, <2>3, <2>4 DEF HttpInv, HttpTypes, fixed
  <2>6. writeEnded => items /= <<>>
    BY DEF HttpInv, Pipeline
  <2>7. writes' = IF writeEnded' \/ items' = <<>> THEN 0 ELSE 1
    BY <1>2, <2>3, <2>4, <2>6
  <2>8. Pipeline'
    BY <1>1, <2>3, <2>4, <2>7 DEF Pipeline
  <2>9. Goodbyes'
    BY <1>1, <2>4 DEF HttpInv, Goodbyes
  <2> QED BY <1>1, <2>5, <2>8, <2>9, PipelineKeeps
<1> QED BY <1>3, <1>4, <1>5, <1>6

\* Writing a response keeps the invariant.
LEMMA ResponseStep ==
  ASSUME HttpInv, WriteStep
  PROVE  HttpInv'
<1>1. /\ phase = "open" /\ phase' = "open" /\ writes = 1 /\ ~writeEnded /\ items /= <<>>
      /\ joined' = joined /\ UNCHANGED sendVars
      /\ items \in Items /\ Len(items) \in Nat /\ limit \in Nat
  BY Under DEF WriteStep, WriteDone, WriteEnds
<1>2. CASE WriteDone
  <2>1. /\ items' = Tail(items) /\ answered' = Head(items).id
        /\ writes' = IF items' = <<>> THEN 0 ELSE 1
        /\ reads' = IF is_full(items) THEN reads + 1 ELSE reads
        /\ UNCHANGED <<fixed, shutdowns, part, requests, readEnded, moved, writeEnded>>
    BY <1>1, <1>2 DEF WriteDone, QueueOnWrite
  <2>2. items' \in Items /\ Len(items') = Len(items) - 1 /\ answered' \in 0 .. MaxRequests
    <3>1. Head(items) \in [id : 1 .. MaxRequests, close : BOOLEAN]
      <4>1. \A T : items \in Seq(T) => Head(items) \in T
        BY <1>1
      <4> QED BY <1>1, <4>1 DEF Items
    <3>2. items' \in Items /\ Len(items') = Len(items) - 1
      BY <1>1, <2>1 DEF Items
    <3> QED BY <2>1, <3>1, <3>2, HttpAssumption
  <2>3. HttpTypes'
    BY <1>1, <2>1, <2>2 DEF HttpInv, HttpTypes, fixed
  <2>4. Len(items) <= limit /\ (readEnded => Len(items) < limit)
        /\ reads = IF readEnded \/ is_full(items) THEN 0 ELSE 1
    BY <1>1 DEF HttpInv, Pipeline
  <2>5. reads' = IF readEnded' \/ is_full(items') THEN 0 ELSE 1
    BY <1>1, <2>1, <2>2, <2>4 DEF is_full
  <2>6. Len(items') < limit
    BY <1>1, <2>2, <2>4
  <2>7. Pipeline'
    BY <1>1, <2>1, <2>2, <2>4, <2>5, <2>6 DEF HttpInv, Pipeline
  <2>8. Goodbyes'
    BY <2>1 DEF HttpInv, Goodbyes
  <2> QED BY <1>1, <2>3, <2>7, <2>8, PipelineKeeps
<1>3. CASE WriteEnds
  <2>1. writes' = 0 /\ writeEnded' = TRUE /\ shutdowns' \in {shutdowns, shutdowns + 1}
        /\ UNCHANGED <<fixed, readVars, items, answered>>
    BY <1>1, <1>3 DEF WriteEnds, do_eof
  <2>2. HttpTypes'
    BY <1>1, <2>1 DEF HttpInv, HttpTypes, fixed, readVars
  <2>3. Pipeline'
    BY <1>1, <2>1 DEF HttpInv, Pipeline, readVars, is_full
  <2>4. Goodbyes'
    BY <1>1, <2>1 DEF HttpInv, Goodbyes, readVars
  <2> QED BY <1>1, <2>2, <2>3, <2>4, PipelineKeeps
<1> QED BY <1>2, <1>3 DEF WriteStep

\* Steps of the raw messages leave the pipeline alone.
LEMMA RawKeeps ==
  ASSUME HttpInv, UNCHANGED <<fixed, phase, joined, shutdowns, readVars, writeVars>>,
         SendInv', phase \notin {"dropped", "crashed"}, op' /= "none" <=> queue' /= <<>>
  PROVE  HttpInv'
<1>1. HttpTypes'
  BY DEF HttpInv, HttpTypes, fixed, readVars, writeVars
<1>2. Pipeline' /\ Goodbyes'
  BY DEF HttpInv, Pipeline, Goodbyes, is_full, readVars, writeVars
<1>3. Stopped'
  BY DEF HttpInv, Stopped, readVars, writeVars
<1> QED BY <1>1, <1>2, <1>3 DEF HttpInv

\* Raw messages on the same socket keep the invariant.
LEMMA RawStep ==
  ASSUME HttpInv,
         (\E k \in Kinds, x \in MaxQueueSizes : HttpSendAsync(k, x)) \/ HttpOnSend \/ OnWrite2
  PROVE  HttpInv'
<1>1. ASSUME NEW k \in Kinds, NEW x \in MaxQueueSizes, HttpSendAsync(k, x)
      PROVE  HttpInv'
  <2>1. SendInv'
    BY <1>1, PostKeeps DEF HttpInv, HttpSendAsync
  <2>2. phase \notin {"dropped", "crashed"}
    BY <1>1 DEF HttpInv, Stopped, HttpSendAsync
  <2>3. op' = op /\ queue' = queue
    BY <1>1 DEF HttpSendAsync, PostMessage
  <2> QED BY <1>1, <2>1, <2>2, <2>3, RawKeeps DEF HttpSendAsync, HttpInv
<1>2. CASE HttpOnSend
  <2>1. QueueMessage /\ SendInv /\ op \in {"none", "write", "abort"} /\ phase \notin {"dropped", "crashed"}
    BY <1>2 DEF HttpOnSend, QueueMessage, HttpInv, Stopped, SendInv, QueueTypeOK
  <2>2. op' \in {"write", "abort"}
    BY <1>2, <2>1 DEF HttpOnSend, StartSend, HttpInv
  <2>3. SendInv' /\ queue' /= <<>>
    BY <2>1, <2>2, QueueKeeps
  <2> QED BY <1>2, <2>1, <2>2, <2>3, RawKeeps DEF HttpOnSend
<1>3. CASE OnWrite2
  <2>1. PopFront /\ SendInv /\ phase \notin {"dropped", "crashed"} /\ queue /= <<>>
    BY <1>3 DEF OnWrite2, PopFront, HttpInv, Stopped
  <2>2. op' \in {"none", "write", "abort"} /\ (op' /= "none" <=> queue' /= <<>>)
    BY <1>3 DEF OnWrite2, StartSend
  <2>3. SendInv'
    BY <2>1, <2>2, PopKeeps
  <2> QED BY <1>3, <2>1, <2>2, <2>3, RawKeeps DEF OnWrite2
<1> QED BY <1>1, <1>2, <1>3

\* Shutting down, destruction and the end of the io_context keep the invariant.
LEMMA EndStep ==
  ASSUME HttpInv, OnShutdown \/ HttpDestroy \/ HttpContextDestroyed \/ UseMovedStream
  PROVE  HttpInv'
<1>1. CASE OnShutdown
  <2>2. HttpTypes' /\ Pipeline' /\ Stopped'
    BY <1>1 DEF OnShutdown, HttpInv, HttpTypes, Pipeline, Stopped, is_full, fixed,
                readVars, writeVars, sendVars
  <2>3. Goodbyes'
    BY <1>1 DEF OnShutdown, HttpInv, Goodbyes, readVars, writeVars
  <2>4. SendInv'
    BY <1>1, SendStays DEF OnShutdown, HttpInv
  <2> QED BY <1>1, <2>2, <2>3, <2>4 DEF OnShutdown, HttpInv, sendVars
<1>2. CASE HttpDestroy
  <2>1. HttpTypes'
    BY <1>2 DEF HttpDestroy, HttpInv, HttpTypes, fixed, readVars, writeVars
  <2>2. Pipeline' /\ Goodbyes'
    BY <1>2 DEF HttpDestroy, HttpInv, Pipeline, Goodbyes, is_full, readVars, writeVars
  <2> QED BY <1>2, <2>1, <2>2, PipelineKeeps DEF HttpDestroy
<1>3. CASE HttpContextDestroyed \/ UseMovedStream
  <2>1. HttpTypes'
    BY <1>3 DEF HttpContextDestroyed, UseMovedStream, HttpGone, HttpInv, HttpTypes, fixed
  <2>2. Pipeline' /\ Goodbyes'
    BY <1>3 DEF HttpContextDestroyed, UseMovedStream, HttpGone, HttpInv, Pipeline, Goodbyes, is_full
  <2>3. Stopped'
    BY <1>3 DEF HttpContextDestroyed, UseMovedStream, HttpGone, Stopped
  <2>4. SendInv'
    <3>1. /\ posted' = <<>> /\ queue' = queue /\ sent' = sent /\ calls' = calls /\ op' = "none"
      BY <1>3 DEF HttpContextDestroyed, UseMovedStream, HttpGone
    <3>2. IdsOf(posted)' = {} /\ IdsOf(queue)' = IdsOf(queue) /\ InOrder(posted)' /\ InOrder(queue)'
      BY <3>1 DEF HttpInv, SendInv, IdsOf, InOrder
    <3>3. QueueTypeOK'
      BY <3>1 DEF HttpInv, SendInv, QueueTypeOK
    <3> QED BY <3>1, <3>2, <3>3 DEF HttpInv, SendInv
  <2> QED BY <1>3, <2>1, <2>2, <2>3, <2>4 DEF HttpContextDestroyed, UseMovedStream, HttpGone, HttpInv
<1> QED BY <1>1, <1>2, <1>3

\* Every step keeps the invariant.
LEMMA HttpStep ==
  ASSUME HttpInv, [HttpNext]_httpVars
  PROVE  HttpInv'
<1>1. CASE UNCHANGED httpVars
  <2>1. HttpTypes' /\ Pipeline' /\ Goodbyes' /\ Stopped'
    BY <1>1 DEF HttpInv, HttpTypes, Pipeline, Goodbyes, Stopped, is_full,
                httpVars, fixed, readVars, writeVars, sendVars
  <2>2. SendInv'
    BY <1>1, SendStays DEF httpVars, HttpInv
  <2> QED BY <1>1, <2>1, <2>2 DEF HttpInv, httpVars, sendVars
<1> QED BY <1>1, StartStep, ReadStep, ResponseStep, RawStep, EndStep DEF HttpNext

\* The invariant of http_session: HttpInv holds in every state.
THEOREM HttpInvariance == HttpSpec => []HttpInv
BY HttpInitially, HttpStep, PTL DEF HttpSpec

\* do_read is called exactly when no read is pending and the response queue has
\* room, whatever the order of reads, writes, errors and upgrades.
THEOREM ReadsPaced == HttpSpec => []OneReadUnlessFull
<1>1. ASSUME HttpInv PROVE OneReadUnlessFull
  <2>1. reads \in Nat /\ writes \in Nat
    BY <1>1 DEF HttpInv, HttpTypes, Pipeline
  <2>2. shutdowns \in 0 .. 2
    BY <1>1 DEF HttpInv, Goodbyes
  <2>3. HttpTypeOK
    BY <1>1, <2>1, <2>2 DEF HttpInv, HttpTypes, SendInv, HttpTypeOK
  <2> QED BY <1>1, <2>3 DEF HttpInv, Pipeline, OneReadUnlessFull
<1> QED BY <1>1, HttpInvariance, PTL

-----------------------------------------------------------------------------
(* rate_limiter: sums *)

\* Induction over a set of numbers, by the least number that is not in it.
LEMMA Induction ==
  ASSUME NEW S \in SUBSET Nat, 0 \in S, \A n \in S : n + 1 \in S
  PROVE  \A n \in Nat : n \in S
<1> SUFFICES ASSUME Nat \ S /= {} PROVE FALSE
  OBVIOUS
<1>1. Nat \ S \in SUBSET Nat
  OBVIOUS
<1>2. PICK x \in Nat \ S : \A y \in Nat \ S : x <= y
  BY ONLY <1>1, Nat \ S /= {}, Minimum
<1>3. x \in Nat /\ x /= 0
  OBVIOUS
<1>4. x - 1 \in Nat /\ (x - 1) + 1 = x /\ ~ (x <= x - 1)
  BY <1>3
<1>5. x - 1 \notin S
  BY <1>4
<1> QED BY <1>2, <1>4, <1>5

\* The recursive Sums is what its equations say.
LEMMA SumsIs ==
  ASSUME NEW s \in Seq(Nat)
  PROVE  /\ Sums(s) \in [0 .. Len(s) -> Nat]
         /\ Sums(s)[0] = 0
         /\ \A i \in 1 .. Len(s) : Sums(s)[i] = Sums(s)[i - 1] + s[i]
<1> DEFINE Is(t, n) ==
             /\ t \in [0 .. n -> Nat]
             /\ t[0] = 0
             /\ \A i \in 1 .. n : t[i] = t[i - 1] + s[i]
           T == {n \in Nat : n <= Len(s) => \E t : Is(t, n)}
<1>1. Len(s) \in Nat /\ \A i \in 1 .. Len(s) : s[i] \in Nat
  OBVIOUS
<1>2. 0 \in T
  <2>1. Is([i \in 0 .. 0 |-> 0], 0)
    OBVIOUS
  <2> QED BY <2>1
<1>3. \A n \in T : n + 1 \in T
  <2> HIDE DEF Is
  <2> SUFFICES ASSUME NEW n \in T, n + 1 <= Len(s) PROVE \E t : Is(t, n + 1)
    OBVIOUS
  <2> USE DEF Is
  <2>1. n \in Nat /\ n <= Len(s) /\ s[n + 1] \in Nat
    BY <1>1
  <2>2. PICK t : Is(t, n)
    BY <2>1
  <2> DEFINE u == [i \in 0 .. n + 1 |-> IF i = n + 1 THEN t[n] + s[n + 1] ELSE t[i]]
  <2>3. t \in [0 .. n -> Nat] /\ t[0] = 0 /\ \A i \in 1 .. n : t[i] = t[i - 1] + s[i]
    BY <2>2
  <2>4. u \in [0 .. n + 1 -> Nat]
    BY <2>1, <2>3
  <2>5. u[0] = 0
    BY <2>1, <2>3
  <2>6. ASSUME NEW i \in 1 .. n + 1 PROVE u[i] = u[i - 1] + s[i]
    <3>1. i \in Nat /\ i - 1 \in 0 .. n /\ i \in 0 .. n + 1 /\ i - 1 \in 0 .. n + 1 /\ i - 1 /= n + 1
      BY <2>1
    <3>2. u[i - 1] = t[i - 1]
      BY <3>1
    <3>3. CASE i = n + 1
      BY <2>1, <3>1, <3>2, <3>3
    <3>4. CASE i /= n + 1
      <4>1. i \in 1 .. n
        BY <2>1, <3>4
      <4> QED BY <2>3, <3>1, <3>2, <3>4, <4>1
    <3> QED BY <3>3, <3>4
  <2>7. Is(u, n + 1)
    BY <2>4, <2>5, <2>6
  <2> QED BY <2>7
<1>4. Len(s) \in T
  <2>1. T \in SUBSET Nat
    OBVIOUS
  <2>2. \A n \in Nat : n \in T
    BY ONLY <1>2, <1>3, <2>1, Induction
  <2> QED BY <1>1, <2>2
<1>5. PICK t : Is(t, Len(s))
  BY <1>1, <1>4
<1>6. t = [i \in 0 .. Len(s) |-> IF i = 0 THEN 0 ELSE t[i - 1] + s[i]]
  <2>1. t = [i \in 0 .. Len(s) |-> t[i]]
    BY <1>5
  <2>2. \A i \in 0 .. Len(s) : t[i] = IF i = 0 THEN 0 ELSE t[i - 1] + s[i]
    BY <1>1, <1>5
  <2> QED BY <2>1, <2>2
<1>7. Sums(s) = [i \in 0 .. Len(s) |-> IF i = 0 THEN 0 ELSE Sums(s)[i - 1] + s[i]]
  BY <1>6 DEF Sums
<1> DEFINE S == Sums(s)
           U == {n \in Nat : n <= Len(s) => S[n] \in Nat}
<1> HIDE DEF S
<1>8. DOMAIN S = 0 .. Len(s) /\ \A i \in 0 .. Len(s) : S[i] = IF i = 0 THEN 0 ELSE S[i - 1] + s[i]
  BY <1>7 DEF S
<1>9. S[0] = 0 /\ \A i \in 1 .. Len(s) : S[i] = S[i - 1] + s[i]
  <2>1. 0 \in 0 .. Len(s) /\ \A i \in 1 .. Len(s) : i \in 0 .. Len(s) /\ i /= 0
    BY <1>1
  <2> QED BY <1>8, <2>1
<1>10. 0 \in U
  BY <1>9
<1>11. \A n \in U : n + 1 \in U
  <2>0. \A n \in U : n \in Nat /\ n + 1 \in Nat
    OBVIOUS
  <2> SUFFICES ASSUME NEW n \in U, n + 1 <= Len(s) PROVE S[n + 1] \in Nat
    BY <2>0
  <2>1. n + 1 \in 1 .. Len(s) /\ (n + 1) - 1 = n
    BY <1>1
  <2>2. S[n] \in Nat
    BY <1>1
  <2> QED BY <1>1, <1>9, <2>1, <2>2
<1>12. \A n \in 0 .. Len(s) : S[n] \in Nat
  <2>1. U \in SUBSET Nat
    OBVIOUS
  <2>2. \A n \in Nat : n \in U
    BY ONLY <1>10, <1>11, <2>1, Induction
  <2> QED BY <1>1, <2>2
<1>13. S = [i \in 0 .. Len(s) |-> S[i]]
  BY <1>7 DEF S
<1>14. S \in [0 .. Len(s) -> Nat]
  BY <1>12, <1>13
<1> QED BY <1>9, <1>14 DEF S

\* No element exceeds the sum.
LEMMA SumBounds ==
  ASSUME NEW s \in Seq(Nat), NEW i \in 1 .. Len(s)
  PROVE  Sum(s) \in Nat /\ s[i] <= Sum(s)
<1> DEFINE n == Len(s)
           T == {k \in Nat : i <= k /\ k <= n => s[i] <= Sums(s)[k]}
<1>1. n \in Nat /\ s[i] \in Nat /\ i \in Nat /\ i >= 1 /\ i <= n
  OBVIOUS
<1>2. /\ Sums(s) \in [0 .. n -> Nat]
      /\ \A k \in 1 .. n : Sums(s)[k] = Sums(s)[k - 1] + s[k] /\ s[k] \in Nat
  BY SumsIs
<1>3. 0 \in T
  BY <1>1
<1>4. \A k \in T : k + 1 \in T
  <2>0. \A k \in T : k \in Nat /\ k + 1 \in Nat
    OBVIOUS
  <2> SUFFICES ASSUME NEW k \in T, i <= k + 1, k + 1 <= n PROVE s[i] <= Sums(s)[k + 1]
    BY <2>0
  <2>1. k \in 0 .. n /\ k + 1 \in 1 .. n /\ (k + 1) - 1 = k
    BY <1>1
  <2>2. Sums(s)[k + 1] = Sums(s)[k] + s[k + 1] /\ Sums(s)[k] \in Nat /\ s[k + 1] \in Nat
    BY <1>2, <2>1
  <2>3. i <= k => s[i] <= Sums(s)[k]
    BY <2>1
  <2>4. i <= k \/ i = k + 1
    BY <1>1, <2>1
  <2> QED BY <1>1, <2>2, <2>3, <2>4
<1>5. n \in T
  <2>1. T \in SUBSET Nat
    OBVIOUS
  <2>2. \A k \in Nat : k \in T
    BY ONLY <1>3, <1>4, <2>1, Induction
  <2> QED BY <1>1, <2>2
<1> QED BY <1>1, <1>2, <1>5 DEF Sum

\* What holds of the elements, in proportion, holds of the sums.
LEMMA SumsScale ==
  ASSUME NEW s \in Seq(Nat), NEW u \in Seq(Nat), Len(s) = Len(u), NEW x \in Nat, NEW y \in Nat,
         \A i \in 1 .. Len(u) : s[i] * x <= u[i] * y
  PROVE  Sum(s) * x <= Sum(u) * y
<1> DEFINE n == Len(u)
           T == {k \in Nat : k <= n => Sums(s)[k] * x <= Sums(u)[k] * y}
<1>1. /\ Sums(s) \in [0 .. n -> Nat] /\ Sums(s)[0] = 0
      /\ \A k \in 1 .. n : Sums(s)[k] = Sums(s)[k - 1] + s[k]
  BY SumsIs
<1>2. /\ Sums(u) \in [0 .. n -> Nat] /\ Sums(u)[0] = 0
      /\ \A k \in 1 .. n : Sums(u)[k] = Sums(u)[k - 1] + u[k]
  BY SumsIs
<1>3. n \in Nat /\ \A k \in 1 .. n : s[k] \in Nat /\ u[k] \in Nat
  OBVIOUS
<1>4. 0 \in T
  <2>1. 0 * x = 0 /\ 0 * y = 0
    OBVIOUS
  <2> QED BY <1>1, <1>2, <2>1
<1>5. \A k \in T : k + 1 \in T
  <2> SUFFICES ASSUME NEW k \in T, k + 1 <= n
               PROVE  Sums(s)[k + 1] * x <= Sums(u)[k + 1] * y
    OBVIOUS
  <2>1. k \in 0 .. n /\ k + 1 \in 1 .. n /\ (k + 1) - 1 = k
    BY <1>3
  <2> DEFINE a == Sums(s)[k]
             b == s[k + 1]
             c == Sums(u)[k]
             d == u[k + 1]
  <2>2. /\ a \in Nat /\ b \in Nat /\ Sums(s)[k + 1] = a + b
        /\ c \in Nat /\ d \in Nat /\ Sums(u)[k + 1] = c + d
    <3> HIDE DEF T
    <3> QED BY ONLY <1>1, <1>2, <1>3, <2>1
  <2>3. a * x <= c * y
    BY <2>1
  <2>7. b * x <= d * y
    BY <2>1
  <2> HIDE DEF a, b, c, d
  <2>4. (a + b) * x = a * x + b * x /\ (c + d) * y = c * y + d * y
    BY ONLY <2>2, x \in Nat, y \in Nat
  <2>5. a * x \in Nat /\ b * x \in Nat /\ c * y \in Nat /\ d * y \in Nat
    BY ONLY <2>2, x \in Nat, y \in Nat
  <2>6. (a + b) * x <= (c + d) * y
    BY ONLY <2>3, <2>7, <2>4, <2>5
  <2> QED BY <2>2, <2>6
<1>6. n \in T
  <2>1. T \in SUBSET Nat
    OBVIOUS
  <2>2. \A k \in Nat : k \in T
    BY ONLY <1>4, <1>5, <2>1, Induction
  <2> QED BY <1>3, <2>2
<1> QED BY <1>3, <1>6 DEF Sum

\* A positive factor can be cancelled.
LEMMA Cancel ==
  ASSUME NEW a \in Nat, NEW b \in Nat, NEW x \in Nat, x > 0, a * x <= b * x
  PROVE  a <= b
<1> SUFFICES ASSUME a >= b + 1 PROVE FALSE
  OBVIOUS
<1>1. PICK c \in Nat : a = b + 1 + c
  <2>1. a - (b + 1) \in Nat /\ a = b + 1 + (a - (b + 1))
    OBVIOUS
  <2> QED BY <2>1
<1>2. (b + 1 + c) * x = b * x + x + c * x
  OBVIOUS
<1>3. c * x \in Nat /\ b * x \in Nat
  OBVIOUS
<1> QED BY <1>1, <1>2, <1>3

\* The smaller of two numbers.
LEMMA MinIs ==
  ASSUME NEW a \in Nat, NEW b \in Nat
  PROVE  Min({a, b}) \in {a, b} /\ Min({a, b}) <= a /\ Min({a, b}) <= b
<1>1. \E x \in {a, b} : \A y \in {a, b} : x <= y
  OBVIOUS
<1> QED BY <1>1 DEF Min

\* A share is at most the exact one.
LEMMA ShareBound ==
  ASSUME max_byterate \in Nat, NEW r \in Nat, NEW sum \in Nat, sum > 0,
         NEW a \in Share(r, sum)
  PROVE  a \in Nat /\ a * sum <= r * Min({sum, max_byterate})
<1> DEFINE exact == r * Min({sum, max_byterate})
           whole == exact \div sum
<1>1. Min({sum, max_byterate}) \in Nat
  BY MinIs
<1>2. exact \in Nat
  BY <1>1
<1>3. \/ a = whole
      \/ whole > 0 /\ a = whole - 1
  BY DEF Share
<1> HIDE DEF exact
<1>4. whole \in Nat /\ whole * sum <= exact
  <2>1. PICK q \in Nat, m \in 0 .. sum - 1 : exact = q * sum + m /\ q = whole
    BY <1>2
  <2>2. q * sum \in Nat
    BY <2>1
  <2> QED BY <2>1, <2>2
<1> HIDE DEF whole
<1>5. whole * sum \in Nat
  BY <1>4
<1>6. CASE a = whole
  BY <1>4, <1>6 DEF exact
<1>7. CASE whole > 0 /\ a = whole - 1
  <2>1. a \in Nat /\ whole = a + 1
    BY <1>4, <1>7
  <2>2. (a + 1) * sum = a * sum + sum
    BY <2>1
  <2>3. a * sum \in Nat
    BY <2>1
  <2>4. a * sum <= exact
    BY ONLY <1>2, <1>4, <2>1, <2>2, <2>3, sum \in Nat
  <2> QED BY <2>1, <2>4 DEF exact
<1> QED BY <1>3, <1>6, <1>7

-----------------------------------------------------------------------------
(* rate_limiter *)

RateTypes ==
  /\ true_rates \in Seq(Nat) /\ max_byterate \in Nat
  /\ live \subseteq Enforcers /\ IsFiniteSet(live)
  /\ id \in [Enforcers -> Nat]
  /\ pc \in [Enforcers -> {"idle", "add", "share"}]
  /\ total \in [Enforcers -> Nat] /\ pos \in [Enforcers -> Nat]
  /\ unlimited_rate \in [Enforcers -> Nat] /\ allowed_rate \in [Enforcers -> Nat]
  /\ actual_rate \in [Enforcers -> Nat]
  /\ disturbed \in BOOLEAN

\* Only live enforcers are in a call.
Calling ==
  /\ upToDate \subseteq live
  /\ \A e \in Enforcers : pc[e] /= "idle" => e \in live

\* What an enforcer that is up to date has summed, and in the end been given.
SumToDate(e) ==
  /\ pc[e] = "add" => pos[e] <= Len(true_rates) /\ total[e] = Sums(true_rates)[pos[e]]
  /\ pc[e] = "share" => total[e] = Sum(true_rates)
  /\ pc[e] = "idle" => allowed_rate[e] \in Share(unlimited_rate[e], Sum(true_rates))

SumsToDate == \A e \in upToDate : SumToDate(e)

RateInv == RateTypes /\ Calling /\ IdsValid /\ SumsToDate

\* A tracker without enforcers.
LEMMA RateInitially ==
  ASSUME RateInit PROVE RateInv
<1>1. true_rates = <<>> /\ live = {} /\ upToDate = {}
  BY DEF RateInit
<1>2. IsFiniteSet(live) /\ Cardinality(live) = 0
  BY <1>1, FS_EmptySet
<1>3. RateTypes
  <2>1. true_rates \in Seq(Nat)
    BY <1>1
  <2>2. max_byterate \in Nat
    BY RateAssumption DEF RateInit
  <2>3. live \subseteq Enforcers
    BY <1>1
  <2>4. /\ id \in [Enforcers -> Nat]
        /\ pc \in [Enforcers -> {"idle", "add", "share"}]
        /\ total \in [Enforcers -> Nat] /\ pos \in [Enforcers -> Nat]
        /\ unlimited_rate \in [Enforcers -> Nat] /\ allowed_rate \in [Enforcers -> Nat]
        /\ actual_rate \in [Enforcers -> Nat]
        /\ disturbed \in BOOLEAN
    BY DEF RateInit
  <2> QED BY <1>2, <2>1, <2>2, <2>3, <2>4 DEF RateTypes
<1>4. Calling /\ SumsToDate
  BY <1>1 DEF RateInit, Calling, SumsToDate
<1>5. IdsValid
  BY <1>1, <1>2 DEF IdsValid
<1> QED BY <1>3, <1>4, <1>5 DEF RateInv

\* In these steps neither the vector nor the enforcers change.
LEMMA IdsStay ==
  ASSUME IdsValid, UNCHANGED <<true_rates, id, live, unlimited_rate, disturbed>>
  PROVE  IdsValid'
BY DEF IdsValid

\* A sum under way stays what it is while nobody changes a rate.
LEMMA SumStays ==
  ASSUME NEW f \in Enforcers, SumToDate(f), UNCHANGED <<true_rates, max_byterate>>,
         pc'[f] = pc[f], pos'[f] = pos[f], total'[f] = total[f],
         unlimited_rate'[f] = unlimited_rate[f], allowed_rate'[f] = allowed_rate[f]
  PROVE  SumToDate(f)'
<1>1. Sums(true_rates)' = Sums(true_rates) /\ Sum(true_rates)' = Sum(true_rates)
  BY DEF Sum, Sums
<1>2. Share(unlimited_rate[f], Sum(true_rates))' = Share(unlimited_rate[f], Sum(true_rates))
  BY <1>1 DEF Share
<1> QED BY <1>1, <1>2 DEF SumToDate

\* make_enforcer gives the next id, at the end of the vector.
LEMMA MakeEnforcerStep ==
  ASSUME RateInv, NEW e \in Enforcers, MakeEnforcer(e)
  PROVE  RateInv'
<1>1. /\ true_rates \in Seq(Nat) /\ Len(true_rates) \in Nat /\ IsFiniteSet(live) /\ live \subseteq Enforcers
      /\ true_rates' = Append(true_rates, 0) /\ live' = live \cup {e} /\ e \notin live
      /\ id' = [id EXCEPT ![e] = Len(true_rates)] /\ id \in [Enforcers -> Nat]
      /\ unlimited_rate' = [unlimited_rate EXCEPT ![e] = 0] /\ unlimited_rate \in [Enforcers -> Nat]
      /\ disturbed' = disturbed /\ upToDate' = {} /\ pc' = pc
  BY DEF RateInv, RateTypes, MakeEnforcer, updateVars
<1>2. IsFiniteSet(live') /\ Cardinality(live') = Cardinality(live) + 1
  BY <1>1, FS_AddElement
<1>3. Cardinality(live) \in Nat
  BY <1>1, FS_CardinalityType
<1>4. /\ true_rates' \in Seq(Nat) /\ Len(true_rates') = Len(true_rates) + 1
      /\ true_rates'[Len(true_rates) + 1] = 0
      /\ \A i \in 1 .. Len(true_rates) : true_rates'[i] = true_rates[i]
  BY <1>1
<1>5. RateTypes'
  BY <1>1, <1>2, <1>4 DEF RateInv, RateTypes, MakeEnforcer, updateVars
<1>6. Calling'
  BY <1>1 DEF RateInv, Calling
<1>7. SumsToDate'
  BY <1>1 DEF SumsToDate
<1>8. IdsValid'
  <2>1. Len(true_rates') >= Cardinality(live')
    BY <1>1, <1>2, <1>3, <1>4 DEF RateInv, IdsValid
  <2> SUFFICES ASSUME ~disturbed
               PROVE  /\ Len(true_rates') = Cardinality(live')
                      /\ \A f \in live' : /\ id'[f] < Len(true_rates')
                                          /\ true_rates'[id'[f] + 1] = unlimited_rate'[f]
                      /\ \A f, g \in live' : f /= g => id'[f] /= id'[g]
    BY <1>1, <2>1 DEF IdsValid
  <2>2. /\ Len(true_rates) = Cardinality(live)
        /\ \A f \in live : id[f] < Len(true_rates) /\ true_rates[id[f] + 1] = unlimited_rate[f]
        /\ \A f, g \in live : f /= g => id[f] /= id[g]
    BY DEF RateInv, IdsValid
  <2>3. id'[e] = Len(true_rates) /\ unlimited_rate'[e] = 0
    BY <1>1
  <2>4. \A f \in live : /\ f /= e /\ id'[f] = id[f] /\ unlimited_rate'[f] = unlimited_rate[f]
                        /\ id[f] \in Nat
    BY <1>1
  <2>5. \A f \in live : id[f] + 1 \in 1 .. Len(true_rates) /\ id[f] /= Len(true_rates)
    BY <1>1, <2>2, <2>4
  <2>6. \A f \in live' : id'[f] < Len(true_rates') /\ true_rates'[id'[f] + 1] = unlimited_rate'[f]
    <3> TAKE f \in live'
    <3>1. CASE f = e
      BY <1>1, <1>4, <2>3, <3>1
    <3>2. CASE f \in live
      BY <1>1, <1>4, <2>2, <2>4, <2>5, <3>2
    <3> QED BY <1>1, <3>1, <3>2
  <2>7. \A f, g \in live' : f /= g => id'[f] /= id'[g]
    BY <1>1, <2>2, <2>3, <2>4, <2>5
  <2> QED BY <1>2, <1>4, <2>2, <2>6, <2>7
<1> QED BY <1>5, <1>6, <1>7, <1>8 DEF RateInv

\* The swap-and-pop shortens the vector by one and, for the last id, changes no
\* other rate.
LEMMA SwapAndPopIs ==
  ASSUME true_rates \in Seq(Nat), NEW i \in Nat, i < Len(true_rates)
  PROVE  /\ SwapAndPop(i) \in Seq(Nat)
         /\ Len(SwapAndPop(i)) = Len(true_rates) - 1
         /\ i = Len(true_rates) - 1 =>
              \A j \in 1 .. Len(true_rates) - 1 : SwapAndPop(i)[j] = true_rates[j]
<1> DEFINE n == Len(true_rates)
           s == [true_rates EXCEPT ![i + 1] = true_rates[n]]
<1>1. n \in Nat /\ n >= 1 /\ true_rates[n] \in Nat /\ DOMAIN true_rates = 1 .. n
  OBVIOUS
<1>2. s \in Seq(Nat) /\ Len(s) = n
  BY <1>1
<1>3. \A j \in 1 .. n : j /= i + 1 => s[j] = true_rates[j]
  BY <1>1
<1>4. SwapAndPop(i) = SubSeq(s, 1, n - 1)
  BY <1>2 DEF SwapAndPop, Front
<1> HIDE DEF s, n
<1>5. /\ SubSeq(s, 1, n - 1) \in Seq(Nat) /\ Len(SubSeq(s, 1, n - 1)) = n - 1
      /\ \A j \in 1 .. n - 1 : SubSeq(s, 1, n - 1)[j] = s[j]
  BY <1>1, <1>2
<1>6. i = n - 1 => \A j \in 1 .. n - 1 : j \in 1 .. n /\ j /= i + 1
  BY <1>1
<1> QED BY <1>3, <1>4, <1>5, <1>6 DEF n

\* Unregistering keeps the invariant; ids are no longer known to be valid unless
\* it was the last.
LEMMA UnregisterStep ==
  ASSUME RateInv, NEW e \in Enforcers, Unregister(e)
  PROVE  RateInv'
<1>1. /\ true_rates \in Seq(Nat) /\ Len(true_rates) \in Nat /\ IsFiniteSet(live) /\ live \subseteq Enforcers
      /\ live' = live \ {e} /\ e \in live
      /\ true_rates' = IF id[e] < Len(true_rates) THEN SwapAndPop(id[e]) ELSE true_rates
      /\ id' = id /\ id \in [Enforcers -> Nat] /\ id[e] \in Nat
      /\ unlimited_rate' = unlimited_rate
      /\ disturbed' = (disturbed \/ id[e] /= Len(true_rates) - 1)
      /\ upToDate' = {} /\ pc' = pc /\ pc[e] = "idle"
  BY DEF RateInv, RateTypes, Unregister, Idle, updateVars, rateVars
<1>2. IsFiniteSet(live') /\ Cardinality(live') = Cardinality(live) - 1
  BY <1>1, FS_RemoveElement
<1>3. Cardinality(live) \in Nat
  BY <1>1, FS_CardinalityType
<1>4. true_rates' \in Seq(Nat) /\ Len(true_rates') >= Len(true_rates) - 1 /\ Len(true_rates') \in Nat
  BY <1>1, SwapAndPopIs
<1>5. RateTypes'
  BY <1>1, <1>2, <1>4 DEF RateInv, RateTypes, Unregister, updateVars, rateVars
<1>6. Calling'
  BY <1>1 DEF RateInv, Calling
<1>7. SumsToDate'
  BY <1>1 DEF SumsToDate
<1>8. IdsValid'
  <2>1. Len(true_rates') >= Cardinality(live')
    BY <1>1, <1>2, <1>3, <1>4 DEF RateInv, IdsValid
  <2> SUFFICES ASSUME ~disturbed, id[e] = Len(true_rates) - 1
               PROVE  /\ Len(true_rates') = Cardinality(live')
                      /\ \A f \in live' : /\ id[f] < Len(true_rates')
                                          /\ true_rates'[id[f] + 1] = unlimited_rate[f]
                      /\ \A f, g \in live' : f /= g => id[f] /= id[g]
    BY <1>1, <2>1 DEF IdsValid
  <2>2. /\ Len(true_rates) = Cardinality(live)
        /\ \A f \in live : id[f] < Len(true_rates) /\ true_rates[id[f] + 1] = unlimited_rate[f]
        /\ \A f, g \in live : f /= g => id[f] /= id[g]
    BY DEF RateInv, IdsValid
  <2>3. /\ Len(true_rates') = Len(true_rates) - 1
        /\ \A j \in 1 .. Len(true_rates) - 1 : true_rates'[j] = true_rates[j]
    <3>1. id[e] < Len(true_rates)
      BY <1>1
    <3>2. true_rates' = SwapAndPop(id[e])
      BY <1>1, <3>1
    <3>3. /\ Len(SwapAndPop(id[e])) = Len(true_rates) - 1
          /\ \A j \in 1 .. Len(true_rates) - 1 : SwapAndPop(id[e])[j] = true_rates[j]
      <4>1. true_rates \in Seq(Nat) /\ id[e] \in Nat
        BY <1>1
      <4> QED BY ONLY <3>1, <4>1, id[e] = Len(true_rates) - 1, SwapAndPopIs
    <3> QED BY <3>2, <3>3
  <2>4. \A f \in live' : id[f] \in Nat /\ id[f] < Len(true_rates) - 1
    BY <1>1, <2>2
  <2>5. \A f \in live' : id[f] + 1 \in 1 .. Len(true_rates) - 1
    BY <1>1, <2>4
  <2> QED BY <1>1, <1>2, <2>2, <2>3, <2>4, <2>5
<1> QED BY <1>5, <1>6, <1>7, <1>8 DEF RateInv

\* A new maximum makes every stored share out of date.
LEMMA SetMaxByterateStep ==
  ASSUME RateInv, NEW m \in MaxRates, SetMaxByterate(m)
  PROVE  RateInv'
<1>1. /\ UNCHANGED <<true_rates, id, live, pc, total, pos, unlimited_rate, allowed_rate,
                     actual_rate, disturbed>>
      /\ max_byterate' \in Nat /\ upToDate' = {}
  BY RateAssumption DEF SetMaxByterate, updateVars, rateVars
<1>2. RateTypes'
  BY <1>1 DEF RateInv, RateTypes
<1>3. Calling' /\ SumsToDate'
  BY <1>1 DEF RateInv, Calling, SumsToDate
<1>4. IdsValid'
  BY <1>1, IdsStay DEF RateInv
<1> QED BY <1>2, <1>3, <1>4 DEF RateInv

\* An enforcer stores its rate at its own place; nobody else's is there as long
\* as the ids are in order.
LEMMA StoreRateStep ==
  ASSUME RateInv, NEW e \in Enforcers, NEW r \in Rates, StoreRate(e, r)
  PROVE  RateInv'
<1>1. /\ true_rates \in Seq(Nat) /\ Len(true_rates) \in Nat /\ r \in Nat
      /\ e \in live /\ live \subseteq Enforcers /\ live' = live /\ pc[e] = "idle"
      /\ id' = id /\ id \in [Enforcers -> Nat] /\ id[e] \in Nat
      /\ unlimited_rate' = [unlimited_rate EXCEPT ![e] = r] /\ unlimited_rate \in [Enforcers -> Nat]
      /\ disturbed' = disturbed
      /\ pc' = [pc EXCEPT ![e] = "add"] /\ pc \in [Enforcers -> {"idle", "add", "share"}]
      /\ total' = [total EXCEPT ![e] = 0] /\ total \in [Enforcers -> Nat]
      /\ pos' = [pos EXCEPT ![e] = 0] /\ pos \in [Enforcers -> Nat]
      /\ UNCHANGED <<max_byterate, allowed_rate, actual_rate>>
  BY RateAssumption DEF RateInv, RateTypes, StoreRate, Idle
<1>2. /\ true_rates' = IF id[e] < Len(true_rates)
                       THEN [true_rates EXCEPT ![id[e] + 1] = r] ELSE true_rates
      /\ upToDate' = IF true_rates' = true_rates THEN upToDate \cup {e} ELSE {e}
  BY DEF StoreRate
<1>3. /\ true_rates' \in Seq(Nat) /\ Len(true_rates') = Len(true_rates)
      /\ \A j \in 1 .. Len(true_rates) :
           true_rates'[j] = IF j = id[e] + 1 THEN r ELSE true_rates[j]
  <2>1. CASE id[e] < Len(true_rates)
    <3>1. id[e] + 1 \in 1 .. Len(true_rates)
      BY <1>1, <2>1
    <3> QED BY <1>1, <1>2, <2>1, <3>1
  <2>2. CASE ~ (id[e] < Len(true_rates))
    <3>1. \A j \in 1 .. Len(true_rates) : j /= id[e] + 1
      BY <1>1, <2>2
    <3> QED BY <1>1, <1>2, <2>2, <3>1
  <2> QED BY <2>1, <2>2
<1>4. RateTypes'
  <2>1. /\ unlimited_rate' \in [Enforcers -> Nat] /\ total' \in [Enforcers -> Nat]
        /\ pos' \in [Enforcers -> Nat] /\ pc' \in [Enforcers -> {"idle", "add", "share"}]
    BY <1>1
  <2> QED BY <1>1, <1>3, <2>1 DEF RateInv, RateTypes
<1>5. Calling'
  BY <1>1, <1>2 DEF RateInv, Calling
<1>6. SumsToDate'
  <2> SUFFICES ASSUME NEW f \in upToDate' PROVE SumToDate(f)'
    BY DEF SumsToDate
  <2>1. CASE f = e
    <3>1. pc'[f] = "add" /\ pos'[f] = 0 /\ total'[f] = 0
      BY <1>1, <2>1
    <3>2. Sums(true_rates')[0] = 0
      BY ONLY <1>3, SumsIs
    <3>3. Sums(true_rates)' = Sums(true_rates')
      BY DEF Sums
    <3> QED BY <1>1, <1>3, <3>1, <3>2, <3>3 DEF SumToDate
  <2>2. CASE f /= e
    <3>1. f \in upToDate /\ true_rates' = true_rates /\ f \in Enforcers
      BY <1>1, <1>2, <2>2 DEF RateInv, Calling
    <3>2. /\ pc'[f] = pc[f] /\ pos'[f] = pos[f] /\ total'[f] = total[f]
          /\ unlimited_rate'[f] = unlimited_rate[f] /\ allowed_rate'[f] = allowed_rate[f]
          /\ UNCHANGED <<true_rates, max_byterate>>
      BY <1>1, <2>2, <3>1
    <3>3. SumToDate(f)
      BY <3>1 DEF RateInv, SumsToDate
    <3> QED BY ONLY <3>1, <3>2, <3>3, SumStays
  <2> QED BY <2>1, <2>2
<1>7. IdsValid'
  <2>1. Len(true_rates') >= Cardinality(live')
    BY <1>1, <1>3 DEF RateInv, IdsValid
  <2> SUFFICES ASSUME ~disturbed
               PROVE  /\ Len(true_rates') = Cardinality(live')
                      /\ \A f \in live : /\ id[f] < Len(true_rates')
                                         /\ true_rates'[id[f] + 1] = unlimited_rate'[f]
                      /\ \A f, g \in live : f /= g => id[f] /= id[g]
    BY <1>1, <2>1 DEF IdsValid
  <2>2. /\ Len(true_rates) = Cardinality(live)
        /\ \A f \in live : id[f] < Len(true_rates) /\ true_rates[id[f] + 1] = unlimited_rate[f]
        /\ \A f, g \in live : f /= g => id[f] /= id[g]
    BY DEF RateInv, IdsValid
  <2>3. ASSUME NEW f \in live PROVE true_rates'[id[f] + 1] = unlimited_rate'[f]
    <3>1. id[f] \in Nat /\ id[f] + 1 \in 1 .. Len(true_rates) /\ f \in Enforcers
      BY <1>1, <2>2
    <3>2. CASE f = e
      BY <1>1, <1>3, <3>1, <3>2
    <3>3. CASE f /= e
      <4>1. id[f] + 1 /= id[e] + 1
        BY <1>1, <2>2, <3>1, <3>3
      <4> QED BY <1>1, <1>3, <2>2, <3>1, <3>3, <4>1
    <3> QED BY <3>2, <3>3
  <2> QED BY <1>1, <1>3, <2>2, <2>3
<1> QED BY <1>4, <1>5, <1>6, <1>7 DEF RateInv

\* A step of e that leaves the vector and the enforcers alone.
LEMMA OwnStep ==
  ASSUME RateInv, NEW e \in Enforcers,
         UNCHANGED <<true_rates, max_byterate, id, live, unlimited_rate, disturbed, upToDate>>,
         \A f \in Enforcers \ {e} :
           /\ pc'[f] = pc[f] /\ pos'[f] = pos[f] /\ total'[f] = total[f]
           /\ allowed_rate'[f] = allowed_rate[f],
         RateTypes', pc'[e] = "idle" \/ pc[e] /= "idle",
         SumToDate(e) => SumToDate(e)'
  PROVE  RateInv'
<1>1. Calling'
  <2>1. \A f \in Enforcers : pc'[f] /= "idle" => pc[f] /= "idle"
    OBVIOUS
  <2> QED BY <2>1 DEF RateInv, Calling
<1>2. SumsToDate'
  <2> SUFFICES ASSUME NEW f \in upToDate PROVE SumToDate(f)'
    BY DEF SumsToDate
  <2>1. SumToDate(f) /\ f \in Enforcers
    BY DEF RateInv, SumsToDate, Calling, RateTypes
  <2>2. CASE f = e
    BY <2>1, <2>2
  <2>3. CASE f /= e
    <3>1. /\ pc'[f] = pc[f] /\ pos'[f] = pos[f] /\ total'[f] = total[f]
          /\ unlimited_rate'[f] = unlimited_rate[f] /\ allowed_rate'[f] = allowed_rate[f]
          /\ UNCHANGED <<true_rates, max_byterate>>
      BY <2>1, <2>3
    <3> QED BY ONLY <2>1, <3>1, SumStays
  <2> QED BY <2>2, <2>3
<1>3. IdsValid'
  BY IdsStay DEF RateInv
<1> QED BY <1>1, <1>2, <1>3 DEF RateInv

\* The sum goes on by one stored rate.
LEMMA AddRateStep ==
  ASSUME RateInv, NEW e \in Enforcers, AddRate(e)
  PROVE  RateInv'
<1>1. /\ true_rates \in Seq(Nat) /\ Len(true_rates) \in Nat
      /\ pc[e] = "add" /\ pc' = pc /\ pos[e] < Len(true_rates)
      /\ total' = [total EXCEPT ![e] = @ + true_rates[pos[e] + 1]] /\ total \in [Enforcers -> Nat]
      /\ pos' = [pos EXCEPT ![e] = @ + 1] /\ pos \in [Enforcers -> Nat]
      /\ UNCHANGED <<true_rates, max_byterate, id, live, unlimited_rate, allowed_rate,
                     actual_rate, disturbed, upToDate>>
  BY DEF RateInv, RateTypes, AddRate, trackerVars, rateVars
<1>2. pos[e] \in Nat /\ pos[e] + 1 \in 1 .. Len(true_rates) /\ true_rates[pos[e] + 1] \in Nat
  BY <1>1
<1>3. RateTypes'
  <2>1. total' \in [Enforcers -> Nat] /\ pos' \in [Enforcers -> Nat]
    BY <1>1, <1>2
  <2> QED BY <1>1, <2>1 DEF RateInv, RateTypes
<1>4. ASSUME SumToDate(e) PROVE SumToDate(e)'
  <2>1. total[e] = Sums(true_rates)[pos[e]]
    BY <1>1, <1>4 DEF SumToDate
  <2>2. \A i \in 1 .. Len(true_rates) : Sums(true_rates)[i] = Sums(true_rates)[i - 1] + true_rates[i]
    BY <1>1, SumsIs
  <2>3. total'[e] = Sums(true_rates)[pos'[e]] /\ pos'[e] <= Len(true_rates)
    <3>1. /\ total'[e] = total[e] + true_rates[pos[e] + 1] /\ pos'[e] = pos[e] + 1
          /\ (pos[e] + 1) - 1 = pos[e]
      BY <1>1, <1>2
    <3> QED BY <1>2, <2>1, <2>2, <3>1
  <2>4. Sums(true_rates)' = Sums(true_rates)
    BY <1>1 DEF Sums
  <2> QED BY <1>1, <2>3, <2>4 DEF SumToDate
<1>5. \A f \in Enforcers \ {e} : /\ pc'[f] = pc[f] /\ pos'[f] = pos[f] /\ total'[f] = total[f]
                                 /\ allowed_rate'[f] = allowed_rate[f]
  BY <1>1
<1> QED BY <1>1, <1>3, <1>4, <1>5, OwnStep

\* The sum is complete: the share is computed from it and the lock released.
LEMMA UnlockStep ==
  ASSUME RateInv, NEW e \in Enforcers, Unlock(e)
  PROVE  RateInv'
<1>1. /\ pc[e] = "add" /\ pc' = [pc EXCEPT ![e] = "share"] /\ pos[e] = Len(true_rates)
      /\ pc \in [Enforcers -> {"idle", "add", "share"}]
      /\ UNCHANGED <<true_rates, max_byterate, id, live, total, pos, unlimited_rate,
                     allowed_rate, actual_rate, disturbed, upToDate>>
  BY DEF RateInv, RateTypes, Unlock, trackerVars, rateVars
<1>2. RateTypes'
  <2>1. pc' \in [Enforcers -> {"idle", "add", "share"}]
    BY <1>1
  <2> QED BY <1>1, <2>1 DEF RateInv, RateTypes
<1>3. ASSUME SumToDate(e) PROVE SumToDate(e)'
  <2>1. total[e] = Sum(true_rates)
    BY <1>1, <1>3 DEF SumToDate, Sum
  <2>2. Sum(true_rates)' = Sum(true_rates) /\ pc'[e] = "share" /\ total' = total
    BY <1>1 DEF Sum, Sums
  <2> QED BY <2>1, <2>2 DEF SumToDate
<1>4. \A f \in Enforcers \ {e} : /\ pc'[f] = pc[f] /\ pos'[f] = pos[f] /\ total'[f] = total[f]
                                 /\ allowed_rate'[f] = allowed_rate[f]
  BY <1>1
<1> QED BY <1>1, <1>2, <1>3, <1>4, OwnStep

\* The enforcer stores the share it was given.
LEMMA SetAllowedStep ==
  ASSUME RateInv, NEW e \in Enforcers, SetAllowed(e)
  PROVE  RateInv'
<1>1. /\ pc[e] = "share" /\ pc' = [pc EXCEPT ![e] = "idle"]
      /\ pc \in [Enforcers -> {"idle", "add", "share"}]
      /\ total' = [total EXCEPT ![e] = 0] /\ total \in [Enforcers -> Nat]
      /\ pos' = [pos EXCEPT ![e] = 0] /\ pos \in [Enforcers -> Nat]
      /\ UNCHANGED <<true_rates, max_byterate, id, live, unlimited_rate, actual_rate,
                     disturbed, upToDate>>
      /\ max_byterate \in Nat /\ unlimited_rate[e] \in Nat /\ total[e] \in Nat
      /\ allowed_rate \in [Enforcers -> Nat]
  BY DEF RateInv, RateTypes, SetAllowed, trackerVars
<1>2. PICK a \in Share(unlimited_rate[e], total[e]) : allowed_rate' = [allowed_rate EXCEPT ![e] = a]
  BY DEF SetAllowed
<1>3. a \in Nat
  <2>1. CASE total[e] = 0
    BY <1>2, <2>1, RateAssumption DEF Share
  <2>2. CASE total[e] > 0
    BY ONLY <1>1, <1>2, <2>2, ShareBound
  <2> QED BY <1>1, <2>1, <2>2
<1>4. RateTypes'
  <2>1. /\ total' \in [Enforcers -> Nat] /\ pos' \in [Enforcers -> Nat]
        /\ pc' \in [Enforcers -> {"idle", "add", "share"}] /\ allowed_rate' \in [Enforcers -> Nat]
    BY <1>1, <1>2, <1>3
  <2> QED BY <1>1, <2>1 DEF RateInv, RateTypes
<1>5. ASSUME SumToDate(e) PROVE SumToDate(e)'
  <2>1. total[e] = Sum(true_rates)
    BY <1>1, <1>5 DEF SumToDate
  <2>2. Sum(true_rates)' = Sum(true_rates) /\ pc'[e] = "idle" /\ allowed_rate'[e] = a
    BY <1>1, <1>2 DEF Sum, Sums
  <2>3. Share(unlimited_rate[e], Sum(true_rates))' = Share(unlimited_rate[e], Sum(true_rates))
    BY <1>1, <2>2 DEF Share
  <2> QED BY <1>2, <2>1, <2>2, <2>3 DEF SumToDate
<1>6. \A f \in Enforcers \ {e} : /\ pc'[f] = pc[f] /\ pos'[f] = pos[f] /\ total'[f] = total[f]
                                 /\ allowed_rate'[f] = allowed_rate[f]
  BY <1>1, <1>2
<1>7. pc'[e] = "idle"
  BY <1>1
<1> QED BY <1>1, <1>4, <1>5, <1>6, <1>7, OwnStep

\* should_send changes the averaged rate only, which stays a number.
LEMMA ShouldSendStep ==
  ASSUME RateInv, NEW e \in Enforcers, NEW r \in SendRates, ShouldSend(e, r)
  PROVE  RateInv'
<1>1. /\ UNCHANGED <<true_rates, max_byterate, id, live, pc, total, pos, unlimited_rate,
                     allowed_rate, disturbed, upToDate>>
      /\ pc[e] = "idle" /\ actual_rate \in [Enforcers -> Nat]
  BY DEF RateInv, RateTypes, ShouldSend, Idle, trackerVars, updateVars
<1>2. RestartedRate(e) \in Nat
  BY <1>1 DEF RestartedRate
<1>3. Averaged(e, r) \in Nat
  <2>1. r \in Nat /\ Unit - Alpha \in Nat /\ Alpha \in Nat /\ Unit \in Nat \ {0}
    BY RateAssumption
  <2>2. RestartedRate(e) * (Unit - Alpha) \in Nat /\ r * Alpha \in Nat
    BY <1>2, <2>1
  <2>3. Weighted(e, r) + Unit - 1 \in Nat
    BY <2>1, <2>2 DEF Weighted
  <2> QED BY <2>1, <2>3 DEF Averaged
<1>4. actual_rate' \in [Enforcers -> Nat]
  BY <1>1, <1>2, <1>3 DEF ShouldSend
<1>5. RateTypes'
  BY <1>1, <1>4 DEF RateInv, RateTypes
<1>6. SumToDate(e) => SumToDate(e)'
  <2>1. SumToDate(e) => SumToDate(e)'
    BY <1>1, SumStays
  <2> QED BY <2>1
<1>7. \A f \in Enforcers \ {e} : /\ pc'[f] = pc[f] /\ pos'[f] = pos[f] /\ total'[f] = total[f]
                                 /\ allowed_rate'[f] = allowed_rate[f]
  BY <1>1
<1> QED BY <1>1, <1>5, <1>6, <1>7, OwnStep

\* Every step keeps the invariant.
LEMMA RateStep ==
  ASSUME RateInv, [RateNext]_limiterVars
  PROVE  RateInv'
<1>1. CASE \E m \in MaxRates : SetMaxByterate(m)
  BY <1>1, SetMaxByterateStep
<1>2. CASE \E e \in Enforcers :
             \/ MakeEnforcer(e) \/ Unregister(e) \/ AddRate(e) \/ Unlock(e) \/ SetAllowed(e)
  BY <1>2, MakeEnforcerStep, UnregisterStep, AddRateStep, UnlockStep, SetAllowedStep
<1>3. CASE \E e \in Enforcers, r \in Rates : StoreRate(e, r)
  BY <1>3, StoreRateStep
<1>4. CASE \E e \in Enforcers, r \in SendRates : ShouldSend(e, r)
  BY <1>4, ShouldSendStep
<1>5. CASE UNCHANGED limiterVars
  <2>1. UNCHANGED <<true_rates, max_byterate, id, live, pc, total, pos, unlimited_rate,
                    allowed_rate, actual_rate, disturbed, upToDate>>
    BY <1>5 DEF limiterVars, trackerVars, updateVars, rateVars
  <2>2. RateTypes' /\ Calling'
    BY <2>1 DEF RateInv, RateTypes, Calling
  <2>3. IdsValid'
    BY <2>1, IdsStay DEF RateInv
  <2>4. SumsToDate'
    <3> SUFFICES ASSUME NEW f \in upToDate PROVE SumToDate(f)'
      BY <2>1 DEF SumsToDate
    <3>1. SumToDate(f) /\ f \in Enforcers
      BY DEF RateInv, SumsToDate, Calling, RateTypes
    <3> QED BY ONLY <2>1, <3>1, SumStays
  <2> QED BY <2>2, <2>3, <2>4 DEF RateInv
<1> QED BY <1>1, <1>2, <1>3, <1>4, <1>5 DEF RateNext

\* RateInv holds of every behaviour of the trackers and enforcers of
\* rate_limiter.cpp: what an enforcer that is up to date has summed so far, under
\* shared_mutex, is the sum of the rates it has passed.
THEOREM RateInvariance == RateSpec => []RateInv
<1>1. RateInit => RateInv
  BY RateInitially
<1>2. RateInv /\ [RateNext]_limiterVars => RateInv'
  BY RateStep
<1> QED BY <1>1, <1>2, PTL DEF RateSpec

\* register_enforcer and unregister_enforcer of rate_limiter.cpp: until one other
\* than the last registered goes, every enforcer's id is its own place.
THEOREM IdsInOrder == RateSpec => []IdsValid
<1>1. RateInv => IdsValid
  BY DEF RateInv
<1> QED BY <1>1, RateInvariance, PTL

-----------------------------------------------------------------------------
(* update_and_get_allowable: the shares together *)

\* While the ids are in order, every place of the vector is an enforcer's.
LEMMA EveryPlaceTaken ==
  ASSUME RateInv, ~disturbed, NEW i \in 1 .. Len(true_rates)
  PROVE  \E e \in live : id[e] = i - 1
<1> DEFINE n == Len(true_rates)
           f == [e \in live |-> id[e] + 1]
<1>1. /\ IsFiniteSet(live) /\ id \in [Enforcers -> Nat] /\ live \subseteq Enforcers
      /\ n \in Nat
  BY DEF RateInv, RateTypes
<1>2. /\ n = Cardinality(live)
      /\ \A e \in live : id[e] \in Nat /\ id[e] < n
      /\ \A e, g \in live : e /= g => id[e] /= id[g]
  BY <1>1 DEF RateInv, IdsValid
<1>3. f \in Injection(live, 1 .. n)
  BY <1>1, <1>2 DEF Injection, IsInjective
<1>4. IsFiniteSet(1 .. n) /\ Cardinality(1 .. n) = n
  <2>1. 1 \in Int /\ n \in Int /\ (1 > n => n = 0) /\ n - 1 + 1 = n
    BY <1>1
  <2> HIDE DEF n
  <2> QED BY ONLY <2>1, FS_Interval
<1>5. f \in Surjection(live, 1 .. n)
  <2> HIDE DEF f, n
  <2> QED BY ONLY <1>2, <1>3, <1>4, FS_Injection
<1>6. PICK e \in live : f[e] = i
  BY <1>5 DEF Surjection
<1>7. i = id[e] + 1 /\ id[e] \in Nat
  BY <1>2, <1>6
<1> QED BY <1>7

\* Settled shares are cut from one sum, so that together they are within the
\* maximum.
LEMMA SharesTogether ==
  ASSUME RateInv, Settled, \E e \in live : unlimited_rate[e] > 0
  PROVE  Sum(Shares) <= max_byterate
<1> DEFINE n == Len(true_rates)
           sum == Sum(true_rates)
           m == Min({sum, max_byterate})
<1>1. /\ true_rates \in Seq(Nat) /\ n \in Nat /\ DOMAIN true_rates = 1 .. n
      /\ max_byterate \in Nat /\ live \subseteq Enforcers
      /\ id \in [Enforcers -> Nat] /\ unlimited_rate \in [Enforcers -> Nat]
  BY DEF RateInv, RateTypes
<1>2. ~disturbed /\ \A e \in live : e \in upToDate /\ pc[e] = "idle"
  BY DEF Settled, Idle
<1>3. \A e \in live : /\ id[e] + 1 \in 1 .. n
                      /\ true_rates[id[e] + 1] = unlimited_rate[e]
                      /\ unlimited_rate[e] \in Nat
  BY <1>1, <1>2 DEF RateInv, IdsValid
<1>4. sum \in Nat /\ sum > 0
  <2>1. PICK e \in live : unlimited_rate[e] > 0
    OBVIOUS
  <2>2. sum \in Nat /\ true_rates[id[e] + 1] <= sum
    BY <1>1, <1>3, SumBounds
  <2> QED BY <1>3, <2>1, <2>2
<1>5. m \in Nat /\ m <= max_byterate
  BY <1>1, <1>4, MinIs
<1>6. \A e \in live : allowed_rate[e] \in Share(unlimited_rate[e], sum)
  BY <1>2 DEF RateInv, SumsToDate, SumToDate
<1>7. \A e \in live : allowed_rate[e] \in Nat /\ allowed_rate[e] * sum <= unlimited_rate[e] * m
  <2> TAKE e \in live
  <2>1. max_byterate \in Nat /\ unlimited_rate[e] \in Nat /\ allowed_rate[e] \in Share(unlimited_rate[e], sum)
    BY <1>1, <1>3, <1>6
  <2> HIDE DEF sum
  <2> QED BY ONLY <1>4, <2>1, ShareBound DEF m
<1>8. \A i \in 1 .. n : Shares[i] \in Nat /\ Shares[i] * sum <= true_rates[i] * m
  <2> TAKE i \in 1 .. n
  <2> DEFINE e == CHOOSE e \in live : id[e] = i - 1
  <2>1. e \in live /\ id[e] = i - 1
    BY <1>2, EveryPlaceTaken
  <2>2. Shares[i] = allowed_rate[e]
    BY <1>1 DEF Shares
  <2> HIDE DEF e, sum, m
  <2>3. true_rates[i] = unlimited_rate[e]
    BY <1>1, <1>3, <2>1
  <2> QED BY <1>7, <2>1, <2>2, <2>3
<1>9. Shares \in Seq(Nat) /\ Len(Shares) = n
  <2>1. Shares = [i \in 1 .. n |-> Shares[i]]
    BY <1>1 DEF Shares
  <2> DEFINE s == Shares
  <2> HIDE DEF n, s
  <2>2. n \in Nat /\ s = [i \in 1 .. n |-> s[i]] /\ \A i \in 1 .. n : s[i] \in Nat
    BY <1>1, <1>8, <2>1 DEF s
  <2>3. s \in [1 .. n -> Nat]
    BY ONLY <2>2
  <2>4. s \in Seq(Nat) /\ Len(s) = n
    BY ONLY <2>2, <2>3
  <2> QED BY <2>4 DEF s
<1>10. Sum(Shares) * sum <= sum * m
  <2> HIDE DEF m
  <2>1. \A i \in 1 .. Len(true_rates) : Shares[i] * sum <= true_rates[i] * m
    BY <1>8
  <2>2. true_rates \in Seq(Nat) /\ Len(Shares) = Len(true_rates)
    BY <1>1, <1>9
  <2> DEFINE k == sum
  <2>3. \A i \in 1 .. Len(true_rates) : Shares[i] * k <= true_rates[i] * m
    BY <2>1
  <2>4. k \in Nat
    BY <1>4
  <2> HIDE DEF k
  <2>5. Sum(Shares) * k <= Sum(true_rates) * m
    BY ONLY <1>5, <1>9, <2>2, <2>3, <2>4, SumsScale
  <2> QED BY <2>5 DEF k
<1>11. Sum(Shares) \in Nat
  <2>1. Sums(Shares) \in [0 .. Len(Shares) -> Nat] /\ Len(Shares) \in Nat
    BY <1>1, <1>9, SumsIs
  <2> QED BY <2>1 DEF Sum
<1>12. Sum(Shares) <= m
  <2> DEFINE a == Sum(Shares)
  <2> HIDE DEF a, sum, m
  <2>1. a * sum <= m * sum
    BY <1>4, <1>5, <1>10 DEF a
  <2>2. a \in Nat
    BY <1>11 DEF a
  <2>3. a <= m
    BY ONLY <1>4, <1>5, <2>1, <2>2, Cancel
  <2> QED BY <2>3 DEF a
<1> HIDE DEF m
<1> QED BY <1>1, <1>5, <1>11, <1>12

\* update_and_get_allowable of rate_limiter.cpp: once everybody's rate is reported
\* and everybody has asked, the shares together respect max_byterate.
THEOREM SharesLimited == RateSpec => []SharesWithinMax
<1>1. RateInv => SharesWithinMax
  BY SharesTogether DEF SharesWithinMax
<1> QED BY <1>1, RateInvariance, PTL

-----------------------------------------------------------------------------
(* should_send *)

\* Multiplying keeps the order.
LEMMA Scaled ==
  ASSUME NEW a \in Nat, NEW b \in Nat, NEW c \in Nat, a <= b
  PROVE  a * c <= b * c
<1>1. PICK d \in Nat : b = a + d
  <2>1. b - a \in Nat /\ b = a + (b - a)
    OBVIOUS
  <2> QED BY <2>1
<1>2. (a + d) * c = a * c + d * c
  OBVIOUS
<1>3. a * c \in Nat /\ d * c \in Nat
  OBVIOUS
<1> QED BY <1>1, <1>2, <1>3

\* An average that is not restarted decays below a limit of s shares in one send,
\* when the trigger, reduced by one step of the average, is below 1; what is left
\* makes room for the smallest rate there is.
LEMMA Decays ==
  ASSUME NEW a \in Nat, NEW s \in Nat, NEW t \in Nat, NEW k \in Nat, NEW u \in Nat,
         NEW c \in Nat, u > 0, s > 0, c <= u,
         a * u <= s * (u * u) * t, t * k < u * u
  PROVE  a * k + c <= s * (u * u) * u
<1> DEFINE U == u * u
           L == s * U
<1>1. U \in Nat /\ L \in Nat
  OBVIOUS
<1>2. c * u <= U
  BY Scaled
<1>3. U <= L
  <2>1. 1 <= s /\ 1 * U = U
    BY <1>1
  <2> HIDE DEF U
  <2> QED BY <1>1, <2>1, Scaled
<1>4. t * k + 1 <= U /\ a * u <= L * t /\ t * k \in Nat /\ a * u \in Nat /\ L * t \in Nat
  <2>1. t * k \in Nat /\ a * u \in Nat /\ L * t \in Nat
    BY <1>1
  <2> QED BY <1>1, <2>1
<1> HIDE DEF U, L
<1>5. (a * u) * k <= (L * t) * k
  BY ONLY <1>4, k \in Nat, Scaled
<1>6. (t * k + 1) * L <= U * L
  BY ONLY <1>1, <1>4, Scaled
<1>7. /\ (t * k + 1) * L = (L * t) * k + L
      /\ (a * k + c) * u = (a * u) * k + c * u
  BY ONLY <1>1, a \in Nat, k \in Nat, u \in Nat, c \in Nat, t \in Nat
<1>8. U * L = (L * u) * u
  BY ONLY <1>1, u \in Nat DEF U
<1>9. /\ (a * u) * k \in Nat /\ (L * t) * k \in Nat /\ c * u \in Nat /\ U * L \in Nat
      /\ a * k + c \in Nat /\ L * u \in Nat
  BY ONLY <1>1, a \in Nat, k \in Nat, u \in Nat, c \in Nat, t \in Nat
<1>10. (a * k + c) * u <= (L * u) * u
  BY ONLY <1>1, <1>2, <1>3, <1>5, <1>6, <1>7, <1>8, <1>9
<1>11. a * k + c <= L * u
  BY ONLY <1>9, <1>10, u \in Nat, u > 0, Cancel
<1> QED BY <1>11 DEF L, U

\* should_send of rate_limiter.cpp: a silence lets a session send again exactly if its
\* share is not 0, when the trigger is as small as that of rate_limiter.hpp (1.1, with
\* alpha 0.1: 1.1 * 0.9 < 1).
THEOREM SilenceEnds ==
  ASSUME Trigger * (Unit - Alpha) < Unit * Unit
  PROVE  RateSpec => []SilenceIsEnough
<1>1. RateInv => SilenceIsEnough
  <2> SUFFICES ASSUME RateInv, NEW e \in live
               PROVE  MaySend(e, Slowest) <=> allowed_rate[e] > 0
    BY DEF SilenceIsEnough
  <2> DEFINE k == Unit - Alpha
             R == RestartedRate(e)
             s == allowed_rate[e]
  <2>1. /\ k \in Nat /\ Unit \in Nat /\ Unit > 0 /\ Trigger \in Nat
        /\ Alpha \in Nat /\ Alpha > 0 /\ Alpha <= Unit
        /\ actual_rate[e] \in Nat /\ s \in Nat
    BY RateAssumption DEF RateInv, RateTypes
  <2>2. R \in Nat /\ R * Unit <= s * (Unit * Unit) * Trigger
    <3>1. /\ s * (Unit * Unit) * Trigger \in Nat /\ 0 * Unit = 0
          /\ actual_rate[e] * Unit \in Nat
      BY <2>1
    <3> QED BY <2>1, <3>1 DEF RestartedRate, Precision
  <2> HIDE DEF R
  <2>3. Weighted(e, Slowest) = R * k + Alpha
    BY <2>1, <2>2 DEF Weighted, R, Slowest
  <2>4. MaySend(e, Slowest) <=> R * k + Alpha <= s * (Unit * Unit) * Unit
    BY <2>3 DEF MaySend, Precision
  <2>5. Trigger * k < Unit * Unit
    OBVIOUS
  <2> HIDE DEF k, s
  <2>6. CASE s > 0
    <3>1. R * k + Alpha <= s * (Unit * Unit) * Unit
      BY ONLY <2>1, <2>2, <2>5, <2>6, Decays
    <3> QED BY <2>4, <2>6, <3>1 DEF s
  <2>7. CASE s = 0
    <3>1. s * (Unit * Unit) * Unit = 0 /\ R * k \in Nat
      BY <2>1, <2>2, <2>7
    <3>2. ~ (R * k + Alpha <= s * (Unit * Unit) * Unit)
      BY <2>1, <3>1
    <3> QED BY <2>4, <2>7, <3>2 DEF s
  <2> QED BY <2>1, <2>6, <2>7
<1> QED BY <1>1, RateInvariance, PTL
=============================================================================
