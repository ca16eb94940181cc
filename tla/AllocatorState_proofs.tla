------------------------ MODULE AllocatorState_proofs ------------------------
(***************************************************************************)
(* Proofs about AllocatorState for every number of blocks, object size and *)
(* number of objects per block.                                            *)
(***************************************************************************)
EXTENDS AllocatorState, FiniteSetTheorems, TLAPS

\* Before Allocate nothing has been handed out and the stack counts as full.
Untouched == ~initialized => loaned = {} /\ nAvailable = nElementsTotal

\* A pool of blocks of no objects loans nothing.
NothingToLoan == countPerElement = 0 => loaned = {}

\* The counting part, StatisticsExact, is what bounds the stack: a block on
\* loan means a hole in it.
IInv ==
  /\ TypeOK
  /\ IsFiniteSet(loaned)
  /\ Untouched
  /\ NothingToLoan
  /\ NoDoubleLoan
  /\ NothingLost
  /\ StatisticsExact

\* The offsets of different blocks are at least a whole block apart, and the
\* last block ends where the objects buffer ends.
LEMMA OffsetsApart ==
  ASSUME NEW i \in Index, NEW j \in Index
  PROVE  LET blockBytes == countPerElement * sizeSharedT IN
         /\ Offset(i) \in Nat
         /\ Offset(i) + blockBytes <= nElementsTotal * blockBytes
         /\ i < j => Offset(i) + blockBytes <= Offset(j)
         /\ i /= j /\ countPerElement > 0 => Offset(i) /= Offset(j)
<1> DEFINE blockBytes == countPerElement * sizeSharedT
<1> USE SizesAssumption DEF Index
<1>1. blockBytes \in Nat /\ blockBytes = sizeSharedT * countPerElement
  BY SMT
<1>2. (countPerElement > 0) => blockBytes > 0
  BY SMT
<1>3. Offset(i) = blockBytes * i /\ Offset(j) = blockBytes * j
  BY <1>1 DEF Offset
<1> HIDE DEF blockBytes
<1>4. ASSUME NEW m \in Nat, NEW n \in Nat, m < n
      PROVE  blockBytes * m + blockBytes <= blockBytes * n
  <2>1. PICK k \in Nat : n = m + 1 + k
    BY <1>4
  <2>2. blockBytes * n = blockBytes * m + blockBytes + blockBytes * k
    BY <2>1, <1>1, SMT
  <2>3. blockBytes * k \in Nat /\ blockBytes * m \in Nat
    BY <1>1, SMT
  <2> QED BY <2>2, <2>3, <1>1, SMT
<1>5. Offset(i) \in Nat
  BY <1>1, <1>3, SMT
<1>6. Offset(i) + blockBytes <= nElementsTotal * blockBytes
  <2>1. blockBytes * i + blockBytes <= blockBytes * nElementsTotal
    BY <1>4
  <2>2. blockBytes * nElementsTotal = nElementsTotal * blockBytes
    BY <1>1, SMT
  <2> QED BY <2>1, <2>2, <1>3
<1>7. i < j => Offset(i) + blockBytes <= Offset(j)
  BY <1>3, <1>4
<1>8. i /= j /\ countPerElement > 0 => Offset(i) /= Offset(j)
  <2> SUFFICES ASSUME i /= j, countPerElement > 0 PROVE Offset(i) /= Offset(j)
    OBVIOUS
  <2>1. Offset(j) \in Nat
    BY <1>1, <1>3, SMT
  <2>2. CASE i < j
    BY <2>2, <1>7, <1>2, <1>1, <1>5, <2>1
  <2>3. CASE j < i
    <3>1. Offset(j) + blockBytes <= Offset(i)
      BY <2>3, <1>3, <1>4
    <3> QED BY <3>1, <1>2, <1>1, <1>5, <2>1
  <2> QED BY <2>2, <2>3
<1> QED BY <1>5, <1>6, <1>7, <1>8 DEF blockBytes

\* Null is not the offset of a block.
LEMMA NullIsNoOffset == Null \notin Offsets
BY OffsetsApart DEF Offsets, Null

\* The constructor's state, with nothing loaned and the stack counted as full,
\* satisfies the invariant.
LEMMA InitIInv == Init => IInv
<1> SUFFICES ASSUME Init PROVE IInv
  OBVIOUS
<1> USE SizesAssumption DEF Init
<1>1. TypeOK
  <2>1. pointers \in [Index -> Offsets \cup {Null}]
    <3>1. \A i \in Index : Null \in Offsets \cup {Null}
      OBVIOUS
    <3> QED BY <3>1
  <2>2. nAvailable \in 0 .. nElementsTotal
    OBVIOUS
  <2>3. initialized \in BOOLEAN /\ loaned \subseteq Offsets
    BY Zenon
  <2> QED BY <2>1, <2>2, <2>3 DEF TypeOK
<1>2. IsFiniteSet(loaned) /\ StatisticsExact
  BY FS_EmptySet DEF StatisticsExact
<1> QED BY <1>1, <1>2
     DEF IInv, Untouched, NothingToLoan, NoDoubleLoan, NothingLost

\* Allocate, by the first caller or a later one, keeps the invariant.
LEMMA AllocateIInv ==
  ASSUME IInv, Allocate PROVE IInv'
<1> USE SizesAssumption
<1>1. CASE initialized
  BY <1>1 DEF IInv, Allocate, TypeOK, Untouched, NothingToLoan,
       NoDoubleLoan, NothingLost, StatisticsExact, OnStack, Free
<1>2. CASE ~initialized
  <2>1. /\ loaned = {} /\ nAvailable = nElementsTotal
        /\ pointers' = FillPointers /\ initialized'
        /\ loaned' = {} /\ nAvailable' = nElementsTotal
    BY <1>2 DEF IInv, Untouched, Allocate
  <2>2. TypeOK'
    BY <2>1 DEF IInv, TypeOK, FillPointers, Offsets, Index
  <2>3. IsFiniteSet(loaned)' /\ StatisticsExact'
    BY <2>1, FS_EmptySet DEF StatisticsExact
  <2>4. OnStack' = Index /\ \A i \in Index : pointers'[i] = Offset(i)
    BY <2>1 DEF OnStack, Index, FillPointers
  <2>5. NoDoubleLoan'
    BY <2>1, <2>4, OffsetsApart DEF NoDoubleLoan
  <2>6. NothingLost'
    BY <2>1, <2>4 DEF NothingLost, Free, Offsets
  <2> QED BY <2>1, <2>2, <2>3, <2>5, <2>6 DEF IInv, Untouched, NothingToLoan
<1> QED BY <1>1, <1>2

\* Loan keeps the invariant: the popped block leaves the stack for the loans.
LEMMA PopIInv ==
  ASSUME IInv, initialized, Pop, loaned' = loaned \cup {Top}, UNCHANGED initialized
  PROVE  IInv'
<1> USE SizesAssumption
<1>1. /\ nAvailable \in 1 .. nElementsTotal /\ countPerElement > 0
      /\ nAvailable' = nAvailable - 1 /\ pointers' = pointers
      /\ nAvailable - 1 \in OnStack
  BY DEF IInv, TypeOK, Pop, CanLoan, OnStack
<1>2. Top \in Free /\ Top \in Offsets /\ Top \notin loaned
  BY <1>1 DEF IInv, NoDoubleLoan, NothingLost, Top, Free
<1>3. TypeOK'
  BY <1>1, <1>2 DEF IInv, TypeOK
<1>4. IsFiniteSet(loaned') /\ Cardinality(loaned') = Cardinality(loaned) + 1
  BY <1>2, FS_AddElement DEF IInv
<1>5. StatisticsExact'
  <2>1. Cardinality(loaned) \in Nat /\ Cardinality(loaned) = nElementsTotal - nAvailable
    BY FS_CardinalityType DEF IInv, StatisticsExact
  <2> QED BY <1>1, <1>4, <2>1 DEF StatisticsExact
<1>6. /\ OnStack' = OnStack \ {nAvailable - 1}
      /\ Free' \subseteq Free
      /\ Free = Free' \cup {Top}
  BY <1>1 DEF OnStack, Free, Top
<1>7. Top \notin Free'
  BY <1>1, <1>6 DEF IInv, NoDoubleLoan, Free, Top
<1>8. NoDoubleLoan'
  BY <1>1, <1>6, <1>7 DEF IInv, NoDoubleLoan
<1>9. NothingLost'
  BY <1>6 DEF IInv, NothingLost
<1> QED BY <1>1, <1>3, <1>4, <1>5, <1>8, <1>9
     DEF IInv, Untouched, NothingToLoan

\* Accept of a block on loan, or of null, keeps the invariant.
LEMMA AcceptIInv ==
  ASSUME IInv, NEW p \in loaned \cup {Null}, Accept(p)
  PROVE  IInv'
<1> USE SizesAssumption
<1>1. CASE p = Null
  <2>1. UNCHANGED vars
    BY <1>1, NullIsNoOffset DEF IInv, TypeOK, Accept, vars
  <2> QED BY <2>1 DEF vars, IInv, TypeOK, Untouched, NothingToLoan,
            NoDoubleLoan, NothingLost, StatisticsExact, OnStack, Free
<1>2. CASE p /= Null
  <2>1. /\ p \in loaned /\ p \in Offsets /\ initialized /\ initialized'
        /\ countPerElement > 0
        /\ pointers' = [pointers EXCEPT ![nAvailable] = p]
        /\ nAvailable' = nAvailable + 1 /\ loaned' = loaned \ {p}
    BY <1>2 DEF IInv, TypeOK, Untouched, NothingToLoan, Accept, Push
  <2>2. IsFiniteSet(loaned') /\ Cardinality(loaned') = Cardinality(loaned) - 1
    BY <2>1, FS_RemoveElement DEF IInv
  <2>3. /\ Cardinality(loaned) = nElementsTotal - nAvailable
        /\ Cardinality(loaned') \in Nat
    BY <2>2, FS_CardinalityType DEF IInv, StatisticsExact
  <2>4. nAvailable \in 0 .. nElementsTotal - 1
    BY <2>2, <2>3 DEF IInv, TypeOK
  <2>5. TypeOK'
    <3>1. pointers' \in [Index -> Offsets \cup {Null}]
      BY <2>1 DEF IInv, TypeOK
    <3>2. nAvailable' \in 0 .. nElementsTotal
      BY <2>1, <2>4
    <3> QED BY <2>1, <3>1, <3>2 DEF IInv, TypeOK
  <2>6. StatisticsExact'
    BY <2>1, <2>2, <2>3, <2>4 DEF StatisticsExact
  <2>7. /\ OnStack' = OnStack \cup {nAvailable}
        /\ nAvailable \notin OnStack
        /\ pointers'[nAvailable] = p
        /\ \A i \in OnStack : pointers'[i] = pointers[i]
    BY <2>1, <2>4 DEF IInv, TypeOK, OnStack, Index
  <2>8. Free' = Free \cup {p} /\ p \notin Free
    BY <2>1, <2>7 DEF IInv, NoDoubleLoan, Free
  <2>9. NoDoubleLoan'
    <3>1. Free' \cap loaned' = {}
      BY <2>1, <2>8 DEF IInv, NoDoubleLoan
    <3>2. \A i, j \in OnStack' : i /= j => pointers'[i] /= pointers'[j]
      BY <2>1, <2>7, <2>8 DEF IInv, NoDoubleLoan, Free
    <3> QED BY <3>1, <3>2 DEF NoDoubleLoan
  <2>10. NothingLost'
    BY <2>1, <2>8 DEF IInv, NothingLost
  <2> QED BY <2>1, <2>2, <2>5, <2>6, <2>9, <2>10
       DEF IInv, Untouched, NothingToLoan
<1> QED BY <1>1, <1>2

\* Every step of Allocate, Loan and Accept keeps the invariant.
LEMMA NextIInv == IInv /\ [Next]_vars => IInv'
<1> SUFFICES ASSUME IInv, [Next]_vars PROVE IInv'
  OBVIOUS
<1>1. CASE Allocate
  BY <1>1, AllocateIInv
<1>2. CASE Loan
  <2>1. CASE initialized /\ Pop /\ loaned' = loaned \cup {Top} /\ UNCHANGED initialized
    BY <2>1, PopIInv
  <2>2. CASE UNCHANGED vars
    BY <2>2 DEF vars, IInv, TypeOK, Untouched, NothingToLoan,
         NoDoubleLoan, NothingLost, StatisticsExact, OnStack, Free
  <2> QED BY <1>2, <2>1, <2>2 DEF Loan, vars
<1>3. CASE \E p \in loaned \cup {Null} : Accept(p)
  BY <1>3, AcceptIInv
<1>4. CASE UNCHANGED vars
  BY <1>4 DEF vars, IInv, TypeOK, Untouched, NothingToLoan,
       NoDoubleLoan, NothingLost, StatisticsExact, OnStack, Free
<1> QED BY <1>1, <1>2, <1>3, <1>4 DEF Next

\* The inductive invariant holds in every reachable state.
THEOREM Invariance == Spec => []IInv
BY InitIInv, NextIInv, PTL DEF Spec

\* The stack never grows past the pointers buffer (Accept has no such check).
THEOREM TypeCorrect == Spec => []TypeOK
BY Invariance, PTL DEF IInv

\* The byte ranges of blocks on loan are disjoint and inside the buffer.
THEOREM LoansDoNotOverlap == Spec => []BlocksDisjoint
<1>1. IInv => BlocksDisjoint
  <2> SUFFICES ASSUME IInv PROVE BlocksDisjoint
    OBVIOUS
  <2> DEFINE blockBytes == countPerElement * sizeSharedT
  <2>1. \A a \in loaned : a >= 0 /\ a + blockBytes <= nElementsTotal * blockBytes
    BY OffsetsApart DEF IInv, TypeOK, Offsets
  <2>2. ASSUME NEW a \in loaned, NEW b \in loaned, a < b
        PROVE  a + blockBytes <= b
    <3>1. PICK i \in Index, j \in Index : a = Offset(i) /\ b = Offset(j)
      BY DEF IInv, TypeOK, Offsets
    <3>2. CASE i < j
      BY <3>1, <3>2, OffsetsApart
    <3>3. CASE ~(i < j)
      <4>1. Offset(j) <= Offset(i)
        <5>1. CASE i = j
          BY <5>1, OffsetsApart
        <5>2. CASE j < i
          <6>1. /\ Offset(j) + blockBytes <= Offset(i)
                /\ Offset(i) \in Nat /\ Offset(j) \in Nat
            BY <5>2, OffsetsApart
          <6>2. blockBytes \in Nat
            BY SizesAssumption
          <6> QED BY <6>1, <6>2
        <5> QED BY <3>3, <5>1, <5>2 DEF Index
      <4>2. Offset(i) \in Nat /\ Offset(j) \in Nat
        BY OffsetsApart
      <4> QED BY <2>2, <3>1, <4>1, <4>2
    <3> QED BY <3>2, <3>3
  <2> QED BY <2>1, <2>2 DEF BlocksDisjoint
<1> QED BY <1>1, Invariance, PTL

\* No block is handed to two callers or lost, Statistics is exact, and blocks on
\* loan are apart, whatever the order of Loan and Accept.
THEOREM LoansAreExact == Spec => []LoansExact
<1>1. IInv /\ BlocksDisjoint => LoansExact
  BY DEF IInv, LoansExact
<1> QED BY <1>1, Invariance, LoansDoNotOverlap, PTL
=============================================================================
