-------------------------- MODULE MemPoolIPC_proofs --------------------------
(***************************************************************************)
(* Proofs about MemPoolIPC for any finite set of processes, any number and *)
(* any sizes of elements, with kills at every step and constructors that   *)
(* may throw; and about MemPoolGrowerIPC, which builds such pools.         *)
(***************************************************************************)
EXTENDS MemPoolIPC, MemPoolGrowerIPC, FiniteSetTheorems, SequenceTheorems, TLAPS

\* The proofs about the two buffers the pool owns.
ObjProofs == INSTANCE AllocatorState_proofs WITH
  nElementsTotal <- nElements, sizeSharedT <- sizeT,
  pointers <- objPointers, nAvailable <- objAvailable,
  initialized <- objInitialized, loaned <- objLoaned

CbProofs == INSTANCE AllocatorState_proofs WITH
  nElementsTotal <- nElements, sizeSharedT <- sizeControl, countPerElement <- 1,
  pointers <- cbPointers, nAvailable <- cbAvailable,
  initialized <- cbInitialized, loaned <- cbLoaned

Holders(handles, c) == {p \in Procs : c \in handles[p]}
StrongOn(c) == Holders(strong, c)
WeakOn(c) == Holders(weak, c)

\* The labels of a process that let go of an element's last shared_ptr, or of its
\* last weak_ptr, and is not done with it.
Releasing == {"dispose", "weakRelease", "destroy"}

\* The release of c's last shared_ptr still owns a weak count.
KeepsWeak(c) == \E p \in Procs : pc[p] \in {"dispose", "weakRelease"} /\ block[p] = c

Buffers == ObjProofs!IInv /\ CbProofs!IInv

\* Handles are on control blocks on loan, and counted there.
Counted ==
  /\ \A p \in Procs : strong[p] \subseteq cbLoaned /\ weak[p] \subseteq cbLoaned
  /\ \A c \in cbLoaned :
       /\ cb[c].use = Cardinality(StrongOn(c))
       /\ cb[c].weak = Cardinality(WeakOn(c))
                         + (IF cb[c].use > 0 \/ KeepsWeak(c) THEN 1 ELSE 0)

\* At most one process releases a control block, one without a shared_ptr, and
\* destroys it only when no weak_ptr is left either.
ReleasedOnce ==
  \A p \in Procs :
    /\ pc[p] \in Releasing => block[p] \in cbLoaned /\ cb[block[p]].use = 0
    /\ pc[p] = "destroy" => cb[block[p]].weak = 0
    /\ \A q \in Procs \ {p} :
         pc[p] \in Releasing /\ pc[q] \in Releasing => block[p] /= block[q]

\* A process holds a bare object exactly while it constructs it.
BareObjects ==
  \A p \in Procs : object[p] /= None <=> pc[p] \in {"construct", "crashed"}

\* The control blocks whose object is still needed.
Live == {c \in cbLoaned : Owning(c)}

\* SingleOwner and ObjectsAccounted, and that no object is both owned and leaked.
Owners ==
  /\ \A c, d \in Live : c /= d => cb[c].object /= cb[d].object
  /\ \A c \in Live : cb[c].object \in objLoaned \ leaked
  /\ \A p \in Procs : object[p] /= None =>
       /\ object[p] \in objLoaned \ leaked
       /\ \A q \in Procs \ {p} : object[q] /= object[p]
       /\ \A c \in Live : cb[c].object /= object[p]
  /\ leaked \subseteq objLoaned
  /\ \A x \in objLoaned : \/ x \in leaked
                          \/ \E c \in Live : x = cb[c].object
                          \/ \E p \in Procs : x = object[p]

IInv == TypeOK /\ Buffers /\ Counted /\ ReleasedOnce /\ BareObjects /\ Owners

-----------------------------------------------------------------------------
(* The two buffers *)

\* The two instances of AllocatorState say the same of the objects buffer...
LEMMA ObjSame ==
  /\ Obj!Offsets = ObjProofs!Offsets /\ Obj!Null = ObjProofs!Null /\ Obj!vars = ObjProofs!vars
  /\ Obj!Init <=> ObjProofs!Init
  /\ Obj!TypeOK <=> ObjProofs!TypeOK
  /\ Obj!Next <=> ObjProofs!Next
BY DEF Obj!Offsets, ObjProofs!Offsets, Obj!Offset, ObjProofs!Offset, Obj!Index, ObjProofs!Index,
       Obj!Null, ObjProofs!Null, Obj!vars, ObjProofs!vars, Obj!Init, ObjProofs!Init,
       Obj!TypeOK, ObjProofs!TypeOK, Obj!Next, ObjProofs!Next, Obj!Allocate, ObjProofs!Allocate,
       Obj!FillPointers, ObjProofs!FillPointers, Obj!Loan, ObjProofs!Loan, Obj!Pop, ObjProofs!Pop,
       Obj!CanLoan, ObjProofs!CanLoan, Obj!Top, ObjProofs!Top, Obj!Accept, ObjProofs!Accept,
       Obj!Push, ObjProofs!Push

\* ... and of the control blocks.
LEMMA CbSame ==
  /\ Cb!Offsets = CbProofs!Offsets /\ Cb!Null = CbProofs!Null /\ Cb!vars = CbProofs!vars
  /\ Cb!Init <=> CbProofs!Init
  /\ Cb!TypeOK <=> CbProofs!TypeOK
  /\ Cb!Next <=> CbProofs!Next
BY DEF Cb!Offsets, CbProofs!Offsets, Cb!Offset, CbProofs!Offset, Cb!Index, CbProofs!Index,
       Cb!Null, CbProofs!Null, Cb!vars, CbProofs!vars, Cb!Init, CbProofs!Init,
       Cb!TypeOK, CbProofs!TypeOK, Cb!Next, CbProofs!Next, Cb!Allocate, CbProofs!Allocate,
       Cb!FillPointers, CbProofs!FillPointers, Cb!Loan, CbProofs!Loan, Cb!Pop, CbProofs!Pop,
       Cb!CanLoan, CbProofs!CanLoan, Cb!Top, CbProofs!Top, Cb!Accept, CbProofs!Accept,
       Cb!Push, CbProofs!Push

\* What the pool relies on in the objects buffer.
LEMMA ObjFacts ==
  ASSUME ObjProofs!IInv
  PROVE  /\ Obj!TypeOK /\ None \notin Obj!Offsets
         /\ objLoaned \subseteq Obj!Offsets /\ IsFiniteSet(objLoaned)
         /\ Cardinality(objLoaned) <= nElements
         /\ objInitialized /\ Obj!CanLoan => Obj!Top \in Obj!Offsets \ objLoaned
<1>1. Obj!TypeOK
  BY ObjSame DEF ObjProofs!IInv
<1>2. None \notin Obj!Offsets
  BY PoolAssumption, ObjSame, ObjProofs!NullIsNoOffset DEF None
<1>3. objLoaned \subseteq Obj!Offsets /\ IsFiniteSet(objLoaned)
  <2>1. objLoaned \subseteq Obj!Offsets
    BY <1>1 DEF Obj!TypeOK
  <2>2. IsFiniteSet(objLoaned)
    BY DEF ObjProofs!IInv, ObjProofs!IsFiniteSet, IsFiniteSet
  <2> QED BY <2>1, <2>2
<1>4. Cardinality(objLoaned) <= nElements
  <2>1. objAvailable \in 0 .. nElements
    BY <1>1 DEF Obj!TypeOK
  <2>3. nElements - objAvailable = Cardinality(objLoaned)
    BY DEF ObjProofs!IInv, ObjProofs!StatisticsExact, ObjProofs!Cardinality, Cardinality
  <2>2. Cardinality(objLoaned) \in Nat
    BY <1>3, FS_CardinalityType
  <2> QED BY <2>1, <2>2, <2>3, PoolAssumption
<1>5. ASSUME objInitialized, Obj!CanLoan PROVE Obj!Top \in Obj!Offsets \ objLoaned
  <2>1. objAvailable - 1 \in ObjProofs!OnStack /\ countPerElement > 0
    BY <1>1, <1>5, PoolAssumption DEF Obj!TypeOK, Obj!CanLoan, ObjProofs!OnStack
  <2>2. Obj!Top \in ObjProofs!Free
    BY <2>1 DEF Obj!Top, ObjProofs!Free
  <2>3. ObjProofs!Free \cap objLoaned = {} /\ ObjProofs!Free \cup objLoaned = ObjProofs!Offsets
    BY <1>5, <2>1 DEF ObjProofs!IInv, ObjProofs!NoDoubleLoan, ObjProofs!NothingLost
  <2> QED BY <2>2, <2>3, ObjSame
<1> QED BY <1>1, <1>2, <1>3, <1>4, <1>5

\* What the pool relies on in the control-block buffer.
LEMMA CbFacts ==
  ASSUME CbProofs!IInv
  PROVE  /\ Cb!TypeOK /\ None \notin Cb!Offsets
         /\ cbLoaned \subseteq Cb!Offsets /\ IsFiniteSet(cbLoaned)
         /\ cbAvailable \in Nat /\ Cardinality(cbLoaned) = nElements - cbAvailable
         /\ cbInitialized /\ Cb!CanLoan => Cb!Top \in Cb!Offsets \ cbLoaned
<1>1. Cb!TypeOK
  BY CbSame DEF CbProofs!IInv
<1>2. None \notin Cb!Offsets
  <2>1. None = Cb!Null
    BY DEF None, Obj!Null, Cb!Null
  <2> QED BY <2>1, PoolAssumption, CbSame, CbProofs!NullIsNoOffset
<1>3. cbLoaned \subseteq Cb!Offsets /\ IsFiniteSet(cbLoaned)
  <2>1. cbLoaned \subseteq Cb!Offsets
    BY <1>1 DEF Cb!TypeOK
  <2>2. IsFiniteSet(cbLoaned)
    BY DEF CbProofs!IInv, CbProofs!IsFiniteSet, IsFiniteSet
  <2> QED BY <2>1, <2>2
<1>4. cbAvailable \in Nat /\ Cardinality(cbLoaned) = nElements - cbAvailable
  <2>1. cbAvailable \in 0 .. nElements
    BY <1>1 DEF Cb!TypeOK
  <2>2. nElements - cbAvailable = Cardinality(cbLoaned)
    BY DEF CbProofs!IInv, CbProofs!StatisticsExact, CbProofs!Cardinality, Cardinality
  <2> QED BY <2>1, <2>2, PoolAssumption
<1>5. ASSUME cbInitialized, Cb!CanLoan PROVE Cb!Top \in Cb!Offsets \ cbLoaned
  <2>1. cbAvailable - 1 \in CbProofs!OnStack
    BY <1>4, <1>5 DEF Cb!CanLoan, CbProofs!OnStack
  <2>2. Cb!Top \in CbProofs!Free
    BY <2>1 DEF Cb!Top, CbProofs!Free
  <2>3. CbProofs!Free \cap cbLoaned = {} /\ CbProofs!Free \cup cbLoaned = CbProofs!Offsets
    BY <1>5 DEF CbProofs!IInv, CbProofs!NoDoubleLoan, CbProofs!NothingLost
  <2> QED BY <2>2, <2>3, CbSame
<1> QED BY <1>1, <1>2, <1>3, <1>4, <1>5

\* A step that uses each buffer by its contract keeps the buffers' invariants.
LEMMA BuffersKeep ==
  ASSUME Buffers, [Obj!Next]_(Obj!vars), [Cb!Next]_(Cb!vars)
  PROVE  Buffers'
<1>1. ObjProofs!IInv'
  <2>1. [ObjProofs!Next]_(ObjProofs!vars)
    BY ObjSame DEF Obj!vars, ObjProofs!vars
  <2>2. ObjProofs!IInv
    BY DEF Buffers
  <2> QED BY <2>1, <2>2, ObjProofs!NextIInv, PoolAssumption
<1>2. CbProofs!IInv'
  <2>1. [CbProofs!Next]_(CbProofs!vars)
    BY CbSame DEF Cb!vars, CbProofs!vars
  <2>2. CbProofs!IInv
    BY DEF Buffers
  <2> QED BY <2>1, <2>2, CbProofs!NextIInv, PoolAssumption
<1> QED BY <1>1, <1>2 DEF Buffers

-----------------------------------------------------------------------------
(* Counting handles *)

\* Holders are counted by a number, which is positive exactly when there are some.
LEMMA HoldersType ==
  ASSUME NEW handles, NEW c
  PROVE  /\ IsFiniteSet(Holders(handles, c)) /\ Cardinality(Holders(handles, c)) \in Nat
         /\ Cardinality(Holders(handles, c)) = 0 <=> Holders(handles, c) = {}
<1>1. Holders(handles, c) \subseteq Procs
  BY DEF Holders
<1>2. IsFiniteSet(Holders(handles, c))
  BY <1>1, PoolAssumption, FS_Subset
<1> QED BY <1>2, FS_CardinalityType, FS_EmptySet

\* p gets, or lets go of, a handle on c: the handles h become the handles g.
Gets(h, g, p, c) ==
  c \notin h[p] /\ \A q \in Procs : g[q] = IF q = p THEN h[p] \cup {c} ELSE h[q]
LetsGo(h, g, p, c) ==
  c \in h[p] /\ \A q \in Procs : g[q] = IF q = p THEN h[p] \ {c} ELSE h[q]

\* One holder more.
LEMMA HolderAdded ==
  ASSUME NEW h, NEW g, NEW p \in Procs, NEW c, Gets(h, g, p, c)
  PROVE  /\ Cardinality(Holders(g, c)) = Cardinality(Holders(h, c)) + 1
         /\ \A d : d /= c => Holders(g, d) = Holders(h, d)
<1>1. Holders(g, c) = Holders(h, c) \cup {p} /\ p \notin Holders(h, c)
  BY DEF Holders, Gets
<1>2. \A d : d /= c => Holders(g, d) = Holders(h, d)
  BY DEF Holders, Gets
<1>3. IsFiniteSet(Holders(h, c))
  BY HoldersType
<1> QED BY <1>1, <1>2, <1>3, FS_AddElement

\* One holder less.
LEMMA HolderRemoved ==
  ASSUME NEW h, NEW g, NEW p \in Procs, NEW c, LetsGo(h, g, p, c)
  PROVE  /\ Cardinality(Holders(g, c)) = Cardinality(Holders(h, c)) - 1
         /\ \A d : d /= c => Holders(g, d) = Holders(h, d)
<1>1. Holders(g, c) = Holders(h, c) \ {p} /\ p \in Holders(h, c)
  BY DEF Holders, LetsGo
<1>2. \A d : d /= c => Holders(g, d) = Holders(h, d)
  BY DEF Holders, LetsGo
<1>3. IsFiniteSet(Holders(h, c))
  BY HoldersType
<1> QED BY <1>1, <1>2, <1>3, FS_RemoveElement

\* How the counts of handles follow the handles.
LEMMA HandleCounts ==
  ASSUME NEW p \in Procs, NEW c
  PROVE  /\ Gets(strong, strong', p, c) =>
              /\ Cardinality(StrongOn(c)') = Cardinality(StrongOn(c)) + 1
              /\ \A d : d /= c => StrongOn(d)' = StrongOn(d)
         /\ LetsGo(strong, strong', p, c) =>
              /\ Cardinality(StrongOn(c)') = Cardinality(StrongOn(c)) - 1
              /\ \A d : d /= c => StrongOn(d)' = StrongOn(d)
         /\ Gets(weak, weak', p, c) =>
              /\ Cardinality(WeakOn(c)') = Cardinality(WeakOn(c)) + 1
              /\ \A d : d /= c => WeakOn(d)' = WeakOn(d)
         /\ LetsGo(weak, weak', p, c) =>
              /\ Cardinality(WeakOn(c)') = Cardinality(WeakOn(c)) - 1
              /\ \A d : d /= c => WeakOn(d)' = WeakOn(d)
<1>1. Gets(strong, strong', p, c) =>
        /\ Cardinality(StrongOn(c)') = Cardinality(StrongOn(c)) + 1
        /\ \A d : d /= c => StrongOn(d)' = StrongOn(d)
  BY HolderAdded DEF StrongOn
<1>2. LetsGo(strong, strong', p, c) =>
        /\ Cardinality(StrongOn(c)') = Cardinality(StrongOn(c)) - 1
        /\ \A d : d /= c => StrongOn(d)' = StrongOn(d)
  BY HolderRemoved DEF StrongOn
<1>3. Gets(weak, weak', p, c) =>
        /\ Cardinality(WeakOn(c)') = Cardinality(WeakOn(c)) + 1
        /\ \A d : d /= c => WeakOn(d)' = WeakOn(d)
  BY HolderAdded DEF WeakOn
<1>4. LetsGo(weak, weak', p, c) =>
        /\ Cardinality(WeakOn(c)') = Cardinality(WeakOn(c)) - 1
        /\ \A d : d /= c => WeakOn(d)' = WeakOn(d)
  BY HolderRemoved DEF WeakOn
<1> QED BY <1>1, <1>2, <1>3, <1>4

\* A held control block has a use count, and the other way round.
LEMMA UseMeansHeld ==
  ASSUME Counted, NEW c \in cbLoaned
  PROVE  /\ cb[c].use \in Nat
         /\ cb[c].use > 0 <=> \E p \in Procs : c \in strong[p]
         /\ (\E p \in Procs : c \in weak[p]) => cb[c].weak > 0
<1>1. /\ cb[c].use = Cardinality(StrongOn(c)) /\ Cardinality(StrongOn(c)) \in Nat
      /\ Cardinality(WeakOn(c)) \in Nat
      /\ Cardinality(StrongOn(c)) = 0 <=> StrongOn(c) = {}
      /\ Cardinality(WeakOn(c)) = 0 <=> WeakOn(c) = {}
  BY HoldersType DEF Counted, StrongOn, WeakOn
<1>2. /\ StrongOn(c) /= {} <=> \E p \in Procs : c \in strong[p]
      /\ WeakOn(c) /= {} <=> \E p \in Procs : c \in weak[p]
  BY DEF StrongOn, WeakOn, Holders
<1>3. cb[c].weak = Cardinality(WeakOn(c)) \/ cb[c].weak = Cardinality(WeakOn(c)) + 1
  BY <1>1 DEF Counted
<1> QED BY <1>1, <1>2, <1>3

\* The counts do not change when nobody's handles do.
LEMMA CountsStay ==
  ASSUME Counted, cbLoaned' = cbLoaned, UNCHANGED handleVars,
         \A c \in cbLoaned : KeepsWeak(c)' <=> KeepsWeak(c)
  PROVE  Counted'
BY DEF Counted, StrongOn, WeakOn, Holders, handleVars

\* A shared_ptr more.
LEMMA StrongAdded ==
  ASSUME TypeOK, Counted, NEW p \in Procs, NEW c \in cbLoaned, c \notin strong[p], cb[c].use > 0,
         cb' = [cb EXCEPT ![c].use = @ + 1], strong' = [strong EXCEPT ![p] = @ \cup {c}],
         cbLoaned' = cbLoaned, weak' = weak, pc' = pc, block' = block
  PROVE  Counted'
<1>1. /\ Gets(strong, strong', p, c)
      /\ c \in Cb!Offsets
      /\ \A d \in cbLoaned : /\ cb'[d].use = (IF d = c THEN cb[c].use + 1 ELSE cb[d].use)
                             /\ cb'[d].weak = cb[d].weak
  BY DEF TypeOK, Cb!TypeOK, Gets
<1>2. /\ Cardinality(StrongOn(c)') = Cardinality(StrongOn(c)) + 1
      /\ \A d \in cbLoaned : d /= c => StrongOn(d)' = StrongOn(d)
  BY <1>1, HandleCounts
<1>3. \A d : WeakOn(d)' = WeakOn(d) /\ (KeepsWeak(d)' <=> KeepsWeak(d))
  BY DEF WeakOn, Holders, KeepsWeak
<1>4. \A q \in Procs : strong'[q] \subseteq cbLoaned /\ weak'[q] \subseteq cbLoaned
  BY <1>1 DEF Counted, Gets
<1>5. ASSUME NEW d \in cbLoaned
      PROVE  /\ cb'[d].use = Cardinality(StrongOn(d)')
             /\ cb'[d].weak = Cardinality(WeakOn(d)')
                               + (IF cb'[d].use > 0 \/ KeepsWeak(d)' THEN 1 ELSE 0)
  <2>1. cb[d].use \in Nat
    BY UseMeansHeld
  <2>2. cb'[d].use > 0 <=> cb[d].use > 0
    BY <1>1, <2>1
  <2> QED BY <1>1, <1>2, <1>3, <2>1, <2>2 DEF Counted
<1> QED BY <1>4, <1>5 DEF Counted

\* A weak_ptr more.
LEMMA WeakAdded ==
  ASSUME TypeOK, Counted, NEW p \in Procs, NEW c, MakeWeak(p, c)
  PROVE  Counted'
<1>1. /\ c \in strong[p] /\ c \in cbLoaned /\ c \notin weak[p] /\ cbLoaned' = cbLoaned
      /\ cb' = [cb EXCEPT ![c].weak = @ + 1] /\ weak' = [weak EXCEPT ![p] = @ \cup {c}]
      /\ strong' = strong /\ pc' = pc /\ block' = block
  BY DEF MakeWeak, Counted, cbVars, procVars
<1>2. /\ Gets(weak, weak', p, c)
      /\ \A d \in cbLoaned : /\ cb'[d].weak = (IF d = c THEN cb[c].weak + 1 ELSE cb[d].weak)
                             /\ cb'[d].use = cb[d].use
  BY <1>1 DEF TypeOK, Cb!TypeOK, Gets
<1>3. /\ Cardinality(WeakOn(c)') = Cardinality(WeakOn(c)) + 1
      /\ \A d \in cbLoaned : d /= c => WeakOn(d)' = WeakOn(d)
  BY <1>2, HandleCounts
<1>4. \A d : StrongOn(d)' = StrongOn(d) /\ (KeepsWeak(d)' <=> KeepsWeak(d))
  BY <1>1 DEF StrongOn, Holders, KeepsWeak
<1>5. \A q \in Procs : strong'[q] \subseteq cbLoaned /\ weak'[q] \subseteq cbLoaned
  BY <1>1, <1>2 DEF Counted, Gets
<1>6. ASSUME NEW d \in cbLoaned
      PROVE  /\ cb'[d].use = Cardinality(StrongOn(d)')
             /\ cb'[d].weak = Cardinality(WeakOn(d)')
                               + (IF cb'[d].use > 0 \/ KeepsWeak(d)' THEN 1 ELSE 0)
  <2>1. Cardinality(WeakOn(d)) \in Nat
    BY HoldersType DEF WeakOn
  <2>2. /\ cb[d].use = Cardinality(StrongOn(d))
        /\ cb[d].weak = Cardinality(WeakOn(d))
                          + (IF cb[d].use > 0 \/ KeepsWeak(d) THEN 1 ELSE 0)
    BY DEF Counted
  <2> QED BY <1>2, <1>3, <1>4, <2>1, <2>2
<1> QED BY <1>1, <1>5, <1>6 DEF Counted

\* A shared_ptr less; whoever lets go of the last one keeps its weak count.
LEMMA StrongRemoved ==
  ASSUME TypeOK, Counted, NEW p \in Procs, NEW c, Release(p, c)
  PROVE  Counted'
<1>1. /\ c \in strong[p] /\ c \in cbLoaned /\ cbLoaned' = cbLoaned /\ pc[p] = "idle"
      /\ cb' = [cb EXCEPT ![c].use = @ - 1] /\ strong' = [strong EXCEPT ![p] = @ \ {c}]
      /\ weak' = weak
  BY DEF Release, At, Counted, cbVars
<1>2. /\ LetsGo(strong, strong', p, c)
      /\ \A d \in cbLoaned : /\ cb'[d].use = (IF d = c THEN cb[c].use - 1 ELSE cb[d].use)
                             /\ cb'[d].weak = cb[d].weak
  BY <1>1 DEF TypeOK, Cb!TypeOK, LetsGo
<1>3. /\ Cardinality(StrongOn(c)') = Cardinality(StrongOn(c)) - 1
      /\ \A d \in cbLoaned : d /= c => StrongOn(d)' = StrongOn(d)
  BY <1>2, HandleCounts
<1>4. /\ \A d : WeakOn(d)' = WeakOn(d)
      /\ \A d : d /= c => (KeepsWeak(d)' <=> KeepsWeak(d))
      /\ cb[c].use > 1 => (KeepsWeak(c)' <=> KeepsWeak(c))
      /\ cb[c].use = 1 => KeepsWeak(c)'
  <2>1. cb[c].use > 1 => UNCHANGED <<pc, block>>
    BY DEF Release
  <2>2. cb[c].use = 1 => /\ pc' = [pc EXCEPT ![p] = "dispose"]
                         /\ block' = [block EXCEPT ![p] = c]
    BY DEF Release
  <2>3. cb[c].use > 1 \/ cb[c].use = 1
    BY DEF Release
  <2>4. \A d : WeakOn(d)' = WeakOn(d)
    BY <1>1 DEF WeakOn, Holders
  <2>5. cb[c].use > 1 => \A d : KeepsWeak(d)' <=> KeepsWeak(d)
    BY <2>1 DEF KeepsWeak
  <2>6. ASSUME cb[c].use = 1 PROVE KeepsWeak(c)' /\ \A d : d /= c => (KeepsWeak(d)' <=> KeepsWeak(d))
    <3>1. \A q \in Procs : /\ q /= p => pc'[q] = pc[q] /\ block'[q] = block[q]
                           /\ q = p => pc'[q] = "dispose" /\ block'[q] = c
      BY <2>2, <2>6 DEF TypeOK
    <3> QED BY <1>1, <3>1 DEF KeepsWeak
  <2> QED BY <2>3, <2>4, <2>5, <2>6
<1>5. \A q \in Procs : strong'[q] \subseteq cbLoaned /\ weak'[q] \subseteq cbLoaned
  BY <1>1, <1>2 DEF Counted, LetsGo
<1>6. ASSUME NEW d \in cbLoaned
      PROVE  /\ cb'[d].use = Cardinality(StrongOn(d)')
             /\ cb'[d].weak = Cardinality(WeakOn(d)')
                               + (IF cb'[d].use > 0 \/ KeepsWeak(d)' THEN 1 ELSE 0)
  <2>1. cb[d].use \in Nat /\ cb[c].use \in Nat /\ cb[c].use > 0
    BY <1>1, UseMeansHeld
  <2>2. /\ cb[d].use = Cardinality(StrongOn(d))
        /\ cb[d].weak = Cardinality(WeakOn(d))
                          + (IF cb[d].use > 0 \/ KeepsWeak(d) THEN 1 ELSE 0)
    BY DEF Counted
  <2>3. CASE d = c
    BY <1>2, <1>3, <1>4, <2>1, <2>2, <2>3
  <2>4. CASE d /= c
    BY <1>2, <1>3, <1>4, <2>1, <2>2, <2>4
  <2> QED BY <2>3, <2>4
<1> QED BY <1>1, <1>5, <1>6 DEF Counted

\* A new control block, with its first shared_ptr.
LEMMA FirstStrong ==
  ASSUME TypeOK, Buffers, Counted, NEW p \in Procs, WrapObject(p)
  PROVE  Counted'
<1>0. PICK c : c = Cb!Top
  OBVIOUS
<1>1. /\ c \in Cb!Offsets \ cbLoaned /\ cbLoaned' = cbLoaned \cup {c} /\ pc[p] = "construct"
      /\ cb' = [cb EXCEPT ![c] = [object |-> object[p], use |-> 1, weak |-> 1]]
      /\ strong' = [strong EXCEPT ![p] = @ \cup {c}]
      /\ weak' = weak /\ block' = block /\ pc' = [pc EXCEPT ![p] = "idle"]
  BY <1>0, CbFacts DEF WrapObject, At, Cb!Loan, Buffers
<1>2. \A q \in Procs : c \notin strong[q] /\ c \notin weak[q]
  BY <1>1 DEF Counted
<1>3. /\ Gets(strong, strong', p, c)
      /\ \A d \in cbLoaned : cb'[d] = cb[d] /\ d /= c
      /\ cb'[c].use = 1 /\ cb'[c].weak = 1
  BY <1>1, <1>2 DEF TypeOK, Cb!TypeOK, Gets
<1>4. /\ Cardinality(StrongOn(c)') = Cardinality(StrongOn(c)) + 1
      /\ \A d \in cbLoaned : StrongOn(d)' = StrongOn(d)
  BY <1>3, HandleCounts
<1>5. StrongOn(c) = {} /\ \A d : WeakOn(d)' = WeakOn(d)
  BY <1>1, <1>2 DEF StrongOn, WeakOn, Holders
<1>6. WeakOn(c)' = {}
  BY <1>2, <1>5 DEF WeakOn, Holders
<1>7. Cardinality({}) = 0
  BY FS_EmptySet
<1>8. \A d : KeepsWeak(d)' <=> KeepsWeak(d)
  <2>1. \A q \in Procs : /\ block'[q] = block[q]
                         /\ q /= p => pc'[q] = pc[q]
    BY <1>1 DEF TypeOK
  <2>2. pc'[p] = "idle"
    BY <1>1 DEF TypeOK
  <2> QED BY <1>1, <2>1, <2>2 DEF KeepsWeak
<1>9. \A q \in Procs : strong'[q] \subseteq cbLoaned' /\ weak'[q] \subseteq cbLoaned'
  BY <1>1, <1>3 DEF Counted, Gets
<1>10. ASSUME NEW d \in cbLoaned
       PROVE  /\ cb'[d].use = Cardinality(StrongOn(d)')
              /\ cb'[d].weak = Cardinality(WeakOn(d)')
                                + (IF cb'[d].use > 0 \/ KeepsWeak(d)' THEN 1 ELSE 0)
  BY <1>3, <1>4, <1>5, <1>8 DEF Counted
<1>11. /\ cb'[c].use = Cardinality(StrongOn(c)')
       /\ cb'[c].weak = Cardinality(WeakOn(c)')
                         + (IF cb'[c].use > 0 \/ KeepsWeak(c)' THEN 1 ELSE 0)
  BY <1>3, <1>4, <1>5, <1>6, <1>7
<1> QED BY <1>1, <1>9, <1>10, <1>11 DEF Counted

\* A process that is not between the last shared_ptr and its weak count moves.
LEMMA KeepsStays ==
  ASSUME TypeOK, NEW p \in Procs,
         pc[p] \notin {"dispose", "weakRelease"}, pc'[p] \notin {"dispose", "weakRelease"},
         \A q \in Procs : q /= p => pc'[q] = pc[q] /\ block'[q] = block[q]
  PROVE  \A d : KeepsWeak(d)' <=> KeepsWeak(d)
BY DEF KeepsWeak

\* The shared_ptrs' weak count goes.
LEMMA WeakCountReleased ==
  ASSUME TypeOK, Counted, ReleasedOnce, NEW p \in Procs, WeakRelease(p)
  PROVE  Counted'
<1>0. PICK c : c = block[p]
  OBVIOUS
<1>1. /\ c \in cbLoaned /\ cb[c].use = 0 /\ cbLoaned' = cbLoaned
      /\ pc[p] = "weakRelease" /\ strong' = strong /\ weak' = weak
      /\ cb' = [cb EXCEPT ![c].weak = @ - 1]
  BY <1>0 DEF WeakRelease, DropWeak, At, ReleasedOnce, Releasing, cbVars
<1>2. \A d \in cbLoaned : /\ cb'[d].weak = (IF d = c THEN cb[c].weak - 1 ELSE cb[d].weak)
                          /\ cb'[d].use = cb[d].use
  BY <1>1 DEF TypeOK, Cb!TypeOK
<1>3. \A d : StrongOn(d)' = StrongOn(d) /\ WeakOn(d)' = WeakOn(d)
  BY <1>1 DEF StrongOn, WeakOn, Holders
<1>4. /\ pc'[p] \in {"destroy", "idle"}
      /\ \A q \in Procs : q /= p => pc'[q] = pc[q] /\ block'[q] = block[q]
  BY DEF WeakRelease, DropWeak, TypeOK
<1>5. KeepsWeak(c) /\ ~KeepsWeak(c)'
  <2>1. KeepsWeak(c)
    BY <1>0, <1>1 DEF KeepsWeak
  <2>2. \A q \in Procs : pc'[q] \in {"dispose", "weakRelease"} => block'[q] /= c
    BY <1>0, <1>1, <1>4 DEF ReleasedOnce, Releasing
  <2> QED BY <2>1, <2>2 DEF KeepsWeak
<1>6. \A d : d /= c => (KeepsWeak(d)' <=> KeepsWeak(d))
  BY <1>0, <1>1, <1>4 DEF KeepsWeak
<1>7. ASSUME NEW d \in cbLoaned
      PROVE  /\ cb'[d].use = Cardinality(StrongOn(d)')
             /\ cb'[d].weak = Cardinality(WeakOn(d)')
                               + (IF cb'[d].use > 0 \/ KeepsWeak(d)' THEN 1 ELSE 0)
  <2>1. Cardinality(WeakOn(d)) \in Nat
    BY HoldersType DEF WeakOn
  <2>2. /\ cb[d].use = Cardinality(StrongOn(d))
        /\ cb[d].weak = Cardinality(WeakOn(d))
                          + (IF cb[d].use > 0 \/ KeepsWeak(d) THEN 1 ELSE 0)
    BY DEF Counted
  <2>3. CASE d = c
    BY <1>1, <1>2, <1>3, <1>5, <2>1, <2>2, <2>3
  <2>4. CASE d /= c
    BY <1>2, <1>3, <1>6, <2>1, <2>2, <2>4
  <2> QED BY <2>3, <2>4
<1> QED BY <1>1, <1>7 DEF Counted

\* A weak_ptr less.
LEMMA WeakRemoved ==
  ASSUME TypeOK, Counted, NEW p \in Procs, NEW c, ReleaseWeak(p, c)
  PROVE  Counted'
<1>1. /\ c \in weak[p] /\ c \in cbLoaned /\ cbLoaned' = cbLoaned /\ pc[p] = "idle"
      /\ cb' = [cb EXCEPT ![c].weak = @ - 1] /\ weak' = [weak EXCEPT ![p] = @ \ {c}]
      /\ strong' = strong
  BY DEF ReleaseWeak, DropWeak, At, Counted, cbVars
<1>2. /\ LetsGo(weak, weak', p, c)
      /\ \A d \in cbLoaned : /\ cb'[d].weak = (IF d = c THEN cb[c].weak - 1 ELSE cb[d].weak)
                             /\ cb'[d].use = cb[d].use
  BY <1>1 DEF TypeOK, Cb!TypeOK, LetsGo
<1>3. /\ Cardinality(WeakOn(c)') = Cardinality(WeakOn(c)) - 1
      /\ \A d \in cbLoaned : d /= c => WeakOn(d)' = WeakOn(d)
  BY <1>2, HandleCounts
<1>4. \A d : StrongOn(d)' = StrongOn(d)
  BY <1>1 DEF StrongOn, Holders
<1>5. \A d : KeepsWeak(d)' <=> KeepsWeak(d)
  <2>1. /\ pc'[p] \in {"destroy", "idle"}
        /\ \A q \in Procs : q /= p => pc'[q] = pc[q] /\ block'[q] = block[q]
    BY DEF ReleaseWeak, DropWeak, TypeOK
  <2> QED BY <1>1, <2>1, KeepsStays
<1>6. \A q \in Procs : strong'[q] \subseteq cbLoaned /\ weak'[q] \subseteq cbLoaned
  BY <1>1, <1>2 DEF Counted, LetsGo
<1>7. ASSUME NEW d \in cbLoaned
      PROVE  /\ cb'[d].use = Cardinality(StrongOn(d)')
             /\ cb'[d].weak = Cardinality(WeakOn(d)')
                               + (IF cb'[d].use > 0 \/ KeepsWeak(d)' THEN 1 ELSE 0)
  <2>1. Cardinality(WeakOn(d)) \in Nat
    BY HoldersType DEF WeakOn
  <2>2. /\ cb[d].use = Cardinality(StrongOn(d))
        /\ cb[d].weak = Cardinality(WeakOn(d))
                          + (IF cb[d].use > 0 \/ KeepsWeak(d) THEN 1 ELSE 0)
    BY DEF Counted
  <2> QED BY <1>2, <1>3, <1>4, <1>5, <2>1, <2>2
<1> QED BY <1>1, <1>6, <1>7 DEF Counted

\* A process that destroys a control block finds no handle on it.
LEMMA NobodyHolds ==
  ASSUME Counted, ReleasedOnce, NEW p \in Procs, pc[p] = "destroy"
  PROVE  /\ block[p] \in cbLoaned /\ ~Owning(block[p])
         /\ \A q \in Procs : block[p] \notin strong[q] /\ block[p] \notin weak[q]
<1>1. block[p] \in cbLoaned /\ cb[block[p]].use = 0 /\ cb[block[p]].weak = 0
  BY DEF ReleasedOnce, Releasing
<1>2. \A q \in Procs : block[p] \notin strong[q] /\ block[p] \notin weak[q]
  BY <1>1, UseMeansHeld
<1>3. \A q \in Procs : pc[q] = "dispose" => block[q] /= block[p]
  BY DEF ReleasedOnce, Releasing
<1> QED BY <1>1, <1>2, <1>3 DEF Owning

\* The control block goes back to its buffer.
LEMMA BlockDestroyed ==
  ASSUME TypeOK, Counted, ReleasedOnce, NEW p \in Procs, Destroy(p)
  PROVE  Counted'
<1>1. /\ pc[p] = "destroy" /\ cbLoaned' = cbLoaned \ {block[p]}
      /\ cb' = cb /\ strong' = strong /\ weak' = weak
      /\ pc'[p] = "idle" /\ \A q \in Procs : q /= p => pc'[q] = pc[q] /\ block'[q] = block[q]
  BY DEF Destroy, At, Cb!Accept, handleVars, TypeOK
<1>2. \A q \in Procs : block[p] \notin strong[q] /\ block[p] \notin weak[q]
  BY <1>1, NobodyHolds
<1>3. \A d : KeepsWeak(d)' <=> KeepsWeak(d)
  BY <1>1, KeepsStays
<1>4. \A d : StrongOn(d)' = StrongOn(d) /\ WeakOn(d)' = WeakOn(d)
  BY <1>1 DEF StrongOn, WeakOn, Holders
<1>5. \A q \in Procs : strong'[q] \subseteq cbLoaned' /\ weak'[q] \subseteq cbLoaned'
  BY <1>1, <1>2 DEF Counted
<1>6. \A d \in cbLoaned' :
        /\ cb'[d].use = Cardinality(StrongOn(d)')
        /\ cb'[d].weak = Cardinality(WeakOn(d)')
                          + (IF cb'[d].use > 0 \/ KeepsWeak(d)' THEN 1 ELSE 0)
  BY <1>1, <1>3, <1>4 DEF Counted
<1> QED BY <1>5, <1>6 DEF Counted

\* The actions that leave handles alone.
Aside(p) == LoanObject(p) \/ ConstructorThrows(p) \/ WrapAtNull(p) \/ Dispose(p) \/ Kill(p)

\* Every step keeps the counts exact.
LEMMA CountedStep ==
  ASSUME TypeOK, Buffers, Counted, ReleasedOnce, [Next]_vars
  PROVE  Counted'
<1>1. CASE CreateControlBlocks \/ CreateObjects \/ UNCHANGED vars
  <2>1. UNCHANGED handleVars /\ cbLoaned' = cbLoaned /\ pc' = pc /\ block' = block
    BY <1>1 DEF CreateControlBlocks, CreateObjects, Cb!Allocate, vars, handleVars, procVars, cbVars
  <2>2. \A c : KeepsWeak(c)' <=> KeepsWeak(c)
    BY <2>1 DEF KeepsWeak
  <2> QED BY <2>1, <2>2, CountsStay
<1>2. ASSUME NEW p \in Procs, Aside(p) PROVE Counted'
  <2>1. UNCHANGED handleVars /\ cbLoaned' = cbLoaned
    BY <1>2 DEF Aside, LoanObject, ConstructorThrows, WrapAtNull, Dispose, Kill, cbVars
  <2>2. CASE Kill(p)
    <3>1. pc' = pc /\ block' = block
      BY <2>2 DEF Kill
    <3> QED BY <2>1, <3>1, CountsStay DEF KeepsWeak
  <2>3. CASE Dispose(p)
    <3>1. /\ block' = block /\ pc[p] = "dispose" /\ pc'[p] = "weakRelease"
          /\ \A q \in Procs : q /= p => pc'[q] = pc[q]
      BY <2>3 DEF Dispose, At, TypeOK
    <3>2. \A c : KeepsWeak(c)' <=> KeepsWeak(c)
      BY <3>1 DEF KeepsWeak
    <3> QED BY <2>1, <3>2, CountsStay
  <2>4. CASE LoanObject(p) \/ ConstructorThrows(p) \/ WrapAtNull(p)
    <3>1. /\ block' = block
          /\ pc[p] \in {"idle", "construct"} /\ pc'[p] \in {"idle", "construct", "crashed"}
          /\ \A q \in Procs : q /= p => pc'[q] = pc[q]
      BY <2>4 DEF LoanObject, ConstructorThrows, WrapAtNull, At, TypeOK
    <3>2. \A c : KeepsWeak(c)' <=> KeepsWeak(c)
      BY <3>1, KeepsStays
    <3> QED BY <2>1, <3>2, CountsStay
  <2> QED BY <1>2, <2>2, <2>3, <2>4 DEF Aside
<1>3. ASSUME NEW p \in Procs, NEW q \in Procs, NEW c, Copy(p, q, c) PROVE Counted'
  <2>1. c \in cbLoaned /\ c \in strong[p] /\ cb[c].use > 0
    BY <1>3, UseMeansHeld DEF Copy, Counted
  <2> QED BY <1>3, <2>1, StrongAdded DEF Copy, cbVars, procVars
<1>4. ASSUME NEW p \in Procs, NEW c, LockWeak(p, c) PROVE Counted'
  <2>1. c \in cbLoaned
    BY <1>4 DEF LockWeak, Counted
  <2> QED BY <1>4, <2>1, StrongAdded DEF LockWeak, cbVars, procVars
<1> QED BY <1>1, <1>2, <1>3, <1>4, FirstStrong, WeakAdded, StrongRemoved, WeakCountReleased,
           WeakRemoved, BlockDestroyed DEF Next, Finish, Aside

-----------------------------------------------------------------------------
(* Releases *)

\* Releases that go on as before.
LEMMA ReleasesStay ==
  ASSUME ReleasedOnce,
         \A q \in Procs : pc'[q] \in Releasing =>
           /\ pc[q] \in Releasing /\ (pc'[q] = "destroy" => pc[q] = "destroy")
           /\ block'[q] = block[q] /\ block[q] \in cbLoaned'
           /\ cb'[block[q]].use = 0
           /\ pc[q] = "destroy" => cb'[block[q]].weak = 0
  PROVE  ReleasedOnce'
BY DEF ReleasedOnce, Releasing

\* Handles come and go only where somebody still has one: not on a block that is
\* being released, unless that release's weak count is what goes.
LEMMA ReleasedOnceStep ==
  ASSUME TypeOK, Buffers, Counted, ReleasedOnce, [Next]_vars
  PROVE  ReleasedOnce'
<1>1. \A q \in Procs : pc[q] \in Releasing =>
        /\ block[q] \in cbLoaned /\ cb[block[q]].use = 0
        /\ pc[q] = "destroy" => cb[block[q]].weak = 0
  BY DEF ReleasedOnce, Releasing
<1>2. CASE CreateControlBlocks \/ CreateObjects \/ UNCHANGED vars
  <2>1. UNCHANGED cb /\ cbLoaned' = cbLoaned /\ pc' = pc /\ block' = block
    BY <1>2 DEF CreateControlBlocks, CreateObjects, Cb!Allocate, vars, handleVars, procVars, cbVars
  <2> QED BY <2>1 DEF ReleasedOnce, Releasing
<1>3. ASSUME NEW p \in Procs, Aside(p) PROVE ReleasedOnce'
  <2>1. UNCHANGED cb /\ cbLoaned' = cbLoaned /\ block' = block
    BY <1>3 DEF Aside, LoanObject, ConstructorThrows, WrapAtNull, Dispose, Kill, cbVars, handleVars
  <2>2. \A q \in Procs : pc'[q] \in Releasing =>
          pc[q] \in Releasing /\ (pc'[q] = "destroy" => pc[q] = "destroy")
    BY <1>3 DEF Aside, LoanObject, ConstructorThrows, WrapAtNull, Dispose, Kill, At, TypeOK, Releasing
  <2> QED BY <1>1, <2>1, <2>2, ReleasesStay
<1>4. ASSUME NEW p \in Procs, WrapObject(p) PROVE ReleasedOnce'
  <2>0. PICK c : c = Cb!Top
    OBVIOUS
  <2>1. /\ c \notin cbLoaned /\ cbLoaned' = cbLoaned \cup {c} /\ block' = block
        /\ pc' = [pc EXCEPT ![p] = "idle"]
        /\ cb' = [cb EXCEPT ![c] = [object |-> object[p], use |-> 1, weak |-> 1]]
    BY <1>4, <2>0, CbFacts DEF WrapObject, Cb!Loan, Buffers
  <2>2. \A d \in cbLoaned : cb'[d] = cb[d]
    BY <2>1 DEF TypeOK, Cb!TypeOK
  <2>3. \A q \in Procs : pc'[q] \in Releasing => pc[q] \in Releasing /\ pc'[q] = pc[q]
    BY <2>1 DEF TypeOK, Releasing
  <2> QED BY <1>1, <2>1, <2>2, <2>3, ReleasesStay
<1>5. ASSUME NEW c \in cbLoaned, cb[c].use > 0, pc' = pc, block' = block, cbLoaned' = cbLoaned,
             \A d \in cbLoaned : d /= c => cb'[d] = cb[d]
      PROVE  ReleasedOnce'
  <2>1. \A q \in Procs : pc[q] \in Releasing => block[q] /= c
    BY <1>1, <1>5
  <2> QED BY <1>1, <1>5, <2>1, ReleasesStay
<1>6. ASSUME NEW p \in Procs, NEW q \in Procs, NEW c,
             Copy(p, q, c) \/ MakeWeak(p, c) \/ LockWeak(p, c)
      PROVE  ReleasedOnce'
  <2>1. c \in cbLoaned /\ cb[c].use > 0
    BY <1>6, UseMeansHeld DEF Copy, MakeWeak, LockWeak, Counted
  <2>2. \A d \in cbLoaned : d /= c => cb'[d] = cb[d]
    BY <1>6 DEF Copy, MakeWeak, LockWeak, TypeOK, Cb!TypeOK
  <2>3. pc' = pc /\ block' = block /\ cbLoaned' = cbLoaned
    BY <1>6 DEF Copy, MakeWeak, LockWeak, cbVars, procVars
  <2> QED BY <1>5, <2>1, <2>2, <2>3
<1>7. ASSUME NEW p \in Procs, NEW c, Release(p, c) PROVE ReleasedOnce'
  <2>1. c \in cbLoaned /\ cb[c].use > 0 /\ cbLoaned' = cbLoaned
    BY <1>7, UseMeansHeld DEF Release, Counted, cbVars
  <2>2. \A d \in cbLoaned : d /= c => cb'[d] = cb[d]
    BY <1>7 DEF Release, TypeOK, Cb!TypeOK
  <2>3. CASE cb[c].use > 1
    <3>1. pc' = pc /\ block' = block
      BY <1>7, <2>3 DEF Release
    <3> QED BY <1>5, <2>1, <2>2, <3>1
  <2>4. CASE cb[c].use = 1
    <3>1. /\ pc'[p] = "dispose" /\ block'[p] = c /\ cb'[c].use = 0
          /\ \A q \in Procs : q /= p => pc'[q] = pc[q] /\ block'[q] = block[q]
      BY <1>7, <2>1, <2>4 DEF Release, TypeOK, Cb!TypeOK
    <3>2. \A q \in Procs : pc[q] \in Releasing => block[q] /= c
      BY <1>1, <2>1
    <3> QED BY <1>1, <2>1, <2>2, <3>1, <3>2 DEF ReleasedOnce, Releasing
  <2> QED BY <1>7, <2>3, <2>4 DEF Release
<1>8. ASSUME NEW p \in Procs, WeakRelease(p) PROVE ReleasedOnce'
  <2>0. PICK c : c = block[p]
    OBVIOUS
  <2>1. /\ pc[p] = "weakRelease" /\ c \in cbLoaned /\ cb[c].use = 0 /\ cbLoaned' = cbLoaned
        /\ cb' = [cb EXCEPT ![c].weak = @ - 1]
        /\ \A q \in Procs : q /= p => pc'[q] = pc[q] /\ block'[q] = block[q]
        /\ pc[p] \in Releasing
    BY <1>1, <1>8, <2>0 DEF WeakRelease, DropWeak, At, TypeOK, cbVars, Releasing
  <2>2. /\ \A d \in cbLoaned : d /= c => cb'[d] = cb[d]
        /\ cb'[c].use = 0 /\ cb'[c].weak = cb[c].weak - 1
    BY <2>1 DEF TypeOK, Cb!TypeOK
  <2>3. \A q \in Procs : q /= p /\ pc[q] \in Releasing => block[q] /= c
    BY <2>0, <2>1 DEF ReleasedOnce
  <2>4. CASE pc'[p] = "idle"
    <3>1. \A q \in Procs : pc'[q] \in Releasing => q /= p
      BY <2>4 DEF Releasing
    <3> QED BY <1>1, <2>1, <2>2, <2>3, <3>1, ReleasesStay
  <2>5. CASE pc'[p] = "destroy" /\ block'[p] = c /\ cb[c].weak = 1
    BY <1>1, <2>1, <2>2, <2>3, <2>5 DEF ReleasedOnce, Releasing
  <2>6. \/ pc'[p] = "idle"
        \/ pc'[p] = "destroy" /\ block'[p] = c /\ cb[c].weak = 1
    BY <1>8, <2>0 DEF WeakRelease, DropWeak, TypeOK
  <2> QED BY <2>4, <2>5, <2>6
<1>9. ASSUME NEW p \in Procs, NEW c, ReleaseWeak(p, c) PROVE ReleasedOnce'
  <2>1. /\ pc[p] = "idle" /\ c \in weak[p] /\ c \in cbLoaned /\ cbLoaned' = cbLoaned
        /\ cb' = [cb EXCEPT ![c].weak = @ - 1]
        /\ \A q \in Procs : q /= p => pc'[q] = pc[q] /\ block'[q] = block[q]
    BY <1>9 DEF ReleaseWeak, DropWeak, At, TypeOK, Counted, cbVars
  <2>2. /\ \A d \in cbLoaned : d /= c => cb'[d] = cb[d]
        /\ cb'[c].use = cb[c].use /\ cb'[c].weak = cb[c].weak - 1
    BY <2>1 DEF TypeOK, Cb!TypeOK
  <2>3. \A q \in Procs : pc[q] = "destroy" => block[q] /= c
    BY <2>1, NobodyHolds
  <2>4. CASE pc'[p] = "idle"
    <3>1. \A q \in Procs : pc'[q] \in Releasing => q /= p
      BY <2>4 DEF Releasing
    <3>2. \A q \in Procs : pc[q] \in Releasing => cb'[block[q]].use = 0
      BY <1>1, <2>2
    <3>3. \A q \in Procs : pc[q] = "destroy" => cb'[block[q]].weak = 0
      BY <1>1, <2>2, <2>3 DEF Releasing
    <3> QED BY <1>1, <2>1, <3>1, <3>2, <3>3, ReleasesStay
  <2>5. CASE pc'[p] = "destroy" /\ block'[p] = c /\ cb[c].weak = 1
    <3>1. cb[c].use = 0 /\ ~KeepsWeak(c)
      <4>1. Cardinality(WeakOn(c)) \in Nat /\ Cardinality(WeakOn(c)) /= 0
        BY <2>1, HoldersType DEF WeakOn, Holders
      <4>2. cb[c].weak = Cardinality(WeakOn(c))
                           + (IF cb[c].use > 0 \/ KeepsWeak(c) THEN 1 ELSE 0)
        BY <2>1 DEF Counted
      <4>3. cb[c].use \in Nat
        BY <2>1, UseMeansHeld
      <4> QED BY <2>5, <4>1, <4>2, <4>3
    <3>2. \A q \in Procs : pc[q] \in Releasing => block[q] /= c
      BY <2>3, <3>1 DEF KeepsWeak, Releasing
    <3> QED BY <1>1, <2>1, <2>2, <2>5, <3>1, <3>2 DEF ReleasedOnce, Releasing
  <2>6. \/ pc'[p] = "idle"
        \/ pc'[p] = "destroy" /\ block'[p] = c /\ cb[c].weak = 1
    BY <1>9 DEF ReleaseWeak, DropWeak, TypeOK
  <2> QED BY <2>4, <2>5, <2>6
<1>10. ASSUME NEW p \in Procs, Destroy(p) PROVE ReleasedOnce'
  <2>1. /\ pc[p] = "destroy" /\ cbLoaned' = cbLoaned \ {block[p]} /\ cb' = cb /\ pc'[p] = "idle"
        /\ \A q \in Procs : q /= p => pc'[q] = pc[q] /\ block'[q] = block[q]
    BY <1>10 DEF Destroy, At, Cb!Accept, handleVars, TypeOK
  <2>2. \A q \in Procs : q /= p /\ pc[q] \in Releasing => block[q] /= block[p]
    BY <2>1 DEF ReleasedOnce, Releasing
  <2>3. \A q \in Procs : pc'[q] \in Releasing => q /= p
    BY <2>1 DEF Releasing
  <2> QED BY <1>1, <2>1, <2>2, <2>3, ReleasesStay
<1> QED BY <1>2, <1>3, <1>4, <1>6, <1>7, <1>8, <1>9, <1>10 DEF Next, Finish, Aside

-----------------------------------------------------------------------------
(* Objects *)

\* Both buffers are used by their contract in every step: what the pool gives
\* back is on loan.
LEMMA BufferSteps ==
  ASSUME Owners, ReleasedOnce, [Next]_vars
  PROVE  [Obj!Next]_(Obj!vars) /\ [Cb!Next]_(Cb!vars)
<1> USE DEF Obj!vars, Cb!vars, objVars, cbVars
<1>1. CASE CreateControlBlocks \/ CreateObjects \/ UNCHANGED vars
  BY <1>1 DEF CreateControlBlocks, CreateObjects, vars, Obj!Next, Cb!Next
<1>2. ASSUME NEW p \in Procs, LoanObject(p) PROVE [Obj!Next]_(Obj!vars) /\ [Cb!Next]_(Cb!vars)
  BY <1>2 DEF LoanObject, Obj!Next
<1>3. ASSUME NEW p \in Procs, WrapObject(p) PROVE [Obj!Next]_(Obj!vars) /\ [Cb!Next]_(Cb!vars)
  BY <1>3 DEF WrapObject, Cb!Next
<1>4. ASSUME NEW p \in Procs, Dispose(p) PROVE [Obj!Next]_(Obj!vars) /\ [Cb!Next]_(Cb!vars)
  <2>1. block[p] \in Live
    BY <1>4 DEF Dispose, At, Live, Owning, ReleasedOnce, Releasing
  <2>2. cb[block[p]].object \in objLoaned
    BY <2>1 DEF Owners
  <2>3. Obj!Accept(cb[block[p]].object)
    BY <1>4 DEF Dispose
  <2> QED BY <1>4, <2>2, <2>3 DEF Dispose, Obj!Next
<1>5. ASSUME NEW p \in Procs, Destroy(p) PROVE [Obj!Next]_(Obj!vars) /\ [Cb!Next]_(Cb!vars)
  <2>1. block[p] \in cbLoaned
    BY <1>5 DEF Destroy, At, ReleasedOnce, Releasing
  <2> QED BY <1>5, <2>1 DEF Destroy, Cb!Next
<1>6. ASSUME NEW p \in Procs,
             \/ ConstructorThrows(p) \/ WrapAtNull(p) \/ WeakRelease(p) \/ Kill(p)
             \/ \E c \in Cb!Offsets : \/ \E q \in Procs : Copy(p, q, c)
                                      \/ MakeWeak(p, c) \/ LockWeak(p, c)
                                      \/ Release(p, c) \/ ReleaseWeak(p, c)
      PROVE  [Obj!Next]_(Obj!vars) /\ [Cb!Next]_(Cb!vars)
  BY <1>6 DEF ConstructorThrows, WrapAtNull, WeakRelease, Kill, Copy, MakeWeak, LockWeak,
              Release, ReleaseWeak
<1> QED BY <1>1, <1>2, <1>3, <1>4, <1>5, <1>6 DEF Next, Finish

\* A step in which nobody starts or ends the construction of an object.
LEMMA BareStay ==
  ASSUME BareObjects, object' = object,
         \A q \in Procs : pc'[q] \in {"construct", "crashed"} <=> pc[q] \in {"construct", "crashed"}
  PROVE  BareObjects'
BY DEF BareObjects, None, Obj!Null

\* A process holds a bare object from its loan until it is wrapped or thrown away.
LEMMA BareStep ==
  ASSUME TypeOK, Buffers, BareObjects, [Next]_vars
  PROVE  BareObjects'
<1>1. CASE CreateControlBlocks \/ CreateObjects \/ UNCHANGED vars
  <2>1. object' = object /\ pc' = pc
    BY <1>1 DEF CreateControlBlocks, CreateObjects, vars, procVars
  <2> QED BY <2>1, BareStay
<1>2. ASSUME NEW p \in Procs, LoanObject(p) PROVE BareObjects'
  <2>1. Obj!Top \in Obj!Offsets /\ None \notin Obj!Offsets
    BY <1>2, ObjFacts DEF LoanObject, Obj!Loan, Buffers
  <2>2. /\ pc'[p] = "construct" /\ object'[p] /= None
        /\ \A q \in Procs : q /= p => pc'[q] = pc[q] /\ object'[q] = object[q]
    BY <1>2, <2>1 DEF LoanObject, TypeOK
  <2> QED BY <2>2 DEF BareObjects, None, Obj!Null
<1>3. ASSUME NEW p \in Procs, ConstructorThrows(p) \/ WrapObject(p) PROVE BareObjects'
  <2>1. /\ pc'[p] = "idle" /\ object'[p] = None
        /\ \A q \in Procs : q /= p => pc'[q] = pc[q] /\ object'[q] = object[q]
    BY <1>3 DEF ConstructorThrows, WrapObject, TypeOK
  <2> QED BY <2>1 DEF BareObjects, None, Obj!Null
<1>4. ASSUME NEW p \in Procs, WrapAtNull(p) PROVE BareObjects'
  BY <1>4, BareStay DEF WrapAtNull, At, TypeOK
<1>5. ASSUME NEW p \in Procs, Dispose(p) \/ WeakRelease(p) \/ Destroy(p) \/ Kill(p)
      PROVE  BareObjects'
  <2>1. /\ object' = object
        /\ \A q \in Procs : pc'[q] = pc[q]
             \/ {pc[q], pc'[q]} \subseteq {"idle", "dispose", "weakRelease", "destroy"}
    BY <1>5 DEF Dispose, WeakRelease, DropWeak, Destroy, Kill, At, TypeOK
  <2> QED BY <2>1, BareStay
<1>6. ASSUME NEW p \in Procs, NEW q \in Procs, NEW c,
             Copy(p, q, c) \/ MakeWeak(p, c) \/ LockWeak(p, c)
      PROVE  BareObjects'
  <2>1. object' = object /\ pc' = pc
    BY <1>6 DEF Copy, MakeWeak, LockWeak, procVars
  <2> QED BY <2>1, BareStay
<1>7. ASSUME NEW p \in Procs, NEW c, Release(p, c) \/ ReleaseWeak(p, c) PROVE BareObjects'
  <2>1. /\ object' = object
        /\ \A q \in Procs : pc'[q] = pc[q]
             \/ {pc[q], pc'[q]} \subseteq {"idle", "dispose", "weakRelease", "destroy"}
    BY <1>7 DEF Release, ReleaseWeak, DropWeak, At, TypeOK
  <2> QED BY <2>1, BareStay
<1> QED BY <1>1, <1>2, <1>3, <1>4, <1>5, <1>6, <1>7 DEF Next, Finish

\* Nothing that owns an object changes.
LEMMA OwnersStay ==
  ASSUME Owners, Live' = Live, objLoaned' = objLoaned, leaked' = leaked, object' = object,
         \A c \in Live : cb'[c].object = cb[c].object
  PROVE  Owners'
BY DEF Owners, None, Obj!Null

\* The live control blocks while no release is between its two halves.
LEMMA LiveStays ==
  ASSUME cbLoaned' = cbLoaned,
         \A q \in Procs : (pc[q] = "dispose" <=> pc'[q] = "dispose")
                          /\ (pc[q] = "dispose" => block'[q] = block[q]),
         \A c \in cbLoaned : cb'[c].use > 0 <=> cb[c].use > 0
  PROVE  Live' = Live
BY DEF Live, Owning

\* Every step leaves each object on loan with one owner.
LEMMA OwnersStep ==
  ASSUME TypeOK, Buffers, Counted, ReleasedOnce, BareObjects, Owners, [Next]_vars
  PROVE  Owners'
<1>1. CASE CreateControlBlocks \/ CreateObjects \/ UNCHANGED vars
  <2>1. /\ cb' = cb /\ pc' = pc /\ block' = block /\ object' = object /\ leaked' = leaked
        /\ cbLoaned' = cbLoaned /\ objLoaned' = objLoaned
    BY <1>1 DEF CreateControlBlocks, CreateObjects, Cb!Allocate, Obj!Allocate, vars, handleVars,
                procVars, cbVars, objVars
  <2>2. Live' = Live
    BY <2>1, LiveStays
  <2> QED BY <2>1, <2>2, OwnersStay
<1>2. ASSUME NEW p \in Procs, LoanObject(p) PROVE Owners'
  <2>0. PICK top : top = Obj!Top
    OBVIOUS
  <2>1. /\ objLoaned' = objLoaned \cup {top} /\ top \in Obj!Offsets \ objLoaned
        /\ pc[p] = "idle" /\ pc' = [pc EXCEPT ![p] = "construct"]
        /\ object' = [object EXCEPT ![p] = top]
        /\ cb' = cb /\ cbLoaned' = cbLoaned /\ block' = block /\ leaked' = leaked
    BY <1>2, <2>0, ObjFacts DEF LoanObject, At, Obj!Loan, Buffers, cbVars, handleVars
  <2>2. Live' = Live
    BY <2>1, LiveStays DEF TypeOK
  <2>3. /\ object'[p] = top
        /\ \A q \in Procs : q /= p => object'[q] = object[q]
        /\ \A q \in Procs : object[q] /= None => object[q] /= top
        /\ object[p] = None
        /\ leaked \subseteq objLoaned
    BY <2>1 DEF TypeOK, Owners, BareObjects
  <2>4. \A c \in Live : cb[c].object /= top
    BY <2>1 DEF Owners
  <2>5. \A x \in objLoaned' : \/ x \in leaked'
                              \/ \E c \in Live' : x = cb'[c].object
                              \/ \E q \in Procs : x = object'[q]
    <3>1. None \notin objLoaned
      BY ObjFacts DEF Buffers
    <3> QED BY <2>1, <2>2, <2>3, <3>1 DEF Owners
  <2>6. \A c \in Live' : cb'[c].object \in objLoaned' \ leaked'
    BY <2>1, <2>2 DEF Owners
  <2>7. \A q \in Procs : object'[q] /= None =>
          /\ object'[q] \in objLoaned' \ leaked'
          /\ \A r \in Procs \ {q} : object'[r] /= object'[q]
          /\ \A c \in Live' : cb'[c].object /= object'[q]
    <3>1. top \notin leaked /\ top /= None
      BY <2>1, <2>3, ObjFacts DEF Buffers
    <3> QED BY <2>1, <2>2, <2>3, <2>4, <3>1 DEF Owners
  <2> QED BY <2>1, <2>2, <2>3, <2>5, <2>6, <2>7 DEF Owners, None, Obj!Null
<1>3. ASSUME NEW p \in Procs, ConstructorThrows(p) PROVE Owners'
  <2>1. /\ objLoaned' = objLoaned /\ cb' = cb /\ cbLoaned' = cbLoaned /\ block' = block
        /\ pc[p] = "construct" /\ pc' = [pc EXCEPT ![p] = "idle"]
        /\ object[p] /= None /\ leaked' = leaked \cup {object[p]}
        /\ object'[p] = None /\ \A q \in Procs : q /= p => object'[q] = object[q]
    BY <1>3 DEF ConstructorThrows, At, BareObjects, TypeOK, cbVars, handleVars, objVars
  <2>2. Live' = Live
    BY <2>1, LiveStays DEF TypeOK
  <2>3. \A q \in Procs : object'[q] /= None =>
          /\ object'[q] \in objLoaned' \ leaked'
          /\ \A r \in Procs \ {q} : object'[r] /= object'[q]
          /\ \A c \in Live' : cb'[c].object /= object'[q]
    BY <2>1, <2>2 DEF Owners
  <2>4. /\ \A c \in Live' : cb'[c].object \in objLoaned' \ leaked'
        /\ \A c, d \in Live' : c /= d => cb'[c].object /= cb'[d].object
        /\ leaked' \subseteq objLoaned'
    BY <2>1, <2>2 DEF Owners
  <2>5. \A x \in objLoaned' : \/ x \in leaked'
                              \/ \E c \in Live' : x = cb'[c].object
                              \/ \E q \in Procs : x = object'[q]
    BY <2>1, <2>2 DEF Owners
  <2> QED BY <2>3, <2>4, <2>5 DEF Owners, None, Obj!Null
<1>4. ASSUME NEW p \in Procs, WrapObject(p) PROVE Owners'
  <2>0. PICK t : t = Cb!Top
    OBVIOUS
  <2>1. /\ objLoaned' = objLoaned /\ leaked' = leaked /\ block' = block
        /\ t \in Cb!Offsets \ cbLoaned /\ cbLoaned' = cbLoaned \cup {t}
        /\ cb' = [cb EXCEPT ![t] = [object |-> object[p], use |-> 1, weak |-> 1]]
        /\ pc[p] = "construct" /\ pc' = [pc EXCEPT ![p] = "idle"]
        /\ object[p] /= None
        /\ object'[p] = None /\ \A q \in Procs : q /= p => object'[q] = object[q]
    BY <1>4, <2>0, CbFacts DEF WrapObject, At, Cb!Loan, BareObjects, TypeOK, Buffers, objVars
  <2>2. /\ \A c \in cbLoaned : cb'[c] = cb[c] /\ c /= t
        /\ cb'[t].object = object[p] /\ cb'[t].use = 1
    BY <2>1 DEF TypeOK, Cb!TypeOK
  <2>3. Live' = Live \cup {t}
    <3>1. \A q \in Procs : pc'[q] = "dispose" <=> pc[q] = "dispose"
      BY <2>1 DEF TypeOK
    <3> QED BY <2>1, <2>2, <3>1 DEF Live, Owning
  <2>4. Live \subseteq cbLoaned
    BY DEF Live
  <2>5. \A q \in Procs : object'[q] /= None =>
          /\ object'[q] \in objLoaned' \ leaked'
          /\ \A r \in Procs \ {q} : object'[r] /= object'[q]
          /\ \A c \in Live' : cb'[c].object /= object'[q]
    BY <2>1, <2>2, <2>3, <2>4 DEF Owners
  <2>6. /\ \A c \in Live' : cb'[c].object \in objLoaned' \ leaked'
        /\ \A c, d \in Live' : c /= d => cb'[c].object /= cb'[d].object
        /\ leaked' \subseteq objLoaned'
    BY <2>1, <2>2, <2>3, <2>4 DEF Owners
  <2>7. \A x \in objLoaned' : \/ x \in leaked'
                              \/ \E c \in Live' : x = cb'[c].object
                              \/ \E q \in Procs : x = object'[q]
    BY <2>1, <2>2, <2>3, <2>4 DEF Owners
  <2> QED BY <2>5, <2>6, <2>7 DEF Owners, None, Obj!Null
<1>5. ASSUME NEW p \in Procs, Dispose(p) PROVE Owners'
  <2>0. PICK b : b = block[p]
    OBVIOUS
  <2>1. /\ objLoaned' = objLoaned \ {cb[b].object} /\ leaked' = leaked /\ block' = block
        /\ cb' = cb /\ cbLoaned' = cbLoaned /\ object' = object
        /\ pc[p] = "dispose" /\ pc' = [pc EXCEPT ![p] = "weakRelease"]
        /\ b \in cbLoaned /\ cb[b].use = 0
    BY <1>5, <2>0 DEF Dispose, At, Obj!Accept, ReleasedOnce, Releasing, cbVars, handleVars
  <2>2. b \in Live /\ Live' = Live \ {b}
    <3>1. \A q \in Procs : q /= p => pc'[q] = pc[q] /\ (pc[q] = "dispose" => block[q] /= b)
      BY <2>0, <2>1 DEF TypeOK, ReleasedOnce, Releasing
    <3>2. pc'[p] = "weakRelease"
      BY <2>1 DEF TypeOK
    <3> QED BY <2>0, <2>1, <3>1, <3>2 DEF Live, Owning
  <2>3. \A q \in Procs : object'[q] /= None =>
          /\ object'[q] \in objLoaned' \ leaked'
          /\ \A r \in Procs \ {q} : object'[r] /= object'[q]
          /\ \A c \in Live' : cb'[c].object /= object'[q]
    BY <2>1, <2>2 DEF Owners
  <2>4. /\ \A c \in Live' : cb'[c].object \in objLoaned' \ leaked'
        /\ \A c, d \in Live' : c /= d => cb'[c].object /= cb'[d].object
        /\ leaked' \subseteq objLoaned'
    BY <2>1, <2>2 DEF Owners
  <2>5. \A x \in objLoaned' : \/ x \in leaked'
                              \/ \E c \in Live' : x = cb'[c].object
                              \/ \E q \in Procs : x = object'[q]
    BY <2>1, <2>2 DEF Owners
  <2> QED BY <2>3, <2>4, <2>5 DEF Owners, None, Obj!Null
<1>6. ASSUME NEW p \in Procs, WrapAtNull(p) \/ Kill(p) PROVE Owners'
  <2>1. /\ cb' = cb /\ block' = block /\ object' = object /\ leaked' = leaked
        /\ cbLoaned' = cbLoaned /\ objLoaned' = objLoaned
        /\ \A q \in Procs : pc[q] = "dispose" <=> pc'[q] = "dispose"
    BY <1>6 DEF WrapAtNull, Kill, At, TypeOK, handleVars, cbVars, objVars
  <2>2. Live' = Live
    BY <2>1, LiveStays
  <2> QED BY <2>1, <2>2, OwnersStay
<1>7. ASSUME NEW p \in Procs, WeakRelease(p) PROVE Owners'
  <2>1. /\ cb' = [cb EXCEPT ![block[p]].weak = @ - 1] /\ object' = object /\ leaked' = leaked
        /\ cbLoaned' = cbLoaned /\ objLoaned' = objLoaned
        /\ \A q \in Procs : (pc[q] = "dispose" <=> pc'[q] = "dispose")
                            /\ (pc[q] = "dispose" => block'[q] = block[q])
    BY <1>7 DEF WeakRelease, DropWeak, At, TypeOK, cbVars, objVars
  <2>2. \A c \in cbLoaned : cb'[c].use = cb[c].use /\ cb'[c].object = cb[c].object
    BY <2>1 DEF TypeOK, Cb!TypeOK
  <2>3. Live' = Live
    BY <2>1, <2>2, LiveStays
  <2> QED BY <2>1, <2>2, <2>3, OwnersStay DEF Live
<1>8. ASSUME NEW p \in Procs, NEW c, ReleaseWeak(p, c) PROVE Owners'
  <2>1. /\ cb' = [cb EXCEPT ![c].weak = @ - 1] /\ object' = object /\ leaked' = leaked
        /\ cbLoaned' = cbLoaned /\ objLoaned' = objLoaned
        /\ \A q \in Procs : (pc[q] = "dispose" <=> pc'[q] = "dispose")
                            /\ (pc[q] = "dispose" => block'[q] = block[q])
    BY <1>8 DEF ReleaseWeak, DropWeak, At, TypeOK, cbVars, objVars
  <2>2. \A d \in cbLoaned : cb'[d].use = cb[d].use /\ cb'[d].object = cb[d].object
    BY <2>1 DEF TypeOK, Cb!TypeOK
  <2>3. Live' = Live
    BY <2>1, <2>2, LiveStays
  <2> QED BY <2>1, <2>2, <2>3, OwnersStay DEF Live
<1>9. ASSUME NEW p \in Procs, Destroy(p) PROVE Owners'
  <2>1. /\ pc[p] = "destroy" /\ cbLoaned' = cbLoaned \ {block[p]} /\ cb' = cb
        /\ objLoaned' = objLoaned /\ object' = object /\ leaked' = leaked
        /\ \A q \in Procs : (pc[q] = "dispose" <=> pc'[q] = "dispose")
                            /\ (pc[q] = "dispose" => block'[q] = block[q])
    BY <1>9 DEF Destroy, At, Cb!Accept, handleVars, objVars, TypeOK
  <2>2. block[p] \notin Live
    BY <2>1, NobodyHolds DEF Live
  <2>3. Live' = Live
    BY <2>1, <2>2 DEF Live, Owning
  <2> QED BY <2>1, <2>3, OwnersStay
<1>10. ASSUME NEW p \in Procs, NEW q \in Procs, NEW c,
              Copy(p, q, c) \/ MakeWeak(p, c) \/ LockWeak(p, c)
       PROVE  Owners'
  <2>1. /\ c \in cbLoaned /\ cb[c].use \in Nat /\ cb[c].use > 0
        /\ object' = object /\ leaked' = leaked /\ pc' = pc /\ block' = block
        /\ cbLoaned' = cbLoaned /\ objLoaned' = objLoaned
    BY <1>10, UseMeansHeld DEF Copy, MakeWeak, LockWeak, Counted, cbVars, objVars, procVars
  <2>2. /\ \A d \in cbLoaned : cb'[d].object = cb[d].object
        /\ \A d \in cbLoaned : d /= c => cb'[d].use = cb[d].use
        /\ cb'[c].use > 0
    <3>1. CASE cb' = [cb EXCEPT ![c].use = @ + 1]
      BY <2>1, <3>1 DEF TypeOK, Cb!TypeOK
    <3>2. CASE cb' = [cb EXCEPT ![c].weak = @ + 1]
      BY <2>1, <3>2 DEF TypeOK, Cb!TypeOK
    <3> QED BY <1>10, <3>1, <3>2 DEF Copy, MakeWeak, LockWeak
  <2>3. Live' = Live
    BY <2>1, <2>2, LiveStays
  <2> QED BY <2>1, <2>2, <2>3, OwnersStay DEF Live
<1>11. ASSUME NEW p \in Procs, NEW c, Release(p, c) PROVE Owners'
  <2>1. /\ c \in cbLoaned /\ cb[c].use \in Nat /\ cb[c].use > 0 /\ pc[p] = "idle"
        /\ object' = object /\ leaked' = leaked /\ cbLoaned' = cbLoaned /\ objLoaned' = objLoaned
        /\ cb' = [cb EXCEPT ![c].use = @ - 1]
    BY <1>11, UseMeansHeld DEF Release, At, Counted, cbVars, objVars
  <2>2. /\ \A d \in cbLoaned : cb'[d].object = cb[d].object
        /\ \A d \in cbLoaned : d /= c => cb'[d].use = cb[d].use
        /\ cb'[c].use = cb[c].use - 1
    BY <2>1 DEF TypeOK, Cb!TypeOK
  <2>3. CASE cb[c].use > 1
    <3>1. pc' = pc /\ block' = block
      BY <1>11, <2>3 DEF Release
    <3>2. Live' = Live
      BY <2>1, <2>2, <2>3, <3>1, LiveStays
    <3> QED BY <2>1, <2>2, <3>2, OwnersStay DEF Live
  <2>4. CASE cb[c].use = 1
    <3>1. /\ pc'[p] = "dispose" /\ block'[p] = c
          /\ \A q \in Procs : q /= p => pc'[q] = pc[q] /\ block'[q] = block[q]
      BY <1>11, <2>4 DEF Release, TypeOK
    <3>2. Live' = Live
      BY <2>1, <2>2, <2>4, <3>1 DEF Live, Owning
    <3> QED BY <2>1, <2>2, <3>2, OwnersStay DEF Live
  <2> QED BY <2>1, <2>3, <2>4
<1> QED BY <1>1, <1>2, <1>3, <1>4, <1>5, <1>6, <1>7, <1>8, <1>9, <1>10, <1>11 DEF Next, Finish

-----------------------------------------------------------------------------
(* The invariant *)

\* Types of the handles and of the processes.
LEMMA TypeStep ==
  ASSUME TypeOK, Buffers, Buffers', Counted, ReleasedOnce, BareObjects, Owners, [Next]_vars
  PROVE  TypeOK'
<1> USE DEF TypeOK
<1>1. Obj!TypeOK' /\ Cb!TypeOK'
  <2>1. Obj!TypeOK'
    BY ObjSame DEF Buffers, ObjProofs!IInv, Obj!TypeOK, ObjProofs!TypeOK, Obj!Index,
       ObjProofs!Index, Obj!Offsets, ObjProofs!Offsets, Obj!Offset, ObjProofs!Offset,
       Obj!Null, ObjProofs!Null
  <2>2. Cb!TypeOK'
    BY CbSame DEF Buffers, CbProofs!IInv, Cb!TypeOK, CbProofs!TypeOK, Cb!Index,
       CbProofs!Index, Cb!Offsets, CbProofs!Offsets, Cb!Offset, CbProofs!Offset,
       Cb!Null, CbProofs!Null
  <2> QED BY <2>1, <2>2
<1> DEFINE Controls == [object : Obj!Offsets \cup {None}, use : Nat, weak : Nat]
           Rest == /\ cb' \in [Cb!Offsets -> Controls]
                   /\ strong' \in [Procs -> SUBSET Cb!Offsets]
                   /\ weak' \in [Procs -> SUBSET Cb!Offsets]
                   /\ pc' \in [Procs -> Labels]
                   /\ object' \in [Procs -> Obj!Offsets \cup {None}]
                   /\ block' \in [Procs -> Cb!Offsets \cup {None}]
                   /\ leaked' \subseteq Obj!Offsets
                   /\ killed' \subseteq Faulty
<1> HIDE DEF Controls
<1>2. ASSUME CreateControlBlocks \/ CreateObjects \/ UNCHANGED vars PROVE Rest
  BY <1>2 DEF Controls, CreateControlBlocks, CreateObjects, vars, handleVars, procVars
<1>3. ASSUME NEW p \in Procs, LoanObject(p) PROVE Rest
  <2>1. Obj!Top \in Obj!Offsets
    BY <1>3, ObjFacts DEF LoanObject, Obj!Loan, Buffers
  <2> QED BY <1>3, <2>1 DEF LoanObject, handleVars, Labels, Controls
<1>4. ASSUME NEW p \in Procs, ConstructorThrows(p) PROVE Rest
  <2>1. leaked' \subseteq Obj!Offsets
    <3>1. leaked' = leaked \cup {object[p]} /\ pc[p] = "construct"
      BY <1>4 DEF ConstructorThrows, At
    <3>2. object[p] \in Obj!Offsets
      BY <3>1 DEF BareObjects
    <3> QED BY <3>1, <3>2
  <2> QED BY <1>4, <2>1 DEF ConstructorThrows, handleVars, Labels, Controls
<1>5. ASSUME NEW p \in Procs, WrapObject(p) PROVE Rest
  <2>1. Cb!Top \in Cb!Offsets
    BY <1>5, CbFacts DEF WrapObject, Cb!Loan, Buffers
  <2>2. [object |-> object[p], use |-> 1, weak |-> 1] \in Controls
    BY DEF Controls
  <2>3. cb \in [Cb!Offsets -> Controls]
    BY DEF Controls
  <2>4. cb' \in [Cb!Offsets -> Controls]
    BY <1>5, <2>2, <2>3 DEF WrapObject
  <2>5. /\ strong' \in [Procs -> SUBSET Cb!Offsets] /\ pc' \in [Procs -> Labels]
        /\ object' \in [Procs -> Obj!Offsets \cup {None}]
    BY <1>5, <2>1 DEF WrapObject, Labels
  <2> QED BY <1>5, <2>4, <2>5 DEF WrapObject
<1>6. ASSUME NEW p \in Procs, WrapAtNull(p) \/ Dispose(p) \/ Kill(p) PROVE Rest
  BY <1>6 DEF WrapAtNull, Dispose, Kill, handleVars, Labels, Controls
<1>7. ASSUME NEW c \in cbLoaned, cb[c].weak > 0 PROVE [cb EXCEPT ![c].weak = @ - 1] \in [Cb!Offsets -> Controls]
  BY <1>7 DEF Cb!TypeOK, Controls
<1>8. ASSUME NEW c \in cbLoaned, cb[c].use > 0 PROVE [cb EXCEPT ![c].use = @ - 1] \in [Cb!Offsets -> Controls]
  BY <1>8 DEF Cb!TypeOK, Controls
<1>9. ASSUME NEW c \in cbLoaned
      PROVE  /\ [cb EXCEPT ![c].use = @ + 1] \in [Cb!Offsets -> Controls]
             /\ [cb EXCEPT ![c].weak = @ + 1] \in [Cb!Offsets -> Controls]
  BY <1>9 DEF Cb!TypeOK, Controls
<1>10. cbLoaned \subseteq Cb!Offsets
  BY DEF Cb!TypeOK
<1>11. ASSUME NEW p \in Procs, WeakRelease(p) PROVE Rest
  <2>1. block[p] \in cbLoaned /\ cb[block[p]].weak > 0
    <3>1. block[p] \in cbLoaned
      BY <1>11 DEF WeakRelease, At, ReleasedOnce, Releasing
    <3>2. cb[block[p]].weak = 1 \/ cb[block[p]].weak > 1
      BY <1>11 DEF WeakRelease, DropWeak
    <3>3. cb[block[p]].weak \in Nat
      BY <1>10, <3>1
    <3> QED BY <3>1, <3>2, <3>3
  <2>2. cb' \in [Cb!Offsets -> Controls]
    BY <1>7, <1>11, <2>1 DEF WeakRelease, DropWeak
  <2> QED BY <1>10, <1>11, <2>1, <2>2 DEF WeakRelease, DropWeak, Labels
<1>12. ASSUME NEW p \in Procs, NEW c, ReleaseWeak(p, c) PROVE Rest
  <2>1. c \in cbLoaned /\ cb[c].weak > 0
    <3>1. c \in cbLoaned
      BY <1>12 DEF ReleaseWeak, Counted
    <3>2. cb[c].weak = 1 \/ cb[c].weak > 1
      BY <1>12 DEF ReleaseWeak, DropWeak
    <3>3. cb[c].weak \in Nat
      BY <1>10, <3>1
    <3> QED BY <3>1, <3>2, <3>3
  <2>2. cb' \in [Cb!Offsets -> Controls]
    BY <1>7, <1>12, <2>1 DEF ReleaseWeak, DropWeak
  <2> QED BY <1>10, <1>12, <2>1, <2>2 DEF ReleaseWeak, DropWeak, Labels
<1>13. ASSUME NEW p \in Procs, Destroy(p) PROVE Rest
  BY <1>13 DEF Destroy, handleVars, Labels, Controls
<1>14. ASSUME NEW p \in Procs, NEW q \in Procs, NEW c, Copy(p, q, c) \/ LockWeak(p, c) \/ MakeWeak(p, c)
       PROVE  Rest
  <2>1. c \in cbLoaned
    BY <1>14 DEF Copy, LockWeak, MakeWeak, Counted
  <2>2. cb' \in [Cb!Offsets -> Controls]
    BY <1>9, <1>14, <2>1 DEF Copy, LockWeak, MakeWeak
  <2>3. /\ strong' \in [Procs -> SUBSET Cb!Offsets]
        /\ weak' \in [Procs -> SUBSET Cb!Offsets]
    BY <1>10, <1>14, <2>1 DEF Copy, LockWeak, MakeWeak
  <2>4. UNCHANGED procVars
    BY <1>14 DEF Copy, LockWeak, MakeWeak
  <2> QED BY <2>2, <2>3, <2>4 DEF procVars
<1>15. ASSUME NEW p \in Procs, NEW c, Release(p, c) PROVE Rest
  <2>1. c \in cbLoaned /\ cb[c].use > 0
    BY <1>15 DEF Release, Counted
  <2>2. cb' \in [Cb!Offsets -> Controls]
    BY <1>8, <1>15, <2>1 DEF Release
  <2> QED BY <1>10, <1>15, <2>1, <2>2 DEF Release, Labels
<1> HIDE DEF Rest, TypeOK
<1>16. Rest
  BY <1>2, <1>3, <1>4, <1>5, <1>6, <1>11, <1>12, <1>13, <1>14, <1>15 DEF Next, Finish
<1> QED BY <1>1, <1>16 DEF Rest, TypeOK, Controls

\* The constructed pool satisfies the invariant.
LEMMA InitIInv == Init => IInv
<1> SUFFICES ASSUME Init PROVE IInv
  OBVIOUS
<1> USE PoolAssumption
<1>1. Buffers
  <2>1. ObjProofs!IInv
    BY ObjSame, ObjProofs!InitIInv DEF Init
  <2>2. CbProofs!IInv
    BY CbSame, CbProofs!InitIInv DEF Init
  <2> QED BY <2>1, <2>2 DEF Buffers
<1>2. objLoaned = {} /\ cbLoaned = {}
  BY DEF Init, Obj!Init, Cb!Init
<1>3. TypeOK
  <2>1. Obj!TypeOK /\ Cb!TypeOK
    BY <1>1, ObjFacts, CbFacts DEF Buffers
  <2>2. Unbuilt \in [object : Obj!Offsets \cup {None}, use : Nat, weak : Nat]
    BY DEF Unbuilt
  <2>3. cb \in [Cb!Offsets -> [object : Obj!Offsets \cup {None}, use : Nat, weak : Nat]]
    BY <2>2 DEF Init
  <2> QED BY <2>1, <2>3 DEF TypeOK, Init, Labels
<1>4. Counted /\ Owners
  BY <1>2 DEF Counted, Owners, Live, Init
<1>5. ReleasedOnce /\ BareObjects
  BY DEF ReleasedOnce, Releasing, BareObjects, Init
<1> QED BY <1>1, <1>3, <1>4, <1>5 DEF IInv

\* Every step of every process, and every kill, keeps the invariant.
LEMMA NextIInv == IInv /\ [Next]_vars => IInv'
<1> SUFFICES ASSUME IInv, [Next]_vars PROVE IInv'
  OBVIOUS
<1> USE DEF IInv
<1>1. Buffers'
  BY BufferSteps, BuffersKeep
<1>2. Counted' /\ ReleasedOnce'
  BY CountedStep, ReleasedOnceStep
<1>3. BareObjects' /\ Owners'
  BY BareStep, OwnersStep
<1>4. TypeOK'
  BY <1>1, TypeStep
<1> QED BY <1>1, <1>2, <1>3, <1>4

\* The invariant the other theorems about the pool rest on.
THEOREM Invariance == Spec => []IInv
BY InitIInv, NextIInv, PTL DEF Spec

-----------------------------------------------------------------------------
(* The theorems *)

\* When the control blocks run out while a process constructs an object, some
\* block on loan has no object: with an object each, there would be more objects
\* on loan than there are.
LEMMA NullExplained == IInv => NullOnlyAfterDispose
<1> SUFFICES ASSUME IInv, NEW p \in Procs, pc[p] = "construct", ~Cb!CanLoan,
                    \A c \in cbLoaned : Owning(c)
             PROVE  FALSE
  BY DEF NullOnlyAfterDispose
<1>1. /\ IsFiniteSet(objLoaned) /\ Cardinality(objLoaned) <= nElements
      /\ IsFiniteSet(cbLoaned) /\ Cardinality(cbLoaned) = nElements - cbAvailable
      /\ cbAvailable \in Nat
  BY ObjFacts, CbFacts DEF IInv, Buffers
<1>2. cbAvailable = 0
  BY <1>1 DEF Cb!CanLoan
<1>3. object[p] \in objLoaned /\ \A c \in cbLoaned : cb[c].object /= object[p]
  BY DEF IInv, BareObjects, Owners, Live
<1>4. \A c, d \in cbLoaned : c /= d => cb[c].object /= cb[d].object
  BY DEF IInv, Owners, Live
<1> DEFINE Others == objLoaned \ {object[p]}
           wraps == [c \in cbLoaned |-> cb[c].object]
<1>5. /\ IsFiniteSet(Others) /\ Cardinality(Others) = Cardinality(objLoaned) - 1
  BY <1>1, <1>3, FS_RemoveElement
<1>6. wraps \in Injection(cbLoaned, Others)
  <2>1. wraps \in [cbLoaned -> Others]
    BY <1>3 DEF IInv, Owners, Live
  <2> QED BY <1>4, <2>1 DEF Injection, IsInjective
<1>7. Cardinality(cbLoaned) <= Cardinality(Others)
  BY <1>5, <1>6, FS_Injection DEF ExistsInjection
<1>8. Cardinality(objLoaned) \in Nat /\ nElements \in Nat
  BY <1>1, FS_CardinalityType, PoolAssumption
<1> QED BY <1>1, <1>2, <1>5, <1>7, <1>8

\* Whatever make_pooled, copies, weak pointers, releases and crashes interleave:
\* handles are valid, each object on loan has exactly one owner and none is lost.
THEOREM ElementsOwned == Spec => []Ownership
<1>1. IInv => Ownership
  <2> SUFFICES ASSUME IInv PROVE Ownership
    OBVIOUS
  <2>1. HandlesValid
    <3>1. ASSUME NEW p \in Procs, NEW c \in strong[p]
          PROVE  cb[c].use > 0 /\ cb[c].object \in objLoaned
      <4>1. c \in cbLoaned /\ cb[c].use > 0
        BY UseMeansHeld DEF IInv, Counted
      <4> QED BY <4>1 DEF IInv, Owners, Live, Owning
    <3> QED BY <3>1 DEF HandlesValid, IInv, Counted
  <2>2. SingleOwner
    BY DEF IInv, Owners, Live, SingleOwner
  <2>3. ObjectsAccounted
    <3>1. None \notin objLoaned
      BY ObjFacts DEF IInv, Buffers
    <3> QED BY <3>1 DEF IInv, Owners, Live, ObjectsAccounted
  <2> QED BY <2>1, <2>2, <2>3, NullExplained DEF Ownership, IInv
<1> QED BY <1>1, Invariance, PTL

\* The pool uses each of its buffers by the contract of AllocatorState: what it
\* gives back is on loan, and comes back once.
THEOREM BuffersContract == Spec => BuffersImplement
<1>1. Init => Obj!Init /\ Cb!Init
  BY DEF Init
<1>2. IInv /\ [Next]_vars => [Obj!Next]_(Obj!vars) /\ [Cb!Next]_(Cb!vars)
  BY BufferSteps DEF IInv
<1> QED BY <1>1, <1>2, Invariance, PTL DEF Spec, BuffersImplement, Obj!Spec, Cb!Spec

-----------------------------------------------------------------------------
(* The pool implements ElementPool *)

\* What everybody holds, as ElementPool sees it.
HeldNow == [p \in Procs |-> HeldObjects(p)]

\* Somebody's elements change, and nobody else's.
LEMMA HeldUpdate ==
  ASSUME NEW p \in Procs, NEW S, HeldObjects(p)' = S,
         \A q \in Procs \ {p} : HeldObjects(q)' = HeldObjects(q)
  PROVE  HeldNow' = [HeldNow EXCEPT ![p] = S]
BY DEF HeldNow

\* A process holds the same objects through the same handles.
LEMMA HeldStays ==
  ASSUME NEW p \in Procs, strong'[p] = strong[p], object'[p] = object[p],
         \A c \in strong[p] : cb'[c].object = cb[c].object
  PROVE  HeldObjects(p)' = HeldObjects(p)
BY DEF HeldObjects, None, Obj!Null

\* The objects in use are those of the live control blocks and of the processes
\* that construct one.
LEMMA InUseIs ==
  ASSUME IInv
  PROVE  /\ Elements!InUse = UNION {HeldObjects(p) : p \in Procs}
         /\ \A p \in Procs : \A c \in strong[p] :
              c \in Live /\ cb[c].object \in objLoaned \ leaked
         /\ \A p \in Procs : HeldObjects(p) \subseteq objLoaned \ leaked
<1>1. Elements!InUse = UNION {HeldObjects(p) : p \in Procs}
  BY DEF Elements!InUse
<1>2. ASSUME NEW p \in Procs, NEW c \in strong[p]
      PROVE  c \in Live /\ cb[c].object \in objLoaned \ leaked
  <2>1. c \in cbLoaned /\ cb[c].use > 0
    BY UseMeansHeld DEF IInv, Counted
  <2>2. c \in Live
    BY <2>1 DEF Live, Owning
  <2> QED BY <2>2 DEF IInv, Owners
<1>3. ASSUME NEW p \in Procs PROVE HeldObjects(p) \subseteq objLoaned \ leaked
  BY <1>2 DEF HeldObjects, IInv, Owners
<1> QED BY <1>1, <1>2, <1>3

ElementVars == <<HeldNow, leaked>>

\* make_pooled acquires an object nobody holds.
LEMMA LoanAcquires ==
  ASSUME IInv, NEW p \in Procs, LoanObject(p)
  PROVE  Elements!Next
<1> PICK e : e = Obj!Top
  OBVIOUS
<1>1. /\ e \in Obj!Offsets \ objLoaned /\ e /= None
      /\ pc[p] = "idle" /\ object' = [object EXCEPT ![p] = e]
      /\ strong' = strong /\ cb' = cb /\ leaked' = leaked
  BY ObjFacts DEF LoanObject, Obj!Loan, At, handleVars, IInv, Buffers
<1>2. object[p] = None
  BY <1>1 DEF IInv, BareObjects
<1>3. object'[p] = e /\ \A q \in Procs \ {p} : object'[q] = object[q]
  BY <1>1 DEF IInv, TypeOK
<1>4. HeldObjects(p)' = HeldObjects(p) \cup {e}
  BY <1>1, <1>2, <1>3 DEF HeldObjects, None, Obj!Null
<1>5. \A q \in Procs \ {p} : HeldObjects(q)' = HeldObjects(q)
  BY <1>1, <1>3, HeldStays
<1>6. e \notin Elements!InUse \cup leaked
  <2>1. e \notin Elements!InUse
    BY <1>1, InUseIs
  <2>2. leaked \subseteq objLoaned
    BY DEF IInv, Owners
  <2> QED BY <1>1, <2>1, <2>2
<1>7. HeldNow' = [HeldNow EXCEPT ![p] = @ \cup {e}]
  BY <1>4, <1>5, HeldUpdate DEF HeldNow
<1> QED BY <1>1, <1>6, <1>7 DEF Elements!Next, Elements!Acquire, HeldNow

\* An exception loses the object under construction.
LEMMA ThrowLoses ==
  ASSUME IInv, NEW p \in Procs, ConstructorThrows(p)
  PROVE  Elements!Next
<1> PICK e : e = object[p]
  OBVIOUS
<1>1. /\ pc[p] = "construct" /\ object' = [object EXCEPT ![p] = None]
      /\ strong' = strong /\ cb' = cb /\ leaked' = leaked \cup {e}
  BY DEF ConstructorThrows, At, handleVars
<1>2. e /= None /\ e \in Obj!Offsets
  BY <1>1 DEF IInv, BareObjects, TypeOK
<1>3. object'[p] = None /\ \A q \in Procs \ {p} : object'[q] = object[q]
  BY <1>1 DEF IInv, TypeOK
<1>4. \A c \in strong[p] : cb[c].object /= e
  BY <1>2, InUseIs DEF IInv, Owners
<1>5. HeldObjects(p)' = HeldObjects(p) \ {e} /\ e \in HeldObjects(p)
  BY <1>1, <1>2, <1>3, <1>4 DEF HeldObjects, None, Obj!Null
<1>6. \A q \in Procs \ {p} : HeldObjects(q)' = HeldObjects(q)
  BY <1>1, <1>3, HeldStays
<1>7. HeldNow' = [HeldNow EXCEPT ![p] = @ \ {e}] /\ e \in HeldNow[p]
  BY <1>5, <1>6, HeldUpdate DEF HeldNow
<1> QED BY <1>1, <1>2, <1>7 DEF Elements!Next, Elements!Lose, HeldNow

\* Whoever gets a shared_ptr shares an object that somebody holds.
LEMMA HandleShares ==
  ASSUME IInv, NEW q \in Procs, NEW c \in cbLoaned, cb[c].use > 0,
         cb' = [cb EXCEPT ![c].use = @ + 1], strong' = [strong EXCEPT ![q] = @ \cup {c}],
         object' = object, leaked' = leaked
  PROVE  Elements!Next
<1> PICK e : e = cb[c].object
  OBVIOUS
<1>1. PICK p \in Procs : c \in strong[p]
  BY UseMeansHeld DEF IInv
<1>2. e \in HeldObjects(p) /\ e \in Obj!Offsets /\ e \in Elements!InUse
  <2>1. e \in HeldObjects(p) /\ e \in objLoaned
    BY <1>1, InUseIs DEF HeldObjects
  <2>2. objLoaned \subseteq Obj!Offsets
    BY ObjFacts DEF IInv, Buffers
  <2> QED BY <2>1, <2>2, InUseIs
<1>3. \A d \in cbLoaned : cb'[d].object = cb[d].object
  BY DEF IInv, TypeOK, Cb!TypeOK
<1>4. /\ strong'[q] = strong[q] \cup {c} /\ \A r \in Procs \ {q} : strong'[r] = strong[r]
      /\ \A r \in Procs : strong[r] \subseteq cbLoaned
  BY DEF IInv, TypeOK, Counted
<1>5. HeldObjects(q)' = HeldObjects(q) \cup {e}
  BY <1>3, <1>4 DEF HeldObjects, None, Obj!Null
<1>6. \A r \in Procs \ {q} : HeldObjects(r)' = HeldObjects(r)
  BY <1>3, <1>4, HeldStays
<1>7. HeldNow' = [HeldNow EXCEPT ![q] = @ \cup {e}]
  BY <1>5, <1>6, HeldUpdate DEF HeldNow
<1> QED BY <1>2, <1>7 DEF Elements!Next, Elements!Share, HeldNow

\* Letting go of a shared_ptr drops its object.
LEMMA ReleaseDrops ==
  ASSUME IInv, NEW p \in Procs, NEW c, Release(p, c)
  PROVE  Elements!Next
<1> PICK e : e = cb[c].object
  OBVIOUS
<1>1. /\ c \in strong[p] /\ c \in cbLoaned /\ pc[p] = "idle"
      /\ cb' = [cb EXCEPT ![c].use = @ - 1] /\ strong' = [strong EXCEPT ![p] = @ \ {c}]
      /\ object' = object /\ leaked' = leaked
  BY DEF Release, At, IInv, Counted
<1>2. object[p] = None
  BY <1>1 DEF IInv, BareObjects
<1>3. \A d \in cbLoaned : cb'[d].object = cb[d].object
  BY <1>1 DEF IInv, TypeOK, Cb!TypeOK
<1>4. /\ strong'[p] = strong[p] \ {c} /\ \A r \in Procs \ {p} : strong'[r] = strong[r]
      /\ \A r \in Procs : strong[r] \subseteq cbLoaned
  BY <1>1 DEF IInv, TypeOK, Counted
<1>5. \A d \in strong[p] : d /= c => cb[d].object /= e
  BY <1>1, InUseIs DEF IInv, Owners
<1>6. HeldObjects(p)' = HeldObjects(p) \ {e}
  BY <1>1, <1>2, <1>3, <1>4, <1>5 DEF HeldObjects, None, Obj!Null
<1>7. \A r \in Procs \ {p} : HeldObjects(r)' = HeldObjects(r)
  BY <1>1, <1>3, <1>4, HeldStays
<1>8. HeldNow' = [HeldNow EXCEPT ![p] = @ \ {e}]
  BY <1>6, <1>7, HeldUpdate DEF HeldNow
<1>9. e \in Obj!Offsets
  <2>1. e \in objLoaned
    BY <1>1, InUseIs
  <2> QED BY <2>1, ObjFacts DEF IInv, Buffers
<1> QED BY <1>1, <1>8, <1>9 DEF Elements!Next, Elements!Drop, HeldNow

\* Wrapping an object in its control block passes it from the bare hand of its
\* process to its handle.
LEMMA WrapKeeps ==
  ASSUME IInv, NEW p \in Procs, WrapObject(p)
  PROVE  UNCHANGED ElementVars
<1> PICK c : c = Cb!Top
  OBVIOUS
<1>1. /\ c \in Cb!Offsets \ cbLoaned /\ pc[p] = "construct"
      /\ cb' = [cb EXCEPT ![c] = [object |-> object[p], use |-> 1, weak |-> 1]]
      /\ strong' = [strong EXCEPT ![p] = @ \cup {c}]
      /\ object' = [object EXCEPT ![p] = None] /\ leaked' = leaked
  BY CbFacts DEF WrapObject, Cb!Loan, At, IInv, Buffers
<1>2. object[p] /= None
  BY <1>1 DEF IInv, BareObjects
<1>3. /\ object'[p] = None /\ \A q \in Procs \ {p} : object'[q] = object[q]
      /\ strong'[p] = strong[p] \cup {c} /\ \A q \in Procs \ {p} : strong'[q] = strong[q]
      /\ \A q \in Procs : strong[q] \subseteq cbLoaned
  BY <1>1 DEF IInv, TypeOK, Counted
<1>4. cb'[c].object = object[p] /\ \A d \in cbLoaned : cb'[d].object = cb[d].object
  <2>1. cbLoaned \subseteq Cb!Offsets
    BY DEF IInv, TypeOK, Cb!TypeOK
  <2> QED BY <1>1, <2>1 DEF IInv, TypeOK
<1>5. HeldObjects(p)' = HeldObjects(p)
  BY <1>2, <1>3, <1>4 DEF HeldObjects, None, Obj!Null
<1>6. \A q \in Procs \ {p} : HeldObjects(q)' = HeldObjects(q)
  BY <1>3, <1>4, HeldStays
<1> QED BY <1>1, <1>5, <1>6 DEF ElementVars, HeldNow

\* make_pooled hands out an element nobody holds, only holders share it, and it is
\* up for reuse only when the last of them has let go.
THEOREM Implementation == Spec => PoolImplements
<1>1. Init => Elements!Init
  <2> SUFFICES ASSUME Init PROVE Elements!Init
    OBVIOUS
  <2>1. \A p \in Procs : HeldObjects(p) = {}
    BY DEF Init, HeldObjects
  <2> QED BY <2>1 DEF Init, Elements!Init
<1>2. IInv /\ [Next]_vars => [Elements!Next]_ElementVars
  <2> SUFFICES ASSUME IInv, [Next]_vars PROVE Elements!Next \/ UNCHANGED ElementVars
    OBVIOUS
  <2>1. ASSUME strong' = strong, object' = object, leaked' = leaked,
               \A c \in cbLoaned : cb'[c].object = cb[c].object
        PROVE  UNCHANGED ElementVars
    BY <2>1, HeldStays DEF ElementVars, HeldNow, IInv, Counted
  <2>2. ASSUME NEW p \in Procs, NEW q \in Procs, NEW c, Copy(p, q, c) \/ LockWeak(p, c)
        PROVE  Elements!Next
    <3>1. c \in cbLoaned /\ cb[c].use > 0 /\ object' = object /\ leaked' = leaked
      BY <2>2, UseMeansHeld DEF Copy, LockWeak, IInv, Counted, procVars
    <3> QED BY <2>2, <3>1, HandleShares DEF Copy, LockWeak
  <2>3. ASSUME NEW p \in Procs, NEW c, MakeWeak(p, c) PROVE UNCHANGED ElementVars
    BY <2>1, <2>3 DEF MakeWeak, procVars, IInv, TypeOK, Cb!TypeOK
  <2>4. ASSUME NEW p \in Procs, NEW c, DropWeak(p, c), strong' = strong, object' = object,
               leaked' = leaked
        PROVE  UNCHANGED ElementVars
    BY <2>1, <2>4 DEF DropWeak, IInv, TypeOK, Cb!TypeOK
  <2>5. ASSUME NEW p \in Procs, NEW c, WeakRelease(p) \/ ReleaseWeak(p, c)
        PROVE  UNCHANGED ElementVars
    BY <2>4, <2>5 DEF WeakRelease, ReleaseWeak
  <2>6. ASSUME NEW p \in Procs, WrapAtNull(p) \/ Dispose(p) \/ Destroy(p) \/ Kill(p)
        PROVE  UNCHANGED ElementVars
    BY <2>1, <2>6 DEF WrapAtNull, Dispose, Destroy, Kill, handleVars
  <2>7. ASSUME CreateControlBlocks \/ CreateObjects \/ UNCHANGED vars
        PROVE  UNCHANGED ElementVars
    BY <2>1, <2>7 DEF CreateControlBlocks, CreateObjects, vars, handleVars, procVars
  <2> QED BY <2>2, <2>3, <2>5, <2>6, <2>7, LoanAcquires, ThrowLoses, ReleaseDrops, WrapKeeps
        DEF Next, Finish
<1> QED BY <1>1, <1>2, Invariance, PTL DEF Spec, PoolImplements, Elements!Spec, ElementVars, HeldNow

-----------------------------------------------------------------------------
(* The grower, for any set of callers, any first size, any number of growths   *)
(* and releases at every moment of a growth                                    *)

\* peak is a true history: never less than what is out now.
Peaked == IsFiniteSet(out) /\ peak \in Nat /\ Cardinality(out) <= peak

\* The process that grows the pool found all of it out: peak reached its size.
Exhausted ==
  count > 0 => \A p \in Callers : at[p] = "grow" => sizes[Current] <= peak

\* The pool just built is not empty, and nothing of it is out: only its builder can
\* take an element, as long as it holds the mutex.
Fresh ==
  \A p \in Callers : at[p] = "retry" =>
    sizes[Current] > 0 /\ \A e \in out : e[1] < Current

GrowerIInv ==
  /\ count \in Nat
  /\ NeverEmpty /\ Peaked /\ Exhausted /\ Fresh /\ GrowthFollowsDemand

\* The current pool and its size.
LEMMA CurrentIs ==
  ASSUME GrowerTypeOK
  PROVE  Current \in 1 .. MaxPools /\ sizes[Current] \in Nat
BY GrowerAssumption DEF GrowerTypeOK, Current

\* The object loaned is one of the current pool, and was not out before.
LEMMA Handed ==
  ASSUME GrowerTypeOK, Peaked, NEW p, Take(p)
  PROVE  /\ \E e \in {Current} \X (1 .. sizes[Current]) :
              e \notin out /\ out' = out \cup {e} /\ lost' \subseteq lost \cup {e}
         /\ Peaked' /\ peak' >= peak
<1>1. PICK e \in {Current} \X (1 .. sizes[Current]) :
        /\ e \notin out /\ out' = out \cup {e} /\ lost' \subseteq lost \cup {e}
        /\ peak' = IF Cardinality(out') > peak THEN Cardinality(out') ELSE peak
  BY DEF Take, Available
<1>2. /\ IsFiniteSet(out') /\ Cardinality(out') = Cardinality(out) + 1
      /\ Cardinality(out) \in Nat
  BY <1>1, FS_AddElement, FS_CardinalityType DEF Peaked
<1>3. peak' = IF Cardinality(out') > peak THEN Cardinality(out') ELSE peak
  BY <1>1
<1> QED BY <1>1, <1>2, <1>3 DEF Peaked

\* A pool with nothing left to loan is out as a whole.
LEMMA AllOut ==
  ASSUME GrowerTypeOK, Peaked, count > 0, Available = {}
  PROVE  sizes[Current] <= peak
<1> DEFINE n == sizes[Current]
           Whole == {Current} \X (1 .. n)
<1>1. n \in Nat
  BY CurrentIs
<1>2. Whole \subseteq out
  BY DEF Available
<1>3. Cardinality(Whole) = n
  <2>1. IsFiniteSet(1 .. n) /\ Cardinality(1 .. n) = n
    BY <1>1, FS_Interval
  <2>2. IsFiniteSet({Current}) /\ Cardinality({Current}) = 1
    BY FS_Singleton
  <2>3. Cardinality({Current} \X (1 .. n)) = Cardinality({Current}) * Cardinality(1 .. n)
    BY ONLY <2>1, <2>2, FS_Product
  <2> QED BY <1>1, <2>1, <2>2, <2>3
<1>4. Cardinality(Whole) <= Cardinality(out)
  BY <1>2, FS_Subset DEF Peaked
<1>5. Cardinality(out) \in Nat
  BY FS_CardinalityType DEF Peaked
<1> HIDE DEF Whole, n
<1>6. n <= peak
  BY <1>1, <1>3, <1>4, <1>5 DEF Peaked
<1> QED BY <1>6 DEF n

\* With objects in its elements the pool a process has just built is not exhausted.
LEMMA FreshAvailable ==
  ASSUME GrowerTypeOK, Fresh, count > 0, NEW p \in Callers, at[p] = "retry"
  PROVE  Available /= {}
<1>1. sizes[Current] \in Nat /\ sizes[Current] > 0 /\ Current \in Nat
  BY CurrentIs DEF Fresh
<1>2. <<Current, 1>> \in {Current} \X (1 .. sizes[Current])
  BY <1>1
<1>3. <<Current, 1>> \notin out
  BY <1>1 DEF Fresh
<1> QED BY <1>2, <1>3 DEF Available

\* The larger pool: never empty, at most growthRate times as large as the last.
LEMMA Grown ==
  ASSUME GrowerTypeOK, NEW p \in Callers, Grow(p)
  PROVE  /\ sizes' \in Seq(Nat) /\ Current' = Current + 1 /\ Current' \in 1 .. MaxPools
         /\ \A i \in 1 .. Current : sizes'[i] = sizes[i]
         /\ sizes'[Current'] \in Nat /\ sizes'[Current'] > 0
         /\ sizes'[Current'] = 1 \/ sizes'[Current'] = 2 * sizes[Current]
<1>1. Current \in 1 .. MaxPools /\ sizes[Current] \in Nat
  BY CurrentIs
<1>2. NewSize \in Nat /\ NewSize > 0 /\ (NewSize = 1 \/ NewSize = 2 * sizes[Current])
  BY <1>1 DEF NewSize, growthRate
<1>3. sizes \in Seq(Nat) /\ sizes' = Append(sizes, NewSize) /\ Len(sizes) < MaxPools
  BY DEF GrowerTypeOK, Grow
<1>4. /\ sizes' \in Seq(Nat) /\ Len(sizes') = Len(sizes) + 1
      /\ \A i \in 1 .. Len(sizes) : sizes'[i] = sizes[i]
      /\ sizes'[Len(sizes) + 1] = NewSize
  BY <1>2, <1>3, AppendProperties
<1> QED BY <1>1, <1>2, <1>3, <1>4, GrowerAssumption DEF Current

\* A grower without a pool.
LEMMA GrowerInitIInv == GrowerInit => GrowerIInv
<1> SUFFICES ASSUME GrowerInit PROVE GrowerIInv
  OBVIOUS
<1>1. /\ count \in Nat /\ Current = 1 /\ sizes = <<initialSize>> /\ out = {}
      /\ sizes \in Seq(Nat) /\ Len(sizes) = 1
  BY GrowerAssumption DEF GrowerInit, Current
<1>2. GrowerTypeOK
  BY <1>1, GrowerAssumption DEF GrowerInit, GrowerTypeOK
<1>3. Peaked
  <2>1. IsFiniteSet(out) /\ Cardinality(out) = 0
    BY <1>1, FS_EmptySet
  <2> QED BY <2>1 DEF Peaked, GrowerInit
<1> QED BY <1>1, <1>2, <1>3
     DEF GrowerIInv, NeverEmpty, Exhausted, Fresh, GrowthFollowsDemand, GrowerInit

\* make_pooled on the current pool, before or after a growth.
LEMMA TakeStep ==
  ASSUME GrowerIInv, NEW p \in Callers, Take(p), UNCHANGED <<sizes, zombies>>,
         count' = count,
         at[p] = "retry" \/ (at[p] = "idle" /\ mutex = Nobody)
  PROVE  GrowerIInv'
<1>1. GrowerTypeOK
  BY DEF GrowerIInv, NeverEmpty
<1>2. PICK e \in {Current} \X (1 .. sizes[Current]) :
        e \notin out /\ out' = out \cup {e} /\ lost' \subseteq lost \cup {e}
  BY <1>1, Handed DEF GrowerIInv
<1>3. Peaked' /\ peak' >= peak
  BY <1>1, Handed DEF GrowerIInv
<1>4. Current' = Current /\ Current \in 1 .. MaxPools /\ sizes[Current] \in Nat
  BY <1>1, CurrentIs DEF Current
<1>5. \/ \E r \in {"element", "thrown"} : Return(p, r)
      \/ mutex' = p /\ at' = [at EXCEPT ![p] = "crashed"] /\ result' = result
  BY DEF Take
<1>6. \A q \in Callers \ {p} : at[q] = "idle"
  BY <1>1, GrowerAssumption DEF GrowerTypeOK
<1>7. /\ \A q \in Callers : at'[q] \in {"idle", "crashed"} /\ (at'[q] /= "idle" <=> mutex' = q)
      /\ \A q \in Callers : result'[q] \in {"element", "thrown"} \/ result'[q] = result[q]
      /\ mutex' \in {p, Nobody}
  BY <1>1, <1>5, <1>6, GrowerAssumption DEF Return, GrowerTypeOK
<1>8. GrowerTypeOK'
  <2>1. e \in (1 .. Len(sizes)) \X Nat /\ e[2] \in 1 .. sizes[e[1]]
    BY <1>2, <1>4 DEF Current
  <2>2. out' \subseteq {d \in (1 .. Len(sizes')) \X Nat : d[2] \in 1 .. sizes'[d[1]]}
    BY <1>1, <1>2, <2>1 DEF GrowerTypeOK
  <2>3. /\ at' \in [Callers -> {"idle", "grow", "retry", "crashed"}]
        /\ result' \in [Callers -> {"none", "element", "thrown", "empty", "bad_alloc"}]
    BY <1>1, <1>5 DEF Return, GrowerTypeOK
  <2>4. lost' \subseteq out' /\ zombies' \in Nat
    BY <1>1, <1>2 DEF GrowerTypeOK
  <2> QED BY <1>1, <1>7, <2>2, <2>3, <2>4, GrowerAssumption DEF GrowerTypeOK
<1>9. GrowthFollowsDemand'
  BY <1>3, <1>4 DEF GrowerIInv, GrowthFollowsDemand, Peaked, growthRate
<1> QED BY <1>3, <1>7, <1>8, <1>9 DEF GrowerIInv, NeverEmpty, Exhausted, Fresh

\* Nothing left: the process keeps the mutex and goes on to grow the pool.
LEMMA ExhaustedStep ==
  ASSUME GrowerIInv, NEW p \in Callers, at[p] = "idle", mutex = Nobody, Available = {},
         mutex' = p, at' = [at EXCEPT ![p] = "grow"],
         UNCHANGED <<out, lost, zombies, result, peak, sizes, count>>
  PROVE  GrowerIInv'
<1>1. GrowerTypeOK
  BY DEF GrowerIInv, NeverEmpty
<1>2. \A q \in Callers : at[q] = "idle"
  BY <1>1, GrowerAssumption DEF GrowerTypeOK
<1>3. GrowerTypeOK'
  BY <1>1, <1>2, GrowerAssumption DEF GrowerTypeOK
<1>4. count > 0 => sizes[Current] <= peak
  BY <1>1, AllOut DEF GrowerIInv
<1>5. \A q \in Callers : at'[q] /= "retry"
  BY <1>1, <1>2 DEF GrowerTypeOK
<1> QED BY <1>3, <1>4, <1>5
     DEF GrowerIInv, NeverEmpty, Peaked, Exhausted, Fresh, GrowthFollowsDemand, Current

\* A growth: the new pool is at most twice what was out at once.
LEMMA GrowStep ==
  ASSUME GrowerIInv, NEW p \in Callers, Grow(p), count' = count
  PROVE  GrowerIInv'
<1>1. GrowerTypeOK
  BY DEF GrowerIInv, NeverEmpty
<1>2. /\ sizes' \in Seq(Nat) /\ Current' = Current + 1 /\ Current' \in 1 .. MaxPools
      /\ \A i \in 1 .. Current : sizes'[i] = sizes[i]
      /\ sizes'[Current'] \in Nat /\ sizes'[Current'] > 0
      /\ sizes'[Current'] = 1 \/ sizes'[Current'] = 2 * sizes[Current]
  BY <1>1, Grown
<1>3. /\ at[p] = "grow" /\ at' = [at EXCEPT ![p] = "retry"]
      /\ mutex' = mutex /\ out' = out /\ result' = result /\ peak' = peak
      /\ lost' = lost /\ zombies' \in Nat
  BY DEF Grow
<1>4. /\ mutex = p /\ \A q \in Callers \ {p} : at[q] = "idle"
      /\ \A q \in Callers : at'[q] = IF q = p THEN "retry" ELSE at[q]
  BY <1>1, <1>3 DEF GrowerTypeOK
<1>5. Current \in Nat /\ sizes[Current] \in Nat /\ peak \in Nat
  BY <1>1, CurrentIs DEF GrowerIInv, Peaked
<1>6. \A e \in out : e[1] \in 1 .. Current /\ e[2] \in 1 .. sizes[e[1]] /\ e \in (1 .. Current) \X Nat
  BY <1>1 DEF GrowerTypeOK, Current
<1>7. GrowerTypeOK'
  <2>1. out' \subseteq {d \in (1 .. Len(sizes')) \X Nat : d[2] \in 1 .. sizes'[d[1]]}
    BY <1>2, <1>3, <1>5, <1>6 DEF Current
  <2>2. Len(sizes') \in 1 .. MaxPools
    BY <1>2 DEF Current
  <2>3. at' \in [Callers -> {"idle", "grow", "retry", "crashed"}]
    BY <1>1, <1>3 DEF GrowerTypeOK
  <2> QED BY <1>1, <1>2, <1>3, <1>4, <2>1, <2>2, <2>3 DEF GrowerTypeOK
<1>8. Fresh'
  BY <1>2, <1>3, <1>4, <1>5, <1>6 DEF Fresh
<1>9. GrowthFollowsDemand'
  <2> SUFFICES ASSUME count > 0
               PROVE  sizes'[Current'] <= growthRate * (IF peak = 0 THEN 1 ELSE peak)
    BY <1>3 DEF GrowthFollowsDemand, growthRate
  <2>1. sizes[Current] <= peak
    BY <1>3 DEF GrowerIInv, Exhausted
  <2> QED BY <1>2, <1>5, <2>1 DEF growthRate
<1>10. Exhausted'
  BY <1>4 DEF Exhausted
<1>11. NeverEmpty' /\ Peaked'
  BY <1>3, <1>7 DEF GrowerIInv, NeverEmpty, Peaked
<1> QED BY <1>8, <1>9, <1>10, <1>11 DEF GrowerIInv

\* A make_pooled that gives up: the segment is full, or a pool without objects.
LEMMA GiveUpStep ==
  ASSUME GrowerIInv, NEW p \in Callers, NEW r \in {"bad_alloc", "empty"}, Return(p, r),
         at[p] \in {"grow", "retry"}, r = "empty" => at[p] = "retry" /\ Available = {},
         UNCHANGED <<sizes, out, lost, zombies, peak, count>>
  PROVE  GrowerIInv'
<1>1. GrowerTypeOK
  BY DEF GrowerIInv, NeverEmpty
<1>2. r = "empty" => ~(count > 0)
  BY <1>1, FreshAvailable DEF GrowerIInv
<1>3. /\ \A q \in Callers : at'[q] = "idle"
      /\ \A q \in Callers : result'[q] = r \/ result'[q] = result[q]
      /\ mutex' = Nobody
  BY <1>1 DEF Return, GrowerTypeOK
<1>4. GrowerTypeOK'
  <2>1. /\ at' \in [Callers -> {"idle", "grow", "retry", "crashed"}]
        /\ result' \in [Callers -> {"none", "element", "thrown", "empty", "bad_alloc"}]
    BY <1>1 DEF Return, GrowerTypeOK
  <2> QED BY <1>1, <1>3, <2>1, GrowerAssumption DEF GrowerTypeOK
<1>5. NeverEmpty'
  BY <1>2, <1>3, <1>4 DEF GrowerIInv, NeverEmpty
<1> QED BY <1>3, <1>5
     DEF GrowerIInv, Peaked, Exhausted, Fresh, GrowthFollowsDemand, Current

\* An element comes back, from whichever pool and at whatever moment.
LEMMA ReleaseStep ==
  ASSUME GrowerIInv, NEW e \in out \ lost, ReleaseElement(e), count' = count
  PROVE  GrowerIInv'
<1>1. /\ out' = out \ {e} /\ mutex' = mutex /\ sizes' = sizes /\ at' = at
      /\ result' = result /\ peak' = peak /\ lost' = lost
      /\ zombies' \in {zombies, zombies + 1}
  BY DEF ReleaseElement
<1>2. Peaked'
  <2>1. /\ IsFiniteSet(out \ {e}) /\ Cardinality(out \ {e}) = Cardinality(out) - 1
        /\ Cardinality(out) \in Nat
    BY FS_RemoveElement, FS_CardinalityType DEF GrowerIInv, Peaked
  <2> QED BY <1>1, <2>1 DEF GrowerIInv, Peaked
<1>3. GrowerTypeOK'
  BY <1>1 DEF GrowerIInv, NeverEmpty, GrowerTypeOK
<1> QED BY <1>1, <1>2, <1>3
     DEF GrowerIInv, NeverEmpty, Exhausted, Fresh, GrowthFollowsDemand, Current

\* A control block comes back, or a process has faulted.
LEMMA BlockStep ==
  ASSUME GrowerIInv, ReleaseControlBlock \/ Faulted, count' = count
  PROVE  GrowerIInv'
<1>1. /\ out' = out /\ mutex' = mutex /\ sizes' = sizes /\ at' = at
      /\ result' = result /\ peak' = peak /\ lost' = lost
  BY DEF ReleaseControlBlock, Faulted
<1>2. zombies' \in Nat
  BY DEF ReleaseControlBlock, Faulted, GrowerIInv, NeverEmpty, GrowerTypeOK
<1>3. GrowerTypeOK'
  BY <1>1, <1>2 DEF GrowerIInv, NeverEmpty, GrowerTypeOK
<1> QED BY <1>1, <1>3
     DEF GrowerIInv, NeverEmpty, Peaked, Exhausted, Fresh, GrowthFollowsDemand, Current

\* Every step of make_pooled, of a release or of growing keeps the invariant.
LEMMA GrowerNextIInv == GrowerIInv /\ [GrowerNext]_growerVars => GrowerIInv'
<1> SUFFICES ASSUME GrowerIInv, [GrowerNext]_growerVars PROVE GrowerIInv'
  OBVIOUS
<1>1. CASE UNCHANGED growerVars
  BY <1>1 DEF growerVars, GrowerIInv, NeverEmpty, GrowerTypeOK, Peaked, Exhausted, Fresh, GrowthFollowsDemand, Current
<1>2. CASE GrowerNext
  <2>1. count' = count
    BY <1>2 DEF GrowerNext
  <2>2. ASSUME NEW p \in Callers, MakePooled(p) PROVE GrowerIInv'
    BY <2>1, <2>2, TakeStep, ExhaustedStep DEF MakePooled
  <2>3. ASSUME NEW p \in Callers, Retry(p) PROVE GrowerIInv'
    BY <2>1, <2>3, TakeStep, GiveUpStep DEF Retry
  <2>4. ASSUME NEW p \in Callers, GrowThrows(p) PROVE GrowerIInv'
    BY <2>1, <2>4, GiveUpStep DEF GrowThrows
  <2> QED BY <1>2, <2>1, <2>2, <2>3, <2>4, GrowStep, ReleaseStep, BlockStep
     DEF GrowerNext
<1> QED BY <1>1, <1>2

\* The invariant the theorems about the grower rest on.
THEOREM GrowerInvariance == GrowerSpec => []GrowerIInv
BY GrowerInitIInv, GrowerNextIInv, PTL DEF GrowerSpec

\* One growth is always enough: with objects in its elements the grower never
\* returns an empty pointer, however many others wait for the mutex meanwhile.
THEOREM OneGrowthIsEnough == GrowerSpec => []NeverEmpty
<1>1. GrowerIInv => NeverEmpty
  BY DEF GrowerIInv
<1> QED BY <1>1, GrowerInvariance, PTL

\* The pool is never more than twice as large as the demand has been.
THEOREM GrowthBounded == GrowerSpec => []GrowthFollowsDemand
<1>1. GrowerIInv => GrowthFollowsDemand
  BY DEF GrowerIInv
<1> QED BY <1>1, GrowerInvariance, PTL
=============================================================================
