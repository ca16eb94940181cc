--------------------------- MODULE Lifetimes_proofs ---------------------------
(***************************************************************************)
(* Proofs about the two components in which the last handle on an object   *)
(* destroys it: UtilsIPC, for any finite set of processes, any segments    *)
(* and any nProcessMax, with every fault the module knows, and HeapPool,   *)
(* for any threads, blocks and lengths of arrays; and about RawMemory, the *)
(* memory that pools keep their objects in, for any sizes and addresses.   *)
(***************************************************************************)
EXTENDS UtilsIPC, HeapPoolMemory, AllocatorState_proofs, FiniteSetTheorems, TLAPS

-----------------------------------------------------------------------------
(* Named mappings and objects *)

Within == {"opened", "in"}

\* A process between its open and its unmapping has a segment mapped.
Placed == \A p \in Procs : stage[p] \in Within \cup {"uncounted"} => seg[p] \in Segments

\* Unless an open met the last close, everybody is where the name points, and
\* once somebody has decided to remove the name nobody is anywhere.
Meeting ==
  ~raced =>
    /\ \A p \in Procs : stage[p] \in Within => seg[p] = name
    /\ RemovalDue => \A p \in Procs : stage[p] \notin Within

NoneDangling == ~ctorThrew => \A p \in Procs : handle[p] /= "dangling"

\* Meeting is what makes OneSegmentUnlessRaced inductive: it speaks of those who
\* have opened the segment and not yet counted themselves in.  That a process
\* deciding to remove the name is the last one inside follows from CountersExact.
UtilsInv == UtilsTypeOK /\ Placed /\ CountersExact /\ NoneDangling /\ Meeting

\* Sets of processes are finite, and so are counted by natural numbers.
LEMMA UsersFinite ==
  ASSUME NEW s
  PROVE  /\ IsFiniteSet(UsersOf(s)) /\ Cardinality(UsersOf(s)) \in Nat
         /\ Cardinality(UsersOf(s)) <= Cardinality(Procs)
         /\ IsFiniteSet(Holders(s)) /\ Cardinality(Holders(s)) \in Nat
         /\ Cardinality(Procs) \in Nat
<1>1. UsersOf(s) \subseteq Procs /\ Holders(s) \subseteq Procs
  BY DEF UsersOf, Holders
<1> QED BY <1>1, UtilsAssumption, FS_Subset, FS_CardinalityType

\* The constructor's state: no segment, no process in one.
LEMMA UtilsInitially == UtilsInit => UtilsInv
<1> SUFFICES ASSUME UtilsInit PROVE UtilsInv
  OBVIOUS
<1> USE UtilsAssumption DEF UtilsInit
<1>1. UtilsTypeOK
  <2>1. counter \in [Segments -> {Unmade} \cup 0 .. Cardinality(Procs)]
    OBVIOUS
  <2>2. refs \in [Segments -> 0 .. nProcessMax] /\ object \in [Segments -> BOOLEAN]
    OBVIOUS
  <2>3. /\ seg \in [Procs -> used \cup {NoSegment}] /\ remove \in [Procs -> BOOLEAN]
        /\ stage \in [Procs -> {"out", "opened", "in", "uncounted", "unmapped"}]
        /\ handle \in [Procs -> {"none", "null", "object", "dangling"}]
    OBVIOUS
  <2> QED BY <2>1, <2>2, <2>3 DEF UtilsTypeOK
<1>3. \A s \in Segments : UsersOf(s) = {} /\ Holders(s) = {}
  BY DEF UsersOf, Holders
<1>4. CountersExact
  BY <1>3, FS_EmptySet DEF CountersExact, Unmade
<1> QED BY <1>1, <1>4 DEF UtilsInv, Placed, NoneDangling, Meeting, Within, RemovalDue

-----------------------------------------------------------------------------
(* Opening and closing *)

\* open_or_create's first step, on an existing or a new segment.
LEMMA OpenIInv ==
  ASSUME UtilsInv, NEW p \in Procs, OpenExisting(p) \/ OpenNew(p)
  PROVE  UtilsInv'
<1> USE UtilsAssumption DEF UtilsInv
<1>1. /\ stage[p] = "out" /\ stage' = [stage EXCEPT ![p] = "opened"]
      /\ name' /= NoSegment /\ name' \in used' /\ used \subseteq used'
      /\ used' \subseteq Segments
      /\ name /= NoSegment => name' = name
      /\ seg' = [seg EXCEPT ![p] = name']
      /\ raced' = (raced \/ RemovalDue)
      /\ UNCHANGED <<counter, remove, gaveUp, objVars, killed>>
  BY DEF UtilsTypeOK, OpenExisting, OpenNew, MoveTo
<1>2. UtilsTypeOK'
  BY <1>1 DEF UtilsTypeOK, objVars
<1>3. Placed'
  BY <1>1 DEF UtilsTypeOK, Placed, Within
<1>4. \A s \in Segments : UsersOf(s)' = UsersOf(s) /\ Holders(s)' = Holders(s)
  BY <1>1 DEF UtilsTypeOK, UsersOf, Holders, objVars
<1>5. CountersExact'
  BY <1>1, <1>4 DEF CountersExact, objVars
<1>6. NoneDangling'
  BY <1>1 DEF NoneDangling, objVars
<1>7. Meeting'
  BY <1>1 DEF UtilsTypeOK, Placed, Meeting, Within, RemovalDue
<1> QED BY <1>2, <1>3, <1>5, <1>6, <1>7

\* The opener counts itself in.
LEMMA CountIInv ==
  ASSUME UtilsInv, NEW p \in Procs, Count(p)
  PROVE  UtilsInv'
<1> USE UtilsAssumption DEF UtilsInv
<1>1. PICK t \in Segments :
      /\ t = seg[p]
      /\ stage[p] = "opened" /\ stage' = [stage EXCEPT ![p] = "in"] 
      /\ counter' = [counter EXCEPT ![t] = IF @ = Unmade THEN 1 ELSE @ + 1]
      /\ UNCHANGED <<name, used, seg, remove, raced, gaveUp, objVars, killed>>
  BY DEF Count, MoveTo, Placed, Within
<1>2. handle[p] = "none" /\ p \notin UsersOf(t)
  BY <1>1 DEF UtilsTypeOK, UsersOf
<1>3. /\ UsersOf(t)' = UsersOf(t) \cup {p}
      /\ \A s \in Segments \ {t} : UsersOf(s)' = UsersOf(s)
      /\ \A s \in Segments : Holders(s)' = Holders(s)
  BY <1>1, <1>2 DEF UtilsTypeOK, UsersOf, Holders, objVars
<1>4. Cardinality(UsersOf(t)') = Cardinality(UsersOf(t)) + 1
  BY <1>2, <1>3, UsersFinite, FS_AddElement
<1>5. /\ counter'[t] = Cardinality(UsersOf(t)')
      /\ counter'[t] \in 0 .. Cardinality(Procs)
  <2>1. UsersOf(t)' \subseteq Procs
    BY DEF UsersOf
  <2>2. /\ Cardinality(UsersOf(t)') <= Cardinality(Procs)
        /\ Cardinality(UsersOf(t)) \in Nat /\ Cardinality(Procs) \in Nat
    BY <2>1, UsersFinite, FS_Subset, FS_CardinalityType
  <2>3. counter'[t] = Cardinality(UsersOf(t)) + 1
    <3>1. CASE counter[t] = Unmade
      <4>1. Cardinality(UsersOf(t)) = 0
        BY <3>1, FS_EmptySet DEF CountersExact
      <4> QED BY <1>1, <3>1, <4>1 DEF UtilsTypeOK
    <3>2. CASE counter[t] /= Unmade
      BY <1>1, <3>2 DEF UtilsTypeOK, CountersExact
    <3> QED BY <3>1, <3>2
  <2> QED BY <2>2, <2>3, <1>4
<1>6. UtilsTypeOK'
  BY <1>1, <1>2, <1>5 DEF UtilsTypeOK, objVars
<1>7. CountersExact'
  <2> SUFFICES ASSUME NEW s \in Segments
               PROVE  /\ counter'[s] /= Unmade => counter'[s] = Cardinality(UsersOf(s)')
                      /\ counter'[s] = Unmade => UsersOf(s)' = {}
                      /\ ~ctorThrew' => refs'[s] = Cardinality(Holders(s)')
                      /\ object'[s] => refs'[s] > 0
    BY DEF CountersExact
  <2>1. /\ ~ctorThrew' => refs'[s] = Cardinality(Holders(s)')
        /\ object'[s] => refs'[s] > 0
    BY <1>1, <1>3 DEF CountersExact, objVars
  <2>2. CASE s = t
    BY <1>5, <2>1, <2>2 DEF Unmade
  <2>3. CASE s /= t
    BY <1>1, <1>3, <2>1, <2>3 DEF UtilsTypeOK, CountersExact
  <2> QED BY <2>2, <2>3
<1> QED BY <1>1, <1>6, <1>7 DEF UtilsTypeOK, Placed, NoneDangling, Meeting, Within, RemovalDue, objVars

\* The closer counts itself out.  Unless an open is under way in its segment, the
\* last one leaves nobody behind.
LEMMA UncountIInv ==
  ASSUME UtilsInv, NEW p \in Procs, Uncount(p)
  PROVE  UtilsInv'
<1> USE UtilsAssumption DEF UtilsInv
<1>1. PICK t \in Segments :
      /\ t = seg[p]
      /\ stage[p] = "in" /\ stage' = [stage EXCEPT ![p] = "uncounted"]
      /\ handle[p] = "none" 
      /\ remove' = [remove EXCEPT ![p] = (counter[t] = 1)]
      /\ counter' = [counter EXCEPT ![t] = IF counter[t] > 0 THEN counter[t] - 1 ELSE 0]
      /\ raced' = (raced \/ MeetsOpen(p))
      /\ UNCHANGED <<name, used, seg, gaveUp, objVars, killed>>
  BY DEF Uncount, UncountWith, MoveTo, Placed, Within
<1>2. p \in UsersOf(t) /\ p \notin Holders(t)
  BY <1>1 DEF UsersOf, Holders
<1>3. /\ UsersOf(t)' = UsersOf(t) \ {p}
      /\ \A s \in Segments \ {t} : UsersOf(s)' = UsersOf(s)
      /\ \A s \in Segments : Holders(s)' = Holders(s)
  BY <1>1, <1>2 DEF UtilsTypeOK, UsersOf, Holders, objVars
<1>4. /\ counter[t] = Cardinality(UsersOf(t)) /\ counter[t] > 0
      /\ Cardinality(UsersOf(t)') = Cardinality(UsersOf(t)) - 1
  <2>1. counter[t] = Cardinality(UsersOf(t))
    BY <1>1, <1>2 DEF CountersExact
  <2>2. Cardinality(UsersOf(t)) \in Nat /\ Cardinality(UsersOf(t)) /= 0
    BY <1>2, UsersFinite, FS_EmptySet
  <2>3. Cardinality(UsersOf(t)') = Cardinality(UsersOf(t)) - 1
    BY <1>2, <1>3, UsersFinite, FS_RemoveElement
  <2> QED BY <2>1, <2>2, <2>3
<1>5. /\ counter'[t] = Cardinality(UsersOf(t)')
      /\ counter'[t] \in 0 .. Cardinality(Procs)
  BY <1>1, <1>4, UsersFinite DEF UtilsTypeOK
<1>6. UtilsTypeOK'
  BY <1>1, <1>5 DEF UtilsTypeOK, objVars
<1>7. CountersExact'
  <2> SUFFICES ASSUME NEW s \in Segments
               PROVE  /\ counter'[s] /= Unmade => counter'[s] = Cardinality(UsersOf(s)')
                      /\ counter'[s] = Unmade => UsersOf(s)' = {}
                      /\ ~ctorThrew' => refs'[s] = Cardinality(Holders(s)')
                      /\ object'[s] => refs'[s] > 0
    BY DEF CountersExact
  <2>1. /\ ~ctorThrew' => refs'[s] = Cardinality(Holders(s)')
        /\ object'[s] => refs'[s] > 0
    BY <1>1, <1>3 DEF CountersExact, objVars
  <2>2. CASE s = t
    BY <1>5, <2>1, <2>2 DEF Unmade
  <2>3. CASE s /= t
    BY <1>1, <1>3, <2>1, <2>3 DEF UtilsTypeOK, CountersExact
  <2> QED BY <2>2, <2>3
<1>8. Meeting'
  <2> SUFFICES ASSUME ~raced'
               PROVE  /\ \A q \in Procs : stage'[q] \in Within => seg'[q] = name'
                      /\ RemovalDue' => \A q \in Procs : stage'[q] \notin Within
    BY DEF Meeting
  <2>1. \A q \in Procs : stage'[q] \in Within => stage[q] \in Within /\ q /= p /\ seg[q] = t
    BY <1>1 DEF UtilsTypeOK, Meeting, Within
  <2>2. seg'=seg /\ name' = name /\ t = name
    BY <1>1 DEF Meeting, Within
  <2>3. ASSUME RemovalDue', NEW q \in Procs, stage'[q] \in Within PROVE FALSE
    <3>1. remove'[p]
      BY <1>1, <2>1, <2>3 DEF UtilsTypeOK, Meeting, RemovalDue, Within
    <3>2. counter[t] = 1
      BY <1>1, <3>1 DEF UtilsTypeOK
    <3>3. UsersOf(t) = {p}
      <4>1. PICK x : UsersOf(t) = {x}
        BY <1>4, <3>2, UsersFinite, FS_Singleton
      <4> QED BY <1>2, <4>1
    <3>4. stage[q] = "opened" /\ seg[q] = t
      BY <2>1, <2>3, <3>3 DEF UsersOf, Within
    <3> QED BY <1>1, <3>2, <3>4 DEF MeetsOpen
  <2> QED BY <2>1, <2>2, <2>3
<1> QED BY <1>1, <1>6, <1>7, <1>8 DEF UtilsTypeOK, Placed, NoneDangling, Within, objVars

\* The other steps of a close, a failed count and the nuclear removal count nobody.
LEMMA CloseIInv ==
  ASSUME UtilsInv,
         (\E p \in Procs : CountFails(p) \/ Unmap(p) \/ RemoveName(p)) \/ RemoveNuclear
  PROVE  UtilsInv'
<1> USE UtilsAssumption DEF UtilsInv
<1>1. /\ UNCHANGED <<used, counter, objVars, killed>>
      /\ \A s \in Segments : UsersOf(s)' = UsersOf(s) /\ Holders(s)' = Holders(s)
  BY DEF UtilsTypeOK, CountFails, Unmap, RemoveName, RemoveNuclear, MoveTo, UsersOf, Holders, objVars
<1>2. CountersExact' /\ NoneDangling'
  BY <1>1 DEF CountersExact, NoneDangling, objVars
<1>3. UtilsTypeOK'
  <2>1. CASE RemoveNuclear
    BY <2>1 DEF UtilsTypeOK, RemoveNuclear, objVars
  <2>2. ASSUME NEW p \in Procs, CountFails(p) PROVE UtilsTypeOK'
    BY <2>2 DEF UtilsTypeOK, CountFails, MoveTo, objVars
  <2>3. ASSUME NEW p \in Procs, Unmap(p) PROVE UtilsTypeOK'
    BY <2>3 DEF UtilsTypeOK, Unmap, MoveTo, objVars
  <2>4. ASSUME NEW p \in Procs, RemoveName(p) PROVE UtilsTypeOK'
    BY <2>4 DEF UtilsTypeOK, RemoveName, MoveTo, objVars
  <2> QED BY <2>1, <2>2, <2>3, <2>4
<1>4. Placed'
  BY DEF UtilsTypeOK, Placed, Within, CountFails, Unmap, RemoveName, RemoveNuclear, MoveTo
<1>5. Meeting'
  BY DEF UtilsTypeOK, Placed, Meeting, Within, RemovalDue, InUse, CountFails, Unmap, RemoveName,
         RemoveNuclear, MoveTo
<1> QED BY <1>2, <1>3, <1>4, <1>5

-----------------------------------------------------------------------------
(* Looking up and releasing the object *)

\* A lookup hands out a pointer and counts it, unless the constructor throws.
LEMMA LookupIInv ==
  ASSUME UtilsInv, NEW p \in Procs, Lookup(p)
  PROVE  UtilsInv'
<1> USE UtilsAssumption DEF UtilsInv
<1>1. PICK t \in Segments :
      /\ t = seg[p]
      /\ stage[p] = "in" /\ handle[p] = "none" 
      /\ refs[t] < nProcessMax
      /\ UNCHANGED <<mapVars, killed>>
  BY DEF Lookup, Find, Create, CreateNoMemory, CreateThrows, Admitted, Placed, Within
<1>2. PICK h \in {"null", "object"} : handle' = [handle EXCEPT ![p] = h]
  BY DEF Lookup, Find, Create, CreateNoMemory, CreateThrows, Hand
<1>3. /\ p \in UsersOf(t) /\ p \notin Holders(t)
      /\ \A s \in Segments : UsersOf(s)' = UsersOf(s)
      /\ Holders(t)' = Holders(t) \cup {p}
      /\ \A s \in Segments \ {t} : Holders(s)' = Holders(s)
  BY <1>1, <1>2 DEF UtilsTypeOK, mapVars, UsersOf, Holders
<1>4. Cardinality(Holders(t)') = Cardinality(Holders(t)) + 1
  BY <1>3, UsersFinite, FS_AddElement
<1>5. \/ /\ refs' = [refs EXCEPT ![t] = @ + 1]
         /\ object' \in {object, [object EXCEPT ![t] = TRUE]}
         /\ ctorThrew' = ctorThrew
      \/ refs' = refs /\ object' = object /\ ctorThrew' = TRUE
  <2>1. CASE CreateThrows(p)
    BY <2>1 DEF CreateThrows
  <2>2. CASE Create(p)
    BY <2>2, <1>1 DEF Create, CountObject
  <2>3. CASE Find(p) \/ CreateNoMemory(p)
    BY <2>3, <1>1 DEF Find, CreateNoMemory, CountObject
  <2> QED BY <2>1, <2>2, <2>3 DEF Lookup
<1>6. /\ refs' \in [Segments -> 0 .. nProcessMax] /\ object' \in [Segments -> BOOLEAN]
      /\ ctorThrew' \in BOOLEAN /\ (ctorThrew => ctorThrew')
  <2>1. refs' \in [Segments -> 0 .. nProcessMax]
    BY <1>1, <1>5 DEF UtilsTypeOK
  <2>2. object' \in [Segments -> BOOLEAN]
    BY <1>5 DEF UtilsTypeOK
  <2> QED BY <1>5, <2>1, <2>2 DEF UtilsTypeOK
<1>7. UtilsTypeOK'
  BY <1>1, <1>2, <1>6 DEF UtilsTypeOK, mapVars
<1>8. CountersExact'
  <2> SUFFICES ASSUME NEW s \in Segments
               PROVE  /\ counter'[s] /= Unmade => counter'[s] = Cardinality(UsersOf(s)')
                      /\ counter'[s] = Unmade => UsersOf(s)' = {}
                      /\ ~ctorThrew' => refs'[s] = Cardinality(Holders(s)')
                      /\ object'[s] => refs'[s] > 0
    BY DEF CountersExact
  <2>1. /\ counter'[s] /= Unmade => counter'[s] = Cardinality(UsersOf(s)')
        /\ counter'[s] = Unmade => UsersOf(s)' = {}
    BY <1>1, <1>3 DEF CountersExact, mapVars
  <2>2. ~ctorThrew' => refs'[s] = Cardinality(Holders(s)')
    <3>1. CASE s = t
      BY <1>4, <1>5, <3>1 DEF UtilsTypeOK, CountersExact
    <3>2. CASE s /= t
      BY <1>3, <1>5, <3>2 DEF UtilsTypeOK, CountersExact
    <3> QED BY <3>1, <3>2
  <2>3. object'[s] => refs'[s] > 0
    BY <1>1, <1>5 DEF UtilsTypeOK, CountersExact
  <2> QED BY <2>1, <2>2, <2>3
<1>9. NoneDangling'
  BY <1>2, <1>5 DEF UtilsTypeOK, NoneDangling
<1> QED BY <1>1, <1>7, <1>8, <1>9 DEF Placed, Meeting, Within, RemovalDue, mapVars

\* destroy_shared_object: with the counter exact, whoever takes it to zero holds
\* the only pointer.
LEMMA ReleaseIInv ==
  ASSUME UtilsInv, NEW p \in Procs, ReleaseObject(p)
  PROVE  UtilsInv'
<1> USE UtilsAssumption DEF UtilsInv
<1> DEFINE last(t) == refs[t] = 1
<1>1. PICK t \in Segments :
      /\ t = seg[p]
      /\ handle[p] /= "none" /\ stage[p] = "in" 
      /\ refs' = [refs EXCEPT ![t] = IF @ > 0 THEN @ - 1 ELSE 0]
      /\ object' = [object EXCEPT ![t] = @ /\ ~last(t)]
      /\ handle' = [q \in Procs |->
           IF q = p THEN "none"
           ELSE IF last(t) /\ seg[q] = t /\ handle[q] = "object" THEN "dangling"
           ELSE handle[q]]
      /\ UNCHANGED <<ctorThrew, mapVars, killed>>
  BY DEF UtilsTypeOK, ReleaseObject, Placed, Within
<1>2. \A q \in Procs : handle'[q] /= "none" <=> handle[q] /= "none" /\ q /= p
  BY <1>1
<1>3. /\ p \in Holders(t)
      /\ \A s \in Segments : UsersOf(s)' = UsersOf(s)
      /\ Holders(t)' = Holders(t) \ {p}
      /\ \A s \in Segments \ {t} : Holders(s)' = Holders(s)
  BY <1>1, <1>2 DEF mapVars, UsersOf, Holders
<1>4. /\ Cardinality(Holders(t)') = Cardinality(Holders(t)) - 1
      /\ Cardinality(Holders(t)) \in Nat \ {0}
  BY <1>3, UsersFinite, FS_RemoveElement, FS_EmptySet
<1>5. UtilsTypeOK'
  <2>1. refs' \in [Segments -> 0 .. nProcessMax] /\ object' \in [Segments -> BOOLEAN]
    BY <1>1 DEF UtilsTypeOK
  <2>2. handle' \in [Procs -> {"none", "null", "object", "dangling"}]
    BY <1>1 DEF UtilsTypeOK
  <2> QED BY <1>1, <1>2, <2>1, <2>2 DEF UtilsTypeOK, mapVars
<1>6. CountersExact'
  <2> SUFFICES ASSUME NEW s \in Segments
               PROVE  /\ counter'[s] /= Unmade => counter'[s] = Cardinality(UsersOf(s)')
                      /\ counter'[s] = Unmade => UsersOf(s)' = {}
                      /\ ~ctorThrew' => refs'[s] = Cardinality(Holders(s)')
                      /\ object'[s] => refs'[s] > 0
    BY DEF CountersExact
  <2>1. /\ counter'[s] /= Unmade => counter'[s] = Cardinality(UsersOf(s)')
        /\ counter'[s] = Unmade => UsersOf(s)' = {}
    BY <1>1, <1>3 DEF CountersExact, mapVars
  <2>2. ~ctorThrew' => refs'[s] = Cardinality(Holders(s)')
    <3>1. CASE s = t
      BY <1>1, <1>4, <3>1 DEF UtilsTypeOK, CountersExact
    <3>2. CASE s /= t
      BY <1>1, <1>3, <3>2 DEF UtilsTypeOK, CountersExact
    <3> QED BY <3>1, <3>2
  <2>3. object'[s] => refs'[s] > 0
    <3>1. CASE s = t
      <4>1. object'[t] => object[t] /\ refs[t] /= 1
        BY <1>1 DEF UtilsTypeOK
      <4>2. object[t] => refs[t] > 0
        BY DEF CountersExact
      <4> QED BY <1>1, <3>1, <4>1, <4>2 DEF UtilsTypeOK
    <3>2. CASE s /= t
      BY <1>1, <3>2 DEF UtilsTypeOK, CountersExact
    <3> QED BY <3>1, <3>2
  <2> QED BY <2>1, <2>2, <2>3
<1>7. NoneDangling'
  <2> SUFFICES ASSUME ~ctorThrew, last(t), NEW q \in Procs, q /= p, seg[q] = t,
                      handle[q] = "object"
               PROVE  FALSE
    BY <1>1 DEF NoneDangling
  <2>1. Cardinality(Holders(t)) = 1
    BY DEF CountersExact
  <2>2. q \in Holders(t)
    BY DEF UtilsTypeOK, Holders, UsersOf
  <2>3. PICK x : Holders(t) = {x}
    BY <2>1, UsersFinite, FS_Singleton
  <2> QED BY <1>3, <2>2, <2>3
<1> QED BY <1>1, <1>5, <1>6, <1>7 DEF Placed, Meeting, Within, RemovalDue, mapVars

\* A killed process stays counted, and so do its pointers.
LEMMA KillIInv ==
  ASSUME UtilsInv, (\E p \in Procs : Kill(p)) \/ UNCHANGED utilsVars
  PROVE  UtilsInv'
<1>1. UNCHANGED <<mapVars, objVars>> /\ killed' \subseteq Faulty
  BY DEF UtilsInv, UtilsTypeOK, Kill, utilsVars
<1>2. UtilsTypeOK'
  BY <1>1 DEF UtilsInv, UtilsTypeOK, mapVars, objVars
<1>3. \A s : UsersOf(s)' = UsersOf(s) /\ Holders(s)' = Holders(s)
  BY <1>1 DEF UsersOf, Holders, mapVars, objVars
<1>4. CountersExact'
  BY <1>1, <1>3 DEF UtilsInv, CountersExact, mapVars, objVars
<1> QED BY <1>1, <1>2, <1>4
     DEF UtilsInv, Placed, NoneDangling, Meeting, Within, RemovalDue, mapVars, objVars

-----------------------------------------------------------------------------

\* Every step of an open, a close, a fault or the system keeps the invariant.
LEMMA UtilsStep == UtilsInv /\ [UtilsNext]_utilsVars => UtilsInv'
<1> SUFFICES ASSUME UtilsInv, [UtilsNext]_utilsVars PROVE UtilsInv'
  OBVIOUS
<1>1. CASE RemoveNuclear
  BY <1>1, CloseIInv
<1>2. ASSUME NEW p \in Procs,
             \/ OpenExisting(p) \/ OpenNew(p) \/ Count(p) \/ CountFails(p) \/ Close(p)
             \/ Lookup(p) \/ ReleaseObject(p) \/ Kill(p)
      PROVE  UtilsInv'
  BY <1>2, OpenIInv, CountIInv, UncountIInv, CloseIInv, LookupIInv, ReleaseIInv, KillIInv
     DEF Close
<1> QED BY <1>1, <1>2, KillIInv DEF UtilsNext

\* The inductive invariant holds in every reachable state.
THEOREM UtilsInvariance == UtilsSpec => []UtilsInv
BY UtilsInitially, UtilsStep, PTL DEF UtilsSpec

\* Both counters are exact and no pointer dangles (Count, Uncount, Lookup and
\* releases in any order, kills at any point) unless a construction threw.
THEOREM CountersAndHandles == UtilsSpec => []HandlesLive
<1>1. UtilsInv => HandlesLive
  BY DEF UtilsInv, HandlesLive, NoneDangling
<1> QED BY <1>1, UtilsInvariance, PTL

\* Processes in a segment are all in the one the name stands for, unless an open
\* overlapped the last close (open_or_create_mapping and its deleter).
THEOREM OneMeetingPlace == UtilsSpec => []OneSegmentUnlessRaced
<1>1. UtilsInv => OneSegmentUnlessRaced
  BY DEF UtilsInv, Meeting, Within, OneSegmentUnlessRaced
<1> QED BY <1>1, UtilsInvariance, PTL

-----------------------------------------------------------------------------
(* The heap pool *)

Labels == {"idle", "construct", "dispose", "callback", "push"}

HeapTypes ==
  /\ kind \in Kinds
  /\ strong \in [Index -> Nat] /\ weak \in [Index -> Nat]
  /\ live \in [Index -> SUBSET Objects]
  /\ pc \in [Threads -> Labels]
  /\ block \in [Threads -> Index \cup {Nothing}]
  /\ threw \in BOOLEAN /\ misused \in BOOLEAN

Constructing(i) == \E t \in Threads : pc[t] = "construct" /\ block[t] = i
Disposing(i) == \E t \in Threads : pc[t] = "dispose" /\ block[t] = i

\* What the counts of a block and its objects have to do with one another: an
\* object goes with the last shared_ptr, an array with the last pointer of all.
BlockOK(i) ==
  /\ strong[i] > 0 => weak[i] > 0
  /\ weak[i] > 0 \/ live[i] /= {} => Offset(i) \in loaned
  /\ ~Constructing(i) =>
       /\ strong[i] > 0 => live[i] = Objects
       /\ kind /= "object" /\ weak[i] > 0 => live[i] = Objects
       /\ kind = "object" /\ strong[i] = 0 /\ ~Disposing(i) => live[i] = {}

\* Where a thread can be with its block, which is on loan until it is pushed back.
ThreadOK(t) ==
  LET i == block[t] IN
  /\ pc[t] = "idle" <=> i = Nothing
  /\ pc[t] /= "idle" => Offset(i) \in loaned
  /\ pc[t] = "construct" => strong[i] = 1 /\ weak[i] = 1
  /\ pc[t] = "dispose" => strong[i] = 0 /\ weak[i] > 0
  /\ pc[t] \in {"callback", "push"} => strong[i] = 0 /\ weak[i] = 0
  /\ pc[t] = "callback" => kind /= "object" /\ (threw \/ live[i] = Objects)
  /\ pc[t] = "push" => live[i] = {}

\* No two threads construct, dispose of or give back the same block.
Alone == \A t, u \in Threads : block[t] = block[u] /\ block[t] /= Nothing => t = u

\* Undefined behaviour has its reason, and there is none before the pool is built.
Blame ==
  /\ initialized => pool = "ready"
  /\ misused => threw
  /\ crashed => initialized /\ (misused \/ ~arrays)

HeapInv ==
  /\ HeapTypes /\ IInv
  /\ \A i \in Index : BlockOK(i)
  /\ \A t \in Threads : ThreadOK(t)
  /\ Alone /\ Blame

\* The number of a block is found again in its offset.
LEMMA NumberOfOffset ==
  ASSUME NEW i \in Index
  PROVE  GetElementNumber(Offset(i)) = i
<1> DEFINE b == sizeSharedT * countPerElement
<1>1. b \in Nat /\ b > 0 /\ i \in Nat
  BY SizesAssumption, HeapAssumption DEF Index
<1>2. Offset(i) = b * i /\ GetElementNumber(Offset(i)) = (b * i) \div b
  BY DEF Offset, GetElementNumber
<1> HIDE DEF b
<1>3. b * i \in Nat
  BY <1>1
<1>4. PICK q \in Nat, r \in 0 .. b - 1 : b * i = q * b + r /\ q = (b * i) \div b
  <2> DEFINE x == b * i
  <2> HIDE DEF x
  <2>1. \E q \in Nat, r \in 0 .. b - 1 : x = q * b + r /\ q = x \div b
    BY <1>1, <1>3 DEF x
  <2> QED BY <2>1 DEF x
<1>5. CASE q < i
  <2>1. PICK k \in Nat : i = q + 1 + k
    <3>1. i - (q + 1) \in Nat /\ i = q + 1 + (i - (q + 1))
      BY <1>1, <1>5
    <3> QED BY <3>1
  <2>2. b * (q + 1 + k) = q * b + b + b * k /\ b * k \in Nat /\ q * b \in Nat
    BY <1>1
  <2> QED BY <1>1, <1>4, <2>1, <2>2
<1>6. CASE i < q
  <2>1. PICK k \in Nat : q = i + 1 + k
    <3>1. q - (i + 1) \in Nat /\ q = i + 1 + (q - (i + 1))
      BY <1>1, <1>6
    <3> QED BY <3>1
  <2>2. (i + 1 + k) * b = b * i + b + b * k /\ b * k \in Nat
    BY <1>1
  <2> QED BY <1>1, <1>3, <1>4, <2>1, <2>2
<1> QED BY <1>1, <1>2, <1>4, <1>5, <1>6

\* Different blocks have different offsets.
LEMMA OffsetsDiffer ==
  ASSUME NEW i \in Index, NEW j \in Index, i /= j
  PROVE  Offset(i) /= Offset(j)
BY NumberOfOffset

\* A pool that is not built yet.
LEMMA HeapInitially ==
  ASSUME HeapInit PROVE HeapInv
<1>1. IInv
  BY InitIInv DEF HeapInit
<1>2. HeapTypes
  BY DEF HeapInit, HeapTypes, Labels
<1>3. \A i \in Index : BlockOK(i)
  BY DEF HeapInit, BlockOK
<1>4. \A t \in Threads : ThreadOK(t)
  BY DEF HeapInit, ThreadOK
<1>5. Alone /\ Blame
  BY DEF HeapInit, Init, Alone, Blame
<1> QED BY <1>1, <1>2, <1>3, <1>4, <1>5 DEF HeapInv

\* A step of thread t on block i, as a whole, from what it does to that block.
LEMMA OneBlock ==
  ASSUME HeapInv, HeapTypes', IInv', Blame',
         NEW t \in Threads, NEW i \in Index,
         block[t] \in {i, Nothing}, block'[t] \in {i, Nothing},
         \A u \in Threads \ {t} : pc'[u] = pc[u] /\ block'[u] = block[u],
         \A j \in Index \ {i} : /\ strong'[j] = strong[j] /\ weak'[j] = weak[j]
                                /\ live'[j] = live[j]
                                /\ Offset(j) \in loaned => Offset(j) \in loaned',
         kind' = kind, threw => threw',
         BlockOK(i)', ThreadOK(t)',
         block'[t] = i => \A u \in Threads \ {t} : block[u] /= i,
         \A u \in Threads \ {t} : block[u] = i => ThreadOK(u)'
  PROVE  HeapInv'
<1>1. /\ block \in [Threads -> Index \cup {Nothing}] /\ Nothing \notin Index
      /\ block' \in [Threads -> Index \cup {Nothing}]
      /\ pc \in [Threads -> Labels]
  BY HeapAssumption DEF HeapInv, HeapTypes, Index
<1>2. ASSUME NEW j \in Index PROVE BlockOK(j)'
  <2>1. CASE j = i
    BY <2>1
  <2>2. CASE j /= i
    <3>1. BlockOK(j)
      BY DEF HeapInv
    <3>2. \A u \in Threads : block[u] = j <=> block'[u] = j
      BY <1>1, <2>2
    <3>3. \A u \in Threads : block[u] = j => pc'[u] = pc[u]
      BY <1>1, <2>2
    <3>4. (Constructing(j)' <=> Constructing(j)) /\ (Disposing(j)' <=> Disposing(j))
      BY <3>2, <3>3 DEF Constructing, Disposing
    <3>5. Objects' = Objects
      BY DEF Objects
    <3>6. /\ strong'[j] = strong[j] /\ weak'[j] = weak[j] /\ live'[j] = live[j]
          /\ Offset(j) \in loaned => Offset(j) \in loaned'
      BY <2>2
    <3>7. Offset(j)' = Offset(j)
      BY DEF Offset
    <3> QED BY <3>1, <3>4, <3>5, <3>6, <3>7, kind' = kind DEF BlockOK
  <2> QED BY <2>1, <2>2
<1>3. ASSUME NEW u \in Threads PROVE ThreadOK(u)'
  <2>1. CASE u = t \/ block[u] = i
    BY <2>1
  <2>2. CASE u /= t /\ block[u] /= i
    <3>1. ThreadOK(u) /\ pc'[u] = pc[u] /\ block'[u] = block[u]
      BY <2>2 DEF HeapInv
    <3>2. CASE block[u] = Nothing
      <4>1. pc[u] = "idle"
        BY <3>1, <3>2 DEF ThreadOK
      <4> QED BY <3>1, <3>2, <4>1 DEF ThreadOK
    <3>3. CASE block[u] /= Nothing
      <4> DEFINE j == block[u]
      <4>1. j \in Index /\ j /= i
        BY <1>1, <2>2, <3>3
      <4>2. /\ strong'[j] = strong[j] /\ weak'[j] = weak[j] /\ live'[j] = live[j]
            /\ Offset(j) \in loaned => Offset(j) \in loaned'
        BY <4>1
      <4>3. Objects' = Objects
        BY DEF Objects
      <4> QED BY <3>1, <4>2, <4>3, kind' = kind, threw => threw' DEF ThreadOK, Offset
    <3> QED BY <3>2, <3>3
  <2> QED BY <2>1, <2>2
<1>4. Alone'
  <2> SUFFICES ASSUME NEW u \in Threads, NEW v \in Threads, block'[u] = block'[v],
                      block'[u] /= Nothing, u /= v
               PROVE  FALSE
    BY DEF Alone
  <2>1. CASE u = t
    BY <1>1, <2>1
  <2>2. CASE v = t
    BY <1>1, <2>2
  <2>3. CASE u /= t /\ v /= t
    BY <2>3 DEF HeapInv, Alone
  <2> QED BY <2>1, <2>2, <2>3
<1> QED BY <1>2, <1>3, <1>4 DEF HeapInv

\* A thread that is busy has a block of its own, on loan from a pool that is ready.
LEMMA BusyThread ==
  ASSUME HeapInv, NEW t \in Threads, pc[t] /= "idle"
  PROVE  /\ block[t] \in Index /\ Offset(block[t]) \in loaned
         /\ initialized /\ pool = "ready"
         /\ \A u \in Threads \ {t} : block[u] /= block[t]
<1>1. ThreadOK(t) /\ block[t] \in Index \cup {Nothing}
  BY DEF HeapInv, HeapTypes
<1>2. block[t] \in Index /\ block[t] /= Nothing /\ Offset(block[t]) \in loaned
  BY <1>1 DEF ThreadOK
<1>3. initialized /\ pool = "ready"
  BY <1>2 DEF HeapInv, IInv, Untouched, Blame
<1> QED BY <1>2, <1>3 DEF HeapInv, Alone

\* A block with counts is on loan from a pool that is ready.
LEMMA CountedBlock ==
  ASSUME HeapInv, NEW i \in Index, strong[i] > 0 \/ weak[i] > 0
  PROVE  /\ Offset(i) \in loaned /\ weak[i] > 0
         /\ initialized /\ pool = "ready"
<1>1. BlockOK(i) /\ strong[i] \in Nat /\ weak[i] \in Nat
  BY DEF HeapInv, HeapTypes
<1>2. Offset(i) \in loaned /\ weak[i] > 0
  BY <1>1 DEF BlockOK
<1> QED BY <1>2 DEF HeapInv, IInv, Untouched, Blame

\* The next object of a block is built, or its thread leaves it complete.
LEMMA ConstructKeeps ==
  ASSUME HeapInv, NEW t \in Threads, Construct(t) PROVE HeapInv'
<1> DEFINE i == block[t]
<1>1. /\ i \in Index /\ Offset(i) \in loaned /\ initialized /\ pool = "ready"
      /\ \A u \in Threads \ {t} : block[u] /= i
      /\ pc[t] = "construct" /\ ~crashed
  BY BusyThread DEF Construct, At
<1>2. /\ HeapTypes /\ IInv /\ Blame /\ BlockOK(i) /\ ThreadOK(t)
  BY <1>1 DEF HeapInv
<1>3. /\ UNCHANGED vars /\ loaned' = loaned /\ initialized' = initialized
      /\ kind' = kind /\ pool' = pool /\ arrays' = arrays
      /\ strong' = strong /\ weak' = weak /\ threw' = threw /\ misused' = misused
  BY DEF Construct, vars, refVars
<1>4. IInv'
  BY <1>2, <1>3, NextIInv
<1>5. Objects' = Objects /\ Offset(i)' = sizeSharedT * countPerElement * block'[t]
  BY <1>3 DEF Objects, Offset
<1>6. strong[i] = 1 /\ weak[i] = 1
  BY <1>1, <1>2 DEF ThreadOK
<1>7. CASE Unbuilt(i) = {} /\ Done(t) /\ UNCHANGED <<live, crashed>>
  <2>1. /\ pc' = [pc EXCEPT ![t] = "idle"] /\ block' = [block EXCEPT ![t] = Nothing]
        /\ live' = live /\ crashed' = crashed
    BY <1>7 DEF Done, Goto
  <2>2. /\ pc'[t] = "idle" /\ block'[t] = Nothing
        /\ \A u \in Threads \ {t} : pc'[u] = pc[u] /\ block'[u] = block[u]
    BY <2>1, <1>2 DEF HeapTypes
  <2>3. HeapTypes' /\ Blame'
    BY <1>2, <1>3, <1>5, <2>1 DEF HeapTypes, Blame, Labels
  <2>4. live[i] = Objects
    BY <1>1, <1>2, <1>7 DEF Unbuilt, HeapTypes
  <2>5. ThreadOK(t)'
    BY <2>2 DEF ThreadOK
  <2>6. Offset(i) \in loaned' /\ live'[i] = Objects' /\ strong'[i] = 1 /\ weak'[i] = 1
    BY <1>1, <1>3, <1>5, <1>6, <2>1, <2>4
  <2> DEFINE n == block[t]
  <2>7. \A k \in Index : k = n => BlockOK(k)'
    BY <2>6 DEF BlockOK, Offset
  <2> HIDE DEF n
  <2>8. /\ n \in Index /\ block[t] = n /\ block'[t] \in {n, Nothing}
        /\ \A u \in Threads \ {t} : block[u] /= n
        /\ \A j \in Index \ {n} : /\ strong'[j] = strong[j] /\ weak'[j] = weak[j]
                                  /\ live'[j] = live[j]
                                  /\ Offset(j) \in loaned => Offset(j) \in loaned'
    BY <1>1, <1>3, <2>1, <2>2 DEF n
  <2> QED
    BY ONLY HeapInv, <1>3, <1>4, <2>2, <2>3, <2>5, <2>7, <2>8, OneBlock, t \in Threads
<1>8. CASE \E o \in Unbuilt(i) :
             /\ \A other \in Unbuilt(i) : o <= other
             /\ live' = [live EXCEPT ![i] = @ \cup {o}]
             /\ crashed' \in IF kind = "array" /\ ~arrays THEN BOOLEAN ELSE {FALSE}
             /\ UNCHANGED <<pc, block>>
  <2>1. PICK o \in Objects : live' = [live EXCEPT ![i] = @ \cup {o}]
    BY <1>8 DEF Unbuilt
  <2>2. pc' = pc /\ block' = block /\ (crashed' => ~arrays)
    BY <1>8
  <2>3. HeapTypes'
    <3>1. live' \in [Index -> SUBSET Objects]
      BY <1>2, <2>1 DEF HeapTypes
    <3> QED BY <1>2, <1>3, <1>5, <2>2, <3>1 DEF HeapTypes
  <2>4. Blame'
    BY <1>1, <1>2, <1>3, <2>2 DEF Blame
  <2>5. ThreadOK(t)'
    BY <1>1, <1>2, <1>3, <1>5, <2>2 DEF ThreadOK, Offset
  <2> DEFINE n == block[t]
  <2>6. \A k \in Index : k = n => BlockOK(k)'
    <3> SUFFICES BlockOK(n)'
      <4>1. n' = n
        BY <2>2
      <4> QED BY <4>1, <2>2 DEF BlockOK, Offset, Constructing, Disposing
    <3>1. Constructing(n)'
      BY <1>1, <2>2 DEF Constructing
    <3> QED BY <1>1, <1>3, <1>6, <2>2, <3>1 DEF BlockOK, Offset
  <2> HIDE DEF n
  <2>8. /\ n \in Index /\ block[t] = n /\ block'[t] \in {n, Nothing}
        /\ \A u \in Threads \ {t} : /\ block[u] /= n
                                    /\ pc'[u] = pc[u] /\ block'[u] = block[u]
        /\ \A j \in Index \ {n} : /\ strong'[j] = strong[j] /\ weak'[j] = weak[j]
                                  /\ live'[j] = live[j]
                                  /\ Offset(j) \in loaned => Offset(j) \in loaned'
    BY <1>1, <1>2, <1>3, <2>1, <2>2 DEF n, HeapTypes
  <2> QED
    BY ONLY HeapInv, <1>3, <1>4, <2>3, <2>4, <2>5, <2>6, <2>8, OneBlock, t \in Threads
<1> QED BY <1>7, <1>8 DEF Construct

\* A constructor throws: the counts go, and what was built of an array waits for
\* the destructor callback.
LEMMA ConstructorThrowsKeeps ==
  ASSUME HeapInv, NEW t \in Threads, ConstructorThrows(t) PROVE HeapInv'
<1>1. PICK i \in Index : i = block[t]
  BY BusyThread DEF ConstructorThrows, At
<1>2. /\ Offset(i) \in loaned /\ initialized /\ pool = "ready"
      /\ \A u \in Threads \ {t} : block[u] /= i
      /\ pc[t] = "construct" /\ ~crashed
  BY <1>1, BusyThread DEF ConstructorThrows, At
<1>3. HeapTypes /\ IInv /\ Blame /\ BlockOK(i) /\ ThreadOK(t)
  BY DEF HeapInv
<1>4. /\ UNCHANGED vars /\ loaned' = loaned /\ initialized' = initialized
      /\ kind' = kind /\ pool' = pool /\ arrays' = arrays /\ live' = live
      /\ block' = block /\ misused' = misused /\ crashed' = crashed
      /\ strong' = [strong EXCEPT ![i] = 0] /\ weak' = [weak EXCEPT ![i] = 0]
      /\ pc' = [pc EXCEPT ![t] = IF kind = "object" THEN "push" ELSE "callback"]
      /\ threw' = (threw \/ kind = "array")
  BY <1>1 DEF ConstructorThrows, vars, refVars, Goto
<1>5. IInv'
  BY <1>3, <1>4, NextIInv
<1>6. Objects' = Objects /\ Offset(i)' = Offset(i)
  BY <1>4 DEF Objects, Offset
<1>7. HeapTypes' /\ Blame'
  <2>1. strong' \in [Index -> Nat] /\ weak' \in [Index -> Nat] /\ pc' \in [Threads -> Labels]
    BY <1>3, <1>4 DEF HeapTypes, Labels
  <2>2. threw' \in BOOLEAN
    BY <1>3, <1>4, Zenon DEF HeapTypes
  <2> QED BY <1>3, <1>4, <1>6, <2>1, <2>2 DEF HeapTypes, Blame
<1>8. /\ strong'[i] = 0 /\ weak'[i] = 0 /\ live'[i] = live[i]
      /\ pc'[t] = IF kind = "object" THEN "push" ELSE "callback"
      /\ \A u \in Threads \ {t} : pc'[u] = pc[u] /\ block'[u] = block[u]
      /\ \A j \in Index \ {i} : /\ strong'[j] = strong[j] /\ weak'[j] = weak[j]
                                /\ live'[j] = live[j]
                                /\ Offset(j) \in loaned => Offset(j) \in loaned'
  BY <1>3, <1>4 DEF HeapTypes
<1>9. kind = "object" => live[i] = {}
  <2>1. ASSUME kind = "object" PROVE Objects = {0} /\ Unbuilt(i) /= {} /\ live[i] \subseteq {0}
    BY <1>1, <1>3, <2>1 DEF Objects, HeapTypes, ConstructorThrows
  <2> QED BY <2>1 DEF Unbuilt
<1>10. kind /= "object" => threw' \/ live[i] = Objects
  <2>1. CASE kind = "array"
    BY <1>4, <2>1
  <2>2. CASE kind = "arithmetic"
    BY <1>3, <2>2 DEF Objects, HeapTypes
  <2> QED BY <1>3, <2>1, <2>2 DEF HeapTypes, Kinds
<1>11. BlockOK(i)'
  BY <1>2, <1>4, <1>6, <1>8, <1>9 DEF BlockOK
<1>12. ThreadOK(t)'
  <2>1. block'[t] = i /\ i /= Nothing
    BY <1>1, <1>4, HeapAssumption DEF Index
  <2>2. Offset(block[t])' = Offset(i)
    BY <1>4, <2>1 DEF Offset
  <2> QED BY <1>2, <1>4, <1>6, <1>8, <1>9, <1>10, <2>1, <2>2 DEF ThreadOK
<1> QED
  BY ONLY HeapInv, <1>1, <1>2, <1>4, <1>5, <1>7, <1>8, <1>11, <1>12, OneBlock, t \in Threads

\* The counts of a block nobody constructs grow, or fall to what others still hold.
LEMMA CountsKeep ==
  ASSUME HeapInv, NEW t \in Threads, NEW i \in Index, Uses(t, i),
         NEW s \in Nat, NEW w \in Nat,
         strong[i] > 0, weak[i] > 0, w > 0, s > 0,
         strong' = [strong EXCEPT ![i] = s], weak' = [weak EXCEPT ![i] = w],
         UNCHANGED <<vars, kind, pool, arrays, live, pc, block, threw, misused, crashed>>
  PROVE  HeapInv'
<1>1. Offset(i) \in loaned /\ initialized /\ pool = "ready"
  BY CountedBlock
<1>2. HeapTypes /\ IInv /\ Blame /\ BlockOK(i) /\ ThreadOK(t)
  BY DEF HeapInv
<1>3. pc[t] = "idle" /\ block[t] = Nothing
  BY <1>2 DEF Uses, At, ThreadOK
<1>4. UNCHANGED vars /\ loaned' = loaned /\ initialized' = initialized
  BY DEF vars
<1>5. IInv'
  BY <1>2, <1>4, NextIInv
<1>6. Objects' = Objects /\ Offset(i)' = Offset(i) /\ i /= Nothing
  BY HeapAssumption DEF Objects, Offset, Index
<1>7. HeapTypes' /\ Blame'
  <2>1. strong' \in [Index -> Nat] /\ weak' \in [Index -> Nat]
    BY <1>2 DEF HeapTypes
  <2> QED BY <1>2, <1>4, <1>6, <2>1 DEF HeapTypes, Blame
<1>8. /\ strong'[i] = s /\ weak'[i] = w
      /\ \A u \in Threads \ {t} : pc'[u] = pc[u] /\ block'[u] = block[u]
      /\ \A j \in Index \ {i} : /\ strong'[j] = strong[j] /\ weak'[j] = weak[j]
                                /\ live'[j] = live[j]
                                /\ Offset(j) \in loaned => Offset(j) \in loaned'
  BY <1>2, <1>4 DEF HeapTypes
<1>9. ~Constructing(i) /\ (Constructing(i)' <=> Constructing(i))
  BY DEF Uses, Constructing
<1>10. BlockOK(i)'
  <2>1. live[i] = Objects
    BY <1>2, <1>9 DEF BlockOK
  <2> QED BY <1>1, <1>4, <1>6, <1>8, <2>1 DEF BlockOK
<1>11. ThreadOK(t)'
  BY <1>3 DEF ThreadOK
<1>12. ASSUME NEW u \in Threads \ {t}, block[u] = i PROVE FALSE
  <2>1. ThreadOK(u) /\ pc[u] \in Labels
    BY <1>2 DEF HeapInv, HeapTypes
  <2>2. pc[u] \in {"construct"}
    BY <1>6, <1>12, <2>1 DEF ThreadOK, Labels
  <2> QED BY <1>12, <2>2 DEF Uses
<1> QED
  BY ONLY HeapInv, <1>3, <1>4, <1>5, <1>7, <1>8, <1>10, <1>11, <1>12, OneBlock,
          UNCHANGED <<kind, threw, block>>, t \in Threads, i \in Index

\* Who else works on the block of a handle: nobody while a shared_ptr is left, and
\* then only its disposer while a weak_ptr is.
LEMMA OthersOnBlock ==
  ASSUME HeapInv, NEW t \in Threads, NEW i \in Index, Uses(t, i),
         NEW u \in Threads, block[u] = i
  PROVE  strong[i] = 0 /\ (weak[i] > 0 => pc[u] = "dispose")
<1>1. ThreadOK(u) /\ pc[u] \in Labels /\ i /= Nothing
  BY HeapAssumption DEF HeapInv, HeapTypes, Index
<1>2. pc[u] \in {"dispose", "callback", "push"}
  BY <1>1 DEF ThreadOK, Labels, Uses
<1> QED BY <1>1, <1>2 DEF ThreadOK

\* Copying a shared_ptr, making a weak_ptr and locking one.
LEMMA HandlesKeep ==
  ASSUME HeapInv, NEW t \in Threads, NEW i \in Index,
         Copy(t, i) \/ MakeWeak(t, i) \/ LockWeak(t, i)
  PROVE  HeapInv'
<1>1. /\ strong \in [Index -> Nat] /\ weak \in [Index -> Nat]
      /\ strong[i] \in Nat /\ weak[i] \in Nat
      /\ strong = [strong EXCEPT ![i] = strong[i]]
      /\ weak = [weak EXCEPT ![i] = weak[i]]
  BY DEF HeapInv, HeapTypes
<1>2. Uses(t, i) /\ strong[i] > 0
  BY HeapAssumption DEF Copy, MakeWeak, LockWeak
<1>3. weak[i] > 0
  BY <1>2, CountedBlock
<1>4. CASE Copy(t, i) \/ LockWeak(t, i)
  <2>1. /\ strong' = [strong EXCEPT ![i] = strong[i] + 1]
        /\ weak' = [weak EXCEPT ![i] = weak[i]]
        /\ UNCHANGED <<vars, kind, pool, arrays, live, pc, block, threw, misused, crashed>>
    BY <1>1, <1>4 DEF Copy, LockWeak
  <2>2. strong[i] + 1 \in Nat /\ strong[i] + 1 > 0
    BY <1>1
  <2> QED BY ONLY HeapInv, t \in Threads, i \in Index, <1>1, <1>2, <1>3, <2>1, <2>2, CountsKeep
<1>5. CASE MakeWeak(t, i)
  <2>1. /\ weak' = [weak EXCEPT ![i] = weak[i] + 1]
        /\ strong' = [strong EXCEPT ![i] = strong[i]]
        /\ UNCHANGED <<vars, kind, pool, arrays, live, pc, block, threw, misused, crashed>>
    BY <1>1, <1>5 DEF MakeWeak
  <2>2. weak[i] + 1 \in Nat /\ weak[i] + 1 > 0
    BY <1>1
  <2> QED BY ONLY HeapInv, t \in Threads, i \in Index, <1>1, <1>2, <1>3, <2>1, <2>2, CountsKeep
<1> QED BY <1>4, <1>5

\* A shared_ptr is released: the last one's thread disposes of the object.
LEMMA ReleaseKeeps ==
  ASSUME HeapInv, NEW t \in Threads, NEW i \in Index, Release(t, i)
  PROVE  HeapInv'
<1>1. Uses(t, i) /\ strong[i] > 0 /\ strong[i] \in Nat /\ weak[i] \in Nat
  BY DEF Release, HeapInv, HeapTypes
<1>2. Offset(i) \in loaned /\ initialized /\ pool = "ready" /\ weak[i] > 0
  BY <1>1, CountedBlock
<1>3. HeapTypes /\ IInv /\ Blame /\ BlockOK(i) /\ ThreadOK(t)
  BY DEF HeapInv
<1>4. /\ UNCHANGED vars /\ loaned' = loaned /\ initialized' = initialized
      /\ kind' = kind /\ pool' = pool /\ arrays' = arrays /\ live' = live
      /\ weak' = weak /\ threw' = threw /\ misused' = misused /\ crashed' = crashed
      /\ strong' = [strong EXCEPT ![i] = strong[i] - 1]
  BY DEF Release, vars
<1>5. CASE strong[i] > 1
  <2>1. UNCHANGED <<vars, kind, pool, arrays, live, pc, block, threw, misused, crashed>>
    BY <1>5 DEF Release
  <2>2. strong[i] - 1 \in Nat /\ strong[i] - 1 > 0
    BY <1>1, <1>5
  <2>3. weak' = [weak EXCEPT ![i] = weak[i]]
    BY <1>3, <1>4 DEF HeapTypes
  <2> QED
    BY ONLY HeapInv, t \in Threads, i \in Index, <1>1, <1>2, <1>4, <2>1, <2>2, <2>3, CountsKeep
<1>6. CASE ~(strong[i] > 1)
  <2>1. /\ pc' = [pc EXCEPT ![t] = "dispose"] /\ block' = [block EXCEPT ![t] = i]
        /\ strong[i] = 1
    BY <1>1, <1>6 DEF Release, Goto
  <2>2. pc[t] = "idle" /\ block[t] = Nothing /\ i /= Nothing
    BY <1>1, <1>3, HeapAssumption DEF Uses, At, ThreadOK, Index
  <2>3. IInv'
    BY <1>3, <1>4, NextIInv
  <2>4. Objects' = Objects /\ Offset(i)' = Offset(i)
    BY <1>4 DEF Objects, Offset
  <2>5. HeapTypes' /\ Blame'
    <3>1. /\ strong' \in [Index -> Nat] /\ pc' \in [Threads -> Labels]
          /\ block' \in [Threads -> Index \cup {Nothing}]
      BY <1>1, <1>3, <1>4, <2>1 DEF HeapTypes, Labels
    <3> QED BY <1>3, <1>4, <2>4, <3>1 DEF HeapTypes, Blame
  <2>6. /\ strong'[i] = 0 /\ pc'[t] = "dispose" /\ block'[t] = i
        /\ \A u \in Threads \ {t} : pc'[u] = pc[u] /\ block'[u] = block[u]
        /\ \A j \in Index \ {i} : /\ strong'[j] = strong[j] /\ weak'[j] = weak[j]
                                  /\ live'[j] = live[j]
                                  /\ Offset(j) \in loaned => Offset(j) \in loaned'
    BY <1>3, <1>4, <2>1 DEF HeapTypes
  <2>7. \A u \in Threads \ {t} : block[u] /= i
    BY <1>1, OthersOnBlock
  <2>8. ~Constructing(i) /\ Disposing(i)'
    BY <1>1, <2>6 DEF Uses, Constructing, Disposing
  <2>9. BlockOK(i)'
    <3>1. live[i] = Objects
      BY <1>1, <1>3, <2>8 DEF BlockOK
    <3> QED BY <1>2, <1>4, <2>4, <2>6, <2>8, <3>1 DEF BlockOK
  <2>10. ThreadOK(t)'
    <3>1. Offset(block[t])' = Offset(i)
      BY <2>6 DEF Offset
    <3> QED BY <1>2, <1>4, <2>2, <2>6, <3>1 DEF ThreadOK
  <2> QED
    BY ONLY HeapInv, t \in Threads, i \in Index, <1>4, <2>2, <2>3, <2>5, <2>6, <2>7, <2>9,
            <2>10, OneBlock
<1> QED BY <1>5, <1>6

\* One count less, and with the last the block goes its way back: what the end of
\* the shared_ptrs and the end of a weak_ptr have in common.
LEMMA WeakGoneKeeps ==
  ASSUME HeapInv, NEW t \in Threads, NEW i \in Index, WeakGone(t, i),
         block[t] \in {i, Nothing}, pc[t] \in {"idle", "dispose"}, weak[i] > 0,
         ~Constructing(i),
         \A u \in Threads \ {t} : block[u] = i => pc[u] = "dispose" /\ weak[i] > 1,
         block[t] = i \/ weak[i] = 1 => strong[i] = 0,
         live' = IF kind = "object" /\ block[t] = i THEN [live EXCEPT ![i] = {}] ELSE live,
         kind = "object" /\ weak[i] = 1 => live'[i] = {},
         UNCHANGED <<vars, kind, pool, arrays, strong, threw, misused, crashed>>
  PROVE  HeapInv'
<1>1. Offset(i) \in loaned /\ initialized /\ pool = "ready" /\ weak[i] \in Nat
  BY CountedBlock DEF HeapInv, HeapTypes
<1>2. HeapTypes /\ IInv /\ Blame /\ BlockOK(i) /\ ThreadOK(t) /\ i /= Nothing
  BY HeapAssumption DEF HeapInv, Index
<1>3. UNCHANGED vars /\ loaned' = loaned /\ initialized' = initialized
  BY DEF vars
<1>4. IInv'
  BY <1>2, <1>3, NextIInv
<1>5. Objects' = Objects /\ Offset(i)' = Offset(i)
  BY DEF Objects, Offset
<1>6. weak' = [weak EXCEPT ![i] = weak[i] - 1] /\ weak[i] - 1 \in Nat
  BY <1>1 DEF WeakGone
<1>7. PICK label \in {"idle", "push", "callback"}, b \in {i, Nothing} :
        /\ pc' = [pc EXCEPT ![t] = label] /\ block' = [block EXCEPT ![t] = b]
        /\ weak[i] > 1 => label = "idle" /\ b = Nothing
        /\ ~(weak[i] > 1) => /\ label = IF kind = "object" THEN "push" ELSE "callback"
                             /\ b = i
  BY DEF WeakGone, Done, Goto
<1>8. /\ weak'[i] = weak[i] - 1 /\ strong' = strong
      /\ live'[i] = IF kind = "object" /\ block[t] = i THEN {} ELSE live[i]
      /\ pc'[t] = label /\ block'[t] = b
      /\ \A u \in Threads \ {t} : pc'[u] = pc[u] /\ block'[u] = block[u]
      /\ \A j \in Index \ {i} : /\ strong'[j] = strong[j] /\ weak'[j] = weak[j]
                                /\ live'[j] = live[j]
                                /\ Offset(j) \in loaned => Offset(j) \in loaned'
  BY <1>2, <1>3, <1>6, <1>7 DEF HeapTypes
<1>9. HeapTypes' /\ Blame'
  <2>1. /\ weak' \in [Index -> Nat] /\ live' \in [Index -> SUBSET Objects]
        /\ pc' \in [Threads -> Labels] /\ block' \in [Threads -> Index \cup {Nothing}]
    BY <1>2, <1>6, <1>7 DEF HeapTypes, Labels
  <2> QED BY <1>2, <1>3, <1>5, <2>1 DEF HeapTypes, Blame
<1>10. BlockOK(i)'
  <2>1. (strong[i] > 0 => weak'[i] > 0) /\ strong[i] \in Nat
    BY <1>1, <1>2, <1>8 DEF BlockOK, HeapTypes
  <2>2. (strong[i] > 0 \/ kind /= "object") => live'[i] = live[i]
    BY <1>8
  <2>3. (kind /= "object" \/ strong[i] > 0) => live'[i] = Objects
    BY <1>2, <2>2 DEF BlockOK
  <2>4. ASSUME kind = "object", strong[i] = 0, ~Disposing(i)' PROVE live'[i] = {}
    <3>1. CASE block[t] = i \/ weak[i] = 1
      BY <1>8, <2>4, <3>1
    <3>2. CASE block[t] = Nothing /\ weak[i] > 1
      <4>1. ~Disposing(i)
        BY <1>2, <1>8, <2>4, <3>2 DEF Disposing
      <4> QED BY <1>2, <1>8, <2>4, <3>2, <4>1 DEF BlockOK
    <3> QED BY <1>1, <3>1, <3>2
  <2> QED BY <1>1, <1>3, <1>5, <1>8, <2>1, <2>3, <2>4 DEF BlockOK
<1>11. ThreadOK(t)'
  <2>1. CASE weak[i] > 1
    BY <1>7, <1>8, <2>1 DEF ThreadOK
  <2>2. CASE ~(weak[i] > 1)
    <3>1. /\ block'[t] = i /\ weak'[i] = 0 /\ strong'[i] = 0
          /\ pc'[t] = IF kind = "object" THEN "push" ELSE "callback"
      BY <1>1, <1>7, <1>8, <2>2
    <3>2. kind /= "object" => live'[i] = Objects
      BY <1>2, <1>8 DEF BlockOK
    <3>3. kind = "object" => live'[i] = {}
      BY <1>1, <2>2
    <3>4. Offset(block[t])' = Offset(i)
      BY <3>1 DEF Offset
    <3> QED BY <1>1, <1>2, <1>3, <1>5, <3>1, <3>2, <3>3, <3>4 DEF ThreadOK
  <2> QED BY <2>1, <2>2
<1>12. \A u \in Threads \ {t} : block[u] = i => ThreadOK(u)'
  <2> SUFFICES ASSUME NEW u \in Threads \ {t}, block[u] = i PROVE ThreadOK(u)'
    OBVIOUS
  <2>1. ThreadOK(u) /\ pc[u] = "dispose" /\ weak[i] > 1
    BY DEF HeapInv
  <2>2. /\ pc'[u] = "dispose" /\ block'[u] = i /\ strong'[i] = strong[i] /\ weak'[i] > 0
    BY <1>1, <1>8, <2>1
  <2>3. Offset(block[u])' = Offset(i)
    BY <2>2 DEF Offset
  <2> QED BY <1>1, <1>2, <1>3, <2>1, <2>2, <2>3 DEF ThreadOK
<1>13. b = i => \A u \in Threads \ {t} : block[u] /= i
  BY <1>2, <1>7
<1> QED
  BY ONLY HeapInv, t \in Threads, i \in Index, <1>3, <1>4, <1>7, <1>8, <1>9, <1>10, <1>11,
          <1>12, <1>13, OneBlock, UNCHANGED <<kind, threw>>, block[t] \in {i, Nothing}

\* The last owner destroys the objects before the block is returned.
LEMMA DisposeKeeps ==
  ASSUME HeapInv, NEW t \in Threads, Dispose(t) PROVE HeapInv'
<1>1. PICK i \in Index : i = block[t]
  BY BusyThread DEF Dispose, At
<1>2. pc[t] = "dispose" /\ \A u \in Threads \ {t} : block[u] /= i
  BY <1>1, BusyThread DEF Dispose, At
<1>3. strong[i] = 0 /\ weak[i] > 0 /\ live \in [Index -> SUBSET Objects]
  BY <1>1, <1>2 DEF HeapInv, HeapTypes, ThreadOK
<1>4. ~Constructing(i)
  BY <1>1, <1>2 DEF Constructing
<1>5. live' = IF kind = "object" /\ block[t] = i THEN [live EXCEPT ![i] = {}] ELSE live
  BY <1>1 DEF Dispose
<1>6. kind = "object" => live'[i] = {}
  BY <1>1, <1>3, <1>5
<1>7. /\ WeakGone(t, i)
      /\ UNCHANGED <<vars, kind, pool, arrays, strong, threw, misused, crashed>>
  BY <1>1 DEF Dispose
<1> QED
  BY ONLY HeapInv, t \in Threads, i \in Index, <1>1, <1>2, <1>3, <1>4, <1>5, <1>6, <1>7,
          WeakGoneKeeps

\* A weak handle goes, perhaps as the last of all.
LEMMA DropWeakKeeps ==
  ASSUME HeapInv, NEW t \in Threads, NEW i \in Index, DropWeak(t, i) PROVE HeapInv'
<1>1. /\ HeapTypes /\ BlockOK(i) /\ ThreadOK(t) /\ i /= Nothing
      /\ strong[i] \in Nat /\ weak[i] \in Nat
  BY HeapAssumption DEF HeapInv, HeapTypes, Index
<1>2. Uses(t, i) /\ WeakPointers(i) > 0 /\ pc[t] = "idle" /\ block[t] = Nothing
  BY <1>1 DEF DropWeak, Uses, At, ThreadOK
<1>3. weak[i] > 0 /\ (weak[i] = 1 => strong[i] = 0 /\ ~Disposing(i))
  BY <1>1, <1>2 DEF WeakPointers, Disposing
<1>4. ~Constructing(i)
  BY <1>2 DEF Uses, Constructing
<1>5. \A u \in Threads \ {t} : block[u] = i => pc[u] = "dispose" /\ weak[i] > 1
  <2> SUFFICES ASSUME NEW u \in Threads, block[u] = i PROVE pc[u] = "dispose" /\ weak[i] > 1
    OBVIOUS
  <2>1. pc[u] = "dispose"
    BY <1>2, <1>3, OthersOnBlock
  <2> QED BY <1>1, <1>3, <2>1 DEF Disposing
<1>6. live' = IF kind = "object" /\ block[t] = i THEN [live EXCEPT ![i] = {}] ELSE live
  BY <1>1, <1>2 DEF DropWeak
<1>7. kind = "object" /\ weak[i] = 1 => live'[i] = {}
  BY <1>1, <1>2, <1>3, <1>4, <1>6 DEF BlockOK
<1>8. /\ WeakGone(t, i)
      /\ UNCHANGED <<vars, kind, pool, arrays, strong, threw, misused, crashed>>
  BY DEF DropWeak
<1>9. block[t] = i \/ weak[i] = 1 => strong[i] = 0
  BY <1>1, <1>2, <1>3
<1> QED
  BY ONLY HeapInv, t \in Threads, i \in Index, <1>2, <1>3, <1>4, <1>5, <1>6, <1>7, <1>8, <1>9,
          WeakGoneKeeps

\* The destructor callback takes the objects of an array that is going back; one
\* was never constructed only if a constructor threw.
LEMMA DestructorCallbackKeeps ==
  ASSUME HeapInv, NEW t \in Threads, DestructorCallback(t) PROVE HeapInv'
<1>1. PICK i \in Index : i = block[t]
  BY BusyThread DEF DestructorCallback, At
<1>2. /\ Offset(i) \in loaned /\ initialized /\ pool = "ready"
      /\ \A u \in Threads \ {t} : block[u] /= i
      /\ pc[t] = "callback" /\ ~crashed
  BY <1>1, BusyThread DEF DestructorCallback, At
<1>3. HeapTypes /\ IInv /\ Blame /\ ThreadOK(t) /\ i /= Nothing
  BY HeapAssumption DEF HeapInv, Index
<1>4. /\ UNCHANGED vars /\ loaned' = loaned /\ initialized' = initialized
      /\ kind' = kind /\ pool' = pool /\ arrays' = arrays /\ threw' = threw
      /\ strong' = strong /\ weak' = weak /\ block' = block
      /\ live' = [live EXCEPT ![i] = {}] /\ pc' = [pc EXCEPT ![t] = "push"]
      /\ misused' = (misused \/ Unbuilt(i) /= {})
      /\ crashed' => Unbuilt(i) /= {}
  BY <1>1 DEF DestructorCallback, vars, refVars, Goto
<1>5. IInv'
  BY <1>3, <1>4, NextIInv
<1>6. Objects' = Objects /\ Offset(i)' = Offset(i)
  BY <1>4 DEF Objects, Offset
<1>7. strong[i] = 0 /\ weak[i] = 0 /\ (Unbuilt(i) /= {} => threw)
  BY <1>1, <1>2, <1>3 DEF ThreadOK, Unbuilt
<1>8. HeapTypes'
  <2>1. live' \in [Index -> SUBSET Objects] /\ pc' \in [Threads -> Labels]
    BY <1>3, <1>4 DEF HeapTypes, Labels
  <2>2. misused' \in BOOLEAN
    BY <1>4
  <2> QED BY <1>3, <1>4, <1>6, <2>1, <2>2 DEF HeapTypes
<1>9. Blame'
  BY <1>2, <1>3, <1>4, <1>7 DEF Blame
<1>10. /\ live'[i] = {} /\ pc'[t] = "push" /\ block'[t] = i
       /\ \A u \in Threads \ {t} : pc'[u] = pc[u] /\ block'[u] = block[u]
       /\ \A j \in Index \ {i} : /\ strong'[j] = strong[j] /\ weak'[j] = weak[j]
                                 /\ live'[j] = live[j]
                                 /\ Offset(j) \in loaned => Offset(j) \in loaned'
  BY <1>1, <1>3, <1>4 DEF HeapTypes
<1>11. BlockOK(i)'
  BY <1>2, <1>4, <1>6, <1>7, <1>10 DEF BlockOK
<1>12. ThreadOK(t)'
  <2>1. Offset(block[t])' = Offset(i)
    BY <1>10 DEF Offset
  <2> QED BY <1>2, <1>3, <1>4, <1>7, <1>10, <2>1 DEF ThreadOK
<1> QED
  BY ONLY HeapInv, t \in Threads, i \in Index, <1>1, <1>2, <1>4, <1>5, <1>8, <1>9, <1>10, <1>11,
          <1>12, OneBlock

\* Accept: a block comes back that is on loan, without counts and without objects.
LEMMA PushBackKeeps ==
  ASSUME HeapInv, NEW t \in Threads, PushBack(t)
  PROVE  HeapInv' /\ \E p \in loaned : Accept(p)
<1>1. PICK i \in Index : i = block[t]
  BY BusyThread DEF PushBack, At
<1>2. /\ Offset(i) \in loaned /\ initialized /\ pool = "ready"
      /\ \A u \in Threads \ {t} : block[u] /= i
      /\ pc[t] = "push" /\ ~crashed
  BY <1>1, BusyThread DEF PushBack, At
<1>3. HeapTypes /\ IInv /\ Blame /\ ThreadOK(t) /\ i /= Nothing
  BY HeapAssumption DEF HeapInv, Index
<1>4. /\ Accept(Offset(i)) /\ loaned' = loaned \ {Offset(i)} /\ initialized' = initialized
      /\ kind' = kind /\ pool' = pool /\ arrays' = arrays /\ live' = live
      /\ strong' = strong /\ weak' = weak
      /\ threw' = threw /\ misused' = misused /\ crashed' = crashed
      /\ pc' = [pc EXCEPT ![t] = "idle"] /\ block' = [block EXCEPT ![t] = Nothing]
  BY <1>1 DEF PushBack, Accept, refVars, Done, Goto
<1>5. IInv'
  BY <1>2, <1>3, <1>4, AcceptIInv
<1>6. Objects' = Objects /\ Offset(i)' = Offset(i)
  BY <1>4 DEF Objects, Offset
<1>7. strong[i] = 0 /\ weak[i] = 0 /\ live[i] = {}
  BY <1>1, <1>2, <1>3 DEF ThreadOK
<1>8. HeapTypes' /\ Blame'
  <2>1. pc' \in [Threads -> Labels] /\ block' \in [Threads -> Index \cup {Nothing}]
    BY <1>3, <1>4 DEF HeapTypes, Labels
  <2> QED BY <1>3, <1>4, <1>6, <2>1 DEF HeapTypes, Blame
<1>9. /\ pc'[t] = "idle" /\ block'[t] = Nothing
      /\ \A u \in Threads \ {t} : pc'[u] = pc[u] /\ block'[u] = block[u]
      /\ \A j \in Index \ {i} : /\ strong'[j] = strong[j] /\ weak'[j] = weak[j]
                                /\ live'[j] = live[j]
                                /\ Offset(j) \in loaned => Offset(j) \in loaned'
  BY <1>3, <1>4, OffsetsDiffer DEF HeapTypes
<1>10. BlockOK(i)'
  BY <1>4, <1>7 DEF BlockOK
<1>11. ThreadOK(t)'
  BY <1>9 DEF ThreadOK
<1>12. HeapInv'
  BY ONLY HeapInv, t \in Threads, i \in Index, <1>1, <1>2, <1>3, <1>4, <1>5, <1>8, <1>9, <1>10,
          <1>11, OneBlock
<1> QED BY <1>2, <1>4, <1>12

\* Steps that leave all blocks and threads as they are.
LEMMA NothingMoves ==
  ASSUME HeapInv, IInv', Blame', loaned' = loaned,
         UNCHANGED <<kind, strong, weak, live, pc, block, threw, misused>>
  PROVE  HeapInv'
<1>1. /\ HeapTypes /\ Alone
      /\ \A i \in Index : BlockOK(i)
      /\ \A t \in Threads : ThreadOK(t)
  BY DEF HeapInv
<1>2. Objects' = Objects
  BY DEF Objects
<1>3. HeapTypes'
  BY <1>1, <1>2 DEF HeapTypes
<1>4. \A i \in Index : BlockOK(i)'
  BY <1>1, <1>2 DEF BlockOK, Constructing, Disposing, Offset
<1>5. \A t \in Threads : ThreadOK(t)'
  BY <1>1, <1>2 DEF ThreadOK, Offset
<1>6. Alone'
  BY <1>1 DEF Alone
<1> QED BY <1>3, <1>4, <1>5, <1>6 DEF HeapInv

\* The pool is built once; nobody has a block before.
LEMMA BuildKeeps ==
  ASSUME HeapInv, Build \/ BuildFails PROVE HeapInv'
<1>1. /\ IInv /\ Blame /\ pool = "unbuilt" /\ ~initialized /\ ~crashed
  BY DEF HeapInv, Blame, Build, BuildFails
<1>2. CASE Build
  <2>1. IInv'
    BY <1>1, <1>2, AllocateIInv DEF Build
  <2>2. /\ loaned' = loaned /\ pool' = "ready"
        /\ crashed' = crashed /\ misused' = misused /\ threw' = threw
        /\ UNCHANGED <<kind, strong, weak, live, pc, block, threw, misused>>
    BY <1>2 DEF Build, Allocate, refVars
  <2>3. Blame'
    BY <1>1, <2>2 DEF Blame
  <2> QED BY <2>1, <2>2, <2>3, NothingMoves
<1>3. CASE BuildFails
  <2>1. /\ UNCHANGED vars /\ loaned' = loaned /\ initialized' = initialized
        /\ crashed' = crashed /\ misused' = misused /\ threw' = threw
        /\ UNCHANGED <<kind, strong, weak, live, pc, block, threw, misused>>
    BY <1>3 DEF BuildFails, vars, refVars
  <2>2. IInv'
    BY <1>1, <2>1, NextIInv
  <2>3. Blame'
    BY <1>1, <2>1 DEF Blame
  <2> QED BY <2>1, <2>2, <2>3, NothingMoves
<1> QED BY <1>2, <1>3

\* deallocate(nullptr) changes nothing.
LEMMA DeallocateNullKeeps ==
  ASSUME HeapInv, NEW t \in Threads, DeallocateNull(t) PROVE HeapInv'
<1>1. /\ IInv /\ Blame /\ loaned' = loaned \ {Null} /\ initialized' = initialized
      /\ pool' = pool /\ arrays' = arrays /\ crashed' = crashed /\ Accept(Null)
      /\ UNCHANGED <<kind, strong, weak, live, pc, block, threw, misused>>
      /\ misused' = misused /\ threw' = threw
  BY DEF HeapInv, DeallocateNull, Accept, refVars
<1>2. IInv' /\ loaned' = loaned
  BY <1>1, AcceptIInv, NullIsNoOffset DEF IInv, TypeOK
<1>3. Blame'
  BY <1>1 DEF Blame
<1> QED BY <1>1, <1>2, <1>3, NothingMoves

\* Loan: the block that leaves the stack has no counts, no objects and no thread.
LEMMA AllocateSharedKeeps ==
  ASSUME HeapInv, NEW t \in Threads, AllocateShared(t) PROVE HeapInv'
<1>1. HeapTypes /\ IInv /\ Blame /\ ThreadOK(t)
  BY DEF HeapInv
<1>2. /\ kind' = kind /\ pool' = pool /\ arrays' = arrays /\ live' = live
      /\ threw' = threw /\ misused' = misused /\ crashed' = crashed
      /\ pc[t] = "idle" /\ ~crashed
  BY DEF AllocateShared, At
<1>3. CASE pool = "null" \/ ~CanLoan
  <2>1. /\ UNCHANGED vars /\ loaned' = loaned /\ initialized' = initialized
        /\ UNCHANGED <<kind, strong, weak, live, pc, block, threw, misused>>
    BY <1>2, <1>3 DEF AllocateShared, Loan, Pop, vars, refVars
  <2>2. IInv'
    BY <1>1, <2>1, NextIInv
  <2>3. Blame'
    BY <1>1, <1>2, <2>1 DEF Blame
  <2> QED BY <2>1, <2>2, <2>3, NothingMoves
<1>4. CASE pool /= "null" /\ CanLoan
  <2>1. /\ pool = "ready" /\ initialized /\ Pop /\ initialized' = initialized
        /\ loaned' = loaned \cup {Top}
    BY <1>4 DEF AllocateShared, Loan
  <2>2. Top \in Free /\ Top \notin loaned
    <3>1. /\ nAvailable \in 0 .. nElementsTotal /\ nAvailable > 0
          /\ countPerElement > 0 /\ nAvailable - 1 \in OnStack
      BY <1>1, <1>4, SizesAssumption DEF IInv, TypeOK, CanLoan, OnStack
    <3> QED BY <1>1, <2>1, <3>1 DEF IInv, NoDoubleLoan, Top, Free
  <2>3. PICK i \in Index : Top = Offset(i)
    BY <1>1, <2>1, <2>2 DEF IInv, NothingLost, Offsets
  <2>4. GetElementNumber(Top) = i /\ Offset(i) \notin loaned /\ Offset(i) \in loaned'
    BY <2>1, <2>2, <2>3, NumberOfOffset
  <2>5. /\ block' = [block EXCEPT ![t] = i] /\ pc' = [pc EXCEPT ![t] = "construct"]
        /\ strong' = [strong EXCEPT ![i] = 1] /\ weak' = [weak EXCEPT ![i] = 1]
    BY <1>4, <2>1, <2>4 DEF AllocateShared, Goto
  <2>6. IInv'
    BY <1>1, <2>1, PopIInv
  <2>7. Objects' = Objects /\ Offset(i)' = Offset(i) /\ i /= Nothing
    BY <1>2, HeapAssumption DEF Objects, Offset, Index
  <2>8. block[t] = Nothing /\ \A u \in Threads : block[u] /= i
    <3>1. block[t] = Nothing
      BY <1>1, <1>2 DEF ThreadOK
    <3>2. ASSUME NEW u \in Threads, block[u] = i PROVE FALSE
      <4>1. ThreadOK(u)
        BY DEF HeapInv
      <4> QED BY <2>4, <2>7, <3>2, <4>1 DEF ThreadOK
    <3> QED BY <3>1, <3>2
  <2>9. HeapTypes' /\ Blame'
    <3>1. /\ strong' \in [Index -> Nat] /\ weak' \in [Index -> Nat]
          /\ pc' \in [Threads -> Labels] /\ block' \in [Threads -> Index \cup {Nothing}]
      BY <1>1, <2>5 DEF HeapTypes, Labels
    <3> QED BY <1>1, <1>2, <2>1, <2>7, <3>1 DEF HeapTypes, Blame
  <2>10. /\ strong'[i] = 1 /\ weak'[i] = 1 /\ pc'[t] = "construct" /\ block'[t] = i
         /\ \A u \in Threads \ {t} : pc'[u] = pc[u] /\ block'[u] = block[u]
         /\ \A j \in Index \ {i} : /\ strong'[j] = strong[j] /\ weak'[j] = weak[j]
                                   /\ live'[j] = live[j]
                                   /\ Offset(j) \in loaned => Offset(j) \in loaned'
    BY <1>1, <1>2, <2>1, <2>5 DEF HeapTypes
  <2>11. BlockOK(i)'
    <3>1. Constructing(i)'
      BY <2>10 DEF Constructing
    <3> QED BY <2>4, <2>7, <2>10, <3>1 DEF BlockOK
  <2>12. ThreadOK(t)'
    <3>1. Offset(block[t])' = Offset(i)
      BY <2>10 DEF Offset
    <3> QED BY <2>4, <2>7, <2>10, <3>1 DEF ThreadOK
  <2> QED
    BY ONLY HeapInv, t \in Threads, i \in Index, <1>2, <2>6, <2>8, <2>9, <2>10, <2>11, <2>12,
            OneBlock
<1> QED BY <1>3, <1>4

\* Every step of the pool and of the threads that share it keeps the invariant.
LEMMA HeapStep == HeapInv /\ [HeapNext]_heapVars => HeapInv'
<1> SUFFICES ASSUME HeapInv, [HeapNext]_heapVars PROVE HeapInv'
  OBVIOUS
<1>1. CASE Build \/ BuildFails
  BY <1>1, BuildKeeps
<1>2. ASSUME NEW t \in Threads, Step(t) PROVE HeapInv'
  BY <1>2, ConstructKeeps, DisposeKeeps, DestructorCallbackKeeps, PushBackKeeps DEF Step
<1>3. ASSUME NEW t \in Threads,
             AllocateShared(t) \/ ConstructorThrows(t) \/ DeallocateNull(t)
      PROVE  HeapInv'
  BY <1>3, AllocateSharedKeeps, ConstructorThrowsKeeps, DeallocateNullKeeps
<1>4. ASSUME NEW t \in Threads, NEW i \in Index, Use(t, i) PROVE HeapInv'
  BY <1>4, HandlesKeep, ReleaseKeeps, DropWeakKeeps DEF Use
<1>5. CASE UNCHANGED heapVars
  <2>1. UNCHANGED vars /\ loaned' = loaned /\ initialized' = initialized /\ IInv
    BY <1>5 DEF heapVars, vars, HeapInv
  <2>2. IInv'
    BY <2>1, NextIInv
  <2>3. Blame'
    BY <1>5, <2>1 DEF HeapInv, Blame, heapVars
  <2> QED BY <1>5, <2>1, <2>2, <2>3, NothingMoves DEF heapVars, refVars
<1> QED BY <1>1, <1>2, <1>3, <1>4, <1>5 DEF HeapNext

\* The invariant of blocks and threads holds however the threads interleave and
\* whatever constructor throws.
THEOREM HeapInvariance == HeapSpec => []HeapInv
<1>1. HeapInit => HeapInv
  BY HeapInitially
<1> QED BY <1>1, HeapStep, PTL DEF HeapSpec

\* Objects live as long as the handles on them and no longer (allocate_shared,
\* the deleter, Accept's destructor callback); undefined behaviour needs a
\* constructor of an array that threw, or arrays without memory.
THEOREM ObjectsLive == HeapSpec => []ObjectLifetimes
<1>1. HeapInv => ObjectLifetimes
  <2> SUFFICES ASSUME HeapInv PROVE ObjectLifetimes
    OBVIOUS
  <2>1. ASSUME NEW i \in Index, strong[i] > 0, \A t \in Threads : block[t] /= i
        PROVE  live[i] = Objects
    <3>1. BlockOK(i) /\ ~Constructing(i)
      BY <2>1 DEF HeapInv, Constructing
    <3> QED BY <2>1, <3>1 DEF BlockOK
  <2>2. ASSUME initialized, NEW p \in Free PROVE live[GetElementNumber(p)] = {}
    <3>1. p \in Offsets /\ p \notin loaned
      BY <2>2, HeapAssumption DEF HeapInv, IInv, NothingLost, NoDoubleLoan
    <3>2. PICK i \in Index : p = Offset(i)
      BY <3>1 DEF Offsets
    <3>3. BlockOK(i) /\ GetElementNumber(p) = i
      BY <3>2, NumberOfOffset DEF HeapInv
    <3> QED BY <3>1, <3>2, <3>3 DEF BlockOK
  <2> QED BY <2>1, <2>2 DEF HeapInv, Blame, ObjectLifetimes
<1> QED BY <1>1, HeapInvariance, PTL

\* The heap pool keeps to the contract of its stack of blocks, which checks
\* nothing: what goes to Accept is a block on loan, by its only holder, or null.
THEOREM HeapContract == HeapSpec => Spec
<1>1. HeapInit => Init
  BY DEF HeapInit
<1>2. ASSUME HeapInv, [HeapNext]_heapVars PROVE [Next]_vars
  <2>1. CASE Build
    BY <2>1 DEF Build, Next
  <2>2. CASE BuildFails
    BY <2>2 DEF BuildFails
  <2>3. ASSUME NEW t \in Threads, Step(t) PROVE [Next]_vars
    <3>1. CASE PushBack(t)
      BY <1>2, <3>1, PushBackKeeps DEF Next
    <3>2. CASE Construct(t) \/ Dispose(t) \/ DestructorCallback(t)
      BY <3>2 DEF Construct, Dispose, DestructorCallback
    <3> QED BY <2>3, <3>1, <3>2 DEF Step
  <2>4. ASSUME NEW t \in Threads, AllocateShared(t) PROVE [Next]_vars
    BY <2>4 DEF AllocateShared, Next
  <2>5. ASSUME NEW t \in Threads, ConstructorThrows(t) PROVE [Next]_vars
    BY <2>5 DEF ConstructorThrows
  <2>6. ASSUME NEW t \in Threads, DeallocateNull(t) PROVE [Next]_vars
    BY <2>6 DEF DeallocateNull, Next
  <2>7. ASSUME NEW t \in Threads, NEW i \in Index, Use(t, i) PROVE [Next]_vars
    BY <2>7 DEF Use, Copy, MakeWeak, LockWeak, Release, DropWeak
  <2>8. CASE UNCHANGED heapVars
    BY <2>8 DEF heapVars
  <2> QED BY <1>2, <2>1, <2>2, <2>3, <2>4, <2>5, <2>6, <2>7, <2>8 DEF HeapNext
<1> QED BY <1>1, <1>2, HeapInvariance, PTL DEF HeapSpec, Spec

-----------------------------------------------------------------------------
(* The memory behind the buffers *)

\* Division with a remainder.
LEMMA Quotient ==
  ASSUME NEW a \in Nat \ {0}, NEW p \in Nat
  PROVE  /\ p \div a \in Nat /\ (p \div a) * a \in Nat
         /\ (p \div a) * a <= p /\ p < (p \div a) * a + a
<1>1. \E q \in Nat, r \in 0 .. a - 1 : p = q * a + r /\ q = p \div a
  BY SMT
<1>2. PICK q \in Nat, r \in 0 .. a - 1 : p = q * a + r /\ q = p \div a
  BY <1>1
<1>3. q * a \in Nat
  BY SMT
<1>4. q * a <= p /\ p < q * a + a
  BY <1>2, <1>3
<1> QED BY <1>2, <1>3, <1>4

\* The multiples of a are aligned to it.
LEMMA MultipleAligned ==
  ASSUME NEW a \in Nat \ {0}, NEW q \in Nat
  PROVE  q * a \in Nat /\ Aligned(q * a, a)
<1> DEFINE x == q * a
<1>1. x \in Nat
  BY SMT
<1>2. x = q * a
  OBVIOUS
<1> HIDE DEF x
<1>3. PICK s \in Nat : s = x \div a
  BY <1>1, Quotient
<1>4. s * a \in Nat /\ s * a <= x /\ x < s * a + a
  BY <1>1, <1>3, Quotient
<1>5. s = q
  <2>1. CASE s < q
    <3>1. PICK d \in Nat : q = s + 1 + d
      BY <2>1
    <3>2. q * a = s * a + a + d * a /\ d * a \in Nat
      BY <3>1, SMT
    <3> QED BY <1>2, <1>4, <3>2
  <2>2. CASE q < s
    <3>1. PICK d \in Nat : s = q + 1 + d
      BY <2>2
    <3>2. s * a = q * a + a + d * a /\ d * a \in Nat
      BY <3>1, SMT
    <3> QED BY <1>1, <1>2, <1>4, <3>2
  <2> QED BY <2>1, <2>2
<1>6. Aligned(x, a)
  BY <1>2, <1>3, <1>5 DEF Aligned
<1> QED BY <1>1, <1>6 DEF x

\* Objects of an aligned size, from an aligned address on, are aligned.
LEMMA ArrayAligned ==
  ASSUME NEW a \in Nat \ {0}, NEW p \in Nat, NEW s \in Nat, NEW i \in Nat,
         Aligned(p, a), Aligned(s, a)
  PROVE  Aligned(p + s * i, a)
<1>1. PICK q \in Nat : q = p \div a
  BY Quotient
<1>2. PICK u \in Nat : u = s \div a
  BY Quotient
<1>3. p = q * a /\ s = u * a
  BY <1>1, <1>2 DEF Aligned
<1>4. p + s * i = (q + u * i) * a
  BY <1>3, SMT
<1>5. q + u * i \in Nat
  BY SMT
<1> QED BY <1>4, <1>5, MultipleAligned

\* Rounding up goes less than a whole multiple too far.
LEMMA AlignUpBounds ==
  ASSUME NEW a \in Nat \ {0}, NEW p \in Nat
  PROVE  /\ AlignUp(p, a) \in Nat /\ p <= AlignUp(p, a) /\ AlignUp(p, a) < p + a
         /\ Aligned(AlignUp(p, a), a)
<1> DEFINE x == p + a - 1
<1>1. x \in Nat /\ AlignUp(p, a) = (x \div a) * a
  BY DEF AlignUp
<1>2. x = p + a - 1
  OBVIOUS
<1> HIDE DEF x
<1>3. PICK q \in Nat : q = x \div a /\ q * a \in Nat /\ q * a <= x /\ x < q * a + a
  BY <1>1, Quotient
<1>4. AlignUp(p, a) = q * a
  BY <1>1, <1>3
<1>5. q * a \in Nat /\ Aligned(q * a, a)
  BY MultipleAligned
<1>6. p <= q * a /\ q * a < p + a
  BY <1>2, <1>3
<1> QED BY <1>4, <1>5, <1>6

\* A size is kept while it does not wrap.
LEMMA WrapOK ==
  ASSUME NEW n \in Nat
  PROVE  Wrap(n) \in Nat /\ (n < Word => Wrap(n) = n)
<1> USE RawAssumption
<1>1. PICK q \in Nat : q = n \div Word /\ q * Word \in Nat /\ q * Word <= n
  BY Quotient
<1>2. Word * q = q * Word
  BY <1>1, SMT
<1>3. n - Word * (n \div Word) = n - q * Word
  BY <1>1, <1>2
<1> QED BY <1>1, <1>3 DEF Wrap

\* The bytes a request asks for.
LEMMA BytesOK ==
  ASSUME NEW r \in Requests
  PROVE  /\ r.size \in Nat \ {0} /\ r.align \in Nat \ {0} /\ r.elements \in Nat
         /\ r.size * r.elements \in Nat /\ Bytes(r) \in Nat /\ BytesAndSlack(r) \in Nat
         /\ Computable(r) => /\ Bytes(r) = r.size * r.elements
                             /\ BytesAndSlack(r) = r.size * r.elements + maxAlign
<1>1. r.size \in Nat \ {0} /\ r.align \in Nat \ {0} /\ r.elements \in Nat /\ maxAlign \in Nat /\ Word \in Nat
  BY RawAssumption
<1>2. PICK n \in Nat : n = r.size * r.elements
  BY <1>1, SMT
<1>3. Bytes(r) = Wrap(n) /\ BytesAndSlack(r) = Wrap(n + maxAlign) /\ (Computable(r) <=> n + maxAlign < Word)
  BY <1>2 DEF Bytes, BytesAndSlack, Computable
<1>4. Wrap(n) \in Nat /\ Wrap(n + maxAlign) \in Nat /\ n + maxAlign \in Nat
  BY <1>1, WrapOK
<1>5. n + maxAlign < Word => Wrap(n) = n /\ Wrap(n + maxAlign) = n + maxAlign
  BY <1>1, <1>4, WrapOK
<1> QED BY <1>1, <1>2, <1>3, <1>4, <1>5

\* What AllocateRaw does with a block it is given.
Obtained(b, k, start) ==
  /\ raw' = [raw EXCEPT ![b] = k.at] /\ rawSize' = [rawSize EXCEPT ![b] = k.bytes]
  /\ rawAligned' = [rawAligned EXCEPT ![b] = start]
  /\ blocks' = blocks \cup {k}

\* The other buffers keep what they have, and b gets memory of its own.
LEMMA ObtainedOwned ==
  ASSUME RawTypeOK, Owned, NEW b \in Buffers, NEW r \in Requests, raw[b] = 0,
         request' = [request EXCEPT ![b] = r],
         NEW bytes \in Nat, NEW k \in Room(bytes), NEW start \in Nat, Obtained(b, k, start)
  PROVE  /\ Owned' /\ raw' \in [Buffers -> Nat] /\ rawSize' \in [Buffers -> Nat]
         /\ rawAligned' \in [Buffers -> Nat] /\ blocks' \subseteq [at : Nat \ {0}, bytes : Nat]
<1>1. /\ k.at \in Nat \ {0} /\ k.bytes = bytes /\ k = [at |-> k.at, bytes |-> bytes]
      /\ \A l \in blocks : Apart(k, l)
  BY RawAssumption DEF Room
<1>2. /\ raw' = [raw EXCEPT ![b] = k.at] /\ rawSize' = [rawSize EXCEPT ![b] = bytes]
      /\ rawAligned' = [rawAligned EXCEPT ![b] = start] /\ blocks' = blocks \cup {k}
  BY <1>1 DEF Obtained
<1>3. /\ raw'[b] = k.at /\ request'[b] = r /\ Memory(b)' = k
      /\ \A c \in Buffers \ {b} :
           raw'[c] = raw[c] /\ request'[c] = request[c] /\ Memory(c)' = Memory(c)
  BY <1>1, <1>2 DEF RawTypeOK, Memory
<1>4. \A c \in Buffers : raw[c] /= 0 => Memory(c) \in blocks /\ request[c] \in Requests
  BY DEF Owned
<1>5. \A c \in Buffers : raw'[c] /= 0 => request'[c] \in Requests /\ Memory(c)' \in blocks'
  BY <1>2, <1>3, <1>4
<1>6. ASSUME NEW l \in blocks' PROVE \E c \in Buffers : raw'[c] /= 0 /\ l = Memory(c)'
  <2>1. CASE l = k
    BY <1>1, <1>3, <2>1
  <2>2. CASE l \in blocks
    <3>1. PICK c \in Buffers : raw[c] /= 0 /\ l = Memory(c)
      BY <2>2 DEF Owned
    <3> QED BY <1>3, <3>1
  <2> QED BY <1>2, <2>1, <2>2
<1>7. ASSUME NEW c \in Buffers, NEW d \in Buffers, c /= d, raw'[c] /= 0, raw'[d] /= 0
      PROVE  Apart(Memory(c)', Memory(d)')
  <2>1. CASE c = b
    <3>1. Memory(d) \in blocks /\ Memory(d)' = Memory(d)
      BY <1>3, <1>4, <1>7, <2>1
    <3> QED BY <1>1, <1>3, <2>1, <3>1
  <2>2. CASE d = b
    <3>1. Memory(c) \in blocks /\ Memory(c)' = Memory(c)
      BY <1>3, <1>4, <1>7, <2>2
    <3>2. Apart(k, Memory(c))
      BY <1>1, <3>1
    <3> QED BY <1>3, <2>2, <3>1, <3>2 DEF Apart
  <2>3. CASE c /= b /\ d /= b
    BY <1>3, <1>7, <2>3 DEF Owned
  <2> QED BY <2>1, <2>2, <2>3
<1>8. Owned'
  BY <1>5, <1>6, <1>7 DEF Owned, Apart, End
<1> QED BY <1>1, <1>2, <1>8 DEF RawTypeOK

\* The memory of a buffer stays where it is while others come and go.
LEMMA OthersStay ==
  ASSUME NEW c \in Buffers, Inside(c), Refused(c),
         request'[c] = request[c], raw'[c] = raw[c], rawSize'[c] = rawSize[c],
         rawAligned'[c] = rawAligned[c]
  PROVE  Inside(c)' /\ Refused(c)'
BY DEF Inside, Refused

\* Whatever address the allocator of bytes gives, what std::align answers for is an
\* array of aligned elements in it, and only an over-aligned type is refused.
LEMMA AlignPlaces ==
  ASSUME NEW r \in Requests, NEW at \in Nat \ {0}, Computable(r),
         NEW start, start = Align(r.align, Bytes(r), at, BytesAndSlack(r))
  PROVE  /\ start /= 0 => /\ at <= start /\ Aligned(start, r.align)
                          /\ start + r.size * r.elements <= at + BytesAndSlack(r)
         /\ start = 0 => r.align > maxAlign
<1>1. PICK n \in Nat : n = r.size * r.elements
  BY BytesOK
<1>2. Bytes(r) = n /\ BytesAndSlack(r) = n + maxAlign /\ maxAlign \in Nat
  BY <1>1, BytesOK, RawAssumption
<1>3. PICK a \in Nat \ {0} : a = r.align
  BY BytesOK
<1>4. PICK u \in Nat : u = AlignUp(at, a) /\ at <= u /\ u < at + a /\ Aligned(u, a)
  BY AlignUpBounds
<1>5. start = IF u - at <= maxAlign THEN u ELSE 0
  BY <1>2, <1>3, <1>4 DEF Align
<1>6. CASE u - at <= maxAlign
  BY <1>1, <1>2, <1>3, <1>4, <1>5, <1>6
<1>7. CASE u - at > maxAlign
  BY <1>2, <1>3, <1>4, <1>5, <1>7
<1> QED BY <1>2, <1>4, <1>6, <1>7

\* Elements from an aligned address on are aligned.
LEMMA ElementsAligned ==
  ASSUME NEW r \in Requests, NEW start \in Nat, Aligned(start, r.align)
  PROVE  \A i \in 0 .. r.elements - 1 : Aligned(start + r.size * i, r.align)
<1>1. Aligned(r.size, r.align) /\ r.size \in Nat /\ r.align \in Nat \ {0} /\ r.elements \in Nat
  BY BytesOK, RawAssumption
<1> QED BY <1>1, ArrayAligned

\* std::align answers with an address or null.
LEMMA AlignNat ==
  ASSUME NEW r \in Requests, NEW at \in Nat
  PROVE  Align(r.align, Bytes(r), at, BytesAndSlack(r)) \in Nat
BY BytesOK, AlignUpBounds DEF Align

\* Nothing of what a request can be is what a buffer was not asked for.
LEMMA NotRequests == NotAsked \notin Requests /\ Destroyed \notin Requests
<1>1. NotAsked.size = 0 /\ Destroyed.size = 0
  BY DEF NotAsked, Destroyed
<1> QED BY <1>1, BytesOK

\* Allocate keeps the invariant, with memory or without.
LEMMA AllocateRawKeeps ==
  ASSUME ElementsPlaced, NEW b \in Buffers, NEW r \in Requests, AllocateRaw(b, r)
  PROVE  ElementsPlaced'
<1>1. raw[b] = 0 /\ rawAligned[b] \in Nat /\ RawTypeOK /\ Owned
  BY NotRequests DEF ElementsPlaced, RawTypeOK, Owned, AllocateRaw
<1>2. request' = [request EXCEPT ![b] = r] /\ request[b] = NotAsked
  BY DEF AllocateRaw
<1>3. request' \in [Buffers -> Requests \cup {NotAsked, Destroyed}]
  BY <1>1, <1>2 DEF RawTypeOK
<1>4. ASSUME NEW bytes \in Nat, NEW k \in Room(bytes), NEW start \in Nat,
             Obtained(b, k, start),
             Computable(r) =>
               /\ start /= 0 => /\ k.at <= start /\ Aligned(start, r.align)
                                /\ start + r.size * r.elements <= k.at + bytes
               /\ start = 0 => r.align > maxAlign
      PROVE  ElementsPlaced'
  <2>1. /\ Owned' /\ raw' \in [Buffers -> Nat] /\ rawSize' \in [Buffers -> Nat]
        /\ rawAligned' \in [Buffers -> Nat] /\ blocks' \subseteq [at : Nat \ {0}, bytes : Nat]
    BY <1>1, <1>2, <1>4, ObtainedOwned
  <2>2. RawTypeOK'
    BY <1>3, <2>1 DEF RawTypeOK
  <2>3. k.at \in Nat \ {0} /\ k.bytes = bytes
    BY <1>4, RawAssumption DEF Room
  <2>4. /\ raw'[b] = k.at /\ rawSize'[b] = bytes /\ rawAligned'[b] = start /\ request'[b] = r
    BY <1>1, <1>2, <1>4, <2>3 DEF Obtained, RawTypeOK
  <2>5. Inside(b)' /\ Refused(b)'
    <3>1. Computable(r) /\ start /= 0 =>
            \A i \in 0 .. r.elements - 1 : Aligned(start + r.size * i, r.align)
      BY <1>4, ElementsAligned
    <3> QED BY <1>4, <2>3, <2>4, <3>1 DEF Inside, Refused
  <2>6. ASSUME NEW c \in Buffers, c /= b PROVE Inside(c)' /\ Refused(c)'
    <3>1. /\ raw'[c] = raw[c] /\ rawSize'[c] = rawSize[c] /\ rawAligned'[c] = rawAligned[c]
          /\ request'[c] = request[c]
      BY <1>1, <1>2, <1>4, <2>6 DEF Obtained, RawTypeOK
    <3> QED BY <3>1, OthersStay DEF ElementsPlaced
  <2> QED BY <2>1, <2>2, <2>5, <2>6 DEF ElementsPlaced
<1>5. ASSUME NEW k \in Room(BytesAndSlack(r)),
             Obtained(b, k, Align(r.align, Bytes(r), k.at, k.bytes))
      PROVE  ElementsPlaced'
  <2>1. k.at \in Nat \ {0} /\ k.bytes = BytesAndSlack(r) /\ BytesAndSlack(r) \in Nat
    BY <1>5, BytesOK, RawAssumption DEF Room
  <2>2. PICK start \in Nat : start = Align(r.align, Bytes(r), k.at, BytesAndSlack(r))
    BY <2>1, AlignNat
  <2>3. Computable(r) =>
          /\ start /= 0 => /\ k.at <= start /\ Aligned(start, r.align)
                           /\ start + r.size * r.elements <= k.at + BytesAndSlack(r)
          /\ start = 0 => r.align > maxAlign
    BY <2>1, <2>2, AlignPlaces
  <2> QED BY <1>4, <1>5, <2>1, <2>2, <2>3
<1>6. CASE UNCHANGED <<raw, rawSize, rawAligned, blocks>>
  <2>1. \A c \in Buffers : Memory(c)' = Memory(c) /\ raw'[c] = raw[c]
    BY <1>6 DEF Memory
  <2>2. \A c \in Buffers : c /= b => request'[c] = request[c]
    BY <1>1, <1>2 DEF RawTypeOK
  <2>3. RawTypeOK'
    BY <1>1, <1>3, <1>6 DEF RawTypeOK
  <2>4. Owned'
    BY <1>1, <1>6, <2>1, <2>2 DEF Owned, Apart, End
  <2>5. ASSUME NEW c \in Buffers PROVE Inside(c)' /\ Refused(c)'
    <3>1. CASE c = b
      <4>1. rawAligned[b] = 0
        BY <1>1 DEF ElementsPlaced, Inside
      <4> QED BY <1>1, <1>6, <3>1, <4>1 DEF Inside, Refused
    <3>2. CASE c /= b
      BY <1>6, <2>2, <3>2, OthersStay DEF ElementsPlaced
    <3> QED BY <3>1, <3>2
  <2> QED BY <2>3, <2>4, <2>5 DEF ElementsPlaced
<1> QED BY <1>5, <1>6 DEF AllocateRaw, Obtained

\* What a buffer gives back is its own: the memory of the others stays.
LEMMA FreeRawKeeps ==
  ASSUME ElementsPlaced, NEW b \in Buffers, FreeRaw(b)
  PROVE  ElementsPlaced'
<1>1. RawTypeOK /\ Owned
  BY DEF ElementsPlaced
<1>2. /\ raw'[b] = 0 /\ rawAligned'[b] = 0
      /\ blocks' = blocks \ {Memory(b)}
      /\ \A c \in Buffers \ {b} :
           /\ raw'[c] = raw[c] /\ rawSize'[c] = rawSize[c] /\ rawAligned'[c] = rawAligned[c]
           /\ request'[c] = request[c] /\ Memory(c)' = Memory(c)
  BY <1>1 DEF FreeRaw, RawTypeOK, Memory
<1>3. RawTypeOK'
  BY <1>1, <1>2 DEF RawTypeOK, FreeRaw
<1>4. ASSUME NEW c \in Buffers, NEW d \in Buffers, c /= d, raw[c] /= 0, raw[d] /= 0
      PROVE  Memory(c) /= Memory(d)
  <2>1. Apart(Memory(c), Memory(d))
    BY <1>1, <1>4 DEF Owned
  <2>2. /\ raw[c] \in Nat /\ rawSize[c] \in Nat
        /\ Memory(c).at = raw[c] /\ Memory(c).bytes = rawSize[c]
    BY <1>1 DEF RawTypeOK, Memory
  <2> QED BY <2>1, <2>2 DEF Apart, End
<1>5. ASSUME NEW c \in Buffers, raw'[c] /= 0
      PROVE  request'[c] \in Requests /\ Memory(c)' \in blocks'
  <2>1. c /= b /\ raw[c] /= 0 /\ Memory(c)' = Memory(c)
    BY <1>2, <1>5
  <2>2. request'[c] \in Requests /\ Memory(c) \in blocks
    BY <1>1, <1>2, <2>1 DEF Owned
  <2>3. Memory(c) /= Memory(b)
    <3>1. CASE raw[b] = 0
      BY <2>1, <3>1 DEF Memory
    <3>2. CASE raw[b] /= 0
      BY <1>4, <2>1, <3>2
    <3> QED BY <3>1, <3>2
  <2> QED BY <1>2, <2>1, <2>2, <2>3
<1>6. ASSUME NEW l \in blocks' PROVE \E c \in Buffers : raw'[c] /= 0 /\ l = Memory(c)'
  <2>1. PICK c \in Buffers : raw[c] /= 0 /\ l = Memory(c)
    BY <1>1, <1>2 DEF Owned
  <2>2. c /= b
    BY <1>2, <2>1
  <2> QED BY <1>2, <2>1, <2>2
<1>7. ASSUME NEW c \in Buffers, NEW d \in Buffers, c /= d, raw'[c] /= 0, raw'[d] /= 0
      PROVE  Apart(Memory(c)', Memory(d)')
  <2>1. c /= b /\ d /= b
    BY <1>2, <1>7
  <2> QED BY <1>1, <1>2, <1>7, <2>1 DEF Owned
<1>8. Owned'
  BY <1>5, <1>6, <1>7 DEF Owned, Apart, End
<1>9. ASSUME NEW c \in Buffers PROVE Inside(c)' /\ Refused(c)'
  <2>1. CASE c = b
    BY <1>2, <2>1 DEF Inside, Refused
  <2>2. CASE c /= b
    BY <1>2, <2>2, OthersStay DEF ElementsPlaced
  <2> QED BY <2>1, <2>2
<1> QED BY <1>3, <1>8, <1>9 DEF ElementsPlaced

\* The elements of every pool are aligned and inside memory that no other buffer
\* has, all of which is given back, while sizes do not wrap.
THEOREM BuffersPlaced == RawSpec => []ElementsPlaced
<1>1. RawInit => ElementsPlaced
  BY DEF RawInit, ElementsPlaced, RawTypeOK, Owned, Inside, Refused
<1>2. ASSUME ElementsPlaced, [RawNext]_rawVars PROVE ElementsPlaced'
  <2>1. ASSUME NEW b \in Buffers, FreeRaw(b) PROVE ElementsPlaced'
    BY <1>2, <2>1, FreeRawKeeps
  <2>2. ASSUME NEW b \in Buffers, NEW r \in Requests, AllocateRaw(b, r) PROVE ElementsPlaced'
    BY <1>2, <2>2, AllocateRawKeeps
  <2>3. CASE UNCHANGED rawVars
    BY <1>2, <2>3 DEF rawVars, ElementsPlaced, RawTypeOK, Owned, Inside, Refused, Memory, Apart, End
  <2> QED BY <1>2, <2>1, <2>2, <2>3 DEF RawNext
<1> QED BY <1>1, <1>2, PTL DEF RawSpec

\* A pool in its memory is a pool, to which its memory is nothing, and each of its
\* buffers is asked, and given up, as RawMemory says.
THEOREM PoolParts == PoolSpec => HeapSpec /\ RawSpec
<1>1. PoolInit => HeapInit /\ RawInit
  BY DEF PoolInit
<1>2. [PoolNext]_poolVars => [HeapNext]_heapVars
  BY DEF PoolNext, poolVars, Ask, BuildInMemory, BuildWithout, Work, FreeMemory, HeapNext
<1>3. [PoolNext]_poolVars => [RawNext]_rawVars
  BY DEF PoolNext, poolVars, Ask, BuildInMemory, BuildWithout, Work, FreeMemory, RawNext
<1> QED BY <1>1, <1>2, <1>3, PTL DEF PoolSpec, HeapSpec, RawSpec

\* So all that is proved of the parts holds of the pool in its memory.
THEOREM PoolSound == PoolSpec => [](LoansExact /\ ObjectLifetimes /\ ElementsPlaced)
BY PoolParts, HeapContract, LoansAreExact, ObjectsLive, BuffersPlaced, PTL
=============================================================================
