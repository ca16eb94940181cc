---------------------------- MODULE PipeIPC_proofs ----------------------------
(***************************************************************************)
(* Proofs about PipeIPC for any finite sets of senders and receivers, any  *)
(* processes calling Shutdown, any capacity and any number of calls, with  *)
(* kills at every step.                                                    *)
(***************************************************************************)
EXTENDS PipeIPC, FiniteSetTheorems, SequenceTheorems, TLAPS

\* How far slot j lies ahead of slot i in the ring.
Ahead(i, j) == IF j >= i THEN j - i ELSE j - i + capacity

\* What a move between two labels adds to the number of processes at labels of L.
Moved(from, to, L) == (IF to \in L THEN 1 ELSE 0) - (IF from \in L THEN 1 ELSE 0)

\* A sender that holds a slot holds it between its check and its post.
SlotHolders == CountAt(Senders, {"check", "lock", "push", "post"})
Pushers == CountAt(Senders, {"lock", "push"})
Posters == CountAt(Senders, {"post"})
Takers == CountAt(Receivers, {"lock", "pop", "post"})
Poppers == CountAt(Receivers, {"lock", "pop"})

\* Calls are numbered from 1, and a Send in progress has a number.
Numbered ==
  /\ \A s \in Senders :
       /\ calls[s] <= MaxSends
       /\ pc[s] \in {"wait", "check", "lock", "push", "post"} => calls[s] >= 1
  /\ \A c \in Closers : calls[c] <= MaxShutdowns

\* SlotsAccounted but for the types.
Accounts ==
  ~shutdown =>
    /\ nempty + nstored + SlotHolders + Takers = capacity
    /\ size = nstored + Posters + Poppers

\* Before Shutdown the full slots are the size slots from indexPop up to indexPush.
RingExact ==
  ~shutdown =>
    /\ indexPush = (indexPop + size) % capacity
    /\ \A j \in Slots : Ahead(indexPop, j) >= size => items[j] = NULL

\* Afterwards nothing more is known of size and indexPop (a receiver may pop an
\* empty slot), but senders past their check still find the slots they were
\* promised empty, and no sender passes the check any more.
RoomLeft ==
  shutdown =>
    /\ Pushers <= capacity
    /\ \A j \in Slots : Ahead(indexPush, j) < Pushers => items[j] = NULL

\* A message that is late or not pushed yet, and its sender.
Unsent ==
  /\ ~shutdown => late = {}
  /\ \A s \in Senders :
       /\ pc[s] \in {"lock", "push"} => Current(s) \notin late
       /\ pc[s] \in {"wait", "check", "lock", "push"} => Current(s) \notin pushed
       /\ \A n \in 1 .. MaxSends : <<s, n>> \in pushed => n <= calls[s]
  /\ late \cap pushed = {}

\* Whoever posts for Shutdown has set the flag.
FlagFirst == \A c \in Closers : pc[c] \in {"wakeReceiver", "wakeSender"} => shutdown

IInv == TypeOK /\ Numbered /\ FlagFirst /\ Accounts /\ RingExact /\ RoomLeft /\ Unsent

-----------------------------------------------------------------------------
(* Counting processes *)

\* The processes of P at some labels are a finite set.
LEMMA CountType ==
  ASSUME NEW P, IsFiniteSet(P), NEW L
  PROVE  /\ IsFiniteSet({p \in P : pc[p] \in L}) /\ CountAt(P, L) \in Nat
         /\ (\E p \in P : pc[p] \in L) => CountAt(P, L) > 0
<1> DEFINE C == {p \in P : pc[p] \in L}
<1>1. IsFiniteSet(C) /\ Cardinality(C) \in Nat
  <2>1. C \subseteq P
    OBVIOUS
  <2> QED BY <2>1, FS_Subset, FS_CardinalityType
<1>2. C /= {} => Cardinality(C) /= 0
  BY <1>1, FS_EmptySet
<1> QED BY <1>1, <1>2 DEF CountAt

\* One process of P moves to another label.
LEMMA CountMoves ==
  ASSUME NEW P \in SUBSET Procs, IsFiniteSet(P), NEW L, NEW p \in P, NEW l,
         pc \in [Procs -> Labels], pc' = [pc EXCEPT ![p] = l]
  PROVE  CountAt(P, L)' = CountAt(P, L) + (IF l \in L THEN 1 ELSE 0)
                                        - (IF pc[p] \in L THEN 1 ELSE 0)
<1> DEFINE C == {q \in P : pc[q] \in L}
           D == {q \in P : pc'[q] \in L}
<1>1. IsFiniteSet(C) /\ Cardinality(C) \in Nat
  BY CountType DEF CountAt
<1>2. IsFiniteSet(C \ {p}) /\ Cardinality(C \ {p}) \in Nat
  BY <1>1, FS_RemoveElement, FS_CardinalityType
<1>3. Cardinality(C) = Cardinality(C \ {p}) + (IF pc[p] \in L THEN 1 ELSE 0)
  BY <1>1, <1>2, FS_RemoveElement
<1>4. D = IF l \in L THEN (C \ {p}) \cup {p} ELSE C \ {p}
  OBVIOUS
<1> HIDE DEF C, D
<1>5. Cardinality(D) = Cardinality(C \ {p}) + (IF l \in L THEN 1 ELSE 0)
  <2>1. CASE l \in L
    <3>1. Cardinality((C \ {p}) \cup {p}) = Cardinality(C \ {p}) + 1
      BY <1>2, FS_AddElement
    <3> QED BY <1>4, <2>1, <3>1
  <2>2. CASE l \notin L
    <3>1. D = C \ {p}
      BY <1>4, <2>2
    <3> QED BY <1>2, <2>2, <3>1
  <2> QED BY <2>1, <2>2
<1> QED BY <1>2, <1>3, <1>5 DEF CountAt, C, D

\* A process that is not of P moves.
LEMMA CountStays ==
  ASSUME NEW P \in SUBSET Procs, NEW L, NEW p \in Procs \ P, NEW l,
         pc \in [Procs -> Labels], pc' = [pc EXCEPT ![p] = l]
  PROVE  CountAt(P, L)' = CountAt(P, L)
<1>1. {q \in P : pc'[q] \in L} = {q \in P : pc[q] \in L}
  OBVIOUS
<1> QED BY <1>1 DEF CountAt

\* Different labels count different processes.
LEMMA CountSplits ==
  ASSUME NEW P, IsFiniteSet(P), NEW L, NEW M, L \cap M = {}
  PROVE  CountAt(P, L \cup M) = CountAt(P, L) + CountAt(P, M)
<1> DEFINE C == {p \in P : pc[p] \in L}
           D == {p \in P : pc[p] \in M}
<1>1. IsFiniteSet(C) /\ IsFiniteSet(D) /\ Cardinality(C) \in Nat /\ Cardinality(D) \in Nat
  BY CountType DEF CountAt
<1>2. C \cap D = {} /\ {p \in P : pc[p] \in L \cup M} = C \cup D
  OBVIOUS
<1>3. Cardinality(C \cup D) = Cardinality(C) + Cardinality(D)
  <2>1. Cardinality(C \cap D) = 0
    BY <1>2, FS_EmptySet
  <2>2. Cardinality(C \cup D) = Cardinality(C) + Cardinality(D) - Cardinality(C \cap D)
    BY <1>1, FS_Union
  <2> QED BY <1>1, <2>1, <2>2
<1> QED BY <1>2, <1>3 DEF CountAt

\* The counts the invariant uses, and how they are related.
LEMMA CountsRelated ==
  /\ SlotHolders \in Nat /\ Pushers \in Nat /\ Posters \in Nat
  /\ Takers \in Nat /\ Poppers \in Nat
  /\ Pushers + Posters <= SlotHolders
  /\ Poppers <= Takers
  /\ \A s \in Senders : pc[s] = "push" => Pushers > 0
  /\ \A r \in Receivers : pc[r] = "pop" => Poppers > 0
<1> USE PipeAssumption DEF SlotHolders, Pushers, Posters, Takers, Poppers
<1>1. /\ SlotHolders \in Nat /\ Pushers \in Nat /\ Posters \in Nat
      /\ Takers \in Nat /\ Poppers \in Nat
  BY CountType
<1>2. Pushers + Posters <= SlotHolders
  <2>1. /\ {"check"} \cup ({"lock", "push"} \cup {"post"}) = {"check", "lock", "push", "post"}
        /\ {"check"} \cap ({"lock", "push"} \cup {"post"}) = {}
        /\ {"lock", "push"} \cap {"post"} = {}
    OBVIOUS
  <2>2. SlotHolders = CountAt(Senders, {"check"}) + CountAt(Senders, {"lock", "push"} \cup {"post"})
    BY <2>1, CountSplits
  <2>3. CountAt(Senders, {"lock", "push"} \cup {"post"}) = Pushers + Posters
    BY <2>1, CountSplits
  <2>4. CountAt(Senders, {"check"}) \in Nat
    BY CountType
  <2> QED BY <1>1, <2>2, <2>3, <2>4
<1>3. Poppers <= Takers
  <2>1. /\ {"lock", "pop"} \cup {"post"} = {"lock", "pop", "post"}
        /\ {"lock", "pop"} \cap {"post"} = {}
    OBVIOUS
  <2>2. Takers = Poppers + CountAt(Receivers, {"post"})
    BY <2>1, CountSplits
  <2>3. CountAt(Receivers, {"post"}) \in Nat
    BY CountType
  <2> QED BY <1>1, <2>2, <2>3
<1>4. \A s \in Senders : pc[s] = "push" => Pushers > 0
  BY CountType
<1>5. \A r \in Receivers : pc[r] = "pop" => Poppers > 0
  BY CountType
<1> QED BY <1>1, <1>2, <1>3, <1>4, <1>5

-----------------------------------------------------------------------------
(* Types and numbers *)

\* The constructor's state satisfies the invariant.
LEMMA InitIInv == Init => IInv
<1> SUFFICES ASSUME Init PROVE IInv
  OBVIOUS
<1> USE PipeAssumption DEF Init
<1>1. TypeOK
  <2>1. items \in [Slots -> Messages \cup {NULL}] /\ ptr \in [Receivers -> Messages \cup {NULL}]
    OBVIOUS
  <2>2. /\ pc \in [Procs -> Labels] /\ mode \in [Procs -> AllModes]
        /\ calls \in [Procs -> 0 .. MaxSends + MaxShutdowns]
    BY DEF Labels, AllModes
  <2>3. 0 \in Slots /\ 0 \in 0 .. SizeModulus - 1
    BY DEF Slots
  <2> QED BY <2>1, <2>2, <2>3 DEF TypeOK
<1>2. Numbered
  BY DEF Numbered, Procs
<1>3. \A P \in SUBSET Procs : \A L : "idle" \notin L => CountAt(P, L) = 0
  <2> SUFFICES ASSUME NEW P \in SUBSET Procs, NEW L, "idle" \notin L PROVE CountAt(P, L) = 0
    OBVIOUS
  <2>1. {p \in P : pc[p] \in L} = {}
    OBVIOUS
  <2> QED BY <2>1, FS_EmptySet DEF CountAt
<1>4. SlotHolders = 0 /\ Takers = 0 /\ Posters = 0 /\ Poppers = 0
  BY <1>3 DEF SlotHolders, Takers, Posters, Poppers, Procs
<1>5. Accounts
  BY <1>4 DEF Accounts
<1>6. RingExact
  BY DEF RingExact, Slots
<1> QED BY <1>1, <1>2, <1>5, <1>6 DEF IInv, FlagFirst, RoomLeft, Unsent, Procs

\* What is left of a number divided by another.
LEMMA ModRange ==
  ASSUME NEW a \in Int, NEW n \in Nat \ {0}
  PROVE  a % n \in 0 .. n - 1
OBVIOUS

\* Going once around the ring.
LEMMA ModWraps ==
  ASSUME NEW a \in Nat, NEW n \in Nat \ {0}, a < n + n
  PROVE  a % n = IF a < n THEN a ELSE a - n
<1>1. CASE a < n
  BY <1>1
<1>2. CASE a >= n
  BY <1>2
<1> QED BY <1>1, <1>2

\* Every step keeps the types.
LEMMA TypeStep ==
  ASSUME TypeOK, Numbered, [Next]_vars
  PROVE  TypeOK'
<1> USE PipeAssumption DEF TypeOK
<1>1. ASSUME NEW s \in Senders, NEW m \in Modes, SendStart(s, m) PROVE TypeOK'
  <2>1. calls[s] \in 0 .. MaxSends - 1 /\ s \in Procs
    BY <1>1 DEF SendStart, Procs
  <2>2. calls' \in [Procs -> 0 .. MaxSends + MaxShutdowns]
    BY <1>1, <2>1 DEF SendStart
  <2>3. late' \subseteq Messages
    BY <1>1, <2>1 DEF SendStart, Messages
  <2>4. pc' \in [Procs -> Labels] /\ mode' \in [Procs -> AllModes]
    BY <1>1, <2>1 DEF SendStart, Goto, Labels
  <2> QED BY <1>1, <2>2, <2>3, <2>4 DEF SendStart, ringVars
<1>2. ASSUME NEW s \in Senders, TakeEmpty(s) \/ NoSlot(s) \/ CheckShutdown(s) PROVE TypeOK'
  <2>1. s \in Procs
    BY DEF Procs
  <2>2. pc' \in [Procs -> Labels] /\ mode' \in [Procs -> AllModes]
    BY <1>2, <2>1 DEF TakeEmpty, NoSlot, CheckShutdown, Waited, Goto, Labels, AllModes
  <2>3. nempty' \in Nat
    BY <1>2 DEF TakeEmpty, NoSlot, CheckShutdown
  <2> QED BY <1>2, <2>2, <2>3 DEF TakeEmpty, NoSlot, CheckShutdown, ringVars, histVars
<1>3. ASSUME NEW p \in Procs, LockToPush(p) \/ LockToPop(p) PROVE TypeOK'
  <2>1. pc' \in [Procs -> Labels] /\ mutex' \in Procs \cup {Nobody}
    BY <1>3 DEF LockToPush, LockToPop, Lock, Goto, Labels
  <2> QED BY <1>3, <2>1 DEF LockToPush, LockToPop, Lock, ringVars, histVars
<1>4. ASSUME NEW s \in Senders, Push(s) PROVE TypeOK'
  <2>1. s \in Procs /\ Current(s) \in Messages
    BY <1>4 DEF Push, At, Numbered, Current, Messages, Procs
  <2>2. indexPush' \in Slots /\ size' \in 0 .. SizeModulus - 1
    BY <1>4, ModRange DEF Push, Slots
  <2>3. items' \in [Slots -> Messages \cup {NULL}] /\ pushed' \subseteq Messages
    BY <1>4, <2>1 DEF Push
  <2>4. pc' \in [Procs -> Labels]
    BY <1>4, <2>1 DEF Push, Goto, Labels
  <2> QED BY <1>4, <2>2, <2>3, <2>4 DEF Push
<1>5. ASSUME NEW s \in Senders, PostStored(s) PROVE TypeOK'
  BY <1>5 DEF PostStored, Goto, Labels, Procs, ringVars
<1>6. ASSUME NEW r \in Receivers, NEW m \in Modes, ReceiveStart(r, m) PROVE TypeOK'
  <2>1. pc' \in [Procs -> Labels] /\ mode' \in [Procs -> AllModes]
    BY <1>6 DEF ReceiveStart, Goto, Labels, Procs
  <2>2. ptr' \in [Receivers -> Messages \cup {NULL}]
    BY <1>6 DEF ReceiveStart
  <2> QED BY <1>6, <2>1, <2>2 DEF ReceiveStart, ringVars, histVars
<1>7. ASSUME NEW r \in Receivers, TakeStored(r) \/ ReceiveTimesOut(r) PROVE TypeOK'
  <2>1. pc' \in [Procs -> Labels] /\ mode' \in [Procs -> AllModes]
    BY <1>7 DEF TakeStored, ReceiveTimesOut, Waited, Goto, Labels, AllModes, Procs
  <2>2. nstored' \in Nat
    BY <1>7 DEF TakeStored, ReceiveTimesOut
  <2> QED BY <1>7, <2>1, <2>2 DEF TakeStored, ReceiveTimesOut, ringVars, histVars
<1>8. ASSUME NEW r \in Receivers, Pop(r) PROVE TypeOK'
  <2>1. indexPop' \in Slots /\ size' \in 0 .. SizeModulus - 1
    <3>1. (indexPop + 1) % capacity \in 0 .. capacity - 1
      BY ModRange DEF Slots
    <3>2. (size - 1) % SizeModulus \in 0 .. SizeModulus - 1
      BY ModRange
    <3> QED BY <1>8, <3>1, <3>2 DEF Pop, Slots
  <2>2. items[indexPop] \in Messages \cup {NULL}
    OBVIOUS
  <2>3. /\ items' \in [Slots -> Messages \cup {NULL}] /\ received' \subseteq Messages
        /\ ptr' \in [Receivers -> Messages \cup {NULL}]
    BY <1>8, <2>2 DEF Pop
  <2>4. pc' \in [Procs -> Labels]
    BY <1>8 DEF Pop, Goto, Labels, Procs
  <2> QED BY <1>8, <2>1, <2>3, <2>4 DEF Pop
<1>9. ASSUME NEW r \in Receivers, PostEmpty(r) PROVE TypeOK'
  BY <1>9 DEF PostEmpty, Goto, Labels, Procs, ringVars, histVars
<1>10. ASSUME NEW c \in Closers, SetShutdown(c) PROVE TypeOK'
  <2>1. \A s \in Senders : pc[s] = "wait" => Current(s) \in Messages
    BY DEF Numbered, Current, Messages, Procs
  <2>2. late' \subseteq Messages
    BY <1>10, <2>1 DEF SetShutdown
  <2>3. calls[c] \in 0 .. MaxShutdowns - 1 /\ c \in Procs
    BY <1>10 DEF SetShutdown, Procs
  <2>4. pc' \in [Procs -> Labels] /\ calls' \in [Procs -> 0 .. MaxSends + MaxShutdowns]
    BY <1>10, <2>3 DEF SetShutdown, Goto, Labels
  <2> QED BY <1>10, <2>2, <2>4 DEF SetShutdown, ringVars
<1>11. ASSUME NEW c \in Closers, CloseStep(c) PROVE TypeOK'
  <2>1. pc' \in [Procs -> Labels] /\ nstored' \in Nat /\ nempty' \in Nat
    BY <1>11 DEF CloseStep, WakeReceiver, WakeSender, Goto, Labels, Procs
  <2> QED BY <1>11, <2>1 DEF CloseStep, WakeReceiver, WakeSender, ringVars, histVars
<1>12. ASSUME NEW p \in Faulty, Kill(p) PROVE TypeOK'
  BY <1>12 DEF Kill, ringVars, histVars
<1>13. CASE UNCHANGED vars
  BY <1>13 DEF vars, ringVars, histVars
<1> QED BY <1>1, <1>2, <1>3, <1>4, <1>5, <1>6, <1>7, <1>8, <1>9, <1>10, <1>11, <1>12, <1>13
     DEF Next, SendStep, ReceiveStep, Procs

\* Every step keeps the numbers of the calls.
LEMMA NumberedStep ==
  ASSUME TypeOK, Numbered, [Next]_vars
  PROVE  Numbered'
<1> USE PipeAssumption DEF TypeOK, Numbered
<1>1. ASSUME NEW s \in Senders, NEW m \in Modes, SendStart(s, m) PROVE Numbered'
  BY <1>1 DEF SendStart, At, Goto, Procs
<1>2. ASSUME NEW s \in Senders, SendStep(s) PROVE Numbered'
  BY <1>2 DEF SendStep, TakeEmpty, NoSlot, CheckShutdown, LockToPush, Lock, Push, PostStored,
              At, Waited, Goto, Procs
<1>3. ASSUME NEW r \in Receivers, ReceiveStep(r) \/ \E m \in Modes : ReceiveStart(r, m)
      PROVE  Numbered'
  <2>1. calls' = calls /\ \A p \in Senders : pc'[p] = pc[p]
    BY <1>3 DEF ReceiveStep, TakeStored, ReceiveTimesOut, LockToPop, Lock, Pop, PostEmpty,
                ReceiveStart, Waited, Goto, Procs
  <2> QED BY <2>1
<1>4. ASSUME NEW c \in Closers, SetShutdown(c) \/ CloseStep(c) PROVE Numbered'
  <2>1. \A s \in Senders : calls'[s] = calls[s] /\ pc'[s] = pc[s]
    BY <1>4 DEF SetShutdown, CloseStep, WakeReceiver, WakeSender, Goto, Procs
  <2>2. \A d \in Closers : calls'[d] <= MaxShutdowns
    BY <1>4 DEF SetShutdown, CloseStep, WakeReceiver, WakeSender, Procs
  <2> QED BY <2>1, <2>2
<1>5. CASE (\E p \in Faulty : Kill(p)) \/ UNCHANGED vars
  BY <1>5 DEF Kill, vars
<1> QED BY <1>1, <1>2, <1>3, <1>4, <1>5 DEF Next

\* A pipe that is shut down stays so.
LEMMA ShutdownStays ==
  ASSUME TypeOK, [Next]_vars, shutdown
  PROVE  shutdown'
<1>1. CASE \E c \in Closers : SetShutdown(c)
  BY <1>1 DEF SetShutdown
<1>2. CASE shutdown' = shutdown
  BY <1>2
<1> QED BY <1>1, <1>2
     DEF Next, SendStep, ReceiveStep, CloseStep, SendStart, TakeEmpty, NoSlot, CheckShutdown,
         LockToPush, Lock, Push, PostStored, ReceiveStart, TakeStored, ReceiveTimesOut, LockToPop,
         Pop, PostEmpty, WakeReceiver, WakeSender, Kill, vars

\* Whoever posts for Shutdown has set the flag, and it stays set.
LEMMA FlagFirstStep ==
  ASSUME TypeOK, FlagFirst, [Next]_vars
  PROVE  FlagFirst'
<1> USE PipeAssumption DEF TypeOK, FlagFirst
<1>1. shutdown => shutdown'
  BY ShutdownStays
<1>2. ASSUME NEW c \in Closers, SetShutdown(c) \/ CloseStep(c) PROVE FlagFirst'
  BY <1>1, <1>2 DEF SetShutdown, CloseStep, WakeReceiver, WakeSender, At, Goto, Procs
<1>3. ASSUME NEW s \in Senders, SendStep(s) \/ \E m \in Modes : SendStart(s, m)
      PROVE  FlagFirst'
  <2>1. \A c \in Closers : pc'[c] = pc[c]
    BY <1>3 DEF SendStep, TakeEmpty, NoSlot, CheckShutdown, LockToPush, Lock, Push, PostStored,
                SendStart, Waited, Goto, Procs
  <2> QED BY <1>1, <2>1
<1>4. ASSUME NEW r \in Receivers, ReceiveStep(r) \/ \E m \in Modes : ReceiveStart(r, m)
      PROVE  FlagFirst'
  <2>1. \A c \in Closers : pc'[c] = pc[c]
    BY <1>4 DEF ReceiveStep, TakeStored, ReceiveTimesOut, LockToPop, Lock, Pop, PostEmpty,
                ReceiveStart, Waited, Goto, Procs
  <2> QED BY <1>1, <2>1
<1>5. CASE (\E p \in Faulty : Kill(p)) \/ UNCHANGED vars
  BY <1>5 DEF Kill, vars
<1> QED BY <1>2, <1>3, <1>4, <1>5 DEF Next

-----------------------------------------------------------------------------
(* Slots *)

\* A sender moves: the counts of senders change, those of receivers do not.
LEMMA SenderMoves ==
  ASSUME pc \in [Procs -> Labels], NEW s \in Senders, NEW l, pc' = [pc EXCEPT ![s] = l]
  PROVE  /\ SlotHolders' = SlotHolders + Moved(pc[s], l, {"check", "lock", "push", "post"})
         /\ Pushers' = Pushers + Moved(pc[s], l, {"lock", "push"})
         /\ Posters' = Posters + Moved(pc[s], l, {"post"})
         /\ Takers' = Takers /\ Poppers' = Poppers
<1> USE PipeAssumption DEF SlotHolders, Pushers, Posters, Takers, Poppers
<1>1. ASSUME NEW L PROVE CountAt(Senders, L)' = CountAt(Senders, L) + Moved(pc[s], l, L)
  <2>1. CountAt(Senders, L)' = CountAt(Senders, L) + (IF l \in L THEN 1 ELSE 0)
                                                  - (IF pc[s] \in L THEN 1 ELSE 0)
    BY CountMoves DEF Procs
  <2>2. CountAt(Senders, L) \in Nat
    BY CountType
  <2> QED BY <2>1, <2>2 DEF Moved
<1>2. ASSUME NEW L PROVE CountAt(Receivers, L)' = CountAt(Receivers, L)
  BY CountStays DEF Procs
<1>3. Takers' = Takers /\ Poppers' = Poppers
  BY <1>2
<1>4. /\ SlotHolders' = SlotHolders + Moved(pc[s], l, {"check", "lock", "push", "post"})
      /\ Pushers' = Pushers + Moved(pc[s], l, {"lock", "push"})
      /\ Posters' = Posters + Moved(pc[s], l, {"post"})
  BY <1>1
<1> QED BY <1>3, <1>4

\* A receiver moves.
LEMMA ReceiverMoves ==
  ASSUME pc \in [Procs -> Labels], NEW r \in Receivers, NEW l, pc' = [pc EXCEPT ![r] = l]
  PROVE  /\ Takers' = Takers + Moved(pc[r], l, {"lock", "pop", "post"})
         /\ Poppers' = Poppers + Moved(pc[r], l, {"lock", "pop"})
         /\ SlotHolders' = SlotHolders /\ Pushers' = Pushers /\ Posters' = Posters
<1> USE PipeAssumption DEF SlotHolders, Pushers, Posters, Takers, Poppers
<1>1. ASSUME NEW L PROVE CountAt(Receivers, L)' = CountAt(Receivers, L) + Moved(pc[r], l, L)
  <2>1. CountAt(Receivers, L)' = CountAt(Receivers, L) + (IF l \in L THEN 1 ELSE 0)
                                                  - (IF pc[r] \in L THEN 1 ELSE 0)
    BY CountMoves DEF Procs
  <2>2. CountAt(Receivers, L) \in Nat
    BY CountType
  <2> QED BY <2>1, <2>2 DEF Moved
<1>2. ASSUME NEW L PROVE CountAt(Senders, L)' = CountAt(Senders, L)
  BY CountStays DEF Procs
<1>3. SlotHolders' = SlotHolders /\ Pushers' = Pushers /\ Posters' = Posters
  BY <1>2
<1>4. /\ Takers' = Takers + Moved(pc[r], l, {"lock", "pop", "post"})
      /\ Poppers' = Poppers + Moved(pc[r], l, {"lock", "pop"})
  BY <1>1
<1> QED BY <1>3, <1>4

\* A process in Shutdown moves: nobody who counts does.
LEMMA CloserMoves ==
  ASSUME pc \in [Procs -> Labels], NEW c \in Closers, NEW l, pc' = [pc EXCEPT ![c] = l]
  PROVE  /\ SlotHolders' = SlotHolders /\ Pushers' = Pushers /\ Posters' = Posters
         /\ Takers' = Takers /\ Poppers' = Poppers
<1> USE PipeAssumption DEF SlotHolders, Pushers, Posters, Takers, Poppers
<1>1. ASSUME NEW P \in SUBSET (Senders \cup Receivers), NEW L
      PROVE  CountAt(P, L)' = CountAt(P, L)
  BY CountStays DEF Procs
<1> QED BY <1>1

\* Nobody moves.
LEMMA NobodyMoves ==
  ASSUME pc' = pc
  PROVE  /\ SlotHolders' = SlotHolders /\ Pushers' = Pushers /\ Posters' = Posters
         /\ Takers' = Takers /\ Poppers' = Poppers
BY DEF SlotHolders, Pushers, Posters, Takers, Poppers, CountAt

\* Until Shutdown, at most capacity slots are full or promised to a sender, and
\* whoever pops finds a full one.
LEMMA RoomForPushers ==
  ASSUME TypeOK, Accounts, ~shutdown
  PROVE  /\ size + Pushers <= capacity
         /\ \A s \in Senders : pc[s] = "push" => size < capacity
         /\ \A r \in Receivers : pc[r] = "pop" => size > 0
<1>1. /\ nempty + nstored + SlotHolders + Takers = capacity
      /\ size = nstored + Posters + Poppers
  BY DEF Accounts
<1> QED BY <1>1, CountsRelated, PipeAssumption DEF TypeOK

\* Until Shutdown a slot that leaves nempty or nstored goes with the call that
\* took it, and comes back when that call posts.
LEMMA AccountsStep ==
  ASSUME TypeOK, FlagFirst, Accounts, [Next]_vars
  PROVE  Accounts'
<1> SUFFICES ASSUME ~shutdown, ~shutdown'
             PROVE  /\ nempty' + nstored' + SlotHolders' + Takers' = capacity
                    /\ size' = nstored' + Posters' + Poppers'
  BY ShutdownStays DEF Accounts
<1> USE PipeAssumption DEF TypeOK
<1>1. /\ nempty + nstored + SlotHolders + Takers = capacity
      /\ size = nstored + Posters + Poppers
      /\ SlotHolders \in Nat /\ Takers \in Nat /\ Posters \in Nat /\ Poppers \in Nat
  BY CountsRelated DEF Accounts
<1> DEFINE Goal == /\ nempty' + nstored' + SlotHolders' + Takers' = capacity
                   /\ size' = nstored' + Posters' + Poppers'
<1>2. ASSUME NEW s \in Senders, NEW m \in Modes, SendStart(s, m) PROVE Goal
  <2>1. /\ nempty' = nempty /\ nstored' = nstored /\ size' = size
        /\ pc[s] = "idle" /\ pc' = [pc EXCEPT ![s] = "wait"]
    BY <1>2 DEF SendStart, At, Goto, ringVars
  <2>2. /\ SlotHolders' = SlotHolders + Moved("idle", "wait", {"check", "lock", "push", "post"})
        /\ Posters' = Posters + Moved("idle", "wait", {"post"})
        /\ Takers' = Takers /\ Poppers' = Poppers
    BY <2>1, SenderMoves
  <2> QED BY <1>1, <2>1, <2>2 DEF Moved
<1>3. ASSUME NEW s \in Senders, TakeEmpty(s) PROVE Goal
  <2>1. /\ nempty' = nempty - 1 /\ nstored' = nstored /\ size' = size
        /\ pc[s] = "wait" /\ pc' = [pc EXCEPT ![s] = "check"]
    BY <1>3 DEF TakeEmpty, Waited, At, Goto, ringVars
  <2>2. /\ SlotHolders' = SlotHolders + Moved("wait", "check", {"check", "lock", "push", "post"})
        /\ Posters' = Posters + Moved("wait", "check", {"post"})
        /\ Takers' = Takers /\ Poppers' = Poppers
    BY <2>1, SenderMoves
  <2> QED BY <1>1, <2>1, <2>2 DEF Moved
<1>4. ASSUME NEW s \in Senders, NoSlot(s) PROVE Goal
  <2>1. /\ nempty' = nempty /\ nstored' = nstored /\ size' = size
        /\ pc[s] = "wait" /\ pc' = [pc EXCEPT ![s] = "idle"]
    BY <1>4 DEF NoSlot, Waited, At, Goto, ringVars
  <2>2. /\ SlotHolders' = SlotHolders + Moved("wait", "idle", {"check", "lock", "push", "post"})
        /\ Posters' = Posters + Moved("wait", "idle", {"post"})
        /\ Takers' = Takers /\ Poppers' = Poppers
    BY <2>1, SenderMoves
  <2> QED BY <1>1, <2>1, <2>2 DEF Moved
<1>5. ASSUME NEW s \in Senders, CheckShutdown(s) PROVE Goal
  <2>1. /\ nempty' = nempty /\ nstored' = nstored /\ size' = size
        /\ pc[s] = "check" /\ pc' = [pc EXCEPT ![s] = "lock"]
    BY <1>5 DEF CheckShutdown, At, Goto, ringVars
  <2>2. /\ SlotHolders' = SlotHolders + Moved("check", "lock", {"check", "lock", "push", "post"})
        /\ Posters' = Posters + Moved("check", "lock", {"post"})
        /\ Takers' = Takers /\ Poppers' = Poppers
    BY <2>1, SenderMoves
  <2> QED BY <1>1, <2>1, <2>2 DEF Moved
<1>6. ASSUME NEW s \in Senders, LockToPush(s) PROVE Goal
  <2>1. /\ nempty' = nempty /\ nstored' = nstored /\ size' = size
        /\ pc[s] = "lock" /\ pc' = [pc EXCEPT ![s] = "push"]
    BY <1>6 DEF LockToPush, Lock, At, Goto, ringVars
  <2>2. /\ SlotHolders' = SlotHolders + Moved("lock", "push", {"check", "lock", "push", "post"})
        /\ Posters' = Posters + Moved("lock", "push", {"post"})
        /\ Takers' = Takers /\ Poppers' = Poppers
    BY <2>1, SenderMoves
  <2> QED BY <1>1, <2>1, <2>2 DEF Moved
<1>7. ASSUME NEW s \in Senders, Push(s) PROVE Goal
  <2>1. size < capacity
    BY <1>7, RoomForPushers DEF Push, At
  <2>2. (size + 1) % SizeModulus = size + 1
    BY <2>1, SMT
  <2>3. /\ nempty' = nempty /\ nstored' = nstored /\ size' = size + 1
        /\ pc[s] = "push" /\ pc' = [pc EXCEPT ![s] = "post"]
    BY <1>7, <2>2 DEF Push, At, Goto
  <2>4. /\ SlotHolders' = SlotHolders + Moved("push", "post", {"check", "lock", "push", "post"})
        /\ Posters' = Posters + Moved("push", "post", {"post"})
        /\ Takers' = Takers /\ Poppers' = Poppers
    BY <2>3, SenderMoves
  <2> QED BY <1>1, <2>3, <2>4 DEF Moved
<1>8. ASSUME NEW s \in Senders, PostStored(s) PROVE Goal
  <2>1. /\ nempty' = nempty /\ nstored' = nstored + 1 /\ size' = size
        /\ pc[s] = "post" /\ pc' = [pc EXCEPT ![s] = "idle"]
    BY <1>8 DEF PostStored, At, Goto, ringVars
  <2>2. /\ SlotHolders' = SlotHolders + Moved("post", "idle", {"check", "lock", "push", "post"})
        /\ Posters' = Posters + Moved("post", "idle", {"post"})
        /\ Takers' = Takers /\ Poppers' = Poppers
    BY <2>1, SenderMoves
  <2> QED BY <1>1, <2>1, <2>2 DEF Moved
<1>9. ASSUME NEW r \in Receivers, NEW m \in Modes, ReceiveStart(r, m) PROVE Goal
  <2>1. /\ nempty' = nempty /\ nstored' = nstored /\ size' = size
        /\ pc[r] = "idle" /\ pc' = [pc EXCEPT ![r] = "wait"]
    BY <1>9 DEF ReceiveStart, At, Goto, ringVars
  <2>2. /\ Takers' = Takers + Moved("idle", "wait", {"lock", "pop", "post"})
        /\ Poppers' = Poppers + Moved("idle", "wait", {"lock", "pop"})
        /\ SlotHolders' = SlotHolders /\ Posters' = Posters
    BY <2>1, ReceiverMoves
  <2> QED BY <1>1, <2>1, <2>2 DEF Moved
<1>10. ASSUME NEW r \in Receivers, TakeStored(r) PROVE Goal
  <2>1. /\ nempty' = nempty /\ nstored' = nstored - 1 /\ size' = size
        /\ pc[r] = "wait" /\ pc' = [pc EXCEPT ![r] = "lock"]
    BY <1>10 DEF TakeStored, Waited, At, Goto, ringVars
  <2>2. /\ Takers' = Takers + Moved("wait", "lock", {"lock", "pop", "post"})
        /\ Poppers' = Poppers + Moved("wait", "lock", {"lock", "pop"})
        /\ SlotHolders' = SlotHolders /\ Posters' = Posters
    BY <2>1, ReceiverMoves
  <2> QED BY <1>1, <2>1, <2>2 DEF Moved
<1>11. ASSUME NEW r \in Receivers, ReceiveTimesOut(r) PROVE Goal
  <2>1. /\ nempty' = nempty /\ nstored' = nstored /\ size' = size
        /\ pc[r] = "wait" /\ pc' = [pc EXCEPT ![r] = "idle"]
    BY <1>11 DEF ReceiveTimesOut, Waited, At, Goto, ringVars
  <2>2. /\ Takers' = Takers + Moved("wait", "idle", {"lock", "pop", "post"})
        /\ Poppers' = Poppers + Moved("wait", "idle", {"lock", "pop"})
        /\ SlotHolders' = SlotHolders /\ Posters' = Posters
    BY <2>1, ReceiverMoves
  <2> QED BY <1>1, <2>1, <2>2 DEF Moved
<1>12. ASSUME NEW r \in Receivers, LockToPop(r) PROVE Goal
  <2>1. /\ nempty' = nempty /\ nstored' = nstored /\ size' = size
        /\ pc[r] = "lock" /\ pc' = [pc EXCEPT ![r] = "pop"]
    BY <1>12 DEF LockToPop, Lock, At, Goto, ringVars
  <2>2. /\ Takers' = Takers + Moved("lock", "pop", {"lock", "pop", "post"})
        /\ Poppers' = Poppers + Moved("lock", "pop", {"lock", "pop"})
        /\ SlotHolders' = SlotHolders /\ Posters' = Posters
    BY <2>1, ReceiverMoves
  <2> QED BY <1>1, <2>1, <2>2 DEF Moved
<1>13. ASSUME NEW r \in Receivers, Pop(r) PROVE Goal
  <2>1. size > 0
    BY <1>13, RoomForPushers DEF Pop, At
  <2>2. (size - 1) % SizeModulus = size - 1
    BY <2>1, SMT
  <2>3. /\ nempty' = nempty /\ nstored' = nstored /\ size' = size - 1
        /\ pc[r] = "pop" /\ pc' = [pc EXCEPT ![r] = "post"]
    BY <1>13, <2>2 DEF Pop, At, Goto
  <2>4. /\ Takers' = Takers + Moved("pop", "post", {"lock", "pop", "post"})
        /\ Poppers' = Poppers + Moved("pop", "post", {"lock", "pop"})
        /\ SlotHolders' = SlotHolders /\ Posters' = Posters
    BY <2>3, ReceiverMoves
  <2> QED BY <1>1, <2>3, <2>4 DEF Moved
<1>14. ASSUME NEW r \in Receivers, PostEmpty(r) PROVE Goal
  <2>1. /\ nempty' = nempty + 1 /\ nstored' = nstored /\ size' = size
        /\ pc[r] = "post" /\ pc' = [pc EXCEPT ![r] = "idle"]
    BY <1>14 DEF PostEmpty, At, Goto, ringVars
  <2>2. /\ Takers' = Takers + Moved("post", "idle", {"lock", "pop", "post"})
        /\ Poppers' = Poppers + Moved("post", "idle", {"lock", "pop"})
        /\ SlotHolders' = SlotHolders /\ Posters' = Posters
    BY <2>1, ReceiverMoves
  <2> QED BY <1>1, <2>1, <2>2 DEF Moved
<1>15. CASE (\E p \in Faulty : Kill(p)) \/ UNCHANGED vars
  BY <1>1, <1>15, NobodyMoves DEF Kill, vars, ringVars
<1>16. ASSUME NEW c \in Closers, SetShutdown(c) \/ CloseStep(c) PROVE Goal
  \* The flag is set after the step or was set before it.
  <2>1. SetShutdown(c) => shutdown'
    BY DEF SetShutdown
  <2>2. CloseStep(c) => shutdown
    BY DEF CloseStep, WakeReceiver, WakeSender, At, FlagFirst
  <2> QED BY <1>16, <2>1, <2>2
<1> QED BY <1>2, <1>3, <1>4, <1>5, <1>6, <1>7, <1>8, <1>9, <1>10, <1>11, <1>12, <1>13, <1>14,
           <1>15, <1>16 DEF Next, SendStep, ReceiveStep

-----------------------------------------------------------------------------
(* The ring *)

\* Only Push and Pop touch the ring.
LEMMA RingStays ==
  ASSUME [Next]_vars, ~\E s \in Senders : Push(s), ~\E r \in Receivers : Pop(r)
  PROVE  UNCHANGED ringVars
BY DEF Next, SendStep, ReceiveStep, CloseStep, SendStart, TakeEmpty, NoSlot, CheckShutdown,
       LockToPush, Lock, PostStored, ReceiveStart, TakeStored, ReceiveTimesOut, LockToPop,
       PostEmpty, SetShutdown, WakeReceiver, WakeSender, Kill, vars

\* Where the slot n places after slot i is.
LEMMA RingIndex ==
  ASSUME NEW i \in Nat, NEW n \in Nat, i < capacity, n <= capacity
  PROVE  (i + n) % capacity = IF i + n < capacity THEN i + n ELSE i + n - capacity
<1>1. capacity \in Nat \ {0}
  BY PipeAssumption
<1>2. CASE i + n < capacity
  BY <1>1, <1>2
<1>3. CASE i + n >= capacity
  BY <1>1, <1>3
<1> QED BY <1>1, <1>2, <1>3

\* size is far from its modulus.
LEMMA SizeFits ==
  ASSUME NEW n \in Nat, n <= capacity
  PROVE  n % SizeModulus = n
<1>1. SizeModulus \in Nat \ {0} /\ n < SizeModulus
  BY PipeAssumption
<1> QED BY <1>1, SMT

\* What Push does to the ring while there is room.
LEMMA PushMoves ==
  ASSUME TypeOK, Numbered, NEW s \in Senders, Push(s)
  PROVE  /\ items' = [items EXCEPT ![indexPush] = Current(s)]
         /\ Current(s) \in Messages
         /\ indexPush' = IF indexPush + 1 = capacity THEN 0 ELSE indexPush + 1
         /\ indexPop' = indexPop
         /\ size < capacity => size' = size + 1
<1>1. /\ capacity \in Nat \ {0} /\ indexPush \in Nat /\ indexPush < capacity /\ size \in Nat
  BY PipeAssumption DEF TypeOK, Slots
<1>2. (indexPush + 1) % capacity = IF indexPush + 1 = capacity THEN 0 ELSE indexPush + 1
  <2>1. 1 \in Nat /\ 1 <= capacity
    BY <1>1
  <2>2. (indexPush + 1) % capacity =
          IF indexPush + 1 < capacity THEN indexPush + 1 ELSE indexPush + 1 - capacity
    BY <1>1, <2>1, RingIndex
  <2> QED BY <1>1, <2>2
<1>3. size < capacity => (size + 1) % SizeModulus = size + 1
  BY <1>1, SizeFits
<1>4. Current(s) \in Messages
  BY DEF Push, At, Numbered, Current, Messages, Procs, TypeOK
<1> QED BY <1>2, <1>3, <1>4 DEF Push

\* What Pop does to the ring while there is something to pop.
LEMMA PopMoves ==
  ASSUME TypeOK, NEW r \in Receivers, Pop(r)
  PROVE  /\ items' = [items EXCEPT ![indexPop] = NULL]
         /\ indexPop' = IF indexPop + 1 = capacity THEN 0 ELSE indexPop + 1
         /\ indexPush' = indexPush
         /\ size > 0 /\ size <= capacity => size' = size - 1
<1>1. /\ capacity \in Nat \ {0} /\ indexPop \in Nat /\ indexPop < capacity /\ size \in Nat
  BY PipeAssumption DEF TypeOK, Slots
<1>2. (indexPop + 1) % capacity = IF indexPop + 1 = capacity THEN 0 ELSE indexPop + 1
  <2>1. 1 \in Nat /\ 1 <= capacity
    BY <1>1
  <2>2. (indexPop + 1) % capacity =
          IF indexPop + 1 < capacity THEN indexPop + 1 ELSE indexPop + 1 - capacity
    BY <1>1, <2>1, RingIndex
  <2> QED BY <1>1, <2>2
<1>3. size > 0 /\ size <= capacity => (size - 1) % SizeModulus = size - 1
  BY <1>1, SizeFits
<1> QED BY <1>2, <1>3 DEF Pop

\* RingExact without remainders.
LEMMA RingPlace ==
  ASSUME TypeOK, size <= capacity
  PROVE  /\ (indexPop + size) % capacity =
              IF indexPop + size < capacity THEN indexPop + size ELSE indexPop + size - capacity
         /\ size < capacity /\ indexPush = (indexPop + size) % capacity
              => Ahead(indexPop, indexPush) = size
<1>1. /\ capacity \in Nat \ {0} /\ indexPop \in Nat /\ indexPop < capacity /\ size \in Nat
  BY PipeAssumption DEF TypeOK, Slots
<1>2. (indexPop + size) % capacity =
        IF indexPop + size < capacity THEN indexPop + size ELSE indexPop + size - capacity
  BY <1>1, RingIndex
<1> QED BY <1>1, <1>2 DEF Ahead

\* Until Shutdown, Push fills the slot after the full ones and Pop empties the first.
LEMMA RingExactStep ==
  ASSUME TypeOK, TypeOK', Numbered, Accounts, RingExact, [Next]_vars
  PROVE  RingExact'
<1> SUFFICES ASSUME ~shutdown, ~shutdown' PROVE RingExact'
  BY ShutdownStays DEF RingExact
<1> USE PipeAssumption
<1>1. /\ indexPush = (indexPop + size) % capacity
      /\ \A j \in Slots : Ahead(indexPop, j) >= size => items[j] = NULL
  BY DEF RingExact
<1>2. size <= capacity
  BY RoomForPushers, CountsRelated DEF TypeOK
<1>3. ASSUME NEW s \in Senders, Push(s) PROVE RingExact'
  <2>1. size < capacity
    BY <1>3, RoomForPushers DEF Push, At
  <2>2. /\ items' = [items EXCEPT ![indexPush] = Current(s)]
        /\ indexPush' = IF indexPush + 1 = capacity THEN 0 ELSE indexPush + 1
        /\ indexPop' = indexPop /\ size' = size + 1
    BY <1>3, <2>1, PushMoves
  <2>3. indexPush' = (indexPop' + size') % capacity
    <3>1. indexPush = IF indexPop + size < capacity THEN indexPop + size
                      ELSE indexPop + size - capacity
      BY <1>1, <1>2, RingPlace
    <3>2. (indexPop' + size') % capacity =
             IF indexPop' + size' < capacity THEN indexPop' + size'
             ELSE indexPop' + size' - capacity
      <4>1. indexPop' \in Nat /\ indexPop' < capacity /\ size' \in Nat /\ size' <= capacity
        BY <2>1, <2>2 DEF TypeOK, Slots
      <4> QED BY <4>1, RingIndex
    <3> QED BY <2>1, <2>2, <3>1, <3>2 DEF TypeOK, Slots
  <2>4. ASSUME NEW j \in Slots, Ahead(indexPop, j) >= size + 1 PROVE items'[j] = NULL
    <3>1. Ahead(indexPop, indexPush) = size
      BY <1>1, <1>2, <2>1, RingPlace
    <3>2. j /= indexPush
      BY <2>4, <3>1 DEF TypeOK
    <3>3. Ahead(indexPop, j) >= size
      BY <2>4 DEF Ahead, TypeOK, Slots
    <3> QED BY <1>1, <2>2, <3>2, <3>3 DEF TypeOK
  <2> QED BY <2>2, <2>3, <2>4 DEF RingExact, Ahead
<1>4. ASSUME NEW r \in Receivers, Pop(r) PROVE RingExact'
  <2>1. size > 0
    BY <1>4, RoomForPushers DEF Pop, At
  <2>2. /\ items' = [items EXCEPT ![indexPop] = NULL]
        /\ indexPop' = IF indexPop + 1 = capacity THEN 0 ELSE indexPop + 1
        /\ indexPush' = indexPush /\ size' = size - 1
    BY <1>2, <1>4, <2>1, PopMoves
  <2>3. indexPush' = (indexPop' + size') % capacity
    <3>1. indexPush = IF indexPop + size < capacity THEN indexPop + size
                      ELSE indexPop + size - capacity
      BY <1>1, <1>2, RingPlace
    <3>2. (indexPop' + size') % capacity =
             IF indexPop' + size' < capacity THEN indexPop' + size'
             ELSE indexPop' + size' - capacity
      <4>1. indexPop' \in Nat /\ indexPop' < capacity /\ size' \in Nat /\ size' <= capacity
        BY <1>2, <2>1, <2>2 DEF TypeOK, Slots
      <4> QED BY <4>1, RingIndex
    <3> QED BY <1>2, <2>1, <2>2, <3>1, <3>2 DEF TypeOK, Slots
  <2>4. ASSUME NEW j \in Slots, Ahead(indexPop', j) >= size - 1 PROVE items'[j] = NULL
    <3>1. CASE j = indexPop
      BY <2>2, <3>1 DEF TypeOK
    <3>2. CASE j /= indexPop
      <4>1. Ahead(indexPop, j) >= size
        BY <2>2, <2>4, <3>2 DEF Ahead, TypeOK, Slots
      <4> QED BY <1>1, <2>2, <3>2, <4>1 DEF TypeOK
    <3> QED BY <3>1, <3>2
  <2> QED BY <2>2, <2>3, <2>4 DEF RingExact, Ahead
<1>5. CASE UNCHANGED ringVars
  BY <1>1, <1>5 DEF RingExact, ringVars, Ahead
<1> QED BY <1>3, <1>4, <1>5, RingStays

\* How the number of senders past their check changes.
LEMMA PushersMove ==
  ASSUME TypeOK, [Next]_vars, shutdown
  PROVE  /\ (\E s \in Senders : Push(s)) => Pushers' = Pushers - 1
         /\ (~\E s \in Senders : Push(s)) => Pushers' = Pushers
<1> USE DEF TypeOK
<1>1. Pushers \in Nat
  BY CountsRelated
<1>2. ASSUME NEW s \in Senders, NEW from \in Labels, NEW to, At(s, from), Goto(s, to)
      PROVE  Pushers' = Pushers + Moved(from, to, {"lock", "push"})
  BY <1>2, SenderMoves DEF At, Goto
<1>3. ASSUME NEW s \in Senders, Push(s) PROVE Pushers' = Pushers - 1
  <2>1. Pushers' = Pushers + Moved("push", "post", {"lock", "push"})
    BY <1>2, <1>3 DEF Push, Labels
  <2> QED BY <1>1, <2>1 DEF Moved
<1>4. ASSUME NEW s \in Senders, ~Push(s), SendStep(s) \/ \E m \in Modes : SendStart(s, m)
      PROVE  Pushers' = Pushers
  <2>1. ASSUME NEW from \in Labels, NEW to, At(s, from), Goto(s, to),
               Moved(from, to, {"lock", "push"}) = 0
        PROVE  Pushers' = Pushers
    BY <1>1, <1>2, <2>1
  <2>2. /\ Moved("wait", "check", {"lock", "push"}) = 0
        /\ Moved("wait", "idle", {"lock", "push"}) = 0
        /\ Moved("check", "idle", {"lock", "push"}) = 0
        /\ Moved("lock", "push", {"lock", "push"}) = 0
        /\ Moved("post", "idle", {"lock", "push"}) = 0
    BY DEF Moved
  <2>3. CASE TakeEmpty(s) \/ NoSlot(s)
    BY <2>1, <2>2, <2>3 DEF TakeEmpty, NoSlot, Waited, Labels
  <2>4. CASE CheckShutdown(s)
    BY <2>1, <2>2, <2>4 DEF CheckShutdown, Labels
  <2>5. CASE LockToPush(s) \/ PostStored(s)
    BY <2>1, <2>2, <2>5 DEF LockToPush, Lock, PostStored, Labels
  <2>6. CASE \E m \in Modes : SendStart(s, m)
    BY <2>6, NobodyMoves DEF SendStart
  <2> QED BY <1>4, <2>3, <2>4, <2>5, <2>6 DEF SendStep
<1>5. ASSUME NEW r \in Receivers, ReceiveStep(r) \/ \E m \in Modes : ReceiveStart(r, m)
      PROVE  Pushers' = Pushers
  <2>1. PICK l : pc' = [pc EXCEPT ![r] = l]
    BY <1>5 DEF ReceiveStep, TakeStored, ReceiveTimesOut, LockToPop, Lock, Pop, PostEmpty,
                ReceiveStart, Waited, Goto
  <2> QED BY <2>1, ReceiverMoves
<1>6. ASSUME NEW c \in Closers, SetShutdown(c) \/ CloseStep(c) PROVE Pushers' = Pushers
  <2>1. PICK l : pc' = [pc EXCEPT ![c] = l]
    BY <1>6 DEF SetShutdown, CloseStep, WakeReceiver, WakeSender, Goto
  <2> QED BY <2>1, CloserMoves
<1>7. ASSUME (\E p \in Faulty : Kill(p)) \/ UNCHANGED vars PROVE Pushers' = Pushers
  <2>1. pc' = pc
    BY <1>7 DEF Kill, vars
  <2> QED BY <2>1, NobodyMoves
<1>8. (~\E s \in Senders : Push(s)) => Pushers' = Pushers
  BY <1>4, <1>5, <1>6, <1>7 DEF Next
<1> QED BY <1>3, <1>8

\* Shutdown leaves the senders past their check the room they were promised, and
\* each Push takes one slot of it.
LEMMA RoomLeftStep ==
  ASSUME TypeOK, TypeOK', Numbered, Accounts, RingExact, RoomLeft, [Next]_vars
  PROVE  RoomLeft'
<1> SUFFICES ASSUME shutdown' PROVE RoomLeft'
  BY DEF RoomLeft
<1>1. /\ capacity \in Nat \ {0} /\ indexPush \in Nat /\ indexPush < capacity
      /\ Pushers \in Nat /\ size \in Nat
      /\ items \in [Slots -> Messages \cup {NULL}] /\ items' \in [Slots -> Messages \cup {NULL}]
      /\ indexPop \in Nat /\ indexPop < capacity
  BY PipeAssumption, CountsRelated DEF TypeOK, Slots
<1>2. CASE ~shutdown
  <2>1. PICK c \in Closers : SetShutdown(c)
    BY <1>2 DEF Next, SendStep, ReceiveStep, CloseStep, SendStart, TakeEmpty, NoSlot,
         CheckShutdown, LockToPush, Lock, Push, PostStored, ReceiveStart, TakeStored,
         ReceiveTimesOut, LockToPop, Pop, PostEmpty, WakeReceiver, WakeSender, Kill, vars
  <2>2. items' = items /\ indexPush' = indexPush /\ pc' = [pc EXCEPT ![c] = "wakeReceiver"]
    BY <2>1 DEF SetShutdown, ringVars, Goto
  <2>3. Pushers' = Pushers
    BY <2>2, CloserMoves DEF TypeOK
  <2>4. size + Pushers <= capacity
    BY <1>2, RoomForPushers
  <2>5. ASSUME NEW j \in Slots, Ahead(indexPush, j) < Pushers PROVE items[j] = NULL
    <3>1. indexPush = IF indexPop + size < capacity THEN indexPop + size
                      ELSE indexPop + size - capacity
      BY <1>1, <1>2, <2>4, RingPlace DEF RingExact
    <3>2. Ahead(indexPop, j) >= size
      BY <1>1, <2>4, <2>5, <3>1 DEF Ahead, Slots
    <3> QED BY <1>2, <3>2 DEF RingExact
  <2> QED BY <1>1, <2>2, <2>3, <2>4, <2>5 DEF RoomLeft, Ahead
<1>3. CASE shutdown
  <2>1. /\ Pushers <= capacity
        /\ \A j \in Slots : Ahead(indexPush, j) < Pushers => items[j] = NULL
    BY <1>3 DEF RoomLeft
  <2>2. ASSUME NEW s \in Senders, Push(s) PROVE RoomLeft'
    <3>1. /\ items' = [items EXCEPT ![indexPush] = Current(s)]
          /\ indexPush' = IF indexPush + 1 = capacity THEN 0 ELSE indexPush + 1
      BY <2>2, PushMoves
    <3>2. Pushers' = Pushers - 1
      BY <1>3, <2>2, PushersMove
    <3>3. ASSUME NEW j \in Slots, Ahead(indexPush', j) < Pushers - 1 PROVE items'[j] = NULL
      <4>1. j /= indexPush /\ Ahead(indexPush, j) < Pushers
        BY <1>1, <2>1, <3>1, <3>3 DEF Ahead, Slots
      <4> QED BY <1>1, <2>1, <3>1, <4>1
    <3> QED BY <1>1, <2>1, <3>2, <3>3 DEF RoomLeft, Ahead
  <2>3. ASSUME ~\E s \in Senders : Push(s) PROVE RoomLeft'
    <3>1. Pushers' = Pushers
      BY <1>3, <2>3, PushersMove
    <3>2. indexPush' = indexPush
          /\ \A j \in Slots : items'[j] = items[j] \/ items'[j] = NULL
      <4>1. ASSUME NEW r \in Receivers, Pop(r)
            PROVE  indexPush' = indexPush /\ items' = [items EXCEPT ![indexPop] = NULL]
        BY <4>1, PopMoves
      <4> QED BY <1>1, <2>3, <4>1, RingStays DEF ringVars
    <3> QED BY <2>1, <3>1, <3>2 DEF RoomLeft, Ahead
  <2> QED BY <2>2, <2>3
<1> QED BY <1>2, <1>3

-----------------------------------------------------------------------------
(* Late messages *)

\* A message is pushed once, by the Send that carries it, and a late one never.
LEMMA UnsentStep ==
  ASSUME TypeOK, Numbered, Unsent, [Next]_vars
  PROVE  Unsent'
<1> USE PipeAssumption
<1>1. /\ pc \in [Procs -> Labels] /\ calls \in [Procs -> 0 .. MaxSends + MaxShutdowns]
      /\ \A s \in Senders : s \in Procs
      /\ \A c \in Closers : c \in Procs /\ c \notin Senders
      /\ \A r \in Receivers : r \in Procs /\ r \notin Senders
  BY DEF TypeOK, Procs
<1>2. ASSUME NEW s \in Senders, NEW m \in Modes, SendStart(s, m) PROVE Unsent'
  <2>1. /\ calls' = [calls EXCEPT ![s] = @ + 1] /\ pushed' = pushed /\ shutdown' = shutdown
        /\ pc[s] = "idle"
    BY <1>2 DEF SendStart, At
  <2>2. <<s, calls[s] + 1>> \notin pushed
    <3>1. calls[s] + 1 \in 1 .. MaxSends
      BY <1>1, <1>2 DEF SendStart
    <3> QED BY <1>1, <3>1 DEF Unsent
  <2>3. \A t \in Senders, n \in 1 .. MaxSends : <<t, n>> \in pushed' => n <= calls'[t]
    BY <1>1, <2>1 DEF Unsent
  <2>4. CASE shutdown
    <3>1. late' = late \cup {<<s, calls[s] + 1>>} /\ pc' = pc
      BY <1>2, <2>4 DEF SendStart
    <3>2. late' \cap pushed' = {}
      BY <2>1, <2>2, <3>1 DEF Unsent
    <3>3. ASSUME NEW t \in Senders, pc'[t] \in {"wait", "check", "lock", "push"}
          PROVE  /\ pc[t] \in {"lock", "push"} => Current(t)' \notin late'
                 /\ Current(t)' \notin pushed'
      <4>1. t /= s /\ Current(t)' = Current(t) /\ pc[t] = pc'[t]
        BY <1>1, <2>1, <3>1, <3>3 DEF Current
      <4> QED BY <2>1, <3>1, <3>3, <4>1 DEF Unsent, Current
    <3> QED BY <2>1, <2>3, <2>4, <3>1, <3>2, <3>3 DEF Unsent
  <2>5. CASE ~shutdown
    <3>1. late' = late /\ pc' = [pc EXCEPT ![s] = "wait"]
      BY <1>2, <2>5 DEF SendStart, Goto
    <3>2. ASSUME NEW t \in Senders, pc'[t] \in {"wait", "check", "lock", "push"}
          PROVE  Current(t)' \notin pushed'
      <4>1. CASE t = s
        BY <1>1, <2>1, <2>2, <4>1 DEF Current
      <4>2. CASE t /= s
        <5>1. Current(t)' = Current(t) /\ pc[t] = pc'[t]
          BY <1>1, <2>1, <3>1, <4>2 DEF Current
        <5> QED BY <2>1, <3>2, <5>1 DEF Unsent
      <4> QED BY <4>1, <4>2
    <3> QED BY <2>1, <2>3, <2>5, <3>1, <3>2 DEF Unsent
  <2> QED BY <2>4, <2>5
<1>3. ASSUME NEW s \in Senders, TakeEmpty(s) \/ NoSlot(s) \/ CheckShutdown(s) \/ LockToPush(s)
                                \/ PostStored(s)
      PROVE  Unsent'
  <2>1. calls' = calls /\ pushed' = pushed /\ late' = late /\ shutdown' = shutdown
    BY <1>3 DEF TakeEmpty, NoSlot, CheckShutdown, LockToPush, Lock, PostStored, histVars
  <2>2. /\ pc'[s] \in {"lock", "push"} => pc[s] \in {"lock", "push"} \/ late = {}
        /\ pc'[s] \in {"wait", "check", "lock", "push"}
             => pc[s] \in {"wait", "check", "lock", "push"}
        /\ \A t \in Senders \ {s} : pc'[t] = pc[t]
    BY <1>1, <1>3 DEF TakeEmpty, NoSlot, CheckShutdown, LockToPush, Lock, PostStored,
                      Waited, Goto, At, Unsent
  <2> QED BY <2>1, <2>2 DEF Unsent, Current
<1>4. ASSUME NEW s \in Senders, Push(s) PROVE Unsent'
  <2>1. /\ calls' = calls /\ late' = late /\ shutdown' = shutdown
        /\ pushed' = pushed \cup {<<s, calls[s]>>}
        /\ pc[s] = "push" /\ pc' = [pc EXCEPT ![s] = "post"]
    BY <1>4 DEF Push, Goto, At, Current
  <2>2. /\ <<s, calls[s]>> \notin late
        /\ \A t \in Senders : pc'[t] \in {"wait", "check", "lock", "push"} => t /= s
        /\ \A t \in Senders \ {s} : pc'[t] = pc[t]
    BY <1>1, <2>1 DEF Unsent, Current
  <2>3. \A t \in Senders, n \in 1 .. MaxSends : <<t, n>> \in pushed' => n <= calls[t]
    BY <1>1, <2>1 DEF Unsent
  <2> QED BY <2>1, <2>2, <2>3 DEF Unsent, Current
<1>5. ASSUME NEW r \in Receivers, ReceiveStep(r) \/ \E m \in Modes : ReceiveStart(r, m)
      PROVE  Unsent'
  <2>1. /\ calls' = calls /\ pushed' = pushed /\ late' = late /\ shutdown' = shutdown
        /\ \A s \in Senders : pc'[s] = pc[s]
    BY <1>1, <1>5 DEF ReceiveStep, TakeStored, ReceiveTimesOut, LockToPop, Lock, Pop, PostEmpty,
                ReceiveStart, Waited, Goto, histVars
  <2> QED BY <2>1 DEF Unsent, Current
<1>6. ASSUME NEW c \in Closers, SetShutdown(c) PROVE Unsent'
  <2>1. /\ pushed' = pushed /\ shutdown'
        /\ late' = late \cup {Current(s) : s \in {t \in Senders : pc[t] = "wait"}}
        /\ \A s \in Senders : pc'[s] = pc[s] /\ calls'[s] = calls[s]
    BY <1>1, <1>6 DEF SetShutdown, Goto
  <2>2. \A s \in Senders : pc[s] \in {"lock", "push"} => Current(s) \notin late'
    BY <2>1 DEF Unsent, Current
  <2>3. late' \cap pushed = {}
    BY <2>1 DEF Unsent
  <2> QED BY <2>1, <2>2, <2>3 DEF Unsent, Current
<1>7. ASSUME NEW c \in Closers, CloseStep(c) PROVE Unsent'
  <2>1. /\ calls' = calls /\ pushed' = pushed /\ late' = late /\ shutdown' = shutdown
        /\ \A s \in Senders : pc'[s] = pc[s]
    BY <1>1, <1>7 DEF CloseStep, WakeReceiver, WakeSender, Goto, histVars
  <2> QED BY <2>1 DEF Unsent, Current
<1>8. CASE (\E p \in Faulty : Kill(p)) \/ UNCHANGED vars
  <2>1. calls' = calls /\ pushed' = pushed /\ late' = late /\ shutdown' = shutdown /\ pc' = pc
    BY <1>8 DEF Kill, vars, histVars
  <2> QED BY <2>1 DEF Unsent, Current
<1> QED BY <1>2, <1>3, <1>4, <1>5, <1>6, <1>7, <1>8 DEF Next, SendStep

-----------------------------------------------------------------------------
(* The theorems *)

\* Every step of Send, Receive, Shutdown and every kill keeps the invariant.
LEMMA NextIInv == IInv /\ [Next]_vars => IInv'
<1> SUFFICES ASSUME IInv, [Next]_vars PROVE IInv'
  OBVIOUS
<1> USE DEF IInv
<1>1. TypeOK' /\ Numbered' /\ FlagFirst'
  BY TypeStep, NumberedStep, FlagFirstStep
<1>2. Accounts'
  BY AccountsStep
<1>3. RingExact' /\ RoomLeft'
  BY <1>1, RingExactStep, RoomLeftStep
<1>4. Unsent'
  BY UnsentStep
<1> QED BY <1>1, <1>2, <1>3, <1>4

\* The invariant the other theorems about the pipe rest on.
THEOREM Invariance == Spec => []IInv
BY InitIInv, NextIInv, PTL DEF Spec

\* Until Shutdown every slot is free, full, or with exactly one call, whatever the
\* interleaving and whoever is killed.
THEOREM EverySlotAccounted == Spec => []SlotsAccounted
<1>1. IInv => SlotsAccounted
  BY DEF IInv, SlotsAccounted, Accounts, SlotHolders, Posters, Takers, Poppers
<1> QED BY <1>1, Invariance, PTL

\* After Shutdown no Push lands on an element nobody took, and no late Send
\* gets into the pipe.
THEOREM ShutdownLosesNothing == Spec => []SafeAfterShutdown
<1>1. IInv => SafeAfterShutdown
  <2> SUFFICES ASSUME IInv PROVE SafeAfterShutdown
    OBVIOUS
  <2>1. /\ capacity \in Nat \ {0} /\ indexPush \in Slots /\ Ahead(indexPush, indexPush) = 0
        /\ Pushers \in Nat
    BY PipeAssumption, CountsRelated DEF IInv, TypeOK, Slots, Ahead
  <2>2. ASSUME NEW s \in Senders, pc[s] = "push" PROVE items[indexPush] = NULL
    <3>1. Pushers > 0
      BY <2>2, CountsRelated
    <3>2. CASE shutdown
      BY <2>1, <3>1, <3>2 DEF IInv, RoomLeft
    <3>3. CASE ~shutdown
      <4>1. size < capacity /\ size <= capacity
        BY <2>1, <2>2, <3>3, RoomForPushers DEF IInv, TypeOK
      <4>2. Ahead(indexPop, indexPush) = size
        BY <3>3, <4>1, RingPlace DEF IInv, RingExact
      <4> QED BY <2>1, <3>3, <4>2 DEF IInv, RingExact, TypeOK
    <3> QED BY <3>2, <3>3
  <2> QED BY <2>2 DEF IInv, Unsent, SafeAfterShutdown
<1> QED BY <1>1, Invariance, PTL

-----------------------------------------------------------------------------
(* The queue *)

Elements == Messages \cup {NULL}

\* The slot n places after slot i.
Place(i, n) == IF i + n < capacity THEN i + n ELSE i + n - capacity

\* The n slots from the first one on.
QueueOf(ring, first, n) == [i \in 1 .. n |-> ring[(first + i - 1) % capacity]]

\* The ring's full slots are a sequence.
LEMMA QueueIs ==
  ASSUME NEW ring \in [Slots -> Elements], NEW first \in Slots, NEW n \in 0 .. capacity
  PROVE  /\ QueueOf(ring, first, n) \in Seq(Elements) /\ Len(QueueOf(ring, first, n)) = n
         /\ \A i \in 1 .. n : /\ Place(first, i - 1) \in Slots
                             /\ QueueOf(ring, first, n)[i] = ring[Place(first, i - 1)]
<1> DEFINE q == QueueOf(ring, first, n)
<1>1. /\ capacity \in Nat \ {0} /\ first \in Nat /\ first < capacity /\ n \in Nat /\ n <= capacity
  BY PipeAssumption DEF Slots
<1>2. ASSUME NEW i \in 1 .. n
      PROVE  Place(first, i - 1) \in Slots /\ q[i] = ring[Place(first, i - 1)]
  <2>1. (first + (i - 1)) % capacity = Place(first, i - 1)
    <3>1. i - 1 \in Nat /\ i - 1 <= capacity
      BY <1>1
    <3> QED BY <1>1, <3>1, RingIndex DEF Place
  <2>2. first + i - 1 = first + (i - 1)
    BY <1>1
  <2>3. (first + i - 1) % capacity = Place(first, i - 1)
    BY <2>1, <2>2
  <2>4. Place(first, i - 1) \in Slots
    BY <1>1 DEF Place, Slots
  <2>5. q[i] = ring[(first + i - 1) % capacity]
    BY DEF QueueOf
  <2> QED BY <2>3, <2>4, <2>5
<1>3. q \in [1 .. n -> Elements]
  <2>1. q = [i \in 1 .. n |-> q[i]]
    BY DEF QueueOf
  <2>2. \A i \in 1 .. n : q[i] \in Elements
    BY <1>2
  <2> HIDE DEF q
  <2> QED BY <2>1, <2>2
<1>4. q \in Seq(Elements) /\ Len(q) = n
  <2> HIDE DEF q
  <2> QED BY <1>1, <1>3
<1> QED BY <1>2, <1>4

\* Push appends to the queue.
LEMMA PushAppends ==
  ASSUME IInv, IInv', ~shutdown, NEW s \in Senders, Push(s)
  PROVE  Fifo!Put(Current(s))
<1>1. /\ size < capacity /\ size \in Nat /\ capacity \in Nat \ {0}
      /\ indexPop \in Slots /\ indexPush \in Slots /\ indexPop' = indexPop
      /\ items \in [Slots -> Elements] /\ items' \in [Slots -> Elements]
      /\ items' = [items EXCEPT ![indexPush] = Current(s)]
      /\ Current(s) \in Elements /\ size' = size + 1
  <2>1. size < capacity
    BY RoomForPushers DEF IInv, Push, At
  <2> QED BY <2>1, PushMoves, PipeAssumption DEF IInv, TypeOK, Elements
<1>2. indexPush = Place(indexPop, size)
  BY <1>1, RingPlace DEF IInv, RingExact, Place
<1>3. /\ Queue \in Seq(Elements) /\ Len(Queue) = size
      /\ \A i \in 1 .. size : /\ Place(indexPop, i - 1) \in Slots
                              /\ Queue[i] = items[Place(indexPop, i - 1)]
  <2>1. items \in [Slots -> Elements] /\ indexPop \in Slots /\ size \in 0 .. capacity
    BY <1>1
  <2>2. Queue = QueueOf(items, indexPop, size)
    BY DEF Queue, QueueOf
  <2>3. /\ QueueOf(items, indexPop, size) \in Seq(Elements)
        /\ Len(QueueOf(items, indexPop, size)) = size
        /\ \A i \in 1 .. size : /\ Place(indexPop, i - 1) \in Slots
                               /\ QueueOf(items, indexPop, size)[i] = items[Place(indexPop, i - 1)]
    BY <2>1, QueueIs
  <2> QED BY <2>2, <2>3
<1>4. /\ Queue' \in Seq(Elements) /\ Len(Queue') = size'
      /\ \A i \in 1 .. size' : Queue'[i] = items'[Place(indexPop', i - 1)]
  <2>1. items' \in [Slots -> Elements] /\ indexPop' \in Slots /\ size' \in 0 .. capacity
    BY <1>1
  <2>2. Queue' = QueueOf(items', indexPop', size')
    BY DEF Queue, QueueOf
  <2>3. /\ QueueOf(items', indexPop', size') \in Seq(Elements)
        /\ Len(QueueOf(items', indexPop', size')) = size'
        /\ \A i \in 1 .. size' : /\ Place(indexPop', i - 1) \in Slots
                               /\ QueueOf(items', indexPop', size')[i] = items'[Place(indexPop', i - 1)]
    BY <2>1, QueueIs
  <2> QED BY <2>2, <2>3
<1>5. Queue' = Append(Queue, Current(s))
  <2>1. /\ Append(Queue, Current(s)) \in Seq(Elements)
        /\ Len(Append(Queue, Current(s))) = size + 1
        /\ \A i \in 1 .. size : Append(Queue, Current(s))[i] = Queue[i]
        /\ Append(Queue, Current(s))[size + 1] = Current(s)
    BY <1>1, <1>3, AppendProperties
  <2>2. ASSUME NEW i \in 1 .. size PROVE Queue'[i] = Queue[i]
    <3>1. Place(indexPop, i - 1) /= indexPush
      BY <1>1, <1>2 DEF Place, Slots
    <3>2. i \in 1 .. size' /\ indexPop' = indexPop /\ Place(indexPop, i - 1) \in Slots
      <4>1. i \in 1 .. size' /\ indexPop' = indexPop
        BY <1>1
      <4>2. Place(indexPop, i - 1) \in Slots
        BY ONLY <1>3, i \in 1 .. size
      <4> QED BY <4>1, <4>2
    <3>3. items'[Place(indexPop, i - 1)] = items[Place(indexPop, i - 1)]
      BY <1>1, <3>1, <3>2
    <3>4. Queue'[i] = items'[Place(indexPop', i - 1)]
      BY ONLY <1>4, <3>2
    <3>5. Place(indexPop', i - 1) = Place(indexPop, i - 1)
      BY <3>2
    <3> QED BY <1>3, <3>3, <3>4, <3>5
  <2>3. Queue'[size + 1] = Current(s)
    <3>1. size + 1 \in 1 .. size' /\ (size + 1) - 1 = size
      BY <1>1
    <3> QED BY <1>1, <1>2, <1>4, <3>1
  <2>4. \A i \in 1 .. size + 1 : Queue'[i] = Append(Queue, Current(s))[i]
    BY <1>1, <2>1, <2>2, <2>3
  <2> QED BY <1>1, <1>4, <2>1, <2>4, SeqEqual
<1> QED BY <1>1, <1>3, <1>5 DEF Fifo!Put, Push

\* Pop takes the queue's first element.
LEMMA PopTakesHead ==
  ASSUME IInv, IInv', ~shutdown, NEW r \in Receivers, Pop(r)
  PROVE  Fifo!Get(r)
<1>1. size > 0 /\ size <= capacity
  <2>1. size + Pushers <= capacity /\ size > 0
    BY RoomForPushers DEF IInv, Pop, At
  <2>2. size \in Nat /\ Pushers \in Nat /\ capacity \in Nat
    BY CountsRelated, PipeAssumption DEF IInv, TypeOK
  <2> QED BY <2>1, <2>2
<1>2. /\ size \in Nat /\ capacity \in Nat \ {0}
      /\ indexPop \in Slots /\ indexPop' \in Slots
      /\ indexPop' = Place(indexPop, 1)
      /\ items \in [Slots -> Elements] /\ items' \in [Slots -> Elements]
      /\ items' = [items EXCEPT ![indexPop] = NULL] /\ size' = size - 1
  BY <1>1, PopMoves, PipeAssumption DEF IInv, TypeOK, Elements, Place, Slots
<1>3. /\ Queue \in Seq(Elements) /\ Len(Queue) = size
      /\ \A i \in 1 .. size : /\ Place(indexPop, i - 1) \in Slots
                              /\ Queue[i] = items[Place(indexPop, i - 1)]
  <2>1. items \in [Slots -> Elements] /\ indexPop \in Slots /\ size \in 0 .. capacity
    BY <1>1, <1>2
  <2>2. Queue = QueueOf(items, indexPop, size)
    BY DEF Queue, QueueOf
  <2>3. /\ QueueOf(items, indexPop, size) \in Seq(Elements)
        /\ Len(QueueOf(items, indexPop, size)) = size
        /\ \A i \in 1 .. size : /\ Place(indexPop, i - 1) \in Slots
                               /\ QueueOf(items, indexPop, size)[i] = items[Place(indexPop, i - 1)]
    BY <2>1, QueueIs
  <2> QED BY <2>2, <2>3
<1>4. /\ Queue' \in Seq(Elements) /\ Len(Queue') = size'
      /\ \A i \in 1 .. size' : Queue'[i] = items'[Place(indexPop', i - 1)]
  <2>1. items' \in [Slots -> Elements] /\ indexPop' \in Slots /\ size' \in 0 .. capacity
    BY <1>1, <1>2
  <2>2. Queue' = QueueOf(items', indexPop', size')
    BY DEF Queue, QueueOf
  <2>3. /\ QueueOf(items', indexPop', size') \in Seq(Elements)
        /\ Len(QueueOf(items', indexPop', size')) = size'
        /\ \A i \in 1 .. size' : /\ Place(indexPop', i - 1) \in Slots
                               /\ QueueOf(items', indexPop', size')[i] = items'[Place(indexPop', i - 1)]
    BY <2>1, QueueIs
  <2> QED BY <2>2, <2>3
<1>5. Queue /= <<>> /\ Head(Queue) = items[indexPop]
  <2>1. Queue /= <<>> /\ Head(Queue) = Queue[1]
    BY <1>1, <1>2, <1>3
  <2>2. Place(indexPop, 1 - 1) = indexPop
    BY <1>2 DEF Place, Slots
  <2> QED BY <1>1, <1>2, <1>3, <2>1, <2>2
<1>6. Queue' = Tail(Queue)
  <2>1. /\ Tail(Queue) \in Seq(Elements) /\ Len(Tail(Queue)) = size - 1
        /\ \A i \in 1 .. size - 1 : Tail(Queue)[i] = Queue[i + 1]
    BY <1>3, <1>5, HeadTailProperties
  <2>2. ASSUME NEW i \in 1 .. size - 1 PROVE Queue'[i] = Queue[i + 1]
    <3>1. Place(indexPop', i - 1) = Place(indexPop, (i + 1) - 1)
      BY <1>1, <1>2 DEF Place, Slots
    <3>2. Place(indexPop, (i + 1) - 1) /= indexPop
      BY <1>1, <1>2 DEF Place, Slots
    <3>3. i + 1 \in 1 .. size /\ i \in 1 .. size'
      BY <1>2
    <3> QED BY <1>2, <1>3, <1>4, <3>1, <3>2, <3>3
  <2> QED BY <1>2, <1>4, <2>1, <2>2, SeqEqual
<1> QED BY <1>5, <1>6 DEF Fifo!Get, Pop

\* Until somebody shuts it down, the pipe implements the bounded queue.
THEOREM Implementation == Spec => PipeImplements
<1>1. Init => Fifo!Init
  BY DEF Init, Fifo!Init, Queue
<1>2. IInv /\ IInv' /\ [Next]_vars => [shutdown \/ Fifo!Next]_<<Queue, ptr>>
  <2> SUFFICES ASSUME IInv, IInv', [Next]_vars, ~shutdown
               PROVE  Fifo!Next \/ UNCHANGED <<Queue, ptr>>
    OBVIOUS
  <2>1. ASSUME NEW s \in Senders, Push(s) PROVE Fifo!Next
    <3>1. Current(s) \in Messages
      BY <2>1, PushMoves DEF IInv
    <3> QED BY <2>1, <3>1, PushAppends DEF Fifo!Next
  <2>2. ASSUME NEW r \in Receivers, Pop(r) PROVE Fifo!Next
    BY <2>2, PopTakesHead DEF Fifo!Next
  <2>3. ASSUME ~\E s \in Senders : Push(s), ~\E r \in Receivers : Pop(r)
        PROVE  Fifo!Next \/ UNCHANGED <<Queue, ptr>>
    <3>1. UNCHANGED Queue
      BY <2>3, RingStays DEF ringVars, Queue
    <3>2. ASSUME NEW r \in Receivers, NEW m \in Modes, ReceiveStart(r, m) PROVE Fifo!Next
      BY <3>1, <3>2 DEF ReceiveStart, Fifo!Next, Fifo!Reset
    <3>3. (~\E r \in Receivers : \E m \in Modes : ReceiveStart(r, m)) => UNCHANGED ptr
      BY <2>3 DEF Next, SendStep, ReceiveStep, CloseStep, SendStart, TakeEmpty, NoSlot,
           CheckShutdown, LockToPush, Lock, PostStored, TakeStored, ReceiveTimesOut, LockToPop,
           PostEmpty, SetShutdown, WakeReceiver, WakeSender, Kill, vars
    <3> QED BY <3>1, <3>2, <3>3
  <2> QED BY <2>1, <2>2, <2>3
<1> QED BY <1>1, <1>2, Invariance, PTL DEF Spec, PipeImplements
=============================================================================
