--------------------------- MODULE RouterIPC_proofs ---------------------------
(***************************************************************************)
(* Proofs about RouterIPC for any callers and receivers, any number of     *)
(* pipes and calls, and pipes of any capacity.                             *)
(***************************************************************************)
EXTENDS RouterIPC, FiniteSetTheorems, TLAPS

\* Where a caller is, and what it holds there.
Place(a) ==
  /\ mutex = a <=> pc[a] \in {"loop", "enter", "pipe"}
  /\ promoted[a] /= NoPipe <=> pc[a] \in {"enter", "pipe"}
  /\ pc[a] \in {"enter", "pipe"} =>
       op[a] = "Send" /\ index[a] <= Len(pipes) /\ promoted[a] = pipes[index[a]]
  /\ mutex /= a => index[a] = 1 /\ tally[a] = 0 /\ visited[a] = <<>>
  /\ index[a] <= Len(pipes) + 1
  /\ pc[a] /= "idle" => calls[a] > 0
  /\ tally[a] < index[a]

Places == \A a \in Callers : Place(a)

\* No pipe is twice in the vector, and one about to be pushed is not in it.
Vector ==
  /\ \A i, j \in 1 .. Len(pipes) : pipes[i] = pipes[j] => i = j
  /\ \A r \in pending :
       /\ handle[r] /= NoPipe
       /\ \A i \in 1 .. Len(pipes) : pipes[i] /= handle[r]
       /\ \A s \in pending \ {r} : handle[s] /= handle[r]

\* The Send that has the mutex has tried the pipes up to its index, in their order, and
\* has pruned none that somebody keeps.
Walk(a) ==
  /\ Len(visited[a]) = IF pc[a] = "loop" THEN index[a] - 1 ELSE index[a]
  /\ \A i \in 1 .. Len(visited[a]) : visited[a][i] = pipes[i]
  /\ \A p \in alive0[a] : Living(p) => \E i \in 1 .. Len(pipes) : pipes[i] = p

\* The pipes a's loop has done with, and those among them without its message.
Tried(a) == {pipes[i] : i \in 1 .. index[a] - 1}
Missed(a) == {p \in Tried(a) : Message(a) \notin ToSet(stream[p])}

Counted(a) ==
  tally[a] \in Cardinality({p \in Missed(a) : ~down[p]}) .. Cardinality(Missed(a))

Walks == \A a \in Callers : mutex = a /\ op[a] = "Send" => Walk(a) /\ Counted(a)

\* Nothing was sent by a call not made yet.
Past ==
  \A p \in Pipes : \A i \in 1 .. Len(stream[p]) : stream[p][i][2] <= calls[stream[p][i][1]]

\* The message of a call under way is the last in the pipes it was put into, which its
\* loop is done with.
Current ==
  \A a \in Callers, p \in Pipes : \A i \in 1 .. Len(stream[p]) :
    stream[p][i] = Message(a) /\ pc[a] /= "idle" =>
      mutex = a /\ i = Len(stream[p]) /\ p \in Tried(a)

NoneTwice ==
  \A p \in Pipes : \A i, j \in 1 .. Len(stream[p]) : stream[p][i] = stream[p][j] => i = j

\* SameOrder by positions.
Agree ==
  \A p, q \in Pipes : \A i, j \in 1 .. Len(stream[p]), k, l \in 1 .. Len(stream[q]) :
    i < j /\ k < l => ~(stream[p][i] = stream[q][l] /\ stream[p][j] = stream[q][k])

Streams == Past /\ Current /\ NoneTwice /\ Agree

IInv == TypeOK /\ Places /\ Vector /\ Walks /\ Streams

-----------------------------------------------------------------------------
(* The vector of pipes *)

\* Pruning moves the last pipe over the pruned one and touches no other.
LEMMA Pruned ==
  ASSUME NEW S, NEW s \in Seq(S), NEW i \in 1 .. Len(s)
  PROVE  LET t == Front([s EXCEPT ![i] = Last(s)]) IN
         /\ t \in Seq(S) /\ Len(t) = Len(s) - 1
         /\ \A j \in 1 .. Len(t) : t[j] = IF j = i THEN s[Len(s)] ELSE s[j]
<1> DEFINE u == [s EXCEPT ![i] = Last(s)]
<1>1. /\ u \in Seq(S) /\ Len(u) = Len(s)
      /\ \A j \in 1 .. Len(s) : u[j] = IF j = i THEN s[Len(s)] ELSE s[j]
  BY DEF Last
<1> HIDE DEF u
<1>2. /\ Front(u) \in Seq(S) /\ Len(Front(u)) = Len(u) - 1
      /\ \A j \in 1 .. Len(u) - 1 : Front(u)[j] = u[j]
  <2>1. Len(u) \in Nat /\ Len(u) > 0
    BY <1>1
  <2> QED BY <1>1, <2>1 DEF Front
<1>3. Len(s) \in Nat /\ Len(u) - 1 = Len(s) - 1
  BY <1>1
<1>4. ASSUME NEW j \in 1 .. Len(Front(u))
      PROVE  Front(u)[j] = IF j = i THEN s[Len(s)] ELSE s[j]
  <2>1. j \in 1 .. Len(s) /\ j \in 1 .. Len(u) - 1
    BY <1>2, <1>3
  <2> QED BY <1>1, <1>2, <2>1
<1> QED BY <1>1, <1>2, <1>4 DEF u

\* A vector without repetition is no longer than there are pipes.
LEMMA VectorBounded ==
  ASSUME NEW n \in Nat, NEW s \in Seq(1 .. n),
         \A i, j \in 1 .. Len(s) : s[i] = s[j] => i = j
  PROVE  Len(s) <= n
<1>1. \A k \in Nat : IsFiniteSet(1 .. k) /\ Cardinality(1 .. k) = k
  BY FS_Interval
<1>2. s \in Injection(1 .. Len(s), 1 .. n)
  BY DEF Injection, IsInjective
<1>3. Cardinality(1 .. Len(s)) <= Cardinality(1 .. n)
  BY <1>1, <1>2, FS_Injection
<1>4. Len(s) \in Nat
  OBVIOUS
<1> QED BY <1>1, <1>3, <1>4

\* The vector holds pipes that have been created.
LEMMA Numbered ==
  ASSUME TypeOK, NEW i \in 1 .. Len(pipes)
  PROVE  pipes[i] \in 1 .. created
<1> PICK S : S = 1 .. created
  OBVIOUS
<1>1. pipes \in Seq(S)
  BY DEF TypeOK
<1>2. pipes[i] \in S
  BY ONLY <1>1, i \in 1 .. Len(pipes)
<1> QED BY <1>2

-----------------------------------------------------------------------------
(* Who changes what *)

ReceiverStep(r) == CreatePipe(r) \/ PushPipe(r) \/ Receive(r) \/ ClosePipe(r) \/ Leave(r)

CallerStep(a) == (\E o \in Ops, m \in Modes : Call(a, o, m)) \/ TakeMutex(a) \/ LoopStep(a)

\* Every step is a receiver's or a caller's.
LEMMA WhoseStep ==
  ASSUME [Next]_vars
  PROVE  \/ \E r \in Receivers : ReceiverStep(r)
         \/ \E a \in Callers : CallerStep(a)
         \/ UNCHANGED vars
BY DEF Next, ReceiverStep, CallerStep

\* Receivers leave the calls alone, and the vector too while a call goes through it.
LEMMA ReceiversApart ==
  ASSUME NEW r \in Receivers, ReceiverStep(r)
  PROVE  UNCHANGED <<mutex, stream, callVars>> /\ (mutex /= Nobody => pipes' = pipes)
BY DEF ReceiverStep, CreatePipe, PushPipe, Receive, ClosePipe, Leave

\* A pipe that is shut down stays shut down.
LEMMA DownStays ==
  ASSUME TypeOK, [Next]_vars, NEW p \in Pipes, down[p]
  PROVE  down'[p]
<1>1. ASSUME NEW q, NEW hs, NEW ps, DestroyPipes(q, hs, ps) PROVE down'[p]
  BY <1>1 DEF DestroyPipes
<1>2. ASSUME NEW r \in Receivers, ReceiverStep(r) PROVE down'[p]
  BY <1>1, <1>2 DEF ReceiverStep, CreatePipe, PushPipe, Receive, ClosePipe, Leave, TypeOK
<1>3. ASSUME NEW a \in Callers, CallerStep(a) PROVE down'[p]
  <2>1. CASE EnterPipe(a) \/ PutInPipe(a) \/ PipeError(a)
    BY <1>1, <2>1 DEF EnterPipe, PutInPipe, PipeError, EndOfBody, pipeVars
  <2>2. CASE ShutDownPipe(a)
    BY <2>2 DEF ShutDownPipe, TypeOK
  <2>3. CASE ~(EnterPipe(a) \/ PutInPipe(a) \/ PipeError(a) \/ ShutDownPipe(a))
    BY <1>3, <2>3 DEF CallerStep, LoopStep, Call, TakeMutex, Prune, Promote, CountPipe,
       ReleaseMutex, pipeVars
  <2> QED BY <2>1, <2>2, <2>3
<1> QED BY <1>2, <1>3, WhoseStep DEF vars, pipeVars

\* A pipe nobody keeps is never kept again.
LEMMA NoRevival ==
  ASSUME TypeOK, [Next]_vars, NEW p \in 1 .. created, Living(p)'
  PROVE  Living(p)
<1> USE DEF Living, Held
<1>1. created \in Nat /\ p /= NoPipe
  BY RouterAssumption DEF TypeOK, NoPipe
<1>2. ASSUME NEW r \in Receivers, ReceiverStep(r) PROVE Living(p)
  <2>1. promoted' = promoted
    BY <1>2, ReceiversApart DEF callVars
  <2>2. CASE CreatePipe(r)
    <3>1. handle' = [handle EXCEPT ![r] = created + 1] /\ p /= created + 1
      BY <1>1, <2>2 DEF CreatePipe
    <3> QED BY <2>1, <3>1 DEF TypeOK
  <2>3. CASE Leave(r)
    BY <1>1, <2>1, <2>3 DEF Leave, TypeOK
  <2>4. CASE ~CreatePipe(r) /\ ~Leave(r)
    BY <1>2, <2>1, <2>4 DEF ReceiverStep, PushPipe, Receive, ClosePipe
  <2> QED BY <2>2, <2>3, <2>4
<1>3. ASSUME NEW a \in Callers, CallerStep(a) PROVE Living(p)
  <2>1. handle' = handle
    BY <1>3 DEF CallerStep, LoopStep, Call, TakeMutex, Prune, Promote, EnterPipe, PutInPipe,
       PipeError, EndOfBody, ShutDownPipe, CountPipe, ReleaseMutex, pipeVars
  <2>2. CASE Promote(a)
    <3>1. Living(pipes[index[a]]) /\ promoted' = [promoted EXCEPT ![a] = pipes[index[a]]]
      BY <2>2 DEF Promote
    <3> QED BY <2>1, <3>1 DEF TypeOK
  <2>3. CASE EnterPipe(a) \/ PutInPipe(a) \/ PipeError(a)
    <3>1. promoted' = promoted \/ promoted' = [promoted EXCEPT ![a] = NoPipe]
      BY <2>3 DEF EnterPipe, PutInPipe, PipeError, EndOfBody
    <3> QED BY <1>1, <2>1, <3>1 DEF TypeOK
  <2>4. CASE ~(Promote(a) \/ EnterPipe(a) \/ PutInPipe(a) \/ PipeError(a))
    BY <1>3, <2>1, <2>4 DEF CallerStep, LoopStep, Call, TakeMutex, Prune, ShutDownPipe,
       CountPipe, ReleaseMutex, callVars
  <2> QED BY <2>2, <2>3, <2>4
<1> QED BY <1>2, <1>3, WhoseStep DEF vars, pipeVars, callVars

\* What a's step leaves of the call of b, who is another.
Untouched(b) ==
  /\ pc'[b] = pc[b] /\ op'[b] = op[b] /\ calls'[b] = calls[b] /\ index'[b] = index[b]
  /\ promoted'[b] = promoted[b] /\ tally'[b] = tally[b] /\ visited'[b] = visited[b]
  /\ alive0'[b] = alive0[b]
  /\ mutex' = b <=> mutex = b

\* A caller's step leaves the locals of the other callers alone.
LEMMA OthersUntouched ==
  ASSUME TypeOK, Places, NEW a \in Callers, CallerStep(a), NEW b \in Callers, b /= a
  PROVE  Untouched(b)
<1> USE DEF Untouched, TypeOK
<1>1. CASE \E o \in Ops, m \in Modes : Call(a, o, m)
  BY <1>1 DEF Call
<1>2. CASE TakeMutex(a)
  BY <1>2, RouterAssumption DEF TakeMutex
<1>3. CASE Prune(a) \/ Promote(a) \/ ShutDownPipe(a) \/ CountPipe(a)
  BY <1>3 DEF Prune, Promote, ShutDownPipe, CountPipe, Advance, callVars
<1>4. CASE EnterPipe(a) \/ PutInPipe(a) \/ PipeError(a)
  BY <1>4 DEF EnterPipe, PutInPipe, PipeError, EndOfBody, Advance
<1>5. CASE ReleaseMutex(a)
  <2>1. mutex = a /\ mutex' = Nobody
    BY <1>5 DEF ReleaseMutex, Places, Place
  <2> QED BY <1>5, <2>1, RouterAssumption DEF ReleaseMutex
<1> QED BY <1>1, <1>2, <1>3, <1>4, <1>5 DEF CallerStep, LoopStep

\* The swap-and-pop moves the last pipe to the place of the pruned one.
LEMMA PrunesOne ==
  ASSUME TypeOK, NEW a \in Callers, Prune(a)
  PROVE  /\ index[a] \in 1 .. Len(pipes)
         /\ pipes' \in Seq(1 .. created) /\ Len(pipes') = Len(pipes) - 1
         /\ \A j \in 1 .. Len(pipes') :
              pipes'[j] = IF j = index[a] THEN pipes[Len(pipes)] ELSE pipes[j]
<1> PICK i : i = index[a]
  OBVIOUS
<1> PICK s : s = pipes
  OBVIOUS
<1>1. i \in 1 .. Len(s) /\ s \in Seq(1 .. created) /\ pipes' = SwapAndPop(i)
  BY DEF Prune, InLoop, TypeOK
<1>2. pipes' = Front([s EXCEPT ![i] = Last(s)])
  BY <1>1 DEF SwapAndPop
<1>3. /\ Front([s EXCEPT ![i] = Last(s)]) \in Seq(1 .. created)
      /\ Len(Front([s EXCEPT ![i] = Last(s)])) = Len(s) - 1
      /\ \A j \in 1 .. Len(Front([s EXCEPT ![i] = Last(s)])) :
           Front([s EXCEPT ![i] = Last(s)])[j] = IF j = i THEN s[Len(s)] ELSE s[j]
  BY ONLY <1>1, Pruned
<1> QED BY <1>1, <1>2, <1>3

-----------------------------------------------------------------------------
(* Where the callers are *)

\* The end of the loop body, as far as the caller is concerned.
LEMMA BodyEnds ==
  ASSUME TypeOK, NEW a \in Callers, EnterPipe(a) \/ PutInPipe(a) \/ PipeError(a)
  PROVE  /\ mutex' = mutex /\ pipes' = pipes /\ op' = op /\ calls' = calls
         /\ visited' = visited /\ alive0' = alive0
         /\ pc[a] \in {"enter", "pipe"}
         /\ \/ /\ pc'[a] = "loop" /\ promoted'[a] = NoPipe /\ index'[a] = index[a] + 1
               /\ tally'[a] \in {tally[a], tally[a] + 1}
            \/ /\ pc'[a] = "pipe" /\ UNCHANGED <<promoted, index, tally>>
<1>1. CASE EnterPipe(a)
  BY <1>1 DEF EnterPipe, EndOfBody, Advance, TypeOK, pipeVars
<1>2. CASE PutInPipe(a)
  BY <1>2 DEF PutInPipe, EndOfBody, Advance, TypeOK
<1>3. CASE PipeError(a)
  BY <1>3 DEF PipeError, EndOfBody, Advance, TypeOK
<1> QED BY <1>1, <1>2, <1>3

\* Every step leaves each caller where its locals say.
LEMMA PlacesStep ==
  ASSUME TypeOK, Places, Vector, [Next]_vars
  PROVE  Places'
<1>0. Nobody \notin Callers /\ Len(pipes) \in Nat
  BY RouterAssumption DEF TypeOK
<1>1. ASSUME NEW r \in Receivers, ReceiverStep(r) PROVE Places'
  <2>1. UNCHANGED <<mutex, callVars>> /\ (mutex /= Nobody => pipes' = pipes)
    BY <1>1, ReceiversApart
  <2>2. Len(pipes') \in Nat
    <3>1. CASE PushPipe(r)
      BY <1>0, <3>1 DEF PushPipe, TypeOK
    <3>2. CASE ~PushPipe(r)
      BY <1>0, <1>1, <3>2 DEF ReceiverStep, CreatePipe, Receive, ClosePipe, Leave
    <3> QED BY <3>1, <3>2
  <2> SUFFICES ASSUME NEW a \in Callers PROVE Place(a)'
    BY DEF Places
  <2>3. CASE pipes' = pipes
    BY <2>1, <2>3 DEF Places, Place, callVars
  <2>4. CASE mutex = Nobody
    <3>1. mutex /= a /\ mutex' /= a /\ index'[a] = 1 /\ Place(a)
      BY <1>0, <2>1, <2>4 DEF Places, Place, callVars
    <3>2. index'[a] <= Len(pipes') + 1
      BY <2>2, <3>1
    <3> QED BY <2>1, <3>1, <3>2 DEF Place, callVars
  <2> QED BY <2>1, <2>3, <2>4
<1>2. ASSUME NEW a \in Callers, CallerStep(a) PROVE Places'
  <2>1. Place(a) /\ calls[a] \in Nat /\ index[a] \in Nat /\ tally[a] \in Nat
    BY RouterAssumption DEF Places, TypeOK
  <2>2. pipes' \in Seq(1 .. created) /\ Len(pipes') \in Nat
    <3>1. CASE Prune(a)
      <4>1. pipes' \in Seq(1 .. created)
        BY <3>1, PrunesOne
      <4> QED BY <4>1
    <3>2. CASE ~Prune(a)
      BY <1>2, <3>2 DEF CallerStep, LoopStep, Call, TakeMutex, Promote, EnterPipe,
         PutInPipe, PipeError, EndOfBody, ShutDownPipe, CountPipe, ReleaseMutex, pipeVars, TypeOK
    <3> QED BY <3>1, <3>2
  <2>3. ASSUME NEW b \in Callers, b /= a PROVE Place(b)'
    <3>1. Untouched(b) /\ Place(b)
      BY <1>2, <2>3, OthersUntouched DEF Places
    <3>2. CASE pipes' = pipes
      BY <3>1, <3>2 DEF Untouched, Place
    <3>3. CASE pipes' /= pipes
      <4>1. pc[a] = "loop"
        BY <1>2, <3>3 DEF CallerStep, LoopStep, Call, TakeMutex, Prune, InLoop, Promote,
           EnterPipe, PutInPipe, PipeError, EndOfBody, ShutDownPipe, CountPipe, ReleaseMutex,
           pipeVars
      <4>2. mutex /= b
        BY <2>1, <2>3, <4>1 DEF Place
      <4>3. index'[b] = 1 /\ index'[b] <= Len(pipes') + 1
        BY <2>2, <3>1, <4>2 DEF Untouched, Place
      <4> QED BY <3>1, <4>2, <4>3 DEF Untouched, Place
    <3> QED BY <3>2, <3>3
  <2>4. CASE \E o \in Ops, m \in Modes : Call(a, o, m)
    <3>1. /\ pc[a] = "idle" /\ pc'[a] = "lock" /\ calls'[a] = calls[a] + 1
          /\ UNCHANGED <<mutex, pipes, index, promoted, tally, visited>>
      BY <2>4 DEF Call, pipeVars, TypeOK
    <3>2. Place(a)'
      BY <2>1, <3>1 DEF Place
    <3> QED BY <2>3, <3>2 DEF Places
  <2>5. CASE TakeMutex(a)
    <3>1. /\ pc[a] = "lock" /\ pc'[a] = "loop" /\ mutex' = a
          /\ UNCHANGED <<pipes, index, promoted, tally, visited, calls>>
      BY <2>5 DEF TakeMutex, pipeVars, TypeOK
    <3>2. Place(a)'
      BY <2>1, <3>1 DEF Place
    <3> QED BY <2>3, <3>2 DEF Places
  <2>6. CASE Prune(a)
    <3>1. index[a] \in 1 .. Len(pipes)
      BY <2>6, PrunesOne
    <3>2. Len(pipes') = Len(pipes) - 1
      BY <2>6, PrunesOne
    <3>3. index[a] <= Len(pipes') + 1
      BY <1>0, <3>1, <3>2
    <3>4. Place(a)'
      BY <2>1, <2>6, <3>3 DEF Place, Prune, InLoop, callVars
    <3> QED BY <2>3, <3>4 DEF Places
  <2>7. CASE Promote(a)
    <3>1. /\ pc[a] = "loop" /\ pc'[a] = "enter" /\ op[a] = "Send" /\ index[a] <= Len(pipes)
          /\ promoted'[a] = pipes[index[a]] /\ UNCHANGED <<mutex, pipes, op, index, tally, calls>>
      BY <2>7 DEF Promote, InLoop, pipeVars, TypeOK
    <3>2. pipes[index[a]] /= NoPipe
      BY <2>1, <3>1 DEF TypeOK, NoPipe
    <3>3. Place(a)'
      BY <2>1, <3>1, <3>2 DEF Place
    <3> QED BY <2>3, <3>3 DEF Places
  <2>8. CASE EnterPipe(a) \/ PutInPipe(a) \/ PipeError(a)
    <3>1. /\ mutex' = mutex /\ pipes' = pipes /\ op' = op /\ calls' = calls /\ visited' = visited
          /\ pc[a] \in {"enter", "pipe"}
          /\ \/ /\ pc'[a] = "loop" /\ promoted'[a] = NoPipe /\ index'[a] = index[a] + 1
                /\ tally'[a] \in {tally[a], tally[a] + 1}
             \/ /\ pc'[a] = "pipe" /\ UNCHANGED <<promoted, index, tally>>
      BY <2>8, BodyEnds
    <3>2. Place(a)'
      BY <1>0, <2>1, <3>1 DEF Place
    <3> QED BY <2>3, <3>2 DEF Places
  <2>9. CASE ShutDownPipe(a) \/ CountPipe(a)
    <3>1. /\ pc[a] = "loop" /\ index[a] <= Len(pipes) /\ index'[a] = index[a] + 1
          /\ tally'[a] \in {tally[a], tally[a] + 1}
          /\ UNCHANGED <<mutex, pipes, pc, op, promoted, calls, visited>>
      BY <2>9 DEF ShutDownPipe, CountPipe, InLoop, Advance, pipeVars, TypeOK
    <3>2. Place(a)'
      BY <1>0, <2>1, <3>1 DEF Place
    <3> QED BY <2>3, <3>2 DEF Places
  <2>10. CASE ReleaseMutex(a)
    <3>1. /\ pc[a] = "loop" /\ pc'[a] = "idle" /\ mutex' = Nobody /\ index'[a] = 1 /\ tally'[a] = 0
          /\ visited'[a] = <<>> /\ UNCHANGED <<pipes, promoted, calls>>
      BY <2>10 DEF ReleaseMutex, pipeVars, TypeOK
    <3>2. Place(a)'
      BY <1>0, <2>1, <3>1 DEF Place
    <3> QED BY <2>3, <3>2 DEF Places
  <2> QED BY <1>2, <2>4, <2>5, <2>6, <2>7, <2>8, <2>9, <2>10 DEF CallerStep, LoopStep
<1>3. CASE UNCHANGED vars
  BY <1>3 DEF vars, callVars, pipeVars, Places, Place
<1> QED BY <1>1, <1>2, <1>3, WhoseStep

\* Every step leaves the pipes in the vector different, and new ones out of it.
LEMMA VectorStep ==
  ASSUME TypeOK, Places, Vector, [Next]_vars
  PROVE  Vector'
<1>0. created \in Nat /\ NoPipe \in 0 .. created
  BY DEF TypeOK, NoPipe
<1>1. CASE UNCHANGED <<pipes, handle, pending>>
  BY <1>1 DEF Vector
<1>2. ASSUME NEW r \in Receivers, CreatePipe(r) PROVE Vector'
  <2>1. /\ handle[r] = NoPipe /\ handle'[r] = created + 1 /\ pending' = pending \cup {r}
        /\ pipes' = pipes /\ \A s \in Receivers \ {r} : handle'[s] = handle[s]
    BY <1>2 DEF CreatePipe, TypeOK
  <2>2. /\ \A s \in Receivers : handle[s] /= created + 1
        /\ \A i \in 1 .. Len(pipes) : pipes[i] /= created + 1
    BY <1>0 DEF TypeOK
  <2>3. created + 1 /= NoPipe /\ pending \subseteq Receivers
    BY <1>0 DEF TypeOK, NoPipe
  <2> QED BY <2>1, <2>2, <2>3 DEF Vector
<1>3. ASSUME NEW r \in Receivers, PushPipe(r) PROVE Vector'
  <2>1. /\ r \in pending /\ pipes' = Append(pipes, handle[r]) /\ handle' = handle
        /\ pending' = pending \ {r} /\ Len(pipes) \in Nat
    BY <1>3 DEF PushPipe, TypeOK
  <2>2. /\ Len(pipes') = Len(pipes) + 1 /\ pipes'[Len(pipes')] = handle[r]
        /\ \A i \in 1 .. Len(pipes) : pipes'[i] = pipes[i]
    BY <2>1 DEF TypeOK
  <2>3. \A i \in 1 .. Len(pipes') : i \in 1 .. Len(pipes) \/ i = Len(pipes')
    BY <2>1, <2>2
  <2> QED BY <2>1, <2>2, <2>3 DEF Vector
<1>4. ASSUME NEW r \in Receivers, Leave(r) PROVE Vector'
  <2>1. /\ r \notin pending /\ pending' = pending /\ pipes' = pipes /\ pending \subseteq Receivers
        /\ \A s \in Receivers \ {r} : handle'[s] = handle[s]
    BY <1>4 DEF Leave, TypeOK
  <2> QED BY <2>1 DEF Vector
<1>5. ASSUME NEW a \in Callers, Prune(a) PROVE Vector'
  <2>0. Len(pipes) \in Nat
    BY DEF TypeOK
  <2>1. index[a] \in 1 .. Len(pipes) /\ Len(pipes) \in Nat
    BY <1>5, <2>0, PrunesOne
  <2>2. /\ Len(pipes') = Len(pipes) - 1
        /\ \A j \in 1 .. Len(pipes') :
             pipes'[j] = IF j = index[a] THEN pipes[Len(pipes)] ELSE pipes[j]
    BY <1>5, PrunesOne
  <2>3. \A j \in 1 .. Len(pipes') : j \in 1 .. Len(pipes) /\ j /= Len(pipes)
    BY <2>1, <2>2
  <2>4. Len(pipes) \in 1 .. Len(pipes) /\ UNCHANGED <<handle, pending>>
    BY <1>5, <2>1 DEF Prune
  <2> QED BY <2>2, <2>3, <2>4 DEF Vector
<1>6. ASSUME NEW r \in Receivers, Receive(r) \/ ClosePipe(r) PROVE UNCHANGED <<pipes, handle, pending>>
  BY <1>6 DEF Receive, ClosePipe
<1>7. ASSUME NEW a \in Callers, CallerStep(a), ~Prune(a) PROVE UNCHANGED <<pipes, handle, pending>>
  BY <1>7 DEF CallerStep, LoopStep, Call, TakeMutex, Promote, EnterPipe, PutInPipe, PipeError,
     EndOfBody, ShutDownPipe, CountPipe, ReleaseMutex, pipeVars
<1>8. UNCHANGED vars => UNCHANGED <<pipes, handle, pending>>
  BY DEF vars, pipeVars
<1> QED BY <1>1, <1>2, <1>3, <1>4, <1>5, <1>6, <1>7, <1>8, WhoseStep DEF ReceiverStep

-----------------------------------------------------------------------------
(* The order of the messages *)

\* What a call has done with, it has done with.
LEMMA TriedGrows ==
  ASSUME TypeOK, Places, [Next]_vars, NEW b \in Callers, mutex = b, mutex' = b
  PROVE  Tried(b) \subseteq Tried(b)'
<1>0. Nobody \notin Callers /\ index[b] \in Nat /\ Len(pipes) \in Nat
  BY RouterAssumption DEF TypeOK
<1>1. CASE pipes' = pipes /\ index'[b] \in {index[b], index[b] + 1}
  <2>1. 1 .. index[b] - 1 \subseteq 1 .. index'[b] - 1
    BY <1>0, <1>1
  <2> QED BY <1>1, <2>1 DEF Tried
<1>2. ASSUME NEW r \in Receivers, ReceiverStep(r) PROVE pipes' = pipes /\ index' = index
  BY <1>0, <1>2, ReceiversApart DEF callVars
<1>3. ASSUME NEW a \in Callers, CallerStep(a), a /= b PROVE pipes' = pipes /\ index'[b] = index[b]
  <2>1. index'[b] = index[b]
    BY <1>3, OthersUntouched DEF Untouched
  <2>2. pc[a] \in {"idle", "lock"}
    BY <1>3 DEF Places, Place, TypeOK
  <2> QED BY <1>3, <2>1, <2>2 DEF CallerStep, LoopStep, Call, TakeMutex, Prune, InLoop, Promote,
       EnterPipe, PutInPipe, PipeError, EndOfBody, ShutDownPipe, CountPipe, ReleaseMutex, pipeVars
<1>4. CASE Prune(b)
  <2>1. /\ index[b] \in 1 .. Len(pipes) /\ Len(pipes') = Len(pipes) - 1
        /\ \A j \in 1 .. Len(pipes') :
             pipes'[j] = IF j = index[b] THEN pipes[Len(pipes)] ELSE pipes[j]
    BY <1>4, PrunesOne
  <2>2. \A j \in 1 .. index[b] - 1 : j \in 1 .. Len(pipes') /\ j /= index[b]
    BY <1>0, <2>1
  <2>3. index' = index
    BY <1>4 DEF Prune, callVars
  <2> QED BY <2>1, <2>2, <2>3 DEF Tried
<1>5. ASSUME CallerStep(b), ~Prune(b) PROVE pipes' = pipes /\ index'[b] \in {index[b], index[b] + 1}
  <2>1. CASE EnterPipe(b) \/ PutInPipe(b) \/ PipeError(b)
    BY <2>1, BodyEnds
  <2>2. CASE ReleaseMutex(b)
    BY <1>0, <2>2 DEF ReleaseMutex
  <2>3. CASE ~(EnterPipe(b) \/ PutInPipe(b) \/ PipeError(b) \/ ReleaseMutex(b))
    BY <1>5, <2>3 DEF CallerStep, LoopStep, Call, TakeMutex, Promote, ShutDownPipe, CountPipe,
       Advance, pipeVars, TypeOK
  <2> QED BY <2>1, <2>2, <2>3
<1>6. UNCHANGED vars => pipes' = pipes /\ index' = index
  BY DEF vars, callVars, pipeVars
<1> QED BY <1>1, <1>2, <1>3, <1>4, <1>5, <1>6, WhoseStep

\* The pipe a call is in is one it has not done with, so its message is not there.
LEMMA NotThere ==
  ASSUME TypeOK, Places, Vector, Current, NEW a \in Callers, pc[a] \in {"enter", "pipe"}
  PROVE  /\ promoted[a] \in Pipes /\ promoted[a] \notin Tried(a)
         /\ index[a] \in 1 .. Len(pipes) /\ pipes[index[a]] = promoted[a]
         /\ \A i \in 1 .. Len(stream[promoted[a]]) : stream[promoted[a]][i] /= Message(a)
<1>1. /\ index[a] \in 1 .. Len(pipes) /\ pipes[index[a]] = promoted[a] /\ Len(pipes) \in Nat
  BY DEF Places, Place, TypeOK
<1>2. promoted[a] \in Pipes
  <2>1. pipes[index[a]] \in 1 .. created /\ created \in 0 .. MaxPipes
    BY <1>1 DEF TypeOK
  <2> QED BY <1>1, <2>1, RouterAssumption DEF Pipes
<1>3. \A i \in 1 .. index[a] - 1 : i \in 1 .. Len(pipes) /\ i /= index[a]
  BY <1>1
<1>4. promoted[a] \notin Tried(a)
  BY <1>1, <1>3 DEF Vector, Tried
<1>5. \A i \in 1 .. Len(stream[promoted[a]]) : stream[promoted[a]][i] /= Message(a)
  BY <1>2, <1>4 DEF Current
<1> QED BY <1>1, <1>2, <1>4, <1>5

\* Only the call that has the mutex puts a message into a pipe.
LEMMA OnlyPuts ==
  ASSUME [Next]_vars, \A a \in Callers : ~PutInPipe(a)
  PROVE  stream' = stream
<1>1. ASSUME NEW r \in Receivers, ReceiverStep(r) PROVE stream' = stream
  BY <1>1, ReceiversApart
<1>2. ASSUME NEW a \in Callers, CallerStep(a) PROVE stream' = stream
  BY <1>2 DEF CallerStep, LoopStep, Call, TakeMutex, Prune, Promote, EnterPipe, PipeError,
     ShutDownPipe, CountPipe, ReleaseMutex, pipeVars
<1> QED BY <1>1, <1>2, WhoseStep DEF vars, pipeVars

\* What a caller's calls and its place in them may become.
LEMMA CallsGoOn ==
  ASSUME TypeOK, Places, [Next]_vars, NEW b \in Callers
  PROVE  \/ calls'[b] = calls[b] /\ pc[b] /= "idle" /\ (mutex = b => mutex' = b)
         \/ pc'[b] = "idle" /\ calls'[b] = calls[b]
         \/ pc'[b] /= "idle" /\ calls'[b] = calls[b] + 1
<1>1. ASSUME NEW r \in Receivers, ReceiverStep(r)
      PROVE  UNCHANGED <<calls, pc, mutex>>
  BY <1>1, ReceiversApart DEF callVars
<1>2. ASSUME NEW a \in Callers, CallerStep(a), a /= b
      PROVE  calls'[b] = calls[b] /\ pc'[b] = pc[b] /\ (mutex' = b <=> mutex = b)
  BY <1>2, OthersUntouched DEF Untouched
<1>3. CASE \E o \in Ops, m \in Modes : Call(b, o, m)
  BY <1>3 DEF Call, TypeOK
<1>4. CASE ReleaseMutex(b)
  BY <1>4 DEF ReleaseMutex, TypeOK
<1>5. CASE TakeMutex(b) \/ Prune(b) \/ Promote(b) \/ ShutDownPipe(b) \/ CountPipe(b)
  BY <1>5 DEF TakeMutex, Prune, InLoop, Promote, ShutDownPipe, CountPipe, callVars, TypeOK
<1>6. CASE EnterPipe(b) \/ PutInPipe(b) \/ PipeError(b)
  BY <1>6, BodyEnds
<1>7. UNCHANGED vars => UNCHANGED <<calls, pc, mutex>>
  BY DEF vars, callVars
<1> QED BY <1>1, <1>2, <1>3, <1>4, <1>5, <1>6, <1>7, WhoseStep DEF CallerStep, LoopStep

\* Every step keeps what the pipes got in one order.
LEMMA StreamsStep ==
  ASSUME TypeOK, Places, Vector, Streams, [Next]_vars
  PROVE  Streams'
<1>0. /\ Past /\ Current /\ NoneTwice /\ Agree
      /\ \A b \in Callers : calls[b] \in Nat
      /\ \A p \in Pipes : /\ stream[p] \in Seq(Messages) /\ Len(stream[p]) \in Nat
                          /\ \A i \in 1 .. Len(stream[p]) :
                               stream[p][i] \in Messages /\ stream[p][i][1] \in Callers
  <2>1. Past /\ Current /\ NoneTwice /\ Agree
    BY DEF Streams
  <2>2. \A b \in Callers : calls[b] \in Nat
    BY RouterAssumption DEF TypeOK
  <2>3. ASSUME NEW p \in Pipes
        PROVE  /\ stream[p] \in Seq(Messages) /\ Len(stream[p]) \in Nat
               /\ \A i \in 1 .. Len(stream[p]) : stream[p][i] \in Messages
    BY DEF TypeOK
  <2>4. \A m \in Messages : m[1] \in Callers
    BY DEF Messages
  <2> QED BY <2>1, <2>2, <2>3, <2>4
<1>1. CASE \A a \in Callers : ~PutInPipe(a)
  <2>1. stream' = stream
    BY <1>1, OnlyPuts
  <2>2. \A b \in Callers : calls'[b] \in Nat /\ calls[b] <= calls'[b]
    BY <1>0, CallsGoOn
  <2>3. Past'
    <3> SUFFICES ASSUME NEW p \in Pipes, NEW i \in 1 .. Len(stream[p])
                 PROVE  stream[p][i][2] <= calls'[stream[p][i][1]]
      BY <2>1 DEF Past
    <3>1. /\ stream[p][i][2] <= calls[stream[p][i][1]] /\ stream[p][i][1] \in Callers
          /\ stream[p][i] \in Callers \X (1 .. MaxCalls)
      BY <1>0 DEF Past, Messages
    <3>2. stream[p][i][2] \in Nat
      BY <3>1
    <3> QED BY <1>0, <2>2, <3>1, <3>2
  <2>4. Current'
    <3> SUFFICES ASSUME NEW b \in Callers, NEW p \in Pipes, NEW i \in 1 .. Len(stream[p]),
                        stream[p][i] = Message(b)', pc'[b] /= "idle"
                 PROVE  mutex' = b /\ i = Len(stream[p]) /\ p \in Tried(b)'
      BY <2>1 DEF Current
    <3>1. calls'[b] /= calls[b] + 1
      BY <1>0 DEF Past, Message
    <3>2. calls'[b] = calls[b] /\ pc[b] /= "idle" /\ (mutex = b => mutex' = b)
      BY <3>1, CallsGoOn
    <3>3. mutex = b /\ i = Len(stream[p]) /\ p \in Tried(b)
      BY <1>0, <3>2 DEF Current, Message
    <3> QED BY <3>2, <3>3, TriedGrows
  <2>5. NoneTwice' /\ Agree'
    BY <1>0, <2>1 DEF NoneTwice, Agree
  <2> QED BY <2>3, <2>4, <2>5 DEF Streams
<1>2. ASSUME NEW a \in Callers, PutInPipe(a) PROVE Streams'
  <2> PICK p : p = promoted[a]
    OBVIOUS
  <2> PICK m : m = Message(a)
    OBVIOUS
  <2>1. /\ pc[a] = "pipe" /\ mutex = a /\ mutex' = a /\ calls' = calls
        /\ index'[a] = index[a] + 1 /\ pipes' = pipes
    BY <1>2, BodyEnds DEF PutInPipe, EndOfBody, Advance, Places, Place, TypeOK
  <2>2. /\ p \in Pipes /\ p \notin Tried(a) /\ index[a] \in 1 .. Len(pipes)
        /\ pipes[index[a]] = p
        /\ \A i \in 1 .. Len(stream[p]) : stream[p][i] /= m
    BY <1>0, <2>1, NotThere
  <2>3. stream' = [stream EXCEPT ![p] = Append(@, m)] /\ m = <<a, calls[a]>>
    BY <1>2 DEF PutInPipe, Message
  <2>4. /\ stream'[p] = Append(stream[p], m)
        /\ \A q \in Pipes \ {p} : stream'[q] = stream[q]
    BY <2>2, <2>3 DEF TypeOK
  <2>5. /\ Len(stream'[p]) = Len(stream[p]) + 1 /\ stream'[p][Len(stream[p]) + 1] = m
        /\ \A i \in 1 .. Len(stream[p]) : stream'[p][i] = stream[p][i]
    BY <1>0, <2>2, <2>4
  <2>6. ASSUME NEW q \in Pipes, NEW i \in 1 .. Len(stream'[q])
        PROVE  \/ i \in 1 .. Len(stream[q]) /\ stream'[q][i] = stream[q][i]
               \/ q = p /\ i = Len(stream'[p]) /\ stream'[q][i] = m
    <3>1. CASE q /= p
      BY <2>4, <3>1
    <3>2. CASE q = p
      <4>1. Len(stream[p]) \in Nat
        BY <1>0, <2>2
      <4> QED BY <2>5, <3>2, <4>1
    <3> QED BY <3>1, <3>2
  <2>7. Past'
    <3> SUFFICES ASSUME NEW q \in Pipes, NEW i \in 1 .. Len(stream'[q])
                 PROVE  stream'[q][i][2] <= calls[stream'[q][i][1]]
      BY <2>1 DEF Past
    <3>1. m[2] <= calls[m[1]]
      BY <1>0, <2>3
    <3> QED BY <1>0, <2>6, <3>1 DEF Past
  <2>8. p \in Tried(a)' /\ Tried(a) \subseteq Tried(a)'
    <3>1. index[a] \in 1 .. index'[a] - 1
      BY <2>1, <2>2
    <3>2. p \in Tried(a)'
      BY <2>1, <2>2, <3>1 DEF Tried
    <3> QED BY <2>1, <3>2, TriedGrows
  <2>9. Current'
    <3> SUFFICES ASSUME NEW b \in Callers, NEW q \in Pipes, NEW i \in 1 .. Len(stream'[q]),
                        stream'[q][i] = Message(b), pc'[b] /= "idle"
                 PROVE  mutex' = b /\ i = Len(stream'[q]) /\ q \in Tried(b)'
      BY <2>1 DEF Current, Message
    <3>1. CASE b /= a
      <4>1. pc[b] /= "idle" /\ m /= Message(b)
        BY <1>2, <2>3, <3>1, OthersUntouched DEF Untouched, CallerStep, LoopStep, Message
      <4>2. i \in 1 .. Len(stream[q]) /\ stream[q][i] = Message(b)
        BY <2>6, <4>1
      <4>3. mutex = b
        BY <1>0, <4>1, <4>2 DEF Current
      <4> QED BY <2>1, <3>1, <4>3
    <3>2. CASE b = a /\ q = p
      BY <2>1, <2>2, <2>6, <2>8, <3>2
    <3>3. CASE b = a /\ q /= p
      <4>1. i \in 1 .. Len(stream[q]) /\ stream[q][i] = Message(a) /\ Len(stream'[q]) = Len(stream[q])
        BY <2>4, <2>6, <3>3
      <4>2. i = Len(stream[q]) /\ q \in Tried(a)
        BY <1>0, <2>1, <4>1 DEF Current
      <4> QED BY <2>1, <2>8, <3>3, <4>1, <4>2
    <3> QED BY <3>1, <3>2, <3>3
  <2>10. NoneTwice'
    <3> SUFFICES ASSUME NEW q \in Pipes, NEW i \in 1 .. Len(stream'[q]),
                        NEW j \in 1 .. Len(stream'[q]), stream'[q][i] = stream'[q][j]
                 PROVE  i = j
      BY DEF NoneTwice
    <3> QED BY <1>0, <2>2, <2>6 DEF NoneTwice
  <2>11. pc'[a] /= "idle"
    BY <1>2 DEF PutInPipe, EndOfBody, TypeOK
  <2>12. \A q \in Pipes : \A i \in 1 .. Len(stream'[q]) : stream'[q][i] = m => i = Len(stream'[q])
    BY <2>1, <2>3, <2>9, <2>11 DEF Current, Message
  <2>13. Agree'
    <3> SUFFICES ASSUME NEW q \in Pipes, NEW s \in Pipes,
                        NEW i \in 1 .. Len(stream'[q]), NEW j \in 1 .. Len(stream'[q]), i < j,
                        NEW k \in 1 .. Len(stream'[s]), NEW l \in 1 .. Len(stream'[s]), k < l,
                        stream'[q][i] = stream'[s][l], stream'[q][j] = stream'[s][k]
                 PROVE  FALSE
      BY DEF Agree
    <3>1. stream'[q][i] /= m /\ stream'[s][k] /= m
      <4>1. i /= Len(stream'[q]) /\ k /= Len(stream'[s])
        <5>1. \A x \in Pipes : Len(stream'[x]) \in Nat
          BY <1>0, <2>2, <2>4, <2>5
        <5> QED BY <5>1
      <4> QED BY <2>12, <4>1
    <3>2. /\ i \in 1 .. Len(stream[q]) /\ stream'[q][i] = stream[q][i]
          /\ j \in 1 .. Len(stream[q]) /\ stream'[q][j] = stream[q][j]
          /\ k \in 1 .. Len(stream[s]) /\ stream'[s][k] = stream[s][k]
          /\ l \in 1 .. Len(stream[s]) /\ stream'[s][l] = stream[s][l]
      BY <2>6, <3>1
    <3> QED BY <1>0, <3>2 DEF Agree
  <2> QED BY <2>7, <2>9, <2>10, <2>13 DEF Streams
<1> QED BY <1>1, <1>2

-----------------------------------------------------------------------------
(* The walk of a Send *)

\* One pipe more may be missed, shut down or counted.
LEMMA Counting ==
  ASSUME NEW M, IsFiniteSet(M), NEW U \in SUBSET M, NEW p, p \notin M,
         NEW t \in Cardinality(U) .. Cardinality(M), NEW V
  PROVE  /\ V \subseteq U => t \in Cardinality(V) .. Cardinality(M)
         /\ V \subseteq U => t \in Cardinality(V) .. Cardinality(M \cup {p})
         /\ V \subseteq U \cup {p} => t + 1 \in Cardinality(V) .. Cardinality(M \cup {p})
<1>1. IsFiniteSet(U) /\ Cardinality(U) \in Nat /\ Cardinality(M) \in Nat
  BY FS_Subset, FS_CardinalityType
<1>2. Cardinality(M \cup {p}) = Cardinality(M) + 1
  BY FS_AddElement
<1>3. ASSUME V \subseteq U PROVE Cardinality(V) \in Nat /\ Cardinality(V) <= Cardinality(U)
  BY <1>1, <1>3, FS_Subset, FS_CardinalityType
<1>4. ASSUME V \subseteq U \cup {p}
      PROVE  Cardinality(V) \in Nat /\ Cardinality(V) <= Cardinality(U) + 1
  <2>1. p \notin U
    OBVIOUS
  <2>2. IsFiniteSet(U \cup {p}) /\ Cardinality(U \cup {p}) = Cardinality(U) + 1
    BY <1>1, <2>1, FS_AddElement
  <2>3. IsFiniteSet(V) /\ Cardinality(V) <= Cardinality(U \cup {p})
    BY <1>4, <2>2, FS_Subset
  <2> QED BY <2>2, <2>3, FS_CardinalityType
<1> QED BY <1>1, <1>2, <1>3, <1>4

\* A call has tried finitely many pipes, each of them created.
LEMMA TriedPipes ==
  ASSUME TypeOK, Places, NEW a \in Callers
  PROVE  Tried(a) \subseteq 1 .. created /\ IsFiniteSet(Tried(a)) /\ IsFiniteSet(Missed(a))
<1>1. created \in Nat /\ index[a] \in Nat /\ Len(pipes) \in Nat /\ index[a] <= Len(pipes) + 1
  BY RouterAssumption DEF TypeOK, Places, Place
<1>2. \A i \in 1 .. index[a] - 1 : i \in 1 .. Len(pipes)
  BY <1>1
<1>3. Tried(a) \subseteq 1 .. created
  BY <1>2, Numbered DEF Tried
<1>4. IsFiniteSet(1 .. created)
  BY <1>1, FS_Interval
<1>5. IsFiniteSet(Tried(a))
  BY <1>3, <1>4, FS_Subset
<1>6. Missed(a) \subseteq Tried(a)
  BY DEF Missed
<1> QED BY <1>3, <1>5, <1>6, FS_Subset

\* The pipes a Send has missed stay as they are, but some may be shut down since.
LEMMA CountStays ==
  ASSUME TypeOK, Places, [Next]_vars, NEW a \in Callers, Counted(a),
         Missed(a)' = Missed(a), tally'[a] = tally[a]
  PROVE  Counted(a)'
<1> PICK M : M = Missed(a)
  OBVIOUS
<1> PICK U : U = {q \in M : ~down[q]}
  OBVIOUS
<1> PICK V : V = {q \in M : ~down'[q]}
  OBVIOUS
<1>1. V \subseteq U
  <2>1. M \subseteq Pipes
    <3>1. created \in 0 .. MaxPipes /\ M \subseteq 1 .. created
      BY TriedPipes DEF Missed, TypeOK
    <3> QED BY <3>1, RouterAssumption DEF Pipes
  <2> QED BY <2>1, DownStays
<1>2. IsFiniteSet(M) /\ tally[a] \in Cardinality(U) .. Cardinality(M)
  BY TriedPipes DEF Counted
<1>3. NoPipe \notin M
  <2>1. M \subseteq 1 .. created
    BY TriedPipes DEF Missed
  <2> QED BY <2>1 DEF NoPipe
<1>4. tally[a] \in Cardinality(V) .. Cardinality(M)
  <2>1. U \in SUBSET M
    OBVIOUS
  <2> PICK t : t = tally[a]
    OBVIOUS
  <2>2. t \in Cardinality(U) .. Cardinality(M)
    BY <1>2
  <2>3. t \in Cardinality(V) .. Cardinality(M)
    BY ONLY <1>1, <1>2, <1>3, <2>1, <2>2, Counting
  <2> QED BY <2>3
<1>5. M = Missed(a)' /\ V = {q \in Missed(a)' : ~down'[q]} /\ tally'[a] = tally[a]
  OBVIOUS
<1> QED BY <1>4, <1>5 DEF Counted

\* A pipe that turned out to be shut down is missed without being counted, one with an
\* error is counted.
LEMMA CountGrows ==
  ASSUME TypeOK, Places, [Next]_vars, NEW a \in Callers, Counted(a),
         NEW p \in Pipes, p \notin Missed(a), Missed(a)' = Missed(a) \cup {p},
         (tally'[a] = tally[a] /\ down[p]) \/ tally'[a] = tally[a] + 1
  PROVE  Counted(a)'
<1> PICK M : M = Missed(a)
  OBVIOUS
<1> PICK U : U = {q \in M : ~down[q]}
  OBVIOUS
<1> PICK V : V = {q \in M \cup {p} : ~down'[q]}
  OBVIOUS
<1>1. V \subseteq U \cup {p} /\ (down[p] => V \subseteq U)
  <2>1. M \subseteq Pipes
    <3>1. created \in 0 .. MaxPipes /\ M \subseteq 1 .. created
      BY TriedPipes DEF Missed, TypeOK
    <3> QED BY <3>1, RouterAssumption DEF Pipes
  <2> QED BY <2>1, DownStays
<1>2. IsFiniteSet(M) /\ tally[a] \in Cardinality(U) .. Cardinality(M) /\ p \notin M
  BY TriedPipes DEF Counted
<1>4. tally'[a] \in Cardinality(V) .. Cardinality(M \cup {p})
  <2>1. U \in SUBSET M
    OBVIOUS
  <2> PICK t : t = tally[a]
    OBVIOUS
  <2>2. t \in Cardinality(U) .. Cardinality(M)
    BY <1>2
  <2>3. /\ down[p] => t \in Cardinality(V) .. Cardinality(M \cup {p})
        /\ t + 1 \in Cardinality(V) .. Cardinality(M \cup {p})
    BY ONLY <1>1, <1>2, <2>1, <2>2, Counting
  <2> QED BY <2>3
<1>5. M \cup {p} = Missed(a)' /\ V = {q \in Missed(a)' : ~down'[q]}
  OBVIOUS
<1> QED BY <1>4, <1>5 DEF Counted

\* Somebody else's step leaves the walk as it is.
LEMMA WalkStays ==
  ASSUME TypeOK, Places, [Next]_vars, NEW b \in Callers, Walk(b), Counted(b),
         Untouched(b), pipes' = pipes, stream' = stream
  PROVE  Walk(b)' /\ Counted(b)'
<1>1. Walk(b)'
  <2>1. alive0[b] \subseteq 1 .. created
    BY DEF TypeOK
  <2>2. \A p \in alive0[b] : Living(p)' => Living(p)
    BY <2>1, NoRevival
  <2> QED BY <2>2 DEF Walk, Untouched
<1>2. Missed(b)' = Missed(b)
  BY DEF Missed, Tried, Message, Untouched
<1>3. Counted(b)'
  BY <1>2, CountStays DEF Untouched
<1> QED BY <1>1, <1>3

\* The end of the loop body: the pipe the call was in has been tried.
LEMMA BodyWalk ==
  ASSUME TypeOK, Places, Vector, Current, [Next]_vars, NEW a \in Callers, Walk(a), Counted(a),
         EnterPipe(a) \/ PutInPipe(a) \/ PipeError(a)
  PROVE  Walk(a)' /\ Counted(a)'
<1> PICK p : p = promoted[a]
  OBVIOUS
<1>0. /\ pc[a] \in {"enter", "pipe"} /\ index[a] \in Nat /\ Len(pipes) \in Nat
      /\ pipes' = pipes /\ visited' = visited /\ alive0' = alive0 /\ calls' = calls
      /\ \/ pc'[a] = "loop" /\ index'[a] = index[a] + 1
         \/ pc'[a] = "pipe" /\ UNCHANGED <<promoted, index, tally>>
  BY BodyEnds DEF TypeOK
<1>1. /\ p \in Pipes /\ p \notin Tried(a) /\ index[a] \in 1 .. Len(pipes)
      /\ pipes[index[a]] = p
      /\ \A i \in 1 .. Len(stream[p]) : stream[p][i] /= Message(a)
  BY <1>0, NotThere
<1>2. Walk(a)'
  <2>1. alive0[a] \subseteq 1 .. created
    BY DEF TypeOK
  <2>2. \A q \in alive0[a] : Living(q)' => Living(q)
    BY <2>1, NoRevival
  <2>3. Len(visited[a]) = index[a] /\ (pc'[a] = "loop" => index'[a] - 1 = index[a])
    BY <1>0 DEF Walk
  <2> QED BY <1>0, <2>2, <2>3 DEF Walk
<1>3. ASSUME index'[a] = index[a] + 1 PROVE Tried(a)' = Tried(a) \cup {p}
  <2>1. 1 .. index'[a] - 1 = (1 .. index[a] - 1) \cup {index[a]}
    BY <1>1, <1>3
  <2> QED BY <1>0, <1>1, <2>1 DEF Tried
<1>4. CASE EnterPipe(a) /\ ~down[p]
  <2>1. UNCHANGED <<index, tally, stream>>
    BY <1>4 DEF EnterPipe, EndOfBody, pipeVars
  <2>2. Missed(a)' = Missed(a)
    BY <1>0, <2>1 DEF Missed, Tried, Message
  <2>3. Counted(a)'
    BY <2>1, <2>2, CountStays
  <2> QED BY <1>2, <2>3
<1>5. Message(a)' = Message(a)
  BY <1>0 DEF Message
<1>6. Message(a) \notin ToSet(stream[p]) /\ p \notin Missed(a)
  <2>1. stream[p] \in Seq(Messages)
    BY <1>1 DEF TypeOK
  <2> QED BY <1>1, <2>1 DEF ToSet, Missed
<1>7. CASE PipeError(a) \/ (EnterPipe(a) /\ down[p])
  <2>1. index'[a] = index[a] + 1 /\ stream' = stream
    BY <1>7 DEF EnterPipe, PipeError, EndOfBody, Advance, TypeOK
  <2>2. (tally'[a] = tally[a] /\ down[p]) \/ tally'[a] = tally[a] + 1
    BY <1>7 DEF EnterPipe, PipeError, EndOfBody, TypeOK, pipeVars
  <2>3. Missed(a)' = Missed(a) \cup {p}
    BY <1>3, <1>5, <1>6, <2>1 DEF Missed
  <2>4. Counted(a)'
    BY <1>1, <1>6, <2>2, <2>3, CountGrows
  <2> QED BY <1>2, <2>4
<1>8. CASE PutInPipe(a)
  <2>1. index'[a] = index[a] + 1 /\ tally' = tally
    BY <1>8 DEF PutInPipe, EndOfBody, Advance, TypeOK
  <2>2. stream' = [stream EXCEPT ![p] = Append(@, Message(a))]
    BY <1>8 DEF PutInPipe
  <2>3. stream'[p] = Append(stream[p], Message(a)) /\ \A q \in Pipes \ {p} : stream'[q] = stream[q]
    BY <1>1, <2>2 DEF TypeOK
  <2>4. Message(a) \in ToSet(stream'[p])
    <3>1. stream[p] \in Seq(Messages)
      BY <1>1 DEF TypeOK
    <3>2. /\ Len(Append(stream[p], Message(a))) = Len(stream[p]) + 1
          /\ Append(stream[p], Message(a))[Len(stream[p]) + 1] = Message(a)
          /\ DOMAIN Append(stream[p], Message(a)) = 1 .. Len(stream[p]) + 1
          /\ Len(stream[p]) \in Nat
      BY <3>1
    <3>3. Len(stream[p]) + 1 \in DOMAIN Append(stream[p], Message(a))
      BY <3>2
    <3> QED BY <2>3, <3>2, <3>3 DEF ToSet
  <2>5. Tried(a) \subseteq Pipes
    <3>1. created \in 0 .. MaxPipes /\ Tried(a) \subseteq 1 .. created
      BY TriedPipes DEF TypeOK
    <3> QED BY <3>1, RouterAssumption DEF Pipes
  <2>6. Missed(a)' = Missed(a)
    BY <1>1, <1>3, <1>5, <2>1, <2>3, <2>4, <2>5 DEF Missed
  <2>7. Counted(a)'
    BY <2>1, <2>6, CountStays
  <2> QED BY <1>2, <2>7
<1> QED BY <1>4, <1>7, <1>8

\* Every step leaves a walking Send with every pipe before its index tried.
LEMMA WalksStep ==
  ASSUME TypeOK, Places, Vector, Current, Walks, [Next]_vars
  PROVE  Walks'
<1> SUFFICES ASSUME NEW b \in Callers, mutex' = b, op'[b] = "Send" PROVE Walk(b)' /\ Counted(b)'
  BY DEF Walks
<1>0. Nobody \notin Callers /\ index[b] \in Nat /\ Len(pipes) \in Nat /\ visited[b] \in Seq(1 .. created)
  BY RouterAssumption DEF TypeOK
<1>1. ASSUME mutex = b, op[b] = "Send", Untouched(b), pipes' = pipes, stream' = stream
      PROVE  Walk(b)' /\ Counted(b)'
  BY <1>1, WalkStays DEF Walks
<1>2. ASSUME NEW r \in Receivers, ReceiverStep(r)
      PROVE  mutex = b /\ op[b] = "Send" /\ Untouched(b) /\ pipes' = pipes /\ stream' = stream
  BY <1>0, <1>2, ReceiversApart DEF Untouched, callVars
<1>3. ASSUME NEW a \in Callers, CallerStep(a), a /= b
      PROVE  mutex = b /\ op[b] = "Send" /\ Untouched(b) /\ pipes' = pipes /\ stream' = stream
  <2>1. Untouched(b)
    BY <1>3, OthersUntouched
  <2>2. mutex = b /\ op[b] = "Send"
    BY <2>1 DEF Untouched
  <2>3. pc[a] \in {"idle", "lock"}
    BY <1>3, <2>2 DEF Places, Place, TypeOK
  <2>4. pipes' = pipes /\ stream' = stream
    BY <1>3, <2>3 DEF CallerStep, LoopStep, Call, TakeMutex, Prune, InLoop, Promote,
       EnterPipe, PutInPipe, PipeError, EndOfBody, ShutDownPipe, CountPipe, ReleaseMutex, pipeVars
  <2> QED BY <2>1, <2>2, <2>4
<1>4. CASE UNCHANGED vars
  BY <1>1, <1>4 DEF vars, callVars, pipeVars, Untouched
<1>5. CASE \E o \in Ops, m \in Modes : Call(b, o, m)
  BY <1>5 DEF Call, Places, Place
<1>6. CASE TakeMutex(b)
  <2>1. /\ mutex = Nobody /\ index'[b] = 1 /\ tally'[b] = 0 /\ visited'[b] = <<>> /\ pc'[b] = "loop"
        /\ alive0'[b] = {p \in ToSet(pipes) : Living(p)} /\ pipes' = pipes
    BY <1>0, <1>6 DEF TakeMutex, Places, Place, TypeOK, pipeVars
  <2>2. Walk(b)'
    <3>1. \A p \in ToSet(pipes) : \E i \in 1 .. Len(pipes) : pipes[i] = p
      BY DEF ToSet, TypeOK
    <3>2. Len(visited'[b]) = 0 /\ index'[b] - 1 = 0
      BY <2>1
    <3> QED BY <2>1, <3>1, <3>2 DEF Walk
  <2>3. Missed(b)' = {}
    <3>1. 1 .. index'[b] - 1 = {}
      BY <2>1
    <3> QED BY <3>1 DEF Missed, Tried
  <2>4. Counted(b)'
    <3>1. Cardinality({}) = 0
      BY FS_EmptySet
    <3>2. {p \in Missed(b)' : ~down'[p]} = {}
      BY <2>3
    <3>3. 0 \in 0 .. 0
      OBVIOUS
    <3> QED BY <2>1, <2>3, <3>1, <3>2, <3>3 DEF Counted
  <2> QED BY <2>2, <2>4
<1>7. ASSUME pc[b] \in {"loop", "enter", "pipe"}, op' = op PROVE Walk(b) /\ Counted(b) /\ mutex = b
  BY <1>7 DEF Walks, Places, Place
<1>8. CASE Prune(b)
  <2>1. Walk(b) /\ Counted(b) /\ mutex = b /\ pc[b] = "loop"
    BY <1>7, <1>8 DEF Prune, InLoop, callVars
  <2>2. /\ index[b] \in 1 .. Len(pipes) /\ Len(pipes') = Len(pipes) - 1
        /\ \A j \in 1 .. Len(pipes') :
             pipes'[j] = IF j = index[b] THEN pipes[Len(pipes)] ELSE pipes[j]
    BY <1>8, PrunesOne
  <2>3. /\ UNCHANGED <<callVars, stream, handle>> /\ ~Living(pipes[index[b]])
    BY <1>8 DEF Prune
  <2>4. \A j \in 1 .. index[b] - 1 : j \in 1 .. Len(pipes') /\ j /= index[b]
    BY <1>0, <2>2
  <2>5. Walk(b)'
    <3>1. \A p : Living(p)' => Living(p)
      BY <2>3 DEF Living, Held, callVars
    <3>2. ASSUME NEW p \in alive0[b], Living(p) PROVE \E j \in 1 .. Len(pipes') : pipes'[j] = p
      <4>1. PICK i \in 1 .. Len(pipes) : pipes[i] = p /\ i /= index[b]
        BY <2>1, <2>3, <3>2 DEF Walk
      <4>2. CASE i = Len(pipes)
        <5>1. index[b] \in 1 .. Len(pipes')
          BY <1>0, <2>2, <4>1, <4>2
        <5> QED BY <2>2, <4>1, <4>2, <5>1
      <4>3. CASE i /= Len(pipes)
        <5>1. i \in 1 .. Len(pipes')
          BY <1>0, <2>2, <4>3
        <5> QED BY <2>2, <4>1, <5>1
      <4> QED BY <4>2, <4>3
    <3>3. /\ Len(visited[b]) = index[b] - 1
          /\ \A i \in 1 .. Len(visited[b]) : visited[b][i] = pipes'[i]
      BY <2>1, <2>2, <2>4 DEF Walk
    <3> QED BY <2>1, <2>3, <3>1, <3>2, <3>3 DEF Walk, callVars
  <2>6. Tried(b)' = Tried(b)
    BY <2>2, <2>3, <2>4 DEF Tried, callVars
  <2>7. Missed(b)' = Missed(b)
    BY <2>3, <2>6 DEF Missed, Message, callVars
  <2>8. Counted(b)'
    BY <2>1, <2>3, <2>7, CountStays DEF callVars
  <2> QED BY <2>5, <2>8
<1>9. CASE Promote(b)
  <2>1. Walk(b) /\ Counted(b) /\ mutex = b /\ pc[b] = "loop"
    BY <1>7, <1>9 DEF Promote, InLoop
  <2>2. /\ visited'[b] = Append(visited[b], pipes[index[b]]) /\ pc'[b] = "enter"
        /\ UNCHANGED <<pipeVars, index, alive0, calls, tally>> /\ index[b] \in 1 .. Len(pipes)
    BY <1>0, <1>9 DEF Promote, InLoop, TypeOK
  <2>3. Walk(b)'
    <3>1. alive0[b] \subseteq 1 .. created
      BY DEF TypeOK
    <3>2. \A q \in alive0[b] : Living(q)' => Living(q)
      BY <3>1, NoRevival
    <3>3. Len(visited'[b]) = index[b] /\ \A i \in 1 .. index[b] : visited'[b][i] = pipes[i]
      <4>1. Len(visited[b]) = index[b] - 1 /\ \A i \in 1 .. Len(visited[b]) : visited[b][i] = pipes[i]
        BY <2>1 DEF Walk
      <4> QED BY <1>0, <2>2, <4>1
    <3> QED BY <2>1, <2>2, <3>2, <3>3 DEF Walk, pipeVars
  <2>4. Missed(b)' = Missed(b)
    BY <2>2 DEF Missed, Tried, Message, pipeVars
  <2>5. Counted(b)'
    BY <2>1, <2>2, <2>4, CountStays
  <2> QED BY <2>3, <2>5
<1>10. CASE EnterPipe(b) \/ PutInPipe(b) \/ PipeError(b)
  <2>1. Walk(b) /\ Counted(b)
    BY <1>7, <1>10, BodyEnds
  <2> QED BY <1>10, <2>1, BodyWalk
<1>11. CASE ShutDownPipe(b) \/ CountPipe(b)
  BY <1>11 DEF ShutDownPipe, CountPipe
<1>12. CASE ReleaseMutex(b)
  BY <1>0, <1>12 DEF ReleaseMutex
<1> QED BY <1>1, <1>2, <1>3, <1>4, <1>5, <1>6, <1>8, <1>9, <1>10, <1>11, <1>12, WhoseStep
     DEF CallerStep, LoopStep

-----------------------------------------------------------------------------
(* The types *)

\* Whatever goes with the last pointers to them, pipes stay queues within their capacity.
LEMMA DestroyTypes ==
  ASSUME TypeOK, NEW q \in [Pipes -> Seq(Messages)], \A p \in Pipes : Len(q[p]) <= capacity,
         NEW hs, NEW ps, DestroyPipes(q, hs, ps)
  PROVE  /\ queue' \in [Pipes -> Seq(Messages)] /\ \A p \in Pipes : Len(queue'[p]) <= capacity
         /\ down' \in [Pipes -> BOOLEAN]
<1>1. <<>> \in Seq(Messages) /\ Len(<<>>) = 0 /\ 0 <= capacity
  BY RouterAssumption
<1>2. queue' = [p \in Pipes |-> IF Held(p, hs, ps) THEN q[p] ELSE <<>>]
  BY DEF DestroyPipes
<1>3. down' \in [Pipes -> BOOLEAN]
  BY DEF DestroyPipes, TypeOK
<1> HIDE DEF DestroyPipes
<1>4. queue' \in [Pipes -> Seq(Messages)]
  BY <1>1, <1>2
<1>5. \A p \in Pipes : Len(queue'[p]) <= capacity
  BY <1>1, <1>2
<1> QED BY <1>3, <1>4, <1>5

\* The types of the pipes...
PipeTypes ==
  /\ created \in 0 .. MaxPipes /\ pipes \in Seq(1 .. created)
  /\ handle \in [Receivers -> 0 .. created] /\ pending \subseteq Receivers
  /\ queue \in [Pipes -> Seq(Messages)]
  /\ \A p \in Pipes : Len(queue[p]) <= capacity
  /\ down \in [Pipes -> BOOLEAN]
  /\ stream \in [Pipes -> Seq(Messages)]

\* ... and of the calls.
CallTypes ==
  /\ mutex \in Callers \cup {Nobody}
  /\ pc \in [Callers -> {"idle", "lock", "loop", "enter", "pipe"}]
  /\ op \in [Callers -> Ops \cup {"Send"}]
  /\ mode \in [Callers -> Modes \cup {"soft"}]
  /\ calls \in [Callers -> 0 .. MaxCalls]
  /\ promoted \in [Callers -> 0 .. created]
  /\ visited \in [Callers -> Seq(1 .. created)]
  /\ alive0 \in [Callers -> SUBSET (1 .. created)]

\* Those that follow from Places and Vector.
CountTypes ==
  /\ index \in [Callers -> 1 .. created + 1]
  /\ tally \in [Callers -> 0 .. MaxPipes]

\* The type invariant in three parts, which are kept for different reasons.
LEMMA TypesSplit == TypeOK <=> PipeTypes /\ CallTypes /\ CountTypes
BY DEF TypeOK, PipeTypes, CallTypes, CountTypes

\* Every step keeps the types of the pipes and of the vector.
LEMMA PipeTypesStep ==
  ASSUME TypeOK, Places, Vector, [Next]_vars
  PROVE  PipeTypes'
<1>0. PipeTypes /\ created \in Nat
  BY TypesSplit, RouterAssumption DEF PipeTypes
<1>1. CASE UNCHANGED <<created, pipes, handle, pending, queue, down, stream>>
  BY <1>0, <1>1 DEF PipeTypes
<1>2. ASSUME NEW r \in Receivers, CreatePipe(r) PROVE PipeTypes'
  <2>1. /\ created' = created + 1 /\ created + 1 \in 0 .. MaxPipes
        /\ handle' = [handle EXCEPT ![r] = created + 1] /\ pending' = pending \cup {r}
        /\ UNCHANGED <<pipes, queue, down, stream>>
    BY <1>0, <1>2, RouterAssumption DEF CreatePipe, PipeTypes
  <2>2. handle' \in [Receivers -> 0 .. created']
    <3>1. 0 .. created \subseteq 0 .. created + 1 /\ created + 1 \in 0 .. created + 1
      BY <1>0
    <3> QED BY <1>0, <2>1, <3>1 DEF PipeTypes
  <2>3. pipes' \in Seq(1 .. created')
    <3>1. 1 .. created \subseteq 1 .. created + 1
      BY <1>0
    <3>2. pipes \in Seq(1 .. created + 1)
      BY <1>0, <3>1 DEF PipeTypes
    <3> QED BY <2>1, <3>2
  <2> QED BY <1>0, <2>1, <2>2, <2>3 DEF PipeTypes
<1>3. ASSUME NEW r \in Receivers, PushPipe(r) PROVE PipeTypes'
  <2>1. handle[r] \in 1 .. created
    BY <1>0, <1>3 DEF PushPipe, Vector, PipeTypes, NoPipe
  <2>2. pipes' \in Seq(1 .. created)
    BY <1>0, <1>3, <2>1 DEF PushPipe, PipeTypes
  <2> QED BY <1>0, <1>3, <2>2 DEF PushPipe, PipeTypes
<1>4. ASSUME NEW r \in Receivers, Receive(r) PROVE PipeTypes'
  <2> PICK p : p = handle[r]
    OBVIOUS
  <2>1. p \in Pipes /\ queue[p] /= <<>> /\ queue' = [queue EXCEPT ![p] = Tail(@)]
    BY <1>0, <1>4, RouterAssumption DEF Receive, PipeTypes, NoPipe, Pipes
  <2>2. Tail(queue[p]) \in Seq(Messages) /\ Len(Tail(queue[p])) <= capacity
    BY <1>0, <2>1, RouterAssumption DEF PipeTypes
  <2> QED BY <1>0, <1>4, <2>1, <2>2 DEF Receive, PipeTypes
<1>5. ASSUME NEW r \in Receivers, ClosePipe(r) PROVE PipeTypes'
  BY <1>0, <1>5 DEF ClosePipe, PipeTypes
<1>6. ASSUME NEW r \in Receivers, Leave(r) PROVE PipeTypes'
  <2>1. DestroyPipes(queue, handle', promoted) /\ handle' = [handle EXCEPT ![r] = NoPipe]
    BY <1>6 DEF Leave
  <2>2. /\ queue' \in [Pipes -> Seq(Messages)] /\ \A p \in Pipes : Len(queue'[p]) <= capacity
        /\ down' \in [Pipes -> BOOLEAN]
    BY <1>0, <2>1, DestroyTypes DEF PipeTypes
  <2>3. handle' \in [Receivers -> 0 .. created]
    BY <1>0, <2>1 DEF PipeTypes, NoPipe
  <2> QED BY <1>0, <1>6, <2>2, <2>3 DEF Leave, PipeTypes
<1>7. ASSUME NEW a \in Callers, Prune(a) PROVE PipeTypes'
  <2>1. pipes' \in Seq(1 .. created)
    BY <1>7, PrunesOne
  <2> QED BY <1>0, <1>7, <2>1 DEF Prune, PipeTypes
<1>8. ASSUME NEW a \in Callers, EnterPipe(a) \/ PipeError(a) PROVE PipeTypes'
  <2>1. \/ UNCHANGED <<created, pipes, handle, pending, queue, down, stream>>
        \/ /\ DestroyPipes(queue, handle, promoted')
           /\ UNCHANGED <<created, pipes, handle, pending, stream>>
    BY <1>8 DEF EnterPipe, PipeError, EndOfBody, pipeVars
  <2>2. CASE DestroyPipes(queue, handle, promoted') /\ UNCHANGED <<created, pipes, handle, pending, stream>>
    <3>1. /\ queue' \in [Pipes -> Seq(Messages)] /\ \A p \in Pipes : Len(queue'[p]) <= capacity
          /\ down' \in [Pipes -> BOOLEAN]
      BY <1>0, <2>2, DestroyTypes DEF PipeTypes
    <3> QED BY <1>0, <2>2, <3>1 DEF PipeTypes
  <2> QED BY <1>1, <2>1, <2>2
<1>9. ASSUME NEW a \in Callers, PutInPipe(a) PROVE PipeTypes'
  <2> PICK p : p = promoted[a]
    OBVIOUS
  <2> PICK m : m = Message(a)
    OBVIOUS
  <2>1. m \in Messages
    <3>1. pc[a] = "pipe" /\ calls[a] \in 0 .. MaxCalls /\ MaxCalls \in Nat
      BY <1>9, RouterAssumption DEF PutInPipe, TypeOK
    <3>2. calls[a] > 0
      BY <3>1 DEF Places, Place
    <3>3. calls[a] \in 1 .. MaxCalls
      BY <3>1, <3>2
    <3> QED BY <3>3 DEF Message, Messages
  <2>2. /\ Len(queue[p]) < capacity /\ UNCHANGED <<created, pipes, handle, pending>>
        /\ DestroyPipes([queue EXCEPT ![p] = Append(@, m)], handle, promoted')
        /\ stream' = [stream EXCEPT ![p] = Append(@, m)]
    BY <1>9 DEF PutInPipe, EndOfBody
  <2>3. PICK q : q = [queue EXCEPT ![p] = Append(@, m)]
    OBVIOUS
  <2>4. /\ q \in [Pipes -> Seq(Messages)] /\ \A x \in Pipes : Len(q[x]) <= capacity
        /\ stream' \in [Pipes -> Seq(Messages)]
    <3>1. \A s \in Seq(Messages) : Append(s, m) \in Seq(Messages) /\ Len(Append(s, m)) = Len(s) + 1
      BY <2>1
    <3>2. q \in [Pipes -> Seq(Messages)] /\ stream' \in [Pipes -> Seq(Messages)]
      BY <1>0, <2>2, <2>3, <3>1 DEF PipeTypes
    <3>3. ASSUME NEW x \in Pipes PROVE Len(q[x]) <= capacity
      <4>1. queue[x] \in Seq(Messages) /\ Len(queue[x]) \in Nat /\ Len(queue[x]) <= capacity
        BY <1>0 DEF PipeTypes
      <4>2. CASE x = p
        <5>1. Len(q[x]) = Len(queue[x]) + 1
          BY <1>0, <2>3, <3>1, <4>1, <4>2 DEF PipeTypes
        <5> QED BY <2>2, <4>1, <4>2, <5>1, RouterAssumption
      <4>3. CASE x /= p
        BY <1>0, <2>3, <4>1, <4>3 DEF PipeTypes
      <4> QED BY <4>2, <4>3
    <3> QED BY <3>2, <3>3
  <2>5. DestroyPipes(q, handle, promoted')
    BY <2>2, <2>3
  <2>6. /\ queue' \in [Pipes -> Seq(Messages)] /\ \A x \in Pipes : Len(queue'[x]) <= capacity
        /\ down' \in [Pipes -> BOOLEAN]
    BY <2>4, <2>5, DestroyTypes
  <2> QED BY <1>0, <2>2, <2>4, <2>6 DEF PipeTypes
<1>10. ASSUME NEW a \in Callers, ShutDownPipe(a) PROVE PipeTypes'
  <2>1. down' \in [Pipes -> BOOLEAN]
    <3> PICK p : p = pipes[index[a]]
      OBVIOUS
    <3> PICK v \in BOOLEAN : v = (down[p] \/ Living(p))
      OBVIOUS
    <3>1. down' = [down EXCEPT ![p] = v]
      <4>1. down' = [down EXCEPT ![p] = @ \/ Living(p)]
        BY <1>10 DEF ShutDownPipe
      <4>2. p \in Pipes => down[p] \in BOOLEAN
        BY <1>0 DEF PipeTypes
      <4> QED BY <1>0, <4>1, <4>2 DEF PipeTypes
    <3> QED BY <1>0, <3>1 DEF PipeTypes
  <2> QED BY <1>0, <1>10, <2>1 DEF ShutDownPipe, PipeTypes
<1>11. ASSUME NEW a \in Callers,
              \/ \E o \in Ops, m \in Modes : Call(a, o, m)
              \/ TakeMutex(a) \/ Promote(a) \/ CountPipe(a) \/ ReleaseMutex(a)
       PROVE  UNCHANGED <<created, pipes, handle, pending, queue, down, stream>>
  BY <1>11 DEF Call, TakeMutex, Promote, CountPipe, ReleaseMutex, pipeVars
<1>12. UNCHANGED vars => UNCHANGED <<created, pipes, handle, pending, queue, down, stream>>
  BY DEF vars, pipeVars
<1> QED BY <1>1, <1>2, <1>3, <1>4, <1>5, <1>6, <1>7, <1>8, <1>9, <1>10, <1>11, <1>12, WhoseStep
     DEF ReceiverStep, CallerStep, LoopStep

\* Every step keeps the types of the calls' locals.
LEMMA CallTypesStep ==
  ASSUME TypeOK, Places, [Next]_vars
  PROVE  CallTypes'
<1>0. CallTypes /\ created \in Nat /\ Ops \subseteq {"Send", "Shutdown", "NumReceivers"}
      /\ MaxCalls \in Nat
  BY TypesSplit, RouterAssumption DEF TypeOK
<1>1. CASE UNCHANGED callVars /\ mutex' = mutex /\ created' = created
  BY <1>0, <1>1 DEF CallTypes, callVars
<1>2. ASSUME NEW r \in Receivers, CreatePipe(r) PROVE CallTypes'
  <2>1. created' = created + 1 /\ UNCHANGED callVars /\ mutex' = mutex
    BY <1>2 DEF CreatePipe
  <2>2. 0 .. created \subseteq 0 .. created' /\ 1 .. created \subseteq 1 .. created'
    BY <1>0, <2>1
  <2>3. Seq(1 .. created) \subseteq Seq(1 .. created')
    <3>1. \A S, T : S \subseteq T => Seq(S) \subseteq Seq(T)
      OBVIOUS
    <3> QED BY <2>2, <3>1
  <2> QED BY <1>0, <2>1, <2>2, <2>3 DEF CallTypes, callVars
<1>3. ASSUME NEW a \in Callers, CallerStep(a) PROVE CallTypes'
  <2>1. created' = created
    BY <1>3 DEF CallerStep, LoopStep, Call, TakeMutex, Prune, Promote, EnterPipe, PutInPipe,
       PipeError, EndOfBody, ShutDownPipe, CountPipe, ReleaseMutex, pipeVars
  <2>2. CASE \E o \in Ops, m \in Modes : Call(a, o, m)
    <3> PICK o \in Ops, m \in Modes : Call(a, o, m)
      BY <2>2
    <3>1. calls[a] \in 0 .. MaxCalls /\ calls[a] < MaxCalls
      BY <1>0 DEF Call, CallTypes
    <3>2. calls[a] + 1 \in 0 .. MaxCalls
      BY <1>0, <3>1
    <3>3. calls' \in [Callers -> 0 .. MaxCalls]
      BY <1>0, <3>2 DEF Call, CallTypes
    <3>4. /\ pc' \in [Callers -> {"idle", "lock", "loop", "enter", "pipe"}]
          /\ op' \in [Callers -> Ops \cup {"Send"}] /\ mode' \in [Callers -> Modes \cup {"soft"}]
      BY <1>0 DEF Call, CallTypes
    <3>5. UNCHANGED <<mutex, promoted, visited, alive0>>
      BY DEF Call
    <3> QED BY <1>0, <2>1, <3>3, <3>4, <3>5 DEF CallTypes
  <2>3. CASE TakeMutex(a)
    <3>1. {p \in ToSet(pipes) : Living(p)} \subseteq 1 .. created
      <4>1. \A i \in 1 .. Len(pipes) : pipes[i] \in 1 .. created
        BY Numbered
      <4>2. DOMAIN pipes = 1 .. Len(pipes)
        BY DEF TypeOK
      <4> QED BY <4>1, <4>2 DEF ToSet
    <3> QED BY <1>0, <2>1, <2>3, <3>1 DEF TakeMutex, CallTypes
  <2>4. CASE Prune(a)
    BY <1>1, <2>1, <2>4 DEF Prune
  <2>5. CASE Promote(a)
    <3>1. pipes[index[a]] \in 1 .. created
      <4>1. index[a] \in 1 .. Len(pipes)
        BY <2>5 DEF Promote, InLoop, TypeOK
      <4> QED BY <4>1, Numbered
    <3>2. \A s \in Seq(1 .. created) : Append(s, pipes[index[a]]) \in Seq(1 .. created)
      BY <3>1
    <3>3. visited' \in [Callers -> Seq(1 .. created)]
      BY <1>0, <2>5, <3>2 DEF Promote, CallTypes
    <3>4. promoted' \in [Callers -> 0 .. created]
      <4>1. pipes[index[a]] \in 0 .. created
        BY <1>0, <3>1
      <4> QED BY <1>0, <2>5, <4>1 DEF Promote, CallTypes
    <3> QED BY <1>0, <2>1, <2>5, <3>3, <3>4 DEF Promote, CallTypes
  <2>6. CASE EnterPipe(a) \/ PutInPipe(a) \/ PipeError(a)
    <3>1. /\ promoted' = promoted \/ promoted' = [promoted EXCEPT ![a] = NoPipe]
          /\ pc' \in {[pc EXCEPT ![a] = "pipe"], [pc EXCEPT ![a] = "loop"]}
          /\ UNCHANGED <<mutex, op, mode, calls, visited, alive0>>
      BY <2>6 DEF EnterPipe, PutInPipe, PipeError, EndOfBody
    <3>2. promoted' \in [Callers -> 0 .. created]
      <4>1. NoPipe \in 0 .. created
        BY <1>0 DEF NoPipe
      <4> QED BY <1>0, <3>1, <4>1 DEF CallTypes
    <3> QED BY <1>0, <2>1, <3>1, <3>2 DEF CallTypes
  <2>7. CASE ShutDownPipe(a) \/ CountPipe(a)
    BY <1>0, <2>1, <2>7 DEF ShutDownPipe, CountPipe, CallTypes
  <2>8. CASE ReleaseMutex(a)
    <3>1. <<>> \in Seq(1 .. created)
      OBVIOUS
    <3> QED BY <1>0, <2>1, <2>8, <3>1 DEF ReleaseMutex, CallTypes
  <2> QED BY <1>3, <2>2, <2>3, <2>4, <2>5, <2>6, <2>7, <2>8 DEF CallerStep, LoopStep
<1>4. ASSUME NEW r \in Receivers, ReceiverStep(r), ~CreatePipe(r)
      PROVE  UNCHANGED callVars /\ mutex' = mutex /\ created' = created
  BY <1>4 DEF ReceiverStep, PushPipe, Receive, ClosePipe, Leave
<1>5. UNCHANGED vars => UNCHANGED callVars /\ mutex' = mutex /\ created' = created
  BY DEF vars, pipeVars
<1> QED BY <1>1, <1>2, <1>3, <1>4, <1>5, WhoseStep

\* Every step keeps the types of what the calls count.
LEMMA CountTypesStep ==
  ASSUME TypeOK, [Next]_vars, Places', Vector', PipeTypes'
  PROVE  CountTypes'
<1>1. index \in [Callers -> Nat \ {0}] /\ tally \in [Callers -> Nat]
  <2>1. created \in Nat /\ MaxPipes \in Nat
    BY RouterAssumption DEF TypeOK
  <2> QED BY <2>1 DEF TypeOK
<1>2. index' \in [Callers -> Nat \ {0}] /\ tally' \in [Callers -> Nat]
  <2>1. ASSUME NEW a \in Callers, CallerStep(a)
        PROVE  /\ \/ index' = index \/ index' = [index EXCEPT ![a] = @ + 1]
                  \/ index' = [index EXCEPT ![a] = 1]
               /\ \/ tally' = tally \/ tally' = [tally EXCEPT ![a] = @ + 1]
                  \/ tally' = [tally EXCEPT ![a] = 0]
    <3>1. CASE CountPipe(a)
      <4>1. index' = [index EXCEPT ![a] = @ + 1]
        BY <3>1 DEF CountPipe, Advance
      <4>2. tally' = tally \/ tally' = [tally EXCEPT ![a] = @ + 1]
        BY <1>1, <3>1 DEF CountPipe
      <4> QED BY <4>1, <4>2
    <3>2. CASE ~CountPipe(a)
      BY <2>1, <3>2 DEF CallerStep, LoopStep, Call, TakeMutex, Prune, Promote, EnterPipe, PutInPipe,
         PipeError, EndOfBody, Advance, ShutDownPipe, ReleaseMutex, callVars
    <3> QED BY <3>1, <3>2
  <2>2. ASSUME NEW r \in Receivers, ReceiverStep(r) PROVE index' = index /\ tally' = tally
    BY <2>2, ReceiversApart DEF callVars
  <2>3. UNCHANGED vars => index' = index /\ tally' = tally
    BY DEF vars, callVars
  <2>4. ASSUME NEW a \in Callers
        PROVE  index[a] + 1 \in Nat \ {0} /\ tally[a] + 1 \in Nat /\ 1 \in Nat \ {0} /\ 0 \in Nat
    BY <1>1
  <2> QED BY <1>1, <2>1, <2>2, <2>3, <2>4, WhoseStep
<1>3. Len(pipes') <= created' /\ created' \in Nat /\ created' <= MaxPipes /\ Len(pipes') \in Nat
  <2>1. created' \in Nat /\ created' <= MaxPipes /\ pipes' \in Seq(1 .. created')
    BY RouterAssumption DEF PipeTypes
  <2>2. \A i, j \in 1 .. Len(pipes') : pipes'[i] = pipes'[j] => i = j
    BY DEF Vector
  <2>3. Len(pipes') <= created'
    BY <2>1, <2>2, VectorBounded
  <2> QED BY <2>1, <2>3
<1>4. ASSUME NEW a \in Callers PROVE index'[a] \in 1 .. created' + 1 /\ tally'[a] \in 0 .. MaxPipes
  <2>1. index'[a] <= Len(pipes') + 1 /\ tally'[a] < index'[a]
    BY DEF Places, Place
  <2>2. index'[a] \in Nat \ {0} /\ tally'[a] \in Nat /\ MaxPipes \in Nat
    BY <1>2, RouterAssumption
  <2> QED BY <1>3, <2>1, <2>2
<1> QED BY <1>2, <1>4 DEF CountTypes

-----------------------------------------------------------------------------
(* The invariant *)

\* A router without receivers.
LEMMA InitIInv == Init => IInv
<1> SUFFICES ASSUME Init PROVE IInv
  OBVIOUS
<1>1. \A S : <<>> \in Seq(S)
  OBVIOUS
<1>2. Len(<<>>) = 0 /\ 1 .. 0 = {}
  OBVIOUS
<1>3. PipeTypes
  <2>1. 0 \in 0 .. MaxPipes /\ 0 \in 0 .. 0 /\ 0 <= capacity
    BY RouterAssumption
  <2>2. /\ created \in 0 .. MaxPipes /\ pipes \in Seq(1 .. created)
        /\ handle \in [Receivers -> 0 .. created] /\ pending \subseteq Receivers
        /\ down \in [Pipes -> BOOLEAN]
    BY <1>1, <2>1 DEF Init, NoPipe
  <2>3. queue \in [Pipes -> Seq(Messages)] /\ stream \in [Pipes -> Seq(Messages)]
    BY <1>1 DEF Init
  <2>4. \A p \in Pipes : Len(queue[p]) <= capacity
    BY <1>2, <2>1 DEF Init
  <2> QED BY <2>2, <2>3, <2>4 DEF PipeTypes
<1>4. CallTypes
  <2>1. 0 \in 0 .. MaxCalls /\ 0 \in 0 .. 0
    BY RouterAssumption
  <2>2. /\ mutex \in Callers \cup {Nobody}
        /\ pc \in [Callers -> {"idle", "lock", "loop", "enter", "pipe"}]
        /\ op \in [Callers -> Ops \cup {"Send"}]
        /\ mode \in [Callers -> Modes \cup {"soft"}]
        /\ calls \in [Callers -> 0 .. MaxCalls]
    BY <2>1 DEF Init
  <2>3. promoted \in [Callers -> 0 .. created]
    BY <2>1 DEF Init, NoPipe
  <2>4. visited \in [Callers -> Seq(1 .. created)] /\ alive0 \in [Callers -> SUBSET (1 .. created)]
    BY <1>1 DEF Init
  <2> QED BY <2>2, <2>3, <2>4 DEF CallTypes
<1>5. CountTypes
  <2>1. 0 \in 0 .. MaxPipes /\ 1 \in 1 .. 0 + 1
    BY RouterAssumption
  <2> QED BY <2>1 DEF Init, CountTypes
<1>6. TypeOK
  BY <1>3, <1>4, <1>5, TypesSplit
<1>7. Len(pipes) = 0
  BY <1>2 DEF Init
<1>8. Places
  BY <1>7, RouterAssumption DEF Init, Places, Place, NoPipe
<1>9. Vector
  BY <1>7 DEF Init, Vector
<1>10. Walks
  BY RouterAssumption DEF Init, Walks
<1>11. \A p \in Pipes : Len(stream[p]) = 0
  BY <1>2 DEF Init
<1>12. Streams
  BY <1>2, <1>11 DEF Streams, Past, Current, NoneTwice, Agree
<1> QED BY <1>6, <1>8, <1>9, <1>10, <1>12 DEF IInv

\* The parts together.
LEMMA NextIInv == IInv /\ [Next]_vars => IInv'
<1> SUFFICES ASSUME IInv, [Next]_vars PROVE IInv'
  OBVIOUS
<1>1. TypeOK /\ Places /\ Vector /\ Walks /\ Streams /\ Current
  BY DEF IInv, Streams
<1>2. Places' /\ Vector' /\ Walks' /\ Streams'
  BY <1>1, PlacesStep, VectorStep, WalksStep, StreamsStep
<1>3. PipeTypes' /\ CallTypes'
  BY <1>1, PipeTypesStep, CallTypesStep
<1>4. CountTypes'
  BY <1>1, <1>2, <1>3, CountTypesStep
<1>5. TypeOK'
  BY <1>3, <1>4 DEF TypeOK, PipeTypes, CallTypes, CountTypes
<1> QED BY <1>2, <1>5 DEF IInv

\* The vector, the walk of the Send that has the mutex and the messages in the pipes
\* fit together in every reachable state.
THEOREM Invariance == Spec => []IInv
BY InitIInv, NextIInv, PTL DEF Spec

\* Any two pipes have the messages they share in one order, and none twice.
THEOREM OneOrder == Spec => []SameOrder
<1>1. IInv => SameOrder
  <2> SUFFICES ASSUME IInv, NEW p \in Pipes, NEW q \in Pipes, NEW m, NEW n,
                      Before(m, n, stream[p]), Before(n, m, stream[q])
               PROVE  FALSE
    BY DEF SameOrder
  <2>1. PICK i, j \in 1 .. Len(stream[p]) : i < j /\ stream[p][i] = m /\ stream[p][j] = n
    BY DEF Before
  <2>2. PICK k, l \in 1 .. Len(stream[q]) : k < l /\ stream[q][k] = n /\ stream[q][l] = m
    BY DEF Before
  <2> QED BY <2>1, <2>2 DEF IInv, Streams, Agree
<1> QED BY <1>1, Invariance, PTL

\* A Send that is done has tried each pipe kept throughout, none twice, and returns
\* the number of those it failed on, however pruning has moved the vector about.
THEOREM PipesServed == Spec => []EachPipeServed
<1>1. IInv => EachPipeServed
  <2> SUFFICES ASSUME IInv, NEW a \in Callers, Done(a)
               PROVE  /\ \A p \in alive0[a] : Living(p) => p \in ToSet(visited[a])
                      /\ IsInjective(visited[a])
                      /\ ErrorsCounted(a)
    BY DEF EachPipeServed, IInv
  <2>1. TypeOK /\ Walk(a) /\ Counted(a) /\ Vector /\ index[a] <= Len(pipes) + 1
    BY DEF IInv, Walks, Places, Place, Done
  <2>2. /\ index[a] = Len(pipes) + 1 /\ Len(pipes) \in Nat /\ visited[a] \in Seq(1 .. created)
        /\ pc[a] = "loop"
    BY <2>1 DEF Done, TypeOK
  <2>3. /\ Len(visited[a]) = Len(pipes) /\ DOMAIN visited[a] = 1 .. Len(pipes)
        /\ \A i \in 1 .. Len(pipes) : visited[a][i] = pipes[i]
    BY <2>1, <2>2 DEF Walk
  <2>4. ToSet(visited[a]) = Tried(a)
    <3>1. 1 .. index[a] - 1 = 1 .. Len(pipes)
      BY <2>2
    <3> QED BY <2>3, <3>1 DEF Tried, ToSet
  <2>5. \A p \in alive0[a] : Living(p) => p \in ToSet(visited[a])
    BY <2>1, <2>3 DEF Walk, ToSet
  <2>6. IsInjective(visited[a])
    BY <2>1, <2>3 DEF Vector, IsInjective
  <2>7. ErrorsCounted(a)
    BY <2>1, <2>4 DEF Counted, Missed, ErrorsCounted
  <2> QED BY <2>5, <2>6, <2>7
<1> QED BY <1>1, Invariance, PTL
=============================================================================
