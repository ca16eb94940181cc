------------------------------ MODULE RouterIPC ------------------------------
(***************************************************************************)
(* RouterIPC of MempoolIPC/src/RouterIPC.h: a vector of weak pointers to   *)
(* pipes under one interprocess mutex.  Send walks the vector with the     *)
(* mutex held, prunes the pipes nobody keeps, and sends to the others, one *)
(* after the other, waiting in each as long as its mode says.              *)
(*                                                                         *)
(* A pipe is the bounded queue that PipeIPC.tla implements, with its       *)
(* shutdown flag.  It lives as long as the receiver that registered it, or *)
(* a Send that promoted its weak pointer, holds it.                        *)
(***************************************************************************)
EXTENDS Integers, Sequences, FiniteSets, SequencesExt

CONSTANTS
  Callers,    \* processes that call Send, Shutdown and NumReceivers
  Receivers,  \* processes that register
  MaxPipes,   \* bound: pipes created
  Modes,      \* enqueue modes of Send: "wait", "timed", "soft"
  Ops,        \* the methods called: "Send", "Shutdown", "NumReceivers"
  capacity,   \* of each pipe
  MaxCalls,   \* bound: calls per caller
  Nobody

ASSUME RouterAssumption ==
  /\ Callers \cap Receivers = {}
  /\ Modes \subseteq {"wait", "timed", "soft"}
  /\ Ops \subseteq {"Send", "Shutdown", "NumReceivers"}
  /\ capacity \in Nat \ {0}
  /\ MaxCalls \in Nat
  /\ MaxPipes \in Nat
  /\ Nobody \notin Callers

\* Pipes are numbered in the order of their construction.
Pipes == 1 .. MaxPipes
NoPipe == 0

VARIABLES
  mutex,     \* the caller holding the router's mutex
  pipes,     \* the vector of weak pointers
  created,   \* number of pipes constructed so far
  handle,    \* handle[r]: the pipe receiver r keeps a strong pointer to
  pending,   \* receivers that built their pipe and did not yet push it
  queue,     \* queue[p]: elements in pipe p
  down,      \* down[p]: pipe p is shut down
  pc, op, mode, calls,  \* what each caller does, and its number of calls
  index,     \* index[a]: the loop variable i, from 1
  promoted,  \* promoted[a]: the strong pointer a's loop body holds
  tally,     \* tally[a]: errors counted by Send, pipes counted by NumReceivers
  visited,   \* history: pipes the loop has called Send on, in order
  alive0,    \* history: pipes of the vector alive when a took the mutex
  stream     \* history: stream[p]: everything ever put into pipe p

pipeVars == <<pipes, created, handle, pending, queue, down, stream>>
callVars == <<pc, op, mode, calls, index, promoted, tally, visited, alive0>>
vars == <<mutex, pipeVars, callVars>>

Init ==
  /\ mutex = Nobody
  /\ pipes = <<>> /\ created = 0
  /\ handle = [r \in Receivers |-> NoPipe] /\ pending = {}
  /\ queue = [p \in Pipes |-> <<>>]
  /\ down = [p \in Pipes |-> FALSE]
  /\ pc = [a \in Callers |-> "idle"]
  /\ op = [a \in Callers |-> "Send"]
  /\ mode = [a \in Callers |-> "soft"]
  /\ calls = [a \in Callers |-> 0]
  /\ index = [a \in Callers |-> 1]
  /\ promoted = [a \in Callers |-> NoPipe]
  /\ tally = [a \in Callers |-> 0]
  /\ visited = [a \in Callers |-> <<>>]
  /\ alive0 = [a \in Callers |-> {}]
  /\ stream = [p \in Pipes |-> <<>>]

\* Somebody has a strong pointer on the pipe.
Held(p, hs, ps) == (\E r \in Receivers : hs[r] = p) \/ (\E a \in Callers : ps[a] = p)
Living(p) == Held(p, handle, promoted)

\* ~PipeIPC shuts the pipe down and resets what is still queued, once the last
\* strong pointer goes: q are the queues before, hs and ps the pointers left.
DestroyPipes(q, hs, ps) ==
  /\ queue' = [p \in Pipes |-> IF Held(p, hs, ps) THEN q[p] ELSE <<>>]
  /\ down' = [p \in Pipes |-> down[p] \/ (p <= created /\ ~Held(p, hs, ps))]

Message(a) == <<a, calls[a]>>

-----------------------------------------------------------------------------
(* Receivers *)

\* RegisterAsReceiver builds the pipe before it takes the mutex.
CreatePipe(r) ==
  /\ handle[r] = NoPipe /\ created < MaxPipes
  /\ created' = created + 1
  /\ handle' = [handle EXCEPT ![r] = created']
  /\ pending' = pending \cup {r}
  /\ UNCHANGED <<mutex, pipes, queue, down, stream, callVars>>

PushPipe(r) ==
  /\ r \in pending /\ mutex = Nobody
  /\ pipes' = Append(pipes, handle[r])
  /\ pending' = pending \ {r}
  /\ UNCHANGED <<mutex, created, handle, queue, down, stream, callVars>>

Receive(r) ==
  /\ handle[r] /= NoPipe /\ r \notin pending
  /\ queue[handle[r]] /= <<>>
  /\ queue' = [queue EXCEPT ![handle[r]] = Tail(@)]
  /\ UNCHANGED <<mutex, pipes, created, handle, pending, down, stream, callVars>>

\* A receiver may shut its own pipe down.
ClosePipe(r) ==
  /\ handle[r] /= NoPipe /\ ~down[handle[r]]
  /\ down' = [down EXCEPT ![handle[r]] = TRUE]
  /\ UNCHANGED <<mutex, pipes, created, handle, pending, queue, stream, callVars>>

\* The receiver lets go of its pipe, or its process exits cleanly.
Leave(r) ==
  /\ handle[r] /= NoPipe /\ r \notin pending
  /\ handle' = [handle EXCEPT ![r] = NoPipe]
  /\ DestroyPipes(queue, handle', promoted)
  /\ UNCHANGED <<mutex, pipes, created, pending, stream, callVars>>

-----------------------------------------------------------------------------
(* Send, Shutdown and NumReceivers *)

Call(a, o, m) ==
  /\ pc[a] = "idle" /\ calls[a] < MaxCalls
  /\ calls' = [calls EXCEPT ![a] = @ + 1]
  /\ op' = [op EXCEPT ![a] = o]
  /\ mode' = [mode EXCEPT ![a] = IF o = "Send" THEN m ELSE @]
  /\ pc' = [pc EXCEPT ![a] = "lock"]
  /\ UNCHANGED <<mutex, pipeVars, index, promoted, tally, visited, alive0>>

\* Mutant: the mutex is not waited for.
TakeNoMutex(a) ==
  /\ pc[a] = "lock"
  /\ mutex' = a
  /\ pc' = [pc EXCEPT ![a] = "loop"]
  /\ alive0' = [alive0 EXCEPT ![a] = {p \in ToSet(pipes) : Living(p)}]
  /\ UNCHANGED <<pipeVars, op, mode, calls, index, promoted, tally, visited>>

TakeMutex(a) ==
  /\ pc[a] = "lock" /\ mutex = Nobody
  /\ mutex' = a
  /\ pc' = [pc EXCEPT ![a] = "loop"]
  /\ alive0' = [alive0 EXCEPT ![a] = {p \in ToSet(pipes) : Living(p)}]
  /\ UNCHANGED <<pipeVars, op, mode, calls, index, promoted, tally, visited>>

InLoop(a) == pc[a] = "loop" /\ index[a] <= Len(pipes)
Advance(a) == index' = [index EXCEPT ![a] = @ + 1]

\* The vector with the last element moved over position i.
SwapAndPop(i) == Front([pipes EXCEPT ![i] = Last(pipes)])

\* Mutant: no --i.
PruneAdvances(a) ==
  /\ InLoop(a) /\ op[a] = "Send"
  /\ ~Living(pipes[index[a]])
  /\ pipes' = SwapAndPop(index[a])
  /\ Advance(a)
  /\ UNCHANGED <<mutex, created, handle, pending, queue, down, stream,
                 pc, op, mode, calls, promoted, tally, visited, alive0>>

\* Send prunes a pipe that cannot be promoted and looks at the same index again.
Prune(a) ==
  /\ InLoop(a) /\ op[a] = "Send"
  /\ ~Living(pipes[index[a]])
  /\ pipes' = SwapAndPop(index[a])
  /\ UNCHANGED <<mutex, created, handle, pending, queue, down, stream, callVars>>

Promote(a) ==
  /\ InLoop(a) /\ op[a] = "Send"
  /\ Living(pipes[index[a]])
  /\ promoted' = [promoted EXCEPT ![a] = pipes[index[a]]]
  /\ visited' = [visited EXCEPT ![a] = Append(@, pipes[index[a]])]
  /\ pc' = [pc EXCEPT ![a] = "enter"]
  /\ UNCHANGED <<mutex, pipeVars, op, mode, calls, index, tally, alive0>>

\* The end of the loop body: the promoted pointer goes out of scope.
EndOfBody(a, q) ==
  /\ promoted' = [promoted EXCEPT ![a] = NoPipe]
  /\ DestroyPipes(q, handle, promoted')
  /\ pc' = [pc EXCEPT ![a] = "loop"]
  /\ Advance(a)
  /\ UNCHANGED <<mutex, pipes, created, handle, pending,
                 op, mode, calls, visited, alive0>>

\* PipeIPC::Send: a pipe already shut down is no error.
EnterPipe(a) ==
  /\ pc[a] = "enter"
  /\ \/ /\ down[promoted[a]]
        /\ EndOfBody(a, queue)
        /\ UNCHANGED <<tally, stream>>
     \/ /\ ~down[promoted[a]]
        /\ pc' = [pc EXCEPT ![a] = "pipe"]
        /\ UNCHANGED <<mutex, pipeVars, op, mode, calls, index, promoted, tally,
                       visited, alive0>>

PutInPipe(a) ==
  LET p == promoted[a] IN
  /\ pc[a] = "pipe" /\ ~down[p] /\ Len(queue[p]) < capacity
  /\ EndOfBody(a, [queue EXCEPT ![p] = Append(@, Message(a))])
  /\ stream' = [stream EXCEPT ![p] = Append(@, Message(a))]
  /\ UNCHANGED tally

\* Mutant: a full pipe is always waited for.
PipeErrorWaits(a) ==
  LET p == promoted[a] IN
  /\ pc[a] = "pipe" /\ down[p]
  /\ EndOfBody(a, queue)
  /\ tally' = [tally EXCEPT ![a] = @ + 1]
  /\ UNCHANGED stream

\* The pipe stays full, or is shut down while the caller waits in it.
PipeError(a) ==
  LET p == promoted[a] IN
  /\ pc[a] = "pipe"
  /\ down[p] \/ (Len(queue[p]) = capacity /\ mode[a] \in {"soft", "timed"})
  /\ EndOfBody(a, queue)
  /\ tally' = [tally EXCEPT ![a] = @ + 1]
  /\ UNCHANGED stream

\* Shutdown reaches the living pipes and prunes none.
ShutDownPipe(a) ==
  /\ InLoop(a) /\ op[a] = "Shutdown"
  /\ down' = [down EXCEPT ![pipes[index[a]]] = @ \/ Living(pipes[index[a]])]
  /\ Advance(a)
  /\ UNCHANGED <<mutex, pipes, created, handle, pending, queue, stream,
                 pc, op, mode, calls, promoted, tally, visited, alive0>>

CountPipe(a) ==
  /\ InLoop(a) /\ op[a] = "NumReceivers"
  /\ tally' = [tally EXCEPT ![a] = IF Living(pipes[index[a]]) THEN @ + 1 ELSE @]
  /\ Advance(a)
  /\ UNCHANGED <<mutex, pipeVars, pc, op, mode, calls, promoted, visited, alive0>>

\* The call returns: its local variables go out of scope.
ReleaseMutex(a) ==
  /\ pc[a] = "loop" /\ index[a] > Len(pipes)
  /\ mutex' = Nobody
  /\ pc' = [pc EXCEPT ![a] = "idle"]
  /\ op' = [op EXCEPT ![a] = "Send"]
  /\ mode' = [mode EXCEPT ![a] = "soft"]
  /\ index' = [index EXCEPT ![a] = 1]
  /\ tally' = [tally EXCEPT ![a] = 0]
  /\ visited' = [visited EXCEPT ![a] = <<>>]
  /\ alive0' = [alive0 EXCEPT ![a] = {}]
  /\ UNCHANGED <<pipeVars, calls, promoted>>

\* What a caller does once it holds the mutex.
LoopStep(a) ==
  \/ Prune(a) \/ Promote(a) \/ EnterPipe(a) \/ PutInPipe(a) \/ PipeError(a)
  \/ ShutDownPipe(a) \/ CountPipe(a) \/ ReleaseMutex(a)

Next ==
  \/ \E r \in Receivers : 
       \/ CreatePipe(r) \/ PushPipe(r) \/ Receive(r) \/ ClosePipe(r) \/ Leave(r)
  \/ \E a \in Callers :
       \/ \E o \in Ops, m \in Modes : Call(a, o, m)
       \/ TakeMutex(a)
       \/ LoopStep(a)

Spec == Init /\ [][Next]_vars

\* A caller inside the loop runs on as long as it is not blocked in a pipe.
FairSpec == Spec /\ \A a \in Callers : WF_vars(LoopStep(a))

-----------------------------------------------------------------------------
(* Properties *)

Messages == Callers \X (1 .. MaxCalls)

\* Type invariant; part of EachPipeServed.
TypeOK ==
  /\ mutex \in Callers \cup {Nobody}
  /\ created \in 0 .. MaxPipes /\ pipes \in Seq(1 .. created)
  /\ handle \in [Receivers -> 0 .. created] /\ pending \subseteq Receivers
  /\ queue \in [Pipes -> Seq(Messages)]
  /\ \A p \in Pipes : Len(queue[p]) <= capacity
  /\ down \in [Pipes -> BOOLEAN]
  /\ pc \in [Callers -> {"idle", "lock", "loop", "enter", "pipe"}]
  /\ op \in [Callers -> Ops \cup {"Send"}]
  /\ mode \in [Callers -> Modes \cup {"soft"}]
  /\ calls \in [Callers -> 0 .. MaxCalls]
  /\ index \in [Callers -> 1 .. created + 1]
  /\ promoted \in [Callers -> 0 .. created]
  /\ tally \in [Callers -> 0 .. MaxPipes]
  /\ visited \in [Callers -> Seq(1 .. created)]
  /\ alive0 \in [Callers -> SUBSET (1 .. created)]
  /\ stream \in [Pipes -> Seq(Messages)]

Before(m, n, s) ==
  \E i, j \in 1 .. Len(s) : i < j /\ s[i] = m /\ s[j] = n

\* All pipes see the messages they share in one order, and none twice: Send keeps
\* the mutex from its first pipe to its last.
SameOrder ==
  \A p, q \in Pipes : \A m, n \in ToSet(stream[p]) \cap ToSet(stream[q]) :
    Before(m, n, stream[p]) => ~Before(n, m, stream[q])

Done(a) == pc[a] = "loop" /\ op[a] = "Send" /\ index[a] > Len(pipes)

\* Send returns the number of living pipes that had an error: those it tried that
\* did not get the message, but a pipe that was shut down may be left out.
ErrorsCounted(a) ==
  LET missed == {p \in ToSet(visited[a]) : Message(a) \notin ToSet(stream[p])} IN
  tally[a] \in Cardinality({p \in missed : ~down[p]}) .. Cardinality(missed)

\* However pruning moves the vector about, a finished Send has tried each pipe
\* that was alive throughout, none twice, and counted those it failed on.
EachPipeServed ==
  /\ TypeOK
  /\ \A a \in Callers : Done(a) =>
       /\ \A p \in alive0[a] : Living(p) => p \in ToSet(visited[a])
       /\ IsInjective(visited[a])
       /\ ErrorsCounted(a)

\* A caller that does not wait without a deadline gives the mutex back, whatever
\* the receivers do: they may stop receiving, leave, or shut their pipe down.
MutexComesBack ==
  \A a \in Callers :
    (mutex = a /\ (op[a] = "Send" => mode[a] /= "wait")) ~> mutex /= a
=============================================================================
