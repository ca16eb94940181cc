------------------------------- MODULE PipeIPC -------------------------------
(***************************************************************************)
(* PipeIPC of MempoolIPC/src/RouterIPC.h: a ring of shared_ptrs in shared  *)
(* memory, a mutex for the ring, the semaphore nempty for its free slots,  *)
(* nstored for its full ones, and an atomic shutdown flag.                 *)
(*                                                                         *)
(* Each access to a semaphore, to the flag, or to the ring under the mutex *)
(* is a step of its own, so senders, receivers and callers of Shutdown in  *)
(* different processes interleave between them; a process of Faulty may be *)
(* killed at any of them, and what it holds stays held.                    *)
(***************************************************************************)
EXTENDS Integers, FiniteSets, Sequences

CONSTANTS
  Senders, Receivers, Closers,  \* processes calling Send, Receive, Shutdown
  Faulty,                       \* those that may be killed
  Modes,                        \* how Send and Receive are called: see below
  capacity,                     \* slots in the ring
  SizeModulus,                  \* size is unsigned: 2^64 in the code
  MaxSends, MaxShutdowns,       \* bounds: calls per sender, per closer
  NULL,                         \* an empty shared_ptr
  Nobody                        \* the mutex is free

\* Send waits for a slot ("wait"), waits until a deadline ("timed"), or does
\* not wait ("soft"); Receive takes the first two.
AllModes == {"wait", "timed", "soft"}

Procs == Senders \cup Receivers \cup Closers

ASSUME PipeAssumption ==
  /\ IsFiniteSet(Senders) /\ IsFiniteSet(Receivers)
  /\ Senders \cap Receivers = {}
  /\ Senders \cap Closers = {}
  /\ Receivers \cap Closers = {}
  /\ Faulty \subseteq Procs
  /\ Modes \subseteq AllModes
  /\ capacity \in Nat \ {0}
  /\ SizeModulus \in Nat /\ SizeModulus > capacity
  /\ MaxSends \in Nat /\ MaxShutdowns \in Nat
  /\ NULL \notin Senders \X (1 .. MaxSends)
  /\ Nobody \notin Procs

VARIABLES
  items, indexPush, indexPop, size,  \* the ring
  mutex,                             \* its holder
  nempty, nstored,                   \* the semaphores
  shutdown,
  pc, mode,   \* where each process is, and how it waits
  calls,      \* calls[p]: Sends or Shutdowns p has begun
  ptr,        \* ptr[r]: Receive's output
  pushed, received,  \* history: messages put into the ring, taken out of it
  late,       \* history: messages whose Send had no slot yet at a Shutdown
  killed

ringVars == <<items, indexPush, indexPop, size>>
histVars == <<pushed, received, late>>
vars == <<ringVars, mutex, nempty, nstored, shutdown, pc, mode, calls, ptr,
          histVars, killed>>

Messages == Senders \X (1 .. MaxSends)
Slots == 0 .. capacity - 1

\* The message p's current Send carries.
Current(p) == <<p, calls[p]>>

Init ==
  /\ items = [i \in Slots |-> NULL]
  /\ indexPush = 0 /\ indexPop = 0 /\ size = 0
  /\ mutex = Nobody
  /\ nempty = capacity /\ nstored = 0
  /\ shutdown = FALSE
  /\ pc = [p \in Procs |-> "idle"]
  /\ mode = [p \in Procs |-> "wait"]
  /\ calls = [p \in Procs |-> 0]
  /\ ptr = [r \in Receivers |-> NULL]
  /\ pushed = {} /\ received = {} /\ late = {}
  /\ killed = {}

At(p, label) == pc[p] = label /\ p \notin killed
Goto(p, label) == pc' = [pc EXCEPT ![p] = label]

\* The wait is over, and its mode does not matter any more.
Waited(p, label) == Goto(p, label) /\ mode' = [mode EXCEPT ![p] = "wait"]

-----------------------------------------------------------------------------
(* Send *)

\* A Send that finds the pipe shut down returns false, which is "no error".
SendStart(s, m) ==
  /\ At(s, "idle") /\ calls[s] < MaxSends
  /\ calls' = [calls EXCEPT ![s] = @ + 1]
  /\ \/ /\ shutdown
        /\ late' = late \cup {<<s, calls[s] + 1>>}
        /\ UNCHANGED <<pc, mode>>
     \/ /\ ~shutdown
        /\ Goto(s, "wait")
        /\ mode' = [mode EXCEPT ![s] = m]
        /\ UNCHANGED late
  /\ UNCHANGED <<ringVars, mutex, nempty, nstored, shutdown, ptr, pushed,
                 received, killed>>

\* Mutant: the result of the wait is ignored.
TakeEmptyUnchecked(s) ==
  /\ At(s, "wait")
  /\ nempty' = IF nempty > 0 THEN nempty - 1 ELSE 0
  /\ Waited(s, "check")
  /\ UNCHANGED <<ringVars, mutex, nstored, shutdown, calls, ptr,
                 histVars, killed>>

TakeEmpty(s) ==
  /\ At(s, "wait") /\ nempty > 0
  /\ nempty' = nempty - 1
  /\ Waited(s, "check")
  /\ UNCHANGED <<ringVars, mutex, nstored, shutdown, calls, ptr,
                 histVars, killed>>

\* try_wait fails, or timed_wait reaches its deadline: an error is returned.
NoSlot(s) ==
  /\ At(s, "wait") /\ nempty = 0
  /\ mode[s] \in {"soft", "timed"}
  /\ Waited(s, "idle")
  /\ UNCHANGED <<ringVars, mutex, nempty, nstored, shutdown, calls, ptr,
                 histVars, killed>>

\* Mutant: a sender that got its slot goes ahead.
CheckNothing(s) ==
  /\ At(s, "check")
  /\ Goto(s, "lock")
  /\ UNCHANGED <<ringVars, mutex, nempty, nstored, shutdown, mode, calls, ptr,
                 histVars, killed>>

\* success &= !shutdown.  On failure an error is returned and the slot taken
\* from nempty is not given back.
CheckShutdown(s) ==
  /\ At(s, "check")
  /\ \/ shutdown /\ Goto(s, "idle")
     \/ ~shutdown /\ Goto(s, "lock")
  /\ UNCHANGED <<ringVars, mutex, nempty, nstored, shutdown, mode, calls, ptr,
                 histVars, killed>>

Lock(p, from, to) ==
  /\ At(p, from) /\ mutex = Nobody
  /\ mutex' = p
  /\ Goto(p, to)
  /\ UNCHANGED <<ringVars, nempty, nstored, shutdown, mode, calls, ptr,
                 histVars, killed>>

LockToPush(s) == Lock(s, "lock", "push")

Push(s) ==
  /\ At(s, "push")
  /\ items' = [items EXCEPT ![indexPush] = Current(s)]
  /\ indexPush' = (indexPush + 1) % capacity
  /\ size' = (size + 1) % SizeModulus
  /\ mutex' = Nobody
  /\ pushed' = pushed \cup {Current(s)}
  /\ Goto(s, "post")
  /\ UNCHANGED <<indexPop, nempty, nstored, shutdown, mode, calls, ptr,
                 received, late, killed>>

\* Mutant: the wrong semaphore is posted.
PostWrongSemaphore(s) ==
  /\ At(s, "post")
  /\ nempty' = nempty + 1
  /\ Goto(s, "idle")
  /\ UNCHANGED <<ringVars, mutex, nstored, shutdown, mode, calls, ptr, pushed,
                 received, late, killed>>

PostStored(s) ==
  /\ At(s, "post")
  /\ nstored' = nstored + 1
  /\ Goto(s, "idle")
  /\ UNCHANGED <<ringVars, mutex, nempty, shutdown, mode, calls, ptr, pushed,
                 received, late, killed>>

-----------------------------------------------------------------------------
(* Receive *)

ReceiveStart(r, m) ==
  /\ At(r, "idle") /\ m /= "soft"
  /\ ptr' = [ptr EXCEPT ![r] = NULL]
  /\ mode' = [mode EXCEPT ![r] = m]
  /\ Goto(r, "wait")
  /\ UNCHANGED <<ringVars, mutex, nempty, nstored, shutdown, calls, histVars,
                 killed>>

TakeStored(r) ==
  /\ At(r, "wait") /\ nstored > 0
  /\ nstored' = nstored - 1
  /\ Waited(r, "lock")
  /\ UNCHANGED <<ringVars, mutex, nempty, shutdown, calls, ptr, histVars,
                 killed>>

\* Mutant: a receive that timed out goes on to pop.
TimedOutPops(r) ==
  /\ At(r, "wait") /\ nstored = 0
  /\ mode[r] = "timed"
  /\ Waited(r, "lock")
  /\ UNCHANGED <<ringVars, mutex, nempty, nstored, shutdown, calls, ptr,
                 histVars, killed>>

ReceiveTimesOut(r) ==
  /\ At(r, "wait") /\ nstored = 0
  /\ mode[r] = "timed"
  /\ Waited(r, "idle")
  /\ UNCHANGED <<ringVars, mutex, nempty, nstored, shutdown, calls, ptr,
                 histVars, killed>>

LockToPop(r) == Lock(r, "lock", "pop")

Pop(r) ==
  /\ At(r, "pop")
  /\ ptr' = [ptr EXCEPT ![r] = items[indexPop]]
  /\ items' = [items EXCEPT ![indexPop] = NULL]
  /\ indexPop' = (indexPop + 1) % capacity
  /\ size' = (size - 1) % SizeModulus
  /\ mutex' = Nobody
  /\ received' = received \cup ({items[indexPop]} \ {NULL})
  /\ Goto(r, "post")
  /\ UNCHANGED <<indexPush, nempty, nstored, shutdown, mode, calls, pushed,
                 late, killed>>

PostEmpty(r) ==
  /\ At(r, "post")
  /\ nempty' = nempty + 1
  /\ Goto(r, "idle")
  /\ UNCHANGED <<ringVars, mutex, nstored, shutdown, mode, calls, ptr, histVars,
                 killed>>

-----------------------------------------------------------------------------
(* Shutdown *)

SetShutdown(c) ==
  /\ At(c, "idle") /\ calls[c] < MaxShutdowns
  /\ calls' = [calls EXCEPT ![c] = @ + 1]
  /\ shutdown' = TRUE
  /\ late' = late \cup {Current(s) : s \in {t \in Senders : pc[t] = "wait"}}
  /\ Goto(c, "wakeReceiver")
  /\ UNCHANGED <<ringVars, mutex, nempty, nstored, mode, ptr, pushed, received,
                 killed>>

WakeReceiver(c) ==
  /\ At(c, "wakeReceiver")
  /\ nstored' = nstored + 1
  /\ Goto(c, "wakeSender")
  /\ UNCHANGED <<ringVars, mutex, nempty, shutdown, mode, calls, ptr, histVars,
                 killed>>

\* Mutant: nobody is woken.
WakeNobody(c) ==
  /\ At(c, "wakeSender")
  /\ Goto(c, "idle")
  /\ UNCHANGED <<ringVars, mutex, nempty, nstored, shutdown, mode, calls, ptr,
                 histVars, killed>>

\* One post, however many senders wait.
WakeSender(c) ==
  /\ At(c, "wakeSender")
  /\ nempty' = nempty + 1
  /\ Goto(c, "idle")
  /\ UNCHANGED <<ringVars, mutex, nstored, shutdown, mode, calls, ptr, histVars,
                 killed>>

Kill(p) ==
  /\ p \in Faulty \ killed
  /\ killed' = killed \cup {p}
  /\ UNCHANGED <<ringVars, mutex, nempty, nstored, shutdown, pc, mode, calls,
                 ptr, histVars>>

-----------------------------------------------------------------------------

SendStep(s) ==
  TakeEmpty(s) \/ NoSlot(s) \/ CheckShutdown(s) \/ LockToPush(s) \/ Push(s)
  \/ PostStored(s)

ReceiveStep(r) ==
  TakeStored(r) \/ ReceiveTimesOut(r) \/ LockToPop(r) \/ Pop(r) \/ PostEmpty(r)

CloseStep(c) == WakeReceiver(c) \/ WakeSender(c)

Next ==
  \/ \E s \in Senders : SendStep(s) \/ \E m \in Modes : SendStart(s, m)
  \/ \E r \in Receivers : ReceiveStep(r) \/ \E m \in Modes : ReceiveStart(r, m)
  \/ \E c \in Closers : SetShutdown(c) \/ CloseStep(c)
  \/ \E p \in Faulty : Kill(p)

Spec == Init /\ [][Next]_vars

\* Calls in progress proceed whenever they can.
CallsProceed ==
  /\ \A s \in Senders : WF_vars(SendStep(s))
  /\ \A r \in Receivers : WF_vars(ReceiveStep(r))
  /\ \A c \in Closers : WF_vars(CloseStep(c))

FairSpec == Spec /\ CallsProceed

\* Receivers call Receive in a loop, as the README's example does.
LoopingSpec ==
  FairSpec /\ \A r \in Receivers : WF_vars(\E m \in Modes : ReceiveStart(r, m))

-----------------------------------------------------------------------------
(* Properties *)

Labels == {"idle", "wait", "check", "lock", "push", "pop", "post",
           "wakeReceiver", "wakeSender"}

\* Type invariant.
TypeOK ==
  /\ items \in [Slots -> Messages \cup {NULL}]
  /\ indexPush \in Slots /\ indexPop \in Slots
  /\ size \in 0 .. SizeModulus - 1
  /\ mutex \in Procs \cup {Nobody}
  /\ nempty \in Nat /\ nstored \in Nat
  /\ shutdown \in BOOLEAN
  /\ pc \in [Procs -> Labels]
  /\ mode \in [Procs -> AllModes]
  /\ calls \in [Procs -> 0 .. MaxSends + MaxShutdowns]
  /\ ptr \in [Receivers -> Messages \cup {NULL}]
  /\ {pushed, received, late} \subseteq SUBSET Messages
  /\ killed \subseteq Faulty

CountAt(P, labels) == Cardinality({p \in P : pc[p] \in labels})

\* Until Shutdown every slot is in one place: free in nempty, full in nstored,
\* or with the call that took it.  Send and Receive post what they waited for,
\* even when a process dies in between (its slot is then lost with it).
SlotsAccounted ==
  /\ TypeOK
  /\ ~shutdown =>
       /\ nempty + nstored + CountAt(Senders, {"check", "lock", "push", "post"})
            + CountAt(Receivers, {"lock", "pop", "post"}) = capacity
       /\ size = nstored + CountAt(Senders, {"post"}) + CountAt(Receivers, {"lock", "pop"})

\* Shutdown hands out slots that are not there.  Still, Push never lands on a slot
\* whose element no receiver has taken (the element would be released unread), and
\* a Send that begins after Shutdown, or that Shutdown finds waiting for a slot,
\* puts nothing into the pipe, even when Shutdown's own post wakes it.
SafeAfterShutdown ==
  /\ \A s \in Senders : pc[s] = "push" => items[indexPush] = NULL
  /\ late \cap pushed = {}

\* The ring's full slots in the order they will be popped.
Queue == [i \in 1 .. size |-> items[(indexPop + i - 1) % capacity]]

Fifo == INSTANCE BoundedQueue WITH queue <- Queue

\* Until somebody shuts it down, the pipe is a bounded first-in first-out queue.
PipeImplements == Fifo!Init /\ [][shutdown \/ Fifo!Next]_<<Queue, ptr>>

\* Whatever is pushed is received, again and again, as long as receivers keep
\* calling Receive and nobody is killed or shuts the pipe down.
Delivered == []<>(pushed = received \/ killed /= {} \/ shutdown)

\* Shutdown's comment says that it notifies any pending senders.  It lets one go,
\* even when a killed receiver keeps the mutex: never do all of them wait for ever.
OneSenderReleased == []<>~(shutdown /\ \A s \in Senders : pc[s] = "wait")
=============================================================================
