------------------------------ MODULE HeapPool ------------------------------
(***************************************************************************)
(* MempoolHeap/src/MemPoolHeap.h: pools in the heap of one process, shared *)
(* by its threads.  The stack of free blocks is that of AllocatorState; a  *)
(* block, sizeSharedT * countPerElement bytes here, holds a shared_ptr's   *)
(* control block and its T ("object" pools), or its T*, in which case the  *)
(* array of count objects it points to lies at the same index of memory of *)
(* its own ("array" pools, or "arithmetic" when T has no constructor).     *)
(*                                                                         *)
(* A block goes back when the last shared_ptr and the last weak_ptr on it  *)
(* are gone; Accept then destroys the objects of an array before it takes  *)
(* the mutex.  Threads interleave between these steps and between the      *)
(* constructors of an array, each of which may throw.  What Statistics     *)
(* keeps besides nAvailable (its historic minimum) is left out.            *)
(***************************************************************************)
EXTENDS AllocatorState

CONSTANTS
  Threads,
  count,      \* objects of an array
  MaxRefs,    \* bound: shared_ptrs, and weak_ptrs, on one block
  Nothing     \* the block of a thread that works on none

ASSUME HeapAssumption ==
  /\ countPerElement > 0
  /\ count \in Nat \ {0}
  /\ MaxRefs \in Nat \ {0}
  /\ Nothing \notin Nat

VARIABLES
  kind,      \* what the pool holds
  pool,      \* "unbuilt", "ready", "null" (no state) or "thrown" (by its constructor)
  arrays,    \* the memory of the arrays could be allocated: rawAligned is not null
  strong,    \* strong[i]: shared_ptrs on block i
  weak,      \* weak[i]: weak_ptrs on it, and one for all its shared_ptrs together
  live,      \* live[i]: which of its objects are constructed
  pc, block, \* where each thread is, and on which block
  threw,     \* history: a constructor of an array threw
  misused,   \* history: a destructor ran on an object never constructed
  crashed    \* undefined behaviour ended the process

refVars == <<strong, weak>>
heapVars == <<vars, kind, pool, arrays, refVars, live,
              pc, block, threw, misused, crashed>>

Kinds == {"object", "array", "arithmetic"}

\* Objects of a block: none has a constructor or a destructor in arithmetic pools.
Objects == IF kind = "arithmetic" THEN {}
           ELSE IF kind = "array" THEN 0 .. count - 1 ELSE {0}

GetElementNumber(p) == p \div (sizeSharedT * countPerElement)

HeapInit ==
  /\ Init
  /\ kind \in Kinds
  /\ pool = "unbuilt" /\ arrays = FALSE
  /\ strong = [i \in Index |-> 0] /\ weak = [i \in Index |-> 0]
  /\ live = [i \in Index |-> {}]
  /\ pc = [t \in Threads |-> "idle"]
  /\ block = [t \in Threads |-> Nothing]
  /\ threw = FALSE /\ misused = FALSE /\ crashed = FALSE

At(t, label) == pc[t] = label /\ ~crashed
Goto(t, label) == pc' = [pc EXCEPT ![t] = label]

\* The thread has nothing more to do with its block.
Done(t) == Goto(t, "idle") /\ block' = [block EXCEPT ![t] = Nothing]

-----------------------------------------------------------------------------
(* Constructing the pool *)

\* The one-off allocator learns the block's size from a throw-away object,
\* then the pool allocates its blocks; the array pool allocates the arrays too
\* and goes on without them when it cannot.
Build ==
  /\ pool = "unbuilt"
  /\ pool' = "ready"
  /\ Allocate
  /\ arrays' \in IF kind = "object" THEN {FALSE} ELSE BOOLEAN
  /\ UNCHANGED <<kind, refVars, live, pc, block, threw, misused, crashed>>

\* The blocks could not be allocated and the state is dropped, or the
\* throw-away object could not be made and the constructor throws.
BuildFails ==
  /\ pool = "unbuilt"
  /\ pool' \in {"null", "thrown"}
  /\ UNCHANGED <<vars, kind, arrays, refVars, live, pc, block, threw, misused,
                 crashed>>

-----------------------------------------------------------------------------
(* allocate_shared and allocate_raw *)

\* Loan throws bad_alloc when the stack is empty and allocate_shared answers
\* with null; a pool without a state does the same.
AllocateShared(t) ==
  /\ At(t, "idle")
  /\ \/ /\ pool = "ready" /\ CanLoan
        /\ Loan
        /\ LET i == GetElementNumber(Top) IN
             /\ block' = [block EXCEPT ![t] = i]
             /\ strong' = [strong EXCEPT ![i] = 1]
             /\ weak' = [weak EXCEPT ![i] = 1]
        /\ Goto(t, "construct")
     \/ /\ pool = "ready" /\ ~CanLoan
        /\ Loan
        /\ UNCHANGED <<refVars, pc, block>>
     \/ /\ pool = "null"
        /\ UNCHANGED <<vars, refVars, pc, block>>
  /\ UNCHANGED <<kind, pool, arrays, live, threw, misused, crashed>>

Unbuilt(i) == Objects \ live[i]

\* The objects are built in order.  Those of an array whose memory is missing
\* lie at a null pointer plus an offset.
Construct(t) ==
  /\ At(t, "construct")
  /\ LET i == block[t] IN
     \/ /\ Unbuilt(i) = {}
        /\ Done(t)
        /\ UNCHANGED <<live, crashed>>
     \/ \E o \in Unbuilt(i) :
        /\ \A other \in Unbuilt(i) : o <= other
        /\ live' = [live EXCEPT ![i] = @ \cup {o}]
        /\ crashed' \in IF kind = "array" /\ ~arrays THEN BOOLEAN ELSE {FALSE}
        /\ UNCHANGED <<pc, block>>
  /\ UNCHANGED <<vars, kind, pool, arrays, refVars, threw, misused>>

\* Mutant: the memory of a half-built array goes back without its destructors.
ConstructorLeaks(t) ==
  /\ At(t, "construct") /\ Unbuilt(block[t]) /= {}
  /\ strong' = [strong EXCEPT ![block[t]] = 0]
  /\ weak' = [weak EXCEPT ![block[t]] = 0]
  /\ Goto(t, "push")
  /\ threw' = (threw \/ kind = "array")
  /\ UNCHANGED <<vars, kind, pool, arrays, live, block, misused, crashed>>

\* A constructor throws.  An object's memory is deallocated by allocate_shared;
\* of an array, the local shared_ptr goes out of scope.
ConstructorThrows(t) ==
  /\ At(t, "construct") /\ Unbuilt(block[t]) /= {}
  /\ strong' = [strong EXCEPT ![block[t]] = 0]
  /\ weak' = [weak EXCEPT ![block[t]] = 0]
  /\ Goto(t, IF kind = "object" THEN "push" ELSE "callback")
  /\ threw' = (threw \/ kind = "array")
  /\ UNCHANGED <<vars, kind, pool, arrays, live, block, misused, crashed>>

-----------------------------------------------------------------------------
(* Handles *)

\* Thread t, doing nothing else, uses a handle on block i.
Uses(t, i) == At(t, "idle") /\ \A u \in Threads : ~(pc[u] = "construct" /\ block[u] = i)

Copy(t, i) ==
  /\ Uses(t, i) /\ strong[i] \in 1 .. MaxRefs - 1
  /\ strong' = [strong EXCEPT ![i] = @ + 1]
  /\ UNCHANGED <<vars, kind, pool, arrays, weak, live, pc, block, threw,
                 misused, crashed>>

MakeWeak(t, i) ==
  /\ Uses(t, i) /\ strong[i] > 0 /\ weak[i] <= MaxRefs
  /\ weak' = [weak EXCEPT ![i] = @ + 1]
  /\ UNCHANGED <<vars, kind, pool, arrays, strong, live, pc, block, threw,
                 misused, crashed>>

WeakPointers(i) == weak[i] - (IF strong[i] > 0 \/ \E t \in Threads : pc[t] = "dispose" /\ block[t] = i
                              THEN 1 ELSE 0)

\* weak_ptr::lock
LockWeak(t, i) ==
  /\ Uses(t, i) /\ WeakPointers(i) > 0 /\ strong[i] \in 1 .. MaxRefs - 1
  /\ strong' = [strong EXCEPT ![i] = @ + 1]
  /\ UNCHANGED <<vars, kind, pool, arrays, weak, live, pc, block, threw,
                 misused, crashed>>

Release(t, i) ==
  /\ Uses(t, i) /\ strong[i] > 0
  /\ strong' = [strong EXCEPT ![i] = @ - 1]
  /\ IF strong[i] > 1 THEN UNCHANGED <<pc, block>>
     ELSE Goto(t, "dispose") /\ block' = [block EXCEPT ![t] = i]
  /\ UNCHANGED <<vars, kind, pool, arrays, weak, live, threw, misused,
                 crashed>>

\* The last of the counts is gone: the control block, and T in it, deallocates.
WeakGone(t, i) ==
  /\ weak' = [weak EXCEPT ![i] = @ - 1]
  /\ IF weak[i] > 1 THEN Done(t)
     ELSE /\ Goto(t, IF kind = "object" THEN "push" ELSE "callback")
          /\ block' = [block EXCEPT ![t] = i]

\* No shared_ptr is left: T is destroyed, the pointer to an array needs nothing.
Dispose(t) ==
  /\ At(t, "dispose")
  /\ live' = IF kind = "object" THEN [live EXCEPT ![block[t]] = {}] ELSE live
  /\ WeakGone(t, block[t])
  /\ UNCHANGED <<vars, kind, pool, arrays, strong, threw, misused, crashed>>

DropWeak(t, i) ==
  /\ Uses(t, i) /\ WeakPointers(i) > 0
  /\ WeakGone(t, i)
  /\ UNCHANGED <<vars, kind, pool, arrays, strong, live, threw, misused,
                 crashed>>

-----------------------------------------------------------------------------
(* deallocate, Accept *)

\* The destructor callback runs before the mutex is taken.  It destroys every
\* object of the array, those never constructed too, which is undefined.
DestructorCallback(t) ==
  /\ At(t, "callback")
  /\ live' = [live EXCEPT ![block[t]] = {}]
  /\ misused' = (misused \/ Unbuilt(block[t]) /= {})
  /\ crashed' \in IF Unbuilt(block[t]) /= {} THEN BOOLEAN ELSE {FALSE}
  /\ Goto(t, "push")
  /\ UNCHANGED <<vars, kind, pool, arrays, refVars, block, threw>>

PushBack(t) ==
  /\ At(t, "push")
  /\ Accept(Offset(block[t]))
  /\ Done(t)
  /\ UNCHANGED <<kind, pool, arrays, refVars, live, threw, misused, crashed>>

\* deallocate(nullptr), which anybody may call.
DeallocateNull(t) ==
  /\ At(t, "idle") /\ pool = "ready"
  /\ Accept(Null)
  /\ UNCHANGED <<kind, pool, arrays, refVars, live, pc, block, threw, misused,
                 crashed>>

-----------------------------------------------------------------------------

Step(t) == Construct(t) \/ Dispose(t) \/ DestructorCallback(t) \/ PushBack(t)

Use(t, i) ==
  Copy(t, i) \/ MakeWeak(t, i) \/ LockWeak(t, i) \/ Release(t, i) \/ DropWeak(t, i)

HeapNext ==
  \/ Build \/ BuildFails
  \/ \E t \in Threads :
       \/ Step(t) \/ AllocateShared(t) \/ ConstructorThrows(t) \/ DeallocateNull(t)
       \/ \E i \in Index : Use(t, i)

HeapSpec == HeapInit /\ [][HeapNext]_heapVars

-----------------------------------------------------------------------------
(* Properties *)

\* Every object lives as long as the handles on it and no longer: all objects of
\* an element in use are constructed, a free element has none that is still
\* constructed (nor has one whose constructor threw half way), an array is
\* handed out again only after its objects are destroyed although Accept
\* destroys them without the mutex, and an object never constructed is destroyed
\* only where allocate_raw's constructor loop threw.
ObjectLifetimes ==
  /\ \A i \in Index :
       strong[i] > 0 /\ (\A t \in Threads : block[t] /= i) => live[i] = Objects
  /\ initialized => \A p \in Free : live[GetElementNumber(p)] = {}
  /\ misused => threw
  /\ crashed => misused \/ ~arrays
=============================================================================
