--------------------------- MODULE HeapPoolMemory ---------------------------
(***************************************************************************)
(* A heap pool in its memory: AllocatorState's buffers for the blocks and  *)
(* for the pointers to them and the array pool's for the arrays            *)
(* (RawMemory), obtained while the pool is constructed, and the pool that  *)
(* threads use (HeapPool).  What the buffers obtained decides what comes   *)
(* of the constructor.  The copies of the allocator in the control blocks, *)
(* and the lambda that destroys arrays, keep the memory until the pool and *)
(* its last handle are gone.                                               *)
(***************************************************************************)
EXTENDS HeapPool, RawMemory

CONSTANT pointerSize  \* sizeof(T*)

ASSUME MemoryAssumption == Buffers = {"blocks", "pointers", "arrays"}

poolVars == <<heapVars, rawVars>>

\* The elements of arrays are allocated for all blocks at once.
ElementsOf(b) == IF b = "arrays" THEN nElementsTotal * count ELSE nElementsTotal

Asked(b) == request[b] \in Requests

\* Objects need no memory for arrays.
Needed == IF kind = "object" THEN {"blocks", "pointers"} ELSE Buffers

PoolInit == HeapInit /\ RawInit

-----------------------------------------------------------------------------

\* The constructors allocate the blocks, the pointers, and then the arrays, whether
\* or not the others got theirs.
Ask(b, r) ==
  /\ pool = "unbuilt" /\ b \in Needed
  /\ b = "pointers" => Asked("blocks")
  /\ b = "arrays" => Asked("pointers")
  /\ r.elements = ElementsOf(b) /\ (b = "pointers" => r.size = pointerSize)
  /\ AllocateRaw(b, r)
  /\ UNCHANGED heapVars

StateInitialized == rawAligned["blocks"] /= 0 /\ rawAligned["pointers"] /= 0

\* A pool of objects never looks for arrays.
BuildInMemory ==
  /\ \A b \in Needed : Asked(b)
  /\ StateInitialized
  /\ Build
  /\ arrays' = (kind /= "object" /\ rawAligned["arrays"] /= 0)
  /\ UNCHANGED rawVars

\* The state that could not be initialized is dropped; or the throw-away object was
\* not made, before any of this.
BuildWithout ==
  /\ BuildFails
  /\ \/ pool' = "null" /\ ~StateInitialized /\ \A b \in Needed : Asked(b)
     \/ pool' = "thrown" /\ \A b \in Buffers : request[b] = NotAsked
  /\ UNCHANGED rawVars

\* The pool is used while it is there.
Work ==
  /\ pool /= "unbuilt" /\ \A b \in Buffers : request[b] /= Destroyed
  /\ HeapNext
  /\ UNCHANGED rawVars

NoHandles == (\A i \in Index : weak[i] = 0) /\ \A t \in Threads : pc[t] = "idle"

\* The pool and its last handle are gone.
FreeMemory(b) ==
  /\ pool /= "unbuilt" /\ NoHandles /\ ~crashed
  /\ FreeRaw(b)
  /\ UNCHANGED heapVars

PoolNext ==
  \/ \E b \in Buffers : FreeMemory(b) \/ \E r \in Requests : Ask(b, r)
  \/ BuildInMemory \/ BuildWithout \/ Work

PoolSpec == PoolInit /\ [][PoolNext]_poolVars
=============================================================================
