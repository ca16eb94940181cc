----------------------------- MODULE MemPoolIPC -----------------------------
(***************************************************************************)
(* MemPoolIPC of MempoolIPC/src/MemPoolIPC.h with the two allocators it    *)
(* owns and the boost::interprocess shared_ptr that ties them together.    *)
(*                                                                         *)
(* An element takes one block of the objects buffer (ObjectAllocator) and  *)
(* one block of the control-block buffer (ControlBlockAllocator); both     *)
(* buffers are AllocatorStates of nElements blocks.  make_pooled takes the *)
(* object first and the control block second, each under the mutex of its  *)
(* own buffer; releasing the last handle gives the object back first       *)
(* (dispose) and the control block afterwards (destroy).  Processes        *)
(* interleave between those steps.                                         *)
(***************************************************************************)
EXTENDS Integers, FiniteSets

CONSTANTS
  Procs,           \* processes (or threads) sharing the pool
  Faulty,          \* those that may be killed
  CtorThrows,      \* whether T's constructor may throw
  nElements,       \* elements in the pool
  countPerElement, \* objects per element
  sizeT,           \* bytes of a T
  sizeControl      \* bytes of a control block

ASSUME PoolAssumption ==
  /\ IsFiniteSet(Procs)
  /\ Faulty \subseteq Procs
  /\ CtorThrows \in BOOLEAN
  /\ nElements \in Nat
  /\ countPerElement \in Nat
  /\ sizeT \in Nat \ {0}
  /\ sizeControl \in Nat \ {0}

VARIABLES
  objPointers, objAvailable, objInitialized, objLoaned,  \* the objects' AllocatorState
  cbPointers, cbAvailable, cbInitialized, cbLoaned,      \* the control blocks' AllocatorState
  cb,      \* cb[c]: the control block last built in block c
  strong,  \* strong[p]: control blocks p holds a shared_ptr on
  weak,    \* weak[p]: control blocks p holds a weak_ptr on
  pc,      \* what process p is in the middle of
  object,  \* object[p]: the object p has loaned and not yet wrapped
  block,   \* block[p]: the control block p is releasing
  leaked,  \* objects lost when T's constructor threw
  killed   \* processes that were killed

objVars == <<objPointers, objAvailable, objInitialized, objLoaned>>
cbVars == <<cbPointers, cbAvailable, cbInitialized, cbLoaned>>
handleVars == <<cb, strong, weak>>
procVars == <<pc, object, block, leaked, killed>>
vars == <<objVars, cbVars, handleVars, procVars>>

Obj == INSTANCE AllocatorState WITH
  nElementsTotal <- nElements, sizeSharedT <- sizeT,
  pointers <- objPointers, nAvailable <- objAvailable,
  initialized <- objInitialized, loaned <- objLoaned

Cb == INSTANCE AllocatorState WITH
  nElementsTotal <- nElements, sizeSharedT <- sizeControl, countPerElement <- 1,
  pointers <- cbPointers, nAvailable <- cbAvailable,
  initialized <- cbInitialized, loaned <- cbLoaned

None == Obj!Null

Unbuilt == [object |-> None, use |-> 0, weak |-> 0]

Init ==
  /\ Obj!Init
  /\ Cb!Init
  /\ cb = [c \in Cb!Offsets |-> Unbuilt]
  /\ strong = [p \in Procs |-> {}]
  /\ weak = [p \in Procs |-> {}]
  /\ pc = [p \in Procs |-> "idle"]
  /\ object = [p \in Procs |-> None]
  /\ block = [p \in Procs |-> None]
  /\ leaked = {}
  /\ killed = {}

Alive(p) == p \notin killed
At(p, label) == pc[p] = label /\ Alive(p)

-----------------------------------------------------------------------------
(* The constructor sizes and fills the control blocks, then the objects.   *)

CreateControlBlocks ==
  /\ ~cbInitialized
  /\ Cb!Allocate
  /\ UNCHANGED <<objVars, handleVars, procVars>>

CreateObjects ==
  /\ cbInitialized /\ ~objInitialized
  /\ Obj!Allocate
  /\ UNCHANGED <<cbVars, handleVars, procVars>>

-----------------------------------------------------------------------------
(* make_pooled.  With no object left it returns an empty pointer: no step. *)

LoanObject(p) ==
  /\ At(p, "idle")
  /\ Obj!CanLoan /\ Obj!Loan
  /\ object' = [object EXCEPT ![p] = Obj!Top]
  /\ pc' = [pc EXCEPT ![p] = "construct"]
  /\ UNCHANGED <<cbVars, handleVars, block, leaked, killed>>

\* The exception leaves make_pooled with the object still on loan.
ConstructorThrows(p) ==
  /\ CtorThrows
  /\ At(p, "construct")
  /\ leaked' = leaked \cup {object[p]}
  /\ object' = [object EXCEPT ![p] = None]
  /\ pc' = [pc EXCEPT ![p] = "idle"]
  /\ UNCHANGED <<objVars, cbVars, handleVars, block, killed>>

\* The T's are constructed and shared_count builds its control block in what
\* ControlBlockAllocator::allocate returns.
WrapObject(p) ==
  /\ At(p, "construct")
  /\ Cb!CanLoan /\ Cb!Loan
  /\ cb' = [cb EXCEPT ![Cb!Top] = [object |-> object[p], use |-> 1, weak |-> 1]]
  /\ strong' = [strong EXCEPT ![p] = @ \cup {Cb!Top}]
  /\ object' = [object EXCEPT ![p] = None]
  /\ pc' = [pc EXCEPT ![p] = "idle"]
  /\ UNCHANGED <<objVars, weak, block, leaked, killed>>

\* allocate passes on the null of an exhausted buffer, and the control block is
\* built at address null: the process faults.
WrapAtNull(p) ==
  /\ At(p, "construct")
  /\ ~Cb!CanLoan
  /\ pc' = [pc EXCEPT ![p] = "crashed"]
  /\ UNCHANGED <<objVars, cbVars, handleVars, object, block, leaked, killed>>

-----------------------------------------------------------------------------
(* Handles.  A process keeps at most one shared_ptr and one weak_ptr per    *)
(* element; use and weak are the counters of boost's sp_counted_base.      *)

\* q receives a copy of a shared_ptr that p holds.
Copy(p, q, c) ==
  /\ At(p, "idle") /\ At(q, "idle")
  /\ c \in strong[p] \ strong[q]
  /\ cb' = [cb EXCEPT ![c].use = @ + 1]
  /\ strong' = [strong EXCEPT ![q] = @ \cup {c}]
  /\ UNCHANGED <<objVars, cbVars, weak, procVars>>

MakeWeak(p, c) ==
  /\ At(p, "idle")
  /\ c \in strong[p] \ weak[p]
  /\ cb' = [cb EXCEPT ![c].weak = @ + 1]
  /\ weak' = [weak EXCEPT ![p] = @ \cup {c}]
  /\ UNCHANGED <<objVars, cbVars, strong, procVars>>

\* add_ref_lock: fails, with no step, once the use count has reached zero.
LockWeak(p, c) ==
  /\ At(p, "idle")
  /\ c \in weak[p] \ strong[p]
  /\ cb[c].use > 0
  /\ cb' = [cb EXCEPT ![c].use = @ + 1]
  /\ strong' = [strong EXCEPT ![p] = @ \cup {c}]
  /\ UNCHANGED <<objVars, cbVars, weak, procVars>>

\* Mutant: every release disposes of the object.
ReleaseDisposes(p, c) ==
  /\ At(p, "idle")
  /\ c \in strong[p]
  /\ cb' = [cb EXCEPT ![c].use = @ - 1]
  /\ strong' = [strong EXCEPT ![p] = @ \ {c}]
  /\ pc' = [pc EXCEPT ![p] = "dispose"]
  /\ block' = [block EXCEPT ![p] = c]
  /\ UNCHANGED <<objVars, cbVars, weak, object, leaked, killed>>

\* The last shared_ptr goes on to dispose of the object.
Release(p, c) ==
  /\ At(p, "idle")
  /\ c \in strong[p]
  /\ cb' = [cb EXCEPT ![c].use = @ - 1]
  /\ strong' = [strong EXCEPT ![p] = @ \ {c}]
  /\ \/ cb[c].use > 1 /\ UNCHANGED <<pc, block>>
     \/ /\ cb[c].use = 1
        /\ pc' = [pc EXCEPT ![p] = "dispose"]
        /\ block' = [block EXCEPT ![p] = c]
  /\ UNCHANGED <<objVars, cbVars, weak, object, leaked, killed>>

\* Mutant: the deleter runs in sizing mode.
DisposeSizing(p) ==
  /\ At(p, "dispose")
  /\ pc' = [pc EXCEPT ![p] = "weakRelease"]
  /\ UNCHANGED <<objVars, cbVars, handleVars, object, block, leaked, killed>>

\* ObjectAllocator::operator(): destroy the T's, then return their block.
Dispose(p) ==
  /\ At(p, "dispose")
  /\ Obj!Accept(cb[block[p]].object)
  /\ pc' = [pc EXCEPT ![p] = "weakRelease"]
  /\ UNCHANGED <<cbVars, handleVars, object, block, leaked, killed>>

\* Mutant: any drop of the weak count destroys the control block.
DropWeakDestroys(p, c) ==
  /\ cb' = [cb EXCEPT ![c].weak = @ - 1]
  /\ pc' = [pc EXCEPT ![p] = "destroy"]
  /\ block' = [block EXCEPT ![p] = c]

\* The weak count drops; whoever takes it to zero destroys the control block.
DropWeak(p, c) ==
  /\ cb' = [cb EXCEPT ![c].weak = @ - 1]
  /\ \/ /\ cb[c].weak = 1
        /\ pc' = [pc EXCEPT ![p] = "destroy"]
        /\ block' = [block EXCEPT ![p] = c]
     \/ /\ cb[c].weak > 1
        /\ pc' = [pc EXCEPT ![p] = "idle"]
        /\ block' = [block EXCEPT ![p] = None]

\* The shared_ptrs together own one weak count, released after dispose.
WeakRelease(p) ==
  /\ At(p, "weakRelease")
  /\ DropWeak(p, block[p])
  /\ UNCHANGED <<objVars, cbVars, strong, weak, object, leaked, killed>>

ReleaseWeak(p, c) ==
  /\ At(p, "idle")
  /\ c \in weak[p]
  /\ weak' = [weak EXCEPT ![p] = @ \ {c}]
  /\ DropWeak(p, c)
  /\ UNCHANGED <<objVars, cbVars, strong, object, leaked, killed>>

\* Mutant: the control block is not deallocated.
DestroyLeaks(p) ==
  /\ At(p, "destroy")
  /\ pc' = [pc EXCEPT ![p] = "idle"]
  /\ block' = [block EXCEPT ![p] = None]
  /\ UNCHANGED <<objVars, cbVars, handleVars, object, leaked, killed>>

\* sp_counted_impl::destroy returns the block through ControlBlockAllocator.
Destroy(p) ==
  /\ At(p, "destroy")
  /\ Cb!Accept(block[p])
  /\ pc' = [pc EXCEPT ![p] = "idle"]
  /\ block' = [block EXCEPT ![p] = None]
  /\ UNCHANGED <<objVars, handleVars, object, leaked, killed>>

\* The process dies between two steps; the counts it contributed to stay.
Kill(p) ==
  /\ p \in Faulty \ killed
  /\ killed' = killed \cup {p}
  /\ UNCHANGED <<objVars, cbVars, handleVars, pc, object, block, leaked>>

-----------------------------------------------------------------------------

Finish(p) ==
  WrapObject(p) \/ WrapAtNull(p) \/ Dispose(p) \/ WeakRelease(p) \/ Destroy(p)

Next ==
  \/ CreateControlBlocks
  \/ CreateObjects
  \/ \E p \in Procs :
       \/ LoanObject(p)
       \/ ConstructorThrows(p)
       \/ Finish(p)
       \/ Kill(p)
       \/ \E c \in Cb!Offsets :
            \/ \E q \in Procs : Copy(p, q, c)
            \/ MakeWeak(p, c)
            \/ LockWeak(p, c)
            \/ Release(p, c)
            \/ ReleaseWeak(p, c)

Spec == Init /\ [][Next]_vars

\* A process that started an operation of the library runs it to its end.
FairSpec == Spec /\ \A p \in Procs : WF_vars(Finish(p))

-----------------------------------------------------------------------------
(* Properties *)

Labels == {"idle", "construct", "dispose", "weakRelease", "destroy", "crashed"}

\* Type invariant, of the two buffers too; part of Ownership.
TypeOK ==
  /\ Obj!TypeOK
  /\ Cb!TypeOK
  /\ cb \in [Cb!Offsets -> [object : Obj!Offsets \cup {None}, use : Nat, weak : Nat]]
  /\ strong \in [Procs -> SUBSET Cb!Offsets]
  /\ weak \in [Procs -> SUBSET Cb!Offsets]
  /\ pc \in [Procs -> Labels]
  /\ object \in [Procs -> Obj!Offsets \cup {None}]
  /\ block \in [Procs -> Cb!Offsets \cup {None}]
  /\ leaked \subseteq Obj!Offsets
  /\ killed \subseteq Faulty

\* The control block is live: some handle (or a holder's release) needs its object.
Owning(c) ==
  /\ c \in cbLoaned
  /\ cb[c].use > 0 \/ \E p \in Procs : pc[p] = "dispose" /\ block[p] = c

\* A handle never outlives what it points to: the control block of a shared_ptr
\* or weak_ptr is on loan, and so is the object of a shared_ptr.
HandlesValid ==
  \A p \in Procs :
    /\ strong[p] \cup weak[p] \subseteq cbLoaned
    /\ \A c \in strong[p] : cb[c].use > 0 /\ cb[c].object \in objLoaned

\* One object has one owner: a live control block, a process still constructing
\* it, or nobody any more (its constructor threw).
SingleOwner ==
  /\ \A c, d \in cbLoaned :
       Owning(c) /\ Owning(d) /\ c /= d => cb[c].object /= cb[d].object
  /\ \A p \in Procs : object[p] /= None =>
       /\ object[p] \notin leaked
       /\ \A q \in Procs \ {p} : object[q] /= object[p]
       /\ \A c \in cbLoaned : Owning(c) => cb[c].object /= object[p]

\* Every object on loan is accounted for, so a normal release loses none.
ObjectsAccounted ==
  objLoaned = leaked \cup {cb[c].object : c \in {d \in cbLoaned : Owning(d)}}
                     \cup ({object[p] : p \in Procs} \ {None})

\* make_pooled meets a null control block only while some control block has no
\* object any more: its last handle is between dispose and destroy, or weak
\* pointers keep it.
NullOnlyAfterDispose ==
  (\E p \in Procs : pc[p] = "construct") /\ cbInitialized /\ ~Cb!CanLoan =>
    \E c \in cbLoaned : ~Owning(c)

\* Whatever make_pooled, copies, weak pointers, releases and crashes interleave:
\* handles are valid, and each object on loan has exactly one owner.
Ownership ==
  TypeOK /\ HandlesValid /\ SingleOwner /\ ObjectsAccounted /\ NullOnlyAfterDispose

\* Both buffers are used by their contract: only what is on loan comes back, once.
BuffersImplement == Obj!Spec /\ Cb!Spec

HeldObjects(p) == {cb[c].object : c \in strong[p]} \cup ({object[p]} \ {None})

Elements == INSTANCE ElementPool WITH
  Elements <- Obj!Offsets,
  held <- [p \in Procs |-> HeldObjects(p)],
  lost <- leaked

\* The pool keeps the promise of ElementPool.
PoolImplements == Elements!Spec

\* The object of an element with no shared_ptr left goes back to its buffer, and
\* so does the control block once the weak pointers are gone, unless a process
\* was killed on the way.
Reclaimed ==
  \A c \in Cb!Offsets :
    /\ (c \in cbLoaned /\ cb[c].use = 0)
         ~> (c \notin cbLoaned \/ ~Owning(c) \/ killed /= {})
    /\ (c \in cbLoaned /\ cb[c].use = 0 /\ \A p \in Procs : c \notin weak[p])
         ~> (c \notin cbLoaned \/ killed /= {})
=============================================================================
