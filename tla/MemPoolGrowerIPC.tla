--------------------------- MODULE MemPoolGrowerIPC ---------------------------
(***************************************************************************)
(* MemPoolGrowerIPC of MempoolIPC/src/MemPoolIPC.h: a pool that replaces   *)
(* itself by a larger one when make_pooled comes back empty.  Old pools    *)
(* live on in their outstanding elements.  Each pool is the ElementPool    *)
(* that MemPoolIPC.tla implements; the names here are not MemPoolIPC's, so *)
(* that a module may extend both.                                          *)
(*                                                                         *)
(* make_pooled holds the grower's mutex throughout; releases do not take   *)
(* it, so elements come back at any moment of a growth.  An element needs  *)
(* an object and a control block; its release gives back the object first. *)
(***************************************************************************)
EXTENDS Integers, Sequences, FiniteSets

CONSTANTS
  Callers,
  initialSize,     \* nElements of the first pool
  Counts,          \* the values of countPerElement to consider
  MaxPools,        \* bound: pools built
  Nobody

ASSUME GrowerAssumption ==
  /\ initialSize \in Nat
  /\ Counts \subseteq Nat
  /\ MaxPools \in Nat \ {0}
  /\ Nobody \notin Callers

VARIABLES
  count,   \* countPerElement, set by the constructor
  mutex,
  sizes,   \* nElements of each pool built; the last one is the current pool
  out,     \* objects loaned, <<pool, slot>>
  lost,    \* those whose constructor threw: they never come back
  zombies, \* control blocks of the current pool that outlive their objects
  at,      \* "idle", "grow", "retry", "crashed"
  result,  \* result[p]: what p's last make_pooled came to
  peak     \* history: most objects out at one time

growerVars == <<count, mutex, sizes, out, lost, zombies, at, result, peak>>

growthRate == 2
Current == Len(sizes)
nReconstructions == Len(sizes) - 1

GrowerInit ==
  /\ count \in Counts
  /\ mutex = Nobody
  /\ sizes = <<initialSize>>
  /\ out = {} /\ lost = {} /\ zombies = 0
  /\ at = [p \in Callers |-> "idle"]
  /\ result = [p \in Callers |-> "none"]
  /\ peak = 0

\* The objects the current pool can loan.
Available ==
  {e \in {Current} \X (1 .. sizes[Current]) : e \notin out /\ count > 0}

\* It has a control block left for another element.
BlockFree == Cardinality({e \in out \ lost : e[1] = Current}) + zombies < sizes[Current]

Return(p, r) ==
  /\ mutex' = Nobody
  /\ at' = [at EXCEPT ![p] = "idle"]
  /\ result' = [result EXCEPT ![p] = r]

\* The pool's make_pooled with an object left: T's constructor may throw, and with no
\* control block left the process faults, with the mutex.
Take(p) ==
  \E e \in Available :
    /\ out' = out \cup {e}
    /\ peak' = IF Cardinality(out') > peak THEN Cardinality(out') ELSE peak
    /\ \/ BlockFree /\ Return(p, "element") /\ UNCHANGED lost
       \/ Return(p, "thrown") /\ lost' = lost \cup {e}
       \/ /\ ~BlockFree
          /\ mutex' = p /\ at' = [at EXCEPT ![p] = "crashed"]
          /\ UNCHANGED <<lost, result>>

MakePooled(p) ==
  /\ at[p] = "idle" /\ mutex = Nobody
  /\ \/ Take(p)
     \/ /\ Available = {}
        /\ mutex' = p
        /\ at' = [at EXCEPT ![p] = "grow"]
        /\ UNCHANGED <<out, lost, result, peak>>
  /\ UNCHANGED <<sizes, zombies>>

\* Mutants: an empty pool stays empty; the pool grows by the square.
NewSizeZero == growthRate * sizes[Current]
NewSizeSquare == (sizes[Current] + 1) * (sizes[Current] + 1)

NewSize == IF sizes[Current] = 0 THEN 1 ELSE growthRate * sizes[Current]

\* ReConstruct builds the new pool; the old one is left to its elements.
Grow(p) ==
  /\ at[p] = "grow" /\ Len(sizes) < MaxPools
  /\ sizes' = Append(sizes, NewSize)
  /\ zombies' = 0
  /\ at' = [at EXCEPT ![p] = "retry"]
  /\ UNCHANGED <<mutex, out, lost, result, peak>>

\* The segment is full: bad_alloc leaves make_pooled and the pool stays.
GrowThrows(p) ==
  /\ at[p] = "grow"
  /\ Return(p, "bad_alloc")
  /\ UNCHANGED <<sizes, out, lost, zombies, peak>>

Retry(p) ==
  /\ at[p] = "retry"
  /\ \/ Take(p)
     \/ Available = {} /\ Return(p, "empty") /\ UNCHANGED <<out, lost, peak>>
  /\ UNCHANGED <<sizes, zombies>>

\* The last shared_ptr goes: the object is given back, and the control block as soon
\* as the release comes to it and no weak_ptr is left.
ReleaseElement(e) ==
  /\ out' = out \ {e}
  /\ zombies' = IF e[1] = Current THEN zombies + 1 ELSE zombies
  /\ UNCHANGED <<mutex, sizes, lost, at, result, peak>>

ReleaseControlBlock ==
  /\ zombies > 0
  /\ zombies' = zombies - 1
  /\ UNCHANGED <<mutex, sizes, out, lost, at, result, peak>>

\* A process that has faulted has the mutex for good.
Faulted ==
  /\ \E p \in Callers : at[p] = "crashed"
  /\ UNCHANGED <<mutex, sizes, out, lost, zombies, at, result, peak>>

GrowerNext ==
  /\ \/ \E p \in Callers : MakePooled(p) \/ Grow(p) \/ GrowThrows(p) \/ Retry(p)
     \/ \E e \in out \ lost : ReleaseElement(e)
     \/ ReleaseControlBlock \/ Faulted
  /\ UNCHANGED count

GrowerSpec == GrowerInit /\ [][GrowerNext]_growerVars

-----------------------------------------------------------------------------
(* Properties *)

\* Type invariant.
GrowerTypeOK ==
  /\ mutex \in Callers \cup {Nobody}
  /\ sizes \in Seq(Nat) /\ Len(sizes) \in 1 .. MaxPools
  /\ out \subseteq {e \in (1 .. Len(sizes)) \X Nat : e[2] \in 1 .. sizes[e[1]]}
  /\ lost \subseteq out /\ zombies \in Nat
  /\ at \in [Callers -> {"idle", "grow", "retry", "crashed"}]
  /\ result \in [Callers -> {"none", "element", "thrown", "empty", "bad_alloc"}]
  /\ \A p \in Callers : at[p] /= "idle" <=> mutex = p

\* With objects in its elements the grower never returns an empty pointer: one
\* growth is always enough, however many others wait for the mutex.
NeverEmpty ==
  /\ GrowerTypeOK
  /\ count > 0 => \A p \in Callers : result[p] /= "empty"

\* The pool is never more than growthRate times as large as the demand has been:
\* it grows only when all of the previous one was out at once, or lost.
GrowthFollowsDemand ==
  count > 0 /\ Current > 1 =>
    sizes[Current] <= growthRate * (IF peak = 0 THEN 1 ELSE peak)
=============================================================================
