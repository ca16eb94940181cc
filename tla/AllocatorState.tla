--------------------------- MODULE AllocatorState ---------------------------
(***************************************************************************)
(* AllocatorState of MempoolIPC/src/MemPoolIPC.h: a raw buffer cut into    *)
(* nElementsTotal blocks of sizeSharedT * countPerElement bytes, and the   *)
(* stack of block offsets that Loan pops and Accept pushes.  Every method  *)
(* holds the state's interprocess mutex from its first to its last access, *)
(* so each is one step here.                                               *)
(*                                                                         *)
(* The buffer trusts its callers: Accept checks nothing but null.  The     *)
(* history variable loaned records what is out on loan, and Next lets a    *)
(* caller return only that, once.  MemPoolIPC.tla shows that the two       *)
(* buffers of a pool are used in exactly this way (BuffersImplement).      *)
(***************************************************************************)
EXTENDS Integers, FiniteSets

CONSTANTS
  nElementsTotal,   \* number of blocks
  sizeSharedT,      \* bytes of one object
  countPerElement   \* objects per block (array mode when > 1)

ASSUME SizesAssumption ==
  /\ nElementsTotal \in Nat
  /\ sizeSharedT \in Nat \ {0}
  /\ countPerElement \in Nat

VARIABLES
  pointers,     \* the pointers buffer: offsets into the objects buffer
  nAvailable,   \* height of the stack kept in pointers
  initialized,  \* Allocate has run
  loaned        \* history: offsets handed out by Loan and not accepted back

vars == <<pointers, nAvailable, initialized, loaned>>

\* Stands for a null pointer, and for the unwritten cells of the pointers buffer.
Null == -1

Index == 0 .. nElementsTotal - 1

Offset(i) == sizeSharedT * countPerElement * i

Offsets == {Offset(i) : i \in Index}

Init ==
  /\ pointers = [i \in Index |-> Null]
  /\ nAvailable = nElementsTotal
  /\ initialized = FALSE
  /\ loaned = {}

FillPointers == [i \in Index |-> Offset(i)]

\* The first caller fills the stack, later callers return at once.  When a
\* buffer does not fit, RawMemoryIPC throws out of the pool's constructor and
\* no pool comes into being: that path has no step.
Allocate ==
  /\ pointers' = IF initialized THEN pointers ELSE FillPointers
  /\ initialized' = TRUE
  /\ UNCHANGED <<nAvailable, loaned>>

CanLoan == nAvailable > 0 /\ countPerElement > 0

Top == pointers[nAvailable - 1]

Pop ==
  /\ CanLoan
  /\ nAvailable' = nAvailable - 1
  /\ UNCHANGED pointers

\* Mutant: pointers[++nAvailable].
PushPreIncrement(p) ==
  /\ pointers' = [pointers EXCEPT ![nAvailable + 1] = p]
  /\ nAvailable' = nAvailable + 1

Push(p) ==
  /\ pointers' = [pointers EXCEPT ![nAvailable] = p]
  /\ nAvailable' = nAvailable + 1

\* Loan returns Top, or null (and changes nothing) when the stack is empty.
Loan ==
  /\ initialized
  /\ \/ Pop /\ loaned' = loaned \cup {Top}
     \/ ~CanLoan /\ UNCHANGED <<pointers, nAvailable, loaned>>
  /\ UNCHANGED initialized

Accept(p) ==
  /\ \/ p = Null /\ UNCHANGED <<pointers, nAvailable>>
     \/ p /= Null /\ Push(p)
  /\ loaned' = loaned \ {p}
  /\ UNCHANGED initialized

Next ==
  \/ Allocate
  \/ Loan
  \/ \E p \in loaned \cup {Null} : Accept(p)

Spec == Init /\ [][Next]_vars

-----------------------------------------------------------------------------
(* Properties *)

OnStack == 0 .. nAvailable - 1

Free == {pointers[i] : i \in OnStack}

\* Type invariant; nAvailable <= nElementsTotal says that Accept never writes
\* past the end of the pointers buffer.
TypeOK ==
  /\ pointers \in [Index -> Offsets \cup {Null}]
  /\ nAvailable \in 0 .. nElementsTotal
  /\ initialized \in BOOLEAN
  /\ loaned \subseteq Offsets

\* No offset is on the stack twice, and none is on it while on loan: whatever
\* order Loan and Accept interleave in, two callers never get one block.
NoDoubleLoan ==
  initialized /\ countPerElement > 0 =>
    /\ \A i, j \in OnStack : i /= j => pointers[i] /= pointers[j]
    /\ Free \cap loaned = {}

\* No block is lost: each is on the stack or on loan (Loan, Accept).
NothingLost == initialized => Free \cup loaned = Offsets

\* Statistics reports exactly the blocks on loan as outstanding.
StatisticsExact == nElementsTotal - nAvailable = Cardinality(loaned)

\* Blocks on loan do not overlap and lie inside the objects buffer, which
\* RawMemoryIPC sizes as nElementsTotal * countPerElement objects: Allocate
\* spaces the offsets by a whole block, not by a single object.
BlocksDisjoint ==
  LET blockBytes == countPerElement * sizeSharedT IN
  /\ \A a \in loaned : a >= 0 /\ a + blockBytes <= nElementsTotal * blockBytes
  /\ \A a, b \in loaned : a < b => a + blockBytes <= b

\* Every block is either on the stack, once, or on loan, and Statistics counts the
\* latter; blocks on loan do not overlap; the stack stays inside its buffer: Loan and
\* Accept neither lose nor duplicate a block, and Allocate spaces them rightly.
LoansExact == TypeOK /\ NoDoubleLoan /\ NothingLost /\ StatisticsExact /\ BlocksDisjoint
=============================================================================
