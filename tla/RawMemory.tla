------------------------------ MODULE RawMemory ------------------------------
(***************************************************************************)
(* RawMemory of MempoolHeap/src/MemPoolHeap.h: the memory behind a buffer  *)
(* of a pool.  It asks its allocator for some bytes more than its elements *)
(* need, aligns within what it is given, and gives it back when destroyed. *)
(* HeapPoolMemory.tla composes the buffers of a pool with the pool.        *)
(*                                                                         *)
(* Addresses and sizes are numbers; a product of sizes wraps as size_t.    *)
(***************************************************************************)
EXTENDS Integers

CONSTANTS
  Buffers,    \* RawMemory objects
  Requests,   \* [elements, size, align]: nElementsTotal, sizeT, alignT
  Addresses,  \* bound: the allocator has the addresses 1 .. Addresses
  Word,       \* SIZE_MAX + 1
  maxAlign    \* alignof(std::max_align_t)

\* p is a multiple of a.
Aligned(p, a) == (p \div a) * a = p

\* The size of a type is a multiple of its alignment.
ASSUME RawAssumption ==
  /\ Requests \subseteq [elements : Nat, size : Nat \ {0}, align : Nat \ {0}]
  /\ \A r \in Requests : Aligned(r.size, r.align)
  /\ {Addresses, Word, maxAlign} \subseteq Nat \ {0}

VARIABLES
  request,    \* request[b]: what b was asked for, NotAsked, or Destroyed
  raw,        \* raw[b]: the address of its memory, 0 when null
  rawSize,    \* rawSize[b]: the bytes it remembers to have
  rawAligned, \* rawAligned[b]: where its elements begin, 0 when null
  blocks      \* what the allocator has given out: [at, bytes]

rawVars == <<request, raw, rawSize, rawAligned, blocks>>

NotAsked == [elements |-> 0, size |-> 0, align |-> 0]
Destroyed == [elements |-> 0, size |-> 0, align |-> 1]

-----------------------------------------------------------------------------
(* Sizes and addresses *)

Wrap(n) == IF n < Word THEN n ELSE n - Word * (n \div Word)

Bytes(r) == Wrap(r.size * r.elements)

BytesAndSlack(r) == Wrap(r.size * r.elements + maxAlign)

AlignUp(p, a) == ((p + a - 1) \div a) * a

\* std::align: null when so many bytes do not fit in the space from p.
Align(a, bytes, p, space) ==
  IF bytes <= space /\ AlignUp(p, a) - p <= space - bytes THEN AlignUp(p, a) ELSE 0

\* An allocation of no bytes has an address of its own all the same.
End(k) == k.at + IF k.bytes = 0 THEN 1 ELSE k.bytes

Apart(k, l) == End(k) <= l.at \/ End(l) <= k.at

\* Blocks of so many bytes that the allocator can give out, at whatever address.
Room(bytes) ==
  {k \in [at : 1 .. Addresses, bytes : {bytes}] :
     End(k) <= Addresses + 1 /\ \A l \in blocks : Apart(k, l)}

-----------------------------------------------------------------------------

RawInit ==
  /\ request = [b \in Buffers |-> NotAsked]
  /\ raw = [b \in Buffers |-> 0]
  /\ rawSize = [b \in Buffers |-> 0]
  /\ rawAligned = [b \in Buffers |-> 0]
  /\ blocks = {}

\* Called once.  The block is kept even when the elements cannot be aligned in it;
\* null is returned then, and when there is no memory.
AllocateRaw(b, r) ==
  /\ request[b] = NotAsked
  /\ request' = [request EXCEPT ![b] = r]
  /\ \/ \E k \in Room(BytesAndSlack(r)) :
          /\ raw' = [raw EXCEPT ![b] = k.at] /\ rawSize' = [rawSize EXCEPT ![b] = k.bytes]
          /\ rawAligned' = [rawAligned EXCEPT ![b] = Align(r.align, Bytes(r), k.at, k.bytes)]
          /\ blocks' = blocks \cup {k}
     \/ UNCHANGED <<raw, rawSize, rawAligned, blocks>>

\* The destructor, whether or not Allocate was called or succeeded.
FreeRaw(b) ==
  /\ request[b] /= Destroyed
  /\ request' = [request EXCEPT ![b] = Destroyed]
  /\ raw' = [raw EXCEPT ![b] = 0] /\ rawSize' = [rawSize EXCEPT ![b] = 0]
  /\ rawAligned' = [rawAligned EXCEPT ![b] = 0]
  /\ blocks' = blocks \ {[at |-> raw[b], bytes |-> rawSize[b]]}

RawNext == \E b \in Buffers : FreeRaw(b) \/ \E r \in Requests : AllocateRaw(b, r)

RawSpec == RawInit /\ [][RawNext]_rawVars

-----------------------------------------------------------------------------
(* Properties *)

RawTypeOK ==
  /\ request \in [Buffers -> Requests \cup {NotAsked, Destroyed}]
  /\ raw \in [Buffers -> Nat] /\ rawSize \in [Buffers -> Nat]
  /\ rawAligned \in [Buffers -> Nat]
  /\ blocks \subseteq [at : Nat \ {0}, bytes : Nat]

Memory(b) == [at |-> raw[b], bytes |-> rawSize[b]]

\* The buffers' memory and what the allocator has given out are the same, so that
\* each block is freed with the size it was allocated with; no two overlap.
Owned ==
  /\ \A b \in Buffers : raw[b] /= 0 => request[b] \in Requests /\ Memory(b) \in blocks
  /\ \A k \in blocks : \E b \in Buffers : raw[b] /= 0 /\ k = Memory(b)
  /\ \A b, c \in Buffers :
       b /= c /\ raw[b] /= 0 /\ raw[c] /= 0 => Apart(Memory(b), Memory(c))

\* The sizes can be computed without wrapping.
Computable(r) == r.size * r.elements + maxAlign < Word

\* Every element lies in its buffer's memory, aligned.
Inside(b) ==
  LET r == request[b] IN
  rawAligned[b] /= 0 =>
    /\ raw[b] /= 0
    /\ Computable(r) =>
         /\ raw[b] <= rawAligned[b]
         /\ rawAligned[b] + r.size * r.elements <= raw[b] + rawSize[b]
         /\ \A i \in 0 .. r.elements - 1 : Aligned(rawAligned[b] + r.size * i, r.align)

\* Memory in which the elements cannot be aligned is of an over-aligned type.
Refused(b) ==
  raw[b] /= 0 /\ rawAligned[b] = 0 /\ Computable(request[b]) => request[b].align > maxAlign

\* Whatever the addresses the allocator gives, the elements of a pool are aligned
\* ("TODO CHECK ALIGNMENT", MemPoolHeap.h:167) and inside memory that no other
\* buffer has, the alignment fails only for a type that is aligned more strictly
\* than every standard one, and all memory is given back; if sizes do not wrap.
ElementsPlaced ==
  /\ RawTypeOK /\ Owned
  /\ \A b \in Buffers : Inside(b) /\ Refused(b)
=============================================================================
