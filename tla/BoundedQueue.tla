---------------------------- MODULE BoundedQueue ----------------------------
(***************************************************************************)
(* What a pipe promises while nobody shuts it down: a first-in first-out   *)
(* queue of at most capacity elements, each handed to one receiver.        *)
(***************************************************************************)
EXTENDS Integers, Sequences

CONSTANTS Receivers, Messages, capacity, NULL

VARIABLES
  queue,  \* elements put and not yet got, oldest first
  ptr     \* ptr[r]: the element receiver r got last, NULL once it asks again

Init == queue = <<>> /\ ptr = [r \in Receivers |-> NULL]

Put(m) ==
  /\ Len(queue) < capacity
  /\ queue' = Append(queue, m)
  /\ UNCHANGED ptr

Get(r) ==
  /\ queue /= <<>>
  /\ ptr' = [ptr EXCEPT ![r] = Head(queue)]
  /\ queue' = Tail(queue)

Reset(r) ==
  /\ ptr' = [ptr EXCEPT ![r] = NULL]
  /\ UNCHANGED queue

Next ==
  \/ \E m \in Messages : Put(m)
  \/ \E r \in Receivers : Get(r) \/ Reset(r)

Spec == Init /\ [][Next]_<<queue, ptr>>
=============================================================================
