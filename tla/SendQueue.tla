------------------------------ MODULE SendQueue ------------------------------
(***************************************************************************)
(* The queue of outgoing messages that websocket_session and http_session  *)
(* of Networking/src both keep: sendAsync, called from any thread, posts   *)
(* on_send to the session's strand; on_send makes room in the queue and    *)
(* appends the message; when its write has ended the front leaves.  What   *)
(* is done with a message that comes to the front is the session's.        *)
(*                                                                         *)
(* Messages are records with an id, a kind and the max_queue_size they     *)
(* were sent with.                                                         *)
(***************************************************************************)
EXTENDS Integers, Sequences, FiniteSets

\* A message has its force_send flag or not, and bytes in it or not (an empty one
\* has a null msgPtr or msgSize 0).
AllKinds == {"normal", "forced", "empty", "forcedEmpty"}

CONSTANTS
  MaxMessages,    \* bound: calls of sendAsync
  MaxQueueSizes,  \* the max_queue_size arguments used
  Kinds           \* the messages sent: of AllKinds

ASSUME MessagesAssumption ==
  /\ MaxMessages \in Nat
  /\ MaxQueueSizes \subseteq Nat
  /\ Kinds \subseteq AllKinds

Ids == 1 .. MaxMessages
Message == [id : Ids, kind : Kinds, max : MaxQueueSizes]

VARIABLES
  posted,  \* on_send calls waiting on the strand, in order
  queue,   \* queue_ of a websocket_session, send_queue_ of an http_session
  op,      \* what will end the front's turn: "none", "write", "abort"
  sent,    \* history: number of sendAsync calls
  calls    \* history: calls[m]: how often m's completion handler was called

sendVars == <<posted, queue, op, sent, calls>>

QueueInit ==
  /\ posted = <<>> /\ queue = <<>> /\ op = "none"
  /\ sent = 0
  /\ calls = [m \in Ids |-> 0]

Forced(m) == m.kind \in {"forced", "forcedEmpty"}
Sendable(m) == m.kind \in {"normal", "forced"}

\* The front is being sent, so a limit below 2 cannot be honoured.
AtLeast2(n) == IF n < 2 THEN 2 ELSE n

\* Mutant: the scan starts at the front.
DroppableFront(q, i) == ~Forced(q[i])

\* Positions of q the drop loop may erase: it leaves the first two alone (index 2
\* of the code is position 3), and forced messages.
Droppable(q, i) == i >= 3 /\ ~Forced(q[i])

\* How many droppable positions there are up to i.
DroppablesTo(q, i) == Cardinality({k \in 1 .. i : Droppable(q, k)})

\* Mutant: one fewer is dropped.
DropsOneFewer(q, max) ==
  {i \in DOMAIN q : Droppable(q, i) /\ DroppablesTo(q, i) <= Len(q) - AtLeast2(max)}

\* It erases from the front until the queue is shorter than max.
Drops(q, max) ==
  {i \in DOMAIN q : Droppable(q, i) /\ DroppablesTo(q, i) <= Len(q) - AtLeast2(max) + 1}

Rank(K, j) == Cardinality({k \in K : k <= j})

\* q without the positions in D.
Without(q, D) ==
  LET K == DOMAIN q \ D
  IN [i \in 1 .. Cardinality(K) |-> q[CHOOSE j \in K : Rank(K, j) = i]]

\* The queue after on_send(msg): the dropped messages are gone, msg is at the back.
Enqueue(q, msg) == Append(Without(q, Drops(q, msg.max)), msg)

-----------------------------------------------------------------------------

\* sendAsync posts on_send.
PostMessage(kind, max) ==
  /\ sent < MaxMessages
  /\ sent' = sent + 1
  /\ posted' = Append(posted, [id |-> sent + 1, kind |-> kind, max |-> max])
  /\ UNCHANGED <<queue, op, calls>>

\* The completion handlers of the messages in S are called.
CallHandlers(S) ==
  calls' = [m \in Ids |-> IF m \in S THEN calls[m] + 1 ELSE calls[m]]

\* on_send drops old messages for a full queue, calling their handlers.
QueueMessage ==
  /\ posted /= <<>>
  /\ queue' = Enqueue(queue, Head(posted))
  /\ CallHandlers({queue[i].id : i \in Drops(queue, Head(posted).max)})
  /\ posted' = Tail(posted)
  /\ sent' = sent

\* on_write calls the front's handler and pops it.
PopFront ==
  /\ op /= "none"
  /\ CallHandlers({Head(queue).id})
  /\ queue' = Tail(queue)
  /\ UNCHANGED <<posted, sent>>

-----------------------------------------------------------------------------

QueueTypeOK ==
  /\ posted \in Seq(Message) /\ queue \in Seq(Message)
  /\ op \in {"none", "write", "abort"}
  /\ sent \in 0 .. MaxMessages
  /\ calls \in [Ids -> 0 .. 1]
=============================================================================
