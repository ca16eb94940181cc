--------------------------- MODULE WebSocketSession ---------------------------
(***************************************************************************)
(* One websocket_session of Networking/src/websocket_session.{cpp,hpp}: a  *)
(* server's session, or a client's with its chain of resolving, connecting *)
(* and shaking hands.                                                      *)
(* Its handlers run on one strand, so each is a step; sendAsync may be     *)
(* called from any thread and posts on_send to that strand.                *)
(*                                                                         *)
(* A pending handler holds the session (shared_from_this): it is destroyed *)
(* when none is left, or when the io_context goes away and drops them all. *)
(* Beast's stream is external: a write or a read completes or fails at any *)
(* moment.  The rate limiter is external too: should_send may answer       *)
(* either way.                                                             *)
(***************************************************************************)
EXTENDS SendQueue

CONSTANTS
  MaxPosted,  \* bound: on_send calls waiting on the strand
  MayStop     \* whether the io_context may be destroyed

ASSUME SessionAssumption == MaxPosted \in Nat /\ MayStop \in BOOLEAN

VARIABLES
  role,      \* "server", "plain" or "secure" (a client with or without TLS)
  life,      \* see Stages, or "open", "closed" (no read pending), "destroyed"
  upgraded,  \* the session is registered with shared_state
  wire       \* history: the last message whose write ended, 0 before

vars == <<role, life, upgraded, wire, sendVars>>

\* What the session waits for before it is open.
Stages == {"resolving", "connecting", "tls", "handshake"}

\* runServer has started the handshake, RunClient the resolver.
Init ==
  /\ \/ role = "server" /\ life = "handshake"
     \/ role \in {"plain", "secure"} /\ life = "resolving"
  /\ upgraded = FALSE
  /\ wire = 0
  /\ QueueInit

Alive == life /= "destroyed"

-----------------------------------------------------------------------------
(* The connection chain and reading *)

rest == <<role, wire, sendVars>>

OnResolve ==
  /\ life = "resolving"
  /\ life' = "connecting"
  /\ UNCHANGED <<upgraded, rest>>

\* plain_websocket_session goes to the websocket's handshake, ssl_ to that of TLS.
OnConnect ==
  /\ life = "connecting"
  /\ life' = IF role = "secure" THEN "tls" ELSE "handshake"
  /\ UNCHANGED <<upgraded, rest>>

OnSslHandshake ==
  /\ life = "tls"
  /\ life' = "handshake"
  /\ UNCHANGED <<upgraded, rest>>

\* on_accept (server) and on_handshake (client) register once and start to read.
OnHandshake ==
  /\ life = "handshake"
  /\ life' = "open" /\ upgraded' = TRUE
  /\ UNCHANGED rest

\* A link of the chain fails or times out, or an on_read fails: nothing is started
\* any more.  (A read that succeeds hands its data on and starts the next: no step.)
ChainEnds ==
  /\ life \in Stages \cup {"open"}
  /\ life' = "closed"
  /\ UNCHANGED <<upgraded, rest>>

-----------------------------------------------------------------------------
(* Sending *)

\* shared_state reaches the session while it is registered and not destroyed,
\* MultiClientReceiver a client's session from the beginning.
SendAsync(kind, max) ==
  /\ Alive /\ (upgraded \/ role /= "server") /\ Len(posted) < MaxPosted
  /\ PostMessage(kind, max)
  /\ UNCHANGED <<role, life, upgraded, wire>>

\* What is done with the front of a queue that has just come to the front.
StartWrite(front) ==
  \/ op' = "write" /\ Sendable(front)
  \/ op' = "abort" /\ ~(Sendable(front) /\ Forced(front))

\* on_send starts a write if the queue was empty.
OnSend ==
  /\ QueueMessage
  /\ IF queue = <<>> THEN StartWrite(Head(posted)) ELSE op' = op
  /\ UNCHANGED <<role, life, upgraded, wire>>

\* Mutant: the next write is not started after an error.
OnWriteStops(r) ==
  /\ PopFront
  /\ wire' = IF op = "write" THEN Head(queue).id ELSE wire
  /\ IF queue' = <<>> \/ r /= "written" THEN op' = "none" ELSE StartWrite(Head(queue'))
  /\ UNCHANGED <<role, life, upgraded>>

\* on_write calls the front's handler, pops it and starts the next, after an
\* error too.  The write came off, which takes a handshake, or failed; an abort is
\* reported as such.
OnWrite(r) ==
  /\ r = "aborted" <=> op = "abort"
  /\ r = "written" => upgraded
  /\ PopFront
  /\ wire' = IF op = "write" THEN Head(queue).id ELSE wire
  /\ IF queue' = <<>> THEN op' = "none" ELSE StartWrite(Head(queue'))
  /\ UNCHANGED <<role, life, upgraded>>

-----------------------------------------------------------------------------
(* Destruction *)

\* Mutant: the destructor forgets the queue.
DestructorSilent ==
  /\ life' = "destroyed" /\ upgraded' = FALSE
  /\ queue' = <<>> /\ op' = "none" /\ posted' = <<>>
  /\ UNCHANGED <<role, sent, wire, calls>>

\* ~websocket_session aborts what is queued and leaves shared_state.
Destructor ==
  /\ life' = "destroyed" /\ upgraded' = FALSE
  /\ CallHandlers({queue[i].id : i \in DOMAIN queue})
  /\ queue' = <<>> /\ op' = "none" /\ posted' = <<>>
  /\ UNCHANGED <<role, sent, wire>>

\* The last handler has run.
Destroy ==
  /\ life = "closed" /\ posted = <<>> /\ op = "none"
  /\ Destructor

\* The io_context is destroyed with handlers pending; those never run.
ContextDestroyed ==
  /\ MayStop /\ Alive
  /\ Destructor

Handlers == OnSend \/ (\E r \in {"written", "failed", "aborted"} : OnWrite(r))

Next ==
  \/ OnResolve \/ OnConnect \/ OnSslHandshake \/ OnHandshake \/ ChainEnds
  \/ \E k \in Kinds, x \in MaxQueueSizes : SendAsync(k, x)
  \/ Handlers
  \/ Destroy \/ ContextDestroyed

Spec == Init /\ [][Next]_vars

\* The io_context is run, and the stream completes its writes one way or another.
FairSpec == Spec /\ WF_vars(Handlers) /\ WF_vars(Destroy)

-----------------------------------------------------------------------------
(* Properties *)

TypeOK ==
  /\ role \in {"server", "plain", "secure"}
  /\ life \in Stages \cup {"open", "closed", "destroyed"}
  /\ upgraded \in BOOLEAN
  /\ wire \in 0 .. MaxMessages
  /\ QueueTypeOK

\* The queue outgrows every max_queue_size in use, and 3, only by messages that
\* are forced: the first two and the newest apart, all of it is.
QueueBounded ==
  Len(queue) > 3 /\ (\A x \in MaxQueueSizes : Len(queue) > x) =>
    \A i \in 3 .. Len(queue) - 1 : Forced(queue[i])

\* Exactly one on_write is due whenever something is queued: the chain of writes
\* neither breaks nor forks, before the handshake, after an error and after the
\* last read.  The queue is bounded, no completion handler is called twice, and
\* shared_state keeps no pointer to a destroyed session.
QueueServed ==
  /\ TypeOK
  /\ op /= "none" <=> queue /= <<>>
  /\ QueueBounded
  /\ upgraded => Alive

\* A destroyed session has called every handler it had queued or written; only
\* an on_send that the io_context dropped unrun leaves its handler uncalled.
HandledWhenDestroyed ==
  [][life /= "destroyed" /\ life' = "destroyed" =>
       \A m \in 1 .. sent : calls'[m] = 1 \/ \E i \in DOMAIN posted : posted[i].id = m]_vars

\* Messages go to the wire in the order of the sendAsync calls, and the one that
\* is being written keeps its handler, and so its buffer, until on_write: dropping
\* old messages never touches it.
SentInOrder ==
  [][/\ wire' >= wire
     /\ op = "write" /\ life' /= "destroyed" /\ Len(posted') < Len(posted) =>
          Head(queue') = Head(queue)]_vars

\* Every completion handler is called in the end, whatever fails, unless the
\* io_context is destroyed.
EventuallyHandled ==
  \A m \in Ids : sent >= m ~> (calls[m] = 1 \/ life = "destroyed")
=============================================================================
