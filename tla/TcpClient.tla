------------------------------ MODULE TcpClient ------------------------------
(***************************************************************************)
(* TCPClientBase with its plain and TLS versions, Networking/src/client.hpp *)
(* one client object, its chain of resolving, connecting, shaking hands    *)
(* and reading, its queue of writes, and the close that ends a connection. *)
(*                                                                         *)
(* A record [op, n, ok] is the handler of an operation: n is the call of   *)
(* run() it belongs to, or the message, and ok its result.  Operations in  *)
(* ops are under way and complete as the network likes; closing the socket *)
(* makes those on it fail.  Handlers in ready wait for a thread, in no     *)
(* particular order.  Every handler runs on the socket's strand, except    *)
(* on_resolve, whose resolver has none.                                    *)
(***************************************************************************)
EXTENDS Integers, FiniteSets, SequencesExt

CONSTANTS
  Handler,    \* values of strand besides None: whoever runs a handler
  None,
  MaxRuns,    \* bound: calls of run()
  MaxWrites,  \* bound: calls of write()
  MaxCloses   \* bound: calls of close()

ASSUME ClientAssumption == MaxRuns \in Nat /\ MaxWrites \in Nat /\ MaxCloses \in Nat /\ None \notin Handler

VARIABLES
  secure,      \* SSLTCPClient
  runs, writes, closeCalls,  \* calls made so far
  socket,      \* "closed", "open" (connecting) or "connected"
  connected_,
  write_msgs_,
  ops, ready,  \* operations under way, handlers to be run
  strand,      \* who runs a handler of the strand
  gone,        \* the client is destroyed
  owed,        \* history: calls of callbackAccept less those of callbackClose
  orphaned     \* history: handlers were destroyed instead of run

userVars == <<runs, writes, closeCalls>>
connVars == <<socket, connected_, owed>>
fateVars == <<gone, orphaned>>
clientVars == <<secure, userVars, connVars, write_msgs_, ops, ready, strand, fateVars>>

Op(o, n) == [op |-> o, n |-> n]
Result(x, ok) == [op |-> x.op, n |-> x.n, ok |-> ok]

ClientInit ==
  /\ secure \in BOOLEAN
  /\ runs = 0 /\ writes = 0 /\ closeCalls = 0
  /\ socket = "closed" /\ connected_ = FALSE
  /\ write_msgs_ = <<>>
  /\ ops = {} /\ ready = {}
  /\ strand = None
  /\ gone = FALSE
  /\ owed = 0
  /\ orphaned = FALSE

-----------------------------------------------------------------------------
(* What the user does, from any thread: the calls only start an operation  *)
(* or post a handler.                                                       *)

Attempts == {"resolve", "connect", "handshake"}

\* run() begins an attempt; to connect again the user waits until the last one
\* has failed or its connection is closed.
Run ==
  /\ ~gone /\ runs < MaxRuns /\ ~connected_
  /\ \A x \in ops \cup ready : x.op \notin Attempts
  /\ runs' = runs + 1
  /\ ops' = ops \cup {Op("resolve", runs + 1)}
  /\ UNCHANGED <<secure, writes, closeCalls, connVars, write_msgs_, ready,
                 strand, fateVars>>

Write ==
  /\ ~gone /\ writes < MaxWrites
  /\ writes' = writes + 1
  /\ ready' = ready \cup {Result(Op("schedule", writes + 1), TRUE)}
  /\ UNCHANGED <<secure, runs, closeCalls, connVars, write_msgs_, ops,
                 strand, fateVars>>

Close ==
  /\ ~gone /\ closeCalls < MaxCloses
  /\ closeCalls' = closeCalls + 1
  /\ ready' = ready \cup {Result(Op("close", closeCalls + 1), TRUE)}
  /\ UNCHANGED <<secure, runs, writes, connVars, write_msgs_, ops, strand,
                 fateVars>>

\* The connection is there, although its handler may still wait for a thread.
Established ==
  \/ socket = "connected"
  \/ \E h \in ready : h.ok /\ h.op = IF secure THEN "handshake" ELSE "connect"

\* The network, or the resolver, completes an operation one way or the other.
Complete(x, ok) ==
  /\ x \in ops
  /\ x.op = "write" /\ ok => Established
  /\ ops' = ops \ {x}
  /\ ready' = ready \cup {Result(x, ok)}
  /\ UNCHANGED <<secure, userVars, connVars, write_msgs_, strand, fateVars>>

-----------------------------------------------------------------------------
(* Handlers.  Each is given the handlers left and the operations under way. *)

OnSocket == {x \in ops : x.op /= "resolve"}

\* Closing the socket: whatever is under way on it will fail.
Aborted == {Result(x, FALSE) : x \in OnSocket}

\* Mutant: connected_ is not asked.
HandleCloseAlways(left) ==
  /\ socket' = "closed"
  /\ connected_' = FALSE
  /\ owed' = owed - 1
  /\ ops' = ops \ OnSocket
  /\ ready' = left \cup Aborted

\* A connection is closed once, by whoever comes first.
HandleClose(left) ==
  \/ /\ connected_
     /\ socket' = "closed"
     /\ connected_' = FALSE
     /\ owed' = owed - 1
     /\ ops' = ops \ OnSocket
     /\ ready' = left \cup Aborted
  \/ /\ ~connected_
     /\ ready' = left
     /\ UNCHANGED <<connVars, ops>>

\* on_resolve closes the socket it finds, opens it and connects.
OnResolve(h, left) ==
  /\ IF h.ok
     THEN /\ socket' = "open"
          /\ ops' = (ops \ OnSocket) \cup {Op("connect", h.n)}
          /\ ready' = left \cup Aborted
     ELSE UNCHANGED <<socket, ops>> /\ ready' = left
  /\ UNCHANGED <<connected_, owed, write_msgs_>>

\* on_finish_connect_or_handshake
Finish(h, left) ==
  /\ IF h.ok
     THEN /\ connected_' = TRUE
          /\ owed' = owed + 1
          /\ socket' = IF socket = "open" THEN "connected" ELSE socket
          /\ ops' = ops \cup {Op("read", h.n)}
          /\ ready' = left
     ELSE HandleClose(left)
  /\ UNCHANGED write_msgs_

OnConnect(h, left) ==
  \/ /\ secure /\ h.ok
     /\ ops' = ops \cup {Op("handshake", h.n)}
     /\ ready' = left
     /\ UNCHANGED <<connVars, write_msgs_>>
  \/ ~(secure /\ h.ok) /\ Finish(h, left)

OnRead(h, left) ==
  /\ IF h.ok
     THEN /\ ops' = ops \cup {Op("read", h.n)}
          /\ ready' = left
          /\ UNCHANGED connVars
     ELSE HandleClose(left)
  /\ UNCHANGED write_msgs_

\* A write on a socket that is still connecting, or in the handshake, fails at once
\* or waits for the connection.
DoWrite(msg, left) ==
  \/ /\ socket /= "closed"
     /\ ops' = ops \cup {Op("write", msg)} /\ ready' = left
  \/ /\ socket /= "connected"
     /\ ready' = left \cup {Result(Op("write", msg), FALSE)} /\ UNCHANGED ops

ScheduleWrite(h, left) ==
  /\ write_msgs_' = Append(write_msgs_, h.n)
  /\ IF write_msgs_ = <<>> THEN DoWrite(h.n, left) ELSE ready' = left /\ UNCHANGED ops
  /\ UNCHANGED connVars

\* Mutant: the queue outlives a failed write.
OnWriteKeeps(h, left) ==
  \/ /\ h.ok
     /\ write_msgs_' = Tail(write_msgs_)
     /\ IF Len(write_msgs_) > 1 THEN DoWrite(write_msgs_[2], left)
        ELSE ready' = left /\ UNCHANGED ops
     /\ UNCHANGED connVars
  \/ ~h.ok /\ HandleClose(left) /\ UNCHANGED write_msgs_

OnWrite(h, left) ==
  \/ /\ h.ok
     /\ write_msgs_' = Tail(write_msgs_)
     /\ IF Len(write_msgs_) > 1 THEN DoWrite(write_msgs_[2], left)
        ELSE ready' = left /\ UNCHANGED ops
     /\ UNCHANGED connVars
  \/ /\ ~h.ok
     /\ write_msgs_' = <<>>
     /\ HandleClose(left)

\* What a thread does with the ready handler h.
Handle(h) ==
  LET left == ready \ {h} IN
  \/ h.op = "resolve" /\ OnResolve(h, left)
  \/ h.op = "connect" /\ OnConnect(h, left)
  \/ h.op = "handshake" /\ Finish(h, left)
  \/ h.op = "read" /\ OnRead(h, left)
  \/ h.op = "schedule" /\ ScheduleWrite(h, left)
  \/ h.op = "write" /\ OnWrite(h, left)
  \/ h.op = "close" /\ HandleClose(left) /\ UNCHANGED write_msgs_

Strands(h) == h.op /= "resolve"

-----------------------------------------------------------------------------
(* The end of the client *)

\* The last pointer on the client goes: no operation and no handler has one
\* (handling: some thread is inside a handler), and the user calls it no more.
Destructor(handling) ==
  /\ ~gone /\ ops = {} /\ ready = {} /\ ~handling
  /\ gone' = TRUE
  /\ UNCHANGED <<secure, userVars, connVars, write_msgs_, ops, ready, strand, orphaned>>

\* The io_context goes, and with it the operations and handlers it still has.
ContextGone ==
  /\ orphaned' = TRUE
  /\ ops' = {} /\ ready' = {}
  /\ UNCHANGED <<secure, userVars, connVars, write_msgs_, strand, gone>>

-----------------------------------------------------------------------------
(* Properties *)

\* callbackAccept and callbackClose come in pairs: a connection that was
\* accepted is closed exactly once, by the reading, the writing or the user's
\* close, whatever is under way at that time and however late its handlers come.
CallbacksPaired == owed = IF connected_ THEN 1 ELSE 0

WritesUnderWay == {x \in ops \cup ready : x.op = "write"}

\* While there are messages in the queue exactly one of them, its front, is
\* being written; when it is empty nothing is, so on_write never pops from an
\* empty queue and no message is forgotten in it.
OneWriteUnderWay ==
  ~orphaned =>
    /\ Cardinality(WritesUnderWay) = IF write_msgs_ = <<>> THEN 0 ELSE 1
    /\ \A x \in WritesUnderWay : x.n = Head(write_msgs_)

\* The base class's destructor calls handle_close, which would close a socket
\* that the derived class has already destroyed: it finds the client connected
\* only when the io_context went first, with the reading still under way.
DestroyedUnconnected == gone /\ connected_ => orphaned
=============================================================================
