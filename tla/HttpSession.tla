----------------------------- MODULE HttpSession -----------------------------
(***************************************************************************)
(* One connection of a server, Networking/src/http_session.{cpp,hpp}, from *)
(* the socket the listener accepted: detect_session finds out whether the  *)
(* client speaks TLS, and the http_session it starts reads HTTP requests   *)
(* and pipelines their responses in a queue of limited length, or, when    *)
(* the server is plain TCP, reads a header and a body in turn; on the same *)
(* socket it sends the raw messages that shared_state hands it.  It may    *)
(* turn into a websocket_session, which takes the stream over while this   *)
(* session lives on until its last handler has run.                        *)
(*                                                                         *)
(* The handlers share a strand: one step each.  A read or a write of the   *)
(* stream ends, well or not, at any moment after it was started.  The      *)
(* names here are not WebSocketSession's, so that a module may extend both.*)
(***************************************************************************)
EXTENDS SendQueue

CONSTANTS
  limit,       \* of the response queue: 8 in the code
  Protocols,   \* "http", "tcp": what the server may speak
  MaxRequests  \* bound: requests read

ASSUME HttpAssumption ==
  /\ limit \in Nat \ {0}
  /\ Protocols \subseteq {"http", "tcp"}
  /\ MaxRequests \in Nat

VARIABLES
  protocol,    \* what the server speaks
  secure,      \* what async_detect_ssl finds, or the listener's Security fixes
  phase,       \* "detecting", "handshake", "open", "destroyed"; "dropped": with
               \* the io_context; "crashed": with the process
  joined,      \* the session is registered with shared_state
  reads,       \* async_reads pending
  part,        \* what a read on plain TCP is for: "header", "body"
  requests,    \* history: requests read
  items,       \* the response queue: [id, close]
  writes,      \* async_writes of responses pending
  answered,    \* history: the last request whose response left the queue
  readEnded,   \* no more is read: end of stream, an error, an upgrade
  writeEnded,  \* no more is answered: an error, or a "Connection: close"
  shutdowns,   \* TLS shutdowns pending
  moved        \* the stream now belongs to a websocket_session

fixed == <<protocol, secure>>
readVars == <<reads, part, requests, readEnded, moved>>
writeVars == <<items, writes, answered, writeEnded>>
httpVars == <<fixed, phase, joined, shutdowns, readVars, writeVars, sendVars>>

HttpInit ==
  /\ protocol \in Protocols /\ secure \in BOOLEAN
  /\ phase = "detecting" /\ joined = FALSE /\ shutdowns = 0
  /\ reads = 0 /\ part = "header" /\ requests = 0
  /\ items = <<>> /\ writes = 0 /\ answered = 0
  /\ readEnded = FALSE /\ writeEnded = FALSE /\ moved = FALSE
  /\ QueueInit

-----------------------------------------------------------------------------
(* Starting and ending *)

\* plain_http_session::run, or a TLS handshake that succeeds: join, then do_read.
Start ==
  /\ phase' = "open" /\ joined' = TRUE
  /\ reads' = 1
  /\ UNCHANGED <<part, requests, readEnded, moved>>

\* The detector launches a session of the kind it found.
OnDetect ==
  /\ phase = "detecting"
  /\ \/ secure /\ phase' = "handshake" /\ UNCHANGED <<joined, readVars>>
     \/ ~secure /\ Start
  /\ UNCHANGED <<fixed, shutdowns, writeVars, sendVars>>

OnHttpHandshake ==
  /\ phase = "handshake" /\ Start
  /\ UNCHANGED <<fixed, shutdowns, writeVars, sendVars>>

\* Detecting or shaking hands fails: the session is destroyed (and leaves
\* shared_state) without having joined.
StartFails ==
  /\ phase \in {"detecting", "handshake"}
  /\ phase' = "destroyed"
  /\ UNCHANGED <<fixed, joined, shutdowns, readVars, writeVars, sendVars>>

\* Of a plain socket do_eof shuts the sending side down; TLS says goodbye first.
do_eof == shutdowns' = IF secure THEN shutdowns + 1 ELSE shutdowns

OnShutdown ==
  /\ shutdowns > 0
  /\ shutdowns' = shutdowns - 1
  /\ UNCHANGED <<fixed, phase, joined, readVars, writeVars, sendVars>>

-----------------------------------------------------------------------------
(* Reading *)

\* A read ends and is not followed by another: end of stream on HTTP, or an error,
\* or on plain TCP a server without a callback for the body's length.
ReadEnds ==
  /\ reads > 0
  /\ reads' = reads - 1
  /\ readEnded' = TRUE
  /\ \/ protocol = "http" /\ do_eof
     \/ UNCHANGED shutdowns
  /\ UNCHANGED <<fixed, phase, joined, part, requests, moved, writeVars, sendVars>>

\* handle_request sends one response on every path: a bad request, a file that is
\* missing, unreadable or asked for by HEAD, the file.  Some need the end of the file.
handle_request(id) == {[id |-> id, close |-> c] : c \in BOOLEAN}

\* queue::operator() keeps the response, and writes it if it is the only one.
QueueResponse(response) ==
  /\ items' = Append(items, response)
  /\ writes' = IF Len(items') = 1 THEN writes + 1 ELSE writes

is_full(q) == Len(q) >= limit

\* on_read: the request is answered, and do_read follows unless the queue is full.
ReadRequest ==
  /\ protocol = "http" /\ reads > 0 /\ requests < MaxRequests
  /\ requests' = requests + 1
  /\ \E response \in handle_request(requests') : QueueResponse(response)
  /\ reads' = IF is_full(items') THEN reads - 1 ELSE reads
  /\ UNCHANGED <<fixed, phase, joined, shutdowns, part, readEnded, moved, answered,
                 writeEnded, sendVars>>

\* on_read finds an upgrade: the stream moves out and nothing more is read.
Upgrade ==
  /\ protocol = "http" /\ reads > 0
  /\ reads' = reads - 1
  /\ readEnded' = TRUE /\ moved' = TRUE
  /\ UNCHANGED <<fixed, phase, joined, shutdowns, part, requests, writeVars, sendVars>>

\* on_nonhttp_read_header asks for the body, on_nonhttp_read_body for the next header.
ReadPart ==
  /\ protocol = "tcp" /\ reads > 0
  /\ part' = IF part = "header" THEN "body" ELSE "header"
  /\ UNCHANGED <<fixed, phase, joined, shutdowns, reads, requests, readEnded, moved,
                 writeVars, sendVars>>

-----------------------------------------------------------------------------
(* Writing responses *)

\* Mutant: is_full is asked after the response was erased.
QueueOnWriteLate ==
  /\ items' = Tail(items)
  /\ answered' = Head(items).id
  /\ writes' = IF items' = <<>> THEN writes - 1 ELSE writes
  /\ reads' = IF is_full(items') THEN reads + 1 ELSE reads

\* queue::on_write erases the response, starts the next, and answers whether the
\* queue was full, which is when on_write has to resume reading.
QueueOnWrite ==
  /\ items' = Tail(items)
  /\ answered' = Head(items).id
  /\ writes' = IF items' = <<>> THEN writes - 1 ELSE writes
  /\ reads' = IF is_full(items) THEN reads + 1 ELSE reads

WriteDone ==
  /\ writes > 0 /\ ~Head(items).close
  /\ QueueOnWrite
  /\ UNCHANGED <<fixed, phase, joined, shutdowns, part, requests, readEnded, moved,
                 writeEnded, sendVars>>

\* A response that says close is followed by do_eof, a failed write by nothing:
\* the queue is left as it is.
WriteEnds ==
  /\ writes > 0
  /\ \/ Head(items).close /\ do_eof
     \/ UNCHANGED shutdowns
  /\ writes' = writes - 1
  /\ writeEnded' = TRUE
  /\ UNCHANGED <<fixed, phase, joined, readVars, items, answered, sendVars>>

-----------------------------------------------------------------------------
(* Raw messages *)

\* shared_state reaches the session while it is registered and not destroyed.
HttpSendAsync(kind, max) ==
  /\ joined
  /\ PostMessage(kind, max)
  /\ UNCHANGED <<fixed, phase, joined, shutdowns, readVars, writeVars>>

\* The front is sent if no response is queued, and aborted otherwise.
StartSend(front) ==
  op' = IF Sendable(front) /\ items = <<>> THEN "write" ELSE "abort"

HttpOnSend ==
  /\ QueueMessage
  /\ IF queue = <<>> THEN StartSend(Head(posted)) ELSE op' = op
  /\ UNCHANGED <<fixed, phase, joined, shutdowns, readVars, writeVars>>

\* Mutant: behind a queued response nothing is started, not even an abort.
OnWrite2Stops ==
  /\ PopFront
  /\ IF queue' = <<>> \/ items /= <<>> THEN op' = "none" ELSE StartSend(Head(queue'))
  /\ UNCHANGED <<fixed, phase, joined, shutdowns, readVars, writeVars>>

\* on_write2 calls the front's handler, pops it and starts the next.
OnWrite2 ==
  /\ PopFront
  /\ IF queue' = <<>> THEN op' = "none" ELSE StartSend(Head(queue'))
  /\ UNCHANGED <<fixed, phase, joined, shutdowns, readVars, writeVars>>

\* The last handler has run: the destructor leaves shared_state.
HttpDestroy ==
  /\ phase = "open" /\ reads = 0 /\ writes = 0 /\ shutdowns = 0
  /\ posted = <<>> /\ op = "none"
  /\ phase' = "destroyed" /\ joined' = FALSE
  /\ UNCHANGED <<fixed, shutdowns, readVars, writeVars, sendVars>>

\* Nothing that is under way comes to its end.
HttpGone ==
  /\ joined' = FALSE
  /\ reads' = 0 /\ writes' = 0 /\ shutdowns' = 0
  /\ posted' = <<>> /\ op' = "none"
  /\ UNCHANGED <<fixed, part, requests, readEnded, moved, items, answered,
                 writeEnded, queue, sent, calls>>

\* The io_context goes with handlers pending: they never run, and unlike
\* websocket_session's the destructor calls nobody's completion handler.
HttpContextDestroyed ==
  /\ phase = "open"
  /\ phase' = "dropped"
  /\ HttpGone

\* What still uses the stream: sendAsync (for its executor) and what it posts, the
\* next raw message or response, a goodbye.
StreamUsed ==
  \/ joined /\ sent < MaxMessages
  \/ posted /= <<>> /\ queue = <<>>
  \/ op /= "none" /\ Len(queue) > 1
  \/ writes > 0 /\ (Len(items) > 1 \/ Head(items).close)

\* A TLS stream that has moved out is a null pointer in some builds: using it ends
\* the process.  In others the operation fails, as the other actions have it.
UseMovedStream ==
  /\ phase = "open" /\ secure /\ moved
  /\ StreamUsed
  /\ phase' = "crashed"
  /\ HttpGone

-----------------------------------------------------------------------------

WriteStep == WriteDone \/ WriteEnds

HttpNext ==
  \/ OnDetect \/ OnHttpHandshake \/ StartFails
  \/ ReadEnds \/ Upgrade \/ ReadPart \/ ReadRequest
  \/ WriteStep
  \/ \E k \in Kinds, x \in MaxQueueSizes : HttpSendAsync(k, x)
  \/ HttpOnSend \/ OnWrite2
  \/ OnShutdown \/ HttpDestroy \/ HttpContextDestroyed \/ UseMovedStream

HttpSpec == HttpInit /\ [][HttpNext]_httpVars

\* The io_context runs what is ready, and the stream ends its writes; clients need
\* not send anything.
FairHttpSpec == HttpSpec /\ WF_httpVars(WriteStep) /\ WF_httpVars(HttpOnSend) /\ WF_httpVars(OnWrite2)

-----------------------------------------------------------------------------
(* Properties *)

Items == Seq([id : 1 .. MaxRequests, close : BOOLEAN])

HttpTypeOK ==
  /\ protocol \in Protocols
  /\ phase \in {"detecting", "handshake", "open", "destroyed", "dropped", "crashed"}
  /\ {secure, joined, readEnded, writeEnded, moved} \subseteq BOOLEAN
  /\ reads \in Nat /\ writes \in Nat /\ shutdowns \in 0 .. 2
  /\ part \in {"header", "body"}
  /\ requests \in 0 .. MaxRequests /\ answered \in 0 .. MaxRequests
  /\ items \in Items
  /\ QueueTypeOK

\* One read is pending exactly while the response queue has room: on_read stops
\* at the limit, on_write resumes, and the two never start a second read, which
\* would replace the parser under the first.  Likewise one response is being
\* written exactly while some are queued; the queue keeps within its limit, and
\* no completion handler is called twice.  Once a websocket_session has the stream
\* no read of it is started here, though responses are still being written.
OneReadUnlessFull ==
  /\ HttpTypeOK
  /\ Len(items) <= limit
  /\ phase = "open" =>
       /\ reads = IF readEnded \/ is_full(items) THEN 0 ELSE 1
       /\ moved => reads = 0
       /\ writes = IF writeEnded \/ items = <<>> THEN 0 ELSE 1

\* Each request read is answered in the end unless the connection fails or is
\* closed, and each raw message's handler is called, unless the io_context goes or the
\* process ends: responses in the queue make raw messages abort, never wait.
EverythingAnswered ==
  /\ \A r \in 1 .. MaxRequests :
       requests >= r ~> (answered >= r \/ writeEnded \/ phase \in {"dropped", "crashed"})
  /\ \A m \in Ids : sent >= m ~> (calls[m] = 1 \/ phase \in {"dropped", "crashed"})
=============================================================================
