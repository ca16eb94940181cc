----------------------------- MODULE Discovery -----------------------------
(***************************************************************************)
(* MultiClientReceiver and the heartbeat of a MultiClientSender            *)
(* (Networking/src): a server broadcasts its ports; a receiver on the same *)
(* network connects a websocket_session to every server of a topic it      *)
(* knows, and to the endpoints it was asked to request, unless it has a    *)
(* living session there, and sends through the sessions it has.            *)
(*                                                                         *)
(* The broadcast handler, the request's timer and the callers of SendAsync *)
(* are threads that meet in clientsMutex; sessions come to their end       *)
(* beside them.  A session is abstracted to the messages posted to it:     *)
(* WebSocketSession shows that each handler it is given is called, and     *)
(* that it is not destroyed before.                                        *)
(***************************************************************************)
EXTENDS UDPReceiver, FiniteSets

CONSTANTS
  topicStates,   \* the topics there are callbacks for
  useSSL, permitLoopback, ownId,   \* the receiver's arguments; 0 is no id
  Servers,       \* the ports a MultiClientSender may be asked to bind
  serverTopic, serverId,
  Strays,        \* other datagrams that may arrive
  MaxStrays,     \* bound: how many do
  requested,     \* the name RequestTopics is called for
  Sessions,      \* session objects, used again and again
  MaxSends       \* bound: calls of SendAsync

\* Both ports are parsed into an unsigned short; one the datagram does not
\* mention (NoPort) is given as -1.  For TooLong, a number of too many digits,
\* stoull throws.
NoPort == -1
TooLong == -2
Parsed(port) == port % 65536
Overlong(d) == TooLong \in {d.insecure, d.secure, d.id}

\* A server that cannot bind announces port 0, which no client connects to.
Announced == {0} \cup {d[p] : d \in Servers \cup Strays, p \in {"insecure", "secure"}}
Ports == {Parsed(port) : port \in Announced}
Names == topicStates \X (Ports \ {0})

ASSUME DiscoveryAssumption ==
  /\ {HasTimeout, useSSL, permitLoopback} \subseteq BOOLEAN
  /\ requested \in Names
  /\ {MaxStrays, MaxSends} \subseteq Nat
  /\ Absent \notin Sessions \cup Names \cup {"broadcast", "request", "send"}
  /\ {"null", "expired"} \cap Sessions = {}

Threads == {"broadcast", "request"}
Sends == 1 .. MaxSends

VARIABLES
  beat, running, \* the heartbeat's datagram; it has been started
  strays,        \* how many have arrived
  clientsMutex,  \* a thread, "send" or Absent
  clients,       \* clients[n], a weak pointer: a session, "null" or "expired"
  at,            \* at[h]: "idle", "timer", "lock", "store"
  made,          \* made[h]: the session h has created, until it is stored
  owner,         \* owner[x]: the name session x is for, Absent when destroyed
  inbox,         \* inbox[x]: messages posted, [id, handler]
  sends, todo,   \* calls of SendAsync; the names the present one has to visit
  handler,       \* completionHandler is not empty, and not moved from
  missed,        \* history: the sessions the present call must reach and has not
  asked,         \* history: the calls with a handler
  calls          \* history: calls[m]: how often m's handler was called

serverVars == <<beat, running, strays>>
sessionVars == <<clientsMutex, clients, made, owner>>
sendVars == <<sends, todo, missed, handler, asked, calls>>
discoveryVars == <<udpVars, serverVars, sessionVars, at, inbox, sendVars>>

-----------------------------------------------------------------------------
(* MultiClientSender and its Heartbeat *)

\* The ports of the listeners: one for both kinds of clients, or one each.  A
\* listener that cannot bind has port 0, one that is not wanted is not made.
BoundPorts(args) ==
  {p \in [{"insecure", "secure"} -> {0, args.insecure, args.secure}] :
     /\ p.insecure \in {0, args.insecure} /\ p.secure \in {0, args.secure}
     /\ args.insecure = args.secure => p.insecure = p.secure}

DiscoveryInit ==
  /\ UdpInit
  /\ \E args \in Servers : \E p \in BoundPorts(args) :
       beat = [topic |-> serverTopic, id |-> serverId,
               insecure |-> p.insecure, secure |-> p.secure]
  /\ running = FALSE /\ strays = 0
  /\ clientsMutex = Absent
  /\ clients = [n \in Names |-> "null"]
  /\ at = [h \in Threads |-> "idle"] /\ made = [h \in Threads |-> Absent]
  /\ owner = [x \in Sessions |-> Absent] /\ inbox = [x \in Sessions |-> {}]
  /\ sends = 0 /\ todo = {} /\ missed = {} /\ handler = FALSE
  /\ asked = {} /\ calls = [m \in Sends |-> 0]

\* Heartbeat::run sends at once, and runs only once.
StartHeartbeat ==
  /\ ~running
  /\ running' = TRUE
  /\ UNCHANGED <<beat, strays, udpVars, sessionVars, at, inbox, sendVars>>

\* start_send, after on_wait: whatever became of the last datagram, on_send has
\* set the timer for this one.  One that is lost changes nothing.
BeatArrives ==
  /\ running
  /\ Arrive(beat)
  /\ UNCHANGED <<serverVars, sessionVars, at, inbox, sendVars>>

StrayArrives ==
  /\ strays < MaxStrays
  /\ strays' = strays + 1
  /\ \E d \in Strays : Arrive(d)
  /\ UNCHANGED <<beat, running, sessionVars, at, inbox, sendVars>>

-----------------------------------------------------------------------------
(* MultiClientReceiver: listening and connecting *)

UsedPort(d) == Parsed(IF useSSL THEN d.secure ELSE d.insecure)

Accepted(d) ==
  /\ UsedPort(d) # 0
  /\ permitLoopback \/ d.id # ownId \/ ownId = 0
  /\ d.topic \in topicStates

Living(n) == clients[n] \in Sessions

Connected(d) == Accepted(d) /\ Living(<<d.topic, UsedPort(d)>>)

\* What ConnectToServer is called with.
Wanted(h) == IF h = "request" THEN requested ELSE <<buffer.topic, UsedPort(buffer)>>

\* Where a thread goes when ConnectToServer has returned.
Returns(h) ==
  /\ at' = [at EXCEPT ![h] = IF h = "request" THEN "timer" ELSE "idle"]
  /\ IF h = "broadcast" THEN ReceiveAgain ELSE UNCHANGED udpVars

ListenForTopics ==
  /\ UdpRun
  /\ UNCHANGED <<serverVars, sessionVars, at, inbox, sendVars>>

\* try_connection is posted.
RequestTopics ==
  /\ at["request"] = "idle"
  /\ at' = [at EXCEPT !["request"] = "timer"]
  /\ UNCHANGED <<udpVars, serverVars, sessionVars, inbox, sendVars>>

TryConnection ==
  /\ at["request"] = "timer" /\ ~ioStopped
  /\ at' = [at EXCEPT !["request"] = "lock"]
  /\ UNCHANGED <<udpVars, serverVars, sessionVars, inbox, sendVars>>

ProcessBroadcast ==
  /\ rx = "processing" /\ at["broadcast"] = "idle" /\ ~Overlong(buffer)
  /\ IF Accepted(buffer)
     THEN at' = [at EXCEPT !["broadcast"] = "lock"] /\ UNCHANGED udpVars
     ELSE Returns("broadcast")
  /\ UNCHANGED <<serverVars, sessionVars, inbox, sendVars>>

\* The exception leaves the handler and the io_context's thread, and ends the process.
ParseThrows ==
  /\ rx = "processing" /\ at["broadcast"] = "idle" /\ Overlong(buffer)
  /\ rx' = "thrown"
  /\ UNCHANGED <<buffer, open, deadline, wait, ioStopped, serverVars, sessionVars, at,
                 inbox, sendVars>>

Alive == rx # "thrown"

\* Which object the session is made of is of no consequence.
Unused == {x \in Sessions : owner[x] = Absent}

Create(h) ==
  /\ Unused # {}
  /\ LET x == CHOOSE x \in Unused : TRUE
     IN  owner' = [owner EXCEPT ![x] = Wanted(h)] /\ made' = [made EXCEPT ![h] = x]
  /\ at' = [at EXCEPT ![h] = "store"]
  /\ UNCHANGED <<clients, udpVars>>

\* Mutant: the mutex is released before the new client is stored.
ConnectUnlocked(h) ==
  /\ at[h] = "lock" /\ clientsMutex = Absent
  /\ IF Living(Wanted(h)) THEN Returns(h) /\ UNCHANGED sessionVars
     ELSE Create(h) /\ UNCHANGED clientsMutex
  /\ UNCHANGED <<serverVars, inbox, sendVars>>

\* Mutant: any entry of clients counts as a living session.
ConnectIfNew(h) ==
  /\ at[h] = "lock" /\ clientsMutex = Absent
  /\ IF clients[Wanted(h)] # "null" THEN Returns(h) /\ UNCHANGED sessionVars
     ELSE Create(h) /\ clientsMutex' = h
  /\ UNCHANGED <<serverVars, inbox, sendVars>>

\* ConnectToServer, with the mutex to its end: a living session is left alone.
ConnectLock(h) ==
  /\ at[h] = "lock" /\ clientsMutex = Absent
  /\ IF Living(Wanted(h)) THEN Returns(h) /\ UNCHANGED sessionVars
     ELSE Create(h) /\ clientsMutex' = h
  /\ UNCHANGED <<serverVars, inbox, sendVars>>

ConnectStore(h) ==
  /\ at[h] = "store"
  /\ clients' = [clients EXCEPT ![Wanted(h)] = made[h]]
  /\ made' = [made EXCEPT ![h] = Absent]
  /\ clientsMutex' = Absent
  /\ Returns(h)
  /\ UNCHANGED <<owner, serverVars, inbox, sendVars>>

-----------------------------------------------------------------------------
(* Sessions *)

SessionHandles(x) ==
  /\ ~ioStopped
  /\ \E m \in inbox[x] :
       /\ inbox' = [inbox EXCEPT ![x] = @ \ {m}]
       /\ calls' = IF m.handler THEN [calls EXCEPT ![m.id] = @ + 1] ELSE calls
  /\ UNCHANGED <<udpVars, serverVars, sessionVars, at, sends, todo, missed, handler, asked>>

\* The last reference is dropped with the session's last handler.
EndSession(x) ==
  /\ owner[x] # Absent /\ inbox[x] = {} /\ ~ioStopped
  /\ \A h \in Threads : made[h] # x
  /\ owner' = [owner EXCEPT ![x] = Absent]
  /\ clients' = [n \in Names |-> IF clients[n] = x THEN "expired" ELSE clients[n]]
  /\ missed' = missed \ {x}
  /\ UNCHANGED <<clientsMutex, made, udpVars, serverVars, at, inbox, sends, todo, handler,
                 asked, calls>>

-----------------------------------------------------------------------------
(* SendAsync, to one client or to all, with a handler or with a string, which *)
(* brings its own.                                                            *)

SendLock ==
  /\ sends < MaxSends /\ clientsMutex = Absent
  /\ clientsMutex' = "send"
  /\ sends' = sends + 1
  /\ \E targets \in {Names} \cup {{n} : n \in Names}, withHandler \in BOOLEAN :
       /\ todo' = targets
       /\ missed' = {x \in Sessions : owner[x] \in targets}
       /\ handler' = withHandler
       /\ asked' = IF withHandler THEN asked \cup {sends'} ELSE asked
  /\ UNCHANGED <<calls, clients, made, owner, udpVars, serverVars, at, inbox>>

\* Mutant: each client is given the handler.
VisitCopied(n) ==
  IF Living(n)
  THEN /\ inbox' = [inbox EXCEPT ![clients[n]] =
                      @ \cup {[id |-> sends, handler |-> sends \in asked]}]
       /\ handler' = FALSE
       /\ missed' = missed \ {clients[n]}
  ELSE UNCHANGED <<inbox, handler, missed>>

\* Client n, if it lives, is given the message and what is left of the handler.
Visit(n) ==
  IF Living(n)
  THEN /\ inbox' = [inbox EXCEPT ![clients[n]] = @ \cup {[id |-> sends, handler |-> handler]}]
       /\ handler' = FALSE
       /\ missed' = missed \ {clients[n]}
  ELSE UNCHANGED <<inbox, handler, missed>>

\* Mutant: the loop ends at a client that has expired.
SendUntilExpired ==
  /\ clientsMutex = "send"
  /\ \E n \in todo :
       /\ todo' = IF clients[n] = "expired" THEN {} ELSE todo \ {n}
       /\ Visit(n)
  /\ UNCHANGED <<sends, asked, calls, udpVars, serverVars, sessionVars, at>>

SendNext ==
  /\ clientsMutex = "send"
  /\ \E n \in todo :
       /\ todo' = todo \ {n}
       /\ Visit(n)
  /\ UNCHANGED <<sends, asked, calls, udpVars, serverVars, sessionVars, at>>

\* No client found: the handler is called here, still under the mutex.
SendReturn ==
  /\ clientsMutex = "send" /\ todo = {}
  /\ calls' = IF handler THEN [calls EXCEPT ![sends] = @ + 1] ELSE calls
  /\ handler' = FALSE /\ clientsMutex' = Absent
  /\ UNCHANGED <<sends, todo, missed, asked, clients, made, owner, udpVars, serverVars, at, inbox>>

-----------------------------------------------------------------------------
Udp ==
  /\ \/ ReceiveFails \/ DeadlinePasses \/ TimerFires
     \/ CheckTimeout \/ StopContext \/ CloseSocket
  /\ UNCHANGED <<serverVars, sessionVars, at, inbox, sendVars>>

Receive == (OnReceive \/ OnReceiveError) /\ UNCHANGED <<serverVars, sessionVars, at, inbox, sendVars>>

\* A context that is stopped, and a process that has ended, runs nothing any more.
Stopped == (ioStopped \/ ~Alive) /\ UNCHANGED discoveryVars

DiscoveryNext ==
  \/ /\ Alive
     /\ \/ StartHeartbeat \/ BeatArrives \/ StrayArrives
        \/ Udp \/ Receive \/ ListenForTopics
        \/ RequestTopics \/ TryConnection \/ ProcessBroadcast \/ ParseThrows
        \/ \E h \in Threads : ConnectLock(h) \/ ConnectStore(h)
        \/ \E x \in Sessions : SessionHandles(x) \/ EndSession(x)
        \/ SendLock \/ SendNext \/ SendReturn
  \/ Stopped

DiscoverySpec == DiscoveryInit /\ [][DiscoveryNext]_discoveryVars

\* Threads run, timers expire, sessions call their handlers; of the heartbeats
\* that are sent again and again, some arrive.
Fairness ==
  /\ SF_discoveryVars(Alive /\ BeatArrives)
  /\ WF_discoveryVars(Alive /\ (Receive \/ ProcessBroadcast \/ ParseThrows))
  /\ WF_discoveryVars(Alive /\ TryConnection)
  /\ \A h \in Threads : /\ SF_discoveryVars(Alive /\ ConnectLock(h))
                        /\ WF_discoveryVars(Alive /\ ConnectStore(h))
  /\ \A x \in Sessions : WF_discoveryVars(Alive /\ SessionHandles(x))
  /\ WF_discoveryVars(Alive /\ (SendNext \/ SendReturn))

LiveDiscoverySpec == DiscoverySpec /\ Fairness

-----------------------------------------------------------------------------
(* Properties *)

DiscoveryTypeOK ==
  /\ rx \in {"off", "pending", "ready", "processing", "failed", "dead", "thrown"}
  /\ deadline \in {"never", "ahead", "passed"}
  /\ wait \in {"none", "pending", "fired", "aborted", "expired", "closing"}
  /\ {open, ioStopped, handler, running} \subseteq BOOLEAN
  /\ clientsMutex \in Threads \cup {"send", Absent}
  /\ clients \in [Names -> Sessions \cup {"null", "expired"}]
  /\ at \in [Threads -> {"idle", "timer", "lock", "store"}]
  /\ owner \in [Sessions -> Names \cup {Absent}]
  /\ asked \subseteq Sends /\ calls \in [Sends -> Nat]

\* Every living session is the one clients has for its name, or is about to be:
\* there are never two sessions to a server, although a broadcast and a request
\* may look for the same name at once, and none that SendAsync cannot reach
\* (ConnectToServer, MultiClientReceiver.hpp:96).
OneSessionPerServer ==
  /\ DiscoveryTypeOK
  /\ \A x \in Sessions : owner[x] # Absent =>
       \/ clients[owner[x]] = x
       \/ \E h \in Threads : made[h] = x /\ clientsMutex = h
  /\ \A n \in Names : Cardinality({x \in Sessions : owner[x] = n}) <= 1

\* A handler given to SendAsync is called at most once, however many clients the
\* message goes to: the first takes it, and the call under the mutex is only for
\* when there was none (MultiClientReceiver.hpp:336).
HandlerCalledAtMostOnce == \A m \in Sends : calls[m] <= 1

\* And it is called in the end, and not again, unless the io_context is stopped or
\* the process ends.
HandlerCalledOnce ==
  \A m \in Sends : (m \in asked) ~> ([](calls[m] = 1) \/ ioStopped \/ ~Alive)

\* A session to one of SendAsync's targets that exists when the call gets
\* clientsMutex is given the message, or comes to its end, before the call returns,
\* although other sessions end, and one was being created (MultiClientReceiver.hpp:331).
SendReachesAll == missed # {} => clientsMutex = "send"

\* A server whose heartbeat is heard, and one that is requested, is connected to
\* again whenever its session has ended; only a failed receive, a stopped io_context
\* and a datagram with a number that is too long end this.
Reconnects ==
  /\ (running /\ Accepted(beat) /\ rx # "off")
       ~> (Connected(beat) \/ rx \in {"dead", "thrown"} \/ ioStopped)
  /\ (at["request"] # "idle") ~> (Living(requested) \/ ioStopped \/ ~Alive)
=============================================================================
