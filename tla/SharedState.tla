----------------------------- MODULE SharedState -----------------------------
(***************************************************************************)
(* shared_state of Networking/src/shared_state.{cpp,hpp}: the registry of  *)
(* sessions, kept as raw pointers under a recursive mutex, and sendAsync,  *)
(* which any thread may call.  It copies weak pointers to the sessions     *)
(* into member vectors under the mutex and walks those after unlocking,    *)
(* promoting one pointer after the other.                                  *)
(*                                                                         *)
(* A session (WebSocketSession.tla, HttpSession.tla) is held by its own    *)
(* handlers, by the messages posted to it and by promoted pointers; the    *)
(* thread that drops the last of these runs its destructor, which removes  *)
(* it from the registry.  The callbacks run without the mutex and change   *)
(* nothing here.                                                           *)
(***************************************************************************)
EXTENDS Integers, Sequences, FiniteSets, SequencesExt

CONSTANTS
  Sessions,
  Kind,       \* Kind[s]: "ws" or "tcp" (each also with TLS)
  Endpoint,   \* Endpoint[s]: the peer of s
  Callers,    \* threads that call sendAsync and queue_sizes_summed
  MaxCalls,   \* bound: calls per caller
  NoSession,
  Nobody      \* the mutex is free

Kinds == {"ws", "tcp"}

Endpoints == {Endpoint[s] : s \in Sessions}

ASSUME SharedAssumption ==
  /\ IsFiniteSet(Sessions)
  /\ Kind \in [Sessions -> Kinds]
  /\ MaxCalls \in Nat
  /\ NoSession \notin Sessions
  /\ Nobody \notin Callers

VARIABLES
  life,      \* life[s]: "fresh", "open" (held by its handlers), "closed", "gone"
  registry,  \* the sessions in shared_state's sets
  inbox,     \* inbox[s]: messages posted to s and not handled yet
  mutex,     \* mutex_, where it is held for more than a step
  pool,      \* the member vectors, one after the other
  pc,        \* pc[a]: "idle", "send", "sum", "erase"
  to,        \* to[a]: the endpoints a's sendAsync is for
  at,        \* at[a]: position in the pool, or sessions summed so far
  promoted,  \* promoted[a]: the strong pointer sp (or strong)
  doomed,    \* doomed[a]: the session whose destructor a runs
  calls,     \* calls[a]: number of a's calls
  got,       \* history: got[a]: sessions a's current sendAsync reached
  snapshot,  \* history: snapshot[a]: sessions it was meant for and found registered
  called,    \* history: calls of sendAsync whose completion handler was called
  overwritten,  \* history: another sendAsync filled the pool while a walked it
  crashed       \* a walk over changed memory has brought the process down

sessionVars == <<life, registry, inbox>>
callVars == <<pc, to, at, promoted, doomed, calls, got, snapshot, overwritten>>
vars == <<sessionVars, mutex, pool, callVars, called, crashed>>

\* The message of a's current call.
Message(a) == <<a, calls[a]>>

Init ==
  /\ life = [s \in Sessions |-> "fresh"]
  /\ registry = {}
  /\ inbox = [s \in Sessions |-> {}]
  /\ mutex = Nobody /\ pool = <<>>
  /\ pc = [a \in Callers |-> "idle"]
  /\ to = [a \in Callers |-> {}]
  /\ at = [a \in Callers |-> 1]
  /\ promoted = [a \in Callers |-> NoSession]
  /\ doomed = [a \in Callers |-> NoSession]
  /\ calls = [a \in Callers |-> 0]
  /\ got = [a \in Callers |-> {}]
  /\ snapshot = [a \in Callers |-> {}]
  /\ called = {}
  /\ overwritten = [a \in Callers |-> FALSE]
  /\ crashed = FALSE

\* A strong pointer to s is left, by l, i and p.
HeldBy(s, l, i, p) ==
  l[s] \in {"fresh", "open"} \/ i[s] /= {} \/ \E a \in Callers : p[a] = s

\* weak_from_this().lock() succeeds.
Held(s) == HeldBy(s, life, inbox, promoted)

-----------------------------------------------------------------------------
(* Sessions *)

\* upgrade or join.
Register(s) ==
  /\ life[s] = "fresh" /\ mutex = Nobody
  /\ life' = [life EXCEPT ![s] = "open"]
  /\ registry' = registry \cup {s}
  /\ UNCHANGED <<inbox, mutex, pool, callVars, called, crashed>>

\* The session's last own handler ends.
Close(s) ==
  /\ life[s] = "open"
  /\ life' = [life EXCEPT ![s] = "closed"]
  /\ UNCHANGED <<registry, inbox, mutex, pool, callVars, called, crashed>>

\* A session calls the completion handler of a message posted to it, in the end.
Handle(s) ==
  /\ \E m \in inbox[s] :
       /\ inbox' = [inbox EXCEPT ![s] = @ \ {m}]
       /\ called' = called \cup {m}
  /\ UNCHANGED <<life, registry, mutex, pool, callVars, crashed>>

\* Mutant: the destructor does not unregister the session.
DestroyRegistered(s) ==
  /\ life[s] = "closed" /\ ~Held(s) /\ \A a \in Callers : doomed[a] /= s
  /\ mutex = Nobody
  /\ life' = [life EXCEPT ![s] = "gone"]
  /\ UNCHANGED <<registry, inbox, mutex, pool, callVars, called, crashed>>

\* downgrade or leave, from a destructor that runs on one of the session's own
\* threads.  Until it has the mutex the session is registered although nobody
\* can promote a pointer to it.
Destroy(s) ==
  /\ life[s] = "closed" /\ ~Held(s) /\ \A a \in Callers : doomed[a] /= s
  /\ mutex = Nobody
  /\ life' = [life EXCEPT ![s] = "gone"]
  /\ registry' = registry \ {s}
  /\ UNCHANGED <<inbox, mutex, pool, callVars, called, crashed>>

-----------------------------------------------------------------------------
(* sendAsync *)

Matches(s, K, E) == Kind[s] \in K /\ Endpoint[s] \in E

\* b is in its walk over the member vectors (or in a destructor it runs there).
Sending(b) == pc[b] \in {"send", "erase"} /\ mutex /= b

\* Under the mutex the vectors are filled with the sessions of the kinds wanted.
\* The weak pointer of a session whose destructor has begun has expired.  (One of a
\* websocket_session unregisters after its enable_shared_from_this base is destroyed,
\* when weak_from_this is formally undefined; what remains there names the control
\* block, which lives while weak pointers do, and says expired.)
Fill(a, K, E) ==
  /\ pc[a] = "idle" /\ calls[a] < MaxCalls /\ mutex = Nobody
  /\ pc' = [pc EXCEPT ![a] = "send"]
  /\ calls' = [calls EXCEPT ![a] = @ + 1]
  /\ to' = [to EXCEPT ![a] = E]
  /\ pool' = SetToSeq({s \in registry : Kind[s] \in K})
  /\ snapshot' = [snapshot EXCEPT ![a] = {s \in registry : Matches(s, K, E)}]
  /\ overwritten' = [b \in Callers |-> overwritten[b] \/ (b /= a /\ Sending(b))]
  /\ UNCHANGED <<sessionVars, mutex, at, promoted, doomed, got, called, crashed>>

\* To all sessions of some kinds, or to an endpoint.
SendAsync(a) ==
  \/ \E K \in SUBSET Kinds : Fill(a, K, Endpoints)
  \/ \E e \in Endpoints : Fill(a, Kinds, {e})

Walking(a) == pc[a] = "send" /\ promoted[a] = NoSession /\ ~crashed

\* Mutant: an expired pointer ends the walk.
PromoteOrStop(a) ==
  /\ Walking(a) /\ ~overwritten[a] /\ at[a] <= Len(pool)
  /\ IF Held(pool[at[a]])
     THEN promoted' = [promoted EXCEPT ![a] = pool[at[a]]] /\ UNCHANGED at
     ELSE at' = [at EXCEPT ![a] = Len(pool) + 1] /\ UNCHANGED promoted
  /\ UNCHANGED <<sessionVars, mutex, pool, pc, to, doomed, calls, got,
                 snapshot, overwritten, called, crashed>>

\* wp.lock(): an expired pointer is passed over.
Promote(a) ==
  /\ Walking(a) /\ ~overwritten[a] /\ at[a] <= Len(pool)
  /\ IF Held(pool[at[a]])
     THEN promoted' = [promoted EXCEPT ![a] = pool[at[a]]] /\ UNCHANGED at
     ELSE at' = [at EXCEPT ![a] = @ + 1] /\ UNCHANGED promoted
  /\ UNCHANGED <<sessionVars, mutex, pool, pc, to, doomed, calls, got,
                 snapshot, overwritten, called, crashed>>

\* Another call has cleared and refilled the vectors under the walk, without
\* synchronisation: it finds another pointer there, or none, or reads freed memory.
PromoteOther(a) ==
  /\ Walking(a) /\ overwritten[a] /\ at[a] <= Cardinality(Sessions)
  /\ \/ \E s \in {x \in Sessions : Held(x) /\ life[x] /= "fresh"} :
          promoted' = [promoted EXCEPT ![a] = s] /\ UNCHANGED <<at, crashed>>
     \/ at' = [at EXCEPT ![a] = @ + 1] /\ UNCHANGED <<promoted, crashed>>
     \/ crashed' = TRUE /\ UNCHANGED <<promoted, at>>
  /\ UNCHANGED <<sessionVars, mutex, pool, pc, to, doomed, calls, got,
                 snapshot, overwritten, called>>

\* The strong pointer goes out of scope with posted messages i around; if it was
\* the last, the destructor runs here.
DropPointer(a, i, next) ==
  LET s == promoted[a] IN
  /\ promoted' = [promoted EXCEPT ![a] = NoSession]
  /\ at' = [at EXCEPT ![a] = @ + 1]
  /\ IF HeldBy(s, life, i, promoted')
     THEN pc' = [pc EXCEPT ![a] = next] /\ UNCHANGED doomed
     ELSE pc' = [pc EXCEPT ![a] = "erase"] /\ doomed' = [doomed EXCEPT ![a] = s]

\* sp->sendAsync posts the message, unless the endpoint is another.
Post(a) ==
  /\ pc[a] = "send" /\ promoted[a] /= NoSession
  /\ IF Endpoint[promoted[a]] \in to[a]
     THEN /\ inbox' = [inbox EXCEPT ![promoted[a]] = @ \cup {Message(a)}]
          /\ got' = [got EXCEPT ![a] = @ \cup {promoted[a]}]
     ELSE UNCHANGED <<inbox, got>>
  /\ DropPointer(a, inbox', "send")
  /\ UNCHANGED <<life, registry, mutex, pool, to, calls,
                 snapshot, overwritten, called, crashed>>

WalkEnds(a) ==
  /\ Walking(a)
  /\ at[a] > Len(pool) \/ overwritten[a]

\* The call is over and its local variables are gone.
Return(a) ==
  /\ pc' = [pc EXCEPT ![a] = "idle"]
  /\ at' = [at EXCEPT ![a] = 1]
  /\ to' = [to EXCEPT ![a] = {}]
  /\ got' = [got EXCEPT ![a] = {}] /\ snapshot' = [snapshot EXCEPT ![a] = {}]
  /\ overwritten' = [overwritten EXCEPT ![a] = FALSE]
  /\ UNCHANGED <<sessionVars, pool, promoted, doomed, calls, crashed>>

\* Mutant: the handler is left to the sessions, even if there is none.
FinishSilently(a) ==
  /\ WalkEnds(a)
  /\ Return(a)
  /\ UNCHANGED <<mutex, called>>

\* A message that reached nobody is answered with not_connected.
Finish(a) ==
  /\ WalkEnds(a)
  /\ called' = IF got[a] = {} THEN called \cup {Message(a)} ELSE called
  /\ Return(a)
  /\ UNCHANGED mutex

-----------------------------------------------------------------------------
(* queue_sizes_summed: promotes each registered session with the mutex held. *)

\* (With no session registered the call changes nothing.)
SumStart(a) ==
  /\ pc[a] = "idle" /\ mutex = Nobody /\ registry /= {}
  /\ calls[a] < MaxCalls
  /\ calls' = [calls EXCEPT ![a] = @ + 1]
  /\ mutex' = a
  /\ pc' = [pc EXCEPT ![a] = "sum"]
  /\ snapshot' = [snapshot EXCEPT ![a] = registry]
  /\ UNCHANGED <<sessionVars, pool, to, at, promoted, doomed, got,
                 overwritten, called, crashed>>

Unsummed(a) == snapshot[a] \ got[a]

SumPromote(a) ==
  /\ pc[a] = "sum" /\ promoted[a] = NoSession
  /\ \E s \in Unsummed(a) :
       /\ got' = [got EXCEPT ![a] = @ \cup {s}]
       /\ promoted' = [promoted EXCEPT ![a] = IF Held(s) THEN s ELSE NoSession]
  /\ UNCHANGED <<sessionVars, mutex, pool, pc, to, at, doomed, calls,
                 snapshot, overwritten, called, crashed>>

SumDrop(a) ==
  /\ pc[a] = "sum" /\ promoted[a] /= NoSession
  /\ DropPointer(a, inbox, "sum")
  /\ UNCHANGED <<sessionVars, mutex, pool, to, calls, got, snapshot,
                 overwritten, called, crashed>>

SumEnds(a) ==
  /\ pc[a] = "sum" /\ promoted[a] = NoSession /\ Unsummed(a) = {}
  /\ mutex' = Nobody
  /\ Return(a)
  /\ UNCHANGED called

\* The destructor of a session whose last pointer a dropped.  In the middle of
\* queue_sizes_summed the recursive mutex lets it erase the element the loop
\* stands on; the loop then goes on from freed memory, or crashes.
Erase(a) ==
  LET s == doomed[a] IN
  /\ pc[a] = "erase" /\ mutex \in {Nobody, a}
  /\ life' = [life EXCEPT ![s] = "gone"]
  /\ registry' = registry \ {s}
  /\ doomed' = [doomed EXCEPT ![a] = NoSession]
  /\ pc' = [pc EXCEPT ![a] = IF mutex = a THEN "sum" ELSE "send"]
  /\ crashed' \in IF mutex = a THEN BOOLEAN ELSE {crashed}
  /\ UNCHANGED <<inbox, mutex, pool, to, at, promoted,
                 calls, got, snapshot, overwritten, called>>

-----------------------------------------------------------------------------

CallStep(a) ==
  \/ Promote(a) \/ PromoteOther(a) \/ Post(a) \/ Finish(a)
  \/ SumPromote(a) \/ SumDrop(a) \/ SumEnds(a)
  \/ Erase(a)

Next ==
  /\ ~crashed
  /\ \/ \E s \in Sessions : Register(s) \/ Close(s) \/ Handle(s) \/ Destroy(s)
     \/ \E a \in Callers : SendAsync(a) \/ SumStart(a) \/ CallStep(a)

Spec == Init /\ [][Next]_vars

\* A call in progress goes on, and sessions handle what is posted to them
\* (EventuallyHandled of WebSocketSession, EverythingAnswered of HttpSession).
FairSpec ==
  /\ Spec
  /\ \A a \in Callers : WF_vars(~crashed /\ CallStep(a))
  /\ \A s \in Sessions : WF_vars(~crashed /\ Handle(s))

-----------------------------------------------------------------------------
(* Properties *)

Messages == Callers \X (1 .. MaxCalls)

\* Type invariant; part of RegistryValid.
TypeOK ==
  /\ life \in [Sessions -> {"fresh", "open", "closed", "gone"}]
  /\ registry \subseteq Sessions
  /\ inbox \in [Sessions -> SUBSET Messages]
  /\ mutex \in Callers \cup {Nobody}
  /\ pool \in Seq(Sessions)
  /\ pc \in [Callers -> {"idle", "send", "sum", "erase"}]
  /\ to \in [Callers -> SUBSET Endpoints]
  /\ at \in [Callers -> 1 .. Cardinality(Sessions) + 2]
  /\ promoted \in [Callers -> Sessions \cup {NoSession}]
  /\ doomed \in [Callers -> Sessions \cup {NoSession}]
  /\ calls \in [Callers -> 0 .. MaxCalls]
  /\ got \in [Callers -> SUBSET Sessions] /\ snapshot \in [Callers -> SUBSET Sessions]
  /\ called \subseteq Messages
  /\ overwritten \in [Callers -> BOOLEAN] /\ crashed \in BOOLEAN

\* The raw pointers of the registry are good: a session is there from its upgrade
\* or join until its destructor has removed it, whoever runs that; and nobody
\* holds or posts to one that is gone.
RegistryValid ==
  /\ TypeOK
  /\ \A s \in Sessions :
       /\ s \in registry <=> life[s] \in {"open", "closed"}
       /\ life[s] = "gone" => ~Held(s)

\* A sendAsync that is over has reached each session it was meant for that was
\* registered at its start and is still open, and no session it was not meant
\* for, unless another call filled the member vectors under its walk.
ReachesItsSessions ==
  \A a \in Callers :
    WalkEnds(a) /\ ~overwritten[a] =>
      /\ got[a] \subseteq snapshot[a]
      /\ \A s \in snapshot[a] : life[s] = "open" => s \in got[a]

\* The completion handler of every sendAsync is called, by a session or with
\* not_connected if there was none, and every call returns: none waits for ever
\* for the mutex, which destructors take too.  (Unless a walk over changed memory
\* crashes.)
HandlerCalled ==
  \A a \in Callers :
    /\ \A n \in 1 .. MaxCalls :
         pc[a] = "send" /\ calls[a] = n ~> <<a, n>> \in called \/ crashed
    /\ pc[a] /= "idle" ~> pc[a] = "idle" \/ crashed
=============================================================================
