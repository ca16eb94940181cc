---------------------------- MODULE Clients_proofs ----------------------------
(***************************************************************************)
(* Proofs about ClientOnContext (and so about TcpClient and GuardedContext *)
(* composed in it) for any threads, any callers of Shutdown, and any       *)
(* number of runs, writes and closes; and about Discovery (and so about    *)
(* UDPReceiver) for any servers, datagrams and calls of SendAsync.         *)
(***************************************************************************)
EXTENDS ClientOnContext, Discovery, FiniteSetTheorems, SequenceTheorems, TLAPS

-----------------------------------------------------------------------------
(* The invariant of the context *)

ContextTypes ==
  /\ worker \in [Workers -> {"none", "running", "busy", "exited"}]
  /\ pc \in [Callers -> {"idle", "callback", "stop", "join", "returned"}]
  /\ joining \in [Callers -> SUBSET Workers]
  /\ callback \in BOOLEAN /\ stopped \in BOOLEAN /\ destroyed \in BOOLEAN

\* The callback is called by the first Shutdown and by no other.
CalledOnce ==
  /\ called = IF callback THEN 0 ELSE 1
  /\ \A c \in Callers : pc[c] \in {"stop", "join", "returned"} => ~callback

\* After its stop a Shutdown waits for every thread in a handler, and no handler
\* is left when it returns: none begins on a stopped context.
Quiet ==
  \A c \in Callers : pc[c] \in {"join", "returned"} =>
    /\ stopped
    /\ \A t \in Workers : worker[t] = "busy" => pc[c] = "join" /\ t \in joining[c]

\* The owner, whom no Spawn follows, waits for the threads in run() too.
OwnerWaits ==
  /\ destroyed => pc[Owner] = "returned"
  /\ pc[Owner] \in {"join", "returned"} =>
       \A t \in Workers : worker[t] \in {"running", "busy"} =>
         pc[Owner] = "join" /\ t \in joining[Owner]

ContextInv == ContextTypes /\ CalledOnce /\ Quiet /\ OwnerWaits

-----------------------------------------------------------------------------
(* The invariant of the client *)

Operations == {"resolve", "connect", "handshake", "read", "write"}

ClientTypes ==
  /\ ops \subseteq [op : Operations, n : Nat]
  /\ ready \subseteq [op : Operations \cup {"schedule", "close"}, n : Nat, ok : BOOLEAN]
  /\ write_msgs_ \in Seq(Nat)
  /\ runs \in Nat /\ writes \in Nat /\ closeCalls \in Nat
  /\ connected_ \in BOOLEAN /\ orphaned \in BOOLEAN /\ gone \in BOOLEAN

Pending(O) == {x \in ops \cup ready : x.op \in O}

\* There is one attempt to connect at a time, and none while there is a connection:
\* so no successful attempt accepts a connection twice.
OneAttempt ==
  /\ \A x, y \in Pending(Attempts) : x = y
  /\ connected_ => Pending(Attempts) = {}

\* A connection is read from until it is closed, which keeps its client alive.
Reading == connected_ /\ ~orphaned => Pending({"read"}) /= {}

\* OneWriteUnderWay without counting.
Writing ==
  ~orphaned =>
    /\ \A x, y \in WritesUnderWay : x = y
    /\ WritesUnderWay = {} <=> write_msgs_ = <<>>
    /\ \A x \in WritesUnderWay : x.n = Head(write_msgs_)

\* A destroyed client, or one whose context went first, has nothing under way.
Ended ==
  /\ gone \/ orphaned => ops = {} /\ ready = {}
  /\ gone /\ connected_ => orphaned

ClientInv ==
  ClientTypes /\ OneAttempt /\ Reading /\ Writing /\ Ended /\ CallbacksPaired

IInv == ContextInv /\ ClientInv /\ (orphaned => destroyed)

-----------------------------------------------------------------------------
(* The context *)

\* The caller's part of the invariant does not see a worker that does not begin.
LEMMA ContextStays ==
  ASSUME ContextInv, UNCHANGED contextVars
  PROVE  ContextInv'
BY DEF ContextInv, ContextTypes, CalledOnce, Quiet, OwnerWaits, contextVars

\* A handler begins or a signal stops the context: it was not stopped, so no
\* Shutdown has got as far as its loop.
LEMMA BeginStep ==
  ASSUME ContextInv, NEW t \in Workers, BeginHandler(t), stopped' \in {stopped, TRUE},
         UNCHANGED <<mutex, pc, joining, callback, called, destroyed>>
  PROVE  ContextInv'
<1>1. ContextTypes'
  BY ContextAssumption DEF ContextInv, ContextTypes, BeginHandler
<1>2. \A c \in Callers : pc[c] \notin {"join", "returned"}
  BY DEF ContextInv, Quiet, BeginHandler
<1>3. Quiet' /\ OwnerWaits'
  BY <1>2, ContextAssumption DEF ContextInv, Quiet, OwnerWaits
<1>4. CalledOnce'
  BY DEF ContextInv, CalledOnce
<1> QED BY <1>1, <1>3, <1>4 DEF ContextInv

\* Threads are spawned, return from handlers and leave run().
LEMMA WorkerStepKeeps ==
  ASSUME ContextInv, NEW t \in Workers, Spawn(t) \/ WorkerStep(t)
  PROVE  ContextInv'
<1>1. ContextTypes'
  BY DEF ContextInv, ContextTypes, Spawn, WorkerStep, EndHandler, Exit
<1>2. CalledOnce'
  BY DEF ContextInv, CalledOnce, Spawn, WorkerStep, EndHandler, Exit
<1>3. Quiet'
  BY DEF ContextInv, ContextTypes, Quiet, Spawn, WorkerStep, EndHandler, Exit
<1>4. OwnerWaits'
  BY DEF ContextInv, ContextTypes, OwnerWaits, Spawn, WorkerStep, EndHandler, Exit
<1> QED BY <1>1, <1>2, <1>3, <1>4 DEF ContextInv

\* Every step of Shutdown, by whichever caller and to its early return, keeps the
\* invariant.
LEMMA ShutdownKeeps ==
  ASSUME ContextInv, NEW c \in Callers, ShutdownStep(c)
  PROVE  ContextInv'
<1> USE ContextAssumption DEF ContextInv
<1>1. CASE Enter(c)
  BY <1>1 DEF Enter, ContextTypes, CalledOnce, Quiet, OwnerWaits
<1>2. CASE Callback(c)
  <2>1. ContextTypes'
    BY <1>2 DEF Callback, ContextTypes
  <2>2. called' = 1 /\ callback' = FALSE
    BY <1>2 DEF Callback, ContextTypes, CalledOnce
  <2>3. CalledOnce'
    BY <2>2 DEF CalledOnce
  <2>4. Quiet' /\ OwnerWaits'
    BY <1>2 DEF Callback, ContextTypes, Quiet, OwnerWaits
  <2> QED BY <2>1, <2>3, <2>4
<1>3. CASE Stop(c)
  BY <1>3 DEF Stop, ContextTypes, CalledOnce, Quiet, OwnerWaits
<1>4. CASE Return(c)
  BY <1>4 DEF Return, ContextTypes, CalledOnce, Quiet, OwnerWaits
<1>5. ASSUME NEW t \in Workers, Join(c, t) PROVE ContextInv'
  BY <1>5 DEF Join, ContextTypes, CalledOnce, Quiet, OwnerWaits
<1> QED BY <1>1, <1>2, <1>3, <1>4, <1>5 DEF ShutdownStep

-----------------------------------------------------------------------------
(* How operations and handlers follow one another *)

\* What was pending and is not in done is still pending, perhaps with a result
\* (op and n do not change), and the rest of what is pending is new.
Evolve(done, new) ==
  \E f :
    /\ \A x \in (ops \cup ready) \ done : f[x].op = x.op /\ f[x].n = x.n
    /\ ops' \cup ready' = {f[x] : x \in (ops \cup ready) \ done} \cup new

\* Nothing is both under way and ready to run.
LEMMA Disjoint ==
  ASSUME ClientTypes
  PROVE  ops \cap ready = {}
<1>1. \A x \in [op : Operations, n : Nat] : "ok" \notin DOMAIN x
  OBVIOUS
<1>2. \A x \in [op : Operations \cup {"schedule", "close"}, n : Nat, ok : BOOLEAN] :
        "ok" \in DOMAIN x
  OBVIOUS
<1> QED BY <1>1, <1>2 DEF ClientTypes

\* Nothing changes but what is done and what is new.
LEMMA KeptEvolves ==
  ASSUME NEW done, NEW new, ops' \cup ready' = ((ops \cup ready) \ done) \cup new
  PROVE  Evolve(done, new)
<1> DEFINE f == [x \in ops \cup ready |-> x]
<1>1. \A x \in (ops \cup ready) \ done : f[x] = x
  OBVIOUS
<1>2. {f[x] : x \in (ops \cup ready) \ done} = (ops \cup ready) \ done
  BY <1>1
<1> HIDE DEF f
<1> QED BY <1>1, <1>2 DEF Evolve

\* The network completes an operation.
LEMMA CompleteEvolves ==
  ASSUME ClientTypes, NEW x, NEW ok, Complete(x, ok)
  PROVE  Evolve({}, {})
<1> DEFINE f == [y \in ops \cup ready |-> IF y = x THEN Result(x, ok) ELSE y]
<1>1. \A y \in ops \cup ready : f[y].op = y.op /\ f[y].n = y.n
  BY DEF Result
<1>2. x \in ops /\ x \notin ready
  BY Disjoint DEF Complete
<1>3. {f[y] : y \in ops \cup ready} = (ops \ {x}) \cup ready \cup {Result(x, ok)}
  BY <1>2
<1>4. ops' \cup ready' = (ops \ {x}) \cup ready \cup {Result(x, ok)}
  BY DEF Complete
<1> HIDE DEF f
<1> QED BY <1>1, <1>3, <1>4 DEF Evolve

\* The socket is closed: operations on it fail.
LEMMA CutEvolves ==
  ASSUME ClientTypes, NEW h \in ready, NEW new,
         ops' = (ops \ OnSocket) \cup new, ready' = (ready \ {h}) \cup Aborted
  PROVE  Evolve({h}, new)
<1> DEFINE f == [x \in ops \cup ready |-> IF x \in OnSocket THEN Result(x, FALSE) ELSE x]
<1>1. \A x \in ops \cup ready : f[x].op = x.op /\ f[x].n = x.n
  BY DEF Result
<1>2. OnSocket \subseteq ops /\ OnSocket \cap ready = {}
  BY Disjoint DEF OnSocket
<1>3. {f[x] : x \in (ops \cup ready) \ {h}} = (ops \ OnSocket) \cup (ready \ {h}) \cup Aborted
  BY <1>2, Disjoint DEF Aborted
<1> HIDE DEF f
<1> QED BY <1>1, <1>3 DEF Evolve

\* Either no attempt is new, or the only one that was pending is done.
LEMMA AttemptsFollow ==
  ASSUME OneAttempt, NEW done, NEW new, Evolve(done, new),
         \/ (\A x \in new : x.op \notin Attempts) /\ (connected_' => connected_)
         \/ /\ Pending(Attempts) \subseteq done
            /\ \A x, y \in new : x = y
            /\ connected_' => \A x \in new : x.op \notin Attempts
  PROVE  OneAttempt'
<1>1. PICK f : /\ \A x \in (ops \cup ready) \ done : f[x].op = x.op /\ f[x].n = x.n
               /\ ops' \cup ready' = {f[x] : x \in (ops \cup ready) \ done} \cup new
  BY DEF Evolve
<1>2. Pending(Attempts)' = {f[x] : x \in Pending(Attempts) \ done} \cup {y \in new : y.op \in Attempts}
  BY <1>1 DEF Pending, Attempts
<1> QED BY <1>2 DEF OneAttempt

\* The reading is done only with the connection, or goes on.
LEMMA ReadingFollows ==
  ASSUME Reading, NEW done, NEW new, Evolve(done, new), orphaned' = orphaned,
         \/ ~connected_'
         \/ (connected_' => connected_) /\ \A x \in done : x.op /= "read"
         \/ \E x \in new : x.op = "read"
  PROVE  Reading'
<1>1. PICK f : /\ \A x \in (ops \cup ready) \ done : f[x].op = x.op /\ f[x].n = x.n
               /\ ops' \cup ready' = {f[x] : x \in (ops \cup ready) \ done} \cup new
  BY DEF Evolve
<1>2. Pending({"read"})' = {f[x] : x \in Pending({"read"}) \ done} \cup {y \in new : y.op \in {"read"}}
  BY <1>1 DEF Pending
<1> QED BY <1>2 DEF Reading, Pending

\* Either the front of the queue and its writing stay, or the writing is done (or
\* there was none) and that of the new front is new.
LEMMA WritingFollows ==
  ASSUME Writing, NEW done, NEW new, Evolve(done, new), orphaned' = orphaned,
         \/ /\ \A x \in done \cup new : x.op /= "write"
            /\ write_msgs_' = <<>> <=> write_msgs_ = <<>>
            /\ write_msgs_ /= <<>> => Head(write_msgs_') = Head(write_msgs_)
         \/ /\ WritesUnderWay \subseteq done
            /\ \A x, y \in new : x = y
            /\ new = {} <=> write_msgs_' = <<>>
            /\ \A x \in new : x.op = "write" /\ x.n = Head(write_msgs_')
  PROVE  Writing'
<1>1. PICK f : /\ \A x \in (ops \cup ready) \ done : f[x].op = x.op /\ f[x].n = x.n
               /\ ops' \cup ready' = {f[x] : x \in (ops \cup ready) \ done} \cup new
  BY DEF Evolve
<1>2. /\ WritesUnderWay' = {f[x] : x \in WritesUnderWay \ done} \cup {y \in new : y.op = "write"}
      /\ \A x \in WritesUnderWay \ done : f[x].n = x.n
  BY <1>1 DEF WritesUnderWay
<1>3. CASE /\ \A x \in done \cup new : x.op /= "write"
           /\ write_msgs_' = <<>> <=> write_msgs_ = <<>>
           /\ write_msgs_ /= <<>> => Head(write_msgs_') = Head(write_msgs_)
  <2>1. WritesUnderWay' = {f[x] : x \in WritesUnderWay} /\ \A x \in WritesUnderWay : f[x].n = x.n
    BY <1>2, <1>3 DEF WritesUnderWay
  <2>2. (\A x, y \in WritesUnderWay : x = y) => \A x, y \in WritesUnderWay' : x = y
    BY <2>1
  <2>3. WritesUnderWay' = {} <=> WritesUnderWay = {}
    BY <2>1
  <2>4. \A x \in WritesUnderWay' : \E y \in WritesUnderWay : x.n = y.n
    BY <2>1
  <2> QED BY <1>3, <2>2, <2>3, <2>4 DEF Writing
<1>4. CASE /\ WritesUnderWay \subseteq done
           /\ \A x, y \in new : x = y
           /\ new = {} <=> write_msgs_' = <<>>
           /\ \A x \in new : x.op = "write" /\ x.n = Head(write_msgs_')
  <2>1. WritesUnderWay' = new
    BY <1>2, <1>4
  <2> QED BY <1>4, <2>1 DEF Writing
<1> QED BY <1>3, <1>4

-----------------------------------------------------------------------------
(* The handlers *)

OperationRecords == [op : Operations, n : Nat]
HandlerRecords == [op : Operations \cup {"schedule", "close"}, n : Nat, ok : BOOLEAN]

\* What is started, completed and aborted is of its type.
LEMMA RecordTypes ==
  ASSUME ClientTypes
  PROVE  /\ ops \subseteq OperationRecords /\ ready \subseteq HandlerRecords
         /\ \A x \in OperationRecords, ok \in BOOLEAN : Result(x, ok) \in HandlerRecords
         /\ \A o \in Operations, n \in Nat : Op(o, n) \in OperationRecords
         /\ Aborted \subseteq HandlerRecords
         /\ OnSocket \subseteq ops
<1>1. ops \subseteq OperationRecords /\ ready \subseteq HandlerRecords
  BY DEF ClientTypes, OperationRecords, HandlerRecords
<1>2. \A x \in OperationRecords, ok \in BOOLEAN : Result(x, ok) \in HandlerRecords
  BY DEF OperationRecords, HandlerRecords, Result
<1>3. \A o \in Operations, n \in Nat : Op(o, n) \in OperationRecords
  BY DEF OperationRecords, Op
<1>4. OnSocket \subseteq ops
  BY DEF OnSocket
<1>5. Aborted \subseteq HandlerRecords
  BY <1>1, <1>2, <1>4 DEF Aborted
<1> QED BY <1>1, <1>2, <1>3, <1>4, <1>5

\* The end of a connection, or a handler that finds none: reading, writing and
\* the user's close all go this way, each in whatever state the others left.
LEMMA HandleCloseKeeps ==
  ASSUME ClientInv, NEW h \in ready, HandleClose(ready \ {h}),
         UNCHANGED <<userVars, fateVars>>,
         \/ h.op /= "write" /\ write_msgs_' = write_msgs_
         \/ h.op = "write" /\ write_msgs_' = <<>>
  PROVE  ClientInv'
<1>1. ClientTypes
  BY DEF ClientInv
<1>2. Evolve({h}, {}) /\ connected_' = FALSE /\ owed' = 0 /\ ClientTypes'
  <2>1. ClientTypes'
    <3>1. ops' \subseteq OperationRecords /\ ready' \subseteq HandlerRecords
      BY <1>1, RecordTypes DEF HandleClose
    <3>2. write_msgs_' \in Seq(Nat)
      <4>1. write_msgs_ \in Seq(Nat) /\ <<>> \in Seq(Nat)
        BY <1>1 DEF ClientTypes
      <4>2. write_msgs_' = write_msgs_ \/ write_msgs_' = <<>>
        OBVIOUS
      <4> QED BY <4>1, <4>2
    <3>3. connected_' \in BOOLEAN
      BY <1>1 DEF ClientTypes, HandleClose, connVars
    <3> QED BY <1>1, <3>1, <3>2, <3>3
         DEF ClientTypes, OperationRecords, HandlerRecords, userVars, fateVars
  <2>2. CASE connected_
    <3>1. ops' = ops \ OnSocket /\ ready' = (ready \ {h}) \cup Aborted
      BY <2>2 DEF HandleClose
    <3>2. Evolve({h}, {})
      BY <1>1, <3>1, CutEvolves
    <3>3. connected_' = FALSE /\ owed' = 0
      BY <2>2 DEF HandleClose, ClientInv, CallbacksPaired
    <3> QED BY <2>1, <3>2, <3>3
  <2>3. CASE ~connected_
    <3>1. ops' = ops /\ ready' = ready \ {h} /\ h \notin ops
      BY <1>1, <2>3, Disjoint DEF HandleClose
    <3>2. Evolve({h}, {})
      BY <3>1, KeptEvolves
    <3>3. connected_' = FALSE /\ owed' = 0
      BY <1>1, <2>3 DEF HandleClose, ClientInv, CallbacksPaired, ClientTypes, connVars
    <3> QED BY <2>1, <3>2, <3>3
  <2> QED BY <2>2, <2>3
<1>3. OneAttempt'
  BY <1>2, AttemptsFollow DEF ClientInv
<1>4. Reading'
  BY <1>2, ReadingFollows DEF ClientInv, fateVars
<1>5. Writing'
  <2>1. ~orphaned
    BY DEF ClientInv, Ended
  <2>2. CASE h.op = "write"
    <3>1. WritesUnderWay \subseteq {h}
      BY <2>1, <2>2 DEF ClientInv, Writing, WritesUnderWay
    <3> QED BY <1>2, <2>2, <3>1, WritingFollows DEF ClientInv, fateVars
  <2>3. CASE h.op /= "write"
    BY <1>2, <2>3, WritingFollows DEF ClientInv, fateVars
  <2> QED BY <2>2, <2>3
<1>6. Ended' /\ CallbacksPaired'
  BY <1>2 DEF ClientInv, Ended, CallbacksPaired, fateVars
<1> QED BY <1>2, <1>3, <1>4, <1>5, <1>6 DEF ClientInv

\* The queue does not see the handlers of the chain of connecting and reading.
LEMMA OtherWritings ==
  ASSUME ClientInv, NEW h \in ready, h.op /= "write", NEW new, Evolve({h}, new),
         \A x \in new : x.op /= "write", UNCHANGED <<write_msgs_, fateVars>>
  PROVE  Writing'
BY WritingFollows DEF ClientInv, fateVars

\* on_resolve: the attempt goes on, on a new socket, or is over.
LEMMA OnResolveKeeps ==
  ASSUME ClientInv, NEW h \in ready, h.op = "resolve", OnResolve(h, ready \ {h}),
         UNCHANGED <<userVars, fateVars>>
  PROVE  ClientInv'
<1> DEFINE new == IF h.ok THEN {Op("connect", h.n)} ELSE {}
<1>1. ClientTypes /\ h.n \in Nat /\ h \notin ops
  BY Disjoint DEF ClientInv, ClientTypes
<1>2. /\ connected_' = connected_ /\ owed' = owed /\ write_msgs_' = write_msgs_
      /\ \A x \in new : x.op = "connect"
      /\ \A x, y \in new : x = y
  BY DEF OnResolve, Op
<1>3. Evolve({h}, new)
  <2>1. CASE h.ok
    BY <1>1, <2>1, CutEvolves DEF OnResolve
  <2>2. CASE ~h.ok
    BY <1>1, <2>2, KeptEvolves DEF OnResolve
  <2> QED BY <2>1, <2>2
<1>4. ClientTypes'
  <2>1. Op("connect", h.n) \in OperationRecords
    BY <1>1, RecordTypes DEF Operations
  <2>2. ops' \subseteq OperationRecords /\ ready' \subseteq HandlerRecords
    BY <1>1, <2>1, RecordTypes DEF OnResolve
  <2> QED BY <1>1, <1>2, <2>2 DEF ClientTypes, OperationRecords, HandlerRecords, userVars, fateVars
<1> HIDE DEF new
<1>5. OneAttempt'
  <2>1. Pending(Attempts) \subseteq {h} /\ ~connected_
    BY DEF ClientInv, OneAttempt, Pending, Attempts
  <2>2. ~connected_'
    BY <1>2, <2>1
  <2> QED BY <1>2, <1>3, <2>1, <2>2, AttemptsFollow DEF ClientInv
<1>6. Reading'
  BY <1>2, <1>3, ReadingFollows DEF ClientInv, fateVars
<1>7. Writing'
  BY <1>2, <1>3, OtherWritings
<1>8. Ended' /\ CallbacksPaired'
  BY <1>2 DEF ClientInv, Ended, CallbacksPaired, fateVars
<1> QED BY <1>4, <1>5, <1>6, <1>7, <1>8 DEF ClientInv

\* A step of the chain that starts the operation o.
LEMMA ChainTypes ==
  ASSUME ClientTypes, NEW h \in ready, NEW o \in Operations,
         ops' = ops \cup {Op(o, h.n)}, ready' = ready \ {h}, connected_' \in BOOLEAN,
         UNCHANGED <<write_msgs_, userVars, fateVars>>
  PROVE  /\ ClientTypes' /\ Evolve({h}, {Op(o, h.n)}) /\ Op(o, h.n).op = o
         /\ \A x \in {Op(o, h.n)} : x.op = o
<1>1. h.n \in Nat /\ h \notin ops
  BY Disjoint DEF ClientTypes
<1>2. Evolve({h}, {Op(o, h.n)})
  BY <1>1, KeptEvolves
<1>3. Op(o, h.n) \in OperationRecords /\ Op(o, h.n).op = o
  BY <1>1, RecordTypes DEF Op
<1>4. ops' \subseteq OperationRecords /\ ready' \subseteq HandlerRecords
  BY <1>3, RecordTypes
<1> QED BY <1>2, <1>3, <1>4 DEF ClientTypes, OperationRecords, HandlerRecords, userVars, fateVars

\* The attempt succeeds: nobody has accepted a connection while it was under way.
LEMMA FinishKeeps ==
  ASSUME ClientInv, NEW h \in ready, h.op \in Attempts, Finish(h, ready \ {h}),
         UNCHANGED <<userVars, fateVars>>
  PROVE  ClientInv'
<1>1. CASE ~h.ok
  <2>1. h.op /= "write"
    BY DEF Attempts
  <2> QED BY <1>1, <2>1, HandleCloseKeeps DEF Finish
<1>2. CASE h.ok
  <2>1. /\ connected_' = TRUE /\ owed' = owed + 1 /\ write_msgs_' = write_msgs_
        /\ ops' = ops \cup {Op("read", h.n)} /\ ready' = ready \ {h}
    BY <1>2 DEF Finish
  <2>2. /\ ClientTypes' /\ Evolve({h}, {Op("read", h.n)})
        /\ \A x \in {Op("read", h.n)} : x.op = "read"
    BY <2>1, ChainTypes DEF ClientInv, Operations
  <2>3. Pending(Attempts) \subseteq {h} /\ ~connected_
    BY DEF ClientInv, OneAttempt, Pending
  <2>4. OneAttempt'
    <3>1. \A x \in {Op("read", h.n)} : x.op \notin Attempts
      BY <2>2 DEF Attempts
    <3> QED BY <2>2, <2>3, <3>1, AttemptsFollow DEF ClientInv
  <2>5. Reading'
    BY <2>2, ReadingFollows DEF ClientInv, fateVars
  <2>6. Writing'
    <3>1. h.op /= "write" /\ \A x \in {Op("read", h.n)} : x.op /= "write"
      BY <2>2 DEF Attempts
    <3> QED BY <2>1, <2>2, <3>1, OtherWritings
  <2>7. Ended' /\ CallbacksPaired'
    <3>1. owed' = 1
      BY <2>1, <2>3 DEF ClientInv, CallbacksPaired
    <3> QED BY <2>1, <3>1 DEF ClientInv, Ended, CallbacksPaired, fateVars
  <2> QED BY <2>2, <2>4, <2>5, <2>6, <2>7 DEF ClientInv
<1> QED BY <1>1, <1>2

\* on_connect keeps the invariant, whether the connection succeeded, failed or
\* was closed.
LEMMA OnConnectKeeps ==
  ASSUME ClientInv, NEW h \in ready, h.op = "connect", OnConnect(h, ready \ {h}),
         UNCHANGED <<userVars, fateVars>>
  PROVE  ClientInv'
<1>0. h.op \in Attempts
  BY DEF Attempts
<1>1. CASE ~(secure /\ h.ok)
  BY <1>0, <1>1, FinishKeeps DEF OnConnect
<1>2. CASE secure /\ h.ok
  <2>1. /\ connected_' = connected_ /\ owed' = owed /\ write_msgs_' = write_msgs_
        /\ ops' = ops \cup {Op("handshake", h.n)} /\ ready' = ready \ {h}
    BY <1>2 DEF OnConnect, connVars
  <2>2. connected_' \in BOOLEAN
    BY <2>1 DEF ClientInv, ClientTypes
  <2>3. /\ ClientTypes' /\ Evolve({h}, {Op("handshake", h.n)})
        /\ \A x \in {Op("handshake", h.n)} : x.op = "handshake"
    BY <2>1, <2>2, ChainTypes DEF ClientInv, Operations
  <2>4. OneAttempt'
    <3>1. Pending(Attempts) \subseteq {h} /\ ~connected_'
      BY <1>0, <2>1 DEF ClientInv, OneAttempt, Pending
    <3> QED BY <2>3, <3>1, AttemptsFollow DEF ClientInv
  <2>5. Reading'
    BY <2>1, <2>3, ReadingFollows DEF ClientInv, fateVars
  <2>6. Writing'
    BY <2>1, <2>3, OtherWritings
  <2>7. Ended' /\ CallbacksPaired'
    BY <2>1 DEF ClientInv, Ended, CallbacksPaired, fateVars
  <2> QED BY <2>3, <2>4, <2>5, <2>6, <2>7 DEF ClientInv
<1> QED BY <1>1, <1>2

\* on_read keeps the invariant, also when it finds the client closed.
LEMMA OnReadKeeps ==
  ASSUME ClientInv, NEW h \in ready, h.op = "read", OnRead(h, ready \ {h}),
         UNCHANGED <<userVars, fateVars>>
  PROVE  ClientInv'
<1>1. CASE ~h.ok
  BY <1>1, HandleCloseKeeps DEF OnRead
<1>2. CASE h.ok
  <2>1. /\ connected_' = connected_ /\ owed' = owed /\ write_msgs_' = write_msgs_
        /\ ops' = ops \cup {Op("read", h.n)} /\ ready' = ready \ {h}
    BY <1>2 DEF OnRead, connVars
  <2>2. connected_' \in BOOLEAN
    BY <2>1 DEF ClientInv, ClientTypes
  <2>3. /\ ClientTypes' /\ Evolve({h}, {Op("read", h.n)})
        /\ \A x \in {Op("read", h.n)} : x.op = "read"
    BY <2>1, <2>2, ChainTypes DEF ClientInv, Operations
  <2>4. OneAttempt'
    <3>1. \A x \in {Op("read", h.n)} : x.op \notin Attempts
      BY <2>3 DEF Attempts
    <3> QED BY <2>1, <2>3, <3>1, AttemptsFollow DEF ClientInv
  <2>5. Reading'
    BY <2>3, ReadingFollows DEF ClientInv, fateVars
  <2>6. Writing'
    BY <2>1, <2>3, OtherWritings
  <2>7. Ended' /\ CallbacksPaired'
    BY <2>1 DEF ClientInv, Ended, CallbacksPaired, fateVars
  <2> QED BY <2>3, <2>4, <2>5, <2>6, <2>7 DEF ClientInv
<1> QED BY <1>1, <1>2

\* do_write starts the writing of msg, or a handler that says it failed.
LEMMA DoWriteEvolves ==
  ASSUME ClientTypes, NEW h \in ready, NEW msg \in Nat, DoWrite(msg, ready \ {h})
  PROVE  \E x : /\ Evolve({h}, {x}) /\ x.op = "write" /\ x.n = msg
                /\ ops' \subseteq OperationRecords /\ ready' \subseteq HandlerRecords
<1>1. h \notin ops
  BY Disjoint
<1>2. Op("write", msg) \in OperationRecords
  BY RecordTypes DEF Operations
<1>3. CASE ops' = ops \cup {Op("write", msg)} /\ ready' = ready \ {h}
  <2> DEFINE x == Op("write", msg)
  <2>1. ops' = ops \cup {x} /\ ready' = ready \ {h}
    BY <1>3
  <2>2. Evolve({h}, {x})
    BY <1>1, <2>1, KeptEvolves
  <2>3. x.op = "write" /\ x.n = msg
    BY DEF Op
  <2> QED BY <1>2, <2>1, <2>2, <2>3, RecordTypes
<1>4. CASE ready' = (ready \ {h}) \cup {Result(Op("write", msg), FALSE)} /\ UNCHANGED ops
  <2> DEFINE x == Result(Op("write", msg), FALSE)
  <2>1. ops' = ops /\ ready' = (ready \ {h}) \cup {x}
    BY <1>4
  <2>2. Evolve({h}, {x})
    BY <1>1, <2>1, KeptEvolves
  <2>3. x.op = "write" /\ x.n = msg /\ x \in HandlerRecords
    BY <1>2, RecordTypes DEF Op, Result
  <2> QED BY <2>1, <2>2, <2>3, RecordTypes
<1> QED BY <1>3, <1>4 DEF DoWrite

\* A handler of the queue leaves the connection alone.
LEMMA QueueKeeps ==
  ASSUME ClientInv, NEW h \in ready, h.op \in {"schedule", "write"},
         NEW new, Evolve({h}, new), \A x \in new : x.op = "write",
         ops' \subseteq OperationRecords, ready' \subseteq HandlerRecords,
         write_msgs_' \in Seq(Nat), Writing', UNCHANGED <<connVars, userVars, fateVars>>
  PROVE  ClientInv'
<1>1. connected_' = connected_ /\ owed' = owed /\ orphaned' = orphaned /\ gone' = gone
  BY DEF connVars, fateVars
<1>2. ClientTypes'
  BY DEF ClientInv, ClientTypes, OperationRecords, HandlerRecords, userVars, fateVars, connVars
<1>3. OneAttempt'
  <2>1. \A x \in new : x.op \notin Attempts
    BY DEF Attempts
  <2> QED BY <1>1, <2>1, AttemptsFollow DEF ClientInv
<1>4. Reading'
  BY <1>1, ReadingFollows DEF ClientInv
<1>5. Ended' /\ CallbacksPaired'
  BY <1>1 DEF ClientInv, Ended, CallbacksPaired
<1> QED BY <1>2, <1>3, <1>4, <1>5 DEF ClientInv

\* Appending leaves the head of a queue that has one; popping shortens it by one.
LEMMA SeqFacts ==
  ASSUME NEW s \in Seq(Nat)
  PROVE  /\ \A n \in Nat : /\ Append(s, n) \in Seq(Nat) /\ Append(s, n) /= <<>>
                           /\ s = <<>> => Head(Append(s, n)) = n
                           /\ s /= <<>> => Head(Append(s, n)) = Head(s)
         /\ s /= <<>> => /\ Tail(s) \in Seq(Nat) /\ Len(s) > 0
                         /\ Tail(s) = <<>> <=> Len(s) = 1
                         /\ Len(s) > 1 => Head(Tail(s)) = s[2] /\ s[2] \in Nat
<1>1. ASSUME NEW n \in Nat
      PROVE  /\ Append(s, n) \in Seq(Nat) /\ Append(s, n) /= <<>>
             /\ s = <<>> => Head(Append(s, n)) = n
             /\ s /= <<>> => Head(Append(s, n)) = Head(s)
  <2>1. Append(s, n) \in Seq(Nat) /\ Append(s, n) /= <<>>
    BY AppendProperties
  <2>2. Head(Append(s, n)) = Append(s, n)[1]
    BY <2>1
  <2>3. /\ Append(s, n)[Len(s) + 1] = n /\ \A i \in 1 .. Len(s) : Append(s, n)[i] = s[i]
    BY AppendProperties
  <2>4. s = <<>> => Len(s) = 0
    OBVIOUS
  <2>5. s /= <<>> => Head(s) = s[1] /\ 1 \in 1 .. Len(s)
    OBVIOUS
  <2> QED BY <2>1, <2>2, <2>3, <2>4, <2>5
<1>2. ASSUME s /= <<>>
      PROVE  /\ Tail(s) \in Seq(Nat) /\ Len(s) > 0
             /\ Tail(s) = <<>> <=> Len(s) = 1
             /\ Len(s) > 1 => Head(Tail(s)) = s[2] /\ s[2] \in Nat
  <2>1. /\ Tail(s) \in Seq(Nat) /\ Len(Tail(s)) = Len(s) - 1 /\ Len(s) > 0
        /\ \A i \in 1 .. Len(Tail(s)) : Tail(s)[i] = s[i + 1]
    BY <1>2, HeadTailProperties
  <2>2. Tail(s) = <<>> <=> Len(Tail(s)) = 0
    <3>1. ASSUME NEW t \in Seq(Nat) PROVE t = <<>> <=> Len(t) = 0
      BY ONLY EmptySeq, t \in Seq(Nat)
    <3> QED BY ONLY <2>1, <3>1
  <2>3. ASSUME Len(s) > 1 PROVE Head(Tail(s)) = s[2] /\ s[2] \in Nat
    <3>1. Tail(s)[1] = s[2] /\ 2 \in 1 .. Len(s)
      BY <2>1, <2>3
    <3>2. Head(Tail(s)) = Tail(s)[1]
      BY <2>1, <2>3
    <3> QED BY <3>1, <3>2
  <2> QED BY <2>1, <2>2, <2>3
<1> QED BY <1>1, <1>2

\* schedule_write: the message is written at once if it is the first of the queue.
LEMMA ScheduleWriteKeeps ==
  ASSUME ClientInv, NEW h \in ready, h.op = "schedule", ScheduleWrite(h, ready \ {h}),
         UNCHANGED <<userVars, fateVars>>
  PROVE  ClientInv'
<1>1. ClientTypes /\ h.n \in Nat /\ h \notin ops /\ write_msgs_ \in Seq(Nat)
  BY Disjoint DEF ClientInv, ClientTypes
<1>2. /\ write_msgs_' \in Seq(Nat) /\ write_msgs_' /= <<>>
      /\ write_msgs_ = <<>> => Head(write_msgs_') = h.n
      /\ write_msgs_ /= <<>> => Head(write_msgs_') = Head(write_msgs_)
  BY <1>1, SeqFacts DEF ScheduleWrite
<1>3. UNCHANGED connVars
  BY DEF ScheduleWrite
<1>4. CASE write_msgs_ = <<>>
  <2>1. DoWrite(h.n, ready \ {h})
    BY <1>4 DEF ScheduleWrite
  <2>2. PICK x : /\ Evolve({h}, {x}) /\ x.op = "write" /\ x.n = h.n
                 /\ ops' \subseteq OperationRecords /\ ready' \subseteq HandlerRecords
    BY <1>1, <2>1, DoWriteEvolves
  <2>3. Writing'
    <3>1. WritesUnderWay \subseteq {h}
      BY <1>4 DEF ClientInv, Writing, Ended
    <3> QED BY <1>2, <1>4, <2>2, <3>1, WritingFollows DEF ClientInv, fateVars
  <2> QED BY <1>2, <1>3, <2>2, <2>3, QueueKeeps
<1>5. CASE write_msgs_ /= <<>>
  <2>1. ops' = ops /\ ready' = ready \ {h}
    BY <1>5 DEF ScheduleWrite
  <2>2. Evolve({h}, {})
    BY <1>1, <2>1, KeptEvolves
  <2>3. Writing'
    BY <1>2, <1>5, <2>2, WritingFollows DEF ClientInv, fateVars
  <2>4. ops' \subseteq OperationRecords /\ ready' \subseteq HandlerRecords
    BY <1>1, <2>1, RecordTypes
  <2> QED BY <1>2, <1>3, <2>2, <2>3, <2>4, QueueKeeps
<1> QED BY <1>4, <1>5

\* on_write: the next message's turn, or the end of the queue and the connection.
LEMMA OnWriteInvariant ==
  ASSUME ClientInv, NEW h \in ready, h.op = "write", OnWrite(h, ready \ {h}),
         UNCHANGED <<userVars, fateVars>>
  PROVE  ClientInv'
<1>1. CASE ~h.ok
  BY <1>1, HandleCloseKeeps DEF OnWrite
<1>2. CASE h.ok
  <2>1. ClientTypes /\ h \notin ops /\ write_msgs_ \in Seq(Nat)
    BY Disjoint DEF ClientInv, ClientTypes
  <2>0. ~orphaned
    BY DEF ClientInv, Ended
  <2>2. h \in WritesUnderWay /\ WritesUnderWay \subseteq {h}
    BY <2>0 DEF ClientInv, Writing, WritesUnderWay
  <2>3. write_msgs_ /= <<>>
    BY <2>0, <2>2 DEF ClientInv, Writing
  <2>4. /\ write_msgs_' \in Seq(Nat) /\ Len(write_msgs_) > 0
        /\ write_msgs_' = <<>> <=> Len(write_msgs_) = 1
        /\ Len(write_msgs_) > 1 => Head(write_msgs_') = write_msgs_[2] /\ write_msgs_[2] \in Nat
    <3>1. write_msgs_' = Tail(write_msgs_)
      BY <1>2 DEF OnWrite
    <3> QED BY <2>1, <2>3, <3>1, SeqFacts
  <2>5. UNCHANGED connVars
    BY <1>2 DEF OnWrite
  <2>6. CASE Len(write_msgs_) > 1
    <3>1. DoWrite(write_msgs_[2], ready \ {h})
      BY <1>2, <2>6 DEF OnWrite
    <3>2. PICK x : /\ Evolve({h}, {x}) /\ x.op = "write" /\ x.n = write_msgs_[2]
                   /\ ops' \subseteq OperationRecords /\ ready' \subseteq HandlerRecords
      BY <2>1, <2>4, <2>6, <3>1, DoWriteEvolves
    <3>3. write_msgs_' /= <<>> /\ x.n = Head(write_msgs_')
      BY <2>4, <2>6, <3>2
    <3>4. Writing'
      BY <2>2, <3>2, <3>3, WritingFollows DEF ClientInv, fateVars
    <3> QED BY <2>4, <2>5, <3>2, <3>4, QueueKeeps
  <2>7. CASE ~(Len(write_msgs_) > 1)
    <3>1. ops' = ops /\ ready' = ready \ {h}
      BY <1>2, <2>7 DEF OnWrite
    <3>2. Evolve({h}, {})
      BY <2>1, <3>1, KeptEvolves
    <3>3. write_msgs_' = <<>>
      <4>1. Len(write_msgs_) \in Nat
        BY <2>1
      <4>2. \A n \in Nat : n > 0 /\ ~(n > 1) => n = 1
        OBVIOUS
      <4>3. Len(write_msgs_) > 0
        BY <2>4
      <4>4. Len(write_msgs_) = 1
        BY <2>7, <4>1, <4>2, <4>3
      <4> QED BY <2>4, <4>4
    <3>4. Writing'
      BY <2>2, <3>2, <3>3, WritingFollows DEF ClientInv, fateVars
    <3>5. ops' \subseteq OperationRecords /\ ready' \subseteq HandlerRecords
      BY <2>1, <3>1, RecordTypes
    <3> QED BY <2>4, <2>5, <3>2, <3>4, <3>5, QueueKeeps
  <2> QED BY <2>6, <2>7
<1> QED BY <1>1, <1>2

\* Whatever handler a thread takes, in whatever order.
LEMMA HandleKeeps ==
  ASSUME ClientInv, NEW h \in ready, Handle(h), UNCHANGED <<userVars, fateVars>>
  PROVE  ClientInv'
<1>1. CASE h.op = "close"
  <2>1. HandleClose(ready \ {h}) /\ write_msgs_' = write_msgs_
    BY <1>1 DEF Handle
  <2> QED BY <1>1, <2>1, HandleCloseKeeps
<1>2. CASE h.op = "handshake"
  <2>1. Finish(h, ready \ {h}) /\ h.op \in Attempts
    BY <1>2 DEF Handle, Attempts
  <2> QED BY <2>1, FinishKeeps
<1>3. CASE h.op = "resolve"
  BY <1>3, OnResolveKeeps DEF Handle
<1>4. CASE h.op = "connect"
  BY <1>4, OnConnectKeeps DEF Handle
<1>5. CASE h.op = "read"
  BY <1>5, OnReadKeeps DEF Handle
<1>6. CASE h.op = "schedule"
  BY <1>6, ScheduleWriteKeeps DEF Handle
<1>7. CASE h.op = "write"
  BY <1>7, OnWriteInvariant DEF Handle
<1> QED BY <1>1, <1>2, <1>3, <1>4, <1>5, <1>6, <1>7 DEF Handle

-----------------------------------------------------------------------------
(* The user, the network, and the end *)

\* Nothing is done; something that is no attempt, reading or writing is posted.
LEMMA PostKeeps ==
  ASSUME ClientInv, ~gone, ~orphaned, NEW o \in {"schedule", "close"}, NEW n \in Nat,
         ready' = ready \cup {Result(Op(o, n), TRUE)}, ops' = ops,
         userVars' \in Nat \X Nat \X Nat, UNCHANGED <<connVars, write_msgs_, fateVars>>
  PROVE  ClientInv'
<1> DEFINE x == Result(Op(o, n), TRUE)
<1>1. x \in HandlerRecords /\ x.op = o
  BY DEF Result, Op, HandlerRecords
<1>2. Evolve({}, {x})
  BY KeptEvolves
<1>3. connected_' = connected_ /\ owed' = owed /\ orphaned' = orphaned /\ gone' = gone
  BY DEF connVars, fateVars
<1> HIDE DEF x
<1>4. ClientTypes'
  <2>1. runs' \in Nat /\ writes' \in Nat /\ closeCalls' \in Nat
    BY DEF userVars
  <2>2. ready' \subseteq HandlerRecords
    BY <1>1, RecordTypes DEF ClientInv, x
  <2> QED BY <1>3, <2>1, <2>2 DEF ClientInv, ClientTypes, HandlerRecords
<1>5. OneAttempt'
  <2>1. \A y \in {x} : y.op \notin Attempts
    BY <1>1 DEF Attempts
  <2> QED BY <1>2, <1>3, <2>1, AttemptsFollow DEF ClientInv
<1>6. Reading'
  BY <1>2, <1>3, ReadingFollows DEF ClientInv
<1>7. Writing'
  BY <1>1, <1>2, <1>3, WritingFollows DEF ClientInv
<1>8. Ended' /\ CallbacksPaired'
  BY <1>3 DEF ClientInv, Ended, CallbacksPaired
<1> QED BY <1>4, <1>5, <1>6, <1>7, <1>8 DEF ClientInv

\* What the user calls keeps the invariant: run, write and close, in any order.
LEMMA UserKeeps ==
  ASSUME ClientInv, ~orphaned, Run \/ Write \/ Close
  PROVE  ClientInv'
<1>0. runs \in Nat /\ writes \in Nat /\ closeCalls \in Nat
  BY DEF ClientInv, ClientTypes
<1>1. CASE Write
  <2>1. /\ ready' = ready \cup {Result(Op("schedule", writes + 1), TRUE)} /\ ops' = ops /\ ~gone
        /\ UNCHANGED <<connVars, write_msgs_, fateVars>>
    BY <1>1 DEF Write
  <2>2. userVars' \in Nat \X Nat \X Nat /\ writes + 1 \in Nat
    BY <1>0, <1>1 DEF Write, userVars
  <2> QED BY <2>1, <2>2, PostKeeps
<1>2. CASE Close
  <2>1. /\ ready' = ready \cup {Result(Op("close", closeCalls + 1), TRUE)} /\ ops' = ops /\ ~gone
        /\ UNCHANGED <<connVars, write_msgs_, fateVars>>
    BY <1>2 DEF Close
  <2>2. userVars' \in Nat \X Nat \X Nat /\ closeCalls + 1 \in Nat
    BY <1>0, <1>2 DEF Close, userVars
  <2> QED BY <2>1, <2>2, PostKeeps
<1>3. CASE Run
  <2> DEFINE x == Op("resolve", runs + 1)
  <2>1. x \in OperationRecords /\ x.op = "resolve"
    BY <1>0 DEF Op, OperationRecords, Operations
  <2>2. /\ ops' = ops \cup {x} /\ ready' = ready /\ write_msgs_' = write_msgs_
        /\ connected_' = connected_ /\ owed' = owed /\ orphaned' = orphaned /\ gone' = gone
        /\ runs' = runs + 1 /\ writes' = writes /\ closeCalls' = closeCalls
        /\ ~connected_ /\ ~gone /\ Pending(Attempts) = {}
    BY <1>3 DEF Run, connVars, fateVars, Pending
  <2>3. Evolve({}, {x})
    BY <2>2, KeptEvolves
  <2> HIDE DEF x
  <2>4. ClientTypes'
    <3>1. ops' \subseteq OperationRecords
      BY <2>1, <2>2, RecordTypes DEF ClientInv
    <3> QED BY <1>0, <2>2, <3>1 DEF ClientInv, ClientTypes, OperationRecords
  <2>5. OneAttempt'
    BY <2>2, <2>3, AttemptsFollow DEF ClientInv
  <2>6. Reading'
    BY <2>2, <2>3, ReadingFollows DEF ClientInv
  <2>7. Writing'
    BY <2>1, <2>2, <2>3, WritingFollows DEF ClientInv
  <2>8. Ended' /\ CallbacksPaired'
    BY <2>2 DEF ClientInv, Ended, CallbacksPaired
  <2> QED BY <2>4, <2>5, <2>6, <2>7, <2>8 DEF ClientInv
<1> QED BY <1>1, <1>2, <1>3

\* The network completes an operation, or fails it.
LEMMA CompleteKeeps ==
  ASSUME ClientInv, NEW x, NEW ok \in BOOLEAN, Complete(x, ok)
  PROVE  ClientInv'
<1>1. ClientTypes /\ Evolve({}, {})
  BY CompleteEvolves DEF ClientInv
<1>2. /\ connected_' = connected_ /\ owed' = owed /\ orphaned' = orphaned /\ gone' = gone
      /\ write_msgs_' = write_msgs_ /\ x \in ops
  BY DEF Complete, connVars, fateVars
<1>3. ClientTypes'
  <2>1. ops' \subseteq OperationRecords /\ ready' \subseteq HandlerRecords
    BY <1>1, RecordTypes DEF Complete
  <2> QED BY <1>1, <2>1
       DEF Complete, ClientTypes, OperationRecords, HandlerRecords, userVars, connVars, fateVars
<1>4. OneAttempt'
  BY <1>1, <1>2, AttemptsFollow DEF ClientInv
<1>5. Reading'
  BY <1>1, <1>2, ReadingFollows DEF ClientInv
<1>6. Writing'
  BY <1>1, <1>2, WritingFollows DEF ClientInv
<1>7. Ended' /\ CallbacksPaired'
  BY <1>2 DEF ClientInv, Ended, CallbacksPaired
<1> QED BY <1>3, <1>4, <1>5, <1>6, <1>7 DEF ClientInv

\* The client goes with its last pointer: while it was connected its reading had one.
LEMMA DestructorKeeps ==
  ASSUME ClientInv, NEW handling, Destructor(handling)
  PROVE  ClientInv'
<1>1. /\ ops = {} /\ ready = {} /\ ops' = ops /\ ready' = ready /\ write_msgs_' = write_msgs_
      /\ connected_' = connected_ /\ owed' = owed /\ orphaned' = orphaned /\ gone' = TRUE
      /\ runs' = runs /\ writes' = writes /\ closeCalls' = closeCalls
  BY DEF Destructor, connVars, userVars
<1>2. connected_ => orphaned
  BY <1>1 DEF ClientInv, Reading, Pending
<1>3. OneAttempt' /\ Reading'
  BY <1>1 DEF ClientInv, OneAttempt, Reading, Pending
<1>4. Writing'
  BY <1>1 DEF ClientInv, Writing, WritesUnderWay
<1>5. ClientTypes'
  BY <1>1 DEF ClientInv, ClientTypes
<1>6. Ended' /\ CallbacksPaired'
  BY <1>1, <1>2 DEF ClientInv, Ended, CallbacksPaired
<1> QED BY <1>3, <1>4, <1>5, <1>6 DEF ClientInv

\* The io_context goes with handlers pending.
LEMMA ContextGoneKeeps ==
  ASSUME ClientInv, ContextGone
  PROVE  ClientInv'
<1>1. /\ ops' = {} /\ ready' = {} /\ write_msgs_' = write_msgs_
      /\ connected_' = connected_ /\ owed' = owed /\ orphaned' = TRUE /\ gone' = gone
      /\ runs' = runs /\ writes' = writes /\ closeCalls' = closeCalls
  BY DEF ContextGone, connVars, userVars
<1>2. OneAttempt' /\ Reading' /\ Writing'
  BY <1>1 DEF OneAttempt, Reading, Writing, Pending
<1>3. ClientTypes'
  BY <1>1 DEF ClientInv, ClientTypes
<1>4. Ended' /\ CallbacksPaired'
  BY <1>1 DEF ClientInv, Ended, CallbacksPaired
<1> QED BY <1>2, <1>3, <1>4 DEF ClientInv

\* Steps of the context alone leave the client as it is.
LEMMA ClientStays ==
  ASSUME ClientInv, UNCHANGED <<userVars, connVars, write_msgs_, ops, ready, fateVars>>
  PROVE  ClientInv'
BY DEF ClientInv, ClientTypes, OneAttempt, Reading, Writing, Ended, CallbacksPaired, Pending,
   WritesUnderWay, userVars, connVars, fateVars

-----------------------------------------------------------------------------
(* The invariant *)

\* The client and its context as constructed.
LEMMA InitIInv == Init => IInv
<1> SUFFICES ASSUME Init PROVE IInv
  OBVIOUS
<1>1. ContextInv
  BY ContextAssumption
     DEF Init, ContextInit, ContextInv, ContextTypes, CalledOnce, Quiet, OwnerWaits
<1>2. ClientTypes
  <2>1. <<>> \in Seq(Nat)
    OBVIOUS
  <2> QED BY <2>1 DEF Init, ClientInit, ClientTypes
<1>3. OneAttempt /\ Reading /\ Writing /\ Ended /\ CallbacksPaired
  BY DEF Init, ClientInit, OneAttempt, Reading, Writing, Ended, CallbacksPaired, Pending,
     WritesUnderWay
<1> QED BY <1>1, <1>2, <1>3 DEF IInv, ClientInv, Init, ClientInit

\* Handlers on any threads, the user, the network, signals, Shutdown from anywhere
\* and the end of the client or of its context: all keep the invariant.
LEMMA NextIInv == IInv /\ [Next]_vars => IInv'
<1> SUFFICES ASSUME IInv, [Next]_vars PROVE IInv'
  OBVIOUS
<1>1. ASSUME NEW t \in Workers, NEW h \in ready, HandleOn(t, h) PROVE IInv'
  <2>1. ContextInv'
    BY <1>1, BeginStep DEF HandleOn, IInv
  <2>2. ClientInv'
    BY <1>1, HandleKeeps DEF HandleOn, IInv
  <2> QED BY <1>1, <2>1, <2>2 DEF HandleOn, IInv, fateVars
<1>2. ASSUME NEW t \in Workers, HandleSignal(t) PROVE IInv'
  <2>1. ContextInv'
    BY <1>2, BeginStep DEF HandleSignal, OnSigevent, IInv
  <2>2. ClientInv'
    BY <1>2, ClientStays DEF HandleSignal, IInv, clientVars
  <2> QED BY <1>2, <2>1, <2>2 DEF HandleSignal, OnSigevent, IInv, clientVars, fateVars
<1>3. ASSUME NEW t \in Workers, HandlerReturns(t) PROVE IInv'
  <2>1. ContextInv'
    BY <1>3, WorkerStepKeeps DEF HandlerReturns, WorkerStep, IInv
  <2>2. ClientInv'
    BY <1>3, ClientStays DEF HandlerReturns, IInv
  <2> QED BY <1>3, <2>1, <2>2 DEF HandlerReturns, EndHandler, IInv, fateVars
<1>4. ASSUME ContextStep PROVE IInv'
  <2>1. ContextInv'
    <3>1. ASSUME ArmSignals \/ Raise PROVE ContextInv'
      BY <3>1 DEF ArmSignals, Raise, IInv, ContextInv, ContextTypes, CalledOnce, Quiet, OwnerWaits
    <3> QED BY <1>4, <3>1, WorkerStepKeeps, ShutdownKeeps DEF ContextStep, WorkerStep, IInv
  <2>2. ClientInv'
    BY <1>4, ContextGoneKeeps, ClientStays DEF ContextStep, IInv, clientVars
  <2>3. orphaned' => destroyed'
    <3>1. destroyed => destroyed'
      BY <1>4 DEF ContextStep, Spawn, Exit, ArmSignals, Raise, ShutdownStep, Enter, Callback,
         Stop, Return, Join
    <3>2. CASE destroyed' = destroyed
      BY <1>4, <3>2 DEF ContextStep, IInv, clientVars, fateVars
    <3>3. CASE destroyed' /= destroyed
      BY <3>1, <3>3, <2>1 DEF IInv, ContextInv, ContextTypes
    <3> QED BY <3>2, <3>3
  <2> QED BY <2>1, <2>2, <2>3 DEF IInv
<1>5. ASSUME ClientStep PROVE IInv'
  <2>1. ContextInv'
    BY <1>5, ContextStays DEF ClientStep, IInv
  <2>2. ASSUME ~destroyed, Run \/ Write \/ Close PROVE ClientInv' /\ orphaned' = orphaned
    BY <2>2, UserKeeps DEF IInv, Run, Write, Close, fateVars
  <2>3. ASSUME NEW x \in ops, NEW ok \in BOOLEAN, Complete(x, ok)
        PROVE  ClientInv' /\ orphaned' = orphaned
    BY <2>3, CompleteKeeps DEF IInv, Complete, fateVars
  <2>4. ASSUME Destructor(Handling) PROVE ClientInv' /\ orphaned' = orphaned
    BY <2>4, DestructorKeeps DEF IInv, Destructor
  <2>5. ClientInv' /\ orphaned' = orphaned
    BY <1>5, <2>2, <2>3, <2>4 DEF ClientStep
  <2> QED BY <1>5, <2>1, <2>5 DEF ClientStep, IInv, contextVars
<1>6. ASSUME UNCHANGED vars PROVE IInv'
  <2>1. ContextInv' /\ ClientInv'
    BY <1>6, ContextStays, ClientStays DEF vars, IInv, clientVars
  <2> QED BY <1>6, <2>1 DEF IInv, vars, contextVars, clientVars, fateVars
<1> QED BY <1>1, <1>2, <1>3, <1>4, <1>5, <1>6 DEF Next

\* The invariant the theorems about the client and the context rest on.
THEOREM Invariance == Spec => []IInv
BY InitIInv, NextIInv, PTL DEF Spec

-----------------------------------------------------------------------------
(* The theorems *)

\* A connection that was accepted is closed exactly once, whatever is under way
\* then; and the client is destroyed while connected only with its context.
THEOREM ClosedOnce == Spec => []ClientClosedOnce
<1>1. IInv => ClientClosedOnce
  BY DEF IInv, ClientInv, ClientClosedOnce, Ended, DestroyedUnconnected
<1> QED BY <1>1, Invariance, PTL

\* While there are messages in the queue exactly one, its front, is being written,
\* and none when it is empty.
THEOREM WritesInTurn == Spec => []OneWriteUnderWay
<1>1. IInv => OneWriteUnderWay
  <2> SUFFICES ASSUME IInv, ~orphaned
               PROVE  /\ Cardinality(WritesUnderWay) = IF write_msgs_ = <<>> THEN 0 ELSE 1
                      /\ \A x \in WritesUnderWay : x.n = Head(write_msgs_)
    BY DEF OneWriteUnderWay
  <2>1. Writing
    BY DEF IInv, ClientInv
  <2>2. CASE write_msgs_ = <<>>
    <3>1. WritesUnderWay = {}
      BY <2>1, <2>2 DEF Writing
    <3> QED BY <2>2, <3>1, FS_EmptySet
  <2>3. CASE write_msgs_ /= <<>>
    <3>1. PICK x : WritesUnderWay = {x}
      <4>1. WritesUnderWay /= {} /\ \A x, y \in WritesUnderWay : x = y
        BY <2>1, <2>3 DEF Writing
      <4> QED BY <4>1
    <3>2. Cardinality(WritesUnderWay) = 1
      BY <3>1, FS_Singleton
    <3> QED BY <2>1, <2>3, <3>2 DEF Writing
  <2> QED BY <2>2, <2>3
<1> QED BY <1>1, Invariance, PTL

\* Once a Shutdown has returned no handler runs and none ever starts, its callback
\* was called once, and the context is not destroyed under a thread in run().
THEOREM Quiesces == Spec => []ShutdownQuiesces
<1>1. IInv => ShutdownQuiesces
  <2> SUFFICES ASSUME IInv PROVE ShutdownQuiesces
    OBVIOUS
  <2>1. ASSUME NEW c \in Callers, pc[c] = "returned"
        PROVE  stopped /\ called = 1 /\ \A t \in Workers : worker[t] /= "busy"
    BY <2>1 DEF IInv, ContextInv, CalledOnce, Quiet
  <2>2. ASSUME destroyed, NEW t \in Workers PROVE worker[t] \in {"none", "exited"}
    BY <2>2 DEF IInv, ContextInv, ContextTypes, OwnerWaits
  <2> QED BY <2>1, <2>2 DEF ShutdownQuiesces
<1> QED BY <1>1, Invariance, PTL

-----------------------------------------------------------------------------
(* Discovery *)

Records == [id : Nat, handler : BOOLEAN]

\* DiscoveryTypeOK, and what it leaves to the other parts of the model.
DiscoveryTypes ==
  /\ DiscoveryTypeOK
  /\ made \in [Threads -> Sessions \cup {Absent}]
  /\ inbox \in [Sessions -> SUBSET Records]
  /\ sends \in 0 .. MaxSends /\ todo \subseteq Names /\ missed \subseteq Sessions

\* Whatever datagram is received, its port is one that is known of.
Ported ==
  /\ UsedPort(beat) \in Ports
  /\ rx \in {"ready", "processing"} => UsedPort(buffer) \in Ports

\* The buffer is left alone while the broadcast handler works on it, and who has
\* created a session has the mutex until it is stored.
Places ==
  /\ at["broadcast"] \in {"lock", "store"} => rx = "processing" /\ Accepted(buffer)
  /\ \A h \in Threads : /\ at[h] = "store" <=> made[h] /= Absent
                        /\ at[h] = "store" <=> clientsMutex = h

\* A living session has its place in clients, or its creator has the mutex; there
\* is no other in that place.
Known ==
  /\ \A x \in Sessions : owner[x] /= Absent =>
       \/ clients[owner[x]] = x
       \/ \E h \in Threads : made[h] = x /\ clientsMutex = h
  /\ \A n \in Names : Living(n) => owner[clients[n]] = n
  /\ \A h \in Threads : made[h] /= Absent =>
       owner[made[h]] = Wanted(h) /\ ~Living(Wanted(h))

\* A handler is in one place: not called yet, in SendAsync's hands, in one record of
\* one inbox, or called once.
Unsent(m) == handler /\ sends = m
Carries(x, r, m) == r \in inbox[x] /\ r.handler /\ r.id = m
Carried(m) == \E x \in Sessions, r \in Records : Carries(x, r, m)
HandlerOK(m) ==
  /\ calls[m] <= 1
  /\ m > sends \/ Carried(m) \/ Unsent(m) => calls[m] = 0
  /\ ~(Carried(m) /\ (Unsent(m) \/ m > sends))
  /\ \A x, y \in Sessions, r, q \in Records :
       Carries(x, r, m) /\ Carries(y, q, m) => x = y /\ r = q

\* The sessions a call of SendAsync must still reach are to names it has still to
\* visit, and there are none outside of it.
Reachable ==
  /\ \A x \in missed : owner[x] \in todo
  /\ clientsMutex /= "send" => todo = {}

DiscoveryInv ==
  /\ DiscoveryTypes /\ Ported /\ Places /\ Known /\ Reachable
  /\ \A m \in Sends : HandlerOK(m)

\* A step of the receiver that does not begin the next receive after a broadcast.
UdpStep ==
  \/ \E d \in {beat} \cup Strays : Arrive(d)
  \/ OnReceive \/ OnReceiveError \/ ReceiveFails
  \/ DeadlinePasses \/ TimerFires \/ CheckTimeout \/ StopContext \/ CloseSocket
  \/ UdpRun \/ UNCHANGED udpVars

\* One that ends the broadcast.
BroadcastEnds == ReceiveAgain \/ ParseThrows

\* A sender and a receiver as constructed, with no sessions.
LEMMA DiscoveryInitially ==
  ASSUME DiscoveryInit PROVE DiscoveryInv
<1>1. DiscoveryTypes
  <2>1. MaxSends \in Nat
    BY DiscoveryAssumption
  <2>2. {open, ioStopped, handler, running} \subseteq BOOLEAN
    BY DEF DiscoveryInit, UdpInit
  <2>3. calls \in [Sends -> Nat]
    BY DEF DiscoveryInit
  <2> QED BY <2>1, <2>2, <2>3 DEF DiscoveryInit, UdpInit, DiscoveryTypes, DiscoveryTypeOK
<1>2. Ported
  <2>0. PICK args \in Servers : \E p \in BoundPorts(args) :
          beat = [topic |-> serverTopic, id |-> serverId,
                  insecure |-> p.insecure, secure |-> p.secure]
    BY DEF DiscoveryInit
  <2>1. PICK p \in BoundPorts(args) :
          beat = [topic |-> serverTopic, id |-> serverId,
                  insecure |-> p.insecure, secure |-> p.secure]
    BY <2>0
  <2>2. {0, args.insecure, args.secure} \subseteq Announced
    BY DEF Announced
  <2>3. beat.insecure \in Announced /\ beat.secure \in Announced
    BY <2>1, <2>2 DEF BoundPorts
  <2>4. UsedPort(beat) \in Ports
    BY <2>3 DEF UsedPort, Ports
  <2> QED BY <2>4 DEF Ported, DiscoveryInit, UdpInit
<1>3. Reachable
  BY DEF DiscoveryInit, Reachable
<1>4. Places /\ Known
  BY DiscoveryAssumption DEF DiscoveryInit, Places, Known, Threads, Living
<1>5. \A m \in Sends : HandlerOK(m)
  BY DEF DiscoveryInit, HandlerOK, Carried, Carries, Unsent
<1> QED BY <1>1, <1>2, <1>3, <1>4, <1>5 DEF DiscoveryInv

\* Only the broadcast handler begins another receive, and it is done when it does, or
\* throws.
LEMMA UdpMoves ==
  ASSUME DiscoveryInv, [DiscoveryNext]_discoveryVars
  PROVE  /\ beat' = beat
         /\ UdpStep \/ (BroadcastEnds /\ at'["broadcast"] = "idle")
<1> USE DEF UdpStep, BroadcastEnds, serverVars
<1>0. "broadcast" \in Threads /\ DOMAIN at = Threads
  BY DEF Threads, DiscoveryInv, DiscoveryTypes, DiscoveryTypeOK
<1>1. CASE StartHeartbeat \/ RequestTopics \/ TryConnection
  BY <1>1 DEF StartHeartbeat, RequestTopics, TryConnection
<1>2. CASE BeatArrives \/ StrayArrives
  BY <1>2 DEF BeatArrives, StrayArrives
<1>3. CASE Udp \/ Receive \/ ListenForTopics
  BY <1>3 DEF Udp, Receive, ListenForTopics
<1>4. CASE ProcessBroadcast \/ ParseThrows
  BY <1>0, <1>4 DEF ProcessBroadcast, ParseThrows, Returns
<1>5. ASSUME NEW h \in Threads, ConnectLock(h) \/ ConnectStore(h)
      PROVE  /\ beat' = beat
             /\ UdpStep \/ (BroadcastEnds /\ at'["broadcast"] = "idle")
  BY <1>0, <1>5 DEF ConnectLock, ConnectStore, Returns, Create
<1>6. ASSUME NEW x \in Sessions, SessionHandles(x) \/ EndSession(x)
      PROVE  beat' = beat /\ UdpStep
  BY <1>6 DEF SessionHandles, EndSession
<1>7. CASE SendLock \/ SendNext \/ SendReturn
  BY <1>7 DEF SendLock, SendNext, SendReturn
<1>8. CASE UNCHANGED discoveryVars
  BY <1>8 DEF discoveryVars
<1> QED BY <1>1, <1>2, <1>3, <1>4, <1>5, <1>6, <1>7, <1>8 DEF DiscoveryNext, Stopped

\* What the receiver's own variables may be.
ReceiverTypes ==
  /\ rx \in {"off", "pending", "ready", "processing", "failed", "dead", "thrown"}
  /\ deadline \in {"never", "ahead", "passed"}
  /\ wait \in {"none", "pending", "fired", "aborted", "expired", "closing"}
  /\ open \in BOOLEAN /\ ioStopped \in BOOLEAN

\* The UDPReceiver's steps keep its types and its ports.
LEMMA ReceiverKeeps ==
  ASSUME DiscoveryInv, [DiscoveryNext]_discoveryVars
  PROVE  ReceiverTypes' /\ Ported'
<1>1. /\ ReceiverTypes /\ Ported /\ beat' = beat
      /\ UdpStep \/ BroadcastEnds
  BY UdpMoves DEF DiscoveryInv, DiscoveryTypes, DiscoveryTypeOK, ReceiverTypes
<1>2. \A d \in {beat} \cup Strays : UsedPort(d) \in Ports
  <2>1. \A d \in Strays : d.insecure \in Announced /\ d.secure \in Announced
    BY DEF Announced
  <2>2. \A d \in Strays : UsedPort(d) \in Ports
    BY <2>1 DEF UsedPort, Ports
  <2> QED BY <1>1, <2>2 DEF Ported
<1>3. CASE \E d \in {beat} \cup Strays : Arrive(d)
  BY <1>1, <1>2, <1>3 DEF Arrive, ReceiverTypes, Ported, UsedPort
<1>4. CASE OnReceive \/ OnReceiveError \/ ReceiveFails
  BY <1>1, <1>4 DEF OnReceive, OnReceiveError, ReceiveFails, ReceiverTypes, Ported, UsedPort
<1>5. CASE DeadlinePasses \/ TimerFires
  BY <1>1, <1>5 DEF DeadlinePasses, TimerFires, ReceiverTypes, Ported, UsedPort
<1>6. CASE CheckTimeout \/ StopContext \/ CloseSocket
  BY <1>1, <1>6 DEF CheckTimeout, StopContext, CloseSocket, ReceiverTypes, Ported, UsedPort
<1>7. CASE UdpRun \/ BroadcastEnds
  BY <1>1, <1>7 DEF UdpRun, BroadcastEnds, ParseThrows, ReceiveAgain, StartReceive, ReceiverTypes, Ported, UsedPort
<1>8. CASE UNCHANGED udpVars
  BY <1>1, <1>8 DEF udpVars, ReceiverTypes, Ported, UsedPort
<1> QED BY <1>1, <1>3, <1>4, <1>5, <1>6, <1>7, <1>8 DEF UdpStep

\* The broadcast handler finds in the buffer what it found there before.
LEMMA BufferKept ==
  ASSUME DiscoveryInv, [DiscoveryNext]_discoveryVars,
         at["broadcast"] \in {"lock", "store"}, at'["broadcast"] \in {"lock", "store"}
  PROVE  rx' = "processing" /\ buffer' = buffer
<1>1. rx = "processing" /\ UdpStep
  BY UdpMoves DEF DiscoveryInv, Places
<1> QED
  BY <1>1 DEF UdpStep, Arrive, OnReceive, OnReceiveError, ReceiveFails, DeadlinePasses,
              TimerFires, CheckTimeout, StopContext, CloseSocket, UdpRun, udpVars

\* What a thread wants to connect to is a name there may be a client for.
LEMMA WantedNamed ==
  ASSUME DiscoveryInv, NEW h \in Threads, at[h] \in {"lock", "store"}
  PROVE  Wanted(h) \in Names
<1>1. CASE h = "request"
  BY <1>1, DiscoveryAssumption DEF Wanted
<1>2. CASE h /= "request"
  <2>1. rx = "processing" /\ Accepted(buffer)
    BY <1>2 DEF DiscoveryInv, Places, Threads
  <2>2. UsedPort(buffer) \in Ports \ {0} /\ buffer.topic \in topicStates
    BY <2>1 DEF DiscoveryInv, Ported, Accepted
  <2> QED BY <1>2, <2>2 DEF Wanted, Names
<1> QED BY <1>1, <1>2

\* The threads, the sessions and SendAsync.
MeetingTypes ==
  /\ handler \in BOOLEAN /\ running \in BOOLEAN
  /\ clientsMutex \in Threads \cup {"send", Absent}
  /\ clients \in [Names -> Sessions \cup {"null", "expired"}]
  /\ at \in [Threads -> {"idle", "timer", "lock", "store"}]
  /\ owner \in [Sessions -> Names \cup {Absent}]
  /\ asked \subseteq Sends /\ calls \in [Sends -> Nat]
  /\ made \in [Threads -> Sessions \cup {Absent}]
  /\ inbox \in [Sessions -> SUBSET Records]
  /\ sends \in 0 .. MaxSends /\ todo \subseteq Names /\ missed \subseteq Sessions

\* A call of a handler more is counted.
LEMMA OneMoreCall ==
  ASSUME calls \in [Sends -> Nat], NEW k
  PROVE  [calls EXCEPT ![k] = @ + 1] \in [Sends -> Nat]
<1>1. \A m \in Sends : calls[m] + 1 \in Nat
  OBVIOUS
<1>2. [calls EXCEPT ![k] = @ + 1] = [m \in Sends |-> IF m = k THEN calls[m] + 1 ELSE calls[m]]
  BY Zenon
<1> QED BY <1>1, <1>2

\* Every step keeps the types.
LEMMA DiscoveryTypesKeep ==
  ASSUME DiscoveryInv, [DiscoveryNext]_discoveryVars PROVE DiscoveryTypes'
<1>1. MeetingTypes
  BY DEF DiscoveryInv, DiscoveryTypes, DiscoveryTypeOK, MeetingTypes
<1> SUFFICES MeetingTypes'
  BY ReceiverKeeps DEF MeetingTypes, ReceiverTypes, DiscoveryTypes, DiscoveryTypeOK
<1> USE <1>1 DEF serverVars, sessionVars, sendVars, udpVars
<1>2. CASE StartHeartbeat \/ BeatArrives \/ StrayArrives \/ Udp \/ Receive \/ ListenForTopics
  BY <1>2 DEF StartHeartbeat, BeatArrives, StrayArrives, Udp, Receive, ListenForTopics,
              MeetingTypes
<1>3. CASE RequestTopics \/ TryConnection \/ ProcessBroadcast \/ ParseThrows
  BY <1>3 DEF RequestTopics, TryConnection, ProcessBroadcast, ParseThrows, Returns, MeetingTypes
<1>4. ASSUME NEW h \in Threads, ConnectLock(h) PROVE MeetingTypes'
  <2>1. at' \in [Threads -> {"idle", "timer", "lock", "store"}]
    BY <1>4 DEF ConnectLock, Returns, Create, MeetingTypes
  <2>2. CASE UNCHANGED sessionVars
    BY <1>4, <2>1, <2>2 DEF ConnectLock, MeetingTypes
  <2>3. CASE Create(h) /\ clientsMutex' = h
    <3>1. Wanted(h) \in Names
      BY <1>4, WantedNamed DEF ConnectLock
    <3>2. PICK x \in Sessions :
            owner' = [owner EXCEPT ![x] = Wanted(h)] /\ made' = [made EXCEPT ![h] = x]
      BY <2>3 DEF Create, Unused
    <3>3. owner' \in [Sessions -> Names \cup {Absent}]
      BY <3>1, <3>2 DEF MeetingTypes
    <3>4. made' \in [Threads -> Sessions \cup {Absent}]
      BY <3>2 DEF MeetingTypes
    <3> QED BY <1>4, <2>1, <2>3, <3>3, <3>4 DEF ConnectLock, Create, MeetingTypes
  <2> QED BY <1>4, <2>2, <2>3 DEF ConnectLock
<1>5. ASSUME NEW h \in Threads, ConnectStore(h) PROVE MeetingTypes'
  <2>1. at' \in [Threads -> {"idle", "timer", "lock", "store"}]
    BY <1>5 DEF ConnectStore, Returns, MeetingTypes
  <2>2. made[h] \in Sessions
    BY <1>5 DEF ConnectStore, DiscoveryInv, Places, MeetingTypes
  <2>3. clients' \in [Names -> Sessions \cup {"null", "expired"}]
    BY <1>5, <2>2 DEF ConnectStore, MeetingTypes
  <2>4. made' \in [Threads -> Sessions \cup {Absent}]
    BY <1>5 DEF ConnectStore, MeetingTypes
  <2> QED BY <1>5, <2>1, <2>3, <2>4 DEF ConnectStore, MeetingTypes
<1>6. ASSUME NEW x \in Sessions, SessionHandles(x) PROVE MeetingTypes'
  <2>1. PICK r \in inbox[x] :
          /\ inbox' = [inbox EXCEPT ![x] = @ \ {r}]
          /\ calls' = IF r.handler THEN [calls EXCEPT ![r.id] = @ + 1] ELSE calls
    BY <1>6 DEF SessionHandles
  <2>2. inbox' \in [Sessions -> SUBSET Records]
    BY <2>1 DEF MeetingTypes
  <2>3. calls' \in [Sends -> Nat]
    BY <2>1, OneMoreCall DEF MeetingTypes
  <2> QED BY <1>6, <2>2, <2>3 DEF SessionHandles, MeetingTypes
<1>7. ASSUME NEW x \in Sessions, EndSession(x) PROVE MeetingTypes'
  <2>1. owner' \in [Sessions -> Names \cup {Absent}]
    BY <1>7 DEF EndSession, MeetingTypes
  <2>2. clients' \in [Names -> Sessions \cup {"null", "expired"}]
    BY <1>7 DEF EndSession, MeetingTypes
  <2> QED BY <1>7, <2>1, <2>2 DEF EndSession, MeetingTypes
<1>8. CASE SendLock
  <2>1. MaxSends \in Nat
    BY DiscoveryAssumption
  <2>2. sends' \in 0 .. MaxSends /\ sends' \in Sends
    BY <1>8, <2>1 DEF SendLock, MeetingTypes, Sends
  <2>3. /\ asked' \subseteq Sends /\ todo' \subseteq Names /\ handler' \in BOOLEAN
        /\ missed' \subseteq Sessions
    BY <1>8, <2>2 DEF SendLock, MeetingTypes
  <2> QED BY <1>8, <2>2, <2>3 DEF SendLock, MeetingTypes
<1>9. CASE SendNext
  <2>1. PICK n \in todo : todo' = todo \ {n} /\ Visit(n)
    BY <1>9 DEF SendNext
  <2>2. [id |-> sends, handler |-> handler] \in Records
    BY DEF MeetingTypes, Records
  <2>3. inbox' \in [Sessions -> SUBSET Records]
    BY <2>1, <2>2 DEF MeetingTypes, Visit, Living
  <2>4. handler' \in BOOLEAN /\ todo' \subseteq Names /\ missed' \subseteq Sessions
    BY <2>1 DEF MeetingTypes, Visit
  <2> QED BY <1>9, <2>3, <2>4 DEF SendNext, MeetingTypes
<1>10. CASE SendReturn
  BY <1>10, OneMoreCall DEF SendReturn, MeetingTypes
<1>11. CASE UNCHANGED discoveryVars
  BY <1>11 DEF discoveryVars, MeetingTypes
<1> QED
  BY <1>2, <1>3, <1>4, <1>5, <1>6, <1>7, <1>8, <1>9, <1>10, <1>11 DEF DiscoveryNext, Stopped

\* Every step leaves each thread where its locals say, with clientsMutex at its
\* place.
LEMMA PlacesKeep ==
  ASSUME DiscoveryInv, [DiscoveryNext]_discoveryVars PROVE Places'
<1> DEFINE Working == at["broadcast"] \in {"lock", "store"}
           Creators == \A h \in Threads : /\ at[h] = "store" <=> made[h] /= Absent
                                          /\ at[h] = "store" <=> clientsMutex = h
<1>1. /\ MeetingTypes /\ Creators
      /\ Working => rx = "processing" /\ Accepted(buffer)
      /\ "broadcast" \in Threads /\ "request" \in Threads
      /\ Absent \notin Threads /\ "send" \notin Threads
      /\ \A h \in Threads : h \in {"broadcast", "request"}
  BY DiscoveryAssumption
     DEF DiscoveryInv, DiscoveryTypes, DiscoveryTypeOK, MeetingTypes, Places, Threads
<1>2. ASSUME Working, Working' PROVE rx' = "processing" /\ Accepted(buffer)'
  <2>1. rx' = "processing" /\ buffer' = buffer
    BY <1>2, BufferKept
  <2> QED BY <1>1, <1>2, <2>1 DEF Accepted, UsedPort
<1> HIDE DEF Working, Creators
<1>3. Creators' /\ (~Working /\ Working' => rx' = "processing" /\ Accepted(buffer)')
  <2> USE <1>1 DEF Creators, Working, serverVars, sessionVars, sendVars
  <2>1. CASE StartHeartbeat \/ BeatArrives \/ StrayArrives \/ Udp \/ Receive \/ ListenForTopics
    BY <2>1 DEF StartHeartbeat, BeatArrives, StrayArrives, Udp, Receive, ListenForTopics
  <2>2. CASE RequestTopics \/ TryConnection
    BY <2>2 DEF RequestTopics, TryConnection, MeetingTypes
  <2>9. CASE ParseThrows
    BY <2>9 DEF ParseThrows
  <2>3. CASE ProcessBroadcast
    <3>1. \/ Accepted(buffer) /\ UNCHANGED udpVars /\ at' = [at EXCEPT !["broadcast"] = "lock"]
          \/ at' = [at EXCEPT !["broadcast"] = "idle"]
      BY <2>3 DEF ProcessBroadcast, Returns
    <3>2. Accepted(buffer) /\ UNCHANGED udpVars => Accepted(buffer)' /\ rx' = rx
      BY DEF Accepted, UsedPort, udpVars
    <3>3. rx = "processing" /\ at["broadcast"] = "idle" /\ UNCHANGED sessionVars
      BY <2>3 DEF ProcessBroadcast
    <3> QED BY <3>1, <3>2, <3>3 DEF MeetingTypes
  <2>4. ASSUME NEW h \in Threads, ConnectLock(h)
        PROVE  Creators' /\ (Working' => Working)
    <3>1. at[h] = "lock" /\ clientsMutex = Absent
      BY <2>4 DEF ConnectLock
    <3>2. CASE Returns(h) /\ UNCHANGED sessionVars
      BY <3>1, <3>2 DEF Returns, MeetingTypes
    <3>3. CASE Create(h) /\ clientsMutex' = h
      <4>1. PICK x \in Sessions : made' = [made EXCEPT ![h] = x]
        BY <3>3 DEF Create, Unused
      <4>2. at' = [at EXCEPT ![h] = "store"] /\ x /= Absent
        BY <3>3, DiscoveryAssumption DEF Create
      <4> QED BY <3>1, <3>3, <4>1, <4>2 DEF MeetingTypes
    <3> QED BY <2>4, <3>2, <3>3 DEF ConnectLock
  <2>5. ASSUME NEW h \in Threads, ConnectStore(h)
        PROVE  Creators' /\ (Working' => Working)
    <3>1. /\ at[h] = "store" /\ clientsMutex' = Absent /\ made' = [made EXCEPT ![h] = Absent]
          /\ at' = [at EXCEPT ![h] = IF h = "request" THEN "timer" ELSE "idle"]
      BY <2>5 DEF ConnectStore, Returns
    <3> QED BY <3>1 DEF MeetingTypes
  <2>6. ASSUME NEW x \in Sessions, SessionHandles(x) \/ EndSession(x)
        PROVE  Creators' /\ (Working' => Working)
    BY <2>6 DEF SessionHandles, EndSession
  <2>7. CASE SendLock \/ SendNext \/ SendReturn
    BY <2>7 DEF SendLock, SendNext, SendReturn
  <2>8. CASE UNCHANGED discoveryVars
    BY <2>8 DEF discoveryVars
  <2> QED
    BY <2>1, <2>2, <2>3, <2>4, <2>5, <2>6, <2>7, <2>8, <2>9 DEF DiscoveryNext, Stopped
<1> QED BY <1>2, <1>3 DEF Places, Working, Creators

\* One living session for a name at most, by the place that each has.
LEMMA OneOwner ==
  ASSUME DiscoveryInv, NEW x \in Sessions, NEW y \in Sessions, NEW n \in Names,
         owner[x] = n, owner[y] = n
  PROVE  x = y
<1>1. /\ n /= Absent /\ Known /\ Places
      /\ clients[n] = x \/ \E h \in Threads : made[h] = x /\ clientsMutex = h
      /\ clients[n] = y \/ \E h \in Threads : made[h] = y /\ clientsMutex = h
  BY DiscoveryAssumption DEF DiscoveryInv, Known
<1>2. ASSUME NEW h \in Threads, NEW z \in Sessions, made[h] = z, owner[z] = n
      PROVE  clients[n] \notin Sessions
  BY <1>1, <1>2, DiscoveryAssumption DEF Known, Living
<1> QED BY <1>1, <1>2

\* Who waits for the mutex, or has it to store a session, looks for the same name.
LEMMA WantedKept ==
  ASSUME DiscoveryInv, [DiscoveryNext]_discoveryVars, NEW h \in Threads,
         at[h] \in {"lock", "store"}, at'[h] \in {"lock", "store"}
  PROVE  Wanted(h)' = Wanted(h)
<1>1. CASE h = "request"
  BY <1>1 DEF Wanted
<1>2. CASE h = "broadcast"
  BY <1>2, BufferKept DEF Wanted, UsedPort
<1> QED BY <1>1, <1>2 DEF Threads

\* Steps that touch neither the sessions nor who has created one.
LEMMA KnownStays ==
  ASSUME DiscoveryInv, [DiscoveryNext]_discoveryVars, Places',
         clients' = clients, made' = made, owner' = owner,
         clientsMutex' = clientsMutex \/ ~(clientsMutex \in Threads)
  PROVE  Known'
<1>1. /\ Known /\ Places /\ made' = made
      /\ \A h \in Threads : made[h] /= Absent => at[h] = "store" /\ at'[h] = "store"
  BY DEF DiscoveryInv, Places
<1>2. \A h \in Threads : made[h] /= Absent => Wanted(h)' = Wanted(h)
  BY <1>1, WantedKept
<1>3. \A x \in Sessions : owner'[x] /= Absent =>
        \/ clients'[owner'[x]] = x
        \/ \E h \in Threads : made'[h] = x /\ clientsMutex' = h
  BY <1>1 DEF Known
<1>4. \A n \in Names : Living(n)' => owner'[clients'[n]] = n
  BY <1>1 DEF Known, Living
<1>5. ASSUME NEW h \in Threads, made'[h] /= Absent
      PROVE  owner'[made'[h]] = Wanted(h)' /\ ~Living(Wanted(h))'
  BY <1>1, <1>2, <1>5 DEF Known, Living
<1> QED BY <1>3, <1>4, <1>5 DEF Known

\* ConnectToServer finds no living session and creates one, with the mutex.
LEMMA CreateKnown ==
  ASSUME DiscoveryInv, [DiscoveryNext]_discoveryVars, NEW h \in Threads,
         at[h] = "lock", clientsMutex = Absent, ~Living(Wanted(h)),
         Create(h), clientsMutex' = h
  PROVE  Known'
<1>1. Known /\ Places /\ MeetingTypes /\ Absent \notin Threads
  BY DiscoveryAssumption
     DEF DiscoveryInv, DiscoveryTypes, DiscoveryTypeOK, MeetingTypes, Threads
<1>2. PICK x \in Sessions :
        /\ owner[x] = Absent
        /\ owner' = [owner EXCEPT ![x] = Wanted(h)] /\ made' = [made EXCEPT ![h] = x]
  BY DEF Create, Unused
<1>3. clients' = clients /\ at' = [at EXCEPT ![h] = "store"]
  BY DEF Create
<1>4. \A g \in Threads : made[g] = Absent
  BY <1>1 DEF Places
<1>5. Wanted(h) \in Names /\ Absent \notin Names /\ Wanted(h)' = Wanted(h)
  <2>1. at'[h] = "store"
    BY <1>1, <1>3 DEF MeetingTypes
  <2> QED BY <2>1, WantedNamed, WantedKept, DiscoveryAssumption
<1>6. ASSUME NEW y \in Sessions, owner'[y] /= Absent
      PROVE  \/ clients'[owner'[y]] = y
             \/ \E g \in Threads : made'[g] = y /\ clientsMutex' = g
  <2>1. CASE y = x
    BY <1>1, <1>2, <2>1 DEF MeetingTypes
  <2>2. CASE y /= x
    <3>1. owner'[y] = owner[y]
      BY <1>1, <1>2, <2>2 DEF MeetingTypes
    <3>2. clients[owner[y]] = y
      BY <1>1, <1>4, <1>6, <3>1, DiscoveryAssumption DEF Known
    <3> QED BY <1>3, <3>1, <3>2
  <2> QED BY <2>1, <2>2
<1>7. ASSUME NEW n \in Names, Living(n)' PROVE owner'[clients'[n]] = n
  <2>1. clients[n] \in Sessions /\ owner[clients[n]] = n /\ n /= Absent
    BY <1>1, <1>3, <1>5, <1>7 DEF Known, Living
  <2>2. clients[n] /= x
    BY <1>2, <2>1
  <2> QED BY <1>1, <1>2, <1>3, <2>1, <2>2 DEF MeetingTypes
<1>8. ASSUME NEW g \in Threads, made'[g] /= Absent
      PROVE  owner'[made'[g]] = Wanted(g)' /\ ~Living(Wanted(g))'
  <2>1. g = h
    BY <1>1, <1>2, <1>4, <1>8 DEF MeetingTypes
  <2>2. made'[h] = x /\ owner'[x] = Wanted(h)
    BY <1>1, <1>2 DEF MeetingTypes
  <2> QED BY <1>3, <1>5, <2>1, <2>2 DEF Living
<1> QED BY <1>6, <1>7, <1>8 DEF Known

\* The new session takes its place, which no other session has.
LEMMA StoreKnown ==
  ASSUME DiscoveryInv, NEW h \in Threads, ConnectStore(h) PROVE Known'
<1>1. /\ Known /\ Places /\ MeetingTypes
      /\ at[h] = "store" /\ made[h] /= Absent /\ clientsMutex = h
  BY DEF DiscoveryInv, DiscoveryTypes, DiscoveryTypeOK, MeetingTypes, Places, ConnectStore
<1>2. PICK x \in Sessions : x = made[h]
  BY <1>1 DEF MeetingTypes
<1>3. PICK w \in Names : w = Wanted(h)
  BY <1>1, WantedNamed
<1>4. /\ clients' = [clients EXCEPT ![w] = x] /\ owner' = owner
      /\ made' = [made EXCEPT ![h] = Absent]
  BY <1>2, <1>3 DEF ConnectStore
<1>5. \A g \in Threads : made'[g] = Absent
  BY <1>1, <1>4 DEF Places, MeetingTypes
<1>6. owner[x] = w /\ clients[w] \notin Sessions
  BY <1>1, <1>2, <1>3 DEF Known, Living
<1>7. ASSUME NEW y \in Sessions, owner'[y] /= Absent PROVE clients'[owner'[y]] = y
  <2>1. owner[y] \in Names
    BY <1>1, <1>4, <1>7 DEF MeetingTypes
  <2>2. CASE owner[y] = w
    <3>1. y = x
      BY <1>6, <2>2, OneOwner
    <3> QED BY <1>1, <1>4, <2>2, <3>1 DEF MeetingTypes
  <2>3. CASE owner[y] /= w
    <3>1. y /= x /\ clients[owner[y]] = y
      BY <1>1, <1>2, <1>4, <1>6, <1>7, <2>3 DEF Known, Places
    <3> QED BY <1>1, <1>4, <2>1, <2>3, <3>1 DEF MeetingTypes
  <2> QED BY <2>2, <2>3
<1>8. ASSUME NEW n \in Names, Living(n)' PROVE owner'[clients'[n]] = n
  <2>1. CASE n = w
    BY <1>1, <1>4, <1>6, <2>1 DEF MeetingTypes
  <2>2. CASE n /= w
    <3>1. clients'[n] = clients[n]
      BY <1>1, <1>4, <2>2 DEF MeetingTypes
    <3> QED BY <1>1, <1>4, <1>8, <3>1 DEF Known, Living
  <2> QED BY <2>1, <2>2
<1> QED BY <1>5, <1>7, <1>8 DEF Known

\* A session that ends leaves its place, and no other session's.
LEMMA EndKnown ==
  ASSUME DiscoveryInv, [DiscoveryNext]_discoveryVars, Places',
         NEW x \in Sessions, EndSession(x)
  PROVE  Known'
<1>1. /\ Known /\ Places /\ MeetingTypes /\ "expired" \notin Sessions
  BY DiscoveryAssumption DEF DiscoveryInv, DiscoveryTypes, DiscoveryTypeOK, MeetingTypes
<1>2. /\ owner' = [owner EXCEPT ![x] = Absent]
      /\ clients' = [n \in Names |-> IF clients[n] = x THEN "expired" ELSE clients[n]]
      /\ made' = made /\ clientsMutex' = clientsMutex /\ at' = at
      /\ \A h \in Threads : made[h] /= x
  BY DEF EndSession
<1>3. ASSUME NEW y \in Sessions, owner'[y] /= Absent
      PROVE  \/ clients'[owner'[y]] = y
             \/ \E h \in Threads : made'[h] = y /\ clientsMutex' = h
  <2>1. y /= x /\ owner'[y] = owner[y] /\ owner[y] \in Names
    BY <1>1, <1>2, <1>3 DEF MeetingTypes
  <2>2. \/ clients[owner[y]] = y
        \/ \E h \in Threads : made[h] = y /\ clientsMutex = h
    BY <1>1, <1>3, <2>1 DEF Known
  <2> QED BY <1>2, <2>1, <2>2
<1>4. ASSUME NEW n \in Names, Living(n)' PROVE owner'[clients'[n]] = n
  <2>1. clients[n] \in Sessions /\ clients[n] /= x /\ clients'[n] = clients[n]
    BY <1>1, <1>2, <1>4 DEF Living
  <2> QED BY <1>1, <1>2, <2>1 DEF Known, Living, MeetingTypes
<1>5. ASSUME NEW h \in Threads, made'[h] /= Absent
      PROVE  owner'[made'[h]] = Wanted(h)' /\ ~Living(Wanted(h))'
  <2>1. at[h] = "store" /\ at'[h] = "store" /\ made[h] \in Sessions /\ made[h] /= x
    BY <1>1, <1>2, <1>5 DEF Places, MeetingTypes
  <2>2. Wanted(h)' = Wanted(h) /\ Wanted(h) \in Names
    BY <2>1, WantedKept, WantedNamed
  <2>3. owner[made[h]] = Wanted(h) /\ clients[Wanted(h)] \notin Sessions
    BY <1>1, <1>2, <1>5 DEF Known, Living
  <2> QED BY <1>1, <1>2, <2>1, <2>2, <2>3 DEF Living, MeetingTypes
<1> QED BY <1>3, <1>4, <1>5 DEF Known

\* Every step keeps the sessions that are stored, and their names, known.
LEMMA KnownKeeps ==
  ASSUME DiscoveryInv, [DiscoveryNext]_discoveryVars PROVE Known'
<1> USE PlacesKeep, KnownStays DEF sessionVars
<1>0. Absent \notin Threads /\ "send" \notin Threads
  BY DiscoveryAssumption DEF Threads
<1>1. CASE StartHeartbeat \/ BeatArrives \/ StrayArrives \/ Udp \/ Receive \/ ListenForTopics
  BY <1>1 DEF StartHeartbeat, BeatArrives, StrayArrives, Udp, Receive, ListenForTopics
<1>2. CASE RequestTopics \/ TryConnection \/ ProcessBroadcast \/ ParseThrows
  BY <1>2 DEF RequestTopics, TryConnection, ProcessBroadcast, ParseThrows
<1>3. ASSUME NEW h \in Threads, ConnectLock(h) PROVE Known'
  BY <1>3, CreateKnown DEF ConnectLock
<1>4. ASSUME NEW h \in Threads, ConnectStore(h) PROVE Known'
  BY <1>4, StoreKnown
<1>5. ASSUME NEW x \in Sessions, SessionHandles(x) PROVE Known'
  BY <1>5 DEF SessionHandles
<1>6. ASSUME NEW x \in Sessions, EndSession(x) PROVE Known'
  BY <1>6, EndKnown
<1>7. CASE SendLock \/ SendNext \/ SendReturn
  BY <1>0, <1>7 DEF SendLock, SendNext, SendReturn
<1>8. CASE UNCHANGED discoveryVars
  BY <1>8 DEF discoveryVars
<1> QED
  BY <1>1, <1>2, <1>3, <1>4, <1>5, <1>6, <1>7, <1>8 DEF DiscoveryNext, Stopped

\* Steps that touch no message and no call.
LEMMA HandlersStay ==
  ASSUME DiscoveryInv, UNCHANGED <<inbox, sends, handler, calls>>, NEW m \in Sends
  PROVE  HandlerOK(m)'
BY DEF DiscoveryInv, HandlerOK, Unsent, Carried, Carries

\* The session calls the handler it was given, and nobody else has that one.
LEMMA HandledOnce ==
  ASSUME DiscoveryInv, NEW x \in Sessions, SessionHandles(x), NEW m \in Sends
  PROVE  HandlerOK(m)'
<1>1. HandlerOK(m) /\ inbox \in [Sessions -> SUBSET Records] /\ calls \in [Sends -> Nat]
  BY DEF DiscoveryInv, DiscoveryTypes, DiscoveryTypeOK
<1>2. PICK r \in Records :
        /\ r \in inbox[x] /\ inbox' = [inbox EXCEPT ![x] = @ \ {r}]
        /\ calls' = IF r.handler THEN [calls EXCEPT ![r.id] = @ + 1] ELSE calls
        /\ sends' = sends /\ handler' = handler
  BY <1>1 DEF SessionHandles
<1>3. \A y \in Sessions, q \in Records :
        Carries(y, q, m)' <=> Carries(y, q, m) /\ ~(y = x /\ q = r)
  BY <1>1, <1>2 DEF Carries
<1>4. CASE Carries(x, r, m)
  <2>1. calls[m] = 0 /\ ~Unsent(m) /\ ~(m > sends)
    BY <1>1, <1>2, <1>4 DEF HandlerOK, Carried
  <2>2. calls'[m] = 1
    BY <1>1, <1>2, <1>4, <2>1 DEF Carries
  <2>3. ~Carried(m)'
    <3>1. \A y \in Sessions, q \in Records : Carries(y, q, m) => y = x /\ q = r
      BY <1>1, <1>2, <1>4 DEF HandlerOK
    <3> QED BY <1>3, <3>1 DEF Carried
  <2>4. ~Unsent(m)' /\ ~(m > sends')
    BY <1>2, <2>1 DEF Unsent
  <2>5. \A y, z \in Sessions, q, p \in Records :
          (Carries(y, q, m) /\ Carries(z, p, m))' => y = z /\ q = p
    BY <2>3 DEF Carried
  <2> QED BY <2>2, <2>3, <2>4, <2>5 DEF HandlerOK
<1>5. CASE ~Carries(x, r, m)
  <2>1. calls'[m] = calls[m]
    BY <1>1, <1>2, <1>5 DEF Carries
  <2>2. \A y \in Sessions, q \in Records : Carries(y, q, m)' => Carries(y, q, m)
    BY <1>3
  <2>3. (Unsent(m)' <=> Unsent(m)) /\ (Carried(m)' => Carried(m))
    BY <1>2, <2>2 DEF Unsent, Carried
  <2>4. \A y, z \in Sessions, q, p \in Records :
          (Carries(y, q, m) /\ Carries(z, p, m))' => y = z /\ q = p
    BY <1>1, <2>2 DEF HandlerOK
  <2> QED BY <1>1, <1>2, <2>1, <2>3, <2>4 DEF HandlerOK
<1> QED BY <1>4, <1>5

\* A call of SendAsync begins with a handler that nobody has seen.
LEMMA HandlerBegins ==
  ASSUME DiscoveryInv, SendLock, NEW m \in Sends
  PROVE  HandlerOK(m)'
<1>1. HandlerOK(m) /\ sends \in Nat /\ m \in Nat /\ sends' = sends + 1
  BY DiscoveryAssumption DEF DiscoveryInv, DiscoveryTypes, SendLock, Sends
<1>2. inbox' = inbox /\ calls' = calls
  BY DEF SendLock
<1>3. \A y \in Sessions, q \in Records : Carries(y, q, m)' <=> Carries(y, q, m)
  BY <1>2 DEF Carries
<1>4. /\ Carried(m)' <=> Carried(m)
      /\ Unsent(m)' => m > sends /\ ~(m > sends')
      /\ m > sends' => m > sends
  BY <1>1, <1>3 DEF Carried, Unsent
<1>5. \A y, z \in Sessions, q, p \in Records :
        (Carries(y, q, m) /\ Carries(z, p, m))' => y = z /\ q = p
  BY <1>1, <1>3 DEF HandlerOK
<1> QED BY <1>1, <1>2, <1>4, <1>5 DEF HandlerOK

\* The first living client is given the handler, which the caller no longer has.
LEMMA HandlerGiven ==
  ASSUME DiscoveryInv, SendNext, NEW m \in Sends
  PROVE  HandlerOK(m)'
<1>1. /\ HandlerOK(m) /\ inbox \in [Sessions -> SUBSET Records]
      /\ sends \in Nat /\ handler \in BOOLEAN
  BY DiscoveryAssumption DEF DiscoveryInv, DiscoveryTypes, DiscoveryTypeOK
<1>2. sends' = sends /\ calls' = calls
  BY DEF SendNext
<1>3. CASE UNCHANGED <<inbox, handler>>
  BY <1>2, <1>3, HandlersStay
<1>4. CASE ~UNCHANGED <<inbox, handler>>
  <2> DEFINE new == [id |-> sends, handler |-> handler]
  <2>1. PICK x \in Sessions : inbox' = [inbox EXCEPT ![x] = @ \cup {new}] /\ handler' = FALSE
    BY <1>4 DEF SendNext, Visit, Living
  <2>2. new \in Records /\ new.id = sends /\ new.handler = handler
    BY <1>1 DEF Records
  <2> HIDE DEF new
  <2>3. \A y \in Sessions, q \in Records :
          Carries(y, q, m)' => Carries(y, q, m) \/ (y = x /\ q = new /\ Unsent(m))
    BY <1>1, <2>1, <2>2 DEF Carries, Unsent
  <2>4. ~Unsent(m)' /\ (Carried(m)' => Carried(m) \/ Unsent(m))
    BY <2>1, <2>3 DEF Unsent, Carried
  <2>5. Unsent(m) => ~Carried(m) /\ calls[m] = 0 /\ ~(m > sends)
    BY <1>1 DEF HandlerOK, Unsent, Sends
  <2>6. \A y, z \in Sessions, q, p \in Records :
          (Carries(y, q, m) /\ Carries(z, p, m))' => y = z /\ q = p
    <3>1. CASE Unsent(m)
      BY <2>3, <2>5, <3>1 DEF Carried
    <3>2. CASE ~Unsent(m)
      BY <1>1, <2>3, <3>2 DEF HandlerOK
    <3> QED BY <3>1, <3>2
  <2> QED BY <1>1, <1>2, <2>4, <2>5, <2>6 DEF HandlerOK
<1> QED BY <1>3, <1>4

\* With no client the handler is called under the mutex, by the call that has it.
LEMMA CallerHandles ==
  ASSUME DiscoveryInv, SendReturn, NEW m \in Sends
  PROVE  HandlerOK(m)'
<1>1. HandlerOK(m) /\ calls \in [Sends -> Nat] /\ sends \in Nat /\ handler \in BOOLEAN
  BY DiscoveryAssumption DEF DiscoveryInv, DiscoveryTypes, DiscoveryTypeOK
<1>2. /\ inbox' = inbox /\ sends' = sends /\ handler' = FALSE
      /\ calls' = IF handler THEN [calls EXCEPT ![sends] = @ + 1] ELSE calls
  BY DEF SendReturn
<1>3. calls'[m] = IF Unsent(m) THEN calls[m] + 1 ELSE calls[m]
  BY <1>1, <1>2 DEF Unsent
<1>4. \A y \in Sessions, q \in Records : Carries(y, q, m)' <=> Carries(y, q, m)
  BY <1>2 DEF Carries
<1>5. ~Unsent(m)' /\ (Carried(m)' <=> Carried(m))
  BY <1>2, <1>4 DEF Unsent, Carried
<1>6. \A y, z \in Sessions, q, p \in Records :
        (Carries(y, q, m) /\ Carries(z, p, m))' => y = z /\ q = p
  BY <1>1, <1>4 DEF HandlerOK
<1>7. Unsent(m) => ~Carried(m) /\ calls[m] = 0 /\ ~(m > sends)
  BY <1>1 DEF HandlerOK, Unsent, Sends
<1> QED BY <1>1, <1>2, <1>3, <1>5, <1>6, <1>7 DEF HandlerOK

\* Every step leaves each handler with one holder at most.
LEMMA HandlersKeep ==
  ASSUME DiscoveryInv, [DiscoveryNext]_discoveryVars, NEW m \in Sends
  PROVE  HandlerOK(m)'
<1> USE HandlersStay DEF sendVars
<1>1. CASE StartHeartbeat \/ BeatArrives \/ StrayArrives \/ Udp \/ Receive \/ ListenForTopics
  BY <1>1 DEF StartHeartbeat, BeatArrives, StrayArrives, Udp, Receive, ListenForTopics
<1>2. CASE RequestTopics \/ TryConnection \/ ProcessBroadcast \/ ParseThrows
  BY <1>2 DEF RequestTopics, TryConnection, ProcessBroadcast, ParseThrows
<1>3. ASSUME NEW h \in Threads, ConnectLock(h) \/ ConnectStore(h) PROVE HandlerOK(m)'
  BY <1>3 DEF ConnectLock, ConnectStore
<1>4. ASSUME NEW x \in Sessions, SessionHandles(x) PROVE HandlerOK(m)'
  BY <1>4, HandledOnce
<1>5. ASSUME NEW x \in Sessions, EndSession(x) PROVE HandlerOK(m)'
  BY <1>5 DEF EndSession
<1>6. CASE SendLock \/ SendNext \/ SendReturn
  BY <1>6, HandlerBegins, HandlerGiven, CallerHandles
<1>7. CASE UNCHANGED discoveryVars
  BY <1>7 DEF discoveryVars
<1> QED BY <1>1, <1>2, <1>3, <1>4, <1>5, <1>6, <1>7 DEF DiscoveryNext, Stopped

\* Every step leaves the sessions that the present SendAsync must reach among those
\* it will.
LEMMA ReachableKeeps ==
  ASSUME DiscoveryInv, [DiscoveryNext]_discoveryVars PROVE Reachable'
<1> USE DEF Reachable, sendVars, sessionVars
<1>1. /\ Reachable /\ Known /\ Places /\ MeetingTypes /\ missed \subseteq Sessions
      /\ "send" \notin Threads /\ Absent \notin Names /\ Absent /= "send"
  BY DiscoveryAssumption
     DEF DiscoveryInv, DiscoveryTypes, DiscoveryTypeOK, MeetingTypes, Threads
<1>2. CASE StartHeartbeat \/ BeatArrives \/ StrayArrives \/ Udp \/ Receive \/ ListenForTopics
  BY <1>1, <1>2 DEF StartHeartbeat, BeatArrives, StrayArrives, Udp, Receive, ListenForTopics
<1>3. CASE RequestTopics \/ TryConnection \/ ProcessBroadcast \/ ParseThrows
  BY <1>1, <1>3 DEF RequestTopics, TryConnection, ProcessBroadcast, ParseThrows
<1>4. ASSUME NEW h \in Threads, ConnectLock(h) \/ ConnectStore(h) PROVE Reachable'
  <2>1. clientsMutex /= "send" /\ clientsMutex' /= "send"
    BY <1>1, <1>4 DEF ConnectLock, ConnectStore, Places
  <2>2. missed' = missed /\ todo' = todo
    BY <1>4 DEF ConnectLock, ConnectStore
  <2> QED BY <1>1, <2>1, <2>2
<1>5. ASSUME NEW x \in Sessions, SessionHandles(x) PROVE Reachable'
  BY <1>1, <1>5 DEF SessionHandles
<1>6. ASSUME NEW x \in Sessions, EndSession(x) PROVE Reachable'
  BY <1>1, <1>6 DEF EndSession, MeetingTypes
<1>7. CASE SendLock
  BY <1>1, <1>7 DEF SendLock
<1>8. CASE SendNext
  <2>1. PICK n \in todo : todo' = todo \ {n} /\ Visit(n)
    BY <1>8 DEF SendNext
  <2>2. clientsMutex = "send" /\ UNCHANGED sessionVars
    BY <1>8 DEF SendNext
  <2>3. ASSUME NEW x \in missed' PROVE owner'[x] \in todo'
    <3>1. x \in missed /\ owner[x] \in todo
      BY <1>1, <2>1, <2>3 DEF Visit
    <3>2. clients[owner[x]] = x
      BY <1>1, <2>2, <3>1 DEF Known, MeetingTypes
    <3>3. owner[x] /= n
      BY <1>1, <2>1, <2>3, <3>1, <3>2 DEF Visit, Living
    <3> QED BY <2>1, <2>2, <3>1, <3>3
  <2> QED BY <2>2, <2>3
<1>9. CASE SendReturn
  BY <1>1, <1>9 DEF SendReturn
<1>10. CASE UNCHANGED discoveryVars
  BY <1>1, <1>10 DEF discoveryVars
<1> QED
  BY <1>2, <1>3, <1>4, <1>5, <1>6, <1>7, <1>8, <1>9, <1>10 DEF DiscoveryNext, Stopped

\* The parts together.
LEMMA DiscoveryStep == DiscoveryInv /\ [DiscoveryNext]_discoveryVars => DiscoveryInv'
BY DiscoveryTypesKeep, ReceiverKeeps, PlacesKeep, KnownKeeps, ReachableKeeps, HandlersKeep
   DEF DiscoveryInv, Sends

\* Whatever datagrams arrive, and however the broadcast handler, the request, the
\* sessions and the callers of SendAsync interleave.
THEOREM DiscoveryInvariance == DiscoverySpec => []DiscoveryInv
<1>1. DiscoveryInit => DiscoveryInv
  BY DiscoveryInitially
<1> QED BY <1>1, DiscoveryStep, PTL DEF DiscoverySpec

\* There are never two sessions to a server, and none that SendAsync cannot reach
\* (ConnectToServer, called by ProcessBroadcast and by try_connection).
THEOREM OneSession == DiscoverySpec => []OneSessionPerServer
<1>1. DiscoveryInv => OneSessionPerServer
  <2> SUFFICES ASSUME DiscoveryInv PROVE OneSessionPerServer
    OBVIOUS
  <2>1. ASSUME NEW n \in Names PROVE Cardinality({x \in Sessions : owner[x] = n}) <= 1
    <3> DEFINE S == {x \in Sessions : owner[x] = n}
    <3>1. \A x, y \in S : x = y
      BY OneOwner
    <3>2. CASE S = {}
      BY <3>2, FS_EmptySet
    <3>3. CASE S /= {}
      <4>1. PICK x : S = {x}
        BY <3>1, <3>3
      <4> QED BY <4>1, FS_Singleton
    <3> QED BY <3>2, <3>3
  <2> QED BY <2>1 DEF DiscoveryInv, DiscoveryTypes, Known, OneSessionPerServer
<1> QED BY <1>1, DiscoveryInvariance, PTL

\* A handler given to SendAsync is called at most once, whoever calls it.
THEOREM HandlerOnce == DiscoverySpec => []HandlerCalledAtMostOnce
<1>1. DiscoveryInv => HandlerCalledAtMostOnce
  BY DEF DiscoveryInv, HandlerOK, HandlerCalledAtMostOnce
<1> QED BY <1>1, DiscoveryInvariance, PTL

\* SendAsync gives its message to every session there is to its targets, but those that
\* end before it comes to them.
THEOREM SendsReach == DiscoverySpec => []SendReachesAll
<1>1. DiscoveryInv => SendReachesAll
  BY DEF DiscoveryInv, Reachable, SendReachesAll
<1> QED BY <1>1, DiscoveryInvariance, PTL
=============================================================================
