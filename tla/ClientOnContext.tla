--------------------------- MODULE ClientOnContext ---------------------------
(***************************************************************************)
(* A TCP client whose handlers are run by the threads of a guarded context *)
(* (TcpClient composed with GuardedContext): a handler begins only while   *)
(* the context runs, two handlers of the client's strand are never run at  *)
(* once, and the end of the context is the end of the client's operations. *)
(***************************************************************************)
EXTENDS GuardedContext, TcpClient

VARIABLE
  task    \* task[t]: what t's handler is about: "client", "signal" or "none"

vars == <<contextVars, clientVars, task>>

Init ==
  /\ ContextInit /\ ClientInit
  /\ task = [t \in Workers |-> "none"]

Handling == \E t \in Workers : task[t] = "client"

\* A worker takes a ready handler, in any order, as its strand permits.
HandleOn(t, h) ==
  /\ BeginHandler(t)
  /\ Strands(h) => strand = None
  /\ strand' = IF Strands(h) THEN t ELSE strand
  /\ Handle(h)
  /\ task' = [task EXCEPT ![t] = "client"]
  /\ UNCHANGED <<stopped, signals, mutex, pc, joining, callback, called, destroyed,
                 secure, userVars, fateVars>>

HandleSignal(t) ==
  /\ OnSigevent(t)
  /\ task' = [task EXCEPT ![t] = "signal"]
  /\ UNCHANGED clientVars

\* The handler returns and with it its pointer on the client goes.
HandlerReturns(t) ==
  /\ EndHandler(t)
  /\ task' = [task EXCEPT ![t] = "none"]
  /\ strand' = IF strand = t THEN None ELSE strand
  /\ UNCHANGED <<secure, userVars, connVars, write_msgs_, ops, ready, fateVars>>

\* When the io_context is destroyed its handlers go with it.
ContextStep ==
  /\ \/ \E t \in Workers : Spawn(t) \/ Exit(t)
     \/ ArmSignals \/ Raise
     \/ \E c \in Callers : ShutdownStep(c)
  /\ IF destroyed' /= destroyed THEN ContextGone ELSE UNCHANGED clientVars
  /\ UNCHANGED task

ClientStep ==
  /\ \/ ~destroyed /\ (Run \/ Write \/ Close)
     \/ \E x \in ops, ok \in BOOLEAN : Complete(x, ok)
     \/ Destructor(Handling)
  /\ UNCHANGED <<contextVars, task>>

Next ==
  \/ \E t \in Workers :
       \/ \E h \in ready : HandleOn(t, h)
       \/ HandleSignal(t) \/ HandlerReturns(t)
  \/ ContextStep \/ ClientStep

Spec == Init /\ [][Next]_vars

\* A thread that is in a handler, or in run() after the stop, goes on, and so
\* does the one that is in Shutdown.
ThreadsProceed ==
  /\ \A t \in Workers :
       WF_vars(HandlerReturns(t) \/ (Exit(t) /\ UNCHANGED <<clientVars, task>>))
  /\ WF_vars(mutex /= Nobody /\ ShutdownStep(mutex) /\ ContextStep)

FairSpec == Spec /\ ThreadsProceed

-----------------------------------------------------------------------------
(* Properties *)

\* A Shutdown that has got the mutex gives it back, whatever handlers are
\* running or ready and whether or not a signal has stopped the context before.
ShutdownReturns == mutex /= Nobody ~> mutex = Nobody

\* The client's callbacks and its destruction, see TcpClient.
ClientClosedOnce == CallbacksPaired /\ DestroyedUnconnected
=============================================================================
