---------------------------- MODULE GuardedContext ----------------------------
(***************************************************************************)
(* GuardedContext of Networking/src/UtilsASIO.hpp: an io_context kept      *)
(* alive by a work guard, the threads that run it, and the ways to stop    *)
(* it: Shutdown from any thread of the program, SIGINT or SIGTERM, the     *)
(* destructor.                                                             *)
(*                                                                         *)
(* Run takes no mutex, so a Shutdown may come between the threads it       *)
(* spawns.  A worker takes one ready handler at a time; which handlers     *)
(* there are is for the module that composes the context with something    *)
(* that uses it.  Shutdown is not called from a handler (on_sigevent's     *)
(* comment says why), nor is Run called by two threads.                    *)
(***************************************************************************)
EXTENDS Integers, FiniteSets

CONSTANTS
  Workers,   \* the threads that Run spawns
  Callers,   \* threads that call Shutdown
  Owner,     \* the caller that destroys the context, last
  Nobody     \* the mutex is free

ASSUME ContextAssumption == Owner \in Callers /\ Nobody \notin Callers

VARIABLES
  worker,    \* worker[t]: "none", "running" in io_context.run(), "busy" in a handler, "exited"
  stopped,   \* io_context.stopped()
  signals,   \* "off", "armed", "raised" (on_sigevent is ready), or "done"
  mutex,
  pc,        \* where each caller is
  joining,   \* joining[c]: the threads its loop has yet to join
  callback,  \* shutdownCallback is set
  called,    \* history: times shutdownCallback was called
  destroyed  \* the io_context is gone

contextVars == <<worker, stopped, signals, mutex, pc, joining, callback, called,
                 destroyed>>

ContextInit ==
  /\ worker = [t \in Workers |-> "none"]
  /\ stopped = FALSE
  /\ signals = "off"
  /\ mutex = Nobody
  /\ pc = [c \in Callers |-> "idle"]
  /\ joining = [c \in Callers |-> {}]
  /\ callback = TRUE /\ called = 0
  /\ destroyed = FALSE

-----------------------------------------------------------------------------
(* Run and the workers *)

\* Run's caller may be anywhere in its loop, but a destroyed context has none.
Spawn(t) ==
  /\ worker[t] = "none" /\ signals = "off" /\ pc[Owner] = "idle"
  /\ worker' = [worker EXCEPT ![t] = "running"]
  /\ UNCHANGED <<stopped, signals, mutex, pc, joining, callback, called, destroyed>>

\* All threads are there: Run waits for signals, and returns.
ArmSignals ==
  /\ signals = "off" /\ (\A t \in Workers : worker[t] /= "none") /\ pc[Owner] = "idle"
  /\ signals' = "armed"
  /\ UNCHANGED <<worker, stopped, mutex, pc, joining, callback, called, destroyed>>

\* A handler begins: the context has not been stopped.
BeginHandler(t) ==
  /\ worker[t] = "running" /\ ~stopped
  /\ worker' = [worker EXCEPT ![t] = "busy"]

EndHandler(t) ==
  /\ worker[t] = "busy"
  /\ worker' = [worker EXCEPT ![t] = "running"]
  /\ UNCHANGED <<stopped, signals, mutex, pc, joining, callback, called, destroyed>>

\* run() returns once the context is stopped: the work guard excludes any other reason.
Exit(t) ==
  /\ worker[t] = "running" /\ stopped
  /\ worker' = [worker EXCEPT ![t] = "exited"]
  /\ UNCHANGED <<stopped, signals, mutex, pc, joining, callback, called, destroyed>>

Raise ==
  /\ signals = "armed" /\ ~destroyed
  /\ signals' = "raised"
  /\ UNCHANGED <<worker, stopped, mutex, pc, joining, callback, called, destroyed>>

\* on_sigevent stops the context and joins nobody.
OnSigevent(t) ==
  /\ signals = "raised"
  /\ BeginHandler(t)
  /\ signals' = "done"
  /\ stopped' = TRUE
  /\ UNCHANGED <<mutex, pc, joining, callback, called, destroyed>>

-----------------------------------------------------------------------------
(* Shutdown *)

\* The owner destroys the context when nobody else uses it.
Enter(c) ==
  /\ pc[c] = "idle" /\ mutex = Nobody
  /\ c = Owner => \A d \in Callers \ {c} : pc[d] \in {"idle", "returned"}
  /\ c /= Owner => pc[Owner] = "idle"
  /\ mutex' = c
  /\ pc' = [pc EXCEPT ![c] = "callback"]
  /\ UNCHANGED <<worker, stopped, signals, joining, callback, called, destroyed>>

Callback(c) ==
  /\ pc[c] = "callback"
  /\ called' = IF callback THEN called + 1 ELSE called
  /\ callback' = FALSE
  /\ pc' = [pc EXCEPT ![c] = "stop"]
  /\ UNCHANGED <<worker, stopped, signals, mutex, joining, destroyed>>

\* Mutant: a context whose signals were cancelled is taken to be stopped.
CancelOnly(c) ==
  /\ pc[c] = "stop"
  /\ signals' = IF signals = "armed" THEN "done" ELSE signals
  /\ joining' = [joining EXCEPT ![c] = {t \in Workers : worker[t] /= "none"}]
  /\ pc' = [pc EXCEPT ![c] = "join"]
  /\ UNCHANGED <<worker, stopped, mutex, callback, called, destroyed>>

\* The wait for signals is cancelled, the context stopped, and the loop over
\* the threads there are at that moment begins.
Stop(c) ==
  /\ pc[c] = "stop"
  /\ signals' = IF signals = "armed" THEN "done" ELSE signals
  /\ stopped' = TRUE
  /\ joining' = [joining EXCEPT ![c] = {t \in Workers : worker[t] /= "none"}]
  /\ pc' = [pc EXCEPT ![c] = "join"]
  /\ UNCHANGED <<worker, mutex, callback, called, destroyed>>

Join(c, t) ==
  /\ pc[c] = "join" /\ t \in joining[c] /\ worker[t] = "exited"
  /\ joining' = [joining EXCEPT ![c] = @ \ {t}]
  /\ UNCHANGED <<worker, stopped, signals, mutex, pc, callback, called, destroyed>>

\* Mutant: the threads are not waited for.
ReturnAtOnce(c) ==
  /\ pc[c] = "join"
  /\ mutex' = Nobody
  /\ pc' = [pc EXCEPT ![c] = "returned"]
  /\ destroyed' = (destroyed \/ c = Owner)
  /\ joining' = [joining EXCEPT ![c] = {}]
  /\ UNCHANGED <<worker, stopped, signals, callback, called>>

\* The mutex is released; after the owner's call the io_context is destroyed.
Return(c) ==
  /\ pc[c] = "join" /\ joining[c] = {}
  /\ mutex' = Nobody
  /\ pc' = [pc EXCEPT ![c] = "returned"]
  /\ destroyed' = (destroyed \/ c = Owner)
  /\ UNCHANGED <<worker, stopped, signals, joining, callback, called>>

-----------------------------------------------------------------------------

WorkerStep(t) == EndHandler(t) \/ Exit(t)

ShutdownStep(c) ==
  Enter(c) \/ Callback(c) \/ Stop(c) \/ Return(c) \/ \E t \in Workers : Join(c, t)

ContextNext ==
  \/ \E t \in Workers : Spawn(t) \/ WorkerStep(t) \/ OnSigevent(t)
  \/ ArmSignals \/ Raise
  \/ \E c \in Callers : ShutdownStep(c)

-----------------------------------------------------------------------------
(* Properties *)

\* Once a Shutdown has returned no handler is running and none ever starts,
\* even when it came between two of Run's spawns or after a signal; the
\* callback has been called once, whoever comes first; and the context is not
\* destroyed under a thread that is still in run().
ShutdownQuiesces ==
  /\ (\E c \in Callers : pc[c] = "returned") =>
       stopped /\ called = 1 /\ \A t \in Workers : worker[t] /= "busy"
  /\ destroyed => \A t \in Workers : worker[t] \in {"none", "exited"}
=============================================================================
