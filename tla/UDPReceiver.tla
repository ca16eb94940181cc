---------------------------- MODULE UDPReceiver ----------------------------
(***************************************************************************)
(* UDPReceiver of Networking/src/UtilsASIO.hpp: one receive at a time into *)
(* one buffer, and an actor that waits on a timer and closes the socket    *)
(* when a receive has been under way for too long.                         *)
(*                                                                         *)
(* Each start of a receive moves the timer's deadline, which cancels the   *)
(* wait on it.  A wait whose handler was queued already is not cancelled:  *)
(* check_timeout then finds a deadline that lies ahead, and waits again.   *)
(* One that is cancelled is not begun again.  There is no strand: another  *)
(* thread may start a receive between the steps of check_timeout.          *)
(***************************************************************************)
EXTENDS Integers

CONSTANTS
  HasTimeout,   \* timeout_period_seconds > 0
  Absent

VARIABLES
  rx,        \* the receive: "off" before run, "pending", "ready" (on_recieve is
             \* queued), "processing", "failed" (on_recieve has an error), "dead"
  buffer,    \* the datagram received; Absent while the next one is awaited
  open,      \* the socket is
  deadline,  \* timeout.expiry(): "never", "ahead" or "passed"
  wait,      \* check_timeout: "none", "pending", queued as "fired" or "aborted";
             \* "expired" or "closing" in the middle of it
  ioStopped  \* io_context.stopped()

udpVars == <<rx, buffer, open, deadline, wait, ioStopped>>

UdpInit ==
  /\ rx = "off" /\ buffer = Absent
  /\ open = TRUE
  /\ deadline = "passed"      \* a new timer has expired
  /\ wait = "none"
  /\ ioStopped = FALSE

\* start_recieve: expires_after cancels the wait, and then the socket is asked.
StartReceive ==
  /\ rx' = IF open THEN "pending" ELSE "failed"
  /\ buffer' = Absent
  /\ deadline' = IF HasTimeout THEN "ahead" ELSE "never"

\* run waits on the expired timer and starts a receive, which cancels that wait
\* unless its handler is queued already.
UdpRun ==
  /\ rx = "off"
  /\ StartReceive
  /\ wait' \in {"aborted", "fired"}
  /\ UNCHANGED <<open, ioStopped>>

ReceiveAgain ==
  /\ StartReceive
  /\ wait' = IF wait = "pending" THEN "aborted" ELSE wait
  /\ UNCHANGED <<open, ioStopped>>

Arrive(d) ==
  /\ rx = "pending"
  /\ rx' = "ready" /\ buffer' = d
  /\ UNCHANGED <<open, deadline, wait, ioStopped>>

ReceiveFails ==
  /\ rx = "pending"
  /\ rx' = "failed"
  /\ UNCHANGED <<buffer, open, deadline, wait, ioStopped>>

\* callbackRead is called; start_recieve follows when it returns.
OnReceive ==
  /\ rx = "ready" /\ ~ioStopped
  /\ rx' = "processing"
  /\ UNCHANGED <<buffer, open, deadline, wait, ioStopped>>

\* on_error tells the user, but not when timedout is set; no receive is started
\* any more.
OnReceiveError ==
  /\ rx = "failed" /\ ~ioStopped
  /\ rx' = "dead"
  /\ UNCHANGED <<buffer, open, deadline, wait, ioStopped>>

DeadlinePasses ==
  /\ deadline = "ahead"
  /\ deadline' = "passed"
  /\ UNCHANGED <<rx, buffer, open, wait, ioStopped>>

TimerFires ==
  /\ wait = "pending" /\ deadline = "passed"
  /\ wait' = "fired"
  /\ UNCHANGED <<rx, buffer, open, deadline, ioStopped>>

\* The deadline may have moved since the wait expired.  An aborted wait ends the actor.
CheckTimeout ==
  /\ wait \in {"fired", "aborted"} /\ ~ioStopped
  /\ wait' = IF wait = "aborted" THEN "none"
             ELSE IF deadline = "passed" THEN "expired" ELSE "pending"
  /\ UNCHANGED <<rx, buffer, open, deadline, ioStopped>>

\* The user's callbackTimeout stops the io_context; a receive that was started after
\* the deadline was looked at does not prevent it.
StopContext ==
  /\ wait = "expired"
  /\ wait' = "closing" /\ ioStopped' = TRUE
  /\ UNCHANGED <<rx, buffer, open, deadline>>

CloseSocket ==
  /\ wait = "closing"
  /\ open' = FALSE /\ rx' = IF rx = "pending" THEN "failed" ELSE rx
  /\ deadline' = "never"
  /\ wait' = "pending"
  /\ UNCHANGED <<buffer, ioStopped>>
=============================================================================
