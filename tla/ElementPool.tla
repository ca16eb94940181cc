----------------------------- MODULE ElementPool -----------------------------
(***************************************************************************)
(* What a memory pool promises the processes that use it: make_pooled      *)
(* hands out an element nobody holds, a holder (or anyone who can reach    *)
(* one, through a copy or a weak pointer) may share it, and the element is *)
(* up for reuse only when the last holder has let go.  MemPoolIPC.tla is   *)
(* shown to implement this.                                                *)
(***************************************************************************)
CONSTANTS Procs, Elements

VARIABLES
  held,  \* held[p]: the elements process p holds
  lost   \* elements whose construction threw: never handed out again

Init == held = [p \in Procs |-> {}] /\ lost = {}

InUse == UNION {held[p] : p \in Procs}

Acquire(p, e) ==
  /\ e \notin InUse \cup lost
  /\ held' = [held EXCEPT ![p] = @ \cup {e}]
  /\ UNCHANGED lost

Share(p, e) ==
  /\ e \in InUse
  /\ held' = [held EXCEPT ![p] = @ \cup {e}]
  /\ UNCHANGED lost

Drop(p, e) ==
  /\ held' = [held EXCEPT ![p] = @ \ {e}]
  /\ UNCHANGED lost

Lose(p, e) ==
  /\ e \in held[p]
  /\ held' = [held EXCEPT ![p] = @ \ {e}]
  /\ lost' = lost \cup {e}

Next ==
  \E p \in Procs, e \in Elements :
    Acquire(p, e) \/ Share(p, e) \/ Drop(p, e) \/ Lose(p, e)

Spec == Init /\ [][Next]_<<held, lost>>
=============================================================================
