-------------------------- MODULE MCClientOnContext --------------------------
(* Instances of ClientOnContext for TLC. *)
EXTENDS ClientOnContext, TLC
CONSTANTS t1, main, other
=============================================================================
