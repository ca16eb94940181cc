----------------------------- MODULE MCRouterIPC -----------------------------
(* Instances of RouterIPC for TLC. *)
EXTENDS RouterIPC
CONSTANTS a1, a2, r1, r2
=============================================================================
