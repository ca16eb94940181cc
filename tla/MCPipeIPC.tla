------------------------------ MODULE MCPipeIPC ------------------------------
(* Instances of PipeIPC for TLC. *)
EXTENDS PipeIPC
CONSTANTS s1, s2, r1, r2, c1
=============================================================================
