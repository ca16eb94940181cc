------------------------------ MODULE MCUtilsIPC ------------------------------
(* Instances of UtilsIPC for TLC. *)
EXTENDS UtilsIPC
CONSTANTS p1, p2, p3, g1, g2
=============================================================================
