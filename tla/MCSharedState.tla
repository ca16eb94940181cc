---------------------------- MODULE MCSharedState ----------------------------
(* Instances of SharedState for TLC. *)
EXTENDS SharedState
CONSTANTS s1, s2, a1, a2, e1, e2

\* A websocket and a plain connection, to two peers.
MCKind == s1 :> "ws" @@ s2 :> "tcp"
MCEndpoint == s1 :> e1 @@ s2 :> e2
=============================================================================
