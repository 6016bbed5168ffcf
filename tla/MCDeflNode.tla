----------------------------- MODULE MCDeflNode -----------------------------
(* Instances of DeflNode for TLC. *)
EXTENDS DeflNode, TLC

CONSTANTS n1, n2, c1, c2

OneEach == c1 :> n1 @@ c2 :> n2             \* each client has a node of its own
Together == c1 :> n1 @@ c2 :> n1            \* both clients share a node
=============================================================================
