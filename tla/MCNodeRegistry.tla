--------------------------- MODULE MCNodeRegistry ---------------------------
(* A node with three connections in turn, and one with a single one.       *)
EXTENDS NodeRegistry, TLC

CONSTANTS n1, n2, k1, k2, k3, k4, i1, i2, i3

MCNodeOf == k1 :> n1 @@ k2 :> n1 @@ k3 :> n1 @@ k4 :> n2
MCTarget == i1 :> n1 @@ i2 :> n1 @@ i3 :> n2
=============================================================================
