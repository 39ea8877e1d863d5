------------------------- MODULE MCMeshDelegation -------------------------
(***************************************************************************)
(* Instances of MeshDelegation: a few nodes that may restart, and one task. *)
(***************************************************************************)
EXTENDS MeshDelegation, TLC

CONSTANTS n1, n2, n3, t1
=============================================================================
