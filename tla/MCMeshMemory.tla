---------------------------- MODULE MCMeshMemory ----------------------------
(***************************************************************************)
(* Instances of MeshMemory: a few nodes, each restarting while client ids  *)
(* last, and one or two user writes.                                       *)
(***************************************************************************)
EXTENDS MeshMemory

CONSTANTS n1, n2, note1, va

=============================================================================
