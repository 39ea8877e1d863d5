-------------------------- MODULE MCMeshRustClient --------------------------
(***************************************************************************)
(* Instances of MeshRustClient: sockets are used once, so their number     *)
(* bounds the connection attempts of one process.                          *)
(***************************************************************************)
EXTENDS MeshRustClient, TLC

CONSTANTS s1, s2, s3, s4, r1, r2
=============================================================================
