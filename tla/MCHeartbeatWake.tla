-------------------------- MODULE MCHeartbeatWake --------------------------
(***************************************************************************)
(* Instances of HeartbeatWake: two targets, two requests of two            *)
(* priorities, and two handlers, so that a restart can overtake a batch.   *)
(***************************************************************************)
EXTENDS HeartbeatWake, TLC

CONSTANTS ta, tb, q1, q2
=============================================================================
