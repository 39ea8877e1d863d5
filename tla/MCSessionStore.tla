--------------------------- MODULE MCSessionStore ---------------------------
(* Two tasks in one process, the second a patch, and one in another.       *)
EXTENDS SessionStore, TLC

CONSTANTS p1, p2, t1, t2, t3

MCHome == t1 :> p1 @@ t2 :> p1 @@ t3 :> p2
=============================================================================
