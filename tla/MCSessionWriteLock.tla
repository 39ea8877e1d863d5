------------------------- MODULE MCSessionWriteLock -------------------------
(* Two callers in one process and one in another; the second and the third *)
(* may enter again.                                                        *)
EXTENDS SessionWriteLock, TLC

CONSTANTS p1, p2, c1, c2, c3

MCHome == c1 :> p1 @@ c2 :> p1 @@ c3 :> p2
=============================================================================
