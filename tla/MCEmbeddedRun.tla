--------------------------- MODULE MCEmbeddedRun ---------------------------
(* Two runs and two profiles, the second of which may fail for billing.    *)
(* The first run may take either, fall back on other models, be reset and  *)
(* have to save without the lock; the user has chosen the second profile   *)
(* for the other, whose context may become too long and which may think    *)
(* less.  The window is shorter than either backoff, so that failures count*)
(* as the first again while a profile is still disabled.                   *)
EXTENDS EmbeddedRun, TLC

CONSTANTS r1, r2, a, b

MCPreferred == r1 :> NoProfile @@ r2 :> b
MCLevels == r1 :> {"off"} @@ r2 :> {"off", "low"}
MCBackoff == <<1, 2>>
MCBilling == <<1, 3>>
=============================================================================
