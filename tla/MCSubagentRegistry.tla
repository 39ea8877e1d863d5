------------------------- MODULE MCSubagentRegistry -------------------------
(* The run r1 works in the session parent.  The run r2 works in a session  *)
(* that r1 spawns, or replaces r1 when it is steered.                      *)
EXTENDS SubagentRegistry, TLC

CONSTANTS r1, r2, parent, child

Steered == r1 :> parent @@ r2 :> parent
Nested == r1 :> parent @@ r2 :> child

MCPlans ==
    [at : {Nested}, expects : {{child}, {parent}}, delete : {{child}}]
      \union [at : {Steered}, expects : {{}, {parent}}, delete : {{}}]

MCRequester == parent :> Main @@ child :> parent
MCMaxStarts == r1 :> 1 @@ r2 :> 2
=============================================================================
