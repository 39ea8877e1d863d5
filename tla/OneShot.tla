------------------------------ MODULE OneShot ------------------------------
(***************************************************************************)
(* What the gateway promises the callers of its remote calls, whoever      *)
(* answers them: the Rust bridge (MeshRustClient) or a node (NodeRegistry).*)
(* A call is refused at once or stays open; an open call ends once, by an  *)
(* answer or a refusal, and no call stays open.                            *)
(***************************************************************************)
CONSTANT Calls

VARIABLE promise      \* promise[c]: how the promise of the call c stands

States == {"uncalled", "open", "answered", "refused"}

Init == promise = [c \in Calls |-> "uncalled"]

Call(c) ==
    /\ promise[c] = "uncalled"
    /\ \E p \in {"open", "refused"} : promise' = [promise EXCEPT ![c] = p]

(* A node that goes takes all the calls it has not answered along: several *)
(* calls may end in one step.                                              *)
End(C) ==
    /\ C # {} /\ \A c \in C : promise[c] = "open"
    /\ \E p \in {"answered", "refused"} :
          promise' = [c \in Calls |-> IF c \in C THEN p ELSE promise[c]]

Next == (\E c \in Calls : Call(c)) \/ (\E C \in SUBSET Calls : End(C))

(* Nobody has to call, but an open call ends.                              *)
Fairness == \A c \in Calls : WF_promise(\E C \in SUBSET Calls : c \in C /\ End(C))

Safe == Init /\ [][Next]_promise
Spec == Safe /\ Fairness
=============================================================================
