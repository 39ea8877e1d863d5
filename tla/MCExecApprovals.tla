---------------------------- MODULE MCExecApprovals ----------------------------
(* Two calls of one command.                                               *)
EXTENDS ExecApprovals, TLC

CONSTANTS c1, c2, p1

Same == c1 :> p1 @@ c2 :> p1

MCPolicies ==
    {[security |-> "allowlist", ask |-> "on-miss", fallback |-> "allowlist"],
     [security |-> "allowlist", ask |-> "off", fallback |-> "full"],
     [security |-> "full", ask |-> "always", fallback |-> "full"]}
=============================================================================
