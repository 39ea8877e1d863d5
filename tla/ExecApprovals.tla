--------------------------- MODULE ExecApprovals ---------------------------
(***************************************************************************)
(* Commands of agents that need a user's approval, and the file of the     *)
(* approvals: the exec tool on the gateway's host (agents/bash-tools.exec- *)
(* host-gateway.ts), ExecApprovalManager with its request handlers, the    *)
(* forwarder that asks on chat channels, and infra/exec-approvals.ts with  *)
(* the operator's methods exec.approvals.get and .set.                     *)
(*                                                                         *)
(* The tool runs in the gateway's process, but asks through a connection   *)
(* to it.  A synchronous stretch of JavaScript is one action.              *)
(*                                                                         *)
(* Left out: parsing and matching of commands (a command is the pattern    *)
(* that allows it), the settings of the tool itself (taken as the laxest), *)
(* several agents, which targets a request is forwarded to, and the branch *)
(* of register() for an id in use, which its only caller rules out.        *)
(***************************************************************************)
EXTENDS Naturals, FiniteSets

CONSTANTS Calls,      \* calls of the exec tool; each has an approval id
          Patterns,   \* patterns of the allowlist
          Command,    \* the pattern of a call's command
          Policies,   \* what an operator may set
          NoFile,     \* no file read
          Forwarded,  \* calls whose approval is asked for on a channel too
          MaxEdits,   \* bound: files set by operators
          MaxLosses   \* bound: lost requests, and crashes of the gateway

Securities == {"deny", "allowlist", "full"}
Asks == {"off", "on-miss", "always"}

PolicyType == [security : Securities, ask : Asks, fallback : Securities]

FileType == [policy : PolicyType, list : SUBSET Patterns]

ASSUME ApprovalsAssumption ==
    /\ Command \in [Calls -> Patterns] /\ Forwarded \subseteq Calls
    /\ Policies \subseteq PolicyType /\ NoFile \notin FileType
    /\ MaxEdits \in Nat /\ MaxLosses \in Nat

Decisions == {"allow-once", "allow-always", "deny"}

VARIABLES file,       \* exec-approvals.json: policy and allowlist
          base,       \* base[c]: the file as the call c under way has read it
          pc,         \* pc[c]: where the call c is
          kept,       \* ids in the manager's table
          verdict,    \* verdict[c]: how the record of c was resolved, if it was
          due,        \* ids whose expiresAtMs has come
          asked,      \* the forwarder's table
          notices,    \* notices[c]: messages about c handed over for delivery
          watch,      \* watch[c]: a client's exec.approval.waitDecision
          accepted,   \* history: decisions on c answered with ok
          operator,   \* whether an operator holds a hash, and whether it is the file's
          edits, losses, crashes

callVars == <<base, pc>>
managerVars == <<kept, verdict, due>>
channelVars == <<asked, notices>>
clientVars == <<watch, accepted>>
fileVars == <<file, operator, edits>>
lossVars == <<losses, crashes>>
vars == <<callVars, managerVars, channelVars, clientVars, fileVars, lossVars>>

Init ==
    /\ file \in [policy : Policies, list : {{}}]
    /\ base = [c \in Calls |-> NoFile]
    /\ pc = [c \in Calls |-> "idle"]
    /\ kept = {} /\ due = {} /\ asked = {}
    /\ verdict = [c \in Calls |-> "none"]
    /\ notices = [c \in Calls |-> {}]
    /\ watch = [c \in Calls |-> "none"]
    /\ accepted = [c \in Calls |-> {}]
    /\ operator = "none" /\ edits = 0
    /\ losses = 0 /\ crashes = 0
-----------------------------------------------------------------------------
Listed(f, c) == Command[c] \in f.list
Satisfied(f, c) == f.policy.security = "allowlist" /\ Listed(f, c)

(* requiresExecApproval()                                                  *)
RequiresAsk(f, c) ==
    \/ f.policy.ask = "always"
    \/ /\ f.policy.ask = "on-miss" /\ f.policy.security = "allowlist"
       /\ ~Satisfied(f, c)

Refuses(f, c) ==
    \/ f.policy.security = "deny"
    \/ f.policy.security = "allowlist" /\ ~Satisfied(f, c) /\ ~RequiresAsk(f, c)

(* saveExecApprovals() of f, entries of L added.  Each entry has the time  *)
(* of its last use, so that the file's hash changes.                       *)
Save(f, L) ==
    /\ file' = [f EXCEPT !.list = @ \union L]
    /\ operator' = IF operator = "current" THEN "outdated" ELSE operator

(* recordAllowlistUse() writes all of the file that was read.              *)
NoteUse(f, c) == IF Listed(f, c) THEN Save(f, {}) ELSE UNCHANGED <<file, operator>>

(* processGatewayAllowlist(): the file is read, and decides what happens.  *)
Exec(c) ==
    /\ pc[c] = "idle"
    /\ \/ /\ file.policy.security # "deny" /\ RequiresAsk(file, c)
          /\ pc' = [pc EXCEPT ![c] = "asking"]
          /\ base' = [base EXCEPT ![c] = file]
          /\ UNCHANGED <<file, operator>>
       \/ /\ ~Refuses(file, c) /\ ~RequiresAsk(file, c)
          /\ pc' = [pc EXCEPT ![c] = "ran"]
          /\ NoteUse(file, c)
          /\ UNCHANGED base
       \/ /\ Refuses(file, c)
          /\ pc' = [pc EXCEPT ![c] = "denied"]
          /\ UNCHANGED <<base, file, operator>>
    /\ UNCHANGED <<managerVars, channelVars, clientVars, edits, lossVars>>

(* exec.approval.request: the record is registered, the channels are asked *)
Request(c) ==
    /\ pc[c] = "asking" /\ c \notin kept
    /\ pc' = [pc EXCEPT ![c] = "waiting"]
    /\ kept' = kept \union {c}
    /\ IF c \in Forwarded
       THEN /\ asked' = asked \union {c}
            /\ notices' = [notices EXCEPT ![c] = {"asked"}]
       ELSE UNCHANGED channelVars
    /\ UNCHANGED <<base, verdict, due, clientVars, fileVars, lossVars>>

Undecided(c) == c \in kept /\ verdict[c] = "none"

(* Fault: those who wait are answered with a field never assigned.         *)
SettleUndefined(c, v) ==
    /\ verdict' = [verdict EXCEPT ![c] = v]
    /\ watch' = [watch EXCEPT ![c] = IF @ = "waiting" THEN "undefined" ELSE @]

(* The promise of the record of c is settled.                              *)
Settle(c, v) ==
    /\ verdict' = [verdict EXCEPT ![c] = v]
    /\ watch' = [watch EXCEPT ![c] = IF @ = "waiting" THEN v ELSE @]

(* What the forwarder does for the end of c, by whatever way it learns it. *)
Tell(c, notice) ==
    /\ asked' = asked \ {c}
    /\ notices' = [notices EXCEPT ![c] = IF c \in asked THEN @ \union {notice} ELSE @]

(* Fault: a record resolved before is resolved again.                      *)
ResolveAgain(c, d) ==
    /\ c \in kept
    /\ Settle(c, d)
    /\ accepted' = [accepted EXCEPT ![c] = @ \union {d}]
    /\ Tell(c, "resolved")
    /\ UNCHANGED <<callVars, kept, due, fileVars, lossVars>>

(* exec.approval.resolve; nobody is told of a decision that is refused.    *)
Resolve(c, d) ==
    /\ Undecided(c)
    /\ Settle(c, d)
    /\ accepted' = [accepted EXCEPT ![c] = @ \union {d}]
    /\ Tell(c, "resolved")
    /\ UNCHANGED <<callVars, kept, due, fileVars, lossVars>>

(* Time: the approval of c is at its end.  The forwarder's timer may then  *)
(* run before the manager's.                                               *)
Due(c) ==
    /\ Undecided(c) /\ c \notin due
    /\ due' = due \union {c}
    /\ UNCHANGED <<callVars, kept, verdict, channelVars, clientVars, fileVars, lossVars>>

(* Fault: the timer is cleared when a client waits for the decision.       *)
ExpireUnwatched(c) ==
    /\ Undecided(c) /\ c \in due /\ watch[c] # "waiting"
    /\ Settle(c, "expired")
    /\ UNCHANGED <<callVars, kept, due, channelVars, accepted, fileVars, lossVars>>

Expire(c) ==
    /\ Undecided(c) /\ c \in due
    /\ Settle(c, "expired")
    /\ UNCHANGED <<callVars, kept, due, channelVars, accepted, fileVars, lossVars>>

ForwarderExpires(c) ==
    /\ c \in asked \cap due
    /\ Tell(c, "expired")
    /\ UNCHANGED <<callVars, managerVars, clientVars, fileVars, lossVars>>

(* 15 s after the end the record is deleted.                               *)
Forget(c) ==
    /\ c \in kept /\ verdict[c] # "none"
    /\ kept' = kept \ {c}
    /\ UNCHANGED <<callVars, verdict, due, channelVars, clientVars, fileVars, lossVars>>

(* exec.approval.waitDecision of another client.                           *)
WaitDecision(c) ==
    /\ watch[c] = "none" /\ c \in kept
    /\ watch' = [watch EXCEPT ![c] = IF Undecided(c) THEN "waiting" ELSE verdict[c]]
    /\ UNCHANGED <<callVars, managerVars, channelVars, accepted, fileVars, lossVars>>
-----------------------------------------------------------------------------
(* The tool goes on with the decision, and with the file it read before.   *)
Approved(c) ==
    LET b == base[c]
    IN \/ verdict[c] \in {"allow-once", "allow-always"}
       \/ /\ verdict[c] = "expired"
          /\ \/ b.policy.fallback = "full"
             \/ b.policy.fallback = "allowlist" /\ Satisfied(b, c)

(* Fault: a single use is remembered like "always".                        *)
AddsAnyAllowed(c) == verdict[c] \in Decisions \ {"deny"} /\ base[c].policy.security = "allowlist"

(* addAllowlistEntry()                                                     *)
Adds(c) == verdict[c] = "allow-always" /\ base[c].policy.security = "allowlist"

(* Starting the command may fail; the file has been written by then.       *)
Answered(c) ==
    /\ pc[c] = "waiting" /\ verdict[c] # "none"
    /\ base' = [base EXCEPT ![c] = NoFile]
    /\ \/ /\ Approved(c)
          /\ \E outcome \in {"ran", "failed"} : pc' = [pc EXCEPT ![c] = outcome]
          /\ IF Adds(c) THEN Save(base[c], {Command[c]}) ELSE NoteUse(base[c], c)
       \/ /\ ~Approved(c)
          /\ pc' = [pc EXCEPT ![c] = "denied"]
          /\ UNCHANGED <<file, operator>>
    /\ UNCHANGED <<managerVars, channelVars, clientVars, edits, lossVars>>

MayLose == losses + crashes < MaxLosses

(* The request fails: the connection is lost, or its 130 s are over.       *)
RequestFails(c) ==
    /\ pc[c] \in {"asking", "waiting"}
    /\ pc' = [pc EXCEPT ![c] = "denied"]
    /\ base' = [base EXCEPT ![c] = NoFile]
    /\ MayLose /\ losses' = losses + 1
    /\ UNCHANGED <<managerVars, channelVars, clientVars, fileVars, crashes>>

(* The gateway stops, with the tool's calls and all that it remembers.     *)
Crash ==
    /\ MayLose /\ crashes' = crashes + 1
    /\ pc' = [c \in Calls |-> IF pc[c] \in {"asking", "waiting"} THEN "gone" ELSE pc[c]]
    /\ base' = [c \in Calls |-> NoFile]
    /\ kept' = {} /\ asked' = {}
    /\ watch' = [c \in Calls |-> IF watch[c] = "waiting" THEN "gone" ELSE watch[c]]
    /\ UNCHANGED <<verdict, due, notices, accepted, fileVars, losses>>

(* exec.approvals.get and exec.approvals.set of an operator, who changes   *)
(* the policy and removes entries, and is refused if the file has changed. *)
Get ==
    /\ operator # "current"
    /\ operator' = "current"
    /\ UNCHANGED <<callVars, managerVars, channelVars, clientVars, file, edits, lossVars>>

Set(p, L) ==
    /\ operator # "none" /\ edits < MaxEdits
    /\ edits' = edits + 1
    /\ operator' = "none"
    /\ file' = IF operator = "current" THEN [policy |-> p, list |-> L] ELSE file
    /\ UNCHANGED <<callVars, managerVars, channelVars, clientVars, lossVars>>

Tool(c) == Exec(c) \/ Request(c) \/ Answered(c)
Manager(c) == Due(c) \/ Expire(c) \/ ForwarderExpires(c) \/ Forget(c)
Client(c) == WaitDecision(c) \/ (\E d \in Decisions : Resolve(c, d))
Operator == Get \/ (\E p \in Policies, L \in SUBSET file.list : Set(p, L))

Next ==
    \/ \E c \in Calls : Tool(c) \/ Manager(c) \/ Client(c) \/ RequestFails(c)
    \/ Operator \/ Crash

(* Requests and answers travel, timers fire; nobody needs to decide.       *)
Fairness ==
    \A c \in Calls : /\ WF_vars(Request(c)) /\ WF_vars(Answered(c))
                     /\ WF_vars(Due(c)) /\ WF_vars(Expire(c))
                     /\ WF_vars(ForwarderExpires(c))

Spec == Init /\ [][Next]_vars
FairSpec == Spec /\ Fairness
-----------------------------------------------------------------------------
Ends == Decisions \union {"expired"}

(* The types of the state; what is stored or watched has been asked for.   *)
TypeOK ==
    /\ file \in FileType /\ base \in [Calls -> FileType \union {NoFile}]
    /\ pc \in [Calls -> {"idle", "asking", "waiting", "ran", "failed", "denied", "gone"}]
    /\ kept \subseteq Calls /\ due \subseteq Calls /\ asked \subseteq Calls
    /\ verdict \in [Calls -> Ends \union {"none"}]
    /\ notices \in [Calls -> SUBSET {"asked", "resolved", "expired"}]
    /\ watch \in [Calls -> Ends \union {"none", "waiting", "gone"}]
    /\ accepted \in [Calls -> SUBSET Decisions]
    /\ operator \in {"none", "current", "outdated"}
    /\ edits \in 0..MaxEdits /\ losses \in 0..MaxLosses /\ crashes \in 0..MaxLosses
    /\ \A c \in Calls : /\ c \in kept => pc[c] \notin {"idle", "asking"}
                        /\ pc[c] \in {"asking", "waiting"} <=> base[c] # NoFile

(* A channel that was asked about a command is told once how it ended: of  *)
(* a decision if there was one in time, and of the end of the time only if *)
(* it had come.  Who decides when the time is up may see both: the         *)
(* decision counts, and the channel has been told that it expired          *)
(* (exec-approval-forwarder.ts:284-332).                                   *)
OneClosing(c) ==
    /\ Cardinality(notices[c]) <= 2
    /\ "resolved" \in notices[c] => accepted[c] # {}
    /\ "expired" \in notices[c] => c \in due
    /\ accepted[c] # {} /\ "asked" \in notices[c] => "resolved" \in notices[c] \/ c \in due
    /\ c \in asked => notices[c] = {"asked"}

(* exec-approval-manager.ts:131-134: of all decisions on one request, and  *)
(* its timeout, one counts: who was told "ok" sees his decision done, by   *)
(* the command and by those who wait beside it; the channels asked are     *)
(* told of it, unless it came when the time was up (OneClosing); a denied  *)
(* command never runs, and an allowed one is refused only if its request   *)
(* was lost.                                                               *)
OneDecision ==
    \A c \in Calls :
        /\ \A d \in accepted[c] : accepted[c] = {d} /\ verdict[c] = d
        /\ watch[c] \in Ends => watch[c] = verdict[c]
        /\ OneClosing(c)
        /\ "deny" \in accepted[c] => pc[c] \notin {"ran", "failed"}
        /\ (pc[c] = "denied" /\ accepted[c] \subseteq {"allow-once", "allow-always"}
              /\ accepted[c] # {}) => losses > 0

(* bash-tools.exec-host-gateway.ts:146-153: a pattern is on the allowlist  *)
(* only if a user has answered "allow-always" to a command it stands for.  *)
EntriesWereAllowed ==
    \A p \in file.list : \E c \in Calls :
        Command[c] = p /\ accepted[c] = {"allow-always"}

(* Every command that waits for an approval goes on, one way or another,   *)
(* and the channels that were asked learn of it, unless the gateway stops  *)
(* in between.                                                             *)
EndsAreLearnt ==
    \A c \in Calls :
        /\ pc[c] \in {"asking", "waiting"} ~> pc[c] \notin {"asking", "waiting"}
        /\ c \in asked ~> Cardinality(notices[c]) = 2 \/ crashes > 0
=============================================================================
