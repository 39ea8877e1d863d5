--------------------------- MODULE GatewayProofs ----------------------------
(***************************************************************************)
(* Proofs about two tables of the gateway.  ExecApprovals, for any calls,  *)
(* patterns, policies and losses: the types, that one decision counts, and *)
(* that entries of the allowlist were allowed.                             *)
(* NodeRegistry, for any nodes, connections and calls: the types with the  *)
(* table of calls, that stored sessions are current, and that the calls    *)
(* implement the promises of OneShot step by step.                         *)
(***************************************************************************)
EXTENDS ExecApprovals, NodeRegistry, FiniteSetTheorems, TLAPS

-----------------------------------------------------------------------------
(* Approvals                                                               *)

(* An edit of the file keeps its type.                                     *)
LEMMA SaveType ==
    ASSUME NEW f \in FileType, NEW L \in SUBSET Patterns, Save(f, L),
           operator \in {"none", "current", "outdated"}
    PROVE  /\ file' \in FileType /\ operator' \in {"none", "current", "outdated"}
           /\ file'.list = f.list \union L
BY DEF Save, FileType, PolicyType

(* recordAllowlistUse() writes the whole file again, from the copy that the*)
(* call has read, with the entry that matched.                             *)
LEMMA NoteType ==
    ASSUME NEW f \in FileType, NEW c \in Calls, NoteUse(f, c),
           file \in FileType, operator \in {"none", "current", "outdated"}
    PROVE  /\ file' \in FileType /\ operator' \in {"none", "current", "outdated"}
           /\ file'.list \subseteq f.list \union file.list
<1>1. CASE Listed(f, c)
  BY <1>1, SaveType DEF NoteUse
<1>2. CASE ~Listed(f, c)
  BY <1>2 DEF NoteUse
<1> QED BY <1>1, <1>2

(* Ending the promise of a record ends the wait of a client with it.       *)
LEMMA SettleType ==
    ASSUME TypeOK, NEW c \in Calls, NEW v \in Ends, Settle(c, v)
    PROVE  /\ verdict' \in [Calls -> Ends \union {"none"}]
           /\ watch' \in [Calls -> Ends \union {"none", "waiting", "gone"}]
BY DEF Settle, TypeOK, Ends, Decisions

(* The forwarder tells the channels the end of an approval.                *)
LEMMA TellType ==
    ASSUME TypeOK, NEW c \in Calls, NEW n \in {"resolved", "expired"}, Tell(c, n)
    PROVE  asked' \subseteq Calls /\ notices' \in [Calls -> SUBSET {"asked", "resolved", "expired"}]
BY DEF Tell, TypeOK

(* Initially no call has asked and every file is one that an operator may  *)
(* set.                                                                    *)
LEMMA ApprovalsTypeInit == Init => TypeOK
BY ApprovalsAssumption DEF Init, TypeOK, FileType, Ends, Decisions

(* Every step of a call, of the manager, the forwarder, a client or an     *)
(* operator keeps the types.                                               *)
LEMMA ApprovalsTypeNext == TypeOK /\ [Next]_vars => TypeOK'
<1> SUFFICES ASSUME TypeOK, [Next]_vars PROVE TypeOK'
  OBVIOUS
<1> USE DEF callVars, managerVars, channelVars, clientVars, fileVars, lossVars
<1>1. ASSUME NEW c \in Calls, Exec(c) PROVE TypeOK'
  <2>1. CASE pc' = [pc EXCEPT ![c] = "asking"] /\ base' = [base EXCEPT ![c] = file]
             /\ UNCHANGED <<file, operator>>
    <3>1. base' \in [Calls -> FileType \union {NoFile}] /\ base'[c] # NoFile
      BY <1>1, <2>1, ApprovalsAssumption DEF TypeOK
    <3>2. \A x \in Calls \ {c} : base'[x] = base[x] /\ pc'[x] = pc[x]
      BY <1>1, <2>1 DEF TypeOK
    <3>3. pc' \in [Calls -> {"idle", "asking", "waiting", "ran", "failed", "denied", "gone"}]
          /\ pc'[c] = "asking"
      BY <2>1 DEF TypeOK
    <3>4. UNCHANGED <<kept, verdict, due, asked, notices, watch, accepted, file, operator, edits,
                      losses, crashes>> /\ pc[c] = "idle"
      BY <1>1, <2>1 DEF Exec
    <3> QED BY <3>1, <3>2, <3>3, <3>4 DEF TypeOK
  <2>2. CASE pc' = [pc EXCEPT ![c] = "ran"] /\ NoteUse(file, c) /\ UNCHANGED base
    <3>1. file' \in FileType /\ operator' \in {"none", "current", "outdated"}
      BY <2>2, NoteType DEF TypeOK
    <3> QED BY <1>1, <2>2, <3>1 DEF Exec, TypeOK
  <2>3. CASE pc' = [pc EXCEPT ![c] = "denied"] /\ UNCHANGED <<base, file, operator>>
    BY <1>1, <2>3 DEF Exec, TypeOK
  <2> QED BY <1>1, <2>1, <2>2, <2>3 DEF Exec
<1>2. ASSUME NEW c \in Calls, Request(c) PROVE TypeOK'
  <2>1. asked' \subseteq Calls /\ notices' \in [Calls -> SUBSET {"asked", "resolved", "expired"}]
    BY <1>2 DEF Request, TypeOK
  <2> QED BY <1>2, <2>1 DEF Request, TypeOK
<1>3. ASSUME NEW c \in Calls, NEW d \in Decisions, Resolve(c, d) PROVE TypeOK'
  <2>1. d \in Ends
    BY DEF Ends
  <2> QED BY <1>3, <2>1, SettleType, TellType DEF Resolve, TypeOK
<1>4. ASSUME NEW c \in Calls, Expire(c) PROVE TypeOK'
  <2>1. "expired" \in Ends
    BY DEF Ends
  <2> QED BY <1>4, <2>1, SettleType DEF Expire, TypeOK
<1>5. ASSUME NEW c \in Calls, ForwarderExpires(c) PROVE TypeOK'
  BY <1>5, TellType DEF ForwarderExpires, TypeOK
<1>6. ASSUME NEW c \in Calls, Due(c) \/ Forget(c) PROVE TypeOK'
  <2>1. CASE Due(c)
    BY <2>1 DEF Due, TypeOK
  <2>2. CASE Forget(c)
    <3>1. kept' \subseteq kept /\ UNCHANGED <<base, pc, verdict, due, asked, notices, watch,
          accepted,
                                             file, operator, edits, losses, crashes>>
      BY <2>2 DEF Forget
    <3> QED BY <3>1 DEF TypeOK
  <2> QED BY <1>6, <2>1, <2>2
<1>7. ASSUME NEW c \in Calls, WaitDecision(c) PROVE TypeOK'
  <2>1. Undecided(c) \/ verdict[c] \in Ends
    BY <1>7 DEF WaitDecision, Undecided, TypeOK
  <2> QED BY <1>7, <2>1 DEF WaitDecision, TypeOK
<1>8. ASSUME NEW c \in Calls, Answered(c) PROVE TypeOK'
  <2>1. base[c] \in FileType /\ {Command[c]} \in SUBSET Patterns
    <3>1. Command[c] \in Patterns
      BY ApprovalsAssumption
    <3>2. base[c] \in FileType
      BY <1>8 DEF Answered, TypeOK
    <3> QED BY <3>1, <3>2
  <2>2. file' \in FileType /\ operator' \in {"none", "current", "outdated"}
    BY <1>8, <2>1, SaveType, NoteType DEF Answered, TypeOK
  <2>3. pc' \in [Calls -> {"idle", "asking", "waiting", "ran", "failed", "denied", "gone"}]
        /\ pc'[c] \in {"ran", "failed", "denied"} /\ \A x \in Calls \ {c} : pc'[x] = pc[x]
    BY <1>8 DEF Answered, TypeOK
  <2> QED BY <1>8, <2>2, <2>3 DEF Answered, TypeOK
<1>9. ASSUME NEW c \in Calls, RequestFails(c) PROVE TypeOK'
  <2>1. losses' \in 0..MaxLosses
    BY <1>9, ApprovalsAssumption DEF RequestFails, MayLose, TypeOK
  <2> QED BY <1>9, <2>1 DEF RequestFails, TypeOK
<1>10. CASE Crash
  <2>1. crashes' \in 0..MaxLosses
    BY <1>10, ApprovalsAssumption DEF Crash, MayLose, TypeOK
  <2>2. pc' \in [Calls -> {"idle", "asking", "waiting", "ran", "failed", "denied", "gone"}]
        /\ \A x \in Calls : pc'[x] \notin {"asking", "waiting"}
    BY <1>10 DEF Crash, TypeOK
  <2>3. watch' \in [Calls -> Ends \union {"none", "waiting", "gone"}]
    BY <1>10 DEF Crash, TypeOK
  <2> QED BY <1>10, <2>1, <2>2, <2>3 DEF Crash, TypeOK
<1>11. CASE Operator
  <2>1. CASE Get
    BY <2>1 DEF Get, TypeOK
  <2>2. ASSUME NEW p \in Policies, NEW L \in SUBSET file.list, Set(p, L) PROVE TypeOK'
    <3>1. file' \in FileType
      BY <2>2, ApprovalsAssumption DEF Set, TypeOK, FileType
    <3>2. edits' \in 0..MaxEdits
      BY <2>2, ApprovalsAssumption DEF Set, TypeOK
    <3> QED BY <2>2, <3>1, <3>2 DEF Set, TypeOK
  <2> QED BY <1>11, <2>1, <2>2 DEF Operator
<1>12. CASE UNCHANGED vars
  BY <1>12 DEF vars, TypeOK
<1> QED
  BY <1>1, <1>2, <1>3, <1>4, <1>5, <1>6, <1>7, <1>8, <1>9, <1>10, <1>11, <1>12
     DEF Next, Tool, Manager, Client

(* The types of the approvals, of the files that calls have read, and of   *)
(* the tables of the manager and the forwarder, in every reachable state.  *)
THEOREM ApprovalsTyped == Spec => []TypeOK
BY ApprovalsTypeInit, ApprovalsTypeNext, PTL DEF Spec

-----------------------------------------------------------------------------
(* What makes one decision count: the decisions answered with "ok" are the *)
(* one the record was resolved with; nothing is resolved of a call that has*)
(* not asked; and whoever may still decide decides for a call that waits,  *)
(* or whose request was lost.                                              *)
OneCounts(c) == accepted[c] = IF verdict[c] \in Decisions THEN {verdict[c]} ELSE {}
NotAsked(c) == pc[c] \in {"idle", "asking"} => verdict[c] = "none"
Waits(c) == Undecided(c) => pc[c] = "waiting" \/ (pc[c] = "denied" /\ losses > 0)
Watched(c) == watch[c] \in Ends => watch[c] = verdict[c]
Told(c) ==
    /\ notices[c] \in {{}, {"asked"}, {"asked", "resolved"}, {"asked", "expired"}}
    /\ "resolved" \in notices[c] => accepted[c] # {}
    /\ c \in asked => notices[c] = {"asked"}
Obeyed(c) ==
    /\ verdict[c] = "deny" => pc[c] \notin {"ran", "failed"}
    /\ verdict[c] \in {"allow-once", "allow-always"} /\ pc[c] = "denied" => losses > 0

CallInv(c) ==
    OneCounts(c) /\ NotAsked(c) /\ Waits(c) /\ Watched(c) /\ Told(c) /\ Obeyed(c)

(* Nothing of a call changes but that it may leave the tables.             *)
LEMMA OthersKeep ==
    ASSUME TypeOK, TypeOK', NEW c \in Calls, CallInv(c),
           UNCHANGED <<pc[c], verdict[c], accepted[c], watch[c], notices[c]>>,
           c \in kept' => c \in kept, c \in asked' => c \in asked, losses' >= losses
    PROVE  CallInv(c)'
<1>1. losses \in Nat /\ losses' \in Nat
  BY DEF TypeOK
<1>2. Undecided(c)' => Undecided(c)
  BY DEF Undecided
<1> QED BY <1>1, <1>2 DEF CallInv, OneCounts, NotAsked, Waits, Watched, Told, Obeyed

(* The promise of an undecided record is settled: by a decision, which is  *)
(* answered with "ok" and told the channels, or by the time.               *)
LEMMA SettleKeeps ==
    ASSUME TypeOK, TypeOK', NEW c \in Calls, NEW v \in Ends, CallInv(c), Undecided(c), Settle(c, v),
           UNCHANGED <<pc, kept, losses>>,
           \/ /\ v \in Decisions /\ accepted' = [accepted EXCEPT ![c] = @ \union {v}]
              /\ Tell(c, "resolved")
           \/ v = "expired" /\ UNCHANGED <<accepted, asked, notices>>
    PROVE  CallInv(c)'
<1>1. verdict[c] = "none" /\ verdict'[c] = v /\ v # "none"
  BY DEF Undecided, Settle, TypeOK, Ends, Decisions
<1>2. OneCounts(c)'
  <2>1. accepted[c] = {}
    BY <1>1 DEF CallInv, OneCounts, Decisions
  <2> QED BY <1>1, <2>1 DEF OneCounts, TypeOK, Decisions
<1>3. watch'[c] = IF watch[c] = "waiting" THEN v ELSE watch[c]
  BY DEF Settle, TypeOK
<1>4. watch[c] \notin Ends
  BY <1>1 DEF CallInv, Watched, Ends, Decisions
<1>5. NotAsked(c)' /\ Waits(c)' /\ Watched(c)' /\ Obeyed(c)'
  BY <1>1, <1>3, <1>4 DEF CallInv, NotAsked, Waits, Watched, Obeyed, Undecided, TypeOK
<1>6. Told(c)'
  <2>1. CASE v = "expired"
    BY <2>1 DEF CallInv, Told, Decisions
  <2>2. CASE v \in Decisions /\ Tell(c, "resolved")
    <3>1. accepted'[c] # {}
      BY <1>1, <1>2, <2>2 DEF OneCounts
    <3>2. c \notin asked'
          /\ notices'[c] = IF c \in asked THEN notices[c] \union {"resolved"} ELSE notices[c]
      BY <2>2 DEF Tell, TypeOK
    <3> QED BY <3>1, <3>2 DEF CallInv, Told
  <2> QED BY <2>1, <2>2
<1> QED BY <1>2, <1>5, <1>6 DEF CallInv

(* Initially none of the calls has asked.                                  *)
LEMMA CallsInit == Init => \A c \in Calls : CallInv(c)
BY DEF Init, CallInv, OneCounts, NotAsked, Waits, Watched, Told, Obeyed, Undecided, Ends, Decisions

(* Every step keeps what is said of each call.                             *)
LEMMA CallsNext ==
    ASSUME TypeOK, TypeOK', \A c \in Calls : CallInv(c), [Next]_vars
    PROVE  \A c \in Calls : CallInv(c)'
<1> SUFFICES ASSUME NEW d \in Calls PROVE CallInv(d)'
  OBVIOUS
<1>0. CallInv(d) /\ losses \in Nat
  BY DEF TypeOK
<1> USE DEF callVars, managerVars, channelVars, clientVars, fileVars, lossVars
<1>1. ASSUME NEW c \in Calls, Exec(c) PROVE CallInv(d)'
  <2>1. pc[c] = "idle" /\ pc'[c] \in {"asking", "ran", "denied"} /\ c \notin kept
        /\ \A x \in Calls \ {c} : pc'[x] = pc[x]
    BY <1>1 DEF Exec, TypeOK
  <2>2. UNCHANGED <<kept, verdict, due, asked, notices, watch, accepted, losses>>
    BY <1>1 DEF Exec
  <2>3. CASE d # c
    BY <1>0, <2>1, <2>2, <2>3, OthersKeep
  <2>4. CASE d = c
    BY <1>0, <2>1, <2>2, <2>4
       DEF CallInv, OneCounts, NotAsked, Waits, Watched, Told, Obeyed, Undecided
  <2> QED BY <2>3, <2>4
<1>2. ASSUME NEW c \in Calls, Request(c) PROVE CallInv(d)'
  <2>1. pc[c] = "asking" /\ pc'[c] = "waiting" /\ \A x \in Calls \ {c} : pc'[x] = pc[x]
    BY <1>2 DEF Request, TypeOK
  <2>2. UNCHANGED <<verdict, watch, accepted, losses>> /\ kept' = kept \union {c}
    BY <1>2 DEF Request
  <2>3. \/ notices' = [notices EXCEPT ![c] = {"asked"}] /\ asked' = asked \union {c}
        \/ UNCHANGED <<asked, notices>>
    BY <1>2 DEF Request
  <2>4. CASE d # c
    BY <1>0, <2>1, <2>2, <2>3, <2>4, OthersKeep DEF TypeOK
  <2>5. CASE d = c
    <3>1. Told(c)'
      BY <1>0, <2>2, <2>3, <2>5 DEF TypeOK, CallInv, Told
    <3> QED BY <1>0, <2>1, <2>2, <2>5, <3>1
            DEF CallInv, OneCounts, NotAsked, Waits, Watched, Obeyed
  <2> QED BY <2>4, <2>5
<1>3. ASSUME NEW c \in Calls, NEW v \in Decisions, Resolve(c, v) PROVE CallInv(d)'
  <2>1. CASE d = c
    BY <1>0, <1>3, <2>1, SettleKeeps DEF Resolve, Ends
  <2>2. CASE d # c
    <3>1. UNCHANGED <<pc, kept, losses, verdict[d], accepted[d], watch[d], notices[d]>>
          /\ asked' \subseteq asked
      BY <1>3, <2>2 DEF Resolve, Settle, Tell, TypeOK
    <3> QED BY <1>0, <3>1, OthersKeep
  <2> QED BY <2>1, <2>2
<1>4. ASSUME NEW c \in Calls, Expire(c) PROVE CallInv(d)'
  <2>1. CASE d = c
    BY <1>0, <1>4, <2>1, SettleKeeps DEF Expire, Ends
  <2>2. CASE d # c
    <3>1. UNCHANGED <<pc, kept, losses, verdict[d], accepted, watch[d], notices, asked>>
      BY <1>4, <2>2 DEF Expire, Settle, TypeOK
    <3> QED BY <1>0, <3>1, OthersKeep
  <2> QED BY <2>1, <2>2
<1>5. ASSUME NEW c \in Calls, ForwarderExpires(c) PROVE CallInv(d)'
  <2>1. UNCHANGED <<pc, kept, verdict, accepted, watch, losses>> /\ asked' = asked \ {c}
    BY <1>5 DEF ForwarderExpires, Tell
  <2>2. CASE d = c
    <3>1. notices'[c] = notices[c] \union {"expired"} /\ notices[c] = {"asked"}
      BY <1>0, <1>5, <2>2 DEF ForwarderExpires, Tell, TypeOK, CallInv, Told
    <3> QED BY <1>0, <2>1, <2>2, <3>1
            DEF CallInv, OneCounts, NotAsked, Waits, Watched, Told, Obeyed, Undecided
  <2>3. CASE d # c
    <3>1. notices'[d] = notices[d]
      BY <1>5, <2>3 DEF ForwarderExpires, Tell, TypeOK
    <3> QED BY <1>0, <2>1, <3>1, OthersKeep
  <2> QED BY <2>2, <2>3
<1>6. ASSUME NEW c \in Calls, Due(c) \/ Forget(c) PROVE CallInv(d)'
  <2>1. UNCHANGED <<pc, verdict, accepted, watch, notices, asked, losses>> /\ kept' \subseteq kept
    BY <1>6 DEF Due, Forget
  <2> QED BY <1>0, <2>1, OthersKeep
<1>7. ASSUME NEW c \in Calls, WaitDecision(c) PROVE CallInv(d)'
  <2>1. UNCHANGED <<pc, kept, verdict, accepted, notices, asked, losses>>
    BY <1>7 DEF WaitDecision
  <2>2. watch'[d] = watch[d] \/ watch'[d] \in {"waiting", verdict[d]}
    BY <1>7 DEF WaitDecision, TypeOK
  <2>3. Watched(d)'
    BY <1>0, <2>1, <2>2 DEF CallInv, Watched, Ends, Decisions
  <2> QED BY <1>0, <2>1, <2>3 DEF CallInv, OneCounts, NotAsked, Waits, Told, Obeyed, Undecided
<1>8. ASSUME NEW c \in Calls, Answered(c) PROVE CallInv(d)'
  <2>1. UNCHANGED <<kept, verdict, accepted, watch, notices, asked, losses>>
    BY <1>8 DEF Answered
  <2>2. pc[c] = "waiting" /\ verdict[c] # "none" /\ \A x \in Calls \ {c} : pc'[x] = pc[x]
    BY <1>8 DEF Answered, TypeOK
  <2>3. CASE d # c
    BY <1>0, <2>1, <2>2, <2>3, OthersKeep
  <2>4. CASE d = c
    <3>1. IF Approved(c) THEN pc'[c] \in {"ran", "failed"} ELSE pc'[c] = "denied"
      BY <1>8 DEF Answered, TypeOK
    <3>2. Obeyed(c)'
      BY <2>1, <3>1 DEF Obeyed, Approved
    <3> QED BY <1>0, <2>1, <2>2, <2>4, <3>1, <3>2
            DEF CallInv, OneCounts, NotAsked, Waits, Watched, Told, Undecided
  <2> QED BY <2>3, <2>4
<1>9. ASSUME NEW c \in Calls, RequestFails(c) PROVE CallInv(d)'
  <2>1. UNCHANGED <<kept, verdict, accepted, watch, notices, asked>> /\ losses' = losses + 1
    BY <1>9 DEF RequestFails
  <2>2. pc'[c] = "denied" /\ \A x \in Calls \ {c} : pc'[x] = pc[x]
    BY <1>9 DEF RequestFails, TypeOK
  <2>3. CASE d # c
    BY <1>0, <2>1, <2>2, <2>3, OthersKeep
  <2>4. CASE d = c
    BY <1>0, <2>1, <2>2, <2>4
       DEF CallInv, OneCounts, NotAsked, Waits, Watched, Told, Obeyed, Undecided
  <2> QED BY <2>3, <2>4
<1>10. CASE Crash
  <2>1. UNCHANGED <<verdict, accepted, notices, losses>> /\ kept' = {} /\ asked' = {}
    BY <1>10 DEF Crash
  <2>2. /\ pc'[d] = IF pc[d] \in {"asking", "waiting"} THEN "gone" ELSE pc[d]
        /\ watch'[d] = IF watch[d] = "waiting" THEN "gone" ELSE watch[d]
    BY <1>10 DEF Crash
  <2> QED BY <1>0, <2>1, <2>2
          DEF CallInv, OneCounts, NotAsked, Waits, Watched, Told, Obeyed, Undecided, Ends, Decisions
<1>11. CASE Operator \/ UNCHANGED vars
  <2>1. UNCHANGED <<pc, verdict, accepted, watch, notices, asked, kept, losses>>
    BY <1>11 DEF Operator, Get, Set, vars
  <2> QED BY <1>0, <2>1, OthersKeep
<1> QED
  BY <1>1, <1>2, <1>3, <1>4, <1>5, <1>6, <1>7, <1>8, <1>9, <1>10, <1>11
     DEF Next, Tool, Manager, Client

(* What a channel was asked about it is told of the decision, if that came *)
(* in time: until the time is up the forwarder's table has the calls the   *)
(* manager's table has.                                                    *)
Timely(c) ==
    /\ "asked" \in notices[c] => pc[c] \notin {"idle", "asking"}
    /\ "expired" \in notices[c] => c \in due
    /\ "asked" \in notices[c] /\ c \in kept => c \in asked \union due \/ "resolved" \in notices[c]
    /\ accepted[c] # {} /\ "asked" \in notices[c] => "resolved" \in notices[c] \/ c \in due

(* Every step keeps it.                                                    *)
LEMMA TimelyNext ==
    ASSUME TypeOK, \A c \in Calls : CallInv(c) /\ Timely(c), [Next]_vars
    PROVE  \A c \in Calls : Timely(c)'
<1> SUFFICES ASSUME NEW d \in Calls PROVE Timely(d)'
  OBVIOUS
<1>0. CallInv(d) /\ Timely(d)
  OBVIOUS
<1> USE DEF callVars, managerVars, channelVars, clientVars, fileVars, lossVars
<1>1. ASSUME UNCHANGED <<accepted, notices, asked>>, kept' \subseteq kept, due \subseteq due',
             pc'[d] \in {"idle", "asking"} => pc[d] \in {"idle", "asking"}
      PROVE  Timely(d)'
  BY <1>0, <1>1 DEF Timely
<1>2. ASSUME NEW c \in Calls, Request(c) PROVE Timely(d)'
  <2>1. /\ pc[c] = "asking" /\ UNCHANGED <<due, accepted>> /\ kept' = kept \union {c}
        /\ pc' = [pc EXCEPT ![c] = "waiting"] /\ "asked" \notin notices[c]
    BY <1>2 DEF Request, Timely
  <2>2. \/ notices' = [notices EXCEPT ![c] = {"asked"}] /\ asked' = asked \union {c}
        \/ UNCHANGED <<asked, notices>> /\ c \notin Forwarded
    BY <1>2 DEF Request
  <2>3. accepted[c] = {}
    BY <2>1 DEF CallInv, OneCounts, NotAsked, Decisions
  <2>4. CASE d # c
    BY <1>0, <2>1, <2>2, <2>4 DEF Timely, TypeOK
  <2>5. CASE d = c /\ notices'[c] = {"asked"} /\ c \in asked'
    BY <2>1, <2>3, <2>5 DEF Timely, TypeOK
  <2>6. CASE d = c /\ UNCHANGED <<asked, notices>>
    BY <1>0, <2>1, <2>6 DEF Timely
  <2> QED BY <2>2, <2>4, <2>5, <2>6 DEF TypeOK
<1>3. ASSUME NEW c \in Calls, NEW v \in Decisions, Resolve(c, v) PROVE Timely(d)'
  <2>1. /\ UNCHANGED <<pc, kept, due>> /\ c \in kept /\ asked' = asked \ {c}
        /\ accepted' = [accepted EXCEPT ![c] = @ \union {v}]
        /\ notices' = [notices EXCEPT ![c] = IF c \in asked THEN @ \union {"resolved"} ELSE @]
    BY <1>3 DEF Resolve, Tell, Undecided
  <2>2. CASE d # c
    BY <1>0, <2>1, <2>2 DEF Timely, TypeOK
  <2>3. CASE d = c
    BY <1>0, <2>1, <2>3 DEF Timely, TypeOK
  <2> QED BY <2>2, <2>3
<1>4. ASSUME NEW c \in Calls, ForwarderExpires(c) PROVE Timely(d)'
  <2>1. /\ UNCHANGED <<pc, kept, due, accepted>> /\ c \in due /\ asked' = asked \ {c}
        /\ notices' = [notices EXCEPT ![c] = IF c \in asked THEN @ \union {"expired"} ELSE @]
    BY <1>4 DEF ForwarderExpires, Tell
  <2>2. CASE d # c
    BY <1>0, <2>1, <2>2 DEF Timely, TypeOK
  <2>3. CASE d = c
    BY <1>0, <2>1, <2>3 DEF Timely, TypeOK
  <2> QED BY <2>2, <2>3
<1>5. CASE Crash
  <2>1. pc'[d] \in {"idle", "asking"} => pc[d] \in {"idle", "asking"}
    BY <1>5 DEF Crash
  <2> QED BY <1>0, <1>5, <2>1 DEF Crash, Timely
<1>6. ASSUME NEW c \in Calls,
             Exec(c) \/ Expire(c) \/ Due(c) \/ Forget(c) \/ WaitDecision(c)
               \/ Answered(c) \/ RequestFails(c)
      PROVE  Timely(d)'
  <2>1. UNCHANGED <<accepted, notices, asked>> /\ kept' \subseteq kept /\ due \subseteq due'
    BY <1>6 DEF Exec, Expire, Due, Forget, WaitDecision, Answered, RequestFails
  <2>2. pc'[d] \in {"idle", "asking"} => pc[d] \in {"idle", "asking"}
    BY <1>6 DEF Exec, Expire, Due, Forget, WaitDecision, Answered, RequestFails, TypeOK
  <2> QED BY <1>1, <2>1, <2>2
<1>7. CASE Operator \/ UNCHANGED vars
  BY <1>0, <1>7 DEF Operator, Get, Set, vars, Timely
<1> QED
  BY <1>2, <1>3, <1>4, <1>5, <1>6, <1>7 DEF Next, Tool, Manager, Client

(* The invariant gives the property.                                       *)
LEMMA CallsDecide == TypeOK /\ (\A c \in Calls : CallInv(c) /\ Timely(c)) => OneDecision
<1> SUFFICES ASSUME TypeOK, NEW c \in Calls, CallInv(c), Timely(c)
             PROVE  /\ \A d \in accepted[c] : accepted[c] = {d} /\ verdict[c] = d
                    /\ watch[c] \in Ends => watch[c] = verdict[c]
                    /\ OneClosing(c)
                    /\ "deny" \in accepted[c] => pc[c] \notin {"ran", "failed"}
                    /\ (pc[c] = "denied" /\ accepted[c] \subseteq {"allow-once", "allow-always"}
                          /\ accepted[c] # {}) => losses > 0
  BY DEF OneDecision
<1>1. \A d \in accepted[c] : accepted[c] = {d} /\ verdict[c] = d
  BY DEF CallInv, OneCounts
<1>2. OneClosing(c)
  <2>1. Cardinality({}) <= 2
    BY FS_EmptySet
  <2>2. \A a : IsFiniteSet({a}) /\ Cardinality({a}) = 1
    BY FS_Singleton
  <2>3. \A a, b : Cardinality({a, b}) <= 2
    <3> TAKE a, b
    <3>1. {a, b} = {a} \union {b}
      OBVIOUS
    <3>2. IsFiniteSet({a}) /\ Cardinality({a}) = 1
      BY <2>2
    <3>3. Cardinality({a} \union {b})
            = IF b \in {a} THEN Cardinality({a}) ELSE Cardinality({a}) + 1
      BY <3>2, FS_AddElement
    <3> QED BY <3>1, <3>2, <3>3
  <2>4. Cardinality(notices[c]) <= 2
    <3>1. CASE notices[c] = {}
      BY <2>1, <3>1
    <3>2. CASE notices[c] = {"asked"}
      <4>1. Cardinality({"asked"}) = 1
        BY <2>2, Zenon
      <4>2. Cardinality(notices[c]) = 1
        BY <3>2, <4>1
      <4> QED BY <4>2
    <3>3. CASE notices[c] \in {{"asked", "resolved"}, {"asked", "expired"}}
      BY <2>3, <3>3
    <3>4. \/ notices[c] = {} \/ notices[c] = {"asked"}
          \/ notices[c] \in {{"asked", "resolved"}, {"asked", "expired"}}
      BY DEF CallInv, Told
    <3> QED BY <3>1, <3>2, <3>3, <3>4
  <2> QED BY <2>4 DEF OneClosing, CallInv, Told, Timely
<1> QED BY <1>1, <1>2 DEF CallInv, Watched, Obeyed

(* One decision counts for each call: exec-approval-manager.ts resolves a  *)
(* record once, and the answers "ok", the clients that wait and what the   *)
(* tool does agree with it; so do the notices to the channels, unless the  *)
(* decision came when the time was up.                                     *)
THEOREM Decided == Spec => []OneDecision
<1> DEFINE Inv == TypeOK /\ \A c \in Calls : CallInv(c) /\ Timely(c)
<1>1. Init => Inv
  <2>1. Init => \A c \in Calls : Timely(c)
    BY DEF Init, Timely
  <2> QED BY <2>1, ApprovalsTypeInit, CallsInit
<1>2. Inv /\ [Next]_vars => Inv'
  BY ApprovalsTypeNext, CallsNext, TimelyNext
<1>3. Inv => OneDecision
  BY CallsDecide
<1> HIDE DEF Inv
<1> QED BY <1>1, <1>2, <1>3, PTL DEF Spec

-----------------------------------------------------------------------------
(* Entries are allowed in the file, and in the copies that calls have read *)
(* and may write back.                                                     *)
Allowed(L) == \A p \in L : \E c \in Calls : Command[c] = p /\ accepted[c] = {"allow-always"}
ListsAllowed == Allowed(file.list) /\ \A c \in Calls : base[c] # NoFile => Allowed(base[c].list)

(* A decision that was accepted stays the only one.                        *)
LEMMA AcceptedStays ==
    ASSUME TypeOK, \A c \in Calls : CallInv(c), [Next]_vars, NEW c \in Calls, accepted[c] # {}
    PROVE  accepted'[c] = accepted[c]
<1>1. verdict[c] # "none"
  BY DEF CallInv, OneCounts, Decisions
<1>2. ASSUME NEW e \in Calls, NEW v \in Decisions, Resolve(e, v) PROVE accepted'[c] = accepted[c]
  BY <1>1, <1>2 DEF Resolve, Undecided, TypeOK
<1>3. ASSUME NEW e \in Calls, Tool(e) \/ Manager(e) \/ WaitDecision(e) \/ RequestFails(e)
      PROVE  UNCHANGED accepted
  BY <1>3 DEF Tool, Manager, Exec, Request, Answered, Due, Expire, ForwarderExpires, Forget,
              WaitDecision, RequestFails, clientVars
<1>4. CASE Operator \/ Crash \/ UNCHANGED vars
  BY <1>4 DEF Operator, Get, Set, Crash, vars, clientVars
<1> QED BY <1>2, <1>3, <1>4 DEF Next, Client

(* A list that is written back holds only what was allowed in a copy of it,*)
(* and the pattern of a command that was just allowed for good.            *)
LEMMA ListsNext ==
    ASSUME TypeOK, TypeOK', \A c \in Calls : CallInv(c), ListsAllowed,
           [Next]_vars
    PROVE  ListsAllowed'
<1> DEFINE Stays(L) == \A p \in L : \E c \in Calls : Command[c] = p
    /\ accepted'[c] = {"allow-always"}
<1>1. \A L : Allowed(L) => Stays(L)
  <2> SUFFICES ASSUME NEW L, Allowed(L), NEW p \in L
               PROVE  \E c \in Calls : Command[c] = p /\ accepted'[c] = {"allow-always"}
    OBVIOUS
  <2>1. PICK c \in Calls : Command[c] = p /\ accepted[c] = {"allow-always"}
    BY DEF Allowed
  <2> QED BY <2>1, AcceptedStays
<1>2. Stays(file.list) /\ \A c \in Calls : base[c] # NoFile => Stays(base[c].list)
  BY <1>1 DEF ListsAllowed
<1> HIDE DEF Stays
<1>3. \A L, M : Stays(L) /\ Stays(M) => Stays(L \union M)
  BY DEF Stays
<1>4. \A L, M : Stays(L) /\ M \subseteq L => Stays(M)
  BY DEF Stays
<1>5. SUFFICES Stays(file'.list) /\ \A c \in Calls : base'[c] # NoFile => Stays(base'[c].list)
  BY DEF ListsAllowed, Allowed, Stays
<1>6. CASE UNCHANGED <<file, base>>
  BY <1>2, <1>6
<1>7. ASSUME NEW c \in Calls, Exec(c)
      PROVE  Stays(file'.list) /\ \A d \in Calls : base'[d] # NoFile => Stays(base'[d].list)
  <2>1. CASE base' = [base EXCEPT ![c] = file] /\ UNCHANGED file
    <3>1. \A d \in Calls : base'[d] = IF d = c THEN file ELSE base[d]
      BY <2>1 DEF TypeOK
    <3> QED BY <1>2, <2>1, <3>1
  <2>2. CASE NoteUse(file, c) /\ UNCHANGED base
    <3>1. file'.list \subseteq file.list
      BY <2>2, NoteType DEF TypeOK
    <3> QED BY <1>2, <1>4, <2>2, <3>1
  <2>3. CASE UNCHANGED <<base, file>>
    BY <1>2, <2>3
  <2> QED BY <1>7, <2>1, <2>2, <2>3 DEF Exec
<1>8. ASSUME NEW c \in Calls, Answered(c)
      PROVE  Stays(file'.list) /\ \A d \in Calls : base'[d] # NoFile => Stays(base'[d].list)
  <2>1. \A d \in Calls : base'[d] = IF d = c THEN NoFile ELSE base[d]
    BY <1>8 DEF Answered, TypeOK
  <2>2. base[c] \in FileType /\ Stays(base[c].list)
    <3>1. base[c] # NoFile
      BY <1>8 DEF Answered, TypeOK
    <3> QED BY <1>2, <3>1 DEF TypeOK
  <2>3. CASE UNCHANGED file
    BY <1>2, <2>1, <2>3
  <2>4. CASE Adds(c) /\ Save(base[c], {Command[c]})
    <3>1. {Command[c]} \in SUBSET Patterns
      BY ApprovalsAssumption
    <3>2. file'.list = base[c].list \union {Command[c]}
      BY <2>2, <2>4, <3>1, SaveType DEF TypeOK
    <3>3. accepted[c] = {"allow-always"}
      BY <2>4 DEF Adds, CallInv, OneCounts, Decisions
    <3>4. Stays({Command[c]})
      BY <3>3, AcceptedStays DEF Stays
    <3> QED BY <1>2, <1>3, <2>1, <2>2, <3>2, <3>4
  <2>5. CASE NoteUse(base[c], c)
    <3>1. file'.list \subseteq base[c].list \union file.list
      BY <2>2, <2>5, NoteType DEF TypeOK
    <3>2. Stays(base[c].list \union file.list)
      BY <1>2, <1>3, <2>2
    <3>3. Stays(file'.list)
      BY <1>4, <3>1, <3>2
    <3> QED BY <1>2, <2>1, <3>3
  <2> QED BY <1>8, <2>3, <2>4, <2>5 DEF Answered
<1>9. ASSUME NEW c \in Calls, RequestFails(c)
      PROVE  Stays(file'.list) /\ \A d \in Calls : base'[d] # NoFile => Stays(base'[d].list)
  <2>1. \A d \in Calls : base'[d] = IF d = c THEN NoFile ELSE base[d]
    BY <1>9 DEF RequestFails, TypeOK
  <2> QED BY <1>2, <1>9, <2>1 DEF RequestFails, fileVars
<1>10. CASE Crash
  BY <1>2, <1>10 DEF Crash, fileVars
<1>11. CASE Operator
  <2>1. UNCHANGED base
    BY <1>11 DEF Operator, Get, Set, callVars
  <2>2. file' = file \/ file'.list \subseteq file.list
    BY <1>11 DEF Operator, Get, Set
  <2> QED BY <1>2, <1>4, <2>1, <2>2
<1>12. ASSUME NEW c \in Calls, Request(c) \/ Manager(c) \/ Client(c) PROVE UNCHANGED <<file, base>>
  BY <1>12 DEF Request, Manager, Client, Due, Expire, ForwarderExpires, Forget, WaitDecision,
               Resolve, fileVars, callVars
<1>13. CASE UNCHANGED vars
  BY <1>6, <1>13 DEF vars, fileVars, callVars
<1> QED
  BY <1>6, <1>7, <1>8, <1>9, <1>10, <1>11, <1>12, <1>13 DEF Next, Tool

(* The allowlist in exec-approvals.json never gets an entry that no        *)
(* decision "allow-always" was taken for, though calls write back copies   *)
(* they have read earlier.                                                 *)
THEOREM EntriesAllowed == Spec => []EntriesWereAllowed
<1> DEFINE Inv == TypeOK /\ (\A c \in Calls : CallInv(c)) /\ ListsAllowed
<1>1. Init => Inv
  <2> SUFFICES ASSUME Init PROVE ListsAllowed
    BY ApprovalsTypeInit, CallsInit
  <2> QED BY DEF Init, ListsAllowed, Allowed
<1>2. Inv /\ [Next]_vars => Inv'
  BY ApprovalsTypeNext, CallsNext, ListsNext
<1>3. Inv => EntriesWereAllowed
  BY DEF ListsAllowed, Allowed, EntriesWereAllowed
<1> HIDE DEF Inv
<1> QED BY <1>1, <1>2, <1>3, PTL DEF Spec

-----------------------------------------------------------------------------
(* The registry of nodes                                                   *)

(* A node that never overtook its own close has one connection at a time,  *)
(* so that unregister() can only delete the session of the one it is       *)
(* called for.                                                             *)
OneConnection ==
    \A c, d \in byConn : (NodeOf[c] = NodeOf[d] /\ NodeOf[c] \notin overtaken) => c = d

RegistryInv == NodesTypeOK /\ OneConnection /\ SessionIsCurrent

(* Initially no connection is known and no call is open.                   *)
LEMMA NodesInvInit == NodesInit => RegistryInv
<1> SUFFICES ASSUME NodesInit PROVE RegistryInv
  OBVIOUS
<1>1. NodesTypeOK
  BY DEF NodesInit, NodesTypeOK, ConnStates, Outcomes
<1>2. OneConnection /\ SessionIsCurrent
  BY DEF NodesInit, OneConnection, SessionIsCurrent
<1> QED BY <1>1, <1>2 DEF RegistryInv

-----------------------------------------------------------------------------
(* A second connection of a node marks it as overtaken.                    *)
LEMMA RegisterKeeps ==
    ASSUME RegistryInv, NEW c \in Conns, Register(c) PROVE RegistryInv'
<1> USE NodesAssumption DEF RegistryInv, Register
<1>1. c \notin byConn /\ NodeOf[c] \in Nodes
  BY DEF NodesTypeOK
<1>2. NodesTypeOK'
  BY <1>1 DEF NodesTypeOK, ConnStates, Outcomes, wireVars
<1>3. \A d \in byConn : NodeOf[d] = NodeOf[c] => NodeOf[c] \in overtaken'
  OBVIOUS
<1>4. overtaken \subseteq overtaken' /\ byConn' = byConn \union {c}
  OBVIOUS
<1>5. OneConnection'
  BY <1>3, <1>4 DEF OneConnection
<1>6. SessionIsCurrent'
  <2> SUFFICES ASSUME NEW n \in Nodes \ overtaken'
               PROVE IF byId'[n] = NoConn THEN \A d \in byConn' : NodeOf[d] # n
                     ELSE byId'[n] \in byConn' /\ NodeOf[byId'[n]] = n
    BY DEF SessionIsCurrent
  <2>1. CASE n = NodeOf[c]
    BY <2>1, <1>1, <1>4 DEF NodesTypeOK
  <2>2. CASE n # NodeOf[c]
    BY <2>2, <1>4 DEF NodesTypeOK, SessionIsCurrent
  <2> QED BY <2>1, <2>2
<1> QED BY <1>2, <1>5, <1>6

(* A lost connection stays in the tables until it is unregistered.         *)
LEMMA LoseKeeps ==
    ASSUME RegistryInv, NEW c \in Conns, Lose(c) PROVE RegistryInv'
<1> USE DEF RegistryInv, Lose, registryVars
<1>1. NodesTypeOK'
  BY DEF NodesTypeOK, ConnStates, Outcomes
<1>2. OneConnection' /\ SessionIsCurrent'
  BY DEF OneConnection, SessionIsCurrent
<1> QED BY <1>1, <1>2

(* The last connection of a node takes its session and its calls along.    *)
LEMMA UnregisterKeeps ==
    ASSUME RegistryInv, NEW c \in Conns, Unregister(c) PROVE RegistryInv'
<1> USE NodesAssumption DEF RegistryInv, Unregister
<1>1. c \in byConn /\ NodeOf[c] \in Nodes
  BY DEF NodesTypeOK
<1>2. Rejected(NodeOf[c]) \subseteq stored
  BY DEF Rejected
<1>3. outcome' \in [Invokes -> Outcomes] /\ stored' = {i \in Invokes : outcome'[i] = "open"}
  BY <1>2 DEF NodesTypeOK, Outcomes
<1>4. conn' \in [Conns -> ConnStates] /\ byConn' = {d \in Conns : conn'[d] \in {"open", "closed"}}
  BY DEF NodesTypeOK, ConnStates
<1>5. NodesTypeOK'
  BY <1>3, <1>4 DEF NodesTypeOK, wireVars
<1>6. OneConnection'
  BY DEF OneConnection
<1>7. SessionIsCurrent'
  <2> SUFFICES ASSUME NEW n \in Nodes \ overtaken
               PROVE IF byId'[n] = NoConn THEN \A d \in byConn' : NodeOf[d] # n
                     ELSE byId'[n] \in byConn' /\ NodeOf[byId'[n]] = n
    BY DEF SessionIsCurrent
  <2>1. CASE n = NodeOf[c]
    <3>1. \A d \in byConn' : NodeOf[d] # n
      BY <2>1, <1>1 DEF OneConnection
    <3> QED BY <2>1, <3>1 DEF NodesTypeOK
  <2>2. CASE n # NodeOf[c]
    BY <2>2 DEF NodesTypeOK, SessionIsCurrent
  <2> QED BY <2>1, <2>2
<1> QED BY <1>5, <1>6, <1>7

(* A call enters the table when opened, and leaves it on its timeout.      *)
LEMMA CallKeeps ==
    ASSUME RegistryInv, NEW i \in Invokes, Invoke(i) \/ Timeout(i) PROVE RegistryInv'
<1> USE NodesAssumption DEF RegistryInv
<1>1. CASE Invoke(i)
  <2>1. Target[i] \in Nodes
    OBVIOUS
  <2>2. CASE byId[Target[i]] = NoConn
    BY <1>1, <2>2 DEF Invoke, NodesTypeOK, Outcomes, OneConnection, SessionIsCurrent
  <2>3. CASE byId[Target[i]] # NoConn
    <3>1. byId[Target[i]] \in Conns
      BY <2>1, <2>3 DEF NodesTypeOK
    <3>2. requests' \in [Conns -> SUBSET Invokes]
      BY <1>1, <2>3, <3>1 DEF Invoke, NodesTypeOK
    <3>3. outcome' \in [Invokes -> Outcomes] /\ stored' = {j \in Invokes : outcome'[j] = "open"}
      BY <1>1, <2>3 DEF Invoke, NodesTypeOK, Outcomes
    <3> QED BY <1>1, <2>3, <3>2, <3>3 DEF Invoke, NodesTypeOK, OneConnection, SessionIsCurrent
  <2> QED BY <2>2, <2>3
<1>2. CASE Timeout(i)
  BY <1>2 DEF Timeout, NodesTypeOK, Outcomes, OneConnection, SessionIsCurrent, wireVars
<1> QED BY <1>1, <1>2

(* A result removes the call it settles.                                   *)
LEMMA AnswerKeeps ==
    ASSUME RegistryInv, NEW c \in Conns, NEW i \in Invokes, Answer(c, i) \/ Result(c, i)
    PROVE  RegistryInv'
<1> USE DEF RegistryInv
<1>1. CASE Answer(c, i)
  BY <1>1 DEF Answer, registryVars, NodesTypeOK, OneConnection, SessionIsCurrent
<1>2. CASE Result(c, i)
  <2>1. outcome' \in [Invokes -> Outcomes] /\ stored' = {j \in Invokes : outcome'[j] = "open"}
    BY <1>2 DEF Result, NodesTypeOK, Outcomes
  <2> QED BY <1>2, <2>1 DEF Result, NodesTypeOK, OneConnection, SessionIsCurrent
<1> QED BY <1>1, <1>2

(* Every step keeps the invariant.                                         *)
LEMMA NodesInvNext == RegistryInv /\ [NodesNext]_nodesVars => RegistryInv'
<1> SUFFICES ASSUME RegistryInv, [NodesNext]_nodesVars PROVE RegistryInv'
  OBVIOUS
<1>1. CASE UNCHANGED nodesVars
  BY <1>1 DEF nodesVars, registryVars, wireVars, RegistryInv, NodesTypeOK, OneConnection,
     SessionIsCurrent
<1>2. CASE NodesNext
  BY <1>2, RegisterKeeps, LoseKeeps, UnregisterKeeps, CallKeeps, AnswerKeeps DEF NodesNext
<1> QED BY <1>1, <1>2

(* The invariant holds in every reachable state.                           *)
LEMMA NodesInductive == NodesSpec => []RegistryInv
BY NodesInvInit, NodesInvNext, PTL DEF NodesSpec

(* Types; the table of pending invokes holds exactly the calls that are    *)
(* open, so that no answer, timeout or disconnect leaves an entry behind.  *)
THEOREM NodesTyped == NodesSpec => []NodesTypeOK
<1>1. RegistryInv => NodesTypeOK
  BY DEF RegistryInv
<1> QED BY <1>1, NodesInductive, PTL

(* The session stored for a node is that of its connection, unless the     *)
(* node came back before the end of its old one was noticed.               *)
THEOREM Current == NodesSpec => []SessionIsCurrent
<1>1. RegistryInv => SessionIsCurrent
  BY DEF RegistryInv
<1> QED BY <1>1, NodesInductive, PTL

-----------------------------------------------------------------------------
(* Every step is a step of OneShot or leaves the outcomes alone.           *)
LEMMA StepImplements ==
    ASSUME NodesTypeOK, [NodesNext]_nodesVars PROVE [Promises!Next]_outcome
<1>1. ASSUME NEW c \in Conns, Unregister(c) PROVE [Promises!Next]_outcome
  <2>1. CASE Rejected(NodeOf[c]) = {}
    <3>1. outcome' = outcome
      BY <1>1, <2>1 DEF Unregister, NodesTypeOK
    <3> QED BY <3>1
  <2>2. CASE Rejected(NodeOf[c]) # {}
    <3>1. Rejected(NodeOf[c]) \in SUBSET Invokes
          /\ \A i \in Rejected(NodeOf[c]) : outcome[i] = "open"
      BY DEF Rejected, NodesTypeOK
    <3>2. Promises!End(Rejected(NodeOf[c]))
      BY <1>1, <2>2, <3>1 DEF Unregister, Promises!End
    <3> QED BY <3>1, <3>2 DEF Promises!Next
  <2> QED BY <2>1, <2>2
<1>2. ASSUME NEW i \in Invokes, Invoke(i) PROVE [Promises!Next]_outcome
  <2>1. Promises!Call(i)
    BY <1>2 DEF Invoke, Promises!Call
  <2> QED BY <2>1 DEF Promises!Next
<1>3. ASSUME NEW i \in stored, NEW p \in {"answered", "refused"},
             outcome' = [outcome EXCEPT ![i] = p]
      PROVE  [Promises!Next]_outcome
  <2>1. i \in Invokes /\ outcome[i] = "open" /\ outcome \in [Invokes -> Outcomes]
    BY DEF NodesTypeOK
  <2>2. outcome' = [j \in Invokes |-> IF j \in {i} THEN p ELSE outcome[j]]
    BY <1>3, <2>1
  <2>3. Promises!End({i})
    BY <2>1, <2>2 DEF Promises!End
  <2> QED BY <2>1, <2>3 DEF Promises!Next
<1>4. ASSUME NEW i \in Invokes, Timeout(i) PROVE [Promises!Next]_outcome
  BY <1>3, <1>4 DEF Timeout
<1>5. ASSUME NEW c \in Conns, NEW i \in Invokes, Result(c, i) PROVE [Promises!Next]_outcome
  BY <1>3, <1>5 DEF Result
<1>6. ASSUME UNCHANGED outcome PROVE [Promises!Next]_outcome
  BY <1>6
<1>7. CASE UNCHANGED nodesVars
  BY <1>6, <1>7 DEF nodesVars
<1>8. ASSUME NEW c \in Conns, Register(c) \/ Lose(c) \/ (\E i \in Invokes : Answer(c, i))
      PROVE  [Promises!Next]_outcome
  BY <1>6, <1>8 DEF Register, Lose, Answer
<1>9. CASE NodesNext
  BY <1>1, <1>2, <1>4, <1>5, <1>8, <1>9 DEF NodesNext
<1> QED BY <1>7, <1>9

(* Every call of invoke() is a one-shot promise: it is refused at once or  *)
(* opened, and an open one is settled once.  That it is settled at all is  *)
(* the fair half of KeepsPromises.                                         *)
THEOREM Implements == NodesSpec => Promises!Safe
<1>1. NodesInit => Promises!Init
  BY DEF NodesInit, Promises!Init
<1> QED BY <1>1, StepImplements, NodesTyped, PTL DEF NodesSpec, Promises!Safe
=============================================================================
