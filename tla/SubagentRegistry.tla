-------------------------- MODULE SubagentRegistry --------------------------
(***************************************************************************)
(* Subagent runs and the announcement of their results to the session that *)
(* asked for them: agents/subagent-registry.ts with its file, the          *)
(* announcement flow of agents/subagent-announce.ts, and the tools that    *)
(* spawn, kill and steer a run, composed with the waits of AgentJob.       *)
(*                                                                         *)
(* A synchronous stretch of JavaScript is one action; the flow of an       *)
(* announcement is cut where it awaits.  Every change of a record is saved *)
(* in the same stretch, so that the file is the record.                    *)
(*                                                                         *)
(* Left out: failing saves (the code ignores them), the moment between the *)
(* sweeper's deletion and its save, what the announcement says, how the    *)
(* announce queue merges, drops and summarizes what it holds, and whether  *)
(* the requester's run takes a steered message: it may, at any time.       *)
(***************************************************************************)
EXTENDS AgentJob

CONSTANTS Sessions,    \* sessions of subagents
          Main,        \* the session of the user
          NoRun,       \* no run
          Requester,   \* the session that asked for a session's runs
          Labelled,    \* runs with a label, patched after the announcement
          Channelled,  \* sessions asked for from a channel that can be sent to
          Plans,       \* which run works in which session, spawned how
          MaxRetry,    \* MAX_ANNOUNCE_RETRY_COUNT
          MaxSetbacks  \* bound: crashes, kills, archivings, failed or late sends

ASSUME RegistryAssumption ==
    /\ Main \notin Sessions /\ NoRun \notin Runs
    /\ Channelled \subseteq Sessions
    /\ Requester \in [Sessions -> Sessions \union {Main}]
    /\ Plans \subseteq [at : [Runs -> Sessions], expects : SUBSET Sessions, delete : SUBSET Sessions]
    /\ MaxRetry \in Nat \ {0} /\ MaxSetbacks \in Nat

VARIABLES rec,         \* subagentRuns, and their file
          resumed,     \* resumedRuns
          flow,        \* flow[r]: the announcement flow of r under way
          timers,      \* runs with a retry timer
          cooling,     \* runs whose last failed attempt is within the backoff
          aged,        \* runs that ended longer ago than ANNOUNCE_EXPIRY_MS
          plan,        \* the plan of this behaviour: the session of each run, and
                       \* the sessions whose runs expect a completion message
                       \* or are to be deleted afterwards
          sessions,    \* sessions whose entry and transcript exist
          spawning,    \* runs accepted, whose spawning is still to register them
          steering,    \* steering[r]: r itself, then its replacement
          queued,      \* runs whose announcement waits in the announce queue
          seen,        \* idempotency keys in the gateway's cache, for each method
          sent,        \* history: announcements of r a requester received
          doubted,     \* history: runs a send of which failed after arriving
          uncovered,   \* history: runs announced in a way that the key of the
                       \* direct send does not cover: steered, queued, or sent
                       \* before the gateway's last restart
          setbacks     \* number of setbacks so far

registryVars == <<rec, resumed, flow, timers>>
clockVars == <<cooling, aged>>
toolVars == <<spawning, steering>>
gatewayVars == <<sessions, queued, seen, sent, doubted, uncovered>>
vars == <<jobVars, registryVars, clockVars, toolVars, gatewayVars, plan, setbacks>>

NoRec == [ended |-> FALSE, handled |-> FALSE, completed |-> FALSE,
          suppress |-> "absent", retries |-> 0]

NewRec == [NoRec EXCEPT !.suppress = "no"]

Has(r) == rec[r] # NoRec
SessionOf(r) == plan.at[r]
Expects(r) == SessionOf(r) \in plan.expects
DeleteAfter(r) == SessionOf(r) \in plan.delete

(* The method of the direct send; the announce queue always uses "agent".  *)
Methods == {"send", "agent"}
Direct(r) ==
    IF Expects(r) /\ SessionOf(r) \in Channelled THEN "send" ELSE "agent"

Stages == {"none", "collecting", "labelling", "delivered", "undelivered"}

Init ==
    /\ JobInit
    /\ rec = [r \in Runs |-> NoRec]
    /\ resumed = {} /\ timers = {} /\ cooling = {} /\ aged = {}
    /\ flow = [r \in Runs |-> "none"]
    /\ plan \in Plans
    /\ sessions = {} /\ spawning = {}
    /\ steering = [r \in Runs |-> NoRun]
    /\ queued = {} /\ doubted = {} /\ uncovered = {}
    /\ seen = [m \in Methods |-> {}]
    /\ sent = [r \in Runs |-> 0]
    /\ setbacks = 0
-----------------------------------------------------------------------------
(* beginSubagentCleanup() would return true.                               *)
CanBegin(e) == ~e.completed /\ ~e.handled

(* Fault: who begins a cleanup does not mark it.                           *)
NotHandled(e) == e

Handled(e) == [e EXCEPT !.handled = TRUE]

Completed(e) == [e EXCEPT !.completed = TRUE]

(* What resumeSubagentRun() does with the record e of r, once r is not in  *)
(* resumedRuns.                                                            *)
ResumeKind(r, e) ==
    CASE e = NoRec \/ e.completed -> "skip"
      [] OTHER ->
         IF e.retries >= MaxRetry \/ (e.ended /\ r \in aged) THEN "giveUp"
         ELSE IF Expects(r) /\ r \in cooling THEN "later"
         ELSE IF ~e.ended THEN "wait"
         ELSE IF e.suppress = "steer" THEN "held"
         ELSE IF CanBegin(e) THEN "announce" ELSE "skip"

(* resumeSubagentRun() for each run of S, with the state that the step has *)
(* reached: records es, resumed runs res, flows fs, timers ts.             *)
Resume(S, es, res, fs, ts) ==
    LET kind == [r \in Runs |-> IF r \in S \ res THEN ResumeKind(r, es[r]) ELSE "skip"]
        Of(ks) == {r \in Runs : kind[r] \in ks}
    IN /\ rec' = [r \in Runs |-> CASE kind[r] = "giveUp" -> Completed(es[r])
                                   [] kind[r] = "announce" -> Handled(es[r])
                                   [] OTHER -> es[r]]
       /\ flow' = [r \in Runs |-> IF kind[r] = "announce" THEN "collecting" ELSE fs[r]]
       /\ resumed' = res \union Of({"announce", "later", "held", "wait"})
       /\ timers' = ts \union Of({"later"})

(* Fault: a finished announcement wakes nobody.                            *)
WakeNobody(r, es, fs) ==
    /\ rec' = es /\ flow' = fs
    /\ UNCHANGED <<resumed, timers>>

(* retryDeferredCompletedAnnounces(), called when no announcement of r is  *)
(* left to make.                                                           *)
WakeDeferred(r, es, fs) ==
    LET deferred == {q \in Runs \ {r} : /\ es[q].ended /\ CanBegin(es[q])
                                        /\ es[q].suppress # "steer"}
    IN Resume(deferred, es, resumed \ deferred, fs, timers)

(* Bounded: something that fails, is late, or is ended from outside.       *)
Setback == setbacks < MaxSetbacks /\ setbacks' = setbacks + 1
-----------------------------------------------------------------------------
(* sessions_spawn: the gateway accepts a run, whose parent runs now.       *)
Spawn(r) ==
    /\ \A q \in Runs : SessionOf(q) = SessionOf(r) => course[q] = "none"
    /\ \/ Requester[SessionOf(r)] = Main
       \/ \E p \in Runs : SessionOf(p) = Requester[SessionOf(r)] /\ course[p] = "active"
    /\ Accept(r)
    /\ spawning' = spawning \union {r}
    /\ sessions' = sessions \union {SessionOf(r)}
    /\ UNCHANGED <<registryVars, clockVars, steering, queued, seen,
                   sent, doubted, uncovered, plan, setbacks>>

(* registerSubagentRun() and the first half of waitForSubagentCompletion() *)
Register(r) ==
    /\ r \in spawning
    /\ spawning' = spawning \ {r}
    /\ rec' = [rec EXCEPT ![r] = NewRec]
    /\ waiter' = [waiter EXCEPT ![r] = FirstWait(r)]
    /\ UNCHANGED <<course, starts, cache, grace, recent, resumed, flow, timers, clockVars,
                   steering, gatewayVars, plan, setbacks>>

(* Fault: the suppression of a steered run is not looked at.               *)
ConcludeAnyway(r) ==
    LET e == [rec[r] EXCEPT !.ended = TRUE]
        announce == Has(r) /\ CanBegin(e)
    IN /\ rec' = [rec EXCEPT ![r] = IF ~Has(r) THEN @
                                     ELSE IF announce THEN Handled(e) ELSE e]
       /\ flow' = [flow EXCEPT ![r] = IF announce THEN "collecting" ELSE @]
       /\ UNCHANGED <<resumed, timers>>

(* The end of a run is learnt: the common part of the listener and of      *)
(* waitForSubagentCompletion().                                            *)
Conclude(r) ==
    LET e == [rec[r] EXCEPT !.ended = TRUE]
        announce == Has(r) /\ e.suppress # "steer" /\ CanBegin(e)
    IN /\ rec' = [rec EXCEPT ![r] = IF ~Has(r) THEN @
                                     ELSE IF announce THEN Handled(e) ELSE e]
       /\ flow' = [flow EXCEPT ![r] = IF announce THEN "collecting" ELSE @]
       /\ UNCHANGED <<resumed, timers>>

(* An event "end" or "error" reaches AgentJob and the registry's listener. *)
RunEnds(r) ==
    /\ ErrorEvent(r) \/ EndEvent(r)
    /\ Conclude(r)
    /\ UNCHANGED <<clockVars, toolVars, gatewayVars, plan, setbacks>>

(* agent.wait answers.                                                     *)
WaitAnswered(r) ==
    /\ waiter[r] \in Statuses
    /\ waiter' = [waiter EXCEPT ![r] = "none"]
    /\ Conclude(r)
    /\ UNCHANGED <<course, starts, cache, grace, recent, clockVars, toolVars,
                   gatewayVars, plan, setbacks>>

(* The rest of the run's life, which the registry does not see.            *)
RunGoesOn(r) ==
    /\ \/ /\ StartEvent(r) \/ Over(r) \/ GraceElapses(r) \/ GraceEnds(r)
          /\ UNCHANGED setbacks
       \/ WaitExpires(r) /\ Setback
    /\ UNCHANGED <<registryVars, clockVars, toolVars, gatewayVars, plan>>
-----------------------------------------------------------------------------
(* With a session, S holds those of the recorded runs it asked for.        *)
Closed(S) ==
    \A p \in Runs : Has(p) /\ Requester[SessionOf(p)] \in S => SessionOf(p) \in S

(* listDescendantRunsForRequester(): q was asked for by s, by a recorded   *)
(* run of s, and so on: by a session in every closed set that holds s.     *)
Below(q, s) ==
    \A S \in SUBSET Sessions : s \in S /\ Closed(S) => Requester[SessionOf(q)] \in S

(* countActiveDescendantRuns(s) > 0                                        *)
ActiveBelow(s) == \E q \in Runs : Has(q) /\ ~rec[q].ended /\ Below(q, s)

(* The requester is a subagent whose session is gone, and no record tells  *)
(* who asked for it.                                                       *)
Orphan(r) ==
    LET asker == Requester[SessionOf(r)]
        runs == {p \in Runs : SessionOf(p) = asker}
    IN /\ asker # Main /\ asker \notin sessions
       /\ \A p \in runs : ~Has(p)

(* Reasons to return false and keep the session, unless a completion       *)
(* message is expected.  The first: the run is active after the wait of    *)
(* 120 s.                                                                  *)
MustDefer(r) == ~Expects(r) /\ (ActiveBelow(SessionOf(r)) \/ Orphan(r))
MayDefer(r) == MustDefer(r) \/ (~Expects(r) /\ Active(r))

(* finalizeSubagentCleanup() for the flow of r.                            *)
Finalize(r, didAnnounce) ==
    LET e == [rec[r] EXCEPT !.retries = IF didAnnounce THEN @ ELSE @ + 1]
        over == didAnnounce \/ e.retries >= MaxRetry \/ r \in aged
        left == IF didAnnounce /\ DeleteAfter(r) THEN NoRec ELSE Completed(e)
        fs == [flow EXCEPT ![r] = "none"]
    IN \/ ~Has(r) /\ flow' = fs /\ UNCHANGED <<rec, resumed, timers, cooling>>
       \/ /\ Has(r) /\ over
          /\ WakeDeferred(r, [rec EXCEPT ![r] = left], fs)
          /\ cooling' = cooling \ {r}
       \/ /\ Has(r) /\ ~over
          /\ rec' = [rec EXCEPT ![r] = [e EXCEPT !.handled = FALSE]]
          /\ flow' = fs
          /\ resumed' = resumed \ {r}
          /\ timers' = IF Expects(r) THEN timers \union {r} ELSE timers
          /\ cooling' = cooling \union {r}

(* The flow returns false without having sent.  Only with a label does it  *)
(* await something before it is finalized.                                 *)
FlowDefers(r) ==
    /\ flow[r] = "collecting" /\ MayDefer(r)
    /\ IF MustDefer(r) THEN UNCHANGED setbacks ELSE Setback
    /\ \/ /\ r \in Labelled
          /\ flow' = [flow EXCEPT ![r] = "labelling"]
          /\ UNCHANGED <<rec, resumed, timers, cooling>>
       \/ r \notin Labelled /\ Finalize(r, FALSE)
    /\ UNCHANGED <<jobVars, aged, toolVars, gatewayVars, plan>>

(* Fault: each attempt has an idempotency key of its own.                  *)
ReachesAgain(m, r) == 1

(* How often a call of the method m with the key of r reaches the          *)
(* requester: not at all if the gateway has seen this key at m.            *)
Reaches(m, r) == IF r \in seen[m] THEN 0 ELSE 1

(* How deliverSubagentAnnouncement() may go.  The direct send is left out, *)
(* succeeds, arrives but is reported as failed, or fails; otherwise the    *)
(* announcement is steered into the requester's run, queued, or neither.   *)
(* For a completion message the direct send comes first and the others     *)
(* after its failure; for any other announcement it is the last resort.    *)
Deliveries(r) ==
    IF Expects(r)
    THEN [direct : {"ok"}, otherwise : {"none"}]
           \union [direct : {"arrived", "failed"}, otherwise : {"steered", "queued", "none"}]
    ELSE [direct : {"none"}, otherwise : {"steered", "queued"}]
           \union [direct : {"ok", "arrived", "failed"}, otherwise : {"none"}]

(* A steered message carries no key.                                       *)
Delivers(r, d) ==
    LET there == d.direct \in {"ok", "arrived"}
    IN /\ sent' = [sent EXCEPT ![r] = @ + (IF there THEN Reaches(Direct(r), r) ELSE 0)
                                        + (IF d.otherwise = "steered" THEN 1 ELSE 0)]
       /\ seen' = IF there THEN [seen EXCEPT ![Direct(r)] = @ \union {r}] ELSE seen
       /\ queued' = IF d.otherwise = "queued" THEN queued \union {r} ELSE queued
       /\ doubted' = IF d.direct = "arrived" THEN doubted \union {r} ELSE doubted
       /\ uncovered' = IF d.otherwise # "none" THEN uncovered \union {r} ELSE uncovered
       /\ IF d.direct \in {"arrived", "failed"} THEN Setback ELSE UNCHANGED setbacks

(* deliverSubagentAnnouncement(), then the session is deleted if asked.    *)
FlowSends(r) ==
    /\ flow[r] = "collecting" /\ ~MustDefer(r)
    /\ \E d \in Deliveries(r) :
          /\ Delivers(r, d)
          /\ flow' = [flow EXCEPT ![r] = IF d.direct = "ok" \/ d.otherwise # "none"
                                           THEN "delivered" ELSE "undelivered"]
    /\ sessions' = IF DeleteAfter(r) THEN sessions \ {SessionOf(r)} ELSE sessions
    /\ UNCHANGED <<jobVars, rec, resumed, timers, clockVars, toolVars, plan>>

FlowEnds(r) ==
    /\ flow[r] \in {"labelling", "delivered", "undelivered"}
    /\ Finalize(r, flow[r] = "delivered")
    /\ UNCHANGED <<jobVars, aged, toolVars, gatewayVars, plan, setbacks>>

(* The announce queue sends what it holds, with the same key; it keeps     *)
(* what it believes not to have sent.                                      *)
QueueSends(r) ==
    /\ r \in queued
    /\ sent' = [sent EXCEPT ![r] = @ + Reaches("agent", r)]
    /\ seen' = [seen EXCEPT !["agent"] = @ \union {r}]
    /\ \/ queued' = queued \ {r} /\ UNCHANGED <<doubted, setbacks>>
       \/ doubted' = doubted \union {r} /\ Setback /\ UNCHANGED queued
    /\ UNCHANGED <<jobVars, registryVars, clockVars, toolVars, sessions, uncovered, plan>>

RetryTimer(r) ==
    /\ r \in timers \ cooling
    /\ Resume({r}, rec, resumed, flow, timers \ {r})
    /\ UNCHANGED <<jobVars, clockVars, toolVars, gatewayVars, plan, setbacks>>

(* Time: the backoff is over; the run has ended five minutes ago.          *)
Passes(r) ==
    /\ \/ cooling' = cooling \ {r} /\ r \in cooling /\ UNCHANGED <<aged, setbacks>>
       \/ /\ Has(r) /\ rec[r].ended /\ r \notin aged \union cooling
          /\ aged' = aged \union {r} /\ Setback /\ UNCHANGED cooling
    /\ UNCHANGED <<jobVars, registryVars, toolVars, gatewayVars, plan>>
-----------------------------------------------------------------------------
(* The subagents tool: kill aborts the run and, an await later, marks all  *)
(* runs of its session that have not ended.                                *)
Kill(r) ==
    /\ Has(r) /\ ~rec[r].ended
    /\ rec' = [q \in Runs |->
                 IF SessionOf(q) # SessionOf(r) \/ ~Has(q) \/ rec[q].ended THEN rec[q]
                 ELSE [rec[q] EXCEPT !.ended = TRUE, !.handled = TRUE,
                                     !.completed = TRUE, !.suppress = "killed"]]
    /\ Setback
    /\ UNCHANGED <<jobVars, resumed, flow, timers, clockVars, toolVars, gatewayVars, plan>>

(* steer: mark the run, abort it, start a replacement, put it in its place *)
SteerMark(r) ==
    /\ Has(r) /\ ~rec[r].ended /\ steering[r] = NoRun
    /\ steering' = [steering EXCEPT ![r] = r]
    /\ rec' = [rec EXCEPT ![r].suppress = "steer"]
    /\ UNCHANGED <<jobVars, resumed, flow, timers, clockVars, spawning, gatewayVars, plan, setbacks>>

SteerLaunch(r, n) ==
    /\ steering[r] = r /\ SessionOf(n) = SessionOf(r)
    /\ Accept(n)
    /\ steering' = [steering EXCEPT ![r] = n]
    /\ UNCHANGED <<registryVars, clockVars, spawning, gatewayVars, plan,
                   setbacks>>

(* clearSubagentRunSteerRestart()                                          *)
SteerFails(r) ==
    LET es == [rec EXCEPT ![r] = IF @.suppress = "steer" THEN [@ EXCEPT !.suppress = "no"] ELSE @]
    IN /\ steering[r] = r
       /\ steering' = [steering EXCEPT ![r] = NoRun]
       /\ \/ /\ rec[r].suppress = "steer"
             /\ Resume(IF es[r].ended THEN {r} ELSE {}, es, resumed \ {r}, flow, timers)
          \/ rec[r].suppress # "steer" /\ UNCHANGED registryVars
       /\ UNCHANGED <<jobVars, clockVars, spawning, gatewayVars, plan, setbacks>>

(* replaceSubagentRunAfterSteer()                                          *)
SteerReplaces(r) ==
    LET n == steering[r]
    IN /\ n \notin {NoRun, r}
       /\ steering' = [steering EXCEPT ![r] = NoRun]
       /\ rec' = [rec EXCEPT ![r] = NoRec, ![n] = NewRec]
       /\ resumed' = resumed \ {r}
       /\ waiter' = [waiter EXCEPT ![n] = FirstWait(n)]
       /\ UNCHANGED <<course, starts, cache, grace, recent, flow, timers, clockVars,
                      spawning, gatewayVars, plan, setbacks>>

(* The sweeper archives a run, ended or not.                               *)
Sweep(r) ==
    /\ Has(r)
    /\ rec' = [rec EXCEPT ![r] = NoRec]
    /\ sessions' = sessions \ {SessionOf(r)}
    /\ Setback
    /\ UNCHANGED <<jobVars, resumed, flow, timers, clockVars, toolVars, queued,
                   seen, sent, doubted, uncovered, plan>>

(* The gateway crashes with the runs it carries, starts again and restores *)
(* the registry: restoreSubagentRunsOnce().                                *)
Restart ==
    /\ Setback
    /\ course' = [r \in Runs |-> IF course[r] = "none" THEN "none" ELSE "over"]
    /\ cache' = Fresh /\ grace' = {} /\ recent' = {}
    /\ waiter' = [r \in Runs |-> IF ResumeKind(r, rec[r]) = "wait" THEN "waiting" ELSE "none"]
    /\ Resume(Runs, rec, {}, [r \in Runs |-> "none"], {})
    /\ spawning' = {}
    /\ steering' = [r \in Runs |-> NoRun]
    /\ queued' = {} /\ seen' = [m \in Methods |-> {}]
    /\ uncovered' = uncovered \union UNION {seen[m] : m \in Methods}
    /\ UNCHANGED <<starts, clockVars, plan, sessions, sent, doubted>>

Tools(r) ==
    \/ Spawn(r) \/ Kill(r)
    \/ SteerMark(r) \/ (\E n \in Runs : SteerLaunch(r, n))
    \/ SteerFails(r) \/ SteerReplaces(r)

Work(r) ==
    \/ Register(r) \/ RunEnds(r) \/ RunGoesOn(r) \/ WaitAnswered(r)
    \/ FlowDefers(r) \/ FlowSends(r) \/ FlowEnds(r)
    \/ QueueSends(r) \/ RetryTimer(r) \/ Passes(r)

Next == (\E r \in Runs : Tools(r) \/ Work(r) \/ Sweep(r)) \/ Restart

Spec == Init /\ [][Next]_vars
-----------------------------------------------------------------------------
RecordType ==
    [ended : BOOLEAN, handled : BOOLEAN, completed : BOOLEAN,
     suppress : {"absent", "no", "steer", "killed"}, retries : 0..MaxRetry]

(* The types of the registry's and the jobs' state; no record counts more  *)
(* attempts than MAX_ANNOUNCE_RETRY_COUNT allows.                          *)
TypeOK ==
    /\ JobTypeOK
    /\ rec \in [Runs -> RecordType]
    /\ flow \in [Runs -> Stages]
    /\ steering \in [Runs -> Runs \union {NoRun}]
    /\ plan \in Plans
    /\ sessions \subseteq Sessions
    /\ \A S \in {resumed, timers, cooling, aged, spawning, queued, doubted, uncovered} :
          S \subseteq Runs
    /\ seen \in [Methods -> SUBSET Runs]
    /\ sent \in [Runs -> Nat]
    /\ setbacks \in 0..MaxSetbacks

(* subagent-announce.ts:938-941: a result reaches its requester at most    *)
(* once, however often its announcement is retried, queued or resumed.     *)
(* The exception needs two things: a send that arrived and was reported as *)
(* failed, and an announcement that the direct send's key does not cover,  *)
(* being steered, queued, or made before the gateway restarted; each such  *)
(* send then costs at most one repetition.                                 *)
AnnouncedOnce ==
    \A r \in Runs :
        sent[r] <= IF r \in doubted /\ r \in uncovered THEN 1 + setbacks ELSE 1

(* subagents-tool.ts:577-579, :261: from the moment a run is marked as     *)
(* killed or as being steered, nothing of it is announced.                 *)
SilencedStaySilent ==
    \A r \in Runs : rec[r].suppress \in {"killed", "steer"} =>
        flow[r] = "none" /\ r \notin queued /\ sent[r] = 0

(* subagent-registry.ts:396-410: who begins a cleanup owns it until its    *)
(* flow is finalized, whatever happens to the run meanwhile, so that two   *)
(* flows never announce one run.                                           *)
FlowOwnsCleanup ==
    \A r \in Runs : (flow[r] # "none" /\ Has(r)) => (rec[r].handled /\ rec[r].ended)

(* The run q will wake r: it is below r, and still runs, is being steered, *)
(* or has a flow under way.                                                *)
WillWake(q, r) ==
    /\ Has(q) /\ (~rec[q].ended \/ flow[q] # "none" \/ rec[q].suppress = "steer")
    /\ Below(q, SessionOf(r))

(* subagent-announce.ts:826-830, subagent-registry.ts:368-394: a run that  *)
(* has ended and is not announced is never left alone: its flow is under   *)
(* way, or a run below it will wake it.  Claimed as long as nothing fails  *)
(* and nothing comes from outside (setbacks); not for a run whose          *)
(* requester is gone without a trace, which the code leaves to a restart,  *)
(* nor for one with a label, whose flow can miss the wake.                 *)
NoneStranded ==
    \A r \in Runs \ Labelled :
        (setbacks = 0 /\ rec[r].ended /\ rec[r].suppress = "no" /\ ~rec[r].completed)
          => \/ flow[r] # "none" \/ Orphan(r)
             \/ \E q \in Runs : WillWake(q, r)
=============================================================================
