------------------------------ MODULE AgentJob ------------------------------
(***************************************************************************)
(* Waiting for the end of an agent run, gateway/server-methods/            *)
(* agent-job.ts, behind the method agent.wait.                             *)
(*                                                                         *)
(* A run announces its course by lifecycle events.  "error" need not be    *)
(* the last of them: while authentication or model fail over, an error is  *)
(* followed by another "start".  The module therefore holds an error back  *)
(* for a grace period and lets a "start" cancel it.  Events are delivered  *)
(* to all listeners in one synchronous call, so an event is one action.    *)
(*                                                                         *)
(* Left out: the cache's time to live of ten minutes.                      *)
(***************************************************************************)
EXTENDS Naturals, FiniteSets

CONSTANTS Runs,       \* run ids
          MaxStarts   \* bound: "start" events of each run

ASSUME StartsAssumption == MaxStarts \in [Runs -> Nat]

VARIABLES course,     \* course[r]: where the run is, as its events tell
          starts,     \* starts[r]: number of "start" events of r
          cache,      \* agentRunCache: the status a run ended with, or "none"
          grace,      \* pendingAgentRunErrors: runs whose error is held back
          recent,     \* clock: runs whose last error is younger than
                      \* AGENT_RUN_ERROR_RETRY_GRACE_MS
          waiter      \* waiter[r]: the agent.wait of r's requester

jobVars == <<course, starts, cache, grace, recent, waiter>>

Statuses == {"ok", "error", "timeout"}

(* "failing" and "ending" follow an "error" and an "end" event while the   *)
(* embedded run is still registered: it may start again.                   *)
Courses == {"none", "accepted", "active", "failing", "ending", "over"}

(* isEmbeddedPiRunActive() of the run's session.                           *)
Active(r) == course[r] \in {"active", "failing", "ending"}

(* A waiter waits, or has been answered and the answer is on its way.  For *)
(* a run in grace it holds the error back as well, by a timer of its own   *)
(* that is set for the same instant; the two fire together here.           *)
Waiters == {"none", "waiting"} \union Statuses

Fresh == [r \in Runs |-> "none"]

JobInit ==
    /\ course = Fresh
    /\ starts = [r \in Runs |-> 0]
    /\ cache = Fresh
    /\ grace = {} /\ recent = {}
    /\ waiter = Fresh

(* waitForAgentJob(): a cached end answers at once.                        *)
FirstWait(r) == IF cache[r] # "none" THEN cache[r] ELSE "waiting"

(* The method "agent" accepts the run r.                                   *)
Accept(r) ==
    /\ course[r] = "none"
    /\ course' = [course EXCEPT ![r] = "accepted"]
    /\ UNCHANGED <<starts, cache, grace, recent, waiter>>

(* Fault: a start does not cancel the error held back.                     *)
StartEventInGrace(r) ==
    /\ course[r] \in {"accepted", "failing", "ending"}
    /\ starts[r] < MaxStarts[r]
    /\ course' = [course EXCEPT ![r] = "active"]
    /\ starts' = [starts EXCEPT ![r] = @ + 1]
    /\ cache' = [cache EXCEPT ![r] = "none"]
    /\ recent' = recent \ {r}
    /\ UNCHANGED <<grace, waiter>>

StartEvent(r) ==
    /\ course[r] \in {"accepted", "failing", "ending"}
    /\ starts[r] < MaxStarts[r]
    /\ course' = [course EXCEPT ![r] = "active"]
    /\ starts' = [starts EXCEPT ![r] = @ + 1]
    /\ cache' = [cache EXCEPT ![r] = "none"]
    /\ grace' = grace \ {r} /\ recent' = recent \ {r}
    /\ UNCHANGED waiter

(* An "end" event; whether the run was aborted is not told apart.          *)
EndEvent(r) ==
    /\ course[r] = "active"
    /\ course' = [course EXCEPT ![r] = "ending"]
    /\ cache' = [cache EXCEPT ![r] = "ok"]
    /\ grace' = grace \ {r}
    /\ waiter' = [waiter EXCEPT ![r] = IF @ = "waiting" THEN "ok" ELSE @]
    /\ UNCHANGED <<starts, recent>>

(* Fault: an error is taken for the end of the run at once.                *)
ErrorEventAtOnce(r) ==
    /\ course[r] = "active"
    /\ course' = [course EXCEPT ![r] = "failing"]
    /\ recent' = recent \union {r}
    /\ cache' = [cache EXCEPT ![r] = "error"]
    /\ waiter' = [waiter EXCEPT ![r] = IF @ = "waiting" THEN "error" ELSE @]
    /\ UNCHANGED <<starts, grace>>

ErrorEvent(r) ==
    /\ course[r] = "active"
    /\ course' = [course EXCEPT ![r] = "failing"]
    /\ grace' = grace \union {r} /\ recent' = recent \union {r}
    /\ UNCHANGED <<starts, cache, waiter>>

(* The run leaves the table of active runs.                                *)
Over(r) ==
    /\ course[r] \in {"failing", "ending"}
    /\ course' = [course EXCEPT ![r] = "over"]
    /\ UNCHANGED <<starts, cache, grace, recent, waiter>>

(* The grace period of the last error of r is over; its timer then fires.  *)
GraceElapses(r) ==
    /\ r \in recent
    /\ recent' = recent \ {r}
    /\ UNCHANGED <<course, starts, cache, grace, waiter>>

GraceEnds(r) ==
    /\ r \in grace \ recent
    /\ grace' = grace \ {r}
    /\ cache' = [cache EXCEPT ![r] = "error"]
    /\ waiter' = [waiter EXCEPT ![r] = IF @ = "waiting" THEN "error" ELSE @]
    /\ UNCHANGED <<course, starts, recent>>

(* The wait itself has a timeout, whatever the run does.                   *)
WaitExpires(r) ==
    /\ waiter[r] = "waiting"
    /\ waiter' = [waiter EXCEPT ![r] = "timeout"]
    /\ UNCHANGED <<course, starts, cache, grace, recent>>

JobTypeOK ==
    /\ course \in [Runs -> Courses]
    /\ DOMAIN starts = Runs /\ \A r \in Runs : starts[r] \in 0..MaxStarts[r]
    /\ cache \in [Runs -> Statuses \union {"none"}]
    /\ grace \subseteq Runs /\ recent \subseteq Runs
    /\ waiter \in [Runs -> Waiters]

(* agent-job.ts:5-9: an answer is no premature snapshot.  "error" is given *)
(* only when the whole grace period has passed since the last error of the *)
(* run with no start in between, however often the run failed and started  *)
(* before and whenever the wait began; "ok" only after an end with no      *)
(* start since.                                                            *)
NoPrematureVerdict ==
    [][\A r \in Runs : waiter[r] \notin Statuses =>
          /\ waiter'[r] = "error" => course'[r] \in {"failing", "over"} /\ r \notin recent'
          /\ waiter'[r] = "ok" => course'[r] \in {"ending", "over"}]_jobVars
=============================================================================
