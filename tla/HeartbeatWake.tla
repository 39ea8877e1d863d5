--------------------------- MODULE HeartbeatWake ---------------------------
(***************************************************************************)
(* The wake queue of the heartbeat (src/infra/heartbeat-wake.ts): hooks,   *)
(* cron jobs, nodes and finished commands ask for a heartbeat of a target; *)
(* requests are coalesced under a timer, taken as a batch and handed one   *)
(* by one to the registered handler, which may be busy, fail or be         *)
(* replaced by an in-process restart while it runs.                        *)
(*                                                                         *)
(* Everything between two awaits is one action.  The handler is external   *)
(* (heartbeat-runner.ts is a stub): a call ends in any of the ways the     *)
(* queue tells apart.  Time is in units of 250 ms.                         *)
(***************************************************************************)
EXTENDS Naturals

CONSTANTS
  Targets,       \* agentId::sessionKey pairs
  Priorities,    \* the values of REASON_PRIORITY in use
  Delays,        \* coalesceMs of the requests
  CoalesceDelay, \* DEFAULT_COALESCE_MS
  RetryDelay,    \* DEFAULT_RETRY_MS
  Requests,      \* calls of requestHeartbeatNow()
  MaxHandlers    \* bound: handlers set in one process

ASSUME PriorityAssumption == Priorities \subseteq Nat
ASSUME DelayAssumption ==
  Delays \subseteq Nat /\ CoalesceDelay \in Nat /\ RetryDelay \in Nat \ {0}
ASSUME HandlerAssumption == MaxHandlers \in Nat \ {0}

VARIABLES
  handler,    \* the handler, as the number of its registration; 0 is none
  sets,       \* how many handlers have been set
  pending,    \* pendingWakes: per target, its priority and the requests in it
  scheduled,  \* the flag "scheduled"
  running,    \* the flag "running"
  timer,      \* the timer: time left, kind, and the delay it was made with
  flight,     \* batches whose loop is suspended in a call of their handler
  overtaken,  \* a batch of these was suspended when a new handler was set
  asked,      \* priority of each request that has been made
  served,     \* requests whose wake a handler has dealt with
  cool        \* time left until a retry may run

wakeVars == <<handler, sets, pending, scheduled, running, timer, flight, overtaken,
              asked, served, cool>>
lifecycle == <<handler, sets>>
history == <<asked, served>>
batches == <<flight, overtaken>>

Wake == [prio : Nat, from : SUBSET Requests]
NoWake == [prio |-> 0, from |-> {}]
NothingPending == [t \in Targets |-> NoWake]
Timer == [left : Nat, kind : {"none", "normal", "retry"}, delay : Nat]
NoTimer == [left |-> 0, kind |-> "none", delay |-> 0]

\* A batch: its handler, the wakes it took, the target it is at and those it
\* has still to come to, and the delay of the timer that started it.
Batch == [by : 1..MaxHandlers, wakes : [Targets -> Wake], at : Targets,
          rest : SUBSET Targets, delay : Nat]

WakeInit ==
  /\ handler = 0
  /\ sets = 0
  /\ pending = NothingPending
  /\ scheduled = FALSE
  /\ running = FALSE
  /\ timer = NoTimer
  /\ flight = {}
  /\ overtaken = FALSE
  /\ asked = [r \in {} |-> 0]
  /\ served = {}
  /\ cool = 0

-----------------------------------------------------------------------------
\* Fault: the newest reason wins.
MergeNewest(old, new) ==
  [prio |-> IF new.from = {} THEN old.prio ELSE new.prio, from |-> old.from \cup new.from]

\* queuePendingWakeReason(): one wake per target, with the highest priority;
\* no reason counts for nothing.
Merge(old, new) ==
  [prio |-> IF old.from = {} \/ new.prio >= old.prio THEN new.prio ELSE old.prio,
   from |-> old.from \cup new.from]

Queue(wakes, t, w) == [wakes EXCEPT ![t] = Merge(@, w)]

\* schedule(): the timer after asking for one.  A retry timer stays, and so
\* does one that is due no later.
Schedule(tm, delay, kind) ==
  IF tm.kind = "retry" \/ (tm.kind = "normal" /\ tm.left <= delay) THEN tm
  ELSE [left |-> delay, kind |-> kind, delay |-> delay]

\* requestHeartbeatNow().
Request(r, t, p, delay) ==
  /\ r \notin DOMAIN asked
  /\ asked' = [q \in DOMAIN asked \cup {r} |-> IF q = r THEN p ELSE asked[q]]
  /\ pending' = Queue(pending, t, [prio |-> p, from |-> {r}])
  /\ timer' = Schedule(timer, delay, "normal")
  /\ UNCHANGED <<lifecycle, scheduled, running, batches, served, cool>>

-----------------------------------------------------------------------------
Due == timer.kind # "none" /\ timer.left = 0

\* The timer fires and there is no handler: the wakes are left for the next one.
FireWithoutHandler ==
  /\ Due /\ handler = 0
  /\ timer' = NoTimer
  /\ scheduled' = FALSE
  /\ UNCHANGED <<lifecycle, pending, running, batches, history, cool>>

\* The timer fires while a batch runs: it is made again.
FireWhileRunning ==
  /\ Due /\ handler # 0 /\ running
  /\ scheduled' = TRUE
  /\ timer' = Schedule(NoTimer, timer.delay, timer.kind)
  /\ UNCHANGED <<lifecycle, pending, running, batches, history, cool>>

\* The batch the timer starts with the wakes of the targets T.
StartBatch(T) ==
  /\ timer' = NoTimer
  /\ scheduled' = FALSE
  /\ pending' = NothingPending
  /\ IF T = {} THEN UNCHANGED <<flight, running>>
     ELSE /\ running' = TRUE
          /\ \E t \in T :
               flight' = flight \cup
                 {[by |-> handler, wakes |-> pending, at |-> t,
                   rest |-> T \ {t}, delay |-> timer.delay]}
  /\ UNCHANGED <<lifecycle, overtaken, history, cool>>

Queued == {t \in Targets : pending[t].from # {}}

\* Fault: a batch starts even though one runs.
FireAnyway == Due /\ handler # 0 /\ StartBatch(Queued)

\* The timer fires and starts a batch with all pending wakes; an empty batch
\* is over at once.
FireBatch == Due /\ handler # 0 /\ ~running /\ StartBatch(Queued)

\* Fault: "finally" leaves the flag set.
EndKeepsRunning(b, wakes, tm) ==
  /\ flight' = flight \ {b}
  /\ overtaken' = (overtaken /\ flight' # {})
  /\ timer' = IF wakes # NothingPending \/ scheduled
              THEN Schedule(tm, b.delay, "normal") ELSE tm
  /\ UNCHANGED running

\* "finally": the batch is over, and what has come in meanwhile is scheduled.
End(b, wakes, tm) ==
  /\ flight' = flight \ {b}
  /\ overtaken' = (overtaken /\ flight' # {})
  /\ running' = FALSE
  /\ timer' = IF wakes # NothingPending \/ scheduled
              THEN Schedule(tm, b.delay, "normal") ELSE tm

\* The batch goes on to its next wake or ends.
Continue(b, wakes, tm) ==
  IF b.rest = {}
  THEN End(b, wakes, tm)
  ELSE /\ \E t \in b.rest :
            flight' = (flight \ {b}) \cup {[b EXCEPT !.at = t, !.rest = @ \ {t}]}
       /\ timer' = tm
       /\ UNCHANGED <<running, overtaken>>

\* The handler has run the wake, or skipped or failed it for good.
Handled(b) ==
  /\ served' = served \cup b.wakes[b.at].from
  /\ Continue(b, pending, timer)
  /\ UNCHANGED <<lifecycle, pending, scheduled, asked, cool>>

\* The handler was busy ("requests-in-flight"): the wake is queued again.
Busy(b) ==
  /\ pending' = Queue(pending, b.at, b.wakes[b.at])
  /\ Continue(b, pending', Schedule(timer, RetryDelay, "retry"))
  /\ cool' = RetryDelay
  /\ UNCHANGED <<lifecycle, scheduled, history>>

\* The handler throws: the batch ends and all its wakes are queued again,
\* those already dealt with included.
Throws(b) ==
  /\ pending' = [t \in Targets |->
       IF b.wakes[t].from = {} THEN pending[t] ELSE Merge(pending[t], b.wakes[t])]
  /\ End(b, pending', Schedule(timer, RetryDelay, "retry"))
  /\ cool' = RetryDelay
  /\ UNCHANGED <<lifecycle, scheduled, history>>

-----------------------------------------------------------------------------
\* Fault: a new handler waits for the next request.
SetHandlerWaits ==
  /\ sets < MaxHandlers
  /\ sets' = sets + 1
  /\ handler' = sets + 1
  /\ running' = FALSE
  /\ scheduled' = FALSE
  /\ timer' = NoTimer
  /\ cool' = 0
  /\ overtaken' = (flight # {})
  /\ UNCHANGED <<pending, flight, history>>

\* setHeartbeatWakeHandler(f): the state of the previous lifecycle is reset,
\* whatever still runs, and wakes that wait are scheduled.
SetHandler ==
  /\ sets < MaxHandlers
  /\ sets' = sets + 1
  /\ handler' = sets + 1
  /\ running' = FALSE
  /\ scheduled' = FALSE
  /\ timer' = IF pending # NothingPending
              THEN Schedule(NoTimer, CoalesceDelay, "normal") ELSE NoTimer
  /\ cool' = 0
  /\ overtaken' = (flight # {})
  /\ UNCHANGED <<pending, flight, history>>

\* setHeartbeatWakeHandler(null), or the disposer of the present handler; the
\* disposers of earlier handlers do nothing.
ClearHandler ==
  /\ handler # 0
  /\ handler' = 0
  /\ UNCHANGED <<sets, pending, scheduled, running, timer, batches, history, cool>>

\* Time passes until the timer is due.
Tick ==
  /\ timer.left > 0 \/ cool > 0
  /\ timer' = [timer EXCEPT !.left = IF @ > 0 THEN @ - 1 ELSE 0]
  /\ cool' = IF cool > 0 THEN cool - 1 ELSE 0
  /\ UNCHANGED <<lifecycle, pending, scheduled, running, batches, history>>

Fire == FireWithoutHandler \/ FireWhileRunning \/ FireBatch
Return(b) == Handled(b) \/ Busy(b) \/ Throws(b)

WakeNext ==
  \/ \E r \in Requests, t \in Targets, p \in Priorities, d \in Delays : Request(r, t, p, d)
  \/ Fire
  \/ \E b \in flight : Return(b)
  \/ SetHandler
  \/ ClearHandler
  \/ Tick

\* Time passes, timers fire and handlers return.
WakeFairness ==
  /\ WF_wakeVars(Tick)
  /\ WF_wakeVars(Fire)
  /\ WF_wakeVars(\E b \in flight : Return(b))

WakeSpec == WakeInit /\ [][WakeNext]_wakeVars /\ WakeFairness

-----------------------------------------------------------------------------
\* Types of the state; a batch is at a wake it has taken.
WakeTypeOK ==
  /\ handler \in 0..MaxHandlers
  /\ sets \in 0..MaxHandlers
  /\ pending \in [Targets -> Wake]
  /\ scheduled \in BOOLEAN
  /\ running \in BOOLEAN
  /\ timer \in Timer
  /\ flight \subseteq Batch
  /\ overtaken \in BOOLEAN
  /\ \A b \in flight : \A t \in b.rest \cup {b.at} : b.wakes[t].from # {}
  /\ DOMAIN asked \subseteq Requests
  /\ \A r \in DOMAIN asked : asked[r] \in Priorities
  /\ served \subseteq Requests
  /\ cool \in Nat

\* A wake that stands for request r.
Holds(w, r) == r \in w.from /\ w.prio >= asked[r]

\* Every request not dealt with is in a wake of at least its own priority that
\* is pending or that a batch has still to deal with: coalescing, busy and
\* throwing handlers, and restarts in the middle of a batch forget none and
\* demote none.
NoneForgotten ==
  \A r \in DOMAIN asked \ served :
    \/ \E t \in Targets : Holds(pending[t], r)
    \/ \E b \in flight : \E t \in b.rest \cup {b.at} : Holds(b.wakes[t], r)

\* With a handler there is always something that will take the pending wakes:
\* a timer, or a batch whose end makes one.
NoneStranded ==
  handler # 0 /\ pending # NothingPending =>
    timer.kind # "none" \/ (running /\ flight # {})

\* At most one batch runs at a time, in every lifecycle.  The exception is a
\* batch that is still suspended when a new handler is set: it runs beside the
\* batches of the new handler, and its end clears the flag they rely on, so
\* that two of those may overlap; once all are over the flag is right again.
OneBatch == ~overtaken => \A b, c \in flight : b = c

\* As long as there is a handler, a pending wake is taken.
WakesAreTaken ==
  \A t \in Targets :
    pending[t] # NoWake ~> pending[t] = NoWake \/ handler = 0
=============================================================================
