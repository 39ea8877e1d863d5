# A TLA+ model of MeshClaw

TLA+ modules, TLC configurations and TLAPS proofs for the parts of MeshClaw
that carry its own control logic: the shared memory and the task delegation of
the Rust mesh nodes (`packages/core-rust`); and of the TypeScript gateway
(`src/`) its client of the Rust bridge, the registry of nodes, the write-ahead
queue of outbound messages, the heartbeat's wake queue, subagents and their
announcements, the approval of commands, the session files' lock, the session
store, and the retry loop of the embedded agent with its auth profiles. Paths
below are relative to the repository; those of the gateway to its `src/`.

    tlc -config MCMeshMemory.cfg MCMeshMemory    # model-check a run
    tlapm MeshMemoryProofs.tla                   # check the proofs

## 1. The system

MeshClaw is a set of hosts. On each, a Rust process keeps a CRDT document and
gossips with its peers over libp2p, and a TypeScript gateway (a fork of
OpenClaw) serves user interfaces and runs agents. The gateway talks to the Rust
process over a local WebSocket, the bridge. Most of the gateway's 250 000 lines
convert between formats of channels and model providers; the inventory lists
what has state and concurrency of its own.

| component | state | operations | interacts with | hard part |
|---|---|---|---|---|
| shared memory (`sync.rs`, `main.rs`, `ws_bridge.rs`) | yrs document in memory; its copy in sled | start and load, save on ctrl-c, insert_text, apply_update, gossip of updates, gossip of the whole document every 10 s | peers by gossipsub; bridge clients | lost, delayed, reordered gossip; concurrent overwrites; crashes that lose everything since the last save; a load that fails in silence |
| task delegation (`main.rs`) | `pending_delegations`, Kademlia records, tasks running | delegate, look up, route, execute, report | peers by gossipsub; Ollama | fresh peer ids at each start, lookups that fail, no delivery to oneself |
| bridge (`ws_bridge.rs`) | per connection: its position in the event channel | read a request, reply; forward events | both of the above | bounded channels, slow clients |
| bridge client (`mesh-rust-client.ts`) | socket, reconnect interval, pending requests | connect, query, listPeers, stop; callbacks | gateway start and close; bridge | callbacks of old sockets after new ones exist; timers against replies |
| node registry (`node-registry.ts`) | sessions by node and connection, pending invokes | register, unregister, invoke, result, timeout | gateway connections | a node that is back before its old connection's end is noticed |
| delivery queue (`delivery-queue.ts`, `deliver.ts`) | one file per delivery, in the queue or in `failed/` | persist, send, acknowledge, fail, recover with backoff | channel senders; disk | crash between any two awaits, recovery against live deliveries with one temporary file between them, disk errors |
| wake queue (`heartbeat-wake.ts`) | pending wakes, timer, two flags, the handler | request, fire, handler returns, busy, throws, register and clear | hooks, cron, nodes, the heartbeat runner | requests during a batch, retry cooldown, in-process restart under a running batch |
| agent waits (`agent-job.ts`) | cached ends, errors held back, waiters | lifecycle events, agent.wait | agent runner, subagents | an error that is followed by another start |
| subagents (`subagent-registry.ts`, `subagent-announce.ts`, `subagents-tool.ts`) | records and their file, announcement flows, retry timers, announce queue | spawn, register, conclude, announce, finalize, defer, steer, kill, archive, restore | agent waits, sessions, gateway | several ways to learn of one end; awaits inside a cleanup; restart, steering or killing in the middle; who wakes a deferred run |
| exec approvals (`exec-approval-manager.ts`, `exec-approvals.ts`, `exec-approval-forwarder.ts`, `bash-tools.exec-host-gateway.ts`) | approvals and their timers, the forwarder's table and timers, the approvals file | exec, request, resolve, expire, wait, forward; get and set of the file | tool calls, operators, channels | two timers and a decision for one approval; a file read before the wait and written after it |
| session write lock (`session-write-lock.ts`) | lock file, `HELD_LOCKS` with counts | acquire, re-enter, release, watchdog, signals, clean-up at start | other processes; the embedded runner | awaits between creating the file and writing its owner, and between judging a lock stale and removing it |
| session store (`config/sessions/store.ts`) | `sessions.json`, cache by mtime, task queue, lock | load, update, patch, maintain, rotate, save | whoever keeps sessions; other processes | loads outside the lock; reads that fail in silence; read-modify-write through a cache; rotation before the write; a direct write when the file is gone |
| embedded runner (`pi-embedded-runner/run.ts`, `run/attempt.ts`, `runs.ts`) | loop counters, candidates, the attempt, table of active runs | begin, attempt, judge, rotate, abort, time out | auth profiles; resets of the session | retries that reset one another's counters; abort and timer on one attempt, before and after its prompt |
| auth profiles (`auth-profiles/{order,usage,store}.ts`) | usage statistics in a file under a lock | order, clear, mark failed, mark used | embedded runners | a stale copy saved when the lock is not to be had; a window that restarts the counts |
| gateway connections (`ws-connection.ts`, `server-broadcast.ts`) | clients, sequence numbers | handshake, broadcast, close | everything in the gateway | slow consumers |
| rate limits (`auth-rate-limit.ts`) | attempts per address | record, check, prune | handshake | window boundaries |
| gateway lock (`gateway-lock.ts`) | lock file | acquire, probe, steal, release | other gateways | two processes stealing one stale lock |

`PROJECT.json` repeats the list with the status of each part, and under
"hazards" names, line by line, what in this code is hard to test.

The fork wires less than its source holds. Its gateway registers the handlers of
connect, health, config, system, the mesh and a stub of nodes; those of exec
approvals, agents and subagents are wired by their tests only, and
`NodeRegistry.register()` has no caller. They are modelled as their code and
their tests use them. `config/sessions.ts`, `heartbeat-runner.ts` and a few
others are stubs, `process/command-queue.ts` and what `infra/file-lock.ts`
re-exports are missing; what they would do (lanes run one task at a time, a file
lock has one holder) is taken from their callers. `agents/model-auth.ts` is a
stub too, so that in this fork the order of profiles and the keys that the
embedded runner asks it for are a stub's; `EmbeddedRun` takes the order from
`auth-profiles/order.ts`, which is whole, and any set of keys.

### What makes each part correct

- Shared memory: overwriting replaces (nobody sees two values of one writer),
  never blanks a key, what is overwritten stays gone, a save never loses what an
  earlier one had, all documents become equal.
- Delegation: a task runs at most once, a task for a running peer runs.
- Bridge client and node registry: a call ends exactly once and leaves nothing
  behind; one live connection, reconnection after every loss; the session
  stored for a node is its current one.
- Delivery queue: nothing persisted is lost, retries are bounded, `failed/` is
  final.
- Wake queue: no request is forgotten or demoted, no pending wake is left
  without a timer, one batch at a time, wakes are taken.
- Subagents: a result is announced at most once and never for a run killed or
  being steered, each cleanup has one owner, a run that has ended is announced
  or somebody will wake it, no error is reported of a run that may yet retry.
- Approvals: one decision counts for the command, for those who wait and for the
  channels; only users put patterns on the allowlist; whoever asks or was asked
  learns the end.
- Session write lock: work under it is exclusive, waiters get in.
- Session store: caches are fresh, what was saved stays, every task is settled.
- Runner and profiles: retries are bounded, cooldowns are heeded and kept, an
  aborted run begins no other attempt, every run ends.

## 2. Modules

Each component has a module with the state machine and its properties, an `MC`
module with the definitions its configuration needs, and some have a `Proofs`
module. Operators whose comment begins with "Fault:" are deliberate mistakes.
They are in no next-state relation; putting one in place of the definition
after it must break the property `PROJECT.json` pairs it with, which shows that
the property depends on that code.

A stretch of JavaScript without an await is one action, whatever it calls; an
await lies between two actions, and anything may happen there.

| composition | how |
|---|---|
| `SubagentRegistry` and `AgentJob` | extends it: an event reaches both in one step |
| `NodeRegistry`, `MeshRustClient` and `OneShot` | both implement it by `INSTANCE OneShot WITH ...` |
| `SessionStore` and `SessionWriteLock` | the store assumes a lock with one holder; `SessionWriteLock` says when it has one |
| `EmbeddedRun` | the runner, the registry of its runs and the auth profiles in one module |

### MeshMemory

A document is what yrs integrates: a set of runs, each named by client id and
clock, and the set of those deleted. `Merge` is `apply_update` of a peer's whole
state: yrs keeps the union of both sets (external; the module relies only on
that, on the larger client id winning the creation of a map entry, and on
client ids not repeating). `InsertText` is `insert_text`: get or create the
key's text, delete what it shows, push the value. The order of runs inside a
text is left out, as no property depends on it. Actions:

| action | code |
|---|---|
| `Start` | `MemorySync::new()` and `main.rs:126`: load, or fail to and say nothing, then write the initial note |
| `Shutdown`, `Crash` | `ctrl_c` with `save()`; the end of the process without it |
| `BridgeWrite`, `BridgeBroadcast` | the two ways a knowledge-update enters over the bridge |
| `PublishUpdate` | the event loop publishes the head of its channel; any set of peers gets it |
| `Tick` | the 10 s timer gossips the document to any set of peers |
| `DeliverSync`, `DeliverUpdate` | arrival in any order; an update is inserted as the receiver's own run |

A write carries a value used once, so that values can be told apart. Clocks of
a new process start at 0 because its client id is new. `MemorySync::new()`
ignores every error of reading, decoding and applying (sync.rs:71-76), so a
process may start empty beside a saved document; the nodes to which that may happen are
`Unreadable`, and `blind` remembers those running now that did. Their next save
replaces the larger document: `SavedStateGrows` excepts them. A document that
decodes in part is not modelled; yrs applies an update as a whole.

### MeshDelegation

`Delegate`, `TakeDirect`, `TakeLookup`, `LookupFound`, `LookupFails`, `Receive`,
`Complete`, `Start`, `Stop`. A peer id is a host and the number of its start, as
the key pair is generated anew. A lookup answers with the node's own record:
`get_record` of libp2p-kad 0.48 reports a record of the local store first, each
node puts its own record there under the same key (`main.rs:149-160`), and no
record of another node replaces it, because the behaviour stays in client mode
(nothing confirms an external address, nothing calls `set_mode`) and so accepts
none. Gossipsub does not deliver to the publisher, and may miss any other peer:
`missed` remembers the tasks that happened to, for `DirectTasksRun`.

### MeshRustClient

The client composed with the WebSocket objects it creates and the bridge's
replies. JavaScript runs callbacks to completion, so each is one action, and any
interleaving of callbacks is allowed: a "close" may come long after `stop()`.
`timer` distinguishes a live interval from a stored handle already cleared
("stale"), which the code does too, by accident.

### DeliveryQueue

One `Workers` element per live delivery and one for the recovery; `job[w].pc` is
the await at which it is suspended. `Settle` says where a delivery goes when its
sending ends, given that the queue is skipped without a queue id. `FailRead`,
`FailOpen`, `FailFill` and `FailRename` are `failDelivery()`: it reads the entry,
opens (and empties) the temporary file, writes it and renames it, and anything
can happen in between. The file's name has the process id only, so the live
delivery and the recovery of one entry share it: one may rename what the other
has just emptied, or write into a file that has already become the entry
(`FailFillInPlace`). `torn` are the entries whose file does not parse, which
every later recovery skips; `clashed` remembers the entries for which two
updates have had the temporary file at once, and `NothingLost` says that only
those can be torn. A crash alone cannot, since the rename comes after the write.
Disk operations of acknowledging, failing, moving and enqueueing
may fail. Sorting by `enqueuedAt` is `Oldest`. Time counts only where the code
looks at it: the backoff against the budget. A crash keeps `place`, `retry` and
`since`; the rest of the history (`sent`, `aborted`, `mode`) is there for the
properties. `bestEffort` has three forms because `onError` decides whether a
failure is noticed.

Nothing in this fork calls `recoverPendingDeliveries()`; the model follows its
comment ("On gateway startup") and starts it once per process, at any time,
beside live deliveries.

### HeartbeatWake

`Request`, the three outcomes of a timer (`FireWithoutHandler`,
`FireWhileRunning`, `FireBatch`), the three of a handler's call (`Handled`,
`Busy`, `Throws`), `SetHandler`, `ClearHandler` and `Tick`. A pending wake is
its priority and the requests merged into it. A suspended batch is a record in
`flight` that keeps its handler, so that the batch of an old handler can end in
the middle of a new lifecycle, as in the code. History: `cool`, the time left
until a retry may run, and `overtaken`, that a batch was suspended when a new
handler was set and not all batches have ended since. The end of such a batch
clears the flag of the new lifecycle, so that two batches of the new handler may
overlap: `OneBatch` says that this is the only way two ever do.

### OneShot, NodeRegistry

`OneShot` is what the gateway promises the callers of its remote calls: a call
is refused at once or stays open, an open call ends once, by an answer or a
refusal, and none stays open. Several calls may end in one step, since a node
that goes takes its calls along. In `MeshRustClient` a call is open while its
request is pending, in `NodeRegistry` while its invoke is stored; `KeepsPromises`
is the abstract specification with its fairness.

`NodeRegistry` has one action per method, and `Lose`, by which a connection is
gone before the gateway notices (`Unregister`). `overtaken` remembers the nodes
that came back in between: the late `unregister()` deletes whatever session is
stored for the node, so that `SessionIsCurrent` excepts them. Answers travel
and may come after the timeout.

### AgentJob, SubagentRegistry

`AgentJob` has the lifecycle events of a run (`StartEvent`, `EndEvent`,
`ErrorEvent`), the grace period that holds an error back, and one waiter for
each run, the registry's `agent.wait`. Time counts where the grace period is
concerned: `recent` are the runs whose last error is younger than that period
(`GraceElapses`), and the timer fires only after it (`GraceEnds`). A run may
start again at any time, also after the grace period, and then an error has been
reported of a run that goes on; `NoPrematureVerdict` says what the code promises
(agent-job.ts:5-9), that no error is reported before the whole period has passed
without a start.

| action of `SubagentRegistry` | code |
|---|---|
| `Spawn`, `Register` | `sessions_spawn` up to the gateway's acceptance; `registerSubagentRun()` |
| `RunEnds`, `WaitAnswered` | the two ways to learn of an end; both do `Conclude` |
| `RunGoesOn` | what the registry does not see |
| `FlowDefers`, `FlowSends`, `FlowEnds` | `runSubagentAnnounceFlow()` between its awaits, and `finalizeSubagentCleanup()` |
| `QueueSends`, `RetryTimer`, `Passes` | the announce queue, the backoff, time |
| `Kill`, `SteerMark`, `SteerLaunch`, `SteerFails`, `SteerReplaces` | the subagents tool between its awaits |
| `Sweep`, `Restart` | archiving; a crash and `restoreSubagentRunsOnce()` |

`Deliveries` are the ways `deliverSubagentAnnouncement()` may go: for a
completion message the direct send first and then, if it failed, steering or
queueing; for others steering or queueing first and then the direct send. A
direct send may fail although it has arrived (`doubted`). The gateway suppresses
a key it has seen at the same method (`Reaches`); the direct send of a
completion message to a channel (`Channelled`) is a "send", everything else an
"agent", and a steered message carries no key. `uncovered` are the runs announced
in a way that the key of their direct send does not cover. `AnnouncedOnce` allows
a repetition to runs that are both doubted and uncovered, and one for each such
failure: a test of the fallback would see the completion message twice.

`Resume` is `resumeSubagentRun()`, called from a timer, a failed steer, a
restart and `retryDeferredCompletedAnnounces()` (`WakeDeferred`). Which run
works in which session, who expects a completion message and whose session is
deleted afterwards is the `plan`, chosen at the start. `Setback` counts what
fails or comes from outside. `Below` is the code's breadth-first search for the
descendants of a session, stated without its queue: a run is below a session if
every set of sessions that holds it and is closed under recorded runs holds the
run's asker.

### ExecApprovals

A call reads the file (`Exec`), asks (`Request`), and goes on with the decision
and the file it had read (`Answered`). `Resolve`, `Expire` and
`ForwarderExpires` race; both timers become ready by `Due`, in either order of
firing. An operator reads the file and sets it, refused when it has changed
(`Get`, `Set`). A request may get lost, and a crash forgets all approvals.
`accepted` remembers which decisions were answered with "ok", `due` the calls
whose time is up. `OneClosing` says what a channel hears: at most one closing
notice, "resolved" only of a request that was, and for a decision answered with
"ok" that notice unless the time was up, when the forwarder's own timer may have
told it "expired" first.

### SessionWriteLock

One lock file. `Open`, `Write`, `Read`, `Remove` and `Release`, `Drop` are the
code between its awaits; `Enter` is the reentrant path; `Watchdog`, `Signal`,
`Crash`, `Age` and the clean-up `SweepList`, `SweepRead`, `SweepRemove` can come
anywhere. A lock file without an owner is judged stale by the code, so that a
caller between creating and writing it can lose it, as can one whose file is
replaced between a waiter's judgement and its removal. `stolen` remembers that a
live caller's file was removed on such a judgement; `lapsed` remembers leases
that the watchdog or a survived signal ended while the work went on.

### SessionStore

A store's content is the set of tasks whose change it carries, together with an
mtime. The drain of a process goes through `Take`, `Lock`, `Change`, `Maintain`,
`Write`, `Rename`, `Release`, with a failing variant of each. `Load` and `Stat`
are the two halves of a load outside the lock, between which another process may
rename its store.

A read that fails is taken for an empty store (store.ts:189-196), which a load
caches under the mtime of the file (`LoadFails`, and `Lock` for what the tasks
load): the processes to which it may happen are `Unreadable`, and any process
meets a store that is cut short. When the temporary file or its directory is
gone (`Vanishes`, for the processes in `Vanishing`), the store is written in
place, emptied and then filled (`Truncate`, `Fill`; `torn` in between), and if
that finds nothing either, the save returns as if it were done
(`VanishesAgain`). The comment there says that this happens in tests; a deleted
directory takes the lock file with it, and from then on nothing is claimed of
the changes.

History: `alike`, that two contents were read under one mtime; `evicted`, what
pruning removed; `blind` and `guess`, that the cache entry or the draft of a
process is of a failed read; `gone`, the changes that were lost: dropped by a
save that had not been able to read the store, or with a store that was rotated
away or emptied by a save that then failed, or with the directory.

### EmbeddedRun

`Begin` chooses a profile; `Register`, `Prompt`, `Return` and `Timeout` are the
attempt, `Throws` its failure before the prompt; `Overflow`, `Level`, `PromptFails`, `Fail`, `TellTimeout` and `Finish` are the
loop's judgement of it, in the order of the code; `Cleanup` is a reset or a
deletion of the session. Between `Register` and `Prompt` hooks are awaited and
images loaded; an abort or the timer may come there, and the prompt is sent all
the same before the attempt unwinds, so that `AbortsStick` forbids further
attempts and not this prompt. `Cleanup` without a registered attempt changes
nothing here. A rejected prompt without a further profile may still try another
thinking level (`GivesUp`).

`disk` is the file of usage statistics. `Failed` is
`computeNextProfileUsageStats()`: cooldown and disabling for billing have their
own counts and ends, and a failure later than `Window` after the last one
restarts both counts. `restarted` remembers the profiles to which that happened
while they were unusable, as it may shorten what is in force. With the defaults of
the code the window is not shorter than the longest disabling (both are 24
hours), so that this needs the two to end within the same moment; with a
shorter window configured, any later failure does it. `view` is kept only for the runs that may have to save without the file's lock, as only these
write it. `heeds` remembers the cooldowns a run has found at its start and that
are still in force; `stopped` the runs whose attempt was aborted for a reset.

## 3. Runs

| run | module and bounds | shows |
|---|---|---|
| `memory` | 2 nodes, 3 process starts, 1 value besides the initial text, 2 syncs in flight, 1 node with failing loads | `OneRunPerWriter`, `NeverBlank`, `SavedStateGrows`, `OverwrittenStaysGone`, `Converges` |
| `client` | 4 sockets, 2 requests, 2 stops, 2 drops | `OneLiveSocket`, `Reconnects`, `KeepsPromises` |
| `delivery` | 2 deliveries of 2 payloads, 2 retries, 1 crash, with and without bestEffort | `NothingLost`, `RetriesBounded`, `FailedIsFinal` |
| `delegation` | 3 nodes, 2 starts each, 1 task | `AtMostOnce`, `DirectTasksRun` |
| `delegation_any` | the same | a violation, see section 6 |
| `wake` | 2 targets, 2 requests, 2 priorities, 2 delays, 2 handlers | `NoneForgotten`, `NoneStranded`, `OneBatch`, `WakesAreTaken` |
| `subagents` | 2 runs, nested or in one session after the other; 2 attempts to announce, 2 starts of the first run, 1 setback; the parent's messages to a channel | `AnnouncedOnce`, `SilencedStaySilent`, `FlowOwnsCleanup`, `NoneStranded`, `NoPrematureVerdict` |
| `approvals` | 2 calls of one command, one of them forwarded, 3 policies, 1 edit, 1 loss or crash | `OneDecision`, `EntriesWereAllowed`, `EndsAreLearnt` |
| `nodes` | 2 nodes, one with 3 connections in turn, 3 calls | `SessionIsCurrent`, `KeepsPromises` |
| `lock` | 2 processes, 3 callers, 2 of them reentrant, 1 clean-up | `Exclusive`, `WaitersGetIn` |
| `store` | 2 processes, 3 tasks, 1 of them a patch, 1 process with loads, the other with failing reads and vanishing files, 2 ticks | `CacheIsFresh`, `SavedStays`, `TasksSettle` |
| `runner` | 2 runs, 2 profiles, 1 of them billed, 1 compaction, 2 delays of each kind, no window, 1 tick | `CallsBounded`, `CooldownsHeeded`, `CooldownsKept`, `AbortsStick`, `RunsEnd` |

The runs `approvals`, `store` and `runner` check the type invariant as well; for
all modules it is proved (section 5), and so are the strengthenings
`WriterHistory`, `PendingMatchesPromises` and `LeaseIsOnDisk`, which the runs
therefore leave out.

Why the bounds are enough.

- Two nodes make a concurrent overwrite; a third client id lets a node restart,
  and two syncs in flight let a stale document arrive after a newer one.
- Four sockets allow a stop, a restart and two failures.
- Two deliveries let a recovery overlap a live delivery, in failDelivery() too,
  and one entry hold up another; two payloads make a partial failure; two retries reach the limit. One
  crash is enough, since `Restart` at rest is unbounded.
- A task is one message to every node and never meets another task, so one is
  enough; two starts give a node a second peer id.
- Two handlers make one in-process restart; a second request arrives during the
  batch of the first and merges with it.
- Two subagent runs make a parent and a child, whose ends come in either order,
  or a run and its replacement; two attempts reach the limit; one setback is one
  crash, kill, archiving or failed send at any point of everything else. The
  plans: of nested runs one expects a completion and the other does not, and the
  child's session is deleted; of a run and its replacement both do or none does.
- Two calls of one command make an answer to one change what the other finds;
  the three policies are those under which asking, falling back and running
  without asking differ.
- Three connections of one node overtake one another's ends; a second node keeps
  the tables apart.
- Three callers make two waiters at one stale file, in one process or two, and a
  reentrant one beside a holder.
- Three tasks put two in one queue and one in another process; two ticks allow
  two contents under one mtime and under different ones. Reads fail in one
  process, whose saves then meet the loads and the patches of the other.
- Two runs share profiles; with two, one may cool down and the other be taken;
  two delays tell a first error from a repeated one. One run has the fallbacks,
  the resets and the missing lock, the other the choice of its user, the long
  context and a second thinking level; a window of 0 makes failures in different
  ticks count anew while a billed profile is disabled for three. A profile may
  begin with the longest disabling.

Bounds are constants (`MaxSyncs`, `MaxCrashes`, `MaxDrops`, `MaxStops`,
`MaxStarts`, `MaxSetbacks`, `MaxEdits`, `MaxLosses`, `MaxTick`, `MaxNow`, and the
sets `Long`, `Resets`, `Lockless`, `Billed`, `Loaders`, `Unreadable` and
`Vanishing` of those to which something may happen) and guard the environment's actions only; `MaxHandlers` bounds how often
a handler is set. Limits of the code are constants too (`MaxRetry`,
`MaxRetries`, `MaxOverflow`, `Backoff`, `Billing`, `Window`, `Budget`). Symmetry is used in one run
of safety properties, over deliveries.

Deadlock is not checked: every one of these systems may be idle for good (all
client ids used, all deliveries made, no further request).

## 4. Fairness

- `MeshMemory`: strong fairness of a tick reaching each peer (the timer is
  unconditional, and gossip is unreliable but not partitioned for ever), weak
  fairness of deliveries and of the event loop. No user acts and no process
  starts by fairness; `Converges` assumes that all nodes end up running.
- `MeshRustClient`: timers fire, and the `ws` library opens or fails each
  attempt and reports each close. Failures are bounded by `MaxDrops`.
- `NodeRegistry`: timers fire; no node has to answer and no close has to be
  noticed.
- `DeliveryQueue`: its properties here are of safety, so its fairness (sends
  end, disk operations complete, the recovery's loop runs, restarts happen) is
  stated but used by no property.
- `MeshDelegation`: the event loop serves its channel, kad gives up a query
  after 30 s (`set_query_timeout`), Ollama calls return, gossip on its way
  arrives. `DirectTasksRun` is claimed for tasks gossip did not lose, as the
  code never sends a task again.
- `HeartbeatWake`: time passes, due timers fire, handlers return.
- `SubagentRegistry`: none, its properties are of safety; `NoneStranded` says
  instead who will act.
- `ExecApprovals`: requests and answers travel, timers fire; nobody has to
  decide.
- `SessionWriteLock`: the awaited calls of a live process return, and a caller's
  work ends. A waiter's timeout is not needed, as it may be infinite.
- `SessionStore`: a load runs through; a process that waits for the lock is not
  passed over for ever (strong fairness of its drain), as waiters retry with
  random delays.
- `EmbeddedRun`: hooks and the loading of images end, as the abort timer does
  not interrupt them; an attempt's abort timer fires and an aborted attempt
  unwinds, because `abortable()` rejects and its other waits have timeouts. Not
  that a provider answers. `RunsEnd` says "not busy again and again"; as a run
  begins once, that is for good.

## 5. Proofs

TLAPS checks these theorems for all values of the constants under the named
assumptions of the modules (finite sets of entries and profiles, positive
numbers of payloads and retries, distinct sentinels, natural and, for cooldowns,
growing delays). A proof module extends the modules it speaks of. Where one
extends two components, the definitions that would clash carry the component's
name, such as `WakeInit` or `ClientSpec`.

- **MeshMemory** (`MeshMemoryProofs`): `Typed`, `History`, `OneRun`,
  `SavedGrows`, `Shown`, `StaysGone`. `OneRunPerWriter` is not inductive: it
  speaks of what is shown, and a merge shows a combination of two documents.
  `WriterHistory` strengthens it over all documents in existence, in memory, on
  disk and on their way: running clients are distinct, a node holds all its
  client ever wrote, client and clock name a run, and whoever holds a run also
  holds the deletion of every earlier run of that writer in that text. `Merge`
  keeps the last because a union of documents only adds deletions. `Shown` rests
  on another invariant of all documents, `Ranked`: the runs can be ranked so
  that whoever holds a run as deleted holds a higher run of the same text, so
  that the highest run held of a text is not deleted. `StaysGone` follows
  because the document of a running node only grows, and what is hidden in a
  document is hidden in a larger one. `SavedGrows` rests on `DiskHeld`: a running
  node that could read its saved document holds it.
- **MeshDelegation** (`MeshProofs`): `Typed`, `NeverTwice`. `AtMostOnce` needs
  to know where a task can be: `OnePlace` says that before it is published it is
  in one place (a channel or a lookup) of one node, with no trace elsewhere;
  `OneAssignee` that all its copies on the wire name one peer id; `RunOnce` that
  once it was run the remaining copies are on their way to others, which no
  restart can turn into that peer id. It rests on gossipsub handing a message to
  a peer at most once, as `Receive` has it; the handler (main.rs:258) keeps no
  record of tasks and would run a second copy.
- **MeshRustClient** (`MeshProofs`): `ClientTyped`, `PendingCorrect`,
  `OneSocket`, `Implements`. The first two are inductive together. `OneSocket`
  needs that, before the first stop, a socket that is closing is still the
  stored one. `Implements` is `Spec => Promises!Safe`: each request starts as a
  call not yet made, and each step of the client is a step of `OneShot` or a
  stutter.
- **NodeRegistry** (`GatewayProofs`): `NodesTyped`, `Current`, `Implements`.
  `SessionIsCurrent` is strengthened by `OneConnection`: a node that never
  overtook its own close has one connection at a time, so that `unregister()`
  can delete no other's session. `Implements` is the same refinement of
  `OneShot` for calls of nodes.
- **DeliveryQueue** (`QueueProofs`): `Typed`, `Lossless`, `Bounded`, `Final`.
  `Lossless` is strengthened by `Known` (only persisted entries are queued,
  loaded, retried or settled, so that a new delivery cannot change the mode of
  one under way) and `Progress` (a delivery without bestEffort at payload *n*
  has sent the first *n* - 1, and one about to be acknowledged has sent all or
  was aborted), and for the entry's file by `Apart`: as long as no two updates
  have had its temporary file at once, one worker at most is between opening and
  renaming it, and what it is about to rename is whole. `Bounded` and `Final` rest on `RetryInv`: a failure is counted
  once by the delivery that queued the entry and once for each pass of the
  recovery, which skips an entry at the limit; so whoever may still count one
  finds room (`Room`), and an entry in `failed/` has no one at work on it
  (`Spent`). With a limit of 1 the live delivery and the recovery would exceed
  it; `MAX_RETRIES` is 5.
- **HeartbeatWake** (`QueueProofs`): `WakeTyped`, `Forgotten`, `Stranded`,
  `One`. `Stranded` rests on "the flag running is set only while a batch is
  suspended", `One` on the converse, which holds in every lifecycle unless a
  batch was overtaken (`FlagTellsBatch`), `Forgotten` on
  `Merge` keeping both the requests and the higher priority.
- **SubagentRegistry** and **AgentJob** (`SubagentRegistryProofs`): `Typed`,
  `Owner`, `Silenced`, `Once`, `Awoken`, `Verdicts`. `RegistryInv` joins an
  invariant of each run (`RunInv`) with `ComeOnce`: a run a tool is about to
  register has left no trace yet and is registered by one tool only, so that a
  registration overwrites nothing. `AnnouncedOnce` rests on `Counted`, which
  knows three reasons for a single announcement: as long as no send was doubted,
  a run that was announced, or is queued, has a flow that delivered it or no
  other that can begin (`Done`); as long as none went past the key of the direct
  send, the gateway knows that key and suppresses what follows; and otherwise
  each further announcement needs a setback. `Verdicts` rests on `VerdictsHeld`:
  an error is held back until it is no longer `recent`, a start takes it out of
  the grace period, and what is cached is of a run that has not started since. `ResumeEach` reduces `resumeSubagentRun()`, called for any set of
  runs at once, to what it does to one run. `Awoken` states `NoneStranded`, by
  an invariant of the behaviours without setbacks, `Undisturbed`. A run left to
  wait has a run below it that is active, is being steered, or has a flow that
  will not end before it wakes all who wait (`Awaited`). When such a run is
  itself left to wait, it has deferred to an active run below it, which is also
  below all that waited for it, as to be below is transitive (`BelowThrough`).
  When a steered run is replaced, its replacement takes its place. The rest
  shows that waking works: nobody has given up or waits for a timer (`AllCalm`);
  and that an orphan, which waits for nobody, stays one: the asker of a run was
  accepted before it (`Parents`), and a run being spawned has its session to
  itself (`Alone`). A labelled run is not enough to wait for, as its flow may
  end without a wake: the exception in `NoneStranded` is real.
- **SessionWriteLock** (`SessionWriteLockProofs`): `LockTyped`,
  `LeaseFileOnDisk`, `LockExcludes`. The types count the callers under a held
  lock, which needs `Known`: a lock is made by a caller of its own process, and
  is held or being dropped, never both. `LeaseIsOnDisk` strengthens `Exclusive`:
  as long as nobody was robbed, the file belongs to a caller about to write it,
  to the lock that is held, or to one being dropped, so that a release removes
  its own file only.
- **ExecApprovals** (`GatewayProofs`): `ApprovalsTyped`, `Decided`,
  `EntriesAllowed`. `OneDecision` relates those told "ok" to the command, the
  waiters and the channels. It needs where each call stands (`CallInv`): the
  decisions answered with "ok" are the one the record was resolved with
  (`OneCounts`), nothing is resolved before the call has asked (`NotAsked`), and
  an undecided record has a call that waits, or whose request was lost
  (`Waits`), and a channel was told "expired" only of a call that is due
  (`Timely`). `EntriesWereAllowed` is inductive only together with the copies of
  the file that calls have read and may write back (`ListsAllowed`).
- **SessionStore** (`SessionStoreProofs`): `Typed`, `Fresh`, `Kept`.
  `CacheIsFresh` rests on `FilesAgree`: as long as no two contents were read
  under one mtime, what has the mtime of the file, in a cache not of a failed
  read or in a load under way, has the content of the file. `SavedStays` adds
  that a store that is not there or cut short is being mended by who holds the
  lock, or nothing it had is accounted for (`Returns`), and that a draft which
  was really read, under the lock, carries all that was saved and is not lost
  (`Carried`). The types hold the mutual exclusion both need: one
  process is past the wait for the lock.
- **EmbeddedRun** (`EmbeddedRunProofs`): `Typed`, `Heeded`, `Bounded`, `Stuck`,
  `Kept`. `CooldownsHeeded` is inductive with the types. `CallsBounded` compares
  what each further attempt has spent: profiles, then thinking levels, the
  truncation and compactions, where spending one may reset those after it.
  `AbortsStick` rests on `StoppedUnwind`: an attempt aborted for a reset stays
  aborted and is not taken for a timeout, and goes from its judgement to its
  end. `CooldownsKept` rests on `AllWithin`: in the file and in the copies that
  may be saved without its lock, a cooldown is not longer than the backoff of its
  error count, nor a disabling longer than that of its count for billing, unless
  the window has restarted the counts (`Backed`); so that a later failure, which
  counts one more or restarts the count, never shortens one otherwise. That is
  where both backoffs have to grow (`RunAssumption`), as
  `calculateAuthProfileCooldownMs()` (usage.ts:177) and its like for billing do.
  `CooldownsHeeded` is about the longer of the two ends (`Until`).

Only model-checked: everything temporal beyond box properties (`Converges`,
`Reconnects`, `DirectTasksRun`, `WakesAreTaken`, `EndsAreLearnt`,
`WaitersGetIn`, `TasksSettle`, `RunsEnd`, the fair half of `KeepsPromises`), as
liveness is beyond the prover. Every invariant and every action property that a
run checks is also proved.

## 6. Disagreements between code and documentation

One run shows a statement of the documentation that the code does not keep:

| run | what the documentation says | what the code does |
|---|---|---|
| `delegation_any` | README.md:12, main.rs:179: delegate by capability, found in the DHT | the lookup finds the requester, which gossip does not reach |

`DirectTasksRun` shows that the same task runs when it is sent to a peer id.

Others were met while modelling. The modules do what the code does, and the
properties are stated with the exception.

| documentation | code | exception in |
|---|---|---|
| README.md:22 "conflict-free shared memory" | an update is inserted by its writer and again by each receiver (main.rs:253); the merged text repeats the value | nobody claims one copy; `OneRunPerWriter` is per writer |
| mesh-rust-client.ts:67 "Reconnecting in 5s..." | after `stop()` and a new start, a late "close" or a stale handle leaves no interval | `Reconnects` until the gateway is closed |
| delivery-queue.ts:212, :221: entries move to `failed/`, the rest is deferred to the next restart | the third backoff never fits the budget, so the entry and all newer ones are deferred for ever | no liveness is claimed |
| deliver.ts:231 "remove after success" | without `onError` a refused payload is not noticed, nor in a recovery | `NothingLost` is for deliveries without bestEffort |
| subagent-announce.ts:299-300 "Share one announce identity across direct and queued delivery paths" | a "send" and an "agent" are deduplicated apart (send.ts:72, agent.ts:210), and a steered message has no key (:379): after a direct send that arrived and was reported as failed, the fallback announces again | `AnnouncedOnce` excepts runs both doubted and uncovered |
| store.ts:671 "re-read inside the lock to avoid clobbering concurrent writers" | a read that fails there counts as an empty store (:189-196), and the save replaces everything | `SavedStays` excepts what is `gone` |
| heartbeat-wake.ts:205-208 "Reset module-level execution state that may be stale" | the batch of the old lifecycle clears the new one's flag when it ends (:177), and two batches of the new handler may overlap | `OneBatch` unless `overtaken` |
| heartbeat-wake.ts:113 "a hard minimum delay", and its test | a sooner timer set during the busy call is kept | `WakesAreTaken` without a minimum |
| subagent-registry.steer-restart.test.ts:243 "retries completion-mode announce delivery with backoff" | a descendant that ends within the backoff wakes the run (:368-394), which marks it as resumed (:156), so that the retry timer finds nothing to do; the next attempt is left to another wake or a restart | no liveness is claimed after a setback |
| exec-approvals.ts:64 (server methods) "changed since last load" | the tool saves the file it read before the wait, over an operator's edit | `EntriesWereAllowed` speaks of entries, not of removals |
| store.ts:585-586, :595 "serialized by the write lock" | a lock file without an owner yet is judged stale | `SessionStore` assumes the lock, `SessionWriteLock` has `stolen` |
| usage.ts:300-302 "billing failures are treated as disabled (longer backoff)" | a failure after the window restarts the count for billing while the profile is still disabled, and then shortens the disabling | `CooldownsKept` excepts what was `restarted` |
| order.ts:21-24 "a fresh error count" after an expired cooldown | the clearing is in a copy; the mark of a failure reads the file again with its old count | `Failed` |

Behaviour that no document speaks of and a reader should know:

- A node that cannot read or decode its saved document starts empty and, on the
  next ctrl-c, saves what it has then over the old one.
- When a live delivery and the recovery fail on one entry at the same time, the
  entry may end up truncated; after a restart it is skipped as malformed for
  ever (delivery-queue.ts:171-173).
- A load of the session store that fails leaves an empty store in the cache
  under the file's own mtime, so that later loads and patches take it for the
  store until its time to live is over.
- An abort during the hooks or the loading of images does not stop the prompt
  of that attempt (attempt.ts:1043-1045): it is sent, and then given up.
- A node that reconnects before its old connection's end is noticed loses the
  session it has just registered.
- The forwarder's timer may fire before the manager's; a decision in between is
  answered with "ok" while the channel has been told "expired".
- A decision accepted after the tool's request was lost runs nothing.
- A run that fails without a further profile and without fallbacks is marked as
  used and good (run.ts:931-1052), which lifts the cooldown just set; so does a
  run that a user aborts.
- Between two attempts a run is not registered (runs.ts:71-74): a reset then
  finds nothing to abort. An abort timer that fires before an aborted attempt
  has unwound makes the run take the abort for a timeout and rotate.
- A labelled subagent run can miss the wake of its last descendant, in the await
  that patches its label.
- `main.rs:126` writes the initial text over `note1` at every start, so a restart
  replaces the note a user saved there; no document says whether it should.

## 7. Limits

- yrs, libp2p, `ws`, the file system, Ollama and the model providers are
  modelled from how the code uses them. A file rename is atomic and survives a
  crash.
- Mesh: a bridge client's own memory-sync, the capacities of the bridge's
  channels, the size of a gossiped document and the second message listener
  after an in-process restart are not modelled.
- Deliveries: payloads are sent whole; a payload of several chunks counts as
  refused if any chunk is. The `message_sending` hook, which may cancel a
  payload, is left out. Nothing in this fork calls the recovery.
- The heartbeat's handler is any handler. Two batches may overlap after an
  in-process restart under a suspended batch, until all are over.
- Subagents: nesting of any depth, of which the run checks two levels; the
  announce queue is one slot for each run, without
  debounce, cap and summaries, and without the mode "collect", which joins
  announcements under the key of the last; failing saves are ignored, as in the code; killing
  does not cascade; the cache of ended runs does not expire.
- Approvals: one agent, a command is the pattern that allows it, one forwarding
  target; the hosts "node" and "sandbox" are left out.
- Session lock: one session file; clocks of different processes agree.
- Session store: the code for Windows (which reads up to three times and skips
  a save whose rename keeps failing), a directory that vanishes together with
  the lock (after which nothing is claimed), `saveSessionStore()` with a store its caller loaded before, and the
  normalisation of entries are left out.
- Runner: configured orders of profiles, runs without a profile id, errors that are both for
  failover and about thinking levels, streams, tools and transcripts are left
  out. Each run has a session of its own, as the session lane runs one at a time.

Not modelled: gateway connections, rate limits and the gateway's lock (see
`PROJECT.json` for the reasons), configuration, routing, the memory index, the
vector store, channels, providers, user interfaces and logging, which are data,
I/O or stubs.

## 8. Plan

Done: the state machines above, in order of their weight in the system. Next:

1. `BridgeEvents`: the bounded channels between node and bridge clients (100
   each), composed with `MeshDelegation` so that a result can be followed from
   the assignee to the requester; properties on lost events and on a bridge
   connection blocked by a full channel.
2. The gateway's broadcast with slow consumers and the listeners of the bridge
   client, composed with `MeshRustClient`.
3. An abstract outbox (accepted, owed, released) that `DeliveryQueue` implements
   for deliveries without bestEffort.
4. Proofs: that `SessionWriteLock` gives `SessionStore` the lock it assumes, and
   that `DeliveryQueue` implements the outbox.
