-------------------------- MODULE MeshDelegation --------------------------
(***************************************************************************)
(* Delegation of tasks between Rust nodes (packages/core-rust/src/main.rs): *)
(* a bridge client hands a task to its node, the event loop finds an       *)
(* assignee, by a lookup in the Kademlia table when the client only names  *)
(* a capability, and gossips the task; the node whose peer id it carries   *)
(* runs it against its local Ollama.                                       *)
(*                                                                         *)
(* A process draws a new peer id each time it starts, so a peer id is a    *)
(* node and the number of that start.                                      *)
(***************************************************************************)
EXTENDS Naturals, FiniteSets, Sequences

CONSTANTS
  Nodes,       \* hosts
  Tasks,       \* task ids; each is delegated once
  MaxStarts    \* bound: how often a node's process is started

ASSUME StartAssumption == MaxStarts \in Nat \ {0}

VARIABLES
  starts,    \* how often each node has been started; 0 is never
  alive,     \* nodes whose process runs
  request,   \* what each task was asked for, and by whom
  outbox,    \* tasks in each node's gateway_to_rust channel
  lookups,   \* pending_delegations: tasks whose lookup is under way
  wire,      \* gossiped delegate messages on their way
  missed,    \* history: tasks that gossip lost on their way to a running peer
  running,   \* tasks each node has handed to Ollama
  runs,      \* how often each task has been started, anywhere
  reported   \* tasks whose result event went to the assignee's bridge clients

lives == <<starts, alive>>
gossip == <<wire, missed>>
vars == <<lives, request, outbox, lookups, gossip, running, runs, reported>>

PeerId(n) == <<n, starts[n]>>
PeerIds == Nodes \X (1..MaxStarts)

\* assignee_id: a peer id, "any", or "cap:..." for a capability that every
\* node registers at its start or that none does.
Assignees == PeerIds \cup {<<"any">>, <<"cap", "registered">>, <<"cap", "unknown">>}
NoRequest == [by |-> <<>>, assignee |-> <<>>]
Request == [by : PeerIds, assignee : Assignees]
Message == [task : Tasks, assignee : PeerIds, to : Nodes]

NeedsLookup(t) == request[t].assignee \notin PeerIds
Asked(t) == request[t] # NoRequest

Init ==
  /\ starts = [n \in Nodes |-> 0]
  /\ alive = {}
  /\ request = [t \in Tasks |-> NoRequest]
  /\ outbox = [n \in Nodes |-> <<>>]
  /\ lookups = [n \in Nodes |-> {}]
  /\ wire = {}
  /\ missed = {}
  /\ running = [n \in Nodes |-> {}]
  /\ runs = [t \in Tasks |-> 0]
  /\ reported = {}

-----------------------------------------------------------------------------
\* main(): a fresh identity, and the node's capabilities put into its own
\* record store.
Start(n) ==
  /\ n \notin alive
  /\ starts[n] < MaxStarts
  /\ starts' = [starts EXCEPT ![n] = @ + 1]
  /\ alive' = alive \cup {n}
  /\ UNCHANGED <<request, outbox, lookups, gossip, running, runs, reported>>

\* The process ends, by ctrl-c or a crash; nothing of this is saved.
Stop(n) ==
  /\ n \in alive
  /\ alive' = alive \ {n}
  /\ outbox' = [outbox EXCEPT ![n] = <<>>]
  /\ lookups' = [lookups EXCEPT ![n] = {}]
  /\ running' = [running EXCEPT ![n] = {}]
  /\ wire' = {m \in wire : m.to # n}
  /\ UNCHANGED <<starts, request, runs, reported, missed>>

\* A bridge client delegates t to a peer it has heard of, or to a capability.
Delegate(n, t, a) ==
  /\ n \in alive
  /\ ~Asked(t)
  /\ a \in PeerIds => a[2] <= starts[a[1]]
  /\ request' = [request EXCEPT ![t] = [by |-> PeerId(n), assignee |-> a]]
  /\ outbox' = [outbox EXCEPT ![n] = Append(@, t)]
  /\ UNCHANGED <<lives, lookups, gossip, running, runs, reported>>

\* gossipsub publish: any set of peers gets the message, but never the publisher.
Publish(n, t, a) ==
  \E R \in SUBSET (alive \ {n}) :
    /\ missed' = IF R = alive \ {n} THEN missed ELSE missed \cup {t}
    /\ wire' = wire \cup {[task |-> t, assignee |-> a, to |-> m] : m \in R}

\* The event loop takes a task whose assignee is a peer id, and gossips it.
TakeDirect(n) ==
  /\ n \in alive /\ outbox[n] # <<>>
  /\ ~NeedsLookup(Head(outbox[n]))
  /\ outbox' = [outbox EXCEPT ![n] = Tail(@)]
  /\ Publish(n, Head(outbox[n]), request[Head(outbox[n])].assignee)
  /\ UNCHANGED <<lives, request, lookups, running, runs, reported>>

\* The event loop takes any other task and starts a lookup.
TakeLookup(n) ==
  /\ n \in alive /\ outbox[n] # <<>>
  /\ NeedsLookup(Head(outbox[n]))
  /\ outbox' = [outbox EXCEPT ![n] = Tail(@)]
  /\ lookups' = [lookups EXCEPT ![n] = @ \cup {Head(outbox[n])}]
  /\ UNCHANGED <<lives, request, gossip, running, runs, reported>>

\* Whether get_record has a record to find: of "cap:llm:llama3", which "any"
\* stands for, or of another capability every node registers.
Found(t) == request[t].assignee # <<"cap", "unknown">>

\* The first record of a lookup routes the task and ends it.  kad answers
\* from the node's own store first, and that holds the node's own record.
LookupFound(n, t) ==
  /\ n \in alive /\ t \in lookups[n]
  /\ Found(t)
  /\ lookups' = [lookups EXCEPT ![n] = @ \ {t}]
  /\ Publish(n, t, PeerId(n))
  /\ UNCHANGED <<lives, request, outbox, running, runs, reported>>

\* The lookup finds nothing or times out after 30 s: the task is dropped.
LookupFails(n, t) ==
  /\ n \in alive /\ t \in lookups[n]
  /\ ~Found(t)
  /\ lookups' = [lookups EXCEPT ![n] = @ \ {t}]
  /\ UNCHANGED <<lives, request, outbox, gossip, running, runs, reported>>

\* Fault: every receiver takes the task for its own.
ReceiveAnyone(m) ==
  /\ wire' = wire \ {m}
  /\ running' = [running EXCEPT ![m.to] = @ \cup {m.task}]
  /\ runs' = [runs EXCEPT ![m.task] = @ + 1]
  /\ UNCHANGED <<lives, request, outbox, lookups, reported, missed>>

\* Fault: the assignee is compared with the requester's id.
ReceiveOther(m) ==
  /\ wire' = wire \ {m}
  /\ IF request[m.task].by = PeerId(m.to)
     THEN /\ running' = [running EXCEPT ![m.to] = @ \cup {m.task}]
          /\ runs' = [runs EXCEPT ![m.task] = @ + 1]
     ELSE UNCHANGED <<running, runs>>
  /\ UNCHANGED <<lives, request, outbox, lookups, reported, missed>>

\* A delegate message arrives: the receiver runs it if it is the assignee.
Receive(m) ==
  /\ wire' = wire \ {m}
  /\ IF m.assignee = PeerId(m.to)
     THEN /\ running' = [running EXCEPT ![m.to] = @ \cup {m.task}]
          /\ runs' = [runs EXCEPT ![m.task] = @ + 1]
     ELSE UNCHANGED <<running, runs>>
  /\ UNCHANGED <<lives, request, outbox, lookups, reported, missed>>

\* Ollama answers or cannot be reached: either way the result is "completed".
Complete(n, t) ==
  /\ t \in running[n]
  /\ running' = [running EXCEPT ![n] = @ \ {t}]
  /\ reported' = reported \cup {t}
  /\ UNCHANGED <<lives, request, outbox, lookups, gossip, runs>>

NodeStep(n) ==
  \/ Start(n)
  \/ Stop(n)
  \/ \E t \in Tasks, a \in Assignees : Delegate(n, t, a)
  \/ TakeDirect(n)
  \/ TakeLookup(n)
  \/ \E t \in Tasks : LookupFound(n, t) \/ LookupFails(n, t) \/ Complete(n, t)

Next ==
  \/ \E n \in Nodes : NodeStep(n)
  \/ \E m \in wire : Receive(m)

\* The event loop serves its channel, lookups end (kad gives up after 30 s),
\* gossip on its way arrives and Ollama calls return.
Fairness ==
  /\ \A n \in Nodes : WF_vars(TakeDirect(n)) /\ WF_vars(TakeLookup(n))
  /\ \A n \in Nodes, t \in Tasks :
       /\ WF_vars(LookupFound(n, t)) /\ WF_vars(LookupFails(n, t))
       /\ WF_vars(Complete(n, t))
       /\ WF_vars(\E m \in wire : m.to = n /\ m.task = t /\ Receive(m))

Spec == Init /\ [][Next]_vars /\ Fairness

-----------------------------------------------------------------------------
\* Types of the state; what is on its way is for a running process.
TypeOK ==
  /\ starts \in [Nodes -> 0..MaxStarts]
  /\ alive \subseteq {n \in Nodes : starts[n] > 0}
  /\ request \in [Tasks -> Request \cup {NoRequest}]
  /\ outbox \in [Nodes -> Seq({t \in Tasks : Asked(t)})]
  /\ lookups \in [Nodes -> SUBSET {t \in Tasks : Asked(t)}]
  /\ wire \subseteq Message
  /\ \A m \in wire : m.to \in alive
  /\ running \in [Nodes -> SUBSET Tasks]
  /\ missed \subseteq Tasks
  /\ runs \in [Tasks -> Nat]
  /\ reported \subseteq Tasks

\* A task is run at most once in the whole mesh, whomever its message reaches
\* and however often its assignee or its requester restarts.  That a message
\* reaches a peer no more than once is gossipsub's promise and not the node's,
\* which keeps no record of the tasks it has run (main.rs:258).
AtMostOnce == \A t \in Tasks : runs[t] <= 1

\* With every node up and gossip that reaches all, a task queued for the peer id
\* of another running node is run and its result reported there.
DirectTasksRun ==
  \A t \in Tasks, b, n \in Nodes :
    (/\ \E i \in DOMAIN outbox[b] : outbox[b][i] = t
     /\ b # n /\ request[t].assignee = PeerId(n)
     /\ [](alive = Nodes /\ t \notin missed))
      ~> t \in reported

\* README.md:12 has nodes "delegate tasks based on local capability" and
\* main.rs:179 "Find provider via DHT": with every node up and gossip reaching
\* all, a task for any capable node is run.  The lookup finds the requester's
\* own record, the task is gossiped to the requester, and gossip has no
\* delivery to oneself, so no node ever runs it.
CapableTasksRun ==
  \A t \in Tasks :
    (request[t].assignee = <<"any">> /\ [](alive = Nodes /\ t \notin missed))
      ~> runs[t] = 1
=============================================================================
