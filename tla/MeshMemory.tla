---------------------------- MODULE MeshMemory ----------------------------
(***************************************************************************)
(* The shared memory of the mesh: the yrs document each Rust node keeps    *)
(* (packages/core-rust/src/sync.rs), the event loop that gossips it        *)
(* (main.rs) and the writes that reach it over the WebSocket bridge        *)
(* (ws_bridge.rs).  Nodes start, stop on ctrl-c (which saves) or crash     *)
(* (which does not); gossip is lost, delayed and reordered.                *)
(*                                                                         *)
(* A document is the set of text runs it has integrated and the set of     *)
(* those it has marked deleted.  A run, like a yrs item, is named by the   *)
(* client that wrote it and that client's clock.  A text is named by the   *)
(* client that created it: when two clients create the text of one key     *)
(* independently, the larger client id wins the map entry.                 *)
(***************************************************************************)
EXTENDS Naturals, FiniteSets, Sequences

CONSTANTS
  Nodes,        \* hosts, each with its own MESHCLAW_STATE_DIR
  Keys,         \* keys of the "shared" map
  NoteKey,      \* "note1", the key written at start-up
  Values,       \* values users write; each is written at most once
  InitialText,  \* "Initial shared knowledge"
  ClientIds,    \* yrs client ids, drawn at random by Doc::new(), never reused
  MaxClient,    \* the largest client id (yrs draws a fixed number of bits)
  NoClient,     \* the document of a node that is not running
  MaxSyncs,     \* bound: memory-sync messages in flight
  Unreadable    \* bound: nodes whose saved state may fail to be read back

ASSUME KeyAssumption == NoteKey \in Keys
ASSUME ClientAssumption ==
  /\ MaxClient \in Nat
  /\ ClientIds \subseteq 0..MaxClient
  /\ NoClient \notin ClientIds
ASSUME UnreadableAssumption == Unreadable \subseteq Nodes
ASSUME ValueAssumption == InitialText \notin Values

VARIABLES
  alive,    \* nodes whose process runs
  client,   \* the client id of each node's current document
  clock,    \* the next clock of that client
  doc,      \* the in-memory document of each node
  disk,     \* the document saved in each node's sled database
  blind,    \* running nodes that could not read what they had saved
  outbox,   \* knowledge-updates in each node's gateway_to_rust channel
  syncs,    \* memory-sync messages on their way
  updates,  \* knowledge-update messages on their way
  used,     \* client ids drawn so far
  written   \* values users have written so far

vars == <<alive, client, clock, doc, disk, blind, outbox, syncs, updates, used, written>>
netVars == <<syncs, updates>>
diskVars == <<disk, blind>>
idVars == <<client, used, written>>

Run == [client : ClientIds, clock : Nat, key : Keys, text : ClientIds,
        val : Values \cup {InitialText}]
Doc == [runs : SUBSET Run, dead : SUBSET Run]
Write == [key : Keys, val : Values]
Sync == [from : Nodes, to : Nodes, doc : Doc]
KnowledgeUpdate == [to : Nodes, key : Keys, val : Values]

EmptyDoc == [runs |-> {}, dead |-> {}]

-----------------------------------------------------------------------------
\* Fault: apply_update() replaces the document instead of merging into it.
MergeReplaces(d, e) == e

\* Fault: apply_update() is only effective on an empty document.
MergeOnlyOnce(d, e) == IF d.runs = {} THEN e ELSE d

\* apply_update of encode_state_as_update_v1 against the empty state vector:
\* the update carries every run and every deletion of its sender.
Merge(d, e) == [runs |-> d.runs \cup e.runs, dead |-> d.dead \cup e.dead]

Contains(d, e) == e.runs \subseteq d.runs /\ e.dead \subseteq d.dead

\* The texts created for key k, and the one the map entry shows.
Texts(d, k) == {r.text : r \in {x \in d.runs : x.key = k}}
Winner(d, k) == CHOOSE t \in Texts(d, k) : \A u \in Texts(d, k) : u <= t

\* get_text(k): the runs of the shown text that are not deleted, which the
\* reader sees one after the other.
Visible(d, k) ==
  {r \in d.runs \ d.dead : r.key = k /\ r.text = Winner(d, k)}

\* The run insert_text(k, v) pushes: it gets or creates the text, removes all
\* the text shows and pushes v.
NewRun(d, c, i, k, v) ==
  [client |-> c, clock |-> i, key |-> k, val |-> v,
   text |-> IF Texts(d, k) = {} THEN c ELSE Winner(d, k)]

\* Fault: insert_text() tests the length wrongly and never removes.
InsertTextAppends(d, c, i, k, v) ==
  [runs |-> d.runs \cup {NewRun(d, c, i, k, v)}, dead |-> d.dead]

\* Fault: insert_text() pushes before it removes.
InsertTextRemovesLast(d, c, i, k, v) ==
  LET e == [runs |-> d.runs \cup {NewRun(d, c, i, k, v)}, dead |-> d.dead]
  IN  [e EXCEPT !.dead = @ \cup Visible(e, k)]

\* The document after insert_text(k, v).
InsertText(d, c, i, k, v) ==
  [runs |-> d.runs \cup {NewRun(d, c, i, k, v)},
   dead |-> d.dead \cup Visible(d, k)]

\* A running node writes v to k in its own document.
Insert(n, k, v) ==
  /\ doc' = [doc EXCEPT ![n] = InsertText(@, client[n], clock[n], k, v)]
  /\ clock' = [clock EXCEPT ![n] = @ + 1]

-----------------------------------------------------------------------------
Init ==
  /\ alive = {}
  /\ client = [n \in Nodes |-> NoClient]
  /\ clock = [n \in Nodes |-> 0]
  /\ doc = [n \in Nodes |-> EmptyDoc]
  /\ disk = [n \in Nodes |-> EmptyDoc]
  /\ blind = {}
  /\ outbox = [n \in Nodes |-> <<>>]
  /\ syncs = {}
  /\ updates = {}
  /\ used = {}
  /\ written = {}

\* A process starts with the document d in memory.  main() then writes the
\* initial text to note1, whatever was loaded.
StartWith(n, c, d) ==
  /\ n \notin alive
  /\ c \notin used
  /\ alive' = alive \cup {n}
  /\ used' = used \cup {c}
  /\ client' = [client EXCEPT ![n] = c]
  /\ clock' = [clock EXCEPT ![n] = 1]
  /\ doc' = [doc EXCEPT ![n] = InsertText(d, c, 0, NoteKey, InitialText)]
  /\ UNCHANGED <<disk, outbox, netVars, written>>

\* Fault: MemorySync::new() skips the load.
StartWithoutLoad(n, c) ==
  /\ StartWith(n, c, EmptyDoc)
  /\ UNCHANGED blind

\* MemorySync::new() applies the saved state to a fresh document.  When
\* reading it, decoding it or applying it fails, nobody is told: the document
\* stays empty and the process goes on.
Start(n, c) ==
  \/ /\ StartWith(n, c, disk[n])
     /\ UNCHANGED blind
  \/ /\ n \in Unreadable /\ disk[n] # EmptyDoc
     /\ StartWith(n, c, EmptyDoc)
     /\ blind' = blind \cup {n}

\* What the end of a process takes with it: its document, its channel, and
\* the messages only it could have received.
Vanish(n) ==
  /\ n \in alive
  /\ alive' = alive \ {n}
  /\ client' = [client EXCEPT ![n] = NoClient]
  /\ clock' = [clock EXCEPT ![n] = 0]
  /\ blind' = blind \ {n}
  /\ doc' = [doc EXCEPT ![n] = EmptyDoc]
  /\ outbox' = [outbox EXCEPT ![n] = <<>>]
  /\ syncs' = {s \in syncs : s.to # n}
  /\ updates' = {u \in updates : u.to # n}
  /\ UNCHANGED <<used, written>>

\* ctrl-c: memory.save(), then the event loop ends.
Shutdown(n) ==
  /\ Vanish(n)
  /\ disk' = [disk EXCEPT ![n] = doc[n]]

\* The process dies: nothing is saved between shutdowns.
Crash(n) ==
  /\ Vanish(n)
  /\ UNCHANGED disk

\* ws_bridge.rs: a knowledge-update written by a bridge client is inserted
\* into the local document and queued for the event loop to publish.
BridgeWrite(n, k, v) ==
  /\ n \in alive
  /\ v \notin written
  /\ written' = written \cup {v}
  /\ Insert(n, k, v)
  /\ outbox' = [outbox EXCEPT ![n] = Append(@, [key |-> k, val |-> v])]
  /\ UNCHANGED <<alive, client, used, diskVars, netVars>>

\* ws_bridge.rs, method "broadcast": the same message is only queued.
BridgeBroadcast(n, k, v) ==
  /\ n \in alive
  /\ v \notin written
  /\ written' = written \cup {v}
  /\ outbox' = [outbox EXCEPT ![n] = Append(@, [key |-> k, val |-> v])]
  /\ UNCHANGED <<alive, client, used, clock, doc, diskVars, netVars>>

\* The event loop takes the head of the channel and publishes it; gossipsub
\* brings it to the peers in R and to nobody else, ever.
PublishUpdate(n, R) ==
  /\ n \in alive
  /\ outbox[n] # <<>>
  /\ R \subseteq alive \ {n}
  /\ outbox' = [outbox EXCEPT ![n] = Tail(@)]
  /\ updates' = updates \cup
       {[to |-> m, key |-> Head(outbox[n]).key, val |-> Head(outbox[n]).val] : m \in R}
  /\ UNCHANGED <<alive, idVars, clock, doc, diskVars, syncs>>

\* The 10 s timer: the whole document is gossiped to the peers in R.
Tick(n, R) ==
  /\ n \in alive
  /\ R # {} /\ R \subseteq alive \ {n}
  /\ Cardinality(syncs) + Cardinality(R) <= MaxSyncs
  /\ syncs' = syncs \cup {[from |-> n, to |-> m, doc |-> doc[n]] : m \in R}
  /\ UNCHANGED <<alive, idVars, clock, doc, diskVars, outbox, updates>>

\* A gossip message of kind memory-sync arrives.
DeliverSync(s) ==
  /\ s \in syncs
  /\ doc' = [doc EXCEPT ![s.to] = Merge(@, s.doc)]
  /\ syncs' = syncs \ {s}
  /\ UNCHANGED <<alive, idVars, clock, diskVars, outbox, updates>>

\* A gossip message of kind knowledge-update arrives: the receiver inserts
\* the value itself, as a run of its own.
DeliverUpdate(u) ==
  /\ u \in updates
  /\ Insert(u.to, u.key, u.val)
  /\ updates' = updates \ {u}
  /\ UNCHANGED <<alive, idVars, diskVars, outbox, syncs>>

NodeStep(n) ==
  \/ \E c \in ClientIds : Start(n, c)
  \/ Shutdown(n)
  \/ Crash(n)
  \/ \E k \in Keys, v \in Values : BridgeWrite(n, k, v) \/ BridgeBroadcast(n, k, v)
  \/ \E R \in SUBSET Nodes : PublishUpdate(n, R) \/ Tick(n, R)

Next ==
  \/ \E n \in Nodes : NodeStep(n)
  \/ \E s \in syncs : DeliverSync(s)
  \/ \E u \in updates : DeliverUpdate(u)

\* The event loop keeps taking messages from its channels and its timer keeps
\* ticking; a tick reaches each running peer now and then.  Nobody has to
\* write, start or stop anything.
Fairness ==
  /\ \A n, m \in Nodes :
       /\ SF_vars(Tick(n, {m}))
       /\ WF_vars(\E s \in syncs : s.from = n /\ s.to = m /\ DeliverSync(s))
  /\ \A n \in Nodes :
       /\ WF_vars(\E u \in updates : u.to = n /\ DeliverUpdate(u))
       /\ WF_vars(\E R \in SUBSET Nodes : PublishUpdate(n, R))

Spec == Init /\ [][Next]_vars /\ Fairness

-----------------------------------------------------------------------------
\* Types of the state; messages on their way are for running processes.
TypeOK ==
  /\ alive \subseteq Nodes
  /\ client \in [Nodes -> ClientIds \cup {NoClient}]
  /\ \A n \in alive : client[n] \in ClientIds
  /\ clock \in [Nodes -> Nat]
  /\ doc \in [Nodes -> Doc]
  /\ disk \in [Nodes -> Doc]
  /\ blind \subseteq alive
  /\ outbox \in [Nodes -> Seq(Write)]
  /\ syncs \subseteq Sync
  /\ updates \subseteq KnowledgeUpdate
  /\ \A m \in syncs \cup updates : m.to \in alive
  /\ used \subseteq ClientIds
  /\ written \subseteq Values

\* A reader sees at most one run of each writer in a key: a write replaces
\* whatever its writer wrote there before, on every node and whatever order
\* syncs, re-inserted updates, saves and crashes come in.
OneRunPerWriter ==
  \A n \in alive, k \in Keys : \A r1, r2 \in Visible(doc[n], k) :
    r1.client = r2.client => r1 = r2

\* Every document there is: in memory, saved, or on its way.
Docs == {doc[n] : n \in Nodes} \cup {disk[n] : n \in Nodes}
        \cup {s.doc : s \in syncs}

SameWriter(p, r) == p.client = r.client /\ p.key = r.key /\ p.text = r.text

\* Why OneRunPerWriter holds, in a form every step preserves.  Running nodes
\* have client ids of their own, and a node's document holds every run its
\* client ever wrote; client and clock name one run; and a document that holds
\* a run holds the deletion of every earlier run, wherever that still lives,
\* that the same writer put in the same text.
ClientsDistinct ==
  \A n, m \in alive : client[n] = client[m] => n = m

ClientsUsed ==
  /\ \A n \in alive : client[n] \in used
  /\ \A d \in Docs : \A r \in d.runs : r.client \in used

OwnRunsHeld ==
  \A n \in alive : \A d \in Docs : \A r \in d.runs :
    r.client = client[n] => r \in doc[n].runs /\ r.clock < clock[n]

RunsNamed ==
  \A d, e \in Docs : \A p \in d.runs, r \in e.runs :
    p.client = r.client /\ p.clock = r.clock => p = r

EarlierRunsDead ==
  \A d, e \in Docs : \A r \in d.runs, p \in e.runs :
    SameWriter(p, r) /\ p.clock < r.clock => p \in d.dead

WriterHistory ==
  ClientsDistinct /\ ClientsUsed /\ OwnRunsHeld /\ RunsNamed /\ EarlierRunsDead

\* A key that was ever written on a node reads as some value there: merging
\* never lets concurrent overwrites delete each other and leave it blank.
NeverBlank ==
  \A n \in alive, k \in Keys : Texts(doc[n], k) # {} => Visible(doc[n], k) # {}

\* A saved document is only ever replaced by one that contains it, so a
\* restart, at any point of the gossip, forgets nothing that was saved; the
\* exception is a process that could not read what was there: it saves what
\* it has, and what only the disk had is gone.
SavedStateGrows ==
  [][\A n \in Nodes : Contains(disk'[n], disk[n]) \/ n \in blind]_vars

\* A run that a running node holds but no longer shows (overwritten, or in a
\* text that lost its key) is never shown by that process again, however
\* stale the documents are that reach it later.
OverwrittenStaysGone ==
  [][\A n \in alive \cap alive', k \in Keys :
       (Visible(doc[n], k)' \cap doc[n].runs) \subseteq Visible(doc[n], k)]_vars

\* Once every node runs and stays up, all documents become and remain equal.
Converges ==
  <>[](alive = Nodes) => <>[](\A n, m \in Nodes : doc[n] = doc[m])
=============================================================================
