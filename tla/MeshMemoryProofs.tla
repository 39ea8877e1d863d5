-------------------------- MODULE MeshMemoryProofs --------------------------
(***************************************************************************)
(* Proofs about MeshMemory for any nodes, keys, values, client ids and     *)
(* bounds: type correctness, that a reader sees at most one run of each    *)
(* writer and never a blank key, that saving forgets nothing, and that     *)
(* what was overwritten is not shown again.                                *)
(***************************************************************************)
EXTENDS MeshMemory, WellFoundedInduction, TLAPS

\* A nonempty set of natural numbers has a least element.
LEMMA Least ==
  ASSUME NEW S \in SUBSET Nat, S # {}
  PROVE  \E g \in S : \A h \in S : g <= h
<1>1. PICK g \in S : \A h \in S : ~ (<<h, g>> \in OpToRel(<, Nat))
  BY WFMin, NatLessThanWellFounded
<1>2. \A h \in S : g <= h
  <2> SUFFICES ASSUME NEW h \in S, h < g PROVE FALSE
    OBVIOUS
  <2>1. <<h, g>> \in Nat \X Nat
    OBVIOUS
  <2>2. <<h, g>> \in OpToRel(<, Nat)
    BY <2>1 DEF OpToRel
  <2> QED BY <2>2, <1>1
<1> QED BY <1>2

\* Client ids are bounded, so any nonempty set of them has a largest.
LEMMA LargestClient ==
  ASSUME NEW T \in SUBSET ClientIds, T # {}
  PROVE  \E t \in T : \A u \in T : u <= t
<1>1. MaxClient \in Nat /\ ClientIds \subseteq 0..MaxClient
  BY ClientAssumption
<1> DEFINE gaps == {MaxClient - t : t \in T}
<1>2. gaps \subseteq Nat /\ gaps # {}
  <2>1. ASSUME NEW t \in T PROVE MaxClient - t \in Nat
    BY <1>1
  <2> QED BY <2>1
<1>3. \E g \in gaps : \A h \in gaps : g <= h
  <2> HIDE DEF gaps
  <2> QED BY <1>2, Least
<1>4. PICK g \in gaps : \A h \in gaps : g <= h
  BY <1>3
<1>5. PICK t \in T : g = MaxClient - t
  BY DEF gaps
<1>6. ASSUME NEW u \in T PROVE u <= t
  <2>1. MaxClient - t <= MaxClient - u
    BY <1>4, <1>5
  <2> QED BY <2>1, <1>1
<1> QED BY <1>6

\* The shown text of a key is the largest that was created for it.
LEMMA WinnerLargest ==
  ASSUME NEW d \in Doc, NEW k \in Keys, Texts(d, k) # {}
  PROVE  Winner(d, k) \in Texts(d, k) /\ \A u \in Texts(d, k) : u <= Winner(d, k)
<1>1. Texts(d, k) \subseteq ClientIds
  BY DEF Texts, Doc, Run
<1>2. \E t \in Texts(d, k) : \A u \in Texts(d, k) : u <= t
  BY <1>1, LargestClient
<1> QED BY <1>2 DEF Winner

\* It was created by a client.
LEMMA WinnerType ==
  ASSUME NEW d \in Doc, NEW k \in Keys, Texts(d, k) # {}
  PROVE  Winner(d, k) \in ClientIds
BY WinnerLargest DEF Texts, Doc, Run

\* insert_text() makes a document out of a document.
LEMMA InsertTextType ==
  ASSUME NEW d \in Doc, NEW c \in ClientIds, NEW i \in Nat, NEW k \in Keys,
         NEW v \in Values \cup {InitialText}
  PROVE  InsertText(d, c, i, k, v) \in Doc
<1>1. NewRun(d, c, i, k, v) \in Run
  BY WinnerType DEF NewRun, Run
<1>2. Visible(d, k) \subseteq Run
  BY DEF Visible, Doc
<1> QED BY <1>1, <1>2 DEF InsertText, Doc

\* apply_update() makes a document out of two.
LEMMA MergeType ==
  ASSUME NEW d \in Doc, NEW e \in Doc
  PROVE  Merge(d, e) \in Doc
BY DEF Merge, Doc

\* A process starts with what its node saved, or with nothing.
LEMMA StartsWith ==
  ASSUME NEW n \in Nodes, NEW c \in ClientIds, Start(n, c)
  PROVE  \E d \in {disk[n], EmptyDoc} : StartWith(n, c, d)
BY DEF Start

\* The type invariant holds initially.
LEMMA TypeInit == Init => TypeOK
<1> SUFFICES ASSUME Init PROVE TypeOK
  OBVIOUS
<1>1. EmptyDoc \in Doc
  BY DEF EmptyDoc, Doc
<1>2. outbox \in [Nodes -> Seq(Write)]
  BY DEF Init
<1>3. client \in [Nodes -> ClientIds \cup {NoClient}] /\ clock \in [Nodes -> Nat]
  BY DEF Init
<1>4. doc \in [Nodes -> Doc] /\ disk \in [Nodes -> Doc]
  BY <1>1 DEF Init
<1>5. alive = {} /\ blind = {} /\ syncs = {} /\ updates = {} /\ used = {} /\ written = {}
  BY DEF Init
<1> QED BY <1>2, <1>3, <1>4, <1>5 DEF TypeOK

\* Writing a value into a running node's document keeps the types.
LEMMA InsertKeepsTypes ==
  ASSUME TypeOK, NEW n \in alive, NEW k \in Keys, NEW v \in Values, Insert(n, k, v)
  PROVE  doc' \in [Nodes -> Doc] /\ clock' \in [Nodes -> Nat]
<1>1. n \in Nodes /\ client[n] \in ClientIds /\ clock[n] \in Nat /\ doc[n] \in Doc
  BY DEF TypeOK
<1>2. InsertText(doc[n], client[n], clock[n], k, v) \in Doc
  BY <1>1, InsertTextType
<1> QED BY <1>1, <1>2 DEF Insert, TypeOK

\* The end of a process keeps the types.
LEMMA VanishKeepsTypes ==
  ASSUME TypeOK, NEW n \in Nodes, Vanish(n), disk' \in [Nodes -> Doc]
  PROVE  TypeOK'
<1>1. doc' \in [Nodes -> Doc]
  BY DEF Vanish, TypeOK, EmptyDoc, Doc
<1>2. outbox' \in [Nodes -> Seq(Write)]
  BY DEF Vanish, TypeOK
<1>3. syncs' \subseteq Sync /\ updates' \subseteq KnowledgeUpdate
  BY DEF Vanish, TypeOK
<1>4. /\ alive' = alive \ {n} /\ blind' = blind \ {n} /\ UNCHANGED <<used, written>>
      /\ client' = [client EXCEPT ![n] = NoClient] /\ clock' = [clock EXCEPT ![n] = 0]
  BY DEF Vanish
<1>6. /\ client' \in [Nodes -> ClientIds \cup {NoClient}] /\ clock' \in [Nodes -> Nat]
      /\ \A m \in alive' : client'[m] \in ClientIds
  BY <1>4 DEF TypeOK
<1>5. \A m \in syncs' \cup updates' : m.to \in alive'
  BY DEF Vanish, TypeOK
<1> QED BY <1>1, <1>2, <1>3, <1>4, <1>5, <1>6 DEF TypeOK

\* Every step keeps the types.
LEMMA TypeNext == TypeOK /\ [Next]_vars => TypeOK'
<1> SUFFICES ASSUME TypeOK, [Next]_vars PROVE TypeOK'
  OBVIOUS
<1>1. ASSUME NEW n \in Nodes, NEW c \in ClientIds, Start(n, c) PROVE TypeOK'
  <2>1. PICK d \in {disk[n], EmptyDoc} : StartWith(n, c, d)
    BY <1>1, StartsWith
  <2>2. doc' \in [Nodes -> Doc]
    <3>1. EmptyDoc \in Doc /\ disk[n] \in Doc
      BY DEF EmptyDoc, Doc, TypeOK
    <3>2. InsertText(d, c, 0, NoteKey, InitialText) \in Doc
      BY <3>1, InsertTextType, KeyAssumption
    <3> QED BY <2>1, <3>2 DEF StartWith, TypeOK
  <2>3. client' \in [Nodes -> ClientIds \cup {NoClient}] /\ clock' \in [Nodes -> Nat]
    BY <2>1 DEF StartWith, TypeOK
  <2>4. alive' = alive \cup {n} /\ used' = used \cup {c}
        /\ UNCHANGED <<disk, outbox, syncs, updates, written>>
    BY <2>1 DEF StartWith, netVars
  <2>5. \A m \in alive' : client'[m] \in ClientIds
    BY <2>1, <2>4 DEF StartWith, TypeOK
  <2>6. blind' \subseteq alive'
    BY <1>1, <2>4 DEF Start, TypeOK
  <2> QED BY <2>2, <2>3, <2>4, <2>5, <2>6 DEF TypeOK
<1>2. ASSUME NEW n \in Nodes, Shutdown(n) PROVE TypeOK'
  <2>1. disk' \in [Nodes -> Doc]
    BY <1>2 DEF Shutdown, TypeOK
  <2> QED BY <1>2, <2>1, VanishKeepsTypes DEF Shutdown
<1>3. ASSUME NEW n \in Nodes, Crash(n) PROVE TypeOK'
  <2>1. disk' \in [Nodes -> Doc]
    BY <1>3 DEF Crash, TypeOK
  <2> QED BY <1>3, <2>1, VanishKeepsTypes DEF Crash
<1>4. ASSUME NEW n \in Nodes, NEW k \in Keys, NEW v \in Values,
             BridgeWrite(n, k, v) \/ BridgeBroadcast(n, k, v)
      PROVE  TypeOK'
  <2>1. outbox' \in [Nodes -> Seq(Write)]
    <3>1. [key |-> k, val |-> v] \in Write
      BY DEF Write
    <3>2. Append(outbox[n], [key |-> k, val |-> v]) \in Seq(Write)
      BY <3>1 DEF TypeOK
    <3> QED BY <1>4, <3>2 DEF BridgeWrite, BridgeBroadcast, TypeOK
  <2>2. doc' \in [Nodes -> Doc] /\ clock' \in [Nodes -> Nat]
    BY <1>4, InsertKeepsTypes DEF BridgeWrite, BridgeBroadcast, TypeOK
  <2>3. UNCHANGED <<alive, client, used, disk, blind, syncs, updates>> /\ written' = written \cup {v}
    BY <1>4 DEF BridgeWrite, BridgeBroadcast, diskVars, netVars
  <2> QED BY <2>1, <2>2, <2>3 DEF TypeOK
<1>5. ASSUME NEW n \in Nodes, NEW R \in SUBSET Nodes, PublishUpdate(n, R) PROVE TypeOK'
  <2>1. outbox[n] \in Seq(Write) /\ outbox[n] # <<>>
    BY <1>5 DEF PublishUpdate, TypeOK
  <2>2. Head(outbox[n]) \in Write /\ Tail(outbox[n]) \in Seq(Write)
    BY <2>1
  <2>3. outbox' \in [Nodes -> Seq(Write)]
    BY <1>5, <2>2 DEF PublishUpdate, TypeOK
  <2>4. updates' \subseteq KnowledgeUpdate /\ \A u \in updates' : u.to \in alive
    BY <1>5, <2>2 DEF PublishUpdate, TypeOK, KnowledgeUpdate, Write
  <2>5. UNCHANGED <<alive, client, used, written, clock, doc, disk, blind, syncs>>
    BY <1>5 DEF PublishUpdate, diskVars, idVars
  <2> QED BY <2>3, <2>4, <2>5 DEF TypeOK
<1>6. ASSUME NEW n \in Nodes, NEW R \in SUBSET Nodes, Tick(n, R) PROVE TypeOK'
  <2>1. syncs' \subseteq Sync /\ \A s \in syncs' : s.to \in alive
    BY <1>6 DEF Tick, TypeOK, Sync
  <2>2. UNCHANGED <<alive, client, used, written, clock, doc, disk, blind, outbox, updates>>
    BY <1>6 DEF Tick, diskVars, idVars
  <2> QED BY <2>1, <2>2 DEF TypeOK
<1>7. ASSUME NEW s \in syncs, DeliverSync(s) PROVE TypeOK'
  <2>1. s.to \in Nodes /\ s.doc \in Doc
    BY DEF TypeOK, Sync
  <2>2. Merge(doc[s.to], s.doc) \in Doc
    BY <2>1, MergeType DEF TypeOK
  <2>3. doc' \in [Nodes -> Doc]
    BY <1>7, <2>1, <2>2 DEF DeliverSync, TypeOK
  <2>4. UNCHANGED <<alive, client, used, written, clock, disk, blind, outbox, updates>>
        /\ syncs' \subseteq syncs
    BY <1>7 DEF DeliverSync, diskVars, idVars
  <2> QED BY <2>3, <2>4 DEF TypeOK
<1>8. ASSUME NEW u \in updates, DeliverUpdate(u) PROVE TypeOK'
  <2>1. u.key \in Keys /\ u.val \in Values /\ u.to \in alive
    BY DEF TypeOK, KnowledgeUpdate
  <2>2. doc' \in [Nodes -> Doc] /\ clock' \in [Nodes -> Nat]
    BY <1>8, <2>1, InsertKeepsTypes DEF DeliverUpdate
  <2>3. UNCHANGED <<alive, client, used, written, disk, blind, outbox, syncs>>
        /\ updates' \subseteq updates
    BY <1>8 DEF DeliverUpdate, diskVars, idVars
  <2> QED BY <2>2, <2>3 DEF TypeOK
<1>9. CASE UNCHANGED vars
  BY <1>9 DEF TypeOK, vars
<1> QED
  BY <1>1, <1>2, <1>3, <1>4, <1>5, <1>6, <1>7, <1>8, <1>9 DEF Next, NodeStep

\* Type correctness: every reachable state has the types TypeOK gives.
THEOREM Typed == Spec => []TypeOK
<1> QED BY TypeInit, TypeNext, PTL DEF Spec

-----------------------------------------------------------------------------
\* In memory, saved or on its way, a document is a document.
LEMMA DocsType == TypeOK => Docs \subseteq Doc
BY DEF TypeOK, Docs, Sync

\* A step that writes nothing keeps the history: it may end processes, drop or
\* add copies of existing documents, and empty documents.
LEMMA QuietStep ==
  ASSUME WriterHistory, Docs' \subseteq Docs \cup {EmptyDoc}, alive' \subseteq alive,
         used' = used,
         \A n \in alive' : doc'[n] = doc[n] /\ client'[n] = client[n] /\ clock'[n] = clock[n]
  PROVE  WriterHistory'
<1>1. \A d \in Docs' : d \in Docs \/ (d.runs = {} /\ d.dead = {})
  BY DEF EmptyDoc
<1>2. ClientsDistinct'
  BY DEF WriterHistory, ClientsDistinct
<1>3. ClientsUsed'
  BY <1>1 DEF WriterHistory, ClientsUsed
<1>4. OwnRunsHeld'
  BY <1>1 DEF WriterHistory, OwnRunsHeld
<1>5. RunsNamed'
  BY <1>1 DEF WriterHistory, RunsNamed
<1>6. EarlierRunsDead'
  BY <1>1 DEF WriterHistory, EarlierRunsDead
<1> QED BY <1>2, <1>3, <1>4, <1>5, <1>6 DEF WriterHistory

\* A step in which one running node integrates an existing document.
LEMMA MergeStep ==
  ASSUME TypeOK, WriterHistory, NEW m \in alive, NEW e \in Docs,
         doc' = [doc EXCEPT ![m] = Merge(@, e)],
         Docs' \subseteq Docs \cup {Merge(doc[m], e)},
         UNCHANGED <<alive, client, clock, used>>
  PROVE  WriterHistory'
<1> DEFINE D == Merge(doc[m], e)
<1>1. doc[m] \in Docs /\ m \in Nodes
  BY DEF Docs, TypeOK
<1>2. /\ \A r \in D.runs : r \in doc[m].runs \/ r \in e.runs
      /\ doc[m].runs \subseteq D.runs /\ doc[m].dead \subseteq D.dead
      /\ e.dead \subseteq D.dead
  BY DEF Merge
<1>3. \A n \in alive : doc[n].runs \subseteq doc'[n].runs
  BY <1>2 DEF TypeOK
<1>4. \A d \in Docs' : \A r \in d.runs : \E b \in Docs : r \in b.runs /\ b.dead \subseteq d.dead
  <2> SUFFICES ASSUME NEW d \in Docs', NEW r \in d.runs
               PROVE  \E b \in Docs : r \in b.runs /\ b.dead \subseteq d.dead
    OBVIOUS
  <2>1. CASE d \in Docs
    BY <2>1
  <2>2. CASE d = D
    BY <2>2, <1>1, <1>2
  <2> QED BY <2>1, <2>2
<1> HIDE DEF D
<1>5. ClientsDistinct'
  BY DEF WriterHistory, ClientsDistinct
<1>6. ClientsUsed'
  BY <1>4 DEF WriterHistory, ClientsUsed
<1>7. OwnRunsHeld'
  BY <1>3, <1>4 DEF WriterHistory, OwnRunsHeld
<1>8. RunsNamed'
  BY <1>4 DEF WriterHistory, RunsNamed
<1>9. EarlierRunsDead'
  BY <1>4 DEF WriterHistory, EarlierRunsDead
<1> QED BY <1>5, <1>6, <1>7, <1>8, <1>9 DEF WriterHistory

\* What insert_text() adds to a document and what it removes.
LEMMA InsertTextEffect ==
  ASSUME NEW d \in Doc, NEW c \in ClientIds, NEW i \in Nat, NEW k \in Keys,
         NEW v \in Values \cup {InitialText}, NEW D, D = InsertText(d, c, i, k, v),
         NEW r, r = NewRun(d, c, i, k, v)
  PROVE  /\ D.runs = d.runs \cup {r} /\ d.dead \subseteq D.dead
         /\ r.client = c /\ r.clock = i /\ r.key = k
         /\ \A p \in d.runs : p.key = k /\ p.text = r.text => p \in D.dead
<1>1. D.runs = d.runs \cup {r} /\ D.dead = d.dead \cup Visible(d, k)
  BY DEF InsertText
<1>2. r.client = c /\ r.clock = i /\ r.key = k
  BY DEF NewRun
<1>3. ASSUME NEW p \in d.runs, p.key = k, p.text = r.text PROVE p \in D.dead
  <2>1. Texts(d, k) # {}
    BY <1>3 DEF Texts
  <2>2. p.text = Winner(d, k)
    BY <1>3, <2>1 DEF NewRun
  <2> QED BY <1>1, <1>3, <2>2 DEF Visible
<1> QED BY <1>1, <1>2, <1>3

\* A step in which one running node writes a run of its own.
LEMMA InsertStep ==
  ASSUME TypeOK, WriterHistory, NEW n \in alive, NEW k \in Keys,
         NEW v \in Values, Insert(n, k, v),
         UNCHANGED <<alive, client, used, disk, syncs>>
  PROVE  WriterHistory'
<1> DEFINE D == InsertText(doc[n], client[n], clock[n], k, v)
<1> DEFINE r == NewRun(doc[n], client[n], clock[n], k, v)
<1>1. n \in Nodes /\ client[n] \in ClientIds /\ clock[n] \in Nat /\ doc[n] \in Doc
  BY DEF TypeOK
<1>2. doc[n] \in Docs
  BY <1>1 DEF Docs
<1>3. /\ D.runs = doc[n].runs \cup {r} /\ doc[n].dead \subseteq D.dead
      /\ r.client = client[n] /\ r.clock = clock[n] /\ r.key = k
      /\ \A p \in doc[n].runs : p.key = k /\ p.text = r.text => p \in D.dead
  BY <1>1, InsertTextEffect
<1> HIDE DEF r
<1>4. doc' = [doc EXCEPT ![n] = D] /\ clock' = [clock EXCEPT ![n] = clock[n] + 1]
  BY DEF Insert
<1>5. Docs' \subseteq Docs \cup {D}
  BY <1>4 DEF Docs, TypeOK
<1>6. doc'[n] = D /\ clock'[n] = clock[n] + 1
      /\ \A m \in alive : m # n => doc'[m] = doc[m] /\ clock'[m] = clock[m]
  BY <1>1, <1>4 DEF TypeOK
<1>c. \A d \in Docs : \A p \in d.runs : p.clock \in Nat
  BY DocsType DEF Doc, Run
<1> HIDE DEF D
<1>7. ClientsDistinct'
  BY DEF WriterHistory, ClientsDistinct
<1>8. ClientsUsed'
  BY <1>2, <1>3, <1>5 DEF WriterHistory, ClientsUsed
<1>9. OwnRunsHeld'
  <2> SUFFICES ASSUME NEW m \in alive, NEW d \in Docs', NEW p \in d.runs,
                      p.client = client[m]
               PROVE  p \in doc'[m].runs /\ p.clock < clock'[m]
    BY DEF OwnRunsHeld
  <2>1. CASE p = r
    <3>1. m = n
      BY <2>1, <1>3 DEF WriterHistory, ClientsDistinct
    <3> QED BY <3>1, <2>1, <1>1, <1>3, <1>6
  <2>2. CASE p # r
    <3>1. \E b \in Docs : p \in b.runs
      BY <2>2, <1>2, <1>3, <1>5
    <3>2. p \in doc[m].runs /\ p.clock < clock[m]
      BY <3>1 DEF WriterHistory, OwnRunsHeld
    <3>3. p.clock \in Nat
      BY <3>1, <1>c
    <3> QED BY <3>2, <3>3, <1>1, <1>3, <1>6
  <2> QED BY <2>1, <2>2
<1>10. \A d \in Docs' : \A p \in d.runs :
         p = r \/ \E b \in Docs : p \in b.runs /\ b.dead \subseteq d.dead
  BY <1>2, <1>3, <1>5
<1>11. \A d \in Docs : \A p \in d.runs : p.client = r.client => p \in doc[n].runs /\ p.clock < r.clock
  BY <1>3 DEF WriterHistory, OwnRunsHeld
<1>12. RunsNamed'
  <2> SUFFICES ASSUME NEW d \in Docs', NEW e \in Docs', NEW p \in d.runs, NEW q \in e.runs,
                      p.client = q.client, p.clock = q.clock
               PROVE  p = q
    BY DEF RunsNamed
  <2>1. CASE p = r
    BY <2>1, <1>1, <1>3, <1>10, <1>11
  <2>2. CASE q = r
    BY <2>2, <1>1, <1>3, <1>10, <1>11
  <2>3. CASE p # r /\ q # r
    BY <2>3, <1>10 DEF WriterHistory, RunsNamed
  <2> QED BY <2>1, <2>2, <2>3
<1>13. EarlierRunsDead'
  <2> SUFFICES ASSUME NEW d \in Docs', NEW e \in Docs', NEW q \in d.runs, NEW p \in e.runs,
                      SameWriter(p, q), p.clock < q.clock
               PROVE  p \in d.dead
    BY DEF EarlierRunsDead
  <2>1. CASE p = r
    <3>1. q # r
      BY <2>1, <1>1, <1>3
    <3>2. q.clock < r.clock /\ q.clock \in Nat
      BY <3>1, <2>1, <1>10, <1>11, <1>c DEF SameWriter
    <3> QED BY <3>2, <2>1, <1>1, <1>3
  <2>2. CASE p # r /\ q = r
    <3>1. p \in doc[n].runs
      BY <2>2, <1>10, <1>11 DEF SameWriter
    <3>2. p \in D.dead
      BY <3>1, <2>2, <1>3 DEF SameWriter
    <3>3. d = D
      BY <2>2, <1>1, <1>3, <1>5, <1>11
    <3> QED BY <3>2, <3>3
  <2>3. CASE p # r /\ q # r
    BY <2>3, <1>10 DEF WriterHistory, EarlierRunsDead
  <2> QED BY <2>1, <2>2, <2>3
<1> QED BY <1>7, <1>8, <1>9, <1>12, <1>13 DEF WriterHistory

\* A node starts: a client id nobody has used writes the initial text into
\* the document the node had saved, or into an empty one.
LEMMA StartStep ==
  ASSUME TypeOK, WriterHistory, NEW n \in Nodes, NEW c \in ClientIds,
         NEW d0 \in {disk[n], EmptyDoc}, StartWith(n, c, d0)
  PROVE  WriterHistory'
<1> DEFINE D == InsertText(d0, c, 0, NoteKey, InitialText)
<1> DEFINE r == NewRun(d0, c, 0, NoteKey, InitialText)
<1>1. d0 \in Doc /\ (d0 \in Docs \/ d0.runs = {})
  BY DEF TypeOK, Docs, EmptyDoc, Doc
<1>2. /\ D.runs = d0.runs \cup {r} /\ d0.dead \subseteq D.dead
      /\ r.client = c /\ r.clock = 0
  BY <1>1, InsertTextEffect, KeyAssumption
<1> HIDE DEF r
<1>3. doc' = [doc EXCEPT ![n] = D] /\ clock' = [clock EXCEPT ![n] = 1]
      /\ client' = [client EXCEPT ![n] = c] /\ alive' = alive \cup {n}
      /\ used' = used \cup {c} /\ UNCHANGED <<disk, syncs>>
      /\ n \notin alive /\ c \notin used
  BY DEF StartWith, netVars
<1> HIDE DEF D
<1>4. Docs' \subseteq Docs \cup {D}
  BY <1>3 DEF Docs, TypeOK
<1>5. /\ doc'[n] = D /\ clock'[n] = 1 /\ client'[n] = c
      /\ \A m \in alive : doc'[m] = doc[m] /\ clock'[m] = clock[m] /\ client'[m] = client[m]
  BY <1>3 DEF TypeOK
<1>6. \A d \in Docs' : \A p \in d.runs :
         p = r \/ \E b \in Docs : p \in b.runs /\ b.dead \subseteq d.dead
  BY <1>1, <1>2, <1>4
<1>7. \A d \in Docs : \A p \in d.runs : p.client # c
  BY <1>3 DEF WriterHistory, ClientsUsed
<1>8. \A m \in alive : client[m] # c
  BY <1>3 DEF WriterHistory, ClientsUsed
<1>9. ClientsDistinct'
  BY <1>3, <1>5, <1>8 DEF WriterHistory, ClientsDistinct
<1>10. ClientsUsed'
  BY <1>2, <1>3, <1>5, <1>6 DEF WriterHistory, ClientsUsed
<1>11. OwnRunsHeld'
  <2> SUFFICES ASSUME NEW m \in alive', NEW d \in Docs', NEW p \in d.runs,
                      p.client = client'[m]
               PROVE  p \in doc'[m].runs /\ p.clock < clock'[m]
    BY DEF OwnRunsHeld
  <2>1. CASE m = n
    BY <2>1, <1>2, <1>5, <1>6, <1>7
  <2>2. CASE m # n
    BY <2>2, <1>2, <1>3, <1>5, <1>6, <1>8 DEF WriterHistory, OwnRunsHeld
  <2> QED BY <2>1, <2>2
<1>12. RunsNamed'
  BY <1>2, <1>6, <1>7 DEF WriterHistory, RunsNamed
<1>13. EarlierRunsDead'
  <2> SUFFICES ASSUME NEW d \in Docs', NEW e \in Docs', NEW q \in d.runs, NEW p \in e.runs,
                      SameWriter(p, q), p.clock < q.clock
               PROVE  p \in d.dead
    BY DEF EarlierRunsDead
  <2>1. CASE p = r \/ q = r
    BY <2>1, <1>2, <1>6, <1>7 DEF SameWriter
  <2>2. CASE p # r /\ q # r
    BY <2>2, <1>6 DEF WriterHistory, EarlierRunsDead
  <2> QED BY <2>1, <2>2
<1> QED BY <1>9, <1>10, <1>11, <1>12, <1>13 DEF WriterHistory

\* Nothing has been written initially.
LEMMA HistoryInit == Init => WriterHistory
BY DEF Init, WriterHistory, ClientsDistinct, ClientsUsed, OwnRunsHeld, RunsNamed,
       EarlierRunsDead, Docs, EmptyDoc

\* Every step keeps the history.
LEMMA HistoryNext == TypeOK /\ WriterHistory /\ [Next]_vars => WriterHistory'
<1> SUFFICES ASSUME TypeOK, WriterHistory, [Next]_vars PROVE WriterHistory'
  OBVIOUS
<1>1. ASSUME NEW n \in Nodes, NEW c \in ClientIds, Start(n, c) PROVE WriterHistory'
  BY <1>1, StartsWith, StartStep
<1>2. ASSUME NEW n \in Nodes, Shutdown(n) \/ Crash(n) PROVE WriterHistory'
  <2>1. Docs' \subseteq Docs \cup {EmptyDoc}
    BY <1>2 DEF Shutdown, Crash, Vanish, Docs, TypeOK
  <2>2. alive' \subseteq alive /\ n \notin alive' /\ used' = used
    BY <1>2 DEF Shutdown, Crash, Vanish
  <2>3. \A m \in alive' : doc'[m] = doc[m] /\ client'[m] = client[m] /\ clock'[m] = clock[m]
    BY <1>2, <2>2 DEF Shutdown, Crash, Vanish, TypeOK
  <2> QED BY <2>1, <2>2, <2>3, QuietStep
<1>3. ASSUME NEW n \in Nodes, NEW k \in Keys, NEW v \in Values, BridgeWrite(n, k, v)
      PROVE  WriterHistory'
  <2>1. n \in alive /\ Insert(n, k, v) /\ UNCHANGED <<alive, client, used, disk, syncs>>
    BY <1>3 DEF BridgeWrite, diskVars, netVars
  <2> QED BY <2>1, InsertStep
<1>4. ASSUME UNCHANGED <<alive, client, clock, used, doc, disk>>,
             Docs' \subseteq Docs
      PROVE  WriterHistory'
  BY <1>4, QuietStep
<1>5. ASSUME NEW n \in Nodes, NEW k \in Keys, NEW v \in Values, BridgeBroadcast(n, k, v)
      PROVE  WriterHistory'
  BY <1>4, <1>5 DEF BridgeBroadcast, Docs, diskVars, netVars
<1>6. ASSUME NEW n \in Nodes, NEW R \in SUBSET Nodes, PublishUpdate(n, R)
      PROVE  WriterHistory'
  BY <1>4, <1>6 DEF PublishUpdate, Docs, diskVars, idVars
<1>7. ASSUME NEW n \in Nodes, NEW R \in SUBSET Nodes, Tick(n, R) PROVE WriterHistory'
  <2>1. Docs' \subseteq Docs
    BY <1>7 DEF Tick, Docs, diskVars
  <2> QED BY <1>4, <1>7, <2>1 DEF Tick, diskVars, idVars
<1>8. ASSUME NEW s \in syncs, DeliverSync(s) PROVE WriterHistory'
  <2>1. s.to \in alive /\ s.doc \in Docs
    BY DEF TypeOK, Docs
  <2>2. doc' = [doc EXCEPT ![s.to] = Merge(@, s.doc)]
        /\ UNCHANGED <<alive, client, clock, used, disk>> /\ syncs' \subseteq syncs
    BY <1>8 DEF DeliverSync, diskVars, idVars
  <2>3. Docs' \subseteq Docs \cup {Merge(doc[s.to], s.doc)}
    BY <2>2 DEF Docs, TypeOK
  <2> QED BY <2>1, <2>2, <2>3, MergeStep
<1>9. ASSUME NEW u \in updates, DeliverUpdate(u) PROVE WriterHistory'
  <2>1. u.to \in alive /\ u.key \in Keys /\ u.val \in Values
    BY DEF TypeOK, KnowledgeUpdate
  <2>2. Insert(u.to, u.key, u.val) /\ UNCHANGED <<alive, client, used, disk, syncs>>
    BY <1>9 DEF DeliverUpdate, diskVars, idVars
  <2> QED BY <2>1, <2>2, InsertStep
<1>10. CASE UNCHANGED vars
  BY <1>4, <1>10 DEF vars, Docs
<1> QED
  BY <1>1, <1>2, <1>3, <1>5, <1>6, <1>7, <1>8, <1>9, <1>10 DEF Next, NodeStep

\* The history makes a second visible run of one writer impossible.
LEMMA HistoryImpliesOneRun == TypeOK /\ WriterHistory => OneRunPerWriter
<1> SUFFICES ASSUME TypeOK, WriterHistory, NEW n \in alive, NEW k \in Keys,
                    NEW r1 \in Visible(doc[n], k), NEW r2 \in Visible(doc[n], k),
                    r1.client = r2.client
             PROVE  r1 = r2
  BY DEF OneRunPerWriter
<1>1. doc[n] \in Docs /\ doc[n] \in Doc
  BY DEF Docs, TypeOK
<1>2. r1 \in doc[n].runs \ doc[n].dead /\ r2 \in doc[n].runs \ doc[n].dead
      /\ SameWriter(r1, r2) /\ SameWriter(r2, r1)
  BY DEF Visible, SameWriter
<1>3. r1.clock \in Nat /\ r2.clock \in Nat
  BY <1>1, <1>2 DEF Doc, Run
<1>4. ~ (r1.clock < r2.clock) /\ ~ (r2.clock < r1.clock)
  BY <1>1, <1>2 DEF WriterHistory, EarlierRunsDead
<1> QED BY <1>1, <1>2, <1>3, <1>4 DEF WriterHistory, RunsNamed

\* On every node, in every key, a reader sees at most one run of each writer,
\* for any number of nodes, restarts, crashes, lost and reordered messages.
THEOREM OneRun == Spec => []OneRunPerWriter
<1>1. Init => TypeOK /\ WriterHistory
  BY TypeInit, HistoryInit
<1>2. TypeOK /\ WriterHistory /\ [Next]_vars => (TypeOK /\ WriterHistory)'
  BY TypeNext, HistoryNext
<1>3. TypeOK /\ WriterHistory => OneRunPerWriter
  BY HistoryImpliesOneRun
<1> QED BY <1>1, <1>2, <1>3, PTL DEF Spec

\* The strengthening itself holds in every reachable state.
THEOREM History == Spec => []WriterHistory
<1>1. Init => TypeOK /\ WriterHistory
  BY TypeInit, HistoryInit
<1>2. TypeOK /\ WriterHistory /\ [Next]_vars => (TypeOK /\ WriterHistory)'
  BY TypeNext, HistoryNext
<1> QED BY <1>1, <1>2, PTL DEF Spec

-----------------------------------------------------------------------------
\* Saving never forgets, unless loading failed.  A running node's document
\* contains what the node has saved, if the process could read that.
DiskHeld == \A n \in alive : Contains(doc[n], disk[n]) \/ n \in blind

\* The document of such a node contains what the node loaded or saved.
LEMMA DiskHeldNext ==
  TypeOK /\ DiskHeld /\ [Next]_vars
    => DiskHeld' /\ \A n \in Nodes : Contains(disk'[n], disk[n]) \/ n \in blind
<1> DEFINE Grows == \A n \in Nodes : Contains(disk'[n], disk[n]) \/ n \in blind
           Goal == DiskHeld' /\ Grows
<1> SUFFICES ASSUME TypeOK, DiskHeld, [Next]_vars
             PROVE  Goal
  OBVIOUS
<1>1. ASSUME NEW n \in Nodes, NEW c \in ClientIds, Start(n, c) PROVE Goal
  <2>1. PICK d \in {disk[n], EmptyDoc} : StartWith(n, c, d)
    BY <1>1, StartsWith
  <2>2. disk' = disk /\ alive' = alive \cup {n} /\ n \notin alive
    BY <2>1 DEF StartWith
  <2>3. blind \subseteq blind' /\ (Contains(doc'[n], disk[n]) \/ n \in blind')
    BY <1>1 DEF Start, StartWith, Contains, InsertText, TypeOK
  <2>4. \A m \in alive : m # n => doc'[m] = doc[m]
    BY <2>1 DEF StartWith, TypeOK
  <2> QED BY <2>2, <2>3, <2>4 DEF DiskHeld, Contains
<1>2. ASSUME NEW n \in Nodes, Shutdown(n) \/ Crash(n) PROVE Goal
  <2>1. alive' = alive \ {n} /\ blind' = blind \ {n} /\ n \in alive
        /\ \A m \in alive' : doc'[m] = doc[m]
    BY <1>2 DEF Shutdown, Crash, Vanish, TypeOK
  <2>2. disk' = disk \/ disk' = [disk EXCEPT ![n] = doc[n]]
    BY <1>2 DEF Shutdown, Crash
  <2> QED BY <2>1, <2>2 DEF DiskHeld, Contains, TypeOK
<1>3. ASSUME NEW n \in alive, NEW e, disk' = disk, alive' = alive, blind' = blind, Contains(e, doc[n]),
             doc' = [doc EXCEPT ![n] = e]
      PROVE  Goal
  BY <1>3 DEF DiskHeld, Contains, TypeOK
<1>4. ASSUME NEW n \in Nodes, NEW k \in Keys, NEW v \in Values, BridgeWrite(n, k, v)
      PROVE  Goal
  BY <1>3, <1>4 DEF BridgeWrite, diskVars, Insert, InsertText, Contains
<1>5. ASSUME UNCHANGED <<disk, blind, doc, alive>> PROVE Goal
  BY <1>5 DEF DiskHeld, Contains
<1>6. ASSUME NEW n \in Nodes, NEW k \in Keys, NEW v \in Values, BridgeBroadcast(n, k, v)
      PROVE  Goal
  BY <1>5, <1>6 DEF BridgeBroadcast, diskVars
<1>7. ASSUME NEW n \in Nodes, NEW R \in SUBSET Nodes, PublishUpdate(n, R) \/ Tick(n, R)
      PROVE  Goal
  BY <1>5, <1>7 DEF PublishUpdate, Tick, diskVars
<1>8. ASSUME NEW s \in syncs, DeliverSync(s) PROVE Goal
  BY <1>3, <1>8 DEF DeliverSync, diskVars, Merge, Contains, TypeOK
<1>9. ASSUME NEW u \in updates, DeliverUpdate(u) PROVE Goal
  BY <1>3, <1>9 DEF DeliverUpdate, diskVars, Insert, InsertText, Contains, TypeOK
<1>10. CASE UNCHANGED vars
  BY <1>5, <1>10 DEF vars
<1> QED
  BY <1>1, <1>2, <1>4, <1>6, <1>7, <1>8, <1>9, <1>10 DEF Next, NodeStep

\* A saved document is only ever replaced by one that contains it, unless the
\* process that replaces it could not read it.
THEOREM SavedGrows == Spec => SavedStateGrows
<1>1. Init => TypeOK /\ DiskHeld
  BY TypeInit DEF Init, DiskHeld
<1>2. TypeOK /\ DiskHeld /\ [Next]_vars => (TypeOK /\ DiskHeld)'
  BY TypeNext, DiskHeldNext
<1>3. TypeOK /\ DiskHeld /\ [Next]_vars
        => [\A n \in Nodes : Contains(disk'[n], disk[n]) \/ n \in blind]_vars
  BY DiskHeldNext
<1> QED BY <1>1, <1>2, <1>3, PTL DEF Spec, SavedStateGrows
-----------------------------------------------------------------------------
(* Why a key is never blank: all runs ever written can be ranked so that   *)
(* every document that holds a run as deleted holds a later run of the     *)
(* same text.  The last run of a text is then shown wherever it is held,   *)
(* and a merge of concurrent overwrites keeps the last of both.            *)
DocRanked(d, rank, top) ==
  /\ d.dead \subseteq d.runs
  /\ \A r \in d.runs : rank[r] < top
  /\ \A r \in d.dead : \E s \in d.runs :
       s.key = r.key /\ s.text = r.text /\ rank[r] < rank[s]

Ranked == \E top \in Nat, rank \in [Run -> Nat] : \A d \in Docs : DocRanked(d, rank, top)

\* Of runs of bounded ranks one has the highest.
LEMMA HighestRun ==
  ASSUME NEW S \in SUBSET Run, S # {}, NEW top \in Nat, NEW rank \in [Run -> Nat],
         \A r \in S : rank[r] < top
  PROVE  \E m \in S : \A r \in S : rank[r] <= rank[m]
<1> DEFINE gaps == {top - rank[r] : r \in S}
<1>1. gaps \subseteq Nat /\ gaps # {}
  <2>1. ASSUME NEW r \in S PROVE top - rank[r] \in Nat
    <3>1. rank[r] \in Nat /\ rank[r] < top
      OBVIOUS
    <3> QED BY <3>1
  <2> QED BY <2>1
<1>2. \E g \in gaps : \A h \in gaps : g <= h
  <2> HIDE DEF gaps
  <2> QED BY <1>1, Least
<1>3. PICK g \in gaps : \A h \in gaps : g <= h
  BY <1>2
<1>4. PICK m \in S : g = top - rank[m]
  BY DEF gaps
<1>5. ASSUME NEW r \in S PROVE rank[r] <= rank[m]
  <2>1. top - rank[m] <= top - rank[r]
    BY <1>3, <1>4
  <2>2. rank[m] \in Nat /\ rank[r] \in Nat
    OBVIOUS
  <2> QED BY <2>1, <2>2
<1> QED BY <1>5

\* A key that has a text shows a run of it.
LEMMA RankedShows ==
  ASSUME NEW d \in Doc, NEW k \in Keys, NEW top \in Nat, NEW rank \in [Run -> Nat],
         DocRanked(d, rank, top), Texts(d, k) # {}
  PROVE  Visible(d, k) # {}
<1> DEFINE S == {r \in d.runs : r.key = k /\ r.text = Winner(d, k)}
<1>4. S # {} /\ S \subseteq Run /\ \A r \in S : rank[r] < top
  BY WinnerLargest DEF Texts, Doc, DocRanked
<1>5. PICK m \in S : \A r \in S : rank[r] <= rank[m]
  <2> HIDE DEF S
  <2> QED BY <1>4, HighestRun
<1>6. m \notin d.dead
  <2> SUFFICES ASSUME m \in d.dead PROVE FALSE
    OBVIOUS
  <2>1. PICK s \in d.runs : s.key = m.key /\ s.text = m.text /\ rank[m] < rank[s]
    BY DEF DocRanked
  <2>2. s \in S /\ rank[s] \in Nat /\ rank[m] \in Nat
    BY <2>1, <1>4 DEF Doc
  <2> QED BY <2>1, <2>2, <1>5
<1> QED BY <1>6 DEF Visible

\* Merging two documents whose runs are ranked keeps a later run of both.
LEMMA MergeRanked ==
  ASSUME NEW d, NEW e, NEW top, NEW rank,
         DocRanked(d, rank, top), DocRanked(e, rank, top)
  PROVE  DocRanked(Merge(d, e), rank, top)
BY DEF DocRanked, Merge

\* A new run takes the highest rank, above all it overwrites.
LEMMA InsertRanked ==
  ASSUME NEW d \in Doc, d \in Docs \cup {EmptyDoc}, TypeOK, Ranked,
         NEW c \in ClientIds, NEW i \in Nat, NEW k \in Keys,
         NEW v \in Values \cup {InitialText},
         NEW D, D = InsertText(d, c, i, k, v),
         \A b \in Docs : \A p \in b.runs : p.client = c => p.clock < i
  PROVE  \E top \in Nat, rank \in [Run -> Nat] :
           \A b \in Docs \cup {D} : DocRanked(b, rank, top)
<1> DEFINE r == NewRun(d, c, i, k, v)
<1>1. PICK top \in Nat, rank \in [Run -> Nat] : \A b \in Docs : DocRanked(b, rank, top)
  BY DEF Ranked
<1> DEFINE rank2 == [rank EXCEPT ![r] = top]
<1>2. r \in Run /\ r.client = c /\ r.clock = i /\ r.key = k
  BY WinnerType DEF NewRun, Run
<1>3. \A p \in Visible(d, k) : p \in d.runs /\ p.key = k /\ p.text = r.text
  BY DEF Visible, NewRun, Texts
<1>4. D.runs = d.runs \cup {r} /\ D.dead = d.dead \cup Visible(d, k)
  BY DEF InsertText
<1> HIDE DEF r
<1>5. rank2 \in [Run -> Nat] /\ rank2[r] = top
  BY <1>1, <1>2
<1>6. ASSUME NEW b \in Docs
      PROVE  r \notin b.runs /\ \A p \in b.runs : rank2[p] = rank[p] /\ rank[p] \in Nat
  <2>1. b.runs \subseteq Run
    BY DocsType DEF Doc
  <2>2. r \notin b.runs
    BY <1>2
  <2> QED BY <2>1, <2>2, <1>1
<1>7. ASSUME NEW b \in Docs PROVE DocRanked(b, rank2, top + 1)
  BY <1>1, <1>6 DEF DocRanked
<1>e. /\ \A p \in d.runs : p \in Run /\ rank2[p] = rank[p] /\ rank[p] < top
      /\ DocRanked(d, rank2, top + 1)
  <2>1. CASE d \in Docs
    BY <2>1, <1>1, <1>6, <1>7 DEF DocRanked, Doc
  <2>2. CASE d = EmptyDoc
    BY <2>2 DEF DocRanked, EmptyDoc
  <2> QED BY <2>1, <2>2
<1>8. DocRanked(D, rank2, top + 1)
  <2>1. \A p \in d.runs : rank2[p] = rank[p] /\ rank[p] \in Nat /\ rank[p] < top
    BY <1>1, <1>e
  <2>2. D.dead \subseteq D.runs
    BY <1>3, <1>4, <1>e DEF DocRanked
  <2>3. \A p \in D.runs : rank2[p] < top + 1
    BY <1>4, <1>5, <2>1
  <2>4. ASSUME NEW p \in D.dead
        PROVE  \E s \in D.runs : s.key = p.key /\ s.text = p.text /\ rank2[p] < rank2[s]
    <3>1. CASE p \in d.dead
      BY <3>1, <1>4, <1>e DEF DocRanked
    <3>2. CASE p \in Visible(d, k)
      BY <3>2, <1>2, <1>3, <1>4, <1>5, <2>1
    <3> QED BY <3>1, <3>2, <1>4
  <2> QED BY <2>2, <2>3, <2>4 DEF DocRanked
<1> HIDE DEF rank2
<1>9. \A b \in Docs \cup {D} : DocRanked(b, rank2, top + 1)
  BY <1>7, <1>8
<1>10. top + 1 \in Nat
  BY <1>1
<1> QED BY <1>5, <1>9, <1>10

\* Every step keeps the runs ranked.
LEMMA RankedNext == TypeOK /\ WriterHistory /\ Ranked /\ [Next]_vars => Ranked'
<1> SUFFICES ASSUME TypeOK, WriterHistory, Ranked, [Next]_vars PROVE Ranked'
  OBVIOUS
<1>1. ASSUME NEW D, Docs' \subseteq Docs \cup {D},
             \E top \in Nat, rank \in [Run -> Nat] :
               \A b \in Docs \cup {D} : DocRanked(b, rank, top)
      PROVE  Ranked'
  BY <1>1 DEF Ranked
<1>2. ASSUME Docs' \subseteq Docs \cup {EmptyDoc} PROVE Ranked'
  <2>1. \A top, rank : DocRanked(EmptyDoc, rank, top)
    BY DEF DocRanked, EmptyDoc
  <2> QED BY <1>1, <1>2, <2>1 DEF Ranked
<1>3. ASSUME NEW n \in alive, NEW k \in Keys, NEW v \in Values, Insert(n, k, v),
             UNCHANGED <<disk, syncs>>
      PROVE  Ranked'
  <2>1. n \in Nodes /\ client[n] \in ClientIds /\ clock[n] \in Nat
        /\ doc[n] \in Doc /\ doc[n] \in Docs
    BY DEF TypeOK, Docs
  <2> DEFINE D == InsertText(doc[n], client[n], clock[n], k, v)
  <2>2. \A b \in Docs : \A p \in b.runs : p.client = client[n] => p.clock < clock[n]
    BY DEF WriterHistory, OwnRunsHeld
  <2>3. Docs' \subseteq Docs \cup {D}
    BY <1>3 DEF Insert, Docs, TypeOK
  <2> DEFINE d == doc[n]
             c == client[n]
             i == clock[n]
  <2>d. /\ D = InsertText(d, c, i, k, v) /\ v \in Values \cup {InitialText}
        /\ d \in Doc /\ d \in Docs /\ c \in ClientIds /\ i \in Nat
        /\ \A b \in Docs : \A p \in b.runs : p.client = c => p.clock < i
    BY <2>1, <2>2
  <2> HIDE DEF D, d, c, i
  <2>4. \E top \in Nat, rank \in [Run -> Nat] :
          \A b \in Docs \cup {D} : DocRanked(b, rank, top)
    BY <2>d, InsertRanked
  <2> QED BY <1>1, <2>3, <2>4
<1>4. ASSUME NEW n \in Nodes, NEW c \in ClientIds, Start(n, c) PROVE Ranked'
  <2>0. PICK d \in {disk[n], EmptyDoc} : StartWith(n, c, d)
    BY <1>4, StartsWith
  <2> DEFINE D == InsertText(d, c, 0, NoteKey, InitialText)
  <2>1. d \in Doc /\ d \in Docs \cup {EmptyDoc} /\ c \notin used
    BY <2>0 DEF TypeOK, Docs, StartWith, EmptyDoc, Doc
  <2>2. \A b \in Docs : \A p \in b.runs : p.client = c => p.clock < 0
    BY <2>1 DEF WriterHistory, ClientsUsed
  <2>3. Docs' \subseteq Docs \cup {D}
    BY <2>0 DEF StartWith, Docs, TypeOK, netVars
  <2>d. D = InsertText(d, c, 0, NoteKey, InitialText)
        /\ InitialText \in Values \cup {InitialText} /\ 0 \in Nat
    OBVIOUS
  <2> HIDE DEF D
  <2>4. \E top \in Nat, rank \in [Run -> Nat] :
          \A b \in Docs \cup {D} : DocRanked(b, rank, top)
    BY <2>1, <2>2, <2>d, InsertRanked, KeyAssumption
  <2> QED BY <1>1, <2>3, <2>4
<1>5. ASSUME NEW n \in Nodes, Shutdown(n) \/ Crash(n) PROVE Ranked'
  <2>1. Docs' \subseteq Docs \cup {EmptyDoc}
    BY <1>5 DEF Shutdown, Crash, Vanish, Docs, TypeOK
  <2> QED BY <2>1, <1>2
<1>6. ASSUME NEW n \in Nodes, NEW k \in Keys, NEW v \in Values, BridgeWrite(n, k, v)
      PROVE  Ranked'
  BY <1>3, <1>6 DEF BridgeWrite, diskVars, netVars
<1>7. ASSUME NEW n \in Nodes, NEW k \in Keys, NEW v \in Values, BridgeBroadcast(n, k, v)
      PROVE  Ranked'
  BY <1>2, <1>7 DEF BridgeBroadcast, Docs, diskVars, netVars
<1>8. ASSUME NEW n \in Nodes, NEW R \in SUBSET Nodes, PublishUpdate(n, R) \/ Tick(n, R)
      PROVE  Ranked'
  <2>1. Docs' \subseteq Docs
    BY <1>8 DEF PublishUpdate, Tick, Docs, diskVars, idVars
  <2> QED BY <2>1, <1>2
<1>9. ASSUME NEW s \in syncs, DeliverSync(s) PROVE Ranked'
  <2> DEFINE D == Merge(doc[s.to], s.doc)
  <2>1. s.to \in Nodes /\ doc[s.to] \in Docs /\ s.doc \in Docs
    BY DEF TypeOK, Docs, Sync
  <2>2. doc' = [doc EXCEPT ![s.to] = D] /\ disk' = disk /\ syncs' \subseteq syncs
    BY <1>9 DEF DeliverSync, diskVars
  <2>3. Docs' \subseteq Docs \cup {D}
    BY <2>2 DEF Docs, TypeOK
  <2>4. PICK top \in Nat, rank \in [Run -> Nat] : \A b \in Docs : DocRanked(b, rank, top)
    BY DEF Ranked
  <2>5. DocRanked(D, rank, top)
    BY <2>1, <2>4, MergeRanked
  <2> HIDE DEF D
  <2> QED BY <1>1, <2>3, <2>4, <2>5
<1>10. ASSUME NEW u \in updates, DeliverUpdate(u) PROVE Ranked'
  <2>1. u.to \in alive /\ u.key \in Keys /\ u.val \in Values
    BY DEF TypeOK, KnowledgeUpdate
  <2> QED BY <1>3, <1>10, <2>1 DEF DeliverUpdate, diskVars, idVars
<1>11. CASE UNCHANGED vars
  BY <1>2, <1>11 DEF vars, Docs
<1> QED
  BY <1>4, <1>5, <1>6, <1>7, <1>8, <1>9, <1>10, <1>11 DEF Next, NodeStep

\* A key that was ever written on a node reads as some value there, whatever
\* is overwritten at the same time elsewhere and in whatever order it merges.
THEOREM Shown == Spec => []NeverBlank
<1>1. Init => TypeOK /\ WriterHistory
  BY TypeInit, HistoryInit
<1>2. Init => Ranked
  <2> SUFFICES ASSUME Init PROVE Ranked
    OBVIOUS
  <2>1. \A d \in Docs : d = EmptyDoc
    BY DEF Init, Docs
  <2>2. [r \in Run |-> 0] \in [Run -> Nat]
    OBVIOUS
  <2>3. \A d \in Docs : DocRanked(d, [r \in Run |-> 0], 0)
    BY <2>1 DEF DocRanked, EmptyDoc
  <2> QED BY <2>2, <2>3 DEF Ranked
<1>3. TypeOK /\ WriterHistory /\ Ranked /\ [Next]_vars
        => (TypeOK /\ WriterHistory /\ Ranked)'
  BY TypeNext, HistoryNext, RankedNext
<1>4. TypeOK /\ Ranked => NeverBlank
  <2> SUFFICES ASSUME TypeOK, Ranked, NEW n \in alive, NEW k \in Keys, Texts(doc[n], k) # {}
               PROVE  Visible(doc[n], k) # {}
    BY DEF NeverBlank
  <2>1. doc[n] \in Doc /\ doc[n] \in Docs
    BY DEF TypeOK, Docs
  <2> QED BY <2>1, RankedShows DEF Ranked
<1> QED BY <1>1, <1>2, <1>3, <1>4, PTL DEF Spec

-----------------------------------------------------------------------------
\* A document that only grew shows no run again that it had hidden.
LEMMA HiddenStays ==
  ASSUME NEW d \in Doc, NEW e \in Doc, NEW k \in Keys, Contains(e, d)
  PROVE  Visible(e, k) \cap d.runs \subseteq Visible(d, k)
<1> SUFFICES ASSUME NEW r \in d.runs, r \in Visible(e, k) PROVE r \in Visible(d, k)
  OBVIOUS
<1>1. r.key = k /\ r.text = Winner(e, k) /\ r \notin d.dead
  BY DEF Visible, Contains
<1>2. r.text \in Texts(d, k) /\ Texts(d, k) \subseteq Texts(e, k)
  BY <1>1 DEF Texts, Contains
<1>3. r.text <= Winner(d, k) /\ Winner(d, k) <= r.text
  BY <1>1, <1>2, WinnerLargest
<1>4. r.text \in Nat /\ Winner(d, k) \in Nat
  <2>1. r.text \in ClientIds /\ Winner(d, k) \in ClientIds
    BY <1>2, WinnerType DEF Doc, Run
  <2>2. MaxClient \in Nat /\ \A c \in ClientIds : c \in 0..MaxClient
    BY ClientAssumption
  <2>3. \A c \in ClientIds : c \in Nat
    BY <2>2
  <2> QED BY <2>1, <2>3
<1>5. r.text = Winner(d, k)
  BY <1>3, <1>4
<1> QED BY <1>1, <1>5 DEF Visible

\* The document of a node that keeps running only grows.
LEMMA DocGrows ==
  ASSUME TypeOK, [Next]_vars, NEW n \in alive \cap alive'
  PROVE  Contains(doc'[n], doc[n])
<1>1. n \in Nodes /\ n \in alive /\ n \in alive' /\ doc \in [Nodes -> Doc]
  BY DEF TypeOK
<1>2. ASSUME NEW m \in Nodes, NEW k, NEW v, Insert(m, k, v) PROVE Contains(doc'[n], doc[n])
  BY <1>1, <1>2 DEF Insert, InsertText, Contains
<1>3. CASE doc' = doc
  BY <1>3 DEF Contains
<1>4. ASSUME NEW m \in Nodes, NEW c \in ClientIds, Start(m, c) PROVE Contains(doc'[n], doc[n])
  BY <1>1, <1>4, StartsWith DEF StartWith, Contains
<1>5. ASSUME NEW m \in Nodes, Shutdown(m) \/ Crash(m) PROVE Contains(doc'[n], doc[n])
  BY <1>1, <1>5 DEF Shutdown, Crash, Vanish, Contains
<1>6. ASSUME NEW s \in syncs, DeliverSync(s) PROVE Contains(doc'[n], doc[n])
  BY <1>1, <1>6 DEF DeliverSync, Merge, Contains
<1>7. ASSUME NEW u \in updates, DeliverUpdate(u) PROVE Contains(doc'[n], doc[n])
  BY <1>2, <1>7 DEF DeliverUpdate, TypeOK, KnowledgeUpdate
<1> QED
  BY <1>2, <1>3, <1>4, <1>5, <1>6, <1>7 DEF Next, NodeStep, BridgeWrite, BridgeBroadcast,
     PublishUpdate, Tick, vars

\* What a running node holds and no longer shows, because it was overwritten
\* or its text lost the key, is not shown by that process again.
THEOREM StaysGone == Spec => OverwrittenStaysGone
<1> DEFINE Gone == \A n \in alive \cap alive', k \in Keys :
                     (Visible(doc[n], k)' \cap doc[n].runs) \subseteq Visible(doc[n], k)
<1>1. TypeOK /\ TypeOK' /\ [Next]_vars => Gone
  <2> SUFFICES ASSUME TypeOK, TypeOK', [Next]_vars, NEW n \in alive \cap alive', NEW k \in Keys
               PROVE  (Visible(doc'[n], k) \cap doc[n].runs) \subseteq Visible(doc[n], k)
    OBVIOUS
  <2>1. doc[n] \in Doc /\ doc'[n] \in Doc
    BY DEF TypeOK
  <2>2. Contains(doc'[n], doc[n])
    BY DocGrows
  <2> QED BY <2>1, <2>2, HiddenStays
<1>2. TypeOK /\ TypeOK' /\ [Next]_vars => [Gone]_vars
  BY <1>1
<1> QED BY <1>2, Typed, PTL DEF Spec, OverwrittenStaysGone
=============================================================================
