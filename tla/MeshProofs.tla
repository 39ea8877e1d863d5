----------------------------- MODULE MeshProofs -----------------------------
(***************************************************************************)
(* Proofs about what goes through the mesh.  MeshDelegation, for any       *)
(* nodes, tasks and restarts: the types, and that no task is run twice.    *)
(* MeshRustClient, the gateway's client of its Rust node, for any number   *)
(* of sockets, calls, restarts and failures: the types, that requests are  *)
(* stored while their promises are open, that one connection is live, and  *)
(* that the calls implement the promises of OneShot step by step.          *)
(***************************************************************************)
EXTENDS MeshDelegation, MeshRustClient, TLAPS

-----------------------------------------------------------------------------
(* The delegation of tasks                                                 *)

(* The task t waits in the channel of n, or n has not published it yet.    *)
InOutbox(t, n) == \E i \in 1..Len(outbox[n]) : outbox[n][i] = t
Held(t, n) == InOutbox(t, n) \/ t \in lookups[n]

(* No trace of t outside of the node that is to publish it.                *)
Unsent(t) == runs[t] = 0 /\ \A m \in wire : m.task # t

(* A task is in one place of one node before it is published, and on the   *)
(* wire for one assignee after that.                                       *)
OnePlace ==
  /\ \A n \in Nodes : \A i, j \in 1..Len(outbox[n]) : outbox[n][i] = outbox[n][j] => i = j
  /\ \A n \in Nodes, t \in Tasks : ~(InOutbox(t, n) /\ t \in lookups[n])
  /\ \A n, k \in Nodes, t \in Tasks : Held(t, n) /\ Held(t, k) => n = k
  /\ \A n \in Nodes, t \in Tasks : Held(t, n) => Unsent(t)
  /\ \A t \in Tasks : ~Asked(t) => Unsent(t)

OneAssignee == \A m, l \in wire : m.task = l.task => m.assignee = l.assignee

(* Once a task was run, what is still on its way names another node, and   *)
(* no restart makes it that node's.                                        *)
RunOnce ==
  \A t \in Tasks :
    /\ runs[t] <= 1
    /\ runs[t] = 1 => \A m \in wire : m.task = t => m.assignee[1] # m.to

DelegationInv == TypeOK /\ OnePlace /\ OneAssignee /\ RunOnce

-----------------------------------------------------------------------------
(* Queues.                                                                 *)
LEMMA SeqMonotone ==
  ASSUME NEW S, NEW T, S \subseteq T, NEW s \in Seq(S) PROVE s \in Seq(T)
OBVIOUS

(* Taking the first element of a nonempty queue shifts the others.         *)
LEMMA HeadOf ==
  ASSUME NEW S, NEW s \in Seq(S), s # <<>>
  PROVE  /\ Head(s) \in S /\ Head(s) = s[1] /\ Len(s) \in Nat /\ Len(s) > 0
         /\ Tail(s) \in Seq(S) /\ Len(Tail(s)) = Len(s) - 1
         /\ \A i \in 1..Len(Tail(s)) : Tail(s)[i] = s[i + 1] /\ i + 1 \in 1..Len(s)
OBVIOUS

(* Appending an element leaves the others in place.                        *)
LEMMA AppendTo ==
  ASSUME NEW S, NEW s \in Seq(S), NEW e \in S
  PROVE  /\ Append(s, e) \in Seq(S) /\ Len(s) \in Nat /\ Len(Append(s, e)) = Len(s) + 1
         /\ \A i \in 1..Len(s) : Append(s, e)[i] = s[i]
         /\ Append(s, e)[Len(s) + 1] = e
OBVIOUS

-----------------------------------------------------------------------------
(* Initially nothing was asked for, sent or run.                           *)
LEMMA InvInit == Init => DelegationInv
<1> SUFFICES ASSUME Init PROVE DelegationInv
  OBVIOUS
<1>1. \A n \in Nodes : outbox[n] = <<>> /\ Len(outbox[n]) = 0 /\ 1..Len(outbox[n]) = {}
  BY DEF Init
<1>2. TypeOK
  <2>1. outbox \in [Nodes -> Seq({t \in Tasks : Asked(t)})]
    BY DEF Init
  <2>2. starts \in [Nodes -> 0..MaxStarts] /\ alive \subseteq {n \in Nodes : starts[n] > 0}
    BY StartAssumption DEF Init
  <2> QED BY <2>1, <2>2 DEF Init, TypeOK
<1>3. \A t \in Tasks : Unsent(t) /\ runs[t] = 0
  BY DEF Init, Unsent
<1>4. \A n \in Nodes, t \in Tasks : ~Held(t, n)
  BY <1>1 DEF Init, Held, InOutbox
<1>5. OnePlace
  BY <1>1, <1>3, <1>4 DEF OnePlace, Held
<1>6. OneAssignee /\ RunOnce
  BY <1>3 DEF Init, OneAssignee, RunOnce
<1> QED BY <1>2, <1>5, <1>6 DEF DelegationInv

(* A step that holds nothing new and only takes messages from the wire.    *)
LEMMA LessKeeps ==
  ASSUME OnePlace, OneAssignee, RunOnce, wire' \subseteq wire, UNCHANGED runs,
         \A t \in Tasks : Asked(t) => Asked(t)',
         \A n \in Nodes : UNCHANGED outbox[n] \/ outbox'[n] = <<>>,
         \A n \in Nodes : lookups'[n] \subseteq lookups[n]
  PROVE  (OnePlace /\ OneAssignee /\ RunOnce)'
<1>1. \A n \in Nodes, t \in Tasks :
        (InOutbox(t, n)' => InOutbox(t, n)) /\ (Held(t, n)' => Held(t, n))
  BY DEF InOutbox, Held
<1>2. \A t \in Tasks : Unsent(t) => Unsent(t)'
  BY DEF Unsent
<1>3. \A n \in Nodes : \A i, j \in 1..Len(outbox'[n]) : outbox'[n][i] = outbox'[n][j] => i = j
  BY DEF OnePlace
<1>4. OnePlace'
  BY <1>1, <1>2, <1>3 DEF OnePlace
<1>5. OneAssignee' /\ RunOnce'
  BY DEF OneAssignee, RunOnce
<1> QED BY <1>4, <1>5

(* A start gives a node a new peer id; nothing on the wire names it.       *)
LEMMA StartKeeps ==
  ASSUME DelegationInv, NEW n \in Nodes, Start(n) PROVE DelegationInv'
<1> USE DEF DelegationInv, Start, gossip
<1>1. \A t : Asked(t)' <=> Asked(t)
  BY DEF Asked
<1>2. TypeOK'
  <2>1. starts' \in [Nodes -> 0..MaxStarts] /\ starts'[n] > 0 /\ alive' = alive \cup {n}
    BY StartAssumption DEF TypeOK
  <2>2. alive' \subseteq {k \in Nodes : starts'[k] > 0}
    BY <2>1 DEF TypeOK
  <2>3. {t \in Tasks : Asked(t)}' = {t \in Tasks : Asked(t)}
    BY <1>1
  <2> QED BY <2>1, <2>2, <2>3 DEF TypeOK
<1>3. (OnePlace /\ OneAssignee /\ RunOnce)'
  BY <1>1, LessKeeps
<1> QED BY <1>2, <1>3

(* A stop empties what the node held and what was on its way to it.        *)
LEMMA StopKeeps ==
  ASSUME DelegationInv, NEW n \in Nodes, Stop(n) PROVE DelegationInv'
<1> USE DEF DelegationInv, Stop
<1>1. \A t : Asked(t)' <=> Asked(t)
  BY DEF Asked
<1>2. outbox' \in [Nodes -> Seq({t \in Tasks : Asked(t)})]
  BY DEF TypeOK
<1>3. TypeOK'
  BY <1>1, <1>2 DEF TypeOK
<1>4. (OnePlace /\ OneAssignee /\ RunOnce)'
  BY <1>1, LessKeeps DEF TypeOK
<1> QED BY <1>3, <1>4

(* A completed run and a failed lookup only remove.                        *)
LEMMA CompleteKeeps ==
  ASSUME DelegationInv, NEW n \in Nodes, NEW t \in Tasks, Complete(n, t) \/ LookupFails(n, t)
  PROVE  DelegationInv'
<1> USE DEF DelegationInv, gossip, lives
<1>1. \A u : Asked(u)' <=> Asked(u)
  BY DEF Asked, Complete, LookupFails
<1>2. TypeOK'
  BY <1>1 DEF TypeOK, Complete, LookupFails
<1>3. (OnePlace /\ OneAssignee /\ RunOnce)'
  BY <1>1, LessKeeps DEF TypeOK, Complete, LookupFails
<1> QED BY <1>2, <1>3

-----------------------------------------------------------------------------
(* A task that was not asked for is nowhere, and enters one channel.       *)
LEMMA DelegateKeeps ==
  ASSUME DelegationInv, NEW n \in Nodes, NEW t \in Tasks, NEW a \in Assignees,
         Delegate(n, t, a)
  PROVE  DelegationInv'
<1> USE DEF DelegationInv
<1> DEFINE S == {u \in Tasks : Asked(u)}
<1>1. /\ n \in alive /\ ~Asked(t) /\ outbox' = [outbox EXCEPT ![n] = Append(@, t)]
      /\ request' = [request EXCEPT ![t] = [by |-> PeerId(n), assignee |-> a]]
      /\ UNCHANGED <<starts, alive, lookups, wire, missed, running, runs, reported>>
  BY DEF Delegate, lives, gossip
<1>2. /\ S \subseteq S' /\ t \in S' /\ request' \in [Tasks -> Request \cup {NoRequest}]
      /\ \A u \in Tasks \ {t} : Asked(u)' <=> Asked(u)
  <2>1. PeerId(n) \in PeerIds
    BY <1>1, StartAssumption DEF TypeOK, PeerId, PeerIds
  <2>2. [by |-> PeerId(n), assignee |-> a] \in Request
    BY <2>1 DEF Request
  <2>3. PeerId(n) # <<>>
    BY DEF PeerId
  <2>4. [by |-> PeerId(n), assignee |-> a] # NoRequest
    BY <2>3 DEF NoRequest
  <2> QED BY <1>1, <2>2, <2>4 DEF TypeOK, Asked
<1>3. /\ outbox[n] \in Seq(S) /\ outbox[n] \in Seq(S') /\ outbox'[n] = Append(outbox[n], t)
      /\ \A k \in Nodes \ {n} : outbox'[k] = outbox[k]
      /\ \A k \in Nodes : outbox[k] \in Seq(S')
  <2>1. outbox \in [Nodes -> Seq(S)]
    BY DEF TypeOK
  <2> HIDE DEF S
  <2>2. \A k \in Nodes : outbox[k] \in Seq(S')
    BY <1>2, <2>1, SeqMonotone
  <2> QED BY <1>1, <2>1, <2>2
<1>4. /\ outbox'[n] \in Seq(S') /\ Len(outbox[n]) \in Nat /\ Len(outbox'[n]) = Len(outbox[n]) + 1
      /\ \A i \in 1..Len(outbox[n]) : outbox'[n][i] = outbox[n][i]
      /\ outbox'[n][Len(outbox[n]) + 1] = t
  <2> HIDE DEF S
  <2> QED BY <1>2, <1>3, AppendTo
<1>5. TypeOK'
  <2>1. outbox' \in [Nodes -> Seq(S')]
    <3>1. \A k \in Nodes : outbox'[k] \in Seq(S')
      BY <1>3, <1>4
    <3> QED BY <1>1, <3>1 DEF TypeOK
  <2>2. lookups' \in [Nodes -> SUBSET S']
    BY <1>1, <1>2 DEF TypeOK
  <2> QED BY <1>1, <1>2, <2>1, <2>2 DEF TypeOK
<1>6. /\ Unsent(t) /\ \A u \in Tasks : Unsent(u)' <=> Unsent(u)
  BY <1>1 DEF Unsent, OnePlace
<1>7. \A k \in Nodes : ~Held(t, k)
  <2>1. ASSUME NEW k \in Nodes, InOutbox(t, k) PROVE FALSE
    <3>1. PICK i \in 1..Len(outbox[k]) : outbox[k][i] = t
      BY <2>1 DEF InOutbox
    <3>2. outbox[k] \in Seq(S)
      BY DEF TypeOK
    <3>3. outbox[k][i] \in S
      <4> HIDE DEF S
      <4> QED BY <3>1, <3>2
    <3> QED BY <1>1, <3>1, <3>3
  <2> QED BY <1>1, <2>1 DEF Held, TypeOK
<1>8. \A k \in Nodes, u \in Tasks : InOutbox(u, k)' => InOutbox(u, k) \/ (u = t /\ k = n)
  <2> SUFFICES ASSUME NEW k \in Nodes, NEW u \in Tasks, InOutbox(u, k)'
               PROVE  InOutbox(u, k) \/ (u = t /\ k = n)
    OBVIOUS
  <2>1. PICK i \in 1..Len(outbox'[k]) : outbox'[k][i] = u
    BY DEF InOutbox
  <2>2. CASE k # n
    BY <1>3, <2>1, <2>2 DEF InOutbox
  <2>3. CASE k = n /\ i = Len(outbox[n]) + 1
    BY <1>4, <2>1, <2>3
  <2>4. CASE k = n /\ i # Len(outbox[n]) + 1
    <3>1. i \in 1..Len(outbox[n])
      BY <1>4, <2>1, <2>4
    <3> QED BY <1>4, <2>1, <2>4, <3>1 DEF InOutbox
  <2> QED BY <2>2, <2>3, <2>4
<1>9. \A k \in Nodes, u \in Tasks : Held(u, k)' => Held(u, k) \/ (u = t /\ k = n)
  BY <1>1, <1>8 DEF Held
<1>10. ASSUME NEW k \in Nodes, NEW i \in 1..Len(outbox'[k]), NEW j \in 1..Len(outbox'[k]),
              outbox'[k][i] = outbox'[k][j]
       PROVE  i = j
  <2>1. CASE k # n
    BY <1>3, <1>10, <2>1 DEF OnePlace
  <2>2. CASE k = n
    <3>1. \A x \in 1..Len(outbox[n]) : outbox[n][x] # t
      BY <1>7 DEF Held, InOutbox
    <3>2. \A x \in 1..Len(outbox'[n]) : x \in 1..Len(outbox[n]) \/ x = Len(outbox[n]) + 1
      BY <1>4
    <3> QED BY <1>4, <1>10, <2>2, <3>1, <3>2 DEF OnePlace
  <2> QED BY <2>1, <2>2
<1>11. OnePlace'
  <2>1. \A k \in Nodes, u \in Tasks : ~(InOutbox(u, k)' /\ u \in lookups'[k])
    BY <1>1, <1>7, <1>8 DEF OnePlace, Held
  <2>2. \A k, l \in Nodes, u \in Tasks : Held(u, k)' /\ Held(u, l)' => k = l
    BY <1>7, <1>9 DEF OnePlace
  <2>3. \A k \in Nodes, u \in Tasks : Held(u, k)' => Unsent(u)'
    BY <1>6, <1>9 DEF OnePlace
  <2>4. \A u \in Tasks : ~Asked(u)' => Unsent(u)'
    BY <1>2, <1>6 DEF OnePlace
  <2> QED BY <1>10, <2>1, <2>2, <2>3, <2>4 DEF OnePlace
<1>12. OneAssignee' /\ RunOnce'
  BY <1>1 DEF OneAssignee, RunOnce
<1> QED BY <1>5, <1>11, <1>12

-----------------------------------------------------------------------------
(* The event loop takes the first task of its channel.                     *)
LEMMA TakeEach ==
  ASSUME DelegationInv, NEW n \in Nodes, outbox[n] # <<>>,
         outbox' = [outbox EXCEPT ![n] = Tail(@)]
  PROVE  /\ Head(outbox[n]) \in Tasks /\ InOutbox(Head(outbox[n]), n)
         /\ Asked(Head(outbox[n]))
         /\ outbox' \in [Nodes -> Seq({t \in Tasks : Asked(t)})]
         /\ \A k \in Nodes, u \in Tasks : InOutbox(u, k)' =>
                InOutbox(u, k) /\ ~(u = Head(outbox[n]) /\ k = n)
         /\ \A k \in Nodes : \A i, j \in 1..Len(outbox'[k]) :
                outbox'[k][i] = outbox'[k][j] => i = j
<1> DEFINE S == {t \in Tasks : Asked(t)}
           s == outbox[n]
<1>1. outbox \in [Nodes -> Seq(S)] /\ s \in Seq(S)
  BY DEF DelegationInv, TypeOK
<1>2. /\ Head(s) \in S /\ Head(s) = s[1] /\ Len(s) \in Nat /\ Len(s) > 0
      /\ Tail(s) \in Seq(S) /\ Len(Tail(s)) = Len(s) - 1
      /\ \A i \in 1..Len(Tail(s)) : Tail(s)[i] = s[i + 1] /\ i + 1 \in 1..Len(s)
  <2> HIDE DEF S
  <2> QED BY <1>1, HeadOf
<1>3. outbox'[n] = Tail(s) /\ \A k \in Nodes \ {n} : outbox'[k] = outbox[k]
  BY <1>1
<1>4. InOutbox(Head(s), n) /\ Head(s) \in Tasks /\ Asked(Head(s))
  BY <1>2 DEF InOutbox
<1>5. outbox' \in [Nodes -> Seq(S)]
  <2> HIDE DEF S
  <2> QED BY <1>1, <1>2, <1>3
<1>6. \A i, j \in 1..Len(s) : s[i] = s[j] => i = j
  BY DEF DelegationInv, OnePlace
<1> HIDE DEF s, S
<1>7. ASSUME NEW k \in Nodes, NEW u \in Tasks, InOutbox(u, k)'
      PROVE  InOutbox(u, k) /\ ~(u = Head(s) /\ k = n)
  <2>1. PICK i \in 1..Len(outbox'[k]) : outbox'[k][i] = u
    BY <1>7 DEF InOutbox
  <2>2. CASE k # n
    BY <1>3, <2>1, <2>2 DEF InOutbox
  <2>3. CASE k = n
    <3>1. i \in 1..Len(Tail(s)) /\ Tail(s)[i] = u
      BY <1>3, <2>1, <2>3
    <3>2. u = s[i + 1] /\ i + 1 \in 1..Len(s) /\ 1 \in 1..Len(s) /\ i + 1 # 1
      BY <1>2, <3>1
    <3>3. u # Head(s)
      BY <1>2, <1>6, <3>2
    <3> QED BY <2>3, <3>2, <3>3 DEF InOutbox, s
  <2> QED BY <2>2, <2>3
<1>8. ASSUME NEW k \in Nodes, NEW i \in 1..Len(outbox'[k]), NEW j \in 1..Len(outbox'[k]),
             outbox'[k][i] = outbox'[k][j]
      PROVE  i = j
  <2>1. CASE k # n
    BY <1>3, <1>8, <2>1 DEF DelegationInv, OnePlace
  <2>2. CASE k = n
    <3>1. /\ i \in 1..Len(Tail(s)) /\ j \in 1..Len(Tail(s)) /\ Tail(s)[i] = Tail(s)[j]
      BY <1>3, <1>8, <2>2
    <3>2. s[i + 1] = s[j + 1] /\ i + 1 \in 1..Len(s) /\ j + 1 \in 1..Len(s)
      BY <1>2, <3>1
    <3>3. i + 1 = j + 1
      BY <1>6, <3>2
    <3> QED BY <3>3
  <2> QED BY <2>1, <2>2
<1> QED BY <1>4, <1>5, <1>7, <1>8 DEF s, S

(* A lookup moves a task from the channel to the pending ones.             *)
LEMMA TakeLookupKeeps ==
  ASSUME DelegationInv, NEW n \in Nodes, TakeLookup(n) PROVE DelegationInv'
<1> USE DEF DelegationInv
<1>0. PICK h : h = Head(outbox[n])
  OBVIOUS
<1>1. /\ outbox[n] # <<>> /\ outbox' = [outbox EXCEPT ![n] = Tail(@)]
      /\ lookups' = [lookups EXCEPT ![n] = @ \cup {h}]
      /\ UNCHANGED <<starts, alive, request, wire, missed, running, runs, reported>>
  BY <1>0 DEF TakeLookup, lives, gossip
<1>2. /\ h \in Tasks /\ InOutbox(h, n) /\ Asked(h)
      /\ outbox' \in [Nodes -> Seq({t \in Tasks : Asked(t)})]
      /\ \A k \in Nodes, u \in Tasks : InOutbox(u, k)' => InOutbox(u, k) /\ ~(u = h /\ k = n)
      /\ \A k \in Nodes : \A i, j \in 1..Len(outbox'[k]) : outbox'[k][i] = outbox'[k][j] => i = j
  BY <1>0, <1>1, TakeEach
<1>3. \A t : (Asked(t)' <=> Asked(t)) /\ (Unsent(t)' <=> Unsent(t))
  BY <1>1 DEF Asked, Unsent
<1>4. TypeOK'
  <2>1. lookups' \in [Nodes -> SUBSET {t \in Tasks : Asked(t)}]
    BY <1>1, <1>2 DEF TypeOK
  <2>2. {t \in Tasks : Asked(t)}' = {t \in Tasks : Asked(t)}
    BY <1>3
  <2> QED BY <1>1, <1>2, <2>1, <2>2 DEF TypeOK
<1>5. \A k \in Nodes, u \in Tasks : u \in lookups'[k] <=> u \in lookups[k] \/ (u = h /\ k = n)
  BY <1>1 DEF TypeOK
<1>6. \A k \in Nodes, u \in Tasks : Held(u, k)' => Held(u, k)
  BY <1>2, <1>5 DEF Held
<1>7. \A k \in Nodes, u \in Tasks : ~(InOutbox(u, k)' /\ u \in lookups'[k])
  BY <1>2, <1>5 DEF OnePlace
<1>8. OnePlace'
  BY <1>2, <1>3, <1>6, <1>7 DEF OnePlace
<1>9. OneAssignee' /\ RunOnce'
  BY <1>1 DEF OneAssignee, RunOnce
<1> QED BY <1>4, <1>8, <1>9

(* A task that was held is published, and is not held any more.            *)
LEMMA PublishKeeps ==
  ASSUME DelegationInv, NEW n \in Nodes, NEW t \in Tasks, NEW a \in PeerIds,
         Held(t, n), Asked(t), Publish(n, t, a),
         \A k \in Nodes, u \in Tasks :
           /\ Held(u, k)' => Held(u, k) /\ ~(u = t /\ k = n)
           /\ InOutbox(u, k)' => InOutbox(u, k)
           /\ u \in lookups'[k] => u \in lookups[k],
         \A k \in Nodes : \A i, j \in 1..Len(outbox'[k]) : outbox'[k][i] = outbox'[k][j] => i = j,
         UNCHANGED <<starts, alive, request, running, runs, reported>>
  PROVE  /\ (OnePlace /\ OneAssignee /\ RunOnce)'
         /\ wire' \subseteq Message /\ (\A m \in wire' : m.to \in alive) /\ missed' \subseteq Tasks
<1> USE DEF DelegationInv
<1>1. PICK R \in SUBSET (alive \ {n}) :
         /\ missed' \in {missed, missed \cup {t}}
         /\ wire' = wire \cup {[task |-> t, assignee |-> a, to |-> m] : m \in R}
  BY DEF Publish
<1>2. \A m \in wire' : m \in wire \/ (/\ m \in Message /\ m.task = t /\ m.assignee = a
                                      /\ m.to \in alive)
  BY <1>1 DEF TypeOK, Message
<1>3. wire' \subseteq Message /\ (\A m \in wire' : m.to \in alive) /\ missed' \subseteq Tasks
  BY <1>1, <1>2 DEF TypeOK
<1>4. Unsent(t)
  BY DEF OnePlace
<1>5. \A k \in Nodes : ~Held(t, k)'
  BY DEF OnePlace
<1>6. \A u \in Tasks \ {t} : Unsent(u) => Unsent(u)'
  BY <1>2 DEF Unsent
<1>7. \A u : Asked(u)' <=> Asked(u)
  BY DEF Asked
<1>8. OnePlace'
  <2>1. \A k \in Nodes, u \in Tasks : ~(InOutbox(u, k)' /\ u \in lookups'[k])
    BY DEF OnePlace
  <2>2. \A k, l \in Nodes, u \in Tasks : Held(u, k)' /\ Held(u, l)' => k = l
    BY DEF OnePlace
  <2>3. \A k \in Nodes, u \in Tasks : Held(u, k)' => Unsent(u)'
    BY <1>5, <1>6 DEF OnePlace
  <2>4. \A u \in Tasks : ~Asked(u)' => Unsent(u)'
    BY <1>4, <1>6, <1>7 DEF OnePlace
  <2> QED BY <2>1, <2>2, <2>3, <2>4 DEF OnePlace
<1>9. OneAssignee'
  BY <1>2, <1>4 DEF OneAssignee, Unsent
<1>10. RunOnce'
  BY <1>2, <1>4 DEF RunOnce, Unsent
<1> QED BY <1>3, <1>8, <1>9, <1>10

(* A task for a peer id goes from the channel to the wire.                 *)
LEMMA TakeDirectKeeps ==
  ASSUME DelegationInv, NEW n \in Nodes, TakeDirect(n) PROVE DelegationInv'
<1> USE DEF DelegationInv
<1>0. PICK h : h = Head(outbox[n])
  OBVIOUS
<1>1. /\ outbox[n] # <<>> /\ outbox' = [outbox EXCEPT ![n] = Tail(@)]
      /\ ~NeedsLookup(h) /\ Publish(n, h, request[h].assignee)
      /\ UNCHANGED <<starts, alive, request, lookups, running, runs, reported>>
  BY <1>0 DEF TakeDirect, lives
<1>2. /\ h \in Tasks /\ InOutbox(h, n) /\ Asked(h)
      /\ outbox' \in [Nodes -> Seq({t \in Tasks : Asked(t)})]
      /\ \A k \in Nodes, u \in Tasks : InOutbox(u, k)' => InOutbox(u, k) /\ ~(u = h /\ k = n)
      /\ \A k \in Nodes : \A i, j \in 1..Len(outbox'[k]) : outbox'[k][i] = outbox'[k][j] => i = j
  BY <1>0, <1>1, TakeEach
<1>3. PICK a \in PeerIds : Publish(n, h, a)
  BY <1>1 DEF NeedsLookup
<1>4. h \notin lookups[n] /\ Held(h, n)
  BY <1>2 DEF OnePlace, Held
<1>5. \A k \in Nodes, u \in Tasks :
        /\ Held(u, k)' => Held(u, k) /\ ~(u = h /\ k = n)
        /\ InOutbox(u, k)' => InOutbox(u, k)
        /\ u \in lookups'[k] => u \in lookups[k]
  BY <1>1, <1>2, <1>4 DEF Held
<1>6. /\ (OnePlace /\ OneAssignee /\ RunOnce)'
      /\ wire' \subseteq Message /\ (\A m \in wire' : m.to \in alive) /\ missed' \subseteq Tasks
  BY <1>1, <1>2, <1>3, <1>4, <1>5, PublishKeeps
<1>7. {t \in Tasks : Asked(t)}' = {t \in Tasks : Asked(t)}
  BY <1>1 DEF Asked
<1>8. TypeOK'
  BY <1>1, <1>2, <1>6, <1>7 DEF TypeOK
<1> QED BY <1>6, <1>8

(* A task goes from the pending ones to the wire.                          *)
LEMMA LookupFoundKeeps ==
  ASSUME DelegationInv, NEW n \in Nodes, NEW t \in Tasks, LookupFound(n, t)
  PROVE  DelegationInv'
<1> USE DEF DelegationInv
<1>1. /\ n \in alive /\ t \in lookups[n] /\ lookups' = [lookups EXCEPT ![n] = @ \ {t}]
      /\ Publish(n, t, PeerId(n))
      /\ UNCHANGED <<starts, alive, request, outbox, running, runs, reported>>
  BY DEF LookupFound, lives
<1>2. PICK a \in PeerIds : a = PeerId(n) /\ Publish(n, t, a)
  <2>1. PeerId(n) \in PeerIds
    BY <1>1, StartAssumption DEF TypeOK, PeerId, PeerIds
  <2> QED BY <1>1, <2>1
<1>3. Held(t, n) /\ Asked(t) /\ ~InOutbox(t, n)
  BY <1>1 DEF Held, OnePlace, TypeOK
<1>4. \A k \in Nodes, u \in Tasks :
        /\ (InOutbox(u, k)' <=> InOutbox(u, k))
        /\ u \in lookups'[k] => u \in lookups[k] /\ ~(u = t /\ k = n)
  BY <1>1 DEF InOutbox, TypeOK
<1>5. \A k \in Nodes, u \in Tasks :
        /\ Held(u, k)' => Held(u, k) /\ ~(u = t /\ k = n)
        /\ InOutbox(u, k)' => InOutbox(u, k)
        /\ u \in lookups'[k] => u \in lookups[k]
  BY <1>3, <1>4 DEF Held
<1>6. \A k \in Nodes : \A i, j \in 1..Len(outbox'[k]) : outbox'[k][i] = outbox'[k][j] => i = j
  BY <1>1 DEF OnePlace
<1>7. /\ (OnePlace /\ OneAssignee /\ RunOnce)'
      /\ wire' \subseteq Message /\ (\A m \in wire' : m.to \in alive) /\ missed' \subseteq Tasks
  BY <1>1, <1>2, <1>3, <1>5, <1>6, PublishKeeps
<1>8. {u \in Tasks : Asked(u)}' = {u \in Tasks : Asked(u)}
  BY <1>1 DEF Asked
<1>9. lookups' \in [Nodes -> SUBSET {u \in Tasks : Asked(u)}]
  BY <1>1 DEF TypeOK
<1>10. TypeOK'
  BY <1>1, <1>7, <1>8, <1>9 DEF TypeOK
<1> QED BY <1>7, <1>10

(* The node a message names runs its task; no other message on its way     *)
(* names the node it is for.                                               *)
LEMMA ReceiveKeeps ==
  ASSUME DelegationInv, NEW m \in wire, Receive(m) PROVE DelegationInv'
<1> USE DEF DelegationInv
<1>1. /\ wire' = wire \ {m}
      /\ UNCHANGED <<starts, alive, request, outbox, lookups, reported, missed>>
      /\ \/ UNCHANGED <<running, runs>>
         \/ /\ m.assignee = PeerId(m.to)
            /\ running' = [running EXCEPT ![m.to] = @ \cup {m.task}]
            /\ runs' = [runs EXCEPT ![m.task] = @ + 1]
  BY DEF Receive, lives
<1>2. m \in Message /\ m.task \in Tasks /\ m.to \in Nodes
  BY DEF TypeOK, Message
<1>3. \A t : /\ Asked(t)' <=> Asked(t)
             /\ \A n : (InOutbox(t, n)' <=> InOutbox(t, n)) /\ (Held(t, n)' <=> Held(t, n))
  BY <1>1 DEF Asked, InOutbox, Held
<1>4. {t \in Tasks : Asked(t)}' = {t \in Tasks : Asked(t)}
  BY <1>3
<1>5. TypeOK'
  <2>1. running \in [Nodes -> SUBSET Tasks] /\ runs \in [Tasks -> Nat]
    BY DEF TypeOK
  <2> HIDE DEF DelegationInv
  <2>2. running' \in [Nodes -> SUBSET Tasks]
    BY <1>1, <1>2, <2>1
  <2>3. runs' \in [Tasks -> Nat]
    BY <1>1, <1>2, <2>1
  <2> QED BY <1>1, <1>4, <2>2, <2>3 DEF DelegationInv, TypeOK
<1>6. \A t \in Tasks : Unsent(t) => Unsent(t)'
  BY <1>1, <1>2 DEF Unsent, TypeOK
<1>7. OnePlace'
  BY <1>1, <1>3, <1>6 DEF OnePlace
<1>8. OneAssignee'
  BY <1>1 DEF OneAssignee
<1>9. RunOnce'
  <2>1. CASE UNCHANGED <<running, runs>>
    BY <1>1, <2>1 DEF RunOnce
  <2>2. CASE m.assignee = PeerId(m.to) /\ runs' = [runs EXCEPT ![m.task] = @ + 1]
    <3>1. m.assignee[1] = m.to
      BY <2>2 DEF PeerId
    <3>2. runs[m.task] = 0 /\ runs'[m.task] = 1
      BY <1>2, <2>2, <3>1 DEF RunOnce, TypeOK
    <3>3. \A l \in wire' : l.task = m.task => l.assignee = m.assignee /\ l # m
                               /\ l \in Message
      BY <1>1 DEF OneAssignee, TypeOK
    <3>4. ASSUME NEW l \in wire', l.task = m.task PROVE l.assignee[1] # l.to
      <4>1. l.to # m.to
        BY <1>2, <3>3, <3>4 DEF Message
      <4> QED BY <3>1, <3>3, <3>4, <4>1
    <3>5. \A t \in Tasks \ {m.task} : runs'[t] = runs[t]
      BY <2>2 DEF TypeOK
    <3> QED BY <1>1, <3>2, <3>4, <3>5 DEF RunOnce
  <2> QED BY <1>1, <2>1, <2>2
<1> QED BY <1>5, <1>7, <1>8, <1>9

-----------------------------------------------------------------------------
(* Every step keeps the invariant.                                         *)
LEMMA InvNext == DelegationInv /\ [Next]_vars => DelegationInv'
<1> SUFFICES ASSUME DelegationInv, [Next]_vars PROVE DelegationInv'
  OBVIOUS
<1>1. ASSUME NEW n \in Nodes, NodeStep(n) PROVE DelegationInv'
  BY <1>1, StartKeeps, StopKeeps, DelegateKeeps, TakeDirectKeeps, TakeLookupKeeps,
     LookupFoundKeeps, CompleteKeeps DEF NodeStep
<1>2. CASE UNCHANGED vars
  <2>1. UNCHANGED <<starts, alive, request, outbox, lookups, wire, missed, running, runs, reported>>
    BY <1>2 DEF vars, lives, gossip
  <2>2. \A t : (Asked(t)' <=> Asked(t)) /\ {u \in Tasks : Asked(u)}' = {u \in Tasks : Asked(u)}
    BY <2>1 DEF Asked
  <2>3. TypeOK'
    BY <2>1, <2>2 DEF DelegationInv, TypeOK
  <2>4. (OnePlace /\ OneAssignee /\ RunOnce)'
    BY <2>1, <2>2, LessKeeps DEF DelegationInv
  <2> QED BY <2>3, <2>4 DEF DelegationInv
<1> QED BY <1>1, <1>2, ReceiveKeeps DEF Next

(* The invariant holds in every reachable state.                           *)
LEMMA Inductive == Spec => []DelegationInv
BY InvInit, InvNext, PTL DEF Spec

(* Types; what is on its way is for a running process.                     *)
THEOREM Typed == Spec => []TypeOK
<1>1. DelegationInv => TypeOK
  BY DEF DelegationInv
<1> QED BY <1>1, Inductive, PTL

(* A task is run at most once in the whole mesh, whomever its message      *)
(* reaches and however often nodes restart: only one node ever has the     *)
(* peer id it is addressed to.  It rests on gossipsub handing a message to *)
(* a peer at most once; the handler itself would run a copy again.         *)
THEOREM NeverTwice == Spec => []AtMostOnce
<1>1. DelegationInv => AtMostOnce
  BY DEF DelegationInv, RunOnce, AtMostOnce
<1> QED BY <1>1, Inductive, PTL

-----------------------------------------------------------------------------
(* The client of the Rust node                                             *)

\* The initial state has the types TypeOK gives.
LEMMA ClientTypeInit == ClientInit => ClientTypeOK
<1> SUFFICES ASSUME ClientInit PROVE ClientTypeOK
  OBVIOUS
<1>1. settled \in [Requests -> Outcomes] /\ sock \in [Sockets -> SocketStates]
  BY DEF ClientInit, Outcomes, SocketStates
<1>2. asked \in [Sockets -> SUBSET Requests] /\ replies \in [Sockets -> SUBSET Requests]
  BY DEF ClientInit
<1>3. stops \in 0..MaxStops /\ drops \in 0..MaxDrops
  BY BoundsAssumption DEF ClientInit
<1> QED BY <1>1, <1>2, <1>3 DEF ClientInit, ClientTypeOK

\* connect() keeps the types of the two variables it may change.
LEMMA ConnectType ==
  ASSUME ClientTypeOK, Connect
  PROVE  ws' \in Sockets \cup {NoSocket} /\ sock' \in [Sockets -> SocketStates]
BY DEF ClientTypeOK, Connect, SocketStates

\* Every step keeps the types.
LEMMA ClientTypeNext == ClientTypeOK /\ [ClientNext]_rustClientVars => ClientTypeOK'
<1> SUFFICES ASSUME ClientTypeOK, [ClientNext]_rustClientVars PROVE ClientTypeOK'
  OBVIOUS
<1> USE DEF ClientTypeOK, wireVars, boundVars, clientVars
<1>1. CASE GatewayStarts
  BY <1>1, ConnectType DEF GatewayStarts
<1>2. CASE ReconnectTick
  BY <1>2, ConnectType DEF ReconnectTick
<1>3. CASE GatewayCloses
  <2>1. stops' \in 0..MaxStops /\ UNCHANGED <<pending, settled, asked, replies, drops>>
    BY <1>3, BoundsAssumption DEF GatewayCloses
  <2>2. sock' \in [Sockets -> SocketStates]
    BY <1>3 DEF GatewayCloses, SocketStates
  <2>3. ws' = NoSocket /\ timer' \in {"null", "running", "stale"} /\ started' = FALSE
    BY <1>3 DEF GatewayCloses
  <2> QED BY <2>1, <2>2, <2>3
<1>4. ASSUME NEW s \in Sockets, OnOpen(s) PROVE ClientTypeOK'
  BY <1>4 DEF OnOpen, SocketStates
<1>5. ASSUME NEW s \in Sockets, Drop(s) PROVE ClientTypeOK'
  BY <1>5, BoundsAssumption DEF Drop, SocketStates
<1>6. ASSUME NEW s \in Sockets, OnClose(s) PROVE ClientTypeOK'
  <2>1. sock' \in [Sockets -> SocketStates]
    BY <1>6 DEF OnClose, SocketStates
  <2>2. asked' \in [Sockets -> SUBSET Requests] /\ replies' \in [Sockets -> SUBSET Requests]
    BY <1>6 DEF OnClose
  <2> QED BY <1>6, <2>1, <2>2 DEF OnClose
<1>7. ASSUME NEW s \in Sockets, NEW r \in Requests, BridgeReply(s, r) PROVE ClientTypeOK'
  BY <1>7 DEF BridgeReply
<1>8. ASSUME NEW s \in Sockets, NEW r \in Requests, OnReply(s, r) PROVE ClientTypeOK'
  BY <1>8 DEF OnReply, Outcomes
<1>9. ASSUME NEW r \in Requests, Call(r) PROVE ClientTypeOK'
  BY <1>9 DEF Call, Outcomes
<1>10. ASSUME NEW r \in Requests, OnTimeout(r) PROVE ClientTypeOK'
  BY <1>10 DEF OnTimeout, Outcomes
<1>11. CASE UNCHANGED rustClientVars
  BY <1>11 DEF rustClientVars
<1> QED
  BY <1>1, <1>2, <1>3, <1>4, <1>5, <1>6, <1>7, <1>8, <1>9, <1>10, <1>11
     DEF ClientNext, SocketStep

\* Type correctness of every reachable state.
THEOREM ClientTyped == ClientSpec => []ClientTypeOK
<1> QED BY ClientTypeInit, ClientTypeNext, PTL DEF ClientSpec

-----------------------------------------------------------------------------
\* query() and listPeers() keep an entry in pendingRequests exactly while
\* their promise is unsettled.  The invariant is inductive with TypeOK.
THEOREM PendingCorrect == ClientSpec => []PendingMatchesPromises
<1>1. ClientInit => ClientTypeOK /\ PendingMatchesPromises
  BY ClientTypeInit DEF ClientInit, PendingMatchesPromises
<1>2. ClientTypeOK /\ PendingMatchesPromises
      /\ [ClientNext]_rustClientVars => PendingMatchesPromises'
  <2> SUFFICES ASSUME ClientTypeOK, PendingMatchesPromises, [ClientNext]_rustClientVars
               PROVE  PendingMatchesPromises'
    OBVIOUS
  <2> USE DEF ClientTypeOK, PendingMatchesPromises
  <2>1. CASE UNCHANGED <<pending, settled>>
    BY <2>1
  <2>2. ASSUME NEW s \in Sockets, NEW r \in Requests, OnReply(s, r)
        PROVE  PendingMatchesPromises'
    BY <2>2 DEF OnReply
  <2>3. ASSUME NEW r \in Requests, Call(r) PROVE PendingMatchesPromises'
    BY <2>3 DEF Call
  <2>4. ASSUME NEW r \in Requests, OnTimeout(r) PROVE PendingMatchesPromises'
    BY <2>4 DEF OnTimeout
  <2>5. ASSUME GatewayStarts \/ GatewayCloses \/ ReconnectTick PROVE UNCHANGED <<pending, settled>>
    BY <2>5 DEF GatewayStarts, GatewayCloses, ReconnectTick
  <2>6. ASSUME NEW s \in Sockets, OnOpen(s) \/ Drop(s) \/ OnClose(s)
        PROVE  UNCHANGED <<pending, settled>>
    BY <2>6 DEF OnOpen, Drop, OnClose, clientVars
  <2>7. ASSUME NEW s \in Sockets, NEW r \in Requests, BridgeReply(s, r)
        PROVE  UNCHANGED <<pending, settled>>
    BY <2>7 DEF BridgeReply, clientVars
  <2> QED
    BY <2>1, <2>2, <2>3, <2>4, <2>5, <2>6, <2>7 DEF ClientNext, SocketStep, rustClientVars
<1> QED BY <1>1, <1>2, ClientTypeNext, PTL DEF ClientSpec

-----------------------------------------------------------------------------
\* Before the first stop(), every socket that has not reported its close is
\* the one in this.ws.
OthersClosed ==
  stops = 0 => \A s \in Sockets : sock[s] \in {"connecting", "open", "closing"} => ws = s

\* While the gateway has never been closed, the client has one live connection
\* at most.  A socket that is about to close must be counted too: its close
\* event is what clears this.ws.
THEOREM OneSocket == ClientSpec => []OneLiveSocket
<1>1. ClientInit => ClientTypeOK /\ OthersClosed
  BY ClientTypeInit DEF ClientInit, OthersClosed
<1>2. ClientTypeOK /\ OthersClosed /\ [ClientNext]_rustClientVars => OthersClosed'
  <2> SUFFICES ASSUME ClientTypeOK, OthersClosed, [ClientNext]_rustClientVars PROVE OthersClosed'
    OBVIOUS
  <2> USE DEF ClientTypeOK, OthersClosed
  <2>1. CASE UNCHANGED <<ws, sock, stops>>
    BY <2>1
  <2>2. ASSUME Connect, UNCHANGED stops PROVE OthersClosed'
    <3>1. CASE ws # NoSocket
      BY <2>2, <3>1 DEF Connect
    <3>2. CASE ws = NoSocket
      BY <2>2, <3>2, NoSocketAssumption DEF Connect
    <3> QED BY <3>1, <3>2
  <2>3. CASE GatewayStarts \/ ReconnectTick
    BY <2>2, <2>3 DEF GatewayStarts, ReconnectTick, boundVars
  <2>4. CASE GatewayCloses
    BY <2>4 DEF GatewayCloses
  <2>5. ASSUME NEW s \in Sockets, OnOpen(s) \/ Drop(s) PROVE OthersClosed'
    BY <2>5 DEF OnOpen, Drop, clientVars, boundVars
  <2>6. ASSUME NEW s \in Sockets, OnClose(s) PROVE OthersClosed'
    BY <2>6 DEF OnClose, boundVars
  <2>7. ASSUME NEW s \in Sockets, NEW r \in Requests, BridgeReply(s, r) \/ OnReply(s, r)
        PROVE  UNCHANGED <<ws, sock, stops>>
    BY <2>7 DEF BridgeReply, OnReply, clientVars, boundVars
  <2>8. ASSUME NEW r \in Requests, Call(r) \/ OnTimeout(r)
        PROVE  UNCHANGED <<ws, sock, stops>>
    BY <2>8 DEF Call, OnTimeout, boundVars
  <2> QED
    BY <2>1, <2>3, <2>4, <2>5, <2>6, <2>7, <2>8 DEF ClientNext, SocketStep, rustClientVars
<1>3. OthersClosed => OneLiveSocket
  BY DEF OthersClosed, OneLiveSocket
<1> QED BY <1>1, <1>2, <1>3, ClientTypeNext, PTL DEF ClientSpec
-----------------------------------------------------------------------------
\* How the promise of a call stands, by how the client settled it.
LEMMA PromiseOf ==
  ASSUME ClientTypeOK, NEW r \in Requests
  PROVE  /\ settled[r] = "value" => Promise[r] = "answered"
         /\ settled[r] = "null" => Promise[r] = "refused"
         /\ settled[r] \in {"uncalled", "open"} => Promise[r] = settled[r]
BY DEF ClientTypeOK, Promise, Outcomes

\* The same after a step.
LEMMA PromiseOfNext ==
  ASSUME ClientTypeOK', NEW r \in Requests
  PROVE  /\ settled'[r] = "value" => Promise'[r] = "answered"
         /\ settled'[r] = "null" => Promise'[r] = "refused"
         /\ settled'[r] \in {"uncalled", "open"} => Promise'[r] = settled'[r]
BY DEF ClientTypeOK, Promise, Outcomes

\* Ending one open promise is a step of OneShot, whichever way it ends.
LEMMA EndsOne ==
  ASSUME ClientTypeOK, ClientTypeOK', PendingMatchesPromises,
         NEW r \in pending, NEW v \in {"value", "null"},
         settled' = [settled EXCEPT ![r] = v]
  PROVE  Promises!Next
<1> DEFINE p == IF v = "value" THEN "answered" ELSE "refused"
<1>1. r \in Requests /\ settled[r] = "open"
  BY DEF ClientTypeOK, PendingMatchesPromises
<1>2. Promise[r] = "open" /\ Promise'[r] = p
  BY <1>1, PromiseOf, PromiseOfNext DEF ClientTypeOK
<1>3. \A q \in Requests \ {r} : Promise'[q] = Promise[q]
  BY DEF ClientTypeOK, Promise
<1>4. Promise' = [q \in Requests |-> IF q \in {r} THEN p ELSE Promise[q]]
  BY <1>2, <1>3 DEF Promise
<1>5. Promises!End({r})
  BY <1>1, <1>2, <1>4 DEF Promises!End
<1> QED BY <1>1, <1>5 DEF Promises!Next

\* Every step of the client is a step of OneShot or leaves the promises alone.
LEMMA StepImplements ==
  ASSUME ClientTypeOK, ClientTypeOK', PendingMatchesPromises, [ClientNext]_rustClientVars
  PROVE  [Promises!Next]_Promise
<1>1. ASSUME UNCHANGED settled PROVE [Promises!Next]_Promise
  BY <1>1 DEF Promise
<1>2. ASSUME NEW r \in Requests, Call(r) PROVE Promises!Next
  <2> DEFINE p == IF IsConnected THEN "open" ELSE "refused"
  <2>1. settled[r] = "uncalled" /\ settled'[r] = (IF IsConnected THEN "open" ELSE "null")
    BY <1>2 DEF Call, ClientTypeOK
  <2>2. Promise[r] = "uncalled" /\ Promise'[r] = p
    BY <2>1, PromiseOf, PromiseOfNext
  <2>3. \A q \in Requests \ {r} : settled'[q] = settled[q]
    BY <1>2 DEF Call, ClientTypeOK
  <2>4. Promise' = [Promise EXCEPT ![r] = p]
    BY <2>2, <2>3 DEF Promise
  <2>5. Promises!Call(r)
    BY <2>2, <2>4 DEF Promises!Call
  <2> QED BY <2>5 DEF Promises!Next
<1>3. ASSUME NEW r \in Requests, OnTimeout(r) PROVE Promises!Next
  BY <1>3, EndsOne DEF OnTimeout
<1>4. ASSUME NEW s \in Sockets, NEW r \in Requests, OnReply(s, r)
      PROVE  [Promises!Next]_Promise
  BY <1>1, <1>4, EndsOne DEF OnReply
<1>5. ASSUME NEW s \in Sockets, OnOpen(s) \/ Drop(s) \/ OnClose(s)
      PROVE  UNCHANGED settled
  BY <1>5 DEF OnOpen, Drop, OnClose, clientVars
<1>6. ASSUME NEW s \in Sockets, NEW r \in Requests, BridgeReply(s, r)
      PROVE  UNCHANGED settled
  BY <1>6 DEF BridgeReply, clientVars
<1>7. ASSUME GatewayStarts \/ GatewayCloses \/ ReconnectTick PROVE UNCHANGED settled
  BY <1>7 DEF GatewayStarts, GatewayCloses, ReconnectTick
<1>8. CASE UNCHANGED rustClientVars
  BY <1>1, <1>8 DEF rustClientVars
<1> QED
  BY <1>1, <1>2, <1>3, <1>4, <1>5, <1>6, <1>7, <1>8 DEF ClientNext, SocketStep

\* Every call of query() or listPeers() is a one-shot promise: refused at once
\* or opened, and an open one is settled once.  That it is settled at all is
\* the fair half of KeepsPromises.
THEOREM Implements == ClientSpec => Promises!Safe
<1>1. ClientInit => Promises!Init
  BY DEF ClientInit, Promises!Init, Promise
<1> QED
  BY <1>1, StepImplements, ClientTyped, PendingCorrect, PTL DEF ClientSpec, Promises!Safe
=============================================================================
