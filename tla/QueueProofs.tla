---------------------------- MODULE QueueProofs -----------------------------
(***************************************************************************)
(* Proofs about the two queues in src/infra.  DeliveryQueue, for any       *)
(* deliveries, payloads, crashes, delays and limits: the types, that       *)
(* nothing is lost, that retries are bounded, and that a failed entry is   *)
(* not sent again.                                                         *)
(* HeartbeatWake, for any targets, requests, priorities and handlers: the  *)
(* types, that no wake is forgotten or stranded, and that batches do not   *)
(* overlap unless a new handler has overtaken one.                         *)
(***************************************************************************)
EXTENDS DeliveryQueue, HeartbeatWake, FiniteSetTheorems, TLAPS

-----------------------------------------------------------------------------
(* The delivery queue                                                      *)

\* The entry a busy worker is at.
LEMMA BusyEntry ==
  ASSUME TypeOK, NEW w \in Workers, job[w].pc \notin {"uncalled", "done"}
  PROVE  job[w].id \in Entries
BY DEF TypeOK, Workers

\* The fields of a worker's job, spelled out.
LEMMA JobType ==
  ASSUME TypeOK, NEW w \in Workers
  PROVE  /\ job[w] \in Job
         /\ job[w].pc \in Steps /\ job[w].id \in Workers
         /\ job[w].next \in 1..NPayloads + 1
         /\ job[w].partial \in BOOLEAN /\ job[w].seen \in Nat
BY DEF TypeOK, Job

\* A delivery that starts is a job.
LEMMA FreshType ==
  ASSUME NEW i \in Workers, NEW pc \in Steps
  PROVE  Fresh(i, pc) \in Job
BY PayloadAssumption DEF Fresh, Job

\* Delays are natural numbers.
LEMMA BackoffType == \A n \in Nat : BackoffFor(n + 1) \in Nat
<1> TAKE n \in Nat
<1>1. Backoff \in Seq(Nat) /\ Len(Backoff) \in Nat \ {0}
  BY RetryAssumption
<1>2. (IF n + 1 <= Len(Backoff) THEN n + 1 ELSE Len(Backoff)) \in 1..Len(Backoff)
  BY <1>1
<1> QED BY <1>1, <1>2 DEF BackoffFor

\* What a step that changes only the job of one worker has to keep.
LEMMA JobUpdate ==
  ASSUME TypeOK, NEW w \in Workers, NEW j \in Job,
         j.id = job[w].id, job[w].pc \notin {"uncalled", "done"},
         job' = [job EXCEPT ![w] = j]
  PROVE  /\ job' \in [Workers -> Job]
         /\ \A e \in Entries : job'[e].id = e
         /\ job'[Recovery].pc \notin {"uncalled", "done"} => job'[Recovery].id \in Entries
<1>1. job \in [Workers -> Job] /\ Recovery \in Workers /\ Entries \subseteq Workers
  BY DEF TypeOK, Workers
<1>2. job' \in [Workers -> Job]
  BY <1>1
<1>3. \A v \in Workers : job'[v].id = job[v].id
  BY <1>1
<1>4. CASE w = Recovery
  BY <1>1, <1>2, <1>3, <1>4, BusyEntry DEF TypeOK
<1>5. CASE w # Recovery
  BY <1>1, <1>2, <1>3, <1>5 DEF TypeOK
<1> QED BY <1>4, <1>5

\* The initial state has the types TypeOK gives.
LEMMA TypeInit == Init => TypeOK
<1> SUFFICES ASSUME Init PROVE TypeOK
  OBVIOUS
<1>1. \A w \in Workers : Fresh(w, "uncalled") \in Job
  BY FreshType DEF Steps
<1>2. Recovery \in Workers /\ Entries \subseteq Workers
  BY DEF Workers
<1>3. job \in [Workers -> Job]
  BY <1>1 DEF Init
<1>4. \A e \in Entries : job[e].id = e
  BY <1>2 DEF Init, Fresh
<1>5. job[Recovery].pc = "uncalled"
  BY <1>2 DEF Init, Fresh
<1>6. /\ place \in [Entries -> Places] /\ mode \in [Entries -> AllModes]
      /\ temp \in [Entries -> Texts]
  BY DEF Init, Places, AllModes, Text, Texts
<1> QED
  BY <1>3, <1>4, <1>5, <1>6, RetryAssumption DEF Init, TypeOK

\* Steps of a delivery in progress.
LEMMA TypeDeliver ==
  ASSUME TypeOK, NEW w \in Workers, Deliver(w)
  PROVE  TypeOK'
<1>0. job[w] \in Job /\ job[w].next \in 1..NPayloads + 1 /\ NPayloads \in Nat
  BY JobType, PayloadAssumption
<1> DEFINE Jobs == /\ job' \in [Workers -> Job]
                   /\ \A e \in Entries : job'[e].id = e
                   /\ job'[Recovery].pc \notin {"uncalled", "done"}
                        => job'[Recovery].id \in Entries
<1>1. \A pc \in Steps : Fresh(job[w].id, pc) \in Job
  BY FreshType, JobType
<1>2. ASSUME NEW pc \in Steps, job[w].pc \notin {"uncalled", "done"},
             job' = [job EXCEPT ![w] = Fresh(job[w].id, pc)]
      PROVE  Jobs
  <2>1. Fresh(job[w].id, pc).id = job[w].id
    BY DEF Fresh
  <2> QED BY <1>1, <1>2, <2>1, JobUpdate
<1>3. CASE SendNext(w)
  <2>1. job[w].next \in 1..NPayloads /\ job[w].id \in Entries
    BY <1>0, <1>3, BusyEntry DEF SendNext, Sending
  <2>2. sent' \in [Entries -> SUBSET (1..NPayloads)]
    BY <1>3, <2>1 DEF SendNext, TypeOK
  <2>3. [job[w] EXCEPT !.next = @ + 1] \in Job /\ [job[w] EXCEPT !.next = @ + 1].id = job[w].id
    BY <1>0, <2>1 DEF Job
  <2>4. job' = [job EXCEPT ![w] = [job[w] EXCEPT !.next = @ + 1]]
    BY <1>3 DEF SendNext
  <2>5. Jobs
    BY <1>3, <2>3, <2>4, JobUpdate DEF SendNext, Sending
  <2> QED
    BY <1>3, <2>2, <2>5 DEF SendNext, TypeOK, disk, texts, loop
<1>4. CASE PayloadFails(w)
  <2>0. job[w].pc = "send" /\ job[w].next \in 1..NPayloads
    BY <1>0, <1>4 DEF PayloadFails, Sending
  <2>1. CASE mode[job[w].id] = "strict"
    <3>1. PICK pc \in Steps : job' = [job EXCEPT ![w] = Fresh(job[w].id, pc)]
      <4>1. job' = [job EXCEPT ![w] = Fresh(job[w].id, Settle(w, "failRead"))]
        BY <1>4, <2>1 DEF PayloadFails
      <4>2. Settle(w, "failRead") \in Steps
        BY DEF Settle, Steps
      <4> QED BY <4>1, <4>2
    <3>2. Jobs
      BY <1>2, <2>0, <3>1
    <3> QED BY <1>4, <3>2 DEF PayloadFails, TypeOK, disk, texts, loop
  <2>2. CASE mode[job[w].id] # "strict"
    <3> DEFINE q == Noted(w)
               j == [job[w] EXCEPT !.next = @ + 1, !.partial = q]
    <3>1. q \in BOOLEAN
      BY Zenon DEF Noted
    <3>2. job' = [job EXCEPT ![w] = j]
      BY <1>4, <2>2, Zenon DEF PayloadFails
    <3> HIDE DEF q
    <3>3. j \in Job /\ j.id = job[w].id
      <4>1. job[w].next + 1 \in 1..NPayloads + 1
        BY <1>0, <2>0
      <4> QED BY <1>0, <3>1, <4>1 DEF Job
    <3> HIDE DEF j
    <3>4. Jobs
      BY <2>0, <3>2, <3>3, JobUpdate
    <3> QED BY <1>4, <3>4 DEF PayloadFails, TypeOK, disk, texts, loop
  <2> QED BY <2>1, <2>2
<1>5. CASE Abort(w)
  <2>1. PICK pc \in Steps : job' = [job EXCEPT ![w] = Fresh(job[w].id, pc)]
    BY <1>5 DEF Abort, Leave, Settle, Steps
  <2>2. Jobs
    BY <1>2, <1>5, <2>1 DEF Abort, Sending
  <2> QED
    BY <1>5, <2>2 DEF Abort, TypeOK, disk, texts, loop
<1>6. CASE OutsideFails(w)
  <2>1. PICK pc \in Steps : job' = [job EXCEPT ![w] = Fresh(job[w].id, pc)]
    BY <1>6 DEF OutsideFails, Leave, Settle, Steps
  <2>2. Jobs
    BY <1>2, <1>6, <2>1 DEF OutsideFails
  <2> QED
    BY <1>6, <2>2 DEF OutsideFails, TypeOK, disk, texts, loop
<1>7. CASE Finish(w)
  <2>1. PICK pc \in Steps : job' = [job EXCEPT ![w] = Fresh(job[w].id, pc)]
    BY <1>7 DEF Finish, Leave, Settle, Steps
  <2>2. Jobs
    BY <1>2, <1>7, <2>1 DEF Finish
  <2> QED
    BY <1>7, <2>2 DEF Finish, TypeOK, disk, texts, loop
<1>8. CASE Ack(w)
  <2>1. Jobs
    BY <1>2, <1>8 DEF Ack, Leave, Steps
  <2>2. job[w].id \in Entries
    BY <1>8, BusyEntry DEF Ack
  <2>3. place' \in [Entries -> Places]
    BY <1>8, <2>2 DEF Ack, TypeOK, Places
  <2> QED
    BY <1>8, <2>1, <2>3 DEF Ack, TypeOK, loop, texts
<1>9. CASE AckFails(w)
  <2>1. PICK pc \in Steps : job' = [job EXCEPT ![w] = Fresh(job[w].id, pc)]
    BY <1>9 DEF AckFails, Leave, Steps
  <2>2. Jobs
    BY <1>2, <1>9, <2>1 DEF AckFails
  <2> QED
    BY <1>9, <2>2 DEF AckFails, TypeOK, disk, texts, loop
<1>10. CASE FailRead(w)
  <2>1. job[w].id \in Entries
    BY <1>10, BusyEntry DEF FailRead
  <2>2. retry[job[w].id] \in Nat
    BY <2>1 DEF TypeOK
  <2>3. Jobs
    <3>1. CASE place[job[w].id] = "queue" /\ job[w].id \notin torn
      <4> DEFINE j == [job[w] EXCEPT !.pc = "failWrite", !.seen = retry[job[w].id]]
      <4>1. job' = [job EXCEPT ![w] = j]
        BY <1>10, <3>1 DEF FailRead
      <4>2. j \in Job /\ j.id = job[w].id
        BY <1>0, <2>2 DEF Job, Steps
      <4> HIDE DEF j
      <4> QED BY <1>10, <4>1, <4>2, JobUpdate DEF FailRead
    <3>2. CASE ~(place[job[w].id] = "queue" /\ job[w].id \notin torn)
      BY <1>2, <1>10, <3>2 DEF FailRead, Steps
    <3> QED BY <3>1, <3>2
  <2> QED
    BY <1>10, <2>3 DEF FailRead, TypeOK, disk, texts, loop
<1>11. ASSUME NEW pc \in Steps, job[w].pc \notin {"uncalled", "done"},
              job' = [job EXCEPT ![w].pc = pc]
       PROVE  Jobs
  <2> DEFINE j == [job[w] EXCEPT !.pc = pc]
  <2>1. job' = [job EXCEPT ![w] = j]
    BY <1>11
  <2>2. j \in Job /\ j.id = job[w].id
    BY <1>0 DEF Job
  <2> HIDE DEF j
  <2> QED BY <1>11, <2>1, <2>2, JobUpdate
<1>12. /\ \A n \in Nat : Whole(n) \in Texts
       /\ Text("none") \in Texts /\ Text("blank") \in Texts /\ Text("torn") \in Texts
  BY DEF Whole, Text, Texts
<1>13. CASE FailOpen(w)
  <2>1. Jobs
    BY <1>11, <1>13 DEF FailOpen, Steps
  <2>2. job[w].id \in Entries
    BY <1>13, BusyEntry DEF FailOpen
  <2>3. temp' \in [Entries -> Texts] /\ clashed' \subseteq Entries
    BY <1>12, <1>13, <2>2 DEF FailOpen, TypeOK
  <2> QED
    BY <1>13, <2>1, <2>3 DEF FailOpen, TypeOK, loop
<1>14. CASE FailFill(w)
  <2>1. Jobs
    BY <1>11, <1>14 DEF FailFill, Steps
  <2>2. job[w].id \in Entries /\ Whole(job[w].seen + 1) \in Texts
    BY <1>12, <1>14, BusyEntry, JobType DEF FailFill
  <2>3. temp' \in [Entries -> Texts]
    BY <1>12, <1>14, <2>2 DEF FailFill, TypeOK
  <2> QED
    BY <1>14, <2>1, <2>3 DEF FailFill, TypeOK, loop
<1>15. CASE FailFillInPlace(w)
  <2>1. Jobs
    BY <1>2, <1>15 DEF FailFillInPlace, Leave, Steps
  <2>2. job[w].id \in Entries /\ job[w].seen \in Nat
    BY <1>15, BusyEntry, JobType DEF FailFillInPlace
  <2>3. retry' \in [Entries -> Nat] /\ torn' \subseteq Entries
    BY <1>15, <2>2 DEF FailFillInPlace, TypeOK
  <2> QED
    BY <1>15, <2>1, <2>3 DEF FailFillInPlace, TypeOK, loop
<1>16. CASE FailRename(w)
  <2>1. Jobs
    BY <1>2, <1>16 DEF FailRename, Leave, Steps
  <2>2. job[w].id \in Entries
    BY <1>16, BusyEntry DEF FailRename
  <2>3. CASE UNCHANGED disk
    BY <1>16, <2>1, <2>3 DEF FailRename, TypeOK, loop, disk, texts
  <2>4. CASE UNCHANGED <<since, clashed>> /\ ~UNCHANGED disk
    <3>1. temp[job[w].id] \in Texts /\ temp[job[w].id].retry \in Nat
      BY <2>2 DEF TypeOK, Texts
    <3>2. /\ place' \in [Entries -> Places] /\ retry' \in [Entries -> Nat]
          /\ torn' \subseteq Entries /\ temp' \in [Entries -> Texts]
      BY <1>12, <1>16, <2>2, <2>4, <3>1 DEF FailRename, TypeOK, Places
    <3> QED BY <1>16, <2>1, <2>4, <3>2 DEF FailRename, TypeOK, loop
  <2> QED BY <1>16, <2>3, <2>4 DEF FailRename
<1>17. CASE FailUpdateFails(w)
  <2>1. Jobs
    BY <1>2, <1>17 DEF FailUpdateFails, Leave, Steps
  <2>2. CASE UNCHANGED disk
    BY <1>17, <2>1, <2>2 DEF FailUpdateFails, TypeOK, disk, texts, loop
  <2>3. CASE UNCHANGED <<place, retry, since, clashed>> /\ ~UNCHANGED disk
    <3>1. job[w].id \in Entries
      BY <1>17, BusyEntry DEF FailUpdateFails
    <3>2. torn' \subseteq Entries /\ temp' \in [Entries -> Texts]
      BY <1>12, <1>17, <2>3, <3>1 DEF FailUpdateFails, TypeOK
    <3> QED BY <1>17, <2>1, <2>3, <3>2 DEF FailUpdateFails, TypeOK, loop
  <2> QED BY <1>17, <2>2, <2>3 DEF FailUpdateFails
<1> QED
  BY <1>3, <1>4, <1>5, <1>6, <1>7, <1>8, <1>9, <1>10, <1>13, <1>14, <1>15, <1>16, <1>17
     DEF Deliver, FailUpdate

\* Every step keeps the types: deliveries in progress, calls, the recovery,
\* restarts and crashes.
LEMMA TypeNext == TypeOK /\ [Next]_vars => TypeOK'
<1> SUFFICES ASSUME TypeOK, [Next]_vars PROVE TypeOK'
  OBVIOUS
<1>0. Recovery \in Workers /\ Entries \subseteq Workers /\ Recovery \notin Entries
      /\ job \in [Workers -> Job]
  BY RecoveryAssumption DEF Workers, TypeOK
<1>1. ASSUME NEW e \in Entries, NEW m \in Modes, Call(e, m) PROVE TypeOK'
  <2>1. Persisted \subseteq Entries /\ Cardinality(Persisted) \in Nat
    BY EntriesAssumption, FS_Subset, FS_CardinalityType DEF Persisted
  <2>2. place' \in [Entries -> Places] /\ since' \in [Entries -> Nat]
    BY <1>1, <2>1 DEF Call, TypeOK, Places
  <2>3. Fresh(e, "send") \in Job
    BY <1>0, FreshType DEF Steps
  <2>4. job' = [job EXCEPT ![e] = Fresh(e, "send")]
    BY <1>1 DEF Call
  <2>5. job' \in [Workers -> Job] /\ \A v \in Workers \ {e} : job'[v] = job[v]
    BY <1>0, <2>3, <2>4
  <2>6. job'[e].id = e
    BY <1>0, <2>4 DEF Fresh
  <2>7. mode' \in [Entries -> AllModes]
    BY <1>1, ModeAssumption DEF Call, TypeOK
  <2> QED
    BY <1>0, <1>1, <2>2, <2>5, <2>6, <2>7 DEF Call, TypeOK, loop, texts
<1>2. ASSUME NEW w \in Workers, Deliver(w) PROVE TypeOK'
  BY <1>2, TypeDeliver
<1>3. CASE RecoveryLoad
  <2>1. todo' \subseteq Loaded
    BY <1>3 DEF RecoveryLoad, Loaded, TypeOK
  <2> QED
    BY <1>3, <2>1 DEF RecoveryLoad, TypeOK, disk, texts
<1>4. CASE RecoveryEnds
  BY <1>4 DEF RecoveryEnds, TypeOK, disk, texts
<1>5. ASSUME NEW x \in todo, GiveUp(x) PROVE TypeOK'
  <2>1. x.id \in Entries
    BY DEF TypeOK, Loaded
  <2>2. place' \in [Entries -> Places]
    BY <1>5, <2>1 DEF GiveUp, TypeOK, Places
  <2> QED
    BY <1>5, <2>2 DEF GiveUp, TypeOK, texts
<1>6. ASSUME NEW x \in todo, Retry(x) PROVE TypeOK'
  <2>1. x.id \in Entries /\ x.retry \in Nat
    BY DEF TypeOK, Loaded
  <2>2. Fresh(x.id, "send") \in Job
    BY <1>0, <2>1, FreshType DEF Steps
  <2>3. job' = [job EXCEPT ![Recovery] = Fresh(x.id, "send")]
    BY <1>6 DEF Retry
  <2>4. job' \in [Workers -> Job] /\ \A e \in Entries : job'[e] = job[e]
    BY <1>0, <2>2, <2>3
  <2>5. job'[Recovery].id = x.id
    BY <1>0, <2>3 DEF Fresh
  <2>6. elapsed' \in Nat
    BY <1>6, <2>1, BackoffType DEF Retry, TypeOK
  <2> QED
    BY <1>6, <2>1, <2>4, <2>5, <2>6 DEF Retry, TypeOK, disk, texts
<1>7. ASSUME NewProcess, crashes' \in 0..MaxCrashes PROVE TypeOK'
  <2>1. job' = [w \in Workers |->
                  Fresh(w, IF job[w].pc = "uncalled" THEN "uncalled" ELSE "done")]
    BY <1>7 DEF NewProcess
  <2>2. \A w \in Workers :
          Fresh(w, IF job[w].pc = "uncalled" THEN "uncalled" ELSE "done") \in Job
    BY FreshType DEF Steps
  <2>3. job' \in [Workers -> Job]
    BY <2>1, <2>2
  <2>4. \A e \in Entries : job'[e].id = e
    BY <1>0, <2>1 DEF Fresh
  <2>5. job'[Recovery].pc \in {"uncalled", "done"}
    BY <1>0, <2>1 DEF Fresh
  <2>6. temp' \in [Entries -> Texts]
    BY <1>7 DEF NewProcess, Text, Texts
  <2> QED
    BY <1>7, <2>3, <2>4, <2>5, <2>6 DEF NewProcess, TypeOK
<1>8. CASE Restart
  BY <1>7, <1>8 DEF Restart, TypeOK
<1>9. CASE Crash
  <2>1. crashes' \in 0..MaxCrashes
    BY <1>9, RetryAssumption DEF Crash, TypeOK
  <2> QED BY <1>7, <1>9, <2>1 DEF Crash
<1>10. CASE UNCHANGED vars
  BY <1>10 DEF vars, TypeOK
<1> QED
  BY <1>1, <1>2, <1>3, <1>4, <1>5, <1>6, <1>8, <1>9, <1>10 DEF Next, RecoveryLoop

\* Type correctness of every reachable state.
THEOREM Typed == Spec => []TypeOK
<1> QED BY TypeInit, TypeNext, PTL DEF Spec

-----------------------------------------------------------------------------
\* Only what was persisted is queued, loaded, retried or settled.
Settling == {"ack", "failRead", "failWrite", "failFill", "failRename"}
Known ==
  /\ \A e \in Entries : job[e].pc = "uncalled" => e \notin Persisted
  /\ \A e \in Entries : place[e] # "nowhere" => e \in Persisted
  /\ \A x \in todo : x.id \in Persisted
  /\ job[Recovery].pc \notin {"uncalled", "done"} => job[Recovery].id \in Persisted
  /\ \A w \in Workers : job[w].pc \in Settling => job[w].id \in Persisted

\* What a delivery without bestEffort has sent at each of its steps.
Progress ==
  \A w \in Workers :
    job[w].pc \notin {"uncalled", "done"} /\ mode[job[w].id] = "strict" =>
      /\ job[w].pc = "send" => 1..(job[w].next - 1) \subseteq sent[job[w].id]
      /\ job[w].pc = "ack" => AllSent(job[w].id) \/ job[w].id \in aborted

\* The effect every step of a delivery has outside its own progress.
LEMMA DeliverFrame ==
  ASSUME TypeOK, NEW w \in Workers, Deliver(w)
  PROVE  /\ since' = since /\ mode' = mode /\ todo' = todo
         /\ aborted \subseteq aborted'
         /\ \A e \in Entries : sent[e] \subseteq sent'[e]
         /\ job[w].pc \notin {"uncalled", "done"}
         /\ \A v \in Workers \ {w} : job'[v] = job[v]
         /\ job'[w].id = job[w].id /\ job'[w].pc # "uncalled"
<1>0. job \in [Workers -> Job] /\ job[w] \in Job /\ sent \in [Entries -> SUBSET (1..NPayloads)]
  BY DEF TypeOK
<1>1. CASE SendNext(w)
  <2>1. job[w].pc = "send" /\ job[w].id \in Entries
    BY <1>1, BusyEntry DEF SendNext, Sending
  <2>2. job' = [job EXCEPT ![w] = [job[w] EXCEPT !.next = @ + 1]]
    BY <1>1 DEF SendNext
  <2>3. job'[w].id = job[w].id /\ job'[w].pc = "send"
    BY <1>0, <2>1, <2>2 DEF Job
  <2>4. \A v \in Workers \ {w} : job'[v] = job[v]
    BY <1>0, <2>2
  <2>5. \A e \in Entries : sent[e] \subseteq sent'[e]
    BY <1>0, <1>1, <2>1 DEF SendNext
  <2> QED BY <1>1, <2>1, <2>3, <2>4, <2>5 DEF SendNext, disk, texts, loop
<1>2. CASE PayloadFails(w)
  <2>1. job[w].pc = "send"
    BY <1>2 DEF PayloadFails, Sending
  <2>2. CASE mode[job[w].id] = "strict"
    <3>1. job' = [job EXCEPT ![w] = Fresh(job[w].id, Settle(w, "failRead"))]
      BY <1>2, <2>2 DEF PayloadFails
    <3>2. Settle(w, "failRead") # "uncalled"
      BY DEF Settle
    <3>3. job'[w].id = job[w].id /\ job'[w].pc # "uncalled"
      BY <1>0, <3>1, <3>2 DEF Fresh
    <3> QED BY <1>0, <1>2, <2>1, <3>1, <3>3 DEF PayloadFails, disk, texts, loop
  <2>3. CASE mode[job[w].id] # "strict"
    <3> DEFINE j == [job[w] EXCEPT !.next = @ + 1, !.partial = Noted(w)]
    <3>1. job' = [job EXCEPT ![w] = j]
      BY <1>2, <2>3 DEF PayloadFails
    <3>2. j.id = job[w].id /\ j.pc = job[w].pc
      BY <1>0 DEF Job
    <3> HIDE DEF j
    <3> QED BY <1>0, <1>2, <2>1, <3>1, <3>2 DEF PayloadFails, disk, texts, loop
  <2> QED BY <2>2, <2>3
<1>3. ASSUME NEW pc \in Steps \ {"uncalled"}, job[w].pc \notin {"uncalled", "done"},
             job' = [job EXCEPT ![w] = Fresh(job[w].id, pc)]
      PROVE  /\ \A v \in Workers \ {w} : job'[v] = job[v]
             /\ job'[w].id = job[w].id /\ job'[w].pc # "uncalled"
  BY <1>0, <1>3 DEF Fresh
<1>4. CASE Abort(w)
  <2>1. PICK pc \in Steps \ {"uncalled"} :
          job' = [job EXCEPT ![w] = Fresh(job[w].id, pc)]
    <3>1. job' = [job EXCEPT ![w] = Fresh(job[w].id, Settle(w, "ack"))]
      BY <1>4 DEF Abort, Leave
    <3>2. Settle(w, "ack") \in Steps \ {"uncalled"}
      BY DEF Settle, Steps
    <3> QED BY <3>1, <3>2
  <2>2. job[w].pc = "send"
    BY <1>4 DEF Abort, Sending
  <2> QED BY <1>3, <1>4, <2>1, <2>2 DEF Abort, disk, texts, loop
<1>5. CASE OutsideFails(w)
  <2>1. PICK pc \in Steps \ {"uncalled"} :
          job' = [job EXCEPT ![w] = Fresh(job[w].id, pc)]
    BY <1>5 DEF OutsideFails, Leave, Settle, Steps
  <2> QED BY <1>3, <1>5, <2>1 DEF OutsideFails, disk, texts, loop
<1>6. CASE Finish(w)
  <2>1. PICK pc \in Steps \ {"uncalled"} :
          job' = [job EXCEPT ![w] = Fresh(job[w].id, pc)]
    <3> DEFINE pc == Settle(w, IF job[w].partial THEN "failRead" ELSE "ack")
    <3>1. job' = [job EXCEPT ![w] = Fresh(job[w].id, pc)]
      BY <1>6 DEF Finish, Leave
    <3>2. pc \in Steps \ {"uncalled"}
      BY DEF Settle, Steps
    <3> HIDE DEF pc
    <3> QED BY <3>1, <3>2
  <2> QED BY <1>3, <1>6, <2>1 DEF Finish, disk, texts, loop
<1>7. CASE Ack(w)
  BY <1>3, <1>7 DEF Ack, Leave, Steps, loop
<1>8. CASE AckFails(w)
  <2>1. PICK pc \in Steps \ {"uncalled"} :
          job' = [job EXCEPT ![w] = Fresh(job[w].id, pc)]
    BY <1>8 DEF AckFails, Leave, Steps
  <2> QED BY <1>3, <1>8, <2>1 DEF AckFails, disk, texts, loop
<1>9. CASE FailRead(w)
  <2>1. CASE place[job[w].id] = "queue" /\ job[w].id \notin torn
    <3> DEFINE j == [job[w] EXCEPT !.pc = "failWrite", !.seen = retry[job[w].id]]
    <3>1. job' = [job EXCEPT ![w] = j]
      BY <1>9, <2>1 DEF FailRead
    <3>2. j.id = job[w].id /\ j.pc = "failWrite"
      BY <1>0 DEF Job
    <3> HIDE DEF j
    <3> QED BY <1>0, <1>9, <3>1, <3>2 DEF FailRead, disk, texts, loop
  <2>2. CASE ~(place[job[w].id] = "queue" /\ job[w].id \notin torn)
    BY <1>3, <1>9, <2>2 DEF FailRead, Steps, disk, texts, loop
  <2> QED BY <2>1, <2>2
<1>10. ASSUME NEW pc \in Steps \ {"uncalled"}, job' = [job EXCEPT ![w].pc = pc]
       PROVE  /\ \A v \in Workers \ {w} : job'[v] = job[v]
              /\ job'[w].id = job[w].id /\ job'[w].pc # "uncalled"
  BY <1>0, <1>10 DEF Job
<1>11. CASE FailOpen(w)
  BY <1>10, <1>11 DEF FailOpen, Steps, loop
<1>12. CASE FailFill(w)
  BY <1>10, <1>12 DEF FailFill, Steps, loop
<1>13. CASE FailFillInPlace(w)
  BY <1>3, <1>13 DEF FailFillInPlace, Leave, Steps, loop
<1>14. CASE FailRename(w)
  BY <1>3, <1>14 DEF FailRename, Leave, Steps, disk, texts, loop
<1>15. CASE FailUpdateFails(w)
  BY <1>3, <1>15 DEF FailUpdateFails, Leave, Steps, disk, texts, loop
<1> QED
  BY <1>1, <1>2, <1>4, <1>5, <1>6, <1>7, <1>8, <1>9, <1>11, <1>12, <1>13, <1>14, <1>15
     DEF Deliver, FailUpdate

\* A delivery in progress settles only the entry it has had all along.
LEMMA KnownDeliver ==
  ASSUME TypeOK, Known, NEW w \in Workers, Deliver(w)
  PROVE  Known'
<1>1. /\ since' = since /\ todo' = todo /\ Persisted' = Persisted
      /\ job[w].pc \notin {"uncalled", "done"} /\ job[w].id \in Entries
      /\ \A v \in Workers \ {w} : job'[v] = job[v]
      /\ job'[w].id = job[w].id /\ job'[w].pc # "uncalled"
  BY DeliverFrame, BusyEntry DEF Persisted
<1>2. Entries \subseteq Workers /\ \A e \in Entries : job[e].id = e
  BY DEF Workers, TypeOK
<1>3. \A e \in Entries : job'[e].pc = "uncalled" => e \notin Persisted
  BY <1>1, <1>2 DEF Known
<1>4. job[w].pc \in Settling => job[w].id \in Persisted
  BY DEF Known
<1>5. \A e \in Entries : place'[e] # "nowhere" => e \in Persisted
  <2>1. CASE Ack(w)
    BY <1>1, <2>1 DEF Ack, Known, TypeOK
  <2>2. CASE FailRename(w)
    BY <1>1, <1>4, <2>2 DEF FailRename, Known, TypeOK, Settling, disk
  <2>3. CASE place' = place
    BY <2>3 DEF Known
  <2> QED
    BY <2>1, <2>2, <2>3 DEF Deliver, FailUpdate, SendNext, PayloadFails, Abort, OutsideFails,
       Finish, AckFails, FailRead, FailOpen, FailFill, FailFillInPlace, FailUpdateFails, disk
<1>6. job'[Recovery].pc \notin {"uncalled", "done"} => job'[Recovery].id \in Persisted
  BY <1>1 DEF Known, Workers
<1>7. \A v \in Workers : job'[v].pc \in Settling => job'[v].id \in Persisted
  <2>1. CASE job[w].id \in Persisted
    BY <1>1, <2>1 DEF Known
  <2>2. CASE job[w].id \notin Persisted
    <3>1. w # Recovery /\ job[w].id = w /\ w \notin Persisted
      BY <1>1, <1>2, <2>2 DEF Known, Workers
    <3>2. job[w].pc = "send"
      BY <1>1, <1>4, <2>2, JobType DEF Steps, Settling
    <3>3. Settle(w, "ack") = "done" /\ Settle(w, "failRead") = "done"
          /\ Settle(w, IF job[w].partial THEN "failRead" ELSE "ack") = "done"
      BY <3>1 DEF Settle
    <3>4. job'[w].pc \in {"send", "done"}
      <4>1. job \in [Workers -> Job] /\ job[w] \in Job
        BY DEF TypeOK
      <4>2. CASE SendNext(w)
        <5>1. job' = [job EXCEPT ![w] = [job[w] EXCEPT !.next = @ + 1]]
          BY <4>2 DEF SendNext
        <5> QED BY <3>2, <4>1, <5>1 DEF Job
      <4>3. CASE PayloadFails(w)
        <5>1. CASE mode[job[w].id] = "strict"
          BY <3>3, <4>1, <4>3, <5>1 DEF PayloadFails, Fresh
        <5>2. CASE mode[job[w].id] # "strict"
          <6> DEFINE j == [job[w] EXCEPT !.next = @ + 1, !.partial = Noted(w)]
          <6>1. job' = [job EXCEPT ![w] = j]
            BY <4>3, <5>2 DEF PayloadFails
          <6>2. j.pc = job[w].pc
            BY <4>1 DEF Job
          <6> HIDE DEF j
          <6> QED BY <3>2, <4>1, <6>1, <6>2
        <5> QED BY <5>1, <5>2
      <4>4. CASE Abort(w)
        BY <3>3, <4>1, <4>4 DEF Abort, Leave, Fresh
      <4>5. CASE OutsideFails(w)
        BY <3>3, <4>1, <4>5 DEF OutsideFails, Leave, Fresh
      <4>6. CASE Finish(w)
        BY <3>3, <4>1, <4>6 DEF Finish, Leave, Fresh
      <4> QED
        BY <3>2, <4>2, <4>3, <4>4, <4>5, <4>6 DEF Deliver, FailUpdate, Ack, AckFails, FailRead,
           FailOpen, FailFill, FailFillInPlace, FailRename, FailUpdateFails
    <3> QED BY <1>1, <3>4 DEF Known, Settling
  <2> QED BY <2>1, <2>2
<1> QED BY <1>1, <1>3, <1>5, <1>6, <1>7 DEF Known

\* Every step keeps it: an entry is persisted before any worker knows it.
LEMMA KnownNext == TypeOK /\ Known /\ [Next]_vars => Known'
<1> SUFFICES ASSUME TypeOK, Known, [Next]_vars PROVE Known'
  OBVIOUS
<1>0. /\ Recovery \in Workers /\ Entries \subseteq Workers /\ Recovery \notin Entries
      /\ job \in [Workers -> Job] /\ since \in [Entries -> Nat]
      /\ place \in [Entries -> Places]
      /\ \A e \in Entries : job[e].id = e
  BY RecoveryAssumption DEF Workers, TypeOK
<1>1. ASSUME NEW e \in Entries, NEW m \in Modes, Call(e, m) PROVE Known'
  <2>1. job' = [job EXCEPT ![e] = Fresh(e, "send")] /\ todo' = todo
    BY <1>1 DEF Call, loop
  <2>2. job'[e].pc = "send" /\ \A v \in Workers \ {e} : job'[v] = job[v]
    BY <1>0, <2>1 DEF Fresh
  <2>3. /\ Persisted \subseteq Persisted'
        /\ \A d \in Entries \ {e} : place'[d] = place[d] /\ (d \in Persisted' <=> d \in Persisted)
        /\ place'[e] # "nowhere" => e \in Persisted'
    <3>1. CASE UNCHANGED <<place, since>>
      BY <3>1 DEF Persisted, Known
    <3>2. CASE /\ place' = [place EXCEPT ![e] = "queue"]
               /\ since' = [since EXCEPT ![e] = Cardinality(Persisted) + 1]
      <4>1. Cardinality(Persisted) + 1 \in Nat \ {0}
        BY EntriesAssumption, FS_Subset, FS_CardinalityType DEF Persisted
      <4>2. since'[e] > 0 /\ \A d \in Entries \ {e} : since'[d] = since[d]
        BY <1>0, <3>2, <4>1
      <4>3. \A d \in Entries \ {e} : place'[d] = place[d]
        BY <1>0, <3>2
      <4> QED BY <4>2, <4>3 DEF Persisted
    <3> QED BY <1>1, <3>1, <3>2 DEF Call
  <2> QED BY <1>0, <2>1, <2>2, <2>3 DEF Known, Settling
<1>2. ASSUME NEW w \in Workers, Deliver(w) PROVE Known'
  BY <1>2, KnownDeliver
<1>3. CASE RecoveryLoad
  BY <1>3 DEF RecoveryLoad, disk, texts, Known, Persisted
<1>4. CASE RecoveryEnds
  BY <1>4 DEF RecoveryEnds, disk, texts, Known, Persisted
<1>5. ASSUME NEW x \in todo, GiveUp(x) PROVE Known'
  <2>1. \A e \in Entries : place'[e] # "nowhere" => e \in Persisted
    BY <1>0, <1>5 DEF GiveUp, Known
  <2> QED BY <1>5, <2>1 DEF GiveUp, Known, Persisted
<1>6. ASSUME NEW x \in todo, Retry(x) PROVE Known'
  <2>1. job' = [job EXCEPT ![Recovery] = Fresh(x.id, "send")]
    BY <1>6 DEF Retry
  <2>2. job'[Recovery].pc = "send" /\ job'[Recovery].id = x.id
    BY <1>0, <2>1 DEF Fresh
  <2>3. \A v \in Workers \ {Recovery} : job'[v] = job[v]
    BY <1>0, <2>1
  <2>4. place' = place /\ Persisted' = Persisted /\ todo' \subseteq todo
    BY <1>6 DEF Retry, disk, texts, Persisted
  <2> QED BY <1>0, <2>2, <2>3, <2>4 DEF Known, Settling
<1>7. CASE NewProcess
  <2>1. \A w \in Workers :
          job'[w].pc = IF job[w].pc = "uncalled" THEN "uncalled" ELSE "done"
    BY <1>7 DEF NewProcess, Fresh
  <2>2. place' = place /\ Persisted' = Persisted /\ todo' = {}
    BY <1>7 DEF NewProcess, Persisted
  <2> QED BY <1>0, <2>1, <2>2 DEF Known, Settling
<1>8. CASE UNCHANGED vars
  BY <1>8 DEF vars, Known, Persisted
<1> QED
  BY <1>1, <1>2, <1>3, <1>4, <1>5, <1>6, <1>7, <1>8
     DEF Next, RecoveryLoop, Restart, Crash

\* A delivery goes on to the next payload only when it has sent this one.
LEMMA ProgressDeliver ==
  ASSUME TypeOK, TypeOK', Progress, NEW w \in Workers, Deliver(w)
  PROVE  Progress'
<1> DEFINE Kept(v) ==
      job'[v].pc \notin {"uncalled", "done"} /\ mode[job'[v].id] = "strict" =>
        /\ job'[v].pc = "send" => 1..(job'[v].next - 1) \subseteq sent'[job'[v].id]
        /\ job'[v].pc = "ack" => sent'[job'[v].id] = 1..NPayloads \/ job'[v].id \in aborted'
<1>1. /\ mode' = mode /\ aborted \subseteq aborted'
      /\ \A e \in Entries : sent[e] \subseteq sent'[e]
      /\ job[w].pc \notin {"uncalled", "done"} /\ job[w].id \in Entries
      /\ \A v \in Workers \ {w} : job'[v] = job[v]
      /\ job'[w].id = job[w].id
  BY DeliverFrame, BusyEntry
<1>2. /\ job \in [Workers -> Job] /\ job[w] \in Job
      /\ job[w].next \in 1..NPayloads + 1 /\ NPayloads \in Nat \ {0}
      /\ sent \in [Entries -> SUBSET (1..NPayloads)]
      /\ sent' \in [Entries -> SUBSET (1..NPayloads)]
  BY JobType, PayloadAssumption DEF TypeOK
<1>3. \A e \in Entries : AllSent(e) => sent'[e] = 1..NPayloads
  BY <1>1, <1>2 DEF AllSent
<1>4. ASSUME NEW v \in Workers \ {w} PROVE Kept(v)
  <2>1. job[v].pc \notin {"uncalled", "done"} => job[v].id \in Entries
    BY BusyEntry
  <2> QED BY <1>1, <1>3, <2>1 DEF Progress
<1>5. Kept(w)
  <2> SUFFICES ASSUME job'[w].pc \in {"send", "ack"}, mode[job[w].id] = "strict"
               PROVE  /\ job'[w].pc = "send" => 1..(job'[w].next - 1) \subseteq sent'[job[w].id]
                      /\ job'[w].pc = "ack" => \/ sent'[job[w].id] = 1..NPayloads
                                               \/ job[w].id \in aborted'
    BY <1>1
  <2>1. /\ job[w].pc = "send" => 1..(job[w].next - 1) \subseteq sent[job[w].id]
        /\ job[w].pc = "ack" => AllSent(job[w].id) \/ job[w].id \in aborted
    BY <1>1 DEF Progress
  <2>2. CASE SendNext(w)
    <3>1. job' = [job EXCEPT ![w] = [job[w] EXCEPT !.next = @ + 1]]
      BY <2>2 DEF SendNext
    <3>2. job'[w].next = job[w].next + 1 /\ job'[w].pc = "send"
      BY <1>2, <2>2, <3>1 DEF SendNext, Sending, Job
    <3>3. sent'[job[w].id] = sent[job[w].id] \cup {job[w].next}
      BY <1>1, <1>2, <2>2 DEF SendNext
    <3>4. 1..(job[w].next + 1 - 1) = 1..(job[w].next - 1) \cup {job[w].next}
      BY <1>2
    <3> QED BY <2>1, <2>2, <3>2, <3>3, <3>4 DEF SendNext, Sending
  <2>3. CASE PayloadFails(w)
    <3>1. job' = [job EXCEPT ![w] = Fresh(job[w].id, Settle(w, "failRead"))]
      BY <2>3 DEF PayloadFails
    <3>2. job'[w].pc \in {"failRead", "done"}
      BY <1>2, <3>1 DEF Settle, Fresh
    <3> QED BY <3>2
  <2>4. CASE Abort(w)
    <3>1. job' = [job EXCEPT ![w] = Fresh(job[w].id, Settle(w, "ack"))]
      BY <2>4 DEF Abort, Leave
    <3>2. job'[w].pc \in {"ack", "done"}
      BY <1>2, <3>1 DEF Settle, Fresh
    <3>3. job[w].id \in aborted'
      BY <2>4 DEF Abort, TypeOK
    <3> QED BY <3>2, <3>3
  <2>5. CASE OutsideFails(w)
    <3>1. job' = [job EXCEPT ![w] = Fresh(job[w].id, Settle(w, "failRead"))]
      BY <2>5 DEF OutsideFails, Leave
    <3>2. job'[w].pc \in {"failRead", "done"}
      BY <1>2, <3>1 DEF Settle, Fresh
    <3> QED BY <3>2
  <2>6. CASE Finish(w)
    <3>1. job[w].next - 1 = NPayloads /\ job[w].pc = "send"
      BY <1>2, <2>6 DEF Finish
    <3>2. AllSent(job[w].id)
      BY <1>1, <1>2, <2>1, <3>1 DEF AllSent
    <3> DEFINE pc == Settle(w, IF job[w].partial THEN "failRead" ELSE "ack")
    <3>3. job' = [job EXCEPT ![w] = Fresh(job[w].id, pc)]
      BY <2>6 DEF Finish, Leave
    <3>4. pc # "send"
      BY DEF Settle
    <3> HIDE DEF pc
    <3>5. job'[w].pc # "send"
      BY <1>2, <3>3, <3>4 DEF Fresh
    <3> QED BY <1>1, <1>3, <3>2, <3>5
  <2>7. ASSUME Ack(w) \/ AckFails(w) \/ FailFillInPlace(w) \/ FailRename(w) \/ FailUpdateFails(w)
        PROVE  job'[w].pc \notin {"send", "ack"}
    <3>1. PICK pc \in {"done", "failRead"} :
            job' = [job EXCEPT ![w] = Fresh(job[w].id, pc)]
      BY <2>7 DEF Ack, AckFails, FailFillInPlace, FailRename, FailUpdateFails, Leave
    <3> QED BY <1>2, <3>1 DEF Fresh
  <2>9. ASSUME FailOpen(w) \/ FailFill(w)
        PROVE  job'[w].pc \notin {"send", "ack"}
    <3>1. PICK pc \in {"failFill", "failRename"} : job' = [job EXCEPT ![w].pc = pc]
      BY <2>9 DEF FailOpen, FailFill
    <3> QED BY <1>2, <3>1 DEF Job
  <2>8. CASE FailRead(w)
    <3>1. CASE place[job[w].id] = "queue" /\ job[w].id \notin torn
      <4> DEFINE j == [job[w] EXCEPT !.pc = "failWrite", !.seen = retry[job[w].id]]
      <4>1. job' = [job EXCEPT ![w] = j]
        BY <2>8, <3>1 DEF FailRead
      <4>2. j.pc = "failWrite"
        BY <1>2 DEF Job
      <4> HIDE DEF j
      <4> QED BY <1>2, <4>1, <4>2
    <3>2. CASE ~(place[job[w].id] = "queue" /\ job[w].id \notin torn)
      <4>1. job' = [job EXCEPT ![w] = Fresh(job[w].id, "done")]
        BY <2>8, <3>2 DEF FailRead
      <4> QED BY <1>2, <4>1 DEF Fresh
    <3> QED BY <3>1, <3>2
  <2> QED
    BY <2>2, <2>3, <2>4, <2>5, <2>6, <2>7, <2>8, <2>9 DEF Deliver, FailUpdate
<1>6. \A v \in Workers : Kept(v)
  BY <1>4, <1>5
<1> QED BY <1>1, <1>6 DEF Progress, AllSent

\* Every step keeps the progress: whoever starts a delivery starts at its
\* first payload.
LEMMA ProgressNext ==
  TypeOK /\ TypeOK' /\ Known /\ Progress /\ [Next]_vars => Progress'
<1> SUFFICES ASSUME TypeOK, TypeOK', Known, Progress, [Next]_vars PROVE Progress'
  OBVIOUS
<1>0. /\ Recovery \in Workers /\ Entries \subseteq Workers /\ Recovery \notin Entries
      /\ job \in [Workers -> Job] /\ mode \in [Entries -> AllModes]
      /\ \A e \in Entries : job[e].id = e
      /\ 1..(1 - 1) = {}
  BY RecoveryAssumption DEF Workers, TypeOK
<1>1. ASSUME NEW e \in Entries, NEW m \in Modes, Call(e, m) PROVE Progress'
  <2>1. job' = [job EXCEPT ![e] = Fresh(e, "send")] /\ mode' = [mode EXCEPT ![e] = m]
        /\ sent' = sent /\ aborted' = aborted
    BY <1>1 DEF Call
  <2>2. /\ job'[e].pc = "send" /\ job'[e].next = 1 /\ job'[e].id = e
        /\ \A v \in Workers \ {e} : job'[v] = job[v]
    BY <1>0, <2>1 DEF Fresh
  <2>3. \A v \in Workers \ {e} :
          job[v].pc \notin {"uncalled", "done"} => job[v].id \in Entries \ {e}
    BY <1>0, <1>1, BusyEntry DEF Call, Known, Workers
  <2>4. \A d \in Entries \ {e} : mode'[d] = mode[d]
    BY <1>0, <2>1
  <2> SUFFICES ASSUME NEW v \in Workers,
                      job'[v].pc \notin {"uncalled", "done"}, mode'[job'[v].id] = "strict"
               PROVE  /\ job'[v].pc = "send" => 1..(job'[v].next - 1) \subseteq sent[job'[v].id]
                      /\ job'[v].pc = "ack" => sent[job'[v].id] = 1..NPayloads
                                              \/ job'[v].id \in aborted
    BY <2>1 DEF Progress, AllSent
  <2>5. CASE v = e
    BY <1>0, <2>2, <2>5
  <2>6. CASE v # e
    BY <2>2, <2>3, <2>4, <2>6 DEF Progress, AllSent
  <2> QED BY <2>5, <2>6
<1>2. ASSUME NEW w \in Workers, Deliver(w) PROVE Progress'
  BY <1>2, ProgressDeliver
<1>3. CASE RecoveryLoad
  BY <1>3 DEF RecoveryLoad, Progress, AllSent
<1>4. CASE RecoveryEnds
  BY <1>4 DEF RecoveryEnds, Progress, AllSent
<1>5. ASSUME NEW x \in todo, GiveUp(x) PROVE Progress'
  BY <1>5 DEF GiveUp, Progress, AllSent
<1>6. ASSUME NEW x \in todo, Retry(x) PROVE Progress'
  <2>1. job' = [job EXCEPT ![Recovery] = Fresh(x.id, "send")]
        /\ mode' = mode /\ sent' = sent /\ aborted' = aborted
    BY <1>6 DEF Retry
  <2>2. /\ job'[Recovery].pc = "send" /\ job'[Recovery].next = 1
        /\ \A v \in Workers \ {Recovery} : job'[v] = job[v]
    BY <1>0, <2>1 DEF Fresh
  <2> QED BY <1>0, <2>1, <2>2 DEF Progress, AllSent
<1>7. CASE NewProcess
  <2>1. \A w \in Workers : job'[w].pc \in {"uncalled", "done"}
    BY <1>7 DEF NewProcess, Fresh
  <2> QED BY <2>1 DEF Progress
<1>8. CASE UNCHANGED vars
  BY <1>8 DEF vars, Progress, AllSent
<1> QED
  BY <1>1, <1>2, <1>3, <1>4, <1>5, <1>6, <1>7, <1>8
     DEF Next, RecoveryLoop, Restart, Crash

-----------------------------------------------------------------------------
\* Only an acknowledgement takes an entry out of the queue.
Placed ==
  \A e \in Persisted :
    mode[e] = "strict" /\ place[e] = "nowhere" => AllSent(e) \/ e \in aborted

\* Every step keeps that.
LEMMA LossNext ==
  TypeOK /\ Known /\ Progress /\ Placed /\ [Next]_vars => Placed'
<1> SUFFICES ASSUME TypeOK, Known, Progress, Placed, [Next]_vars
             PROVE  Placed'
  OBVIOUS
<1>0. /\ place \in [Entries -> Places] /\ mode \in [Entries -> AllModes]
      /\ since \in [Entries -> Nat] /\ sent \in [Entries -> SUBSET (1..NPayloads)]
      /\ \A e \in Entries : job[e].id = e
  BY DEF TypeOK
<1>1. ASSUME NEW e \in Entries, NEW m \in Modes, Call(e, m) PROVE Placed'
  <2>1. /\ mode' = [mode EXCEPT ![e] = m] /\ sent' = sent /\ aborted' = aborted
        /\ e \notin Persisted
    BY <1>1 DEF Call, Known
  <2>2. CASE UNCHANGED <<place, since>>
    BY <1>0, <2>1, <2>2 DEF Placed, Persisted, AllSent
  <2>3. CASE /\ place' = [place EXCEPT ![e] = "queue"]
             /\ since' = [since EXCEPT ![e] = Cardinality(Persisted) + 1]
    BY <1>0, <2>1, <2>3 DEF Placed, Persisted, AllSent
  <2> QED BY <1>1, <2>2, <2>3 DEF Call
<1>2. ASSUME NEW w \in Workers, Deliver(w) PROVE Placed'
  <2>1. /\ since' = since /\ mode' = mode /\ aborted \subseteq aborted'
        /\ \A e \in Entries : sent[e] \subseteq sent'[e]
        /\ job[w].id \in Entries /\ job[w].pc \notin {"uncalled", "done"}
    BY <1>2, DeliverFrame, BusyEntry
  <2>2. \A e \in Entries : AllSent(e) => AllSent(e)'
    <3>1. sent' \in [Entries -> SUBSET (1..NPayloads)]
      BY <1>2, TypeDeliver DEF TypeOK
    <3> QED BY <1>0, <2>1, <3>1 DEF AllSent
  <2>3. CASE Ack(w)
    <3>1. mode[job[w].id] = "strict" => AllSent(job[w].id) \/ job[w].id \in aborted
      BY <2>1, <2>3 DEF Ack, Progress
    <3>2. \A e \in Entries \ {job[w].id} : place'[e] = place[e]
      BY <1>0, <2>1, <2>3 DEF Ack
    <3> QED BY <2>1, <2>2, <3>1, <3>2 DEF Placed, Persisted
  <2>4. CASE FailRename(w)
    <3>1. \A e \in Entries : place'[e] = "nowhere" => place[e] = "nowhere"
      BY <1>0, <2>1, <2>4 DEF FailRename, disk
    <3> QED BY <2>1, <2>2, <3>1 DEF Placed, Persisted
  <2>5. CASE place' = place
    BY <2>1, <2>2, <2>5 DEF Placed, Persisted
  <2> QED
    BY <1>2, <2>3, <2>4, <2>5 DEF Deliver, FailUpdate, SendNext, PayloadFails, Abort,
       OutsideFails, Finish, AckFails, FailRead, FailOpen, FailFill, FailFillInPlace,
       FailUpdateFails, disk
<1>3. CASE RecoveryLoad
  BY <1>3 DEF RecoveryLoad, disk, Placed, Persisted, AllSent
<1>4. CASE RecoveryEnds
  BY <1>4 DEF RecoveryEnds, disk, Placed, Persisted, AllSent
<1>5. ASSUME NEW x \in todo, GiveUp(x) PROVE Placed'
  <2>1. \A e \in Entries : place'[e] = "nowhere" => place[e] = "nowhere"
    BY <1>0, <1>5 DEF GiveUp
  <2> QED BY <1>5, <2>1 DEF GiveUp, Placed, Persisted, AllSent
<1>6. ASSUME NEW x \in todo, Retry(x) PROVE Placed'
  BY <1>6 DEF Retry, disk, Placed, Persisted, AllSent
<1>7. CASE NewProcess
  BY <1>7 DEF NewProcess, disk, Placed, Persisted, AllSent
<1>8. CASE UNCHANGED vars
  BY <1>8 DEF vars, Placed, Persisted, AllSent
<1> QED
  BY <1>1, <1>2, <1>3, <1>4, <1>5, <1>6, <1>7, <1>8
     DEF Next, RecoveryLoop, Restart, Crash

\* An entry of which no two updates have overlapped parses, and one worker at
\* most has its temporary file, which holds what that worker has written.
Apart ==
  \A e \in Entries : e \notin clashed =>
    /\ e \notin torn
    /\ \A v, w \in Workers : Updating(v, e) /\ Updating(w, e) => v = w
    /\ \A w \in Workers :
         /\ job[w].id = e /\ job[w].pc = "failFill" => temp[e].text = "blank"
         /\ job[w].id = e /\ job[w].pc = "failRename" => temp[e].text = "whole"

\* A worker that is not at an update leaves the texts alone and does not come
\* to have a temporary file.
LEMMA TextsFrame ==
  ASSUME TypeOK, NEW w \in Workers, Deliver(w),
         job[w].pc \notin {"failWrite", "failFill", "failRename"}
  PROVE  UNCHANGED texts /\ job'[w].pc \notin {"failFill", "failRename"}
<1>0. job \in [Workers -> Job] /\ job[w] \in Job
  BY DEF TypeOK
<1>1. ASSUME NEW pc \in Steps \ {"failFill", "failRename"},
             job' = [job EXCEPT ![w] = Fresh(job[w].id, pc)]
      PROVE  job'[w].pc \notin {"failFill", "failRename"}
  BY <1>0, <1>1 DEF Fresh
<1>2. CASE SendNext(w)
  <2>1. job' = [job EXCEPT ![w] = [job[w] EXCEPT !.next = @ + 1]]
    BY <1>2 DEF SendNext
  <2>2. job'[w].pc = "send"
    BY <1>0, <1>2, <2>1 DEF SendNext, Sending, Job
  <2> QED BY <1>2, <2>2 DEF SendNext, disk
<1>3. CASE PayloadFails(w)
  <2>1. CASE mode[job[w].id] = "strict"
    <3>1. job' = [job EXCEPT ![w] = Fresh(job[w].id, Settle(w, "failRead"))]
      BY <1>3, <2>1 DEF PayloadFails
    <3>2. Settle(w, "failRead") \in Steps \ {"failFill", "failRename"}
      BY DEF Settle, Steps
    <3>3. job'[w].pc \notin {"failFill", "failRename"}
      BY <1>1, <3>1, <3>2
    <3> QED BY <1>3, <3>3 DEF PayloadFails, disk
  <2>2. CASE mode[job[w].id] # "strict"
    <3> DEFINE j == [job[w] EXCEPT !.next = @ + 1, !.partial = Noted(w)]
    <3>1. job' = [job EXCEPT ![w] = j]
      BY <1>3, <2>2 DEF PayloadFails
    <3>2. j.pc = job[w].pc
      BY <1>0 DEF Job
    <3> HIDE DEF j
    <3>3. job'[w].pc = "send"
      BY <1>0, <1>3, <3>1, <3>2 DEF PayloadFails, Sending
    <3> QED BY <1>3, <3>3 DEF PayloadFails, disk
  <2> QED BY <2>1, <2>2
<1>4. CASE Abort(w) \/ OutsideFails(w) \/ Finish(w) \/ AckFails(w)
  <2>1. PICK pc \in Steps \ {"failFill", "failRename"} :
          job' = [job EXCEPT ![w] = Fresh(job[w].id, pc)]
    <3>1. \A pc \in Steps : Settle(w, pc) \in {pc, "done"}
      BY DEF Settle
    <3> QED BY <1>4, <3>1 DEF Abort, OutsideFails, Finish, AckFails, Leave, Steps
  <2> QED BY <1>1, <1>4, <2>1 DEF Abort, OutsideFails, Finish, AckFails, disk
<1>5. CASE Ack(w)
  BY <1>1, <1>5 DEF Ack, Leave, Steps
<1>6. CASE FailRead(w)
  <2>1. CASE place[job[w].id] = "queue" /\ job[w].id \notin torn
    <3> DEFINE j == [job[w] EXCEPT !.pc = "failWrite", !.seen = retry[job[w].id]]
    <3>1. job' = [job EXCEPT ![w] = j]
      BY <1>6, <2>1 DEF FailRead
    <3>2. j.pc = "failWrite"
      BY <1>0 DEF Job
    <3> HIDE DEF j
    <3> QED BY <1>0, <1>6, <3>1, <3>2 DEF FailRead, disk
  <2>2. CASE ~(place[job[w].id] = "queue" /\ job[w].id \notin torn)
    BY <1>1, <1>6, <2>2 DEF FailRead, Steps, disk
  <2> QED BY <2>1, <2>2
<1>7. CASE FailUpdateFails(w)
  BY <1>1, <1>7 DEF FailUpdateFails, Leave, Steps, disk
<1> QED
  BY <1>2, <1>3, <1>4, <1>5, <1>6, <1>7 DEF Deliver, FailUpdate, FailOpen, FailFill,
     FailFillInPlace, FailRename

\* An update that finds the temporary file in use notes the clash; one that
\* does not has the file to itself until it is renamed.
LEMMA ApartDeliver ==
  ASSUME TypeOK, Apart, NEW w \in Workers, Deliver(w)
  PROVE  Apart'
<1>f. PICK f \in Entries : f = job[w].id
  BY DeliverFrame, BusyEntry
<1>0. /\ f = job[w].id /\ job \in [Workers -> Job] /\ job[w] \in Job
      /\ temp \in [Entries -> Texts]
      /\ \A v \in Workers \ {w} : job'[v] = job[v]
      /\ job'[w].id = f
  BY <1>f, DeliverFrame DEF TypeOK
<1> DEFINE Good(e) ==
      /\ e \notin torn'
      /\ \A v, u \in Workers : Updating(v, e)' /\ Updating(u, e)' => v = u
      /\ \A v \in Workers :
           /\ job'[v].id = e /\ job'[v].pc = "failFill" => temp'[e].text = "blank"
           /\ job'[v].id = e /\ job'[v].pc = "failRename" => temp'[e].text = "whole"
<1>1. ASSUME NEW e \in Entries, e \notin clashed,
             e # f \/ job'[w].pc \notin {"failFill", "failRename"},
             e \notin torn', temp'[e] = temp[e]
      PROVE  Good(e)
  BY <1>0, <1>1 DEF Apart, Updating
<1>2. ASSUME NEW e \in Entries, e \notin clashed, UNCHANGED texts,
             job'[w].pc \notin {"failFill", "failRename"}
      PROVE  Good(e)
  <2>1. temp'[e] = temp[e] /\ e \notin torn'
    BY <1>2 DEF Apart, texts
  <2> QED BY <1>1, <1>2, <2>1
<1>3. CASE job[w].pc \notin {"failWrite", "failFill", "failRename"}
  <2>1. UNCHANGED texts /\ job'[w].pc \notin {"failFill", "failRename"}
    BY <1>3, TextsFrame
  <2>2. \A e \in Entries : e \notin clashed' => Good(e)
    BY <1>2, <2>1 DEF texts
  <2> QED BY <2>2 DEF Apart
<1>4. CASE FailOpen(w)
  <2>1. /\ job[w].pc = "failWrite" /\ job'[w].pc = "failFill" /\ torn' = torn
        /\ temp' = [temp EXCEPT ![f] = Text("blank")] /\ clashed \subseteq clashed'
        /\ (\E v \in Workers \ {w} : Updating(v, f)) => f \in clashed'
    BY <1>0, <1>4 DEF FailOpen, Job
  <2>2. ASSUME NEW e \in Entries, e \notin clashed', e # f PROVE Good(e)
    <3>1. temp'[e] = temp[e] /\ e \notin torn'
      BY <1>0, <2>1, <2>2 DEF Apart
    <3> QED BY <1>1, <2>1, <2>2, <3>1
  <2>3. ASSUME f \notin clashed' PROVE Good(f)
    <3>1. \A v \in Workers \ {w} : ~Updating(v, f)'
      BY <1>0, <2>1, <2>3 DEF Updating
    <3>2. temp'[f].text = "blank" /\ f \notin torn'
      BY <1>0, <2>1, <2>3 DEF Apart, Text
    <3> QED BY <2>1, <3>1, <3>2 DEF Updating
  <2>4. \A e \in Entries : e \notin clashed' => Good(e)
    BY <2>2, <2>3
  <2> QED BY <2>4 DEF Apart
<1>5. CASE FailFill(w)
  <2>1. /\ job[w].pc = "failFill" /\ job'[w].pc = "failRename" /\ UNCHANGED <<torn, clashed>>
        /\ \/ temp' = [temp EXCEPT ![f] = Whole(job[w].seen + 1)]
           \/ temp[f].text # "blank" /\ temp' = [temp EXCEPT ![f] = Text("torn")]
    BY <1>0, <1>5 DEF FailFill, Job
  <2>2. ASSUME NEW e \in Entries, e \notin clashed, e # f PROVE Good(e)
    <3>1. temp'[e] = temp[e] /\ e \notin torn'
      BY <1>0, <2>1, <2>2 DEF Apart
    <3> QED BY <1>1, <2>1, <2>2, <3>1
  <2>3. ASSUME f \notin clashed PROVE Good(f)
    <3>0. Updating(w, f) /\ temp[f].text = "blank"
      BY <1>0, <2>1, <2>3 DEF Apart, Updating
    <3>1. \A v \in Workers \ {w} : ~Updating(v, f)'
      BY <1>0, <2>3, <3>0 DEF Apart, Updating
    <3>2. temp'[f].text = "whole" /\ f \notin torn'
      BY <1>0, <2>1, <2>3, <3>0 DEF Apart, Whole
    <3> QED BY <2>1, <3>1, <3>2 DEF Updating
  <2>4. \A e \in Entries : e \notin clashed' => Good(e)
    BY <2>1, <2>2, <2>3
  <2> QED BY <2>4 DEF Apart
<1>6. CASE FailFillInPlace(w) \/ FailRename(w)
           \/ (FailUpdateFails(w) /\ job[w].pc \in {"failWrite", "failFill", "failRename"})
  <2>1. /\ job'[w].pc = "done" /\ clashed' = clashed
        /\ \A e \in Entries \ {f} : temp'[e] = temp[e] /\ (e \in torn' <=> e \in torn)
    BY <1>0, <1>6 DEF FailFillInPlace, FailRename, FailUpdateFails, Leave, Fresh, disk, texts
  <2>2. ASSUME NEW e \in Entries, e \notin clashed, e # f PROVE Good(e)
    <3>1. temp'[e] = temp[e] /\ e \notin torn'
      BY <2>1, <2>2 DEF Apart
    <3> QED BY <1>1, <2>1, <2>2, <3>1
  <2>3. ASSUME f \notin clashed PROVE Good(f)
    <3>0. /\ job[w].pc = "failFill" => temp[f].text = "blank"
          /\ job[w].pc = "failRename" => temp[f].text = "whole"
          /\ f \notin torn
      BY <1>0, <2>3 DEF Apart
    <3>1. f \notin torn'
      BY <1>0, <1>6, <3>0 DEF FailFillInPlace, FailRename, FailUpdateFails, disk, texts
    <3>2. CASE temp'[f] = temp[f]
      BY <1>1, <2>1, <2>3, <3>1, <3>2
    <3>3. CASE Updating(w, f)
      <4>1. \A v \in Workers \ {w} : ~Updating(v, f)'
        BY <1>0, <2>3, <3>3 DEF Apart, Updating
      <4> QED BY <2>1, <3>1, <4>1 DEF Updating
    <3>4. temp'[f] = temp[f] \/ Updating(w, f)
      BY <1>0, <1>6 DEF FailFillInPlace, FailRename, FailUpdateFails, Updating, disk, texts
    <3> QED BY <3>2, <3>3, <3>4
  <2>4. \A e \in Entries : e \notin clashed' => Good(e)
    BY <2>1, <2>2, <2>3
  <2> QED BY <2>4 DEF Apart
<1> QED
  BY <1>3, <1>4, <1>5, <1>6 DEF Deliver, FailUpdate, SendNext, PayloadFails, Abort,
     OutsideFails, Finish, Ack, AckFails, FailRead, Sending

\* Every step keeps updates apart or notes the clash: a new process has none.
LEMMA ApartNext == TypeOK /\ Apart /\ [Next]_vars => Apart'
<1> SUFFICES ASSUME TypeOK, Apart, [Next]_vars PROVE Apart'
  OBVIOUS
<1>0. /\ Recovery \in Workers /\ Entries \subseteq Workers
      /\ job \in [Workers -> Job]
  BY DEF Workers, TypeOK
<1>1. ASSUME NEW v \in Workers, NEW j, j.pc = "send",
             job' = [job EXCEPT ![v] = j], UNCHANGED texts
      PROVE  Apart'
  <2>1. job'[v].pc = "send" /\ \A u \in Workers \ {v} : job'[u] = job[u]
    BY <1>0, <1>1
  <2>2. \A u \in Workers : /\ job'[u].pc \in {"failFill", "failRename"} => job'[u] = job[u]
    BY <2>1
  <2> QED BY <1>1, <2>2 DEF Apart, Updating, texts
<1>2. ASSUME NEW e \in Entries, NEW m \in Modes, Call(e, m) PROVE Apart'
  <2>1. Fresh(e, "send").pc = "send"
    BY DEF Fresh
  <2> QED BY <1>0, <1>1, <1>2, <2>1 DEF Call
<1>3. ASSUME NEW w \in Workers, Deliver(w) PROVE Apart'
  BY <1>3, ApartDeliver
<1>4. ASSUME UNCHANGED <<job, texts>> PROVE Apart'
  BY <1>4 DEF Apart, Updating, texts
<1>5. ASSUME NEW x \in todo, Retry(x) PROVE Apart'
  <2>1. Fresh(x.id, "send").pc = "send"
    BY DEF Fresh
  <2> QED BY <1>0, <1>1, <1>5, <2>1 DEF Retry, disk
<1>6. CASE NewProcess
  <2>1. \A w \in Workers : job'[w].pc \in {"uncalled", "done"}
    BY <1>6 DEF NewProcess, Fresh
  <2>2. UNCHANGED <<torn, clashed>>
    BY <1>6 DEF NewProcess
  <2> QED BY <2>1, <2>2 DEF Apart, Updating
<1> QED
  BY <1>2, <1>3, <1>4, <1>5, <1>6 DEF Next, RecoveryLoop, RecoveryLoad, RecoveryEnds,
     GiveUp, Restart, Crash, disk, vars, texts

\* A persisted delivery without bestEffort stays in the queue or in failed/
\* until every payload has been sent or an AbortError has ended it, and its
\* entry can be read unless two updates of it have had its temporary file at
\* once, whatever the crashes, retries and failures.
THEOREM Lossless == Spec => []NothingLost
<1>1. Init => Known /\ Progress /\ Placed /\ Apart
  <2> SUFFICES ASSUME Init PROVE Known /\ Progress /\ Placed /\ Apart
    OBVIOUS
  <2>1. Entries \subseteq Workers /\ Recovery \in Workers
    BY DEF Workers
  <2>2. \A w \in Workers : job[w].pc = "uncalled"
    BY DEF Init, Fresh
  <2>3. /\ Persisted = {} /\ todo = {} /\ torn = {}
        /\ \A e \in Entries : place[e] = "nowhere"
    BY DEF Init, Persisted
  <2> QED
    BY <2>1, <2>2, <2>3 DEF Known, Progress, Placed, Apart, Updating, Settling
<1>2. TypeOK /\ TypeOK' /\ Known /\ Progress /\ Placed /\ Apart /\ [Next]_vars
        => Known' /\ Progress' /\ Placed' /\ Apart'
  BY KnownNext, ProgressNext, LossNext, ApartNext
<1>3. Placed /\ Apart => NothingLost
  BY DEF Placed, Apart, NothingLost, Persisted
<1> QED BY Typed, <1>1, <1>2, <1>3, PTL DEF Spec

-----------------------------------------------------------------------------
(* Why retries are bounded.  A live delivery counts one failure at most,   *)
(* in the process that asked for it, when none was counted before; the     *)
(* recovery counts one at most in each process, of an entry that was       *)
(* loaded with fewer than MaxRetries.  If both may still count, there has  *)
(* to be room for two.                                                     *)
Recovering == job[Recovery].pc \notin {"uncalled", "done"}
Live(e) == IF job[e].pc = "done" THEN 0 ELSE 1
Again(e) == IF \/ Recovering /\ job[Recovery].id = e
               \/ \E x \in todo : x.id = e /\ x.retry < MaxRetries
            THEN 1 ELSE 0

\* A worker that has read a number has not yet written it.
Writing == {"failWrite", "failFill"}

\* The recovery has an entry once.
OneEach ==
  /\ phase = "unstarted" => todo = {} /\ ~Recovering
  /\ \A x, y \in todo : x.id = y.id => x = y
  /\ Recovering => \A x \in todo : x.id # job[Recovery].id

\* A live delivery under way when the recovery loads is the first to fail.
Untried ==
  \A e \in Entries :
    /\ job[e].pc = "uncalled" => retry[e] = 0
    /\ phase = "unstarted" /\ job[e].pc # "done" =>
         retry[e] = 0 /\ (job[e].pc \in Writing => job[e].seen = 0)
    /\ phase = "unstarted" => temp[e].retry <= 1

\* There is room for what may still be counted, on top of the number in the
\* file, of the number that somebody has read in order to increase it, and of
\* the number in the temporary file, which counts one of those already.
Room ==
  \A e \in Entries :
    /\ retry[e] + Live(e) + Again(e) <= MaxRetries
    /\ temp[e].retry + Live(e) + Again(e) <= MaxRetries + 1
    /\ \A w \in Workers : job[w].pc \in Writing /\ job[w].id = e =>
         job[w].seen + Live(e) + Again(e) <= MaxRetries

\* What was retried enough has no delivery under way.
Spent ==
  /\ \A x \in todo : x.retry >= MaxRetries => job[x.id].pc = "done"
  /\ \A e \in Entries : place[e] = "failed" =>
       /\ job[e].pc = "done"
       /\ ~(Recovering /\ job[Recovery].id = e)
       /\ \A x \in todo : x.id # e

RetryInv == OneEach /\ Untried /\ Room /\ Spent

\* What a step of a delivery does to the numbers of its entry: one that brings
\* a number into the entry counts what was read or is in the temporary file,
\* and is done; one that writes the temporary file counts what was read; the
\* others leave the numbers alone.
Counts(w, f) ==
  /\ job'[w].pc = "done" /\ place'[f] \in {place[f], "queue"}
  /\ temp'[f].retry \in {temp[f].retry, 0}
  /\ \/ job[w].pc = "failFill" /\ retry'[f] = job[w].seen + 1
     \/ job[w].pc = "failRename" /\ retry'[f] = temp[f].retry
Writes(w, f) ==
  /\ job[w].pc = "failFill" /\ job'[w].pc = "failRename"
  /\ retry'[f] = retry[f] /\ place'[f] = place[f]
  /\ temp'[f].retry \in {job[w].seen + 1, 0}
Leaves(w, f) ==
  /\ retry'[f] = retry[f] /\ place'[f] \in {place[f], "nowhere", "queue"}
  /\ temp'[f].retry \in {temp[f].retry, 0}
  /\ job'[w].pc = "failWrite" => job'[w].seen = retry[f]
  /\ job'[w].pc = "failFill" => job[w].pc = "failWrite" /\ job'[w].seen = job[w].seen

\* A step of a delivery changes the numbers in one of these ways.
LEMMA DeliverCounts ==
  ASSUME TypeOK, NEW w \in Workers, Deliver(w)
  PROVE  /\ phase' = phase
         /\ \A e \in Entries \ {job[w].id} : /\ retry'[e] = retry[e] /\ place'[e] = place[e]
                                             /\ sent'[e] = sent[e] /\ temp'[e] = temp[e]
         /\ Counts(w, job[w].id) \/ Writes(w, job[w].id) \/ Leaves(w, job[w].id)
<1>0. /\ job \in [Workers -> Job] /\ job[w] \in Job /\ job[w].id \in Entries
      /\ job[w].seen \in Nat /\ retry \in [Entries -> Nat]
      /\ place \in [Entries -> Places] /\ sent \in [Entries -> SUBSET (1..NPayloads)]
      /\ temp \in [Entries -> Texts]
  BY DeliverFrame, BusyEntry, JobType DEF TypeOK
<1>1. ASSUME NEW pc, job' = [job EXCEPT ![w] = Fresh(job[w].id, pc)]
      PROVE  job'[w].pc = pc
  BY <1>0, <1>1 DEF Fresh
<1>2. CASE SendNext(w)
  <2>1. job' = [job EXCEPT ![w] = [job[w] EXCEPT !.next = @ + 1]]
    BY <1>2 DEF SendNext
  <2>2. job'[w].pc = "send"
    BY <1>0, <1>2, <2>1 DEF SendNext, Sending, Job
  <2> QED BY <1>0, <1>2, <2>2 DEF SendNext, disk, texts, loop, Leaves
<1>3. CASE PayloadFails(w)
  <2>1. CASE mode[job[w].id] = "strict"
    <3>1. job'[w].pc = Settle(w, "failRead")
      BY <1>1, <1>3, <2>1 DEF PayloadFails
    <3> QED BY <1>3, <3>1 DEF PayloadFails, Settle, disk, texts, loop, Leaves
  <2>2. CASE mode[job[w].id] # "strict"
    <3> DEFINE j == [job[w] EXCEPT !.next = @ + 1, !.partial = Noted(w)]
    <3>1. job' = [job EXCEPT ![w] = j]
      BY <1>3, <2>2 DEF PayloadFails
    <3>2. j.pc = job[w].pc
      BY <1>0 DEF Job
    <3> HIDE DEF j
    <3>3. job'[w].pc = "send"
      BY <1>0, <1>3, <3>1, <3>2 DEF PayloadFails, Sending
    <3> QED BY <1>3, <3>3 DEF PayloadFails, disk, texts, loop, Leaves
  <2> QED BY <2>1, <2>2
<1>4. CASE Abort(w)
  <2>1. job'[w].pc = Settle(w, "ack")
    BY <1>1, <1>4 DEF Abort, Leave
  <2> QED BY <1>4, <2>1 DEF Abort, Settle, disk, texts, loop, Leaves
<1>5. CASE OutsideFails(w)
  <2>1. job'[w].pc = Settle(w, "failRead")
    BY <1>1, <1>5 DEF OutsideFails, Leave
  <2> QED BY <1>5, <2>1 DEF OutsideFails, Settle, disk, texts, loop, Leaves
<1>6. CASE Finish(w)
  <2>1. job'[w].pc = Settle(w, IF job[w].partial THEN "failRead" ELSE "ack")
    BY <1>1, <1>6 DEF Finish, Leave
  <2> QED BY <1>6, <2>1 DEF Finish, Settle, disk, texts, loop, Leaves
<1>7. CASE Ack(w)
  <2>1. job'[w].pc = "done"
    BY <1>1, <1>7 DEF Ack, Leave
  <2> QED BY <1>0, <1>7, <2>1 DEF Ack, texts, loop, Leaves
<1>8. CASE AckFails(w)
  <2>1. job'[w].pc \in {"failRead", "done"}
    BY <1>1, <1>8 DEF AckFails, Leave
  <2> QED BY <1>8, <2>1 DEF AckFails, disk, texts, loop, Leaves
<1>9. CASE FailRead(w)
  <2>1. CASE place[job[w].id] = "queue" /\ job[w].id \notin torn
    <3> DEFINE j == [job[w] EXCEPT !.pc = "failWrite", !.seen = retry[job[w].id]]
    <3>1. job' = [job EXCEPT ![w] = j]
      BY <1>9, <2>1 DEF FailRead
    <3>2. j.seen = retry[job[w].id] /\ j.pc = "failWrite"
      BY <1>0 DEF Job
    <3> HIDE DEF j
    <3> QED BY <1>0, <1>9, <3>1, <3>2 DEF FailRead, disk, texts, loop, Leaves
  <2>2. CASE ~(place[job[w].id] = "queue" /\ job[w].id \notin torn)
    <3>1. job'[w].pc = "done"
      BY <1>1, <1>9, <2>2 DEF FailRead
    <3> QED BY <1>9, <3>1 DEF FailRead, disk, texts, loop, Leaves
  <2> QED BY <2>1, <2>2
<1>10. CASE FailOpen(w)
  <2> DEFINE j == [job[w] EXCEPT !.pc = "failFill"]
  <2>1. job' = [job EXCEPT ![w] = j]
    BY <1>10 DEF FailOpen
  <2>2. j.pc = "failFill" /\ j.seen = job[w].seen
    BY <1>0 DEF Job
  <2> HIDE DEF j
  <2>3. job'[w].pc = "failFill" /\ job'[w].seen = job[w].seen
    BY <1>0, <2>1, <2>2
  <2>4. temp'[job[w].id].retry = 0 /\ \A e \in Entries \ {job[w].id} : temp'[e] = temp[e]
    BY <1>0, <1>10 DEF FailOpen, Text
  <2> QED BY <1>10, <2>3, <2>4 DEF FailOpen, loop, Leaves
<1>11. CASE FailFill(w)
  <2>1. job' = [job EXCEPT ![w] = [job[w] EXCEPT !.pc = "failRename"]]
    BY <1>11 DEF FailFill
  <2>2. job'[w].pc = "failRename"
    BY <1>0, <2>1 DEF Job
  <2>3. /\ temp'[job[w].id].retry \in {job[w].seen + 1, 0}
        /\ \A e \in Entries \ {job[w].id} : temp'[e] = temp[e]
    BY <1>0, <1>11 DEF FailFill, Text, Whole
  <2> QED BY <1>11, <2>2, <2>3 DEF FailFill, loop, Writes
<1>12. CASE FailFillInPlace(w)
  <2>1. job'[w].pc = "done"
    BY <1>1, <1>12 DEF FailFillInPlace, Leave
  <2>2. CASE retry' = retry
    BY <1>12, <2>1, <2>2 DEF FailFillInPlace, loop, Leaves
  <2>3. CASE retry' = [retry EXCEPT ![job[w].id] = job[w].seen + 1]
    BY <1>0, <1>12, <2>1, <2>3 DEF FailFillInPlace, loop, Counts
  <2> QED BY <1>12, <2>2, <2>3 DEF FailFillInPlace
<1>13. CASE FailRename(w)
  <2>1. job'[w].pc = "done"
    BY <1>1, <1>13 DEF FailRename, Leave
  <2>2. CASE UNCHANGED disk
    BY <1>13, <2>1, <2>2 DEF FailRename, disk, texts, loop, Leaves
  <2>3. CASE ~UNCHANGED disk
    <3>1. /\ place' = [place EXCEPT ![job[w].id] = "queue"]
          /\ temp' = [temp EXCEPT ![job[w].id] = Text("none")]
          /\ retry' = IF temp[job[w].id].text = "whole"
                      THEN [retry EXCEPT ![job[w].id] = temp[job[w].id].retry] ELSE retry
          /\ job[w].pc = "failRename" /\ UNCHANGED <<sent, phase>>
      BY <1>13, <2>3 DEF FailRename, loop
    <3>2. /\ place'[job[w].id] = "queue" /\ temp'[job[w].id].retry = 0
          /\ \A e \in Entries \ {job[w].id} : /\ retry'[e] = retry[e] /\ place'[e] = place[e]
                                              /\ temp'[e] = temp[e]
      BY <1>0, <3>1 DEF Text
    <3>3. \/ retry'[job[w].id] = retry[job[w].id]
          \/ retry'[job[w].id] = temp[job[w].id].retry
      BY <1>0, <3>1
    <3> QED BY <2>1, <3>1, <3>2, <3>3 DEF Counts, Leaves
  <2> QED BY <2>2, <2>3
<1>14. CASE FailUpdateFails(w)
  <2>1. job'[w].pc = "done"
    BY <1>1, <1>14 DEF FailUpdateFails, Leave
  <2>2. /\ UNCHANGED <<place, retry, sent, phase>>
        /\ temp' = temp \/ temp' = [temp EXCEPT ![job[w].id] = Text("torn")]
    BY <1>14 DEF FailUpdateFails, disk, texts, loop
  <2>3. /\ temp'[job[w].id].retry \in {temp[job[w].id].retry, 0}
        /\ \A e \in Entries \ {job[w].id} : temp'[e] = temp[e]
    BY <1>0, <2>2 DEF Text
  <2> QED BY <2>1, <2>2, <2>3 DEF Leaves
<1> QED
  BY <1>2, <1>3, <1>4, <1>5, <1>6, <1>7, <1>8, <1>9, <1>10, <1>11, <1>12, <1>13, <1>14
     DEF Deliver, FailUpdate

\* What may still be counted is 0 or 1.
LEMMA Units ==
  \A e : /\ Live(e) \in {0, 1} /\ Again(e) \in {0, 1}
         /\ Live(e)' \in {0, 1} /\ Again(e)' \in {0, 1}
BY DEF Live, Again

\* A step of a delivery keeps the room: it counts what it has the room for.
LEMMA RetryDeliver ==
  ASSUME TypeOK, Known, RetryInv, NEW w \in Workers, Deliver(w)
  PROVE  RetryInv'
<1>f. PICK f \in Entries : job[w].id = f
  BY DeliverFrame, BusyEntry
<1>1. /\ todo' = todo /\ phase' = phase
      /\ job[w].pc \notin {"uncalled", "done"} /\ job[w].id = f
      /\ \A v \in Workers \ {w} : job'[v] = job[v]
      /\ job'[w].id = f /\ job'[w].pc # "uncalled"
  BY <1>f, DeliverFrame, DeliverCounts
<1>2. \A e \in Entries \ {f} : /\ retry'[e] = retry[e] /\ place'[e] = place[e]
                             /\ temp'[e] = temp[e]
  BY <1>f, DeliverCounts
<1>3. Counts(w, f) \/ Writes(w, f) \/ Leaves(w, f)
  BY <1>f, DeliverCounts
<1>4. /\ Recovery \in Workers /\ Entries \subseteq Workers /\ Recovery \notin Entries
      /\ \A e \in Entries : job[e].id = e /\ retry[e] \in Nat /\ temp[e].retry \in Nat
      /\ \A v \in Workers : job[v].seen \in Nat
      /\ MaxRetries \in Nat
      /\ w = f \/ w = Recovery
  BY <1>f, RecoveryAssumption, RetryAssumption, JobType DEF Workers, TypeOK, Texts
<1>5. (Recovering' => Recovering) /\ job'[Recovery].id = job[Recovery].id
  BY <1>1, <1>4 DEF Recovering
<1>6. \A e \in Entries : job[e].pc = "done" => job'[e].pc = "done"
  BY <1>1, <1>4
<1>7. \A e \in Entries : Live(e)' <= Live(e) /\ Again(e)' <= Again(e)
  BY <1>1, <1>5, <1>6 DEF Live, Again
<1>8. OneEach'
  BY <1>1, <1>5 DEF RetryInv, OneEach
<1>9. Untried'
  <2>0. phase = "unstarted" => w = f /\ w # Recovery
    BY <1>1, <1>4 DEF Recovering, RetryInv, OneEach
  <2> SUFFICES ASSUME NEW e \in Entries
               PROVE  /\ job'[e].pc = "uncalled" => retry'[e] = 0
                      /\ phase = "unstarted" /\ job'[e].pc # "done" =>
                           retry'[e] = 0 /\ (job'[e].pc \in Writing => job'[e].seen = 0)
                      /\ phase = "unstarted" => temp'[e].retry <= 1
    BY <1>1 DEF Untried
  <2>1. CASE e # w
    <3>1. job'[e] = job[e]
      BY <1>1, <1>4, <2>1
    <3>2. CASE e # f
      BY <3>1, <3>2, <1>2 DEF RetryInv, Untried
    <3>3. CASE e = f
      <4>1. w = Recovery /\ Recovering
        BY <2>1, <3>3, <1>1, <1>4 DEF Recovering
      <4>2. job[e].pc # "uncalled" /\ phase # "unstarted"
        BY <3>3, <4>1, <1>1 DEF Recovering, Known, RetryInv, OneEach
      <4> QED BY <3>1, <4>2
    <3> QED BY <3>2, <3>3
  <2>2. CASE e = w
    <3>1. e = f /\ job'[e].pc # "uncalled"
      BY <2>2, <1>1, <1>4
    <3> SUFFICES ASSUME phase = "unstarted"
                 PROVE  /\ job'[w].pc # "done" =>
                             retry'[f] = 0 /\ (job'[w].pc \in Writing => job'[w].seen = 0)
                        /\ temp'[f].retry <= 1
      BY <2>2, <3>1
    <3>2. /\ job[w].pc # "done" => retry[f] = 0 /\ (job[w].pc \in Writing => job[w].seen = 0)
          /\ temp[f].retry <= 1
      BY <2>2, <3>1 DEF RetryInv, Untried
    <3>3. CASE Counts(w, f)
      BY <3>2, <3>3, <1>4 DEF Counts
    <3>4. CASE Writes(w, f)
      BY <3>2, <3>4, <1>1, <1>4 DEF Writes, Writing
    <3>5. CASE Leaves(w, f)
      BY <3>2, <3>5, <1>1, <1>4 DEF Leaves, Writing
    <3> QED BY <3>3, <3>4, <3>5, <1>3
  <2> QED BY <2>1, <2>2
<1>10. ASSUME job[w].pc \notin {"uncalled", "done"}, job'[w].pc = "done"
       PROVE  Live(f)' + Again(f)' + 1 <= Live(f) + Again(f)
  <2>1. CASE w = f
    <3>1. Live(f) = 1 /\ Live(f)' = 0
      BY <2>1, <1>10 DEF Live
    <3> QED BY <3>1, <1>1, <1>7, Units
  <2>2. CASE w = Recovery
    <3>1. Recovering /\ ~Recovering'
      BY <2>2, <1>10 DEF Recovering
    <3>2. Again(f) = 1
      BY <3>1, <2>2, <1>1 DEF Again
    <3>3. Again(f)' = 0
      BY <3>1, <2>2, <1>1 DEF Again, RetryInv, OneEach
    <3> QED BY <3>2, <3>3, <1>1, <1>7, Units
  <2> QED BY <2>1, <2>2, <1>4
<1>11. Room'
  <2> SUFFICES ASSUME NEW e \in Entries
               PROVE  /\ retry'[e] + Live(e)' + Again(e)' <= MaxRetries
                      /\ temp'[e].retry + Live(e)' + Again(e)' <= MaxRetries + 1
                      /\ \A v \in Workers : job'[v].pc \in Writing /\ job'[v].id = e =>
                           job'[v].seen + Live(e)' + Again(e)' <= MaxRetries
    BY DEF Room
  <2>1. /\ Live(e) \in {0, 1} /\ Again(e) \in {0, 1}
        /\ Live(e)' \in {0, 1} /\ Again(e)' \in {0, 1}
        /\ Live(e)' <= Live(e) /\ Again(e)' <= Again(e)
    BY <1>7, Units
  <2>2. /\ retry[e] + Live(e) + Again(e) <= MaxRetries
        /\ temp[e].retry + Live(e) + Again(e) <= MaxRetries + 1
        /\ \A v \in Workers : job[v].pc \in Writing /\ job[v].id = e =>
             job[v].seen + Live(e) + Again(e) <= MaxRetries
    BY DEF RetryInv, Room
  <2>3. e = f /\ job[w].pc = "failFill" => job[w].seen + Live(e) + Again(e) <= MaxRetries
    BY <2>2, <1>1 DEF Writing
  <2>4. retry'[e] + Live(e)' + Again(e)' <= MaxRetries
    <3>1. CASE retry'[e] = retry[e]
      BY <3>1, <2>1, <2>2, <1>4
    <3>2. CASE e = f /\ Counts(w, f)
      <4>1. Live(e)' + Again(e)' + 1 <= Live(e) + Again(e)
        BY <3>2, <1>1, <1>10 DEF Counts
      <4> QED BY <3>2, <4>1, <2>1, <2>2, <2>3, <1>4 DEF Counts
    <3> QED BY <3>1, <3>2, <1>2, <1>3 DEF Writes, Leaves
  <2>5. temp'[e].retry + Live(e)' + Again(e)' <= MaxRetries + 1
    <3>1. CASE temp'[e].retry \in {temp[e].retry, 0}
      BY <3>1, <2>1, <2>2, <1>4, RetryAssumption
    <3>2. CASE e = f /\ job[w].pc = "failFill" /\ temp'[f].retry \in {job[w].seen + 1, 0}
      BY <3>2, <2>1, <2>3, <1>4
    <3> QED BY <3>1, <3>2, <1>2, <1>3 DEF Counts, Writes, Leaves
  <2>6. ASSUME NEW v \in Workers, job'[v].pc \in Writing, job'[v].id = e
        PROVE  job'[v].seen + Live(e)' + Again(e)' <= MaxRetries
    <3>1. CASE v # w
      <4>1. job[v].seen + Live(e) + Again(e) <= MaxRetries
        BY <3>1, <2>2, <2>6, <1>1
      <4> QED BY <3>1, <4>1, <2>1, <1>1, <1>4
    <3>2. CASE v = w
      <4>1. e = f /\ Leaves(w, f)
        BY <3>2, <2>6, <1>1, <1>3 DEF Counts, Writes, Writing
      <4>2. CASE job'[w].pc = "failWrite"
        <5>1. job'[w].seen = retry[e]
          BY <4>1, <4>2 DEF Leaves
        <5> QED BY <3>2, <5>1, <2>1, <2>2, <1>4
      <4>3. CASE job'[w].pc = "failFill"
        <5>1. job'[w].seen = job[w].seen /\ job[w].pc \in Writing
          BY <4>1, <4>3 DEF Leaves, Writing
        <5>2. job[w].seen + Live(e) + Again(e) <= MaxRetries
          BY <5>1, <4>1, <2>2, <1>1
        <5> QED BY <3>2, <5>1, <5>2, <2>1, <1>4
      <4> QED BY <3>2, <2>6, <4>2, <4>3 DEF Writing
    <3> QED BY <3>1, <3>2
  <2> QED BY <2>4, <2>5, <2>6
<1>12. Spent'
  <2>1. place[f] # "failed" /\ place'[f] # "failed"
    <3>1. place[f] # "failed"
      BY <1>1, <1>4 DEF RetryInv, Spent, Recovering
    <3> QED BY <3>1, <1>3 DEF Counts, Writes, Leaves
  <2>2. \A x \in todo : x.id \in Entries
    BY DEF TypeOK, Loaded
  <2>3. \A x \in todo : x.retry >= MaxRetries => job'[x.id].pc = "done"
    BY <2>2, <1>6 DEF RetryInv, Spent
  <2>4. \A e \in Entries : place'[e] = "failed" => place[e] = "failed"
    BY <2>1, <1>2
  <2> QED BY <2>3, <2>4, <1>1, <1>5, <1>6 DEF RetryInv, Spent
<1> QED BY <1>8, <1>9, <1>11, <1>12 DEF RetryInv

\* Every step keeps the room, provided that there is room for two failures.
LEMMA RetryNext ==
  ASSUME MaxRetries >= 2
  PROVE  TypeOK /\ Known /\ RetryInv /\ [Next]_vars => RetryInv'
<1> SUFFICES ASSUME TypeOK, Known, RetryInv, [Next]_vars PROVE RetryInv'
  OBVIOUS
<1>0. /\ Recovery \in Workers /\ Entries \subseteq Workers /\ Recovery \notin Entries
      /\ job \in [Workers -> Job] /\ MaxRetries \in Nat
      /\ \A e \in Entries : job[e].id = e /\ retry[e] \in Nat /\ temp[e].retry \in Nat
      /\ \A v \in Workers : job[v].seen \in Nat /\ job[v].id \in Workers
      /\ \A x \in todo : x.id \in Entries /\ x.retry \in Nat
      /\ place \in [Entries -> Places]
  BY RecoveryAssumption, RetryAssumption, JobType DEF Workers, TypeOK, Loaded, Texts
\* A step that adds to no number keeps the room if nobody gets more to count.
<1>r. ASSUME retry' = retry, \A e \in Entries : temp'[e].retry \in {temp[e].retry, 0},
             \A e \in Entries : Live(e)' <= Live(e) /\ Again(e)' <= Again(e),
             \A v \in Workers : job'[v].pc \in Writing => job'[v] = job[v]
      PROVE  Room'
  <2> SUFFICES ASSUME NEW e \in Entries
               PROVE  /\ retry[e] + Live(e)' + Again(e)' <= MaxRetries
                      /\ temp'[e].retry + Live(e)' + Again(e)' <= MaxRetries + 1
                      /\ \A v \in Workers : job'[v].pc \in Writing /\ job'[v].id = e =>
                           job'[v].seen + Live(e)' + Again(e)' <= MaxRetries
    BY <1>r DEF Room
  <2>1. /\ Live(e) \in {0, 1} /\ Again(e) \in {0, 1}
        /\ Live(e)' \in {0, 1} /\ Again(e)' \in {0, 1}
        /\ Live(e)' <= Live(e) /\ Again(e)' <= Again(e)
    BY <1>r, Units
  <2>2. /\ retry[e] + Live(e) + Again(e) <= MaxRetries
        /\ temp[e].retry + Live(e) + Again(e) <= MaxRetries + 1
    BY DEF RetryInv, Room
  <2>3. temp'[e].retry + Live(e)' + Again(e)' <= MaxRetries + 1
    <3>1. temp'[e].retry \in {temp[e].retry, 0}
      BY <1>r
    <3> QED BY <3>1, <2>1, <2>2, <1>0
  <2>4. ASSUME NEW v \in Workers, job'[v].pc \in Writing, job'[v].id = e
        PROVE  job'[v].seen + Live(e)' + Again(e)' <= MaxRetries
    <3>1. job'[v] = job[v]
      BY <1>r, <2>4
    <3>2. job[v].seen + Live(e) + Again(e) <= MaxRetries
      BY <2>4, <3>1 DEF RetryInv, Room
    <3> QED BY <3>1, <3>2, <2>1, <1>0
  <2> QED BY <2>1, <2>2, <2>3, <2>4, <1>0
<1>1. ASSUME NEW e \in Entries, NEW m \in Modes, Call(e, m) PROVE RetryInv'
  <2>1. job' = [job EXCEPT ![e] = Fresh(e, "send")] /\ job[e].pc = "uncalled"
        /\ UNCHANGED <<retry, temp, todo, phase>>
    BY <1>1 DEF Call, texts, loop
  <2>2. job'[e].pc = "send" /\ \A v \in Workers \ {e} : job'[v] = job[v]
    BY <1>0, <2>1 DEF Fresh
  <2>3. job'[Recovery] = job[Recovery]
    BY <1>0, <2>2
  <2>4. OneEach'
    BY <2>1, <2>3 DEF RetryInv, OneEach, Recovering
  <2>5. Untried'
    BY <1>0, <2>1, <2>2 DEF RetryInv, Untried, Writing
  <2>6. \A d \in Entries : Live(d)' <= Live(d) /\ Again(d)' <= Again(d)
    BY <1>0, <2>1, <2>2, <2>3 DEF Live, Again, Recovering
  <2>7. Room'
    BY <1>r, <2>1, <2>2, <2>6 DEF Writing
  <2>8. \A d \in Entries : place'[d] = "failed" => place[d] = "failed"
    BY <1>0, <1>1 DEF Call
  <2>9. Spent'
    <3>1. \A d \in Entries : job[d].pc = "done" => job'[d] = job[d]
      BY <1>0, <2>1, <2>2
    <3> QED BY <3>1, <2>1, <2>3, <2>8, <1>0 DEF RetryInv, Spent, Recovering
  <2> QED BY <2>4, <2>5, <2>7, <2>9 DEF RetryInv
<1>2. ASSUME NEW w \in Workers, Deliver(w) PROVE RetryInv'
  BY <1>2, RetryDeliver
<1>3. CASE RecoveryLoad
  <2>1. /\ phase = "unstarted" /\ phase' = "loop" /\ UNCHANGED <<place, retry, temp, job>>
        /\ \A x \in todo' : /\ x.id \in Entries /\ x.retry = retry[x.id]
                            /\ place[x.id] = "queue" /\ x = [id |-> x.id, retry |-> x.retry]
    BY <1>3 DEF RecoveryLoad, disk, texts
  <2>2. todo = {} /\ ~Recovering /\ ~Recovering'
    BY <2>1 DEF RetryInv, OneEach, Recovering
  <2>3. OneEach'
    BY <2>1, <2>2 DEF OneEach
  <2>4. Untried'
    BY <2>1 DEF RetryInv, Untried
  <2>5. ASSUME NEW e \in Entries
        PROVE  /\ retry[e] + Live(e)' + Again(e)' <= MaxRetries
               /\ temp[e].retry + Live(e)' + Again(e)' <= MaxRetries + 1
               /\ \A w \in Workers : job[w].pc \in Writing /\ job[w].id = e =>
                    job[w].seen + Live(e)' + Again(e)' <= MaxRetries
    <3>1. /\ Live(e)' = Live(e) /\ Live(e) \in {0, 1}
          /\ Again(e)' \in {0, 1} /\ Again(e) = 0
      BY <2>1, <2>2, Units DEF Live, Again
    <3>2. Again(e)' = 1 => retry[e] < MaxRetries
      BY <2>1, <2>2 DEF Again
    <3>3. Live(e) = 1 => retry[e] = 0
      BY <2>1 DEF RetryInv, Untried, Live
    <3>4. retry[e] + Live(e) <= MaxRetries
      BY <3>1, <1>0 DEF RetryInv, Room
    <3>5. ASSUME NEW w \in Workers, job[w].pc \in Writing, job[w].id = e
          PROVE  Live(e) = 1 /\ job[w].seen = 0
      <4>1. w # Recovery
        BY <2>2, <3>5 DEF Recovering, Writing
      <4>2. w = e
        BY <4>1, <3>5, <1>0 DEF Workers
      <4> QED BY <4>2, <3>5, <2>1 DEF RetryInv, Untried, Live, Writing
    <3>7. temp[e].retry <= 1
      BY <2>1 DEF RetryInv, Untried
    <3>6. retry[e] + Live(e)' + Again(e)' <= MaxRetries
      BY <3>1, <3>2, <3>3, <3>4, <1>0
    <3> QED BY <3>1, <3>5, <3>6, <3>7, <1>0
  <2>6. Room'
    BY <2>1, <2>5 DEF Room
  <2>7. Spent'
    <3>1. ASSUME NEW x \in todo', x.retry >= MaxRetries PROVE job[x.id].pc = "done"
      <4>1. retry[x.id] + Live(x.id) + Again(x.id) <= MaxRetries /\ x.id \in Entries
        BY <2>1 DEF RetryInv, Room
      <4>2. Live(x.id) = 0
        BY <4>1, <3>1, <2>1, <1>0, Units
      <4> QED BY <4>2 DEF Live
    <3> QED BY <3>1, <2>1, <2>2 DEF RetryInv, Spent
  <2> QED BY <2>3, <2>4, <2>6, <2>7 DEF RetryInv
<1>4. CASE RecoveryEnds
  <2>1. /\ phase' = "over" /\ todo' = {} /\ UNCHANGED <<place, retry, temp, job>>
    BY <1>4 DEF RecoveryEnds, disk, texts
  <2>2. \A e \in Entries : Live(e)' <= Live(e) /\ Again(e)' <= Again(e)
    BY <2>1 DEF Live, Again, Recovering
  <2>3. Room'
    BY <1>r, <2>1, <2>2
  <2> QED BY <2>1, <2>3 DEF RetryInv, OneEach, Untried, Spent, Recovering
<1>5. ASSUME NEW x \in todo, GiveUp(x) PROVE RetryInv'
  <2>1. /\ todo' = todo \ {x} /\ x.retry >= MaxRetries /\ ~Recovering
        /\ UNCHANGED <<retry, temp, job, phase>>
        /\ \A e \in Entries \ {x.id} : place'[e] = place[e]
    BY <1>0, <1>5 DEF GiveUp, AtNextEntry, Recovering, texts
  <2>2. \A e \in Entries : Live(e)' <= Live(e) /\ Again(e)' <= Again(e)
    BY <2>1 DEF Live, Again, Recovering
  <2>3. Room'
    BY <1>r, <2>1, <2>2
  <2>4. OneEach' /\ Untried'
    BY <2>1 DEF RetryInv, OneEach, Untried, Recovering
  <2>5. Spent'
    <3>1. job[x.id].pc = "done" /\ \A y \in todo' : y.id # x.id
      BY <2>1 DEF RetryInv, Spent, OneEach
    <3> QED BY <2>1, <3>1 DEF RetryInv, Spent, Recovering
  <2> QED BY <2>3, <2>4, <2>5 DEF RetryInv
<1>6. ASSUME NEW x \in todo, Retry(x) PROVE RetryInv'
  <2>1. /\ todo' = todo \ {x} /\ x.retry < MaxRetries /\ ~Recovering /\ phase = "loop"
        /\ UNCHANGED <<place, retry, temp, phase>>
        /\ job' = [job EXCEPT ![Recovery] = Fresh(x.id, "send")]
    BY <1>6 DEF Retry, AtNextEntry, Recovering, disk, texts
  <2>2. /\ job'[Recovery].pc = "send" /\ job'[Recovery].id = x.id
        /\ \A v \in Workers \ {Recovery} : job'[v] = job[v]
    BY <1>0, <2>1 DEF Fresh
  <2>3. \A e \in Entries : Live(e)' <= Live(e) /\ Again(e)' <= Again(e)
    <3>1. \A e \in Entries : job'[e] = job[e]
      BY <1>0, <2>2
    <3> QED BY <2>1, <2>2, <3>1 DEF Live, Again, Recovering
  <2>4. Room'
    BY <1>r, <2>1, <2>2, <2>3 DEF Writing
  <2>5. OneEach'
    BY <2>1, <2>2 DEF RetryInv, OneEach
  <2>6. Untried'
    BY <1>0, <2>1, <2>2 DEF RetryInv, Untried
  <2>7. Spent'
    BY <1>0, <2>1, <2>2 DEF RetryInv, Spent
  <2> QED BY <2>4, <2>5, <2>6, <2>7 DEF RetryInv
<1>7. CASE NewProcess
  <2>1. \A w \in Workers :
          job'[w].pc = IF job[w].pc = "uncalled" THEN "uncalled" ELSE "done"
    BY <1>7 DEF NewProcess, Fresh
  <2>2. /\ UNCHANGED <<place, retry>> /\ todo' = {} /\ phase' = "unstarted"
        /\ \A e \in Entries : temp'[e].retry = 0
    BY <1>7 DEF NewProcess, Text
  <2>3. ~Recovering'
    BY <1>0, <2>1 DEF Recovering
  <2>4. \A e \in Entries : Live(e)' <= Live(e) /\ Again(e)' <= Again(e)
    BY <1>0, <2>1, <2>2, <2>3, Units DEF Live, Again
  <2>5. Room'
    BY <1>r, <2>1, <2>2, <2>4 DEF Writing
  <2> QED BY <1>0, <2>1, <2>2, <2>3, <2>5 DEF RetryInv, OneEach, Untried, Spent, Writing
<1>8. CASE UNCHANGED vars
  BY <1>8 DEF vars, texts, RetryInv, OneEach, Untried, Room, Spent, Recovering, Live, Again
<1> QED
  BY <1>1, <1>2, <1>3, <1>4, <1>5, <1>6, <1>7, <1>8
     DEF Next, RecoveryLoop, Restart, Crash

\* The numbers are right in every reachable state.
LEMMA RetryHolds ==
  ASSUME MaxRetries >= 2
  PROVE  Spec => [](TypeOK /\ Known /\ RetryInv)
<1>1. Init => TypeOK /\ Known /\ RetryInv
  <2> SUFFICES ASSUME Init PROVE Known /\ RetryInv
    BY TypeInit
  <2>1. Entries \subseteq Workers /\ Recovery \in Workers /\ MaxRetries \in Nat
    BY RetryAssumption DEF Workers
  <2>2. \A w \in Workers : job[w].pc = "uncalled"
    BY DEF Init, Fresh
  <2>3. /\ Persisted = {} /\ todo = {} /\ phase = "unstarted" /\ ~Recovering
        /\ \A e \in Entries : place[e] = "nowhere" /\ retry[e] = 0 /\ temp[e].retry = 0
    BY <2>1, <2>2 DEF Init, Persisted, Recovering, Text
  <2>4. Known
    BY <2>1, <2>2, <2>3 DEF Known, Settling
  <2>5. \A e \in Entries : Live(e) = 1 /\ Again(e) = 0
    BY <2>1, <2>2, <2>3 DEF Live, Again
  <2> QED BY <2>1, <2>2, <2>3, <2>4, <2>5 DEF RetryInv, OneEach, Untried, Room, Spent, Writing
<1>2. TypeOK /\ Known /\ RetryInv /\ [Next]_vars => (TypeOK /\ Known /\ RetryInv)'
  BY TypeNext, KnownNext, RetryNext
<1> QED BY <1>1, <1>2, PTL DEF Spec

\* No entry is retried past MAX_RETRIES, even if a live delivery and the
\* recovery fail on it at the same time.  With a limit of 1 they could.
THEOREM Bounded ==
  ASSUME MaxRetries >= 2
  PROVE  Spec => []RetriesBounded
<1>1. TypeOK /\ RetryInv => RetriesBounded
  <2> SUFFICES ASSUME TypeOK, RetryInv, NEW e \in Entries PROVE retry[e] <= MaxRetries
    BY DEF RetriesBounded
  <2>1. retry[e] + Live(e) + Again(e) <= MaxRetries /\ retry[e] \in Nat /\ MaxRetries \in Nat
    BY RetryAssumption DEF RetryInv, Room, TypeOK
  <2> QED BY <2>1, Units
<1> QED BY <1>1, RetryHolds, PTL

\* What was moved to failed/ stays there, and no payload of it is sent again.
THEOREM Final ==
  ASSUME MaxRetries >= 2
  PROVE  Spec => FailedIsFinal
<1> DEFINE Stays == \A e \in Entries : place[e] = "failed"
                      => place'[e] = "failed" /\ sent'[e] = sent[e]
<1>1. TypeOK /\ Known /\ RetryInv /\ [Next]_vars => Stays
  <2> SUFFICES ASSUME TypeOK, Known, RetryInv, [Next]_vars,
                      NEW e \in Entries, place[e] = "failed"
               PROVE  place'[e] = "failed" /\ sent'[e] = sent[e]
    OBVIOUS
  <2>1. /\ job[e].pc = "done" /\ ~(Recovering /\ job[Recovery].id = e)
        /\ \A x \in todo : x.id # e
    BY DEF RetryInv, Spent
  <2>2. ASSUME NEW w \in Workers, Deliver(w) PROVE place'[e] = "failed" /\ sent'[e] = sent[e]
    <3>1. job[w].pc \notin {"uncalled", "done"} /\ job[w].id \in Entries
      BY <2>2, DeliverFrame, BusyEntry
    <3>2. job[w].id # e
      BY <3>1, <2>1 DEF Workers, Recovering, TypeOK
    <3> QED BY <3>2, <2>2, DeliverCounts
  <2>3. ASSUME NEW d \in Entries, NEW m \in Modes, Call(d, m)
        PROVE  place'[e] = "failed" /\ sent'[e] = sent[e]
    BY <2>1, <2>3 DEF Call, TypeOK
  <2>4. ASSUME NEW x \in todo, GiveUp(x) PROVE place'[e] = "failed" /\ sent'[e] = sent[e]
    BY <2>4, <2>1 DEF GiveUp, TypeOK
  <2>5. CASE UNCHANGED <<place, sent>>
    BY <2>5
  <2> QED
    BY <2>2, <2>3, <2>4, <2>5 DEF Next, RecoveryLoop, RecoveryLoad, RecoveryEnds, Retry,
       Restart, Crash, NewProcess, disk, texts, vars
<1>2. TypeOK /\ Known /\ RetryInv /\ [Next]_vars => [Stays]_vars
  BY <1>1
<1> QED BY <1>2, RetryHolds, PTL DEF Spec, FailedIsFinal

-----------------------------------------------------------------------------
(* The wake queue                                                          *)

\* A merged wake stands for the requests of both, with the priority of each.
LEMMA MergeKeeps ==
  ASSUME NEW old \in Wake, NEW new \in Wake
  PROVE  /\ Merge(old, new) \in Wake
         /\ Merge(old, new).from = old.from \cup new.from
         /\ old.from # {} => Merge(old, new).prio >= old.prio
         /\ Merge(old, new).prio >= new.prio
BY DEF Wake, Merge

\* Whatever timer there was, after schedule() there is one.
LEMMA ScheduleMakes ==
  ASSUME NEW tm \in Timer, NEW d \in Nat, NEW kind \in {"normal", "retry"}
  PROVE  Schedule(tm, d, kind) \in Timer /\ Schedule(tm, d, kind).kind # "none"
BY DEF Timer, Schedule, NoTimer

\* No timer is a timer.
LEMMA NoTimerType == NoTimer \in Timer
BY DEF NoTimer, Timer

\* No pending wake at any target is a map of wakes.
LEMMA NothingPendingType == NothingPending \in [Targets -> Wake]
BY DEF NothingPending, NoWake, Wake

\* The part of TypeOK about the batches in a set F.
BatchesOK(F) ==
  /\ F \subseteq Batch
  /\ \A b \in F : \A t \in b.rest \cup {b.at} : b.wakes[t].from # {}

\* A batch that goes on to its next wake is still one.
LEMMA NextWakeType ==
  ASSUME NEW b \in Batch, NEW t \in b.rest
  PROVE  /\ [b EXCEPT !.at = t, !.rest = @ \ {t}] \in Batch
         /\ [b EXCEPT !.at = t, !.rest = @ \ {t}].wakes = b.wakes
         /\ [b EXCEPT !.at = t, !.rest = @ \ {t}].rest
              \cup {[b EXCEPT !.at = t, !.rest = @ \ {t}].at} = b.rest
BY DEF Batch

\* What is left when a batch ends.
LEMMA EndType ==
  ASSUME WakeTypeOK, NEW b \in flight, NEW W \in [Targets -> Wake], NEW tm \in Timer,
         End(b, W, tm)
  PROVE  BatchesOK(flight') /\ running' \in BOOLEAN /\ overtaken' \in BOOLEAN /\ timer' \in Timer
<1>1. BatchesOK(flight') /\ running' \in BOOLEAN /\ overtaken' \in BOOLEAN
  BY DEF WakeTypeOK, End, BatchesOK
<1>2. b.delay \in Nat
  BY DEF WakeTypeOK, Batch
<1>3. timer' \in Timer
  BY <1>2, ScheduleMakes DEF End
<1> QED BY <1>1, <1>3

\* What is left when a batch goes on or ends.
LEMMA ContinueType ==
  ASSUME WakeTypeOK, NEW b \in flight, NEW W \in [Targets -> Wake], NEW tm \in Timer,
         Continue(b, W, tm)
  PROVE  BatchesOK(flight') /\ running' \in BOOLEAN /\ overtaken' \in BOOLEAN /\ timer' \in Timer
<1>1. CASE b.rest = {}
  BY <1>1, EndType DEF Continue
<1>2. CASE b.rest # {}
  <2>1. PICK t \in b.rest :
          flight' = (flight \ {b}) \cup {[b EXCEPT !.at = t, !.rest = @ \ {t}]}
    BY <1>2 DEF Continue
  <2>2. b \in Batch
    BY DEF WakeTypeOK
  <2> DEFINE c == [b EXCEPT !.at = t, !.rest = @ \ {t}]
  <2>3. c \in Batch /\ c.wakes = b.wakes /\ c.rest \cup {c.at} = b.rest
    BY <2>2, NextWakeType
  <2>4. \A u \in c.rest \cup {c.at} : c.wakes[u].from # {}
    BY <2>3 DEF WakeTypeOK
  <2>5. flight' = (flight \ {b}) \cup {c}
    BY <2>1
  <2> HIDE DEF c
  <2>6. BatchesOK(flight')
    BY <2>3, <2>4, <2>5 DEF WakeTypeOK, BatchesOK
  <2> QED BY <1>2, <2>6 DEF Continue, WakeTypeOK
<1> QED BY <1>1, <1>2

\* The initial state has the types TypeOK gives.
LEMMA WakeTypeInit == WakeInit => WakeTypeOK
<1> SUFFICES ASSUME WakeInit PROVE WakeTypeOK
  OBVIOUS
<1>1. handler \in 0..MaxHandlers /\ sets \in 0..MaxHandlers
  BY HandlerAssumption DEF WakeInit
<1>2. DOMAIN asked = {}
  BY DEF WakeInit
<1> QED
  BY <1>1, <1>2, NoTimerType, NothingPendingType DEF WakeInit, WakeTypeOK

\* Every step keeps the types.
LEMMA WakeTypeNext == WakeTypeOK /\ [WakeNext]_wakeVars => WakeTypeOK'
<1> SUFFICES ASSUME WakeTypeOK, [WakeNext]_wakeVars PROVE WakeTypeOK'
  OBVIOUS
<1> USE DelayAssumption, HandlerAssumption
<1>0. pending \in [Targets -> Wake] /\ timer \in Timer /\ BatchesOK(flight)
  BY DEF WakeTypeOK, BatchesOK
<1>1. ASSUME NEW r \in Requests, NEW t \in Targets, NEW p \in Priorities, NEW d \in Delays,
             Request(r, t, p, d)
      PROVE  WakeTypeOK'
  <2>1. [prio |-> p, from |-> {r}] \in Wake
    BY PriorityAssumption DEF Wake
  <2>2. pending' \in [Targets -> Wake]
    BY <1>0, <1>1, <2>1, MergeKeeps DEF Request, batches, Queue
  <2>3. timer' \in Timer
    BY <1>0, <1>1, ScheduleMakes DEF Request, batches
  <2>4. DOMAIN asked' = DOMAIN asked \cup {r} /\ \A q \in DOMAIN asked' : asked'[q] \in Priorities
    BY <1>1 DEF Request, batches, WakeTypeOK
  <2> QED
    BY <1>1, <2>2, <2>3, <2>4 DEF Request, WakeTypeOK, lifecycle, batches
<1>2. CASE FireWithoutHandler
  BY <1>2, NoTimerType DEF FireWithoutHandler, WakeTypeOK, lifecycle, batches, history
<1>3. CASE FireWhileRunning
  <2>1. timer.delay \in Nat /\ timer.kind \in {"normal", "retry"}
    BY <1>0, <1>3 DEF Timer, FireWhileRunning, Due
  <2>2. timer' \in Timer
    BY <1>3, <2>1, NoTimerType, ScheduleMakes DEF FireWhileRunning, batches
  <2> QED
    BY <1>3, <2>2 DEF FireWhileRunning, WakeTypeOK, lifecycle, batches, history
<1>4. CASE FireBatch
  <2>1. timer' \in Timer /\ pending' \in [Targets -> Wake] /\ scheduled' \in BOOLEAN
    BY <1>4, NoTimerType, NothingPendingType DEF FireBatch, StartBatch
  <2>2. running' \in BOOLEAN
    BY <1>4 DEF FireBatch, StartBatch, WakeTypeOK
  <2>3. BatchesOK(flight')
    <3>1. CASE Queued = {}
      BY <1>0, <1>4, <3>1 DEF FireBatch, StartBatch
    <3>2. CASE Queued # {}
      <4> DEFINE B(t) == [by |-> handler, wakes |-> pending, at |-> t,
                          rest |-> Queued \ {t}, delay |-> timer.delay]
      <4>1. PICK t \in Queued : flight' = flight \cup {B(t)}
        BY <1>4, <3>2 DEF FireBatch, StartBatch
      <4>2. handler \in 1..MaxHandlers /\ timer.delay \in Nat
        BY <1>0, <1>4 DEF FireBatch, WakeTypeOK, Timer
      <4>3. B(t) \in Batch
        BY <1>0, <4>1, <4>2 DEF Batch, Queued
      <4>4. \A u \in B(t).rest \cup {B(t).at} : B(t).wakes[u].from # {}
        BY <4>1 DEF Queued
      <4> HIDE DEF B
      <4> QED BY <1>0, <4>1, <4>3, <4>4 DEF BatchesOK
    <3> QED BY <3>1, <3>2
  <2> QED
    BY <1>4, <2>1, <2>2, <2>3
    DEF FireBatch, StartBatch, WakeTypeOK, BatchesOK, lifecycle, batches, history
<1>5. ASSUME NEW b \in flight, Handled(b) PROVE WakeTypeOK'
  <2>1. BatchesOK(flight') /\ running' \in BOOLEAN /\ overtaken' \in BOOLEAN /\ timer' \in Timer
    BY <1>0, <1>5, ContinueType DEF Handled
  <2>2. b.wakes[b.at].from \subseteq Requests
    BY DEF WakeTypeOK, Batch, Wake
  <2> QED
    BY <1>5, <2>1, <2>2 DEF Handled, WakeTypeOK, BatchesOK, lifecycle, batches
<1>6. ASSUME NEW b \in flight, Busy(b) PROVE WakeTypeOK'
  <2>1. b.wakes[b.at] \in Wake
    BY DEF WakeTypeOK, Batch
  <2>2. pending' \in [Targets -> Wake]
    BY <1>0, <1>6, <2>1, MergeKeeps DEF Busy, Queue
  <2>3. Schedule(timer, RetryDelay, "retry") \in Timer
    BY <1>0, ScheduleMakes
  <2>4. BatchesOK(flight') /\ running' \in BOOLEAN /\ overtaken' \in BOOLEAN /\ timer' \in Timer
    BY <1>6, <2>2, <2>3, ContinueType DEF Busy
  <2> QED
    BY <1>6, <2>2, <2>4 DEF Busy, WakeTypeOK, BatchesOK, lifecycle, batches, history
<1>7. ASSUME NEW b \in flight, Throws(b) PROVE WakeTypeOK'
  <2>1. \A t \in Targets : b.wakes[t] \in Wake
    BY DEF WakeTypeOK, Batch
  <2>2. pending' \in [Targets -> Wake]
    BY <1>0, <1>7, <2>1, MergeKeeps DEF Throws
  <2>3. Schedule(timer, RetryDelay, "retry") \in Timer
    BY <1>0, ScheduleMakes
  <2>4. BatchesOK(flight') /\ running' \in BOOLEAN /\ overtaken' \in BOOLEAN /\ timer' \in Timer
    BY <1>7, <2>2, <2>3, EndType DEF Throws
  <2> QED
    BY <1>7, <2>2, <2>4 DEF Throws, WakeTypeOK, BatchesOK, lifecycle, batches, history
<1>8. CASE SetHandler
  <2>1. timer' \in Timer
    BY <1>8, NoTimerType, ScheduleMakes DEF SetHandler
  <2>2. handler' \in 0..MaxHandlers /\ sets' \in 0..MaxHandlers
    BY <1>8 DEF SetHandler, WakeTypeOK
  <2> QED
    BY <1>8, <2>1, <2>2 DEF SetHandler, WakeTypeOK, history, batches
<1>9. CASE ClearHandler
  BY <1>9 DEF ClearHandler, WakeTypeOK, history, batches
<1>10. CASE Tick
  <2>1. timer' \in Timer /\ cool' \in Nat
    BY <1>0, <1>10 DEF Tick, batches, Timer, WakeTypeOK
  <2> QED
    BY <1>10, <2>1 DEF Tick, WakeTypeOK, lifecycle, batches, history
<1>11. CASE UNCHANGED wakeVars
  BY <1>11 DEF wakeVars, WakeTypeOK
<1> QED
  BY <1>1, <1>2, <1>3, <1>4, <1>5, <1>6, <1>7, <1>8, <1>9, <1>10, <1>11
  DEF WakeNext, Fire, Return

\* Type correctness of every reachable state.
THEOREM WakeTyped == WakeSpec => []WakeTypeOK
<1> QED BY WakeTypeInit, WakeTypeNext, PTL DEF WakeSpec

-----------------------------------------------------------------------------
\* The flag "running" is never set without a batch that will reset it.
RunningHasBatch == running => flight # {}

\* With a handler, pending wakes always have a timer, or a batch whose end makes
\* one.  What keeps it: every step that adds a wake or ends a batch schedules.
THEOREM Stranded == WakeSpec => []NoneStranded
<1> DEFINE Inv == RunningHasBatch /\ NoneStranded
<1>1. WakeInit => Inv
  BY DEF WakeInit, RunningHasBatch, NoneStranded
<1>2. WakeTypeOK /\ Inv /\ [WakeNext]_wakeVars => Inv'
  <2> SUFFICES ASSUME WakeTypeOK, RunningHasBatch, NoneStranded, [WakeNext]_wakeVars PROVE Inv'
    OBVIOUS
  <2> USE DelayAssumption
  <2>0. timer \in Timer /\ RetryDelay \in Nat
    BY DEF WakeTypeOK
  <2>1. ASSUME NEW r \in Requests, NEW t \in Targets, NEW p \in Priorities, NEW d \in Delays,
               Request(r, t, p, d)
        PROVE  Inv'
    <3>1. timer'.kind # "none"
      BY <2>0, <2>1, ScheduleMakes DEF Request, batches
    <3> QED BY <2>1, <3>1 DEF Request, batches, RunningHasBatch, NoneStranded
  <2>2. CASE FireWithoutHandler
    BY <2>2 DEF FireWithoutHandler, lifecycle, batches, RunningHasBatch, NoneStranded
  <2>3. CASE FireWhileRunning
    BY <2>3 DEF FireWhileRunning, batches, RunningHasBatch, NoneStranded
  <2>4. CASE FireBatch
    BY <2>4 DEF FireBatch, StartBatch, RunningHasBatch, NoneStranded
  <2>5. ASSUME NEW b \in flight, NEW W, NEW tm \in Timer, End(b, W, tm)
        PROVE  ~running' /\ (W # NothingPending => timer'.kind # "none")
    <3>1. b.delay \in Nat
      BY DEF WakeTypeOK, Batch
    <3> QED BY <2>5, <3>1, ScheduleMakes DEF End
  <2>6. ASSUME NEW b \in flight, Handled(b) PROVE Inv'
    <3>1. CASE b.rest = {}
      <4>1. End(b, pending, timer) /\ pending' = pending
        BY <2>6, <3>1 DEF Handled, Continue
      <4> QED BY <2>0, <2>5, <4>1 DEF RunningHasBatch, NoneStranded
    <3>2. CASE b.rest # {}
      BY <2>6, <3>2 DEF Handled, Continue, lifecycle, batches, RunningHasBatch, NoneStranded
    <3> QED BY <3>1, <3>2
  <2>7. ASSUME NEW b \in flight, Busy(b) PROVE Inv'
    <3>1. /\ Schedule(timer, RetryDelay, "retry") \in Timer
          /\ Schedule(timer, RetryDelay, "retry").kind # "none"
      BY <2>0, ScheduleMakes
    <3>2. CASE b.rest = {}
      <4>1. End(b, pending', Schedule(timer, RetryDelay, "retry"))
        BY <2>7, <3>2 DEF Busy, Continue
      <4> QED BY <2>5, <3>1, <4>1 DEF RunningHasBatch, NoneStranded
    <3>3. CASE b.rest # {}
      BY <2>7, <3>1, <3>3 DEF Busy, Continue, RunningHasBatch, NoneStranded
    <3> QED BY <3>2, <3>3
  <2>8. ASSUME NEW b \in flight, Throws(b) PROVE Inv'
    <3>1. Schedule(timer, RetryDelay, "retry") \in Timer
      BY <2>0, ScheduleMakes
    <3>2. End(b, pending', Schedule(timer, RetryDelay, "retry"))
      BY <2>8 DEF Throws
    <3> QED BY <2>5, <3>1, <3>2 DEF RunningHasBatch, NoneStranded
  <2>9. CASE SetHandler
    <3>1. pending # NothingPending => timer'.kind # "none"
      BY <2>9, NoTimerType, ScheduleMakes DEF SetHandler
    <3> QED BY <2>9, <3>1 DEF SetHandler, RunningHasBatch, NoneStranded
  <2>10. CASE ClearHandler
    BY <2>10 DEF ClearHandler, batches, RunningHasBatch, NoneStranded
  <2>11. CASE Tick
    <3>1. timer.kind # "none" => timer'.kind # "none"
      BY <2>0, <2>11 DEF Tick, batches, Timer, NoTimer
    <3> QED BY <2>11, <3>1 DEF Tick, lifecycle, batches, RunningHasBatch, NoneStranded
  <2>12. CASE UNCHANGED wakeVars
    BY <2>12 DEF wakeVars, RunningHasBatch, NoneStranded
  <2> QED
    BY <2>1, <2>2, <2>3, <2>4, <2>6, <2>7, <2>8, <2>9, <2>10, <2>11, <2>12
    DEF WakeNext, Fire, Return
<1> QED BY <1>1, <1>2, WakeTyped, PTL DEF WakeSpec

-----------------------------------------------------------------------------
\* What makes batches exclude each other: unless one has been overtaken by a new
\* handler, the flag "running" tells truly whether there is one; when all are
\* over it is cleared, whatever happened.
FlagTellsBatch ==
  /\ running => flight # {}
  /\ overtaken => flight # {}
  /\ ~overtaken => (flight # {} => running)

\* At most one batch runs at a time, in every lifecycle, unless and until all
\* are over a batch has been overtaken by a new handler.
THEOREM One == WakeSpec => []OneBatch
<1> DEFINE Inv == FlagTellsBatch /\ OneBatch
<1>1. WakeInit => Inv
  BY DEF WakeInit, FlagTellsBatch, OneBatch
<1>2. WakeTypeOK /\ Inv /\ [WakeNext]_wakeVars => Inv'
  <2> SUFFICES ASSUME WakeTypeOK, FlagTellsBatch, OneBatch, [WakeNext]_wakeVars PROVE Inv'
    OBVIOUS
  <2>1. ASSUME NEW r \in Requests, NEW t \in Targets, NEW p \in Priorities, NEW d \in Delays,
               Request(r, t, p, d)
        PROVE  Inv'
    BY <2>1 DEF Request, lifecycle, batches, FlagTellsBatch, OneBatch
  <2>2. CASE FireWithoutHandler
    BY <2>2 DEF FireWithoutHandler, lifecycle, batches, FlagTellsBatch, OneBatch
  <2>3. CASE FireWhileRunning
    BY <2>3 DEF FireWhileRunning, lifecycle, batches, FlagTellsBatch, OneBatch
  <2>4. CASE FireBatch
    BY <2>4 DEF FireBatch, StartBatch, lifecycle, batches, FlagTellsBatch, OneBatch
  <2>5. ASSUME NEW b \in flight, NEW W, NEW tm, End(b, W, tm), UNCHANGED lifecycle
        PROVE  Inv'
    BY <2>5 DEF End, lifecycle, batches, FlagTellsBatch, OneBatch
  <2>6. ASSUME NEW b \in flight, NEW W, NEW tm, Continue(b, W, tm), UNCHANGED lifecycle
        PROVE  Inv'
    <3>1. CASE b.rest = {}
      BY <2>5, <2>6, <3>1 DEF Continue
    <3>2. CASE b.rest # {}
      <4>1. PICK c : flight' = (flight \ {b}) \cup {c}
        BY <2>6, <3>2 DEF Continue
      <4>2. running' = running /\ overtaken' = overtaken
        BY <2>6, <3>2 DEF Continue, lifecycle, batches
      <4> QED BY <4>1, <4>2 DEF FlagTellsBatch, OneBatch
    <3> QED BY <3>1, <3>2
  <2>7. ASSUME NEW b \in flight, Return(b) PROVE Inv'
    BY <2>5, <2>6, <2>7 DEF Return, Handled, Busy, Throws
  <2>8. CASE SetHandler
    BY <2>8 DEF SetHandler, FlagTellsBatch, OneBatch
  <2>9. CASE ClearHandler
    BY <2>9 DEF ClearHandler, batches, FlagTellsBatch, OneBatch
  <2>10. CASE Tick
    BY <2>10 DEF Tick, lifecycle, batches, FlagTellsBatch, OneBatch
  <2>11. CASE UNCHANGED wakeVars
    BY <2>11 DEF wakeVars, FlagTellsBatch, OneBatch
  <2> QED
    BY <2>1, <2>2, <2>3, <2>4, <2>7, <2>8, <2>9, <2>10, <2>11 DEF WakeNext, Fire
<1> QED BY <1>1, <1>2, WakeTyped, PTL DEF WakeSpec

-----------------------------------------------------------------------------
\* No request is forgotten or demoted.  The invariant is inductive with TypeOK:
\* each step moves the wakes that stand for a request as a whole.
THEOREM Forgotten == WakeSpec => []NoneForgotten
<1>1. WakeInit => NoneForgotten
  BY DEF WakeInit, NoneForgotten
<1>2. WakeTypeOK /\ NoneForgotten /\ [WakeNext]_wakeVars => NoneForgotten'
  <2> SUFFICES ASSUME WakeTypeOK, NoneForgotten, [WakeNext]_wakeVars,
                      NEW r \in DOMAIN asked' \ served'
               PROVE  \/ \E t \in Targets : Holds(pending[t], r)'
                      \/ \E b \in flight' : \E t \in b.rest \cup {b.at} : Holds(b.wakes[t], r)'
    BY DEF NoneForgotten
  <2> DEFINE InPending == \E t \in Targets : Holds(pending[t], r)
             InFlight == \E b \in flight : \E t \in b.rest \cup {b.at} : Holds(b.wakes[t], r)
  <2>0. r \in DOMAIN asked \ served => InPending \/ InFlight
    BY DEF NoneForgotten
  <2>1. CASE UNCHANGED <<asked, served, pending, flight>>
    BY <2>0, <2>1 DEF Holds
  <2>2. ASSUME NEW q \in Requests, NEW t \in Targets, NEW p \in Priorities, NEW d \in Delays,
               Request(q, t, p, d)
        PROVE  InPending' \/ InFlight'
    <3>1. [prio |-> p, from |-> {q}] \in Wake /\ pending[t] \in Wake
      BY PriorityAssumption DEF Wake, WakeTypeOK
    <3>2. pending' = [pending EXCEPT ![t] = Merge(pending[t], [prio |-> p, from |-> {q}])]
      BY <2>2 DEF Request, batches, Queue
    <3>3. pending'[t] = Merge(pending[t], [prio |-> p, from |-> {q}])
      BY <3>2 DEF WakeTypeOK
    <3>4. CASE r = q
      <4>1. asked'[r] = p /\ p \in Nat
        BY <2>2, <3>4, PriorityAssumption DEF Request, batches
      <4>2. Holds(pending[t], r)'
        BY <3>1, <3>3, <3>4, <4>1, MergeKeeps DEF Holds
      <4> QED BY <4>2
    <3>5. CASE r # q
      <4>1. r \in DOMAIN asked \ served /\ asked'[r] = asked[r] /\ asked[r] \in Nat
        BY <2>2, <3>5, PriorityAssumption DEF Request, batches, WakeTypeOK
      <4>2. CASE InFlight
        BY <2>2, <4>1, <4>2 DEF Request, batches, Holds
      <4>3. CASE InPending
        <5>1. PICK u \in Targets : Holds(pending[u], r)
          BY <4>3
        <5>2. CASE u # t
          BY <3>2, <4>1, <5>1, <5>2 DEF Holds, WakeTypeOK
        <5>3. CASE u = t
          <6>1. r \in pending'[t].from /\ pending'[t].prio >= pending[t].prio
            BY <3>1, <3>3, <5>1, <5>3, MergeKeeps DEF Holds
          <6>2. pending'[t] \in Wake
            BY <3>1, <3>3, MergeKeeps
          <6>3. Holds(pending[t], r)'
            BY <3>1, <4>1, <5>1, <5>3, <6>1, <6>2 DEF Holds, Wake
          <6> QED BY <6>3
        <5> QED BY <5>2, <5>3
      <4> QED BY <2>0, <4>1, <4>2, <4>3
    <3> QED BY <3>4, <3>5
  <2>3. CASE FireBatch
    <3>1. r \in DOMAIN asked \ served /\ asked' = asked
      BY <2>3 DEF FireBatch, StartBatch, history, batches
    <3>2. flight \subseteq flight'
      BY <2>3 DEF FireBatch, StartBatch
    <3>3. CASE InFlight
      BY <3>1, <3>2, <3>3 DEF Holds
    <3>4. CASE InPending
      <4>1. PICK u \in Targets : Holds(pending[u], r)
        BY <3>4
      <4>2. u \in Queued
        BY <4>1 DEF Holds, Queued
      <4> DEFINE B(t) == [by |-> handler, wakes |-> pending, at |-> t,
                          rest |-> Queued \ {t}, delay |-> timer.delay]
      <4>3. PICK t \in Queued : flight' = flight \cup {B(t)}
        BY <2>3, <4>2 DEF FireBatch, StartBatch
      <4>4. B(t) \in flight' /\ B(t).wakes = pending /\ u \in B(t).rest \cup {B(t).at}
        BY <4>2, <4>3
      <4> HIDE DEF B
      <4> QED BY <3>1, <4>1, <4>4 DEF Holds
    <3> QED BY <2>0, <3>1, <3>3, <3>4
  <2>4. ASSUME NEW b \in flight, NEW W, NEW tm, Continue(b, W, tm),
               r \in DOMAIN asked \ served, asked' = asked,
               NEW c \in flight, NEW t \in c.rest \cup {c.at}, Holds(c.wakes[t], r),
               ~(c = b /\ t = b.at)
        PROVE  InFlight'
    <3>1. CASE c # b
      <4>1. c \in flight'
        <5>1. flight \ {b} \subseteq flight'
          BY <2>4 DEF Continue, End
        <5> QED BY <3>1, <5>1
      <4> QED BY <2>4, <4>1 DEF Holds
    <3>2. CASE c = b
      <4>1. t \in b.rest
        BY <2>4, <3>2
      <4>2. PICK u \in b.rest :
              flight' = (flight \ {b}) \cup {[b EXCEPT !.at = u, !.rest = @ \ {u}]}
        BY <2>4, <4>1 DEF Continue
      <4> DEFINE e == [b EXCEPT !.at = u, !.rest = @ \ {u}]
      <4>3. e.wakes = b.wakes /\ e.rest \cup {e.at} = b.rest
        BY NextWakeType DEF WakeTypeOK
      <4>4. e \in flight'
        BY <4>2
      <4> HIDE DEF e
      <4> QED BY <2>4, <3>2, <4>1, <4>3, <4>4 DEF Holds
    <3> QED BY <3>1, <3>2
  <2>5. ASSUME NEW b \in flight, Handled(b) PROVE InPending' \/ InFlight'
    <3>1. r \in DOMAIN asked \ served /\ asked' = asked /\ pending' = pending
      BY <2>5 DEF Handled
    <3>2. r \notin b.wakes[b.at].from
      BY <2>5 DEF Handled
    <3>3. CASE InPending
      BY <3>1, <3>3 DEF Holds
    <3>4. CASE InFlight
      <4>1. PICK c \in flight : \E t \in c.rest \cup {c.at} : Holds(c.wakes[t], r)
        BY <3>4
      <4>2. PICK t \in c.rest \cup {c.at} : Holds(c.wakes[t], r)
        BY <4>1
      <4>3. ~(c = b /\ t = b.at)
        BY <3>2, <4>2 DEF Holds
      <4>4. Continue(b, pending, timer)
        BY <2>5 DEF Handled
      <4> QED BY <2>4, <3>1, <4>2, <4>3, <4>4
    <3> QED BY <2>0, <3>1, <3>3, <3>4
  <2>6. ASSUME NEW b \in flight, NEW t \in b.rest \cup {b.at}, asked' = asked,
               r \in DOMAIN asked,
               pending'[t] = Merge(pending[t], b.wakes[t]), Holds(b.wakes[t], r)
        PROVE  InPending'
    <3>1. t \in Targets /\ b.wakes[t] \in Wake /\ pending[t] \in Wake /\ asked[r] \in Nat
      BY <2>6, PriorityAssumption DEF WakeTypeOK, Batch
    <3>2. r \in pending'[t].from /\ pending'[t].prio >= b.wakes[t].prio /\ pending'[t] \in Wake
      BY <2>6, <3>1, MergeKeeps DEF Holds
    <3>3. Holds(pending[t], r)'
      BY <2>6, <3>1, <3>2 DEF Holds, Wake
    <3> QED BY <3>1, <3>3
  <2>7. ASSUME NEW b \in flight, NEW t \in Targets, asked' = asked, r \in DOMAIN asked,
               b.wakes[t] \in Wake,
               pending'[t] = pending[t] \/ pending'[t] = Merge(pending[t], b.wakes[t]),
               Holds(pending[t], r)
        PROVE  InPending'
    <3>1. pending[t] \in Wake /\ asked[r] \in Nat
      BY <2>7, PriorityAssumption DEF WakeTypeOK
    <3>2. r \in pending'[t].from /\ pending'[t].prio >= pending[t].prio /\ pending'[t] \in Wake
      BY <2>7, <3>1, MergeKeeps DEF Holds, Wake
    <3>3. Holds(pending[t], r)'
      BY <2>7, <3>1, <3>2 DEF Holds, Wake
    <3> QED BY <3>3
  <2>8. ASSUME NEW b \in flight, Busy(b) PROVE InPending' \/ InFlight'
    <3>1. r \in DOMAIN asked \ served /\ asked' = asked
      BY <2>8 DEF Busy, history, batches
    <3>2. b.at \in Targets /\ \A t \in Targets : b.wakes[t] \in Wake
      BY DEF WakeTypeOK, Batch
    <3>3. /\ pending'[b.at] = Merge(pending[b.at], b.wakes[b.at])
          /\ \A t \in Targets \ {b.at} : pending'[t] = pending[t]
      BY <2>8, <3>2 DEF Busy, Queue, WakeTypeOK
    <3>4. CASE InPending
      BY <2>7, <3>1, <3>2, <3>3, <3>4
    <3>5. CASE InFlight
      <4>1. PICK c \in flight : \E t \in c.rest \cup {c.at} : Holds(c.wakes[t], r)
        BY <3>5
      <4>2. PICK t \in c.rest \cup {c.at} : Holds(c.wakes[t], r)
        BY <4>1
      <4>3. CASE c = b /\ t = b.at
        BY <2>6, <3>1, <3>3, <4>2, <4>3
      <4>4. CASE ~(c = b /\ t = b.at)
        <5>1. Continue(b, pending', Schedule(timer, RetryDelay, "retry"))
          BY <2>8 DEF Busy
        <5> QED BY <2>4, <3>1, <4>2, <4>4, <5>1
      <4> QED BY <4>3, <4>4
    <3> QED BY <2>0, <3>1, <3>4, <3>5
  <2>9. ASSUME NEW b \in flight, Throws(b) PROVE InPending' \/ InFlight'
    <3>1. r \in DOMAIN asked \ served /\ asked' = asked /\ flight' = flight \ {b}
      BY <2>9 DEF Throws, End, history, batches
    <3>2. /\ b.rest \cup {b.at} \subseteq Targets
          /\ \A t \in Targets : b.wakes[t] \in Wake
          /\ \A t \in b.rest \cup {b.at} : b.wakes[t].from # {}
      BY DEF WakeTypeOK, Batch
    <3>3. \A t \in Targets : pending'[t] =
            IF b.wakes[t].from = {} THEN pending[t] ELSE Merge(pending[t], b.wakes[t])
      BY <2>9 DEF Throws
    <3>4. CASE InPending
      BY <2>7, <3>1, <3>2, <3>3, <3>4
    <3>5. CASE InFlight
      <4>1. PICK c \in flight : \E t \in c.rest \cup {c.at} : Holds(c.wakes[t], r)
        BY <3>5
      <4>2. PICK t \in c.rest \cup {c.at} : Holds(c.wakes[t], r)
        BY <4>1
      <4>3. CASE c = b
        BY <2>6, <3>1, <3>2, <3>3, <4>2, <4>3
      <4>4. CASE c # b
        BY <3>1, <4>2, <4>4 DEF Holds
      <4> QED BY <4>3, <4>4
    <3> QED BY <2>0, <3>1, <3>4, <3>5
  <2> QED
    BY <2>1, <2>2, <2>3, <2>5, <2>8, <2>9
    DEF WakeNext, Fire, Return, FireWithoutHandler, FireWhileRunning, SetHandler,
        ClearHandler, Tick, history, batches, wakeVars
<1> QED BY <1>1, <1>2, WakeTyped, PTL DEF WakeSpec
=============================================================================
