------------------------ MODULE SubagentRegistryProofs ------------------------
(***************************************************************************)
(* Proofs about SubagentRegistry for any runs, sessions, plans and limits: *)
(* the types with the bound on retries, that a flow owns its cleanup, that *)
(* killed and steered runs are silent, that a result is announced once,    *)
(* that no run is stranded as long as nothing is disturbed, and that no    *)
(* verdict of agent.wait is premature.                                     *)
(***************************************************************************)
EXTENDS SubagentRegistry, TLAPS

(* The runs a tool is still to register: spawned ones and replacements.    *)
Coming == spawning \union {steering[q] : q \in {p \in Runs : steering[p] \notin {p, NoRun}}}

Untouched(r) == rec[r] = NoRec /\ flow[r] = "none" /\ r \notin queued /\ sent[r] = 0

(* A run still to come left no trace, and comes once.                      *)
ComeOnce ==
    /\ \A r \in Runs : course[r] = "none" =>
          Untouched(r) /\ r \notin Coming /\ steering[r] = NoRun
    /\ \A r \in Coming : Untouched(r)
    /\ \A r \in Runs : steering[r] \notin {r, NoRun} =>
          /\ steering[r] \notin spawning
          /\ \A q \in Runs : steering[q] = steering[r] => q = r

(* A flow owns the cleanup of its run, and has attempts left.              *)
Owned(r) == (flow[r] # "none" /\ Has(r)) => (rec[r].handled /\ rec[r].ended)
AttemptsLeft(r) == (flow[r] # "none" \/ ~rec[r].completed) => rec[r].retries < MaxRetry

(* What is or was announced has ended; who is killed is over.              *)
EndedIfHeard(r) == (Has(r) /\ (r \in queued \/ sent[r] > 0)) => rec[r].ended
KilledIsOver(r) == rec[r].suppress = "killed" => rec[r].ended /\ rec[r].completed
Silent(r) == rec[r].suppress \in {"killed", "steer"} =>
                 flow[r] = "none" /\ r \notin queued /\ sent[r] = 0

(* The announcement of r is made: no other flow will begin.                *)
Done(r) == flow[r] \in {"none", "delivered"} /\ (Has(r) => ~CanBegin(rec[r]))

(* The gateway has seen the key of the direct send.                        *)
Known(r) == r \in seen[Direct(r)]

(* A run none of whose sends failed after arriving is done with one; so is *)
(* one that was only sent directly, as its key is known since the first.   *)
(* Any other has paid a setback for each send, but for the last.           *)
Counted(r) ==
    /\ r \in queued => Done(r) /\ r \in uncovered
    /\ r \notin doubted => sent[r] = 0 \/ (sent[r] = 1 /\ Done(r) /\ r \notin queued)
    /\ r \notin uncovered => sent[r] = 0 \/ (sent[r] = 1 /\ Known(r))
    /\ sent[r] <= setbacks \/ (sent[r] = setbacks + 1 /\ Done(r) /\ r \notin queued)

RunInv(r) ==
    /\ Owned(r) /\ AttemptsLeft(r) /\ EndedIfHeard(r) /\ KilledIsOver(r)
    /\ Silent(r) /\ Counted(r)

RegistryInv == TypeOK /\ ComeOnce /\ \A r \in Runs : RunInv(r)

-----------------------------------------------------------------------------
(* What a step does to the record e and the flow f of a run it resumes:    *)
(* nothing, give up, or begin an announcement.                             *)
GivesUp(r, e, f) == e # NoRec /\ rec'[r] = Completed(e) /\ flow'[r] = f

Announces(r, e) ==
    /\ e # NoRec /\ e.ended /\ CanBegin(e) /\ e.suppress # "steer"
    /\ e.retries < MaxRetry
    /\ rec'[r] = Handled(e) /\ flow'[r] = "collecting"

Resumed(r, e, f) ==
    (rec'[r] = e /\ flow'[r] = f) \/ GivesUp(r, e, f) \/ Announces(r, e)

(* Records that begin, are handled or are completed are records.           *)
LEMMA RecordTypes ==
    /\ NoRec \in RecordType /\ NewRec \in RecordType /\ NewRec # NoRec
    /\ \A e \in RecordType : Handled(e) \in RecordType /\ Completed(e) \in RecordType
<1>1. 0 \in 0..MaxRetry
  BY RegistryAssumption
<1>2. NoRec \in RecordType
  BY <1>1 DEF NoRec, RecordType
<1>3. NewRec \in RecordType /\ NewRec.suppress = "no" /\ NoRec.suppress = "absent"
  BY <1>1 DEF NoRec, NewRec, RecordType
<1>4. \A e \in RecordType : Handled(e) \in RecordType /\ Completed(e) \in RecordType
  BY DEF RecordType, Handled, Completed
<1> QED BY <1>2, <1>3, <1>4

(* What resumeSubagentRun(), called for the runs of S, does to each run.   *)
LEMMA ResumeEach ==
    ASSUME NEW S, NEW es \in [Runs -> RecordType], NEW res \in SUBSET Runs,
           NEW fs \in [Runs -> Stages], NEW ts \in SUBSET Runs,
           Resume(S, es, res, fs, ts)
    PROVE  /\ rec' \in [Runs -> RecordType] /\ flow' \in [Runs -> Stages]
           /\ resumed' \subseteq Runs /\ timers' \subseteq Runs
           /\ \A r \in Runs : Resumed(r, es[r], fs[r])
           /\ \A r \in Runs \ S : rec'[r] = es[r] /\ flow'[r] = fs[r]
<1> DEFINE kind == [r \in Runs |-> IF r \in S \ res THEN ResumeKind(r, es[r]) ELSE "skip"]
           Of(ks) == {r \in Runs : kind[r] \in ks}
<1>1. /\ rec' = [r \in Runs |-> CASE kind[r] = "giveUp" -> Completed(es[r])
                                  [] kind[r] = "announce" -> Handled(es[r])
                                  [] OTHER -> es[r]]
      /\ flow' = [r \in Runs |-> IF kind[r] = "announce" THEN "collecting" ELSE fs[r]]
      /\ resumed' = res \union Of({"announce", "later", "held", "wait"})
      /\ timers' = ts \union Of({"later"})
  BY DEF Resume
<1>2. resumed' \subseteq Runs /\ timers' \subseteq Runs
  BY <1>1
<1>3. ASSUME NEW r \in Runs, kind[r] = "giveUp" PROVE es[r] # NoRec /\ r \in S
  BY <1>3 DEF ResumeKind
<1>4. ASSUME NEW r \in Runs, kind[r] = "announce"
      PROVE  /\ es[r] # NoRec /\ es[r].ended /\ CanBegin(es[r])
             /\ es[r].suppress # "steer" /\ ~(es[r].retries >= MaxRetry) /\ r \in S
  BY <1>4 DEF ResumeKind
<1> HIDE DEF kind
<1>5. ASSUME NEW r \in Runs
      PROVE  /\ rec'[r] \in RecordType /\ flow'[r] \in Stages
             /\ Resumed(r, es[r], fs[r])
             /\ r \notin S => rec'[r] = es[r] /\ flow'[r] = fs[r]
  <2>0. es[r] \in RecordType /\ fs[r] \in Stages
    OBVIOUS
  <2>1. CASE kind[r] = "giveUp"
    BY <2>0, <2>1, <1>1, <1>3, RecordTypes DEF Resumed, GivesUp
  <2>2. CASE kind[r] = "announce"
    <3>1. es[r].retries < MaxRetry
      BY <2>0, <2>2, <1>4, RegistryAssumption DEF RecordType
    <3>2. Announces(r, es[r])
      BY <2>2, <3>1, <1>1, <1>4 DEF Announces
    <3> QED BY <2>0, <2>2, <3>2, <1>1, <1>4, RecordTypes DEF Resumed, Stages
  <2>3. CASE kind[r] \notin {"giveUp", "announce"}
    BY <2>0, <2>3, <1>1 DEF Resumed
  <2> QED BY <2>1, <2>2, <2>3
<1>6. rec' \in [Runs -> RecordType] /\ flow' \in [Runs -> Stages]
  BY <1>1, <1>5
<1> QED BY <1>2, <1>5, <1>6

-----------------------------------------------------------------------------
(* The same for any step that leaves what was sent alone: the invariant of *)
(* a run that is resumed, or left alone, is kept.                          *)
Unsent ==
    /\ UNCHANGED <<queued, seen, sent, doubted, uncovered>>
    /\ \A r \in Runs : Known(r)' <=> Known(r)

(* A step that leaves the plan and what was sent alone knows no more keys. *)
LEMMA NothingSent ==
    ASSUME UNCHANGED <<queued, seen, sent, doubted, uncovered, plan>> PROVE Unsent
BY DEF Unsent, Known, Direct, Expects, SessionOf

Later == setbacks' \in Nat /\ setbacks <= setbacks'

(* A run that is resumed, or left alone, keeps its invariant.              *)
LEMMA ResumedKeeps ==
    ASSUME TypeOK, NEW r \in Runs, RunInv(r), Unsent, Later,
           Resumed(r, rec[r], flow[r])
    PROVE  RunInv(r)' /\ (Untouched(r) => Untouched(r)')
<1>1. /\ rec[r] \in RecordType /\ flow[r] \in Stages /\ sent[r] \in Nat
      /\ setbacks \in Nat /\ MaxRetry \in Nat
  BY RegistryAssumption DEF TypeOK
<1>2. CASE rec'[r] = rec[r] /\ flow'[r] = flow[r]
  BY <1>1, <1>2 DEF RunInv, Owned, AttemptsLeft, EndedIfHeard, KilledIsOver, Silent,
     Counted, Done, Has, CanBegin, Untouched, Unsent, Later
<1>3. CASE GivesUp(r, rec[r], flow[r])
  <2>1. /\ rec[r] # NoRec /\ flow'[r] = flow[r] /\ rec'[r].completed
        /\ rec'[r].ended = rec[r].ended /\ rec'[r].handled = rec[r].handled
        /\ rec'[r].suppress = rec[r].suppress /\ rec'[r].retries = rec[r].retries
    BY <1>1, <1>3 DEF GivesUp, Completed, RecordType
  <2> QED
    BY <1>1, <2>1 DEF RunInv, Owned, AttemptsLeft, EndedIfHeard, KilledIsOver, Silent,
       Counted, Done, Has, CanBegin, Untouched, Unsent, Later
<1>4. CASE Announces(r, rec[r])
  <2>1. /\ rec[r] # NoRec /\ flow'[r] = "collecting" /\ rec'[r].handled
        /\ rec[r].ended /\ rec'[r].ended /\ rec[r].retries < MaxRetry
        /\ ~rec[r].completed /\ ~rec[r].handled
        /\ rec'[r].completed = rec[r].completed /\ rec[r].suppress # "steer"
        /\ rec'[r].suppress = rec[r].suppress /\ rec'[r].retries = rec[r].retries
    BY <1>1, <1>4 DEF Announces, Handled, RecordType, CanBegin
  <2>2. ~Done(r)
    BY <2>1 DEF Done, Has, CanBegin
  <2> QED
    BY <1>1, <2>1, <2>2 DEF RunInv, Owned, AttemptsLeft, EndedIfHeard, KilledIsOver,
       Silent, Counted, Untouched, Unsent, Later
<1> QED BY <1>2, <1>3, <1>4 DEF Resumed

(* Steps that only take runs out of what is to come.                       *)
LEMMA ComeQuiet ==
    ASSUME ComeOnce, \A r \in Runs : course'[r] = "none" => course[r] = "none",
           spawning' \subseteq spawning,
           \A r \in Runs : steering'[r] \in {steering[r], NoRun}
                             \/ (steering'[r] = r /\ ~Untouched(r)),
           \A r \in Runs : Untouched(r) => Untouched(r)',
           spawning \subseteq Runs, \A r \in Runs : steering[r] \in Runs \union {NoRun}
    PROVE  ComeOnce'
<1>1. Coming' \subseteq Coming /\ Coming \subseteq Runs
  BY DEF Coming
<1>2. \A r \in Runs : steering'[r] \notin {r, NoRun} =>
          steering'[r] = steering[r] /\ steering[r] \notin {r, NoRun}
  OBVIOUS
<1>3. \A r \in Runs : course'[r] = "none" =>
          Untouched(r)' /\ r \notin Coming' /\ steering'[r] = NoRun
  BY <1>1 DEF ComeOnce
<1>4. \A r \in Coming' : Untouched(r)'
  BY <1>1 DEF ComeOnce
<1>5. ASSUME NEW r \in Runs, steering'[r] \notin {r, NoRun}
      PROVE  /\ steering'[r] \notin spawning'
             /\ \A q \in Runs : steering'[q] = steering'[r] => q = r
  <2>1. steering'[r] = steering[r] /\ steering[r] \in Coming
    BY <1>2, <1>5 DEF Coming
  <2>2. Untouched(steering[r])
    BY <2>1 DEF ComeOnce
  <2> QED BY <1>5, <2>1, <2>2 DEF ComeOnce
<1> QED BY <1>3, <1>4, <1>5 DEF ComeOnce

-----------------------------------------------------------------------------
(* Steps that leave the records, the flows and what was sent alone.        *)
LEMMA QuietKeeps ==
    ASSUME RegistryInv, UNCHANGED <<rec, flow, spawning, steering>>, Unsent, Later,
           \A r \in Runs : course'[r] = "none" => course[r] = "none"
    PROVE  ComeOnce' /\ \A r \in Runs : RunInv(r)'
<1>1. \A r \in Runs : RunInv(r)' /\ (Untouched(r) => Untouched(r)')
  BY ResumedKeeps DEF RegistryInv, Resumed
<1> QED BY <1>1, ComeQuiet DEF RegistryInv, TypeOK

(* Initially there are no records and no flows.                            *)
LEMMA InvInit == Init => RegistryInv
<1> SUFFICES ASSUME Init PROVE RegistryInv
  OBVIOUS
<1>1. TypeOK
  <2>1. JobTypeOK
    BY StartsAssumption DEF Init, JobInit, JobTypeOK, Fresh, Courses, Statuses, Waiters
  <2>2. setbacks \in 0..MaxSetbacks
    BY RegistryAssumption DEF Init
  <2> QED BY <2>1, <2>2, RecordTypes DEF Init, TypeOK, Stages
<1>2. ComeOnce
  BY DEF Init, ComeOnce, Coming, Untouched
<1>3. ASSUME NEW r \in Runs PROVE RunInv(r)
  <2>1. rec[r] = NoRec /\ flow[r] = "none" /\ r \notin queued /\ sent[r] = 0 /\ setbacks = 0
    BY DEF Init
  <2>2. NoRec.retries = 0 /\ NoRec.suppress = "absent"
    BY DEF NoRec
  <2> QED
    BY <2>1, <2>2, RegistryAssumption DEF RunInv, Owned, AttemptsLeft, EndedIfHeard,
       KilledIsOver, Silent, Counted, Done, Has
<1> QED BY <1>1, <1>2, <1>3 DEF RegistryInv

-----------------------------------------------------------------------------
(* The events of a run keep the types of AgentJob.                         *)
LEMMA JobTypes ==
    ASSUME TypeOK, NEW r \in Runs,
           Accept(r) \/ StartEvent(r) \/ EndEvent(r) \/ ErrorEvent(r) \/ Over(r)
             \/ GraceElapses(r) \/ GraceEnds(r) \/ WaitExpires(r)
    PROVE  JobTypeOK' /\ \A q \in Runs : course'[q] = "none" => course[q] = "none"
<1> USE StartsAssumption DEF TypeOK, JobTypeOK, Courses, Statuses, Waiters
<1>1. CASE Accept(r)
  BY <1>1 DEF Accept
<1>2. CASE StartEvent(r)
  <2>1. starts'[r] \in 0..MaxStarts[r]
    BY <1>2 DEF StartEvent
  <2> QED BY <1>2, <2>1 DEF StartEvent
<1>3. CASE EndEvent(r)
  BY <1>3 DEF EndEvent
<1>4. CASE ErrorEvent(r)
  BY <1>4 DEF ErrorEvent
<1>5. CASE Over(r)
  BY <1>5 DEF Over
<1>6. CASE GraceEnds(r)
  BY <1>6 DEF GraceEnds
<1>7. CASE WaitExpires(r)
  BY <1>7 DEF WaitExpires
<1>8. CASE GraceElapses(r)
  BY <1>8 DEF GraceElapses
<1> QED BY <1>1, <1>2, <1>3, <1>4, <1>5, <1>6, <1>7, <1>8

(* The number of setbacks stays within its bound and never falls.          *)
LEMMA SetbackTypes ==
    ASSUME TypeOK, Setback \/ UNCHANGED setbacks
    PROVE  setbacks' \in 0..MaxSetbacks /\ Later
BY RegistryAssumption DEF TypeOK, Setback, Later

(* A tool lets a run come that nobody accepted before.                     *)
LEMMA ComeMore ==
    ASSUME TypeOK, ComeOnce, NEW n \in Runs, course[n] = "none", course'[n] # "none",
           \A r \in Runs : course'[r] = "none" => course[r] = "none",
           UNCHANGED <<rec, flow, queued, sent>>,
           \/ spawning' = spawning \union {n} /\ UNCHANGED steering
           \/ \E r \in Runs : steering[r] = r /\ steering' = [steering EXCEPT ![r] = n]
                               /\ UNCHANGED spawning
    PROVE  ComeOnce'
<1>1. Untouched(n) /\ n \notin Coming /\ steering[n] = NoRun
  BY DEF ComeOnce
<1>2. Coming' \subseteq Coming \union {n}
  BY DEF Coming, TypeOK
<1>3. \A r : Untouched(r)' <=> Untouched(r)
  BY DEF Untouched
<1>7. n # NoRun
  BY RegistryAssumption
<1>4. \A r \in Runs : course'[r] = "none" =>
          Untouched(r)' /\ r \notin Coming' /\ steering'[r] = NoRun
  <2> SUFFICES ASSUME NEW r \in Runs, course'[r] = "none"
               PROVE  Untouched(r)' /\ r \notin Coming' /\ steering'[r] = NoRun
    OBVIOUS
  <2>1. Untouched(r) /\ r \notin Coming /\ steering[r] = NoRun /\ r # n
    BY DEF ComeOnce
  <2>2. \A p \in Runs : steering[p] = p => p # r
    BY <2>1, RegistryAssumption
  <2>3. steering'[r] = NoRun
    BY <2>1, <2>2 DEF TypeOK
  <2> QED BY <1>2, <1>3, <2>1, <2>3
<1>5. \A r \in Coming' : Untouched(r)'
  BY <1>1, <1>2, <1>3 DEF ComeOnce
<1>6. \A r \in Runs : steering[r] \notin {r, NoRun} => steering[r] \in Coming
  BY DEF Coming
<1>8. spawning \subseteq Coming
  BY DEF Coming
<1>9. ASSUME NEW r \in Runs, steering'[r] \notin {r, NoRun}
      PROVE  /\ steering'[r] \notin spawning'
             /\ \A q \in Runs : steering'[q] = steering'[r] => q = r
  <2>1. CASE spawning' = spawning \union {n} /\ UNCHANGED steering
    BY <1>1, <1>6, <1>9, <2>1 DEF ComeOnce
  <2>2. ASSUME NEW p \in Runs, steering[p] = p, steering' = [steering EXCEPT ![p] = n],
               UNCHANGED spawning
        PROVE  /\ steering'[r] \notin spawning'
               /\ \A q \in Runs : steering'[q] = steering'[r] => q = r
    <3>1. CASE r = p
      <4>1. steering'[r] = n /\ n \notin spawning'
        BY <1>1, <1>8, <2>2, <3>1 DEF TypeOK
      <4>2. \A q \in Runs \ {p} : steering[q] = n => q = n
        BY <1>1, <1>6, <1>7
      <4>3. steering[n] # n
        BY <1>1, <1>7
      <4> QED BY <2>2, <3>1, <4>1, <4>2, <4>3 DEF TypeOK
    <3>2. CASE r # p
      <4>1. steering'[r] = steering[r] /\ steering[r] \in Coming /\ steering[r] # n
        BY <1>1, <1>6, <1>9, <2>2, <3>2 DEF TypeOK
      <4> QED BY <1>9, <2>2, <3>2, <4>1 DEF ComeOnce, TypeOK
    <3> QED BY <3>1, <3>2
  <2> QED BY <2>1, <2>2
<1> QED BY <1>4, <1>5, <1>9 DEF ComeOnce

-----------------------------------------------------------------------------
(* A spawned run was not accepted before, so that it left no trace.        *)
LEMMA SpawnKeeps ==
    ASSUME RegistryInv, NEW r \in Runs, Spawn(r) PROVE RegistryInv'
<1> USE DEF RegistryInv, Spawn
<1>1. JobTypeOK' /\ \A q \in Runs : course'[q] = "none" => course[q] = "none"
  BY JobTypes
<1>2. SessionOf(r) \in Sessions
  BY RegistryAssumption DEF TypeOK, SessionOf
<1>3. TypeOK'
  BY <1>1, <1>2 DEF TypeOK, registryVars, clockVars
<1>4. ComeOnce'
  BY <1>1, ComeMore DEF Accept, registryVars, TypeOK, JobTypeOK
<1>5. Unsent /\ Later /\ \A q \in Runs : Resumed(q, rec[q], flow[q])
  BY SetbackTypes, NothingSent DEF Resumed, registryVars
<1>6. \A q \in Runs : RunInv(q)'
  BY <1>5, ResumedKeeps
<1> QED BY <1>3, <1>4, <1>6

(* So is the replacement of a steered run.                                 *)
LEMMA SteerLaunchKeeps ==
    ASSUME RegistryInv, NEW r \in Runs, NEW n \in Runs, SteerLaunch(r, n)
    PROVE  RegistryInv'
<1> USE DEF RegistryInv, SteerLaunch
<1>1. JobTypeOK' /\ \A q \in Runs : course'[q] = "none" => course[q] = "none"
  BY JobTypes
<1>2. TypeOK'
  BY <1>1 DEF TypeOK, registryVars, clockVars, gatewayVars
<1>3. ComeOnce'
  BY <1>1, ComeMore DEF Accept, registryVars, gatewayVars, TypeOK, JobTypeOK
<1>4. Unsent /\ Later /\ \A q \in Runs : Resumed(q, rec[q], flow[q])
  BY SetbackTypes, NothingSent DEF Resumed, registryVars, gatewayVars
<1>5. \A q \in Runs : RunInv(q)'
  BY <1>4, ResumedKeeps
<1> QED BY <1>2, <1>3, <1>5

(* The rest of the run's life, and time.                                   *)
LEMMA QuietStepKeeps ==
    ASSUME RegistryInv, NEW r \in Runs, RunGoesOn(r) \/ Passes(r) PROVE RegistryInv'
<1> USE DEF RegistryInv
<1>1. CASE RunGoesOn(r)
  <2>1. JobTypeOK' /\ \A q \in Runs : course'[q] = "none" => course[q] = "none"
    BY <1>1, JobTypes DEF RunGoesOn
  <2>2. setbacks' \in 0..MaxSetbacks /\ Later
    BY <1>1, SetbackTypes DEF RunGoesOn
  <2>3. UNCHANGED <<registryVars, clockVars, toolVars, gatewayVars, plan>>
    BY <1>1 DEF RunGoesOn
  <2>4. TypeOK'
    BY <2>1, <2>2, <2>3 DEF TypeOK, registryVars, clockVars, toolVars, gatewayVars
  <2>5. UNCHANGED <<rec, flow, spawning, steering>> /\ Unsent
    BY <2>3, NothingSent DEF registryVars, toolVars, gatewayVars
  <2> QED BY <2>1, <2>2, <2>4, <2>5, QuietKeeps
<1>2. CASE Passes(r)
  <2>1. UNCHANGED <<jobVars, registryVars, toolVars, gatewayVars, plan>>
        /\ cooling' \subseteq Runs /\ aged' \subseteq Runs
    BY <1>2 DEF Passes, TypeOK
  <2>2. setbacks' \in 0..MaxSetbacks /\ Later
    BY <1>2, SetbackTypes DEF Passes
  <2>3. TypeOK'
    BY <2>1, <2>2 DEF TypeOK, JobTypeOK, jobVars, registryVars, toolVars, gatewayVars
  <2>4. UNCHANGED <<rec, flow, spawning, steering, course>> /\ Unsent
    BY <2>1, NothingSent DEF jobVars, registryVars, toolVars, gatewayVars
  <2> QED BY <2>2, <2>3, <2>4, QuietKeeps
<1> QED BY <1>1, <1>2

(* A run that came gets its record: it left no trace before.               *)
LEMMA NewKeeps ==
    ASSUME TypeOK, NEW n \in Runs, Untouched(n), Counted(n), Unsent, UNCHANGED setbacks,
           rec'[n] = NewRec, flow'[n] = flow[n]
    PROVE  RunInv(n)'
<1>1. /\ ~NewRec.ended /\ ~NewRec.completed /\ NewRec.retries = 0 /\ NewRec.suppress = "no"
      /\ MaxRetry > 0 /\ MaxRetry \in Nat /\ setbacks \in Nat
  BY RegistryAssumption DEF NewRec, NoRec, TypeOK
<1> QED
  BY <1>1 DEF RunInv, Owned, AttemptsLeft, EndedIfHeard, KilledIsOver, Silent, Counted,
     Done, Has, Untouched, Unsent

(* The record of a spawned run is new, and so is the run.                  *)
LEMMA RegisterKeeps ==
    ASSUME RegistryInv, NEW r \in Runs, Register(r) PROVE RegistryInv'
<1> USE DEF RegistryInv, Register
<1>1. r \in Coming /\ Untouched(r)
  BY DEF Coming, ComeOnce
<1>2. JobTypeOK'
  BY DEF TypeOK, JobTypeOK, FirstWait, Waiters, Statuses
<1>3. TypeOK'
  BY <1>2, RecordTypes DEF TypeOK, clockVars, gatewayVars
<1>4. Unsent /\ Later /\ UNCHANGED <<course, flow, steering, setbacks>>
  BY SetbackTypes, NothingSent DEF gatewayVars
<1>5. \A q \in Runs \ {r} : Resumed(q, rec[q], flow[q])
  BY <1>4 DEF Resumed, TypeOK
<1>6. \A q \in Runs : RunInv(q)' /\ (q # r /\ Untouched(q) => Untouched(q)')
  BY <1>1, <1>4, <1>5, NewKeeps, ResumedKeeps DEF TypeOK, RunInv
<1>7. Coming' = Coming \ {r}
  BY <1>4 DEF ComeOnce, Coming
<1>8. course[r] # "none"
  BY <1>1 DEF ComeOnce
<1>9. ComeOnce'
  <2>1. Coming \subseteq Runs
    BY DEF Coming, TypeOK
  <2>2. \A q \in Runs : course'[q] = "none" =>
            Untouched(q)' /\ q \notin Coming' /\ steering'[q] = NoRun
    BY <1>4, <1>6, <1>7, <1>8 DEF ComeOnce
  <2>3. \A q \in Coming' : Untouched(q)'
    BY <2>1, <1>6, <1>7 DEF ComeOnce
  <2>4. \A q \in Runs : steering'[q] \notin {q, NoRun} =>
            /\ steering'[q] \notin spawning'
            /\ \A p \in Runs : steering'[p] = steering'[q] => p = q
    BY <1>4 DEF ComeOnce
  <2> QED BY <2>2, <2>3, <2>4 DEF ComeOnce
<1> QED BY <1>3, <1>6, <1>9

(* The record of a replacement is new; the replaced run's is gone.         *)
LEMMA SteerReplacesKeeps ==
    ASSUME RegistryInv, NEW r \in Runs, SteerReplaces(r) PROVE RegistryInv'
<1> USE DEF RegistryInv, SteerReplaces
<1>0. PICK n \in Runs : n = steering[r]
  BY DEF TypeOK
<1>1. n # r /\ n \in Coming /\ Untouched(n)
  BY <1>0 DEF Coming, ComeOnce, TypeOK
<1>2. JobTypeOK'
  BY <1>0 DEF TypeOK, JobTypeOK, FirstWait, Waiters, Statuses
<1>3. TypeOK'
  BY <1>0, <1>2, RecordTypes DEF TypeOK, clockVars, gatewayVars
<1>4. Unsent /\ Later /\ UNCHANGED <<course, flow, spawning, setbacks>>
  BY SetbackTypes, NothingSent DEF gatewayVars
<1>5. \A q \in Runs \ {r, n} : Resumed(q, rec[q], flow[q])
  BY <1>0, <1>4 DEF Resumed, TypeOK
<1>6. rec'[n] = NewRec /\ rec'[r] = NoRec
  BY <1>0, <1>1 DEF TypeOK
<1>7. RunInv(n)'
  <2>1. Counted(n) /\ flow'[n] = flow[n] /\ TypeOK /\ UNCHANGED setbacks
    BY <1>4 DEF RunInv
  <2> HIDE DEF RegistryInv, SteerReplaces
  <2> QED BY <2>1, <1>1, <1>4, <1>6, NewKeeps
<1>8. RunInv(r)' /\ (Untouched(r) => Untouched(r)')
  <2>1. NoRec.retries = 0 /\ NoRec.suppress = "absent" /\ MaxRetry > 0
    BY RegistryAssumption DEF NoRec
  <2> QED
    BY <1>4, <1>6, <2>1 DEF RunInv, Owned, AttemptsLeft, EndedIfHeard, KilledIsOver,
       Silent, Counted, Done, Has, CanBegin, Untouched, Unsent
<1>9. \A q \in Runs : RunInv(q)' /\ (q # n /\ Untouched(q) => Untouched(q)')
  <2> SUFFICES ASSUME NEW q \in Runs
               PROVE  RunInv(q)' /\ (q # n /\ Untouched(q) => Untouched(q)')
    OBVIOUS
  <2> TypeOK /\ RunInv(q)
    OBVIOUS
  <2> HIDE DEF RegistryInv, SteerReplaces
  <2>1. CASE q \notin {r, n}
    BY <2>1, <1>4, <1>5, ResumedKeeps
  <2> QED BY <2>1, <1>7, <1>8
<1>10. Coming' \subseteq Coming \ {n} /\ Coming \subseteq Runs
  <2>1. \A q \in Runs : steering'[q] = IF q = r THEN NoRun ELSE steering[q]
    BY DEF TypeOK
  <2>2. n \notin spawning /\ \A q \in Runs : steering[q] = n => q = r
    BY <1>0, <1>1 DEF ComeOnce
  <2> QED BY <1>4, <2>1, <2>2 DEF Coming, TypeOK
<1>11. course[n] # "none"
  BY <1>1 DEF ComeOnce
<1>12. ComeOnce'
  <2>1. \A q \in Runs : steering'[q] = IF q = r THEN NoRun ELSE steering[q]
    BY DEF TypeOK
  <2>2. \A q \in Runs : course'[q] = "none" =>
            Untouched(q)' /\ q \notin Coming' /\ steering'[q] = NoRun
    BY <1>4, <1>9, <1>10, <1>11, <2>1 DEF ComeOnce
  <2>3. \A q \in Coming' : Untouched(q)'
    BY <1>9, <1>10 DEF ComeOnce
  <2>4. \A q \in Runs : steering'[q] \notin {q, NoRun} =>
            /\ steering'[q] \notin spawning'
            /\ \A p \in Runs : steering'[p] = steering'[q] => p = q
    BY <1>4, <2>1 DEF ComeOnce
  <2> QED BY <2>2, <2>3, <2>4 DEF ComeOnce
<1> QED BY <1>3, <1>9, <1>12

-----------------------------------------------------------------------------
(* The end of a run is learnt; one that has begun no cleanup and is not    *)
(* being steered begins its announcement.                                  *)
LEMMA ConcludeKeeps ==
    ASSUME RegistryInv, NEW r \in Runs, Conclude(r), Unsent, UNCHANGED setbacks
    PROVE  /\ rec' \in [Runs -> RecordType] /\ flow' \in [Runs -> Stages]
           /\ \A q \in Runs : RunInv(q)' /\ (Untouched(q) => Untouched(q)')
<1> DEFINE e == [rec[r] EXCEPT !.ended = TRUE]
           announce == Has(r) /\ e.suppress # "steer" /\ CanBegin(e)
<1> USE DEF RegistryInv
<1>1. /\ rec' = [rec EXCEPT ![r] = IF ~Has(r) THEN @ ELSE IF announce THEN Handled(e) ELSE e]
      /\ flow' = [flow EXCEPT ![r] = IF announce THEN "collecting" ELSE @]
  BY DEF Conclude
<1>2. /\ rec[r] \in RecordType /\ flow[r] \in Stages /\ e \in RecordType
      /\ e.ended /\ e.handled = rec[r].handled /\ e.completed = rec[r].completed
      /\ e.suppress = rec[r].suppress /\ e.retries = rec[r].retries
  BY DEF TypeOK, RecordType
<1> HIDE DEF e
<1>3. rec' \in [Runs -> RecordType] /\ flow' \in [Runs -> Stages]
  BY <1>1, <1>2, RecordTypes DEF TypeOK, Stages
<1>4. Later /\ setbacks \in Nat /\ sent[r] \in Nat
  BY SetbackTypes DEF TypeOK
<1>5. \A q \in Runs \ {r} : Resumed(q, rec[q], flow[q])
  BY <1>1 DEF Resumed, TypeOK
<1>6. RunInv(r)' /\ (Untouched(r) => Untouched(r)')
  <2>1. CASE ~Has(r)
    <3>1. Resumed(r, rec[r], flow[r])
      BY <1>1, <2>1 DEF TypeOK, Resumed
    <3> QED BY <1>4, <3>1, ResumedKeeps
  <2>2. CASE Has(r) /\ ~announce
    <3>1. rec'[r] = e /\ flow'[r] = flow[r]
      BY <1>1, <2>2 DEF TypeOK
    <3> QED
      BY <1>2, <1>4, <2>2, <3>1 DEF RunInv, Owned, AttemptsLeft, EndedIfHeard, KilledIsOver,
         Silent, Counted, Done, Has, CanBegin, Untouched, Unsent, Later
  <2>3. CASE announce
    <3>1. rec'[r] = Handled(e) /\ flow'[r] = "collecting" /\ ~Done(r)
      BY <1>1, <1>2, <2>3 DEF TypeOK, Done, CanBegin
    <3>2. /\ Handled(e).ended /\ Handled(e).handled /\ ~Handled(e).completed
          /\ Handled(e).suppress = rec[r].suppress /\ rec[r].suppress # "steer"
          /\ Handled(e).retries = rec[r].retries /\ ~rec[r].completed
      BY <1>2, <2>3 DEF Handled, RecordType, CanBegin
    <3> QED
      BY <1>2, <1>4, <2>3, <3>1, <3>2 DEF RunInv, Owned, AttemptsLeft, EndedIfHeard,
         KilledIsOver, Silent, Counted, Has, Untouched, Unsent, Later
  <2> QED BY <2>1, <2>2, <2>3
<1>7. \A q \in Runs : RunInv(q)' /\ (Untouched(q) => Untouched(q)')
  BY <1>4, <1>5, <1>6, ResumedKeeps
<1> QED BY <1>3, <1>7

(* The end of a run begins its announcement, or nothing.                   *)
LEMMA EndKeeps ==
    ASSUME RegistryInv, NEW r \in Runs, RunEnds(r) \/ WaitAnswered(r) PROVE RegistryInv'
<1> USE DEF RegistryInv
<1>1. /\ Conclude(r) /\ UNCHANGED <<clockVars, toolVars, gatewayVars, plan, setbacks>>
      /\ JobTypeOK' /\ \A q \in Runs : course'[q] = "none" => course[q] = "none"
  <2>1. CASE RunEnds(r)
    BY <2>1, JobTypes DEF RunEnds
  <2>2. CASE WaitAnswered(r)
    BY <2>2 DEF WaitAnswered, TypeOK, JobTypeOK, Waiters
  <2> QED BY <2>1, <2>2
<1>2. Unsent /\ UNCHANGED <<spawning, steering, resumed, timers>>
  BY <1>1, NothingSent DEF gatewayVars, toolVars, Conclude
<1>3. /\ rec' \in [Runs -> RecordType] /\ flow' \in [Runs -> Stages]
      /\ \A q \in Runs : RunInv(q)' /\ (Untouched(q) => Untouched(q)')
  BY <1>1, <1>2, ConcludeKeeps
<1>4. TypeOK'
  BY <1>1, <1>2, <1>3 DEF TypeOK, clockVars, toolVars, gatewayVars
<1>5. ComeOnce'
  BY <1>1, <1>2, <1>3, ComeQuiet DEF TypeOK
<1> QED BY <1>3, <1>4, <1>5

-----------------------------------------------------------------------------
(* A run that has not ended has no flow and was not heard of, so that it   *)
(* can be silenced.                                                        *)
LEMMA SilenceKeeps ==
    ASSUME TypeOK, NEW r \in Runs, RunInv(r), Has(r), ~rec[r].ended, Unsent, Later,
           flow'[r] = flow[r], rec'[r] \in RecordType,
           rec'[r].retries = rec[r].retries, rec'[r] # NoRec,
           rec'[r].completed = rec[r].completed \/ rec'[r].completed,
           rec'[r].suppress = "killed" => rec'[r].ended /\ rec'[r].completed
    PROVE  RunInv(r)' /\ (Untouched(r) => Untouched(r)')
<1>1. flow[r] = "none" /\ r \notin queued /\ sent[r] = 0
  BY DEF RunInv, Owned, EndedIfHeard, TypeOK
<1>2. setbacks \in Nat /\ setbacks' \in Nat
  BY DEF TypeOK, Later
<1>3. sent'[r] = 0 /\ r \notin queued' /\ flow'[r] = "none"
  BY <1>1 DEF Unsent
<1>4. Counted(r)'
  <2>1. sent'[r] <= setbacks'
    BY <1>2, <1>3
  <2> QED BY <1>3, <2>1, Zenon DEF Counted
<1>5. Owned(r)' /\ AttemptsLeft(r)' /\ EndedIfHeard(r)' /\ KilledIsOver(r)' /\ Silent(r)'
  BY <1>1, <1>3 DEF RunInv, Owned, AttemptsLeft, EndedIfHeard, KilledIsOver, Silent, Has
<1> QED BY <1>4, <1>5 DEF RunInv, Has, Untouched

(* The record that a kill leaves.                                          *)
LEMMA KilledRecord ==
    ASSUME NEW e \in RecordType, NEW k,
           k = [e EXCEPT !.ended = TRUE, !.handled = TRUE,
                         !.completed = TRUE, !.suppress = "killed"]
    PROVE  /\ k \in RecordType /\ k.retries = e.retries
           /\ k.completed /\ k.ended /\ k.suppress = "killed" /\ k # NoRec
<1>1. k = [ended |-> TRUE, handled |-> TRUE, completed |-> TRUE,
           suppress |-> "killed", retries |-> e.retries]
  BY DEF RecordType
<1>2. e.retries \in 0..MaxRetry
  BY DEF RecordType
<1>3. k \in RecordType
  BY <1>1, <1>2 DEF RecordType
<1> QED BY <1>1, <1>3 DEF NoRec

(* A kill silences the runs of a session that have not ended.              *)
LEMMA KillKeeps ==
    ASSUME RegistryInv, NEW r \in Runs, Kill(r) PROVE RegistryInv'
<1> USE DEF RegistryInv, Kill
<1>1. setbacks' \in 0..MaxSetbacks /\ Later
  BY SetbackTypes
<1>2. Unsent /\ UNCHANGED <<course, flow, spawning, steering>>
  BY NothingSent DEF gatewayVars, toolVars, jobVars
<1>3. ASSUME NEW q \in Runs
      PROVE  /\ rec'[q] \in RecordType /\ flow'[q] = flow[q]
             /\ RunInv(q)' /\ (Untouched(q) => Untouched(q)')
  <2>0. TypeOK /\ RunInv(q) /\ rec[q] \in RecordType
    BY DEF TypeOK
  <2>1. CASE SessionOf(q) # SessionOf(r) \/ ~Has(q) \/ rec[q].ended
    <3>1. rec'[q] = rec[q] /\ flow'[q] = flow[q]
      BY <1>2, <2>1
    <3>2. Resumed(q, rec[q], flow[q])
      BY <3>1 DEF Resumed
    <3> QED BY <2>0, <1>1, <1>2, <3>1, <3>2, ResumedKeeps
  <2>2. CASE ~(SessionOf(q) # SessionOf(r) \/ ~Has(q) \/ rec[q].ended)
    <3>1. rec'[q] = [rec[q] EXCEPT !.ended = TRUE, !.handled = TRUE,
                                   !.completed = TRUE, !.suppress = "killed"]
      BY <2>2
    <3>2. /\ rec'[q] \in RecordType /\ rec'[q].retries = rec[q].retries
          /\ rec'[q].completed /\ rec'[q].ended /\ rec'[q].suppress = "killed"
          /\ rec'[q] # NoRec
      BY <2>0, <3>1, KilledRecord
    <3>3. flow'[q] = flow[q]
      BY <1>2
    <3> QED BY <2>0, <1>1, <1>2, <2>2, <3>2, <3>3, SilenceKeeps
  <2> QED BY <2>1, <2>2
<1>4. rec' \in [Runs -> RecordType]
  BY <1>3
<1>5. TypeOK'
  BY <1>1, <1>4 DEF TypeOK, JobTypeOK, jobVars, clockVars, toolVars, gatewayVars
<1>6. ComeOnce'
  BY <1>2, <1>3, ComeQuiet DEF TypeOK
<1> QED BY <1>3, <1>5, <1>6

(* Marking a run for steering silences it.                                 *)
LEMMA SteerMarkKeeps ==
    ASSUME RegistryInv, NEW r \in Runs, SteerMark(r) PROVE RegistryInv'
<1> USE DEF RegistryInv, SteerMark
<1>1. Later /\ Unsent /\ UNCHANGED <<course, flow, spawning, setbacks>>
  BY SetbackTypes, NothingSent DEF gatewayVars, jobVars
<1>2. /\ rec[r] \in RecordType /\ rec'[r] = [rec[r] EXCEPT !.suppress = "steer"]
      /\ rec' \in [Runs -> RecordType]
  BY DEF TypeOK, RecordType
<1>3. /\ rec'[r] \in RecordType /\ rec'[r].retries = rec[r].retries
      /\ rec'[r].completed = rec[r].completed /\ rec'[r].suppress = "steer"
      /\ rec'[r] # NoRec /\ TypeOK /\ RunInv(r)
  BY <1>2 DEF RecordType, NoRec
<1>4. RunInv(r)' /\ (Untouched(r) => Untouched(r)')
  BY <1>1, <1>3, SilenceKeeps
<1>5. \A q \in Runs \ {r} : Resumed(q, rec[q], flow[q])
  BY <1>1 DEF Resumed, TypeOK
<1>6. \A q \in Runs : RunInv(q)' /\ (Untouched(q) => Untouched(q)')
  BY <1>1, <1>4, <1>5, ResumedKeeps
<1>7. TypeOK'
  BY <1>2 DEF TypeOK, JobTypeOK, jobVars, clockVars, toolVars, gatewayVars
<1>8. \A q \in Runs : steering'[q] = steering[q] \/ (q = r /\ steering'[q] = q)
  BY DEF TypeOK
<1>9. ~Untouched(r)
  BY DEF Untouched, Has
<1>10. ComeOnce'
  BY <1>1, <1>6, <1>8, <1>9, ComeQuiet DEF TypeOK
<1> QED BY <1>6, <1>7, <1>10

(* An archived run has no record any more.                                 *)
LEMMA SweepKeeps ==
    ASSUME RegistryInv, NEW r \in Runs, Sweep(r) PROVE RegistryInv'
<1> USE DEF RegistryInv, Sweep
<1>1. setbacks' \in 0..MaxSetbacks /\ Later /\ setbacks \in Nat
  BY SetbackTypes DEF TypeOK
<1>2. Unsent /\ UNCHANGED <<course, flow, spawning, steering>>
  BY NothingSent DEF toolVars, jobVars
<1>3. rec' \in [Runs -> RecordType] /\ rec'[r] = NoRec
  BY RecordTypes DEF TypeOK
<1>4. RunInv(r)' /\ (Untouched(r) => Untouched(r)')
  <2>1. NoRec.retries = 0 /\ NoRec.suppress = "absent" /\ MaxRetry > 0 /\ RunInv(r)
    BY RegistryAssumption DEF NoRec
  <2> QED
    BY <1>1, <1>2, <1>3, <2>1 DEF RunInv, Owned, AttemptsLeft, EndedIfHeard, KilledIsOver,
       Silent, Counted, Done, Has, CanBegin, Untouched, Unsent, Later, TypeOK
<1>5. \A q \in Runs \ {r} : Resumed(q, rec[q], flow[q])
  BY <1>2 DEF Resumed, TypeOK
<1>6. \A q \in Runs : RunInv(q)' /\ (Untouched(q) => Untouched(q)')
  BY <1>1, <1>2, <1>4, <1>5, ResumedKeeps
<1>7. TypeOK'
  BY <1>1, <1>3 DEF TypeOK, JobTypeOK, jobVars, clockVars, toolVars
<1>8. ComeOnce'
  BY <1>2, <1>6, ComeQuiet DEF TypeOK
<1> QED BY <1>6, <1>7, <1>8

-----------------------------------------------------------------------------
(* clearSubagentRunSteerRestart() lifts the silence of r and resumes it.   *)
LEMMA ReleasedKeeps ==
    ASSUME TypeOK, NEW r \in Runs, RunInv(r), Unsent, Later,
           rec[r].suppress = "steer",
           NEW e \in RecordType, e = [rec[r] EXCEPT !.suppress = "no"],
           Resumed(r, e, flow[r])
    PROVE  RunInv(r)' /\ (Untouched(r) => Untouched(r)')
<1>1. /\ e.ended = rec[r].ended /\ e.handled = rec[r].handled
      /\ e.completed = rec[r].completed /\ e.retries = rec[r].retries
      /\ e.suppress = "no" /\ rec[r] # NoRec
  BY DEF TypeOK, RecordType, NoRec
<1>2. flow[r] = "none" /\ r \notin queued /\ sent[r] = 0
  BY DEF RunInv, Silent
<1>3. setbacks \in Nat /\ setbacks' \in Nat
  BY DEF TypeOK, Later
<1>4. CASE rec'[r] = e /\ flow'[r] = flow[r]
  BY <1>1, <1>2, <1>3, <1>4 DEF RunInv, Owned, AttemptsLeft, EndedIfHeard, KilledIsOver,
     Silent, Counted, Has, Untouched, Unsent, Later
<1>5. CASE GivesUp(r, e, flow[r])
  <2>1. /\ rec'[r].completed /\ rec'[r].suppress = "no" /\ flow'[r] = "none"
    BY <1>1, <1>2, <1>5 DEF GivesUp, Completed, RecordType
  <2> QED
    BY <1>1, <1>2, <1>3, <2>1 DEF RunInv, Owned, AttemptsLeft, EndedIfHeard, KilledIsOver,
       Silent, Counted, Has, Untouched, Unsent, Later
<1>6. CASE Announces(r, e)
  <2>1. /\ rec'[r].handled /\ rec'[r].ended /\ rec'[r].suppress = "no"
        /\ rec'[r].retries < MaxRetry
    BY <1>1, <1>6 DEF Announces, Handled, RecordType
  <2> QED
    BY <1>1, <1>2, <1>3, <2>1 DEF RunInv, Owned, AttemptsLeft, EndedIfHeard, KilledIsOver,
       Silent, Counted, Has, Untouched, Unsent, Later
<1> QED BY <1>4, <1>5, <1>6 DEF Resumed

(* A failed steering lifts the silence and resumes the run.                *)
LEMMA SteerFailsKeeps ==
    ASSUME RegistryInv, NEW r \in Runs, SteerFails(r) PROVE RegistryInv'
<1> DEFINE es == [rec EXCEPT ![r] = IF @.suppress = "steer"
                                    THEN [@ EXCEPT !.suppress = "no"] ELSE @]
<1> USE DEF RegistryInv
<1>1. /\ steering' = [steering EXCEPT ![r] = NoRun]
      /\ UNCHANGED <<jobVars, clockVars, spawning, gatewayVars, plan, setbacks>>
  BY DEF SteerFails
<1>2. Unsent /\ Later /\ UNCHANGED <<course, spawning>>
  BY <1>1, SetbackTypes, NothingSent DEF gatewayVars, jobVars
<1>3. /\ rec' \in [Runs -> RecordType] /\ flow' \in [Runs -> Stages]
      /\ resumed' \subseteq Runs /\ timers' \subseteq Runs
      /\ \A q \in Runs : RunInv(q)' /\ (Untouched(q) => Untouched(q)')
  <2>1. CASE rec[r].suppress # "steer"
    <3>1. UNCHANGED registryVars
      BY <2>1 DEF SteerFails
    <3>2. \A q \in Runs : Resumed(q, rec[q], flow[q])
      BY <3>1 DEF Resumed, registryVars
    <3> QED BY <1>2, <3>1, <3>2, ResumedKeeps DEF registryVars, TypeOK
  <2>2. CASE rec[r].suppress = "steer"
    <3>1. PICK S : Resume(S, es, resumed \ {r}, flow, timers)
      BY <2>2 DEF SteerFails
    <3>2. /\ rec[r] \in RecordType /\ es[r] = [rec[r] EXCEPT !.suppress = "no"]
          /\ \A q \in Runs \ {r} : es[q] = rec[q]
          /\ es \in [Runs -> RecordType]
      BY <2>2 DEF TypeOK, RecordType
    <3>3. resumed \ {r} \in SUBSET Runs /\ timers \in SUBSET Runs /\ flow \in [Runs -> Stages]
      BY DEF TypeOK
    <3> HIDE DEF es
    <3>4. /\ rec' \in [Runs -> RecordType] /\ flow' \in [Runs -> Stages]
          /\ resumed' \subseteq Runs /\ timers' \subseteq Runs
          /\ \A q \in Runs : Resumed(q, es[q], flow[q])
      BY <3>1, <3>2, <3>3, ResumeEach
    <3>5. RunInv(r)' /\ (Untouched(r) => Untouched(r)')
      BY <1>2, <2>2, <3>2, <3>4, ReleasedKeeps
    <3>6. \A q \in Runs \ {r} : Resumed(q, rec[q], flow[q])
      BY <3>2, <3>4
    <3>7. \A q \in Runs \ {r} : RunInv(q)' /\ (Untouched(q) => Untouched(q)')
      BY <1>2, <3>6, ResumedKeeps
    <3> QED BY <3>4, <3>5, <3>7
  <2> QED BY <2>1, <2>2
<1>4. TypeOK'
  <2>1. JobTypeOK'
    BY <1>1 DEF TypeOK, JobTypeOK, jobVars
  <2>2. UNCHANGED <<plan, sessions, setbacks, sent, cooling, aged, spawning, queued,
                    seen, doubted, uncovered>>
    BY <1>1 DEF clockVars, gatewayVars
  <2>3. steering' \in [Runs -> Runs \union {NoRun}]
    BY <1>1 DEF TypeOK
  <2> QED BY <1>3, <2>1, <2>2, <2>3 DEF TypeOK
<1>5. \A q \in Runs : steering'[q] \in {steering[q], NoRun}
  BY <1>1 DEF TypeOK
<1>6. ComeOnce'
  BY <1>2, <1>3, <1>5, ComeQuiet DEF TypeOK
<1> QED BY <1>3, <1>4, <1>6

(* A retry timer resumes its run.                                          *)
LEMMA RetryTimerKeeps ==
    ASSUME RegistryInv, NEW r \in Runs, RetryTimer(r) PROVE RegistryInv'
<1> USE DEF RegistryInv
<1>1. /\ Resume({r}, rec, resumed, flow, timers \ {r})
      /\ UNCHANGED <<jobVars, clockVars, toolVars, gatewayVars, plan, setbacks>>
  BY DEF RetryTimer
<1>2. Unsent /\ Later /\ UNCHANGED <<course, spawning, steering>>
  BY <1>1, SetbackTypes, NothingSent DEF gatewayVars, jobVars, toolVars
<1>3. /\ rec \in [Runs -> RecordType] /\ flow \in [Runs -> Stages]
      /\ resumed \in SUBSET Runs /\ timers \ {r} \in SUBSET Runs
  BY DEF TypeOK
<1>4. /\ rec' \in [Runs -> RecordType] /\ flow' \in [Runs -> Stages]
      /\ resumed' \subseteq Runs /\ timers' \subseteq Runs
      /\ \A q \in Runs : Resumed(q, rec[q], flow[q])
  BY <1>1, <1>3, ResumeEach
<1>5. \A q \in Runs : RunInv(q)' /\ (Untouched(q) => Untouched(q)')
  BY <1>2, <1>4, ResumedKeeps
<1>6. TypeOK'
  <2>1. JobTypeOK'
    BY <1>1 DEF TypeOK, JobTypeOK, jobVars
  <2>2. UNCHANGED <<steering, plan, sessions, setbacks, sent, cooling, aged, spawning,
                    queued, seen, doubted, uncovered>>
    BY <1>1 DEF clockVars, toolVars, gatewayVars
  <2> QED BY <1>4, <2>1, <2>2 DEF TypeOK
<1>7. ComeOnce'
  BY <1>2, <1>5, ComeQuiet DEF TypeOK
<1> QED BY <1>5, <1>6, <1>7

-----------------------------------------------------------------------------
(* A restart forgets the flows, the queue and the idempotency keys, and is *)
(* counted as a setback.                                                   *)
LEMMA RestartedKeeps ==
    ASSUME TypeOK, NEW r \in Runs, RunInv(r), Resumed(r, rec[r], "none"),
           queued' = {}, UNCHANGED <<sent, doubted>>, setbacks' = setbacks + 1,
           r \in uncovered \/ Known(r) => r \in uncovered'
    PROVE  RunInv(r)' /\ (Untouched(r) => Untouched(r)')
<1>1. /\ rec[r] \in RecordType /\ flow[r] \in Stages /\ sent[r] \in Nat
      /\ setbacks \in Nat
  BY DEF TypeOK
<1>2. sent[r] <= setbacks' /\ (r \notin uncovered' => sent[r] = 0)
  BY <1>1 DEF RunInv, Counted
<1>3. CASE rec'[r] = rec[r] /\ flow'[r] = "none"
  BY <1>1, <1>2, <1>3 DEF RunInv, Owned, AttemptsLeft, EndedIfHeard, KilledIsOver, Silent,
     Counted, Done, Has, CanBegin, Untouched
<1>4. CASE GivesUp(r, rec[r], "none")
  <2>1. /\ rec[r] # NoRec /\ flow'[r] = "none" /\ rec'[r].completed
        /\ rec'[r].ended = rec[r].ended /\ rec'[r].suppress = rec[r].suppress
    BY <1>1, <1>4 DEF GivesUp, Completed, RecordType
  <2> QED
    BY <1>1, <1>2, <2>1 DEF RunInv, Owned, AttemptsLeft, EndedIfHeard, KilledIsOver, Silent,
       Counted, Done, Has, CanBegin, Untouched
<1>5. CASE Announces(r, rec[r])
  <2>1. /\ rec[r] # NoRec /\ flow'[r] = "collecting" /\ rec'[r].handled
        /\ rec[r].ended /\ rec'[r].ended /\ rec[r].retries < MaxRetry
        /\ ~rec[r].completed /\ ~rec[r].handled /\ rec[r].suppress # "steer"
        /\ rec'[r].suppress = rec[r].suppress /\ rec'[r].retries = rec[r].retries
    BY <1>1, <1>5 DEF Announces, Handled, RecordType, CanBegin
  <2>2. ~Done(r)
    BY <2>1 DEF Done, Has, CanBegin
  <2> QED
    BY <1>1, <1>2, <2>1, <2>2 DEF RunInv, Owned, AttemptsLeft, EndedIfHeard, KilledIsOver,
       Silent, Counted, Untouched
<1> QED BY <1>3, <1>4, <1>5 DEF Resumed

(* A restart resumes all restored runs.                                    *)
LEMMA RestartKeeps ==
    ASSUME RegistryInv, Restart PROVE RegistryInv'
<1> USE DEF RegistryInv
<1>1. /\ Resume(Runs, rec, {}, [r \in Runs |-> "none"], {})
      /\ course' = [r \in Runs |-> IF course[r] = "none" THEN "none" ELSE "over"]
      /\ cache' = Fresh /\ grace' = {}
      /\ waiter' = [r \in Runs |-> IF ResumeKind(r, rec[r]) = "wait" THEN "waiting" ELSE "none"]
      /\ spawning' = {} /\ steering' = [r \in Runs |-> NoRun] /\ queued' = {}
      /\ seen' = [m \in Methods |-> {}]
      /\ uncovered' = uncovered \union UNION {seen[m] : m \in Methods}
      /\ recent' = {}
      /\ Setback /\ UNCHANGED <<starts, clockVars, plan, sessions, sent, doubted>>
  BY DEF Restart
<1>2. /\ rec \in [Runs -> RecordType] /\ [r \in Runs |-> "none"] \in [Runs -> Stages]
      /\ {} \in SUBSET Runs
  BY DEF TypeOK, Stages
<1>3. /\ rec' \in [Runs -> RecordType] /\ flow' \in [Runs -> Stages]
      /\ resumed' \subseteq Runs /\ timers' \subseteq Runs
      /\ \A q \in Runs : Resumed(q, rec[q], [r \in Runs |-> "none"][q])
  BY <1>1, <1>2, ResumeEach
<1>4. \A q \in Runs : Resumed(q, rec[q], "none")
  BY <1>3
<1>5. setbacks' = setbacks + 1 /\ setbacks' \in 0..MaxSetbacks
  BY <1>1, SetbackTypes DEF Setback
<1>6. \A q \in Runs : RunInv(q)' /\ (Untouched(q) => Untouched(q)')
  <2>1. \A q : Known(q) => q \in uncovered'
    BY <1>1 DEF Known, Direct, Methods
  <2> QED BY <1>1, <1>4, <1>5, <2>1, RestartedKeeps
<1>7. TypeOK'
  <2>1. JobTypeOK'
    BY <1>1 DEF TypeOK, JobTypeOK, Courses, Fresh, Waiters, Statuses
  <2>2. UNCHANGED <<plan, sessions, sent, cooling, aged, doubted>>
    BY <1>1 DEF clockVars
  <2>3. seen' \in [Methods -> SUBSET Runs] /\ uncovered' \subseteq Runs
    BY <1>1 DEF TypeOK
  <2> QED BY <1>1, <1>3, <1>5, <2>1, <2>2, <2>3 DEF TypeOK
<1>8. ComeOnce'
  BY <1>1, <1>6, ComeQuiet DEF TypeOK
<1> QED BY <1>6, <1>7, <1>8

-----------------------------------------------------------------------------
(* The flow of r is finalized: its record is closed or gone, or one        *)
(* attempt older and free for the next flow.                               *)
Retried(r) == [rec[r] EXCEPT !.retries = @ + 1]

Finalized(r, didAnnounce) ==
    \/ ~Has(r) /\ rec'[r] = rec[r]
    \/ didAnnounce /\ rec'[r] = NoRec
    \/ didAnnounce /\ Has(r) /\ rec'[r] = Completed(rec[r])
    \/ ~didAnnounce /\ Has(r) /\ rec'[r] = Completed(Retried(r))
    \/ /\ ~didAnnounce /\ Has(r) /\ rec[r].retries + 1 < MaxRetry
       /\ rec'[r] = [Retried(r) EXCEPT !.handled = FALSE]

(* A flow that was finalized leaves its run closed, gone, or free.         *)
LEMMA FinalizedKeeps ==
    ASSUME TypeOK, NEW r \in Runs, RunInv(r), NEW didAnnounce \in BOOLEAN,
           Finalized(r, didAnnounce), flow[r] # "none", flow'[r] = "none",
           didAnnounce <=> flow[r] = "delivered", Unsent, Later
    PROVE  RunInv(r)'
<1>1. /\ rec[r] \in RecordType /\ sent[r] \in Nat /\ setbacks \in Nat /\ MaxRetry > 0
      /\ MaxRetry \in Nat /\ rec[r].retries < MaxRetry /\ rec[r].retries \in Nat
  BY RegistryAssumption DEF TypeOK, RecordType, RunInv, AttemptsLeft
<1>2. NoRec.retries = 0 /\ NoRec.suppress = "absent"
  BY DEF NoRec
<1>3. Has(r) => rec[r].ended /\ rec[r].suppress \notin {"killed", "steer"}
  BY DEF RunInv, Owned, Silent
<1>4. CASE rec'[r] \in {rec[r], NoRec} /\ (rec'[r] = rec[r] => ~Has(r))
  <2>1. rec'[r] = NoRec
    BY <1>4 DEF Has
  <2> QED
    BY <1>1, <1>2, <2>1 DEF RunInv, Owned, AttemptsLeft, EndedIfHeard, KilledIsOver,
       Silent, Counted, Done, Has, Unsent, Later
<1>5. CASE Has(r) /\ didAnnounce /\ rec'[r] = Completed(rec[r])
  <2>1. rec'[r].completed /\ rec'[r].ended /\ rec'[r].suppress = rec[r].suppress
    BY <1>1, <1>3, <1>5 DEF Completed, RecordType
  <2> QED
    BY <1>1, <1>3, <1>5, <2>1 DEF RunInv, Owned, AttemptsLeft, EndedIfHeard, KilledIsOver,
       Silent, Counted, Done, CanBegin, Unsent, Later
<1>6. CASE ~didAnnounce /\ Has(r)
  <2>1. ~Done(r)
    BY <1>6 DEF Done
  <2>2. rec'[r].ended /\ rec'[r].suppress = rec[r].suppress
        /\ (rec'[r].completed \/ rec'[r].retries < MaxRetry)
    <3>1. CASE rec'[r] = Completed(Retried(r))
      BY <1>1, <1>3, <1>6, <3>1 DEF Completed, Retried, RecordType
    <3>2. CASE rec'[r] = [Retried(r) EXCEPT !.handled = FALSE] /\ rec[r].retries + 1 < MaxRetry
      BY <1>1, <1>3, <1>6, <3>2 DEF Retried, RecordType
    <3> QED BY <1>6, <3>1, <3>2 DEF Finalized
  <2>3. /\ r \notin queued /\ (r \notin doubted => sent[r] = 0) /\ sent[r] <= setbacks
        /\ r \notin uncovered => sent[r] = 0 \/ (sent[r] = 1 /\ Known(r))
    BY <2>1 DEF RunInv, Counted
  <2>4. Owned(r)' /\ AttemptsLeft(r)' /\ EndedIfHeard(r)' /\ KilledIsOver(r)' /\ Silent(r)'
    BY <1>3, <1>6, <2>2 DEF Owned, AttemptsLeft, EndedIfHeard, KilledIsOver, Silent
  <2>5. Counted(r)'
    BY <1>1, <2>3 DEF Counted, Unsent, Later
  <2> QED BY <2>4, <2>5 DEF RunInv
<1> QED BY <1>4, <1>5, <1>6 DEF Finalized, Has

(* There is room for one more attempt.                                     *)
LEMMA RetriedType ==
    ASSUME TypeOK, NEW r \in Runs, RunInv(r), flow[r] # "none"
    PROVE  /\ Retried(r) \in RecordType
           /\ [Retried(r) EXCEPT !.handled = FALSE] \in RecordType
           /\ Retried(r).retries = rec[r].retries + 1
<1>1. rec[r] \in RecordType /\ rec[r].retries + 1 \in 0..MaxRetry
  BY RegistryAssumption DEF TypeOK, RecordType, RunInv, AttemptsLeft
<1>2. Retried(r) = [ended |-> rec[r].ended, handled |-> rec[r].handled,
                    completed |-> rec[r].completed, suppress |-> rec[r].suppress,
                    retries |-> rec[r].retries + 1]
  BY <1>1 DEF Retried, RecordType
<1>3. Retried(r) \in RecordType
  BY <1>1, <1>2 DEF RecordType
<1>4. [Retried(r) EXCEPT !.handled = FALSE] \in RecordType
  BY <1>3 DEF RecordType
<1> QED BY <1>2, <1>3, <1>4

(* What finalizeSubagentCleanup() does to r and to the runs it wakes.      *)
LEMMA FinalizeEach ==
    ASSUME RegistryInv, NEW r \in Runs, NEW didAnnounce \in BOOLEAN,
           Finalize(r, didAnnounce), flow[r] # "none"
    PROVE  /\ rec' \in [Runs -> RecordType] /\ flow' \in [Runs -> Stages]
           /\ resumed' \subseteq Runs /\ timers' \subseteq Runs /\ cooling' \subseteq Runs
           /\ Finalized(r, didAnnounce) /\ flow'[r] = "none"
           /\ \A q \in Runs \ {r} : Resumed(q, rec[q], flow[q])
<1> DEFINE e == [rec[r] EXCEPT !.retries = IF didAnnounce THEN @ ELSE @ + 1]
           over == didAnnounce \/ e.retries >= MaxRetry \/ r \in aged
           left == IF didAnnounce /\ DeleteAfter(r) THEN NoRec ELSE Completed(e)
           fs == [flow EXCEPT ![r] = "none"]
           es == [rec EXCEPT ![r] = left]
<1>1. /\ TypeOK /\ RunInv(r) /\ rec \in [Runs -> RecordType] /\ flow \in [Runs -> Stages]
      /\ resumed \subseteq Runs /\ timers \subseteq Runs /\ cooling \subseteq Runs
      /\ MaxRetry \in Nat
  BY RegistryAssumption DEF RegistryInv, TypeOK
<1>2. e = IF didAnnounce THEN rec[r] ELSE Retried(r)
  BY <1>1 DEF Retried, RecordType
<1>3. e \in RecordType /\ left \in RecordType
  <2> HIDE DEF e
  <2>1. e \in RecordType
    BY <1>1, <1>2, RetriedType
  <2>2. Completed(e) \in RecordType /\ NoRec \in RecordType
    BY <2>1, RecordTypes
  <2> QED BY <2>1, <2>2
<1>4. fs \in [Runs -> Stages] /\ es \in [Runs -> RecordType] /\ fs[r] = "none" /\ es[r] = left
      /\ \A q \in Runs \ {r} : fs[q] = flow[q] /\ es[q] = rec[q]
  BY <1>1, <1>3 DEF Stages
<1>5. \/ ~Has(r) /\ flow' = fs /\ UNCHANGED <<rec, resumed, timers, cooling>>
      \/ Has(r) /\ over /\ WakeDeferred(r, es, fs) /\ cooling' = cooling \ {r}
      \/ /\ Has(r) /\ ~over
         /\ rec' = [rec EXCEPT ![r] = [e EXCEPT !.handled = FALSE]]
         /\ flow' = fs /\ resumed' = resumed \ {r}
         /\ timers' = IF Expects(r) THEN timers \union {r} ELSE timers
         /\ cooling' = cooling \union {r}
  BY DEF Finalize
<1> HIDE DEF fs, es, e
<1>6. CASE ~Has(r) /\ flow' = fs /\ UNCHANGED <<rec, resumed, timers, cooling>>
  <2>1. \A q \in Runs \ {r} : Resumed(q, rec[q], flow[q])
    BY <1>4, <1>6 DEF Resumed
  <2>2. Finalized(r, didAnnounce)
    BY <1>6 DEF Finalized
  <2> QED BY <1>1, <1>4, <1>6, <2>1, <2>2
<1>7. CASE Has(r) /\ over /\ WakeDeferred(r, es, fs) /\ cooling' = cooling \ {r}
  <2> DEFINE deferred == {q \in Runs \ {r} : /\ es[q].ended /\ CanBegin(es[q])
                                               /\ es[q].suppress # "steer"}
  <2>0. Resume(deferred, es, resumed \ deferred, fs, timers) /\ r \notin deferred
    BY <1>7 DEF WakeDeferred
  <2> HIDE DEF deferred, left
  <2>1. PICK S : Resume(S, es, resumed \ S, fs, timers) /\ r \notin S
    BY <2>0
  <2>2. resumed \ S \in SUBSET Runs /\ timers \in SUBSET Runs
    BY <1>1
  <2>3. /\ rec' \in [Runs -> RecordType] /\ flow' \in [Runs -> Stages]
        /\ resumed' \subseteq Runs /\ timers' \subseteq Runs
        /\ \A q \in Runs : Resumed(q, es[q], fs[q])
        /\ \A q \in Runs \ S : rec'[q] = es[q] /\ flow'[q] = fs[q]
    <3>1. PICK x \in [Runs -> RecordType], f \in [Runs -> Stages] : x = es /\ f = fs
      BY <1>4
    <3>2. PICK d \in SUBSET Runs, t \in SUBSET Runs : d = resumed \ S /\ t = timers
      BY <2>2
    <3>3. Resume(S, x, d, f, t)
      BY <2>1, <3>1, <3>2
    <3>4. /\ rec' \in [Runs -> RecordType] /\ flow' \in [Runs -> Stages]
          /\ resumed' \subseteq Runs /\ timers' \subseteq Runs
      BY <3>3, ResumeEach
    <3>5. \A q \in Runs : Resumed(q, x[q], f[q])
      BY <3>3, ResumeEach
    <3>6. \A q \in Runs \ S : rec'[q] = x[q] /\ flow'[q] = f[q]
      BY <3>3, ResumeEach
    <3> QED BY <3>1, <3>4, <3>5, <3>6
  <2>6. rec'[r] = left /\ flow'[r] = "none"
    BY <1>4, <2>1, <2>3
  <2>4. Finalized(r, didAnnounce)
    BY <1>2, <1>7, <2>6 DEF Finalized, left
  <2>5. \A q \in Runs \ {r} : Resumed(q, rec[q], flow[q])
    BY <1>4, <2>3
  <2> QED BY <1>1, <1>7, <2>3, <2>4, <2>5, <2>6
<1>8. CASE /\ Has(r) /\ ~over
           /\ rec' = [rec EXCEPT ![r] = [e EXCEPT !.handled = FALSE]]
           /\ flow' = fs /\ resumed' = resumed \ {r}
           /\ timers' = IF Expects(r) THEN timers \union {r} ELSE timers
           /\ cooling' = cooling \union {r}
  <2>1. /\ rec'[r] = [Retried(r) EXCEPT !.handled = FALSE] /\ ~didAnnounce
        /\ \A q \in Runs \ {r} : rec'[q] = rec[q]
    BY <1>1, <1>2, <1>8
  <2>2. rec[r].retries + 1 < MaxRetry
    BY <1>1, <1>2, <1>8, RetriedType DEF RecordType
  <2>3. Finalized(r, didAnnounce)
    BY <1>8, <2>1, <2>2 DEF Finalized
  <2>4. rec' \in [Runs -> RecordType]
    BY <1>1, <1>2, <1>8, <2>1, RetriedType
  <2>5. \A q \in Runs \ {r} : Resumed(q, rec[q], flow[q])
    BY <1>4, <1>8, <2>1 DEF Resumed
  <2> QED BY <1>1, <1>4, <1>8, <2>3, <2>4, <2>5
<1> QED BY <1>5, <1>6, <1>7, <1>8

(* A flow goes on to a stage before its end; nothing has been sent.        *)
LEMMA FlowGoesOn ==
    ASSUME TypeOK, NEW r \in Runs, RunInv(r), flow[r] = "collecting", rec'[r] = rec[r],
           flow'[r] \in {"labelling", "undelivered"}, Unsent, Later
    PROVE  RunInv(r)'
<1>1. sent[r] \in Nat /\ setbacks \in Nat /\ ~Done(r)
  BY DEF TypeOK, Done
<1> QED
  BY <1>1 DEF RunInv, Owned, AttemptsLeft, EndedIfHeard, KilledIsOver, Silent, Counted,
     Has, Unsent, Later

(* A step that finalizes a flow keeps the invariant.                       *)
LEMMA FinalKeeps ==
    ASSUME RegistryInv, NEW r \in Runs, NEW didAnnounce \in BOOLEAN,
           Finalize(r, didAnnounce), flow[r] # "none",
           didAnnounce <=> flow[r] = "delivered", Later,
           UNCHANGED <<jobVars, aged, toolVars, gatewayVars, plan>>,
           setbacks' \in 0..MaxSetbacks
    PROVE  RegistryInv'
<1> USE DEF RegistryInv
<1>1. /\ rec' \in [Runs -> RecordType] /\ flow' \in [Runs -> Stages]
      /\ resumed' \subseteq Runs /\ timers' \subseteq Runs /\ cooling' \subseteq Runs
      /\ Finalized(r, didAnnounce) /\ flow'[r] = "none"
      /\ \A q \in Runs \ {r} : Resumed(q, rec[q], flow[q])
  BY FinalizeEach
<1>2. Unsent /\ UNCHANGED <<course, spawning, steering>>
  BY NothingSent DEF jobVars, toolVars, gatewayVars
<1>3. RunInv(r)' /\ ~Untouched(r)
  BY <1>1, <1>2, FinalizedKeeps DEF Untouched
<1>4. \A q \in Runs : RunInv(q)' /\ (Untouched(q) => Untouched(q)')
  BY <1>1, <1>2, <1>3, ResumedKeeps
<1>5. TypeOK'
  <2>1. JobTypeOK'
    BY DEF TypeOK, JobTypeOK, jobVars
  <2>2. UNCHANGED <<steering, plan, sessions, sent, aged, spawning, queued, seen, doubted,
                    uncovered>>
    BY DEF toolVars, gatewayVars
  <2> QED BY <1>1, <2>1, <2>2 DEF TypeOK
<1>6. ComeOnce'
  BY <1>2, <1>4, ComeQuiet DEF TypeOK
<1> QED BY <1>4, <1>5, <1>6

(* The end of a flow finalizes it.                                         *)
LEMMA FlowEndsKeeps ==
    ASSUME RegistryInv, NEW r \in Runs, FlowEnds(r) PROVE RegistryInv'
<1>1. /\ Finalize(r, flow[r] = "delivered") /\ flow[r] # "none"
      /\ UNCHANGED <<jobVars, aged, toolVars, gatewayVars, plan, setbacks>>
  BY DEF FlowEnds
<1>2. PICK d \in BOOLEAN : d = (flow[r] = "delivered")
  OBVIOUS
<1>3. Finalize(r, d) /\ (d <=> flow[r] = "delivered")
  BY <1>1, <1>2
<1>4. Later /\ setbacks' \in 0..MaxSetbacks
  BY <1>1, SetbackTypes DEF RegistryInv
<1> QED BY <1>1, <1>3, <1>4, FinalKeeps

(* A flow that defers is finalized, or patches its label first.            *)
LEMMA FlowDefersKeeps ==
    ASSUME RegistryInv, NEW r \in Runs, FlowDefers(r) PROVE RegistryInv'
<1>1. /\ flow[r] = "collecting"
      /\ UNCHANGED <<jobVars, aged, toolVars, gatewayVars, plan>>
      /\ Setback \/ UNCHANGED setbacks
  BY DEF FlowDefers
<1>2. Later /\ setbacks' \in 0..MaxSetbacks
  BY <1>1, SetbackTypes DEF RegistryInv
<1>3. CASE Finalize(r, FALSE)
  BY <1>1, <1>2, <1>3, FinalKeeps
<1>4. CASE /\ flow' = [flow EXCEPT ![r] = "labelling"]
           /\ UNCHANGED <<rec, resumed, timers, cooling>>
  <2> USE DEF RegistryInv
  <2>1. Unsent /\ UNCHANGED <<course, spawning, steering>>
    BY <1>1, NothingSent DEF jobVars, toolVars, gatewayVars
  <2>2. \A q \in Runs \ {r} : Resumed(q, rec[q], flow[q])
    BY <1>4 DEF Resumed, TypeOK
  <2>3. RunInv(r)' /\ ~Untouched(r)
    BY <1>1, <1>2, <1>4, <2>1, FlowGoesOn DEF TypeOK, Untouched
  <2>4. \A q \in Runs : RunInv(q)' /\ (Untouched(q) => Untouched(q)')
    BY <1>2, <2>1, <2>2, <2>3, ResumedKeeps
  <2>5. TypeOK'
    <3>1. JobTypeOK'
      BY <1>1 DEF TypeOK, JobTypeOK, jobVars
    <3>2. UNCHANGED <<steering, plan, sessions, sent, aged, spawning, queued, seen, doubted,
                    uncovered>>
      BY <1>1 DEF toolVars, gatewayVars
    <3>3. flow' \in [Runs -> Stages]
      BY <1>4 DEF TypeOK, Stages
    <3> QED BY <1>2, <1>4, <3>1, <3>2, <3>3 DEF TypeOK
  <2>6. ComeOnce'
    BY <2>1, <2>4, ComeQuiet DEF TypeOK
  <2> QED BY <2>4, <2>5, <2>6
<1> QED BY <1>3, <1>4 DEF FlowDefers

-----------------------------------------------------------------------------
(* What a send does to the other runs: nothing.                            *)
Apart(q) ==
    /\ rec'[q] = rec[q] /\ flow'[q] = flow[q] /\ sent'[q] = sent[q]
    /\ q \in queued' <=> q \in queued
    /\ Known(q)' <=> Known(q)
    /\ q \in doubted' <=> q \in doubted
    /\ q \in uncovered' <=> q \in uncovered

(* Runs apart from what is sent keep their invariant.                      *)
LEMMA OthersKeep ==
    ASSUME TypeOK, NEW q \in Runs, RunInv(q), Apart(q), Later
    PROVE  RunInv(q)' /\ (Untouched(q) => Untouched(q)')
<1>1. sent[q] \in Nat /\ setbacks \in Nat
  BY DEF TypeOK
<1> QED
  BY <1>1 DEF RunInv, Owned, AttemptsLeft, EndedIfHeard, KilledIsOver, Silent, Counted,
     Done, Has, Untouched, Apart, Later

(* The keys of other runs are not touched by a send of r.                  *)
LEMMA KeysApart ==
    ASSUME TypeOK, NEW r \in Runs, NEW m \in Methods, UNCHANGED plan,
           seen' \in {seen, [seen EXCEPT ![m] = @ \union {r}]}
    PROVE  /\ \A q \in Runs \ {r} : Known(q)' <=> Known(q)
           /\ Known(r) => Known(r)'
           /\ seen' \in [Methods -> SUBSET Runs]
<1>1. \A q \in Runs : Direct(q) \in Methods /\ Direct(q)' = Direct(q)
  BY DEF Direct, Methods, Expects, SessionOf
<1>2. seen \in [Methods -> SUBSET Runs]
  BY DEF TypeOK
<1> HIDE DEF Methods
<1>3. \A k \in Methods : \A q \in Runs :
          /\ q # r => (q \in seen'[k] <=> q \in seen[k])
          /\ q \in seen[k] => q \in seen'[k]
  BY <1>2
<1> QED BY <1>1, <1>2, <1>3 DEF Known

(* The queue sends what is done; with a failure it pays a setback.         *)
LEMMA QueueSendsKeeps ==
    ASSUME RegistryInv, NEW r \in Runs, QueueSends(r) PROVE RegistryInv'
<1> USE DEF RegistryInv
<1>1. /\ r \in queued /\ seen' = [seen EXCEPT !["agent"] = @ \union {r}]
      /\ sent' = [sent EXCEPT ![r] = @ + Reaches("agent", r)]
      /\ \/ queued' = queued \ {r} /\ UNCHANGED <<doubted, setbacks>>
         \/ doubted' = doubted \union {r} /\ Setback /\ UNCHANGED queued
      /\ UNCHANGED <<jobVars, registryVars, clockVars, toolVars, sessions, uncovered, plan>>
  BY DEF QueueSends
<1>2. /\ Later /\ UNCHANGED <<rec, flow, course, spawning, steering>>
      /\ setbacks' \in 0..MaxSetbacks
  BY <1>1, SetbackTypes DEF jobVars, registryVars, toolVars
<1>3. /\ \A q \in Runs \ {r} : Known(q)' <=> Known(q)
      /\ seen' \in [Methods -> SUBSET Runs]
  BY <1>1, KeysApart DEF Methods
<1>4. \A q \in Runs \ {r} : Apart(q)
  BY <1>1, <1>2, <1>3 DEF Apart, TypeOK
<1>5. RunInv(r)' /\ ~Untouched(r)
  <2>1. /\ sent[r] \in Nat /\ setbacks \in Nat /\ Done(r) /\ r \in uncovered
        /\ sent'[r] \in {sent[r], sent[r] + 1} /\ sent[r] <= setbacks
        /\ r \notin doubted => sent[r] = 0
    BY <1>1 DEF TypeOK, Reaches, RunInv, Counted
  <2>2. Done(r)' /\ r \in uncovered'
    BY <1>1, <1>2, <2>1 DEF Done, Has
  <2>3. Counted(r)'
    <3>1. CASE queued' = queued \ {r} /\ UNCHANGED <<doubted, setbacks>>
      BY <2>1, <2>2, <3>1 DEF Counted
    <3>2. CASE doubted' = doubted \union {r} /\ Setback /\ UNCHANGED queued
      <4>1. setbacks' = setbacks + 1
        BY <3>2 DEF Setback
      <4> QED BY <2>1, <2>2, <3>2, <4>1 DEF Counted
    <3> QED BY <1>1, <3>1, <3>2
  <2>4. r \in queued /\ RunInv(r)
    BY <1>1
  <2>5. Owned(r)' /\ AttemptsLeft(r)' /\ EndedIfHeard(r)' /\ KilledIsOver(r)' /\ Silent(r)'
    BY <1>2, <2>4 DEF RunInv, Owned, AttemptsLeft, EndedIfHeard, KilledIsOver, Silent, Has
  <2> QED BY <1>1, <2>3, <2>5 DEF RunInv, Untouched
<1>6. \A q \in Runs : RunInv(q)' /\ (Untouched(q) => Untouched(q)')
  BY <1>2, <1>4, <1>5, OthersKeep
<1>7. TypeOK'
  <2>1. JobTypeOK'
    BY <1>1 DEF TypeOK, JobTypeOK, jobVars
  <2>2. UNCHANGED <<resumed, timers, cooling, aged>>
    BY <1>1 DEF registryVars, clockVars
  <2>3. /\ sent' \in [Runs -> Nat] /\ queued' \subseteq Runs /\ doubted' \subseteq Runs
    BY <1>1 DEF TypeOK, Reaches
  <2> QED BY <1>1, <1>2, <1>3, <2>1, <2>2, <2>3 DEF TypeOK
<1>8. ComeOnce'
  BY <1>2, <1>6, ComeQuiet DEF TypeOK
<1> QED BY <1>6, <1>7, <1>8

(* What a delivery changes, for a run of which nothing is under way.       *)
LEMMA DeliversEach ==
    ASSUME RegistryInv, NEW r \in Runs, NEW d \in Deliveries(r), Delivers(r, d),
           UNCHANGED plan
    PROVE  /\ \A q \in Runs \ {r} : sent'[q] = sent[q] /\ (Known(q)' <=> Known(q))
           /\ sent' \in [Runs -> Nat] /\ seen' \in [Methods -> SUBSET Runs]
           /\ queued' \in {queued, queued \union {r}}
           /\ doubted' \in {doubted, doubted \union {r}}
           /\ uncovered' \in {uncovered, uncovered \union {r}}
<1>1. Direct(r) \in Methods
  BY DEF Direct, Methods
<1>2. seen' \in {seen, [seen EXCEPT ![Direct(r)] = @ \union {r}]}
  BY DEF Delivers
<1>3. /\ \A q \in Runs \ {r} : Known(q)' <=> Known(q)
      /\ seen' \in [Methods -> SUBSET Runs]
  BY <1>1, <1>2, KeysApart DEF RegistryInv
<1>4. PICK k \in 0..2 : sent' = [sent EXCEPT ![r] = @ + k]
  <2>1. Reaches(Direct(r), r) \in {0, 1} /\ sent \in [Runs -> Nat]
    BY DEF Reaches, RegistryInv, TypeOK
  <2>2. sent[r] \in Nat
    BY <2>1
  <2> DEFINE once == IF d.direct \in {"ok", "arrived"} THEN Reaches(Direct(r), r) ELSE 0
             more == IF d.otherwise = "steered" THEN 1 ELSE 0
  <2>3. once \in {0, 1} /\ more \in {0, 1}
    BY <2>1
  <2>4. sent' = [sent EXCEPT ![r] = sent[r] + once + more]
    BY DEF Delivers
  <2> HIDE DEF once, more
  <2>5. once + more \in 0..2 /\ sent[r] + once + more = sent[r] + (once + more)
    BY <2>2, <2>3
  <2> QED BY <2>4, <2>5
<1>5. sent' \in [Runs -> Nat] /\ \A q \in Runs \ {r} : sent'[q] = sent[q]
  BY <1>4 DEF RegistryInv, TypeOK
<1> QED BY <1>3, <1>5 DEF Delivers

(* What is sent directly is known then, and a failure pays a setback.      *)
LEMMA DeliversCounts ==
    ASSUME RegistryInv, NEW r \in Runs, NEW d \in Deliveries(r), Delivers(r, d),
           UNCHANGED plan, ~Done(r),
           d.direct = "ok" \/ d.otherwise # "none" => Done(r)'
    PROVE  Counted(r)'
<1>1. /\ sent[r] \in Nat /\ setbacks \in Nat /\ r \notin queued /\ sent[r] <= setbacks
      /\ r \notin doubted => sent[r] = 0
      /\ r \notin uncovered => sent[r] = 0 \/ (sent[r] = 1 /\ Known(r))
  BY DEF RegistryInv, TypeOK, RunInv, Counted
<1>2. Reaches(Direct(r), r) = IF Known(r) THEN 0 ELSE 1
  BY DEF Reaches, Known
<1>3. Direct(r) \in Methods /\ Direct(r)' = Direct(r)
  BY DEF Direct, Methods, Expects, SessionOf
<1>4. /\ d.direct \in {"ok", "arrived"} => Known(r)'
      /\ d.direct \notin {"ok", "arrived"} => (Known(r)' <=> Known(r))
  BY <1>3 DEF Delivers, Known, RegistryInv, TypeOK
<1>5. sent'[r] = sent[r] + (IF d.direct \in {"ok", "arrived"} /\ ~Known(r) THEN 1 ELSE 0)
                         + (IF d.otherwise = "steered" THEN 1 ELSE 0)
  BY <1>1, <1>2 DEF Delivers, RegistryInv, TypeOK
<1>6. /\ r \in queued' <=> d.otherwise = "queued"
      /\ r \in doubted' <=> r \in doubted \/ d.direct = "arrived"
      /\ r \in uncovered' <=> r \in uncovered \/ d.otherwise # "none"
      /\ d.direct \in {"arrived", "failed"} => setbacks' = setbacks + 1
      /\ d.direct \notin {"arrived", "failed"} => setbacks' = setbacks
  BY <1>1 DEF Delivers, Setback
<1>7. /\ d.direct \in {"none", "ok", "arrived", "failed"}
      /\ d.otherwise \in {"none", "steered", "queued"}
      /\ d.direct = "none" => d.otherwise # "none"
      /\ d.direct = "ok" => d.otherwise = "none"
  BY DEF Deliveries
<1>8. CASE d.direct = "none"
  BY <1>1, <1>4, <1>5, <1>6, <1>7, <1>8 DEF Counted
<1>9. CASE d.direct = "ok"
  BY <1>1, <1>4, <1>5, <1>6, <1>7, <1>9 DEF Counted
<1>10. CASE d.direct = "arrived"
  BY <1>1, <1>4, <1>5, <1>6, <1>7, <1>10 DEF Counted
<1>11. CASE d.direct = "failed"
  BY <1>1, <1>4, <1>5, <1>6, <1>7, <1>11 DEF Counted
<1> QED BY <1>7, <1>8, <1>9, <1>10, <1>11

(* A flow sends what is not done yet.                                      *)
LEMMA FlowSendsKeeps ==
    ASSUME RegistryInv, NEW r \in Runs, FlowSends(r) PROVE RegistryInv'
<1> USE DEF RegistryInv
<1>1. /\ flow[r] = "collecting" /\ sessions' \subseteq sessions
      /\ UNCHANGED <<jobVars, rec, resumed, timers, clockVars, toolVars, plan>>
  BY DEF FlowSends
<1>2. PICK d \in Deliveries(r) :
        /\ Delivers(r, d)
        /\ flow' = [flow EXCEPT ![r] = IF d.direct = "ok" \/ d.otherwise # "none"
                                         THEN "delivered" ELSE "undelivered"]
  BY DEF FlowSends
<1>3. Later /\ setbacks' \in 0..MaxSetbacks
  BY <1>2, SetbackTypes DEF Delivers
<1>4. UNCHANGED <<course, spawning, steering>>
  BY <1>1 DEF jobVars, toolVars
<1>5. PICK stage \in {"delivered", "undelivered"} : flow' = [flow EXCEPT ![r] = stage]
  BY <1>2
<1>6. /\ \A q \in Runs \ {r} : sent'[q] = sent[q] /\ (Known(q)' <=> Known(q))
      /\ sent' \in [Runs -> Nat] /\ seen' \in [Methods -> SUBSET Runs]
      /\ queued' \in {queued, queued \union {r}}
      /\ doubted' \in {doubted, doubted \union {r}}
      /\ uncovered' \in {uncovered, uncovered \union {r}}
  BY <1>1, <1>2, DeliversEach
<1>7. \A q \in Runs \ {r} : Apart(q)
  BY <1>1, <1>5, <1>6 DEF Apart, TypeOK
<1>8. /\ ~Done(r) /\ rec'[r] = rec[r] /\ flow'[r] = stage
      /\ Has(r) => rec[r].handled /\ rec[r].ended
  BY <1>1, <1>5 DEF TypeOK, Done, RunInv, Owned
<1>9. d.direct = "ok" \/ d.otherwise # "none" => Done(r)'
  <2>1. d.direct = "ok" \/ d.otherwise # "none" => flow'[r] = "delivered"
    BY <1>2 DEF TypeOK
  <2> QED BY <1>8, <2>1 DEF Done, Has, CanBegin
<1>10. Counted(r)'
  BY <1>1, <1>2, <1>8, <1>9, DeliversCounts
<1>11. Owned(r)' /\ AttemptsLeft(r)' /\ EndedIfHeard(r)' /\ KilledIsOver(r)' /\ Silent(r)'
  BY <1>1, <1>5, <1>8
     DEF RunInv, Owned, AttemptsLeft, EndedIfHeard, KilledIsOver, Silent, Has
<1>12. RunInv(r)' /\ ~Untouched(r)
  BY <1>1, <1>10, <1>11 DEF RunInv, Untouched
<1>13. \A q \in Runs : RunInv(q)' /\ (Untouched(q) => Untouched(q)')
  BY <1>3, <1>7, <1>12, OthersKeep
<1>14. TypeOK'
  <2>1. JobTypeOK'
    BY <1>1 DEF TypeOK, JobTypeOK, jobVars
  <2>2. UNCHANGED <<cooling, aged>>
    BY <1>1 DEF clockVars
  <2>3. /\ flow' \in [Runs -> Stages] /\ queued' \subseteq Runs /\ doubted' \subseteq Runs
        /\ uncovered' \subseteq Runs /\ sessions' \subseteq Sessions
    BY <1>1, <1>5, <1>6 DEF TypeOK, Stages
  <2> QED BY <1>1, <1>3, <1>4, <1>6, <2>1, <2>2, <2>3 DEF TypeOK
<1>15. ComeOnce'
  BY <1>4, <1>13, ComeQuiet DEF TypeOK
<1> QED BY <1>13, <1>14, <1>15

-----------------------------------------------------------------------------
(* Every step keeps the invariant.                                         *)
LEMMA InvNext == RegistryInv /\ [Next]_vars => RegistryInv'
<1> SUFFICES ASSUME RegistryInv, [Next]_vars PROVE RegistryInv'
  OBVIOUS
<1>1. ASSUME NEW r \in Runs, Tools(r) PROVE RegistryInv'
  BY <1>1, SpawnKeeps, KillKeeps, SteerMarkKeeps, SteerLaunchKeeps, SteerFailsKeeps,
     SteerReplacesKeeps DEF Tools
<1>2. ASSUME NEW r \in Runs, Work(r) PROVE RegistryInv'
  BY <1>2, RegisterKeeps, EndKeeps, QuietStepKeeps, FlowDefersKeeps, FlowSendsKeeps,
     FlowEndsKeeps, QueueSendsKeeps, RetryTimerKeeps DEF Work
<1>3. ASSUME NEW r \in Runs, Sweep(r) PROVE RegistryInv'
  BY <1>3, SweepKeeps
<1>4. CASE UNCHANGED vars
  <2>1. /\ UNCHANGED <<rec, flow, spawning, steering, course>> /\ Unsent /\ UNCHANGED setbacks
        /\ UNCHANGED <<jobVars, clockVars, resumed, timers, sessions, plan>>
    BY <1>4, NothingSent DEF vars, registryVars, toolVars, gatewayVars, jobVars
  <2>2. Later
    BY <2>1, SetbackTypes DEF RegistryInv
  <2>3. ComeOnce' /\ \A r \in Runs : RunInv(r)'
    BY <2>1, <2>2, QuietKeeps
  <2>4. TypeOK'
    BY <2>1 DEF RegistryInv, TypeOK, JobTypeOK, jobVars, clockVars, Unsent
  <2> QED BY <2>3, <2>4 DEF RegistryInv
<1> QED BY <1>1, <1>2, <1>3, <1>4, RestartKeeps DEF Next

(* The invariant holds in every reachable state.                           *)
LEMMA Inductive == Spec => []RegistryInv
BY InvInit, InvNext, PTL DEF Spec

(* Types; no record counts more attempts than MAX_ANNOUNCE_RETRY_COUNT.    *)
THEOREM Typed == Spec => []TypeOK
<1>1. RegistryInv => TypeOK
  BY DEF RegistryInv
<1> QED BY <1>1, Inductive, PTL

(* Who begins a cleanup owns it until its flow is finalized.               *)
THEOREM Owner == Spec => []FlowOwnsCleanup
<1>1. RegistryInv => FlowOwnsCleanup
  BY DEF RegistryInv, RunInv, Owned, FlowOwnsCleanup
<1> QED BY <1>1, Inductive, PTL

(* Nothing of a killed run, or of one being steered, is announced.         *)
THEOREM Silenced == Spec => []SilencedStaySilent
<1>1. RegistryInv => SilencedStaySilent
  BY DEF RegistryInv, RunInv, Silent, SilencedStaySilent
<1> QED BY <1>1, Inductive, PTL

(* A result reaches its requester at most once, however it is announced;   *)
(* more often only if a send failed after arriving and one was not covered *)
(* by the key of the direct send, and then once for each setback.          *)
THEOREM Once == Spec => []AnnouncedOnce
<1>1. RegistryInv => AnnouncedOnce
  BY DEF RegistryInv, TypeOK, RunInv, Counted, AnnouncedOnce
<1> QED BY <1>1, Inductive, PTL

-----------------------------------------------------------------------------
(* As long as nothing was disturbed, a stranded run has someone to wake    *)
(* it: a run below it that is active, is being steered, or has a flow that *)
(* will wake it.  The flow of a labelled run may end without waking.       *)
Wakes(q) ==
    /\ Has(q)
    /\ ~rec[q].ended \/ flow[q] \notin {"none", "labelling"} \/ rec[q].suppress = "steer"

Stranded(r) ==
    rec[r].ended /\ rec[r].suppress = "no" /\ ~rec[r].completed /\ flow[r] = "none"

Awaited ==
    \A r \in Runs \ Labelled : Stranded(r) =>
        Orphan(r) \/ \E q \in Runs : Wakes(q) /\ Below(q, SessionOf(r))

(* Nothing waits for a timer or gave up, and who owns a cleanup has a flow. *)
Calm(r) ==
    /\ r \in cooling => ~Expects(r)
    /\ flow[r] # "undelivered"
    /\ flow[r] = "labelling" => r \in Labelled /\ ~Expects(r)
    /\ rec[r].completed => rec[r].ended
    /\ rec[r].handled /\ ~rec[r].completed => flow[r] # "none"
    /\ rec[r].suppress = "steer" => ~rec[r].completed
    /\ steering[r] # NoRun => rec[r].suppress = "steer" /\ SessionOf(steering[r]) = SessionOf(r)

AllCalm == aged = {} /\ timers = {} /\ \A r \in Runs : Calm(r)

(* The asker's session has run, and a run still to be registered has its   *)
(* session to itself.                                                      *)
Parents ==
    \A r \in Runs : course[r] # "none" =>
        \/ Requester[SessionOf(r)] = Main
        \/ \E p \in Runs : SessionOf(p) = Requester[SessionOf(r)] /\ course[p] # "none"

Alone ==
    \A p \in spawning :
        /\ SessionOf(p) \in sessions
        /\ \A q \in Runs \ {p} : SessionOf(q) = SessionOf(p) => course[q] = "none"

Undisturbed == AllCalm /\ Parents /\ Alone /\ Awaited

Still == setbacks = 0 /\ setbacks' = 0

-----------------------------------------------------------------------------
(* To be below is transitive.                                              *)
LEMMA BelowThrough ==
    ASSUME NEW q \in Runs, NEW p \in Runs, NEW s, Has(p), Below(p, s), Below(q, SessionOf(p))
    PROVE  Below(q, s)
<1> SUFFICES ASSUME NEW S \in SUBSET Sessions, s \in S, Closed(S)
             PROVE  Requester[SessionOf(q)] \in S
  BY DEF Below
<1>1. Requester[SessionOf(p)] \in S
  BY DEF Below
<1>2. SessionOf(p) \in S
  BY <1>1 DEF Closed
<1> QED BY <1>2 DEF Below

(* Nobody below a session with a record lacks a record of its asker.       *)
LEMMA BelowHasAsker ==
    ASSUME TypeOK, NEW q \in Runs, NEW r \in Runs, Has(r), Below(q, SessionOf(r))
    PROVE  ~Orphan(q)
<1> DEFINE S == {SessionOf(p) : p \in {x \in Runs : Has(x)}}
<1>1. S \in SUBSET Sessions
  BY RegistryAssumption DEF TypeOK, SessionOf
<1>2. SessionOf(r) \in S /\ Closed(S)
  BY DEF Closed
<1>3. Requester[SessionOf(q)] \in S
  BY <1>1, <1>2 DEF Below
<1> QED BY <1>3 DEF Orphan

(* Who is below stays so while the recorded sessions stay recorded.        *)
LEMMA BelowKept ==
    ASSUME NEW q \in Runs, NEW s, Below(q, s), UNCHANGED plan,
           \A p \in Runs : Has(p) => \E x \in Runs : Has(x)' /\ SessionOf(x) = SessionOf(p)
    PROVE  Below(q, s)'
<1>1. \A p \in Runs : SessionOf(p)' = SessionOf(p)
  BY DEF SessionOf
<1> SUFFICES ASSUME NEW S \in SUBSET Sessions, s \in S, Closed(S)'
             PROVE  Requester[SessionOf(q)] \in S
  BY <1>1 DEF Below
<1>2. \A p \in Runs : Has(p)' /\ Requester[SessionOf(p)] \in S => SessionOf(p) \in S
  BY <1>1 DEF Closed
<1>3. Closed(S)
  BY <1>2 DEF Closed
<1> QED BY <1>3 DEF Below

(* A step keeps whom a stranded run waits for if it keeps the recorded     *)
(* sessions and the orphans, if whom it strands has someone to wait for,   *)
(* and if a run that would wake others leaves that to one of its session   *)
(* or below it.                                                            *)
LEMMA AwaitedKept ==
    ASSUME TypeOK, Awaited, UNCHANGED plan,
           \A p \in Runs : Has(p) => \E x \in Runs : Has(x)' /\ SessionOf(x) = SessionOf(p),
           \A r \in Runs : Has(r) /\ Orphan(r) => Orphan(r)',
           \A r \in Runs \ Labelled : Stranded(r)' =>
               \/ Stranded(r) \/ Orphan(r)'
               \/ \E q \in Runs : Wakes(q)' /\ Below(q, SessionOf(r)),
           \A q \in Runs : Wakes(q) =>
               \/ Orphan(q)
               \/ \E v \in Runs : Wakes(v)' /\ (\/ SessionOf(v) = SessionOf(q)
                                               \/ Below(v, SessionOf(q)))
    PROVE  Awaited'
<1> SUFFICES ASSUME NEW r \in Runs \ Labelled, Stranded(r)'
             PROVE  Orphan(r)' \/ \E q \in Runs : Wakes(q)' /\ Below(q, SessionOf(r))'
  BY DEF Awaited
<1>1. PICK s \in Sessions : s = SessionOf(r)
  BY RegistryAssumption DEF TypeOK, SessionOf
<1>2. ASSUME NEW q \in Runs, Wakes(q)', Below(q, s)
      PROVE  \E x \in Runs : Wakes(x)' /\ Below(x, SessionOf(r))'
  <2>1. Below(q, s)'
    BY <1>2, BelowKept
  <2>2. s = SessionOf(r)'
    BY <1>1 DEF SessionOf
  <2> QED BY <1>2, <2>1, <2>2 DEF Below
<1>3. CASE Stranded(r)
  <2>1. Has(r)
    BY <1>3 DEF Stranded, Has, NoRec
  <2>2. CASE Orphan(r)
    BY <2>1, <2>2
  <2>3. ASSUME NEW q \in Runs, Wakes(q), Below(q, s)
        PROVE  \E v \in Runs : Wakes(v)' /\ Below(v, s)
    <3>1. ~Orphan(q)
      BY <1>1, <2>1, <2>3, BelowHasAsker
    <3>2. PICK v \in Runs : Wakes(v)' /\ (\/ SessionOf(v) = SessionOf(q)
                                         \/ Below(v, SessionOf(q)))
      BY <2>3, <3>1
    <3>3. CASE SessionOf(v) = SessionOf(q)
      BY <2>3, <3>2, <3>3 DEF Below
    <3>4. CASE Below(v, SessionOf(q))
      BY <2>3, <3>2, <3>4, BelowThrough DEF Wakes
    <3> QED BY <3>2, <3>3, <3>4
  <2> QED BY <1>1, <1>2, <1>3, <2>2, <2>3 DEF Awaited
<1> QED BY <1>1, <1>2, <1>3

(* In particular a step that changes no record, flow or session.           *)
LEMMA AwaitedQuiet ==
    ASSUME Awaited, UNCHANGED <<rec, flow, sessions, plan>> PROVE Awaited'
BY DEF Awaited, Stranded, Orphan, Wakes, Below, Closed, Has, SessionOf

CalmlyResumed(S, es, res, fs, ts) ==
    /\ timers' = ts
    /\ \A r \in Runs :
         IF r \in S \ res /\ es[r] # NoRec /\ es[r].ended /\ CanBegin(es[r])
              /\ es[r].suppress # "steer"
         THEN rec'[r] = Handled(es[r]) /\ flow'[r] = "collecting"
         ELSE rec'[r] = es[r] /\ flow'[r] = fs[r]

(* In a calm state, resumeSubagentRun() begins each announcement that can  *)
(* be begun and does nothing else: it gives up no run and sets no timer.   *)
LEMMA CalmResume ==
    ASSUME NEW S, NEW es \in [Runs -> RecordType], NEW res \in SUBSET Runs,
           NEW fs \in [Runs -> Stages], NEW ts,
           Resume(S, es, res, fs, ts), AllCalm,
           \A r \in Runs : es[r].completed \/ es[r].retries < MaxRetry
    PROVE  CalmlyResumed(S, es, res, fs, ts)
<1> DEFINE kind == [r \in Runs |-> IF r \in S \ res THEN ResumeKind(r, es[r]) ELSE "skip"]
           Of(ks) == {r \in Runs : kind[r] \in ks}
<1>1. /\ rec' = [r \in Runs |-> CASE kind[r] = "giveUp" -> Completed(es[r])
                                  [] kind[r] = "announce" -> Handled(es[r])
                                  [] OTHER -> es[r]]
      /\ flow' = [r \in Runs |-> IF kind[r] = "announce" THEN "collecting" ELSE fs[r]]
      /\ timers' = ts \union Of({"later"})
  BY DEF Resume
<1>2. ASSUME NEW r \in Runs
      PROVE  /\ kind[r] \notin {"giveUp", "later"}
             /\ kind[r] = "announce" <=>
                  (r \in S \ res /\ es[r] # NoRec /\ es[r].ended /\ CanBegin(es[r])
                     /\ es[r].suppress # "steer")
  <2>1. /\ r \notin aged /\ ~(Expects(r) /\ r \in cooling)
        /\ MaxRetry \in Nat /\ es[r].retries \in Nat
    BY RegistryAssumption DEF AllCalm, Calm, RecordType
  <2>2. es[r].completed \/ ~(es[r].retries >= MaxRetry)
    BY <2>1
  <2> QED BY <2>1, <2>2 DEF ResumeKind, CanBegin
<1> HIDE DEF kind
<1> QED BY <1>1, <1>2 DEF CalmlyResumed

-----------------------------------------------------------------------------
(* Steps that accept no run keep the order of spawning.                    *)
LEMMA FamilyQuiet ==
    ASSUME Parents, Alone, UNCHANGED plan, spawning' \subseteq spawning,
           \A r \in Runs : course'[r] = "none" <=> course[r] = "none",
           \A p \in spawning' : SessionOf(p) \in sessions',
           spawning \subseteq Runs
    PROVE  Parents' /\ Alone'
<1>1. \A r \in Runs : SessionOf(r)' = SessionOf(r)
  BY DEF SessionOf
<1>2. Parents'
  BY <1>1 DEF Parents
<1>3. Alone'
  BY <1>1 DEF Alone
<1> QED BY <1>2, <1>3

(* Who has a record or a flow was accepted, and is no longer to be         *)
(* registered.                                                             *)
LEMMA Accepted ==
    ASSUME RegistryInv, NEW r \in Runs, ~Untouched(r)
    PROVE  course[r] # "none" /\ r \notin spawning
BY DEF RegistryInv, ComeOnce, Coming

(* A run of a subagent is spawned by a run that was accepted before.       *)
LEMMA SpawnFamily ==
    ASSUME RegistryInv, Parents, Alone, NEW r \in Runs, Spawn(r)
    PROVE  Parents' /\ Alone' /\ \A q \in Runs : Has(q) /\ Orphan(q) => Orphan(q)'
<1> USE DEF Spawn
<1>1. \A q \in Runs : SessionOf(q)' = SessionOf(q)
  BY DEF SessionOf
<1>2. course' = [course EXCEPT ![r] = "accepted"] /\ course \in [Runs -> Courses]
  BY DEF Accept, RegistryInv, TypeOK, JobTypeOK
<1>3. \A q \in Runs : course[q] # "none" => course'[q] # "none"
  BY <1>2
<1>4. Parents'
  <2> SUFFICES ASSUME NEW q \in Runs, course'[q] # "none"
               PROVE  \/ Requester[SessionOf(q)] = Main
                      \/ \E p \in Runs : SessionOf(p) = Requester[SessionOf(q)]
                                           /\ course'[p] # "none"
    BY <1>1 DEF Parents
  <2>1. CASE q = r
    BY <1>3, <2>1
  <2>2. CASE q # r
    BY <1>2, <1>3, <2>2 DEF Parents
  <2> QED BY <2>1, <2>2
<1>5. \A p \in spawning : p \in Runs /\ course[p] # "none"
  BY DEF RegistryInv, TypeOK, ComeOnce, Coming
<1>6. Alone'
  <2> SUFFICES ASSUME NEW p \in spawning'
               PROVE  /\ SessionOf(p) \in sessions'
                      /\ \A q \in Runs \ {p} : SessionOf(q) = SessionOf(p) => course'[q] = "none"
    BY <1>1, <1>5 DEF Alone
  <2>1. CASE p = r
    BY <1>2, <2>1
  <2>2. CASE p \in spawning /\ p # r
    BY <1>2, <1>5, <2>2 DEF Alone
  <2> QED BY <2>1, <2>2
<1>7. ASSUME NEW q \in Runs, Has(q), Orphan(q) PROVE Orphan(q)'
  <2>1. course[q] # "none"
    BY <1>7, Accepted DEF Untouched, Has
  <2>2. Requester[SessionOf(q)] # SessionOf(r)
    BY <1>7, <2>1 DEF Parents, Orphan
  <2>3. UNCHANGED rec
    BY DEF registryVars
  <2> QED BY <1>1, <1>7, <2>2, <2>3 DEF Orphan, Has
<1> QED BY <1>4, <1>6, <1>7

(* The replacement of a steered run has the session of one accepted before. *)
LEMMA SteerLaunchFamily ==
    ASSUME RegistryInv, AllCalm, Parents, Alone, NEW r \in Runs, NEW n \in Runs,
           SteerLaunch(r, n)
    PROVE  Parents' /\ Alone'
<1> USE DEF SteerLaunch
<1>1. \A q \in Runs : SessionOf(q)' = SessionOf(q)
  BY DEF SessionOf
<1>2. course' = [course EXCEPT ![n] = "accepted"] /\ course \in [Runs -> Courses]
  BY DEF Accept, RegistryInv, TypeOK, JobTypeOK
<1>3. Has(r)
  BY RegistryAssumption DEF AllCalm, Calm, Has, NoRec
<1>4. course[r] # "none" /\ r \notin spawning /\ course'[r] # "none"
  BY <1>2, <1>3, Accepted DEF Untouched, Has
<1>5. \A q \in Runs : course[q] # "none" => course'[q] # "none"
  BY <1>2
<1>6. Parents'
  <2> SUFFICES ASSUME NEW q \in Runs, course'[q] # "none"
               PROVE  \/ Requester[SessionOf(q)] = Main
                      \/ \E p \in Runs : SessionOf(p) = Requester[SessionOf(q)]
                                           /\ course'[p] # "none"
    BY <1>1 DEF Parents
  <2>1. CASE q = n
    BY <1>4, <1>5, <2>1 DEF Parents
  <2>2. CASE q # n
    BY <1>2, <1>5, <2>2 DEF Parents
  <2> QED BY <2>1, <2>2
<1>7. Alone'
  <2>1. spawning' = spawning /\ sessions' = sessions /\ spawning \subseteq Runs
    BY DEF gatewayVars, RegistryInv, TypeOK
  <2>2. \A p \in spawning : SessionOf(p) # SessionOf(r)
    BY <1>4, <2>1 DEF Alone
  <2> QED BY <1>1, <1>2, <2>1, <2>2 DEF Alone
<1> QED BY <1>6, <1>7

-----------------------------------------------------------------------------
(* A run that is registered is calm, and wakes who waits below.            *)
LEMMA RegisterCalm ==
    ASSUME RegistryInv, Undisturbed, NEW r \in Runs, Register(r) PROVE Undisturbed'
<1> USE DEF Register
<1>1. r \in Coming /\ Untouched(r) /\ ~Has(r)
  BY DEF Coming, RegistryInv, ComeOnce, Untouched, Has
<1>2. /\ UNCHANGED <<course, flow, steering, sessions, cooling, aged, timers, plan>>
      /\ spawning' \subseteq spawning /\ spawning \subseteq Runs
  BY DEF gatewayVars, clockVars, RegistryInv, TypeOK
<1>3. \A q \in Runs : rec'[q] = IF q = r THEN NewRec ELSE rec[q]
  BY DEF RegistryInv, TypeOK
<1>4. /\ ~NewRec.ended /\ ~NewRec.completed /\ ~NewRec.handled /\ NewRec.suppress = "no"
      /\ NoRec.suppress = "absent" /\ NewRec # NoRec
  BY RecordTypes DEF NewRec, NoRec
<1>5. \A q \in Runs : SessionOf(q)' = SessionOf(q) /\ Expects(q)' = Expects(q)
  BY <1>2 DEF SessionOf, Expects
<1>6. AllCalm'
  <2>1. steering[r] = NoRun
    BY <1>1, <1>4 DEF Undisturbed, AllCalm, Calm, Untouched
  <2>2. ASSUME NEW q \in Runs PROVE Calm(q)'
    <3>1. Calm(q)
      BY DEF Undisturbed, AllCalm
    <3> QED BY <1>1, <1>2, <1>3, <1>4, <1>5, <2>1, <3>1 DEF Calm, Untouched, SessionOf, Expects
  <2> QED BY <1>2, <2>2 DEF Undisturbed, AllCalm
<1>7. Parents' /\ Alone'
  BY <1>2, FamilyQuiet DEF Undisturbed, Alone
<1>8. Awaited'
  <2>1. SessionOf(r) \in sessions
    BY DEF Undisturbed, Alone
  <2>2. \A p \in Runs : Has(p) => Has(p)'
    BY <1>1, <1>3 DEF Has
  <2>3. \A q \in Runs : Orphan(q) => Orphan(q)'
    BY <1>2, <1>3, <1>5, <2>1 DEF Orphan, Has
  <2>4. \A q \in Runs : Stranded(q)' => Stranded(q)
    BY <1>2, <1>3, <1>4 DEF Stranded
  <2>5. \A q \in Runs : Wakes(q) => Wakes(q)'
    BY <1>1, <1>2, <1>3 DEF Wakes, Has
  <2> QED BY <1>2, <2>2, <2>3, <2>4, <2>5, AwaitedKept DEF RegistryInv, Undisturbed
<1> QED BY <1>6, <1>7, <1>8 DEF Undisturbed

(* The end of a run begins its announcement, if it is not being steered.   *)
LEMMA ConcludeCalm ==
    ASSUME RegistryInv, AllCalm, Awaited, NEW r \in Runs, Conclude(r),
           UNCHANGED <<clockVars, steering, sessions, plan>>
    PROVE  AllCalm' /\ Awaited'
<1> DEFINE e == [rec[r] EXCEPT !.ended = TRUE]
           announce == Has(r) /\ e.suppress # "steer" /\ CanBegin(e)
<1>1. /\ rec' = [rec EXCEPT ![r] = IF ~Has(r) THEN @ ELSE IF announce THEN Handled(e) ELSE e]
      /\ flow' = [flow EXCEPT ![r] = IF announce THEN "collecting" ELSE @]
      /\ timers' = timers
  BY DEF Conclude
<1>2. /\ e.ended /\ e.handled = rec[r].handled /\ e.completed = rec[r].completed
      /\ e.suppress = rec[r].suppress /\ rec[r] \in RecordType /\ e \in RecordType
  BY DEF RegistryInv, TypeOK, RecordType
<1>3. /\ Handled(e).ended /\ Handled(e).handled /\ Handled(e).completed = rec[r].completed
      /\ Handled(e).suppress = rec[r].suppress
  BY <1>2 DEF Handled, RecordType
<1> HIDE DEF e
<1>4. /\ \A q \in Runs \ {r} : rec'[q] = rec[q] /\ flow'[q] = flow[q]
      /\ ~Has(r) => rec'[r] = rec[r] /\ flow'[r] = flow[r]
      /\ announce => rec'[r] = Handled(e) /\ flow'[r] = "collecting"
      /\ (Has(r) /\ ~announce) => rec'[r] = e /\ flow'[r] = flow[r]
  BY <1>1 DEF RegistryInv, TypeOK
<1>5. \A q \in Runs : SessionOf(q)' = SessionOf(q) /\ Expects(q)' = Expects(q)
  BY DEF SessionOf, Expects
<1>6. UNCHANGED <<cooling, aged, timers, steering>>
  BY <1>1 DEF clockVars
<1>7. Calm(r) /\ Owned(r)
  BY DEF AllCalm, RegistryInv, RunInv
<1>8. AllCalm'
  <2>1. \A q \in Runs : SessionOf(steering[q])' = SessionOf(steering[q])
    BY DEF SessionOf
  <2>2. ASSUME NEW q \in Runs PROVE Calm(q)'
    <3>1. Calm(q)
      BY DEF AllCalm
    <3>2. CASE q # r \/ ~Has(r)
      BY <1>4, <1>5, <1>6, <2>1, <3>1, <3>2 DEF Calm
    <3>3. CASE q = r /\ announce
      BY <1>3, <1>4, <1>5, <1>6, <2>1, <3>1, <3>3 DEF Calm
    <3>4. CASE q = r /\ Has(r) /\ ~announce
      BY <1>2, <1>4, <1>5, <1>6, <2>1, <3>1, <3>4 DEF Calm
    <3> QED BY <3>2, <3>3, <3>4
  <2> QED BY <1>6, <2>2 DEF AllCalm
<1>9. Awaited'
  <2>1. \A p \in Runs : Has(p) <=> Has(p)'
    BY <1>2, <1>3, <1>4 DEF Has, NoRec
  <2>2. \A q \in Runs : Orphan(q) => Orphan(q)'
    BY <1>5, <2>1 DEF Orphan
  <2>3. ASSUME NEW q \in Runs, Stranded(q)' PROVE Stranded(q)
    BY <1>2, <1>3, <1>4, <1>7, <2>3 DEF Stranded, Calm, CanBegin
  <2>4. ASSUME NEW q \in Runs, Wakes(q) PROVE Wakes(q)'
    BY <1>2, <1>3, <1>4, <1>7, <2>1, <2>4 DEF Wakes, Calm, Owned, CanBegin
  <2> QED BY <2>1, <2>2, <2>3, <2>4, AwaitedKept DEF RegistryInv
<1> QED BY <1>8, <1>9

-----------------------------------------------------------------------------
(* A run that is marked for steering wakes who waits for it: it, or its    *)
(* replacement, will run.                                                  *)
LEMMA SteerMarkCalm ==
    ASSUME RegistryInv, AllCalm, Awaited, NEW r \in Runs, SteerMark(r)
    PROVE  AllCalm' /\ Awaited'
<1> USE DEF SteerMark
<1>1. UNCHANGED <<flow, sessions, cooling, aged, timers, plan>>
  BY DEF gatewayVars, clockVars
<1>2. /\ \A q \in Runs \ {r} : rec'[q] = rec[q] /\ steering'[q] = steering[q]
      /\ rec'[r] = [rec[r] EXCEPT !.suppress = "steer"] /\ steering'[r] = r
      /\ rec[r] \in RecordType
  BY DEF RegistryInv, TypeOK
<1>3. /\ rec'[r].suppress = "steer" /\ rec'[r].ended = rec[r].ended
      /\ rec'[r].completed = rec[r].completed /\ rec'[r].handled = rec[r].handled
      /\ rec'[r] # NoRec
  BY <1>2 DEF RecordType, NoRec
<1>4. \A q \in Runs : SessionOf(q)' = SessionOf(q) /\ Expects(q)' = Expects(q)
  BY DEF SessionOf, Expects
<1>5. AllCalm'
  <2>1. ASSUME NEW q \in Runs PROVE Calm(q)'
    <3>1. Calm(q)
      BY DEF AllCalm
    <3>2. CASE q # r
      BY <1>1, <1>2, <1>4, <3>1, <3>2 DEF Calm, SessionOf
    <3>3. CASE q = r
      BY <1>1, <1>2, <1>3, <1>4, <3>1, <3>3 DEF Calm, SessionOf
    <3> QED BY <3>2, <3>3
  <2> QED BY <1>1, <2>1 DEF AllCalm
<1>6. Awaited'
  <2>1. \A p \in Runs : Has(p) <=> Has(p)'
    BY <1>2, <1>3 DEF Has
  <2>2. \A q \in Runs : Orphan(q) => Orphan(q)'
    BY <1>1, <1>4, <2>1 DEF Orphan
  <2>3. \A q \in Runs : Stranded(q)' => Stranded(q)
    BY <1>1, <1>2, <1>3 DEF Stranded
  <2>4. \A q \in Runs : Wakes(q) => Wakes(q)'
    BY <1>1, <1>2, <1>3, <2>1 DEF Wakes
  <2> QED BY <1>1, <2>1, <2>2, <2>3, <2>4, AwaitedKept DEF RegistryInv
<1> QED BY <1>5, <1>6

(* A replacement that was not started: the run goes on, or is announced.   *)
LEMMA SteerFailsCalm ==
    ASSUME RegistryInv, AllCalm, Awaited, NEW r \in Runs, SteerFails(r)
    PROVE  AllCalm' /\ Awaited'
<1> DEFINE es == [rec EXCEPT ![r] = IF @.suppress = "steer"
                                       THEN [@ EXCEPT !.suppress = "no"] ELSE @]
           S == IF es[r].ended THEN {r} ELSE {}
<1>1. /\ steering[r] = r /\ steering' = [steering EXCEPT ![r] = NoRun]
      /\ UNCHANGED <<sessions, cooling, aged, plan>>
  BY DEF SteerFails, gatewayVars, clockVars
<1>2. rec[r].suppress = "steer" /\ ~rec[r].completed /\ rec[r].retries < MaxRetry
      /\ flow[r] = "none" /\ ~rec[r].handled /\ Has(r)
  BY <1>1, RegistryAssumption
     DEF AllCalm, Calm, RegistryInv, RunInv, Silent, AttemptsLeft, Has, NoRec
<1>3. Resume(S, es, resumed \ {r}, flow, timers)
  BY <1>2 DEF SteerFails
<1>4. /\ es \in [Runs -> RecordType] /\ \A q \in Runs \ {r} : es[q] = rec[q]
      /\ es[r] = [rec[r] EXCEPT !.suppress = "no"] /\ rec[r] \in RecordType
      /\ resumed \ {r} \in SUBSET Runs /\ flow \in [Runs -> Stages]
  BY <1>2 DEF RegistryInv, TypeOK, RecordType
<1>5. /\ es[r].suppress = "no" /\ es[r].ended = rec[r].ended /\ ~es[r].completed
      /\ ~es[r].handled /\ es[r].retries = rec[r].retries /\ es[r] # NoRec
  BY <1>2, <1>4 DEF RecordType, NoRec
<1> HIDE DEF es
<1>6. \A q \in Runs : es[q].completed \/ es[q].retries < MaxRetry
  BY <1>2, <1>4, <1>5 DEF RegistryInv, RunInv, AttemptsLeft
<1>7. CalmlyResumed(S, es, resumed \ {r}, flow, timers)
  BY <1>3, <1>4, <1>6, CalmResume
<1>8. /\ \A q \in Runs \ {r} : rec'[q] = rec[q] /\ flow'[q] = flow[q]
      /\ rec[r].ended => rec'[r] = Handled(es[r]) /\ flow'[r] = "collecting"
      /\ ~rec[r].ended => rec'[r] = es[r] /\ flow'[r] = flow[r]
      /\ timers' = timers
  BY <1>4, <1>5, <1>7 DEF CanBegin, CalmlyResumed
<1>9. /\ Handled(es[r]).ended = rec[r].ended /\ ~Handled(es[r]).completed
      /\ Handled(es[r]).handled /\ Handled(es[r]).suppress = "no"
  BY <1>4, <1>5 DEF Handled, RecordType
<1>10. \A q \in Runs : SessionOf(q)' = SessionOf(q) /\ Expects(q)' = Expects(q)
  BY <1>1 DEF SessionOf, Expects
<1>11. \A q \in Runs : steering'[q] = IF q = r THEN NoRun ELSE steering[q]
  BY <1>1 DEF RegistryInv, TypeOK
<1>12. AllCalm'
  <2>1. ASSUME NEW q \in Runs PROVE Calm(q)'
    <3>1. Calm(q)
      BY DEF AllCalm
    <3>2. CASE q # r
      BY <1>1, <1>8, <1>10, <1>11, <3>1, <3>2 DEF Calm, SessionOf
    <3>3. CASE q = r
      BY <1>1, <1>2, <1>5, <1>8, <1>9, <1>10, <1>11, <3>1, <3>3 DEF Calm, SessionOf
    <3> QED BY <3>2, <3>3
  <2> QED BY <1>1, <1>8, <2>1 DEF AllCalm
<1>13. Awaited'
  <2>1. \A p \in Runs : Has(p) <=> Has(p)'
    BY <1>2, <1>5, <1>8, <1>9 DEF Has, NoRec
  <2>2. \A q \in Runs : Orphan(q) => Orphan(q)'
    BY <1>1, <1>10, <2>1 DEF Orphan
  <2>3. \A q \in Runs : Stranded(q)' => Stranded(q)
    BY <1>5, <1>8 DEF Stranded
  <2>4. \A q \in Runs : Wakes(q) => Wakes(q)'
    BY <1>2, <1>5, <1>8, <2>1 DEF Wakes
  <2> QED BY <1>1, <2>1, <2>2, <2>3, <2>4, AwaitedKept DEF RegistryInv
<1> QED BY <1>12, <1>13

(* A replacement takes the place of the steered run in its session.        *)
LEMMA SteerReplacesCalm ==
    ASSUME RegistryInv, AllCalm, Awaited, NEW r \in Runs, SteerReplaces(r)
    PROVE  AllCalm' /\ Awaited'
<1> USE DEF SteerReplaces
<1>0. PICK n \in Runs : n = steering[r]
  BY DEF RegistryInv, TypeOK
<1>1. n # r /\ Untouched(n) /\ ~Has(n) /\ SessionOf(n) = SessionOf(r)
  BY <1>0 DEF RegistryInv, ComeOnce, Coming, TypeOK, AllCalm, Calm, Untouched, Has
<1>2. UNCHANGED <<flow, sessions, cooling, aged, timers, plan>>
  BY DEF gatewayVars, clockVars
<1>3. /\ \A q \in Runs : rec'[q] = IF q = n THEN NewRec ELSE IF q = r THEN NoRec ELSE rec[q]
      /\ \A q \in Runs : steering'[q] = IF q = r THEN NoRun ELSE steering[q]
  BY <1>0, <1>1 DEF RegistryInv, TypeOK
<1>4. /\ ~NewRec.ended /\ ~NewRec.completed /\ ~NewRec.handled /\ NewRec.suppress = "no"
      /\ ~NoRec.ended /\ ~NoRec.completed /\ ~NoRec.handled /\ NoRec.suppress = "absent"
      /\ NewRec # NoRec
  BY RecordTypes DEF NewRec, NoRec
<1>5. flow[r] = "none" /\ flow[n] = "none" /\ steering[n] = NoRun /\ Has(r)
  BY <1>0, <1>1, <1>4 DEF AllCalm, Calm, RegistryInv, RunInv, Silent, Untouched, Has
<1>6. \A q \in Runs : SessionOf(q)' = SessionOf(q) /\ Expects(q)' = Expects(q)
  BY DEF SessionOf, Expects
<1>7. AllCalm'
  <2>1. ASSUME NEW q \in Runs PROVE Calm(q)'
    <3>1. Calm(q)
      BY DEF AllCalm
    <3> HIDE DEF SteerReplaces
    <3>2. CASE q \notin {r, n}
      BY <1>2, <1>3, <1>6, <3>1, <3>2 DEF Calm, SessionOf
    <3>3. CASE q \in {r, n}
      BY <1>2, <1>3, <1>4, <1>5, <1>6, <3>1, <3>3 DEF Calm, SessionOf
    <3> QED BY <3>2, <3>3
  <2> QED BY <1>2, <2>1 DEF AllCalm
<1>8. Awaited'
  <2>1. \A p \in Runs : Has(p) => \E x \in Runs : Has(x)' /\ SessionOf(x) = SessionOf(p)
    BY <1>1, <1>3, <1>4 DEF Has
  <2>2. \A q \in Runs : Orphan(q) => Orphan(q)'
    BY <1>1, <1>2, <1>3, <1>5, <1>6 DEF Orphan, Has
  <2>3. \A q \in Runs : Stranded(q)' => Stranded(q)
    BY <1>2, <1>3, <1>4 DEF Stranded
  <2>4. Wakes(n)'
    BY <1>3, <1>4 DEF Wakes, Has
  <2>5. \A q \in Runs : Wakes(q) =>
            \E v \in Runs : Wakes(v)' /\ (\/ SessionOf(v) = SessionOf(q)
                                          \/ Below(v, SessionOf(q)))
    <3>1. \A q \in Runs \ {r, n} : Wakes(q) => Wakes(q)'
      BY <1>2, <1>3 DEF Wakes, Has
    <3> QED BY <1>1, <2>4, <3>1
  <2> QED BY <1>2, <2>1, <2>2, <2>3, <2>5, AwaitedKept DEF RegistryInv
<1> QED BY <1>7, <1>8

-----------------------------------------------------------------------------
(* The three ends of a flow in a calm state: the run has no record any     *)
(* more; it is over and all that wait are woken; or it is left to wait.    *)
Same(q) == rec'[q] = rec[q] /\ flow'[q] = flow[q]

Waiting(q) == rec[q].ended /\ CanBegin(rec[q]) /\ rec[q].suppress # "steer"

Woken(q) == Waiting(q) /\ rec'[q] = Handled(rec[q]) /\ flow'[q] = "collecting"

EndsUnknown(r) == ~Has(r) /\ rec'[r] = rec[r] /\ \A q \in Runs \ {r} : Same(q)

EndsOver(r) ==
    /\ Has(r)
    /\ \/ rec'[r] = NoRec
       \/ rec'[r].completed /\ rec'[r].ended /\ rec'[r].suppress = rec[r].suppress
    /\ \A q \in Runs \ {r} : Woken(q) \/ (~Waiting(q) /\ Same(q))

EndsWaiting(r) ==
    /\ Has(r)
    /\ rec'[r].ended /\ ~rec'[r].handled
    /\ rec'[r].suppress = rec[r].suppress
    /\ \A q \in Runs \ {r} : Same(q)

(* finalizeSubagentCleanup() ends a flow in one of these ways, and only    *)
(* one that has not announced is left to wait.                             *)
LEMMA FinalizeEnds ==
    ASSUME RegistryInv, AllCalm, NEW r \in Runs, NEW didAnnounce \in BOOLEAN,
           Finalize(r, didAnnounce), flow[r] # "none", ~didAnnounce => ~Expects(r)
    PROVE  /\ timers' = timers /\ flow'[r] = "none"
           /\ \A q \in cooling' : q \in cooling \/ (q = r /\ ~Expects(r))
           /\ \/ EndsUnknown(r) \/ EndsOver(r) \/ (~didAnnounce /\ EndsWaiting(r))
<1> DEFINE e == [rec[r] EXCEPT !.retries = IF didAnnounce THEN @ ELSE @ + 1]
           over == didAnnounce \/ e.retries >= MaxRetry \/ r \in aged
           left == IF didAnnounce /\ DeleteAfter(r) THEN NoRec ELSE Completed(e)
           fs == [flow EXCEPT ![r] = "none"]
           es == [rec EXCEPT ![r] = left]
<1>1. /\ TypeOK /\ RunInv(r) /\ rec \in [Runs -> RecordType] /\ flow \in [Runs -> Stages]
      /\ rec[r] \in RecordType /\ resumed \subseteq Runs /\ timers \subseteq Runs
  BY DEF RegistryInv, TypeOK
<1>2. /\ e \in RecordType /\ left \in RecordType
      /\ e.ended = rec[r].ended /\ e.handled = rec[r].handled
      /\ e.completed = rec[r].completed /\ e.suppress = rec[r].suppress
  <2>1. e = IF didAnnounce THEN rec[r] ELSE Retried(r)
    BY <1>1 DEF Retried, RecordType
  <2>2. e \in RecordType
    BY <1>1, <2>1, RetriedType
  <2>3. /\ e.ended = rec[r].ended /\ e.handled = rec[r].handled
        /\ e.completed = rec[r].completed /\ e.suppress = rec[r].suppress
    BY <1>1 DEF RecordType
  <2> HIDE DEF e
  <2> QED BY <2>2, <2>3, RecordTypes
<1> HIDE DEF e
<1>3. \/ left = NoRec
      \/ left.completed /\ left.ended = rec[r].ended /\ left.suppress = rec[r].suppress
  BY <1>2 DEF Completed, RecordType
<1> HIDE DEF left
<1>4. /\ fs \in [Runs -> Stages] /\ es \in [Runs -> RecordType] /\ fs[r] = "none" /\ es[r] = left
      /\ \A q \in Runs \ {r} : fs[q] = flow[q] /\ es[q] = rec[q]
  BY <1>1, <1>2 DEF Stages
<1>5. Has(r) => rec[r].ended
  BY <1>1 DEF RunInv, Owned
<1>6. \/ ~Has(r) /\ flow' = fs /\ UNCHANGED <<rec, resumed, timers, cooling>>
      \/ Has(r) /\ over /\ WakeDeferred(r, es, fs) /\ cooling' = cooling \ {r}
      \/ /\ Has(r) /\ ~over
         /\ rec' = [rec EXCEPT ![r] = [e EXCEPT !.handled = FALSE]]
         /\ flow' = fs /\ resumed' = resumed \ {r}
         /\ timers' = IF Expects(r) THEN timers \union {r} ELSE timers
         /\ cooling' = cooling \union {r}
  BY DEF Finalize, e, left
<1> HIDE DEF fs, es
<1>7. CASE ~Has(r) /\ flow' = fs /\ UNCHANGED <<rec, resumed, timers, cooling>>
  BY <1>4, <1>7 DEF EndsUnknown, Same
<1>8. CASE Has(r) /\ over /\ WakeDeferred(r, es, fs) /\ cooling' = cooling \ {r}
  <2> DEFINE deferred == {q \in Runs \ {r} : /\ es[q].ended /\ CanBegin(es[q])
                                               /\ es[q].suppress # "steer"}
  <2>1. Resume(deferred, es, resumed \ deferred, fs, timers)
    BY <1>8 DEF WakeDeferred
  <2>2. \A q \in Runs : es[q].completed \/ es[q].retries < MaxRetry
    <3>1. left.completed \/ left.retries < MaxRetry
      BY <1>3, RegistryAssumption DEF NoRec
    <3> QED BY <1>4, <3>1 DEF RegistryInv, RunInv, AttemptsLeft
  <2>3. \A q \in Runs : q \in deferred <=> (q # r /\ Waiting(q))
    BY <1>4 DEF Waiting
  <2>4. resumed \ deferred \in SUBSET Runs
    BY <1>1
  <2> HIDE DEF deferred
  <2>5. PICK x \in [Runs -> RecordType], f \in [Runs -> Stages], y \in SUBSET Runs,
             D \in SUBSET Runs, t \in SUBSET Runs :
          x = es /\ f = fs /\ y = resumed \ D /\ D = deferred /\ t = timers
    <3>1. deferred \subseteq Runs
      BY DEF deferred
    <3> QED BY <1>1, <1>4, <2>4, <3>1
  <2>6. Resume(D, x, y, f, t) /\ \A q \in Runs : x[q].completed \/ x[q].retries < MaxRetry
    BY <2>1, <2>2, <2>5
  <2>7. CalmlyResumed(D, x, y, f, t)
    BY <2>6, CalmResume
  <2>8. r \notin D /\ \A q \in Runs \ {r} : q \in D \ y <=> Waiting(q)
    BY <2>3, <2>5
  <2>9. rec'[r] = left /\ flow'[r] = "none"
    <3>1. rec'[r] = x[r] /\ flow'[r] = f[r]
      BY <2>7, <2>8 DEF CalmlyResumed
    <3> QED BY <1>4, <2>5, <3>1
  <2>10. \A q \in Runs \ {r} : Woken(q) \/ (~Waiting(q) /\ Same(q))
    <3>1. \A q \in Runs : Waiting(q) => rec[q] # NoRec
      BY DEF Waiting, NoRec
    <3> QED BY <1>4, <2>5, <2>7, <2>8, <3>1 DEF Woken, Waiting, Same, CalmlyResumed
  <2>11. timers' = timers
    BY <2>5, <2>7 DEF CalmlyResumed
  <2>12. EndsOver(r)
    BY <1>3, <1>5, <1>8, <2>9, <2>10 DEF EndsOver
  <2> QED BY <1>8, <2>9, <2>11, <2>12
<1>9. CASE /\ Has(r) /\ ~over
           /\ rec' = [rec EXCEPT ![r] = [e EXCEPT !.handled = FALSE]]
           /\ flow' = fs /\ resumed' = resumed \ {r}
           /\ timers' = IF Expects(r) THEN timers \union {r} ELSE timers
           /\ cooling' = cooling \union {r}
  <2>1. /\ rec'[r] = [e EXCEPT !.handled = FALSE] /\ ~didAnnounce
        /\ rec[r].ended /\ \A q \in Runs \ {r} : Same(q)
    BY <1>1, <1>4, <1>5, <1>9 DEF Same
  <2>2. /\ rec'[r].ended /\ ~rec'[r].handled /\ rec'[r].suppress = rec[r].suppress
    BY <1>2, <2>1 DEF RecordType
  <2>3. EndsWaiting(r)
    BY <1>9, <2>1, <2>2 DEF EndsWaiting
  <2>4. timers' = timers /\ flow'[r] = "none" /\ ~Expects(r)
    BY <1>4, <1>9, <2>1
  <2> QED BY <1>9, <2>1, <2>3, <2>4
<1> QED BY <1>6, <1>7, <1>8, <1>9

(* A flow that did not announce left its run to somebody below it.         *)
LeftToOthers(r) == flow[r] = "labelling" \/ MustDefer(r)

(* The end of a flow keeps the calm.                                       *)
LEMMA FinalizeCalm ==
    ASSUME RegistryInv, AllCalm, NEW r \in Runs, NEW didAnnounce \in BOOLEAN,
           Finalize(r, didAnnounce), flow[r] # "none", ~didAnnounce => LeftToOthers(r),
           UNCHANGED <<aged, steering, plan>>
    PROVE  AllCalm'
<1>1. ~didAnnounce => ~Expects(r)
  BY DEF LeftToOthers, MustDefer, AllCalm, Calm
<1>2. /\ timers' = timers /\ flow'[r] = "none"
      /\ \A q \in cooling' : q \in cooling \/ (q = r /\ ~Expects(r))
      /\ EndsUnknown(r) \/ EndsOver(r) \/ EndsWaiting(r)
  BY <1>1, FinalizeEnds
<1>3. steering[r] = NoRun /\ (Has(r) => rec[r].suppress # "steer")
  BY DEF AllCalm, Calm, RegistryInv, RunInv, Silent
<1>4. \A q \in Runs : SessionOf(q)' = SessionOf(q) /\ Expects(q)' = Expects(q)
  BY DEF SessionOf, Expects
<1>5. ~NoRec.ended /\ ~NoRec.completed /\ ~NoRec.handled /\ NoRec.suppress = "absent"
  BY DEF NoRec
<1>6. ASSUME NEW q \in Runs, q # r, Same(q) PROVE Calm(q)'
  <2>1. Calm(q)
    BY DEF AllCalm
  <2> QED BY <1>2, <1>4, <1>6, <2>1 DEF Calm, Same, SessionOf
<1>7. ASSUME NEW q \in Runs, Woken(q) PROVE Calm(q)'
  <2>1. Calm(q) /\ rec[q] \in RecordType
    BY DEF AllCalm, RegistryInv, TypeOK
  <2>2. /\ rec'[q].ended /\ rec'[q].completed = rec[q].completed
        /\ rec'[q].suppress = rec[q].suppress /\ flow'[q] = "collecting"
        /\ rec[q].suppress # "steer"
    BY <1>7, <2>1 DEF Woken, Waiting, Handled, RecordType
  <2>3. q \in cooling' => ~Expects(q)
    BY <1>2, <2>1 DEF Calm
  <2> QED BY <1>4, <2>1, <2>2, <2>3 DEF Calm, SessionOf
<1>8. Calm(r)'
  <2>1. Calm(r) /\ (r \in cooling' => ~Expects(r))
    BY <1>2 DEF AllCalm, Calm
  <2>2. rec'[r].completed => rec'[r].ended
    BY <1>2, <1>5, <2>1 DEF EndsUnknown, EndsOver, EndsWaiting, Calm
  <2>3. rec'[r].handled => rec'[r].completed
    BY <1>2, <1>5 DEF EndsUnknown, EndsOver, EndsWaiting, Has
  <2>4. rec'[r].suppress # "steer"
    BY <1>2, <1>3, <1>5 DEF EndsUnknown, EndsOver, EndsWaiting, Has
  <2> QED BY <1>2, <1>3, <1>4, <2>1, <2>2, <2>3, <2>4 DEF Calm
<1>9. \A q \in Runs : Calm(q)'
  BY <1>2, <1>6, <1>7, <1>8 DEF EndsUnknown, EndsOver, EndsWaiting
<1> QED BY <1>2, <1>9 DEF AllCalm

(* A flow that ends wakes all that wait if its run is over, and otherwise  *)
(* leaves its run to who it deferred to.                                   *)
LEMMA FinalizeAwaited ==
    ASSUME RegistryInv, AllCalm, Awaited, NEW r \in Runs, NEW didAnnounce \in BOOLEAN,
           Finalize(r, didAnnounce), flow[r] # "none", ~didAnnounce => LeftToOthers(r),
           UNCHANGED <<sessions, plan>>
    PROVE  Awaited'
<1>1. ~didAnnounce => ~Expects(r)
  BY DEF LeftToOthers, MustDefer, AllCalm, Calm
<1>2. flow'[r] = "none" /\ (EndsUnknown(r) \/ EndsOver(r) \/ (~didAnnounce /\ EndsWaiting(r)))
  BY <1>1, FinalizeEnds
<1>3. ~NoRec.ended
  BY DEF NoRec
<1>4. \A q \in Runs : SessionOf(q)' = SessionOf(q)
  BY DEF SessionOf
<1>5. CASE EndsOver(r)
  <2>1. ~Stranded(r)'
    BY <1>3, <1>5 DEF EndsOver, Stranded
  <2>2. ASSUME NEW q \in Runs, q # r, Woken(q) PROVE ~Stranded(q)'
    BY <2>2 DEF Woken, Stranded
  <2>3. ASSUME NEW q \in Runs, q # r, ~Waiting(q), Same(q), Stranded(q)' PROVE FALSE
    BY <2>3 DEF Waiting, CanBegin, Same, Stranded, AllCalm, Calm
  <2> QED BY <1>5, <2>1, <2>2, <2>3 DEF EndsOver, Awaited
<1>6. CASE EndsUnknown(r)
  <2>1. \A p \in Runs : Has(p) <=> Has(p)'
    BY <1>6 DEF EndsUnknown, Same, Has
  <2>2. \A q \in Runs : Orphan(q) => Orphan(q)'
    BY <1>4, <2>1 DEF Orphan
  <2>3. \A q \in Runs : Stranded(q)' => Stranded(q)
    BY <1>3, <1>6 DEF EndsUnknown, Same, Has, Stranded
  <2>4. \A q \in Runs : Wakes(q) => Wakes(q)'
    BY <1>6, <2>1 DEF EndsUnknown, Same, Wakes
  <2> QED BY <2>1, <2>2, <2>3, <2>4, AwaitedKept DEF RegistryInv
<1>7. CASE ~didAnnounce /\ EndsWaiting(r)
  <2>1. \A p \in Runs : Has(p) <=> Has(p)'
    BY <1>3, <1>7 DEF EndsWaiting, Same, Has
  <2>2. \A q \in Runs : Orphan(q) => Orphan(q)'
    BY <1>4, <2>1 DEF Orphan
  <2>3. rec[r].ended /\ rec[r].suppress # "steer"
    BY <1>7 DEF EndsWaiting, RegistryInv, RunInv, Owned, Silent
  <2>4. \A q \in Runs \ {r} : (Stranded(q)' => Stranded(q)) /\ (Wakes(q) => Wakes(q)')
    BY <1>7, <2>1 DEF EndsWaiting, Same, Stranded, Wakes
  <2>5. MustDefer(r) => \/ Orphan(r)
                        \/ \E v \in Runs : Wakes(v)' /\ Below(v, SessionOf(r))
    <3>1. \A q \in Runs : Has(q) /\ ~rec[q].ended => Wakes(q)'
      BY <2>3, <2>4 DEF Wakes
    <3> QED BY <3>1 DEF MustDefer, ActiveBelow
  <2>6. flow[r] = "labelling" => r \in Labelled /\ ~Wakes(r)
    BY <2>3 DEF AllCalm, Calm, Wakes
  <2> QED BY <1>7, <2>1, <2>2, <2>4, <2>5, <2>6, AwaitedKept DEF LeftToOthers, RegistryInv
<1> QED BY <1>2, <1>5, <1>6, <1>7

(* The end of a flow.                                                      *)
LEMMA FlowEndsCalm ==
    ASSUME RegistryInv, AllCalm, Awaited, NEW r \in Runs, FlowEnds(r)
    PROVE  AllCalm' /\ Awaited'
<1>1. /\ Finalize(r, flow[r] = "delivered") /\ flow[r] \in {"labelling", "delivered"}
      /\ UNCHANGED <<aged, steering, sessions, plan>>
  BY DEF FlowEnds, AllCalm, Calm, toolVars, gatewayVars
<1>2. PICK d \in BOOLEAN : d = (flow[r] = "delivered")
  OBVIOUS
<1>3. Finalize(r, d) /\ flow[r] # "none" /\ (~d => LeftToOthers(r))
  BY <1>1, <1>2 DEF LeftToOthers
<1> QED BY <1>1, <1>3, FinalizeCalm, FinalizeAwaited

(* A flow defers to an active run below its own; who waited for it is      *)
(* above that one too.                                                     *)
LEMMA FlowDefersCalm ==
    ASSUME RegistryInv, AllCalm, Awaited, NEW r \in Runs, FlowDefers(r), Still
    PROVE  AllCalm' /\ Awaited'
<1>1. /\ flow[r] = "collecting" /\ MustDefer(r)
      /\ UNCHANGED <<aged, steering, sessions, plan>>
  BY DEF FlowDefers, Still, Setback, toolVars, gatewayVars
<1>2. CASE Finalize(r, FALSE)
  BY <1>1, <1>2, FinalizeCalm, FinalizeAwaited DEF LeftToOthers
<1>3. CASE /\ r \in Labelled /\ flow' = [flow EXCEPT ![r] = "labelling"]
           /\ UNCHANGED <<rec, resumed, timers, cooling>>
  <2>1. \A q \in Runs : flow'[q] = IF q = r THEN "labelling" ELSE flow[q]
    BY <1>3 DEF RegistryInv, TypeOK
  <2>2. \A q \in Runs : SessionOf(q)' = SessionOf(q) /\ Expects(q)' = Expects(q)
    BY <1>1 DEF SessionOf, Expects
  <2>3. ASSUME NEW q \in Runs PROVE Calm(q)'
    <3>1. Calm(q) /\ (q = r => ~Expects(r))
      BY <1>1 DEF AllCalm, MustDefer
    <3> QED BY <1>1, <1>3, <2>1, <2>2, <3>1 DEF Calm, SessionOf
  <2>4. \A p \in Runs : Has(p) <=> Has(p)'
    BY <1>3 DEF Has
  <2>5. \A q \in Runs : Orphan(q) => Orphan(q)'
    BY <1>1, <2>2, <2>4 DEF Orphan
  <2>6. \A q \in Runs : (Stranded(q)' => Stranded(q))
                        /\ (q # r /\ Wakes(q) => Wakes(q)')
    BY <1>3, <2>1, <2>4 DEF Stranded, Wakes
  <2>7. \A q \in Runs : Has(q) /\ ~rec[q].ended => Wakes(q)'
    BY <1>3, <2>4 DEF Wakes
  <2>8. Orphan(r) \/ \E v \in Runs : Wakes(v)' /\ Below(v, SessionOf(r))
    BY <1>1, <2>7 DEF MustDefer, ActiveBelow
  <2>9. Awaited'
    BY <1>1, <2>4, <2>5, <2>6, <2>8, AwaitedKept DEF RegistryInv
  <2> QED BY <1>1, <1>3, <2>3, <2>9 DEF AllCalm
<1> QED BY <1>2, <1>3 DEF FlowDefers

(* What is sent without a setback is delivered, and will wake.             *)
LEMMA FlowSendsCalm ==
    ASSUME RegistryInv, Undisturbed, NEW r \in Runs, FlowSends(r), Still
    PROVE  Undisturbed'
<1>0. flow' = [flow EXCEPT ![r] = "delivered"]
  <2>1. PICK d \in Deliveries(r) :
          /\ Delivers(r, d)
          /\ flow' = [flow EXCEPT ![r] = IF d.direct = "ok" \/ d.otherwise # "none"
                                           THEN "delivered" ELSE "undelivered"]
    BY DEF FlowSends
  <2>2. d.direct \notin {"arrived", "failed"}
    BY <2>1 DEF Delivers, Still, Setback, RegistryInv, TypeOK
  <2>3. d.direct = "ok" \/ d.otherwise # "none"
    BY <2>2 DEF Deliveries
  <2> QED BY <2>1, <2>3
<1>1. /\ flow[r] = "collecting" /\ flow' = [flow EXCEPT ![r] = "delivered"]
      /\ sessions' \in {sessions, sessions \ {SessionOf(r)}}
      /\ UNCHANGED <<rec, timers, cooling, aged, spawning, steering, course, plan>>
  BY <1>0 DEF FlowSends, clockVars, toolVars, jobVars
<1>2. \A q \in Runs : flow'[q] = IF q = r THEN "delivered" ELSE flow[q]
  BY <1>1 DEF RegistryInv, TypeOK
<1>3. \A q \in Runs : SessionOf(q)' = SessionOf(q) /\ Expects(q)' = Expects(q)
  BY <1>1 DEF SessionOf, Expects
<1>4. AllCalm'
  <2>1. ASSUME NEW q \in Runs PROVE Calm(q)'
    <3>1. Calm(q)
      BY DEF Undisturbed, AllCalm
    <3> QED BY <1>1, <1>2, <1>3, <3>1 DEF Calm, SessionOf
  <2> QED BY <1>1, <2>1 DEF Undisturbed, AllCalm
<1>5. Parents' /\ Alone'
  <2>1. course[r] # "none" /\ r \notin spawning
    BY <1>1, Accepted DEF Untouched
  <2>2. ASSUME NEW p \in spawning' PROVE SessionOf(p) \in sessions'
    <3>1. SessionOf(p) \in sessions /\ SessionOf(p) # SessionOf(r)
      BY <1>1, <2>1 DEF Undisturbed, Alone
    <3> QED BY <1>1, <3>1
  <2> QED BY <1>1, <2>2, FamilyQuiet DEF Undisturbed, RegistryInv, TypeOK
<1>6. Awaited'
  <2>1. \A p \in Runs : Has(p) <=> Has(p)'
    BY <1>1 DEF Has
  <2>2. \A q \in Runs : Orphan(q) => Orphan(q)'
    BY <1>1, <1>3, <2>1 DEF Orphan
  <2>3. \A q \in Runs : (Stranded(q)' => Stranded(q)) /\ (Wakes(q) => Wakes(q)')
    BY <1>1, <1>2, <2>1 DEF Stranded, Wakes
  <2> QED BY <1>1, <2>1, <2>2, <2>3, AwaitedKept DEF RegistryInv, Undisturbed
<1> QED BY <1>4, <1>5, <1>6 DEF Undisturbed

-----------------------------------------------------------------------------
(* Steps that change no record, no flow and no steering keep the calm, as  *)
(* the clock and the timers do in steps without a setback.                 *)
LEMMA CalmQuiet ==
    ASSUME AllCalm, UNCHANGED <<rec, flow, steering, timers, aged, plan>>,
           cooling' \subseteq cooling
    PROVE  AllCalm'
<1>1. ASSUME NEW q \in Runs PROVE Calm(q)'
  <2>1. Calm(q)
    BY DEF AllCalm
  <2> QED BY <2>1 DEF Calm, SessionOf, Expects
<1> QED BY <1>1 DEF AllCalm

(* The events of a run only take it away from "none".                      *)
LEMMA EventCourse ==
    ASSUME TypeOK, NEW r \in Runs,
           StartEvent(r) \/ EndEvent(r) \/ ErrorEvent(r) \/ Over(r)
             \/ GraceElapses(r) \/ GraceEnds(r) \/ WaitExpires(r)
    PROVE  \A q \in Runs : course'[q] = "none" <=> course[q] = "none"
<1>1. course \in [Runs -> Courses]
  BY DEF TypeOK, JobTypeOK
<1> QED BY <1>1 DEF StartEvent, EndEvent, ErrorEvent, Over, GraceElapses,
     GraceEnds, WaitExpires

(* Time, the queue, and the part of a run's life the registry does not see *)
(* disturb nothing by themselves.                                          *)
LEMMA QuietStepCalm ==
    ASSUME RegistryInv, Undisturbed, Still, NEW r \in Runs,
           RunGoesOn(r) \/ Passes(r) \/ QueueSends(r)
    PROVE  Undisturbed'
<1>1. /\ UNCHANGED <<rec, flow, steering, timers, aged, sessions, spawning, plan>>
      /\ cooling' \subseteq cooling
      /\ \A q \in Runs : course'[q] = "none" <=> course[q] = "none"
  <2>1. CASE RunGoesOn(r)
    <3>1. \A q \in Runs : course'[q] = "none" <=> course[q] = "none"
      BY <2>1, EventCourse DEF RunGoesOn, RegistryInv
    <3> QED BY <2>1, <3>1 DEF RunGoesOn, registryVars, clockVars, toolVars, gatewayVars
  <2>2. CASE Passes(r)
    BY <2>2 DEF Passes, Setback, Still, registryVars, toolVars, gatewayVars, jobVars
  <2>3. CASE QueueSends(r)
    BY <2>3 DEF QueueSends, registryVars, clockVars, toolVars, jobVars
  <2> QED BY <2>1, <2>2, <2>3
<1>2. AllCalm' /\ Awaited'
  BY <1>1, CalmQuiet, AwaitedQuiet DEF Undisturbed
<1>3. Parents' /\ Alone'
  BY <1>1, FamilyQuiet DEF Undisturbed, Alone, RegistryInv, TypeOK
<1> QED BY <1>2, <1>3 DEF Undisturbed

(* A spawned run, or a replacement, is accepted.                           *)
LEMMA AcceptCalm ==
    ASSUME RegistryInv, Undisturbed, NEW r \in Runs, NEW n \in Runs,
           Spawn(r) \/ SteerLaunch(r, n)
    PROVE  Undisturbed'
<1>1. CASE Spawn(r)
  <2>1. UNCHANGED <<rec, flow, steering, timers, aged, cooling, plan>>
    BY <1>1 DEF Spawn, registryVars, clockVars
  <2>2. AllCalm'
    BY <2>1, CalmQuiet DEF Undisturbed
  <2>3. Parents' /\ Alone' /\ \A q \in Runs : Has(q) /\ Orphan(q) => Orphan(q)'
    BY <1>1, SpawnFamily DEF Undisturbed
  <2>4. \A q \in Runs : /\ Has(q) <=> Has(q)'
                        /\ Stranded(q)' => Stranded(q)
                        /\ Wakes(q) => Wakes(q)'
    BY <2>1 DEF Has, Stranded, Wakes
  <2>5. Awaited'
    BY <2>1, <2>3, <2>4, AwaitedKept DEF Undisturbed, RegistryInv
  <2> QED BY <2>2, <2>3, <2>5 DEF Undisturbed
<1>2. CASE SteerLaunch(r, n)
  <2>1. /\ UNCHANGED <<rec, flow, timers, aged, cooling, sessions, plan>>
        /\ steering[r] = r /\ steering' = [steering EXCEPT ![r] = n]
        /\ SessionOf(n) = SessionOf(r)
    BY <1>2 DEF SteerLaunch, registryVars, clockVars, gatewayVars
  <2>2. ASSUME NEW q \in Runs PROVE Calm(q)'
    <3>1. Calm(q)
      BY DEF Undisturbed, AllCalm
    <3>2. steering'[q] = IF q = r THEN n ELSE steering[q]
      BY <2>1 DEF RegistryInv, TypeOK
    <3>3. steering[r] # NoRun
      BY <2>1, RegistryAssumption
    <3> QED BY <2>1, <3>1, <3>2, <3>3 DEF Calm, SessionOf, Expects
  <2>3. AllCalm'
    BY <2>1, <2>2 DEF Undisturbed, AllCalm
  <2>4. Awaited'
    BY <2>1, AwaitedQuiet DEF Undisturbed
  <2>5. Parents' /\ Alone'
    BY <1>2, SteerLaunchFamily DEF Undisturbed
  <2> QED BY <2>3, <2>4, <2>5 DEF Undisturbed
<1> QED BY <1>1, <1>2

(* The other steps accept no run and delete no session.                    *)
LEMMA OtherStepCalm ==
    ASSUME RegistryInv, Undisturbed, Still, NEW r \in Runs,
           \/ RunEnds(r) \/ WaitAnswered(r) \/ FlowDefers(r) \/ FlowEnds(r)
           \/ SteerMark(r) \/ SteerFails(r) \/ SteerReplaces(r)
    PROVE  Undisturbed'
<1>1. AllCalm' /\ Awaited'
  <2>1. CASE RunEnds(r) \/ WaitAnswered(r)
    <3>1. Conclude(r) /\ UNCHANGED <<clockVars, steering, sessions, plan>>
      BY <2>1 DEF RunEnds, WaitAnswered, toolVars, gatewayVars
    <3> QED BY <3>1, ConcludeCalm DEF Undisturbed
  <2>2. CASE FlowDefers(r) \/ FlowEnds(r)
    BY <2>2, FlowDefersCalm, FlowEndsCalm DEF Undisturbed
  <2>3. CASE SteerMark(r) \/ SteerFails(r) \/ SteerReplaces(r)
    BY <2>3, SteerMarkCalm, SteerFailsCalm, SteerReplacesCalm DEF Undisturbed
  <2> QED BY <2>1, <2>2, <2>3
<1>2. /\ UNCHANGED <<spawning, sessions, plan>>
      /\ \A q \in Runs : course'[q] = "none" <=> course[q] = "none"
  <2>1. CASE RunEnds(r)
    <3>1. \A q \in Runs : course'[q] = "none" <=> course[q] = "none"
      BY <2>1, EventCourse DEF RunEnds, RegistryInv
    <3> QED BY <2>1, <3>1 DEF RunEnds, toolVars, gatewayVars
  <2>2. CASE WaitAnswered(r)
    BY <2>2 DEF WaitAnswered, toolVars, gatewayVars
  <2>3. CASE FlowDefers(r) \/ FlowEnds(r)
    BY <2>3 DEF FlowDefers, FlowEnds, toolVars, gatewayVars, jobVars
  <2>4. CASE SteerMark(r) \/ SteerFails(r) \/ SteerReplaces(r)
    BY <2>4 DEF SteerMark, SteerFails, SteerReplaces, gatewayVars, jobVars
  <2> QED BY <2>1, <2>2, <2>3, <2>4
<1>3. Parents' /\ Alone'
  BY <1>2, FamilyQuiet DEF Undisturbed, Alone, RegistryInv, TypeOK
<1> QED BY <1>1, <1>3 DEF Undisturbed

(* A step is a setback or none; kills, archivings and crashes are, and     *)
(* they cannot be undone.                                                  *)
LEMMA SetbackOrNot ==
    ASSUME RegistryInv, [Next]_vars
    PROVE  Setback \/ UNCHANGED setbacks
<1>1. ASSUME NEW r \in Runs, Tools(r) PROVE Setback \/ UNCHANGED setbacks
  <2>1. CASE Spawn(r) \/ Kill(r) \/ SteerMark(r)
    BY <2>1 DEF Spawn, Kill, SteerMark
  <2>2. CASE (\E n \in Runs : SteerLaunch(r, n)) \/ SteerFails(r) \/ SteerReplaces(r)
    BY <2>2 DEF SteerLaunch, SteerFails, SteerReplaces
  <2> QED BY <1>1, <2>1, <2>2 DEF Tools
<1>2. ASSUME NEW r \in Runs, Work(r) PROVE Setback \/ UNCHANGED setbacks
  <2>1. CASE Register(r) \/ RunEnds(r) \/ RunGoesOn(r) \/ WaitAnswered(r)
    BY <2>1 DEF Register, RunEnds, RunGoesOn, WaitAnswered
  <2>2. CASE FlowDefers(r) \/ FlowSends(r) \/ FlowEnds(r)
    BY <2>2 DEF FlowDefers, FlowSends, Delivers, FlowEnds
  <2>3. CASE QueueSends(r) \/ RetryTimer(r) \/ Passes(r)
    BY <2>3 DEF QueueSends, RetryTimer, Passes
  <2> QED BY <1>2, <2>1, <2>2, <2>3 DEF Work
<1>3. ASSUME NEW r \in Runs, Sweep(r) PROVE Setback
  BY <1>3 DEF Sweep
<1>4. CASE Restart
  BY <1>4 DEF Restart
<1>5. CASE UNCHANGED vars
  BY <1>5 DEF vars
<1> QED BY <1>1, <1>2, <1>3, <1>4, <1>5 DEF Next

(* As long as nothing is disturbed, a run that waits is waited for.        *)
CalmInv == setbacks = 0 => Undisturbed

(* Initially no run was accepted.                                          *)
LEMMA CalmInit == Init => CalmInv
<1> SUFFICES ASSUME Init PROVE Undisturbed
  BY DEF CalmInv
<1>1. ~NoRec.ended /\ ~NoRec.completed /\ ~NoRec.handled /\ NoRec.suppress = "absent"
  BY DEF NoRec
<1>2. AllCalm
  BY <1>1 DEF Init, AllCalm, Calm
<1>3. Parents /\ Alone
  BY DEF Init, JobInit, Fresh, Parents, Alone
<1>4. Awaited
  BY <1>1 DEF Init, Awaited, Stranded
<1> QED BY <1>2, <1>3, <1>4 DEF Undisturbed

(* Every step keeps it.                                                    *)
LEMMA CalmNext == RegistryInv /\ CalmInv /\ [Next]_vars => CalmInv'
<1> SUFFICES ASSUME RegistryInv, CalmInv, [Next]_vars, setbacks' = 0 PROVE Undisturbed'
  BY DEF CalmInv
<1>1. Still /\ ~Setback /\ Undisturbed
  <2>1. setbacks \in Nat
    BY DEF RegistryInv, TypeOK
  <2>2. Setback \/ setbacks' = setbacks
    BY SetbackOrNot
  <2> QED BY <2>1, <2>2 DEF Setback, Still, CalmInv
<1>2. ASSUME NEW r \in Runs, Tools(r) PROVE Undisturbed'
  <2>1. CASE \E n \in Runs : Spawn(r) \/ SteerLaunch(r, n)
    BY <1>1, <2>1, AcceptCalm
  <2>2. CASE SteerMark(r) \/ SteerFails(r) \/ SteerReplaces(r)
    BY <1>1, <2>2, OtherStepCalm
  <2>3. ~Kill(r)
    BY <1>1 DEF Kill
  <2> QED BY <1>2, <2>1, <2>2, <2>3 DEF Tools
<1>3. ASSUME NEW r \in Runs, Work(r) PROVE Undisturbed'
  <2>1. CASE Register(r)
    BY <1>1, <2>1, RegisterCalm
  <2>2. CASE FlowSends(r)
    BY <1>1, <2>2, FlowSendsCalm
  <2>3. CASE RunGoesOn(r) \/ Passes(r) \/ QueueSends(r)
    BY <1>1, <2>3, QuietStepCalm
  <2>4. CASE RunEnds(r) \/ WaitAnswered(r) \/ FlowDefers(r) \/ FlowEnds(r)
    BY <1>1, <2>4, OtherStepCalm
  <2>5. ~RetryTimer(r)
    BY <1>1 DEF RetryTimer, Undisturbed, AllCalm
  <2> QED BY <1>3, <2>1, <2>2, <2>3, <2>4, <2>5 DEF Work
<1>4. \A r \in Runs : ~Sweep(r)
  BY <1>1 DEF Sweep
<1>5. ~Restart
  BY <1>1 DEF Restart
<1>6. CASE UNCHANGED vars
  <2>1. UNCHANGED <<rec, flow, steering, timers, aged, cooling, sessions, spawning, course, plan>>
    BY <1>6 DEF vars, registryVars, clockVars, toolVars, gatewayVars, jobVars
  <2>2. AllCalm' /\ Awaited'
    BY <1>1, <2>1, CalmQuiet, AwaitedQuiet DEF Undisturbed
  <2>3. Parents' /\ Alone'
    BY <1>1, <2>1, FamilyQuiet DEF Undisturbed, Alone, RegistryInv, TypeOK
  <2> QED BY <2>2, <2>3 DEF Undisturbed
<1> QED BY <1>2, <1>3, <1>4, <1>5, <1>6 DEF Next

(* A run that has ended and is not announced is never left alone, as long  *)
(* as nothing fails and nothing comes from outside: its flow is under way, *)
(* or a run below it will wake it.                                         *)
THEOREM Awoken == Spec => []NoneStranded
<1>1. CalmInv => NoneStranded
  BY DEF CalmInv, Undisturbed, Awaited, Stranded, Wakes, NoneStranded, WillWake
<1> QED BY <1>1, CalmInit, CalmNext, Inductive, PTL DEF Spec


-----------------------------------------------------------------------------
(* An error held back, and a verdict that was recorded, is of the run as   *)
(* it is: no start has come since, and a recorded error is an old one.     *)
VerdictsHeld ==
    \A r \in Runs :
        /\ r \in grace => course[r] \in {"failing", "over"}
        /\ cache[r] = "error" => course[r] \in {"failing", "over"} /\ r \notin recent
        /\ cache[r] = "ok" => course[r] \in {"ending", "over"}

VerdictStep ==
    \A r \in Runs : waiter[r] \notin Statuses =>
        /\ waiter'[r] = "error" => course'[r] \in {"failing", "over"} /\ r \notin recent'
        /\ waiter'[r] = "ok" => course'[r] \in {"ending", "over"}

(* Events keep the verdicts.                                               *)
LEMMA JobVerdicts ==
    ASSUME TypeOK, VerdictsHeld, NEW r \in Runs,
           Accept(r) \/ StartEvent(r) \/ EndEvent(r) \/ ErrorEvent(r) \/ Over(r)
             \/ GraceElapses(r) \/ GraceEnds(r) \/ WaitExpires(r)
    PROVE  VerdictsHeld' /\ VerdictStep
<1> USE DEF TypeOK, JobTypeOK, VerdictsHeld, VerdictStep, Statuses
<1>1. CASE Accept(r)
  BY <1>1 DEF Accept
<1>2. CASE StartEvent(r)
  BY <1>2 DEF StartEvent
<1>3. CASE EndEvent(r)
  BY <1>3 DEF EndEvent
<1>4. CASE ErrorEvent(r)
  BY <1>4 DEF ErrorEvent
<1>5. CASE Over(r)
  BY <1>5 DEF Over
<1>6. CASE GraceEnds(r)
  BY <1>6 DEF GraceEnds
<1>7. CASE WaitExpires(r)
  BY <1>7 DEF WaitExpires
<1>8. CASE GraceElapses(r)
  BY <1>8 DEF GraceElapses
<1> QED BY <1>1, <1>2, <1>3, <1>4, <1>5, <1>6, <1>7, <1>8

(* So does every step of the registry.                                     *)
LEMMA VerdictsNext ==
    ASSUME TypeOK, VerdictsHeld, [Next]_vars PROVE VerdictsHeld' /\ VerdictStep
<1>1. ASSUME UNCHANGED jobVars PROVE VerdictsHeld' /\ VerdictStep
  BY <1>1 DEF jobVars, VerdictsHeld, VerdictStep, Statuses
<1>2. ASSUME NEW r \in Runs, UNCHANGED <<course, starts, cache, grace, recent>>,
             waiter' = [waiter EXCEPT ![r] = FirstWait(r)]
      PROVE  VerdictsHeld' /\ VerdictStep
  BY <1>2 DEF FirstWait, VerdictsHeld, VerdictStep, Statuses, TypeOK, JobTypeOK
<1>3. ASSUME NEW r \in Runs, WaitAnswered(r) PROVE VerdictsHeld' /\ VerdictStep
  BY <1>3 DEF WaitAnswered, VerdictsHeld, VerdictStep, Statuses, TypeOK, JobTypeOK
<1>4. ASSUME NEW r \in Runs, NEW n \in Runs, Register(r) \/ (SteerReplaces(r) /\ n = steering[r])
      PROVE  VerdictsHeld' /\ VerdictStep
  BY <1>2, <1>4 DEF Register, SteerReplaces
<1>5. ASSUME NEW r \in Runs, SteerReplaces(r) PROVE VerdictsHeld' /\ VerdictStep
  <2>1. steering[r] \in Runs
    BY <1>5 DEF SteerReplaces, TypeOK
  <2> QED BY <1>4, <1>5, <2>1
<1>6. ASSUME NEW r \in Runs, Spawn(r) \/ (\E n \in Runs : SteerLaunch(r, n))
      PROVE  VerdictsHeld' /\ VerdictStep
  BY <1>6, JobVerdicts DEF Spawn, SteerLaunch
<1>7. ASSUME NEW r \in Runs, RunEnds(r) \/ RunGoesOn(r) PROVE VerdictsHeld' /\ VerdictStep
  BY <1>7, JobVerdicts DEF RunEnds, RunGoesOn
<1>8. ASSUME NEW r \in Runs,
             FlowDefers(r) \/ FlowSends(r) \/ FlowEnds(r) \/ QueueSends(r) \/ RetryTimer(r)
               \/ Passes(r) \/ Kill(r) \/ SteerMark(r) \/ SteerFails(r) \/ Sweep(r)
      PROVE  VerdictsHeld' /\ VerdictStep
  <2>1. ASSUME FlowDefers(r) \/ FlowSends(r) \/ FlowEnds(r) \/ QueueSends(r)
        PROVE  UNCHANGED jobVars
    BY <2>1 DEF FlowDefers, FlowSends, FlowEnds, QueueSends
  <2>2. ASSUME RetryTimer(r) \/ Passes(r) \/ Kill(r) PROVE UNCHANGED jobVars
    BY <2>2, Zenon DEF RetryTimer, Passes, Kill
  <2>3. ASSUME SteerMark(r) \/ SteerFails(r) \/ Sweep(r) PROVE UNCHANGED jobVars
    BY <2>3, Zenon DEF SteerMark, SteerFails, Sweep
  <2> QED BY <1>1, <1>8, <2>1, <2>2, <2>3
<1>9. CASE Restart
  <2>1. /\ course' = [r \in Runs |-> IF course[r] = "none" THEN "none" ELSE "over"]
        /\ cache' = Fresh /\ grace' = {} /\ recent' = {}
        /\ \A r \in Runs : waiter'[r] \in {"waiting", "none"}
    BY <1>9 DEF Restart
  <2> QED BY <2>1 DEF VerdictsHeld, VerdictStep, Fresh
<1>10. CASE UNCHANGED vars
  BY <1>1, <1>10 DEF vars, jobVars
<1> QED
  BY <1>3, <1>4, <1>5, <1>6, <1>7, <1>8, <1>9, <1>10 DEF Next, Tools, Work

(* agent.wait answers "error" only when the grace period has passed since  *)
(* the last error of the run with no start in between, "ok" only after an  *)
(* end with no start since.                                                *)
THEOREM Verdicts == Spec => NoPrematureVerdict
<1>1. Init => VerdictsHeld
  BY DEF Init, JobInit, Fresh, VerdictsHeld
<1>2. TypeOK /\ VerdictsHeld /\ [Next]_vars => VerdictsHeld' /\ [VerdictStep]_jobVars
  BY VerdictsNext
<1> QED BY <1>1, <1>2, Typed, PTL DEF Spec, NoPrematureVerdict, VerdictStep
===============================================================================
