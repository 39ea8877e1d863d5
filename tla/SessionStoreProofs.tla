------------------------- MODULE SessionStoreProofs -------------------------
(***************************************************************************)
(* Proofs about SessionStore for any processes and tasks: the types with   *)
(* the lock, that the cache is fresh, and that what was saved stays.       *)
(***************************************************************************)
EXTENDS SessionStore, FiniteSetTheorems, SequenceTheorems, TLAPS

(* Initially there is no store, nothing is cached and no task is queued.   *)
LEMMA TypeInit == Init => TypeOK
<1> SUFFICES ASSUME Init PROVE TypeOK
  OBVIOUS
<1>1. NoStore \in Stores /\ 1 \in 1..MaxTick /\ 0 \in 0..MaxTick
  BY StoreAssumption DEF NoStore, Stores
<1>2. \A p \in Processes : holder # p
  BY StoreAssumption DEF Init
<1>3. queue \in [Processes -> Seq(Tasks)]
  BY DEF Init
<1>4. step \in [Processes -> DrainSteps] /\ settled \in [Tasks -> Promises]
  BY DEF Init, DrainSteps, Promises
<1> QED BY <1>1, <1>2, <1>3, <1>4 DEF Init, TypeOK

(* What the fields of one process have to do with each other.              *)
LEMMA RestsType ==
    ASSUME TypeOK, NEW p \in Processes, Rests(p)
    PROVE  /\ step' \in [Processes -> DrainSteps] /\ current' \in [Processes -> Tasks \union {None}]
           /\ draft' \in [Processes -> SUBSET Tasks] /\ tmp' \in [Processes -> 0..MaxTick]
           /\ step'[p] = "idle" /\ current'[p] = None
           /\ \A q \in Processes \ {p} : /\ step'[q] = step[q] /\ current'[q] = current[q]
                                         /\ draft'[q] = draft[q] /\ tmp'[q] = tmp[q]
                                         /\ (q \in guess' <=> q \in guess)
           /\ guess' \subseteq Processes
BY StoreAssumption DEF Rests, Goes, TypeOK, DrainSteps

(* The drain of a process goes to its next step.                           *)
LEMMA GoesType ==
    ASSUME TypeOK, NEW p \in Processes, NEW s \in DrainSteps, Goes(p, s)
    PROVE  /\ step' \in [Processes -> DrainSteps] /\ step'[p] = s
           /\ \A q \in Processes \ {p} : step'[q] = step[q]
BY DEF Goes, TypeOK

(* A task that holds the lock goes on under it.                            *)
LEMMA StepType ==
    ASSUME TypeOK, NEW p \in Processes,
           NEW s \in DrainSteps \ {"idle", "locking"},
           Goes(p, s), step[p] \notin {"idle", "locking"}, UNCHANGED <<holder, current>>
    PROVE  /\ step' \in [Processes -> DrainSteps]
           /\ \A q \in Processes :
                 /\ current'[q] = None <=> step'[q] = "idle"
                 /\ holder' = q <=> step'[q] \notin {"idle", "locking"}
BY GoesType DEF TypeOK

(* The same from a step of the save.                                       *)
LEMMA OnType ==
    ASSUME TypeOK, NEW p \in Processes, step[p] \in SaveSteps,
           NEW s \in DrainSteps \ {"idle", "locking"}, Goes(p, s), UNCHANGED <<holder, current>>
    PROVE  /\ step' \in [Processes -> DrainSteps]
           /\ \A q \in Processes :
                 /\ current'[q] = None <=> step'[q] = "idle"
                 /\ holder' = q <=> step'[q] \notin {"idle", "locking"}
<1>1. step[p] \notin {"idle", "locking"}
  BY DEF SaveSteps
<1> QED BY <1>1, StepType

(* A file becomes the store.                                               *)
LEMMA BecomesType ==
    ASSUME TypeOK, NEW p \in Processes, NEW at \in 0..MaxTick, NEW parses \in BOOLEAN,
           Becomes(p, at, parses)
    PROVE  /\ disk' \in Stores /\ torn' \in BOOLEAN /\ alike' \in BOOLEAN /\ gone' \subseteq Tasks
           /\ UNCHANGED <<tick, cacheVars, queue, current, draft, tmp, holder, settled,
                          evicted, blind, guess>>
BY DEF Becomes, TypeOK, Stores, Saved

(* A lost store is one.                                                    *)
LEMMA NoStoreType == NoStore \in Stores
BY StoreAssumption DEF NoStore, Stores

(* What a failed read gives is a store.                                    *)
LEMMA BlankType == TypeOK => Blank \in Stores
BY DEF TypeOK, Stores, Blank

(* Every load, every step of a drain, a crash and the clock keep the types.*)
LEMMA TypeNext == TypeOK /\ [Next]_vars => TypeOK'
<1> SUFFICES ASSUME TypeOK, [Next]_vars PROVE TypeOK'
  OBVIOUS
<1> USE DEF diskVars, cacheVars, queueVars, history
<1>1. ASSUME NEW p \in Processes, Load(p) \/ Stat(p) \/ LoadFails(p) \/ Expire(p) PROVE TypeOK'
  <2>1. CASE Load(p)
    <3>1. UNCHANGED <<diskVars, tick, queueVars, evicted, alike, guess, gone>>
          /\ blind' \subseteq Processes
      BY <2>1 DEF Load, TypeOK
    <3>2. cache' \in [Processes -> Stores \union {None}]
          /\ reading' \in [Processes -> Stores \union {None}]
      BY <2>1 DEF Load, TypeOK
    <3> QED BY <3>1, <3>2 DEF TypeOK
  <2>2. CASE Stat(p)
    <3>1. UNCHANGED <<diskVars, tick, queueVars, evicted, blind, guess, gone>>
      BY <2>2 DEF Stat
    <3>2. reading[p] \in Stores
      BY <2>2 DEF Stat, TypeOK
    <3>3. \A at \in 0..MaxTick : [reading[p] EXCEPT !.at = at] \in Stores
      BY <3>2 DEF Stores
    <3>4. disk.at \in 0..MaxTick /\ reading[p].at \in 0..MaxTick
      BY <3>2 DEF TypeOK, Stores
    <3>5. cache' \in [Processes -> Stores \union {None}]
      BY <2>2, <3>3, <3>4 DEF Stat, TypeOK
    <3>6. reading' \in [Processes -> Stores \union {None}]
      BY <2>2 DEF Stat, TypeOK
    <3>7. alike' \in BOOLEAN
      BY <2>2 DEF Stat, TypeOK
    <3> QED BY <3>1, <3>5, <3>6, <3>7 DEF TypeOK
  <2>3. CASE Expire(p)
    <3>1. UNCHANGED <<diskVars, tick, reading, queueVars, evicted, alike, guess, gone>>
          /\ blind' \subseteq Processes
      BY <2>3 DEF Expire, TypeOK
    <3>2. cache' \in [Processes -> Stores \union {None}]
      BY <2>3 DEF Expire, TypeOK
    <3> QED BY <3>1, <3>2 DEF TypeOK
  <2>4. CASE LoadFails(p)
    <3>1. UNCHANGED <<diskVars, tick, reading, queueVars, evicted, alike, guess, gone>>
          /\ blind' \subseteq Processes
      BY <2>4 DEF LoadFails, TypeOK
    <3>2. cache' \in [Processes -> Stores \union {None}]
      BY <2>4, BlankType DEF LoadFails, TypeOK
    <3> QED BY <3>1, <3>2 DEF TypeOK
  <2> QED BY <1>1, <2>1, <2>2, <2>3, <2>4
<1>2. CASE Tick
  <2>1. tick' \in 1..MaxTick
    BY <1>2, StoreAssumption DEF Tick, TypeOK
  <2> QED BY <1>2, <2>1 DEF Tick, TypeOK
<1>3. ASSUME NEW t \in Tasks, Call(t) PROVE TypeOK'
  <2>1. Home[t] \in Processes
    BY StoreAssumption
  <2>2. queue' \in [Processes -> Seq(Tasks)]
    BY <1>3, <2>1 DEF Call, TypeOK
  <2>3. settled' \in [Tasks -> Promises]
    BY <1>3 DEF Call, TypeOK, Promises
  <2>4. UNCHANGED <<diskVars, tick, cacheVars, current, step, draft, tmp, holder, history>>
    BY <1>3 DEF Call
  <2> QED BY <2>2, <2>3, <2>4 DEF TypeOK
<1>4. ASSUME NEW p \in Processes, Take(p) PROVE TypeOK'
  <2>1. Head(queue[p]) \in Tasks /\ Tail(queue[p]) \in Seq(Tasks)
    BY <1>4, HeadTailProperties DEF Take, TypeOK
  <2>2. queue' \in [Processes -> Seq(Tasks)]
    BY <1>4, <2>1 DEF Take, TypeOK
  <2>3. current' \in [Processes -> Tasks \union {None}] /\ current'[p] # None
        /\ \A q \in Processes \ {p} : current'[q] = current[q]
    BY <1>4, <2>1, StoreAssumption DEF Take, TypeOK
  <2>4. "locking" \in DrainSteps
    BY DEF DrainSteps
  <2>5. /\ step' \in [Processes -> DrainSteps] /\ step'[p] = "locking"
        /\ \A q \in Processes \ {p} : step'[q] = step[q]
    BY <1>4, <2>4, GoesType DEF Take
  <2>6. step[p] = "idle"
        /\ UNCHANGED <<diskVars, tick, cacheVars, draft, tmp, holder, settled, history>>
    BY <1>4 DEF Take, At
  <2> QED BY <2>2, <2>3, <2>5, <2>6 DEF TypeOK
<1>5. ASSUME NEW p \in Processes, Lock(p) PROVE TypeOK'
  <2>1. "changing" \in DrainSteps /\ None \notin Processes
    BY StoreAssumption DEF DrainSteps
  <2>2. /\ step' \in [Processes -> DrainSteps] /\ step'[p] = "changing"
        /\ \A q \in Processes \ {p} : step'[q] = step[q]
    BY <1>5, <2>1, GoesType DEF Lock
  <2>3. step[p] = "locking" /\ holder = None /\ holder' = p
        /\ UNCHANGED <<diskVars, tick, reading, queue, current, tmp, settled, evicted, alike, gone>>
    BY <1>5 DEF Lock, At
  <2>4. disk.has \in SUBSET Tasks /\ (Hits(p) => cache[p].has \in SUBSET Tasks)
        /\ Blank \in Stores /\ Blank.has \in SUBSET Tasks
    BY BlankType DEF TypeOK, Stores, Hits
  <2>5. /\ draft' \in [Processes -> SUBSET Tasks] /\ cache' \in [Processes -> Stores \union {None}]
        /\ blind' \subseteq Processes /\ guess' \subseteq Processes
    <3>1. PICK fails \in {torn, Misreads(p)} :
             LET patch == current[p] \in Patches
                 hit == patch /\ Hits(p)
                 read == IF fails THEN Blank ELSE disk
             IN /\ draft' = [draft EXCEPT ![p] = IF hit THEN cache[p].has ELSE read.has]
                /\ guess' = IF IF hit THEN p \in blind ELSE fails THEN guess \union {p} ELSE guess
                /\ IF patch /\ ~hit
                   THEN /\ cache' = [cache EXCEPT ![p] = read]
                        /\ blind' = IF fails THEN blind \union {p} ELSE blind \ {p}
                   ELSE UNCHANGED <<cache, blind>>
      BY <1>5 DEF Lock
    <3>2. guess' \subseteq Processes /\ blind' \subseteq Processes
      BY <3>1 DEF TypeOK
    <3>3. (IF fails THEN Blank ELSE disk) \in Stores
          /\ (IF fails THEN Blank ELSE disk).has \in SUBSET Tasks
      BY <2>4 DEF TypeOK
    <3>4. draft' \in [Processes -> SUBSET Tasks]
      BY <2>4, <3>1, <3>3 DEF TypeOK
    <3>5. cache' \in [Processes -> Stores \union {None}]
      BY <3>1, <3>3 DEF TypeOK
    <3> QED BY <3>2, <3>4, <3>5
  <2>6. \A q \in Processes : holder' = q <=> step'[q] \notin {"idle", "locking"}
    BY <2>1, <2>2, <2>3 DEF TypeOK
  <2>7. \A q \in Processes : current'[q] = None <=> step'[q] = "idle"
    BY <2>2, <2>3 DEF TypeOK
  <2> QED BY <2>2, <2>3, <2>5, <2>6, <2>7 DEF TypeOK
<1>6. ASSUME NEW p \in Processes, LockFails(p) PROVE TypeOK'
  <2>1. step[p] = "locking" /\ current[p] \in Tasks
    BY <1>6 DEF LockFails, At, TypeOK
  <2>2. settled' \in [Tasks -> Promises]
    BY <1>6, <2>1 DEF LockFails, TypeOK, Promises
  <2>3. UNCHANGED <<diskVars, tick, cacheVars, queue, holder, evicted, alike, blind, gone>>
        /\ Rests(p)
    BY <1>6 DEF LockFails
  <2> QED BY <2>1, <2>2, <2>3, RestsType DEF TypeOK
<1>7. ASSUME NEW p \in Processes, Change(p) PROVE TypeOK'
  <2>1. step[p] = "changing" /\ current[p] \in Tasks /\ Goes(p, "rotating")
        /\ UNCHANGED <<diskVars, tick, reading, queue, current, tmp, holder, settled,
                       evicted, alike, guess, gone>>
        /\ blind' \subseteq Processes
    BY <1>7 DEF Change, At, TypeOK
  <2>2. draft' \in [Processes -> SUBSET Tasks] /\ cache' \in [Processes -> Stores \union {None}]
    BY <1>7, <2>1 DEF Change, TypeOK
  <2> QED BY <2>1, <2>2, StepType DEF TypeOK, DrainSteps, SaveSteps
<1>8. ASSUME NEW p \in Processes, ChangeFails(p) PROVE TypeOK'
  <2>1. step[p] = "changing" /\ Goes(p, "failing")
        /\ UNCHANGED <<diskVars, tick, cacheVars, queue, current, draft, tmp, holder, settled, history>>
    BY <1>8 DEF ChangeFails, At
  <2> QED BY <2>1, StepType DEF TypeOK, DrainSteps, SaveSteps
<1>9. ASSUME NEW p \in Processes, Maintain(p) PROVE TypeOK'
  <2>1. step[p] = "rotating" /\ Goes(p, "writing")
        /\ UNCHANGED <<tick, cacheVars, queue, current, tmp, holder, settled,
                       alike, blind, guess, gone>>
    BY <1>9 DEF Maintain, At
  <2>2. draft' \in [Processes -> SUBSET Tasks] /\ evicted' \subseteq Tasks
    <3>1. PICK E \in IF Enforces THEN SUBSET (draft[p] \ {current[p]}) ELSE {{}} :
             draft' = [draft EXCEPT ![p] = @ \ E] /\ evicted' = evicted \union E
      BY <1>9 DEF Maintain
    <3>2. E \subseteq Tasks
      BY DEF TypeOK
    <3> QED BY <3>1, <3>2 DEF TypeOK
  <2>3. disk' \in Stores /\ torn' \in BOOLEAN
    BY <1>9, NoStoreType DEF Maintain, Loses, TypeOK
  <2> QED BY <2>1, <2>2, <2>3, StepType DEF TypeOK, DrainSteps, SaveSteps
<1>10. ASSUME NEW p \in Processes, Write(p) PROVE TypeOK'
  <2>1. step[p] = "writing" /\ Goes(p, "renaming")
        /\ UNCHANGED <<diskVars, tick, cacheVars, queue, current, draft, holder, settled, history>>
    BY <1>10 DEF Write, At
  <2>2. tmp' \in [Processes -> 0..MaxTick]
    BY <1>10 DEF Write, TypeOK
  <2> QED BY <2>1, <2>2, StepType DEF TypeOK, DrainSteps, SaveSteps
<1>11. ASSUME NEW p \in Processes, WriteFails(p) PROVE TypeOK'
  <2>1. step[p] \in SaveSteps /\ Goes(p, "failing")
        /\ UNCHANGED <<diskVars, tick, cacheVars, queue, current, draft, tmp, holder, settled,
                       evicted, alike, blind, guess>>
    BY <1>11 DEF WriteFails, At
  <2>2. gone' \subseteq Tasks
    BY <1>11 DEF WriteFails, GivesUp, Saved, TypeOK
  <2>3. "failing" \in DrainSteps \ {"idle", "locking"}
    BY DEF DrainSteps
  <2>4. /\ step' \in [Processes -> DrainSteps]
        /\ \A q \in Processes :
              /\ current'[q] = None <=> step'[q] = "idle"
              /\ holder' = q <=> step'[q] \notin {"idle", "locking"}
    BY <2>1, <2>3, OnType
  <2> QED BY <2>1, <2>2, <2>4 DEF TypeOK
<1>12. ASSUME NEW p \in Processes, Rename(p) \/ Fill(p) \/ Truncate(p) PROVE TypeOK'
  <2>1. step[p] \in SaveSteps
    BY <1>12 DEF Rename, Fill, Truncate, At, SaveSteps
  <2>2. \E s \in DrainSteps \ {"idle", "locking"} : Goes(p, s)
    BY <1>12 DEF Rename, Fill, Truncate, DrainSteps
  <2>3. \E at \in 0..MaxTick, parses \in BOOLEAN : Becomes(p, at, parses)
    <3>1. tmp[p] \in 0..MaxTick /\ tick \in 0..MaxTick
      BY StoreAssumption DEF TypeOK
    <3> QED BY <1>12, <3>1 DEF Rename, Fill, Truncate
  <2>4. /\ disk' \in Stores /\ torn' \in BOOLEAN /\ alike' \in BOOLEAN /\ gone' \subseteq Tasks
        /\ UNCHANGED <<tick, cacheVars, queue, current, draft, tmp, holder, settled,
                       evicted, blind, guess>>
    BY <2>3, BecomesType
  <2>5. /\ step' \in [Processes -> DrainSteps]
        /\ \A q \in Processes :
              /\ current'[q] = None <=> step'[q] = "idle"
              /\ holder' = q <=> step'[q] \notin {"idle", "locking"}
    BY <2>4, <2>1, <2>2, OnType
  <2> QED BY <2>4, <2>5 DEF TypeOK
<1>13. ASSUME NEW p \in Processes, Vanishes(p) \/ VanishesAgain(p) PROVE TypeOK'
  <2>1. step[p] \in SaveSteps /\ (Goes(p, "restoring") \/ Goes(p, "releasing"))
        /\ UNCHANGED <<tick, cacheVars, queue, current, draft, tmp, holder, settled,
                       evicted, alike, blind, guess>>
    BY <1>13 DEF Vanishes, VanishesAgain, At, SaveSteps
  <2>2. disk' \in Stores /\ torn' \in BOOLEAN /\ gone' \subseteq Tasks
    BY <1>13, NoStoreType DEF Vanishes, VanishesAgain, Loses, TypeOK
  <2>3. \E s \in DrainSteps \ {"idle", "locking"} : Goes(p, s)
    BY <2>1 DEF DrainSteps
  <2>4. /\ step' \in [Processes -> DrainSteps]
        /\ \A q \in Processes :
              /\ current'[q] = None <=> step'[q] = "idle"
              /\ holder' = q <=> step'[q] \notin {"idle", "locking"}
    BY <2>1, <2>3, OnType
  <2> QED BY <2>1, <2>2, <2>4 DEF TypeOK
<1>14. ASSUME NEW p \in Processes, Release(p) PROVE TypeOK'
  <2>1. step[p] \in {"releasing", "failing"} /\ current[p] \in Tasks /\ holder = p
    BY <1>14 DEF Release, At, TypeOK
  <2>2. settled' \in [Tasks -> Promises]
    BY <1>14, <2>1 DEF Release, TypeOK, Promises
  <2>3. UNCHANGED <<diskVars, tick, cacheVars, queue, evicted, alike, blind, gone>>
        /\ Rests(p) /\ holder' = None
    BY <1>14 DEF Release
  <2>4. \A q \in Processes : q # None
    BY StoreAssumption
  <2>5. /\ step' \in [Processes -> DrainSteps] /\ current' \in [Processes -> Tasks \union {None}]
        /\ draft' \in [Processes -> SUBSET Tasks] /\ tmp' \in [Processes -> 0..MaxTick]
        /\ guess' \subseteq Processes
    BY <2>3, RestsType
  <2>6. /\ step'[p] = "idle" /\ current'[p] = None
        /\ \A q \in Processes \ {p} : step'[q] = step[q] /\ current'[q] = current[q]
    BY <2>3, RestsType
  <2>7. \A q \in Processes : /\ current'[q] = None <=> step'[q] = "idle"
                             /\ holder' = q <=> step'[q] \notin {"idle", "locking"}
    BY <2>1, <2>3, <2>4, <2>6 DEF TypeOK
  <2> QED BY <2>2, <2>3, <2>5, <2>7 DEF TypeOK
<1>15. ASSUME NEW p \in Processes, Crash(p) PROVE TypeOK'
  <2>1. UNCHANGED <<diskVars, tick, evicted, alike>> /\ Rests(p)
        /\ blind' \subseteq Processes /\ gone' \subseteq Tasks
    BY <1>15 DEF Crash, GivesUp, Saved, TypeOK
  <2>2. cache' \in [Processes -> Stores \union {None}]
        /\ reading' \in [Processes -> Stores \union {None}]
    BY <1>15 DEF Crash, TypeOK
  <2>3. settled' \in [Tasks -> Promises]
    BY <1>15 DEF Crash, TypeOK, Promises
  <2>4. queue' \in [Processes -> Seq(Tasks)]
    BY <1>15 DEF Crash, TypeOK
  <2>5. holder' = IF holder = p THEN None ELSE holder
    BY <1>15 DEF Crash
  <2>6. \A q \in Processes : q # None
    BY StoreAssumption
  <2> QED BY <2>1, <2>2, <2>3, <2>4, <2>5, <2>6, RestsType DEF TypeOK
<1>16. CASE UNCHANGED vars
  BY <1>16 DEF vars, TypeOK
<1> QED
  BY <1>1, <1>2, <1>3, <1>4, <1>5, <1>6, <1>7, <1>8, <1>9, <1>10, <1>11, <1>12, <1>13, <1>14, <1>15, <1>16
     DEF Next, Drains

(* The types of the store, its caches and its queues, and that exactly one *)
(* task holds the lock from its acquisition to its release (store.ts,      *)
(* withSessionStoreLock and drainSessionStoreLockQueue).                   *)
THEOREM Typed == Spec => []TypeOK
BY TypeInit, TypeNext, PTL DEF Spec

-----------------------------------------------------------------------------
(* As long as no mtime was met twice, what has the mtime of the file has   *)
(* what the file has; and there is nothing in a store that was never       *)
(* written.                                                                *)
Agree(s, t) == s.at = t.at => s.has = t.has
Sound(s) == s # None => Agree(s, disk) /\ Agree(s, NoStore)
FilesAgree ==
    ~alike => /\ Agree(disk, NoStore)
              /\ \A p \in Processes : /\ p \notin blind => Sound(cache[p])
                                      /\ Sound(reading[p])

(* A file that is about to become the store has a time of the clock.       *)
Stamped == \A p \in Processes : step[p] = "renaming" => tmp[p] # 0

(* The drain of p has read the store under the lock, and not written it.   *)
Drafting == {p \in Processes : step[p] \in {"changing", "rotating"} \union SaveSteps}

(* A store that is not there or cut short is being mended, unless nothing  *)
(* that it had is accounted for; and what was saved is in a store that is  *)
(* there, and in the draft that will replace it.                           *)
Broken == disk = NoStore \/ torn
Mending == \E p \in Processes : holder = p /\ step[p] \in SaveSteps
Returns ==
    /\ Broken => Mending \/ Saved \subseteq gone
    /\ \A p \in Processes : step[p] = "releasing" => ~Broken \/ current[p] \in gone
Carried ==
    ~alike =>
    /\ ~Broken => Saved \subseteq disk.has \union evicted \union gone
    /\ \A p \in Drafting \ guess : Saved \subseteq draft[p] \union evicted \union gone
    /\ \A p \in Processes :
          /\ step[p] \in {"rotating"} \union SaveSteps => current[p] \in draft[p]
          /\ step[p] = "releasing" => current[p] \in disk.has \union gone

StoreInv == FilesAgree /\ Stamped /\ Returns /\ Carried

(* Initially nothing is cached, written or saved.                          *)
LEMMA StoreInit == Init => StoreInv
BY DEF Init, StoreInv, FilesAgree, Agree, Sound, Stamped, Returns, Carried, Saved, Drafting, NoStore,
       SaveSteps

(* What a task reads under the lock: what the file has, or what its cache  *)
(* has for it, unless the reading fails or has failed.                     *)
LEMMA ReadUnder ==
    ASSUME TypeOK, NEW p \in Processes, Lock(p)
    PROVE  /\ \A q \in Processes \ {p} : /\ cache'[q] = cache[q] /\ (q \in blind' <=> q \in blind)
                                          /\ draft'[q] = draft[q] /\ (q \in guess' <=> q \in guess)
           /\ p \in blind' \/ cache'[p] = disk \/ (p \notin blind /\ cache'[p] = cache[p])
           /\ \/ p \in guess' \/ (~torn /\ draft'[p] = disk.has)
              \/ p \notin blind /\ Hits(p) /\ draft'[p] = cache[p].has
<1>1. PICK fails \in {torn, Misreads(p)} :
         LET patch == current[p] \in Patches
             hit == patch /\ Hits(p)
             read == IF fails THEN Blank ELSE disk
         IN /\ draft' = [draft EXCEPT ![p] = IF hit THEN cache[p].has ELSE read.has]
            /\ guess' = IF IF hit THEN p \in blind ELSE fails THEN guess \union {p} ELSE guess
            /\ IF patch /\ ~hit
               THEN /\ cache' = [cache EXCEPT ![p] = read]
                    /\ blind' = IF fails THEN blind \union {p} ELSE blind \ {p}
               ELSE UNCHANGED <<cache, blind>>
  BY DEF Lock
<1>2. torn => fails
  BY <1>1 DEF Misreads
<1>3. draft'[p] = IF current[p] \in Patches /\ Hits(p) THEN cache[p].has
                  ELSE IF fails THEN Blank.has ELSE disk.has
  BY <1>1 DEF TypeOK
<1>7. p \in guess' \/ IF current[p] \in Patches /\ Hits(p) THEN p \notin blind ELSE ~fails
  BY <1>1
<1>4. \/ p \in guess' \/ (~torn /\ draft'[p] = disk.has)
      \/ p \notin blind /\ Hits(p) /\ draft'[p] = cache[p].has
  BY <1>2, <1>3, <1>7
<1>5. \A q \in Processes \ {p} : /\ cache'[q] = cache[q] /\ (q \in blind' <=> q \in blind)
                                 /\ draft'[q] = draft[q] /\ (q \in guess' <=> q \in guess)
  BY <1>1 DEF TypeOK
<1>6. p \in blind' \/ cache'[p] = disk \/ (p \notin blind /\ cache'[p] = cache[p])
  <2>1. CASE current[p] \in Patches /\ ~Hits(p)
    BY <1>1, <2>1 DEF TypeOK
  <2>2. CASE ~(current[p] \in Patches /\ ~Hits(p))
    BY <1>1, <2>2 DEF TypeOK
  <2> QED BY <2>1, <2>2
<1> QED BY <1>4, <1>5, <1>6

(* Loads fill the cache from the file.                                     *)
LEMMA AgreeNext ==
    ASSUME TypeOK, FilesAgree, Stamped, [Next]_vars
    PROVE  FilesAgree'
<1> SUFFICES ASSUME ~alike'
             PROVE  /\ Agree(disk', NoStore)
                    /\ \A q \in Processes : /\ q \notin blind' => Sound(cache[q])'
                                            /\ Sound(reading[q])'
  BY DEF FilesAgree, Agree, NoStore
<1> DEFINE Goal == /\ Agree(disk', NoStore)
                   /\ \A q \in Processes : /\ q \notin blind' => Sound(cache[q])'
                                           /\ Sound(reading[q])'
<1> USE DEF cacheVars, diskVars, history
<1>0. ASSUME ~alike
      PROVE  /\ Agree(disk, NoStore) /\ Agree(disk, disk)
             /\ \A q \in Processes : (q \notin blind => Sound(cache[q])) /\ Sound(reading[q])
  BY <1>0 DEF FilesAgree, Agree
<1>1. ASSUME UNCHANGED disk, UNCHANGED alike,
             \A q \in Processes : \/ q \in blind' \/ cache'[q] = None \/ cache'[q] = disk
                                  \/ q \notin blind /\ cache'[q] = cache[q],
             \A q \in Processes : reading'[q] \in {reading[q], None, disk}
      PROVE  Goal
  <2>1. \A q \in Processes : \/ reading'[q] = reading[q] \/ reading'[q] = None \/ reading'[q] = disk
    BY <1>1
  <2> QED BY <1>0, <1>1, <2>1 DEF Sound
<1>2. ASSUME NEW p \in Processes, Stat(p) PROVE Goal
  <2>1. UNCHANGED <<disk, blind>> /\ ~alike
    BY <1>2 DEF Stat
  <2>2. reading[p] # None /\ reading[p] \in Stores /\ cache'[p] \in Stores
    /\ cache'[p].has = reading[p].has /\ cache'[p].at = reading[p].at
    BY <1>2 DEF Stat, TypeOK, Stores
  <2>3. Sound(cache[p])'
    BY <1>0, <2>1, <2>2 DEF Sound, Agree
  <2>4. \A q \in Processes \ {p} : cache'[q] = cache[q]
    BY <1>2 DEF Stat, TypeOK
  <2>5. \A q \in Processes : reading'[q] = reading[q] \/ reading'[q] = None
    BY <1>2 DEF Stat, TypeOK
  <2> QED BY <1>0, <2>1, <2>3, <2>4, <2>5 DEF Sound
<1>3. ASSUME NEW p \in Processes, NEW at, NEW parses \in BOOLEAN, Becomes(p, at, parses), at # 0
      PROVE  Goal
  <2>1. at \notin Mtimes /\ ~alike /\ disk'.at = at /\ UNCHANGED <<cacheVars, blind>>
    BY <1>3 DEF Becomes
  <2>2. Agree(disk', NoStore)
    BY <1>3, <2>1 DEF Agree, NoStore
  <2>3. \A q \in Processes : /\ q \notin blind /\ cache[q] # None => cache[q].at # at
                             /\ reading[q] # None => reading[q].at # at
    BY <2>1 DEF Mtimes
  <2> QED BY <1>0, <2>1, <2>2, <2>3 DEF Sound, Agree
<1>4. ASSUME NEW p \in Processes, Rename(p) \/ Truncate(p) \/ Fill(p) PROVE Goal
  <2>1. tick # 0 /\ (step[p] = "renaming" => tmp[p] # 0)
    BY DEF TypeOK, Stamped
  <2> QED BY <1>3, <1>4, <2>1 DEF Rename, Truncate, Fill, At
<1>5. ASSUME NEW p \in Processes, Maintain(p) \/ Vanishes(p) \/ VanishesAgain(p) PROVE Goal
  <2>1. UNCHANGED <<cache, reading, alike, blind>> /\ (disk' = disk \/ disk' = NoStore)
    BY <1>5 DEF Maintain, Vanishes, VanishesAgain, Loses
  <2> QED BY <1>0, <2>1 DEF Sound, Agree
<1>6. ASSUME NEW p \in Processes, Lock(p) PROVE Goal
  <2>1. UNCHANGED <<disk, reading, alike>>
    BY <1>6 DEF Lock
  <2>2. \A q \in Processes \ {p} : cache'[q] = cache[q] /\ (q \in blind' <=> q \in blind)
    BY <1>6, ReadUnder
  <2>3. p \in blind' \/ cache'[p] = disk \/ (p \notin blind /\ cache'[p] = cache[p])
    BY <1>6, ReadUnder
  <2> QED BY <1>1, <2>1, <2>2, <2>3
<1>7. ASSUME NEW p \in Processes, Load(p) \/ LoadFails(p) \/ Expire(p) \/ Change(p) \/ Crash(p)
      PROVE  Goal
  <2>1. UNCHANGED <<disk, alike>>
    BY <1>7 DEF Load, LoadFails, Expire, Change, Crash
  <2>2. \A q \in Processes : \/ q \in blind' \/ cache'[q] = None
                             \/ q \notin blind /\ cache'[q] = cache[q]
    BY <1>7 DEF Load, LoadFails, Expire, Change, Crash, TypeOK
  <2>3. \A q \in Processes : reading'[q] \in {reading[q], None, disk}
    BY <1>7 DEF Load, LoadFails, Expire, Change, Crash, TypeOK
  <2> QED BY <1>1, <2>1, <2>2, <2>3
<1>8. ASSUME UNCHANGED <<disk, cache, reading, alike, blind>> PROVE Goal
  BY <1>1, <1>8
<1>9. ASSUME NEW p \in Processes,
             \/ Take(p) \/ ChangeFails(p) \/ Write(p) \/ WriteFails(p) \/ Release(p) \/ LockFails(p)
      PROVE  Goal
  BY <1>8, <1>9 DEF Take, ChangeFails, Write, WriteFails, Release, LockFails
<1>10. CASE (\E t \in Tasks : Call(t)) \/ Tick \/ UNCHANGED vars
  BY <1>8, <1>10 DEF Call, Tick, vars
<1> QED
  BY <1>2, <1>4, <1>5, <1>6, <1>7, <1>9, <1>10 DEF Next, Drains

(* Whoever goes to rename its file has just written it.                    *)
LEMMA StampedNext ==
    ASSUME TypeOK, Stamped, [Next]_vars
    PROVE  Stamped'
<1> USE DEF queueVars
<1>1. ASSUME UNCHANGED <<step, tmp>> PROVE Stamped'
  BY <1>1 DEF Stamped
<1>2. ASSUME NEW p \in Processes, NEW s \in DrainSteps \ {"renaming"}, Goes(p, s), UNCHANGED tmp
      PROVE  Stamped'
  BY <1>2, GoesType DEF Stamped
<1>3. ASSUME NEW p \in Processes, Rests(p) PROVE Stamped'
  BY <1>3, RestsType DEF Stamped
<1>4. ASSUME NEW p \in Processes, Write(p) PROVE Stamped'
  <2>1. \A q \in Processes : tmp'[q] = IF q = p THEN tick ELSE tmp[q]
    BY <1>4 DEF Write, TypeOK
  <2>2. tick # 0
    BY DEF TypeOK
  <2>3. \A q \in Processes \ {p} : step'[q] = step[q]
    BY <1>4 DEF Write, Goes, TypeOK
  <2> QED BY <2>1, <2>2, <2>3 DEF Stamped
<1>5. ASSUME NEW p \in Processes,
             \/ Take(p) \/ Lock(p) \/ Change(p) \/ ChangeFails(p) \/ Maintain(p) \/ WriteFails(p)
             \/ Rename(p) \/ Vanishes(p) \/ Truncate(p) \/ Fill(p) \/ VanishesAgain(p)
      PROVE  Stamped'
  <2>1. UNCHANGED tmp /\ \E s \in DrainSteps \ {"renaming"} : Goes(p, s)
    BY <1>5 DEF Take, Lock, Change, ChangeFails, Maintain, WriteFails, Rename, Vanishes,
                Truncate, Fill, VanishesAgain, Becomes, DrainSteps
  <2> QED BY <1>2, <2>1
<1>6. ASSUME NEW p \in Processes, Release(p) \/ LockFails(p) \/ Crash(p) PROVE Stamped'
  BY <1>3, <1>6 DEF Release, LockFails, Crash
<1>7. ASSUME NEW p \in Processes, Load(p) \/ Stat(p) \/ LoadFails(p) \/ Expire(p) PROVE Stamped'
  BY <1>1, <1>7 DEF Load, Stat, LoadFails, Expire
<1>8. CASE (\E t \in Tasks : Call(t)) \/ Tick \/ UNCHANGED vars
  BY <1>1, <1>8 DEF Call, Tick, vars
<1> QED
  BY <1>4, <1>5, <1>6, <1>7, <1>8 DEF Next, Drains

(* What a load would take from the cache is what the file holds.           *)
LEMMA Freshness == TypeOK /\ FilesAgree => CacheIsFresh
BY DEF CacheIsFresh, FilesAgree, Sound, Agree, Hits

(* Whatever loads, writes and replaces the file in between,                *)
(* loadSessionStore() takes from its cache what the file has, unless       *)
(* different contents were read under one mtime or the entry is of a read  *)
(* that failed.                                                            *)
THEOREM Fresh == Spec => []CacheIsFresh
<1> DEFINE Inv == TypeOK /\ FilesAgree /\ Stamped
<1>1. Init => Inv
  BY TypeInit, StoreInit DEF StoreInv
<1>2. Inv /\ [Next]_vars => Inv'
  BY TypeNext, AgreeNext, StampedNext
<1>3. Inv => CacheIsFresh
  BY Freshness
<1> HIDE DEF Inv
<1> QED BY <1>1, <1>2, <1>3, PTL DEF Spec

-----------------------------------------------------------------------------
(* A step that writes nothing and settles nothing as saved.                *)
LEMMA IdleKeeps ==
    ASSUME TypeOK, Returns, Carried, Saved' \subseteq Saved, alike => alike',
           UNCHANGED <<disk, torn, evicted, holder, step, draft, current, guess, gone>>
    PROVE  Returns' /\ Carried'
<1>1. Drafting' = Drafting
  BY DEF Drafting
<1>2. (Mending' <=> Mending) /\ (Broken' <=> Broken)
  BY DEF Mending, Broken
<1>3. Returns'
  BY <1>2 DEF Returns
<1>4. Carried'
  BY <1>1, <1>2 DEF Carried
<1> QED BY <1>3, <1>4

(* The drain of a process that does not write goes on or ends; a save that *)
(* could have mended the store gives the saved changes up.                 *)
LEMMA GoesKeeps ==
    ASSUME TypeOK, TypeOK', Returns, Carried, NEW p \in Processes,
           step[p] \notin SaveSteps \/ ~Broken \/ Saved \subseteq gone',
           step'[p] \in {"idle", "locking", "failing"},
           \A q \in Processes \ {p} : /\ step'[q] = step[q] /\ current'[q] = current[q]
                                      /\ draft'[q] = draft[q] /\ (holder' = q <=> holder = q)
                                      /\ (q \in guess' <=> q \in guess),
           UNCHANGED <<disk, torn, evicted, alike>>, gone \subseteq gone', Saved' \subseteq Saved
    PROVE  Returns' /\ Carried'
<1>1. Drafting' \subseteq Drafting \ {p} /\ (Broken' <=> Broken)
  BY DEF Drafting, Broken, SaveSteps
<1>2. Broken /\ Mending => Mending' \/ Saved \subseteq gone'
  BY DEF Mending
<1>3. Returns'
  <2>1. Broken' => Mending' \/ Saved' \subseteq gone'
    BY <1>1, <1>2 DEF Returns
  <2>2. \A q \in Processes : step'[q] = "releasing" => ~Broken' \/ current'[q] \in gone'
    BY <1>1 DEF Returns
  <2> QED BY <2>1, <2>2 DEF Returns
<1>4. Carried'
  <2> SUFFICES ASSUME ~alike
               PROVE  /\ ~Broken => Saved' \subseteq disk.has \union evicted \union gone'
                      /\ \A q \in Drafting' \ guess' :
                            Saved' \subseteq draft'[q] \union evicted \union gone'
                      /\ \A q \in Processes :
                            /\ step'[q] \in {"rotating"} \union SaveSteps => current'[q] \in draft'[q]
                            /\ step'[q] = "releasing" => current'[q] \in disk.has \union gone'
    BY <1>1 DEF Carried
  <2>1. ~Broken => Saved' \subseteq disk.has \union evicted \union gone'
    BY DEF Carried
  <2>2. \A q \in Drafting' \ guess' : Saved' \subseteq draft'[q] \union evicted \union gone'
    BY <1>1 DEF Carried, Drafting
  <2>3. \A q \in Processes :
           /\ step'[q] \in {"rotating"} \union SaveSteps => current'[q] \in draft'[q]
           /\ step'[q] = "releasing" => current'[q] \in disk.has \union gone'
    BY DEF Carried, SaveSteps
  <2> QED BY <2>1, <2>2, <2>3
<1> QED BY <1>3, <1>4

(* One process at most is past the wait for the lock.                      *)
LEMMA OneDrafts ==
    ASSUME TypeOK, NEW p \in Processes, step[p] \notin {"idle", "locking"}
    PROVE  holder = p
           /\ \A q \in Processes \ {p} : step[q] \in {"idle", "locking"} /\ q \notin Drafting
BY DEF TypeOK, Drafting, SaveSteps

(* The save of p goes to another of its steps, with all that was saved in  *)
(* its draft; or nothing that was saved is accounted for.                  *)
LEMMA SaveGoesOn ==
    ASSUME TypeOK, NEW p \in Processes, step[p] \in {"rotating"} \union SaveSteps,
           step'[p] \in SaveSteps, UNCHANGED <<holder, current, guess>>,
           \A q \in Processes \ {p} : step'[q] = step[q],
           ~alike' => /\ current[p] \in draft'[p]
                      /\ p \notin guess => Saved' \subseteq draft'[p] \union evicted' \union gone'
                      /\ ~Broken' => Saved' \subseteq disk'.has \union evicted' \union gone'
    PROVE  Returns' /\ Carried'
<1>1. step[p] \notin {"idle", "locking"}
  BY DEF SaveSteps
<1>2. holder = p /\ \A q \in Processes \ {p} : step'[q] \in {"idle", "locking"} /\ q \notin Drafting'
  BY <1>1, OneDrafts DEF Drafting, SaveSteps
<1>3. Mending'
  BY <1>2 DEF Mending
<1>4. \A q \in Processes : step'[q] # "releasing"
  BY <1>2 DEF SaveSteps
<1>5. Returns'
  BY <1>3, <1>4 DEF Returns
<1>6. \A q \in Processes : q # p => step'[q] \notin {"rotating"} \union SaveSteps
  BY <1>2 DEF SaveSteps
<1>7. Carried'
  <2> SUFFICES ASSUME ~alike'
               PROVE  /\ ~Broken' => Saved' \subseteq disk'.has \union evicted' \union gone'
                      /\ \A q \in Drafting' \ guess' :
                            Saved' \subseteq draft'[q] \union evicted' \union gone'
                      /\ \A q \in Processes :
                            /\ step'[q] \in {"rotating"} \union SaveSteps => current'[q] \in draft'[q]
                            /\ step'[q] = "releasing" => current'[q] \in disk'.has \union gone'
    BY DEF Carried
  <2>1. \A q \in Drafting' \ guess' : q = p /\ p \notin guess
    BY <1>2 DEF Drafting
  <2> QED BY <1>4, <1>6, <2>1
<1> QED BY <1>5, <1>7

(* The save of p ends, the store being whole and all that was saved in it; *)
(* or nothing that was saved is accounted for.                             *)
LEMMA SaveEnds ==
    ASSUME TypeOK, NEW p \in Processes, step[p] \in SaveSteps,
           step'[p] \in {"releasing", "failing"}, UNCHANGED <<holder, current, guess>>,
           \A q \in Processes \ {p} : step'[q] = step[q],
           ~Broken' \/ (Saved' \subseteq gone' /\ current[p] \in gone'),
           ~alike' => /\ current[p] \in disk'.has \union gone'
                      /\ ~Broken' => Saved' \subseteq disk'.has \union evicted' \union gone'
    PROVE  Returns' /\ Carried'
<1>1. step[p] \notin {"idle", "locking"}
  BY DEF SaveSteps
<1>2. \A q \in Processes \ {p} : step'[q] \in {"idle", "locking"}
  BY <1>1, OneDrafts
<1>3. \A q \in Processes : q \notin Drafting' /\ step'[q] \notin {"rotating"} \union SaveSteps
  BY <1>2 DEF Drafting, SaveSteps
<1>4. Returns'
  BY <1>2 DEF Returns
<1>5. Carried'
  <2> SUFFICES ASSUME ~alike'
               PROVE  /\ ~Broken' => Saved' \subseteq disk'.has \union evicted' \union gone'
                      /\ \A q \in Drafting' \ guess' :
                            Saved' \subseteq draft'[q] \union evicted' \union gone'
                      /\ \A q \in Processes :
                            /\ step'[q] \in {"rotating"} \union SaveSteps => current'[q] \in draft'[q]
                            /\ step'[q] = "releasing" => current'[q] \in disk'.has \union gone'
    BY DEF Carried
  <2>1. \A q \in Processes : step'[q] = "releasing" => q = p
    BY <1>2
  <2>2. Drafting' = {}
    BY <1>3 DEF Drafting
  <2> QED BY <1>3, <2>1, <2>2
<1> QED BY <1>4, <1>5

(* A step keeps every saved change that it does not give up: in the store, *)
(* or on its way back into it.                                             *)
LEMMA SavesNext ==
    ASSUME TypeOK, TypeOK', FilesAgree, Stamped, Returns, Carried, [Next]_vars
    PROVE  Returns' /\ Carried'
<1> USE DEF diskVars, cacheVars, queueVars, history
<1>1. ASSUME NEW p \in Processes, Load(p) \/ Stat(p) \/ LoadFails(p) \/ Expire(p)
      PROVE  Returns' /\ Carried'
  <2>1. UNCHANGED <<disk, torn, queueVars, evicted, guess, gone>>
    BY <1>1 DEF Load, Stat, LoadFails, Expire
  <2>3. alike => alike'
    BY <1>1 DEF Load, Stat, LoadFails, Expire
  <2>2. Saved' = Saved
    BY <2>1 DEF Saved
  <2> QED BY <2>1, <2>2, <2>3, IdleKeeps
<1>2. ASSUME NEW t \in Tasks, Call(t) PROVE Returns' /\ Carried'
  <2>1. UNCHANGED <<disk, torn, current, step, draft, holder, history>>
    BY <1>2 DEF Call
  <2>2. Saved' \subseteq Saved
    BY <1>2 DEF Call, Saved, TypeOK
  <2> QED BY <2>1, <2>2, IdleKeeps
<1>3. CASE Tick \/ UNCHANGED vars
  <2>1. UNCHANGED <<disk, torn, queueVars, history>>
    BY <1>3 DEF Tick, vars
  <2>2. Saved' = Saved
    BY <2>1 DEF Saved
  <2> QED BY <2>1, <2>2, IdleKeeps
<1>4. ASSUME NEW p \in Processes, Take(p) PROVE Returns' /\ Carried'
  <2>1. step[p] = "idle" /\ UNCHANGED <<disk, torn, draft, holder, settled, history>>
    BY <1>4 DEF Take, At
  <2>2. step'[p] = "locking"
        /\ \A q \in Processes \ {p} : step'[q] = step[q] /\ current'[q] = current[q]
    BY <1>4 DEF Take, Goes, TypeOK
  <2>3. Saved' = Saved /\ step[p] \notin SaveSteps
    BY <2>1 DEF Saved, SaveSteps
  <2> QED BY <2>1, <2>2, <2>3, GoesKeeps
<1>5. ASSUME NEW p \in Processes, Lock(p) PROVE Returns' /\ Carried'
  <2>1. step[p] = "locking" /\ holder = None /\ holder' = p
        /\ UNCHANGED <<disk, torn, current, settled, evicted, alike, gone>>
    BY <1>5 DEF Lock, At
  <2>2. step'[p] = "changing" /\ \A q \in Processes \ {p} : step'[q] = step[q]
    BY <1>5 DEF Lock, Goes, TypeOK
  <2>3. Saved' = Saved /\ (Broken' <=> Broken)
        /\ \A q \in Processes : step[q] \in {"idle", "locking"} /\ q # None
    BY <2>1, StoreAssumption DEF Saved, Broken, TypeOK
  <2>4. ~Mending
    BY <2>1, <2>3 DEF Mending
  <2>5. Returns'
    BY <2>1, <2>2, <2>3, <2>4 DEF Returns
  <2>6. ~alike /\ p \notin guess' => Broken \/ draft'[p] = disk.has
    BY <1>5, ReadUnder, Freshness DEF CacheIsFresh
  <2>7. ~alike => Broken \/ Saved \subseteq disk.has \union evicted \union gone
    BY DEF Carried
  <2>8. Broken => Saved \subseteq gone
    BY <2>4 DEF Returns
  <2>9. Drafting' = {p}
        /\ \A q \in Processes : step'[q] \notin {"rotating", "releasing"} \union SaveSteps
    BY <2>2, <2>3 DEF Drafting, SaveSteps
  <2>10. ~alike /\ p \notin guess' => Saved \subseteq draft'[p] \union evicted \union gone
    BY <2>6, <2>7, <2>8
  <2>11. Carried'
    BY <2>1, <2>3, <2>7, <2>9, <2>10 DEF Carried
  <2> QED BY <2>5, <2>11
<1>6. ASSUME NEW p \in Processes, LockFails(p) PROVE Returns' /\ Carried'
  <2>1. step[p] = "locking" /\ Rests(p) /\ UNCHANGED <<disk, torn, holder, evicted, alike, gone>>
    BY <1>6 DEF LockFails, At
  <2>2. Saved' \subseteq Saved
    BY <1>6 DEF LockFails, Saved, TypeOK
  <2>3. step[p] \notin SaveSteps
    BY <2>1 DEF SaveSteps
  <2> QED BY <2>1, <2>2, <2>3, GoesKeeps, RestsType
<1>7. ASSUME NEW p \in Processes, Change(p) PROVE Returns' /\ Carried'
  <2>1. step[p] = "changing"
        /\ UNCHANGED <<disk, torn, current, holder, settled, evicted, alike, guess, gone>>
    BY <1>7 DEF Change, At
  <2>2. step'[p] = "rotating" /\ \A q \in Processes \ {p} : step'[q] = step[q]
    BY <1>7 DEF Change, Goes, TypeOK
  <2>3. draft'[p] = draft[p] \union {current[p]}
    BY <1>7 DEF Change, TypeOK
  <2>4. Saved' = Saved /\ p \in Drafting /\ (Broken' <=> Broken)
    BY <2>1 DEF Saved, Drafting, Broken
  <2>5. holder = p /\ \A q \in Processes \ {p} : step[q] \in {"idle", "locking"}
    BY <2>1, OneDrafts
  <2>6. ~Mending
    BY <2>1, <2>5 DEF Mending, SaveSteps, TypeOK
  <2>7. Returns'
    BY <2>1, <2>2, <2>4, <2>5, <2>6 DEF Returns
  <2>8. Drafting' = {p} /\ \A q \in Processes : step'[q] \notin {"releasing"} \union SaveSteps
                        /\ (q # p => step'[q] # "rotating")
    BY <2>2, <2>5 DEF Drafting, SaveSteps
  <2>9. Carried'
    BY <2>1, <2>3, <2>4, <2>8 DEF Carried
  <2> QED BY <2>7, <2>9
<1>8. ASSUME NEW p \in Processes, ChangeFails(p) PROVE Returns' /\ Carried'
  <2>1. step[p] = "changing" /\ UNCHANGED <<disk, torn, current, draft, holder, settled, history>>
    BY <1>8 DEF ChangeFails, At
  <2>2. step'[p] = "failing" /\ \A q \in Processes \ {p} : step'[q] = step[q]
    BY <1>8 DEF ChangeFails, Goes, TypeOK
  <2>3. Saved' = Saved /\ step[p] \notin SaveSteps
    BY <2>1 DEF Saved, SaveSteps
  <2> QED BY <2>1, <2>2, <2>3, GoesKeeps
<1>9. ASSUME NEW p \in Processes, Maintain(p) PROVE Returns' /\ Carried'
  <2>1. step[p] = "rotating" /\ UNCHANGED <<current, holder, settled, alike, guess, gone>>
    BY <1>9 DEF Maintain, At
  <2>2. step'[p] = "writing" /\ \A q \in Processes \ {p} : step'[q] = step[q]
    BY <1>9 DEF Maintain, Goes, TypeOK
  <2>3. PICK E : /\ E \subseteq draft[p] \ {current[p]}
                 /\ draft' = [draft EXCEPT ![p] = @ \ E] /\ evicted' = evicted \union E
    BY <1>9 DEF Maintain
  <2>4. Broken' \/ (disk' = disk /\ ~Broken)
    BY <1>9 DEF Maintain, Loses, Broken
  <2>5. draft'[p] = draft[p] \ E
    BY <2>3 DEF TypeOK
  <2>6. Saved' = Saved /\ p \in Drafting
    BY <2>1 DEF Saved, Drafting
  <2>7. ~alike => /\ current[p] \in draft'[p]
                  /\ p \notin guess => Saved' \subseteq draft'[p] \union evicted' \union gone
                  /\ ~Broken' => Saved' \subseteq disk'.has \union evicted' \union gone
    BY <2>1, <2>3, <2>4, <2>5, <2>6 DEF Carried
  <2>8. step[p] \in {"rotating"} \union SaveSteps /\ step'[p] \in SaveSteps
    BY <2>1, <2>2 DEF SaveSteps
  <2> QED BY <2>1, <2>2, <2>7, <2>8, SaveGoesOn
<1>10. ASSUME NEW p \in Processes, Write(p) PROVE Returns' /\ Carried'
  <2>1. step[p] = "writing" /\ UNCHANGED <<disk, torn, current, draft, holder, settled, history>>
    BY <1>10 DEF Write, At
  <2>2. step'[p] = "renaming" /\ \A q \in Processes \ {p} : step'[q] = step[q]
    BY <1>10 DEF Write, Goes, TypeOK
  <2>3. Saved' = Saved /\ (Broken' <=> Broken) /\ p \in Drafting /\ step[p] \in SaveSteps
        /\ step'[p] \in SaveSteps
    BY <2>1, <2>2 DEF Saved, Broken, Drafting, SaveSteps
  <2>4. ~alike => /\ current[p] \in draft'[p]
                  /\ p \notin guess => Saved' \subseteq draft'[p] \union evicted' \union gone'
                  /\ ~Broken' => Saved' \subseteq disk'.has \union evicted' \union gone'
    BY <2>1, <2>3 DEF Carried
  <2> QED BY <2>1, <2>2, <2>3, <2>4, SaveGoesOn
<1>11. ASSUME NEW p \in Processes, WriteFails(p) PROVE Returns' /\ Carried'
  <2>1. UNCHANGED <<disk, torn, current, draft, holder, settled, evicted, alike, guess>>
        /\ GivesUp(p)
    BY <1>11 DEF WriteFails
  <2>2. step'[p] = "failing" /\ \A q \in Processes \ {p} : step'[q] = step[q]
    BY <1>11 DEF WriteFails, Goes, TypeOK
  <2>3. Saved' = Saved
    BY <2>1 DEF Saved
  <2>4. gone \subseteq gone' /\ (step[p] \notin SaveSteps \/ ~Broken \/ Saved \subseteq gone')
    BY <2>1 DEF GivesUp, Broken
  <2> QED BY <2>1, <2>2, <2>3, <2>4, GoesKeeps
<1>12. ASSUME NEW p \in Processes, Rename(p) \/ Fill(p) PROVE Returns' /\ Carried'
  <2>1. PICK at : Becomes(p, at, TRUE) /\ at # 0
    <3>1. tick # 0 /\ (step[p] = "renaming" => tmp[p] # 0)
      BY DEF TypeOK, Stamped
    <3> QED BY <1>12, <3>1 DEF Rename, Fill, At
  <2>2. step[p] \in SaveSteps
    BY <1>12 DEF Rename, Fill, At, SaveSteps
  <2>3. UNCHANGED <<current, draft, holder, settled, evicted, guess>>
        /\ disk' = [has |-> draft[p], at |-> at] /\ ~torn' /\ (alike => alike')
        /\ gone' = IF p \in guess THEN gone \union (Saved \ draft[p]) ELSE gone
    BY <2>1 DEF Becomes
  <2>4. step'[p] \in {"releasing", "failing"} /\ \A q \in Processes \ {p} : step'[q] = step[q]
    BY <1>12 DEF Rename, Fill, Goes, TypeOK
  <2>5. Saved' = Saved /\ p \in Drafting
    BY <2>2, <2>3 DEF Saved, Drafting
  <2>6. ~Broken' /\ disk'.has = draft[p]
    BY <2>1, <2>3 DEF Broken, NoStore
  <2>7. ~alike' => Saved' \subseteq disk'.has \union evicted' \union gone'
    <3>1. CASE p \in guess
      BY <2>3, <2>5, <2>6, <3>1
    <3>2. CASE p \notin guess
      BY <2>3, <2>5, <2>6, <3>2 DEF Carried
    <3> QED BY <3>1, <3>2
  <2>8. ~alike' => current[p] \in disk'.has
    BY <2>2, <2>3, <2>6 DEF Carried
  <2> QED BY <2>2, <2>3, <2>4, <2>6, <2>7, <2>8, SaveEnds
<1>13. ASSUME NEW p \in Processes, Truncate(p) PROVE Returns' /\ Carried'
  <2>1. step[p] \in SaveSteps /\ torn' /\ (alike => alike')
        /\ UNCHANGED <<current, draft, holder, settled, evicted, guess, gone>>
    BY <1>13 DEF Truncate, At, Becomes, SaveSteps
  <2>2. step'[p] \in SaveSteps /\ \A q \in Processes \ {p} : step'[q] = step[q]
    BY <1>13 DEF Truncate, Goes, TypeOK, SaveSteps
  <2>3. Saved' = Saved /\ Broken' /\ p \in Drafting
    BY <2>1 DEF Saved, Broken, Drafting
  <2>4. ~alike' => /\ current[p] \in draft'[p]
                   /\ p \notin guess => Saved' \subseteq draft'[p] \union evicted' \union gone'
    BY <2>1, <2>3 DEF Carried
  <2> QED BY <2>1, <2>2, <2>3, <2>4, SaveGoesOn
<1>14. ASSUME NEW p \in Processes, Vanishes(p) PROVE Returns' /\ Carried'
  <2>1. step[p] \in SaveSteps /\ UNCHANGED <<current, draft, holder, settled, evicted, guess, alike>>
        /\ (gone' = Tasks \/ UNCHANGED <<disk, torn, gone>>)
    BY <1>14 DEF Vanishes, At, SaveSteps
  <2>2. step'[p] \in SaveSteps /\ \A q \in Processes \ {p} : step'[q] = step[q]
    BY <1>14 DEF Vanishes, Goes, TypeOK, SaveSteps
  <2>3. Saved' = Saved /\ Saved \subseteq Tasks /\ p \in Drafting
    BY <2>1 DEF Saved, Drafting
  <2>4. ~alike' => current[p] \in draft'[p]
    BY <2>1 DEF Carried
  <2>5. ~alike' => /\ p \notin guess => Saved' \subseteq draft'[p] \union evicted' \union gone'
                   /\ ~Broken' => Saved' \subseteq disk'.has \union evicted' \union gone'
    <3>1. CASE gone' = Tasks
      BY <2>3, <3>1
    <3>2. CASE UNCHANGED <<disk, torn, gone>>
      BY <2>1, <2>3, <3>2 DEF Carried, Broken
    <3> QED BY <2>1, <3>1, <3>2
  <2> QED BY <2>1, <2>2, <2>4, <2>5, SaveGoesOn
<1>15. ASSUME NEW p \in Processes, VanishesAgain(p) PROVE Returns' /\ Carried'
  <2>1. step[p] \in SaveSteps /\ gone' = Tasks
        /\ UNCHANGED <<current, draft, holder, settled, evicted, guess, alike>>
    BY <1>15 DEF VanishesAgain, At, SaveSteps
  <2>2. step'[p] = "releasing" /\ \A q \in Processes \ {p} : step'[q] = step[q]
    BY <1>15 DEF VanishesAgain, Goes, TypeOK
  <2>3. Saved' \subseteq gone' /\ current[p] \in gone'
    BY <2>1 DEF Saved, TypeOK, SaveSteps
  <2> QED BY <2>1, <2>2, <2>3, SaveEnds
<1>16. ASSUME NEW p \in Processes, Release(p) PROVE Returns' /\ Carried'
  <2>1. UNCHANGED <<disk, torn, evicted, alike, gone>> /\ Rests(p) /\ holder' = None
        /\ \E end \in {"releasing", "failing"} :
              /\ step[p] = end
              /\ settled' = [settled EXCEPT
                   ![current[p]] = IF end = "releasing" THEN "saved" ELSE "failed"]
    BY <1>16 DEF Release, At
  <2>2. CASE step[p] = "failing"
    <3>1. Saved' \subseteq Saved /\ step[p] \notin SaveSteps
      BY <2>1, <2>2 DEF Saved, TypeOK, SaveSteps
    <3>2. \A q \in Processes \ {p} : holder' = q <=> holder = q
      BY <2>1, <2>2, OneDrafts, StoreAssumption
    <3> QED BY <2>1, <2>2, <3>1, <3>2, GoesKeeps, RestsType
  <2>3. CASE step[p] = "releasing"
    <3>1. Saved' \subseteq Saved \union {current[p]}
      BY <2>1, <2>3 DEF Saved, TypeOK
    <3>2. \A q \in Processes : step'[q] \in {"idle", "locking"}
      BY <2>1, <2>3, OneDrafts, RestsType
    <3>3. \A q \in Processes : q \notin Drafting' /\ step'[q] \notin {"rotating", "releasing"} \union SaveSteps
      BY <3>2 DEF Drafting, SaveSteps
    <3>4. (~Broken \/ current[p] \in gone) /\ (Broken' <=> Broken)
      BY <2>1, <2>3 DEF Returns, Broken
    <3>5. ~Mending
      BY <2>3, OneDrafts DEF Mending, SaveSteps, TypeOK
    <3>6. Returns'
      BY <2>1, <3>1, <3>3, <3>4, <3>5 DEF Returns
    <3>7. Carried'
      <4> SUFFICES ASSUME ~alike'
                   PROVE  /\ ~Broken' => Saved' \subseteq disk'.has \union evicted' \union gone'
                          /\ \A q \in Drafting' \ guess' :
                                Saved' \subseteq draft'[q] \union evicted' \union gone'
                          /\ \A q \in Processes :
                                /\ step'[q] \in {"rotating"} \union SaveSteps => current'[q] \in draft'[q]
                                /\ step'[q] = "releasing" => current'[q] \in disk'.has \union gone'
        BY DEF Carried
      <4>1. ~Broken => Saved \subseteq disk.has \union evicted \union gone
        BY <2>1 DEF Carried
      <4>2. current[p] \in disk.has \union gone
        BY <2>1, <2>3 DEF Carried
      <4>3. ~Broken' => Saved' \subseteq disk'.has \union evicted' \union gone'
        BY <2>1, <3>1, <3>4, <4>1, <4>2
      <4>4. Drafting' = {}
        BY <3>3 DEF Drafting
      <4> QED BY <3>3, <4>3, <4>4
    <3> QED BY <3>6, <3>7
  <2> QED BY <2>1, <2>2, <2>3
<1>17. ASSUME NEW p \in Processes, Crash(p) PROVE Returns' /\ Carried'
  <2>1. UNCHANGED <<disk, torn, evicted, alike>> /\ Rests(p) /\ GivesUp(p)
        /\ holder' = IF holder = p THEN None ELSE holder
    BY <1>17 DEF Crash
  <2>2. Saved' \subseteq Saved
    BY <1>17 DEF Crash, Saved, TypeOK
  <2>3. \A q \in Processes \ {p} : holder' = q <=> holder = q
    BY <2>1, StoreAssumption
  <2>4. gone \subseteq gone' /\ (step[p] \notin SaveSteps \/ ~Broken \/ Saved \subseteq gone')
    BY <2>1 DEF GivesUp, Broken
  <2> QED BY <2>1, <2>2, <2>3, <2>4, GoesKeeps, RestsType
<1> QED
  BY <1>1, <1>2, <1>3, <1>4, <1>5, <1>6, <1>7, <1>8, <1>9, <1>10, <1>11, <1>12, <1>13, <1>14,
     <1>15, <1>16, <1>17 DEF Next, Drains

(* A change that was reported as saved stays in the store until pruning or *)
(* the cap removes it, and is in the save that replaces a store rotated    *)
(* away or cut short (saveSessionStoreUnlocked, ENOENT included), unless   *)
(* an mtime was met twice, or the change is one of the lost: a save could  *)
(* not read the store before, or failed between the loss of the old store  *)
(* and the new one, or the directory was deleted under a save.             *)
THEOREM Kept == Spec => []SavedStays
<1> DEFINE Inv == TypeOK /\ StoreInv
<1>1. Init => Inv
  BY TypeInit, StoreInit
<1>2. Inv /\ [Next]_vars => Inv'
  <2> SUFFICES ASSUME TypeOK, StoreInv, [Next]_vars PROVE TypeOK' /\ StoreInv'
    OBVIOUS
  <2>1. TypeOK'
    BY TypeNext
  <2>2. FilesAgree' /\ Stamped'
    BY AgreeNext, StampedNext DEF StoreInv
  <2>3. Returns' /\ Carried'
    BY <2>1, SavesNext DEF StoreInv
  <2> QED BY <2>1, <2>2, <2>3 DEF StoreInv
<1>3. Inv => SavedStays
  <2> SUFFICES ASSUME TypeOK, Returns, Carried, NEW t \in Saved \ (evicted \union gone)
               PROVE  IF disk = NoStore \/ torn
                      THEN \E p \in Processes : /\ holder = p /\ step[p] \in SaveSteps
                                               /\ (alike \/ p \in guess \/ t \in draft[p])
                      ELSE alike \/ t \in disk.has
    BY DEF SavedStays, StoreInv
  <2>1. CASE Broken
    <3>1. PICK p \in Processes : holder = p /\ step[p] \in SaveSteps
      BY <2>1 DEF Returns, Mending
    <3>2. p \in Drafting
      BY <3>1 DEF Drafting
    <3>3. alike \/ p \in guess \/ t \in draft[p]
      BY <3>2 DEF Carried
    <3> QED BY <2>1, <3>1, <3>3 DEF Broken
  <2>2. CASE ~Broken
    BY <2>2 DEF Broken, Carried
  <2> QED BY <2>1, <2>2
<1> HIDE DEF Inv
<1> QED BY <1>1, <1>2, <1>3, PTL DEF Spec
=============================================================================
