----------------------- MODULE SessionWriteLockProofs -----------------------
(***************************************************************************)
(* Proofs about SessionWriteLock for any processes and callers: the types, *)
(* that the file of a lease is on disk while anyone works under it, and    *)
(* that the lock excludes, as long as no live caller's file was taken for  *)
(* stale.                                                                  *)
(***************************************************************************)
EXTENDS SessionWriteLock, FiniteSetTheorems, TLAPS

(* The types without what TypeOK says of HELD_LOCKS.                       *)
Plain ==
    /\ alive \subseteq Processes /\ pc \in [Callers -> Steps]
    /\ lease \in [Callers -> Callers \union {Nobody}]
    /\ file \in Callers \union {Nobody} /\ owner \in BOOLEAN /\ old \in BOOLEAN
    /\ held \in [Processes -> Callers \union {Nobody}] /\ count \in [Callers -> Nat]
    /\ dropping \in [Processes -> SUBSET Callers] /\ sweep \in [Processes -> Sweeps]
    /\ stolen \in BOOLEAN /\ lapsed \subseteq Callers

Users(h) == {c \in Working : lease[c] = h}

Counted == \A p \in Processes : held[p] # Nobody => count[held[p]] = Cardinality(Users(held[p]))

(* A HeldLock is made by a caller that has got the lock, and is known to   *)
(* its process only, which holds it or drops it.                           *)
Made(h) == pc[h] \in {"working", "done"}

Known ==
    /\ \A c \in Working : lease[c] \in Callers /\ Home[lease[c]] = Home[c] /\ Made(lease[c])
    /\ \A p \in Processes : held[p] # Nobody =>
          p \in alive /\ held[p] \notin dropping[p] /\ Home[held[p]] = p /\ Made(held[p])
    /\ \A p \in Processes : \A h \in dropping[p] : p \in alive /\ Home[h] = p /\ Made(h)
    /\ file = Nobody => ~owner /\ ~old

(* The types, split into those of the variables and the counts of callers. *)
LEMMA TypeParts == TypeOK /\ Known <=> Plain /\ Counted /\ Known
BY DEF TypeOK, Plain, Counted, Known, Users

(* Initially the variables have their types.                               *)
LEMMA PlainInit == Init => Plain
<1> SUFFICES ASSUME Init PROVE Plain
  OBVIOUS
<1>1. pc \in [Callers -> Steps] /\ sweep \in [Processes -> Sweeps]
  BY DEF Init, Steps, Sweeps
<1>2. /\ lease \in [Callers -> Callers \union {Nobody}]
      /\ held \in [Processes -> Callers \union {Nobody}]
      /\ count \in [Callers -> Nat] /\ dropping \in [Processes -> SUBSET Callers]
  BY DEF Init
<1> QED BY <1>1, <1>2 DEF Init, Plain

(* Initially no lock is held, so that no caller is counted.                *)
LEMMA CountedInit == Init => Counted /\ Known
BY LockAssumption DEF Init, Counted, Known, Working

-----------------------------------------------------------------------------
(* Every step keeps the plain types.                                       *)
LEMMA PlainNext == Plain /\ Counted /\ Known /\ [Next]_vars => Plain'
<1> SUFFICES ASSUME Plain, Counted, Known, [Next]_vars PROVE Plain'
  OBVIOUS
<1> USE DEF Plain, fileVars, heldVars
<1>1. ASSUME NEW c \in Callers, Enter(c) PROVE Plain'
  BY <1>1, LockAssumption DEF Enter, Goes, Steps, Waiting
<1>2. ASSUME NEW c \in Callers, Open(c) PROVE Plain'
  BY <1>2 DEF Open, Goes, Steps, Waiting
<1>3. ASSUME NEW c \in Callers, Write(c) PROVE Plain'
  BY <1>3, LockAssumption DEF Write, Goes, Steps, Waiting
<1>4. ASSUME NEW c \in Callers, WriteFails(c) \/ GiveUp(c) PROVE Plain'
  BY <1>4 DEF WriteFails, GiveUp, Goes, Steps, Waiting
<1>5. ASSUME NEW c \in Callers, Read(c) PROVE Plain'
  BY <1>5 DEF Read, Goes, Steps, Waiting
<1>6. ASSUME NEW c \in Callers, Remove(c) PROVE Plain'
  BY <1>6 DEF Remove, Unlinked, Live, Goes, Steps, Waiting
<1>7. ASSUME NEW c \in Callers, Release(c) PROVE Plain'
  <2>1. Home[c] \in Processes /\ c \in Working
    BY <1>7, LockAssumption DEF Release, Runs, Working
  <2>2. pc' \in [Callers -> Steps] /\ UNCHANGED <<alive, lease, fileVars, sweep, stolen, lapsed>>
    BY <1>7 DEF Release, Goes, Steps, Waiting
  <2>3. CASE held[Home[c]] # lease[c]
    BY <1>7, <2>2, <2>3 DEF Release
  <2>4. CASE held[Home[c]] = lease[c]
    <3>1. lease[c] \in Callers /\ lease[c] # Nobody
      BY <2>1, LockAssumption DEF Known
    <3>2. count[lease[c]] = Cardinality(Users(lease[c])) /\ c \in Users(lease[c])
      BY <2>1, <2>4, <3>1 DEF Counted, Users
    <3>3. IsFiniteSet(Users(lease[c]))
      BY LockAssumption, FS_Subset DEF Users, Working
    <3>4. count[lease[c]] \in Nat \ {0}
      BY <3>1, <3>2, <3>3, FS_EmptySet
    <3>5. count' \in [Callers -> Nat]
      <4>1. count' = [count EXCEPT ![lease[c]] = count[lease[c]] - 1]
        BY <1>7, <2>4 DEF Release
      <4>2. count[lease[c]] - 1 \in Nat
        BY <3>4
      <4> QED BY <4>1, <4>2
    <3>6. held' \in [Processes -> Callers \union {Nobody}]
            /\ dropping' \in [Processes -> SUBSET Callers]
      BY <1>7, <2>1, <2>4, <3>1 DEF Release, Forget
    <3> QED BY <2>2, <3>5, <3>6
  <2> QED BY <2>3, <2>4
<1>8. ASSUME NEW p \in Processes, Watchdog(p) PROVE Plain'
  <2>1. held[p] \in Callers
    BY <1>8 DEF Watchdog
  <2> QED BY <1>8, <2>1 DEF Watchdog, Forget
<1>9. ASSUME NEW p \in Processes, Signal(p) PROVE Plain'
  BY <1>9 DEF Signal, Unlinked
<1>10. ASSUME NEW p \in Processes, Crash(p) PROVE Plain'
  BY <1>10 DEF Crash
<1>11. ASSUME NEW p \in Processes, SweepList(p) \/ SweepRead(p) PROVE Plain'
  BY <1>11 DEF SweepList, SweepRead, Sweeps
<1>12. ASSUME NEW p \in Processes, SweepRemove(p) PROVE Plain'
  BY <1>12 DEF SweepRemove, Unlinked, Live, Sweeps
<1>13. ASSUME NEW p \in Processes, NEW h \in Callers, Drop(p, h) PROVE Plain'
  BY <1>13 DEF Drop, Unlinked
<1>14. CASE Age
  BY <1>14 DEF Age
<1>15. CASE UNCHANGED vars
  BY <1>15 DEF vars
<1> QED
  BY <1>1, <1>2, <1>3, <1>4, <1>5, <1>6, <1>7, <1>8, <1>9, <1>10, <1>11, <1>12,
     <1>13, <1>14, <1>15 DEF Next, CallerStep
-----------------------------------------------------------------------------
(* Every step keeps what is known of HeldLocks.                            *)
LEMMA KnownNext == Plain /\ Known /\ [Next]_vars => Known'
<1> SUFFICES ASSUME Plain, Known, [Next]_vars PROVE Known'
  OBVIOUS
<1> USE LockAssumption DEF Plain, Known, Working, Made, fileVars, heldVars
<1>1. ASSUME NEW c \in Callers, Enter(c) PROVE Known'
  BY <1>1 DEF Enter, Runs, Goes
<1>2. ASSUME NEW c \in Callers, Open(c) PROVE Known'
  BY <1>2 DEF Open, Runs, Goes
<1>3. ASSUME NEW c \in Callers, Write(c) PROVE Known'
  BY <1>3 DEF Write, Runs, Goes
<1>4. ASSUME NEW c \in Callers, WriteFails(c) \/ GiveUp(c) PROVE Known'
  BY <1>4 DEF WriteFails, GiveUp, Runs, Goes
<1>5. ASSUME NEW c \in Callers, Read(c) PROVE Known'
  BY <1>5 DEF Read, Runs, Goes
<1>6. ASSUME NEW c \in Callers, Remove(c) PROVE Known'
  BY <1>6 DEF Remove, Unlinked, Runs, Goes
<1>7. ASSUME NEW c \in Callers, Release(c) PROVE Known'
  BY <1>7 DEF Release, Forget, Runs, Goes
<1>8. ASSUME NEW p \in Processes, Watchdog(p) PROVE Known'
  BY <1>8 DEF Watchdog, Forget
<1>9. ASSUME NEW p \in Processes, Signal(p) PROVE Known'
  BY <1>9 DEF Signal, Unlinked
<1>10. ASSUME NEW p \in Processes, Crash(p) PROVE Known'
  BY <1>10 DEF Crash
<1>11. ASSUME NEW p \in Processes, SweepList(p) \/ SweepRead(p) PROVE Known'
  BY <1>11 DEF SweepList, SweepRead
<1>12. ASSUME NEW p \in Processes, SweepRemove(p) PROVE Known'
  BY <1>12 DEF SweepRemove, Unlinked
<1>13. ASSUME NEW p \in Processes, NEW h \in Callers, Drop(p, h) PROVE Known'
  BY <1>13 DEF Drop, Unlinked
<1>14. CASE Age
  BY <1>14 DEF Age
<1>15. CASE UNCHANGED vars
  BY <1>15 DEF vars
<1> QED
  BY <1>1, <1>2, <1>3, <1>4, <1>5, <1>6, <1>7, <1>8, <1>9, <1>10, <1>11, <1>12,
     <1>13, <1>14, <1>15 DEF Next, CallerStep

-----------------------------------------------------------------------------
(* A step that leaves HELD_LOCKS, the counts and the users of p's lock as  *)
(* they are keeps its count right.                                         *)
LEMMA UsersFinite == ASSUME NEW h PROVE IsFiniteSet(Users(h))
BY LockAssumption, FS_Subset DEF Users, Working

(* A step that changes neither lock nor callers keeps the counts.          *)
LEMMA CountKept ==
    ASSUME Plain, Counted, NEW p \in Processes,
           held'[p] = held[p], held[p] # Nobody => count'[held[p]] = count[held[p]],
           held[p] # Nobody => \A c \in Callers :
               (c \in Working /\ lease[c] = held[p]) <=> (c \in Working' /\ lease'[c] = held[p])
    PROVE  (held[p] # Nobody => count[held[p]] = Cardinality(Users(held[p])))'
<1>1. CASE held[p] # Nobody
  <2>1. Users(held[p])' = Users(held[p])
    BY <1>1 DEF Users, Working
  <2> QED BY <1>1, <2>1 DEF Counted
<1>2. CASE held[p] = Nobody
  BY <1>2
<1> QED BY <1>1, <1>2

(* Every step keeps the counts.                                            *)
LEMMA CountedNext == Plain /\ Counted /\ Known /\ [Next]_vars => Counted'
<1> SUFFICES ASSUME Plain, Counted, Known, [Next]_vars, NEW p \in Processes
             PROVE  (held[p] # Nobody => count[held[p]] = Cardinality(Users(held[p])))'
  BY DEF Counted
<1>1. ASSUME NEW c \in Callers, Enter(c)
      PROVE  (held[p] # Nobody => count[held[p]] = Cardinality(Users(held[p])))'
  <2>1. c \notin Working /\ alive' = alive /\ held' = held
    BY <1>1 DEF Enter, Runs, Working
  <2>2. CASE held[p] # Nobody /\ c \in Reentrant /\ Home[c] = p
    <3>1. Working' = Working \union {c} /\ lease' = [lease EXCEPT ![c] = held[p]]
      BY <1>1, <2>2 DEF Enter, Runs, Goes, Working, Plain
    <3>2. Users(held[p])' = Users(held[p]) \union {c} /\ c \notin Users(held[p])
      BY <2>1, <3>1 DEF Users, Plain, Working
    <3>3. Cardinality(Users(held[p])') = Cardinality(Users(held[p])) + 1
      BY <3>2, UsersFinite, FS_AddElement
    <3>4. held[p] \in Callers /\ count'[held[p]] = count[held[p]] + 1
      BY <1>1, <2>2 DEF Enter, Plain
    <3> QED BY <2>1, <2>2, <3>3, <3>4 DEF Counted
  <2>3. CASE ~(held[p] # Nobody /\ c \in Reentrant /\ Home[c] = p)
    <3>1. held[p] # Nobody => count'[held[p]] = count[held[p]]
      BY <1>1, <2>3, LockAssumption DEF Enter, Known, Plain
    <3>2. ASSUME held[p] # Nobody, NEW d \in Callers,
                 (d \in Working /\ lease[d] = held[p]) \/ (d \in Working' /\ lease'[d] = held[p])
          PROVE  d \in Working /\ d \in Working' /\ lease'[d] = lease[d] /\ lease[d] = held[p]
      BY <1>1, <2>1, <2>3, <3>2, LockAssumption DEF Enter, Goes, Runs, Working, Known, Plain
    <3> QED BY <2>1, <3>1, <3>2, CountKept
  <2> QED BY <2>2, <2>3
<1>2. ASSUME NEW c \in Callers,
             Open(c) \/ WriteFails(c) \/ GiveUp(c) \/ Read(c) \/ Remove(c)
      PROVE  (held[p] # Nobody => count[held[p]] = Cardinality(Users(held[p])))'
  <2>1. UNCHANGED <<alive, lease, held, count>>
    BY <1>2 DEF Open, WriteFails, GiveUp, Read, Remove, heldVars
  <2>2. \A d \in Callers : pc'[d] = "working" <=> pc[d] = "working"
    BY <1>2 DEF Open, WriteFails, GiveUp, Read, Remove, Runs, Goes, Plain
  <2> QED BY <2>1, <2>2, CountKept DEF Working
<1>3. ASSUME NEW c \in Callers, Write(c)
      PROVE  (held[p] # Nobody => count[held[p]] = Cardinality(Users(held[p])))'
  <2>1. c \notin Working /\ c \in Working' /\ lease'[c] = c /\ count'[c] = 1
    BY <1>3 DEF Write, Runs, Goes, Working, Plain
  <2>2. \A d \in Callers \ {c} : lease'[d] = lease[d] /\ count'[d] = count[d]
                               /\ (d \in Working' <=> d \in Working)
    BY <1>3 DEF Write, Runs, Goes, Working, Plain
  <2>3. CASE p = Home[c]
    <3>1. held'[p] = c /\ \A d \in Working : lease[d] # c
      BY <1>3, <2>3 DEF Write, Runs, Known, Made, Plain
    <3>2. Users(held[p])' = {c}
      BY <2>1, <2>2, <3>1 DEF Users, Working
    <3> QED BY <2>1, <3>1, <3>2, FS_Singleton
  <2>4. CASE p # Home[c]
    <3>1. held'[p] = held[p] /\ held[p] # c
      BY <1>3, <2>4, LockAssumption DEF Write, Known, Plain
    <3>2. held[p] # Nobody => count'[held[p]] = count[held[p]]
      BY <2>2, <3>1 DEF Plain
    <3> QED BY <2>1, <2>2, <3>1, <3>2, CountKept
  <2> QED BY <2>3, <2>4
<1>4. ASSUME NEW c \in Callers, Release(c)
      PROVE  (held[p] # Nobody => count[held[p]] = Cardinality(Users(held[p])))'
  <2>1. c \in Working /\ c \notin Working' /\ lease' = lease /\ alive' = alive
    BY <1>4 DEF Release, Runs, Goes, Working, Plain
  <2>2. \A d \in Callers \ {c} : d \in Working' <=> d \in Working
    BY <1>4, <2>1 DEF Release, Runs, Goes, Working, Plain
  <2>3. lease[c] \in Callers /\ Home[lease[c]] = Home[c] /\ Home[c] \in Processes
    BY <2>1, LockAssumption DEF Known, Working
  <2>4. CASE held[p] # lease[c]
    <3>1. ASSUME held[Home[c]] = lease[c]
          PROVE  held'[p] = held[p] /\ (held[p] # Nobody => count'[held[p]] = count[held[p]])
      <4>1. p # Home[c]
        BY <2>4, <3>1
      <4>2. /\ held' = held \/ held' = [held EXCEPT ![Home[c]] = Nobody]
            /\ count' = [count EXCEPT ![lease[c]] = @ - 1]
        BY <1>4, <3>1 DEF Release, Forget
      <4> QED BY <2>4, <4>1, <4>2 DEF Plain
    <3>2. ASSUME held[Home[c]] # lease[c]
          PROVE  held'[p] = held[p] /\ (held[p] # Nobody => count'[held[p]] = count[held[p]])
      BY <1>4, <3>2 DEF Release, heldVars
    <3>3. held'[p] = held[p] /\ (held[p] # Nobody => count'[held[p]] = count[held[p]])
      BY <3>1, <3>2
    <3> QED BY <2>1, <2>2, <2>4, <3>3, CountKept
  <2>5. CASE held[p] = lease[c]
    <3>1. p = Home[c]
      BY <2>3, <2>5, LockAssumption DEF Known
    <3>2. CASE count[lease[c]] > 1
      <4>1. held'[p] = held[p] /\ count'[held[p]] = count[held[p]] - 1
        BY <1>4, <2>3, <2>5, <3>1, <3>2 DEF Release, Plain
      <4>2. Users(held[p])' = Users(held[p]) \ {c} /\ c \in Users(held[p])
        BY <2>1, <2>2, <2>5, <4>1 DEF Users, Working
      <4>3. Cardinality(Users(held[p])') = Cardinality(Users(held[p])) - 1
        BY <4>2, UsersFinite, FS_RemoveElement
      <4> QED BY <2>3, <2>5, <4>1, <4>3, LockAssumption DEF Counted
    <3>3. CASE ~(count[lease[c]] > 1)
      BY <1>4, <2>5, <3>1, <3>3 DEF Release, Forget, Plain
    <3> QED BY <3>2, <3>3
  <2> QED BY <2>4, <2>5
<1>5. ASSUME NEW q \in Processes, Watchdog(q)
      PROVE  (held[p] # Nobody => count[held[p]] = Cardinality(Users(held[p])))'
  <2>1. UNCHANGED <<alive, pc, lease>> /\ Working' = Working
    BY <1>5 DEF Watchdog, Working
  <2>2. CASE p = q
    BY <1>5, <2>2 DEF Watchdog, Forget, Plain
  <2>3. CASE p # q
    <3>1. held'[p] = held[p] /\ (held[p] # Nobody => count'[held[p]] = count[held[p]])
      BY <1>5, <2>3 DEF Watchdog, Forget, Known, Plain
    <3> QED BY <2>1, <3>1, CountKept
  <2> QED BY <2>2, <2>3
<1>6. ASSUME NEW q \in Processes, Signal(q) \/ Crash(q)
      PROVE  (held[p] # Nobody => count[held[p]] = Cardinality(Users(held[p])))'
  <2>1. UNCHANGED <<pc, lease, count>> /\ (alive' = alive \/ alive' = alive \ {q})
    BY <1>6 DEF Signal, Crash
  <2>2. CASE p = q
    BY <1>6, <2>2 DEF Signal, Crash, Plain
  <2>3. CASE p # q
    <3>1. held'[p] = held[p]
      BY <1>6, <2>3 DEF Signal, Crash, Plain
    <3>2. held[p] # Nobody => \A d \in Working : lease[d] = held[p] => Home[d] # q
      BY <2>3 DEF Known
    <3>3. held[p] # Nobody => \A d \in Callers :
            (d \in Working /\ lease[d] = held[p]) <=> (d \in Working' /\ lease'[d] = held[p])
      BY <2>1, <3>2 DEF Working
    <3> QED BY <2>1, <3>1, <3>3, CountKept
  <2> QED BY <2>2, <2>3
<1>7. ASSUME UNCHANGED <<alive, pc, lease, held, count>>
      PROVE  (held[p] # Nobody => count[held[p]] = Cardinality(Users(held[p])))'
  BY <1>7, CountKept DEF Working
<1>8. ASSUME NEW q \in Processes, SweepList(q) \/ SweepRead(q) \/ SweepRemove(q)
      PROVE  UNCHANGED <<alive, pc, lease, held, count>>
  BY <1>8 DEF SweepList, SweepRead, SweepRemove, heldVars
<1>9. ASSUME NEW q \in Processes, NEW h \in Callers, Drop(q, h)
      PROVE  UNCHANGED <<alive, pc, lease, held, count>>
  BY <1>9 DEF Drop
<1>10. Age \/ UNCHANGED vars => UNCHANGED <<alive, pc, lease, held, count>>
  BY DEF Age, vars, heldVars
<1> QED
  BY <1>1, <1>2, <1>3, <1>4, <1>5, <1>6, <1>7, <1>8, <1>9, <1>10 DEF Next, CallerStep

-----------------------------------------------------------------------------
(* Unless a live caller's file was taken for stale, the lock file belongs  *)
(* to whoever needs it: the caller that is creating it, the process that   *)
(* holds the lock, or the one that is removing it.                         *)
Creators == \A c \in Callers : Runs(c, "creating") => file = c /\ ~owner
Holders == \A p \in Processes : held[p] # Nobody => file = held[p] /\ owner
Removers == \A p \in Processes : \A h \in dropping[p] : file = h
Leases == \A c \in Entitled : held[Home[c]] = lease[c]

OnDisk == Creators /\ Holders /\ Removers /\ Leases

(* A file that someone needs is not removed as a stale one.                *)
LEMMA RemovalIsTheft ==
    ASSUME Plain, Known, OnDisk, ~Live
    PROVE  /\ \A c \in Callers : ~Runs(c, "creating")
           /\ \A p \in Processes : held[p] = Nobody /\ dropping[p] = {}
           /\ Entitled = {}
<1>1. \A c \in Callers : ~Runs(c, "creating")
  BY LockAssumption DEF OnDisk, Creators, Live, Runs, Plain
<1>2. \A p \in Processes : held[p] = Nobody
  BY LockAssumption DEF OnDisk, Holders, Live, Known, Made, Plain
<1>3. \A p \in Processes : dropping[p] = {}
  <2> SUFFICES ASSUME NEW p \in Processes, NEW h \in dropping[p] PROVE FALSE
    OBVIOUS
  <2>1. file = h /\ h \in Callers /\ p \in alive /\ Home[h] = p /\ Made(h)
    BY DEF OnDisk, Removers, Known, Plain
  <2> QED BY <2>1, LockAssumption DEF Live, Made
<1>4. Entitled = {}
  <2> SUFFICES ASSUME NEW c \in Entitled PROVE FALSE
    OBVIOUS
  <2>1. c \in Callers /\ lease[c] \in Callers /\ held[Home[c]] = lease[c]
    BY DEF OnDisk, Leases, Entitled, Working, Known
  <2> QED BY <2>1, <1>2, LockAssumption
<1> QED BY <1>1, <1>2, <1>3, <1>4

(* The step by which the caller c gets the lock.                           *)
LEMMA WriteOnDisk ==
    ASSUME Plain, Known, OnDisk, NEW c \in Callers, Write(c) PROVE OnDisk'
<1>1. Runs(c, "creating") /\ file = c /\ file' = c /\ owner' /\ ~owner /\ Home[c] \in Processes
  BY LockAssumption DEF Write, OnDisk, Creators, Runs
<1>2. \A p \in Processes : held[p] = Nobody
  BY <1>1 DEF OnDisk, Holders
<1>3. \A p \in Processes : dropping[p] = {}
  <2> SUFFICES ASSUME NEW p \in Processes, NEW h \in dropping[p] PROVE FALSE
    OBVIOUS
  <2> QED BY <1>1 DEF OnDisk, Removers, Known, Made, Runs
<1>4. Entitled = {}
  <2> SUFFICES ASSUME NEW d \in Entitled PROVE FALSE
    OBVIOUS
  <2>1. d \in Callers /\ lease[d] \in Callers /\ held[Home[d]] = lease[d]
    BY DEF OnDisk, Leases, Entitled, Working, Known
  <2> QED BY <2>1, <1>2, LockAssumption
<1>5. Creators'
  BY <1>1 DEF Write, Goes, Runs, OnDisk, Creators, Plain
<1>6. Holders'
  BY <1>1, <1>2 DEF Write, Holders, Plain
<1>7. Removers'
  BY <1>3 DEF Write, Removers
<1>8. Leases'
  BY <1>1, <1>4 DEF Write, Goes, Leases, Entitled, Working, Plain
<1> QED BY <1>5, <1>6, <1>7, <1>8 DEF OnDisk

(* The last step of a release: the file that is removed is its own.        *)
LEMMA DropOnDisk ==
    ASSUME Plain, Known, OnDisk, NEW p \in Processes, NEW h \in Callers, Drop(p, h)
    PROVE  OnDisk'
<1>1. file = h /\ Home[h] = p /\ Made(h) /\ held[p] # h
  BY LockAssumption DEF Drop, OnDisk, Removers, Known
<1>2. \A c \in Callers : ~Runs(c, "creating")
  BY <1>1 DEF OnDisk, Creators, Made, Runs
<1>3. \A q \in Processes : held[q] = Nobody
  BY <1>1 DEF OnDisk, Holders, Known
<1>4. \A q \in Processes : \A k \in dropping[q] : k = h /\ q = p
  BY <1>1 DEF OnDisk, Removers, Known
<1>5. Creators'
  BY <1>2 DEF Drop, Creators, Runs
<1>6. Holders'
  BY <1>3 DEF Drop, Holders
<1>7. Removers'
  BY <1>4 DEF Drop, Removers, Plain
<1>8. Leases'
  BY DEF Drop, OnDisk, Leases, Entitled, Working
<1> QED BY <1>5, <1>6, <1>7, <1>8 DEF OnDisk

(* A release ends the lease only when nobody else works under it.          *)
LEMMA ReleaseOnDisk ==
    ASSUME Plain, Counted, Known, OnDisk, NEW c \in Callers, Release(c) PROVE OnDisk'
<1>1. c \in Working /\ c \notin Working' /\ lease[c] \in Callers
        /\ Home[lease[c]] = Home[c] /\ Home[c] \in Processes
  BY LockAssumption DEF Release, Runs, Goes, Working, Known, Plain
<1>2. Creators'
  BY <1>1 DEF Release, Goes, Runs, OnDisk, Creators, Plain, fileVars
<1>3. CASE held[Home[c]] = lease[c] /\ ~(count[lease[c]] > 1)
  <2>1. held' = [held EXCEPT ![Home[c]] = Nobody]
          /\ dropping' = [dropping EXCEPT ![Home[c]] = @ \union {lease[c]}]
          /\ UNCHANGED <<alive, lease, fileVars, lapsed>>
    BY <1>3 DEF Release, Forget
  <2>2. Users(lease[c]) = {c}
    <3>1. IsFiniteSet(Users(lease[c])) /\ c \in Users(lease[c])
      BY <1>1, UsersFinite DEF Users
    <3>2. Cardinality(Users(lease[c])) = count[lease[c]] /\ count[lease[c]] \in Nat
      BY <1>1, <1>3, LockAssumption DEF Counted, Plain
    <3>3. Cardinality(Users(lease[c])) = 1
      BY <1>3, <3>1, <3>2, FS_EmptySet
    <3> QED BY <3>1, <3>3, FS_Singleton
  <2>3. Holders'
    BY <2>1 DEF OnDisk, Holders, Plain, fileVars
  <2>4. Removers'
    BY <1>1, <1>3, <2>1, LockAssumption DEF OnDisk, Holders, Removers, Plain, fileVars
  <2>5. Leases'
    <3> SUFFICES ASSUME NEW d \in Entitled' PROVE (held[Home[d]] = lease[d])'
      BY DEF Leases
    <3>1. d \in Entitled /\ d # c
      BY <1>1, <2>1 DEF Release, Goes, Entitled, Working, Plain
    <3>2. held[Home[d]] = lease[d] /\ Home[d] \in Processes
      BY <3>1, LockAssumption DEF OnDisk, Leases, Entitled, Working
    <3>3. Home[d] # Home[c]
      BY <1>3, <2>2, <3>1, <3>2 DEF Users, Entitled
    <3> QED BY <2>1, <3>2, <3>3 DEF Plain
  <2> QED BY <1>2, <2>3, <2>4, <2>5 DEF OnDisk
<1>4. CASE ~(held[Home[c]] = lease[c] /\ ~(count[lease[c]] > 1))
  <2>1. UNCHANGED <<alive, lease, fileVars, held, dropping, lapsed>>
    BY <1>4 DEF Release, heldVars
  <2>2. Entitled' \subseteq Entitled
    BY <2>1 DEF Release, Goes, Entitled, Working, Plain
  <2> QED BY <1>2, <2>1, <2>2 DEF OnDisk, Holders, Removers, Leases, fileVars
<1> QED BY <1>3, <1>4

(* A step that removes the lock file as a stale one.                       *)
LEMMA TheftOnDisk ==
    ASSUME Plain, Known, OnDisk, Unlinked, stolen' = (stolen \/ Live),
           UNCHANGED <<alive, lease, held, dropping, lapsed>>,
           \A c \in Callers : pc'[c] # pc[c] => pc'[c] = "trying"
    PROVE  (stolen \/ OnDisk)'
<1>1. CASE Live
  BY <1>1
<1>2. CASE ~Live
  <2>1. /\ \A c \in Callers : ~Runs(c, "creating")
        /\ \A p \in Processes : held[p] = Nobody /\ dropping[p] = {}
        /\ Entitled = {}
    BY <1>2, RemovalIsTheft
  <2>2. Creators'
    BY <2>1 DEF Creators, Runs
  <2>3. Holders' /\ Removers'
    BY <2>1 DEF Holders, Removers
  <2>4. Leases'
    BY <2>1 DEF Leases, Entitled, Working
  <2> QED BY <2>2, <2>3, <2>4 DEF OnDisk
<1> QED BY <1>1, <1>2

(* A step that leaves the lock file and HELD_LOCKS alone, and neither      *)
(* starts a creation nor a lease.                                          *)
LEMMA AsideOnDisk ==
    ASSUME OnDisk, UNCHANGED <<alive, lease, file, owner, held, dropping, lapsed>>,
           \A c \in Callers : pc'[c] # pc[c] => pc'[c] \notin {"creating", "working"}
    PROVE  OnDisk'
BY DEF OnDisk, Creators, Holders, Removers, Leases, Entitled, Working, Runs

(* Entering again adds a caller to the lease that the process holds.       *)
LEMMA EnterOnDisk ==
    ASSUME Plain, Known, OnDisk, NEW c \in Callers, Enter(c) PROVE OnDisk'
<1>1. UNCHANGED <<alive, file, owner, held, dropping, lapsed>>
  BY DEF Enter, fileVars
<1>2. \A d \in Callers \ {c} : pc'[d] = pc[d] /\ lease'[d] = lease[d]
  BY DEF Enter, Goes, Plain
<1>3. pc'[c] = "trying" \/ (pc'[c] = "working" /\ lease'[c] = held[Home[c]])
  BY DEF Enter, Goes, Plain
<1>4. Creators'
  BY <1>1, <1>2, <1>3 DEF OnDisk, Creators, Runs
<1>5. Holders' /\ Removers'
  BY <1>1 DEF OnDisk, Holders, Removers
<1>6. Leases'
  BY <1>1, <1>2, <1>3 DEF OnDisk, Leases, Entitled, Working
<1> QED BY <1>4, <1>5, <1>6 DEF OnDisk

(* A file that does not exist is nobody's, and becomes that of its creator.*)
LEMMA OpenOnDisk ==
    ASSUME Plain, Known, OnDisk, NEW c \in Callers, Open(c) PROVE OnDisk'
<1>1. UNCHANGED <<alive, lease, owner, held, dropping, lapsed>>
  BY DEF Open, heldVars
<1>2. CASE file = Nobody
  <2>1. file' = c /\ pc' = [pc EXCEPT ![c] = "creating"] /\ ~owner
    BY <1>2 DEF Open, Goes, Known
  <2>2. Creators'
    BY <1>1, <1>2, <2>1, LockAssumption DEF OnDisk, Creators, Runs, Plain
  <2>3. Holders'
    BY <1>1, <2>1 DEF OnDisk, Holders
  <2>4. Removers'
    BY <1>1, <1>2, LockAssumption DEF OnDisk, Removers, Plain
  <2>5. Leases'
    BY <1>1, <2>1 DEF OnDisk, Leases, Entitled, Working, Plain
  <2> QED BY <2>2, <2>3, <2>4, <2>5 DEF OnDisk
<1>3. CASE file # Nobody
  BY <1>1, <1>3, AsideOnDisk DEF Open, Goes, Plain
<1> QED BY <1>2, <1>3

(* The end of a process ends what it holds; a signal that it outlives ends *)
(* its lease.                                                              *)
LEMMA EndOnDisk ==
    ASSUME Plain, Known, OnDisk, NEW p \in Processes, Signal(p) \/ Crash(p) PROVE OnDisk'
<1>1. UNCHANGED <<pc, lease>> /\ alive' \subseteq alive
        /\ held' = [held EXCEPT ![p] = Nobody]
        /\ \A q \in Processes : dropping'[q] \subseteq dropping[q]
        /\ lapsed \subseteq lapsed'
  BY DEF Signal, Crash, Plain
<1>2. Entitled' \subseteq {c \in Entitled : Home[c] \in alive'}
  BY <1>1 DEF Entitled, Working
<1>3. \A c \in Entitled' : Home[c] # p
  <2> SUFFICES ASSUME NEW c \in Entitled', Home[c] = p PROVE FALSE
    OBVIOUS
  <2>1. held[p] = lease[c] /\ lease[c] \in Callers
    BY <1>2 DEF OnDisk, Leases, Entitled, Working, Plain, Known
  <2>2. p \in alive'
    BY <1>2
  <2>3. lease[c] \in lapsed'
    BY <2>1, <2>2, LockAssumption DEF Signal, Crash
  <2> QED BY <1>1, <2>3 DEF Entitled
<1>4. Leases'
  BY <1>1, <1>2, <1>3, LockAssumption DEF OnDisk, Leases, Entitled, Working, Plain
<1>5. CASE UNCHANGED fileVars
  BY <1>1, <1>4, <1>5 DEF OnDisk, Creators, Holders, Removers, Runs, Plain, fileVars
<1>6. CASE held[p] # Nobody
  <2>1. file = held[p] /\ Home[file] = p /\ Made(file) /\ file \notin dropping[p]
    BY <1>6 DEF OnDisk, Holders, Known
  <2>2. \A c \in Callers : ~Runs(c, "creating")
    BY <2>1 DEF OnDisk, Creators, Made, Runs
  <2>3. \A q \in Processes \ {p} : held[q] = Nobody
    BY <2>1 DEF OnDisk, Holders, Known
  <2>4. \A q \in Processes : dropping[q] = {}
    BY <2>1 DEF OnDisk, Removers, Known, Plain
  <2>5. Creators' /\ Holders' /\ Removers'
    BY <1>1, <2>2, <2>3, <2>4 DEF Creators, Holders, Removers, Runs, Plain
  <2> QED BY <1>4, <2>5 DEF OnDisk
<1> QED BY <1>5, <1>6 DEF Signal, Crash

(* The watchdog ends the lease of everyone who works under it.             *)
LEMMA WatchdogOnDisk ==
    ASSUME Plain, Known, OnDisk, NEW p \in Processes, Watchdog(p) PROVE OnDisk'
<1>1. UNCHANGED <<alive, pc, lease, file, owner>> /\ held[p] # Nobody
        /\ held' = [held EXCEPT ![p] = Nobody]
        /\ dropping' = [dropping EXCEPT ![p] = @ \union {held[p]}]
        /\ lapsed' = lapsed \union {held[p]}
  BY DEF Watchdog, Forget, fileVars
<1>2. Creators' /\ Holders'
  BY <1>1 DEF OnDisk, Creators, Holders, Runs, Plain
<1>3. Removers'
  BY <1>1 DEF OnDisk, Holders, Removers, Plain
<1>4. Leases'
  BY <1>1, LockAssumption DEF OnDisk, Leases, Entitled, Working, Plain
<1> QED BY <1>2, <1>3, <1>4 DEF OnDisk

(* Every step keeps the file of a lease on disk.                           *)
LEMMA OnDiskNext ==
    Plain /\ Counted /\ Known /\ (stolen \/ OnDisk) /\ [Next]_vars => (stolen \/ OnDisk)'
<1> SUFFICES ASSUME Plain, Counted, Known, stolen \/ OnDisk, [Next]_vars
             PROVE  (stolen \/ OnDisk)'
  OBVIOUS
<1>1. CASE stolen
  BY <1>1 DEF Next, CallerStep, Enter, Open, Write, WriteFails, Read, Remove, GiveUp,
     Release, Drop, Watchdog, Signal, Crash, Age, SweepList, SweepRead, SweepRemove, vars
<1>2. CASE OnDisk
  <2> USE <1>2
  <2>1. ASSUME NEW c \in Callers, Enter(c) PROVE OnDisk'
    BY <2>1, EnterOnDisk
  <2>2. ASSUME NEW c \in Callers, Open(c) PROVE OnDisk'
    BY <2>2, OpenOnDisk
  <2>3. ASSUME NEW c \in Callers, Write(c) PROVE OnDisk'
    BY <2>3, WriteOnDisk
  <2>4. ASSUME NEW c \in Callers, WriteFails(c) \/ GiveUp(c) \/ Read(c) PROVE OnDisk'
    BY <2>4, AsideOnDisk DEF WriteFails, GiveUp, Read, Goes, Plain, fileVars, heldVars
  <2>5. ASSUME NEW c \in Callers, Remove(c) PROVE (stolen \/ OnDisk)'
    BY <2>5, TheftOnDisk DEF Remove, Goes, Plain, heldVars
  <2>6. ASSUME NEW c \in Callers, Release(c) PROVE OnDisk'
    BY <2>6, ReleaseOnDisk
  <2>7. ASSUME NEW p \in Processes, Watchdog(p) PROVE OnDisk'
    BY <2>7, WatchdogOnDisk
  <2>8. ASSUME NEW p \in Processes, Signal(p) \/ Crash(p) PROVE OnDisk'
    BY <2>8, EndOnDisk
  <2>9. ASSUME NEW p \in Processes, SweepList(p) \/ SweepRead(p) PROVE OnDisk'
    BY <2>9, AsideOnDisk DEF SweepList, SweepRead, fileVars, heldVars
  <2>10. ASSUME NEW p \in Processes, SweepRemove(p) PROVE (stolen \/ OnDisk)'
    BY <2>10, TheftOnDisk DEF SweepRemove, heldVars
  <2>11. ASSUME NEW p \in Processes, NEW h \in Callers, Drop(p, h) PROVE OnDisk'
    BY <2>11, DropOnDisk
  <2>12. CASE Age
    BY <2>12, AsideOnDisk DEF Age, heldVars
  <2>13. CASE UNCHANGED vars
    BY <2>13, AsideOnDisk DEF vars, fileVars, heldVars
  <2> QED
    BY <2>1, <2>2, <2>3, <2>4, <2>5, <2>6, <2>7, <2>8, <2>9, <2>10, <2>11, <2>12,
       <2>13 DEF Next, CallerStep
<1> QED BY <1>1, <1>2
-----------------------------------------------------------------------------
(* The inductive invariant.                                                *)
LockInv == Plain /\ Counted /\ Known /\ (stolen \/ OnDisk)

(* The initial state satisfies the whole invariant.                        *)
LEMMA LockInvInit == Init => LockInv
<1> SUFFICES ASSUME Init PROVE LockInv
  OBVIOUS
<1>1. OnDisk
  BY DEF Init, OnDisk, Creators, Holders, Removers, Leases, Entitled, Working, Runs
<1> QED BY <1>1, PlainInit, CountedInit DEF LockInv

(* Every step keeps the whole invariant.                                   *)
LEMMA LockInvNext == LockInv /\ [Next]_vars => LockInv'
BY PlainNext, CountedNext, KnownNext, OnDiskNext DEF LockInv

(* The invariant holds in every reachable state.                           *)
LEMMA LockInvHolds == Spec => []LockInv
<1>1. Init => LockInv
  BY LockInvInit
<1>2. LockInv /\ [Next]_vars => LockInv'
  BY LockInvNext
<1> QED BY <1>1, <1>2, PTL DEF Spec

(* The types, and the count of every held lock: releaseHeldLock() ends a   *)
(* lease exactly when its last user has released it, whatever the watchdog,*)
(* signals and other callers do in between.                                *)
THEOREM LockTyped == Spec => []TypeOK
<1>1. LockInv => TypeOK
  BY TypeParts DEF LockInv
<1> QED BY <1>1, LockInvHolds, PTL

(* No release, forced or not, removes a lock file that someone else works  *)
(* under, for any number of processes and callers.                         *)
THEOREM LeaseFileOnDisk == Spec => []LeaseIsOnDisk
<1>1. LockInv => LeaseIsOnDisk
  <2> SUFFICES ASSUME Plain, Known, OnDisk, NEW c \in Entitled
               PROVE  held[Home[c]] = lease[c] /\ file = lease[c] /\ owner
    BY DEF LockInv, LeaseIsOnDisk
  <2>1. held[Home[c]] = lease[c] /\ lease[c] \in Callers /\ Home[c] \in Processes
    BY LockAssumption DEF OnDisk, Leases, Entitled, Working, Known
  <2> QED BY <2>1, LockAssumption DEF OnDisk, Holders
<1> QED BY <1>1, LockInvHolds, PTL

(* The lock excludes, for any number of processes and callers, as long as  *)
(* no live caller's file is taken for stale.                               *)
THEOREM LockExcludes == Spec => []Exclusive
<1>1. LockInv => Exclusive
  <2> SUFFICES ASSUME Plain, Known, OnDisk, NEW c \in Entitled, NEW d \in Entitled
               PROVE  lease[c] = lease[d]
    BY DEF LockInv, Exclusive
  <2>1. \A e \in Entitled : held[Home[e]] = lease[e] /\ lease[e] \in Callers
                           /\ Home[e] \in Processes
    BY LockAssumption DEF OnDisk, Leases, Entitled, Working, Known
  <2>2. \A e \in Entitled : file = lease[e]
    BY <2>1, LockAssumption DEF OnDisk, Holders
  <2> QED BY <2>2
<1> QED BY <1>1, LockInvHolds, PTL
=============================================================================
