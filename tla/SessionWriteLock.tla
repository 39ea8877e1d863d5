-------------------------- MODULE SessionWriteLock --------------------------
(***************************************************************************)
(* The lock file beside a session file: agents/session-write-lock.ts, with *)
(* the file system (external), for one session file.                       *)
(*                                                                         *)
(* Callers in several processes acquire the lock, work and release it.     *)
(* Every await of the code lies between two actions, so the other callers  *)
(* run between the creation of the lock file and the writing of its owner, *)
(* between a reading and the removal it leads to, and between the moment   *)
(* HELD_LOCKS forgets a lock and the removal of its file.                  *)
(*                                                                         *)
(* A HeldLock object is named by the caller that created its file.         *)
(***************************************************************************)
EXTENDS FiniteSets, Naturals

CONSTANTS Processes, Callers,
          Home,        \* the process of a caller
          Reentrant,   \* callers with allowReentrant, the default
          Gateways,    \* processes that clean up stale lock files at start
          Nobody       \* no lock held; no lock file

ASSUME LockAssumption ==
    /\ Home \in [Callers -> Processes] /\ Reentrant \subseteq Callers
    /\ Gateways \subseteq Processes
    /\ Nobody \notin Callers
    /\ IsFiniteSet(Callers)

VARIABLES alive,      \* the processes whose pid is alive
          pc,         \* pc[c]: how far the caller c is
          lease,      \* lease[c]: the HeldLock that c works under
          file,       \* the lock file, by the caller that created it
          owner,      \* whether the owner has been written into it
          old,        \* whether it is older than staleMs
          held,       \* HELD_LOCKS, for each process
          count,      \* the count of a HeldLock
          dropping,   \* HeldLocks forgotten whose file is not removed yet
          sweep,      \* cleanStaleLockFiles(), for each process
          stolen,     \* history: a live caller's file was judged stale
          lapsed      \* history: the leases that the watchdog or a signal ended

fileVars == <<file, owner, old>>
heldVars == <<held, count, dropping>>
vars == <<alive, pc, lease, fileVars, heldVars, sweep, stolen, lapsed>>

Waiting == {"trying", "creating", "reading", "removing"}
Steps == {"idle", "working", "done", "failed"} \union Waiting
Sweeps == {"no", "listed", "stale", "done"}

Init ==
    /\ alive = Processes
    /\ pc = [c \in Callers |-> "idle"] /\ lease = [c \in Callers |-> Nobody]
    /\ file = Nobody /\ owner = FALSE /\ old = FALSE
    /\ held = [p \in Processes |-> Nobody] /\ count = [c \in Callers |-> 0]
    /\ dropping = [p \in Processes |-> {}]
    /\ sweep = [p \in Processes |-> "no"]
    /\ stolen = FALSE /\ lapsed = {}

Runs(c, step) == pc[c] = step /\ Home[c] \in alive
Goes(c, step) == pc' = [pc EXCEPT ![c] = step]

(* The file whose creator still needs it: it is about to write it, works   *)
(* under it, or has its removal under way.                                 *)
Live == file # Nobody /\ Home[file] \in alive /\ pc[file] # "failed"

(* fs.rm(lockPath, { force: true }) removes whatever file is there.        *)
Unlinked == file' = Nobody /\ owner' = FALSE /\ old' = FALSE
-----------------------------------------------------------------------------
(* Fault: entering again makes a HeldLock of its own.                      *)
EnterAnew(c) ==
    /\ Runs(c, "idle")
    /\ IF c \in Reentrant /\ held[Home[c]] # Nobody
       THEN /\ Goes(c, "working")
            /\ held' = [held EXCEPT ![Home[c]] = c]
            /\ count' = [count EXCEPT ![c] = 1]
            /\ lease' = [lease EXCEPT ![c] = c]
       ELSE Goes(c, "trying") /\ UNCHANGED <<lease, held, count>>
    /\ UNCHANGED <<alive, fileVars, dropping, sweep, stolen, lapsed>>

(* acquireSessionWriteLock(), up to its loop.                              *)
Enter(c) ==
    /\ Runs(c, "idle")
    /\ LET h == held[Home[c]]
       IN IF c \in Reentrant /\ h # Nobody
          THEN /\ Goes(c, "working")
               /\ lease' = [lease EXCEPT ![c] = h]
               /\ count' = [count EXCEPT ![h] = @ + 1]
          ELSE Goes(c, "trying") /\ UNCHANGED <<lease, count>>
    /\ UNCHANGED <<alive, fileVars, held, dropping, sweep, stolen, lapsed>>

(* fs.open(lockPath, "wx"): creates the file, or fails with EEXIST.        *)
Open(c) ==
    /\ Runs(c, "trying")
    /\ IF file = Nobody
       THEN file' = c /\ Goes(c, "creating")
       ELSE Goes(c, "reading") /\ UNCHANGED file
    /\ UNCHANGED <<alive, lease, owner, old, heldVars, sweep, stolen, lapsed>>

(* handle.writeFile(): it reaches the file of c even if the path has       *)
(* meanwhile been given to another file.                                   *)
Write(c) ==
    /\ Runs(c, "creating")
    /\ Goes(c, "working")
    /\ owner' = (owner \/ file = c)
    /\ held' = [held EXCEPT ![Home[c]] = c]
    /\ count' = [count EXCEPT ![c] = 1]
    /\ lease' = [lease EXCEPT ![c] = c]
    /\ UNCHANGED <<alive, file, old, dropping, sweep, stolen, lapsed>>

(* The write fails: acquire throws and leaves the empty file behind.       *)
WriteFails(c) ==
    /\ Runs(c, "creating")
    /\ Goes(c, "failed")
    /\ UNCHANGED <<alive, lease, fileVars, heldVars, sweep, stolen, lapsed>>

(* Fault: whether the owner's pid is alive is not looked at.               *)
StaleUnlessDead == file = Nobody \/ ~owner \/ old

(* inspectLockPayload(): missing-pid (no file, or no owner in it yet),     *)
(* dead-pid, too-old.                                                      *)
Stale == file = Nobody \/ ~owner \/ Home[file] \notin alive \/ old

(* readLockPayload(); a lock that is not stale is tried again after a delay*)
Read(c) ==
    /\ Runs(c, "reading")
    /\ Goes(c, IF Stale THEN "removing" ELSE "trying")
    /\ UNCHANGED <<alive, lease, fileVars, heldVars, sweep, stolen, lapsed>>

Remove(c) ==
    /\ Runs(c, "removing")
    /\ Goes(c, "trying")
    /\ Unlinked
    /\ stolen' = (stolen \/ Live)
    /\ UNCHANGED <<alive, lease, heldVars, sweep, lapsed>>

(* timeoutMs has passed.                                                   *)
GiveUp(c) ==
    /\ Runs(c, "trying")
    /\ Goes(c, "failed")
    /\ UNCHANGED <<alive, lease, fileVars, heldVars, sweep, stolen, lapsed>>
-----------------------------------------------------------------------------
Forget(p) ==
    /\ held' = [held EXCEPT ![p] = Nobody]
    /\ dropping' = [dropping EXCEPT ![p] = @ \union {held[p]}]

(* releaseHeldLock() without force, up to its await.                       *)
Release(c) ==
    LET p == Home[c]
    IN /\ Runs(c, "working")
       /\ Goes(c, "done")
       /\ IF held[p] # lease[c]
          THEN UNCHANGED heldVars
          ELSE /\ count' = [count EXCEPT ![lease[c]] = @ - 1]
               /\ IF count[lease[c]] > 1 THEN UNCHANGED <<held, dropping>> ELSE Forget(p)
       /\ UNCHANGED <<alive, lease, fileVars, sweep, stolen, lapsed>>

(* The end of releaseHeldLock().                                           *)
Drop(p, h) ==
    /\ p \in alive /\ h \in dropping[p]
    /\ dropping' = [dropping EXCEPT ![p] = @ \ {h}]
    /\ Unlinked
    /\ UNCHANGED <<alive, pc, lease, held, count, sweep, stolen, lapsed>>

(* runLockWatchdogCheck(): a lock held for longer than maxHoldMs.          *)
Watchdog(p) ==
    /\ p \in alive /\ held[p] # Nobody
    /\ count' = [count EXCEPT ![held[p]] = 0]
    /\ Forget(p)
    /\ lapsed' = lapsed \union {held[p]}
    /\ UNCHANGED <<alive, pc, lease, fileVars, sweep, stolen>>

(* releaseAllLocksSync(): at exit, and at a termination signal, which the  *)
(* process outlives when it has other listeners for it.                    *)
Signal(p) ==
    /\ p \in alive
    /\ held' = [held EXCEPT ![p] = Nobody]
    /\ IF held[p] # Nobody THEN Unlinked ELSE UNCHANGED fileVars
    /\ \/ alive' = alive \ {p} /\ dropping' = [dropping EXCEPT ![p] = {}] /\ UNCHANGED lapsed
       \/ lapsed' = lapsed \union ({held[p]} \ {Nobody}) /\ UNCHANGED <<alive, dropping>>
    /\ UNCHANGED <<pc, lease, count, sweep, stolen>>

(* The process is killed.                                                  *)
Crash(p) ==
    /\ p \in alive
    /\ alive' = alive \ {p}
    /\ held' = [held EXCEPT ![p] = Nobody]
    /\ dropping' = [dropping EXCEPT ![p] = {}]
    /\ UNCHANGED <<pc, lease, fileVars, count, sweep, stolen, lapsed>>

(* staleMs passes.                                                         *)
Age ==
    /\ owner /\ ~old
    /\ old' = TRUE
    /\ UNCHANGED <<alive, pc, lease, file, owner, heldVars, sweep, stolen, lapsed>>
-----------------------------------------------------------------------------
(* cleanStaleLockFiles(), at the start of the gateway: the listing, the     *)
(* reading and the removal.                                                *)
SweepList(p) ==
    /\ p \in alive \intersect Gateways /\ sweep[p] = "no" /\ file # Nobody
    /\ sweep' = [sweep EXCEPT ![p] = "listed"]
    /\ UNCHANGED <<alive, pc, lease, fileVars, heldVars, stolen, lapsed>>

SweepRead(p) ==
    /\ p \in alive /\ sweep[p] = "listed"
    /\ sweep' = [sweep EXCEPT ![p] = IF Stale THEN "stale" ELSE "done"]
    /\ UNCHANGED <<alive, pc, lease, fileVars, heldVars, stolen, lapsed>>

SweepRemove(p) ==
    /\ p \in alive /\ sweep[p] = "stale"
    /\ sweep' = [sweep EXCEPT ![p] = "done"]
    /\ Unlinked
    /\ stolen' = (stolen \/ Live)
    /\ UNCHANGED <<alive, pc, lease, heldVars, lapsed>>

CallerStep(c) == Open(c) \/ Write(c) \/ WriteFails(c) \/ Read(c) \/ Remove(c) \/ Release(c)

Next ==
    \/ \E c \in Callers : Enter(c) \/ CallerStep(c) \/ GiveUp(c)
    \/ \E p \in Processes : Watchdog(p) \/ Signal(p) \/ Crash(p)
    \/ \E p \in Processes : SweepList(p) \/ SweepRead(p) \/ SweepRemove(p)
    \/ \E p \in Processes, h \in Callers : Drop(p, h)
    \/ Age

(* The awaited calls of a live process return and a caller's work ends.    *)
(* No timeout has to come: timeoutMs may be Infinity.                      *)
Fairness ==
    /\ \A c \in Callers : WF_vars(CallerStep(c))
    /\ \A p \in Processes, h \in Callers : WF_vars(Drop(p, h))

Spec == Init /\ [][Next]_vars
FairSpec == Spec /\ Fairness
-----------------------------------------------------------------------------
Working == {c \in Callers : pc[c] = "working" /\ Home[c] \in alive}

(* Types; a lock that HELD_LOCKS holds counts exactly the callers that     *)
(* work under it, and one that is forgotten is not held.                   *)
TypeOK ==
    /\ alive \subseteq Processes /\ pc \in [Callers -> Steps]
    /\ lease \in [Callers -> Callers \union {Nobody}]
    /\ file \in Callers \union {Nobody} /\ owner \in BOOLEAN /\ old \in BOOLEAN
    /\ held \in [Processes -> Callers \union {Nobody}] /\ count \in [Callers -> Nat]
    /\ dropping \in [Processes -> SUBSET Callers] /\ sweep \in [Processes -> Sweeps]
    /\ stolen \in BOOLEAN /\ lapsed \subseteq Callers
    /\ \A p \in Processes : held[p] # Nobody =>
          /\ held[p] \notin dropping[p] /\ Home[held[p]] = p
          /\ count[held[p]] = Cardinality({c \in Working : lease[c] = held[p]})

(* Those who work under a lease that was not ended under them.             *)
Entitled == {c \in Working : lease[c] \notin lapsed}

(* session-write-lock.ts:112-150: whatever is released, forced or dropped, *)
(* and in whichever order, removes no lock file but its own: the file of a *)
(* lease is on disk as long as anyone works under it, unless a live        *)
(* caller's file was taken for stale.                                      *)
LeaseIsOnDisk ==
    stolen \/ \A c \in Entitled : held[Home[c]] = lease[c] /\ file = lease[c] /\ owner

(* What the lock is for: those who work at the same time work under one    *)
(* lease, in one process, unless a live caller's file was taken for stale. *)
Exclusive == stolen \/ \A c, d \in Entitled : lease[c] = lease[d]

(* A caller that waits gets the lock even if every other holder dies, the  *)
(* leftovers of the dead included; it may fail or die itself.              *)
WaitersGetIn ==
    \A c \in Callers : pc[c] \in Waiting ~> pc[c] \notin Waiting \/ Home[c] \notin alive
=============================================================================
