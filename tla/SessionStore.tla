---------------------------- MODULE SessionStore ----------------------------
(***************************************************************************)
(* The session store: config/sessions/store.ts, for one sessions.json and  *)
(* the processes that share it.                                            *)
(*                                                                         *)
(* A task is a call that changes the store; it waits in the queue of its   *)
(* process for its turn and then for the lock file, here a lock with one   *)
(* holder (SessionWriteLock says when it is).  What the store holds is the *)
(* set of the tasks whose change it carries.  An await lies between two    *)
(* actions, but a load runs through without one: nothing else happens in   *)
(* its process, and anything may in another.  A load that cannot read the  *)
(* store, or cannot parse it, takes it for an empty one.  The path for     *)
(* Windows is left out.                                                    *)
(***************************************************************************)
EXTENDS Naturals, Sequences

CONSTANTS Processes, Tasks,
          Home,       \* the process of a task
          Patches,    \* tasks of updateSessionStoreEntry(), updateLastRoute()
          Loaders,    \* processes that also load outside the lock
          Unreadable, \* processes that at times cannot read the store
          Vanishing,  \* processes whose files are at times deleted under a save
          Enforces,   \* session.maintenance.mode is "enforce", not "warn"
          MaxTick,    \* bound: ticks of the file system's clock
          None

ASSUME StoreAssumption ==
    /\ Home \in [Tasks -> Processes] /\ Patches \subseteq Tasks
    /\ Enforces \in BOOLEAN /\ MaxTick \in Nat \ {0} /\ Loaders \subseteq Processes
    /\ Unreadable \subseteq Processes /\ Vanishing \subseteq Processes
    /\ None \notin Processes \union Tasks

VARIABLES disk,      \* sessions.json: the changes it has, its mtime (0: no file)
          torn,      \* it is cut short: it does not parse
          tick,      \* the clock that mtimes are taken from
          cache,     \* SESSION_STORE_CACHE, for each process
          reading,   \* a load under way: what it has read, and of which mtime
          queue,     \* LOCK_QUEUES: the tasks pending in each process
          current,   \* the task that the drain of a process runs
          step,      \* how far it is
          draft,     \* the store it is changing
          tmp,       \* the mtime of its temporary file
          holder,    \* the process that holds the lock file
          settled,   \* how the promise of a task stands
          evicted,   \* history: changes that pruning or the cap removed
          alike,     \* history: different contents were read under one mtime
          blind,     \* history: the cache entry of a process is of a failed read
          guess,     \* history: so is the draft of a process
          gone       \* history: changes that were lost, see SavedStays

diskVars == <<disk, torn>>
queueVars == <<queue, current, step, draft, tmp, holder, settled>>
cacheVars == <<cache, reading>>
history == <<evicted, alike, blind, guess, gone>>
vars == <<diskVars, tick, cacheVars, queueVars, history>>

Stores == [has: SUBSET Tasks, at: 0..MaxTick]
DrainSteps == {"idle", "locking", "changing", "rotating", "writing", "renaming",
               "restoring", "filling", "releasing", "failing"}
SaveSteps == {"writing", "renaming", "restoring", "filling"}
Promises == {"uncalled", "pending", "saved", "failed", "lost"}

NoStore == [has |-> {}, at |-> 0]

Init ==
    /\ disk = NoStore /\ torn = FALSE /\ tick = 1
    /\ cache = [p \in Processes |-> None] /\ reading = [p \in Processes |-> None]
    /\ queue = [p \in Processes |-> <<>>] /\ current = [p \in Processes |-> None]
    /\ step = [p \in Processes |-> "idle"] /\ draft = [p \in Processes |-> {}]
    /\ tmp = [p \in Processes |-> 0]
    /\ holder = None /\ settled = [t \in Tasks |-> "uncalled"]
    /\ evicted = {} /\ alike = FALSE /\ blind = {} /\ guess = {} /\ gone = {}

(* The drain of p goes on; no load runs in p.                              *)
At(p, s) == reading[p] = None /\ step[p] = s
Goes(p, s) == step' = [step EXCEPT ![p] = s]

Rests(p) ==
    /\ Goes(p, "idle") /\ current' = [current EXCEPT ![p] = None]
    /\ draft' = [draft EXCEPT ![p] = {}] /\ tmp' = [tmp EXCEPT ![p] = 0]
    /\ guess' = guess \ {p}
-----------------------------------------------------------------------------
(* Fault: the mtime is not compared.                                       *)
HitsByAge(p) == cache[p] # None

(* loadSessionStore(): a cache entry counts while the mtime is the file's. *)
Hits(p) == cache[p] # None /\ cache[p].at = disk.at

(* The catch of loadSessionStore(): there is a store, and it is not read.  *)
Misreads(p) == torn \/ (p \in Unreadable /\ disk # NoStore)

(* An unlocked load, up to the reading of the file, and the stat after it. *)
Load(p) ==
    /\ p \in Loaders /\ reading[p] = None /\ ~Hits(p) /\ ~torn
    /\ reading' = [reading EXCEPT ![p] = disk]
    /\ cache' = [cache EXCEPT ![p] = None] /\ blind' = blind \ {p}
    /\ UNCHANGED <<diskVars, tick, queueVars, evicted, alike, guess, gone>>

Stat(p) ==
    /\ reading[p] # None
    /\ LET at == IF 0 \in {disk.at, reading[p].at} THEN reading[p].at ELSE disk.at
       IN /\ cache' = [cache EXCEPT ![p] = [reading[p] EXCEPT !.at = at]]
          /\ alike' = (alike \/ at # reading[p].at)
    /\ reading' = [reading EXCEPT ![p] = None]
    /\ UNCHANGED <<diskVars, tick, queueVars, evicted, blind, guess, gone>>

(* What a failed read leaves in the cache: an empty store under the mtime  *)
(* of the stat before it.                                                  *)
Blank == [has |-> {}, at |-> disk.at]

LoadFails(p) ==
    /\ p \in Loaders /\ reading[p] = None /\ ~Hits(p) /\ Misreads(p)
    /\ cache' = [cache EXCEPT ![p] = Blank] /\ blind' = blind \union {p}
    /\ UNCHANGED <<diskVars, tick, reading, queueVars, evicted, alike, guess, gone>>

(* The TTL of the entry passes.                                            *)
Expire(p) ==
    /\ reading[p] = None /\ cache[p] # None
    /\ cache' = [cache EXCEPT ![p] = None] /\ blind' = blind \ {p}
    /\ UNCHANGED <<diskVars, tick, reading, queueVars, evicted, alike, guess, gone>>

Tick ==
    /\ tick < MaxTick
    /\ tick' = tick + 1
    /\ UNCHANGED <<diskVars, cacheVars, queueVars, history>>
-----------------------------------------------------------------------------
(* withSessionStoreLock(): the task joins the queue.                       *)
Call(t) ==
    /\ settled[t] = "uncalled" /\ reading[Home[t]] = None
    /\ settled' = [settled EXCEPT ![t] = "pending"]
    /\ queue' = [queue EXCEPT ![Home[t]] = Append(@, t)]
    /\ UNCHANGED <<diskVars, tick, cacheVars, current, step, draft, tmp, holder, history>>

(* drainSessionStoreLockQueue(): the next task, to the wait for the lock.  *)
Take(p) ==
    /\ At(p, "idle") /\ queue[p] # <<>>
    /\ current' = [current EXCEPT ![p] = Head(queue[p])]
    /\ queue' = [queue EXCEPT ![p] = Tail(@)]
    /\ Goes(p, "locking")
    /\ UNCHANGED <<diskVars, tick, cacheVars, draft, tmp, holder, settled, history>>

(* Fault: under the lock the cache entry is taken as it is.                *)
LockUnchecked(p) ==
    /\ At(p, "locking") /\ holder = None
    /\ holder' = p
    /\ draft' = [draft EXCEPT ![p] = IF cache[p] # None THEN cache[p].has ELSE disk.has]
    /\ Goes(p, "changing")
    /\ UNCHANGED <<diskVars, tick, cacheVars, queue, current, tmp, settled, history>>

(* The lock is there and the task reads the store: updateSessionStore()    *)
(* from the disk, the others through the cache, which they fill.           *)
Lock(p) ==
    /\ At(p, "locking") /\ holder = None
    /\ holder' = p
    /\ \E fails \in {torn, Misreads(p)} :
       LET patch == current[p] \in Patches
           hit == patch /\ Hits(p)
           read == IF fails THEN Blank ELSE disk
       IN /\ draft' = [draft EXCEPT ![p] = IF hit THEN cache[p].has ELSE read.has]
          /\ guess' = IF IF hit THEN p \in blind ELSE fails THEN guess \union {p} ELSE guess
          /\ IF patch /\ ~hit
             THEN /\ cache' = [cache EXCEPT ![p] = read]
                  /\ blind' = IF fails THEN blind \union {p} ELSE blind \ {p}
             ELSE UNCHANGED <<cache, blind>>
    /\ Goes(p, "changing")
    /\ UNCHANGED <<diskVars, tick, reading, queue, current, tmp, settled, evicted, alike, gone>>

(* Fault: the lock is released although it was not acquired.               *)
LockFailsReleasing(p) ==
    /\ At(p, "locking")
    /\ settled' = [settled EXCEPT ![current[p]] = "failed"]
    /\ Rests(p)
    /\ holder' = None
    /\ UNCHANGED <<diskVars, tick, cacheVars, queue, evicted, alike, blind, gone>>

(* The lock is not there in time.                                          *)
LockFails(p) ==
    /\ At(p, "locking")
    /\ settled' = [settled EXCEPT ![current[p]] = "failed"]
    /\ Rests(p)
    /\ UNCHANGED <<diskVars, tick, cacheVars, queue, holder, evicted, alike, blind, gone>>

(* The mutator is done, and saveSessionStoreUnlocked() begins.             *)
Change(p) ==
    /\ At(p, "changing")
    /\ cache' = [cache EXCEPT ![p] = None] /\ blind' = blind \ {p}
    /\ draft' = [draft EXCEPT ![p] = @ \union {current[p]}]
    /\ Goes(p, "rotating")
    /\ UNCHANGED <<diskVars, tick, reading, queue, current, tmp, holder, settled,
                   evicted, alike, guess, gone>>

(* The mutator throws, or finds nothing to change.                         *)
ChangeFails(p) ==
    /\ At(p, "changing")
    /\ Goes(p, "failing")
    /\ UNCHANGED <<diskVars, tick, cacheVars, queue, current, draft, tmp, holder, settled, history>>

(* sessions.json is renamed away, or deleted.                              *)
Loses == disk' = NoStore /\ torn' = FALSE

(* Maintenance.  If it is enforced, pruneStaleEntries() and capEntryCount()*)
(* remove entries, and rotateSessionFile() renames a large store away.     *)
Maintain(p) ==
    /\ At(p, "rotating")
    /\ \E E \in IF Enforces THEN SUBSET (draft[p] \ {current[p]}) ELSE {{}} :
          /\ draft' = [draft EXCEPT ![p] = @ \ E]
          /\ evicted' = evicted \union E
    /\ \/ UNCHANGED diskVars
       \/ Enforces /\ Loses
    /\ Goes(p, "writing")
    /\ UNCHANGED <<tick, cacheVars, queue, current, tmp, holder, settled,
                   alike, blind, guess, gone>>

(* The temporary file is written.                                          *)
Write(p) ==
    /\ At(p, "writing")
    /\ tmp' = [tmp EXCEPT ![p] = tick]
    /\ Goes(p, "renaming")
    /\ UNCHANGED <<diskVars, tick, cacheVars, queue, current, draft, holder, settled, history>>

(* The store is not there, or cut short, and a save that could mend it is  *)
(* given up: nothing has the saved changes any more.                       *)
Saved == {t \in Tasks : settled[t] = "saved"}
GivesUp(p) ==
    gone' = IF (disk = NoStore \/ torn) /\ step[p] \in SaveSteps
            THEN gone \union Saved ELSE gone

(* The temporary file, or the store, cannot be written, or the file cannot *)
(* be renamed.                                                             *)
WriteFails(p) ==
    /\ \E s \in SaveSteps : At(p, s)
    /\ GivesUp(p)
    /\ Goes(p, "failing")
    /\ UNCHANGED <<diskVars, tick, cacheVars, queue, current, draft, tmp, holder, settled,
                   evicted, alike, blind, guess>>

(* The mtimes of stores that loads have seen.                              *)
Mtimes == {cache[p].at : p \in {q \in Processes \ blind : cache[q] # None}}
          \union {reading[p].at : p \in {q \in Processes : reading[q] # None}}

(* A file of p's save becomes the store: with the mtime at and, if parses, *)
(* with the draft; one that was not read drops what others have saved.     *)
Becomes(p, at, parses) ==
    /\ disk' = [has |-> IF parses THEN draft[p] ELSE {}, at |-> at] /\ torn' = ~parses
    /\ alike' = (alike \/ at \in Mtimes)
    /\ gone' = IF parses /\ p \in guess THEN gone \union (Saved \ draft[p]) ELSE gone
    /\ UNCHANGED <<tick, cacheVars, queue, current, draft, tmp, holder, settled,
                   evicted, blind, guess>>

(* The temporary file becomes the store; then chmod(), which may fail.     *)
Rename(p) ==
    /\ At(p, "renaming")
    /\ Becomes(p, tmp[p], TRUE)
    /\ (Goes(p, "releasing") \/ Goes(p, "failing"))

(* ENOENT: the temporary file is deleted, or the directory, with the store *)
(* and the lock; no change in it is accounted for from then on, and the    *)
(* model goes on as if the lock were there.                                *)
Vanishes(p) ==
    /\ p \in Vanishing
    /\ \/ At(p, "renaming") /\ UNCHANGED <<diskVars, gone>>
       \/ (At(p, "writing") \/ At(p, "renaming")) /\ Loses /\ gone' = Tasks
    /\ Goes(p, "restoring")
    /\ UNCHANGED <<tick, cacheVars, queue, current, draft, tmp, holder, settled,
                   evicted, alike, blind, guess>>

(* The directory is made again and the store written in place: emptied and *)
(* filled; then chmod(), which may fail.                                   *)
Truncate(p) ==
    /\ At(p, "restoring")
    /\ Becomes(p, tick, FALSE)
    /\ Goes(p, "filling")

Fill(p) ==
    /\ At(p, "filling")
    /\ Becomes(p, tick, TRUE)
    /\ (Goes(p, "releasing") \/ Goes(p, "failing"))

(* ENOENT again: the save returns as if it were done.                      *)
VanishesAgain(p) ==
    /\ p \in Vanishing /\ (At(p, "restoring") \/ At(p, "filling"))
    /\ Loses /\ gone' = Tasks
    /\ Goes(p, "releasing")
    /\ UNCHANGED <<tick, cacheVars, queue, current, draft, tmp, holder, settled,
                   evicted, alike, blind, guess>>

(* Fault: a task that failed keeps the drain.                              *)
ReleaseSaved(p) ==
    /\ At(p, "releasing")
    /\ settled' = [settled EXCEPT ![current[p]] = "saved"]
    /\ holder' = None
    /\ Rests(p)
    /\ UNCHANGED <<diskVars, tick, cacheVars, queue, evicted, alike, blind, gone>>

(* The lock is released, the promise settled, and the drain goes on.       *)
Release(p) ==
    /\ \E end \in {"releasing", "failing"} :
          /\ At(p, end)
          /\ settled' = [settled EXCEPT ![current[p]] =
                            IF end = "releasing" THEN "saved" ELSE "failed"]
    /\ holder' = None
    /\ Rests(p)
    /\ UNCHANGED <<diskVars, tick, cacheVars, queue, evicted, alike, blind, gone>>

(* The process dies and comes back; its lock file is found stale.          *)
Crash(p) ==
    /\ cache' = [cache EXCEPT ![p] = None] /\ reading' = [reading EXCEPT ![p] = None]
    /\ settled' = [t \in Tasks |-> IF Home[t] = p /\ settled[t] = "pending" THEN "lost"
                                   ELSE settled[t]]
    /\ GivesUp(p) /\ blind' = blind \ {p}
    /\ queue' = [queue EXCEPT ![p] = <<>>] /\ Rests(p)
    /\ holder' = IF holder = p THEN None ELSE holder
    /\ UNCHANGED <<diskVars, tick, evicted, alike>>

Drains(p) ==
    \/ Take(p) \/ Lock(p) \/ Change(p) \/ ChangeFails(p) \/ Maintain(p)
    \/ Write(p) \/ WriteFails(p) \/ Rename(p) \/ Vanishes(p) \/ Truncate(p) \/ Fill(p)
    \/ VanishesAgain(p) \/ Release(p)

Next ==
    \/ \E p \in Processes : Load(p) \/ Stat(p) \/ LoadFails(p) \/ Expire(p) \/ Drains(p)
                            \/ LockFails(p) \/ Crash(p)
    \/ \E t \in Tasks : Call(t)
    \/ Tick

(* Loads run through, mutators and file operations end, and a process that *)
(* waits for the lock is not passed over for ever.                         *)
Fairness == \A p \in Processes : WF_vars(Stat(p)) /\ SF_vars(Drains(p))

Spec == Init /\ [][Next]_vars
FairSpec == Spec /\ Fairness
-----------------------------------------------------------------------------
(* Types; only the task whose turn it is holds the lock, and one process   *)
(* at most is past the wait for it.                                        *)
TypeOK ==
    /\ disk \in Stores /\ torn \in BOOLEAN /\ tick \in 1..MaxTick
    /\ cache \in [Processes -> Stores \union {None}]
    /\ reading \in [Processes -> Stores \union {None}]
    /\ queue \in [Processes -> Seq(Tasks)] /\ current \in [Processes -> Tasks \union {None}]
    /\ step \in [Processes -> DrainSteps] /\ draft \in [Processes -> SUBSET Tasks]
    /\ tmp \in [Processes -> 0..MaxTick] /\ holder \in Processes \union {None}
    /\ settled \in [Tasks -> Promises] /\ evicted \subseteq Tasks
    /\ alike \in BOOLEAN /\ blind \subseteq Processes /\ guess \subseteq Processes /\ gone \subseteq Tasks
    /\ \A p \in Processes :
          /\ current[p] = None <=> step[p] = "idle"
          /\ holder = p <=> step[p] \notin {"idle", "locking"}

(* loadSessionStore(): what a load would take from the cache is what the   *)
(* file holds, unless two files in turn had the same mtime, a load took    *)
(* the mtime of the file that replaced the one it had read, or the entry   *)
(* is the empty one that a failed read leaves (store.ts:189-196).          *)
CacheIsFresh ==
    alike \/ \A p \in Processes \ blind : Hits(p) => cache[p].has = disk.has

(* "Always re-read inside the lock to avoid clobbering concurrent writers" *)
(* (store.ts:671): what was saved stays in the store, whichever process    *)
(* saved it, until maintenance removes it, provided that the patches found *)
(* the cache fresh; and where the store is not there or cut short, the     *)
(* save that will mend it carries the change.  Lost (gone) are the changes *)
(* that a save dropped which had not been able to read the store, those of *)
(* a store that was rotated or emptied by a save that then failed, and all *)
(* once the directory was deleted under a save.                            *)
SavedStays ==
    \A t \in Saved \ (evicted \union gone) :
        IF disk = NoStore \/ torn
        THEN \E p \in Processes : /\ holder = p /\ step[p] \in SaveSteps
                                 /\ (alike \/ p \in guess \/ t \in draft[p])
        ELSE alike \/ t \in disk.has

(* Every task is settled, unless its process dies: the queue never blocks. *)
TasksSettle == \A t \in Tasks : settled[t] = "pending" ~> settled[t] # "pending"
=============================================================================
