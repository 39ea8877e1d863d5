---------------------------- MODULE EmbeddedRun ----------------------------
(***************************************************************************)
(* Runs of the embedded agent and the auth profiles they share:            *)
(* agents/pi-embedded-runner/run.ts with the control of run/attempt.ts and *)
(* the registry runs.ts, and agents/auth-profiles/{order,usage,store}.ts.  *)
(*                                                                         *)
(* A run asks a model, as often as its retries allow, with one auth profile*)
(* at a time.  What it knows of the profiles is the copy of the store that *)
(* it has loaded; the file changes under it.  The model's answers, the     *)
(* timers and the other processes that lock the file are external.         *)
(*                                                                         *)
(* Each run has a session of its own: the session lane runs one at a time. *)
(***************************************************************************)
EXTENDS FiniteSetsExt, Functions, Naturals, Sequences

CONSTANTS
    Runs, Profiles,
    Preferred,     \* Preferred[r]: the session's profile, or NoProfile
    Locked,        \* runs whose preferred profile is the user's choice
    Fallbacks,     \* runs with fallback models configured
    NoProfile,
    Levels,        \* Levels[r]: the thinking levels its model may name
    Initial,       \* the level that runs begin with
    Long,          \* bound: the runs whose context may become too long
    Resets,        \* bound: the runs whose session may be reset or deleted
    Lockless,      \* bound: the runs that, once, cannot have the file's lock
    MaxOverflow,   \* MAX_OVERFLOW_COMPACTION_ATTEMPTS
    Backoff,       \* Backoff[n]: the cooldown after n errors, in ticks
    Billing,       \* Billing[n]: the disabling after n errors for billing
    Window,        \* failureWindowMs: errors that are older do not count
    Billed,        \* bound: the profiles that fail for billing, and may have before
    MaxNow         \* bound: how far the clock is followed

ASSUME RunAssumption ==
    /\ Preferred \in [Runs -> Profiles \union {NoProfile}] /\ NoProfile \notin Profiles
    /\ Locked \subseteq {r \in Runs : Preferred[r] # NoProfile} /\ Fallbacks \subseteq Runs /\ Resets \union Lockless \subseteq Runs
    /\ IsFiniteSet(Profiles) /\ Long \subseteq Runs
    /\ \A r \in Runs : IsFiniteSet(Levels[r]) /\ Initial \in Levels[r]
    /\ MaxOverflow \in Nat /\ MaxNow \in Nat \ {0} /\ Window \in Nat /\ Billed \subseteq Profiles
    /\ Backoff \in Seq(Nat \ {0}) /\ Backoff # <<>>
    /\ Billing \in Seq(Nat \ {0}) /\ Billing # <<>>
    /\ \A m, n \in DOMAIN Backoff : m <= n => Backoff[m] <= Backoff[n]
    /\ \A m, n \in DOMAIN Billing : m <= n => Billing[m] <= Billing[n]

VARIABLES
    now,
    disk,          \* the usage statistics in the store's file
    unlocked,      \* history: a save was made without the file's lock
    run,           \* the locals of runEmbeddedPiAgent() for each run
    view,          \* view[r]: its copy of the statistics, for those that save it
    attempt,       \* the locals of runEmbeddedAttempt() for each run
    cleanup,       \* cleanup[r]: a sessions.reset or sessions.delete of its session
    stopped,       \* history: runs whose attempt a cleanup has aborted, and no timeout
    heeds          \* history: the cooldowns r is to heed and that still hold

vars == <<now, disk, unlocked, run, view, attempt, cleanup, stopped, heeds>>

Phases == {"queued", "starting", "preparing", "prompting", "judging", "finishing", "ended"}

(* How an attempt that was not aborted ends: with an answer, an error of   *)
(* the model (for auth, quota, a timeout; or any other, which may name the *)
(* thinking levels), a prompt that is thrown back with such an error, or a *)
(* context that is too long, before or after a compaction.                 *)
Answers == {"text", "rejected", "error", "prompt rejected", "prompt failed", "overflow"}

(* profileCandidates and profileIndex, attemptedThinking with the current  *)
(* level, overflowCompactionAttempts and toolResultTruncationAttempted.    *)
Run == [phase : Phases, order : Seq(Profiles), index : Nat, tried : SUBSET UNION {Levels[r] : r \in Runs},
        overflows : 0..MaxOverflow, truncated : BOOLEAN]
Attempt == [aborted : BOOLEAN, timedOut : BOOLEAN, compacting : BOOLEAN,
            answer : Answers \union {"nothing"}]

NoRun == [phase |-> "queued", order |-> <<>>, index |-> 0, tried |-> {},
          overflows |-> 0, truncated |-> FALSE]
NoAttempt == [aborted |-> FALSE, timedOut |-> FALSE, compacting |-> FALSE, answer |-> "nothing"]

At(r, step) == run[r].phase = step
Busy == {r \in Runs : run[r].phase \notin {"queued", "ended"}}
Profile(r) == run[r].order[run[r].index]
-----------------------------------------------------------------------------
(* usageStats: errorCount, failureCounts.billing, lastFailureAt,           *)
(* cooldownUntil, disabledUntil (0: none), and the ranks of the profiles by*)
(* lastUsed, oldest first; and, as history, the profiles whose counts the  *)
(* window has restarted while they were unusable.                          *)
Ranks == 1..Cardinality(Profiles)
Nothing == [p \in Profiles |-> 0]

Stats == [errors : [Profiles -> 0..Len(Backoff)], billing : [Profiles -> 0..Len(Billing)],
          last : [Profiles -> Nat], cooldown : [Profiles -> Nat], disabled : [Profiles -> Nat],
          used : Injection(Profiles, Ranks), restarted : SUBSET Profiles]

NeverFailed == [errors : {Nothing}, billing : {Nothing}, last : {Nothing}, cooldown : {Nothing},
                disabled : {Nothing}, used : Injection(Profiles, Ranks), restarted : {{}}]
Blank == CHOOSE s \in NeverFailed : TRUE

(* resolveProfileUnusableUntil() and isProfileInCooldown()                 *)
Until(s, p) == Max({s.cooldown[p], s.disabled[p]})
Cooling(s, p) == now < Until(s, p)

(* clearExpiredCooldowns()                                                 *)
Cleared(s) ==
    LET Left(until) == [p \in Profiles |-> IF now < until[p] THEN until[p] ELSE 0]
        fresh == {p \in Profiles : Until(s, p) # 0 /\ ~Cooling(s, p)}
        Reset(count) == [p \in Profiles |-> IF p \in fresh THEN 0 ELSE count[p]]
    IN [s EXCEPT !.cooldown = Left(@), !.disabled = Left(@),
                 !.errors = Reset(@), !.billing = Reset(@), !.restarted = @ \ fresh]

(* orderProfilesByMode(), for profiles of one type: p must come before q.  *)
Before(s, p, q) ==
    \/ ~Cooling(s, p) /\ (Cooling(s, q) \/ s.used[p] < s.used[q])
    \/ Cooling(s, p) /\ Cooling(s, q) /\ Until(s, p) < Until(s, q)

(* resolveAuthProfileOrder(), and profileCandidates: the user's choice     *)
(* alone, or the preferred profile first; equal times in any order.        *)
Candidates(r, s) ==
    LET preferred == Preferred[r]
    IN IF r \in Locked THEN {<<preferred>>}
       ELSE {o \in Injection(Ranks, Profiles) : \A i, j \in Ranks :
                o[j] # preferred /\ (o[i] = preferred \/ Before(s, o[i], o[j])) => i < j}

(* computeNextProfileUsageStats()                                          *)
Failed(s, p, reason) ==
    LET expired == s.last[p] # 0 /\ now - s.last[p] > Window
        Count(n) == IF expired THEN 0 ELSE n
        errors == Min({Count(s.errors[p]) + 1, Len(Backoff)})
        debts == Min({Count(s.billing[p]) + 1, Len(Billing)})
        t == [s EXCEPT !.errors[p] = errors, !.last[p] = now,
                       !.restarted = IF expired /\ Cooling(s, p) THEN @ \union {p} ELSE @]
    IN IF reason = "billing"
       THEN [t EXCEPT !.billing[p] = debts, !.disabled[p] = now + Billing[debts]]
       ELSE [t EXCEPT !.billing[p] = Count(@), !.cooldown[p] = now + Backoff[errors]]

(* markAuthProfileUsed(): used now, and well.                              *)
Used(s, p) ==
    [s EXCEPT !.errors[p] = 0, !.billing[p] = 0, !.cooldown[p] = 0, !.disabled[p] = 0,
               !.restarted = @ \ {p},
               !.used = [q \in Profiles |-> IF q = p THEN Cardinality(Profiles)
                                            ELSE IF @[q] > @[p] THEN @[q] - 1 ELSE @[q]]]

Copy(r) == IF r \in Lockless THEN view[r] ELSE disk

(* Fault: the copy is changed and saved, as it is done without the lock.   *)
SaveCopy(r, fresh, stale) == disk' = stale /\ UNCHANGED unlocked

(* updateAuthProfileStoreWithLock() reads the file again under its lock; if*)
(* it cannot have the lock, the caller changes and saves its own copy.     *)
Save(r, fresh, stale) ==
    \/ disk' = fresh /\ UNCHANGED unlocked
    \/ r \in Lockless /\ ~unlocked /\ unlocked' = TRUE /\ disk' = stale

(* The cooldowns that were found and have been neither lifted nor lost,    *)
(* and those that are not over.                                            *)
StillHeeded(found) == [p \in Profiles |-> IF Until(disk', p) >= found[p] THEN found[p] ELSE 0]
InForce(found) == [p \in Profiles |-> IF found[p] > now' THEN found[p] ELSE 0]
-----------------------------------------------------------------------------
(* Profiles that have failed for billing as often as it makes a difference.*)
InDebt(s, P) ==
    LET For(x) == [p \in Profiles |-> IF p \in P THEN x ELSE 0]
    IN [s EXCEPT !.errors = For(Len(Backoff)), !.billing = For(Len(Billing)), !.last = For(now),
                 !.disabled = For(now + Billing[Len(Billing)])]

Init ==
    /\ now = 1 /\ unlocked = FALSE
    /\ \E s \in NeverFailed, P \in {{}, Billed} : disk = InDebt(s, P)
    /\ view = [r \in Lockless |-> Blank]
    /\ run = [r \in Runs |-> NoRun] /\ attempt = [r \in Runs |-> NoAttempt]
    /\ cleanup = [r \in Runs |-> "no"] /\ stopped = {}
    /\ heeds = [r \in Runs |-> Nothing]

Tick ==
    /\ now < MaxNow
    /\ now' = now + 1
    /\ heeds' = [r \in Runs |-> InForce(heeds[r])]
    /\ UNCHANGED <<disk, unlocked, run, view, attempt, cleanup, stopped>>

(* The next time round the loop, with the locals l.                        *)
Again(r, l) ==
    /\ run' = [run EXCEPT ![r] = [l EXCEPT !.phase = "starting"]]
    /\ attempt' = [attempt EXCEPT ![r] = NoAttempt]

Keeps(r, s) == view' = [q \in Lockless |-> IF q = r THEN s ELSE view[q]]

(* The run throws or replies, and its locals go.                           *)
Ends(r) ==
    /\ run' = [run EXCEPT ![r] = [NoRun EXCEPT !.phase = "ended"]]
    /\ attempt' = [attempt EXCEPT ![r] = NoAttempt]
    /\ Keeps(r, Blank)
    /\ stopped' = stopped \ {r}

(* It does so and has saved nothing.                                       *)
Gives(r) == Ends(r) /\ heeds' = [heeds EXCEPT ![r] = Nothing]

Goes(r, step) == run' = [run EXCEPT ![r].phase = step]

(* Fault: a profile that cools down is taken all the same.                 *)
UsableCooling(r, l, s, Keys) == {j \in (l.index + 1)..Len(l.order) : l.order[j] \in Keys}

(* The candidates of l after the first i that are not cooling down, for all*)
(* the run knows, and whose key is among those that can be resolved.       *)
Usable(r, l, s, Keys) ==
    {j \in (l.index + 1)..Len(l.order) :
        l.order[j] \in Keys /\ (r \in Locked \/ ~Cooling(s, l.order[j]))}

(* applyApiKeyInfo() for the first of them, and thinking as at the start.  *)
With(r, l, s, Keys) ==
    [l EXCEPT !.index = Min(Usable(r, l, s, Keys)), !.tried = {Initial}]

(* runEmbeddedPiAgent(), up to its loop.                                   *)
Begin(r) ==
    /\ At(r, "queued")
    /\ \E Keys \in SUBSET Profiles :
      \E order \in Candidates(r, Cleared(disk)) :
         LET s == Cleared(disk)
             l == [NoRun EXCEPT !.order = order]
         IN IF Usable(r, l, s, Keys) = {}
            THEN Gives(r)
            ELSE /\ Again(r, With(r, l, s, Keys))
                 /\ Keeps(r, s)
                 /\ heeds' = [heeds EXCEPT ![r] = IF r \in Locked THEN Nothing
                                                  ELSE [p \in Profiles |-> Until(s, p)]]
                 /\ UNCHANGED stopped
    /\ UNCHANGED <<now, disk, unlocked, cleanup>>
-----------------------------------------------------------------------------
(* The attempt                                                             *)

(* From setActiveEmbeddedRun() to clearActiveEmbeddedRun().                *)
Registered(r) == At(r, "preparing") \/ At(r, "prompting")

Told(r) == cleanup' = IF cleanup[r] = "waiting" THEN [cleanup EXCEPT ![r] = "over"] ELSE cleanup

(* The session's lock is not to be had, or its transcript cannot be read or*)
(* repaired.                                                               *)
Throws(r) ==
    /\ At(r, "starting") \/ At(r, "preparing")
    /\ Gives(r)
    /\ Told(r)
    /\ UNCHANGED <<now, disk, unlocked>>

(* setActiveEmbeddedRun() and the start of the abort timer.                *)
Register(r) ==
    /\ At(r, "starting")
    /\ Goes(r, "preparing")
    /\ UNCHANGED <<now, disk, unlocked, view, attempt, cleanup, stopped, heeds>>

(* The hooks have run and the images are loaded: session.prompt(), even if *)
(* the attempt has been aborted meanwhile.                                 *)
Prompt(r) ==
    /\ At(r, "preparing")
    /\ Goes(r, "prompting")
    /\ UNCHANGED <<now, disk, unlocked, view, attempt, cleanup, stopped, heeds>>

(* Fault: the timer leaves a session alone that is compacting.             *)
TimeoutUnlessCompacting(r) ==
    /\ Registered(r) /\ ~attempt[r].timedOut
    /\ \E compacting \in {FALSE, At(r, "prompting")} :
          attempt' = [attempt EXCEPT ![r].aborted = @ \/ ~compacting, ![r].timedOut = TRUE,
                                     ![r].compacting = compacting]
    /\ stopped' = stopped \ {r}
    /\ UNCHANGED <<now, disk, unlocked, run, view, cleanup, heeds>>

(* The abort timer of the attempt, perhaps while the session is compacting.*)
Timeout(r) ==
    /\ Registered(r) /\ ~attempt[r].timedOut
    /\ \E compacting \in {FALSE, At(r, "prompting")} :
          attempt' = [attempt EXCEPT ![r].aborted = TRUE, ![r].timedOut = TRUE,
                                     ![r].compacting = compacting]
    /\ stopped' = stopped \ {r}
    /\ UNCHANGED <<now, disk, unlocked, run, view, cleanup, heeds>>

(* ensureSessionRuntimeCleanup(): it aborts the attempt that is registered *)
(* and waits for its end.  If none is registered it goes on, and changes   *)
(* nothing here.                                                           *)
Cleanup(r) ==
    /\ r \in Resets /\ cleanup[r] = "no" /\ Registered(r)
    /\ cleanup' = [cleanup EXCEPT ![r] = "waiting"]
    /\ attempt' = [attempt EXCEPT ![r].aborted = TRUE]
    /\ stopped' = IF attempt[r].timedOut THEN stopped ELSE stopped \union {r}
    /\ UNCHANGED <<now, disk, unlocked, run, view, heeds>>

(* waitForEmbeddedPiRunEnd() has waited for 15 s.                          *)
CleanupFails(r) ==
    /\ cleanup[r] = "waiting"
    /\ cleanup' = [cleanup EXCEPT ![r] = "over"]
    /\ UNCHANGED <<now, disk, unlocked, run, view, attempt, stopped, heeds>>

(* What an aborted attempt has brought counts only if it was timed out.    *)
Brings(r) ==
    IF ~attempt[r].aborted THEN Answers \ (IF r \in Long THEN {} ELSE {"overflow"})
    ELSE IF attempt[r].timedOut THEN {"text", "nothing"} ELSE {"nothing"}

(* Fault: the waiters are not told.                                        *)
ReturnQuietly(r) ==
    /\ At(r, "prompting")
    /\ Goes(r, "judging")
    /\ \E a \in Brings(r) : attempt' = [attempt EXCEPT ![r].answer = a]
    /\ UNCHANGED <<now, disk, unlocked, view, cleanup, stopped, heeds>>

(* The prompt and the wait for its compaction end, or are rejected because *)
(* the attempt was aborted; clearActiveEmbeddedRun() tells the waiters and *)
(* the session's lock is released.                                         *)
Return(r) ==
    /\ At(r, "prompting")
    /\ Goes(r, "judging")
    /\ \E a \in Brings(r) : attempt' = [attempt EXCEPT ![r].answer = a]
    /\ Told(r)
    /\ UNCHANGED <<now, disk, unlocked, view, stopped, heeds>>
-----------------------------------------------------------------------------
(* The loop's judgement of the attempt                                     *)

Judges(r, answers) == At(r, "judging") /\ ~attempt[r].aborted /\ attempt[r].answer \in answers
TimedOut(r) == attempt[r].timedOut /\ ~attempt[r].compacting

(* Fault: the compactions are not counted.                                 *)
OverflowUncounted(r) ==
    /\ Judges(r, {"overflow"})
    /\ \/ Again(r, run[r]) /\ UNCHANGED <<view, stopped, heeds>>
       \/ Gives(r)
    /\ UNCHANGED <<now, disk, unlocked, cleanup>>

(* A context overflow: the prompt is retried if the attempt has compacted  *)
(* the session or it can be compacted now; then, once, if truncating its   *)
(* tool results has made it smaller; otherwise the user is told.           *)
Overflow(r) ==
    /\ Judges(r, {"overflow"})
    /\ \/ /\ run[r].overflows < MaxOverflow
          /\ Again(r, [run[r] EXCEPT !.overflows = @ + 1])
          /\ UNCHANGED <<view, stopped, heeds>>
       \/ /\ ~run[r].truncated
          /\ Again(r, [run[r] EXCEPT !.truncated = TRUE, !.overflows = 0])
          /\ UNCHANGED <<view, stopped, heeds>>
       \/ Gives(r)
    /\ UNCHANGED <<now, disk, unlocked, cleanup>>

(* pickFallbackThinkingLevel() names a level that was not tried.           *)
Rethinks(r) ==
    \E l \in Levels[r] \ run[r].tried : Again(r, [run[r] EXCEPT !.tried = @ \union {l}])

Level(r) ==
    /\ Judges(r, {"prompt failed", "error"})
    /\ Rethinks(r)
    /\ UNCHANGED <<now, disk, unlocked, view, cleanup, stopped, heeds>>

(* The prompt failed otherwise, and the error is thrown or told.           *)
PromptFails(r) ==
    /\ Judges(r, {"prompt failed"})
    /\ Gives(r)
    /\ UNCHANGED <<now, disk, unlocked, cleanup>>

(* Fault: any aborted attempt counts as timed out.                         *)
FailsIfAborted(r) ==
    \/ Judges(r, {"prompt rejected", "rejected"})
    \/ At(r, "judging") /\ attempt[r].aborted

(* shouldRotate, or a rejected prompt.                                     *)
Fails(r) ==
    \/ Judges(r, {"prompt rejected", "rejected"})
    \/ At(r, "judging") /\ TimedOut(r)

Reasons(r) ==
    IF attempt[r].timedOut \/ Profile(r) \notin Billed THEN {"other"} ELSE {"billing", "other"}

(* What the run does with no profile left: a rejected prompt may name a    *)
(* thinking level that was not tried, and is thrown otherwise, as the other*)
(* errors are for the fallback models; without them the attempt is taken as*)
(* it is.                                                                  *)
GivesUp(r) ==
    IF attempt[r].answer = "prompt rejected"
    THEN \/ Rethinks(r) /\ Keeps(r, disk') /\ UNCHANGED stopped
         \/ Ends(r)
    ELSE IF r \in Fallbacks
    THEN Ends(r)
    ELSE Goes(r, "finishing") /\ Keeps(r, disk') /\ UNCHANGED <<attempt, stopped>>

(* markAuthProfileFailure(), and advanceAuthProfile() if there is one left.*)
Fail(r) ==
    /\ Fails(r)
    /\ \E reason \in Reasons(r) :
          Save(r, Failed(disk, Profile(r), reason), Failed(Copy(r), Profile(r), reason))
    /\ \E Keys \in SUBSET Profiles :
          IF r \notin Locked /\ Usable(r, run[r], disk', Keys) # {}
          THEN /\ Again(r, With(r, run[r], disk', Keys))
               /\ Keeps(r, disk')
               /\ UNCHANGED stopped
          ELSE GivesUp(r)
    /\ heeds' = [q \in Runs |-> IF q \in Busy' THEN StillHeeded(heeds[q]) ELSE Nothing]
    /\ UNCHANGED <<now, cleanup>>

(* A timeout that has left nothing to reply with is told the user.         *)
TellTimeout(r) ==
    /\ At(r, "finishing") /\ TimedOut(r) /\ attempt[r].answer = "nothing"
    /\ Gives(r)
    /\ UNCHANGED <<now, disk, unlocked, cleanup>>

(* markAuthProfileGood() and markAuthProfileUsed(), and the reply.         *)
Finish(r) ==
    /\ \/ At(r, "finishing") /\ ~(TimedOut(r) /\ attempt[r].answer = "nothing")
       \/ Judges(r, {"text", "error"})
       \/ At(r, "judging") /\ attempt[r].aborted /\ ~TimedOut(r)
    /\ Save(r, Used(disk, Profile(r)), Used(Copy(r), Profile(r)))
    /\ Ends(r)
    /\ heeds' = [q \in Runs |-> IF q \in Busy' THEN StillHeeded(heeds[q]) ELSE Nothing]
    /\ UNCHANGED <<now, cleanup>>

Judge(r) == Overflow(r) \/ Level(r) \/ PromptFails(r) \/ Fail(r) \/ TellTimeout(r) \/ Finish(r)

Next ==
    \/ Tick
    \/ \E r \in Runs :
          \/ Begin(r) \/ Throws(r) \/ Register(r) \/ Prompt(r) \/ Timeout(r) \/ Return(r)
          \/ Judge(r) \/ Cleanup(r) \/ CleanupFails(r)

(* A run goes on: the abort timer fires, hooks end and images are loaded,  *)
(* which neither waits for the timer, and an aborted attempt unwinds,      *)
(* because abortable() rejects and the waits for the compaction and for an *)
(* idle agent have timeouts.  That an attempt returns otherwise is left to *)
(* the model's provider.                                                   *)
GoesOn(r) ==
    \/ Throws(r) \/ Register(r) \/ Prompt(r) \/ Timeout(r) \/ Judge(r)
    \/ (attempt[r].aborted /\ Return(r))

Fairness == \A r \in Runs : WF_vars(GoesOn(r))

Spec == Init /\ [][Next]_vars
FairSpec == Spec /\ Fairness
-----------------------------------------------------------------------------
(* Types; a run that goes on has a profile, and nobody waits for the end of*)
(* an attempt that is not registered.                                      *)
TypeOK ==
    /\ now \in 1..MaxNow /\ unlocked \in BOOLEAN
    /\ disk \in Stats /\ view \in [Lockless -> Stats]
    /\ run \in [Runs -> Run] /\ attempt \in [Runs -> Attempt]
    /\ \A r \in Runs : run[r].tried \subseteq Levels[r]
    /\ \A r \in Busy : run[r].index \in DOMAIN run[r].order /\ run[r].tried # {}
    /\ heeds \in [Runs -> [Profiles -> Nat]]
    /\ cleanup \in [Runs -> {"no", "waiting", "over"}] /\ stopped \subseteq Runs
    /\ \A r \in Runs : cleanup[r] = "waiting" => Registered(r)

(* run.ts:484: however overflows, thinking levels, timeouts and profiles   *)
(* take turns, every further attempt of a run spends something for good: a *)
(* profile, a level with it, a counted compaction or the one truncation.   *)
(* So it asks the model a bounded number of times.                         *)
Spent(l) == <<l.index, Cardinality(l.tried), IF l.truncated THEN 1 ELSE 0, l.overflows>>
Above(s, t) == \E i \in DOMAIN s : s[i] > t[i] /\ \A j \in 1..(i - 1) : s[j] = t[j]

CallsBounded ==
    [][\A r \in Runs : At(r, "judging") /\ At(r, "starting")' =>
          Above(Spent(run'[r]), Spent(run[r]))]_vars

(* run.ts:447-475, 420-445: unless the user has chosen it, no run uses a   *)
(* profile while a cooldown is in force that the run has found at its      *)
(* start, whatever it and the others have saved since.                     *)
CooldownsHeeded == \A r \in Busy : heeds[r][Profile(r)] <= now

(* usage.ts:127-175, 257-362: neither a cooldown in the file nor a longer  *)
(* disabling for billing is cut short while it is in force, except by a run*)
(* that was served with its profile and ends; by a save without the lock,  *)
(* which writes an old copy over what others have saved; and by a failure  *)
(* that counts as the first again, because the last before it was further  *)
(* back than the window although it still kept the profile from use.       *)
Shortened(p) ==
    \/ now < disk.cooldown[p] /\ disk'.cooldown[p] < disk.cooldown[p]
    \/ now < disk.disabled[p] /\ disk'.disabled[p] < disk.disabled[p]

CooldownsKept ==
    [][\A p \in Profiles : Shortened(p) =>
          \/ unlocked' # unlocked
          \/ disk'.errors[p] = 0 /\ \E r \in Busy : Profile(r) = p /\ r \notin Busy'
          \/ p \in disk'.restarted]_vars

(* A run whose attempt was aborted for a reset or a deletion of its session*)
(* begins no other attempt, with no other level or profile either: the     *)
(* session it would write to is gone.  The prompt that the attempt was     *)
(* being prepared for still goes out (attempt.ts:831-1045), and nothing    *)
(* after it.  (The abort timer may fire before an aborted attempt has      *)
(* unwound; the run then takes it for a timeout.)                          *)
AbortsStick == [][\A r \in stopped : ~At(r, "starting")']_vars

(* Every run that has begun ends, whatever the model answers or not (each  *)
(* begins once, so it is for good that it is not busy); with it ends every *)
(* wait for its attempt, by TypeOK.                                        *)
RunsEnd == \A r \in Runs : []<>(r \notin Busy)
=============================================================================
