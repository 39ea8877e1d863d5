------------------------- MODULE EmbeddedRunProofs --------------------------
(***************************************************************************)
(* Proofs about EmbeddedRun for any runs, profiles, thinking levels,       *)
(* backoffs and limits: the types, that cooldowns are heeded and kept,     *)
(* that every further attempt spends something, and that an aborted run    *)
(* begins no other.                                                        *)
(***************************************************************************)
EXTENDS EmbeddedRun, FiniteSetTheorems, FunctionTheorems, WellFoundedInduction, TLAPS

\* A nonempty set of natural numbers has a least element, which is what
\* Min chooses: the next usable candidate, the capped error count.
LEMMA LeastIs ==
  ASSUME NEW S \in SUBSET Nat, S # {}
  PROVE  Min(S) \in S /\ \A h \in S : Min(S) <= h
<1>1. PICK g \in S : \A h \in S : ~ (<<h, g>> \in OpToRel(<, Nat))
  BY WFMin, NatLessThanWellFounded
<1>2. \A h \in S : g <= h
  <2> SUFFICES ASSUME NEW h \in S, h < g PROVE FALSE
    OBVIOUS
  <2>1. <<h, g>> \in Nat \X Nat
    OBVIOUS
  <2>2. <<h, g>> \in OpToRel(<, Nat)
    BY <2>1 DEF OpToRel
  <2> QED BY <2>2, <1>1
<1> QED BY <1>2 DEF Min

\* The later of two times is what Max chooses.
LEMMA LatestIs ==
  ASSUME NEW a \in Nat, NEW b \in Nat
  PROVE  Max({a, b}) \in {a, b} /\ Max({a, b}) >= a /\ Max({a, b}) >= b
<1>1. \E x \in {a, b} : \A y \in {a, b} : x >= y
  <2>1. CASE a >= b
    BY <2>1
  <2>2. CASE b >= a
    BY <2>2
  <2> QED BY <2>1, <2>2
<1> QED BY <1>1 DEF Max

\* A count that grows by one error, up to the last backoff.
LEMMA Capped ==
  ASSUME NEW N \in Nat \ {0}, NEW n \in 0..N
  PROVE  Min({n + 1, N}) \in 1..N /\ Min({n + 1, N}) >= n
<1> DEFINE S == {n + 1, N}
<1>1. S \in SUBSET Nat /\ S # {}
  OBVIOUS
<1> HIDE DEF S
<1>2. Min(S) \in S /\ \A h \in S : Min(S) <= h
  BY <1>1, LeastIs
<1> QED BY <1>2 DEF S

\* The tables of backoffs.
LEMMA Tables ==
  /\ Len(Backoff) \in Nat \ {0} /\ DOMAIN Backoff = 1..Len(Backoff)
  /\ Len(Billing) \in Nat \ {0} /\ DOMAIN Billing = 1..Len(Billing)
  /\ \A n \in DOMAIN Backoff : Backoff[n] \in Nat \ {0}
  /\ \A n \in DOMAIN Billing : Billing[n] \in Nat \ {0}
BY RunAssumption

\* When a profile may be used again: not before its cooldown and its
\* disabling are over.
LEMMA UntilType ==
  ASSUME NEW s \in Stats, NEW p \in Profiles
  PROVE  /\ Until(s, p) \in {s.cooldown[p], s.disabled[p]} /\ Until(s, p) \in Nat
         /\ Until(s, p) >= s.cooldown[p] /\ Until(s, p) >= s.disabled[p]
<1>1. s.cooldown[p] \in Nat /\ s.disabled[p] \in Nat
  BY DEF Stats
<1> QED BY <1>1, LatestIs DEF Until

(* Errors, billing errors, the last failure, cooldown and disabling are    *)
(* functions of the right types.                                           *)
Counts(e, b, l, c, d) ==
    /\ e \in [Profiles -> 0..Len(Backoff)] /\ b \in [Profiles -> 0..Len(Billing)]
    /\ l \in [Profiles -> Nat] /\ c \in [Profiles -> Nat] /\ d \in [Profiles -> Nat]

\* The profiles can be ranked, so there is a store in which none has failed.
LEMMA BlankType == Blank \in NeverFailed /\ NeverFailed \subseteq Stats
<1>1. Cardinality(Profiles) \in Nat /\ ExistsBijection(Ranks, Profiles)
  BY FS_CardinalityType, RunAssumption DEF Ranks
<1>2. Bijection(Profiles, Ranks) # {}
  BY <1>1, Fun_ExistsBijSymmetric, Fun_ExistsBij
<1>3. Injection(Profiles, Ranks) # {}
  BY <1>2, Fun_IsBij DEF Bijection
<1>4. Counts(Nothing, Nothing, Nothing, Nothing, Nothing)
  BY Tables DEF Nothing, Counts
<1>5. NeverFailed \subseteq Stats
  BY <1>4 DEF NeverFailed, Stats, Counts
<1>6. \E s : s \in NeverFailed
  <2>1. PICK u : u \in Injection(Profiles, Ranks)
    BY <1>3
  <2>2. [errors |-> Nothing, billing |-> Nothing, last |-> Nothing, cooldown |-> Nothing,
         disabled |-> Nothing, used |-> u, restarted |-> {}] \in NeverFailed
    BY <2>1 DEF NeverFailed
  <2> QED BY <2>2
<1>7. Blank \in NeverFailed
  BY <1>6 DEF Blank
<1> QED BY <1>5, <1>7

\* A store with profiles that have failed for billing.
LEMMA DebtType ==
  ASSUME NEW s \in NeverFailed, NEW P \in SUBSET Profiles, now \in Nat
  PROVE  /\ InDebt(s, P) \in Stats
         /\ \A p \in Profiles : /\ InDebt(s, P).cooldown[p] = 0
                                /\ IF p \in P
                                   THEN /\ InDebt(s, P).billing[p] = Len(Billing)
                                        /\ InDebt(s, P).disabled[p] = now + Billing[Len(Billing)]
                                   ELSE InDebt(s, P).disabled[p] = 0
<1> DEFINE f(x) == [p \in Profiles |-> IF p \in P THEN x ELSE 0]
<1> DEFINE e == f(Len(Backoff))  b == f(Len(Billing))  l == f(now)
<1> DEFINE d == f(now + Billing[Len(Billing)])
<1>1. s \in Stats /\ s.cooldown = Nothing
  BY BlankType DEF NeverFailed
<1>2. now + Billing[Len(Billing)] \in Nat
  BY Tables
<1>3. Counts(e, b, l, s.cooldown, d)
  BY <1>1, <1>2, Tables DEF Counts, Stats
<1>4. \A p \in Profiles : /\ s.cooldown[p] = 0
                          /\ IF p \in P THEN b[p] = Len(Billing) /\ d[p] = now + Billing[Len(Billing)]
                                        ELSE d[p] = 0
  BY <1>1 DEF Nothing
<1>5. InDebt(s, P) = [s EXCEPT !.errors = e, !.billing = b, !.last = l, !.disabled = d]
  BY DEF InDebt
<1> HIDE DEF e, b, l, d
<1>6. /\ InDebt(s, P).billing = b /\ InDebt(s, P).disabled = d /\ InDebt(s, P).cooldown = s.cooldown
      /\ InDebt(s, P) \in Stats
  BY <1>1, <1>3, <1>5 DEF Stats, Counts
<1> QED BY <1>4, <1>6

\* clearExpiredCooldowns() keeps the types; a cooldown or disabling that it
\* leaves is the one that was there, and so are the counts then.
LEMMA ClearedType ==
  ASSUME NEW s \in Stats, now \in Nat
  PROVE  /\ Cleared(s) \in Stats
         /\ \A p \in Profiles :
               /\ Cleared(s).cooldown[p] = IF now < s.cooldown[p] THEN s.cooldown[p] ELSE 0
               /\ Cleared(s).disabled[p] = IF now < s.disabled[p] THEN s.disabled[p] ELSE 0
               /\ Cooling(s, p) => /\ Cleared(s).errors[p] = s.errors[p]
                                   /\ Cleared(s).billing[p] = s.billing[p]
                                   /\ p \in Cleared(s).restarted <=> p \in s.restarted
<1> DEFINE fresh == {p \in Profiles : Until(s, p) # 0 /\ ~Cooling(s, p)}
<1> DEFINE e == [p \in Profiles |-> IF p \in fresh THEN 0 ELSE s.errors[p]]
<1> DEFINE b == [p \in Profiles |-> IF p \in fresh THEN 0 ELSE s.billing[p]]
<1> DEFINE c == [p \in Profiles |-> IF now < s.cooldown[p] THEN s.cooldown[p] ELSE 0]
<1> DEFINE d == [p \in Profiles |-> IF now < s.disabled[p] THEN s.disabled[p] ELSE 0]
<1> DEFINE R == s.restarted \ fresh
<1>1. Cleared(s) = [s EXCEPT !.cooldown = c, !.disabled = d, !.errors = e, !.billing = b,
                             !.restarted = R]
  BY DEF Cleared, Stats
<1>2. \A p \in Profiles : Cooling(s, p) => p \notin fresh
  OBVIOUS
<1> HIDE DEF fresh
<1>3. Counts(e, b, s.last, c, d) /\ R \subseteq Profiles
  BY Tables DEF Counts, Stats
<1>4. \A p \in Profiles : Cooling(s, p) => e[p] = s.errors[p] /\ b[p] = s.billing[p]
                                           /\ (p \in R <=> p \in s.restarted)
  BY <1>2
<1>5. \A p \in Profiles : /\ c[p] = IF now < s.cooldown[p] THEN s.cooldown[p] ELSE 0
                          /\ d[p] = IF now < s.disabled[p] THEN s.disabled[p] ELSE 0
  OBVIOUS
<1> HIDE DEF e, b, c, d, R
<1>6. /\ Cleared(s).errors = e /\ Cleared(s).billing = b /\ Cleared(s).cooldown = c
      /\ Cleared(s).disabled = d /\ Cleared(s).restarted = R /\ Cleared(s) \in Stats
  BY <1>1, <1>3 DEF Stats, Counts
<1> QED BY <1>4, <1>5, <1>6

\* The failure before is further back than the window.
Expired(s, p) == s.last[p] # 0 /\ now - s.last[p] > Window

\* What a failure does to the profile: it counts once more, from nothing if
\* the window is over, up to the longest backoff, and the backoff is that of
\* the count; what it does not prolong it leaves.
Fallen(s, t, p, reason) ==
    /\ t.errors[p] \in DOMAIN Backoff
    /\ t.billing[p] \in 0..Len(Billing)
    /\ p \in t.restarted <=> p \in s.restarted \/ (Expired(s, p) /\ Cooling(s, p))
    /\ ~Expired(s, p) => t.errors[p] >= s.errors[p] /\ t.billing[p] >= s.billing[p]
    /\ IF reason = "billing"
       THEN /\ t.billing[p] \in DOMAIN Billing /\ t.disabled[p] = now + Billing[t.billing[p]]
            /\ t.cooldown[p] = s.cooldown[p]
       ELSE /\ t.cooldown[p] = now + Backoff[t.errors[p]]
            /\ t.disabled[p] = s.disabled[p]

\* The statistics of a profile are the same in s and t.
Alike(s, t, q) ==
    /\ t.errors[q] = s.errors[q] /\ t.billing[q] = s.billing[q]
    /\ t.cooldown[q] = s.cooldown[q] /\ t.disabled[q] = s.disabled[q]
    /\ q \in t.restarted <=> q \in s.restarted

\* computeNextProfileUsageStats() keeps the types, and only the profile that
\* failed is changed.
LEMMA FailedType ==
  ASSUME NEW s \in Stats, NEW p \in Profiles, NEW reason, now \in Nat
  PROVE  /\ Failed(s, p, reason) \in Stats
         /\ Fallen(s, Failed(s, p, reason), p, reason)
         /\ \A q \in Profiles \ {p} : Alike(s, Failed(s, p, reason), q)
<1> DEFINE x == Expired(s, p)
<1> DEFINE m == IF x THEN 0 ELSE s.errors[p]  k == IF x THEN 0 ELSE s.billing[p]
<1> DEFINE n == Min({m + 1, Len(Backoff)})  h == Min({k + 1, Len(Billing)})
<1>1. s.errors[p] \in 0..Len(Backoff) /\ s.billing[p] \in 0..Len(Billing)
  BY DEF Stats
<1>2. m \in 0..Len(Backoff) /\ k \in 0..Len(Billing)
  BY <1>1, Tables
<1>3. (~x => m = s.errors[p] /\ k = s.billing[p])
  OBVIOUS
<1> DEFINE owes == reason = "billing"
<1> DEFINE R == IF x /\ Cooling(s, p) THEN s.restarted \union {p} ELSE s.restarted
<1> DEFINE e == [s.errors EXCEPT ![p] = n]  l == [s.last EXCEPT ![p] = now]
<1> DEFINE b == [s.billing EXCEPT ![p] = IF owes THEN h ELSE k]
<1> DEFINE c == [s.cooldown EXCEPT ![p] = IF owes THEN @ ELSE now + Backoff[n]]
<1> DEFINE d == [s.disabled EXCEPT ![p] = IF owes THEN now + Billing[h] ELSE @]
<1>4. Failed(s, p, reason) = [s EXCEPT !.errors = e, !.billing = b, !.last = l, !.cooldown = c,
                                       !.disabled = d, !.restarted = R]
  <2> DEFINE t == [s EXCEPT !.errors[p] = n, !.last[p] = now, !.restarted = R]
  <2>1. CASE owes
    <3>1. Failed(s, p, reason) = [t EXCEPT !.billing[p] = h, !.disabled[p] = now + Billing[h]]
      BY <2>1 DEF Failed, Expired
    <3>2. s.cooldown = c
      BY <2>1 DEF Stats
    <3>3. b = [s.billing EXCEPT ![p] = h] /\ d = [s.disabled EXCEPT ![p] = now + Billing[h]]
      BY <2>1
    <3> HIDE DEF n, h, k, m, R, x, b, c, d
    <3> QED BY <3>1, <3>2, <3>3 DEF Stats
  <2>2. CASE ~owes
    <3>1. Failed(s, p, reason) = [t EXCEPT !.billing[p] = k, !.cooldown[p] = now + Backoff[n]]
      BY <2>2 DEF Failed, Expired
    <3>2. s.disabled = d
      BY <2>2 DEF Stats
    <3>3. b = [s.billing EXCEPT ![p] = k] /\ c = [s.cooldown EXCEPT ![p] = now + Backoff[n]]
      BY <2>2
    <3> HIDE DEF n, h, k, m, R, x, b, c, d
    <3> QED BY <3>1, <3>2, <3>3 DEF Stats
  <2> QED BY <2>1, <2>2
<1>5. /\ R \subseteq Profiles /\ \A q \in Profiles \ {p} : q \in R <=> q \in s.restarted
      /\ p \in R <=> p \in s.restarted \/ (x /\ Cooling(s, p))
  BY DEF Stats
<1> HIDE DEF x, m, k, R
<1>6. n \in 1..Len(Backoff) /\ n >= m /\ h \in 1..Len(Billing) /\ h >= k
  BY <1>2, Tables, Capped
<1> HIDE DEF n, h
<1>7. now + Backoff[n] \in Nat /\ now + Billing[h] \in Nat
      /\ (IF owes THEN h ELSE k) \in 0..Len(Billing) /\ (IF owes THEN h ELSE k) >= k
      /\ n \in DOMAIN Backoff /\ h \in DOMAIN Billing
  BY <1>2, <1>6, Tables
<1>8. Counts(e, b, l, c, d)
  BY <1>6, <1>7 DEF Counts, Stats
<1>9. /\ e[p] = n /\ b[p] = (IF owes THEN h ELSE k)
      /\ c[p] = (IF owes THEN s.cooldown[p] ELSE now + Backoff[n])
      /\ d[p] = (IF owes THEN now + Billing[h] ELSE s.disabled[p])
      /\ \A q \in Profiles \ {p} : /\ e[q] = s.errors[q] /\ b[q] = s.billing[q]
                                   /\ c[q] = s.cooldown[q] /\ d[q] = s.disabled[q]
  BY DEF Stats
<1> DEFINE F == Failed(s, p, reason)
<1> HIDE DEF e, b, l, c, d
<1>10. /\ F.errors = e /\ F.billing = b /\ F.cooldown = c /\ F.disabled = d /\ F.restarted = R
       /\ F \in Stats
  BY <1>4, <1>5, <1>8 DEF Stats, Counts
<1> HIDE DEF F
<1>11. Fallen(s, F, p, reason)
  <2>1. F.errors[p] = n /\ F.billing[p] = (IF owes THEN h ELSE k) /\ F.restarted = R
        /\ F.cooldown[p] = (IF owes THEN s.cooldown[p] ELSE now + Backoff[n])
        /\ F.disabled[p] = (IF owes THEN now + Billing[h] ELSE s.disabled[p])
    BY <1>9, <1>10
  <2>2. ~Expired(s, p) => n >= s.errors[p] /\ (IF owes THEN h ELSE k) >= s.billing[p]
    BY <1>3, <1>6, <1>7 DEF x
  <2>3. p \in R <=> p \in s.restarted \/ (Expired(s, p) /\ Cooling(s, p))
    BY <1>5 DEF x
  <2> QED BY <1>7, <2>1, <2>2, <2>3 DEF Fallen
<1>12. \A q \in Profiles \ {p} : Alike(s, F, q)
  BY <1>5, <1>9, <1>10 DEF Alike
<1> QED BY <1>10, <1>11, <1>12 DEF F

\* markAuthProfileUsed() keeps the types: the profile is the one used last,
\* the others keep their order, and it may be used at once.
LEMMA UsedType ==
  ASSUME NEW s \in Stats, NEW p \in Profiles
  PROVE  /\ Used(s, p) \in Stats
         /\ Used(s, p).cooldown[p] = 0 /\ Used(s, p).disabled[p] = 0 /\ Used(s, p).errors[p] = 0
         /\ \A q \in Profiles \ {p} : Alike(s, Used(s, p), q)
<1> DEFINE N == Cardinality(Profiles)
<1> DEFINE f == [q \in Profiles |-> IF q = p THEN N
                                   ELSE IF s.used[q] > s.used[p] THEN s.used[q] - 1 ELSE s.used[q]]
<1>1. N \in Nat
  BY FS_CardinalityType, RunAssumption
<1>2. /\ s.used \in [Profiles -> 1..N]
      /\ \A q, t \in Profiles : s.used[q] = s.used[t] => q = t
  BY DEF Stats, Ranks, Injection, IsInjective
<1> HIDE DEF N
<1>3. f \in [Profiles -> 1..N]
  BY <1>1, <1>2
<1>4. ASSUME NEW q \in Profiles, NEW t \in Profiles, f[q] = f[t] PROVE q = t
  <2>1. s.used[q] \in 1..N /\ s.used[t] \in 1..N /\ s.used[p] \in 1..N
    BY <1>2
  <2>2. q # p => s.used[q] # s.used[p]
    BY <1>2
  <2>3. t # p => s.used[t] # s.used[p]
    BY <1>2
  <2>4. q # t => s.used[q] # s.used[t]
    BY <1>2
  <2> QED BY <1>1, <1>4, <2>1, <2>2, <2>3, <2>4
<1>5. f \in Injection(Profiles, Ranks)
  BY <1>3, <1>4 DEF Injection, IsInjective, Ranks, N
<1> DEFINE e == [s.errors EXCEPT ![p] = 0]  b == [s.billing EXCEPT ![p] = 0]
<1> DEFINE c == [s.cooldown EXCEPT ![p] = 0]  d == [s.disabled EXCEPT ![p] = 0]
<1> DEFINE R == s.restarted \ {p}
<1>6. Counts(e, b, s.last, c, d) /\ R \subseteq Profiles
  BY Tables DEF Counts, Stats
<1>7. /\ e[p] = 0 /\ c[p] = 0 /\ d[p] = 0
      /\ \A q \in Profiles \ {p} : /\ e[q] = s.errors[q] /\ b[q] = s.billing[q]
                                   /\ c[q] = s.cooldown[q] /\ d[q] = s.disabled[q]
                                   /\ q \in R <=> q \in s.restarted
  BY DEF Stats
<1>8. Used(s, p) = [s EXCEPT !.errors = e, !.billing = b, !.cooldown = c, !.disabled = d,
                             !.restarted = R, !.used = f]
  BY DEF Used, N, Stats
<1> HIDE DEF f, e, b, c, d, R
<1>9. /\ Used(s, p).errors = e /\ Used(s, p).billing = b /\ Used(s, p).cooldown = c
      /\ Used(s, p).disabled = d /\ Used(s, p).restarted = R /\ Used(s, p) \in Stats
  BY <1>5, <1>6, <1>8 DEF Stats, Counts
<1> QED BY <1>7, <1>9 DEF Alike

\* The candidates are a list of profiles.
LEMMA CandidatesType ==
  ASSUME NEW r \in Runs, NEW s, NEW o \in Candidates(r, s)
  PROVE  o \in Seq(Profiles)
<1>1. CASE r \in Locked
  <2>1. Preferred[r] \in Profiles /\ o = <<Preferred[r]>>
    BY <1>1, RunAssumption DEF Candidates
  <2> QED BY <2>1
<1>2. CASE r \notin Locked
  <2>1. o \in [1..Cardinality(Profiles) -> Profiles]
    BY <1>2 DEF Candidates, Injection, Ranks
  <2>2. Cardinality(Profiles) \in Nat
    BY FS_CardinalityType, RunAssumption
  <2> QED BY <2>1, <2>2
<1> QED BY <1>1, <1>2

\* advanceAuthProfile() moves forward to a candidate of the list.
LEMMA WithType ==
  ASSUME NEW r \in Runs, NEW s, NEW Keys, NEW l \in Run, Usable(r, l, s, Keys) # {}
  PROVE  /\ With(r, l, s, Keys) \in Run
         /\ With(r, l, s, Keys).index \in Usable(r, l, s, Keys)
         /\ With(r, l, s, Keys).index \in DOMAIN With(r, l, s, Keys).order
         /\ With(r, l, s, Keys).index > l.index
         /\ With(r, l, s, Keys).order = l.order
         /\ With(r, l, s, Keys).tried = {Initial}
         /\ With(r, l, s, Keys).tried \subseteq Levels[r]
<1> DEFINE U == Usable(r, l, s, Keys)  m == Min(U)
<1>1. l.index \in Nat /\ l.order \in Seq(Profiles) /\ Len(l.order) \in Nat
  BY DEF Run
<1>2. U \in SUBSET Nat /\ \A j \in U : j > l.index /\ j <= Len(l.order) /\ j \in DOMAIN l.order
  BY <1>1 DEF Usable
<1> HIDE DEF U
<1>3. m \in U
  BY <1>2, LeastIs DEF U
<1>4. {Initial} \subseteq Levels[r]
  BY RunAssumption
<1>5. {Initial} \in SUBSET UNION {Levels[q] : q \in Runs}
  BY <1>4
<1>6. With(r, l, s, Keys) = [l EXCEPT !.index = m, !.tried = {Initial}]
  BY DEF With, U
<1> HIDE DEF m
<1>7. m \in Nat /\ m > l.index /\ m \in DOMAIN l.order
  BY <1>2, <1>3
<1>8. /\ With(r, l, s, Keys).index = m /\ With(r, l, s, Keys).order = l.order
      /\ With(r, l, s, Keys).tried = {Initial} /\ With(r, l, s, Keys) \in Run
  BY <1>5, <1>6, <1>7 DEF Run
<1> QED BY <1>3, <1>4, <1>7, <1>8 DEF U


-----------------------------------------------------------------------------
(* A run with its types: one that goes on has a profile and has tried a    *)
(* thinking level.                                                         *)
RunTyped(r) ==
    /\ run[r] \in Run /\ run[r].tried \subseteq Levels[r]
    /\ r \in Busy => run[r].index \in DOMAIN run[r].order /\ run[r].tried # {}

(* The locals that a run begins with, and those it leaves.                 *)
LEMMA BlankRun ==
  /\ NoRun \in Run /\ NoRun.tried = {} /\ NoRun.phase = "queued" /\ NoAttempt \in Attempt
  /\ [NoRun EXCEPT !.phase = "ended"] \in Run /\ [NoRun EXCEPT !.phase = "ended"].tried = {}
  /\ [NoRun EXCEPT !.phase = "ended"].phase = "ended"
<1>1. <<>> \in Seq(Profiles) /\ {} \in SUBSET UNION {Levels[r] : r \in Runs}
  OBVIOUS
<1>2. MaxOverflow \in Nat
  BY RunAssumption
<1>3. NoRun \in Run /\ NoRun.tried = {} /\ NoRun.phase = "queued"
  BY <1>1, <1>2 DEF NoRun, Run, Phases
<1>4. NoAttempt \in Attempt
  BY DEF NoAttempt, Attempt
<1>5. /\ [NoRun EXCEPT !.phase = "ended"].tried = {}
      /\ [NoRun EXCEPT !.phase = "ended"].phase = "ended"
      /\ [NoRun EXCEPT !.phase = "ended"] \in Run
  BY <1>3 DEF Run, Phases
<1> QED BY <1>3, <1>4, <1>5

\* Going round the loop: the run starts an attempt with the locals l.
LEMMA AgainType ==
  ASSUME TypeOK, NEW r \in Runs, NEW l \in Run, Again(r, l),
         l.tried \subseteq Levels[r], l.tried # {}, l.index \in DOMAIN l.order
  PROVE  /\ run' \in [Runs -> Run] /\ attempt' \in [Runs -> Attempt]
         /\ \A q \in Runs \ {r} : run'[q] = run[q] /\ attempt'[q] = attempt[q]
         /\ attempt'[r] = NoAttempt /\ run'[r].phase = "starting" /\ RunTyped(r)'
         /\ run'[r].index = l.index /\ run'[r].order = l.order /\ run'[r].tried = l.tried
         /\ run'[r].overflows = l.overflows /\ run'[r].truncated = l.truncated
<1> DEFINE m == [l EXCEPT !.phase = "starting"]
<1>1. /\ m \in Run /\ m.phase = "starting" /\ m.index = l.index /\ m.order = l.order
      /\ m.tried = l.tried /\ m.overflows = l.overflows /\ m.truncated = l.truncated
  BY DEF Run, Phases
<1>2. run' = [run EXCEPT ![r] = m] /\ attempt' = [attempt EXCEPT ![r] = NoAttempt]
  BY DEF Again
<1> HIDE DEF m
<1>3. /\ run' \in [Runs -> Run] /\ run'[r] = m /\ \A q \in Runs \ {r} : run'[q] = run[q]
  BY <1>1, <1>2 DEF TypeOK
<1>4. attempt' \in [Runs -> Attempt] /\ attempt'[r] = NoAttempt
      /\ \A q \in Runs \ {r} : attempt'[q] = attempt[q]
  BY <1>2, BlankRun DEF TypeOK
<1>5. RunTyped(r)'
  BY <1>1, <1>3 DEF RunTyped
<1> QED BY <1>1, <1>3, <1>4, <1>5

\* The run throws or replies.
LEMMA EndsType ==
  ASSUME TypeOK, NEW r \in Runs, Ends(r)
  PROVE  /\ run' \in [Runs -> Run] /\ attempt' \in [Runs -> Attempt]
         /\ view' \in [Lockless -> Stats]
         /\ \A q \in Runs \ {r} : run'[q] = run[q] /\ attempt'[q] = attempt[q]
         /\ attempt'[r] = NoAttempt /\ run'[r].phase = "ended" /\ RunTyped(r)'
         /\ stopped' = stopped \ {r}
<1> DEFINE m == [NoRun EXCEPT !.phase = "ended"]
<1>1. m \in Run /\ m.phase = "ended" /\ m.tried = {}
  BY BlankRun
<1>2. run' = [run EXCEPT ![r] = m] /\ attempt' = [attempt EXCEPT ![r] = NoAttempt]
  BY DEF Ends
<1> HIDE DEF m
<1>3. /\ run' \in [Runs -> Run] /\ run'[r] = m /\ \A q \in Runs \ {r} : run'[q] = run[q]
  BY <1>1, <1>2 DEF TypeOK
<1>4. attempt' \in [Runs -> Attempt] /\ attempt'[r] = NoAttempt
      /\ \A q \in Runs \ {r} : attempt'[q] = attempt[q]
  BY <1>2, BlankRun DEF TypeOK
<1>5. RunTyped(r)'
  BY <1>1, <1>3 DEF RunTyped, Busy
<1>6. view' \in [Lockless -> Stats]
  BY BlankType DEF Ends, Keeps, TypeOK
<1> QED BY <1>1, <1>3, <1>4, <1>5, <1>6 DEF Ends

\* A busy run goes to its next step with the same locals.
LEMMA GoesType ==
  ASSUME TypeOK, NEW r \in Busy, NEW s \in Phases \ {"queued", "ended"}, Goes(r, s)
  PROVE  /\ run' \in [Runs -> Run]
         /\ \A q \in Runs \ {r} : run'[q] = run[q]
         /\ run'[r].phase = s /\ RunTyped(r)'
         /\ run'[r].index = run[r].index /\ run'[r].order = run[r].order
         /\ run'[r].tried = run[r].tried
<1> DEFINE m == [run[r] EXCEPT !.phase = s]
<1>1. run[r] \in Run /\ r \in Runs
  BY DEF TypeOK, Busy
<1>2. m \in Run /\ m.phase = s /\ m.tried = run[r].tried /\ m.index = run[r].index
      /\ m.order = run[r].order
  BY <1>1 DEF Run
<1>3. run' = [run EXCEPT ![r] = m]
  BY DEF Goes
<1> HIDE DEF m
<1>4. run' \in [Runs -> Run] /\ run'[r] = m /\ \A q \in Runs \ {r} : run'[q] = run[q]
  BY <1>1, <1>2, <1>3 DEF TypeOK
<1>5. RunTyped(r)'
  BY <1>1, <1>2, <1>4 DEF RunTyped, TypeOK
<1> QED BY <1>2, <1>4, <1>5

\* The waiters for the attempt of r are told of its end, and those for other
\* attempts are left alone.
Waits(r) ==
    /\ cleanup' \in [Runs -> {"no", "waiting", "over"}]
    /\ cleanup'[r] = "waiting" => run'[r].phase \in {"preparing", "prompting"}
    /\ \A q \in Runs \ {r} : cleanup'[q] = cleanup[q]

\* Nobody waits for an attempt that is not registered.
LEMMA QuietWaits ==
  ASSUME TypeOK, NEW r \in Runs, cleanup' = cleanup, ~Registered(r)
  PROVE  Waits(r)
BY DEF Waits, TypeOK

(* clearActiveEmbeddedRun() tells those that wait.                         *)
LEMMA ToldWaits ==
  ASSUME TypeOK, NEW r \in Runs, Told(r)
  PROVE  Waits(r)
BY DEF Waits, Told, TypeOK

\* Every run has its type, and nobody waits for one that is not registered.
AllRuns ==
    /\ \A q \in Runs : run[q].tried \subseteq Levels[q]
    /\ \A q \in Busy : run[q].index \in DOMAIN run[q].order /\ run[q].tried # {}
    /\ \A q \in Runs : cleanup[q] = "waiting" => Registered(q)

\* What one run does leaves the types of the others.
LEMMA OneType ==
  ASSUME TypeOK, NEW r \in Runs, run' \in [Runs -> Run], RunTyped(r)',
         \A q \in Runs \ {r} : run'[q] = run[q], Waits(r)
  PROVE  AllRuns' /\ cleanup' \in [Runs -> {"no", "waiting", "over"}]
BY DEF TypeOK, RunTyped, Busy, At, Registered, Waits, AllRuns


(* Initially no run has begun and no profile has failed.                   *)
LEMMA TypeInit == Init => TypeOK
<1> SUFFICES ASSUME Init PROVE TypeOK
  OBVIOUS
<1>1. Busy = {}
  BY BlankRun DEF Init, Busy
<1>2. Nothing \in [Profiles -> Nat]
  BY DEF Nothing
<1>3. MaxNow \in Nat \ {0} /\ Billed \subseteq Profiles /\ now = 1
  BY RunAssumption DEF Init
<1>4. disk \in Stats /\ view \in [Lockless -> Stats]
  <2>1. PICK s \in NeverFailed, P \in {{}, Billed} : disk = InDebt(s, P)
    BY DEF Init
  <2>2. P \in SUBSET Profiles /\ now \in Nat
    BY <1>3
  <2>3. disk \in Stats
    BY <2>1, <2>2, DebtType
  <2> QED BY <2>3, BlankType DEF Init
<1>5. run \in [Runs -> Run] /\ attempt \in [Runs -> Attempt]
      /\ \A r \in Runs : run[r].tried \subseteq Levels[r]
  BY BlankRun DEF Init
<1>6. heeds \in [Runs -> [Profiles -> Nat]] /\ cleanup \in [Runs -> {"no", "waiting", "over"}]
      /\ (\A r \in Runs : cleanup[r] # "waiting") /\ stopped \subseteq Runs
  BY <1>2 DEF Init
<1>7. now \in 1..MaxNow
  BY <1>3
<1>8. unlocked \in BOOLEAN
  BY DEF Init
<1> QED BY <1>1, <1>4, <1>5, <1>6, <1>7, <1>8 DEF TypeOK

\* A save, with the lock or without: what was right of both candidates is
\* right of the file.
LEMMA SaveType ==
  ASSUME NEW r \in Runs, NEW fresh \in Stats, NEW stale \in Stats, Save(r, fresh, stale), TypeOK
  PROVE  disk' \in Stats /\ unlocked' \in BOOLEAN
BY DEF Save, TypeOK

\* The copy that a run would save without the lock is its own.
LEMMA CopyType == ASSUME TypeOK, NEW r \in Runs PROVE Copy(r) \in Stats
BY DEF Copy, TypeOK

\* A run that is busy has a profile.
LEMMA ProfileType ==
  ASSUME TypeOK, NEW r \in Busy
  PROVE  r \in Runs /\ Profile(r) \in Profiles
<1>1. r \in Runs /\ run[r].order \in Seq(Profiles) /\ run[r].index \in DOMAIN run[r].order
  BY DEF TypeOK, Busy, Run
<1> QED BY <1>1 DEF Profile

(* The histories of cooldowns keep their type.                             *)
LEMMA HeedsType ==
  ASSUME TypeOK
  PROVE  /\ Nothing \in [Profiles -> Nat]
         /\ \A r \in Runs : StillHeeded(heeds[r]) \in [Profiles -> Nat]
         /\ \A r \in Runs : InForce(heeds[r]) \in [Profiles -> Nat]
BY DEF Nothing, StillHeeded, InForce, TypeOK

(* The copy that a run keeps has the type of the file.                     *)
LEMMA KeepsType ==
  ASSUME TypeOK, NEW r \in Runs, NEW s \in Stats, Keeps(r, s)
  PROVE  view' \in [Lockless -> Stats]
BY DEF Keeps, TypeOK

\* A run that gives up.
LEMMA GivesType ==
  ASSUME TypeOK, NEW r \in Runs, Gives(r), Waits(r), UNCHANGED <<now, disk, unlocked>>
  PROVE  TypeOK'
<1>1. Ends(r) /\ heeds' \in [Runs -> [Profiles -> Nat]]
  BY HeedsType DEF Gives, TypeOK
<1>2. /\ run' \in [Runs -> Run] /\ attempt' \in [Runs -> Attempt] /\ view' \in [Lockless -> Stats]
      /\ \A q \in Runs \ {r} : run'[q] = run[q]
      /\ RunTyped(r)'
      /\ stopped' = stopped \ {r}
  BY <1>1, EndsType
<1>3. AllRuns' /\ cleanup' \in [Runs -> {"no", "waiting", "over"}]
  BY <1>2, OneType
<1> QED BY <1>1, <1>2, <1>3 DEF TypeOK, AllRuns

\* A run that goes on with other locals.
LEMMA RoundType ==
  ASSUME TypeOK, NEW r \in Runs, NEW l \in Run, Again(r, l),
         l.tried \subseteq Levels[r], l.tried # {}, l.index \in DOMAIN l.order,
         Waits(r), now' = now, stopped' = stopped,
         disk' \in Stats, unlocked' \in BOOLEAN, view' \in [Lockless -> Stats],
         heeds' \in [Runs -> [Profiles -> Nat]]
  PROVE  TypeOK'
<1>1. /\ run' \in [Runs -> Run] /\ attempt' \in [Runs -> Attempt]
      /\ \A q \in Runs \ {r} : run'[q] = run[q]
      /\ RunTyped(r)'
  BY AgainType
<1>2. AllRuns' /\ cleanup' \in [Runs -> {"no", "waiting", "over"}]
  BY <1>1, OneType
<1> QED BY <1>1, <1>2 DEF TypeOK, AllRuns

\* What a judging run is.
LEMMA Judging ==
  ASSUME TypeOK, NEW r \in Runs, At(r, "starting") \/ At(r, "judging") \/ At(r, "finishing")
  PROVE  /\ r \in Busy /\ ~Registered(r) /\ run[r] \in Run
         /\ run[r].tried \subseteq Levels[r] /\ run[r].tried # {}
         /\ run[r].index \in DOMAIN run[r].order
BY DEF TypeOK, At, Busy, Registered

\* A run that tries another thinking level goes on with one more of them.
LEMMA RethinksType ==
  ASSUME TypeOK, NEW r \in Runs, At(r, "judging"), Rethinks(r)
  PROVE  \E l \in Run : \E v \in Levels[r] \ run[r].tried :
            /\ Again(r, l) /\ l.tried = run[r].tried \union {v}
            /\ l.tried \subseteq Levels[r] /\ l.tried # {}
            /\ l.index = run[r].index /\ l.order = run[r].order /\ l.index \in DOMAIN l.order
<1>1. run[r] \in Run /\ run[r].tried \subseteq Levels[r] /\ run[r].index \in DOMAIN run[r].order
  BY Judging
<1>2. PICK v \in Levels[r] \ run[r].tried : Again(r, [run[r] EXCEPT !.tried = @ \union {v}])
  BY DEF Rethinks
<1> DEFINE l == [run[r] EXCEPT !.tried = @ \union {v}]
<1>3. run[r].tried \union {v} \in SUBSET UNION {Levels[q] : q \in Runs}
  BY <1>1, <1>2 DEF Run
<1>4. l \in Run /\ l.tried = run[r].tried \union {v} /\ l.index = run[r].index
      /\ l.order = run[r].order
  BY <1>1, <1>3 DEF Run
<1>5. Again(r, l)
  BY <1>2
<1> HIDE DEF l
<1> QED BY <1>1, <1>2, <1>4, <1>5

\* What a run does that has no profile left.
LEMMA GivesUpHow ==
  ASSUME NEW r, GivesUp(r)
  PROVE  \/ Rethinks(r) /\ Keeps(r, disk') /\ stopped' = stopped
         \/ Ends(r)
         \/ Goes(r, "finishing") /\ Keeps(r, disk') /\ attempt' = attempt /\ stopped' = stopped
BY DEF GivesUp

\* A failure of the profile, whatever its reason, is saved.
LEMMA FailSaves ==
  ASSUME TypeOK, NEW r \in Runs, Fail(r)
  PROVE  /\ r \in Busy /\ At(r, "judging") /\ Profile(r) \in Profiles /\ now' = now
         /\ \E reason \in {"billing", "other"} :
               Save(r, Failed(disk, Profile(r), reason), Failed(Copy(r), Profile(r), reason))
         /\ disk' \in Stats /\ unlocked' \in BOOLEAN
<1>1. At(r, "judging") /\ now' = now
  BY DEF Fail, Fails, Judges
<1>2. r \in Busy /\ Profile(r) \in Profiles /\ now \in Nat /\ disk \in Stats /\ Copy(r) \in Stats
  <2>1. r \in Busy
    BY <1>1, Judging
  <2>2. Profile(r) \in Profiles
    BY <2>1, ProfileType
  <2>3. Copy(r) \in Stats
    BY CopyType
  <2>4. now \in Nat /\ disk \in Stats
    BY DEF TypeOK
  <2> QED BY <2>1, <2>2, <2>3, <2>4
<1>3. PICK reason \in {"billing", "other"} :
         Save(r, Failed(disk, Profile(r), reason), Failed(Copy(r), Profile(r), reason))
  BY DEF Fail, Reasons
<1>4. Failed(disk, Profile(r), reason) \in Stats /\ Failed(Copy(r), Profile(r), reason) \in Stats
  BY <1>2, FailedType
<1>5. disk' \in Stats /\ unlocked' \in BOOLEAN
  BY <1>3, <1>4, SaveType
<1> QED BY <1>1, <1>2, <1>3, <1>5

(* Every step of a run, its attempt, its cleanup and the clock keeps the   *)
(* types.                                                                  *)
LEMMA TypeNext == TypeOK /\ [Next]_vars => TypeOK'
<1> SUFFICES ASSUME TypeOK, [Next]_vars PROVE TypeOK'
  OBVIOUS
<1>0. now \in Nat /\ MaxNow \in Nat \ {0}
  BY RunAssumption DEF TypeOK
<1>1. CASE Tick
  <2>1. now' \in 1..MaxNow
    BY <1>0, <1>1 DEF Tick, TypeOK
  <2>2. heeds' \in [Runs -> [Profiles -> Nat]]
    BY <1>1, HeedsType DEF Tick
  <2>3. UNCHANGED <<disk, unlocked, run, view, attempt, cleanup, stopped>>
    BY <1>1 DEF Tick
  <2> QED BY <2>1, <2>2, <2>3 DEF TypeOK, Busy, Registered, At
<1>2. ASSUME NEW r \in Runs, Begin(r) PROVE TypeOK'
  <2>1. PICK Keys \in SUBSET Profiles, order \in Candidates(r, Cleared(disk)) :
           LET s == Cleared(disk)
               l == [NoRun EXCEPT !.order = order]
           IN IF Usable(r, l, s, Keys) = {}
              THEN Gives(r)
              ELSE /\ Again(r, With(r, l, s, Keys))
                   /\ Keeps(r, s)
                   /\ heeds' = [heeds EXCEPT ![r] = IF r \in Locked THEN Nothing
                                                    ELSE [p \in Profiles |-> Until(s, p)]]
                   /\ UNCHANGED stopped
    BY <1>2 DEF Begin
  <2> DEFINE s == Cleared(disk)  l == [NoRun EXCEPT !.order = order]
  <2>2. UNCHANGED <<now, disk, unlocked>> /\ Waits(r)
    <3>1. ~Registered(r) /\ cleanup' = cleanup
      BY <1>2 DEF Begin, Registered, At
    <3> QED BY <1>2, <3>1, QuietWaits DEF Begin
  <2>3. s \in Stats
    BY <1>0, ClearedType DEF TypeOK
  <2>4. order \in Seq(Profiles)
    BY CandidatesType
  <2>5. l \in Run
    BY <2>4, BlankRun DEF Run
  <2>6. IF Usable(r, l, s, Keys) = {}
        THEN Gives(r)
        ELSE /\ Again(r, With(r, l, s, Keys)) /\ Keeps(r, s)
             /\ heeds' = [heeds EXCEPT ![r] = IF r \in Locked THEN Nothing
                                               ELSE [p \in Profiles |-> Until(s, p)]]
             /\ UNCHANGED stopped
    BY <2>1
  <2> HIDE DEF s, l
  <2>7. CASE Usable(r, l, s, Keys) = {}
    BY <2>2, <2>6, <2>7, GivesType
  <2>8. CASE Usable(r, l, s, Keys) # {}
    <3> DEFINE w == With(r, l, s, Keys)
    <3>1. w \in Run /\ w.tried \subseteq Levels[r] /\ w.tried # {} /\ w.index \in DOMAIN w.order
      BY <2>5, <2>8, WithType
    <3> HIDE DEF w
    <3>2. Again(r, w) /\ stopped' = stopped
      BY <2>6, <2>8 DEF w
    <3>3. view' \in [Lockless -> Stats]
      BY <2>3, <2>6, <2>8, KeepsType
    <3>4. heeds' \in [Runs -> [Profiles -> Nat]]
      <4>1. Nothing \in [Profiles -> Nat] /\ [p \in Profiles |-> Until(s, p)] \in [Profiles -> Nat]
        BY <2>3, UntilType, HeedsType
      <4> QED BY <2>6, <2>8, <4>1 DEF TypeOK
    <3>5. disk' \in Stats /\ unlocked' \in BOOLEAN
      BY <2>2 DEF TypeOK
    <3> QED BY <2>2, <3>1, <3>2, <3>3, <3>4, <3>5, RoundType
  <2> QED BY <2>7, <2>8
<1>3. ASSUME NEW r \in Runs, Throws(r) PROVE TypeOK'
  <2>1. Gives(r) /\ Told(r) /\ UNCHANGED <<now, disk, unlocked>>
    BY <1>3 DEF Throws
  <2> QED BY <2>1, ToldWaits, GivesType
<1>4. ASSUME NEW r \in Runs, NEW s \in {"preparing", "prompting"}, Goes(r, s), r \in Busy,
             UNCHANGED <<now, disk, unlocked, view, attempt, cleanup, stopped, heeds>>
      PROVE  TypeOK'
  <2>1. s \in Phases \ {"queued", "ended"}
    BY DEF Phases
  <2>2. run' \in [Runs -> Run] /\ (\A q \in Runs \ {r} : run'[q] = run[q])
        /\ run'[r].phase = s /\ RunTyped(r)'
    BY <1>4, <2>1, GoesType
  <2>3. Waits(r)
    BY <1>4, <2>2 DEF Waits, TypeOK
  <2>4. AllRuns'
    BY <2>2, <2>3, OneType
  <2> QED BY <1>4, <2>2, <2>4 DEF TypeOK, AllRuns
<1>5. ASSUME NEW r \in Runs, Timeout(r) PROVE TypeOK'
  <2>1. PICK compacting \in BOOLEAN :
           attempt' = [attempt EXCEPT ![r].aborted = TRUE, ![r].timedOut = TRUE,
                                      ![r].compacting = compacting]
    BY <1>5 DEF Timeout, At
  <2>2. attempt[r] \in Attempt
    BY DEF TypeOK
  <2>3. [[[attempt[r] EXCEPT !.aborted = TRUE] EXCEPT !.timedOut = TRUE]
             EXCEPT !.compacting = compacting] \in Attempt
    BY <2>2 DEF Attempt
  <2>4. attempt' \in [Runs -> Attempt]
    BY <2>1, <2>3 DEF TypeOK
  <2>5. UNCHANGED <<now, disk, unlocked, run, view, cleanup, heeds>> /\ stopped' \subseteq Runs
    BY <1>5 DEF Timeout, TypeOK
  <2> QED BY <2>4, <2>5 DEF TypeOK, Busy, Registered, At
<1>6. ASSUME NEW r \in Runs, Return(r) PROVE TypeOK'
  <2>1. At(r, "prompting") /\ Goes(r, "judging")
        /\ UNCHANGED <<now, disk, unlocked, view, stopped, heeds>> /\ Told(r)
    BY <1>6 DEF Return
  <2>2. r \in Busy /\ "judging" \in Phases \ {"queued", "ended"}
    BY <2>1 DEF At, Busy, Phases
  <2>3. run' \in [Runs -> Run] /\ (\A q \in Runs \ {r} : run'[q] = run[q])
        /\ run'[r].phase = "judging" /\ RunTyped(r)'
    BY <2>1, <2>2, GoesType
  <2>4. AllRuns' /\ cleanup' \in [Runs -> {"no", "waiting", "over"}]
    BY <2>1, <2>3, ToldWaits, OneType
  <2>6. attempt' \in [Runs -> Attempt]
    <3>1. PICK a \in Brings(r) : attempt' = [attempt EXCEPT ![r].answer = a]
      BY <1>6 DEF Return
    <3>2. a \in Answers \union {"nothing"}
      BY DEF Brings, Answers
    <3>3. attempt[r] \in Attempt
      BY DEF TypeOK
    <3>4. [attempt[r] EXCEPT !.answer = a] \in Attempt
      BY <3>2, <3>3 DEF Attempt
    <3> QED BY <3>1, <3>4 DEF TypeOK
  <2> QED BY <2>1, <2>3, <2>4, <2>6 DEF TypeOK, AllRuns
<1>7. ASSUME NEW r \in Runs, Cleanup(r) PROVE TypeOK'
  <2>1. UNCHANGED <<now, disk, unlocked, run, view, heeds>> /\ Registered(r)
        /\ attempt' = [attempt EXCEPT ![r].aborted = TRUE]
        /\ cleanup' = [cleanup EXCEPT ![r] = "waiting"] /\ stopped' \subseteq Runs
    BY <1>7 DEF Cleanup, TypeOK
  <2>2. attempt[r] \in Attempt
    BY DEF TypeOK
  <2>3. [attempt[r] EXCEPT !.aborted = TRUE] \in Attempt
    BY <2>2 DEF Attempt
  <2>4. attempt' \in [Runs -> Attempt]
    BY <2>1, <2>3 DEF TypeOK
  <2> QED BY <2>1, <2>4 DEF TypeOK, Busy, Registered, At
<1>8. ASSUME NEW r \in Runs, CleanupFails(r) PROVE TypeOK'
  BY <1>8 DEF CleanupFails, TypeOK, Busy, Registered, At
<1>9. ASSUME NEW r \in Runs, Overflow(r) PROVE TypeOK'
  <2>1. At(r, "judging") /\ UNCHANGED <<now, disk, unlocked, cleanup>>
    BY <1>9 DEF Overflow, Judges
  <2>2. /\ r \in Busy /\ run[r] \in Run /\ Waits(r)
        /\ run[r].tried \subseteq Levels[r] /\ run[r].tried # {}
        /\ run[r].index \in DOMAIN run[r].order
    BY <2>1, Judging, QuietWaits
  <2>3. /\ disk' \in Stats /\ unlocked' \in BOOLEAN
        /\ UNCHANGED view => view' \in [Lockless -> Stats]
        /\ UNCHANGED heeds => heeds' \in [Runs -> [Profiles -> Nat]]
    BY <2>1 DEF TypeOK
  <2>4. CASE /\ run[r].overflows < MaxOverflow
             /\ Again(r, [run[r] EXCEPT !.overflows = @ + 1])
             /\ UNCHANGED <<view, stopped, heeds>>
    <3> DEFINE l == [run[r] EXCEPT !.overflows = @ + 1]
    <3>0. MaxOverflow \in Nat /\ run[r].overflows \in 0..MaxOverflow
      BY <2>2, RunAssumption DEF Run
    <3>1. l \in Run /\ l.tried = run[r].tried /\ l.index = run[r].index /\ l.order = run[r].order
      BY <2>2, <2>4, <3>0 DEF Run
    <3> HIDE DEF l
    <3>2. Again(r, l)
      BY <2>4 DEF l
    <3> QED BY <2>1, <2>2, <2>3, <2>4, <3>1, <3>2, RoundType
  <2>5. CASE /\ ~run[r].truncated
             /\ Again(r, [run[r] EXCEPT !.truncated = TRUE, !.overflows = 0])
             /\ UNCHANGED <<view, stopped, heeds>>
    <3> DEFINE l == [run[r] EXCEPT !.truncated = TRUE, !.overflows = 0]
    <3>0. MaxOverflow \in Nat /\ run[r].overflows \in 0..MaxOverflow
      BY <2>2, RunAssumption DEF Run
    <3>1. l \in Run /\ l.tried = run[r].tried /\ l.index = run[r].index /\ l.order = run[r].order
      <4>1. run[r] \in Run /\ 0 \in 0..MaxOverflow
        BY <2>2, <3>0
      <4>2. l = [[run[r] EXCEPT !.truncated = TRUE] EXCEPT !.overflows = 0]
        OBVIOUS
      <4> QED BY <4>1, <4>2 DEF Run
    <3> HIDE DEF l
    <3>2. Again(r, l)
      BY <2>5 DEF l
    <3> QED BY <2>1, <2>2, <2>3, <2>5, <3>1, <3>2, RoundType
  <2>6. CASE Gives(r)
    BY <2>1, <2>2, <2>6, GivesType
  <2> QED BY <1>9, <2>4, <2>5, <2>6 DEF Overflow
<1>10. ASSUME NEW r \in Runs, Level(r) PROVE TypeOK'
  <2>1. At(r, "judging") /\ Rethinks(r)
        /\ UNCHANGED <<now, disk, unlocked, view, cleanup, stopped, heeds>>
    BY <1>10 DEF Level, Judges
  <2>2. Waits(r)
    BY <2>1, Judging, QuietWaits
  <2>3. PICK l \in Run : /\ Again(r, l) /\ l.tried \subseteq Levels[r] /\ l.tried # {}
                         /\ l.index \in DOMAIN l.order
    BY <2>1, RethinksType
  <2> QED BY <2>1, <2>2, <2>3, RoundType DEF TypeOK
<1>11. ASSUME NEW r \in Runs, PromptFails(r) PROVE TypeOK'
  <2>1. At(r, "judging") /\ Gives(r) /\ UNCHANGED <<now, disk, unlocked, cleanup>>
    BY <1>11 DEF PromptFails, Judges
  <2>2. Waits(r)
    BY <2>1, Judging, QuietWaits
  <2> QED BY <2>1, <2>2, GivesType
<1>12. ASSUME NEW r \in Runs, Fail(r) PROVE TypeOK'
  <2>1. At(r, "judging") /\ r \in Busy /\ disk' \in Stats /\ unlocked' \in BOOLEAN
    BY <1>12, FailSaves
  <2>2. heeds' \in [Runs -> [Profiles -> Nat]] /\ UNCHANGED <<now, cleanup>>
    <3>1. heeds' = [q \in Runs |-> IF q \in Busy' THEN StillHeeded(heeds[q]) ELSE Nothing]
      BY <1>12 DEF Fail
    <3> QED BY <1>12, <3>1, HeedsType DEF Fail
  <2>3. Waits(r) /\ run[r] \in Run
    BY <2>1, <2>2, Judging, QuietWaits
  <2>4. PICK Keys \in SUBSET Profiles :
          IF r \notin Locked /\ Usable(r, run[r], disk', Keys) # {}
          THEN /\ Again(r, With(r, run[r], disk', Keys))
               /\ Keeps(r, disk')
               /\ UNCHANGED stopped
          ELSE GivesUp(r)
    BY <1>12 DEF Fail
  <2>5. ASSUME NEW l \in Run, Again(r, l), l.tried \subseteq Levels[r], l.tried # {},
               l.index \in DOMAIN l.order, Keeps(r, disk'), stopped' = stopped
        PROVE  TypeOK'
    <3>1. view' \in [Lockless -> Stats]
      BY <2>1, <2>5, KeepsType
    <3> QED BY <2>1, <2>2, <2>3, <2>5, <3>1, RoundType
  <2>6. CASE Usable(r, run[r], disk', Keys) # {} /\ Again(r, With(r, run[r], disk', Keys))
             /\ Keeps(r, disk') /\ UNCHANGED stopped
    <3> DEFINE w == With(r, run[r], disk', Keys)
    <3>1. w \in Run /\ w.tried \subseteq Levels[r] /\ w.tried # {} /\ w.index \in DOMAIN w.order
      BY <2>3, <2>6, WithType
    <3> HIDE DEF w
    <3>2. Again(r, w)
      BY <2>6 DEF w
    <3> QED BY <2>5, <2>6, <3>1, <3>2
  <2>7. CASE Rethinks(r) /\ Keeps(r, disk') /\ stopped' = stopped
    <3>1. PICK l \in Run : /\ Again(r, l) /\ l.tried \subseteq Levels[r] /\ l.tried # {}
                           /\ l.index \in DOMAIN l.order
      BY <2>1, <2>7, RethinksType
    <3> QED BY <2>5, <2>7, <3>1
  <2>8. CASE Ends(r)
    <3>1. /\ run' \in [Runs -> Run] /\ attempt' \in [Runs -> Attempt]
             /\ view' \in [Lockless -> Stats]
          /\ \A q \in Runs \ {r} : run'[q] = run[q]
          /\ RunTyped(r)' /\ stopped' = stopped \ {r}
      BY <2>8, EndsType
    <3>2. AllRuns' /\ cleanup' \in [Runs -> {"no", "waiting", "over"}]
      BY <2>3, <3>1, OneType
    <3> QED BY <2>1, <2>2, <3>1, <3>2 DEF TypeOK, AllRuns
  <2>9. CASE Goes(r, "finishing") /\ Keeps(r, disk') /\ attempt' = attempt /\ stopped' = stopped
    <3>1. run' \in [Runs -> Run] /\ (\A q \in Runs \ {r} : run'[q] = run[q]) /\ RunTyped(r)'
      BY <2>1, <2>9, GoesType DEF Phases
    <3>2. AllRuns' /\ cleanup' \in [Runs -> {"no", "waiting", "over"}]
      BY <2>3, <3>1, OneType
    <3>3. view' \in [Lockless -> Stats]
      BY <2>1, <2>9, KeepsType
    <3> QED BY <2>1, <2>2, <2>9, <3>1, <3>2, <3>3 DEF TypeOK, AllRuns
  <2> QED BY <2>4, <2>6, <2>7, <2>8, <2>9, GivesUpHow
<1>13. ASSUME NEW r \in Runs, TellTimeout(r) PROVE TypeOK'
  <2>1. At(r, "finishing") /\ Gives(r) /\ UNCHANGED <<now, disk, unlocked, cleanup>>
    BY <1>13 DEF TellTimeout
  <2>2. Waits(r)
    BY <2>1, Judging, QuietWaits
  <2> QED BY <2>1, <2>2, GivesType
<1>14. ASSUME NEW r \in Runs, Finish(r) PROVE TypeOK'
  <2>1. (At(r, "judging") \/ At(r, "finishing"))
        /\ Save(r, Used(disk, Profile(r)), Used(Copy(r), Profile(r)))
        /\ Ends(r)
        /\ heeds' = [q \in Runs |-> IF q \in Busy' THEN StillHeeded(heeds[q]) ELSE Nothing]
        /\ UNCHANGED <<now, cleanup>>
    BY <1>14 DEF Finish, Judges
  <2>2. r \in Busy /\ Waits(r)
    BY <2>1, Judging, QuietWaits
  <2>3. Used(disk, Profile(r)) \in Stats /\ Used(Copy(r), Profile(r)) \in Stats
    BY <2>2, ProfileType, CopyType, UsedType DEF TypeOK
  <2>4. disk' \in Stats /\ unlocked' \in BOOLEAN
    BY <2>1, <2>3, SaveType
  <2>5. heeds' \in [Runs -> [Profiles -> Nat]]
    BY <2>1, HeedsType
  <2>6. /\ run' \in [Runs -> Run] /\ attempt' \in [Runs -> Attempt] /\ view' \in [Lockless -> Stats]
        /\ \A q \in Runs \ {r} : run'[q] = run[q]
        /\ RunTyped(r)' /\ stopped' = stopped \ {r}
    BY <2>1, EndsType
  <2>7. AllRuns' /\ cleanup' \in [Runs -> {"no", "waiting", "over"}]
    BY <2>2, <2>6, OneType
  <2> QED BY <2>1, <2>4, <2>5, <2>6, <2>7 DEF TypeOK, AllRuns
<1>15. CASE UNCHANGED vars
  BY <1>15 DEF vars, TypeOK, Busy, Registered, At
<1>16. ASSUME NEW r \in Runs, Register(r) \/ Prompt(r) PROVE TypeOK'
  BY <1>4, <1>16 DEF Register, Prompt, At, Busy
<1> QED BY <1>1, <1>2, <1>3, <1>5, <1>6, <1>7, <1>8, <1>9, <1>10, <1>11, <1>12, <1>13, <1>14,
           <1>15, <1>16
        DEF Next, Judge

(* The types of the runs, their attempts and the profiles, in every        *)
(* reachable state; a run that goes on has a profile, and nobody waits for *)
(* the end of an attempt that is not registered (runs.ts,                  *)
(* waitForEmbeddedPiRunEnd).                                               *)
THEOREM Typed == Spec => []TypeOK
<1>1. Init => TypeOK
  BY TypeInit
<1>2. TypeOK /\ [Next]_vars => TypeOK'
  BY TypeNext
<1> QED BY <1>1, <1>2, PTL DEF Spec

-----------------------------------------------------------------------------
\* The handlers that may take a run round its loop, and those that do not.
Turns(r) == Overflow(r) \/ Level(r) \/ Fail(r)
Stays(r) == Register(r) \/ Prompt(r) \/ Timeout(r) \/ Return(r) \/ Cleanup(r) \/ CleanupFails(r)
Stops(r) == Throws(r) \/ PromptFails(r) \/ TellTimeout(r) \/ Finish(r)

(* The handlers by what they do with the loop.                             *)
LEMMA Acts ==
  ASSUME Next
  PROVE  Tick \/ \E r \in Runs : Begin(r) \/ Stays(r) \/ Turns(r) \/ Stops(r)
BY DEF Next, Judge, Turns, Stays, Stops

\* A step of one run leaves the locals of the others.
LEMMA Alone ==
  ASSUME TypeOK, NEW r \in Runs, Begin(r) \/ Stays(r) \/ Turns(r) \/ Stops(r), NEW q \in Runs \ {r}
  PROVE  run'[q] = run[q] /\ attempt'[q] = attempt[q]
<1>1. run \in [Runs -> Run] /\ attempt \in [Runs -> Attempt]
  BY DEF TypeOK
<1>2. ASSUME NEW l, Again(r, l) PROVE run'[q] = run[q] /\ attempt'[q] = attempt[q]
  BY <1>1, <1>2 DEF Again
<1>3. ASSUME Ends(r) PROVE run'[q] = run[q] /\ attempt'[q] = attempt[q]
  BY <1>1, <1>3 DEF Ends
<1>4. ASSUME NEW s, Goes(r, s) PROVE run'[q] = run[q]
  BY <1>1, <1>4 DEF Goes
<1>5. CASE Begin(r)
  BY <1>2, <1>3, <1>5 DEF Begin, Gives
<1>6. CASE Stays(r)
  <2>1. run'[q] = run[q]
    BY <1>4, <1>6 DEF Stays, Register, Prompt, Timeout, Return, Cleanup, CleanupFails
  <2>2. attempt'[q] = attempt[q]
    BY <1>1, <1>6 DEF Stays, Register, Prompt, Timeout, Return, Cleanup, CleanupFails
  <2> QED BY <2>1, <2>2
<1>7. CASE Turns(r)
  <2>1. CASE Overflow(r)
    BY <1>2, <1>3, <2>1 DEF Overflow, Gives
  <2>2. CASE Rethinks(r)
    BY <1>2, <2>2 DEF Rethinks
  <2>3. CASE Fail(r)
    BY <1>2, <1>3, <1>4, <2>2, <2>3, GivesUpHow DEF Fail
  <2> QED BY <1>7, <2>1, <2>2, <2>3 DEF Turns, Level
<1>8. CASE Stops(r)
  BY <1>3, <1>8 DEF Stops, Throws, PromptFails, TellTimeout, Finish, Gives
<1> QED BY <1>5, <1>6, <1>7, <1>8

\* What the handlers do with the run's phase, profile and level, where they
\* do not take it round the loop.
LEMMA StaysOn ==
  ASSUME TypeOK, NEW r \in Runs, Stays(r)
  PROVE  /\ run'[r].index = run[r].index /\ run'[r].order = run[r].order
         /\ run'[r].phase = "starting" => run[r].phase = "starting"
         /\ run'[r].phase \in {"queued", "ended"} <=> run[r].phase \in {"queued", "ended"}
         /\ UNCHANGED <<now, disk, unlocked, view, heeds>>
<1>1. UNCHANGED <<now, disk, unlocked, view, heeds>>
  BY DEF Stays, Register, Prompt, Timeout, Return, Cleanup, CleanupFails
<1>2. CASE UNCHANGED run
  BY <1>1, <1>2
<1>3. CASE Register(r) \/ Prompt(r)
  <2>1. PICK s \in {"preparing", "prompting"} :
           r \in Busy /\ Goes(r, s) /\ s \in Phases \ {"queued", "ended"}
    BY <1>3 DEF Register, Prompt, At, Busy, Phases
  <2> QED BY <1>1, <2>1, GoesType DEF Busy
<1>4. CASE Return(r)
  <2>1. r \in Busy /\ Goes(r, "judging") /\ "judging" \in Phases \ {"queued", "ended"}
    BY <1>4 DEF Return, At, Busy, Phases
  <2> QED BY <1>1, <2>1, GoesType DEF Busy
<1> QED BY <1>2, <1>3, <1>4 DEF Stays, Timeout, Cleanup, CleanupFails

(* A run that throws or replies has ended.                                 *)
LEMMA StopsNow ==
  ASSUME TypeOK, NEW r \in Runs, Stops(r)
  PROVE  run'[r].phase = "ended" /\ stopped' = stopped \ {r} /\ now' = now /\ r \in Busy
<1>1. Ends(r) /\ now' = now
  BY DEF Stops, Throws, PromptFails, TellTimeout, Finish, Gives
<1>2. r \in Busy
  BY DEF Stops, Throws, PromptFails, TellTimeout, Finish, At, Judges, Busy
<1> QED BY <1>1, <1>2, EndsType

\* A run that fails goes on with a later candidate that is not cooling down
\* in the file, or with another level, or ends, or takes the attempt as it is.
LEMMA FailsHow ==
  ASSUME TypeOK, NEW r \in Runs, Fail(r)
  PROVE  /\ r \in Busy /\ now' = now
         /\ \/ /\ run'[r].phase = "starting" /\ stopped' = stopped /\ r \notin Locked
               /\ run'[r].index > run[r].index /\ run'[r].order = run[r].order
               /\ run'[r].index \in DOMAIN run[r].order
               /\ now >= Until(disk', run[r].order[run'[r].index])
            \/ /\ Rethinks(r) /\ run'[r].phase = "starting" /\ stopped' = stopped
               /\ run'[r].index = run[r].index /\ run'[r].order = run[r].order
            \/ run'[r].phase = "ended" /\ stopped' = stopped \ {r}
            \/ /\ run'[r].phase = "finishing" /\ stopped' = stopped
               /\ run'[r].index = run[r].index /\ run'[r].order = run[r].order
<1>1. At(r, "judging") /\ now' = now /\ r \in Busy /\ disk' \in Stats
  BY FailSaves
<1>2. run[r] \in Run
  BY <1>1, Judging
<1>3. now \in Nat
  BY DEF TypeOK
<1>5. PICK Keys \in SUBSET Profiles :
        IF r \notin Locked /\ Usable(r, run[r], disk', Keys) # {}
        THEN /\ Again(r, With(r, run[r], disk', Keys))
             /\ Keeps(r, disk')
             /\ UNCHANGED stopped
        ELSE GivesUp(r)
  BY DEF Fail
<1>6. CASE r \notin Locked /\ Usable(r, run[r], disk', Keys) # {}
  <2> DEFINE w == With(r, run[r], disk', Keys)
  <2>1. /\ w \in Run /\ w.tried \subseteq Levels[r] /\ w.tried # {} /\ w.index \in DOMAIN w.order
        /\ w.index > run[r].index /\ w.order = run[r].order
           /\ w.index \in Usable(r, run[r], disk', Keys)
    BY <1>2, <1>6, WithType
  <2> HIDE DEF w
  <2>2. Again(r, w) /\ stopped' = stopped
    BY <1>5, <1>6 DEF w
  <2>3. run'[r].phase = "starting" /\ run'[r].index = w.index /\ run'[r].order = w.order
    BY <2>1, <2>2, AgainType
  <2>4. ~Cooling(disk', run[r].order[w.index]) /\ run[r].order[w.index] \in Profiles
    <3>1. run[r].order \in Seq(Profiles) /\ w.index \in DOMAIN run[r].order
      BY <1>2, <2>1 DEF Run
    <3>2. ~Cooling(disk', run[r].order[w.index])
      BY <1>6, <2>1 DEF Usable
    <3> QED BY <3>1, <3>2
  <2>5. Until(disk', run[r].order[w.index]) \in Nat
    BY <1>1, <2>4, UntilType
  <2>6. now >= Until(disk', run[r].order[w.index])
    BY <1>3, <2>4, <2>5 DEF Cooling
  <2> QED BY <1>1, <1>2, <1>6, <2>1, <2>2, <2>3, <2>6
<1>7. CASE Rethinks(r) /\ stopped' = stopped
  <2>1. PICK l \in Run : /\ Again(r, l) /\ l.tried \subseteq Levels[r] /\ l.tried # {}
                         /\ l.index = run[r].index /\ l.order = run[r].order
                         /\ l.index \in DOMAIN l.order
    BY <1>1, <1>7, RethinksType
  <2>2. run'[r].phase = "starting" /\ run'[r].index = run[r].index /\ run'[r].order = run[r].order
    BY <2>1, AgainType
  <2> QED BY <1>1, <1>7, <2>2
<1>8. CASE Ends(r)
  BY <1>1, <1>2, <1>8, EndsType
<1>9. CASE Goes(r, "finishing") /\ stopped' = stopped
  BY <1>1, <1>2, <1>9, GoesType DEF Phases
<1> QED BY <1>5, <1>6, <1>7, <1>8, <1>9, GivesUpHow

\* An overflow or another level takes the run round the loop with the same
\* profile, or ends it.
LEMMA SameProfile ==
  ASSUME TypeOK, NEW r \in Runs, Overflow(r) \/ Level(r)
  PROVE  /\ r \in Busy /\ UNCHANGED <<now, disk, unlocked>>
         /\ At(r, "judging") /\ ~attempt[r].aborted
         /\ \/ /\ run'[r].phase = "starting" /\ UNCHANGED <<stopped, view, heeds>>
               /\ run'[r].index = run[r].index /\ run'[r].order = run[r].order
            \/ run'[r].phase = "ended" /\ stopped' = stopped \ {r} /\ Ends(r)
               /\ heeds' = [heeds EXCEPT ![r] = Nothing]
<1>1. At(r, "judging") /\ ~attempt[r].aborted /\ UNCHANGED <<now, disk, unlocked>>
  BY DEF Overflow, Level, Judges
<1>2. r \in Busy /\ run[r] \in Run /\ run[r].tried # {} /\ run[r].tried \subseteq Levels[r]
      /\ run[r].index \in DOMAIN run[r].order
  BY <1>1, Judging
<1>3. CASE Gives(r)
  BY <1>1, <1>2, <1>3, EndsType DEF Gives
<1>4. ASSUME NEW l \in Run, Again(r, l), UNCHANGED <<stopped, view, heeds>>,
             l.index = run[r].index, l.order = run[r].order,
             l.tried # {}, l.tried \subseteq Levels[r]
      PROVE  /\ run'[r].phase = "starting" /\ UNCHANGED <<stopped, view, heeds>>
             /\ run'[r].index = run[r].index /\ run'[r].order = run[r].order
  BY <1>2, <1>4, AgainType
<1>5. MaxOverflow \in Nat /\ run[r].overflows \in 0..MaxOverflow
  BY <1>2, RunAssumption DEF Run
<1>6. CASE run[r].overflows < MaxOverflow /\ Again(r, [run[r] EXCEPT !.overflows = @ + 1])
           /\ UNCHANGED <<view, stopped, heeds>>
  <2> DEFINE l == [run[r] EXCEPT !.overflows = @ + 1]
  <2>1. l \in Run /\ l.tried = run[r].tried /\ l.index = run[r].index /\ l.order = run[r].order
    <3>1. run[r].overflows + 1 \in 0..MaxOverflow
      BY <1>5, <1>6
    <3> QED BY <1>2, <3>1 DEF Run
  <2> HIDE DEF l
  <2>2. Again(r, l)
    BY <1>6 DEF l
  <2> QED BY <1>1, <1>2, <1>4, <1>6, <2>1, <2>2
<1>7. CASE Again(r, [run[r] EXCEPT !.truncated = TRUE, !.overflows = 0])
           /\ UNCHANGED <<view, stopped, heeds>>
  <2> DEFINE l == [run[r] EXCEPT !.truncated = TRUE, !.overflows = 0]
  <2>1. l = [[run[r] EXCEPT !.truncated = TRUE] EXCEPT !.overflows = 0] /\ 0 \in 0..MaxOverflow
    BY <1>5
  <2>2. l \in Run /\ l.tried = run[r].tried /\ l.index = run[r].index /\ l.order = run[r].order
    BY <1>2, <2>1 DEF Run
  <2> HIDE DEF l
  <2>3. Again(r, l)
    BY <1>7 DEF l
  <2> QED BY <1>1, <1>2, <1>4, <1>7, <2>2, <2>3
<1>8. CASE Level(r)
  <2>1. UNCHANGED <<view, stopped, heeds>> /\ Rethinks(r)
    BY <1>8 DEF Level
  <2>2. PICK l \in Run : /\ Again(r, l) /\ l.tried \subseteq Levels[r] /\ l.tried # {}
                         /\ l.index = run[r].index /\ l.order = run[r].order
    BY <1>1, <2>1, RethinksType
  <2> QED BY <1>1, <1>2, <1>4, <2>1, <2>2
<1> QED BY <1>3, <1>6, <1>7, <1>8 DEF Overflow

-----------------------------------------------------------------------------
\* What the start of a run finds: a profile that is not cooling down.
LEMMA BeginsHow ==
  ASSUME TypeOK, NEW r \in Runs, Begin(r)
  PROVE  /\ UNCHANGED <<now, disk, unlocked>> /\ run[r].phase = "queued"
         /\ \/ run'[r].phase = "ended" /\ heeds' = [heeds EXCEPT ![r] = Nothing]
               /\ stopped' = stopped \ {r} /\ Ends(r)
            \/ /\ run'[r].phase = "starting" /\ stopped' = stopped /\ Keeps(r, Cleared(disk))
               /\ Profile(r)' \in Profiles
               /\ r \notin Locked => Until(Cleared(disk), Profile(r)') <= now
               /\ heeds' = [heeds EXCEPT ![r] = IF r \in Locked THEN Nothing
                                                ELSE [p \in Profiles |-> Until(Cleared(disk), p)]]
<1>1. UNCHANGED <<now, disk, unlocked>> /\ run[r].phase = "queued"
  BY DEF Begin, At
<1>2. now \in Nat /\ disk \in Stats
  BY DEF TypeOK
<1>3. PICK Keys \in SUBSET Profiles, order \in Candidates(r, Cleared(disk)) :
         LET s == Cleared(disk)
             l == [NoRun EXCEPT !.order = order]
         IN IF Usable(r, l, s, Keys) = {}
            THEN Gives(r)
            ELSE /\ Again(r, With(r, l, s, Keys))
                 /\ Keeps(r, s)
                 /\ heeds' = [heeds EXCEPT ![r] = IF r \in Locked THEN Nothing
                                                  ELSE [p \in Profiles |-> Until(s, p)]]
                 /\ UNCHANGED stopped
  BY DEF Begin
<1> DEFINE s == Cleared(disk)  l == [NoRun EXCEPT !.order = order]
<1>4. s \in Stats
  BY <1>2, ClearedType
<1>5. order \in Seq(Profiles)
  BY CandidatesType
<1>6. l \in Run /\ l.order = order
  BY <1>5, BlankRun DEF Run
<1>7. IF Usable(r, l, s, Keys) = {}
      THEN Gives(r)
      ELSE /\ Again(r, With(r, l, s, Keys)) /\ Keeps(r, s)
           /\ heeds' = [heeds EXCEPT ![r] = IF r \in Locked THEN Nothing
                                            ELSE [p \in Profiles |-> Until(s, p)]]
           /\ UNCHANGED stopped
  BY <1>3
<1>8. s = Cleared(disk)
  OBVIOUS
<1> HIDE DEF s, l
<1>9. CASE Usable(r, l, s, Keys) = {}
  BY <1>1, <1>7, <1>9, EndsType DEF Gives
<1>10. CASE Usable(r, l, s, Keys) # {}
  <2> DEFINE w == With(r, l, s, Keys)
  <2>1. w \in Run /\ w.tried \subseteq Levels[r] /\ w.tried # {} /\ w.index \in DOMAIN w.order
        /\ w.order = l.order /\ w.index \in Usable(r, l, s, Keys)
    BY <1>6, <1>10, WithType
  <2>2. Again(r, With(r, l, s, Keys))
    BY <1>7, <1>10
  <2> HIDE DEF w
  <2>3. Again(r, w)
    BY <2>2 DEF w
  <2>4. run'[r].phase = "starting" /\ run'[r].index = w.index /\ run'[r].order = w.order
    BY <2>1, <2>3, AgainType
  <2>5. Profile(r)' = order[w.index] /\ order[w.index] \in Profiles
    BY <1>5, <1>6, <2>1, <2>4 DEF Profile
  <2>6. r \notin Locked => ~Cooling(s, order[w.index])
    BY <1>6, <2>1 DEF Usable
  <2>7. r \notin Locked => Until(s, order[w.index]) <= now
    <3>1. Until(s, order[w.index]) \in Nat
      BY <1>4, <2>5, UntilType
    <3> QED BY <1>2, <2>6, <3>1 DEF Cooling
  <2> QED BY <1>1, <1>7, <1>8, <1>10, <2>4, <2>5, <2>7
<1> QED BY <1>9, <1>10

\* What a run still heeds of what it has found is no more than that.
LEMMA HeedsLess ==
  ASSUME TypeOK, NEW q \in Runs, NEW p \in Profiles
  PROVE  /\ heeds[q][p] \in Nat
         /\ InForce(heeds[q])[p] <= heeds[q][p]
         /\ StillHeeded(heeds[q])[p] <= heeds[q][p]
         /\ disk' \in Stats => StillHeeded(heeds[q])[p] <= Until(disk', p)
<1>1. heeds[q][p] \in Nat
  BY DEF TypeOK
<1>2. InForce(heeds[q])[p] <= heeds[q][p]
  BY <1>1 DEF InForce
<1>3. StillHeeded(heeds[q])[p] = IF Until(disk', p) >= heeds[q][p] THEN heeds[q][p] ELSE 0
  BY DEF StillHeeded
<1>4. disk' \in Stats => Until(disk', p) \in Nat
  BY UntilType
<1> QED BY <1>1, <1>2, <1>3, <1>4

(* A run whose profile the user has chosen heeds nothing.                  *)
Unheeding == \A r \in Locked : heeds[r] = Nothing

(* It never begins to.                                                     *)
LEMMA UnheedingNext ==
  ASSUME TypeOK, TypeOK', Unheeding, [Next]_vars
  PROVE  Unheeding'
<1>1. /\ StillHeeded(Nothing) = Nothing /\ InForce(Nothing) = Nothing
      /\ \A q \in Locked : q \in Runs /\ heeds[q] = Nothing
  BY RunAssumption DEF StillHeeded, InForce, Nothing, Unheeding
<1>2. CASE UNCHANGED heeds
  BY <1>2 DEF Unheeding
<1>3. ASSUME NEW r \in Runs, heeds' = [heeds EXCEPT ![r] = Nothing] PROVE Unheeding'
  BY <1>1, <1>3 DEF Unheeding, TypeOK
<1>4. CASE heeds' = [q \in Runs |-> IF q \in Busy' THEN StillHeeded(heeds[q]) ELSE Nothing]
  BY <1>1, <1>4 DEF Unheeding
<1>5. CASE Tick
  BY <1>1, <1>5 DEF Tick, Unheeding
<1>6. ASSUME NEW r \in Runs, Begin(r) PROVE Unheeding'
  <2>1. \/ heeds' = [heeds EXCEPT ![r] = Nothing]
        \/ heeds' = [heeds EXCEPT ![r] = IF r \in Locked THEN Nothing
                                         ELSE [p \in Profiles |-> Until(Cleared(disk), p)]]
    BY <1>6, BeginsHow
  <2> QED BY <1>1, <2>1 DEF Unheeding, TypeOK
<1>7. ASSUME NEW r \in Runs, Stays(r) \/ Turns(r) \/ Stops(r) PROVE Unheeding'
  <2>1. CASE Stays(r)
    BY <1>2, <2>1, StaysOn
  <2>2. CASE Overflow(r) \/ Level(r)
    BY <1>2, <1>3, <2>2, SameProfile
  <2>3. CASE Fail(r) \/ Finish(r)
    BY <1>4, <2>3 DEF Fail, Finish
  <2>4. CASE Throws(r) \/ PromptFails(r) \/ TellTimeout(r)
    BY <1>3, <2>4 DEF Throws, PromptFails, TellTimeout, Gives
  <2> QED BY <1>7, <2>1, <2>2, <2>3, <2>4 DEF Turns, Stops
<1> QED BY <1>2, <1>5, <1>6, <1>7, Acts DEF vars

\* run.ts:447-475, 420-445: the profile a run uses was not cooling down when
\* it was chosen, and what the run has found of cooldowns never grows later.
LEMMA HeededNext ==
  ASSUME TypeOK, TypeOK', Unheeding', CooldownsHeeded, [Next]_vars
  PROVE  CooldownsHeeded'
<1> DEFINE Heeded(q) == q \in Busy \ Locked => heeds[q][Profile(q)] <= now
<1>c. ASSUME NEW q \in Runs, q \in Busy', q \in Locked PROVE heeds'[q][Profile(q)'] <= now'
  <2>1. run'[q].order \in Seq(Profiles) /\ run'[q].index \in DOMAIN run'[q].order
    BY <1>c DEF TypeOK, Run
  <2>2. Profile(q)' \in Profiles
    BY <2>1 DEF Profile
  <2>3. now' \in Nat /\ heeds'[q] = Nothing
    BY <1>c DEF Unheeding, TypeOK
  <2>4. heeds'[q][Profile(q)'] = 0
    BY <2>2, <2>3 DEF Nothing
  <2> QED BY <2>3, <2>4
<1> SUFFICES ASSUME NEW q \in Runs, q \in (Busy \ Locked)' PROVE Heeded(q)'
  BY <1>c DEF CooldownsHeeded, Busy
<1>0. now \in Nat /\ now' \in Nat /\ q \notin Locked /\ Profile(q)' \in Profiles /\ disk' \in Stats
  <2>1. q \in Busy' /\ run'[q].order \in Seq(Profiles) /\ run'[q].index \in DOMAIN run'[q].order
    BY DEF TypeOK, Run
  <2> QED BY <2>1 DEF TypeOK, Profile
<1> DEFINE f == heeds[q]  g == heeds'[q]
<1>a. f \in [Profiles -> Nat] /\ g \in [Profiles -> Nat]
  BY DEF TypeOK
<1>b. \A p \in Profiles : InForce(f)[p] <= f[p] /\ StillHeeded(f)[p] <= f[p]
                          /\ StillHeeded(f)[p] <= Until(disk', p)
  BY <1>0, HeedsLess
<1>1. CASE UNCHANGED vars
  BY <1>1 DEF CooldownsHeeded, vars, Busy, Profile
<1>2. CASE Tick
  <2>1. run' = run /\ now' = now + 1 /\ heeds'[q] = InForce(heeds[q])
    BY <1>2 DEF Tick
  <2>2. Profile(q)' = Profile(q) /\ q \in Busy \ Locked
    BY <2>1 DEF Profile, Busy
  <2>3. heeds[q][Profile(q)] <= now
    BY <2>2 DEF CooldownsHeeded
  <2>4. heeds[q][Profile(q)] \in Nat /\ InForce(heeds[q])[Profile(q)] <= heeds[q][Profile(q)]
        /\ heeds'[q][Profile(q)] \in Nat
    BY <1>0, <1>a, <1>b, <2>1, <2>2
  <2> QED BY <1>0, <2>1, <2>2, <2>3, <2>4
<1>3. ASSUME NEW r \in Runs, Begin(r) PROVE Heeded(q)'
  <2>1. CASE r = q
    <3>1. run'[r].phase # "ended"
      BY <2>1 DEF Busy
    <3>2. /\ now' = now /\ Until(Cleared(disk), Profile(r)') <= now
          /\ heeds' = [heeds EXCEPT ![r] = [p \in Profiles |-> Until(Cleared(disk), p)]]
      BY <1>0, <1>3, <2>1, <3>1, BeginsHow
    <3>3. heeds'[r][Profile(r)'] = Until(Cleared(disk), Profile(r)')
      BY <1>0, <2>1, <3>2 DEF TypeOK
    <3> QED BY <2>1, <3>2, <3>3
  <2>2. CASE r # q
    <3>1. run'[q] = run[q] /\ now' = now /\ heeds'[q] = heeds[q]
      BY <1>3, <2>2, Alone, BeginsHow DEF TypeOK
    <3>2. Profile(q)' = Profile(q) /\ q \in Busy \ Locked
      BY <3>1 DEF Profile, Busy
    <3> QED BY <3>1, <3>2 DEF CooldownsHeeded
  <2> QED BY <2>1, <2>2
<1>4. ASSUME NEW r \in Runs, Stays(r) PROVE Heeded(q)'
  <2>1. /\ run'[q].index = run[q].index /\ run'[q].order = run[q].order
        /\ run'[q].phase \in {"queued", "ended"} <=> run[q].phase \in {"queued", "ended"}
        /\ now' = now /\ heeds' = heeds
    BY <1>4, Alone, StaysOn
  <2>2. Profile(q)' = Profile(q) /\ q \in Busy \ Locked
    BY <2>1 DEF Profile, Busy
  <2> QED BY <2>1, <2>2 DEF CooldownsHeeded
<1>5. ASSUME NEW r \in Runs, Overflow(r) \/ Level(r) PROVE Heeded(q)'
  <2>1. CASE run'[q].index = run[q].index /\ run'[q].order = run[q].order /\ q \in Busy
             /\ heeds'[q] = heeds[q] /\ now' = now
    <3>1. Profile(q)' = Profile(q) /\ q \in Busy \ Locked
      BY <2>1 DEF Profile, Busy
    <3> QED BY <2>1, <3>1 DEF CooldownsHeeded
  <2>2. CASE r # q
    <3>1. run'[q] = run[q] /\ now' = now /\ heeds'[q] = heeds[q]
      <4>1. run'[q] = run[q]
        BY <1>5, <2>2, Alone DEF Turns
      <4>2. heeds' = [heeds EXCEPT ![r] = Nothing] => heeds'[q] = heeds[q]
        BY <2>2 DEF TypeOK
      <4> QED BY <1>5, <4>1, <4>2, SameProfile
    <3> QED BY <2>1, <3>1 DEF Busy
  <2>3. CASE r = q
    <3>1. run'[q].phase # "ended"
      BY DEF Busy
    <3> QED BY <1>5, <2>1, <2>3, <3>1, SameProfile
  <2> QED BY <2>2, <2>3
<1>6. ASSUME NEW r \in Runs, Fail(r) PROVE Heeded(q)'
  <2>1. heeds'[q] = StillHeeded(heeds[q]) /\ now' = now
    BY <1>6 DEF Fail
  <2>2. heeds[q][Profile(q)'] \in Nat /\ heeds'[q][Profile(q)'] \in Nat
        /\ heeds'[q][Profile(q)'] <= heeds[q][Profile(q)']
        /\ heeds'[q][Profile(q)'] <= Until(disk', Profile(q)') /\ Until(disk', Profile(q)') \in Nat
    <3>1. Until(disk', Profile(q)') \in Nat
      BY <1>0, UntilType
    <3> QED BY <1>0, <1>a, <1>b, <2>1, <3>1
  <2>3. CASE run'[q].index = run[q].index /\ run'[q].order = run[q].order /\ q \in Busy
    <3>1. Profile(q)' = Profile(q) /\ q \in Busy \ Locked
      BY <2>3 DEF Profile, Busy
    <3>2. heeds[q][Profile(q)] <= now
      BY <3>1 DEF CooldownsHeeded
    <3> QED BY <1>0, <2>1, <2>2, <3>1, <3>2
  <2>4. CASE r # q
    <3>1. run'[q] = run[q]
      BY <1>6, <2>4, Alone DEF Turns
    <3> QED BY <2>3, <3>1 DEF Busy
  <2>5. CASE r = q
    <3>1. run'[q].phase # "ended"
      BY DEF Busy
    <3>3. CASE run'[q].order = run[q].order /\ now >= Until(disk', run[q].order[run'[q].index])
      <4>1. now >= Until(disk', Profile(q)')
        BY <3>3 DEF Profile
      <4> QED BY <1>0, <2>1, <2>2, <4>1
    <3>4. CASE run'[q].index = run[q].index /\ run'[q].order = run[q].order
      BY <1>6, <2>3, <2>5, <3>4, FailsHow
    <3> QED BY <1>6, <2>5, <3>1, <3>3, <3>4, FailsHow
  <2> QED BY <2>4, <2>5
<1>7. ASSUME NEW r \in Runs, Stops(r) PROVE Heeded(q)'
  <2>1. r # q /\ run'[q] = run[q] /\ now' = now
    <3>1. r # q
      BY <1>7, StopsNow DEF Busy
    <3> QED BY <1>7, <3>1, Alone, StopsNow
  <2>2. Profile(q)' = Profile(q) /\ q \in Busy \ Locked
    BY <2>1 DEF Profile, Busy
  <2>3. heeds'[q] = heeds[q] \/ heeds'[q] = StillHeeded(heeds[q])
    BY <1>7, <2>1 DEF Stops, Throws, PromptFails, TellTimeout, Finish, Gives, TypeOK
  <2>4. heeds[q][Profile(q)] \in Nat /\ heeds'[q][Profile(q)] \in Nat
        /\ heeds'[q][Profile(q)] <= heeds[q][Profile(q)]
    <3>1. f[Profile(q)] \in Nat /\ g[Profile(q)] \in Nat
      BY <1>0, <1>a, <2>2
    <3> QED BY <1>0, <1>b, <2>2, <2>3, <3>1
  <2>5. heeds[q][Profile(q)] <= now
    BY <2>2 DEF CooldownsHeeded
  <2> QED BY <1>0, <2>1, <2>2, <2>4, <2>5
<1> QED BY <1>1, <1>2, <1>3, <1>4, <1>5, <1>6, <1>7, Acts DEF Turns

(* No run uses a profile whose cooldown it has found in force at its start,*)
(* unless the user has chosen it: for any number of runs and profiles,     *)
(* whatever they save (run.ts, advanceAuthProfile).                        *)
THEOREM Heeded == Spec => []CooldownsHeeded
<1>1. Init => CooldownsHeeded /\ Unheeding
  BY BlankRun, RunAssumption DEF Init, CooldownsHeeded, Unheeding, Busy
<1>2. TypeOK /\ TypeOK' /\ Unheeding /\ [Next]_vars => Unheeding'
  BY UnheedingNext
<1>3. TypeOK /\ TypeOK' /\ Unheeding' /\ CooldownsHeeded /\ [Next]_vars => CooldownsHeeded'
  BY HeededNext
<1> QED BY <1>1, <1>2, <1>3, Typed, PTL DEF Spec

-----------------------------------------------------------------------------
\* A further attempt has spent more: the first of the four that differs has
\* grown.
LEMMA AboveHow ==
  ASSUME NEW l, NEW m,
         \/ m.index > l.index
         \/ m.index = l.index /\ Cardinality(m.tried) > Cardinality(l.tried)
         \/ m.index = l.index /\ m.tried = l.tried /\ m.truncated /\ ~l.truncated
         \/ m.index = l.index /\ m.tried = l.tried /\ m.truncated = l.truncated
            /\ m.overflows > l.overflows
  PROVE  Above(Spent(m), Spent(l))
<1> DEFINE s == Spent(m)  t == Spent(l)
<1>1. /\ DOMAIN s = 1..4 /\ s[1] = m.index /\ s[2] = Cardinality(m.tried)
      /\ s[3] = (IF m.truncated THEN 1 ELSE 0) /\ s[4] = m.overflows
  BY DEF Spent
<1>2. /\ t[1] = l.index /\ t[2] = Cardinality(l.tried)
      /\ t[3] = (IF l.truncated THEN 1 ELSE 0) /\ t[4] = l.overflows
  BY DEF Spent
<1>3. CASE m.index > l.index
  <2>1. 1 \in DOMAIN s /\ s[1] > t[1] /\ \A j \in 1..(1 - 1) : s[j] = t[j]
    BY <1>1, <1>2, <1>3
  <2> QED BY <2>1 DEF Above
<1>4. CASE m.index = l.index /\ Cardinality(m.tried) > Cardinality(l.tried)
  <2>1. 2 \in DOMAIN s /\ s[2] > t[2] /\ \A j \in 1..(2 - 1) : s[j] = t[j]
    BY <1>1, <1>2, <1>4
  <2> QED BY <2>1 DEF Above
<1>5. CASE m.index = l.index /\ m.tried = l.tried /\ m.truncated /\ ~l.truncated
  <2>1. 3 \in DOMAIN s /\ s[3] > t[3] /\ s[1] = t[1] /\ s[2] = t[2]
    BY <1>1, <1>2, <1>5
  <2>2. \A j \in 1..(3 - 1) : j = 1 \/ j = 2
    OBVIOUS
  <2> QED BY <2>1, <2>2 DEF Above
<1>6. CASE m.index = l.index /\ m.tried = l.tried /\ m.truncated = l.truncated
           /\ m.overflows > l.overflows
  <2>1. 4 \in DOMAIN s /\ s[4] > t[4] /\ s[1] = t[1] /\ s[2] = t[2] /\ s[3] = t[3]
    BY <1>1, <1>2, <1>6
  <2>2. \A j \in 1..(4 - 1) : j = 1 \/ j = 2 \/ j = 3
    OBVIOUS
  <2> QED BY <2>1, <2>2 DEF Above
<1> QED BY <1>3, <1>4, <1>5, <1>6

\* run.ts:484: whichever retry takes a run from its judgement to another
\* attempt, it has spent a profile, a level, the truncation or a compaction.
LEMMA SpentNext ==
  ASSUME TypeOK, Next, NEW r \in Runs, At(r, "judging"), At(r, "starting")'
  PROVE  Above(Spent(run'[r]), Spent(run[r]))
<1>1. run[r].phase = "judging" /\ run'[r].phase = "starting" /\ run'[r] # run[r]
  BY DEF At
<1>2. ~Tick
  BY <1>1 DEF Tick
<1>3. Begin(r) \/ Stays(r) \/ Turns(r) \/ Stops(r)
  BY <1>1, <1>2, Acts, Alone
<1>4. ~Begin(r) /\ ~Stays(r) /\ ~Stops(r)
  BY <1>1, BeginsHow, StaysOn, StopsNow
<1>5. /\ run[r] \in Run /\ run[r].tried # {} /\ run[r].tried \subseteq Levels[r]
      /\ run[r].index \in DOMAIN run[r].order
  BY Judging
<1>7. CASE Rethinks(r)
  <2>1. PICK l \in Run, v \in Levels[r] \ run[r].tried :
           /\ Again(r, l) /\ l.tried = run[r].tried \union {v} /\ l.tried \subseteq Levels[r]
           /\ l.tried # {} /\ l.index = run[r].index /\ l.index \in DOMAIN l.order
    BY <1>7, RethinksType
  <2>5. run'[r].index = run[r].index /\ run'[r].tried = run[r].tried \union {v}
    BY <2>1, AgainType
  <2>6. IsFiniteSet(run[r].tried)
    BY <1>5, FS_Subset, RunAssumption
  <2>7. /\ Cardinality(run[r].tried) \in Nat
        /\ Cardinality(run[r].tried \union {v}) = Cardinality(run[r].tried) + 1
    BY <2>6, FS_CardinalityType, FS_AddElement
  <2>8. Cardinality(run'[r].tried) > Cardinality(run[r].tried)
    BY <2>5, <2>7
  <2> QED BY <2>5, <2>8, AboveHow
<1>6. CASE Fail(r)
  <2>1. run'[r].index > run[r].index \/ Rethinks(r)
    BY <1>1, <1>6, FailsHow
  <2> QED BY <1>7, <2>1, AboveHow
<1>8. CASE Overflow(r)
  <2>1. ~Ends(r)
    BY <1>1, EndsType
  <2>2. MaxOverflow \in Nat /\ run[r].overflows \in 0..MaxOverflow
    BY <1>5, RunAssumption DEF Run
  <2>3. CASE run[r].overflows < MaxOverflow /\ Again(r, [run[r] EXCEPT !.overflows = @ + 1])
    <3> DEFINE l == [run[r] EXCEPT !.overflows = @ + 1]
    <3>1. run[r].overflows + 1 \in 0..MaxOverflow
      BY <2>2, <2>3
    <3>2. l \in Run /\ l.tried = run[r].tried /\ l.index = run[r].index /\ l.order = run[r].order
          /\ l.overflows = run[r].overflows + 1 /\ l.truncated = run[r].truncated
      BY <1>5, <3>1 DEF Run
    <3> HIDE DEF l
    <3>3. Again(r, l)
      BY <2>3 DEF l
    <3>4. run'[r].index = run[r].index /\ run'[r].tried = run[r].tried
          /\ run'[r].truncated = run[r].truncated
          /\ run'[r].overflows = run[r].overflows + 1
      BY <1>5, <3>2, <3>3, AgainType
    <3>5. run'[r].overflows > run[r].overflows
      BY <2>2, <3>4
    <3> QED BY <3>4, <3>5, AboveHow
  <2>4. CASE ~run[r].truncated /\ Again(r, [run[r] EXCEPT !.truncated = TRUE, !.overflows = 0])
    <3> DEFINE l == [run[r] EXCEPT !.truncated = TRUE, !.overflows = 0]
    <3>1. l = [[run[r] EXCEPT !.truncated = TRUE] EXCEPT !.overflows = 0] /\ 0 \in 0..MaxOverflow
      BY <2>2
    <3>2. l \in Run /\ l.tried = run[r].tried /\ l.index = run[r].index /\ l.order = run[r].order
          /\ l.truncated = TRUE
      BY <1>5, <3>1 DEF Run
    <3> HIDE DEF l
    <3>3. Again(r, l)
      BY <2>4 DEF l
    <3>4. run'[r].index = run[r].index /\ run'[r].tried = run[r].tried /\ run'[r].truncated = TRUE
      BY <1>5, <3>2, <3>3, AgainType
    <3> QED BY <2>4, <3>4, AboveHow
  <2> QED BY <1>8, <2>1, <2>3, <2>4 DEF Overflow, Gives
<1> QED BY <1>3, <1>4, <1>6, <1>7, <1>8 DEF Turns, Level

\* Every further attempt of a run spends something for good (run.ts:484).
THEOREM Bounded == Spec => CallsBounded
<1>1. TypeOK /\ [Next]_vars =>
        [\A r \in Runs : At(r, "judging")
          /\ At(r, "starting")' => Above(Spent(run'[r]), Spent(run[r]))]_vars
  BY SpentNext
<1> QED BY <1>1, Typed, PTL DEF Spec, CallsBounded
-----------------------------------------------------------------------------
\* An attempt that a cleanup has aborted, and no timeout: the run is still in
\* it, or judges what it has brought.
Unwinds(r) == attempt[r].aborted /\ ~attempt[r].timedOut
  /\ run[r].phase \in {"preparing", "prompting", "judging"}
StoppedUnwind == \A r \in stopped : Unwinds(r)

\* Nothing but its reply is left to a run whose attempt was aborted: it goes
\* to its judgement, and from there it ends.
LEMMA StoppedNext ==
  ASSUME TypeOK, TypeOK', StoppedUnwind, [Next]_vars
  PROVE  StoppedUnwind' /\ \A r \in stopped : ~At(r, "starting")'
<1> SUFFICES ASSUME NEW q \in Runs
             PROVE  (q \in stopped' => Unwinds(q)') /\ (q \in stopped => ~At(q, "starting")')
  BY DEF StoppedUnwind, TypeOK
<1>1. CASE UNCHANGED vars \/ Tick
  <2>1. UNCHANGED <<run, attempt, stopped>>
    BY <1>1 DEF vars, Tick
  <2> QED BY <2>1 DEF StoppedUnwind, Unwinds, At
<1>2. ASSUME NEW r \in Runs, Begin(r) \/ Stays(r) \/ Turns(r) \/ Stops(r)
      PROVE  (q \in stopped' => Unwinds(q)') /\ (q \in stopped => ~At(q, "starting")')
  <2>1. CASE r # q
    <3>1. run'[q] = run[q] /\ attempt'[q] = attempt[q]
      BY <1>2, <2>1, Alone
    <3>2. q \in stopped' => q \in stopped
      <4>1. CASE Begin(r)
        BY <4>1, BeginsHow
      <4>2. CASE Stays(r)
        BY <2>1, <4>2 DEF Stays, Register, Prompt, Timeout, Return, Cleanup, CleanupFails
      <4>3. CASE Turns(r)
        BY <4>3, SameProfile, FailsHow DEF Turns
      <4>4. CASE Stops(r)
        BY <4>4, StopsNow
      <4> QED BY <1>2, <4>1, <4>2, <4>3, <4>4
    <3> QED BY <3>1, <3>2 DEF StoppedUnwind, Unwinds, At
  <2>2. CASE r = q /\ q \in stopped
    <3>1. Unwinds(q)
      BY <2>2 DEF StoppedUnwind
    <3>2. ~Begin(q)
      BY <3>1, BeginsHow DEF Unwinds
    <3>3. ~Turns(q)
      BY <3>1 DEF Turns, Overflow, Level, Fail, Fails, Judges, TimedOut, Unwinds
    <3>4. CASE Stops(q)
      BY <3>4, StopsNow DEF At
    <3>5. CASE Stays(q)
      <4>1. ~At(q, "starting")'
        BY <3>1, <3>5, StaysOn DEF At, Unwinds
      <4>2. CASE Register(q) \/ Timeout(q)
        BY <3>1, <4>1, <4>2 DEF Register, Timeout, At, Unwinds
      <4>5. CASE Prompt(q)
        <5>1. Goes(q, "prompting") /\ q \in Busy /\ "prompting" \in Phases \ {"queued", "ended"}
              /\ UNCHANGED attempt
          BY <3>1, <4>5 DEF Prompt, Unwinds, Busy, Phases
        <5>2. run'[q].phase = "prompting"
          BY <5>1, GoesType
        <5> QED BY <3>1, <4>1, <5>1, <5>2 DEF Unwinds
      <4>3. CASE Return(q)
        <5>1. Goes(q, "judging") /\ q \in Busy /\ "judging" \in Phases \ {"queued", "ended"}
          BY <3>1, <4>3 DEF Return, Unwinds, Busy, Phases
        <5>2. run'[q].phase = "judging"
          BY <5>1, GoesType
        <5>3. PICK a \in Brings(q) : attempt' = [attempt EXCEPT ![q].answer = a]
          BY <4>3 DEF Return
        <5>4. attempt'[q] = [attempt[q] EXCEPT !.answer = a] /\ attempt[q] \in Attempt
          BY <5>3 DEF TypeOK
        <5>5. attempt'[q].aborted = attempt[q].aborted /\ attempt'[q].timedOut = attempt[q].timedOut
          BY <5>4 DEF Attempt
        <5> QED BY <3>1, <4>1, <5>2, <5>5 DEF Unwinds
      <4>4. CASE Cleanup(q) \/ CleanupFails(q)
        <5>1. UNCHANGED run /\ (UNCHANGED attempt
              \/ attempt' = [attempt EXCEPT ![q].aborted = TRUE])
          BY <4>4 DEF Cleanup, CleanupFails
        <5>2. attempt[q] \in Attempt
          BY DEF TypeOK
        <5>3. attempt'[q] = attempt[q] \/ attempt'[q] = [attempt[q] EXCEPT !.aborted = TRUE]
          BY <5>1 DEF TypeOK
        <5>4. attempt'[q].aborted /\ attempt'[q].timedOut = attempt[q].timedOut
          BY <3>1, <5>2, <5>3 DEF Attempt, Unwinds
        <5> QED BY <3>1, <4>1, <5>1, <5>4 DEF Unwinds
      <4> QED BY <3>5, <4>2, <4>3, <4>4, <4>5 DEF Stays
    <3> QED BY <1>2, <2>2, <3>2, <3>3, <3>4, <3>5
  <2>3. CASE r = q /\ q \notin stopped
    <3>1. CASE q \notin stopped'
      BY <2>3, <3>1
    <3>2. CASE q \in stopped'
      <4>1. ~Begin(q) /\ ~Turns(q) /\ ~Stops(q)
        BY <2>3, <3>2, BeginsHow, SameProfile, FailsHow, StopsNow DEF Turns
      <4>2. Cleanup(q) /\ Registered(q) /\ ~attempt[q].timedOut /\ UNCHANGED run
            /\ attempt' = [attempt EXCEPT ![q].aborted = TRUE]
        BY <1>2, <2>3, <3>2, <4>1 DEF Stays, Register, Prompt, Timeout, Return, Cleanup, CleanupFails
      <4>3. attempt[q] \in Attempt /\ attempt'[q] = [attempt[q] EXCEPT !.aborted = TRUE]
        BY <4>2 DEF TypeOK
      <4>4. attempt'[q].aborted /\ ~attempt'[q].timedOut
        BY <4>2, <4>3 DEF Attempt
      <4> QED BY <2>3, <4>2, <4>4 DEF Unwinds, Registered, At
    <3> QED BY <3>1, <3>2
  <2> QED BY <2>1, <2>2, <2>3
<1> QED BY <1>1, <1>2, Acts

\* A run that was aborted for a reset begins no other attempt; the prompt it
\* was being prepared for may still go out (runs.ts:72, sessions.ts:1192,
\* attempt.ts:831-1045).
THEOREM Stuck == Spec => AbortsStick
<1>1. Init => StoppedUnwind
  BY DEF Init, StoppedUnwind
<1>2. TypeOK /\ TypeOK' /\ StoppedUnwind /\ [Next]_vars => StoppedUnwind'
  BY StoppedNext
<1>3. TypeOK /\ TypeOK' /\ StoppedUnwind
      /\ [Next]_vars => [\A r \in stopped : ~At(r, "starting")']_vars
  BY StoppedNext
<1> QED BY <1>1, <1>2, <1>3, Typed, PTL DEF Spec, AbortsStick

-----------------------------------------------------------------------------
\* An unusable profile is not kept from use for longer than the backoffs of
\* its counts, from now on, unless the window has restarted the counts: so a
\* further failure can only prolong that.
Backed(s, n, p) ==
    p \notin s.restarted =>
        /\ n < s.cooldown[p] => /\ s.errors[p] \in DOMAIN Backoff
                                /\ s.cooldown[p] <= n + Backoff[s.errors[p]]
        /\ n < s.disabled[p] => /\ s.billing[p] \in DOMAIN Billing
                                /\ s.disabled[p] <= n + Billing[s.billing[p]]
Within(s, n) == \A p \in Profiles : Backed(s, n, p)
AllWithin == Within(disk, now) /\ \A r \in Lockless : Within(view[r], now)

(* Time only shortens what is left of a cooldown.                          *)
LEMMA WithinLater ==
  ASSUME NEW s \in Stats, NEW n \in Nat, Within(s, n)
  PROVE  Within(s, n + 1)
<1> SUFFICES ASSUME NEW p \in Profiles, p \notin s.restarted
             PROVE  /\ n + 1 < s.cooldown[p] => /\ s.errors[p] \in DOMAIN Backoff
                                                /\ s.cooldown[p] <= n + 1 + Backoff[s.errors[p]]
                    /\ n + 1 < s.disabled[p] => /\ s.billing[p] \in DOMAIN Billing
                                                /\ s.disabled[p] <= n + 1 + Billing[s.billing[p]]
  BY DEF Within, Backed
<1>1. s.cooldown[p] \in Nat /\ s.disabled[p] \in Nat
  BY DEF Stats
<1>2. /\ n < s.cooldown[p] => /\ s.errors[p] \in DOMAIN Backoff
                              /\ s.cooldown[p] <= n + Backoff[s.errors[p]]
      /\ n < s.disabled[p] => /\ s.billing[p] \in DOMAIN Billing
                              /\ s.disabled[p] <= n + Billing[s.billing[p]]
  BY DEF Within, Backed
<1>3. /\ s.errors[p] \in DOMAIN Backoff => Backoff[s.errors[p]] \in Nat
      /\ s.billing[p] \in DOMAIN Billing => Billing[s.billing[p]] \in Nat
  BY Tables
<1> QED BY <1>1, <1>2, <1>3

(* Clearing cooldowns that are over leaves the others as they are.         *)
LEMMA WithinCleared ==
  ASSUME now \in Nat, NEW s \in Stats, Within(s, now)
  PROVE  Within(Cleared(s), now)
<1> DEFINE C == Cleared(s)
<1>1. \A p \in Profiles :
         /\ C.cooldown[p] = IF now < s.cooldown[p] THEN s.cooldown[p] ELSE 0
         /\ C.disabled[p] = IF now < s.disabled[p] THEN s.disabled[p] ELSE 0
         /\ Cooling(s, p) => /\ C.errors[p] = s.errors[p] /\ C.billing[p] = s.billing[p]
                             /\ p \in C.restarted <=> p \in s.restarted
  BY ClearedType
<1> HIDE DEF C
<1> SUFFICES ASSUME NEW p \in Profiles PROVE Backed(C, now, p)
  BY DEF Within, C
<1>2. CASE Cooling(s, p)
  <2>1. Backed(s, now, p)
    BY DEF Within
  <2> QED BY <1>1, <1>2, <2>1 DEF Backed
<1>3. CASE ~Cooling(s, p)
  <2>1. ~(now < s.cooldown[p]) /\ ~(now < s.disabled[p])
    <3>1. s.cooldown[p] \in Nat /\ s.disabled[p] \in Nat
      BY DEF Stats
    <3> QED BY <1>3, <3>1, UntilType DEF Cooling
  <2>2. C.cooldown[p] = 0 /\ C.disabled[p] = 0
    BY <1>1, <2>1
  <2> QED BY <2>2 DEF Backed
<1> QED BY <1>2, <1>3

(* Where nothing has failed, nothing cools down.                           *)
LEMMA WithinBlank == ASSUME NEW s \in NeverFailed, NEW n \in Nat PROVE Within(s, n)
<1>1. \A p \in Profiles : s.cooldown[p] = 0 /\ s.disabled[p] = 0
  BY DEF NeverFailed, Nothing
<1> QED BY <1>1 DEF Within, Backed

(* The same statistics are as good.                                        *)
LEMMA BackedAlike ==
  ASSUME NEW s, NEW t, NEW p, NEW n, Alike(s, t, p), Backed(s, n, p)
  PROVE  Backed(t, n, p)
BY DEF Alike, Backed

(* Marking a profile as used ends its cooldown.                            *)
LEMMA WithinUsed ==
  ASSUME now \in Nat, NEW s \in Stats, NEW p \in Profiles, Within(s, now)
  PROVE  Within(Used(s, p), now)
<1>1. Used(s, p).cooldown[p] = 0 /\ Used(s, p).disabled[p] = 0
  BY UsedType
<1>2. Backed(Used(s, p), now, p)
  BY <1>1 DEF Backed
<1>3. ASSUME NEW q \in Profiles \ {p} PROVE Backed(Used(s, p), now, q)
  <2>1. Alike(s, Used(s, p), q) /\ Backed(s, now, q)
    BY UsedType DEF Within
  <2> QED BY <2>1, BackedAlike
<1> QED BY <1>2, <1>3 DEF Within

\* A profile that has fallen is backed, and unless its counts have been
\* restarted it is not usable any sooner.
LEMMA FallenBacked ==
  ASSUME now \in Nat, NEW s \in Stats, NEW t \in Stats, NEW p \in Profiles, NEW reason,
         Backed(s, now, p), Fallen(s, t, p, reason)
  PROVE  /\ Backed(t, now, p)
         /\ p \notin t.restarted =>
               /\ now < s.cooldown[p] => t.cooldown[p] >= s.cooldown[p]
               /\ now < s.disabled[p] => t.disabled[p] >= s.disabled[p]
<1> SUFFICES ASSUME p \notin t.restarted
             PROVE  /\ now < t.cooldown[p] => /\ t.errors[p] \in DOMAIN Backoff
                                              /\ t.cooldown[p] <= now + Backoff[t.errors[p]]
                    /\ now < t.disabled[p] => /\ t.billing[p] \in DOMAIN Billing
                                              /\ t.disabled[p] <= now + Billing[t.billing[p]]
                    /\ now < s.cooldown[p] => t.cooldown[p] >= s.cooldown[p]
                    /\ now < s.disabled[p] => t.disabled[p] >= s.disabled[p]
  BY DEF Backed
<1>1. p \notin s.restarted /\ ~(Expired(s, p) /\ Cooling(s, p))
  BY DEF Fallen
<1>2. /\ now < s.cooldown[p] => /\ s.errors[p] \in DOMAIN Backoff
                                /\ s.cooldown[p] <= now + Backoff[s.errors[p]]
      /\ now < s.disabled[p] => /\ s.billing[p] \in DOMAIN Billing
                                /\ s.disabled[p] <= now + Billing[s.billing[p]]
  BY <1>1 DEF Backed
<1>3. /\ s.cooldown[p] \in Nat /\ s.disabled[p] \in Nat
      /\ t.cooldown[p] \in Nat /\ t.disabled[p] \in Nat
      /\ s.errors[p] \in Nat /\ s.billing[p] \in Nat
      /\ t.errors[p] \in 1..Len(Backoff) /\ t.billing[p] \in 0..Len(Billing)
  BY Tables DEF Stats, Fallen
<1>4. Backoff[t.errors[p]] \in Nat /\ (t.billing[p] \in DOMAIN Billing => Billing[t.billing[p]] \in Nat)
  BY <1>3, Tables
<1>5. CASE ~Cooling(s, p)
  <2>1. s.cooldown[p] <= now /\ s.disabled[p] <= now
    <3>1. Until(s, p) \in Nat /\ Until(s, p) <= now
      BY <1>5, UntilType DEF Cooling
    <3> QED BY <1>3, <3>1, UntilType
  <2>2. CASE reason = "billing"
    <3>1. /\ t.billing[p] \in DOMAIN Billing /\ t.disabled[p] = now + Billing[t.billing[p]]
          /\ t.cooldown[p] = s.cooldown[p]
      BY <2>2 DEF Fallen
    <3> QED BY <1>3, <1>4, <2>1, <3>1
  <2>3. CASE reason # "billing"
    <3>1. /\ t.errors[p] \in DOMAIN Backoff /\ t.cooldown[p] = now + Backoff[t.errors[p]]
          /\ t.disabled[p] = s.disabled[p]
      BY <2>3 DEF Fallen
    <3> QED BY <1>3, <1>4, <2>1, <3>1
  <2> QED BY <2>2, <2>3
<1>6. CASE ~Expired(s, p)
  <2>1. t.errors[p] >= s.errors[p] /\ t.billing[p] >= s.billing[p] /\ t.errors[p] \in DOMAIN Backoff
    BY <1>6 DEF Fallen
  <2>2. s.errors[p] \in DOMAIN Backoff => /\ Backoff[s.errors[p]] \in Nat
                                          /\ Backoff[s.errors[p]] <= Backoff[t.errors[p]]
    BY <2>1, Tables, RunAssumption
  <2>3. s.billing[p] \in DOMAIN Billing => /\ t.billing[p] \in DOMAIN Billing
                                           /\ Billing[s.billing[p]] \in Nat
                                           /\ Billing[s.billing[p]] <= Billing[t.billing[p]]
    <3>1. s.billing[p] \in DOMAIN Billing => t.billing[p] \in DOMAIN Billing
      BY <1>3, <2>1, Tables
    <3> QED BY <2>1, <3>1, Tables, RunAssumption
  <2>6. ASSUME NEW c \in Nat, NEW x \in Nat, NEW y \in Nat, c <= now + x, x <= y PROVE c <= now + y
    BY <2>6
  <2>7. now < s.cooldown[p] => s.cooldown[p] <= now + Backoff[t.errors[p]]
    BY <1>2, <1>3, <1>4, <2>2, <2>6
  <2>8. now < s.disabled[p] => /\ t.billing[p] \in DOMAIN Billing
                               /\ s.disabled[p] <= now + Billing[t.billing[p]]
    BY <1>2, <1>3, <1>4, <2>3, <2>6
  <2>4. CASE reason = "billing"
    <3>1. /\ t.billing[p] \in DOMAIN Billing /\ t.disabled[p] = now + Billing[t.billing[p]]
          /\ t.cooldown[p] = s.cooldown[p]
      BY <2>4 DEF Fallen
    <3>2. t.cooldown[p] >= t.cooldown[p] /\ t.disabled[p] >= t.disabled[p]
      BY <1>3
    <3> QED BY <2>1, <2>7, <2>8, <3>1, <3>2
  <2>5. CASE reason # "billing"
    <3>1. /\ t.cooldown[p] = now + Backoff[t.errors[p]] /\ t.disabled[p] = s.disabled[p]
      BY <2>5 DEF Fallen
    <3>2. t.cooldown[p] >= t.cooldown[p] /\ t.disabled[p] >= t.disabled[p]
      BY <1>3
    <3> QED BY <2>1, <2>7, <2>8, <3>1, <3>2
  <2> QED BY <2>4, <2>5
<1> QED BY <1>1, <1>5, <1>6

\* Between s and t a profile is freed no sooner, unless the window has
\* restarted its counts.
Lengthens(s, t, p) ==
    p \notin t.restarted => /\ now < s.cooldown[p] => t.cooldown[p] >= s.cooldown[p]
                            /\ now < s.disabled[p] => t.disabled[p] >= s.disabled[p]

(* The same statistics free it as soon.                                    *)
LEMMA LengthensAlike ==
  ASSUME NEW s \in Stats, NEW t, NEW p \in Profiles, Alike(s, t, p)
  PROVE  Lengthens(s, t, p)
<1>1. s.cooldown[p] \in Nat /\ s.disabled[p] \in Nat
  BY DEF Stats
<1> QED BY <1>1 DEF Alike, Lengthens

\* A failure leaves the other profiles, and prolongs what keeps its own from
\* use, unless the window restarts its counts.
LEMMA WithinFailed ==
  ASSUME now \in Nat, NEW s \in Stats, NEW p \in Profiles, NEW reason, Within(s, now)
  PROVE  /\ Within(Failed(s, p, reason), now)
         /\ \A q \in Profiles : Lengthens(s, Failed(s, p, reason), q)
<1> DEFINE F == Failed(s, p, reason)
<1>1. F \in Stats /\ Fallen(s, F, p, reason) /\ \A q \in Profiles \ {p} : Alike(s, F, q)
  BY FailedType
<1> HIDE DEF F
<1>2. Backed(s, now, p)
  BY DEF Within
<1>3. Backed(F, now, p) /\ Lengthens(s, F, p)
  BY <1>1, <1>2, FallenBacked DEF Lengthens
<1>4. ASSUME NEW q \in Profiles \ {p} PROVE Backed(F, now, q) /\ Lengthens(s, F, q)
  <2>1. Alike(s, F, q) /\ Backed(s, now, q)
    BY <1>1 DEF Within
  <2> QED BY <2>1, BackedAlike, LengthensAlike
<1>5. \A q \in Profiles : Backed(F, now, q) /\ Lengthens(s, F, q)
  BY <1>3, <1>4
<1> QED BY <1>5 DEF F, Within

(* Initially nothing cools down but the debts, for as long as they count.  *)
LEMMA WithinInit == Init => AllWithin
<1> SUFFICES ASSUME Init PROVE AllWithin
  OBVIOUS
<1>1. now \in Nat /\ Billed \subseteq Profiles
  BY RunAssumption DEF Init
<1>2. PICK s \in NeverFailed, P \in {{}, Billed} : disk = InDebt(s, P)
  BY DEF Init
<1>3. P \in SUBSET Profiles
  BY <1>1
<1>4. ASSUME NEW p \in Profiles PROVE Backed(disk, now, p)
  <2>1. /\ disk.cooldown[p] = 0
        /\ IF p \in P THEN /\ disk.billing[p] = Len(Billing)
                           /\ disk.disabled[p] = now + Billing[Len(Billing)]
                      ELSE disk.disabled[p] = 0
    BY <1>1, <1>2, <1>3, DebtType
  <2>2. Len(Billing) \in DOMAIN Billing /\ Billing[Len(Billing)] \in Nat
    BY Tables
  <2> QED BY <1>1, <2>1, <2>2 DEF Backed
<1>5. \A r \in Lockless : Within(view[r], now)
  BY <1>1, BlankType, WithinBlank DEF Init
<1> QED BY <1>4, <1>5 DEF AllWithin, Within

\* What a run keeps as its copy.
LEMMA WithinKept ==
  ASSUME AllWithin, NEW r \in Runs, NEW s, Keeps(r, s), Within(s, now), now' = now
  PROVE  \A q \in Lockless : Within(view'[q], now')
BY DEF Keeps, AllWithin

(* A run that ends keeps no copy.                                          *)
LEMMA WithinEnds ==
  ASSUME AllWithin, NEW r \in Runs, Ends(r), now' = now, now \in Nat
  PROVE  \A q \in Lockless : Within(view'[q], now')
<1>1. Within(Blank, now) /\ Keeps(r, Blank)
  BY BlankType, WithinBlank DEF Ends
<1> QED BY <1>1, WithinKept

(* What is saved is the new file, or the old copy, once, without the lock. *)
LEMMA SaveHow ==
  ASSUME TypeOK, NEW r \in Runs, NEW fresh, NEW stale, Save(r, fresh, stale)
  PROVE  disk' = fresh \/ (disk' = stale /\ unlocked' # unlocked)
<1>1. CASE disk' = fresh
  BY <1>1
<1>2. CASE disk' = stale /\ unlocked' = TRUE /\ ~unlocked
  <2>1. ASSUME unlocked' = unlocked PROVE FALSE
    <3>1. unlocked = TRUE
      BY <1>2, <2>1
    <3> QED BY <1>2, <3>1
  <2> QED BY <1>2, <2>1
<1> QED BY <1>1, <1>2 DEF Save

(* The copy that a run would save is as good as the file was.              *)
LEMMA CopyWithin == ASSUME AllWithin, NEW r \in Runs PROVE Within(Copy(r), now)
BY DEF AllWithin, Copy

\* What CooldownsKept allows a step to do.
Lasts ==
    \A p \in Profiles : Shortened(p) =>
        \/ unlocked' # unlocked
        \/ disk'.errors[p] = 0 /\ \E r \in Busy : Profile(r) = p /\ r \notin Busy'
        \/ p \in disk'.restarted

(* What is freed no sooner is not shortened, unless by the window.         *)
LEMMA LengthensKeeps ==
  ASSUME TypeOK, TypeOK', NEW p \in Profiles, Lengthens(disk, disk', p), Shortened(p)
  PROVE  p \in disk'.restarted
<1>1. disk.cooldown[p] \in Nat /\ disk'.cooldown[p] \in Nat
      /\ disk.disabled[p] \in Nat /\ disk'.disabled[p] \in Nat
  BY DEF TypeOK, Stats
<1> QED BY <1>1 DEF Lengthens, Shortened

\* usage.ts:127-175, 257-362: only a run that ends with the profile, a save
\* without the lock or a failure after the window cuts a cooldown short; every
\* other save prolongs it or leaves it.
LEMMA KeptNext ==
  ASSUME TypeOK, TypeOK', AllWithin, [Next]_vars
  PROVE  AllWithin' /\ Lasts
<1>0. now \in Nat /\ disk \in Stats /\ disk' \in Stats /\ \A r \in Lockless : view[r] \in Stats
  BY DEF TypeOK
<1>a. ASSUME disk' = disk PROVE Lasts
  <2>1. ASSUME NEW p \in Profiles PROVE ~Shortened(p)
    <3>1. disk.cooldown[p] \in Nat /\ disk.disabled[p] \in Nat
      BY <1>0 DEF Stats
    <3> QED BY <1>a, <3>1 DEF Shortened
  <2> QED BY <2>1 DEF Lasts
<1>1. CASE UNCHANGED vars
  BY <1>1, <1>a DEF vars, AllWithin
<1>2. CASE Tick
  <2>1. now' = now + 1 /\ UNCHANGED <<disk, view>>
    BY <1>2 DEF Tick
  <2>2. Within(disk, now + 1) /\ \A r \in Lockless : Within(view[r], now + 1)
    BY <1>0, WithinLater DEF AllWithin
  <2> QED BY <1>a, <2>1, <2>2 DEF AllWithin
<1>3. ASSUME NEW r \in Runs, Begin(r) PROVE AllWithin' /\ Lasts
  <2>1. UNCHANGED <<now, disk>> /\ (Ends(r) \/ Keeps(r, Cleared(disk)))
    BY <1>3, BeginsHow
  <2>2. Within(Cleared(disk), now) /\ Within(disk, now)
    BY <1>0, WithinCleared DEF AllWithin
  <2>3. \A q \in Lockless : Within(view'[q], now')
    BY <1>0, <2>1, <2>2, WithinKept, WithinEnds
  <2> QED BY <1>a, <2>1, <2>2, <2>3 DEF AllWithin
<1>4. ASSUME NEW r \in Runs, Stays(r) PROVE AllWithin' /\ Lasts
  BY <1>4, <1>a, StaysOn DEF AllWithin
<1>5. ASSUME NEW r \in Runs, Overflow(r) \/ Level(r) PROVE AllWithin' /\ Lasts
  <2>1. UNCHANGED <<now, disk>> /\ (Ends(r) \/ UNCHANGED view)
    BY <1>5, SameProfile
  <2>2. \A q \in Lockless : Within(view'[q], now')
    BY <1>0, <2>1, WithinEnds DEF AllWithin
  <2> QED BY <1>a, <2>1, <2>2 DEF AllWithin
<1>6. ASSUME NEW r \in Runs, Fail(r) PROVE AllWithin' /\ Lasts
  <2> DEFINE p == Profile(r)
  <2>1. PICK reason \in {"billing", "other"} :
           Save(r, Failed(disk, p, reason), Failed(Copy(r), p, reason))
    BY <1>6, FailSaves
  <2>2. now' = now /\ p \in Profiles /\ Copy(r) \in Stats /\ Within(Copy(r), now) /\ Within(disk, now)
    BY <1>6, FailSaves, CopyType, CopyWithin DEF AllWithin
  <2> HIDE DEF p
  <2>3. /\ Within(Failed(disk, p, reason), now) /\ Within(Failed(Copy(r), p, reason), now)
        /\ \A q \in Profiles : Lengthens(disk, Failed(disk, p, reason), q)
    BY <1>0, <2>2, WithinFailed
  <2>4. disk' = Failed(disk, p, reason) \/ (disk' = Failed(Copy(r), p, reason)
        /\ unlocked' # unlocked)
    BY <2>1, SaveHow
  <2>5. Within(disk', now)
    BY <2>3, <2>4
  <2>6. Keeps(r, disk') \/ Ends(r)
    BY <1>6, GivesUpHow DEF Fail
  <2>7. \A q \in Lockless : Within(view'[q], now')
    BY <1>0, <2>2, <2>5, <2>6, WithinKept, WithinEnds
  <2>8. Lasts
    <3>1. CASE \A q \in Profiles : Lengthens(disk, disk', q)
      BY <3>1, LengthensKeeps DEF Lasts
    <3> QED BY <2>3, <2>4, <3>1 DEF Lasts
  <2>9. Within(disk', now')
    BY <2>2, <2>5
  <2> QED BY <2>7, <2>8, <2>9 DEF AllWithin
<1>7. ASSUME NEW r \in Runs, Throws(r) \/ PromptFails(r) \/ TellTimeout(r) PROVE AllWithin' /\ Lasts
  <2>1. Ends(r) /\ UNCHANGED <<now, disk>>
    BY <1>7 DEF Throws, PromptFails, TellTimeout, Gives
  <2> QED BY <1>0, <1>a, <2>1, WithinEnds DEF AllWithin
<1>8. ASSUME NEW r \in Runs, Finish(r) PROVE AllWithin' /\ Lasts
  <2> DEFINE p == Profile(r)
  <2>1. Ends(r) /\ now' = now /\ r \in Busy /\ run'[r].phase = "ended"
        /\ Save(r, Used(disk, p), Used(Copy(r), p))
    BY <1>8, StopsNow DEF Finish, Stops
  <2>2. p \in Profiles /\ Copy(r) \in Stats /\ Within(Copy(r), now) /\ Within(disk, now)
    BY <2>1, ProfileType, CopyType, CopyWithin DEF AllWithin
  <2>a. r \in Busy /\ Profile(r) = p /\ r \notin Busy'
    BY <2>1 DEF Busy
  <2> HIDE DEF p
  <2>3. /\ Within(Used(disk, p), now) /\ Within(Used(Copy(r), p), now)
        /\ Used(disk, p).errors[p] = 0
        /\ \A q \in Profiles \ {p} : Alike(disk, Used(disk, p), q)
    BY <1>0, <2>2, WithinUsed, UsedType
  <2>4. disk' = Used(disk, p) \/ (disk' = Used(Copy(r), p)
        /\ unlocked' # unlocked)
    BY <2>1, SaveHow
  <2>5. Within(disk', now')
    BY <2>1, <2>3, <2>4
  <2>6. \A q \in Lockless : Within(view'[q], now')
    BY <1>0, <2>1, WithinEnds
  <2>7. CASE disk' = Used(disk, p)
    <3>1. disk'.errors[p] = 0 /\ \A q \in Profiles \ {p} : Lengthens(disk, disk', q)
      BY <1>0, <2>3, <2>7, LengthensAlike
    <3>2. \A q \in Profiles \ {p} : Shortened(q) => q \in disk'.restarted
      BY <3>1, LengthensKeeps
    <3>3. Lasts
      BY <2>a, <3>1, <3>2 DEF Lasts
    <3> QED BY <2>5, <2>6, <3>3 DEF AllWithin
  <2>8. CASE unlocked' # unlocked
    BY <2>5, <2>6, <2>8 DEF AllWithin, Lasts
  <2> QED BY <2>4, <2>7, <2>8
<1> QED BY <1>1, <1>2, <1>3, <1>4, <1>5, <1>6, <1>7, <1>8, Acts DEF Turns, Stops

\* Nothing cuts a cooldown or a disabling in the file short but a run that was
\* served with the profile and ends, a save without the lock, and a failure
\* that counts as the first again after the window (usage.ts:127-175, 257-362).
THEOREM Kept == Spec => CooldownsKept
<1>1. Init => AllWithin
  BY WithinInit
<1>2. TypeOK /\ TypeOK' /\ AllWithin /\ [Next]_vars => AllWithin'
  BY KeptNext
<1>3. TypeOK /\ TypeOK' /\ AllWithin /\ [Next]_vars =>
        [\A p \in Profiles : Shortened(p) =>
            \/ unlocked' # unlocked
            \/ disk'.errors[p] = 0 /\ \E r \in Busy : Profile(r) = p /\ r \notin Busy'
            \/ p \in disk'.restarted]_vars
  BY KeptNext DEF Lasts
<1> QED BY <1>1, <1>2, <1>3, Typed, PTL DEF Spec, CooldownsKept
=============================================================================
