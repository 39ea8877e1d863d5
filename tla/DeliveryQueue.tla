--------------------------- MODULE DeliveryQueue ---------------------------
(***************************************************************************)
(* The write-ahead queue of outbound messages: deliverOutboundPayloads()   *)
(* (src/infra/outbound/deliver.ts), which persists a delivery, sends its   *)
(* payloads and removes it, and recoverPendingDeliveries()                 *)
(* (src/infra/outbound/delivery-queue.ts), which retries after a restart   *)
(* what is left on disk.  Live deliveries and one recovery run as          *)
(* concurrent promises of one process; every await is a point where the    *)
(* others may run and where the process may die.  An update of an entry    *)
(* goes through a temporary file, whose name holds the id of the process:  *)
(* a live delivery and the recovery that update one entry share it.        *)
(*                                                                         *)
(* Time is the wait for backoff, in units of 5 s; sends take none.         *)
(***************************************************************************)
EXTENDS Naturals, Sequences, FiniteSets

CONSTANTS
  Entries,        \* deliveries; each is asked for once, and named by its queue id
  NPayloads,      \* payloads of a delivery, sent in order
  MaxRetries,     \* MAX_RETRIES
  Backoff,        \* BACKOFF_MS: the delays before retry 1, 2, ...
  Budget,         \* maxRecoveryMs
  Modes,          \* bestEffort of the deliveries asked for: see AllModes
  Recovery,       \* the recovery run, beside the entries' own live deliveries
  MaxCrashes      \* bound: crashes of a process with work in progress

ASSUME EntriesAssumption == IsFiniteSet(Entries)
ASSUME PayloadAssumption == NPayloads \in Nat \ {0}
ASSUME RetryAssumption ==
  /\ MaxRetries \in Nat \ {0}
  /\ Backoff \in Seq(Nat) /\ Backoff # <<>>
  /\ Budget \in Nat /\ MaxCrashes \in Nat

\* A delivery without bestEffort, with it, and with it but without an onError.
AllModes == {"strict", "bestEffort", "silentBestEffort"}

ASSUME ModeAssumption == Modes \subseteq AllModes
ASSUME RecoveryAssumption == Recovery \notin Entries

VARIABLES
  place,    \* where each entry's file is: nowhere, the queue or failed/
  retry,    \* retryCount in the file
  since,    \* enqueuedAt, as the rank among the entries; 0 was never persisted
  torn,     \* entries whose file does not parse, if there is one
  temp,     \* this process's temporary file of each entry, and what it holds
  clashed,  \* history: entries two updates of which have had that file at once
  mode,     \* bestEffort of each delivery, and whether it came with an onError
  sent,     \* payloads of each entry that a channel has accepted
  aborted,  \* entries whose sending ended in an AbortError
  job,      \* progress of each live delivery and of the recovery's delivery
  todo,     \* entries the recovery has loaded and not yet begun
  phase,    \* the recovery: not begun, in its loop, or over
  elapsed,  \* time the recovery has spent
  crashes   \* bound counter

vars == <<place, retry, since, torn, temp, clashed, mode, sent, aborted, job,
          todo, phase, elapsed, crashes>>
texts == <<torn, temp, clashed>>
disk == <<place, retry, since, texts>>
loop == <<todo, phase, elapsed>>

Places == {"nowhere", "queue", "failed"}
Steps == {"uncalled", "send", "ack", "failRead", "failWrite", "failFill", "failRename", "done"}
Workers == Entries \cup {Recovery}
Persisted == {e \in Entries : since[e] > 0}

\* What a delivery keeps across its awaits.  "seen" is the retryCount
\* failDelivery() read; "partial" is hadPartialFailure; the idle recovery has
\* no entry and names itself.
Job == [pc : Steps, id : Workers, next : 1..NPayloads + 1, partial : BOOLEAN, seen : Nat]
Loaded == [id : Entries, retry : Nat]

\* A temporary file: there is none, it has been truncated, it holds a whole
\* entry with its retryCount, or it does not parse.
Texts == [text : {"none", "blank", "whole", "torn"}, retry : Nat]
Text(t) == [text |-> t, retry |-> 0]
Whole(n) == [text |-> "whole", retry |-> n]

Fresh(e, pc) ==
  [pc |-> pc, id |-> e, next |-> 1, partial |-> FALSE, seen |-> 0]

\* A worker goes on to settling its entry, or is done with it.
Leave(w, pc) == [job EXCEPT ![w] = Fresh(job[w].id, pc)]

Init ==
  /\ place = [e \in Entries |-> "nowhere"]
  /\ retry = [e \in Entries |-> 0]
  /\ since = [e \in Entries |-> 0]
  /\ torn = {}
  /\ temp = [e \in Entries |-> Text("none")]
  /\ clashed = {}
  /\ mode = [e \in Entries |-> "strict"]
  /\ sent = [e \in Entries |-> {}]
  /\ aborted = {}
  /\ job = [w \in Workers |-> Fresh(w, "uncalled")]
  /\ todo = {}
  /\ phase = "unstarted"
  /\ elapsed = 0
  /\ crashes = 0

-----------------------------------------------------------------------------
\* deliverOutboundPayloads(): the entry is written before anything is sent,
\* unless the disk refuses it, which does not stop the delivery.
Call(e, m) ==
  /\ job[e].pc = "uncalled"
  /\ mode' = [mode EXCEPT ![e] = m]
  /\ job' = [job EXCEPT ![e] = Fresh(e, "send")]
  /\ \/ /\ place' = [place EXCEPT ![e] = "queue"]
        /\ since' = [since EXCEPT ![e] = Cardinality(Persisted) + 1]
     \/ UNCHANGED <<place, since>>
  /\ UNCHANGED <<retry, texts, sent, aborted, loop, crashes>>

\* A delivery has payloads left to send.
Sending(w) == job[w].pc = "send" /\ job[w].next <= NPayloads

\* The channel accepts the next payload.
SendNext(w) ==
  /\ Sending(w)
  /\ sent' = [sent EXCEPT ![job[w].id] = @ \cup {job[w].next}]
  /\ job' = [job EXCEPT ![w].next = @ + 1]
  /\ UNCHANGED <<disk, mode, aborted, loop, crashes>>

\* The queue only concerns itself with a live delivery that has a queue id;
\* the recovery, which skips the queue, always settles its entry.
Settle(w, pc) ==
  IF w = Recovery \/ w \in Persisted THEN pc ELSE "done"

\* Fault: an error after the first payload is taken for a success.
PayloadFailsLate(w) ==
  /\ Sending(w)
  /\ job' = [job EXCEPT ![w] =
       IF mode[job[w].id] = "strict"
       THEN Fresh(job[w].id, Settle(w, IF job[w].next = 1 THEN "failRead" ELSE "ack"))
       ELSE [job[w] EXCEPT !.next = @ + 1]]
  /\ UNCHANGED <<disk, mode, sent, aborted, loop, crashes>>

\* A refused payload has been noted: onError alone does that, and the recovery
\* passes none.
Noted(w) == job[w].partial \/ (w # Recovery /\ mode[w] = "bestEffort")

\* The next payload is refused.  Without bestEffort that ends the delivery;
\* with it the error goes to onError and the delivery goes on.
PayloadFails(w) ==
  /\ Sending(w)
  /\ job' = [job EXCEPT ![w] =
       IF mode[job[w].id] = "strict"
       THEN Fresh(job[w].id, Settle(w, "failRead"))
       ELSE [job[w] EXCEPT !.next = @ + 1, !.partial = Noted(w)]]
  /\ UNCHANGED <<disk, mode, sent, aborted, loop, crashes>>

\* An AbortError ends a live delivery without bestEffort: the entry is removed.
Abort(e) ==
  /\ e \in Entries /\ Sending(e)
  /\ mode[e] = "strict"
  /\ aborted' = aborted \cup {e}
  /\ job' = Leave(e, Settle(e, "ack"))
  /\ UNCHANGED <<disk, mode, sent, loop, crashes>>

\* What is outside the loop over payloads throws: the handler cannot be
\* created, or the transcript mirror cannot be appended.
OutsideFails(w) ==
  /\ job[w].pc = "send"
  /\ job[w].next \in {1, NPayloads + 1}
  /\ job' = Leave(w, Settle(w, "failRead"))
  /\ UNCHANGED <<disk, mode, sent, aborted, loop, crashes>>

\* All payloads have been tried: acknowledge, or note the partial failure.
Finish(w) ==
  /\ job[w].pc = "send"
  /\ job[w].next = NPayloads + 1
  /\ job' = Leave(w, Settle(w, IF job[w].partial THEN "failRead" ELSE "ack"))
  /\ UNCHANGED <<disk, mode, sent, aborted, loop, crashes>>

\* ackDelivery(): the file is unlinked, or was already.
Ack(w) ==
  /\ job[w].pc = "ack"
  /\ place' = [place EXCEPT ![job[w].id] = IF @ = "queue" THEN "nowhere" ELSE @]
  /\ job' = Leave(w, "done")
  /\ UNCHANGED <<retry, since, texts, mode, sent, aborted, loop, crashes>>

\* ackDelivery() fails otherwise: a live delivery ignores it, the recovery
\* counts it as a failed retry.
AckFails(w) ==
  /\ job[w].pc = "ack"
  /\ job' = Leave(w, IF w = Recovery THEN "failRead" ELSE "done")
  /\ UNCHANGED <<disk, mode, sent, aborted, loop, crashes>>

\* failDelivery() reads the entry; without a file, or with one that does not
\* parse, it throws, which is ignored.
FailRead(w) ==
  /\ job[w].pc = "failRead"
  /\ job' = [job EXCEPT ![w] =
       IF place[job[w].id] = "queue" /\ job[w].id \notin torn
       THEN [job[w] EXCEPT !.pc = "failWrite", !.seen = retry[job[w].id]]
       ELSE Fresh(job[w].id, "done")]
  /\ UNCHANGED <<disk, mode, sent, aborted, loop, crashes>>

\* A worker has the temporary file of entry e open, or is about to rename it.
Updating(v, e) == job[v].id = e /\ job[v].pc \in {"failFill", "failRename"}

\* failDelivery() opens the temporary file, which truncates it.
FailOpen(w) ==
  /\ job[w].pc = "failWrite"
  /\ temp' = [temp EXCEPT ![job[w].id] = Text("blank")]
  /\ clashed' = IF \E v \in Workers \ {w} : Updating(v, job[w].id)
                THEN clashed \cup {job[w].id} ELSE clashed
  /\ job' = [job EXCEPT ![w].pc = "failFill"]
  /\ UNCHANGED <<place, retry, since, torn, mode, sent, aborted, loop, crashes>>

\* It writes the entry.  Over the text of another update the result may be a
\* mixture of the two.
FailFill(w) ==
  /\ job[w].pc = "failFill"
  /\ temp[job[w].id].text # "none"
  /\ \/ temp' = [temp EXCEPT ![job[w].id] = Whole(job[w].seen + 1)]
     \/ /\ temp[job[w].id].text # "blank"
        /\ temp' = [temp EXCEPT ![job[w].id] = Text("torn")]
  /\ job' = [job EXCEPT ![w].pc = "failRename"]
  /\ UNCHANGED <<place, retry, since, torn, clashed, mode, sent, aborted, loop, crashes>>

\* The other update has renamed the file that is open: what is written goes
\* into the entry itself, and there is nothing left to rename, which is ignored.
FailFillInPlace(w) ==
  /\ job[w].pc = "failFill"
  /\ temp[job[w].id].text = "none"
  /\ \/ /\ retry' = [retry EXCEPT ![job[w].id] = job[w].seen + 1]
        /\ torn' = torn \ {job[w].id}
     \/ /\ torn' = torn \cup {job[w].id}
        /\ UNCHANGED retry
  /\ job' = Leave(w, "done")
  /\ UNCHANGED <<place, since, temp, clashed, mode, sent, aborted, loop, crashes>>

\* It renames the temporary file into place, whatever became of the entry
\* since it was read, and whatever the file holds by now.
FailRename(w) ==
  /\ job[w].pc = "failRename"
  /\ LET e == job[w].id IN
       \/ /\ temp[e].text = "none"
          /\ UNCHANGED disk
       \/ /\ temp[e].text # "none"
          /\ place' = [place EXCEPT ![e] = "queue"]
          /\ retry' = IF temp[e].text = "whole"
                      THEN [retry EXCEPT ![e] = temp[e].retry] ELSE retry
          /\ torn' = IF temp[e].text = "whole" THEN torn \ {e} ELSE torn \cup {e}
          /\ temp' = [temp EXCEPT ![e] = Text("none")]
          /\ UNCHANGED <<since, clashed>>
  /\ job' = Leave(w, "done")
  /\ UNCHANGED <<mode, sent, aborted, loop, crashes>>

\* failDelivery() cannot read, open, write or rename, which every caller
\* ignores; what it was writing stays in part.
FailUpdateFails(w) ==
  /\ job[w].pc \in {"failRead", "failWrite", "failFill", "failRename"}
  /\ \/ UNCHANGED disk
     \/ /\ job[w].pc = "failFill"
        /\ IF temp[job[w].id].text # "none"
           THEN /\ temp' = [temp EXCEPT ![job[w].id] = Text("torn")]
                /\ UNCHANGED torn
           ELSE /\ torn' = torn \cup {job[w].id}
                /\ UNCHANGED temp
        /\ UNCHANGED <<place, retry, since, clashed>>
  /\ job' = Leave(w, "done")
  /\ UNCHANGED <<mode, sent, aborted, loop, crashes>>

-----------------------------------------------------------------------------
\* computeBackoffMs(n) for n >= 1: the last delay serves all later retries.
BackoffFor(n) == Backoff[IF n <= Len(Backoff) THEN n ELSE Len(Backoff)]

\* recoverPendingDeliveries() begins: loadPendingDeliveries(), which skips what
\* does not parse, and the sort.
RecoveryLoad ==
  /\ phase = "unstarted"
  /\ phase' = "loop"
  /\ elapsed' = 0
  /\ todo' = {[id |-> e, retry |-> retry[e]] : e \in {x \in Entries \ torn : place[x] = "queue"}}
  /\ UNCHANGED <<disk, mode, sent, aborted, job, crashes>>

\* Between two entries of the loop.
AtNextEntry ==
  /\ phase = "loop"
  /\ job[Recovery].pc \in {"uncalled", "done"}

\* The entry the loop comes to next.
Oldest(x) == x \in todo /\ \A y \in todo : since[x.id] <= since[y.id]

\* The loop ends: nothing is left, or what is left is deferred because the
\* time is spent or the next backoff would spend it.
RecoveryEnds ==
  /\ AtNextEntry
  /\ \/ todo = {}
     \/ elapsed >= Budget
     \/ \E x \in todo :
          /\ Oldest(x) /\ x.retry < MaxRetries
          /\ elapsed + BackoffFor(x.retry + 1) >= Budget
  /\ phase' = "over"
  /\ todo' = {}
  /\ elapsed' = 0
  /\ UNCHANGED <<disk, mode, sent, aborted, job, crashes>>

\* Fault: the recovery goes on to deliver what it has just moved to failed/.
GiveUpFallsThrough(x) ==
  /\ AtNextEntry /\ Oldest(x)
  /\ elapsed < Budget
  /\ x.retry >= MaxRetries
  /\ todo' = todo \ {x}
  /\ place' = [place EXCEPT ![x.id] = IF @ = "queue" THEN "failed" ELSE @]
  /\ job' = [job EXCEPT ![Recovery] = Fresh(x.id, "send")]
  /\ UNCHANGED <<retry, since, texts, mode, sent, aborted, phase, elapsed, crashes>>

\* An entry that has been retried enough moves to failed/, if it still exists.
\* Whether or not that succeeds, the loop goes on.
GiveUp(x) ==
  /\ AtNextEntry /\ Oldest(x)
  /\ elapsed < Budget
  /\ x.retry >= MaxRetries
  /\ todo' = todo \ {x}
  /\ \/ place' = [place EXCEPT ![x.id] = IF @ = "queue" THEN "failed" ELSE @]
     \/ UNCHANGED place
  /\ UNCHANGED <<retry, since, texts, mode, sent, aborted, job, phase, elapsed, crashes>>

\* Fault: the retry limit is not looked at.
RetryForever(x) ==
  /\ AtNextEntry /\ Oldest(x)
  /\ todo' = todo \ {x}
  /\ elapsed' = elapsed + BackoffFor(x.retry + 1)
  /\ elapsed' < Budget
  /\ job' = [job EXCEPT ![Recovery] = Fresh(x.id, "send")]
  /\ UNCHANGED <<disk, mode, sent, aborted, phase, crashes>>

\* The recovery waits for the backoff and delivers again from the first payload.
Retry(x) ==
  /\ AtNextEntry /\ Oldest(x)
  /\ x.retry < MaxRetries
  /\ todo' = todo \ {x}
  /\ elapsed' = elapsed + BackoffFor(x.retry + 1)
  /\ elapsed' < Budget
  /\ job' = [job EXCEPT ![Recovery] = Fresh(x.id, "send")]
  /\ UNCHANGED <<disk, mode, sent, aborted, phase, crashes>>

-----------------------------------------------------------------------------
\* The process ends, at any await, and another begins: only the disk is left,
\* and nobody reads the temporary files on it.
NewProcess ==
  /\ job' = [w \in Workers |->
               Fresh(w, IF job[w].pc = "uncalled" THEN "uncalled" ELSE "done")]
  /\ todo' = {}
  /\ phase' = "unstarted"
  /\ elapsed' = 0
  /\ temp' = [e \in Entries |-> Text("none")]
  /\ UNCHANGED <<place, retry, since, torn, clashed, mode, sent, aborted>>

AtRest == phase = "over" /\ \A e \in Entries : job[e].pc \in {"uncalled", "done"}

\* A restart when nothing is going on.
Restart == AtRest /\ NewProcess /\ UNCHANGED crashes

\* A crash, or a shutdown, with a delivery or the recovery in progress.
Crash ==
  /\ ~AtRest
  /\ crashes < MaxCrashes
  /\ crashes' = crashes + 1
  /\ NewProcess

FailUpdate(w) ==
  \/ FailRead(w) \/ FailOpen(w) \/ FailFill(w) \/ FailFillInPlace(w) \/ FailRename(w)
  \/ FailUpdateFails(w)

Deliver(w) ==
  \/ SendNext(w) \/ PayloadFails(w) \/ Abort(w) \/ OutsideFails(w) \/ Finish(w)
  \/ Ack(w) \/ AckFails(w) \/ FailUpdate(w)

RecoveryLoop == RecoveryLoad \/ RecoveryEnds \/ \E x \in todo : GiveUp(x) \/ Retry(x)

Next ==
  \/ \E e \in Entries, m \in Modes : Call(e, m)
  \/ \E w \in Workers : Deliver(w)
  \/ RecoveryLoop
  \/ Restart
  \/ Crash

\* A step by which an entry is really moved to failed/.
GiveUpDone == \E x \in todo : GiveUp(x) /\ place'[x.id] # "queue"

\* Sends end one way or another, disk operations complete, the recovery loop
\* runs, the gateway is restarted again and again, and the disk does not fail
\* every update the recovery tries.
Fairness ==
  /\ \A w \in Workers : WF_vars(Deliver(w))
  /\ WF_vars(RecoveryLoop)
  /\ WF_vars(Restart)
  /\ SF_vars(FailRead(Recovery)) /\ SF_vars(FailOpen(Recovery))
  /\ SF_vars(FailFill(Recovery)) /\ SF_vars(FailRename(Recovery)) /\ SF_vars(GiveUpDone)

Spec == Init /\ [][Next]_vars /\ Fairness

-----------------------------------------------------------------------------
\* Types of the state.
TypeOK ==
  /\ place \in [Entries -> Places]
  /\ retry \in [Entries -> Nat]
  /\ since \in [Entries -> Nat]
  /\ torn \subseteq Entries /\ clashed \subseteq Entries
  /\ temp \in [Entries -> Texts]
  /\ mode \in [Entries -> AllModes]
  /\ sent \in [Entries -> SUBSET (1..NPayloads)]
  /\ aborted \subseteq Entries
  /\ job \in [Workers -> Job]
  /\ \A e \in Entries : job[e].id = e
  /\ job[Recovery].pc \notin {"uncalled", "done"} => job[Recovery].id \in Entries
  /\ todo \subseteq Loaded
  /\ phase \in {"unstarted", "loop", "over"}
  /\ elapsed \in Nat
  /\ crashes \in 0..MaxCrashes

AllSent(e) == sent[e] = 1..NPayloads

\* Once persisted, a delivery without bestEffort is in the queue or in failed/
\* until every payload has been sent or an AbortError has ended it, and its
\* entry can be read, unless a live delivery and the recovery have had its
\* temporary file at once: no crash, failed update or other race loses it.
NothingLost ==
  \A e \in Persisted :
    mode[e] = "strict" =>
      /\ place[e] = "nowhere" => AllSent(e) \/ e \in aborted
      /\ e \in torn => e \in clashed

\* No entry is retried past MAX_RETRIES, and one in failed/ is neither sent
\* nor put back into the queue by an update that was under way.
RetriesBounded == \A e \in Entries : retry[e] <= MaxRetries
FailedIsFinal ==
  [][\A e \in Entries : place[e] = "failed"
       => place'[e] = "failed" /\ sent'[e] = sent[e]]_vars
=============================================================================
