------------------------------ MODULE Emission ------------------------------
(***************************************************************************)
(* Webhook emissions: scheduled by the exit of a request, called for by    *)
(* mock.emit() or repeated by mock.redeliver(); fired, delivered with      *)
(* retries, and recorded in the delivery log (src/server/handler.ts,       *)
(* src/webhooks/emit.ts, src/webhooks/deliver.ts), while reset(), close()  *)
(* and clearDeliveries() come at any time.                                 *)
(*                                                                         *)
(* `jobs` is the sequence of emissions and redeliveries in the order they  *)
(* were scheduled.  A request whose operation has several `emits` is       *)
(* several Schedule steps in a row.  Where a payload goes is resolved in   *)
(* one step here: somewhere or nowhere.                                    *)
(***************************************************************************)
EXTENDS Naturals, Sequences

CONSTANTS
  Webhooks,
  Attempts,   \* retry.attempts
  MaxLog,     \* the bound of the delivery log, MAX_DELIVERIES
  MaxJobs,    \* bound on the emissions and redeliveries of a run
  MaxResets,  \* bound on reset()
  Modes       \* bound: which values of `injected` and `captureOnly`

ASSUME AttemptsAssumption == Attempts \in Nat
ASSUME MaxLogAssumption == MaxLog \in Nat
ASSUME BoundsAssumption == MaxJobs \in Nat /\ MaxResets \in Nat
ASSUME ModesAssumption == Modes \subseteq BOOLEAN \X BOOLEAN

\* What one fetch comes back with: a 2xx; an exception or a status to be retried
\* (a 5xx, 408 or 429); any other status.
Answers == {"ok", "again", "refused"}

\* whatever is not a success is tried again
ShouldRetryAll(a) == a # "ok"
\* shouldRetry, or no status at all
ShouldRetry(a) == a = "again"

Places == {"unknown", "somewhere", "nowhere"}
RecordedOutcomes == {"unresolved", "captured", "delivered", "failed"}

\* "gone": its wait was ended by a reset or close, or an override, the generator
\* or the signature threw, which onError hears of and the log does not.
PC == {"waiting", "firing", "sending", "backoff", "recorded", "gone"}

VARIABLES
  jobs,
  counters,     \* the last ordinal drawn for each webhook
  allocations,  \* blocks of the virtual clock handed out
  generation,
  closed,
  drained,      \* the close() in progress has found nothing pending
  log,          \* the delivery log, oldest first
  evicted,
  logged,       \* history: records made since the log was last cleared
  dropped,      \* history: the emissions that waited when reset() or close() came
  injected,     \* options.sleep was given: a wait has no timer to clear
  captureOnly

vars == <<jobs, counters, allocations, generation, closed, drained, log, evicted,
          logged, dropped, injected, captureOnly>>
config == <<injected, captureOnly>>

Undrawn == 0

Job == [webhook : Webhooks,
        at : Nat,        \* the generation it was scheduled in
        pc : PC,
        ordinal : Nat,   \* with the webhook, the delivery id; Undrawn until it fires
        block : Nat,     \* its block of the virtual clock
        to : Places,
        answers : Seq(Answers),  \* of its fetches; their number is `attempts`
        origin : Nat]    \* the emission whose bytes it sends: itself, unless it
                         \* is a redelivery

Delivery == [job : Nat, outcome : RecordedOutcomes, attempts : Nat]

TypeOK ==
  /\ jobs \in Seq(Job) /\ Len(jobs) <= MaxJobs
  /\ \A j \in DOMAIN jobs : jobs[j].pc \in {"firing", "sending", "backoff", "recorded"}
                            => jobs[j].ordinal # Undrawn
  /\ counters \in [Webhooks -> Nat]
  /\ allocations \in Nat
  /\ generation \in 0 .. MaxResets
  /\ closed \in BOOLEAN /\ drained \in BOOLEAN
  /\ log \in Seq(Delivery)
  /\ evicted \in Nat /\ logged \in Nat
  /\ dropped \subseteq 1 .. MaxJobs
  /\ injected \in BOOLEAN /\ captureOnly \in BOOLEAN

Init ==
  /\ jobs = << >>
  /\ counters = [w \in Webhooks |-> 0]
  /\ allocations = 0
  /\ generation = 0
  /\ closed = FALSE /\ drained = FALSE
  /\ log = << >>
  /\ evicted = 0 /\ logged = 0
  /\ dropped = {}
  /\ \E mode \in Modes : injected = mode[1] /\ captureOnly = mode[2]

-----------------------------------------------------------------------------
Jobs == DOMAIN jobs
Active(j) == jobs[j].pc \in {"waiting", "firing", "sending", "backoff"}

Redelivery(j) == jobs[j].origin # j

\* The promises that track() holds.
Pending == {j \in Jobs : Active(j)}

NewJob(w, pc, ordinal, block, to, origin) ==
  [webhook |-> w, at |-> generation, pc |-> pc, ordinal |-> ordinal,
   block |-> block, to |-> to, answers |-> << >>, origin |-> origin]

\* emissions are accepted whether or not the mock is closed
MayEmitAlways == TRUE
MayEmit == ~closed

Block == allocations + 1
\* a block is handed out and not counted: the next emission shares it
AllocatedNot == allocations
Allocated == allocations + 1

\* The exit of a request that may emit: a block of the clock is reserved now.
\* Without a delay the emission fires at once, with one it waits.
ScheduleDelayed(w) ==
  /\ MayEmit
  /\ Len(jobs) < MaxJobs
  /\ allocations' = Allocated
  /\ jobs' = Append(jobs, NewJob(w, "waiting", Undrawn, Block, "unknown", Len(jobs) + 1))
  /\ UNCHANGED <<counters, generation, closed, drained, log, evicted, logged, dropped, config>>

\* the number is read before the counter is advanced
OrdinalNotAdvanced(w) == counters[w]
Ordinal(w) == counters[w] + 1
Draw(w) == counters' = [counters EXCEPT ![w] = Ordinal(w)]

Fire(w) ==
  /\ Len(jobs) < MaxJobs
  /\ allocations' = Allocated
  /\ Draw(w)
  /\ jobs' = Append(jobs, NewJob(w, "firing", Ordinal(w), Block, "unknown", Len(jobs) + 1))
  /\ UNCHANGED <<generation, closed, drained, log, evicted, logged, dropped, config>>

ScheduleNow(w) == MayEmit /\ Fire(w)

\* mock.emit(name): rejected after close().
Emit(w) == MayEmit /\ Fire(w)

\* a reset is forgotten by a wait that was already under way
InvalidatedByClose(j) == closed
\* A reset or a close while this was waiting invalidates it.
Invalidated(j) == closed \/ jobs[j].at # generation

\* The wait is over: its time has come, or it was released.
Wake(j) ==
  /\ jobs[j].pc = "waiting"
  /\ IF Invalidated(j)
     THEN jobs' = [jobs EXCEPT ![j].pc = "gone"] /\ UNCHANGED counters
     ELSE /\ Draw(jobs[j].webhook)
          /\ jobs' = [jobs EXCEPT ![j].pc = "firing", ![j].ordinal = Ordinal(jobs[j].webhook)]
  /\ UNCHANGED <<allocations, generation, closed, drained,
                 log, evicted, logged, dropped, config>>

\* only timers are cleared; an injected sleep is waited out
ReleasedTimersOnly(j) == ~injected /\ Invalidated(j)
\* What ends a wait before its time: close() by its signal or by clearing the
\* timer, reset() by clearing the timer, which an injected sleep does not have.
Released(j) == closed \/ (~injected /\ jobs[j].at # generation)

Release(j) == Released(j) /\ Wake(j)

Trimmed(l) == IF Len(l) > MaxLog THEN SubSeq(l, Len(l) - MaxLog + 1, Len(l)) ELSE l

\* deliveryLog.record
Record(j, outcome, answers) ==
  LET l == Append(log, [job |-> j, outcome |-> outcome, attempts |-> Len(answers)]) IN
  /\ log' = Trimmed(l)
  /\ evicted' = evicted + Len(l) - Len(Trimmed(l))
  /\ logged' = logged + 1

\* deliver(): nowhere to go, nothing to be sent, or the first attempt is next.
Deliver(j, to) ==
  IF to = "nowhere" \/ captureOnly \/ Attempts = 0
  THEN /\ Record(j, IF to = "nowhere" THEN "unresolved"
                    ELSE IF captureOnly THEN "captured" ELSE "failed", << >>)
       /\ jobs' = [jobs EXCEPT ![j].pc = "recorded", ![j].to = to]
  ELSE /\ jobs' = [jobs EXCEPT ![j].pc = "sending", ![j].to = to]
       /\ UNCHANGED <<log, evicted, logged>>

\* The destination and the payload are there.
Resolve(j, to) ==
  /\ jobs[j].pc = "firing"
  /\ IF Redelivery(j) THEN to = jobs[j].to ELSE to # "unknown"
  /\ Deliver(j, to)
  /\ UNCHANGED <<counters, allocations, generation, closed, drained, dropped, config>>

Break(j) ==
  /\ jobs[j].pc = "firing"
  /\ ~Redelivery(j)
  /\ jobs' = [jobs EXCEPT ![j].pc = "gone"]
  /\ UNCHANGED <<counters, allocations, generation, closed, drained,
                 log, evicted, logged, dropped, config>>

\* One attempt: its answer delivers, is retried while attempts remain, or fails.
Attempt(j, a) ==
  LET answers == Append(jobs[j].answers, a) IN
  /\ jobs[j].pc = "sending"
  /\ IF ShouldRetry(a) /\ Len(answers) < Attempts
     THEN /\ jobs' = [jobs EXCEPT ![j].pc = "backoff", ![j].answers = answers]
          /\ UNCHANGED <<log, evicted, logged>>
     ELSE /\ jobs' = [jobs EXCEPT ![j].pc = "recorded", ![j].answers = answers]
          /\ Record(j, IF a = "ok" THEN "delivered" ELSE "failed", answers)
  /\ UNCHANGED <<counters, allocations, generation, closed, drained, dropped, config>>

\* The backoff is slept out, whatever has been reset or closed meanwhile.
Retry(j) ==
  /\ jobs[j].pc = "backoff"
  /\ jobs' = [jobs EXCEPT ![j].pc = "sending"]
  /\ UNCHANGED <<counters, allocations, generation, closed, drained,
                 log, evicted, logged, dropped, config>>

Id(j) == <<jobs[j].webhook, jobs[j].ordinal>>

\* mock.redeliver(id): the first record under the id is sent again, under its id.
Redeliver(n) ==
  LET source == jobs[log[n].job] IN
  /\ MayEmit
  /\ \A m \in 1 .. n - 1 : Id(log[m].job) # Id(log[n].job)
  /\ Len(jobs) < MaxJobs
  /\ jobs' = Append(jobs, NewJob(source.webhook, "firing", source.ordinal,
                                 source.block, source.to, source.origin))
  /\ UNCHANGED <<counters, allocations, generation, closed, drained,
                 log, evicted, logged, dropped, config>>

-----------------------------------------------------------------------------
\* an eviction count that survives the log it counts for
ClearedKeepsEvicted == log' = << >> /\ logged' = 0 /\ UNCHANGED evicted
Cleared == log' = << >> /\ logged' = 0 /\ evicted' = 0

ClearDeliveries ==
  /\ log # << >>
  /\ Cleared
  /\ UNCHANGED <<jobs, counters, allocations, generation, closed, drained, dropped, config>>

Waiting == {j \in Jobs : jobs[j].pc = "waiting"}

\* the timers are cleared and the generation is not advanced: what they release fires
SameGeneration == generation
NextGeneration == generation + 1

\* reset(): the counters and the clock start again, the waits are invalidated,
\* the log is cleared.
Reset ==
  /\ generation < MaxResets
  /\ generation' = NextGeneration
  /\ dropped' = dropped \cup Waiting
  /\ counters' = [w \in Webhooks |-> 0]
  /\ allocations' = 0
  /\ Cleared
  /\ UNCHANGED <<jobs, closed, drained, config>>

\* close() accepts nothing more...
Close ==
  /\ ~closed
  /\ closed' = TRUE
  /\ dropped' = dropped \cup Waiting
  /\ UNCHANGED <<jobs, counters, allocations, generation, drained,
                 log, evicted, logged, config>>

\* ...and returns when settled() has found nothing pending.
Settled ==
  /\ closed /\ ~drained
  /\ Pending = {}
  /\ drained' = TRUE
  /\ UNCHANGED <<jobs, counters, allocations, generation, closed,
                 log, evicted, logged, dropped, config>>

JobStep(j) == \/ Release(j)
              \/ \E to \in Places : Resolve(j, to)
              \/ Break(j)
              \/ \E a \in Answers : Attempt(j, a)
              \/ Retry(j)

Next == \/ \E w \in Webhooks : ScheduleDelayed(w) \/ ScheduleNow(w) \/ Emit(w)
        \/ \E j \in Jobs : Wake(j) \/ JobStep(j)
        \/ \E n \in DOMAIN log : Redeliver(n)
        \/ ClearDeliveries
        \/ Reset
        \/ Close
        \/ Settled

\* While something can go on, something does: a fetch answers, a backoff ends, a
\* promise that is resolved runs its continuation.  That an afterMs wait comes to
\* its time is not assumed: close() must not need it.
Spec == Init /\ [][Next]_vars /\ WF_vars(Settled) /\ WF_vars(\E j \in Jobs : JobStep(j))

-----------------------------------------------------------------------------
\* Two records of the log under one id carry the bytes of one emission, as long
\* as that emission and the other come from the same generation (docs/webhooks.md
\* "One id belongs to one emission").
IdsIdentify ==
  \A m, n \in DOMAIN log :
    LET a == jobs[log[m].job]
        b == jobs[log[n].job]
    IN /\ Id(log[m].job) = Id(log[n].job)
       /\ jobs[a.origin].at = jobs[b.origin].at
       => a.origin = b.origin

\* A record tells what happened: it was delivered if and only if its last attempt
\* was, every attempt before the last was one to be retried, and a failure has
\* used up its attempts unless it was refused (deliver.ts:58).
LogTruthful ==
  \A n \in DOMAIN log :
    LET answers == jobs[log[n].job].answers
        last == answers[Len(answers)]
    IN /\ log[n].attempts = Len(answers)
       /\ \A i \in 1 .. Len(answers) - 1 : answers[i] = "again"
       /\ log[n].outcome = "delivered" <=> answers # << >> /\ last = "ok"
       /\ log[n].outcome = "failed" => Len(answers) = Attempts \/ last = "refused"

\* The log keeps the last MaxLog records, and the eviction count is the number
\* that are missing: what the error of redeliver() says of an id (emit.ts:283).
EvictionsHonest ==
  /\ Len(log) <= MaxLog
  /\ evicted + Len(log) = logged
  /\ evicted > 0 => Len(log) = MaxLog

\* Emissions of one generation are given their blocks of the virtual clock in the
\* order they were scheduled, whatever their delays (clock.ts:28).
BlocksFollowSchedule ==
  \A i, j \in Jobs :
    (/\ i < j /\ jobs[i].at = jobs[j].at
     /\ ~Redelivery(i) /\ ~Redelivery(j))
    => jobs[i].block < jobs[j].block

\* After close() has returned nothing is sent, and nothing is left that could.
QuietAfterClose == drained => Pending = {}

\* close() returns: no wait, however long, holds it up (handler.ts:657).
CloseReturns == closed ~> drained

\* What was waiting when reset() or close() was called never fires, however long
\* after that its wait ends: it draws no ordinal, which the next generation would
\* miss, and neither it nor a redelivery of it is ever recorded (handler.ts:1551).
WaitsDropped ==
  /\ \A j \in dropped : jobs[j].pc \in {"waiting", "gone"} /\ jobs[j].ordinal = Undrawn
  /\ \A n \in DOMAIN log : jobs[log[n].job].origin \notin dropped

\* Emissions of one generation are numbered in the order they were scheduled.
\* The code does not keep to it: an emission draws its ordinal when it fires
\* (clock.ts:33, "the webhook counter ... already drawn synchronously").
OrdinalsFollowSchedule ==
  \A i, j \in Jobs :
    (/\ i < j /\ jobs[i].at = jobs[j].at /\ jobs[i].webhook = jobs[j].webhook
     /\ ~Redelivery(i) /\ ~Redelivery(j)
     /\ jobs[i].ordinal # Undrawn /\ jobs[j].ordinal # Undrawn)
    => jobs[i].ordinal < jobs[j].ordinal
=============================================================================
