--------------------------- MODULE EmissionProofs ---------------------------
(***************************************************************************)
(* Ids identify, the clock follows the schedule, the log tells the truth,  *)
(* waits end with a reset and close() leaves nothing: for every set of     *)
(* webhooks, every number of attempts, every bound of the log, of the      *)
(* emissions and of the resets.                                            *)
(*                                                                         *)
(* The inductive invariant has three parts that do not depend on one       *)
(* another: what has been drawn (Numbering, Distinct), what was answered   *)
(* (Answering, LogPoints), and what is left (Drained).  A fourth, what a   *)
(* reset or a close has dropped (Dropped), rests on the first.             *)
(***************************************************************************)
EXTENDS Emission, SequenceTheorems, TLAPS

\* A redelivery has the id of an emission that has drawn one.  An emission of
\* the present generation has a block and an ordinal that have been drawn in it.
Numbering ==
  \A j \in Jobs :
    LET e == jobs[j]
        first == jobs[e.origin]
    IN /\ e.origin \in 1 .. j
       /\ first.origin = e.origin
       /\ e.at <= generation
       /\ e.pc = "waiting" => e.ordinal = Undrawn /\ e.origin = j
       /\ e.origin # j => /\ first.ordinal = e.ordinal /\ first.webhook = e.webhook
                          /\ e.ordinal # Undrawn
       /\ e.origin = j /\ e.at = generation =>
            e.block <= allocations /\ e.ordinal <= counters[e.webhook]

\* Two emissions of one webhook and one generation have drawn two ordinals.
Distinct ==
  \A i, j \in Jobs :
    (/\ i # j /\ ~Redelivery(i) /\ ~Redelivery(j)
     /\ jobs[i].webhook = jobs[j].webhook /\ jobs[i].at = jobs[j].at
     /\ jobs[i].ordinal # Undrawn /\ jobs[j].ordinal # Undrawn)
    => jobs[i].ordinal # jobs[j].ordinal

\* Nothing is answered before it is sent, and one that is still being sent has
\* only had answers to be retried, and not the last.
Answering ==
  \A j \in Jobs :
    /\ jobs[j].pc \in {"waiting", "firing"} => jobs[j].answers = << >>
    /\ jobs[j].pc \in {"sending", "backoff"} =>
         /\ Len(jobs[j].answers) < Attempts
         /\ \A i \in 1 .. Len(jobs[j].answers) : jobs[j].answers[i] = "again"

\* What is in the log has been recorded.
LogPoints == \A n \in DOMAIN log : log[n].job \in Jobs /\ jobs[log[n].job].pc = "recorded"

Drained == drained => closed /\ Pending = {}

\* What was dropped has not fired, and if it still waits its wait will be found
\* invalidated: its generation is past, or the mock is closed for good.
Dropped ==
  \A j \in dropped :
    /\ j \in Jobs
    /\ jobs[j].pc \in {"waiting", "gone"} /\ jobs[j].ordinal = Undrawn
    /\ jobs[j].pc = "waiting" => closed \/ jobs[j].at < generation

\* What has been drawn.
Drawn == Numbering /\ Distinct /\ BlocksFollowSchedule

\* What was answered.
Answered == Answering /\ LogPoints /\ LogTruthful

\* The inductive invariant.
IInv == TypeOK /\ Drawn /\ Answered /\ EvictionsHonest /\ Drained /\ Dropped

USE AttemptsAssumption, MaxLogAssumption, BoundsAssumption, ModesAssumption

-----------------------------------------------------------------------------
\* One job more.
LEMMA JobAppended ==
  ASSUME jobs \in Seq(Job), NEW x \in Job, jobs' = Append(jobs, x)
  PROVE  /\ jobs' \in Seq(Job)
         /\ Len(jobs') = Len(jobs) + 1
         /\ Jobs = 1 .. Len(jobs) /\ Jobs' = 1 .. Len(jobs) + 1
         /\ \A i \in Jobs : jobs'[i] = jobs[i]
         /\ jobs'[Len(jobs) + 1] = x
BY AppendProperties DEF Jobs

\* One job changed.
LEMMA JobChanged ==
  ASSUME jobs \in Seq(Job), NEW j \in Jobs, NEW y \in Job, jobs' = [jobs EXCEPT ![j] = y]
  PROVE  /\ jobs' \in Seq(Job)
         /\ Len(jobs') = Len(jobs)
         /\ Jobs = 1 .. Len(jobs) /\ Jobs' = Jobs
         /\ jobs'[j] = y
         /\ \A i \in Jobs : i # j => jobs'[i] = jobs[i]
BY DEF Jobs

\* The fields of a job.
LEMMA JobFields ==
  ASSUME TypeOK, NEW j \in Jobs
  PROVE  /\ jobs[j] \in Job
         /\ jobs[j].webhook \in Webhooks /\ jobs[j].at \in Nat /\ jobs[j].pc \in PC
         /\ jobs[j].ordinal \in Nat /\ jobs[j].block \in Nat /\ jobs[j].to \in Places
         /\ jobs[j].answers \in Seq(Answers) /\ jobs[j].origin \in Nat
<1> DEFINE e == jobs[j]
<1>1. e \in Job
  BY DEF TypeOK, Jobs
<1> HIDE DEF e
<1>2. /\ e.webhook \in Webhooks /\ e.at \in Nat /\ e.pc \in PC
      /\ e.ordinal \in Nat /\ e.block \in Nat /\ e.to \in Places
      /\ e.answers \in Seq(Answers) /\ e.origin \in Nat
  BY <1>1 DEF Job
<1>3. QED
  BY <1>1, <1>2 DEF e

\* A new job has the fields it is given.
LEMMA NewJobType ==
  ASSUME TypeOK, NEW w \in Webhooks, NEW p \in PC, NEW ordinal \in Nat, NEW block \in Nat,
         NEW to \in Places, NEW origin \in Nat
  PROVE  LET x == NewJob(w, p, ordinal, block, to, origin) IN
         /\ x \in Job
         /\ x.webhook = w /\ x.at = generation /\ x.pc = p /\ x.ordinal = ordinal
         /\ x.block = block /\ x.to = to /\ x.answers = << >> /\ x.origin = origin
BY DEF TypeOK, NewJob, Job

\* The log after a record: one more, or the last MaxLog of them.
LEMMA Trimming ==
  ASSUME NEW l \in Seq(Delivery)
  PROVE  /\ Trimmed(l) \in Seq(Delivery)
         /\ Len(Trimmed(l)) = IF Len(l) > MaxLog THEN MaxLog ELSE Len(l)
         /\ \A n \in DOMAIN Trimmed(l) : \E m \in DOMAIN l : Trimmed(l)[n] = l[m]
<1>1. CASE Len(l) > MaxLog
  <2> DEFINE a == Len(l) - MaxLog + 1
             s == SubSeq(l, a, Len(l))
  <2>1. a \in 1 .. Len(l) + 1
    BY <1>1
  <2>2. /\ s \in Seq(Delivery)
        /\ Len(s) = IF a <= Len(l) THEN Len(l) - a + 1 ELSE 0
        /\ \A i \in 1 .. Len(l) - a + 1 : s[i] = l[a + i - 1]
    BY <2>1, SubSeqProperties
  <2>3. Len(s) = MaxLog
    BY <1>1, <2>2
  <2>4. \A n \in DOMAIN s : a + n - 1 \in DOMAIN l /\ s[n] = l[a + n - 1]
    BY <1>1, <2>2, <2>3
  <2>5. Trimmed(l) = s
    BY <1>1 DEF Trimmed
  <2> HIDE DEF s, a
  <2>6. QED
    BY <1>1, <2>2, <2>3, <2>4, <2>5
<1>2. CASE ~(Len(l) > MaxLog)
  BY <1>2 DEF Trimmed
<1>3. QED
  BY <1>1, <1>2

\* A record keeps the types and the accounts of the log, and adds one entry.
LEMMA Recorded ==
  ASSUME TypeOK, EvictionsHonest, NEW j \in Jobs, NEW outcome \in RecordedOutcomes,
         NEW answers \in Seq(Answers), Record(j, outcome, answers)
  PROVE  /\ log' \in Seq(Delivery) /\ evicted' \in Nat /\ logged' \in Nat
         /\ EvictionsHonest'
         /\ \A n \in DOMAIN log' :
              \/ \E m \in DOMAIN log : log'[n] = log[m]
              \/ log'[n] = [job |-> j, outcome |-> outcome, attempts |-> Len(answers)]
<1> DEFINE x == [job |-> j, outcome |-> outcome, attempts |-> Len(answers)]
           l == Append(log, x)
<1>1. x \in Delivery
  BY DEF TypeOK, Delivery, Jobs
<1>2. /\ l \in Seq(Delivery) /\ Len(l) = Len(log) + 1
      /\ \A m \in DOMAIN l : (m \in DOMAIN log /\ l[m] = log[m]) \/ l[m] = x
  BY <1>1, AppendProperties DEF TypeOK
<1>3. /\ log' = Trimmed(l)
      /\ evicted' = evicted + Len(l) - Len(Trimmed(l))
      /\ logged' = logged + 1
  BY DEF Record
<1> HIDE DEF l, x
<1>4. /\ log' \in Seq(Delivery)
      /\ Len(log') = IF Len(l) > MaxLog THEN MaxLog ELSE Len(l)
      /\ \A n \in DOMAIN log' : \E m \in DOMAIN l : log'[n] = l[m]
  BY <1>2, <1>3, Trimming
<1>5. Len(log) \in Nat /\ Len(log') \in Nat /\ evicted \in Nat /\ logged \in Nat
  BY <1>4 DEF TypeOK
<1>6. /\ evicted' \in Nat /\ logged' \in Nat
      /\ EvictionsHonest'
  <2>1. /\ evicted' = evicted + (Len(log) + 1) - Len(log')
        /\ logged' = logged + 1
        /\ Len(log') = IF Len(log) + 1 > MaxLog THEN MaxLog ELSE Len(log) + 1
    BY <1>2, <1>3, <1>4
  <2>2. /\ Len(log) <= MaxLog
        /\ evicted + Len(log) = logged
        /\ evicted > 0 => Len(log) = MaxLog
    BY DEF EvictionsHonest
  <2>3. /\ evicted' \in Nat /\ logged' \in Nat
        /\ Len(log') <= MaxLog
        /\ evicted' + Len(log') = logged'
        /\ evicted' > 0 => Len(log') = MaxLog
    BY <1>5, <2>1, <2>2
  <2>4. QED
    BY <2>3 DEF EvictionsHonest
<1>7. ASSUME NEW n \in DOMAIN log'
      PROVE  (\E m \in DOMAIN log : log'[n] = log[m]) \/ log'[n] = x
  <2>1. PICK m \in DOMAIN l : log'[n] = l[m]
    BY <1>4
  <2>2. QED
    BY <1>2, <2>1
<1>8. QED
  BY <1>4, <1>6, <1>7 DEF x
-----------------------------------------------------------------------------
\* A step of one job: the others stay as they are, and so does what it is.
Moves(j, p) ==
  /\ jobs' \in Seq(Job) /\ Len(jobs') = Len(jobs) /\ Jobs' = Jobs
  /\ \A i \in Jobs : i # j => jobs'[i] = jobs[i]
  /\ jobs'[j].webhook = jobs[j].webhook /\ jobs'[j].at = jobs[j].at
  /\ jobs'[j].origin = jobs[j].origin /\ jobs'[j].block = jobs[j].block
  /\ jobs'[j].pc = p

\* Changing the place of a job, its ordinal, its destination or its answers.
LEMMA Changing ==
  ASSUME TypeOK, NEW j \in Jobs, NEW p \in PC
  PROVE  /\ jobs' = [jobs EXCEPT ![j].pc = p]
            => Moves(j, p) /\ jobs'[j].ordinal = jobs[j].ordinal /\ jobs'[j].answers = jobs[j].answers
         /\ \A n \in Nat : jobs' = [jobs EXCEPT ![j].pc = p, ![j].ordinal = n]
            => Moves(j, p) /\ jobs'[j].ordinal = n /\ jobs'[j].answers = jobs[j].answers
         /\ \A to \in Places : jobs' = [jobs EXCEPT ![j].pc = p, ![j].to = to]
            => Moves(j, p) /\ jobs'[j].ordinal = jobs[j].ordinal /\ jobs'[j].answers = jobs[j].answers
         /\ \A s \in Seq(Answers) : jobs' = [jobs EXCEPT ![j].pc = p, ![j].answers = s]
            => Moves(j, p) /\ jobs'[j].ordinal = jobs[j].ordinal /\ jobs'[j].answers = s
<1> DEFINE e == jobs[j]
<1>0. e \in Job /\ jobs \in Seq(Job)
  BY DEF TypeOK, Jobs
<1>1. ASSUME jobs' = [jobs EXCEPT ![j].pc = p]
      PROVE  Moves(j, p) /\ jobs'[j].ordinal = jobs[j].ordinal /\ jobs'[j].answers = jobs[j].answers
  <2> DEFINE y == [e EXCEPT !.pc = p]
  <2>1. /\ y \in Job /\ y.pc = p /\ y.webhook = e.webhook /\ y.at = e.at /\ y.origin = e.origin
        /\ y.block = e.block /\ y.ordinal = e.ordinal /\ y.answers = e.answers
    BY <1>0 DEF Job
  <2>2. jobs' = [jobs EXCEPT ![j] = y]
    BY <1>1
  <2> HIDE DEF y
  <2>3. QED
    BY <1>0, <2>1, <2>2, JobChanged DEF Moves
<1>2. ASSUME NEW n \in Nat, jobs' = [jobs EXCEPT ![j].pc = p, ![j].ordinal = n]
      PROVE  Moves(j, p) /\ jobs'[j].ordinal = n /\ jobs'[j].answers = jobs[j].answers
  <2> DEFINE y == [e EXCEPT !.pc = p, !.ordinal = n]
  <2>1. /\ y \in Job /\ y.pc = p /\ y.webhook = e.webhook /\ y.at = e.at /\ y.origin = e.origin
        /\ y.block = e.block /\ y.ordinal = n /\ y.answers = e.answers
    BY <1>0 DEF Job
  <2>2. jobs' = [jobs EXCEPT ![j] = y]
    BY <1>0, <1>2
  <2> HIDE DEF y
  <2>3. QED
    BY <1>0, <2>1, <2>2, JobChanged DEF Moves
<1>3. ASSUME NEW to \in Places, jobs' = [jobs EXCEPT ![j].pc = p, ![j].to = to]
      PROVE  Moves(j, p) /\ jobs'[j].ordinal = jobs[j].ordinal /\ jobs'[j].answers = jobs[j].answers
  <2> DEFINE y == [e EXCEPT !.pc = p, !.to = to]
  <2>1. /\ y \in Job /\ y.pc = p /\ y.webhook = e.webhook /\ y.at = e.at /\ y.origin = e.origin
        /\ y.block = e.block /\ y.ordinal = e.ordinal /\ y.answers = e.answers
    BY <1>0 DEF Job
  <2>2. jobs' = [jobs EXCEPT ![j] = y]
    BY <1>0, <1>3
  <2> HIDE DEF y
  <2>3. QED
    BY <1>0, <2>1, <2>2, JobChanged DEF Moves
<1>4. ASSUME NEW s \in Seq(Answers), jobs' = [jobs EXCEPT ![j].pc = p, ![j].answers = s]
      PROVE  Moves(j, p) /\ jobs'[j].ordinal = jobs[j].ordinal /\ jobs'[j].answers = s
  <2> DEFINE y == [e EXCEPT !.pc = p, !.answers = s]
  <2>1. /\ y \in Job /\ y.pc = p /\ y.webhook = e.webhook /\ y.at = e.at /\ y.origin = e.origin
        /\ y.block = e.block /\ y.ordinal = e.ordinal /\ y.answers = s
    BY <1>0 DEF Job
  <2>2. jobs' = [jobs EXCEPT ![j] = y]
    BY <1>0, <1>4
  <2> HIDE DEF y
  <2>3. QED
    BY <1>0, <2>1, <2>2, JobChanged DEF Moves
<1>5. QED
  BY <1>1, <1>2, <1>3, <1>4

\* The end of a wait: dropped, or fired with the next ordinal.
LEMMA WakeEffect ==
  ASSUME TypeOK, NEW j \in Jobs, Wake(j)
  PROVE  \/ /\ Moves(j, "gone") /\ jobs'[j].ordinal = jobs[j].ordinal
            /\ jobs'[j].answers = jobs[j].answers /\ counters' = counters
         \/ /\ jobs[j].at = generation /\ ~closed
            /\ Moves(j, "firing") /\ jobs'[j].answers = jobs[j].answers
            /\ jobs'[j].ordinal = counters[jobs[j].webhook] + 1
            /\ jobs'[j].ordinal \in Nat /\ jobs'[j].ordinal # Undrawn
            /\ counters' = [counters EXCEPT ![jobs[j].webhook] = @ + 1]
<1>0. jobs[j].webhook \in Webhooks /\ counters[jobs[j].webhook] \in Nat
  BY JobFields DEF TypeOK
<1>1. CASE Invalidated(j)
  <2>1. jobs' = [jobs EXCEPT ![j].pc = "gone"] /\ counters' = counters
    BY <1>1 DEF Wake
  <2>2. "gone" \in PC
    BY DEF PC
  <2>3. QED
    BY <2>1, <2>2, Changing
<1>2. CASE ~Invalidated(j)
  <2> DEFINE n == counters[jobs[j].webhook] + 1
  <2>1. /\ jobs' = [jobs EXCEPT ![j].pc = "firing", ![j].ordinal = n]
        /\ counters' = [counters EXCEPT ![jobs[j].webhook] = @ + 1]
        /\ jobs[j].at = generation /\ ~closed
    BY <1>2 DEF Wake, Draw, Ordinal, Invalidated
  <2>2. n \in Nat /\ n # Undrawn /\ "firing" \in PC
    BY <1>0 DEF Undrawn, PC
  <2> HIDE DEF n
  <2>3. Moves(j, "firing") /\ jobs'[j].ordinal = n /\ jobs'[j].answers = jobs[j].answers
    BY <2>1, <2>2, Changing
  <2>4. QED
    BY <2>1, <2>2, <2>3 DEF n
<1>3. QED
  BY <1>1, <1>2

\* The start of a delivery: recorded at once, or sending.
LEMMA ResolveEffect ==
  ASSUME TypeOK, NEW j \in Jobs, NEW to \in Places, Resolve(j, to)
  PROVE  /\ jobs[j].pc = "firing"
         /\ jobs'[j].ordinal = jobs[j].ordinal /\ jobs'[j].answers = jobs[j].answers
         /\ UNCHANGED <<counters, allocations, generation, closed, drained, dropped, config>>
         /\ \/ /\ Moves(j, "sending") /\ UNCHANGED <<log, evicted, logged>>
               /\ Attempts # 0
            \/ /\ Moves(j, "recorded")
               /\ \E outcome \in {"unresolved", "captured", "failed"} :
                    /\ outcome = "failed" => Attempts = 0
                    /\ Record(j, outcome, << >>)
<1>1. CASE to = "nowhere" \/ captureOnly \/ Attempts = 0
  <2>1. jobs' = [jobs EXCEPT ![j].pc = "recorded", ![j].to = to]
    BY <1>1 DEF Resolve, Deliver
  <2>2. /\ Moves(j, "recorded")
        /\ jobs'[j].ordinal = jobs[j].ordinal /\ jobs'[j].answers = jobs[j].answers
    BY <2>1, Changing DEF PC
  <2> DEFINE outcome == IF to = "nowhere" THEN "unresolved"
                        ELSE IF captureOnly THEN "captured" ELSE "failed"
  <2>3. Record(j, outcome, << >>)
    BY <1>1 DEF Resolve, Deliver
  <2>4. outcome \in {"unresolved", "captured", "failed"} /\ (outcome = "failed" => Attempts = 0)
    BY <1>1
  <2> HIDE DEF outcome
  <2>5. QED
    BY <2>2, <2>3, <2>4 DEF Resolve
<1>2. CASE ~(to = "nowhere" \/ captureOnly \/ Attempts = 0)
  <2>1. /\ jobs' = [jobs EXCEPT ![j].pc = "sending", ![j].to = to]
        /\ UNCHANGED <<log, evicted, logged>>
    BY <1>2 DEF Resolve, Deliver
  <2>2. QED
    BY <1>2, <2>1, Changing DEF PC, Resolve
<1>3. QED
  BY <1>1, <1>2

\* One attempt: to be retried, or recorded.
LEMMA AttemptEffect ==
  ASSUME TypeOK, NEW j \in Jobs, NEW a \in Answers, Attempt(j, a)
  PROVE  LET answers == Append(jobs[j].answers, a) IN
         /\ jobs[j].pc = "sending"
         /\ answers \in Seq(Answers)
         /\ jobs'[j].ordinal = jobs[j].ordinal /\ jobs'[j].answers = answers
         /\ UNCHANGED <<counters, allocations, generation, closed, drained, dropped, config>>
         /\ \/ /\ Moves(j, "backoff") /\ UNCHANGED <<log, evicted, logged>>
               /\ a = "again" /\ Len(answers) < Attempts
            \/ /\ Moves(j, "recorded")
               /\ ~(a = "again" /\ Len(answers) < Attempts)
               /\ Record(j, IF a = "ok" THEN "delivered" ELSE "failed", answers)
<1> DEFINE answers == Append(jobs[j].answers, a)
<1>1. answers \in Seq(Answers)
  <2>1. jobs[j].answers \in Seq(Answers)
    BY JobFields
  <2> DEFINE s == jobs[j].answers
  <2> HIDE DEF s
  <2>2. s \in Seq(Answers) => Append(s, a) \in Seq(Answers)
    BY AppendProperties
  <2>3. QED
    BY <2>1, <2>2 DEF s
<1>2. /\ jobs[j].pc = "sending"
      /\ UNCHANGED <<counters, allocations, generation, closed, drained, dropped, config>>
      /\ IF a = "again" /\ Len(answers) < Attempts
         THEN /\ jobs' = [jobs EXCEPT ![j].pc = "backoff", ![j].answers = answers]
              /\ UNCHANGED <<log, evicted, logged>>
         ELSE /\ jobs' = [jobs EXCEPT ![j].pc = "recorded", ![j].answers = answers]
              /\ Record(j, IF a = "ok" THEN "delivered" ELSE "failed", answers)
  BY DEF Attempt, ShouldRetry
<1>3. "backoff" \in PC /\ "recorded" \in PC
  BY DEF PC
<1> HIDE DEF answers
<1>4. /\ jobs'[j].ordinal = jobs[j].ordinal /\ jobs'[j].answers = answers
      /\ \/ /\ Moves(j, "backoff") /\ UNCHANGED <<log, evicted, logged>>
            /\ a = "again" /\ Len(answers) < Attempts
         \/ /\ Moves(j, "recorded")
            /\ ~(a = "again" /\ Len(answers) < Attempts)
            /\ Record(j, IF a = "ok" THEN "delivered" ELSE "failed", answers)
  BY <1>1, <1>2, <1>3, Changing
<1>5. QED
  BY <1>1, <1>2, <1>4 DEF answers
-----------------------------------------------------------------------------
\* The part of TypeOK that is about the jobs.
JobsOK ==
  /\ jobs \in Seq(Job) /\ Len(jobs) <= MaxJobs
  /\ \A j \in DOMAIN jobs : jobs[j].pc \in {"firing", "sending", "backoff", "recorded"}
                            => jobs[j].ordinal # Undrawn

\* A new job, its place and its fields.
Joins(p, w, ordinal, block, origin) ==
  /\ jobs' \in Seq(Job) /\ Len(jobs') = Len(jobs) + 1
  /\ Jobs = 1 .. Len(jobs) /\ Jobs' = 1 .. Len(jobs) + 1
  /\ \A i \in Jobs : jobs'[i] = jobs[i]
  /\ LET e == jobs'[Len(jobs) + 1] IN
     /\ e.pc = p /\ e.webhook = w /\ e.at = generation /\ e.ordinal = ordinal
     /\ e.block = block /\ e.origin = origin /\ e.answers = << >>

\* A job that is appended is in its place with its fields.
LEMMA Joining ==
  ASSUME TypeOK, NEW w \in Webhooks, NEW p \in PC, NEW ordinal \in Nat, NEW block \in Nat,
         NEW to \in Places, NEW origin \in Nat,
         jobs' = Append(jobs, NewJob(w, p, ordinal, block, to, origin))
  PROVE  Joins(p, w, ordinal, block, origin)
<1> DEFINE x == NewJob(w, p, ordinal, block, to, origin)
<1>1. /\ x \in Job
      /\ x.webhook = w /\ x.at = generation /\ x.pc = p /\ x.ordinal = ordinal
      /\ x.block = block /\ x.to = to /\ x.answers = << >> /\ x.origin = origin
  BY NewJobType
<1>2. jobs' = Append(jobs, x) /\ jobs \in Seq(Job)
  BY DEF TypeOK
<1> HIDE DEF x
<1>3. QED
  BY <1>1, <1>2, JobAppended DEF Joins

\* The exit of a request that has to wait.
LEMMA ScheduleEffect ==
  ASSUME TypeOK, NEW w \in Webhooks, ScheduleDelayed(w)
  PROVE  /\ Joins("waiting", w, Undrawn, allocations + 1, Len(jobs) + 1)
         /\ Len(jobs) < MaxJobs /\ ~closed
         /\ allocations' = allocations + 1
         /\ UNCHANGED <<counters, generation, closed, drained,
                        log, evicted, logged, dropped, config>>
<1>1. /\ "waiting" \in PC /\ "unknown" \in Places /\ Undrawn \in Nat
      /\ Block \in Nat /\ Block = allocations + 1 /\ Len(jobs) + 1 \in Nat
  BY DEF PC, Places, Undrawn, Block, TypeOK
<1>2. jobs' = Append(jobs, NewJob(w, "waiting", Undrawn, Block, "unknown", Len(jobs) + 1))
  BY DEF ScheduleDelayed
<1>3. Joins("waiting", w, Undrawn, allocations + 1, Len(jobs) + 1)
  BY <1>1, <1>2, Joining
<1>4. QED
  BY <1>3 DEF ScheduleDelayed, Allocated, MayEmit

\* An emission that fires at once.
LEMMA FireEffect ==
  ASSUME TypeOK, NEW w \in Webhooks, Fire(w), MayEmit
  PROVE  /\ Joins("firing", w, counters[w] + 1, allocations + 1, Len(jobs) + 1)
         /\ Len(jobs) < MaxJobs /\ ~closed
         /\ allocations' = allocations + 1
         /\ counters' = [counters EXCEPT ![w] = @ + 1]
         /\ UNCHANGED <<generation, closed, drained,
                        log, evicted, logged, dropped, config>>
<1>1. /\ "firing" \in PC /\ "unknown" \in Places
      /\ Ordinal(w) \in Nat /\ Ordinal(w) = counters[w] + 1
      /\ Block \in Nat /\ Block = allocations + 1 /\ Len(jobs) + 1 \in Nat
  BY DEF PC, Places, Ordinal, Block, TypeOK
<1>2. jobs' = Append(jobs, NewJob(w, "firing", Ordinal(w), Block, "unknown", Len(jobs) + 1))
  BY DEF Fire
<1>3. Joins("firing", w, counters[w] + 1, allocations + 1, Len(jobs) + 1)
  BY <1>1, <1>2, Joining
<1>4. QED
  BY <1>3 DEF Fire, Draw, Ordinal, Allocated, MayEmit

\* A redelivery has the id of what it repeats.
LEMMA RedeliverEffect ==
  ASSUME TypeOK, LogPoints, NEW n \in DOMAIN log, Redeliver(n)
  PROVE  LET j == log[n].job IN
         /\ j \in Jobs /\ jobs[j].pc = "recorded"
         /\ Joins("firing", jobs[j].webhook, jobs[j].ordinal, jobs[j].block, jobs[j].origin)
         /\ Len(jobs) < MaxJobs /\ ~closed
         /\ UNCHANGED <<counters, allocations, generation, closed, drained,
                        log, evicted, logged, dropped, config>>
<1> DEFINE j == log[n].job
           source == jobs[j]
<1>1. j \in Jobs /\ source.pc = "recorded"
  BY DEF LogPoints
<1>2. /\ source.webhook \in Webhooks /\ source.ordinal \in Nat /\ source.block \in Nat
      /\ source.to \in Places /\ source.origin \in Nat
  BY <1>1, JobFields
<1>3. jobs' = Append(jobs, NewJob(source.webhook, "firing", source.ordinal,
                                  source.block, source.to, source.origin))
  BY DEF Redeliver
<1>4. "firing" \in PC
  BY DEF PC
<1> HIDE DEF source
<1>5. Joins("firing", source.webhook, source.ordinal, source.block, source.origin)
  BY <1>2, <1>3, <1>4, Joining
<1>6. QED
  BY <1>1, <1>5 DEF source, Redeliver, MayEmit

\* An emission that breaks while it is prepared.
LEMMA BreakEffect ==
  ASSUME TypeOK, NEW j \in Jobs, Break(j)
  PROVE  /\ Moves(j, "gone") /\ jobs'[j].ordinal = jobs[j].ordinal
         /\ jobs'[j].answers = jobs[j].answers /\ jobs[j].pc = "firing"
         /\ UNCHANGED <<counters, allocations, generation, closed, drained,
                        log, evicted, logged, dropped, config>>
<1>1. "gone" \in PC
  BY DEF PC
<1>2. jobs' = [jobs EXCEPT ![j].pc = "gone"]
  BY DEF Break
<1>3. QED
  BY <1>1, <1>2, Changing DEF Break

\* The end of a backoff.
LEMMA RetryEffect ==
  ASSUME TypeOK, NEW j \in Jobs, Retry(j)
  PROVE  /\ Moves(j, "sending") /\ jobs'[j].ordinal = jobs[j].ordinal
         /\ jobs'[j].answers = jobs[j].answers /\ jobs[j].pc = "backoff"
         /\ UNCHANGED <<counters, allocations, generation, closed, drained,
                        log, evicted, logged, dropped, config>>
<1>1. "sending" \in PC
  BY DEF PC
<1>2. jobs' = [jobs EXCEPT ![j].pc = "sending"]
  BY DEF Retry
<1>3. QED
  BY <1>1, <1>2, Changing DEF Retry

-----------------------------------------------------------------------------
\* The steps, one per action and per result of it.
StepOfJob(j) ==
  \/ Wake(j)
  \/ \E to \in Places : Resolve(j, to)
  \/ Break(j)
  \/ \E a \in Answers : Attempt(j, a)
  \/ Retry(j)

Request(w) == ScheduleDelayed(w) \/ (MayEmit /\ Fire(w))

Other ==
  \/ ClearDeliveries \/ Reset \/ Close \/ Settled
  \/ UNCHANGED vars

\* Every step is one of these.
LEMMA Steps ==
  ASSUME [Next]_vars
  PROVE  \/ \E w \in Webhooks : Request(w)
         \/ \E j \in Jobs : StepOfJob(j)
         \/ \E n \in DOMAIN log : Redeliver(n)
         \/ Other
BY DEF Next, JobStep, Release, ScheduleNow, Emit, StepOfJob, Request, Other

-----------------------------------------------------------------------------
\* Types.
LEMMA JoinsOK ==
  ASSUME TypeOK, NEW p, NEW w, NEW ordinal, NEW block, NEW origin,
         Joins(p, w, ordinal, block, origin),
         p # "waiting" => ordinal # Undrawn, Len(jobs) < MaxJobs
  PROVE  JobsOK'
<1>1. Len(jobs) \in Nat /\ MaxJobs \in Nat
  BY DEF TypeOK
<1>2. Len(jobs') <= MaxJobs
  BY <1>1 DEF Joins
<1>3. ASSUME NEW i \in Jobs', jobs'[i].pc \in {"firing", "sending", "backoff", "recorded"}
      PROVE  jobs'[i].ordinal # Undrawn
  <2>1. CASE i \in Jobs
    BY <1>3, <2>1 DEF Joins, TypeOK, Jobs
  <2>2. CASE i = Len(jobs) + 1
    BY <1>3, <2>2 DEF Joins
  <2>3. QED
    BY <1>1, <2>1, <2>2 DEF Joins
<1>4. QED
  BY <1>2, <1>3 DEF JobsOK, Joins, Jobs

\* A job that moves leaves the jobs well typed.
LEMMA MovesOK ==
  ASSUME TypeOK, NEW j \in Jobs, NEW p, Moves(j, p), p # "gone" => jobs'[j].ordinal # Undrawn
  PROVE  JobsOK'
<1>1. ASSUME NEW i \in Jobs', jobs'[i].pc \in {"firing", "sending", "backoff", "recorded"}
      PROVE  jobs'[i].ordinal # Undrawn
  <2>1. CASE i = j
    BY <1>1, <2>1 DEF Moves
  <2>2. CASE i # j
    BY <1>1, <2>2 DEF Moves, TypeOK, Jobs
  <2>3. QED
    BY <2>1, <2>2
<1>2. QED
  BY <1>1 DEF JobsOK, Moves, TypeOK, Jobs

\* The part of TypeOK that is about the rest.
RestOK ==
  /\ counters \in [Webhooks -> Nat]
  /\ allocations \in Nat
  /\ generation \in 0 .. MaxResets
  /\ closed \in BOOLEAN /\ drained \in BOOLEAN
  /\ log \in Seq(Delivery)
  /\ evicted \in Nat /\ logged \in Nat
  /\ dropped \subseteq 1 .. MaxJobs
  /\ injected \in BOOLEAN /\ captureOnly \in BOOLEAN

\* A step that is about a job and the log leaves the rest well typed.
LEMMA OtherUnchanged ==
  ASSUME TypeOK, UNCHANGED <<counters, allocations, generation, closed, drained, dropped, config>>,
         log' \in Seq(Delivery) /\ evicted' \in Nat /\ logged' \in Nat
  PROVE  RestOK'
BY DEF TypeOK, RestOK, config

\* Types, when an emission is scheduled.
LEMMA RequestTypes ==
  ASSUME TypeOK, NEW w \in Webhooks, Request(w)
  PROVE  TypeOK'
<1>1. CASE ScheduleDelayed(w)
  <2>1. JobsOK'
    BY <1>1, ScheduleEffect, JoinsOK
  <2>2. /\ allocations' \in Nat
        /\ UNCHANGED <<counters, generation, closed, drained,
                       log, evicted, logged, dropped, config>>
    BY <1>1, ScheduleEffect DEF TypeOK
  <2>3. RestOK'
    BY <2>2 DEF TypeOK, RestOK, config
  <2>4. QED
    BY <2>1, <2>3 DEF TypeOK, JobsOK, RestOK
<1>2. CASE MayEmit /\ Fire(w)
  <2>0. counters[w] \in Nat
    BY DEF TypeOK
  <2>1. counters[w] + 1 # Undrawn
    BY <2>0 DEF Undrawn
  <2>2. JobsOK'
    BY <1>2, <2>1, FireEffect, JoinsOK
  <2>3. /\ counters' \in [Webhooks -> Nat] /\ allocations' \in Nat
        /\ UNCHANGED <<generation, closed, drained, log, evicted, logged, dropped, config>>
    BY <1>2, <2>0, FireEffect, SMTT(30) DEF TypeOK
  <2>4. RestOK'
    BY <2>3 DEF TypeOK, RestOK, config
  <2>5. QED
    BY <2>2, <2>4 DEF TypeOK, JobsOK, RestOK
<1>3. QED
  BY <1>1, <1>2 DEF Request

\* Types, when a job goes on.
LEMMA JobTypes ==
  ASSUME TypeOK, EvictionsHonest, NEW j \in Jobs, StepOfJob(j)
  PROVE  TypeOK'
<1>0. jobs[j].webhook \in Webhooks /\ jobs[j].answers \in Seq(Answers)
  BY JobFields
<1>1. /\ jobs[j].pc \in {"firing", "sending", "backoff"} => jobs[j].ordinal # Undrawn
      /\ log \in Seq(Delivery) /\ evicted \in Nat /\ logged \in Nat
  BY DEF TypeOK, Jobs
<1>2. CASE Wake(j)
  <2>1. JobsOK'
    BY <1>2, WakeEffect, MovesOK
  <2>2. counters[jobs[j].webhook] \in Nat
    BY <1>0 DEF TypeOK
  <2>3. counters' \in [Webhooks -> Nat]
    BY <1>0, <1>2, <2>2, WakeEffect DEF TypeOK
  <2>4. UNCHANGED <<allocations, generation, closed, drained,
                    log, evicted, logged, dropped, config>>
    BY <1>2 DEF Wake
  <2>5. RestOK'
    BY <2>3, <2>4 DEF TypeOK, RestOK, config
  <2>6. QED
    BY <2>1, <2>5 DEF TypeOK, JobsOK, RestOK
<1>3. CASE \E to \in Places : Resolve(j, to)
  <2>1. PICK to \in Places : Resolve(j, to)
    BY <1>3
  <2>2. JobsOK'
    BY <1>1, <2>1, ResolveEffect, MovesOK
  <2>3. << >> \in Seq(Answers) /\ {"unresolved", "captured", "failed"} \subseteq RecordedOutcomes
    BY DEF RecordedOutcomes
  <2>4. log' \in Seq(Delivery) /\ evicted' \in Nat /\ logged' \in Nat
    BY <1>1, <2>1, <2>3, ResolveEffect, Recorded
  <2>5. RestOK'
    BY <2>1, <2>4, ResolveEffect, OtherUnchanged
  <2>6. QED
    BY <2>2, <2>5 DEF TypeOK, JobsOK, RestOK
<1>4. CASE Break(j)
  <2>1. JobsOK'
    BY <1>1, <1>4, BreakEffect, MovesOK
  <2>2. RestOK'
    BY <1>1, <1>4, BreakEffect, OtherUnchanged
  <2>3. QED
    BY <2>1, <2>2 DEF TypeOK, JobsOK, RestOK
<1>5. CASE \E a \in Answers : Attempt(j, a)
  <2>1. PICK a \in Answers : Attempt(j, a)
    BY <1>5
  <2>2. JobsOK'
    BY <1>1, <2>1, AttemptEffect, MovesOK
  <2>3. (IF a = "ok" THEN "delivered" ELSE "failed") \in RecordedOutcomes
    BY DEF RecordedOutcomes
  <2>4. log' \in Seq(Delivery) /\ evicted' \in Nat /\ logged' \in Nat
    BY <1>1, <2>1, <2>3, AttemptEffect, Recorded
  <2>5. RestOK'
    BY <2>1, <2>4, AttemptEffect, OtherUnchanged
  <2>6. QED
    BY <2>2, <2>5 DEF TypeOK, JobsOK, RestOK
<1>6. CASE Retry(j)
  <2>1. JobsOK'
    BY <1>1, <1>6, RetryEffect, MovesOK
  <2>2. RestOK'
    BY <1>1, <1>6, RetryEffect, OtherUnchanged
  <2>3. QED
    BY <2>1, <2>2 DEF TypeOK, JobsOK, RestOK
<1>7. QED
  BY <1>2, <1>3, <1>4, <1>5, <1>6 DEF StepOfJob

\* Types, when a delivery is repeated.
LEMMA RedeliverTypes ==
  ASSUME TypeOK, LogPoints, NEW n \in DOMAIN log, Redeliver(n)
  PROVE  TypeOK'
<1>1. jobs[log[n].job].ordinal # Undrawn
  BY RedeliverEffect DEF TypeOK, Jobs
<1>2. JobsOK'
  BY <1>1, RedeliverEffect, JoinsOK
<1>3. RestOK'
  BY RedeliverEffect, OtherUnchanged DEF TypeOK
<1>4. QED
  BY <1>2, <1>3 DEF TypeOK, JobsOK, RestOK

\* Types, when the handler is reset, cleared or closed.
LEMMA OtherTypes ==
  ASSUME TypeOK, Other
  PROVE  TypeOK'
<1>0. Waiting \subseteq 1 .. MaxJobs
  BY DEF TypeOK, Waiting, Jobs
<1>1. UNCHANGED jobs
  BY DEF Other, ClearDeliveries, Reset, Close, Settled, vars
<1>2. JobsOK'
  BY <1>1 DEF JobsOK, TypeOK
<1>3. RestOK'
  <2>0. << >> \in Seq(Delivery) /\ 0 \in Nat
    OBVIOUS
  <2>1. CASE ClearDeliveries
    BY <2>0, <2>1 DEF TypeOK, RestOK, ClearDeliveries, Cleared, config
  <2>2. CASE Reset
    <3>1. dropped' \subseteq 1 .. MaxJobs /\ generation' \in 0 .. MaxResets
      BY <1>0, <2>2 DEF TypeOK, Reset, NextGeneration
    <3>2. QED
      BY <2>0, <2>2, <3>1 DEF TypeOK, RestOK, Reset, Cleared, config
  <2>3. CASE Close
    <3>1. dropped' \subseteq 1 .. MaxJobs
      BY <1>0, <2>3 DEF TypeOK, Close
    <3>2. QED
      BY <2>3, <3>1 DEF TypeOK, RestOK, Close, config
  <2>4. CASE Settled
    BY <2>4 DEF TypeOK, RestOK, Settled, config
  <2>5. CASE UNCHANGED vars
    BY <2>5 DEF TypeOK, RestOK, vars, config
  <2>6. QED
    BY <2>1, <2>2, <2>3, <2>4, <2>5 DEF Other
<1>4. QED
  BY <1>2, <1>3 DEF TypeOK, JobsOK, RestOK

-----------------------------------------------------------------------------
\* Nothing is drawn, and what has been stays with its job.
LEMMA DrawnKept ==
  ASSUME TypeOK, Drawn, Jobs' = Jobs,
         UNCHANGED <<counters, allocations, generation>>,
         \A i \in Jobs : /\ jobs'[i].webhook = jobs[i].webhook /\ jobs'[i].at = jobs[i].at
                         /\ jobs'[i].origin = jobs[i].origin /\ jobs'[i].block = jobs[i].block
                         /\ jobs'[i].ordinal = jobs[i].ordinal
                         /\ jobs'[i].pc = "waiting" => jobs[i].pc = "waiting"
  PROVE  Drawn'
<1>1. Numbering'
  <2>1. SUFFICES ASSUME NEW i \in Jobs
                 PROVE  LET e == jobs'[i]
                            first == jobs'[e.origin]
                        IN /\ e.origin \in 1 .. i
                           /\ first.origin = e.origin
                           /\ e.at <= generation
                           /\ e.pc = "waiting" => e.ordinal = Undrawn /\ e.origin = i
                           /\ e.origin # i => /\ first.ordinal = e.ordinal
                                              /\ first.webhook = e.webhook
                                              /\ e.ordinal # Undrawn
                           /\ e.origin = i /\ e.at = generation =>
                                e.block <= allocations /\ e.ordinal <= counters[e.webhook]
    BY DEF Numbering
  <2>2. /\ jobs[i].origin \in 1 .. i /\ jobs[i].origin \in Jobs
    BY DEF Drawn, Numbering, Jobs, TypeOK
  <2>3. QED
    BY <2>2 DEF Drawn, Numbering
<1>2. Distinct'
  BY DEF Drawn, Distinct, Redelivery
<1>3. BlocksFollowSchedule'
  BY DEF Drawn, BlocksFollowSchedule, Redelivery
<1>4. QED
  BY <1>1, <1>2, <1>3 DEF Drawn

\* A job moves on, and keeps its ordinal.
LEMMA DrawnMoves ==
  ASSUME TypeOK, Drawn, NEW j \in Jobs, NEW p, p # "waiting", Moves(j, p),
         jobs'[j].ordinal = jobs[j].ordinal, UNCHANGED <<counters, allocations, generation>>
  PROVE  Drawn'
<1>1. \A i \in Jobs : /\ jobs'[i].webhook = jobs[i].webhook /\ jobs'[i].at = jobs[i].at
                      /\ jobs'[i].origin = jobs[i].origin /\ jobs'[i].block = jobs[i].block
                      /\ jobs'[i].ordinal = jobs[i].ordinal
                      /\ jobs'[i].pc = "waiting" => jobs[i].pc = "waiting"
  BY DEF Moves
<1>2. QED
  BY <1>1, DrawnKept DEF Moves

\* An emission is scheduled, with or without an ordinal: its block, and its ordinal
\* if it has one, are later than all of its generation.
LEMMA DrawnScheduled ==
  ASSUME TypeOK, Drawn, NEW w \in Webhooks, NEW p, NEW n \in Nat,
         Joins(p, w, n, allocations + 1, Len(jobs) + 1),
         p = "waiting" => n = Undrawn,
         allocations' = allocations + 1, generation' = generation,
         \/ n = Undrawn /\ counters' = counters
         \/ n = counters[w] + 1 /\ counters' = [counters EXCEPT ![w] = @ + 1]
  PROVE  Drawn'
<1> DEFINE new == Len(jobs) + 1
<1>0. /\ Len(jobs) \in Nat /\ Jobs = 1 .. Len(jobs) /\ Jobs' = 1 .. new
      /\ allocations \in Nat /\ generation \in Nat
      /\ \A v \in Webhooks : counters[v] \in Nat
      /\ \A i \in Jobs : jobs'[i] = jobs[i] /\ i # new
  BY DEF TypeOK, Joins
<1>1. /\ jobs'[new].pc = p /\ jobs'[new].webhook = w /\ jobs'[new].at = generation
      /\ jobs'[new].ordinal = n /\ jobs'[new].block = allocations + 1
      /\ jobs'[new].origin = new
  BY DEF Joins
<1>2. ASSUME NEW v \in Webhooks
      PROVE  counters'[v] \in Nat /\ counters[v] <= counters'[v]
  <2>1. counters'[v] = counters[v] \/ counters'[v] = counters[v] + 1
    BY DEF TypeOK
  <2>2. counters[v] \in Nat
    BY <1>0
  <2>3. QED
    BY <2>1, <2>2
<1>3. n <= counters'[w] /\ (n # Undrawn => n > counters[w])
  <2>1. (n = 0 /\ counters'[w] = counters[w]) \/ (n = counters[w] + 1 /\ counters'[w] = n)
    BY DEF TypeOK, Undrawn
  <2>2. counters[w] \in Nat
    BY <1>0
  <2>3. QED
    BY <2>1, <2>2 DEF Undrawn
<1>4. \A i \in Jobs : /\ jobs[i].webhook \in Webhooks /\ jobs[i].block \in Nat
                      /\ jobs[i].ordinal \in Nat /\ jobs[i].origin \in 1 .. i
  BY JobFields DEF Drawn, Numbering
<1> HIDE DEF new
<1>5. Numbering'
  <2>1. ASSUME NEW i \in Jobs
        PROVE  LET e == jobs[i]
                   first == jobs[e.origin]
               IN /\ e.origin \in 1 .. i
                  /\ first.origin = e.origin
                  /\ e.at <= generation
                  /\ e.pc = "waiting" => e.ordinal = Undrawn /\ e.origin = i
                  /\ e.origin # i => /\ first.ordinal = e.ordinal /\ first.webhook = e.webhook
                                     /\ e.ordinal # Undrawn
                  /\ e.origin = i /\ e.at = generation =>
                       e.block <= allocations' /\ e.ordinal <= counters'[e.webhook]
    <3>1. /\ jobs[i].origin = i /\ jobs[i].at = generation
             => jobs[i].block <= allocations /\ jobs[i].ordinal <= counters[jobs[i].webhook]
      BY DEF Drawn, Numbering
    <3>2. /\ jobs[i].block <= allocations => jobs[i].block <= allocations'
          /\ jobs[i].ordinal <= counters[jobs[i].webhook]
             => jobs[i].ordinal <= counters'[jobs[i].webhook]
      <4>1. /\ jobs[i].block \in Nat /\ allocations \in Nat /\ allocations' = allocations + 1
        BY <1>0, <1>4
      <4>2. /\ jobs[i].ordinal \in Nat /\ counters[jobs[i].webhook] \in Nat
            /\ counters'[jobs[i].webhook] \in Nat
            /\ counters[jobs[i].webhook] <= counters'[jobs[i].webhook]
        BY <1>0, <1>2, <1>4 DEF TypeOK
      <4>3. QED
        BY <4>1, <4>2
    <3>3. QED
      BY <3>1, <3>2 DEF Drawn, Numbering
  <2>2. \A i \in Jobs : jobs'[jobs'[i].origin] = jobs[jobs[i].origin]
    BY <1>0, <1>4
  <2>3. /\ jobs'[new].origin \in 1 .. new
        /\ jobs'[jobs'[new].origin].origin = jobs'[new].origin
        /\ jobs'[new].at <= generation'
        /\ jobs'[new].pc = "waiting" => jobs'[new].ordinal = Undrawn
        /\ jobs'[new].block <= allocations'
        /\ jobs'[new].ordinal <= counters'[jobs'[new].webhook]
    BY <1>0, <1>1, <1>3 DEF new
  <2>4. \A i \in Jobs' : i \in Jobs \/ i = new
    BY <1>0 DEF new
  <2>5. QED
    <3>1. ASSUME NEW i \in Jobs'
          PROVE  LET e == jobs'[i]
                     first == jobs'[e.origin]
                 IN /\ e.origin \in 1 .. i
                    /\ first.origin = e.origin
                    /\ e.at <= generation'
                    /\ e.pc = "waiting" => e.ordinal = Undrawn /\ e.origin = i
                    /\ e.origin # i => /\ first.ordinal = e.ordinal
                                       /\ first.webhook = e.webhook
                                       /\ e.ordinal # Undrawn
                    /\ e.origin = i /\ e.at = generation' =>
                         e.block <= allocations' /\ e.ordinal <= counters'[e.webhook]
      <4>1. CASE i \in Jobs
        <5>1. jobs'[i] = jobs[i] /\ jobs'[jobs'[i].origin] = jobs[jobs[i].origin]
          BY <1>0, <2>2, <4>1
        <5>2. QED
          BY <2>1, <4>1, <5>1
      <4>2. CASE i = new
        BY <1>1, <2>3, <4>2
      <4>3. QED
        BY <2>4, <4>1, <4>2
    <3>2. QED
      BY <3>1 DEF Numbering
<1>6. \A i \in Jobs : jobs[i].origin = i /\ jobs[i].at = generation
                      => /\ jobs[i].block < allocations + 1
                         /\ jobs[i].webhook = w /\ n # Undrawn => jobs[i].ordinal < n
  <2>1. SUFFICES ASSUME NEW i \in Jobs, jobs[i].origin = i, jobs[i].at = generation
                 PROVE  /\ jobs[i].block < allocations + 1
                        /\ jobs[i].webhook = w /\ n # Undrawn => jobs[i].ordinal < n
    OBVIOUS
  <2>2. jobs[i].block <= allocations /\ jobs[i].ordinal <= counters[jobs[i].webhook]
    BY <2>1 DEF Drawn, Numbering
  <2>3. /\ jobs[i].block \in Nat /\ allocations \in Nat
        /\ jobs[i].ordinal \in Nat /\ counters[w] \in Nat
    BY <1>0, <1>4
  <2>4. QED
    BY <1>3, <2>2, <2>3
<1>7. Distinct'
  <2>2. \A i \in Jobs : jobs[i].ordinal \in Nat
    BY <1>4
  <2>3. SUFFICES ASSUME NEW i \in Jobs', NEW k \in Jobs', i # k,
                        jobs'[i].origin = i, jobs'[k].origin = k,
                        jobs'[i].webhook = jobs'[k].webhook, jobs'[i].at = jobs'[k].at,
                        jobs'[i].ordinal # Undrawn, jobs'[k].ordinal # Undrawn
                 PROVE  jobs'[i].ordinal # jobs'[k].ordinal
    BY DEF Distinct, Redelivery
  <2>4. (i \in Jobs \/ i = new) /\ (k \in Jobs \/ k = new)
    BY <1>0 DEF new
  <2>5. CASE i \in Jobs /\ k \in Jobs
    <3>1. jobs'[i] = jobs[i] /\ jobs'[k] = jobs[k]
      BY <1>0, <2>5
    <3>2. QED
      BY <2>3, <2>5, <3>1 DEF Drawn, Distinct, Redelivery
  <2>6. CASE i \in Jobs /\ k = new
    <3>1. jobs'[i] = jobs[i]
      BY <1>0, <2>6
    <3>2. jobs[i].ordinal < n
      BY <1>1, <1>6, <2>3, <2>6, <3>1
    <3>3. jobs[i].ordinal \in Nat
      BY <2>2, <2>6
    <3>4. QED
      BY <1>1, <2>6, <3>1, <3>2, <3>3
  <2>7. CASE i = new /\ k \in Jobs
    <3>1. jobs'[k] = jobs[k]
      BY <1>0, <2>7
    <3>2. jobs[k].ordinal < n
      BY <1>1, <1>6, <2>3, <2>7, <3>1
    <3>3. jobs[k].ordinal \in Nat
      BY <2>2, <2>7
    <3>4. QED
      BY <1>1, <2>7, <3>1, <3>2, <3>3
  <2>8. QED
    BY <2>3, <2>4, <2>5, <2>6, <2>7
<1>8. BlocksFollowSchedule'
  <2>1. SUFFICES ASSUME NEW i \in Jobs', NEW k \in Jobs', i < k, jobs'[i].at = jobs'[k].at,
                        jobs'[i].origin = i, jobs'[k].origin = k
                 PROVE  jobs'[i].block < jobs'[k].block
    BY DEF BlocksFollowSchedule, Redelivery
  <2>2. i \in Jobs
    BY <1>0, <2>1 DEF new
  <2>3. CASE k \in Jobs
    BY <1>0, <2>1, <2>2, <2>3 DEF Drawn, BlocksFollowSchedule, Redelivery
  <2>4. CASE k = new
    BY <1>0, <1>1, <1>6, <2>1, <2>2, <2>4
  <2>5. QED
    BY <1>0, <2>3, <2>4 DEF new
<1>9. QED
  BY <1>5, <1>7, <1>8 DEF Drawn

\* A wait is over, and its emission draws the next ordinal: nothing of its
\* generation has it.
LEMMA DrawnFired ==
  ASSUME TypeOK, Drawn, NEW j \in Jobs, jobs[j].pc = "waiting", jobs[j].at = generation,
         Moves(j, "firing"),
         jobs'[j].ordinal = counters[jobs[j].webhook] + 1,
         counters' = [counters EXCEPT ![jobs[j].webhook] = @ + 1],
         UNCHANGED <<allocations, generation>>
  PROVE  Drawn'
<1> DEFINE w == jobs[j].webhook
           n == counters[w] + 1
<1>0. /\ Jobs' = Jobs /\ w \in Webhooks /\ counters[w] \in Nat
      /\ \A i \in Jobs : i # j => jobs'[i] = jobs[i]
      /\ jobs'[j].webhook = w /\ jobs'[j].at = generation /\ jobs'[j].origin = j
      /\ jobs'[j].block = jobs[j].block /\ jobs'[j].pc = "firing" /\ jobs'[j].ordinal = n
      /\ jobs[j].ordinal = Undrawn /\ jobs[j].origin = j /\ n # Undrawn
  <2>1. w \in Webhooks /\ counters[w] \in Nat
    BY JobFields DEF TypeOK
  <2>2. n # Undrawn
    BY <2>1 DEF Undrawn
  <2>3. jobs[j].ordinal = Undrawn /\ jobs[j].origin = j
    BY DEF Drawn, Numbering
  <2>4. QED
    BY <2>1, <2>2, <2>3 DEF Moves
<1>1. \A i \in Jobs : /\ jobs[i].webhook \in Webhooks /\ jobs[i].block \in Nat
                      /\ jobs[i].ordinal \in Nat /\ jobs[i].origin \in 1 .. i
                      /\ jobs[i].origin \in Jobs
  <2>1. Len(jobs) \in Nat /\ Jobs = 1 .. Len(jobs)
    BY DEF TypeOK, Jobs
  <2>2. \A i \in Jobs : jobs[i].origin \in 1 .. i
    BY DEF Drawn, Numbering
  <2>3. \A i \in Jobs : jobs[i].origin \in Jobs
    BY <2>1, <2>2
  <2>4. QED
    BY <2>2, <2>3, JobFields
<1>2. counters'[w] = n /\ \A v \in Webhooks : v # w => counters'[v] = counters[v]
  BY <1>0 DEF TypeOK
<1>3. \A v \in Webhooks : counters[v] \in Nat
  BY DEF TypeOK
<1>4. \A i \in Jobs : /\ jobs'[i].origin = jobs[i].origin /\ jobs'[i].at = jobs[i].at
                      /\ jobs'[i].webhook = jobs[i].webhook /\ jobs'[i].block = jobs[i].block
  BY <1>0
<1> HIDE DEF w, n
<1>5. Numbering'
  <2>1. ASSUME NEW i \in Jobs
        PROVE  LET e == jobs'[i]
                   first == jobs'[e.origin]
               IN /\ e.origin \in 1 .. i
                  /\ first.origin = e.origin
                  /\ e.at <= generation
                  /\ e.pc = "waiting" => e.ordinal = Undrawn /\ e.origin = i
                  /\ e.origin # i => /\ first.ordinal = e.ordinal
                                     /\ first.webhook = e.webhook
                                     /\ e.ordinal # Undrawn
                  /\ e.origin = i /\ e.at = generation =>
                       e.block <= allocations /\ e.ordinal <= counters'[e.webhook]
    <3>1. CASE i = j
      <4>1. /\ jobs[j].origin = j /\ jobs[j].at <= generation
            /\ jobs[j].block <= allocations /\ j \in 1 .. j
        BY <1>0, <1>1 DEF Drawn, Numbering
      <4>2. n <= counters'[w]
        BY <1>0, <1>2 DEF n
      <4>3. QED
        BY <1>0, <3>1, <4>1, <4>2
    <3>2. CASE i # j
      <4>1. jobs'[i] = jobs[i] /\ jobs'[jobs[i].origin].origin = jobs[jobs[i].origin].origin
        BY <1>0, <1>1, <1>4, <3>2
      <4>2. jobs[i].origin # i => jobs[i].origin # j
        BY <1>0 DEF Drawn, Numbering
      <4>3. jobs[i].origin # i => jobs'[jobs[i].origin] = jobs[jobs[i].origin]
        BY <1>0, <1>1, <4>2
      <4>4. jobs[i].ordinal <= counters[jobs[i].webhook]
            => jobs[i].ordinal <= counters'[jobs[i].webhook]
        <5>1. jobs[i].ordinal \in Nat /\ jobs[i].webhook \in Webhooks
          BY <1>1
        <5>2. CASE jobs[i].webhook = w
          BY <1>0, <1>2, <5>1, <5>2 DEF n
        <5>3. CASE jobs[i].webhook # w
          BY <1>2, <5>1, <5>3
        <5>4. QED
          BY <5>2, <5>3
      <4>5. QED
        BY <4>1, <4>3, <4>4 DEF Drawn, Numbering
    <3>3. QED
      BY <3>1, <3>2
  <2>2. QED
    BY <1>0, <2>1 DEF Numbering
<1>6. ASSUME NEW i \in Jobs, i # j, jobs[i].origin = i, jobs[i].at = generation,
             jobs[i].webhook = w
      PROVE  jobs[i].ordinal # n
  <2>1. jobs[i].ordinal <= counters[w] /\ jobs[i].ordinal \in Nat
    BY <1>1, <1>6 DEF Drawn, Numbering
  <2>2. QED
    BY <1>0, <2>1 DEF n
<1>7. Distinct'
  <2>1. SUFFICES ASSUME NEW i \in Jobs, NEW k \in Jobs, i # k,
                        jobs'[i].origin = i, jobs'[k].origin = k,
                        jobs'[i].webhook = jobs'[k].webhook, jobs'[i].at = jobs'[k].at,
                        jobs'[i].ordinal # Undrawn, jobs'[k].ordinal # Undrawn
                 PROVE  jobs'[i].ordinal # jobs'[k].ordinal
    BY <1>0 DEF Distinct, Redelivery
  <2>2. CASE i = j
    BY <1>0, <1>6, <2>1, <2>2
  <2>3. CASE k = j
    BY <1>0, <1>6, <2>1, <2>3
  <2>4. CASE i # j /\ k # j
    BY <1>0, <2>1, <2>4 DEF Drawn, Distinct, Redelivery
  <2>5. QED
    BY <2>2, <2>3, <2>4
<1>8. BlocksFollowSchedule'
  BY <1>0, <1>4 DEF Drawn, BlocksFollowSchedule, Redelivery
<1>9. QED
  BY <1>5, <1>7, <1>8 DEF Drawn

\* A redelivery draws nothing.
LEMMA DrawnRepeated ==
  ASSUME TypeOK, Drawn, NEW s \in Jobs, jobs[s].pc = "recorded",
         Joins("firing", jobs[s].webhook, jobs[s].ordinal, jobs[s].block, jobs[s].origin),
         UNCHANGED <<counters, allocations, generation>>
  PROVE  Drawn'
<1> DEFINE new == Len(jobs) + 1
<1>0. /\ Len(jobs) \in Nat /\ Jobs = 1 .. Len(jobs) /\ Jobs' = 1 .. new
      /\ generation \in Nat
      /\ \A i \in Jobs : jobs'[i] = jobs[i] /\ i # new
  BY DEF TypeOK, Joins
<1>1. /\ jobs'[new].pc = "firing" /\ jobs'[new].webhook = jobs[s].webhook
      /\ jobs'[new].at = generation /\ jobs'[new].ordinal = jobs[s].ordinal
      /\ jobs'[new].origin = jobs[s].origin
  BY DEF Joins
<1>2. \A i \in Jobs : jobs[i].origin \in 1 .. i /\ jobs[i].origin \in Jobs
  BY <1>0 DEF Drawn, Numbering
<1>3. jobs[s].ordinal # Undrawn
  BY DEF TypeOK, Jobs
<1>4. \A i \in Jobs' : i \in Jobs \/ i = new
  BY <1>0
<1>5. jobs'[new].origin \in 1 .. new /\ jobs'[new].origin # new
  BY <1>0, <1>1, <1>2
<1> HIDE DEF new
<1>6. Numbering'
  <2>1. ASSUME NEW i \in Jobs'
        PROVE  LET e == jobs'[i]
                   first == jobs'[e.origin]
               IN /\ e.origin \in 1 .. i
                  /\ first.origin = e.origin
                  /\ e.at <= generation
                  /\ e.pc = "waiting" => e.ordinal = Undrawn /\ e.origin = i
                  /\ e.origin # i => /\ first.ordinal = e.ordinal
                                     /\ first.webhook = e.webhook
                                     /\ e.ordinal # Undrawn
                  /\ e.origin = i /\ e.at = generation =>
                       e.block <= allocations /\ e.ordinal <= counters[e.webhook]
    <3>1. CASE i \in Jobs
      <4>1. jobs'[i] = jobs[i] /\ jobs'[jobs[i].origin] = jobs[jobs[i].origin]
        BY <1>0, <1>2, <3>1
      <4>2. QED
        BY <3>1, <4>1 DEF Drawn, Numbering
    <3>2. CASE i = new
      <4>1. jobs'[jobs'[new].origin] = jobs[jobs[s].origin]
        BY <1>0, <1>1, <1>2
      <4>2. /\ jobs[jobs[s].origin].origin = jobs[s].origin
            /\ jobs[jobs[s].origin].ordinal = jobs[s].ordinal
            /\ jobs[jobs[s].origin].webhook = jobs[s].webhook
        BY DEF Drawn, Numbering
      <4>3. generation <= generation
        BY <1>0
      <4>4. QED
        BY <1>1, <1>3, <1>5, <3>2, <4>1, <4>2, <4>3
    <3>3. QED
      BY <1>4, <3>1, <3>2
  <2>2. QED
    BY <2>1 DEF Numbering
<1>7. \A i \in Jobs' : jobs'[i].origin = i => i \in Jobs /\ jobs'[i] = jobs[i]
  BY <1>0, <1>4, <1>5
<1>8. Distinct'
  BY <1>7 DEF Drawn, Distinct, Redelivery
<1>9. BlocksFollowSchedule'
  BY <1>7 DEF Drawn, BlocksFollowSchedule, Redelivery
<1>10. QED
  BY <1>6, <1>8, <1>9 DEF Drawn

\* A reset starts a generation, of which nothing has been drawn.
LEMMA DrawnReset ==
  ASSUME TypeOK, Drawn, UNCHANGED jobs, generation' = generation + 1
  PROVE  Drawn'
<1>1. \A i \in Jobs : jobs[i].at \in Nat /\ generation \in Nat
  BY JobFields DEF TypeOK
<1>2. \A i \in Jobs : jobs[i].at <= generation' /\ jobs[i].at # generation'
  BY <1>1 DEF Drawn, Numbering
<1>3. Numbering'
  BY <1>2 DEF Drawn, Numbering, Jobs
<1>4. Distinct' /\ BlocksFollowSchedule'
  BY DEF Drawn, Distinct, BlocksFollowSchedule, Redelivery, Jobs
<1>5. QED
  BY <1>3, <1>4 DEF Drawn

\* No step draws an ordinal or a block twice in a generation.
LEMMA DrawnStep ==
  ASSUME TypeOK, Drawn, LogPoints, [Next]_vars
  PROVE  Drawn'
<1>1. ASSUME NEW w \in Webhooks, Request(w)
      PROVE  Drawn'
  <2>1. CASE ScheduleDelayed(w)
    <3>1. Undrawn \in Nat
      BY DEF Undrawn
    <3>2. QED
      BY <2>1, <3>1, ScheduleEffect, DrawnScheduled
  <2>2. CASE MayEmit /\ Fire(w)
    <3>1. counters[w] + 1 \in Nat
      BY DEF TypeOK
    <3>2. QED
      BY <2>2, <3>1, FireEffect, DrawnScheduled
  <2>3. QED
    BY <1>1, <2>1, <2>2 DEF Request
<1>2. ASSUME NEW j \in Jobs, StepOfJob(j)
      PROVE  Drawn'
  <2>1. CASE Wake(j)
    <3>1. jobs[j].pc = "waiting" /\ UNCHANGED <<allocations, generation>>
      BY <2>1 DEF Wake
    <3>2. CASE Moves(j, "gone") /\ jobs'[j].ordinal = jobs[j].ordinal /\ counters' = counters
      BY <3>1, <3>2, DrawnMoves
    <3>3. CASE /\ jobs[j].at = generation /\ Moves(j, "firing")
               /\ jobs'[j].ordinal = counters[jobs[j].webhook] + 1
               /\ counters' = [counters EXCEPT ![jobs[j].webhook] = @ + 1]
      BY <3>1, <3>3, DrawnFired
    <3>4. QED
      BY <2>1, <3>2, <3>3, WakeEffect
  <2>2. CASE \E to \in Places : Resolve(j, to)
    BY <2>2, ResolveEffect, DrawnMoves
  <2>3. CASE Break(j)
    BY <2>3, BreakEffect, DrawnMoves
  <2>4. CASE \E a \in Answers : Attempt(j, a)
    BY <2>4, AttemptEffect, DrawnMoves
  <2>5. CASE Retry(j)
    BY <2>5, RetryEffect, DrawnMoves
  <2>6. QED
    BY <1>2, <2>1, <2>2, <2>3, <2>4, <2>5 DEF StepOfJob
<1>3. ASSUME NEW n \in DOMAIN log, Redeliver(n)
      PROVE  Drawn'
  BY <1>3, RedeliverEffect, DrawnRepeated
<1>4. CASE Other
  <2>1. CASE Reset
    BY <2>1, DrawnReset DEF Reset, NextGeneration
  <2>2. CASE ~Reset
    <3>1. UNCHANGED <<jobs, counters, allocations, generation>>
      BY <1>4, <2>2 DEF Other, ClearDeliveries, Close, Settled, vars
    <3>2. Jobs' = Jobs
      BY <3>1 DEF Jobs
    <3>3. QED
      BY <3>1, <3>2, DrawnKept
  <2>3. QED
    BY <2>1, <2>2
<1>5. QED
  BY <1>1, <1>2, <1>3, <1>4, Steps

-----------------------------------------------------------------------------
\* A record tells what became of a delivery with these answers.
Tells(record, answers) ==
  LET last == answers[Len(answers)] IN
  /\ record.attempts = Len(answers)
  /\ \A i \in 1 .. Len(answers) - 1 : answers[i] = "again"
  /\ record.outcome = "delivered" <=> answers # << >> /\ last = "ok"
  /\ record.outcome = "failed" => Len(answers) = Attempts \/ last = "refused"

\* LogTruthful, record by record.
LEMMA TruthfulTells ==
  LogTruthful <=> \A n \in DOMAIN log : Tells(log[n], jobs[log[n].job].answers)
BY DEF LogTruthful, Tells

\* The same after a step.
LEMMA TruthfulTellsNext ==
  (\A n \in DOMAIN log' : Tells(log'[n], jobs'[log'[n].job].answers)) => LogTruthful'
BY DEF LogTruthful, Tells

\* What was recorded stays as it was, and the log has no record but those it had
\* and one of a job that has been recorded and of which it tells.
LEMMA LogKept ==
  ASSUME Answered,
         \A i \in Jobs : jobs[i].pc = "recorded" =>
            i \in Jobs' /\ jobs'[i].pc = "recorded" /\ jobs'[i].answers = jobs[i].answers,
         \A n \in DOMAIN log' :
            \/ \E m \in DOMAIN log : log'[n] = log[m]
            \/ /\ log'[n].job \in Jobs' /\ jobs'[log'[n].job].pc = "recorded"
               /\ Tells(log'[n], jobs'[log'[n].job].answers)
  PROVE  LogPoints' /\ LogTruthful'
<1>1. ASSUME NEW n \in DOMAIN log'
      PROVE  /\ log'[n].job \in Jobs' /\ jobs'[log'[n].job].pc = "recorded"
             /\ Tells(log'[n], jobs'[log'[n].job].answers)
  <2>1. CASE \E m \in DOMAIN log : log'[n] = log[m]
    <3>1. PICK m \in DOMAIN log : log'[n] = log[m]
      BY <2>1
    <3>2. log[m].job \in Jobs /\ jobs[log[m].job].pc = "recorded"
      BY DEF Answered, LogPoints
    <3>3. Tells(log[m], jobs[log[m].job].answers)
      BY TruthfulTells DEF Answered
    <3>4. QED
      BY <3>1, <3>2, <3>3
  <2>2. QED
    BY <2>1
<1>2. LogPoints'
  BY <1>1 DEF LogPoints
<1>3. LogTruthful'
  BY <1>1, TruthfulTellsNext
<1>4. QED
  BY <1>2, <1>3

\* A job that moves and has not been recorded disturbs no record.
LEMMA RecordsStay ==
  ASSUME NEW j \in Jobs, NEW p, Moves(j, p), jobs[j].pc # "recorded"
  PROVE  \A i \in Jobs : jobs[i].pc = "recorded" =>
            i \in Jobs' /\ jobs'[i].pc = "recorded" /\ jobs'[i].answers = jobs[i].answers
BY DEF Moves

\* The others are answered as before.
LEMMA AnsweringMoves ==
  ASSUME Answering, NEW j \in Jobs, NEW p, Moves(j, p),
         p \in {"waiting", "firing"} => jobs'[j].answers = << >>,
         p \in {"sending", "backoff"} =>
            /\ Len(jobs'[j].answers) < Attempts
            /\ \A i \in 1 .. Len(jobs'[j].answers) : jobs'[j].answers[i] = "again"
  PROVE  Answering'
<1>1. SUFFICES ASSUME NEW k \in Jobs
               PROVE  /\ jobs'[k].pc \in {"waiting", "firing"} => jobs'[k].answers = << >>
                      /\ jobs'[k].pc \in {"sending", "backoff"} =>
                           /\ Len(jobs'[k].answers) < Attempts
                           /\ \A i \in 1 .. Len(jobs'[k].answers) : jobs'[k].answers[i] = "again"
  BY DEF Answering, Moves
<1>2. CASE k = j
  BY <1>2 DEF Moves
<1>3. CASE k # j
  BY <1>3 DEF Answering, Moves
<1>4. QED
  BY <1>2, <1>3

\* A delivery with nowhere to go, nothing to send or no attempt to make.
LEMMA TellsUnsent ==
  ASSUME NEW j, NEW outcome \in {"unresolved", "captured", "failed"},
         outcome = "failed" => Attempts = 0
  PROVE  Tells([job |-> j, outcome |-> outcome, attempts |-> Len(<< >>)], << >>)
<1>1. Len(<< >>) = 0
  OBVIOUS
<1>2. outcome # "delivered"
  OBVIOUS
<1>3. QED
  BY <1>1, <1>2 DEF Tells

\* The last attempt of a delivery.
LEMMA TellsSent ==
  ASSUME NEW j, NEW s \in Seq(Answers), NEW a \in Answers,
         Len(s) < Attempts, \A i \in 1 .. Len(s) : s[i] = "again",
         ~(a = "again" /\ Len(Append(s, a)) < Attempts)
  PROVE  Tells([job |-> j, outcome |-> IF a = "ok" THEN "delivered" ELSE "failed",
                attempts |-> Len(Append(s, a))], Append(s, a))
<1> DEFINE answers == Append(s, a)
           outcome == IF a = "ok" THEN "delivered" ELSE "failed"
<1>1. /\ answers \in Seq(Answers) /\ Len(answers) = Len(s) + 1 /\ answers[Len(answers)] = a
      /\ \A i \in 1 .. Len(s) : answers[i] = s[i]
      /\ Len(s) \in Nat
  BY AppendProperties
<1>2. answers # << >>
  <2>1. Len(answers) # 0
    BY <1>1
  <2>2. Len(<< >>) = 0
    OBVIOUS
  <2> HIDE DEF answers
  <2>3. QED
    BY <2>1, <2>2
<1>3. \A i \in 1 .. Len(answers) - 1 : answers[i] = "again"
  BY <1>1
<1>4. outcome = "delivered" <=> a = "ok"
  OBVIOUS
<1>5. outcome = "failed" => Len(answers) = Attempts \/ a = "refused"
  <2>1. CASE a = "again"
    <3>1. ~(Len(answers) < Attempts) /\ Len(s) < Attempts
      BY <2>1
    <3>2. Len(answers) = Attempts
      BY <1>1, <3>1
    <3>3. QED
      BY <3>2
  <2>2. CASE a # "again"
    BY <2>2 DEF Answers
  <2>3. QED
    BY <2>1, <2>2
<1> DEFINE r == [job |-> j, outcome |-> outcome, attempts |-> Len(answers)]
<1>6. r.outcome = outcome /\ r.attempts = Len(answers)
  OBVIOUS
<1> HIDE DEF answers, outcome, r
<1>7. Tells(r, answers)
  BY <1>1, <1>2, <1>3, <1>4, <1>5, <1>6 DEF Tells
<1>8. QED
  BY <1>7 DEF r, answers, outcome

\* A job is recorded.
LEMMA RecordAnswered ==
  ASSUME TypeOK, EvictionsHonest, Answered, NEW j \in Jobs, jobs[j].pc # "recorded",
         Moves(j, "recorded"), NEW outcome \in RecordedOutcomes, NEW answers \in Seq(Answers),
         jobs'[j].answers = answers, Record(j, outcome, answers),
         Tells([job |-> j, outcome |-> outcome, attempts |-> Len(answers)], answers)
  PROVE  Answered' /\ EvictionsHonest'
<1>1. \A n \in DOMAIN log' :
        \/ \E m \in DOMAIN log : log'[n] = log[m]
        \/ log'[n] = [job |-> j, outcome |-> outcome, attempts |-> Len(answers)]
  BY Recorded
<1>2. \A n \in DOMAIN log' :
        \/ \E m \in DOMAIN log : log'[n] = log[m]
        \/ /\ log'[n].job \in Jobs' /\ jobs'[log'[n].job].pc = "recorded"
           /\ Tells(log'[n], jobs'[log'[n].job].answers)
  BY <1>1 DEF Moves
<1>3. LogPoints' /\ LogTruthful'
  BY <1>2, RecordsStay, LogKept
<1>4. Answering'
  BY AnsweringMoves DEF Answered
<1>5. QED
  BY <1>3, <1>4, Recorded DEF Answered

\* A job moves on, and the log stays.
LEMMA MoveAnswered ==
  ASSUME EvictionsHonest, Answered, NEW j \in Jobs, NEW p, Moves(j, p),
         jobs[j].pc # "recorded", UNCHANGED <<log, evicted, logged>>,
         p \in {"waiting", "firing"} => jobs'[j].answers = << >>,
         p \in {"sending", "backoff"} =>
            /\ Len(jobs'[j].answers) < Attempts
            /\ \A i \in 1 .. Len(jobs'[j].answers) : jobs'[j].answers[i] = "again"
  PROVE  Answered' /\ EvictionsHonest'
<1>1. Answering'
  BY AnsweringMoves DEF Answered
<1>2. LogPoints' /\ LogTruthful'
  BY RecordsStay, LogKept
<1>3. EvictionsHonest'
  BY DEF EvictionsHonest
<1>4. QED
  BY <1>1, <1>2, <1>3 DEF Answered

\* A job more, and the log stays.
LEMMA JoinAnswered ==
  ASSUME TypeOK, EvictionsHonest, Answered, NEW p \in {"waiting", "firing"}, NEW w, NEW n,
         NEW block, NEW origin, Joins(p, w, n, block, origin), UNCHANGED <<log, evicted, logged>>
  PROVE  Answered' /\ EvictionsHonest'
<1>0. Len(jobs) \in Nat
  BY DEF TypeOK
<1>1. \A i \in Jobs : i \in Jobs' /\ jobs'[i] = jobs[i]
  BY <1>0 DEF Joins
<1>2. LogPoints' /\ LogTruthful'
  BY <1>1, LogKept
<1>3. Answering'
  <2>1. SUFFICES ASSUME NEW k \in Jobs'
                 PROVE  /\ jobs'[k].pc \in {"waiting", "firing"} => jobs'[k].answers = << >>
                        /\ jobs'[k].pc \in {"sending", "backoff"} =>
                             /\ Len(jobs'[k].answers) < Attempts
                             /\ \A i \in 1 .. Len(jobs'[k].answers) : jobs'[k].answers[i] = "again"
    BY DEF Answering
  <2>2. CASE k \in Jobs
    BY <1>1, <2>2 DEF Answered, Answering
  <2>3. CASE k = Len(jobs) + 1
    BY <2>3 DEF Joins
  <2>4. QED
    BY <1>0, <2>2, <2>3 DEF Joins
<1>4. QED
  BY <1>2, <1>3 DEF Answered, EvictionsHonest

\* No step leaves a record that does not tell what happened, or a wrong count.
LEMMA AnsweredStep ==
  ASSUME TypeOK, EvictionsHonest, Answered, [Next]_vars
  PROVE  Answered' /\ EvictionsHonest'
<1>1. ASSUME NEW w \in Webhooks, Request(w)
      PROVE  Answered' /\ EvictionsHonest'
  BY <1>1, ScheduleEffect, FireEffect, JoinAnswered DEF Request
<1>2. ASSUME NEW j \in Jobs, StepOfJob(j)
      PROVE  Answered' /\ EvictionsHonest'
  <2>0. /\ jobs[j].pc \in {"waiting", "firing"} => jobs[j].answers = << >>
        /\ jobs[j].pc \in {"sending", "backoff"} =>
             /\ Len(jobs[j].answers) < Attempts
             /\ \A i \in 1 .. Len(jobs[j].answers) : jobs[j].answers[i] = "again"
    BY DEF Answered, Answering
  <2>1. CASE Wake(j)
    <3>1. jobs[j].pc = "waiting" /\ UNCHANGED <<log, evicted, logged>>
      BY <2>1 DEF Wake
    <3>2. QED
      BY <2>0, <2>1, <3>1, WakeEffect, MoveAnswered
  <2>2. CASE \E to \in Places : Resolve(j, to)
    <3>1. PICK to \in Places : Resolve(j, to)
      BY <2>2
    <3>2. jobs[j].pc = "firing" /\ jobs'[j].answers = << >> /\ << >> \in Seq(Answers)
      BY <2>0, <3>1, ResolveEffect
    <3>3. CASE Moves(j, "sending") /\ UNCHANGED <<log, evicted, logged>> /\ Attempts # 0
      <4>1. Len(<< >>) < Attempts /\ \A i \in 1 .. Len(<< >>) : << >>[i] = "again"
        BY <3>3
      <4>2. QED
        BY <3>2, <3>3, <4>1, MoveAnswered
    <3>4. CASE /\ Moves(j, "recorded")
               /\ \E outcome \in {"unresolved", "captured", "failed"} :
                    /\ outcome = "failed" => Attempts = 0
                    /\ Record(j, outcome, << >>)
      <4>1. PICK outcome \in {"unresolved", "captured", "failed"} :
              /\ outcome = "failed" => Attempts = 0
              /\ Record(j, outcome, << >>)
        BY <3>4
      <4>2. Tells([job |-> j, outcome |-> outcome, attempts |-> Len(<< >>)], << >>)
        BY <4>1, TellsUnsent
      <4>3. outcome \in RecordedOutcomes
        BY DEF RecordedOutcomes
      <4>4. QED
        BY <3>2, <3>4, <4>1, <4>2, <4>3, RecordAnswered
    <3>5. QED
      BY <3>1, <3>3, <3>4, ResolveEffect
  <2>3. CASE Break(j)
    BY <2>3, BreakEffect, MoveAnswered
  <2>4. CASE \E a \in Answers : Attempt(j, a)
    <3>1. PICK a \in Answers : Attempt(j, a)
      BY <2>4
    <3> DEFINE s == jobs[j].answers
               answers == Append(s, a)
               outcome == IF a = "ok" THEN "delivered" ELSE "failed"
    <3>2. /\ jobs[j].pc = "sending" /\ s \in Seq(Answers) /\ answers \in Seq(Answers)
          /\ jobs'[j].answers = answers
      BY <3>1, AttemptEffect, JobFields
    <3>3. Len(s) < Attempts /\ \A i \in 1 .. Len(s) : s[i] = "again"
      BY <2>0, <3>2
    <3>4. CASE /\ Moves(j, "backoff") /\ UNCHANGED <<log, evicted, logged>>
               /\ a = "again" /\ Len(answers) < Attempts
      <4>1. \A i \in 1 .. Len(answers) : answers[i] = "again"
        BY <3>2, <3>3, <3>4, AppendProperties
      <4> HIDE DEF s, answers
      <4>2. QED
        BY <3>2, <3>4, <4>1, MoveAnswered
    <3>5. CASE /\ Moves(j, "recorded")
               /\ ~(a = "again" /\ Len(answers) < Attempts)
               /\ Record(j, outcome, answers)
      <4>1. Tells([job |-> j, outcome |-> outcome, attempts |-> Len(answers)], answers)
        BY <3>2, <3>3, <3>5, TellsSent
      <4>2. outcome \in RecordedOutcomes
        BY DEF RecordedOutcomes
      <4> HIDE DEF s, answers, outcome
      <4>3. QED
        BY <3>2, <3>5, <4>1, <4>2, RecordAnswered
    <3>6. QED
      BY <3>1, <3>4, <3>5, AttemptEffect
  <2>5. CASE Retry(j)
    BY <2>0, <2>5, RetryEffect, MoveAnswered
  <2>6. QED
    BY <1>2, <2>1, <2>2, <2>3, <2>4, <2>5 DEF StepOfJob
<1>3. ASSUME NEW n \in DOMAIN log, Redeliver(n)
      PROVE  Answered' /\ EvictionsHonest'
  <2>1. LogPoints
    BY DEF Answered
  <2>2. QED
    BY <1>3, <2>1, RedeliverEffect, JoinAnswered
<1>4. CASE Other
  <2>0. UNCHANGED jobs
    BY <1>4 DEF Other, ClearDeliveries, Reset, Close, Settled, vars
  <2>1. Answering'
    BY <2>0 DEF Answered, Answering, Jobs
  <2>2. CASE Cleared
    <3>1. log' = << >> /\ Len(log') = 0 /\ logged' = 0 /\ evicted' = 0
      BY <2>2 DEF Cleared
    <3>2. LogPoints' /\ LogTruthful'
      BY <3>1 DEF LogPoints, LogTruthful
    <3>3. EvictionsHonest'
      BY <3>1 DEF EvictionsHonest
    <3>4. QED
      BY <2>1, <3>2, <3>3 DEF Answered
  <2>3. CASE UNCHANGED <<log, evicted, logged>>
    <3>1. LogPoints' /\ LogTruthful'
      BY <2>0, <2>3 DEF Answered, LogPoints, LogTruthful, Jobs
    <3>2. EvictionsHonest'
      BY <2>3 DEF EvictionsHonest
    <3>3. QED
      BY <2>1, <3>1, <3>2 DEF Answered
  <2>4. QED
    BY <1>4, <2>2, <2>3 DEF Other, ClearDeliveries, Reset, Close, Settled, vars
<1>5. QED
  BY <1>1, <1>2, <1>3, <1>4, Steps

-----------------------------------------------------------------------------
\* What is left.
LEMMA DrainedStep ==
  ASSUME TypeOK, LogPoints, Drained, [Next]_vars
  PROVE  Drained'
<1>1. ASSUME NEW w \in Webhooks, Request(w)
      PROVE  Drained'
  <2>1. ~closed /\ drained' = drained
    BY <1>1, ScheduleEffect, FireEffect DEF Request
  <2>2. QED
    BY <2>1 DEF Drained
<1>2. ASSUME NEW j \in Jobs, StepOfJob(j)
      PROVE  Drained'
  <2>1. jobs[j].pc \in {"waiting", "firing", "sending", "backoff"} /\ drained' = drained
    BY <1>2 DEF StepOfJob, Wake, Resolve, Break, Attempt, Retry
  <2>2. ~drained
    BY <2>1 DEF Drained, Pending, Active
  <2>3. QED
    BY <2>1, <2>2 DEF Drained
<1>3. ASSUME NEW n \in DOMAIN log, Redeliver(n)
      PROVE  Drained'
  <2>1. ~closed /\ drained' = drained
    BY <1>3, RedeliverEffect
  <2>2. QED
    BY <2>1 DEF Drained
<1>4. CASE Other
  <2>1. UNCHANGED jobs
    BY <1>4 DEF Other, ClearDeliveries, Reset, Close, Settled, vars
  <2>2. Pending' = Pending
    BY <2>1 DEF Pending, Active, Jobs
  <2>3. CASE Settled
    BY <2>2, <2>3 DEF Settled, Drained
  <2>4. CASE ~Settled
    <3>1. drained' = drained /\ (closed => closed')
      BY <1>4, <2>4 DEF Other, ClearDeliveries, Reset, Close, vars
    <3>2. QED
      BY <2>2, <3>1 DEF Drained
  <2>5. QED
    BY <2>3, <2>4
<1>5. QED
  BY <1>1, <1>2, <1>3, <1>4, Steps

-----------------------------------------------------------------------------
\* A step that leaves the dropped jobs as they are, opens nothing again and does
\* not turn the generation back keeps them dropped.
LEMMA DroppedFrame ==
  ASSUME TypeOK, Dropped, dropped' = dropped, closed => closed', generation' = generation,
         \A j \in dropped : /\ j \in Jobs' /\ jobs'[j].at = jobs[j].at
                            /\ jobs'[j].ordinal = jobs[j].ordinal
                            /\ jobs'[j].pc \in {jobs[j].pc, "gone"}
  PROVE  Dropped'
BY DEF Dropped

\* What is dropped, a reset and a close add to; of the others only the end of its
\* wait moves a dropped job, and that finds it invalidated.
LEMMA DroppedStep ==
  ASSUME TypeOK, LogPoints, Numbering, Dropped, [Next]_vars
  PROVE  Dropped'
<1>0. /\ Jobs = 1 .. Len(jobs) /\ Len(jobs) \in Nat /\ generation \in Nat
      /\ \A j \in Jobs : jobs[j].at \in Nat /\ jobs[j].at <= generation
  BY JobFields DEF TypeOK, Jobs, Numbering
<1>1. ASSUME NEW w \in Webhooks, Request(w)
      PROVE  Dropped'
  <2>1. /\ UNCHANGED <<generation, closed, dropped>>
        /\ \A i \in Jobs : i \in Jobs' /\ jobs'[i] = jobs[i]
    BY <1>1, ScheduleEffect, FireEffect DEF Request, Joins
  <2>2. QED
    BY <2>1, DroppedFrame DEF Dropped
<1>2. ASSUME NEW j \in Jobs, StepOfJob(j)
      PROVE  Dropped'
  <2>0. UNCHANGED <<generation, closed, dropped>>
    BY <1>2 DEF StepOfJob, Wake, Resolve, Break, Attempt, Retry
  <2>1. CASE j \in dropped
    <3>1. jobs[j].pc \in {"waiting", "gone"}
      BY <2>1 DEF Dropped
    <3>2. Wake(j) /\ jobs[j].pc = "waiting"
      BY <1>2, <3>1 DEF StepOfJob, Wake, Resolve, Break, Attempt, Retry
    <3>3. closed \/ jobs[j].at < generation
      BY <2>1, <3>2 DEF Dropped
    <3>4. Moves(j, "gone") /\ jobs'[j].ordinal = jobs[j].ordinal
      BY <1>0, <3>2, <3>3, WakeEffect
    <3>5. ASSUME NEW i \in dropped
          PROVE  /\ i \in Jobs' /\ jobs'[i].at = jobs[i].at
                 /\ jobs'[i].ordinal = jobs[i].ordinal
                 /\ jobs'[i].pc \in {jobs[i].pc, "gone"}
      BY <3>4 DEF Moves, Dropped
    <3>6. QED
      BY <2>0, <3>5, DroppedFrame
  <2>2. CASE j \notin dropped
    <3>1. \E p \in PC : Moves(j, p)
      BY <1>2, WakeEffect, ResolveEffect, BreakEffect, AttemptEffect, RetryEffect
         DEF StepOfJob, PC
    <3>2. \A i \in dropped : i \in Jobs' /\ jobs'[i] = jobs[i]
      BY <2>2, <3>1 DEF Moves, Dropped
    <3>3. QED
      BY <2>0, <3>2, DroppedFrame
  <2>3. QED
    BY <2>1, <2>2
<1>3. ASSUME NEW n \in DOMAIN log, Redeliver(n)
      PROVE  Dropped'
  <2>1. /\ UNCHANGED <<generation, closed, dropped>>
        /\ \A i \in Jobs : i \in Jobs' /\ jobs'[i] = jobs[i]
    BY <1>3, RedeliverEffect DEF Joins
  <2>2. QED
    BY <2>1, DroppedFrame DEF Dropped
<1>4. CASE Other
  <2>1. jobs' = jobs /\ Jobs' = Jobs
    BY <1>4 DEF Other, ClearDeliveries, Reset, Close, Settled, vars, Jobs
  <2>2. ASSUME NEW j \in Waiting PROVE j \in Jobs /\ jobs[j].ordinal = Undrawn
    BY DEF Waiting, Numbering
  <2>3. CASE Reset
    <3>1. generation' = generation + 1 /\ closed' = closed /\ dropped' = dropped \cup Waiting
      BY <2>3 DEF Reset, NextGeneration
    <3>2. \A j \in Jobs : jobs[j].at < generation'
      BY <1>0, <3>1
    <3>3. QED
      BY <2>1, <2>2, <3>1, <3>2 DEF Dropped, Waiting
  <2>4. CASE Close
    <3>1. closed' /\ dropped' = dropped \cup Waiting
      BY <2>4 DEF Close
    <3>2. QED
      BY <2>1, <2>2, <3>1 DEF Dropped, Waiting
  <2>5. CASE ClearDeliveries \/ Settled \/ UNCHANGED vars
    <3>1. UNCHANGED <<generation, closed, dropped>>
      BY <2>5 DEF ClearDeliveries, Settled, vars
    <3>2. QED
      BY <2>1, <3>1 DEF Dropped
  <2>6. QED
    BY <1>4, <2>3, <2>4, <2>5 DEF Other
<1>5. QED
  BY <1>1, <1>2, <1>3, <1>4, Steps

-----------------------------------------------------------------------------
\* The invariant holds at the start,
LEMMA Initially == Init => IInv
<1> SUFFICES ASSUME Init
             PROVE  IInv
  OBVIOUS
<1>0. jobs = << >> /\ Len(jobs) = 0 /\ Jobs = {} /\ log = << >> /\ Len(log) = 0 /\ DOMAIN log = {}
  BY DEF Init, Jobs
<1>1. injected \in BOOLEAN /\ captureOnly \in BOOLEAN
  <2>1. PICK mode \in Modes : injected = mode[1] /\ captureOnly = mode[2]
    BY DEF Init
  <2>2. mode \in BOOLEAN \X BOOLEAN
    BY ModesAssumption
  <2>3. mode[1] \in BOOLEAN /\ mode[2] \in BOOLEAN
    BY <2>2, Zenon
  <2>4. QED
    BY <2>1, <2>3, Zenon
<1>2. JobsOK
  BY <1>0 DEF JobsOK
<1>3. /\ counters \in [Webhooks -> Nat] /\ allocations \in Nat
      /\ generation \in 0 .. MaxResets
      /\ log \in Seq(Delivery)
      /\ evicted \in Nat /\ logged \in Nat
      /\ dropped = {}
  BY <1>0 DEF Init
<1>4. closed \in BOOLEAN /\ drained \in BOOLEAN
  BY DEF Init
<1>5. TypeOK
  BY <1>1, <1>2, <1>3, <1>4 DEF TypeOK, JobsOK
<1>6. Drawn
  BY <1>0 DEF Drawn, Numbering, Distinct, BlocksFollowSchedule
<1>7. Answered
  BY <1>0 DEF Answered, Answering, LogPoints, LogTruthful
<1>8. EvictionsHonest
  BY <1>0 DEF Init, EvictionsHonest
<1>9. Drained /\ Dropped
  BY <1>3 DEF Init, Drained, Dropped
<1>10. QED
  BY <1>5, <1>6, <1>7, <1>8, <1>9 DEF IInv

\* is kept by every step,
LEMMA Inductive == IInv /\ [Next]_vars => IInv'
<1> SUFFICES ASSUME IInv, [Next]_vars
             PROVE  IInv'
  OBVIOUS
<1>0. /\ TypeOK /\ Drawn /\ Answered /\ LogPoints /\ EvictionsHonest
      /\ Drained /\ Dropped
  BY DEF IInv, Answered
<1>1. TypeOK'
  BY <1>0, Steps, RequestTypes, JobTypes, RedeliverTypes, OtherTypes
<1>2. Drawn'
  BY <1>0, DrawnStep
<1>3. Answered' /\ EvictionsHonest'
  BY <1>0, AnsweredStep
<1>4. Drained'
  BY <1>0, DrainedStep
<1>5. Dropped'
  BY <1>0, DroppedStep DEF Drawn
<1>6. QED
  BY <1>1, <1>2, <1>3, <1>4, <1>5 DEF IInv

\* and so it holds throughout.
LEMMA Invariance == Spec => []IInv
BY Initially, Inductive, PTL DEF Spec

\* The jobs, the log and the counts have their types in every behaviour.
THEOREM TypeCorrect == Spec => []TypeOK
<1>1. IInv => TypeOK
  BY DEF IInv
<1>2. QED
  BY <1>1, Invariance, PTL

\* Two records of one id and one generation carry the bytes of one emission
\* (docs/webhooks.md): ids may repeat across a reset, never within a generation.
THEOREM OneIdOneEmission == Spec => []IdsIdentify
<1>1. IInv => IdsIdentify
  <2>1. SUFFICES ASSUME IInv, NEW m \in DOMAIN log, NEW n \in DOMAIN log,
                        Id(log[m].job) = Id(log[n].job),
                        jobs[jobs[log[m].job].origin].at = jobs[jobs[log[n].job].origin].at
                 PROVE  jobs[log[m].job].origin = jobs[log[n].job].origin
    BY DEF IdsIdentify
  <2>2. ASSUME NEW k \in DOMAIN log
        PROVE  LET e == jobs[log[k].job]
                   first == jobs[e.origin]
               IN /\ e.origin \in Jobs /\ ~Redelivery(e.origin)
                  /\ first.webhook = e.webhook /\ first.ordinal = e.ordinal
                  /\ e.ordinal # Undrawn
    <3>1. log[k].job \in Jobs /\ jobs[log[k].job].pc = "recorded"
      BY <2>1 DEF IInv, Answered, LogPoints
    <3>2. jobs[log[k].job].ordinal # Undrawn
      BY <2>1, <3>1 DEF IInv, TypeOK, Jobs
    <3>3. Jobs = 1 .. Len(jobs) /\ Len(jobs) \in Nat
      BY <2>1 DEF IInv, TypeOK, Jobs
    <3>4. jobs[log[k].job].origin \in 1 .. log[k].job
      BY <2>1, <3>1 DEF IInv, Drawn, Numbering
    <3>5. jobs[log[k].job].origin \in Jobs
      BY <3>1, <3>3, <3>4
    <3>6. QED
      BY <2>1, <3>1, <3>2, <3>5 DEF IInv, Drawn, Numbering, Redelivery
  <2>3. /\ jobs[log[m].job].webhook = jobs[log[n].job].webhook
        /\ jobs[log[m].job].ordinal = jobs[log[n].job].ordinal
    BY <2>1 DEF Id
  <2>4. QED
    BY <2>1, <2>2, <2>3 DEF IInv, Drawn, Distinct
<1>2. QED
  BY <1>1, Invariance, PTL

\* A record of the log tells what its attempts came back with (deliver.ts).
THEOREM LogTells == Spec => []LogTruthful
<1>1. IInv => LogTruthful
  BY DEF IInv, Answered
<1>2. QED
  BY <1>1, Invariance, PTL

\* The eviction count is the number of records the log has lost since it was last
\* cleared (createDeliveryLog).
THEOREM EvictionsCounted == Spec => []EvictionsHonest
<1>1. IInv => EvictionsHonest
  BY DEF IInv
<1>2. QED
  BY <1>1, Invariance, PTL

\* The virtual clock follows the order of the schedule in each generation
\* (createVirtualClock.allocate).
THEOREM ClockFollows == Spec => []BlocksFollowSchedule
<1>1. IInv => BlocksFollowSchedule
  BY DEF IInv, Drawn
<1>2. QED
  BY <1>1, Invariance, PTL

\* Once close() has returned nothing is pending, and so nothing is ever sent again.
THEOREM CloseIsFinal == Spec => []QuietAfterClose
<1>1. IInv => QuietAfterClose
  BY DEF IInv, Drained, QuietAfterClose
<1>2. QED
  BY <1>1, Invariance, PTL

\* What waited when reset() or close() came never fires, draws no ordinal and is
\* never recorded (the guard of the continuation in handle(), with the generation
\* that reset() advances and the flag that close() sets).
THEOREM WaitsStayDropped == Spec => []WaitsDropped
<1>1. IInv => WaitsDropped
  <2> SUFFICES ASSUME IInv PROVE WaitsDropped
    OBVIOUS
  <2>1. ASSUME NEW n \in DOMAIN log, jobs[log[n].job].origin \in dropped PROVE FALSE
    <3> DEFINE e == jobs[log[n].job]
    <3>1. log[n].job \in Jobs /\ e.pc = "recorded" /\ jobs[e.origin].pc \in {"waiting", "gone"}
      BY <2>1 DEF IInv, Answered, LogPoints, Dropped
    <3>2. e.origin # log[n].job
      BY <3>1
    <3>3. jobs[e.origin].ordinal = e.ordinal /\ e.ordinal # Undrawn
      BY <3>1, <3>2 DEF IInv, Drawn, Numbering
    <3>4. jobs[e.origin].ordinal = Undrawn
      BY <2>1 DEF IInv, Dropped
    <3>5. QED
      BY <3>3, <3>4
  <2>2. QED
    BY <2>1 DEF IInv, Dropped, WaitsDropped
<1>2. QED
  BY <1>1, Invariance, PTL
=============================================================================
