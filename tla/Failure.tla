------------------------------- MODULE Failure -------------------------------
(***************************************************************************)
(* Failure simulation: pipeline stage 6 (checkFailure of                   *)
(* src/runtime/failure.ts) and the calls that arm it (failNext and outage  *)
(* of src/index.ts).                                                       *)
(*                                                                         *)
(* A request asks, in this order, decide(), the armed failNext count, the  *)
(* outage, and each failure policy in turn: its open circuit, then its     *)
(* roll.  Every Store call is awaited, so a failNext count and a circuit   *)
(* count are read in one step and written in a later one, and other        *)
(* requests, arming calls, a reset and the clock come between.             *)
(*                                                                         *)
(* The variables `owed` and `window` are histories: what a failNext count  *)
(* and a circuit count would be if each read and its write were one step.  *)
(* They give up, with Unknown, when another step has come between.         *)
(* `trippedAt` and `downAt` are histories too: when each circuit was last  *)
(* tripped, and when outage() was last called for each operation.          *)
(***************************************************************************)
EXTENDS StoreOps, Sequences

CONSTANTS
  Requests,
  Operations,
  Policies,     \* the sequence of failure policies, all with a rate
  NoCircuit,    \* the policy has no circuit
  Unknown,
  Workloads,    \* bound: which assignments of an operation to each request
  MaxTimes,     \* bound on the `times` of failNext
  OutageTtl,    \* the `forMs` of outage
  MaxCalls,     \* bound on the calls of failNext, outage and reset
  MaxTime       \* bound on the clock

\* `within` defaults to `openFor` before it gets here.
Circuit == [after : Nat \ {0}, openFor : Nat, within : Nat]
Policy == [on : SUBSET Operations, circuit : Circuit \cup {NoCircuit}]

N == Len(Policies)
Positions == 1 .. N

ASSUME PoliciesAssumption == Policies \in Seq(Policy)
ASSUME BoundsAssumption == /\ MaxTimes \in Nat /\ OutageTtl \in Nat
                           /\ MaxCalls \in Nat /\ MaxTime \in Nat
ASSUME UnknownAssumption == Unknown \notin Nat
ASSUME AbsentAssumption == Absent \notin Entry(Nat)
ASSUME WorkloadsAssumption == Workloads \subseteq [Requests -> Operations]

-----------------------------------------------------------------------------
\* the original bug: one circuit for all the operations a policy matches
CircuitKeyShared(kind, i, op) == <<kind, i, CHOOSE o \in Operations : TRUE>>
CircuitKey(kind, i, op) == <<kind, i, op>>

FailNextKey(op) == <<"failnext", 0, op>>
OutageKey(op) == <<"outage", 0, op>>
OpenKey(i, op) == CircuitKey("circuit-open", i, op)
CountKey(i, op) == CircuitKey("circuit-count", i, op)

StoreKeys == ({"failnext", "outage"} \X {0} \X Operations)
             \cup ({"circuit-open", "circuit-count"} \X Positions \X Operations)

\* A stored count, or 1 where the code stores a status or `true`.
Counts == Nat

Circuits == Positions \X Operations
CircuitOf(c) == Policies[c[1]].circuit

Outcomes == {"none", "decide", "failNext", "outage", "open", "rate", "ok"}

\* "shooting": a failNext count was read and is to be written.  "asking": the
\* policy's circuit is to be read.  "rolling": the roll is next.  "bumping": the
\* circuit count was read and is to be written; "bumped": it was, and is to be
\* compared; "tripping": the circuit was opened and its count is to be deleted.
PC == {"idle", "shooting", "checking", "asking", "rolling", "bumping", "bumped",
       "tripping", "done"}

VARIABLES
  now,
  entries,  \* the Store, as far as failure state goes
  op,       \* the operation of each request
  pc,
  at,       \* the policy a request has come to; N + 1 is past the last
  seen,     \* the count a request has read, or what it made of it
  outcome,
  calls,    \* the control-plane calls made, for their bound
  owed,     \* history: what failNext still owes an operation
  window,   \* history: the failures a circuit has in its window, and its end
  trippedAt, \* history: when a circuit was last tripped, Never before that
  downAt    \* history: when an operation's last outage began, Never before that

causes == <<trippedAt, downAt>>
vars == <<now, entries, op, pc, at, seen, outcome, calls, owed, window, causes>>

Closed == [n |-> 0, until |-> 0]

TypeOK ==
  /\ now \in 0 .. MaxTime
  /\ entries \in EntryMap(StoreKeys, Counts)
  /\ op \in [Requests -> Operations]
  /\ pc \in [Requests -> PC]
  /\ at \in [Requests -> 0 .. N + 1]
  /\ seen \in [Requests -> Counts]
  /\ outcome \in [Requests -> Outcomes]
  /\ calls \in 0 .. MaxCalls
  /\ owed \in [Operations -> Counts \cup {Unknown}]
  /\ window \in [Circuits -> [n : Counts, until : Nat] \cup {Unknown}]
  /\ trippedAt \in [Circuits -> 0 .. MaxTime \cup {Never}]
  /\ downAt \in [Operations -> 0 .. MaxTime \cup {Never}]

Init ==
  /\ now = 0
  /\ entries = [k \in StoreKeys |-> Absent]
  /\ op \in Workloads
  /\ pc = [r \in Requests |-> "idle"]
  /\ at = [r \in Requests |-> 0]
  /\ seen = [r \in Requests |-> 0]
  /\ outcome = [r \in Requests |-> "none"]
  /\ calls = 0
  /\ owed = [o \in Operations |-> 0]
  /\ window = [c \in Circuits |-> Closed]
  /\ trippedAt = [c \in Circuits |-> Never]
  /\ downAt = [o \in Operations |-> Never]

-----------------------------------------------------------------------------
Count(k) == LET e == Live(entries[k], now) IN IF e = Absent THEN 0 ELSE e.value

\* The next policy after i that matches the operation (the one member), N + 1 past
\* the last.
Following(i, o) ==
  {j \in i + 1 .. N + 1 : /\ j = N + 1 \/ o \in Policies[j].on
                          /\ \A k \in i + 1 .. j - 1 : o \notin Policies[k].on}

GoTo(r, p) == pc' = [pc EXCEPT ![r] = p]
Answer(r, o) == GoTo(r, "done") /\ outcome' = [outcome EXCEPT ![r] = o]

\* On to the next policy, or through when there is none.
Proceed(r) ==
  \E j \in Following(at[r], op[r]) :
    /\ at' = [at EXCEPT ![r] = j]
    /\ IF j > N THEN Answer(r, "ok")
       ELSE /\ GoTo(r, IF Policies[j].circuit = NoCircuit THEN "rolling" ELSE "asking")
            /\ UNCHANGED outcome

Shooters(o) == {r \in Requests : pc[r] = "shooting" /\ op[r] = o}

\* The requests between the read of a circuit's count and the last write to it.
Counting(c) == {r \in Requests : /\ pc[r] \in {"bumping", "bumped", "tripping"}
                                 /\ <<at[r], op[r]>> = c}

\* 1. decide() has the last word.
Decide(r) ==
  /\ pc[r] = "idle"
  /\ Answer(r, "decide")
  /\ UNCHANGED <<now, calls, entries, op, at, seen, owed, window, causes>>

\* 2. The armed count is read...
ReadFailNext(r) ==
  LET k == FailNextKey(op[r]) IN
  /\ pc[r] = "idle"
  /\ entries' = Touch(entries, k, now)
  /\ seen' = [seen EXCEPT ![r] = Count(k)]
  /\ GoTo(r, IF Count(k) > 0 THEN "shooting" ELSE "checking")
  /\ owed' = IF Count(k) > 0 /\ Shooters(op[r]) # {}
             THEN [owed EXCEPT ![op[r]] = Unknown] ELSE owed
  /\ UNCHANGED <<now, calls, op, at, outcome, window, causes>>

\* counted down when it is read and again when it is written
ShotTwice(k, n) == Put(entries, k, n - 2, now, Never)
\* the last one is not counted down
ShotForever(k, n) == IF n > 1 THEN Put(entries, k, n - 1, now, Never) ELSE entries
Shot(k, n) == IF n > 1 THEN Put(entries, k, n - 1, now, Never) ELSE Drop(entries, k)

\* ...and written back one lower, or deleted.
Shoot(r) ==
  /\ pc[r] = "shooting"
  /\ entries' = Shot(FailNextKey(op[r]), seen[r])
  /\ Answer(r, "failNext")
  /\ seen' = [seen EXCEPT ![r] = 0]
  /\ owed' = IF owed[op[r]] = Unknown THEN owed ELSE [owed EXCEPT ![op[r]] = @ - 1]
  /\ UNCHANGED <<now, calls, op, at, window, causes>>

\* 3. Outage.
Outage(r) ==
  LET k == OutageKey(op[r]) IN
  /\ pc[r] = "checking"
  /\ entries' = Touch(entries, k, now)
  /\ IF Count(k) > 0 THEN Answer(r, "outage") /\ UNCHANGED at ELSE Proceed(r)
  /\ UNCHANGED <<now, calls, op, seen, owed, window, causes>>

\* an open circuit is armed again whenever it is asked
AskedAgain(k) == IF Count(k) = 0 THEN Touch(entries, k, now)
                 ELSE Put(entries, k, 1, now, Policies[k[2]].circuit.openFor)
Asked(k) == Touch(entries, k, now)

\* 4. Circuit state: an open circuit answers immediately.
AskCircuit(r) ==
  LET k == OpenKey(at[r], op[r]) IN
  /\ pc[r] = "asking"
  /\ entries' = Asked(k)
  /\ IF Count(k) > 0 THEN Answer(r, "open")
     ELSE GoTo(r, "rolling") /\ UNCHANGED outcome
  /\ UNCHANGED <<now, calls, op, at, seen, owed, window, causes>>

\* 5. Rate: the roll misses...
Miss(r) ==
  /\ pc[r] = "rolling"
  /\ Proceed(r)
  /\ UNCHANGED <<now, calls, entries, op, seen, owed, window, causes>>

\* ...or hits, and the circuit's count is read.
Hit(r) ==
  LET c == <<at[r], op[r]>>
      k == CountKey(at[r], op[r])
  IN
  /\ pc[r] = "rolling"
  /\ \/ /\ CircuitOf(c) = NoCircuit
        /\ Answer(r, "rate")
        /\ UNCHANGED <<entries, seen, window>>
     \/ /\ CircuitOf(c) # NoCircuit
        /\ entries' = Touch(entries, k, now)
        /\ seen' = [seen EXCEPT ![r] = Count(k)]
        /\ GoTo(r, "bumping")
        /\ window' = IF Counting(c) # {} THEN [window EXCEPT ![c] = Unknown] ELSE window
        /\ UNCHANGED outcome
  /\ UNCHANGED <<now, calls, op, at, owed, causes>>

\* incr(key): an entry that has died since it was read starts again without a
\* deadline.
Incremented(k) ==
  LET e == Live(entries[k], now) IN
  [entries EXCEPT ![k] = IF e = Absent THEN [value |-> 1, deadline |-> Never]
                                       ELSE [e EXCEPT !.value = @ + 1]]

\* re-arm the window on every failure: it slides
BumpedSliding(k, n, within) == Put(entries, k, n + 1, now, within)
\* bumpCircuit: arm the TTL on the first failure and leave it alone afterward.
Bumped(k, n, within) ==
  IF n = 0 THEN Put(entries, k, 1, now, within) ELSE Incremented(k)

\* One failure more, as if the read and the write were one step.
Tallied(w, n, within) ==
  IF w = Unknown \/ (n > 0 /\ w.n = 0) THEN Unknown
  ELSE IF n = 0 THEN [n |-> 1, until |-> now + within]
  ELSE [w EXCEPT !.n = @ + 1]

Bump(r) ==
  LET c == <<at[r], op[r]>>
      k == CountKey(at[r], op[r])
      within == CircuitOf(c).within
  IN
  /\ pc[r] = "bumping"
  /\ entries' = Bumped(k, seen[r], within)
  /\ seen' = [seen EXCEPT ![r] = entries'[k].value]
  /\ GoTo(r, "bumped")
  /\ window' = [window EXCEPT ![c] = Tallied(@, seen[r], within)]
  /\ UNCHANGED <<now, calls, op, at, outcome, owed, causes>>

Reached(n, after) == n >= after

BelowLimit(r) ==
  /\ pc[r] = "bumped"
  /\ ~Reached(seen[r], CircuitOf(<<at[r], op[r]>>).after)
  /\ Answer(r, "rate")
  /\ seen' = [seen EXCEPT ![r] = 0]
  /\ UNCHANGED <<now, calls, entries, op, at, owed, window, causes>>

\* open for good
OpenedForever(k, openFor) == Put(entries, k, 1, now, Never)
Opened(k, openFor) == Put(entries, k, 1, now, openFor)

\* The circuit opens...
Trip(r) ==
  LET c == <<at[r], op[r]>> IN
  /\ pc[r] = "bumped"
  /\ Reached(seen[r], CircuitOf(c).after)
  /\ entries' = Opened(OpenKey(at[r], op[r]), CircuitOf(c).openFor)
  /\ GoTo(r, "tripping")
  /\ trippedAt' = [trippedAt EXCEPT ![c] = now]
  /\ UNCHANGED <<now, calls, op, at, seen, outcome, owed, window, downAt>>

\* ...and its count is forgotten.
Forget(r) ==
  LET c == <<at[r], op[r]>> IN
  /\ pc[r] = "tripping"
  /\ entries' = Drop(entries, CountKey(at[r], op[r]))
  /\ Answer(r, "rate")
  /\ window' = IF window[c] = Unknown THEN window ELSE [window EXCEPT ![c] = Closed]
  /\ seen' = [seen EXCEPT ![r] = 0]
  /\ UNCHANGED <<now, calls, op, at, owed, causes>>

-----------------------------------------------------------------------------
\* A call of the control plane.
Called == calls < MaxCalls /\ calls' = calls + 1

\* failNext(target, { times }), for one of the operations of its target.
FailNext(o, times) ==
  /\ Called
  /\ entries' = Put(entries, FailNextKey(o), times, now, Never)
  /\ owed' = [owed EXCEPT ![o] = IF Shooters(o) # {} THEN Unknown ELSE times]
  /\ UNCHANGED <<now, op, pc, at, seen, outcome, window, causes>>

\* outage(target, { forMs })
StartOutage(o) ==
  /\ Called
  /\ entries' = Put(entries, OutageKey(o), 1, now, OutageTtl)
  /\ downAt' = [downAt EXCEPT ![o] = now]
  /\ UNCHANGED <<now, op, pc, at, seen, outcome, owed, window, trippedAt>>

\* mock.reset() clears the Store.
Reset ==
  /\ Called
  /\ entries' = [k \in StoreKeys |-> Absent]
  /\ owed' = [o \in Operations |-> IF Shooters(o) # {} THEN Unknown ELSE 0]
  /\ window' = [c \in Circuits |-> IF Counting(c) # {} THEN Unknown ELSE Closed]
  /\ trippedAt' = [c \in Circuits |-> Never]
  /\ downAt' = [o \in Operations |-> Never]
  /\ UNCHANGED <<now, op, pc, at, seen, outcome>>

Ended(w, t) == IF w # Unknown /\ t > w.until THEN Closed ELSE w

Tick ==
  /\ now < MaxTime
  /\ now' = now + 1
  /\ window' = [c \in Circuits |-> Ended(window[c], now + 1)]
  /\ UNCHANGED <<entries, calls, op, pc, at, seen, outcome, owed, causes>>

Next == \/ \E r \in Requests :
             \/ Decide(r)
             \/ ReadFailNext(r)
             \/ Shoot(r)
             \/ Outage(r)
             \/ AskCircuit(r)
             \/ Miss(r)
             \/ Hit(r)
             \/ Bump(r)
             \/ BelowLimit(r)
             \/ Trip(r)
             \/ Forget(r)
        \/ \E o \in Operations :
             \/ \E times \in 1 .. MaxTimes : FailNext(o, times)
             \/ StartOutage(o)
        \/ Reset
        \/ Tick

Spec == Init /\ [][Next]_vars

-----------------------------------------------------------------------------
\* Unless two calls meet between the read of the armed count and its write, the
\* Store holds exactly the failures failNext still owes: none is injected twice
\* and none is skipped (failure.ts:126).
FailNextExact ==
  \A o \in Operations : owed[o] # Unknown => owed[o] = Count(FailNextKey(o))

\* A circuit counts as if the read and the write of a failure were one step,
\* unless two calls or the end of the window come between: its count is that of
\* the failures since the window's first, under a deadline fixed by that first,
\* and it has tripped by the time the count reaches its limit (failure.ts:81).
CircuitExact ==
  \A c \in Circuits : window[c] # Unknown =>
    LET e == Live(entries[CountKey(c[1], c[2])], now) IN
    /\ window[c].n = 0 => e = Absent
    /\ window[c].n > 0 => e = [value |-> window[c].n, deadline |-> window[c].until]
    /\ Counting(c) = {} => window[c].n = 0 \/ window[c].n < CircuitOf(c).after

\* A request is told that a circuit is open only if requests of its operation
\* have tripped that policy's circuit: policies and operations do not share a
\* circuit (failure.ts:147).
OpenHasCause ==
  \A r \in Requests : outcome[r] = "open" =>
    \E s \in Requests \ {r} :
      at[s] = at[r] /\ op[s] = op[r] /\ (outcome[s] = "rate" \/ pc[s] = "tripping")

\* A circuit is open exactly while its policy's openFor runs, counted from the
\* last time it was tripped: being asked while open, failures counted meanwhile and
\* the trips of other circuits neither prolong nor shorten that.  An outage lasts
\* exactly the time its last outage() call gave it (failure.ts:157; README.md:565,
\* "closes again on its own").
Runs(since, ttl) == since # Never /\ now <= since + ttl
OpenSinceTripped ==
  /\ \A c \in Circuits : CircuitOf(c) # NoCircuit =>
       (Count(OpenKey(c[1], c[2])) > 0 <=> Runs(trippedAt[c], CircuitOf(c).openFor))
  /\ \A o \in Operations : Count(OutageKey(o)) > 0 <=> Runs(downAt[o], OutageTtl)

\* Every circuit count lies in a window that ends.  The code does not keep to
\* it: when the window ends, or another request trips the circuit, between the
\* read and the increment, incr starts a count without a deadline
\* (failure.ts:14, "Without one the counter never decays").
CountsDecay ==
  \A c \in Circuits : LET e == entries[CountKey(c[1], c[2])] IN
    e # Absent => e.deadline # Never
=============================================================================
