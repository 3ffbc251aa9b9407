---------------------------- MODULE FailureProofs ----------------------------
(***************************************************************************)
(* For every set of requests and operations and every list of policies:    *)
(* the types are kept, armed failures and the failures of a circuit are    *)
(* counted exactly, outages and open circuits last from their last cause   *)
(* to their end, and a circuit is open only because it was tripped.        *)
(*                                                                         *)
(* An exact count needs to know of the requests between the read and the   *)
(* write of it: while nothing has come between, there is at most one of    *)
(* them, and what it read is what is still owed, or what is in the window  *)
(* (which may have ended since).                                           *)
(***************************************************************************)
EXTENDS Failure, TLAPS

\* Where in the list of policies a request can be.
Placed ==
  \A r \in Requests :
    /\ pc[r] \in {"idle", "shooting", "checking"} => at[r] = 0
    /\ pc[r] \in {"asking", "rolling", "bumping", "bumped", "tripping"} => at[r] \in Positions
    /\ pc[r] \in {"asking", "bumping", "bumped", "tripping"} => Policies[at[r]].circuit \in Circuit

\* An armed count is positive and has no deadline.
ArmedWell ==
  \A o \in Operations : LET e == entries[FailNextKey(o)] IN
    e # Absent => e.value > 0 /\ e.deadline = Never

\* A request that has read an armed count it may still rely on is alone with it.
ShootersExact ==
  \A o \in Operations : owed[o] # Unknown =>
    \A r \in Shooters(o) : /\ seen[r] = owed[o] /\ seen[r] > 0
                           /\ Shooters(o) = {r}

\* The entry under k, if there is one, is of the cause that came at `since`, and
\* there is one as long as the cause runs.
Timed(k, since, ttl) ==
  /\ entries[k] # Absent => /\ since # Never
                            /\ entries[k] = [value |-> 1, deadline |-> since + ttl]
  /\ entries[k] = Absent => ~Runs(since, ttl)

\* Open circuits and outages are timed from their last cause.
OpenWell ==
  /\ \A c \in Circuits : CircuitOf(c) # NoCircuit =>
       Timed(OpenKey(c[1], c[2]), trippedAt[c], CircuitOf(c).openFor)
  /\ \A o \in Operations : Timed(OutageKey(o), downAt[o], OutageTtl)

IInv == /\ TypeOK
        /\ Placed
        /\ ArmedWell
        /\ ShootersExact
        /\ FailNextExact
        /\ OpenWell

USE NeverAssumption, PoliciesAssumption, BoundsAssumption, UnknownAssumption,
    AbsentAssumption, WorkloadsAssumption

-----------------------------------------------------------------------------
\* The keys of the Store, and what lies apart from what.
LEMMA Keys ==
  /\ \A o \in Operations : FailNextKey(o) \in StoreKeys /\ OutageKey(o) \in StoreKeys
  /\ \A i \in Positions, o \in Operations :
       OpenKey(i, o) \in StoreKeys /\ CountKey(i, o) \in StoreKeys
BY DEF FailNextKey, OutageKey, OpenKey, CountKey, CircuitKey, StoreKeys

\* Entries made by the Store operators are entries.
LEMMA EntryTypes ==
  ASSUME TypeOK, NEW k \in StoreKeys, NEW v \in Nat, NEW ttl \in Nat \cup {Never}
  PROVE  /\ Put(entries, k, v, now, ttl) \in EntryMap(StoreKeys, Counts)
         /\ Touch(entries, k, now) \in EntryMap(StoreKeys, Counts)
         /\ Drop(entries, k) \in EntryMap(StoreKeys, Counts)
         /\ Count(k) \in Nat
BY DEF TypeOK, Put, Touch, Drop, Count, Live, EntryMap, Entry, Counts, Deadline, DeadlineAfter

\* Incr adds to what is there, or starts a count.
LEMMA IncrementedType ==
  ASSUME TypeOK, NEW k \in StoreKeys
  PROVE  /\ Incremented(k) \in EntryMap(StoreKeys, Counts)
         /\ Incremented(k)[k].value \in Nat
<1> DEFINE e == Live(entries[k], now)
<1>1. e \in Entry(Counts) \cup {Absent}
  BY DEF TypeOK, Live, EntryMap
<1>2. ASSUME e # Absent
      PROVE  [e EXCEPT !.value = @ + 1] \in Entry(Counts)
  BY <1>1, <1>2 DEF Entry, Counts
<1>3. [value |-> 1, deadline |-> Never] \in Entry(Counts)
  BY DEF Entry, Counts, Deadline
<1> DEFINE f == IF e = Absent THEN [value |-> 1, deadline |-> Never]
                             ELSE [e EXCEPT !.value = @ + 1]
<1>4. f \in Entry(Counts)
  BY <1>2, <1>3
<1>5. Incremented(k) = [entries EXCEPT ![k] = f]
  BY DEF Incremented
<1> HIDE DEF f
<1>6. QED
  BY <1>4, <1>5 DEF TypeOK, EntryMap, Entry, Counts

-----------------------------------------------------------------------------
\* A policy has a circuit or none.
LEMMA PolicyTypes ==
  \A i \in Positions : Policies[i].circuit \in Circuit \cup {NoCircuit}
<1>1. \A i \in Positions : Policies[i] \in Policy
  BY DEF Positions, N
<1>2. QED
  BY <1>1 DEF Policy

\* Going on to the next policy keeps the types and the place.
LEMMA ProceedType ==
  ASSUME TypeOK, Placed, NEW r \in Requests, Proceed(r), at[r] \in 0 .. N
  PROVE  /\ at' \in [Requests -> 0 .. N + 1]
         /\ pc' \in [Requests -> PC]
         /\ outcome' \in [Requests -> Outcomes]
         /\ Placed'
<1>0. N \in Nat
  BY DEF N
<1>1. PICK j \in Following(at[r], op[r]) :
        /\ at' = [at EXCEPT ![r] = j]
        /\ IF j > N THEN Answer(r, "ok")
           ELSE /\ GoTo(r, IF Policies[j].circuit = NoCircuit THEN "rolling" ELSE "asking")
                /\ UNCHANGED outcome
  BY DEF Proceed
<1>2. j \in 1 .. N + 1
  BY <1>0, <1>1 DEF Following
<1>3. CASE j > N
  <2>1. /\ at' \in [Requests -> 0 .. N + 1]
        /\ pc' = [pc EXCEPT ![r] = "done"]
        /\ outcome' = [outcome EXCEPT ![r] = "ok"]
    BY <1>0, <1>1, <1>2, <1>3 DEF TypeOK, Answer, GoTo
  <2>2. Placed'
    BY <1>1, <2>1 DEF TypeOK, Placed
  <2>3. QED
    BY <2>1, <2>2 DEF TypeOK, PC, Outcomes
<1>4. CASE ~(j > N)
  <2>1. j \in Positions
    BY <1>0, <1>2, <1>4 DEF Positions
  <2>2. Policies[j].circuit = NoCircuit \/ Policies[j].circuit \in Circuit
    BY <2>1, PolicyTypes
  <2> DEFINE p == IF Policies[j].circuit = NoCircuit THEN "rolling" ELSE "asking"
  <2>3. /\ at' = [at EXCEPT ![r] = j]
        /\ pc' = [pc EXCEPT ![r] = p]
        /\ outcome' = outcome
    BY <1>1, <1>4 DEF GoTo
  <2>4. at' \in [Requests -> 0 .. N + 1] /\ pc' \in [Requests -> PC]
    BY <1>0, <1>2, <2>3 DEF TypeOK, PC
  <2>5. Placed'
    BY <2>1, <2>2, <2>3 DEF TypeOK, Placed
  <2>6. QED
    BY <2>3, <2>4, <2>5 DEF TypeOK
<1>5. QED
  BY <1>3, <1>4

\* Every step keeps the types.
LEMMA TypeStep == TypeOK /\ Placed /\ ShootersExact /\ [Next]_vars => TypeOK' /\ Placed'
<1> SUFFICES ASSUME TypeOK, Placed, ShootersExact, [Next]_vars PROVE TypeOK' /\ Placed'
  OBVIOUS
<1>0. /\ N \in Nat
      /\ \A r \in Requests : op[r] \in Operations /\ at[r] \in 0 .. N + 1
  BY DEF N, TypeOK
<1>1. ASSUME NEW r \in Requests, Decide(r) PROVE TypeOK' /\ Placed'
  BY <1>1 DEF TypeOK, Placed, Decide, Answer, GoTo, PC, Outcomes, causes
<1>2. ASSUME NEW r \in Requests, ReadFailNext(r) PROVE TypeOK' /\ Placed'
  <2> DEFINE k == FailNextKey(op[r])
  <2>1. k \in StoreKeys /\ Count(k) \in Nat /\ entries' \in EntryMap(StoreKeys, Counts)
    BY <1>0, <1>2, Keys, EntryTypes DEF ReadFailNext
  <2>2. owed' \in [Operations -> Counts \cup {Unknown}]
    BY <1>0, <1>2 DEF TypeOK, ReadFailNext
  <2>3. seen' \in [Requests -> Counts] /\ pc' \in [Requests -> PC]
    BY <1>2, <2>1 DEF TypeOK, ReadFailNext, GoTo, PC, Counts
  <2>4. Placed'
    BY <1>2 DEF TypeOK, Placed, ReadFailNext, GoTo
  <2>5. QED
    BY <1>2, <2>1, <2>2, <2>3, <2>4 DEF TypeOK, ReadFailNext, causes
<1>3. ASSUME NEW r \in Requests, Shoot(r) PROVE TypeOK' /\ Placed'
  <2>1. FailNextKey(op[r]) \in StoreKeys /\ seen[r] \in Nat
    BY <1>0, Keys DEF TypeOK, Counts
  <2>2. entries' \in EntryMap(StoreKeys, Counts)
    <3>1. CASE seen[r] > 1
      <4>1. entries' = Put(entries, FailNextKey(op[r]), seen[r] - 1, now, Never)
        BY <1>3, <3>1 DEF Shoot, Shot
      <4>2. seen[r] - 1 \in Nat
        BY <2>1, <3>1
      <4>3. QED
        BY <2>1, <4>1, <4>2, EntryTypes
    <3>2. CASE ~(seen[r] > 1)
      BY <1>3, <2>1, <3>2, EntryTypes DEF Shoot, Shot
    <3>3. QED
      BY <3>1, <3>2
  <2>3. owed' \in [Operations -> Counts \cup {Unknown}]
    <3>1. owed[op[r]] # Unknown => owed[op[r]] - 1 \in Nat
      BY <1>0, <1>3, <2>1 DEF TypeOK, ShootersExact, Shooters, Shoot, Counts
    <3>2. QED
      BY <1>3, <3>1 DEF TypeOK, Shoot, Counts
  <2>4. QED
    BY <1>3, <2>2, <2>3 DEF TypeOK, Placed, Shoot, Answer, GoTo, PC, Outcomes, Counts, causes
<1>4. ASSUME NEW r \in Requests, Outage(r) PROVE TypeOK' /\ Placed'
  <2>1. entries' \in EntryMap(StoreKeys, Counts)
    BY <1>0, <1>4, Keys, EntryTypes DEF Outage
  <2>2. CASE Count(OutageKey(op[r])) > 0
    BY <1>4, <2>1, <2>2 DEF TypeOK, Placed, Outage, Answer, GoTo, PC, Outcomes, causes
  <2>3. CASE ~(Count(OutageKey(op[r])) > 0)
    <3>1. Proceed(r) /\ at[r] \in 0 .. N
      BY <1>0, <1>4, <2>3 DEF Outage, Placed
    <3>2. QED
      BY <1>4, <2>1, <3>1, ProceedType DEF TypeOK, Outage, causes
  <2>4. QED
    BY <2>2, <2>3
<1>5. ASSUME NEW r \in Requests, AskCircuit(r) PROVE TypeOK' /\ Placed'
  <2>1. at[r] \in Positions
    BY <1>5 DEF Placed, AskCircuit
  <2>2. entries' \in EntryMap(StoreKeys, Counts)
    BY <1>0, <1>5, <2>1, Keys, EntryTypes DEF AskCircuit, Asked
  <2>3. QED
    BY ZenonT(60), <1>5, <2>1, <2>2 DEF TypeOK, Placed, AskCircuit, Answer, GoTo, PC, Outcomes, causes
<1>6. ASSUME NEW r \in Requests, Miss(r) PROVE TypeOK' /\ Placed'
  <2>1. Proceed(r) /\ at[r] \in 0 .. N
    BY <1>6 DEF Miss, Placed, Positions
  <2>2. QED
    BY <1>6, <2>1, ProceedType DEF TypeOK, Miss, causes
<1>7. ASSUME NEW r \in Requests, Hit(r) PROVE TypeOK' /\ Placed'
  <2> DEFINE c == <<at[r], op[r]>>
             k == CountKey(at[r], op[r])
  <2>1. at[r] \in Positions
    BY <1>7 DEF Placed, Hit
  <2>2. CASE CircuitOf(c) = NoCircuit
    <3>1. Answer(r, "rate") /\ UNCHANGED <<entries, seen, window>>
      BY <1>7, <2>2 DEF Hit
    <3>2. QED
      BY <1>7, <3>1 DEF TypeOK, Placed, Hit, Answer, GoTo, PC, Outcomes, causes
  <2>3. CASE CircuitOf(c) # NoCircuit
    <3>1. Policies[at[r]].circuit \in Circuit
      BY <2>1, <2>3, PolicyTypes DEF CircuitOf
    <3>2. k \in StoreKeys /\ Touch(entries, k, now) \in EntryMap(StoreKeys, Counts) /\ Count(k) \in Nat
      BY <1>0, <2>1, Keys, EntryTypes
    <3>3. /\ entries' = Touch(entries, k, now)
          /\ seen' = [seen EXCEPT ![r] = Count(k)]
          /\ GoTo(r, "bumping")
          /\ window' = IF Counting(c) # {} THEN [window EXCEPT ![c] = Unknown] ELSE window
          /\ UNCHANGED outcome
          /\ UNCHANGED <<now, calls, op, at, owed, causes>>
      BY <1>7, <2>3 DEF Hit
    <3>4. window' \in [Circuits -> [n : Counts, until : Nat] \cup {Unknown}]
      BY <3>3 DEF TypeOK
    <3>5. seen' \in [Requests -> Counts]
      BY <3>2, <3>3 DEF TypeOK, Counts
    <3>6. Placed'
      BY <2>1, <3>1, <3>3 DEF TypeOK, Placed, GoTo
    <3>7. pc' \in [Requests -> PC]
      BY <3>3 DEF TypeOK, GoTo, PC
    <3>8. QED
      BY <3>2, <3>3, <3>4, <3>5, <3>6, <3>7 DEF TypeOK, causes
  <2>4. QED
    BY <2>2, <2>3
<1>8. ASSUME NEW r \in Requests, Bump(r) PROVE TypeOK' /\ Placed'
  <2> DEFINE c == <<at[r], op[r]>>
             k == CountKey(at[r], op[r])
             within == CircuitOf(c).within
  <2>1. at[r] \in Positions /\ within \in Nat /\ seen[r] \in Nat /\ now \in Nat
    BY <1>8 DEF TypeOK, Placed, Bump, CircuitOf, Circuit, Counts
  <2>2. k \in StoreKeys
    BY <1>0, <2>1, Keys
  <2>3. entries' \in EntryMap(StoreKeys, Counts) /\ entries'[k].value \in Nat
    <3>1. CASE seen[r] = 0
      <4>1. entries' = Put(entries, k, 1, now, within)
        BY <1>8, <3>1 DEF Bump, Bumped
      <4>2. entries'[k].value = 1
        BY <2>2, <4>1 DEF TypeOK, EntryMap, Put
      <4>3. QED
        BY <2>1, <2>2, <4>1, <4>2, EntryTypes
    <3>2. CASE seen[r] # 0
      BY <1>8, <2>2, <3>2, IncrementedType DEF Bump, Bumped
    <3>3. QED
      BY <3>1, <3>2
  <2>4. window' \in [Circuits -> [n : Counts, until : Nat] \cup {Unknown}]
    <3>1. c \in Circuits
      BY <1>0, <2>1 DEF Circuits
    <3>2. Tallied(window[c], seen[r], within) \in [n : Counts, until : Nat] \cup {Unknown}
      <4> DEFINE w == window[c]
      <4>1. w = Unknown \/ w \in [n : Nat, until : Nat]
        BY <3>1 DEF TypeOK, Counts
      <4>2. w \in [n : Nat, until : Nat] => [w EXCEPT !.n = @ + 1] \in [n : Nat, until : Nat]
        OBVIOUS
      <4>3. [n |-> 1, until |-> now + within] \in [n : Nat, until : Nat]
        BY <2>1
      <4>4. QED
        BY <4>1, <4>2, <4>3 DEF Tallied, Counts
    <3>3. window' = [window EXCEPT ![c] = Tallied(window[c], seen[r], within)]
      BY <1>8 DEF Bump
    <3>4. QED
      BY <3>2, <3>3 DEF TypeOK
  <2>5. seen' \in [Requests -> Counts]
    BY <1>8, <2>3 DEF TypeOK, Bump, Counts
  <2>6. QED
    BY <1>8, <2>3, <2>4, <2>5 DEF TypeOK, Placed, Bump, GoTo, PC, causes
<1>9. ASSUME NEW r \in Requests, BelowLimit(r) PROVE TypeOK' /\ Placed'
  BY <1>9 DEF TypeOK, Placed, BelowLimit, Answer, GoTo, PC, Outcomes, Counts, causes
<1>10. ASSUME NEW r \in Requests, Trip(r) PROVE TypeOK' /\ Placed'
  <2>1. at[r] \in Positions /\ CircuitOf(<<at[r], op[r]>>).openFor \in Nat
    BY <1>10 DEF Placed, Trip, CircuitOf, Circuit
  <2>2. entries' \in EntryMap(StoreKeys, Counts)
    BY <1>0, <1>10, <2>1, Keys, EntryTypes DEF Trip, Opened
  <2>3. QED
    BY <1>10, <2>1, <2>2 DEF TypeOK, Placed, Trip, GoTo, PC
<1>11. ASSUME NEW r \in Requests, Forget(r) PROVE TypeOK' /\ Placed'
  <2>1. at[r] \in Positions
    BY <1>11 DEF Placed, Forget
  <2>2. entries' \in EntryMap(StoreKeys, Counts)
    BY <1>0, <1>11, <2>1, Keys, EntryTypes DEF Forget
  <2>3. window' \in [Circuits -> [n : Counts, until : Nat] \cup {Unknown}]
    BY <1>11 DEF TypeOK, Forget, Closed, Counts
  <2>4. QED
    BY <1>11, <2>2, <2>3 DEF TypeOK, Placed, Forget, Answer, GoTo, PC, Outcomes, Counts, causes
<1>12. ASSUME NEW o \in Operations, NEW times \in 1 .. MaxTimes, FailNext(o, times)
       PROVE TypeOK' /\ Placed'
  <2>1. entries' \in EntryMap(StoreKeys, Counts)
    <3>1. times \in Nat /\ FailNextKey(o) \in StoreKeys
      BY <1>12, Keys
    <3>2. QED
      BY <1>12, <3>1, EntryTypes DEF FailNext
  <2>2. owed' \in [Operations -> Counts \cup {Unknown}] /\ calls' \in 0 .. MaxCalls
    BY <1>12 DEF TypeOK, FailNext, Called, Counts
  <2>3. QED
    BY <1>12, <2>1, <2>2 DEF TypeOK, Placed, FailNext, causes
<1>13. ASSUME NEW o \in Operations, StartOutage(o) PROVE TypeOK' /\ Placed'
  <2>1. entries' \in EntryMap(StoreKeys, Counts)
    BY <1>13, Keys, EntryTypes DEF StartOutage
  <2>2. QED
    BY <1>13, <2>1 DEF TypeOK, Placed, StartOutage, Called, causes
<1>14. CASE Reset
  <2>1. entries' \in EntryMap(StoreKeys, Counts)
    BY <1>14 DEF Reset, EntryMap
  <2>2. window' \in [Circuits -> [n : Counts, until : Nat] \cup {Unknown}]
    BY <1>14 DEF Reset, Closed, Counts
  <2>3. QED
    BY <1>14, <2>1, <2>2 DEF TypeOK, Placed, Reset, Called, Counts
<1>15. CASE Tick
  <2>1. window' \in [Circuits -> [n : Counts, until : Nat] \cup {Unknown}]
    BY <1>15 DEF TypeOK, Tick, Ended, Closed, Counts
  <2>2. QED
    BY <1>15, <2>1 DEF TypeOK, Placed, Tick, causes
<1>16. CASE UNCHANGED vars
  BY <1>16 DEF TypeOK, Placed, vars, causes
<1>17. QED
  BY <1>1, <1>2, <1>3, <1>4, <1>5, <1>6, <1>7, <1>8, <1>9, <1>10, <1>11, <1>12,
     <1>13, <1>14, <1>15, <1>16 DEF Next
-----------------------------------------------------------------------------
\* Armed counts lie under keys of their own.
LEMMA KeysApart ==
  \A o, p \in Operations :
    /\ FailNextKey(o) = FailNextKey(p) => o = p
    /\ FailNextKey(o) # OutageKey(p)
    /\ \A i \in Positions : FailNextKey(o) # OpenKey(i, p) /\ FailNextKey(o) # CountKey(i, p)
BY DEF FailNextKey, OutageKey, OpenKey, CountKey, CircuitKey

\* An armed count does not expire, so what is read is what is stored.
LEMMA ArmedCount ==
  ASSUME ArmedWell, NEW o \in Operations
  PROVE  LET e == entries[FailNextKey(o)] IN
         /\ Count(FailNextKey(o)) = IF e = Absent THEN 0 ELSE e.value
         /\ Live(e, now) = e
BY DEF ArmedWell, Count, Live, Expired

\* A step that leaves the armed counts and their readers alone keeps them exact.
LEMMA ArmedFrame ==
  ASSUME IInv, op' = op, owed' = owed,
         \A o \in Operations : entries'[FailNextKey(o)] = entries[FailNextKey(o)],
         \A q \in Requests : /\ pc'[q] = "shooting" <=> pc[q] = "shooting"
                             /\ pc[q] = "shooting" => seen'[q] = seen[q]
  PROVE  ArmedWell' /\ ShootersExact' /\ FailNextExact'
<1>1. ArmedWell'
  BY DEF IInv, ArmedWell
<1>2. \A o \in Operations : Shooters(o)' = Shooters(o)
  BY DEF Shooters
<1>3. ShootersExact'
  BY <1>2 DEF IInv, ShootersExact, Shooters
<1>4. \A o \in Operations : Count(FailNextKey(o))' = Count(FailNextKey(o))
  BY <1>1, ArmedCount DEF IInv, ArmedWell, Count, Live, Expired
<1>5. FailNextExact'
  BY <1>4 DEF IInv, FailNextExact
<1>6. QED
  BY <1>1, <1>3, <1>5

\* So does a step of a request that is not between the read and the write.
LEMMA ArmedApart ==
  ASSUME IInv, NEW r \in Requests, NEW p \in PC, pc[r] # "shooting", p # "shooting",
         pc' = [pc EXCEPT ![r] = p], op' = op, owed' = owed,
         \A q \in Requests \ {r} : seen'[q] = seen[q],
         \A o \in Operations : entries'[FailNextKey(o)] = entries[FailNextKey(o)]
  PROVE  ArmedWell' /\ ShootersExact' /\ FailNextExact'
<1>1. \A q \in Requests : /\ pc'[q] = "shooting" <=> pc[q] = "shooting"
                         /\ pc[q] = "shooting" => seen'[q] = seen[q]
  BY DEF IInv, TypeOK
<1>2. QED
  BY <1>1, ArmedFrame

\* Touching, writing or deleting another key leaves an armed count alone.
LEMMA OtherKey ==
  ASSUME TypeOK, NEW o \in Operations, NEW k \in StoreKeys, FailNextKey(o) # k,
         FailNextKey(o) \in StoreKeys, NEW v, NEW ttl
  PROVE  /\ Touch(entries, k, now)[FailNextKey(o)] = entries[FailNextKey(o)]
         /\ Put(entries, k, v, now, ttl)[FailNextKey(o)] = entries[FailNextKey(o)]
         /\ Drop(entries, k)[FailNextKey(o)] = entries[FailNextKey(o)]
         /\ Incremented(k)[FailNextKey(o)] = entries[FailNextKey(o)]
BY DEF TypeOK, EntryMap, Touch, Put, Drop, Incremented

\* Where going on leads.
LEMMA ProceedGoes ==
  ASSUME NEW r \in Requests, Proceed(r)
  PROVE  \E p \in {"done", "rolling", "asking"} : pc' = [pc EXCEPT ![r] = p]
BY DEF Proceed, Answer, GoTo

\* Every step keeps the armed counts exact.
LEMMA ArmedStep == IInv /\ [Next]_vars => ArmedWell' /\ ShootersExact' /\ FailNextExact'
<1> DEFINE Exact == ArmedWell' /\ ShootersExact' /\ FailNextExact'
<1> SUFFICES ASSUME IInv, [Next]_vars PROVE Exact
  OBVIOUS
<1>0. /\ TypeOK /\ Placed /\ ArmedWell
      /\ \A r \in Requests : op[r] \in Operations
      /\ \A o \in Operations : FailNextKey(o) \in StoreKeys
  BY Keys DEF IInv, TypeOK
<1>1. ASSUME NEW r \in Requests, Decide(r) PROVE Exact
  BY <1>0, <1>1, ArmedFrame DEF TypeOK, Decide, Answer, GoTo
<1>2. ASSUME NEW r \in Requests, ReadFailNext(r) PROVE Exact
  <2> DEFINE k == FailNextKey(op[r])
             n == Count(k)
  <2>1. /\ entries' = entries /\ op' = op
        /\ n = IF entries[k] = Absent THEN 0 ELSE entries[k].value
        /\ n \in Nat
    BY <1>0, <1>2, ArmedCount, EntryTypes DEF ReadFailNext, Touch, TypeOK, EntryMap
  <2>2. ArmedWell'
    BY <1>0, <2>1 DEF ArmedWell
  <2>3. \A o \in Operations : Count(FailNextKey(o))' = Count(FailNextKey(o))
    BY <1>2, <2>1 DEF Count, ReadFailNext
  <2>4. CASE n > 0
    <3>1. /\ pc' = [pc EXCEPT ![r] = "shooting"]
          /\ seen' = [seen EXCEPT ![r] = n]
          /\ owed' = IF Shooters(op[r]) # {} THEN [owed EXCEPT ![op[r]] = Unknown] ELSE owed
      BY <1>2, <2>4 DEF ReadFailNext, GoTo
    <3>2. \A o \in Operations : Shooters(o)' = IF o = op[r] THEN Shooters(o) \cup {r} ELSE Shooters(o)
      BY <1>0, <2>1, <3>1 DEF Shooters, TypeOK
    <3>3. r \notin Shooters(op[r])
      BY <1>2 DEF ReadFailNext, Shooters
    <3>4. FailNextExact'
      BY <1>0, <2>1, <2>3, <3>1 DEF IInv, FailNextExact, TypeOK
    <3>5. ASSUME NEW o \in Operations, owed'[o] # Unknown, NEW q \in Shooters(o)'
          PROVE  seen'[q] = owed'[o] /\ seen'[q] > 0 /\ Shooters(o)' = {q}
      <4>1. CASE o = op[r]
        <5>1. Shooters(o) = {} /\ owed' = owed
          BY <1>0, <3>1, <3>5, <4>1 DEF TypeOK
        <5>2. q = r /\ Shooters(o)' = {r}
          BY <3>2, <3>5, <4>1, <5>1
        <5>3. owed[o] = n
          BY <3>5, <4>1, <5>1 DEF IInv, FailNextExact
        <5>4. seen'[r] = n
          BY <1>0, <3>1 DEF TypeOK
        <5>5. QED
          BY <2>4, <5>1, <5>2, <5>3, <5>4
      <4>2. CASE o # op[r]
        <5>1. q \in Shooters(o) /\ Shooters(o)' = Shooters(o) /\ owed'[o] = owed[o]
          BY <1>0, <3>1, <3>2, <3>5, <4>2 DEF TypeOK
        <5>2. q # r /\ q \in Requests
          BY <4>2, <5>1 DEF Shooters
        <5>3. seen'[q] = seen[q]
          BY <1>0, <3>1, <5>2 DEF TypeOK
        <5>4. QED
          BY <3>5, <5>1, <5>3 DEF IInv, ShootersExact
      <4>3. QED
        BY <4>1, <4>2
    <3>6. QED
      BY <2>2, <3>4, <3>5 DEF ShootersExact
  <2>5. CASE ~(n > 0)
    <3>1. pc' = [pc EXCEPT ![r] = "checking"] /\ owed' = owed /\ seen' = [seen EXCEPT ![r] = n]
      BY <1>2, <2>5 DEF ReadFailNext, GoTo
    <3>2. QED
      BY <1>0, <1>2, <2>1, <3>1, ArmedFrame DEF TypeOK, ReadFailNext
  <2>6. QED
    BY <2>4, <2>5
<1>3. ASSUME NEW r \in Requests, Shoot(r) PROVE Exact
  <2> DEFINE p == op[r]
             k == FailNextKey(p)
  <2>0. /\ p \in Operations /\ k \in StoreKeys /\ seen[r] \in Nat
        /\ r \in Shooters(p) /\ op' = op
        /\ pc' = [pc EXCEPT ![r] = "done"] /\ seen' = [seen EXCEPT ![r] = 0]
        /\ owed' = IF owed[p] = Unknown THEN owed ELSE [owed EXCEPT ![p] = @ - 1]
    BY <1>0, <1>3 DEF Shoot, Answer, GoTo, Shooters, TypeOK, Counts
  <2>1. /\ \A o \in Operations \ {p} : entries'[FailNextKey(o)] = entries[FailNextKey(o)]
        /\ entries'[k] = IF seen[r] > 1 THEN [value |-> seen[r] - 1, deadline |-> Never] ELSE Absent
    <3>1. entries' = [entries EXCEPT ![k] =
                        IF seen[r] > 1 THEN [value |-> seen[r] - 1, deadline |-> Never] ELSE Absent]
      BY <1>3 DEF Shoot, Shot, Put, Drop, DeadlineAfter
    <3>2. QED
      BY <1>0, <2>0, <3>1, KeysApart DEF TypeOK, EntryMap
  <2>2. ArmedWell'
    <3>1. entries'[k] # Absent => entries'[k].value > 0 /\ entries'[k].deadline = Never
      BY <2>0, <2>1
    <3>2. QED
      BY <1>0, <2>1, <3>1 DEF ArmedWell
  <2>3. \A o \in Operations : Count(FailNextKey(o))' =
          IF entries'[FailNextKey(o)] = Absent THEN 0 ELSE entries'[FailNextKey(o)].value
    BY <2>2 DEF ArmedWell, Count, Live, Expired
  <2>4. \A o \in Operations : Shooters(o)' = Shooters(o) \ {r}
    BY <1>0, <2>0 DEF Shooters, TypeOK
  <2>5. ASSUME NEW o \in Operations, owed'[o] # Unknown
        PROVE  /\ owed'[o] = Count(FailNextKey(o))'
               /\ \A q \in Shooters(o)' : /\ seen'[q] = owed'[o] /\ seen'[q] > 0
                                           /\ Shooters(o)' = {q}
    <3>1. CASE o = p
      <4>1. owed[p] # Unknown
        BY <2>0, <2>5, <3>1
      <4>2. seen[r] = owed[p] /\ seen[r] > 0 /\ Shooters(p) = {r}
        BY <2>0, <4>1 DEF IInv, ShootersExact
      <4>3. owed'[p] = owed[p] - 1 /\ Shooters(p)' = {}
        BY <1>0, <2>0, <2>4, <4>1, <4>2 DEF TypeOK
      <4>4. Count(k)' = seen[r] - 1
        <5>1. CASE seen[r] > 1
          <6>1. entries'[k] = [value |-> seen[r] - 1, deadline |-> Never]
            BY <2>1, <5>1
          <6>2. entries'[k] # Absent
            BY <2>0, <5>1, <6>1 DEF Entry, Deadline
          <6>3. QED
            BY <2>0, <2>3, <6>1, <6>2
        <5>2. CASE ~(seen[r] > 1)
          BY <2>0, <2>1, <2>3, <4>2, <5>2
        <5>3. QED
          BY <5>1, <5>2
      <4>5. QED
        BY <2>0, <3>1, <4>2, <4>3, <4>4
    <3>2. CASE o # p
      <4>1. owed'[o] = owed[o] /\ Shooters(o)' = Shooters(o) /\ r \notin Shooters(o)
        BY <1>0, <2>0, <2>4, <3>2 DEF TypeOK, Shooters
      <4>2. Count(FailNextKey(o))' = Count(FailNextKey(o))
        BY <1>0, <2>1, <2>3, <3>2, ArmedCount
      <4>3. \A q \in Shooters(o) : seen'[q] = seen[q]
        BY <1>0, <2>0, <4>1 DEF TypeOK, Shooters
      <4>4. QED
        BY <2>5, <4>1, <4>2, <4>3 DEF IInv, FailNextExact, ShootersExact
    <3>3. QED
      BY <3>1, <3>2
  <2>6. QED
    BY <2>2, <2>5 DEF ShootersExact, FailNextExact
<1>4. ASSUME NEW r \in Requests, Outage(r) PROVE Exact
  <2>1. \A o \in Operations : entries'[FailNextKey(o)] = entries[FailNextKey(o)]
    BY <1>0, <1>4, Keys, KeysApart, OtherKey DEF Outage
  <2>2. PICK p \in {"done", "rolling", "asking"} : pc' = [pc EXCEPT ![r] = p]
    BY <1>4, ProceedGoes DEF Outage, Answer, GoTo
  <2>3. QED
    BY <1>4, <2>1, <2>2, ArmedApart DEF Outage, PC
<1>5. ASSUME NEW r \in Requests, AskCircuit(r) PROVE Exact
  <2>1. at[r] \in Positions
    BY <1>0, <1>5 DEF Placed, AskCircuit
  <2>2. \A o \in Operations : entries'[FailNextKey(o)] = entries[FailNextKey(o)]
    BY <1>0, <1>5, <2>1, Keys, KeysApart, OtherKey DEF AskCircuit, Asked
  <2>3. PICK p \in {"done", "rolling"} : pc' = [pc EXCEPT ![r] = p]
    BY <1>5 DEF AskCircuit, Answer, GoTo
  <2>4. QED
    BY <1>5, <2>2, <2>3, ArmedApart DEF AskCircuit, PC
<1>6. ASSUME NEW r \in Requests, Miss(r) PROVE Exact
  <2>1. PICK p \in {"done", "rolling", "asking"} : pc' = [pc EXCEPT ![r] = p]
    BY <1>6, ProceedGoes DEF Miss
  <2>2. QED
    BY <1>6, <2>1, ArmedApart DEF Miss, PC
<1>7. ASSUME NEW r \in Requests, Hit(r) PROVE Exact
  <2>1. at[r] \in Positions
    BY <1>0, <1>7 DEF Placed, Hit
  <2>2. \A o \in Operations : entries'[FailNextKey(o)] = entries[FailNextKey(o)]
    BY <1>0, <1>7, <2>1, Keys, KeysApart, OtherKey, SMTT(30) DEF Hit
  <2>3. PICK p \in {"done", "bumping"} : pc' = [pc EXCEPT ![r] = p]
    BY <1>7 DEF Hit, Answer, GoTo
  <2>4. \A q \in Requests \ {r} : seen'[q] = seen[q]
    BY <1>0, <1>7 DEF TypeOK, Hit
  <2>5. QED
    BY <1>7, <2>2, <2>3, <2>4, ArmedApart DEF Hit, PC
<1>8. ASSUME NEW r \in Requests, Bump(r) PROVE Exact
  <2>1. at[r] \in Positions
    BY <1>0, <1>8 DEF Placed, Bump
  <2>2. \A o \in Operations : entries'[FailNextKey(o)] = entries[FailNextKey(o)]
    <3> DEFINE k == CountKey(at[r], op[r])
    <3>1. /\ k \in StoreKeys
          /\ entries' = Incremented(k) \/ entries' = Put(entries, k, 1, now, CircuitOf(<<at[r], op[r]>>).within)
      BY <1>0, <1>8, <2>1, Keys DEF Bump, Bumped
    <3>2. QED
      BY <1>0, <2>1, <3>1, KeysApart, OtherKey
  <2>3. \A q \in Requests \ {r} : seen'[q] = seen[q]
    BY <1>0, <1>8 DEF TypeOK, Bump
  <2>4. QED
    BY <1>8, <2>2, <2>3, ArmedApart DEF Bump, GoTo, PC
<1>9. ASSUME NEW r \in Requests, BelowLimit(r) PROVE Exact
  BY <1>0, <1>9, ArmedApart DEF TypeOK, BelowLimit, Answer, GoTo, PC
<1>10. ASSUME NEW r \in Requests, Trip(r) PROVE Exact
  <2>1. at[r] \in Positions
    BY <1>0, <1>10 DEF Placed, Trip
  <2>2. \A o \in Operations : entries'[FailNextKey(o)] = entries[FailNextKey(o)]
    BY <1>0, <1>10, <2>1, Keys, KeysApart, OtherKey DEF Trip, Opened
  <2>3. QED
    BY <1>10, <2>2, ArmedApart DEF Trip, GoTo, PC
<1>11. ASSUME NEW r \in Requests, Forget(r) PROVE Exact
  <2>1. at[r] \in Positions
    BY <1>0, <1>11 DEF Placed, Forget
  <2>2. \A o \in Operations : entries'[FailNextKey(o)] = entries[FailNextKey(o)]
    BY <1>0, <1>11, <2>1, Keys, KeysApart, OtherKey DEF Forget
  <2>3. \A q \in Requests \ {r} : seen'[q] = seen[q]
    BY <1>0, <1>11 DEF TypeOK, Forget
  <2>4. QED
    BY <1>11, <2>2, <2>3, ArmedApart DEF Forget, Answer, GoTo, PC
<1>12. ASSUME NEW o \in Operations, NEW times \in 1 .. MaxTimes, FailNext(o, times) PROVE Exact
  <2>1. /\ entries' = [entries EXCEPT ![FailNextKey(o)] = [value |-> times, deadline |-> Never]]
        /\ owed' = [owed EXCEPT ![o] = IF Shooters(o) # {} THEN Unknown ELSE times]
        /\ \A p \in Operations : Shooters(p)' = Shooters(p)
        /\ seen' = seen /\ times \in Nat /\ times > 0
    BY <1>12 DEF FailNext, Put, DeadlineAfter, Shooters
  <2>2. \A p \in Operations : entries'[FailNextKey(p)] =
          IF p = o THEN [value |-> times, deadline |-> Never] ELSE entries[FailNextKey(p)]
    BY <1>0, <2>1, KeysApart DEF TypeOK, EntryMap
  <2>3. ArmedWell'
    BY <1>0, <2>1, <2>2 DEF ArmedWell
  <2>4. \A p \in Operations : Count(FailNextKey(p))' =
          IF entries'[FailNextKey(p)] = Absent THEN 0 ELSE entries'[FailNextKey(p)].value
    BY <2>3 DEF ArmedWell, Count, Live, Expired
  <2>5. [value |-> times, deadline |-> Never] # Absent
    BY <2>1 DEF Entry, Deadline
  <2>6. \A p \in Operations : owed'[p] = IF p # o THEN owed[p]
                                          ELSE IF Shooters(o) # {} THEN Unknown ELSE times
    BY <1>0, <2>1 DEF TypeOK
  <2>7. FailNextExact'
    BY <1>0, <2>2, <2>4, <2>5, <2>6, ArmedCount DEF IInv, FailNextExact
  <2>8. ShootersExact'
    BY <2>1, <2>6 DEF IInv, ShootersExact
  <2>9. QED
    BY <2>3, <2>7, <2>8
<1>13. ASSUME NEW o \in Operations, StartOutage(o) PROVE Exact
  <2>1. \A p \in Operations : entries'[FailNextKey(p)] = entries[FailNextKey(p)]
    BY <1>0, <1>13, Keys, KeysApart, OtherKey DEF StartOutage
  <2>2. QED
    BY <1>13, <2>1, ArmedFrame DEF StartOutage
<1>14. CASE Reset
  <2>1. \A o \in Operations : /\ entries'[FailNextKey(o)] = Absent
                              /\ owed'[o] = IF Shooters(o) # {} THEN Unknown ELSE 0
                              /\ Shooters(o)' = Shooters(o)
    BY <1>0, <1>14 DEF Reset, Shooters
  <2>2. ArmedWell'
    BY <2>1 DEF ArmedWell
  <2>3. ShootersExact'
    BY <2>1 DEF ShootersExact
  <2>4. FailNextExact'
    BY <2>1 DEF FailNextExact, Count, Live, Expired
  <2>5. QED
    BY <2>2, <2>3, <2>4
<1>15. CASE Tick
  BY <1>15, ArmedFrame DEF Tick
<1>16. CASE UNCHANGED vars
  BY <1>16, ArmedFrame DEF vars
<1>17. QED
  BY <1>1, <1>2, <1>3, <1>4, <1>5, <1>6, <1>7, <1>8, <1>9, <1>10, <1>11, <1>12,
     <1>13, <1>14, <1>15, <1>16 DEF Next
-----------------------------------------------------------------------------
\* The keys whose entries must end: open circuits and outages.
Ending == {OpenKey(c[1], c[2]) : c \in Circuits} \cup {OutageKey(o) : o \in Operations}

\* A step that writes nothing under these keys: a dead entry may be dropped.
Kept == \A k \in Ending : entries'[k] \in {entries[k], Live(entries[k], now)}

\* The lengths of openings and outages.
LEMMA Lengths ==
  /\ \A c \in Circuits : CircuitOf(c) # NoCircuit => CircuitOf(c).openFor \in Nat
  /\ OutageTtl \in Nat
BY PolicyTypes DEF Circuits, CircuitOf, Circuit

\* What is timed stays so while the clock does not go back and dead entries may go.
LEMMA TimedFrame ==
  ASSUME NEW k, NEW since \in Nat \cup {Never}, NEW ttl \in Nat, Timed(k, since, ttl),
         now \in Nat, now' \in Nat, now' >= now,
         entries'[k] \in {entries[k], Live(entries[k], now)}
  PROVE  Timed(k, since, ttl)'
<1> DEFINE e == entries[k]
<1>1. CASE e = Absent
  <2>1. entries'[k] = Absent /\ ~Runs(since, ttl)
    BY <1>1 DEF Live, Expired, Timed
  <2>2. ~Runs(since, ttl)'
    BY <2>1 DEF Runs
  <2>3. QED
    BY <2>1, <2>2 DEF Timed
<1>2. CASE e # Absent
  <2>1. since \in Nat /\ e = [value |-> 1, deadline |-> since + ttl]
    BY <1>2 DEF Timed
  <2>2. CASE entries'[k] = e
    BY <1>2, <2>1, <2>2 DEF Timed
  <2>3. CASE entries'[k] # e
    <3>1. entries'[k] = Absent /\ Expired(e, now)
      BY <2>3 DEF Live
    <3>2. now > since + ttl
      BY <2>1, <3>1 DEF Expired
    <3>3. ~Runs(since, ttl)'
      BY <2>1, <3>2 DEF Runs
    <3>4. QED
      BY <3>1, <3>3 DEF Timed
  <2>4. QED
    BY <2>2, <2>3
<1>3. QED
  BY <1>1, <1>2

\* So a step that moves no cause and writes nothing there keeps them timed.
LEMMA OpenFrame ==
  ASSUME TypeOK, OpenWell, now' \in Nat, now' >= now, UNCHANGED causes, Kept
  PROVE  OpenWell'
<1>1. now \in Nat /\ trippedAt' = trippedAt /\ downAt' = downAt
  BY DEF TypeOK, causes
<1>2. ASSUME NEW c \in Circuits, CircuitOf(c) # NoCircuit
      PROVE  Timed(OpenKey(c[1], c[2]), trippedAt[c], CircuitOf(c).openFor)'
  <2>1. OpenKey(c[1], c[2]) \in Ending /\ trippedAt[c] \in Nat \cup {Never}
    BY DEF Ending, TypeOK
  <2>2. Timed(OpenKey(c[1], c[2]), trippedAt[c], CircuitOf(c).openFor)
    BY <1>2 DEF OpenWell
  <2> DEFINE k == OpenKey(c[1], c[2])
             since == trippedAt[c]
             ttl == CircuitOf(c).openFor
  <2>3. ttl \in Nat /\ entries'[k] \in {entries[k], Live(entries[k], now)}
    BY <1>2, <2>1, Lengths DEF Kept
  <2>4. QED
    BY <1>1, <2>1, <2>2, <2>3, TimedFrame DEF Timed, Runs
<1>3. ASSUME NEW o \in Operations
      PROVE  Timed(OutageKey(o), downAt[o], OutageTtl)'
  <2>1. OutageKey(o) \in Ending /\ downAt[o] \in Nat \cup {Never}
    BY DEF Ending, TypeOK
  <2>2. Timed(OutageKey(o), downAt[o], OutageTtl)
    BY DEF OpenWell
  <2>3. entries'[OutageKey(o)] \in {entries[OutageKey(o)], Live(entries[OutageKey(o)], now)}
    BY <2>1 DEF Kept
  <2>4. QED
    BY <1>1, <2>1, <2>2, <2>3, Lengths, TimedFrame DEF Timed, Runs
<1>4. QED
  BY <1>2, <1>3 DEF OpenWell

\* What the Store operators do to another key, or to one they only look at.
LEMMA EndingKept ==
  ASSUME TypeOK, NEW k \in StoreKeys, NEW x \in Ending, NEW v, NEW ttl
  PROVE  /\ x \in StoreKeys
         /\ Touch(entries, k, now)[x] \in {entries[x], Live(entries[x], now)}
         /\ x # k => Drop(entries, k)[x] = entries[x]
         /\ x # k => Put(entries, k, v, now, ttl)[x] = entries[x]
         /\ x # k => Incremented(k)[x] = entries[x]
<1>1. x \in StoreKeys
  BY DEF Ending, Circuits, Positions, StoreKeys, OpenKey, OutageKey, CircuitKey
<1>2. QED
  BY <1>1 DEF TypeOK, EntryMap, Touch, Drop, Put, Incremented

\* Armed counts and circuit counts are not among them.
LEMMA EndingApart ==
  /\ \A o \in Operations : FailNextKey(o) \notin Ending
  /\ \A i \in Positions, o \in Operations : CountKey(i, o) \notin Ending
BY DEF Ending, Circuits, FailNextKey, OutageKey, OpenKey, CountKey, CircuitKey

\* Only opening a circuit and starting an outage write under the ending keys.
LEMMA EndingLeft ==
  ASSUME TypeOK, Placed, NEW r \in Requests,
         \/ Decide(r) \/ ReadFailNext(r) \/ Shoot(r) \/ Outage(r) \/ AskCircuit(r)
         \/ Miss(r) \/ Hit(r) \/ Bump(r) \/ BelowLimit(r) \/ Forget(r)
  PROVE  Kept
<1>0. op[r] \in Operations
  BY DEF TypeOK
<1>1. CASE Decide(r) \/ Miss(r) \/ BelowLimit(r)
  BY <1>1 DEF Decide, Miss, BelowLimit, Kept
<1>2. CASE ReadFailNext(r)
  BY <1>0, <1>2, Keys, EndingKept DEF ReadFailNext, Kept
<1>3. CASE Shoot(r)
  <2> DEFINE k == FailNextKey(op[r])
  <2>1. /\ k \in StoreKeys /\ k \notin Ending
        /\ entries' = Put(entries, k, seen[r] - 1, now, Never) \/ entries' = Drop(entries, k)
    BY <1>0, <1>3, Keys, EndingApart DEF Shoot, Shot
  <2>2. QED
    BY <2>1, EndingKept DEF Kept
<1>4. CASE Outage(r)
  BY <1>0, <1>4, Keys, EndingKept DEF Outage, Kept
<1>5. CASE AskCircuit(r)
  <2>1. at[r] \in Positions
    BY <1>5 DEF Placed, AskCircuit
  <2>2. QED
    BY <1>0, <1>5, <2>1, Keys, EndingKept DEF AskCircuit, Asked, Kept
<1>6. CASE Hit(r)
  <2> DEFINE k == CountKey(at[r], op[r])
  <2>1. k \in StoreKeys
    BY <1>0, <1>6, Keys DEF Placed, Hit
  <2>2. entries' = entries \/ entries' = Touch(entries, k, now)
    BY <1>6 DEF Hit
  <2>3. QED
    BY <2>1, <2>2, EndingKept DEF Kept
<1>7. CASE Bump(r)
  <2> DEFINE k == CountKey(at[r], op[r])
             within == CircuitOf(<<at[r], op[r]>>).within
  <2>1. at[r] \in Positions
    BY <1>7 DEF Placed, Bump
  <2>2. /\ k \in StoreKeys /\ k \notin Ending
        /\ entries' = Incremented(k) \/ entries' = Put(entries, k, 1, now, within)
    BY <1>0, <1>7, <2>1, Keys, EndingApart DEF Bump, Bumped
  <2>3. QED
    BY <2>2, EndingKept DEF Kept
<1>8. CASE Forget(r)
  <2> DEFINE k == CountKey(at[r], op[r])
  <2>1. at[r] \in Positions
    BY <1>8 DEF Placed, Forget
  <2>2. k \in StoreKeys /\ k \notin Ending /\ entries' = Drop(entries, k)
    BY <1>0, <1>8, <2>1, Keys, EndingApart DEF Forget
  <2>3. QED
    BY <2>2, EndingKept DEF Kept
<1>9. QED
  BY <1>1, <1>2, <1>3, <1>4, <1>5, <1>6, <1>7, <1>8

\* Seen from the keys: no such step makes an entry.
LEMMA KeptShrinks == Kept => \A k \in Ending : entries'[k] \in {entries[k], Absent}
BY DEF Kept, Live

\* Arming, a reset and the clock make none either.
LEMMA EndingLeftByOthers ==
  ASSUME TypeOK,
         \/ \E o \in Operations, times \in 1 .. MaxTimes : FailNext(o, times)
         \/ Reset \/ Tick \/ UNCHANGED vars
  PROVE  \A k \in Ending : entries'[k] \in {entries[k], Absent}
<1>1. \A k \in Ending : k \in StoreKeys
  BY DEF Ending, Circuits, Positions, StoreKeys, OpenKey, OutageKey, CircuitKey
<1>2. ASSUME NEW o \in Operations, NEW times \in 1 .. MaxTimes, FailNext(o, times)
      PROVE  \A k \in Ending : entries'[k] \in {entries[k], Absent}
  BY <1>2, Keys, EndingApart, EndingKept DEF FailNext
<1>3. QED
  BY <1>1, <1>2 DEF Reset, Tick, vars

\* Every step keeps open circuits and outages timed from their last cause.
LEMMA OpenStep == TypeOK /\ Placed /\ OpenWell /\ [Next]_vars => OpenWell'
<1> SUFFICES ASSUME TypeOK, Placed, OpenWell, [Next]_vars PROVE OpenWell'
  OBVIOUS
<1>0. /\ now \in Nat
      /\ \A r \in Requests : op[r] \in Operations
      /\ \A k \in Ending : k \in StoreKeys
  BY DEF TypeOK, Ending, Circuits, Positions, StoreKeys, OpenKey, OutageKey, CircuitKey
<1>1. ASSUME now' = now, UNCHANGED causes, Kept PROVE OpenWell'
  BY <1>0, <1>1, OpenFrame
<1>2. ASSUME NEW r \in Requests,
             \/ Decide(r) \/ ReadFailNext(r) \/ Shoot(r) \/ Outage(r) \/ AskCircuit(r)
             \/ Miss(r) \/ Hit(r) \/ Bump(r) \/ BelowLimit(r) \/ Forget(r)
      PROVE OpenWell'
  <2>1. now' = now /\ UNCHANGED causes
    BY <1>2 DEF Decide, ReadFailNext, Shoot, Outage, AskCircuit, Miss, Hit, Bump,
                BelowLimit, Forget
  <2>2. QED
    BY <1>1, <1>2, <2>1, EndingLeft
<1>3. ASSUME NEW r \in Requests, Trip(r) PROVE OpenWell'
  <2> DEFINE b == <<at[r], op[r]>>
             k == OpenKey(at[r], op[r])
             openFor == CircuitOf(b).openFor
  <2>1. at[r] \in Positions /\ openFor \in Nat /\ b \in Circuits
    BY <1>0, <1>3 DEF Placed, Trip, CircuitOf, Circuit, Circuits
  <2>2. /\ k \in StoreKeys /\ entries' = Put(entries, k, 1, now, openFor)
        /\ now' = now /\ downAt' = downAt /\ trippedAt' = [trippedAt EXCEPT ![b] = now]
    BY <1>0, <1>3, <2>1, Keys DEF Trip, Opened
  <2>3. \A x \in Ending : x # k => entries'[x] = entries[x]
    BY <2>2, EndingKept
  <2>4. entries'[k] = [value |-> 1, deadline |-> now + openFor]
    BY <2>1, <2>2 DEF TypeOK, EntryMap, Put, DeadlineAfter
  <2>5. now # Never /\ [value |-> 1, deadline |-> now + openFor] # Absent
    BY <1>0, <2>1 DEF Entry, Deadline
  <2>6. ASSUME NEW c \in Circuits, CircuitOf(c) # NoCircuit
        PROVE  Timed(OpenKey(c[1], c[2]), trippedAt[c], CircuitOf(c).openFor)'
    <3>1. CASE c = b
      <4>1. /\ OpenKey(c[1], c[2]) = k /\ CircuitOf(c).openFor = openFor
            /\ trippedAt'[c] = now
        BY <2>1, <2>2, <3>1 DEF TypeOK
      <4> HIDE DEF openFor, k, b
      <4>2. QED
        BY <2>4, <2>5, <4>1 DEF Timed
    <3>2. CASE c # b
      <4>1. OpenKey(c[1], c[2]) \in Ending /\ OpenKey(c[1], c[2]) # k
        BY <3>2 DEF Ending, OpenKey, CircuitKey, Circuits
      <4>2. entries'[OpenKey(c[1], c[2])] = entries[OpenKey(c[1], c[2])] /\ trippedAt'[c] = trippedAt[c]
        BY <2>2, <2>3, <3>2, <4>1 DEF TypeOK
      <4>3. QED
        BY <2>2, <2>6, <4>2 DEF OpenWell, Timed, Runs
    <3>3. QED
      BY <3>1, <3>2
  <2>7. ASSUME NEW o \in Operations PROVE Timed(OutageKey(o), downAt[o], OutageTtl)'
    <3>1. OutageKey(o) \in Ending /\ OutageKey(o) # k
      BY DEF Ending, OutageKey, OpenKey, CircuitKey
    <3>2. QED
      BY <2>2, <2>3, <3>1 DEF OpenWell, Timed, Runs
  <2>8. QED
    BY <2>6, <2>7 DEF OpenWell
<1>4. ASSUME NEW o \in Operations, StartOutage(o) PROVE OpenWell'
  <2> DEFINE k == OutageKey(o)
  <2>1. /\ k \in StoreKeys /\ entries' = Put(entries, k, 1, now, OutageTtl)
        /\ now' = now /\ trippedAt' = trippedAt /\ downAt' = [downAt EXCEPT ![o] = now]
    BY <1>4, Keys DEF StartOutage
  <2>2. \A x \in Ending : x # k => entries'[x] = entries[x]
    BY <2>1, EndingKept
  <2>3. entries'[k] = [value |-> 1, deadline |-> now + OutageTtl]
    BY <2>1 DEF TypeOK, EntryMap, Put, DeadlineAfter
  <2>4. now # Never /\ [value |-> 1, deadline |-> now + OutageTtl] # Absent
    BY <1>0 DEF Entry, Deadline
  <2>5. ASSUME NEW c \in Circuits, CircuitOf(c) # NoCircuit
        PROVE  Timed(OpenKey(c[1], c[2]), trippedAt[c], CircuitOf(c).openFor)'
    <3>1. OpenKey(c[1], c[2]) \in Ending /\ OpenKey(c[1], c[2]) # k
      BY DEF Ending, OutageKey, OpenKey, CircuitKey
    <3>2. QED
      BY <2>1, <2>2, <2>5, <3>1 DEF OpenWell, Timed, Runs
  <2>6. ASSUME NEW p \in Operations PROVE Timed(OutageKey(p), downAt[p], OutageTtl)'
    <3>1. CASE p = o
      <4>1. downAt'[p] = now
        BY <2>1, <3>1 DEF TypeOK
      <4>2. QED
        BY <2>3, <2>4, <3>1, <4>1 DEF Timed
    <3>2. CASE p # o
      <4>1. OutageKey(p) \in Ending /\ OutageKey(p) # k
        BY <3>2 DEF Ending, OutageKey
      <4>2. entries'[OutageKey(p)] = entries[OutageKey(p)] /\ downAt'[p] = downAt[p]
        BY <2>1, <2>2, <3>2, <4>1 DEF TypeOK
      <4>3. QED
        BY <2>1, <4>2 DEF OpenWell, Timed, Runs
    <3>3. QED
      BY <3>1, <3>2
  <2>7. QED
    BY <2>5, <2>6 DEF OpenWell
<1>5. ASSUME NEW o \in Operations, NEW times \in 1 .. MaxTimes, FailNext(o, times)
      PROVE OpenWell'
  <2>1. Kept
    BY <1>5, Keys, EndingApart, EndingKept DEF FailNext, Kept
  <2>2. QED
    BY <1>1, <1>5, <2>1 DEF FailNext
<1>6. CASE Reset
  <2>1. /\ \A k \in Ending : entries'[k] = Absent
        /\ \A c \in Circuits : trippedAt'[c] = Never
        /\ \A o \in Operations : downAt'[o] = Never
    BY <1>0, <1>6 DEF Reset
  <2>2. QED
    BY <2>1 DEF OpenWell, Timed, Runs, Ending
<1>7. CASE Tick
  <2>1. now' = now + 1 /\ UNCHANGED causes /\ Kept
    BY <1>7 DEF Tick, Kept
  <2>2. QED
    BY <1>0, <2>1, OpenFrame
<1>8. CASE UNCHANGED vars
  BY <1>1, <1>8 DEF vars, Kept
<1>9. QED
  BY <1>2, <1>3, <1>4, <1>5, <1>6, <1>7, <1>8 DEF Next

\* What is timed is there exactly as long as its cause runs.
LEMMA OpenExactly == TypeOK /\ OpenWell => OpenSinceTripped
<1> SUFFICES ASSUME TypeOK, OpenWell PROVE OpenSinceTripped
  OBVIOUS
<1>0. now \in Nat
  BY DEF TypeOK
<1>1. ASSUME NEW k, NEW since \in Nat \cup {Never}, NEW ttl \in Nat, Timed(k, since, ttl)
      PROVE  Count(k) > 0 <=> Runs(since, ttl)
  <2>1. CASE entries[k] = Absent
    BY <1>1, <2>1 DEF Timed, Count, Live, Expired
  <2>2. CASE entries[k] # Absent
    <3>1. since \in Nat /\ entries[k] = [value |-> 1, deadline |-> since + ttl]
      BY <1>1, <2>2 DEF Timed
    <3>2. since # Never /\ since + ttl # Never /\ since + ttl \in Nat
      BY <3>1
    <3>3. Expired(entries[k], now) <=> now > since + ttl
      BY <2>2, <3>1, <3>2 DEF Expired
    <3>4. CASE now > since + ttl
      BY <1>0, <3>1, <3>2, <3>3, <3>4 DEF Runs, Count, Live
    <3>5. CASE ~(now > since + ttl)
      <4>1. Live(entries[k], now) = entries[k]
        BY <3>3, <3>5 DEF Live
      <4>2. Count(k) = 1
        BY <2>2, <3>1, <4>1 DEF Count
      <4>3. QED
        BY <1>0, <3>2, <3>5, <4>2 DEF Runs
    <3>6. QED
      BY <3>4, <3>5
  <2>3. QED
    BY <2>1, <2>2
<1>2. /\ \A c \in Circuits : trippedAt[c] \in Nat \cup {Never}
      /\ \A o \in Operations : downAt[o] \in Nat \cup {Never}
  BY DEF TypeOK
<1>3. ASSUME NEW c \in Circuits, CircuitOf(c) # NoCircuit
      PROVE  Count(OpenKey(c[1], c[2])) > 0 <=> Runs(trippedAt[c], CircuitOf(c).openFor)
  BY <1>1, <1>2, <1>3, Lengths DEF OpenWell
<1>4. \A o \in Operations : Count(OutageKey(o)) > 0 <=> Runs(downAt[o], OutageTtl)
  BY <1>1, <1>2, Lengths DEF OpenWell
<1>5. QED
  BY <1>3, <1>4 DEF OpenSinceTripped

-----------------------------------------------------------------------------
\* A request has its outcome when it is done, and not before.
OutcomesLast == \A r \in Requests : pc[r] # "done" => outcome[r] = "none"

\* r has tripped the circuit of policy i for the operation o.
Tripped(r, i, o) ==
  at[r] = i /\ op[r] = o /\ (outcome[r] = "rate" \/ pc[r] = "tripping")

\* An open circuit was tripped.
OpenCaused ==
  \A i \in Positions, o \in Operations :
    entries[OpenKey(i, o)] # Absent => \E s \in Requests : Tripped(s, i, o)

CauseInv == OutcomesLast /\ OpenCaused /\ OpenHasCause

\* A step in which a request r that has tripped nothing moves keeps the causes,
\* when it opens no circuit and is not told that one is open.
LEMMA CauseFrame ==
  ASSUME TypeOK, CauseInv, NEW r \in Requests,
         pc[r] # "done", pc[r] # "tripping",
         op' = op,
         \A q \in Requests \ {r} : /\ pc'[q] = pc[q] /\ at'[q] = at[q]
                                   /\ outcome'[q] = outcome[q],
         pc'[r] = "done" \/ outcome'[r] = outcome[r],
         outcome'[r] # "open",
         \A k \in Ending : entries'[k] \in {entries[k], Absent}
  PROVE  CauseInv'
<1>1. ASSUME NEW s \in Requests, NEW i \in Positions, NEW o \in Operations, Tripped(s, i, o)
      PROVE  s # r /\ Tripped(s, i, o)'
  BY <1>1 DEF CauseInv, OutcomesLast, Tripped
<1>2. OutcomesLast'
  BY DEF CauseInv, OutcomesLast
<1>3. OpenCaused'
  <2> SUFFICES ASSUME NEW i \in Positions, NEW o \in Operations,
                      entries'[OpenKey(i, o)] # Absent
               PROVE  \E s \in Requests : Tripped(s, i, o)'
    BY DEF OpenCaused, OpenKey, CircuitKey
  <2>1. OpenKey(i, o) \in Ending
    <3>1. <<i, o>> \in Circuits
      BY DEF Circuits
    <3>2. QED
      BY <3>1 DEF Ending
  <2>2. \E s \in Requests : Tripped(s, i, o)
    BY <2>1 DEF CauseInv, OpenCaused
  <2>3. QED
    BY <1>1, <2>2
<1>4. OpenHasCause'
  <2> SUFFICES ASSUME NEW q \in Requests, outcome'[q] = "open"
               PROVE  \E s \in Requests \ {q} :
                        /\ at'[s] = at'[q] /\ op'[s] = op'[q]
                        /\ outcome'[s] = "rate" \/ pc'[s] = "tripping"
    BY DEF OpenHasCause
  <2>1. q # r /\ outcome[q] = "open"
    OBVIOUS
  <2>2. PICK s \in Requests \ {q} :
               /\ at[s] = at[q] /\ op[s] = op[q]
               /\ outcome[s] = "rate" \/ pc[s] = "tripping"
    BY <2>1 DEF CauseInv, OpenHasCause
  <2>3. s # r
    BY <2>2 DEF CauseInv, OutcomesLast
  <2>4. QED
    BY <2>1, <2>2, <2>3
<1>5. QED
  BY <1>2, <1>3, <1>4 DEF CauseInv

\* ...and so does a step in which no request moves.
LEMMA CauseStays ==
  ASSUME CauseInv, pc' = pc, at' = at, op' = op, outcome' = outcome,
         \A k \in Ending : entries'[k] \in {entries[k], Absent}
  PROVE  CauseInv'
<1>1. \A i \in Positions, o \in Operations : OpenKey(i, o) \in Ending
  <2>1. \A i \in Positions, o \in Operations :
          <<i, o>> \in Circuits /\ <<i, o>>[1] = i /\ <<i, o>>[2] = o
    BY DEF Circuits
  <2>2. QED
    BY <2>1 DEF Ending
<1>2. OutcomesLast'
  BY DEF CauseInv, OutcomesLast
<1>3. OpenHasCause'
  BY DEF CauseInv, OpenHasCause
<1>4. OpenCaused'
  BY <1>1 DEF CauseInv, OpenCaused, Tripped, OpenKey, CircuitKey
<1>5. QED
  BY <1>2, <1>3, <1>4 DEF CauseInv

\* What going on to the next policy does to the others.
LEMMA ProceedMoves ==
  ASSUME TypeOK, NEW r \in Requests, Proceed(r)
  PROVE  /\ \A q \in Requests \ {r} : /\ pc'[q] = pc[q] /\ at'[q] = at[q]
                                      /\ outcome'[q] = outcome[q]
         /\ \/ pc'[r] = "done" /\ outcome'[r] = "ok"
            \/ pc'[r] \in {"rolling", "asking"} /\ outcome'[r] = outcome[r]
<1>1. PICK j \in Following(at[r], op[r]) :
        /\ at' = [at EXCEPT ![r] = j]
        /\ IF j > N THEN Answer(r, "ok")
           ELSE /\ GoTo(r, IF Policies[j].circuit = NoCircuit THEN "rolling" ELSE "asking")
                /\ UNCHANGED outcome
  BY DEF Proceed
<1>2. QED
  BY <1>1 DEF TypeOK, Answer, GoTo

\* Every step keeps the causes.
LEMMA CauseStep == TypeOK /\ Placed /\ CauseInv /\ [Next]_vars => CauseInv'
<1> SUFFICES ASSUME TypeOK, Placed, CauseInv, [Next]_vars PROVE CauseInv'
  OBVIOUS
<1>0. \A r \in Requests : op[r] \in Operations
  BY DEF TypeOK
<1>1. ASSUME NEW r \in Requests,
             \/ Decide(r) \/ ReadFailNext(r) \/ Shoot(r) \/ Hit(r) \/ Bump(r) \/ BelowLimit(r)
      PROVE  CauseInv'
  <2>1. /\ pc[r] # "done" /\ pc[r] # "tripping" /\ op' = op
        /\ \A q \in Requests \ {r} : /\ pc'[q] = pc[q] /\ at'[q] = at[q]
                                     /\ outcome'[q] = outcome[q]
        /\ pc'[r] = "done" \/ outcome'[r] = outcome[r]
        /\ outcome'[r] \in {outcome[r], "decide", "failNext", "rate"}
    BY <1>1 DEF TypeOK, Decide, ReadFailNext, Shoot, Hit, Bump, BelowLimit, Answer, GoTo
  <2>2. outcome[r] = "none"
    BY <2>1 DEF CauseInv, OutcomesLast
  <2>3. \A k \in Ending : entries'[k] \in {entries[k], Absent}
    BY <1>1, EndingLeft, KeptShrinks
  <2>4. QED
    BY <2>1, <2>2, <2>3, CauseFrame
<1>2. ASSUME NEW r \in Requests, Outage(r) \/ Miss(r) PROVE CauseInv'
  <2>1. /\ pc[r] # "done" /\ pc[r] # "tripping" /\ op' = op
        /\ (Answer(r, "outage") /\ UNCHANGED at) \/ Proceed(r)
    BY <1>2 DEF Outage, Miss
  <2>2. outcome[r] = "none"
    BY <2>1 DEF CauseInv, OutcomesLast
  <2>3. \A k \in Ending : entries'[k] \in {entries[k], Absent}
    BY <1>2, EndingLeft, KeptShrinks
  <2>4. CASE Answer(r, "outage") /\ UNCHANGED at
    <3>1. /\ \A q \in Requests \ {r} : pc'[q] = pc[q] /\ at'[q] = at[q] /\ outcome'[q] = outcome[q]
          /\ pc'[r] = "done" /\ outcome'[r] = "outage"
      BY <2>4 DEF TypeOK, Answer, GoTo
    <3>2. QED
      BY <2>1, <2>3, <3>1, CauseFrame
  <2>5. CASE Proceed(r)
    <3>1. /\ \A q \in Requests \ {r} : pc'[q] = pc[q] /\ at'[q] = at[q] /\ outcome'[q] = outcome[q]
          /\ pc'[r] = "done" \/ outcome'[r] = outcome[r]
          /\ outcome'[r] # "open"
      BY <2>2, <2>5, ProceedMoves
    <3>2. QED
      BY <2>1, <2>3, <3>1, CauseFrame
  <2>6. QED
    BY <2>1, <2>4, <2>5
<1>3. ASSUME NEW r \in Requests, AskCircuit(r) PROVE CauseInv'
  <2> DEFINE k == OpenKey(at[r], op[r])
  <2>1. /\ pc[r] = "asking" /\ op' = op /\ at' = at
        /\ at[r] \in Positions /\ op[r] \in Operations /\ outcome[r] = "none"
        /\ \A q \in Requests \ {r} : pc'[q] = pc[q] /\ outcome'[q] = outcome[q]
    BY <1>0, <1>3 DEF AskCircuit, Answer, GoTo, TypeOK, Placed, CauseInv, OutcomesLast
  <2>2. \A x \in Ending : entries'[x] \in {entries[x], Absent}
    BY <1>3, EndingLeft, KeptShrinks
  <2>3. CASE Count(k) > 0
    <3>1. pc'[r] = "done" /\ outcome'[r] = "open"
      BY <1>3, <2>3 DEF AskCircuit, Answer, GoTo, TypeOK
    <3>2. entries[k] # Absent
      BY <2>3 DEF Count, Live
    <3>3. PICK s \in Requests : Tripped(s, at[r], op[r])
      BY <2>1, <3>2 DEF CauseInv, OpenCaused
    <3>4. s # r /\ Tripped(s, at[r], op[r])'
      BY <2>1, <3>3 DEF Tripped
    <3>5. OutcomesLast'
      BY <2>1, <3>1 DEF CauseInv, OutcomesLast
    <3>6. OpenHasCause'
      <4> SUFFICES ASSUME NEW q \in Requests, outcome'[q] = "open"
                   PROVE  \E t \in Requests \ {q} :
                            /\ at'[t] = at'[q] /\ op'[t] = op'[q]
                            /\ outcome'[t] = "rate" \/ pc'[t] = "tripping"
        BY DEF OpenHasCause
      <4>1. CASE q = r
        BY <2>1, <3>4, <4>1 DEF Tripped
      <4>2. CASE q # r
        <5>1. PICK t \in Requests \ {q} : /\ at[t] = at[q] /\ op[t] = op[q]
                                          /\ outcome[t] = "rate" \/ pc[t] = "tripping"
          BY <2>1, <4>2 DEF CauseInv, OpenHasCause
        <5>2. t # r
          BY <2>1, <5>1
        <5>3. QED
          BY <2>1, <4>2, <5>1, <5>2
      <4>3. QED
        BY <4>1, <4>2
    <3>7. ASSUME NEW i \in Positions, NEW o \in Operations, entries'[OpenKey(i, o)] # Absent
          PROVE  \E t \in Requests : Tripped(t, i, o)'
      <4>1. OpenKey(i, o) \in Ending
        <5>1. <<i, o>> \in Circuits
          BY DEF Circuits
        <5>2. QED
          BY <5>1 DEF Ending
      <4>2. PICK t \in Requests : Tripped(t, i, o)
        BY <2>2, <3>7, <4>1 DEF CauseInv, OpenCaused
      <4>3. t # r
        BY <2>1, <4>2 DEF Tripped
      <4>4. QED
        BY <2>1, <4>2, <4>3 DEF Tripped
    <3>8. OpenCaused'
      BY <3>7 DEF OpenCaused, OpenKey, CircuitKey
    <3>9. QED
      BY <3>5, <3>6, <3>8 DEF CauseInv
  <2>4. CASE ~(Count(k) > 0)
    <3>1. outcome' = outcome
      BY <1>3, <2>4 DEF AskCircuit
    <3>2. QED
      BY <2>1, <2>2, <3>1, CauseFrame
  <2>5. QED
    BY <2>3, <2>4
<1>4. ASSUME NEW r \in Requests, Trip(r) PROVE CauseInv'
  <2> DEFINE k == OpenKey(at[r], op[r])
  <2>1. /\ pc[r] = "bumped" /\ op' = op /\ at' = at /\ outcome' = outcome
        /\ at[r] \in Positions /\ op[r] \in Operations
        /\ pc' = [pc EXCEPT ![r] = "tripping"]
        /\ \E ttl : entries' = Put(entries, k, 1, now, ttl)
    BY <1>0, <1>4 DEF Trip, GoTo, Opened, Placed
  <2>2. \A s \in Requests, i \in Positions, o \in Operations :
          Tripped(s, i, o) => Tripped(s, i, o)'
    BY <2>1 DEF TypeOK, Tripped
  <2>3. ASSUME NEW i \in Positions, NEW o \in Operations, entries'[OpenKey(i, o)] # Absent
        PROVE  \E t \in Requests : Tripped(t, i, o)'
    <3>1. CASE OpenKey(i, o) = k
      <4>1. i = at[r] /\ o = op[r]
        BY <3>1 DEF OpenKey, CircuitKey
      <4>2. pc'[r] = "tripping"
        BY <2>1 DEF TypeOK
      <4>3. QED
        BY <2>1, <4>1, <4>2 DEF Tripped
    <3>2. CASE OpenKey(i, o) # k
      <4>1. entries[OpenKey(i, o)] # Absent
        BY <2>1, <2>3, <3>2, Keys DEF Put, TypeOK, EntryMap
      <4>2. QED
        BY <2>2, <4>1 DEF CauseInv, OpenCaused
    <3>3. QED
      BY <3>1, <3>2
  <2>4. OpenCaused'
    BY <2>3 DEF OpenCaused, OpenKey, CircuitKey
  <2>5. OutcomesLast'
    BY <2>1 DEF TypeOK, CauseInv, OutcomesLast
  <2>6. OpenHasCause'
    BY <2>1 DEF TypeOK, CauseInv, OpenHasCause
  <2>7. QED
    BY <2>4, <2>5, <2>6 DEF CauseInv
<1>5. ASSUME NEW r \in Requests, Forget(r) PROVE CauseInv'
  <2>1. /\ pc[r] = "tripping" /\ op' = op /\ at' = at
        /\ outcome' = [outcome EXCEPT ![r] = "rate"]
        /\ pc' = [pc EXCEPT ![r] = "done"]
    BY <1>5 DEF Forget, Answer, GoTo
  <2>2. \A s \in Requests, i \in Positions, o \in Operations : Tripped(s, i, o) => Tripped(s, i, o)'
    BY <2>1 DEF TypeOK, Tripped
  <2>3. ASSUME NEW i \in Positions, NEW o \in Operations, entries'[OpenKey(i, o)] # Absent
        PROVE  \E t \in Requests : Tripped(t, i, o)'
    <3>1. OpenKey(i, o) \in Ending
      <4>1. <<i, o>> \in Circuits
        BY DEF Circuits
      <4>2. QED
        BY <4>1 DEF Ending
    <3>2. entries[OpenKey(i, o)] # Absent
      BY <1>5, <2>3, <3>1, EndingLeft, KeptShrinks
    <3>3. QED
      BY <2>2, <3>2 DEF CauseInv, OpenCaused
  <2>4. OpenCaused'
    BY <2>3 DEF OpenCaused, OpenKey, CircuitKey
  <2>5. OutcomesLast'
    BY <2>1 DEF TypeOK, CauseInv, OutcomesLast
  <2>6. OpenHasCause'
    <3> SUFFICES ASSUME NEW q \in Requests, outcome'[q] = "open"
                 PROVE  \E t \in Requests \ {q} :
                          /\ at'[t] = at'[q] /\ op'[t] = op'[q]
                          /\ outcome'[t] = "rate" \/ pc'[t] = "tripping"
      BY DEF OpenHasCause
    <3>1. outcome[q] = "open"
      BY <2>1 DEF TypeOK
    <3>2. PICK t \in Requests \ {q} : /\ at[t] = at[q] /\ op[t] = op[q]
                                      /\ outcome[t] = "rate" \/ pc[t] = "tripping"
      BY <3>1 DEF CauseInv, OpenHasCause
    <3>3. outcome'[t] = "rate" \/ pc'[t] = "tripping"
      BY <2>1, <3>2 DEF TypeOK
    <3>4. QED
      BY <2>1, <3>2, <3>3
  <2>7. QED
    BY <2>4, <2>5, <2>6 DEF CauseInv
<1>6. ASSUME NEW o \in Operations, StartOutage(o) PROVE CauseInv'
  <2>1. /\ pc' = pc /\ at' = at /\ op' = op /\ outcome' = outcome
        /\ entries' = Put(entries, OutageKey(o), 1, now, OutageTtl)
    BY <1>6 DEF StartOutage
  <2>2. \A i \in Positions, p \in Operations :
          entries'[OpenKey(i, p)] = entries[OpenKey(i, p)]
    BY <2>1, Keys DEF Put, TypeOK, EntryMap, OpenKey, OutageKey, CircuitKey
  <2>3. OpenCaused'
    BY <2>1, <2>2 DEF CauseInv, OpenCaused, Tripped, OpenKey, CircuitKey
  <2>4. OutcomesLast' /\ OpenHasCause'
    BY <2>1 DEF CauseInv, OutcomesLast, OpenHasCause
  <2>5. QED
    BY <2>3, <2>4 DEF CauseInv
<1>7. ASSUME NEW o \in Operations, NEW times \in 1 .. MaxTimes, FailNext(o, times)
      PROVE  CauseInv'
  BY <1>7, EndingLeftByOthers, CauseStays DEF FailNext
<1>8. CASE Reset \/ Tick \/ UNCHANGED vars
  BY <1>8, EndingLeftByOthers, CauseStays DEF Reset, Tick, vars
<1>9. QED
  BY <1>1, <1>2, <1>3, <1>4, <1>5, <1>6, <1>7, <1>8 DEF Next

-----------------------------------------------------------------------------
\* What CircuitExact says of a circuit c, and that a request which has read its
\* count, and may still rely on it, is alone and has read what is in the window,
\* unless the window has ended since.
CircuitWell(c) ==
  window[c] # Unknown =>
    LET e == Live(entries[CountKey(c[1], c[2])], now) IN
    /\ window[c].n = 0 => e = Absent
    /\ window[c].n > 0 => e = [value |-> window[c].n, deadline |-> window[c].until]
    /\ Counting(c) = {} => window[c].n = 0 \/ window[c].n < CircuitOf(c).after
    /\ \A r \in Counting(c) :
         /\ Counting(c) = {r}
         /\ pc[r] \in {"bumping", "bumped"} => window[c].n \in {0, seen[r]}

CircuitInv == \A c \in Circuits : CircuitWell(c)

\* A step that leaves a circuit's window, its count and the requests between the
\* read and the last write alone keeps it exact.
LEMMA CircuitFrame ==
  ASSUME NEW c \in Circuits, CircuitWell(c), op' = op, window'[c] = window[c],
         Live(entries[CountKey(c[1], c[2])], now)' = Live(entries[CountKey(c[1], c[2])], now),
         Counting(c)' = Counting(c),
         \A r \in Counting(c) : seen'[r] = seen[r] /\ (pc'[r] = pc[r] \/ pc'[r] = "tripping")
  PROVE  CircuitWell(c)'
BY DEF CircuitWell, CircuitOf

\* The count of another circuit, and the count of a circuit when another key is
\* written, stay as they are; looking at one drops it only when it is dead.
LEMMA CountKept ==
  ASSUME TypeOK, NEW c \in Circuits, NEW k \in StoreKeys, NEW v, NEW ttl
  PROVE  LET x == CountKey(c[1], c[2]) IN
         /\ x \in StoreKeys
         /\ Live(Touch(entries, k, now)[x], now) = Live(entries[x], now)
         /\ x # k => /\ Put(entries, k, v, now, ttl)[x] = entries[x]
                     /\ Drop(entries, k)[x] = entries[x]
                     /\ Incremented(k)[x] = entries[x]
<1>1. CountKey(c[1], c[2]) \in StoreKeys
  BY Keys DEF Circuits
<1>2. QED
  BY <1>1 DEF TypeOK, EntryMap, Touch, Drop, Put, Incremented, Live, Expired

\* A circuit has a key of its own.
LEMMA CountApart ==
  ASSUME NEW c \in Circuits, NEW o \in Operations, NEW i \in Positions
  PROVE  LET x == CountKey(c[1], c[2]) IN
         /\ x # FailNextKey(o) /\ x # OutageKey(o) /\ x # OpenKey(i, o)
         /\ x = CountKey(i, o) <=> c = <<i, o>>
BY DEF Circuits, CountKey, FailNextKey, OutageKey, OpenKey, CircuitKey

\* Who is between the read and the last write after a step of r.
LEMMA CountingAfter ==
  ASSUME NEW r \in Requests, NEW c, op' = op,
         \A q \in Requests \ {r} : pc'[q] = pc[q] /\ at'[q] = at[q]
  PROVE  /\ Counting(c) \ {r} = Counting(c)' \ {r}
         /\ r \in Counting(c) <=> /\ pc[r] \in {"bumping", "bumped", "tripping"}
                                  /\ <<at[r], op[r]>> = c
         /\ r \in Counting(c)' <=> /\ pc'[r] \in {"bumping", "bumped", "tripping"}
                                   /\ <<at'[r], op[r]>> = c
         /\ (r \in Counting(c) <=> r \in Counting(c)') => Counting(c)' = Counting(c)
<1>1. \A q \in Requests \ {r} : q \in Counting(c) <=> q \in Counting(c)'
  BY DEF Counting
<1>2. Counting(c) \subseteq Requests /\ Counting(c)' \subseteq Requests
  BY DEF Counting
<1>3. Counting(c) \ {r} = Counting(c)' \ {r}
  BY <1>1, <1>2
<1>4. ASSUME r \in Counting(c) <=> r \in Counting(c)' PROVE Counting(c)' = Counting(c)
  <2>1. \A q \in Requests : q \in Counting(c) <=> q \in Counting(c)'
    BY <1>1, <1>4
  <2>2. QED
    BY <1>2, <2>1
<1>5. r \in Counting(c) <=> /\ pc[r] \in {"bumping", "bumped", "tripping"}
                           /\ <<at[r], op[r]>> = c
  BY DEF Counting
<1>6. r \in Counting(c)' <=> /\ pc'[r] \in {"bumping", "bumped", "tripping"}
                            /\ <<at'[r], op[r]>> = c
  BY DEF Counting
<1>7. QED
  BY <1>3, <1>4, <1>5, <1>6

\* A step of a request that counts nothing, before or after it, and leaves the
\* windows and the counts alone.
LEMMA CircuitApart ==
  ASSUME CircuitInv, NEW r \in Requests, op' = op, window' = window,
         pc[r] \notin {"bumping", "bumped", "tripping"},
         pc'[r] \notin {"bumping", "bumped", "tripping"},
         \A q \in Requests \ {r} : pc'[q] = pc[q] /\ at'[q] = at[q] /\ seen'[q] = seen[q],
         \A c \in Circuits : Live(entries[CountKey(c[1], c[2])], now)'
                               = Live(entries[CountKey(c[1], c[2])], now)
  PROVE  CircuitInv'
<1> SUFFICES ASSUME NEW c \in Circuits PROVE CircuitWell(c)'
  BY DEF CircuitInv, Circuits
<1>1. r \notin Counting(c) /\ r \notin Counting(c)' /\ Counting(c) \ {r} = Counting(c)' \ {r}
  BY CountingAfter
<1>2. Counting(c)' = Counting(c) /\ \A q \in Counting(c) : q \in Requests \ {r}
  BY <1>1 DEF Counting
<1>3. QED
  BY <1>2, CircuitFrame DEF CircuitInv

\* Every step keeps the circuits exact.
LEMMA CircuitStep == TypeOK /\ Placed /\ CircuitInv /\ [Next]_vars => CircuitInv'
<1> SUFFICES ASSUME TypeOK, Placed, CircuitInv, [Next]_vars PROVE CircuitInv'
  OBVIOUS
<1>0. /\ \A r \in Requests : op[r] \in Operations /\ seen[r] \in Nat
      /\ now \in Nat
      /\ \A c \in Circuits : window[c] = Unknown \/ window[c] \in [n : Nat, until : Nat]
      /\ \A n, d \in Nat : [value |-> n, deadline |-> d] # Absent
  <2>1. \A n, d \in Nat : [value |-> n, deadline |-> d] \in Entry(Nat)
    BY DEF Entry, Deadline
  <2>2. \A n, d \in Nat : [value |-> n, deadline |-> d] # Absent
    BY <2>1
  <2>3. \A c \in Circuits : window[c] = Unknown \/ window[c] \in [n : Nat, until : Nat]
    BY DEF TypeOK, Counts
  <2>4. /\ \A r \in Requests : op[r] \in Operations /\ seen[r] \in Nat
        /\ now \in Nat
    BY DEF TypeOK, Counts
  <2>5. QED
    BY <2>2, <2>3, <2>4
<1> DEFINE Same == \A c \in Circuits :
                     Live(entries[CountKey(c[1], c[2])], now)'
                       = Live(entries[CountKey(c[1], c[2])], now)
<1>1. ASSUME NEW r \in Requests, Decide(r) \/ ReadFailNext(r) \/ Shoot(r) PROVE CircuitInv'
  <2> DEFINE k == FailNextKey(op[r])
  <2>1. k \in StoreKeys /\ \A c \in Circuits : CountKey(c[1], c[2]) # k
    BY <1>0, Keys, CountApart DEF Circuits
  <2>2. /\ now' = now
        /\ \/ entries' = entries
           \/ entries' = Touch(entries, k, now)
           \/ entries' = Put(entries, k, seen[r] - 1, now, Never)
           \/ entries' = Drop(entries, k)
    BY <1>1 DEF Decide, ReadFailNext, Shoot, Shot
  <2>3. Same
    BY <2>1, <2>2, CountKept
  <2>4. /\ op' = op /\ window' = window
        /\ pc[r] \notin {"bumping", "bumped", "tripping"}
        /\ pc'[r] \notin {"bumping", "bumped", "tripping"}
        /\ \A q \in Requests \ {r} : pc'[q] = pc[q] /\ at'[q] = at[q] /\ seen'[q] = seen[q]
    BY <1>1 DEF TypeOK, Decide, ReadFailNext, Shoot, Answer, GoTo
  <2>5. QED
    BY <2>3, <2>4, CircuitApart
<1>2. ASSUME NEW r \in Requests, Outage(r) \/ Miss(r) PROVE CircuitInv'
  <2>1. Same
    <3>1. OutageKey(op[r]) \in StoreKeys
      BY <1>0, Keys
    <3>2. now' = now /\ (entries' = entries \/ entries' = Touch(entries, OutageKey(op[r]), now))
      BY <1>2 DEF Outage, Miss
    <3>3. QED
      BY <3>1, <3>2, CountKept
  <2>2. /\ op' = op /\ window' = window /\ seen' = seen
        /\ pc[r] \notin {"bumping", "bumped", "tripping"}
        /\ (Answer(r, "outage") /\ UNCHANGED at) \/ Proceed(r)
    BY <1>2 DEF Outage, Miss
  <2>3. /\ pc'[r] \notin {"bumping", "bumped", "tripping"}
        /\ \A q \in Requests \ {r} : pc'[q] = pc[q] /\ at'[q] = at[q]
    BY <2>2, ProceedMoves DEF TypeOK, Answer, GoTo
  <2>4. QED
    BY <2>1, <2>2, <2>3, CircuitApart
<1>3. ASSUME NEW r \in Requests, AskCircuit(r) PROVE CircuitInv'
  <2>1. at[r] \in Positions
    BY <1>3 DEF Placed, AskCircuit
  <2>2. Same
    BY <1>0, <1>3, <2>1, Keys, CountKept DEF AskCircuit, Asked
  <2>3. /\ op' = op /\ window' = window
        /\ pc[r] \notin {"bumping", "bumped", "tripping"}
        /\ pc'[r] \notin {"bumping", "bumped", "tripping"}
        /\ \A q \in Requests \ {r} : pc'[q] = pc[q] /\ at'[q] = at[q] /\ seen'[q] = seen[q]
    BY <1>3 DEF TypeOK, AskCircuit, Answer, GoTo
  <2>4. QED
    BY <2>2, <2>3, CircuitApart
<1>4. ASSUME NEW r \in Requests, Hit(r) PROVE CircuitInv'
  <2> DEFINE b == <<at[r], op[r]>>
             k == CountKey(at[r], op[r])
  <2>1. at[r] \in Positions /\ b \in Circuits /\ k \in StoreKeys
    BY <1>0, <1>4, Keys DEF Placed, Hit, Circuits
  <2>2. CASE CircuitOf(b) = NoCircuit
    <3>1. Answer(r, "rate") /\ UNCHANGED <<now, entries, op, at, seen, window>> /\ pc[r] = "rolling"
      BY <1>4, <2>2 DEF Hit
    <3>2. pc'[r] = "done" /\ \A q \in Requests \ {r} : pc'[q] = pc[q]
      BY <3>1 DEF TypeOK, Answer, GoTo
    <3>3. QED
      BY <3>1, <3>2, CircuitApart
  <2>3. CASE CircuitOf(b) # NoCircuit
    <3>1. /\ entries' = Touch(entries, k, now) /\ now' = now /\ op' = op /\ at' = at
          /\ seen' = [seen EXCEPT ![r] = Count(k)]
          /\ pc' = [pc EXCEPT ![r] = "bumping"] /\ pc[r] = "rolling"
          /\ window' = IF Counting(b) # {} THEN [window EXCEPT ![b] = Unknown] ELSE window
      BY <1>4, <2>3 DEF Hit, GoTo
    <3>2. Same
      BY <2>1, <3>1, CountKept
    <3>3. \A q \in Requests \ {r} : pc'[q] = pc[q] /\ at'[q] = at[q] /\ seen'[q] = seen[q]
      BY <3>1 DEF TypeOK
    <3>4. pc'[r] = "bumping" /\ seen'[r] = Count(k)
      BY <3>1 DEF TypeOK
    <3>5. ASSUME NEW c \in Circuits PROVE CircuitWell(c)'
      <4>1. /\ Counting(c) \ {r} = Counting(c)' \ {r}
            /\ r \notin Counting(c)
            /\ r \in Counting(c)' <=> c = b
            /\ c # b => Counting(c)' = Counting(c)
        BY <3>1, <3>3, <3>4, CountingAfter
      <4>2. CASE c # b
        <5>1. Counting(c)' = Counting(c) /\ window'[c] = window[c]
          BY <2>1, <3>1, <4>1, <4>2 DEF TypeOK
        <5>2. \A q \in Counting(c) : q \in Requests \ {r}
          BY <4>1 DEF Counting
        <5>3. QED
          BY <3>1, <3>2, <3>3, <5>1, <5>2, CircuitFrame DEF CircuitInv
      <4>3. CASE c = b /\ Counting(b) # {}
        BY <2>1, <3>1, <4>3 DEF TypeOK, CircuitWell
      <4>4. CASE c = b /\ Counting(b) = {}
        <5>1. window'[c] = window[c] /\ Counting(c)' = {r} /\ CountKey(c[1], c[2]) = k
          BY <3>1, <4>1, <4>4
        <5>2. Count(k) = LET e == Live(entries[CountKey(c[1], c[2])], now) IN
                         IF e = Absent THEN 0 ELSE e.value
          BY <5>1 DEF Count
        <5>3. window[c] # Unknown => window[c].n = Count(k)
          <6> DEFINE w == window[c]
                     e == Live(entries[CountKey(c[1], c[2])], now)
          <6>1. w # Unknown => /\ w \in [n : Nat, until : Nat]
                               /\ w.n = 0 => e = Absent
                               /\ w.n > 0 => e = [value |-> w.n, deadline |-> w.until]
            BY <1>0 DEF CircuitInv, CircuitWell
          <6>2. Count(k) = IF e = Absent THEN 0 ELSE e.value
            BY <5>2
          <6> HIDE DEF w, e
          <6>3. w # Unknown => w.n = Count(k)
            BY <1>0, <6>1, <6>2
          <6>4. QED
            BY <6>3 DEF w
        <5>4. QED
          BY <3>2, <3>4, <5>1, <5>3 DEF CircuitInv, CircuitWell
      <4>5. QED
        BY <4>2, <4>3, <4>4
    <3>6. QED
      BY <3>5 DEF CircuitInv, Circuits
  <2>4. QED
    BY <2>2, <2>3
<1>5. ASSUME NEW r \in Requests, Bump(r) PROVE CircuitInv'
  <2> DEFINE b == <<at[r], op[r]>>
             k == CountKey(at[r], op[r])
             within == CircuitOf(b).within
             e == Live(entries[k], now)
  <2>1. at[r] \in Positions /\ b \in Circuits /\ k \in StoreKeys /\ within \in Nat
    BY <1>0, <1>5, Keys DEF Placed, Bump, Circuits, CircuitOf, Circuit
  <2>2. /\ entries' = Bumped(k, seen[r], within) /\ now' = now /\ op' = op /\ at' = at
        /\ seen' = [seen EXCEPT ![r] = entries'[k].value]
        /\ pc' = [pc EXCEPT ![r] = "bumped"] /\ pc[r] = "bumping"
        /\ window' = [window EXCEPT ![b] = Tallied(window[b], seen[r], within)]
    BY <1>5 DEF Bump, GoTo
  <2>3. \A q \in Requests \ {r} : pc'[q] = pc[q] /\ at'[q] = at[q] /\ seen'[q] = seen[q]
    BY <2>2 DEF TypeOK
  <2>4. pc'[r] = "bumped" /\ seen'[r] = entries'[k].value
    BY <2>2 DEF TypeOK
  <2>5. ASSUME NEW c \in Circuits PROVE CircuitWell(c)'
    <3>1. Counting(c)' = Counting(c) /\ (r \in Counting(c) <=> c = b)
      BY <2>2, <2>3, <2>4, CountingAfter
    <3>2. CASE c # b
      <4>1. CountKey(c[1], c[2]) # k
        BY <1>0, <2>1, <3>2, CountApart
      <4>2. entries'[CountKey(c[1], c[2])] = entries[CountKey(c[1], c[2])]
        BY <2>1, <2>2, <4>1, CountKept DEF Bumped
      <4>3. \A q \in Counting(c) : q \in Requests \ {r}
        BY <3>1, <3>2 DEF Counting
      <4>4. window'[c] = window[c]
        BY <2>2, <3>2 DEF TypeOK
      <4>5. QED
        BY <2>2, <2>3, <3>1, <4>2, <4>3, <4>4, CircuitFrame DEF CircuitInv
    <3>3. CASE c = b
      <4> DEFINE w == window[b]
      <4>1. window'[c] = Tallied(w, seen[r], within) /\ CountKey(c[1], c[2]) = k
        BY <2>1, <2>2, <3>3 DEF TypeOK
      <4>2. SUFFICES ASSUME Tallied(w, seen[r], within) # Unknown PROVE CircuitWell(c)'
        BY <4>1 DEF CircuitWell
      <4>3. w # Unknown /\ ~(seen[r] > 0 /\ w.n = 0)
        BY <4>2 DEF Tallied
      <4>4. /\ w \in [n : Nat, until : Nat]
            /\ w.n = 0 => e = Absent
            /\ w.n > 0 => e = [value |-> w.n, deadline |-> w.until]
            /\ Counting(c) = {r} /\ w.n \in {0, seen[r]}
        BY <1>0, <2>1, <2>2, <3>1, <3>3, <4>3 DEF CircuitInv, CircuitWell
      <4>5. w.n = seen[r]
        BY <1>0, <4>3, <4>4
      <4>6. entries[k] \in Entry(Counts) \cup {Absent}
        BY <2>1 DEF TypeOK, EntryMap
      <4>7. CASE seen[r] = 0
        <5> DEFINE f == [value |-> 1, deadline |-> now + within]
        <5>1. entries'[k] = f /\ now + within \in Nat
          <6>0. entries' = Put(entries, k, 1, now, within)
            BY <2>2, <4>7 DEF Bumped
          <6>1. DeadlineAfter(now, within) = now + within
            <7> HIDE DEF within
            <7>1. QED
              BY <2>1 DEF DeadlineAfter
          <6>2. entries' = [entries EXCEPT ![k] = f]
            BY <6>0, <6>1 DEF Put
          <6>3. QED
            BY <1>0, <2>1, <6>2 DEF TypeOK, EntryMap
        <5>2. f # Absent /\ ~Expired(f, now)
          <6>1. now + within \in Nat /\ ~(now > now + within)
            BY <1>0, <2>1
          <6>2. f # Absent
            BY <1>0, <6>1
          <6>3. f.deadline = now + within
            OBVIOUS
          <6> HIDE DEF f
          <6>4. QED
            BY <6>1, <6>2, <6>3 DEF Expired
        <5>3. Live(entries'[k], now') = f
          BY <2>2, <5>1, <5>2 DEF Live
        <5>4. window'[c] = [n |-> 1, until |-> now + within]
          BY <4>1, <4>3, <4>7 DEF Tallied
        <5>5. window'[c] # Unknown /\ seen'[r] = 1 /\ Counting(c)' = {r}
          BY <2>4, <3>1, <4>1, <4>2, <4>4, <5>1
        <5> HIDE DEF f, k
        <5>6. QED
          BY <4>1, <5>3, <5>4, <5>5 DEF f, CircuitWell
      <4>8. CASE seen[r] # 0
        <5> DEFINE f == [value |-> w.n + 1, deadline |-> w.until]
        <5>1. e = [value |-> w.n, deadline |-> w.until] /\ e # Absent
          BY <1>0, <4>4, <4>5, <4>8
        <5>2. ~Expired(entries[k], now) /\ e = entries[k]
          BY <5>1 DEF Live
        <5>3. f # Absent /\ ~Expired(f, now)
          <6>1. w.n + 1 \in Nat /\ w.until \in Nat
            BY <4>4
          <6>2. f # Absent
            BY <1>0, <6>1
          <6>3. f.deadline = w.until /\ e.deadline = w.until
            BY <5>1
          <6>4. ~(now > w.until)
            <7>1. e # Absent /\ e.deadline # Never /\ ~Expired(e, now)
              BY <5>1, <5>2, <6>1, <6>3
            <7> HIDE DEF e, w
            <7>2. QED
              BY <6>3, <7>1 DEF Expired
          <6> HIDE DEF f
          <6>5. QED
            BY <6>2, <6>3, <6>4 DEF Expired
        <5>4. [e EXCEPT !.value = @ + 1] = f
          BY <5>1
        <5>5. entries' = Incremented(k)
          BY <2>2, <4>8 DEF Bumped
        <5>6. entries'[k] = f
          BY <2>1, <5>1, <5>4, <5>5 DEF Incremented, TypeOK, EntryMap
        <5>7. Live(entries'[k], now') = f
          BY <2>2, <5>3, <5>6 DEF Live
        <5>8. Tallied(w, seen[r], within) = [w EXCEPT !.n = @ + 1]
          BY <4>3, <4>8 DEF Tallied
        <5>9. window'[c].n = w.n + 1 /\ window'[c].until = w.until
          BY <4>1, <4>4, <5>8
        <5>10. window'[c] # Unknown /\ seen'[r] = w.n + 1 /\ Counting(c)' = {r}
          BY <2>4, <3>1, <4>1, <4>2, <4>4, <5>6
        <5> HIDE DEF f, k, w
        <5>11. w.n + 1 > 0
          BY <4>4
        <5>12. QED
          BY <4>1, <5>7, <5>9, <5>10, <5>11 DEF f, CircuitWell
      <4>9. QED
        BY <4>7, <4>8
    <3>4. QED
      BY <3>2, <3>3
  <2>6. QED
    BY <2>5 DEF CircuitInv, Circuits
<1>6. ASSUME NEW r \in Requests, BelowLimit(r) PROVE CircuitInv'
  <2> DEFINE b == <<at[r], op[r]>>
  <2>1. /\ UNCHANGED <<now, entries, op, at, window>> /\ pc[r] = "bumped"
        /\ ~(seen[r] >= CircuitOf(b).after)
        /\ pc'[r] = "done"
        /\ \A q \in Requests \ {r} : pc'[q] = pc[q] /\ at'[q] = at[q] /\ seen'[q] = seen[q]
    BY <1>6 DEF TypeOK, BelowLimit, Reached, Answer, GoTo
  <2>2. at[r] \in Positions /\ CircuitOf(b).after \in Nat
    BY <2>1 DEF Placed, CircuitOf, Circuit
  <2>3. ASSUME NEW c \in Circuits PROVE CircuitWell(c)'
    <3>1. /\ Counting(c) \ {r} = Counting(c)' \ {r} /\ r \notin Counting(c)'
          /\ r \in Counting(c) <=> c = b
          /\ c # b => Counting(c)' = Counting(c)
      BY <2>1, CountingAfter
    <3>2. CASE c # b
      <4>1. Counting(c)' = Counting(c)
        BY <3>1, <3>2
      <4>2. \A q \in Counting(c) : q \in Requests \ {r}
        BY <3>1, <3>2 DEF Counting
      <4>3. QED
        BY <2>1, <4>1, <4>2, CircuitFrame DEF CircuitInv
    <3>3. CASE c = b
      <4>1. window[c] # Unknown => /\ Counting(c)' = {}
                                   /\ window[c].n = 0 \/ window[c].n < CircuitOf(c).after
        <5>1. ASSUME window[c] # Unknown
              PROVE  /\ Counting(c) = {r} /\ window[c].n \in {0, seen[r]}
          BY <2>1, <3>1, <3>3, <5>1 DEF CircuitInv, CircuitWell
        <5>2. seen[r] < CircuitOf(b).after
          BY <1>0, <2>1, <2>2
        <5>3. QED
          BY <3>1, <3>3, <5>1, <5>2
      <4>2. Live(entries[CountKey(c[1], c[2])], now)' = Live(entries[CountKey(c[1], c[2])], now)
        BY <2>1
      <4>3. QED
        BY <2>1, <4>1, <4>2 DEF CircuitInv, CircuitWell, CircuitOf
    <3>4. QED
      BY <3>2, <3>3
  <2>4. QED
    BY <2>3 DEF CircuitInv, Circuits
<1>7. ASSUME NEW r \in Requests, Trip(r) PROVE CircuitInv'
  <2> DEFINE k == OpenKey(at[r], op[r])
  <2>1. at[r] \in Positions /\ k \in StoreKeys
    BY <1>0, <1>7, Keys DEF Placed, Trip
  <2>2. /\ UNCHANGED <<now, op, at, seen, window>> /\ pc[r] = "bumped"
        /\ pc'[r] = "tripping"
        /\ \A q \in Requests \ {r} : pc'[q] = pc[q]
        /\ \E ttl : entries' = Put(entries, k, 1, now, ttl)
    BY <1>7 DEF TypeOK, Trip, Opened, GoTo
  <2>3. \A c \in Circuits : CountKey(c[1], c[2]) # k
    BY <1>0, <2>1, CountApart
  <2>4. Same
    BY <2>1, <2>2, <2>3, CountKept
  <2>5. \A c \in Circuits : Counting(c)' = Counting(c)
    BY <2>2 DEF Counting
  <2>6. \A q \in Requests : pc'[q] = pc[q] \/ pc'[q] = "tripping"
    BY <2>2
  <2>7. ASSUME NEW c \in Circuits PROVE CircuitWell(c)'
    BY <2>2, <2>4, <2>5, <2>6, CircuitFrame DEF CircuitInv, Counting
  <2>8. QED
    BY <2>7 DEF CircuitInv, Circuits
<1>8. ASSUME NEW r \in Requests, Forget(r) PROVE CircuitInv'
  <2> DEFINE b == <<at[r], op[r]>>
             k == CountKey(at[r], op[r])
  <2>1. at[r] \in Positions /\ b \in Circuits /\ k \in StoreKeys
    BY <1>0, <1>8, Keys DEF Placed, Forget, Circuits
  <2>2. /\ UNCHANGED <<now, op, at>> /\ pc[r] = "tripping"
        /\ entries' = Drop(entries, k)
        /\ window' = IF window[b] = Unknown THEN window ELSE [window EXCEPT ![b] = Closed]
        /\ pc'[r] = "done"
        /\ \A q \in Requests \ {r} : pc'[q] = pc[q] /\ at'[q] = at[q] /\ seen'[q] = seen[q]
    BY <1>8 DEF TypeOK, Forget, Answer, GoTo
  <2>3. ASSUME NEW c \in Circuits PROVE CircuitWell(c)'
    <3>1. /\ Counting(c) \ {r} = Counting(c)' \ {r} /\ r \notin Counting(c)'
          /\ r \in Counting(c) <=> c = b
          /\ c # b => Counting(c)' = Counting(c)
      BY <2>2, CountingAfter
    <3>2. CASE c # b
      <4>1. CountKey(c[1], c[2]) # k
        BY <1>0, <2>1, <3>2, CountApart
      <4>2. entries'[CountKey(c[1], c[2])] = entries[CountKey(c[1], c[2])]
        BY <2>1, <2>2, <4>1, CountKept
      <4>3. \A q \in Counting(c) : q \in Requests \ {r}
        BY <3>1, <3>2 DEF Counting
      <4>4. Counting(c)' = Counting(c)
        BY <3>1, <3>2
      <4>5. window'[c] = window[c]
        BY <2>2, <3>2 DEF TypeOK
      <4>6. QED
        BY <2>2, <4>2, <4>3, <4>4, <4>5, CircuitFrame DEF CircuitInv
    <3>3. CASE c = b
      <4>1. CountKey(c[1], c[2]) = k /\ entries'[k] = Absent
        BY <2>1, <2>2, <3>3 DEF TypeOK, EntryMap, Drop
      <4>2. Live(entries'[k], now') = Absent
        BY <4>1 DEF Live
      <4>3. CASE window[b] = Unknown
        BY <2>2, <3>3, <4>3 DEF CircuitWell
      <4>4. CASE window[b] # Unknown
        <5>1. window'[c] = Closed /\ Counting(c)' = {}
          <6>1. window'[c] = Closed
            BY <2>1, <2>2, <3>3, <4>4 DEF TypeOK
          <6>2. Counting(c) = {r}
            BY <3>1, <3>3, <4>4 DEF CircuitInv, CircuitWell
          <6>3. QED
            BY <3>1, <6>1, <6>2
        <5> HIDE DEF k
        <5>2. QED
          BY <4>1, <4>2, <5>1 DEF Closed, CircuitWell
      <4>5. QED
        BY <4>3, <4>4
    <3>4. QED
      BY <3>2, <3>3
  <2>4. QED
    BY <2>3 DEF CircuitInv, Circuits
<1>9. ASSUME NEW o \in Operations, NEW v, NEW ttl,
             UNCHANGED <<now, op, pc, at, seen, window>>,
             \/ entries' = Put(entries, FailNextKey(o), v, now, ttl)
             \/ entries' = Put(entries, OutageKey(o), v, now, ttl)
      PROVE  CircuitInv'
  <2>1. /\ FailNextKey(o) \in StoreKeys /\ OutageKey(o) \in StoreKeys
        /\ \A c \in Circuits : /\ CountKey(c[1], c[2]) # FailNextKey(o)
                               /\ CountKey(c[1], c[2]) # OutageKey(o)
    BY Keys, CountApart DEF Circuits
  <2>2. Same
    BY <1>9, <2>1, CountKept
  <2>3. \A c \in Circuits : Counting(c)' = Counting(c)
    BY <1>9 DEF Counting
  <2>4. ASSUME NEW c \in Circuits PROVE CircuitWell(c)'
    BY <1>9, <2>2, <2>3, CircuitFrame DEF CircuitInv
  <2>5. QED
    BY <2>4 DEF CircuitInv, Circuits
<1>10. CASE Reset
  <2>1. ASSUME NEW c \in Circuits PROVE CircuitWell(c)'
    <3>1. /\ entries'[CountKey(c[1], c[2])] = Absent
          /\ window'[c] = IF Counting(c) # {} THEN Unknown ELSE Closed
          /\ Counting(c)' = Counting(c)
      BY <1>10, Keys DEF Reset, Counting, Circuits
    <3>2. Live(entries'[CountKey(c[1], c[2])], now') = Absent
      BY <3>1 DEF Live
    <3>3. CASE Counting(c) # {}
      BY <3>1, <3>3 DEF CircuitWell
    <3>4. CASE Counting(c) = {}
      BY <3>1, <3>2, <3>4 DEF Closed, CircuitWell
    <3>5. QED
      BY <3>3, <3>4
  <2>2. QED
    BY <2>1 DEF CircuitInv, Circuits
<1>11. CASE Tick
  <2>1. ASSUME NEW c \in Circuits PROVE CircuitWell(c)'
    <3> DEFINE w == window[c]
               x == entries[CountKey(c[1], c[2])]
    <3>1. /\ now' = now + 1 /\ UNCHANGED <<entries, op, pc, at, seen>>
          /\ window'[c] = Ended(w, now + 1)
          /\ Counting(c)' = Counting(c)
      BY <1>11 DEF Tick, Counting
    <3>2. x \in Entry(Nat) \cup {Absent}
      BY Keys DEF TypeOK, EntryMap, Circuits, Counts
    <3>3. CASE w = Unknown
      BY <3>1, <3>3 DEF Ended, CircuitWell
    <3>4. CASE w # Unknown
      <4>1. /\ w \in [n : Nat, until : Nat]
            /\ w.n = 0 => Live(x, now) = Absent
            /\ w.n > 0 => Live(x, now) = [value |-> w.n, deadline |-> w.until]
            /\ Counting(c) = {} => w.n = 0 \/ w.n < CircuitOf(c).after
            /\ \A r \in Counting(c) : /\ Counting(c) = {r}
                                      /\ pc[r] \in {"bumping", "bumped"} => w.n \in {0, seen[r]}
        BY <1>0, <3>4 DEF CircuitInv, CircuitWell
      <4>2. Live(x, now) = Absent => Live(x, now + 1) = Absent
        BY <1>0, <3>2 DEF Live, Expired, Entry, Deadline
      <4>3. CASE now + 1 > w.until
        <5>1. Live(x, now + 1) = Absent
          <6>1. CASE w.n = 0
            BY <4>1, <4>2, <6>1
          <6>2. CASE w.n > 0
            <7>1. Live(x, now) # Absent /\ Live(x, now).deadline = w.until
              BY <1>0, <4>1, <6>2
            <7>2. x # Absent /\ x.deadline = w.until
              BY <7>1 DEF Live
            <7>3. w.until \in Nat
              BY <4>1
            <7>4. w.until # Never
              BY <7>3
            <7> HIDE DEF w, x
            <7>5. QED
              BY <4>3, <7>2, <7>4 DEF Live, Expired
          <6>3. QED
            BY <4>1, <6>1, <6>2
        <5>2. window'[c] = Closed
          BY <3>1, <3>4, <4>3 DEF Ended
        <5>3. QED
          BY <3>1, <4>1, <5>1, <5>2 DEF Closed, CircuitWell
      <4>4. CASE ~(now + 1 > w.until)
        <5>1. w.n > 0 => Live(x, now + 1) = Live(x, now)
          BY <1>0, <3>2, <4>1, <4>4 DEF Live, Expired, Entry, Deadline
        <5>2. window'[c] = w
          BY <3>1, <4>4 DEF Ended
        <5>3. QED
          BY <3>1, <4>1, <4>2, <5>1, <5>2 DEF CircuitWell, CircuitOf
      <4>5. QED
        BY <4>3, <4>4
    <3>5. QED
      BY <3>3, <3>4
  <2>2. QED
    BY <2>1 DEF CircuitInv, Circuits
<1>12. CASE UNCHANGED vars
  <2>1. ASSUME NEW c \in Circuits PROVE CircuitWell(c)'
    BY <1>12, CircuitFrame DEF CircuitInv, vars, Counting
  <2>2. QED
    BY <2>1 DEF CircuitInv, Circuits
<1>13. ASSUME NEW o \in Operations, NEW times \in 1 .. MaxTimes, FailNext(o, times)
       PROVE  CircuitInv'
  BY <1>9, <1>13 DEF FailNext
<1>14. ASSUME NEW o \in Operations, StartOutage(o) PROVE CircuitInv'
  BY <1>9, <1>14 DEF StartOutage
<1>15. QED
  BY <1>1, <1>2, <1>3, <1>4, <1>5, <1>6, <1>7, <1>8, <1>10, <1>11, <1>12, <1>13,
     <1>14 DEF Next

-----------------------------------------------------------------------------
\* At the start nothing is armed, open or under way.
LEMMA Initially == Init => IInv
<1> SUFFICES ASSUME Init PROVE IInv
  OBVIOUS
<1>0. N \in Nat
  BY DEF N
<1>1. \A k \in StoreKeys : entries[k] = Absent
  BY DEF Init
<1>2. TypeOK
  BY <1>0 DEF Init, TypeOK, PC, Outcomes, Counts, Closed, EntryMap
<1>3. Placed
  BY DEF Init, Placed
<1>4. ArmedWell
  BY <1>1, Keys DEF ArmedWell
<1>5. ShootersExact
  BY DEF Init, ShootersExact, Shooters
<1>6. FailNextExact
  BY <1>1, Keys DEF Init, FailNextExact, Count, Live, Expired
<1>7. OpenWell
  BY <1>1, Keys DEF Init, OpenWell, Timed, Runs, Circuits
<1>8. QED
  BY <1>2, <1>3, <1>4, <1>5, <1>6, <1>7 DEF IInv

\* The inductive invariant.
THEOREM Invariance == Spec => []IInv
<1>1. IInv /\ [Next]_vars => IInv'
  BY TypeStep, ArmedStep, OpenStep DEF IInv
<1>2. QED
  BY <1>1, Initially, PTL DEF Spec

\* The type invariant.
THEOREM TypeCorrect == Spec => []TypeOK
BY Invariance, PTL DEF IInv

\* Armed failures are neither lost nor repeated, unless two calls meet between a
\* read and its write.
THEOREM ArmedExactly == Spec => []FailNextExact
BY Invariance, PTL DEF IInv

\* A circuit is open from its last trip for its openFor, to the instant, and an
\* operation is down from its last outage() call for its forMs.
THEOREM OpenFromTripToEnd == Spec => []OpenSinceTripped
<1>1. IInv => OpenSinceTripped
  BY OpenExactly DEF IInv
<1>2. QED
  BY <1>1, Invariance, PTL

\* A request is told that a circuit is open only if its policy was tripped for its
\* operation.
THEOREM OpeningsHaveCause == Spec => []OpenHasCause
<1>1. Init => CauseInv
  <2> SUFFICES ASSUME Init PROVE CauseInv
    OBVIOUS
  <2>1. \A i \in Positions, o \in Operations : entries[OpenKey(i, o)] = Absent
    BY Keys DEF Init
  <2>2. QED
    BY <2>1 DEF Init, CauseInv, OutcomesLast, OpenCaused, OpenHasCause
<1>2. IInv /\ CauseInv /\ [Next]_vars => CauseInv'
  BY CauseStep DEF IInv
<1>3. CauseInv => OpenHasCause
  BY DEF CauseInv
<1>4. QED
  BY <1>1, <1>2, <1>3, Invariance, PTL DEF Spec

\* Unless two requests meet between a read and a write, or the window ends there,
\* a circuit counts the failures of its window and has tripped at its limit.
THEOREM CircuitsCountExactly == Spec => []CircuitExact
<1>1. Init => CircuitInv
  <2> SUFFICES ASSUME Init, NEW c \in Circuits PROVE CircuitWell(c)
    BY DEF CircuitInv
  <2>1. Live(entries[CountKey(c[1], c[2])], now) = Absent
    BY Keys DEF Init, Live, Circuits
  <2>2. window[c] = Closed /\ Counting(c) = {}
    BY DEF Init, Counting
  <2>3. QED
    BY <2>1, <2>2 DEF CircuitWell, Closed
<1>2. IInv /\ CircuitInv /\ [Next]_vars => CircuitInv'
  BY CircuitStep DEF IInv
<1>3. CircuitInv => CircuitExact
  BY DEF CircuitInv, CircuitWell, CircuitExact
<1>4. QED
  BY <1>1, <1>2, <1>3, Invariance, PTL DEF Spec
=============================================================================
