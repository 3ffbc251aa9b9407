-------------------------- MODULE IdempotencyProofs --------------------------
(***************************************************************************)
(* The claim is exclusive while it lasts, exits keep to their own entries, *)
(* and every decision has its cause, for any set of requests, keys, routes *)
(* and bodies, any scope and any TTLs.                                     *)
(*                                                                         *)
(* The inductive invariant joins two views of the Store.  From a request:  *)
(* a holder that has not lost its entry finds it there (HoldersAccounted). *)
(* From an entry: it was written by a request of that key that claimed it  *)
(* and, when it is a record, by its own exit (EntriesOwned).               *)
(***************************************************************************)
EXTENDS Announcements, TLAPS

EntriesOwned ==
  \A k \in RecordKeys :
    entries[k] # Absent =>
      LET v == entries[k].value IN
      /\ Claimed(v.by)
      /\ KeyOf(v.by) = k
      /\ v.fingerprint = req[v.by].body
      /\ v.state = "done" => pc[v.by] = "recorded" /\ outcome[v.by] = "answer"

\* No request has a decision before it has claimed or looked.
UndecidedBefore == \A r \in Requests : pc[r] \in {"idle", "looking"} => decision[r] = "none"

\* Only a request that claimed is between its claim and its exit's write.
ProducedClaimed ==
  \A r \in Requests : pc[r] \in {"produced", "recorded"} => Claimed(r)

\* Only a request with a key has claimed one or looks under it.
LookersKeyed == \A r \in Requests : pc[r] = "looking" => req[r].key # NoKey
ClaimantsKeyed == \A r \in Requests : Claimed(r) => req[r].key # NoKey

IInv == /\ TypeOK
        /\ HoldersAccounted
        /\ EntriesOwned
        /\ UndecidedBefore
        /\ ProducedClaimed
        /\ LookersKeyed
        /\ ClaimantsKeyed
        /\ DecisionsHaveCause

USE NeverAssumption, ScopeAssumption, TtlAssumption, NamesAssumption,
    WorkloadsAssumption, AbsentAssumption, NoKeyAssumption

\* A record key is in the domain of the Store.
LEMMA KeyOfType ==
  ASSUME req \in [Requests -> Request], NEW r \in Requests
  PROVE  KeyOf(r) \in RecordKeys
BY DEF KeyOf, RecordKey, RecordKeys, Request

\* Requests with one record key agree on what the scope compares.
LEMMA KeyOfScope ==
  ASSUME NEW r \in Requests, NEW s \in Requests, KeyOf(r) = KeyOf(s)
  PROVE  SameScope(r, s)
BY DEF KeyOf, RecordKey, SameScope

\* Entries made by the Store operators are entries.
LEMMA EntryTypes ==
  ASSUME NEW k \in RecordKeys, NEW v \in IdempotencyEntry, TypeOK
  PROVE  /\ Put(entries, k, v, now, Ttl) \in EntryMap(RecordKeys, IdempotencyEntry)
         /\ Put(entries, k, v, now, InFlightTtl) \in EntryMap(RecordKeys, IdempotencyEntry)
         /\ Touch(entries, k, now) \in EntryMap(RecordKeys, IdempotencyEntry)
         /\ Drop(entries, k) \in EntryMap(RecordKeys, IdempotencyEntry)
BY DEF TypeOK, Put, Touch, Drop, Live, EntryMap, Entry, Deadline, DeadlineAfter

\* Every step keeps the types.
LEMMA TypeStep == TypeOK /\ [Next]_vars => TypeOK'
<1> SUFFICES ASSUME TypeOK, [Next]_vars PROVE TypeOK'
  OBVIOUS
<1>0. \A r \in Requests : /\ KeyOf(r) \in RecordKeys
                          /\ InFlight(req[r].body, r) \in IdempotencyEntry
                          /\ Done(req[r].body, r) \in IdempotencyEntry
  BY KeyOfType DEF TypeOK, InFlight, Done, IdempotencyEntry, Request
<1>1. ASSUME NEW r \in Requests, Unkeyed(r) PROVE TypeOK'
  BY <1>1 DEF TypeOK, Unkeyed, PC
<1>2. ASSUME NEW r \in Requests, ClaimWon(r) PROVE TypeOK'
  <2>1. entries' \in EntryMap(RecordKeys, IdempotencyEntry)
    BY <1>0, <1>2, EntryTypes DEF ClaimWon, Mark
  <2>2. QED
    BY <1>2, <2>1 DEF TypeOK, ClaimWon, PC
<1>3. ASSUME NEW r \in Requests, ClaimLost(r) PROVE TypeOK'
  BY <1>3 DEF TypeOK, ClaimLost, PC
<1>4. ASSUME NEW r \in Requests, Lookup(r) PROVE TypeOK'
  <2>1. entries' \in EntryMap(RecordKeys, IdempotencyEntry)
    BY <1>0, <1>4, EntryTypes DEF Lookup
  <2>2. ASSUME Live(entries[KeyOf(r)], now) # Absent
        PROVE  Live(entries[KeyOf(r)], now).value.by \in Requests
    BY <1>0, <2>2 DEF TypeOK, Live, EntryMap, Entry, IdempotencyEntry
  <2>3. pc' \in [Requests -> PC] /\ now' = now /\ req' = req /\ outcome' = outcome /\ lost' = lost
    BY <1>4 DEF TypeOK, Lookup, PC
  <2>4. decision' \in [Requests -> {"none", "first", "mismatch", "in-flight", "replayed"}]
    BY <1>4 DEF TypeOK, Lookup
  <2>5. source' \in [Requests -> Requests \cup {Nobody}]
    BY <1>4, <2>2 DEF TypeOK, Lookup
  <2>6. QED
    BY <2>1, <2>3, <2>4, <2>5 DEF TypeOK
<1>5. ASSUME NEW r \in Requests, NEW o \in Outcomes, Produce(r, o) PROVE TypeOK'
  BY <1>5 DEF TypeOK, Produce, PC
<1>6. ASSUME NEW r \in Requests, ProduceUnclaimed(r) PROVE TypeOK'
  BY <1>6 DEF TypeOK, ProduceUnclaimed, PC
<1>7. ASSUME NEW r \in Requests PROVE Displaced(r) \subseteq Requests
  BY <1>0, <1>7 DEF TypeOK, Displaced, EntryMap, Entry, IdempotencyEntry
<1>8. ASSUME NEW r \in Requests, Record(r) PROVE TypeOK'
  <2>1. entries' \in EntryMap(RecordKeys, IdempotencyEntry)
    BY <1>0, <1>8, EntryTypes DEF Record
  <2>2. QED
    BY <1>7, <1>8, <2>1 DEF TypeOK, Record, PC
<1>9. ASSUME NEW r \in Requests, Release(r) PROVE TypeOK'
  <2>1. entries' \in EntryMap(RecordKeys, IdempotencyEntry)
    BY <1>0, <1>9, EntryTypes DEF Release
  <2>2. QED
    BY <1>7, <1>9, <2>1 DEF TypeOK, Release, PC
<1>10. ASSUME NEW r \in Requests, WriteFails(r) PROVE TypeOK'
  BY <1>10 DEF TypeOK, WriteFails, PC
<1>11. CASE Reset
  BY <1>11 DEF TypeOK, Reset, EntryMap
<1>12. CASE Tick
  BY <1>12 DEF TypeOK, Tick
<1>13. CASE UNCHANGED vars
  BY <1>13 DEF TypeOK, vars
<1>14. QED
  BY <1>1, <1>2, <1>3, <1>4, <1>5, <1>6, <1>8, <1>9, <1>10, <1>11, <1>12, <1>13 DEF Next

-----------------------------------------------------------------------------
\* Requests keep their key, so a record key is the same before and after a step.
LEMMA KeyStable == [Next]_vars => req' = req /\ \A r \in Requests : KeyOf(r)' = KeyOf(r)
BY DEF Next, vars, KeyOf, Unkeyed, ClaimWon, ClaimLost, Lookup, Produce,
       ProduceUnclaimed, Record, Release, WriteFails, Reset, Tick

\* Who wrote what a request holds.
LEMMA HoldingBy ==
  ASSUME NEW r \in Requests
  PROVE  /\ Holding(r).by = r
         /\ InFlight(req[r].body, r).by = r
         /\ Done(req[r].body, r).by = r
BY DEF Holding, InFlight, Done

\* A holder finds its entry after every step, unless the step took it away.
LEMMA HoldersStep == IInv /\ [Next]_vars => HoldersAccounted'
<1> SUFFICES ASSUME IInv, [Next]_vars, NEW h \in Requests, Holds(h)', h \notin lost'
             PROVE  Accounted(h)'
  BY DEF HoldersAccounted
<1> USE DEF IInv, TypeOK, Holds, Claimed
<1>0. req' = req /\ KeyOf(h)' = KeyOf(h) /\ KeyOf(h) \in RecordKeys
  BY KeyStable, KeyOfType
<1>1. Holds(h) /\ h \notin lost => Accounted(h)
  BY DEF HoldersAccounted
\* h stands where it stood, and so do its entry and the clock
<1>2. ASSUME Holds(h), h \notin lost, now' = now,
             entries'[KeyOf(h)] = entries[KeyOf(h)],
             pc'[h] = "recorded" <=> pc[h] = "recorded"
      PROVE  Accounted(h)'
  BY <1>0, <1>1, <1>2 DEF Accounted, Holding
<1>3. ASSUME NEW r \in Requests, Unkeyed(r) PROVE Accounted(h)'
  BY <1>2, <1>3 DEF Unkeyed, UndecidedBefore
<1>4. ASSUME NEW r \in Requests, ClaimWon(r) PROVE Accounted(h)'
  <2>1. CASE h = r
    <3>1. entries'[KeyOf(h)] = [value |-> InFlight(req[h].body, h),
                                deadline |-> now + InFlightTtl]
      BY <1>0, <1>4, <2>1
         DEF ClaimWon, Mark, Put, DeadlineAfter, EntryMap
    <3>2. InFlight(req[h].body, h) \in IdempotencyEntry
      BY DEF InFlight, IdempotencyEntry, Request
    <3>3. entries'[KeyOf(h)] \in Entry(IdempotencyEntry)
      BY <3>1, <3>2 DEF Entry, Deadline
    <3>4. Holding(h)' = InFlight(req[h].body, h)
      BY <1>0, <1>4, <2>1 DEF ClaimWon, Holding
    <3>5. QED
      BY <1>0, <1>4, <3>1, <3>3, <3>4 DEF ClaimWon, Accounted, Expired
  <2>2. CASE h # r
    <3>1. Holds(h) /\ h \notin lost /\ now' = now /\ pc'[h] = pc[h]
      BY <1>4, <2>2 DEF ClaimWon
    <3>2. KeyOf(r) # KeyOf(h)
      BY <1>1, <1>4, <3>1 DEF ClaimWon, ClaimFree, Vacant, Live, Accounted
    <3>3. entries'[KeyOf(h)] = entries[KeyOf(h)]
      BY <1>0, <1>4, <3>2 DEF ClaimWon, Mark, Put, EntryMap
    <3>4. QED
      BY <1>2, <3>1, <3>3
  <2>3. QED
    BY <2>1, <2>2
<1>5. ASSUME NEW r \in Requests, ClaimLost(r) PROVE Accounted(h)'
  BY <1>2, <1>5 DEF ClaimLost
<1>6. ASSUME NEW r \in Requests, Lookup(r) PROVE Accounted(h)'
  <2>1. decision[r] = "none"
    BY <1>6 DEF Lookup, UndecidedBefore
  <2>2. h # r /\ Holds(h) /\ h \notin lost /\ now' = now /\ pc'[h] = pc[h]
    BY <1>6, <2>1 DEF Lookup
  <2>3. entries'[KeyOf(h)] = entries[KeyOf(h)]
    BY <1>0, <1>1, <1>6, <2>2 DEF Lookup, Touch, Live, Accounted, EntryMap
  <2>4. QED
    BY <1>2, <2>2, <2>3
<1>7. ASSUME NEW r \in Requests, NEW o \in Outcomes, Produce(r, o) PROVE Accounted(h)'
  BY <1>2, <1>7 DEF Produce
<1>8. ASSUME NEW r \in Requests, ProduceUnclaimed(r) PROVE Accounted(h)'
  BY <1>2, <1>8 DEF ProduceUnclaimed
<1>9. ASSUME NEW r \in Requests, Record(r) PROVE Accounted(h)'
  <2>1. CASE h = r
    <3>1. entries'[KeyOf(h)] = [value |-> Done(req[h].body, h), deadline |-> now + Ttl]
      BY <1>0, <1>9, <2>1 DEF Record, Put, DeadlineAfter, EntryMap
    <3>2. Done(req[h].body, h) \in IdempotencyEntry
      BY DEF Done, IdempotencyEntry, Request
    <3>3. entries'[KeyOf(h)] \in Entry(IdempotencyEntry)
      BY <3>1, <3>2 DEF Entry, Deadline
    <3>4. Holding(h)' = Done(req[h].body, h)
      BY <1>0, <1>9, <2>1 DEF Record, Holding
    <3>5. QED
      BY <1>0, <1>9, <3>1, <3>3, <3>4 DEF Record, Accounted, Expired
  <2>2. CASE h # r
    <3>1. Holds(h) /\ h \notin lost /\ h \notin Displaced(r) /\ now' = now /\ pc'[h] = pc[h]
      BY <1>9, <2>2 DEF Record
    <3>2. KeyOf(r) # KeyOf(h)
      BY <1>1, <2>2, <3>1, HoldingBy DEF Displaced, Accounted
    <3>3. entries'[KeyOf(h)] = entries[KeyOf(h)]
      BY <1>0, <1>9, <3>2 DEF Record, Put, EntryMap
    <3>4. QED
      BY <1>2, <3>1, <3>3
  <2>3. QED
    BY <2>1, <2>2
<1>10. ASSUME NEW r \in Requests, Release(r) PROVE Accounted(h)'
  <2>1. h # r /\ Holds(h) /\ h \notin lost /\ h \notin Displaced(r) /\ now' = now /\ pc'[h] = pc[h]
    BY <1>10 DEF Release
  <2>2. KeyOf(r) # KeyOf(h)
    BY <1>1, <2>1, HoldingBy DEF Displaced, Accounted
  <2>3. entries'[KeyOf(h)] = entries[KeyOf(h)]
    BY <1>0, <1>10, <2>2 DEF Release, Drop, EntryMap
  <2>4. QED
    BY <1>2, <2>1, <2>3
<1>11. ASSUME NEW r \in Requests, WriteFails(r) PROVE Accounted(h)'
  BY <1>2, <1>11 DEF WriteFails
<1>12. CASE Reset
  BY <1>12 DEF Reset
<1>13. CASE Tick
  <2>1. Holds(h) /\ h \notin lost /\ entries' = entries /\ pc' = pc
    BY <1>13 DEF Tick
  <2>2. Accounted(h)
    BY <1>1, <2>1
  <2>3. entries[KeyOf(h)].value.by = h
    BY <2>2, HoldingBy DEF Accounted
  <2>4. ~Expired(entries[KeyOf(h)], now')
    BY <1>0, <1>13, <2>3 DEF Tick
  <2>5. QED
    BY <1>0, <2>1, <2>2, <2>4 DEF Accounted, Holding
<1>14. CASE UNCHANGED vars
  BY <1>2, <1>14 DEF vars
<1>15. QED
  BY <1>3, <1>4, <1>5, <1>6, <1>7, <1>8, <1>9, <1>10, <1>11, <1>12, <1>13, <1>14 DEF Next

-----------------------------------------------------------------------------
\* An entry a step leaves in place keeps its owner's standing; an entry a step
\* makes is the writer's own.
LEMMA OwnersStep == IInv /\ [Next]_vars => EntriesOwned'
<1> DEFINE Owned(v, k) == /\ Claimed(v.by)
                          /\ KeyOf(v.by) = k
                          /\ v.fingerprint = req[v.by].body
                          /\ v.state = "done" => pc[v.by] = "recorded" /\ outcome[v.by] = "answer"
<1> SUFFICES ASSUME IInv, [Next]_vars, NEW k \in RecordKeys, entries'[k] # Absent
             PROVE  Owned(entries[k].value, k)'
  BY DEF EntriesOwned
<1> USE DEF IInv, TypeOK, Claimed
<1>0. req' = req /\ \A r \in Requests : KeyOf(r)' = KeyOf(r) /\ KeyOf(r) \in RecordKeys
  BY KeyStable, KeyOfType
<1>1. entries[k] # Absent => Owned(entries[k].value, k) /\ entries[k].value.by \in Requests
  BY DEF EntriesOwned, EntryMap, Entry, IdempotencyEntry
\* the entry was there, and its owner keeps its claim and its record
<1>2. ASSUME entries'[k] = entries[k],
             \A s \in Requests :
               Claimed(s) => /\ decision'[s] = "first"
                             /\ pc[s] = "recorded" => /\ pc'[s] = "recorded"
                                                      /\ outcome'[s] = outcome[s]
      PROVE  Owned(entries[k].value, k)'
  BY <1>0, <1>1, <1>2
<1>3. ASSUME NEW r \in Requests, Unkeyed(r) PROVE Owned(entries[k].value, k)'
  BY <1>2, <1>3 DEF Unkeyed
<1>4. ASSUME NEW r \in Requests, ClaimWon(r) PROVE Owned(entries[k].value, k)'
  <2>1. CASE k = KeyOf(r)
    <3>1. entries'[k].value = InFlight(req[r].body, r)
      BY <1>4, <2>1 DEF ClaimWon, Mark, Put, EntryMap
    <3>2. decision'[r] = "first"
      BY <1>4 DEF ClaimWon
    <3>3. QED
      BY <1>0, <2>1, <3>1, <3>2 DEF InFlight
  <2>2. CASE k # KeyOf(r)
    BY <1>2, <1>4, <2>2 DEF ClaimWon, Mark, Put, EntryMap
  <2>3. QED
    BY <2>1, <2>2
<1>5. ASSUME NEW r \in Requests, ClaimLost(r) PROVE Owned(entries[k].value, k)'
  BY <1>2, <1>5 DEF ClaimLost
<1>6. ASSUME NEW r \in Requests, Lookup(r) PROVE Owned(entries[k].value, k)'
  <2>1. decision[r] = "none" /\ pc[r] = "looking"
    BY <1>6 DEF Lookup, UndecidedBefore
  <2>2. entries'[k] = entries[k]
    BY <1>0, <1>6 DEF Lookup, Touch, Live, EntryMap
  <2>3. QED
    BY <1>2, <1>6, <2>1, <2>2 DEF Lookup
<1>7. ASSUME NEW r \in Requests, NEW o \in Outcomes, Produce(r, o)
      PROVE Owned(entries[k].value, k)'
  BY <1>2, <1>7 DEF Produce
<1>8. ASSUME NEW r \in Requests, ProduceUnclaimed(r) PROVE Owned(entries[k].value, k)'
  BY <1>2, <1>8 DEF ProduceUnclaimed
<1>9. ASSUME NEW r \in Requests, Record(r) PROVE Owned(entries[k].value, k)'
  <2>1. CASE k = KeyOf(r)
    <3>1. entries'[k].value = Done(req[r].body, r)
      BY <1>9, <2>1 DEF Record, Put, EntryMap
    <3>2. Claimed(r) /\ decision' = decision /\ pc'[r] = "recorded" /\ outcome'[r] = "answer"
      BY <1>9 DEF Record, ProducedClaimed, Storable
    <3>3. QED
      BY <1>0, <2>1, <3>1, <3>2 DEF Done
  <2>2. CASE k # KeyOf(r)
    BY <1>2, <1>9, <2>2 DEF Record, Put, EntryMap
  <2>3. QED
    BY <2>1, <2>2
<1>10. ASSUME NEW r \in Requests, Release(r) PROVE Owned(entries[k].value, k)'
  BY <1>2, <1>10 DEF Release, Drop, EntryMap
<1>11. ASSUME NEW r \in Requests, WriteFails(r) PROVE Owned(entries[k].value, k)'
  BY <1>2, <1>11 DEF WriteFails
<1>12. CASE Reset
  BY <1>12 DEF Reset
<1>13. CASE Tick
  BY <1>2, <1>13 DEF Tick
<1>14. CASE UNCHANGED vars
  BY <1>2, <1>14 DEF vars
<1>15. QED
  BY <1>3, <1>4, <1>5, <1>6, <1>7, <1>8, <1>9, <1>10, <1>11, <1>12, <1>13, <1>14 DEF Next

\* What a request decided, and what a record's owner answered, is settled.
LEMMA SettledStep ==
  IInv /\ [Next]_vars =>
    /\ UndecidedBefore'
    /\ ProducedClaimed'
    /\ LookersKeyed'
    /\ ClaimantsKeyed'
    /\ \A s \in Requests :
         /\ Claimed(s) => Claimed(s)'
         /\ pc[s] = "recorded" => pc'[s] = "recorded" /\ outcome'[s] = outcome[s]
BY DEF IInv, TypeOK, Claimed, UndecidedBefore, ProducedClaimed, LookersKeyed, ClaimantsKeyed, Next, vars, PC, Unkeyed,
       ClaimWon, ClaimLost, Lookup, Produce, ProduceUnclaimed, Record, Release, WriteFails,
       Reset, Tick

\* A decision, once made with cause, keeps its cause; the lookup makes it with
\* the entry it reads as the cause.
LEMMA DecisionsStep == IInv /\ [Next]_vars => DecisionsHaveCause'
<1> DEFINE Cause(r) ==
      /\ decision[r] = "replayed" =>
           /\ source[r] \in Requests \ {r}
           /\ SameScope(source[r], r)
           /\ pc[source[r]] = "recorded" /\ outcome[source[r]] = "answer"
           /\ "bodyHash" \in Scope => req[source[r]].body = req[r].body
      /\ decision[r] \in {"in-flight", "mismatch"} =>
           \E s \in Requests \ {r} :
             /\ Claimed(s) /\ SameScope(s, r)
             /\ decision[r] = "mismatch" => req[s].body # req[r].body
<1> SUFFICES ASSUME IInv, [Next]_vars, NEW q \in Requests PROVE Cause(q)'
  BY DEF DecisionsHaveCause
<1>0. Cause(q)
  BY DEF IInv, DecisionsHaveCause
<1>1. req' = req /\ \A r, s \in Requests : SameScope(r, s)' = SameScope(r, s)
  BY KeyStable DEF SameScope
<1>2. \A s \in Requests :
        /\ Claimed(s) => Claimed(s)'
        /\ pc[s] = "recorded" => pc'[s] = "recorded" /\ outcome'[s] = outcome[s]
  BY SettledStep
<1>3. ASSUME decision'[q] = decision[q], source'[q] = source[q] PROVE Cause(q)'
  BY <1>0, <1>1, <1>2, <1>3
<1>4. ASSUME NEW r \in Requests, Lookup(r), r = q, decision'[q] # "none" PROVE Cause(q)'
  <2> DEFINE e == entries[KeyOf(q)]
  <2>1. KeyOf(q) \in RecordKeys /\ decision[q] = "none"
    BY <1>4, KeyOfType DEF IInv, TypeOK, Lookup, UndecidedBefore
  <2>2. e # Absent /\ Live(e, now) = e
    BY <1>4, <2>1 DEF Lookup, Live, IInv, TypeOK
  <2>3. /\ e.value.by \in Requests /\ Claimed(e.value.by)
        /\ KeyOf(e.value.by) = KeyOf(q)
        /\ e.value.fingerprint = req[e.value.by].body
        /\ e.value.state = "done" => pc[e.value.by] = "recorded" /\ outcome[e.value.by] = "answer"
    BY <2>1, <2>2 DEF IInv, TypeOK, EntriesOwned, EntryMap, Entry, IdempotencyEntry
  <2>4. e.value.by # q /\ SameScope(e.value.by, q)
    BY <2>1, <2>3, KeyOfScope DEF Claimed
  <2>5. CASE Mismatch(e.value, q)
    <3>1. decision'[q] = "mismatch"
      BY <1>4, <2>2, <2>5 DEF Lookup, IInv, TypeOK
    <3>2. req[e.value.by].body # req[q].body
      BY <2>3, <2>5 DEF Mismatch
    <3>3. QED
      BY <1>1, <1>2, <2>3, <2>4, <3>1, <3>2
  <2>6. CASE ~Mismatch(e.value, q) /\ decision'[q] = "in-flight"
    BY <1>1, <1>2, <2>3, <2>4, <2>6
  <2>7. CASE ~Mismatch(e.value, q) /\ decision'[q] # "in-flight"
    <3>1. decision'[q] = "replayed" /\ source'[q] = e.value.by /\ e.value.state = "done"
      BY <1>4, <2>2, <2>7 DEF Lookup, IInv, TypeOK
    <3>2. "bodyHash" \in Scope => req[e.value.by].body = req[q].body
      BY <2>3, <2>7 DEF Mismatch
    <3>3. QED
      BY <1>1, <1>2, <2>3, <2>4, <3>1, <3>2
  <2>8. QED
    BY <2>5, <2>6, <2>7
<1>5. ASSUME NEW r \in Requests, Lookup(r) PROVE Cause(q)'
  <2>1. CASE r # q
    BY <1>3, <1>5, <2>1 DEF Lookup, IInv, TypeOK
  <2>2. CASE decision'[q] = "none"
    BY <2>2
  <2>3. QED
    BY <1>4, <1>5, <2>1, <2>2
<1>6. ASSUME NEW r \in Requests, ClaimWon(r) PROVE Cause(q)'
  BY <1>3, <1>6 DEF ClaimWon, IInv, TypeOK
<1>7. ASSUME NEW r \in Requests,
             \/ Unkeyed(r) \/ ClaimLost(r) \/ (\E o \in Outcomes : Produce(r, o))
             \/ ProduceUnclaimed(r) \/ Record(r) \/ Release(r) \/ WriteFails(r)
      PROVE Cause(q)'
  BY <1>3, <1>7 DEF Unkeyed, ClaimLost, Produce, ProduceUnclaimed, Record, Release, WriteFails
<1>8. ASSUME Reset \/ Tick \/ UNCHANGED vars PROVE Cause(q)'
  BY <1>3, <1>8 DEF Reset, Tick, vars
<1>9. QED
  BY <1>5, <1>6, <1>7, <1>8 DEF Next

-----------------------------------------------------------------------------
\* At the start nobody holds, has decided or has an entry.
LEMMA Initially == Init => IInv
BY DEF Init, IInv, TypeOK, PC, Outcomes, EntryMap, HoldersAccounted, Holds, Claimed,
       EntriesOwned, UndecidedBefore, ProducedClaimed, LookersKeyed, ClaimantsKeyed,
       DecisionsHaveCause

\* The inductive invariant, and with it type correctness.
THEOREM Invariance == Spec => []IInv
<1>1. IInv /\ [Next]_vars => IInv'
  BY TypeStep, HoldersStep, OwnersStep, SettledStep, DecisionsStep DEF IInv
<1>2. QED
  BY <1>1, Initially, PTL DEF Spec

\* The type invariant.
THEOREM TypeCorrect == Spec => []TypeOK
BY Invariance, PTL DEF IInv

\* At most one request stands on a record key without having lost its entry.
THEOREM Exclusive == Spec => []ClaimsExclusive
<1>1. IInv => ClaimsExclusive
  BY HoldingBy DEF IInv, HoldersAccounted, Accounted, ClaimsExclusive
<1>2. QED
  BY <1>1, Invariance, PTL

\* An exit that still has its claim displaces nobody.
THEOREM ExitsKeepToTheirOwn == Spec => ExitKeepsToItsOwn
<1> DEFINE Own == \A r \in Requests :
                    (Record(r) \/ Release(r)) /\ ~(Displaced(r) \subseteq lost) => r \in lost
<1>1. IInv => Own
  <2> SUFFICES ASSUME IInv, NEW r \in Requests, Record(r) \/ Release(r), r \notin lost
               PROVE  Displaced(r) = {}
    OBVIOUS
  <2>1. Holds(r)
    BY DEF IInv, ProducedClaimed, Holds, Record, Release
  <2>2. QED
    BY <2>1, HoldingBy DEF IInv, HoldersAccounted, Accounted, Displaced
<1>2. IInv => [Own]_vars
  BY <1>1
<1>3. QED
  BY <1>2, Invariance, PTL DEF ExitKeepsToItsOwn

\* Every replay and every conflict has the cause it claims.
THEOREM CausesTrue == Spec => []DecisionsHaveCause
BY Invariance, PTL DEF IInv

\* A holder that has not lost its entry finds exactly that entry, alive, under its
\* key.
THEOREM HoldersStayAccounted == Spec => []HoldersAccounted
BY Invariance, PTL DEF IInv

-----------------------------------------------------------------------------
\* The initial states map to initial states.
LEMMA InitImplements == Init => Atomic!Init
<1> SUFFICES ASSUME Init PROVE Atomic!Init
  OBVIOUS
<1>1. req \in [Requests -> Request]
  BY DEF Init
<1>2. SlotOf \in [Requests -> RecordKeys \cup {NoKey}] /\ BodyOf \in [Requests -> Bodies]
  BY <1>1, KeyOfType DEF SlotOf, BodyOf, Request
<1>3. Held = [k \in RecordKeys |-> Absent]
  BY DEF Init, Held, Live
<1>4. Stage = [r \in Requests |-> "waiting"]
  BY DEF Init, Stage, StageOf
<1>5. QED
  BY <1>2, <1>3, <1>4 DEF Init, Atomic!Init

\* What is held under a key is its entry, for as long as that is alive.
LEMMA HeldEntry ==
  ASSUME TypeOK, NEW k \in RecordKeys
  PROVE  /\ Held[k] = Absent <=> Live(entries[k], now) = Absent
         /\ Held[k] # Absent => /\ Held[k] = entries[k].value
                               /\ Live(entries[k], now) = entries[k]
BY DEF TypeOK, Held, Live, EntryMap, Entry

\* The slots and the bodies never change.
LEMMA SlotsStable == [Next]_vars => SlotOf' = SlotOf /\ BodyOf' = BodyOf
BY KeyStable DEF SlotOf, BodyOf

\* A write under one key is a write to what is held there.
LEMMA HeldWrite ==
  ASSUME TypeOK, NEW k \in RecordKeys, now' = now,
         NEW v, Held'[k] = v,
         \A q \in RecordKeys \ {k} : entries'[q] = entries[q]
  PROVE  Held' = [Held EXCEPT ![k] = v]
<1>1. \A q \in RecordKeys \ {k} : Held'[q] = Held[q]
  BY DEF Held
<1>2. QED
  BY <1>1 DEF Held

\* A move of one request is a move of its stage.
LEMMA StageMove ==
  ASSUME TypeOK, NEW r \in Requests, NEW at, pc' = [pc EXCEPT ![r] = at]
  PROVE  Stage' = [Stage EXCEPT ![r] = StageOf(at)]
BY DEF TypeOK, Stage

\* An undecided request reads what is held under its key.
LEMMA SlotHeld ==
  ASSUME TypeOK, NEW r \in Requests
  PROVE  /\ req[r].key = NoKey <=> SlotOf[r] = NoKey
         /\ req[r].key # NoKey => SlotOf[r] = KeyOf(r)
         /\ BodyOf[r] = req[r].body
         /\ Atomic!InFlight(r) = InFlight(req[r].body, r)
         /\ Atomic!Done(r) = Done(req[r].body, r)
BY KeyOfType DEF TypeOK, SlotOf, BodyOf, Atomic!InFlight, Atomic!Done, InFlight, Done

-----------------------------------------------------------------------------
LEMMA UnkeyedImplements ==
  ASSUME IInv, [Next]_vars, NEW r \in Requests, Unkeyed(r)
  PROVE  Atomic!Run(r)
<1>1. Stage[r] = "waiting" /\ Stage' = [Stage EXCEPT ![r] = "running"]
  BY StageMove DEF IInv, Unkeyed, Stage, StageOf
<1>2. Held' = Held
  BY DEF Unkeyed, Held
<1>3. SlotOf[r] = NoKey
  BY SlotHeld DEF IInv, Unkeyed
<1>4. QED
  BY <1>1, <1>2, <1>3, SlotsStable DEF Unkeyed, Atomic!Run

LEMMA ClaimWonImplements ==
  ASSUME IInv, [Next]_vars, NEW r \in Requests, ClaimWon(r)
  PROVE  Atomic!Claim(r)
<1>0. TypeOK /\ KeyOf(r) \in RecordKeys
  BY KeyOfType DEF IInv, TypeOK
<1>1. Stage[r] = "waiting" /\ Stage' = [Stage EXCEPT ![r] = "running"]
  BY <1>0, StageMove DEF ClaimWon, Stage, StageOf
<1>2. SlotOf[r] = KeyOf(r) /\ SlotOf[r] # NoKey
  BY <1>0, SlotHeld DEF ClaimWon
<1>3. Held[KeyOf(r)] = Absent
  BY <1>0, HeldEntry DEF ClaimWon, ClaimFree, Vacant
<1>4. /\ entries'[KeyOf(r)] = [value |-> InFlight(req[r].body, r), deadline |-> now + InFlightTtl]
      /\ \A q \in RecordKeys \ {KeyOf(r)} : entries'[q] = entries[q]
  BY <1>0 DEF TypeOK, ClaimWon, Mark, Put, DeadlineAfter, EntryMap
<1>5. ~Expired(entries'[KeyOf(r)], now) /\ entries'[KeyOf(r)] # Absent
  <2>1. entries' \in EntryMap(RecordKeys, IdempotencyEntry)
    BY TypeStep DEF IInv, TypeOK
  <2>2. InFlight(req[r].body, r) \in IdempotencyEntry
    BY <1>0 DEF TypeOK, InFlight, IdempotencyEntry, Request
  <2>3. entries'[KeyOf(r)] \in Entry(IdempotencyEntry)
    BY <1>0, <1>4, <2>2 DEF TypeOK, Entry, Deadline
  <2>4. QED
    BY <1>0, <1>4, <2>3 DEF TypeOK, Expired
<1>6. Held'[KeyOf(r)] = InFlight(req[r].body, r)
  BY <1>0, <1>4, <1>5 DEF ClaimWon, Held, Live
<1>7. Held' = [Held EXCEPT ![KeyOf(r)] = InFlight(req[r].body, r)]
  BY <1>0, <1>4, <1>6, HeldWrite DEF ClaimWon
<1>8. QED
  BY <1>0, <1>1, <1>2, <1>3, <1>7, SlotHeld, SlotsStable
     DEF ClaimWon, Atomic!Claim, Atomic!FreeFor

LEMMA LookupImplements ==
  ASSUME IInv, [Next]_vars, NEW r \in Requests, Lookup(r)
  PROVE  Atomic!Run(r) \/ Atomic!Refuse(r) \/ Atomic!Replay(r)
<1> DEFINE e == Live(entries[KeyOf(r)], now)
<1>0. TypeOK /\ KeyOf(r) \in RecordKeys
  BY KeyOfType DEF IInv, TypeOK
<1>1. Stage[r] = "waiting"
  BY <1>0 DEF Lookup, Stage, StageOf
<1>2. req[r].key # NoKey => SlotOf[r] = KeyOf(r) /\ SlotOf[r] # NoKey
  BY <1>0, SlotHeld
<1>3. Held' = Held
  BY <1>0 DEF Lookup, TypeOK, Held, Touch, Live, Expired, EntryMap
<1>4. e # Absent => Held[KeyOf(r)] = e.value /\ Held[KeyOf(r)] # Absent
  BY <1>0, HeldEntry
<1>5. ASSUME e # Absent, req[r].key # NoKey
      PROVE  /\ Atomic!TakenFor(r)
             /\ Atomic!OtherBody(r) <=> Mismatch(e.value, r)
  BY <1>0, <1>2, <1>4, <1>5, SlotHeld DEF Atomic!TakenFor, Atomic!OtherBody, Mismatch
<1>6. req[r].key # NoKey
  BY DEF IInv, Lookup, LookersKeyed
<1>7. CASE e = Absent
  <2>1. Atomic!FreeFor(r)
    BY <1>0, <1>2, <1>6, <1>7, HeldEntry DEF Atomic!FreeFor
  <2>2. Stage' = [Stage EXCEPT ![r] = "running"] /\ decision' = decision /\ source' = source
    <3>1. pc' = [pc EXCEPT ![r] = "producing"]
      BY <1>7 DEF Lookup
    <3>2. QED
      BY <1>0, <1>7, <3>1, StageMove DEF Lookup, StageOf
  <2>3. QED
    BY <1>1, <1>3, <2>1, <2>2, SlotsStable DEF Atomic!Run
<1>8. CASE e # Absent
  <2>1. Stage' = [Stage EXCEPT ![r] = "ended"]
    <3>1. pc' = [pc EXCEPT ![r] = "answered"]
      BY <1>8 DEF Lookup
    <3>2. StageOf("answered") = "ended"
      BY DEF StageOf
    <3>3. QED
      BY <1>0, <3>1, <3>2, StageMove
  <2>2. CASE Mismatch(e.value, r)
    <3>1. decision' = [decision EXCEPT ![r] = "mismatch"] /\ source' = source
      BY <1>8, <2>2 DEF Lookup
    <3>2. QED
      BY <1>1, <1>3, <1>5, <1>6, <1>8, <2>1, <2>2, <3>1, SlotsStable DEF Atomic!Refuse
  <2>3. CASE ~Mismatch(e.value, r) /\ e.value.state = "in-flight"
    <3>1. decision' = [decision EXCEPT ![r] = "in-flight"] /\ source' = source
      BY <1>8, <2>3 DEF Lookup
    <3>2. Held[SlotOf[r]].state = "in-flight"
      BY <1>2, <1>4, <1>6, <1>8, <2>3
    <3>3. QED
      BY <1>1, <1>3, <1>5, <1>6, <1>8, <2>1, <2>3, <3>1, <3>2, SlotsStable DEF Atomic!Refuse
  <2>4. CASE ~Mismatch(e.value, r) /\ e.value.state # "in-flight"
    <3>1. /\ decision' = [decision EXCEPT ![r] = "replayed"]
          /\ source' = [source EXCEPT ![r] = e.value.by]
          /\ e.value.state = "done"
      BY <1>8, <2>4 DEF Lookup
    <3>2. Held[SlotOf[r]] = e.value
      BY <1>2, <1>4, <1>6, <1>8
    <3>3. QED
      BY <1>1, <1>3, <1>5, <1>6, <1>8, <2>1, <2>4, <3>1, <3>2, SlotsStable DEF Atomic!Replay
  <2>5. QED
    BY <2>2, <2>3, <2>4
<1>9. QED
  BY <1>7, <1>8

\* An exit that leaves the Store alone.
LEMMA QuietEnd ==
  ASSUME IInv, [Next]_vars, NEW r \in Requests, NEW at, StageOf(at) = "ended",
         Stage[r] = "running", pc' = [pc EXCEPT ![r] = at],
         entries' = entries, now' = now, decision' = decision, source' = source
  PROVE  Atomic!End(r)
<1>1. Stage' = [Stage EXCEPT ![r] = "ended"]
  BY StageMove DEF IInv
<1>2. Held' = Held
  BY DEF Held
<1>3. QED
  BY <1>1, <1>2, SlotsStable DEF Atomic!End

\* An exit that writes the record or deletes the marker.
LEMMA WritingEnd ==
  ASSUME IInv, [Next]_vars, NEW r \in Requests, Record(r) \/ Release(r)
  PROVE  Atomic!End(r)
<1>0. TypeOK /\ KeyOf(r) \in RecordKeys
  BY KeyOfType DEF IInv, TypeOK
<1>1. Stage[r] = "running" /\ Stage' = [Stage EXCEPT ![r] = "ended"]
  <2>1. PICK at \in {"recorded", "released"} : pc' = [pc EXCEPT ![r] = at]
    BY DEF Record, Release
  <2>2. Stage' = [Stage EXCEPT ![r] = StageOf(at)]
    BY <1>0, <2>1, StageMove
  <2>3. QED
    BY <1>0, <2>2 DEF Record, Release, Stage, StageOf
<1>2. SlotOf[r] = KeyOf(r)
  BY <1>0, SlotHeld DEF IInv, ClaimantsKeyed, ProducedClaimed, Record, Release
<1>3. decision[r] = "first" /\ decision' = decision /\ source' = source /\ now' = now
  BY DEF IInv, ProducedClaimed, Claimed, Record, Release
<1>4. PICK v \in {Done(req[r].body, r), Absent} : Held'[KeyOf(r)] = v
  <2>1. CASE Record(r)
    <3>1. entries'[KeyOf(r)] = [value |-> Done(req[r].body, r), deadline |-> now + Ttl]
      BY <1>0, <2>1 DEF TypeOK, Record, Put, DeadlineAfter, EntryMap
    <3>2. Done(req[r].body, r) \in IdempotencyEntry
      BY <1>0 DEF TypeOK, Done, IdempotencyEntry, Request
    <3>3. entries'[KeyOf(r)] \in Entry(IdempotencyEntry)
      BY <1>0, <3>1, <3>2 DEF TypeOK, Entry, Deadline
    <3>4. Live(entries'[KeyOf(r)], now) = entries'[KeyOf(r)] /\ entries'[KeyOf(r)] # Absent
      BY <1>0, <3>1, <3>3 DEF TypeOK, Live, Expired
    <3>5. QED
      BY <1>0, <1>3, <3>1, <3>4 DEF Held
  <2>2. CASE Release(r)
    BY <1>0, <1>3, <2>2 DEF TypeOK, Release, Drop, EntryMap, Held, Live
  <2>3. QED
    BY <2>1, <2>2
<1>5. \A q \in RecordKeys \ {KeyOf(r)} : entries'[q] = entries[q]
  BY <1>0 DEF TypeOK, Record, Release, Put, Drop, EntryMap
<1>6. Held' = [Held EXCEPT ![KeyOf(r)] = v]
  BY <1>0, <1>3, <1>4, <1>5, HeldWrite
<1>7. v \in {Atomic!Done(r), Absent}
  BY <1>0, SlotHeld
<1>8. QED
  BY <1>1, <1>2, <1>3, <1>6, <1>7, SlotsStable DEF Atomic!End

\* A reset empties every key; the clock, those whose entry it lets expire.
LEMMA ForgetImplements ==
  ASSUME IInv, [Next]_vars, Reset \/ Tick
  PROVE  Atomic!Forget
<1>0. TypeOK
  BY DEF IInv
<1> DEFINE gone == {k \in RecordKeys : Held'[k] = Absent}
<1>1. \A k \in RecordKeys \ gone : Held'[k] = Held[k]
  <2>1. CASE Reset
    BY <2>1 DEF Reset, Held, Live
  <2>2. CASE Tick
    BY <1>0, <2>2 DEF TypeOK, Tick, Held, Live, Expired, EntryMap, Entry, Deadline
  <2>3. QED
    BY <2>1, <2>2
<1>2. Held' = [k \in RecordKeys |-> IF k \in gone THEN Absent ELSE Held[k]]
  BY <1>1 DEF Held
<1>3. Stage' = Stage /\ decision' = decision /\ source' = source
  BY DEF Reset, Tick, Stage
<1>4. gone \in SUBSET RecordKeys
  OBVIOUS
<1> HIDE DEF gone
<1>5. QED
  BY <1>2, <1>3, <1>4, SlotsStable DEF Atomic!Forget

\* Every step is one of AtomicClaims or none.
LEMMA StepImplements == IInv /\ [Next]_vars => [Atomic!Next]_(Atomic!vars)
<1> SUFFICES ASSUME IInv, [Next]_vars PROVE [Atomic!Next]_(Atomic!vars)
  OBVIOUS
<1>0. TypeOK /\ SlotOf' = SlotOf /\ BodyOf' = BodyOf
  BY SlotsStable DEF IInv
<1>1. ASSUME NEW r \in Requests, Unkeyed(r) PROVE Atomic!Next
  BY <1>1, UnkeyedImplements DEF Atomic!Next
<1>2. ASSUME NEW r \in Requests, ClaimWon(r) PROVE Atomic!Next
  BY <1>2, ClaimWonImplements DEF Atomic!Next
\* the step is invisible: the stage, the Store and the decisions stay
<1>3. ASSUME NEW r \in Requests, NEW at, pc' = [pc EXCEPT ![r] = at], StageOf(at) = Stage[r],
             entries' = entries, now' = now, decision' = decision, source' = source
      PROVE  UNCHANGED Atomic!vars
  <2>1. Stage' = Stage
    BY <1>0, <1>3, StageMove DEF Stage
  <2>2. Held' = Held
    BY <1>3 DEF Held
  <2>3. QED
    BY <1>0, <1>3, <2>1, <2>2 DEF Atomic!vars
<1>4. ASSUME NEW r \in Requests, ClaimLost(r) PROVE UNCHANGED Atomic!vars
  <2>1. pc' = [pc EXCEPT ![r] = "looking"] /\ StageOf("looking") = Stage[r]
    BY <1>4 DEF ClaimLost, Stage, StageOf
  <2>2. QED
    BY <1>3, <1>4, <2>1 DEF ClaimLost
<1>5. ASSUME NEW r \in Requests, Lookup(r) PROVE Atomic!Next
  BY <1>5, LookupImplements DEF Atomic!Next
<1>6. ASSUME NEW r \in Requests, NEW o \in Outcomes, Produce(r, o) PROVE UNCHANGED Atomic!vars
  <2>1. pc' = [pc EXCEPT ![r] = "produced"] /\ StageOf("produced") = Stage[r]
    BY <1>6 DEF Produce, Stage, StageOf
  <2>2. QED
    BY <1>3, <1>6, <2>1 DEF Produce
<1>7. ASSUME NEW r \in Requests, ProduceUnclaimed(r) PROVE Atomic!Next
  <2>1. /\ pc' = [pc EXCEPT ![r] = "answered"]
        /\ StageOf("answered") = "ended" /\ Stage[r] = "running"
    BY <1>7 DEF ProduceUnclaimed, Stage, StageOf
  <2>2. QED
    BY <1>7, <2>1, QuietEnd DEF ProduceUnclaimed, Atomic!Next
<1>8. ASSUME NEW r \in Requests, Record(r) \/ Release(r) PROVE Atomic!Next
  BY <1>8, WritingEnd DEF Atomic!Next
<1>9. ASSUME NEW r \in Requests, WriteFails(r) PROVE Atomic!Next
  <2>1. /\ pc' = [pc EXCEPT ![r] = "unwritten"]
        /\ StageOf("unwritten") = "ended" /\ Stage[r] = "running"
    BY <1>9 DEF WriteFails, Stage, StageOf
  <2>2. QED
    BY <1>9, <2>1, QuietEnd DEF WriteFails, Atomic!Next
<1>10. CASE Reset \/ Tick
  BY <1>10, ForgetImplements DEF Atomic!Next
<1>11. CASE UNCHANGED vars
  BY <1>0, <1>11 DEF vars, Atomic!vars, Held, Stage
<1>12. QED
  BY <1>1, <1>2, <1>4, <1>5, <1>6, <1>7, <1>8, <1>9, <1>10, <1>11 DEF Next

\* Idempotency implements the atomic specification: however the claims, lookups
\* and exits of requests interleave, and whatever expires or is reset between
\* them, each request is decided as if in one step.
THEOREM RefinesAtomicClaims == Spec => ImplementsAtomicClaims
<1>1. Init => Atomic!Init
  BY InitImplements
<1>2. QED
  BY <1>1, Invariance, StepImplements, PTL DEF Spec, ImplementsAtomicClaims, Atomic!Spec

-----------------------------------------------------------------------------
\* What Announcements adds.  A request that has announced itself was entitled to
\* and stays so, and a key is released only by an exit with nothing to store.
AnnouncedStand == \A r \in announced : pc[r] \in Ended /\ Announces(r)
ReleasedUnstored == \A r \in Requests : pc[r] = "released" => outcome[r] # "answer"

AnnouncingIInv == IInv /\ announced \in SUBSET Requests /\ AnnouncedStand /\ ReleasedUnstored

\* An announcement is invisible to Idempotency: all that is proved of its
\* specification holds of this one.
LEMMA AnnouncingKeepsSpec == AnnouncingSpec => Spec
<1>1. AnnouncingInit => Init
  BY DEF AnnouncingInit
<1>2. [AnnouncingNext]_<<vars, announced>> => [Next]_vars
  BY DEF AnnouncingNext
<1>3. QED
  BY <1>1, <1>2, PTL DEF AnnouncingSpec, Spec

\* Once a request has ended, where it stands, its outcome and its decision are final.
LEMMA EndedFinal ==
  ASSUME TypeOK, [Next]_vars, NEW r \in Requests, pc[r] \in Ended
  PROVE  pc'[r] = pc[r] /\ outcome'[r] = outcome[r] /\ decision'[r] = decision[r]
BY DEF TypeOK, Ended, Next, vars, Unkeyed, ClaimWon, ClaimLost, Lookup, Produce,
       ProduceUnclaimed, Record, Release, WriteFails, Reset, Tick

LEMMA ReleasedStep == IInv /\ ReleasedUnstored /\ [Next]_vars => ReleasedUnstored'
<1> SUFFICES ASSUME IInv, ReleasedUnstored, [Next]_vars,
                    NEW r \in Requests, pc'[r] = "released"
             PROVE  outcome'[r] # "answer"
  BY DEF ReleasedUnstored
<1>1. CASE pc[r] = "released"
  BY <1>1, EndedFinal DEF IInv, ReleasedUnstored, Ended
<1>2. CASE pc[r] # "released"
  BY <1>2 DEF IInv, TypeOK, PC, Next, vars, Unkeyed, ClaimWon, ClaimLost, Lookup, Produce,
       ProduceUnclaimed, Record, Release, WriteFails, Reset, Tick, Storable
<1>3. QED
  BY <1>1, <1>2

THEOREM AnnouncingInvariance == AnnouncingSpec => []AnnouncingIInv
<1>1. AnnouncingInit => AnnouncingIInv
  BY Initially DEF AnnouncingInit, AnnouncingIInv, AnnouncedStand, ReleasedUnstored, Init
<1>2. AnnouncingIInv /\ [AnnouncingNext]_<<vars, announced>> => AnnouncingIInv'
  <2> SUFFICES ASSUME AnnouncingIInv, [AnnouncingNext]_<<vars, announced>>
               PROVE  AnnouncingIInv'
    OBVIOUS
  <2>1. [Next]_vars
    BY DEF AnnouncingNext
  <2>2. IInv' /\ ReleasedUnstored'
    BY <2>1, TypeStep, HoldersStep, OwnersStep, SettledStep, DecisionsStep, ReleasedStep
       DEF AnnouncingIInv, IInv
  <2>3. ASSUME NEW r \in announced PROVE pc'[r] \in Ended /\ Announces(r)'
    BY <2>1, EndedFinal DEF AnnouncingIInv, IInv, AnnouncedStand, Announces, Succeeded
  <2>4. CASE UNCHANGED announced
    BY <2>2, <2>3, <2>4 DEF AnnouncingIInv, AnnouncedStand
  <2>5. ASSUME NEW r \in Requests, Announce(r), UNCHANGED vars PROVE AnnouncingIInv'
    <3>1. pc'[r] \in Ended /\ Announces(r)'
      BY <2>5 DEF Announce, vars, Announces, Succeeded
    <3>2. announced' = announced \cup {r}
      BY <2>5 DEF Announce
    <3>3. QED
      BY <2>2, <2>3, <3>1, <3>2 DEF AnnouncingIInv, AnnouncedStand
  <2>6. QED
    BY <2>4, <2>5 DEF AnnouncingNext
<1>3. QED
  BY <1>1, <1>2, PTL DEF AnnouncingSpec

\* The type invariant of the model with announcements.
THEOREM AnnouncingTypeCorrect == AnnouncingSpec => []AnnouncingTypeOK
BY AnnouncingInvariance, PTL DEF AnnouncingIInv, IInv, AnnouncingTypeOK

\* A retry has no further effect, as far as the code keeps to it.
THEOREM EffectsHappenOnce == AnnouncingSpec => []EffectOnce
<1>1. AnnouncingIInv => EffectOnce
  <2> SUFFICES ASSUME AnnouncingIInv, ConflictStatus >= 400,
                      NEW r \in announced, NEW s \in announced, r # s,
                      KeyOf(r) = KeyOf(s),
                      \A q \in {r, s} : outcome[q] # "unread" /\ decision[q] # "none"
               PROVE  r \in lost \/ s \in lost
    BY DEF EffectOnce
  <2>1. r \in Requests /\ s \in Requests
    BY DEF AnnouncingIInv
  <2>2. \A q \in {r, s} : Holds(q)
    <3> SUFFICES ASSUME NEW q \in {r, s} PROVE Holds(q)
      OBVIOUS
    <3>1. Announces(q) /\ q \in Requests
      BY <2>1 DEF AnnouncingIInv, AnnouncedStand
    <3>2. decision[q] \in {"first", "mismatch", "in-flight", "replayed"}
      BY <3>1 DEF AnnouncingIInv, IInv, TypeOK
    <3>3. ~(ConflictStatus < 400)
      BY ConflictStatusAssumption
    <3>4. decision[q] = "first" /\ outcome[q] = "answer"
      BY <3>1, <3>2, <3>3 DEF Announces, Succeeded
    <3>5. QED
      BY <3>1, <3>4 DEF AnnouncingIInv, ReleasedUnstored, Holds, Claimed
  <2>3. QED
    BY <2>1, <2>2, HoldingBy DEF AnnouncingIInv, IInv, HoldersAccounted, Accounted
<1>2. QED
  BY <1>1, AnnouncingInvariance, PTL
=============================================================================
