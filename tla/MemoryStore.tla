----------------------------- MODULE MemoryStore -----------------------------
(***************************************************************************)
(* createMemoryStore of src/runtime/store.ts: a Map with lazy expiry.  An  *)
(* entry past its deadline stays in the Map until a call reads its key.    *)
(* now() is taken to be monotone.                                          *)
(***************************************************************************)
EXTENDS StoreOps

CONSTANTS
  Keys, Texts, Ttls,  \* as in TtlMap
  MaxCount, MaxTime   \* bounds, as in TtlMap

ASSUME TtlsAssumption == Ttls \subseteq Nat \cup {Never}
ASSUME BoundsAssumption == MaxCount \in Nat /\ MaxTime \in Nat

Numbers == 0 .. MaxCount
Values == Texts \cup Numbers

ASSUME AbsentAssumption == Absent \notin Entry(Values) \cup Values

ValueReply(v) == <<"value", v>>
ClaimReply(b) == <<"claimed", b>>

VARIABLES
  entries,  \* the Map, dead entries included
  now,      \* what now() returns
  reply     \* what the last call resolved to; Absent is undefined

vars == <<entries, now, reply>>

TypeOK == /\ entries \in EntryMap(Keys, Values)
          /\ now \in 0 .. MaxTime
          /\ reply \in ({"value"} \X (Values \cup {Absent})) \cup ({"claimed"} \X BOOLEAN)

Init == /\ entries = [k \in Keys |-> Absent]
        /\ now = 0
        /\ reply = ValueReply(Absent)

Get(k) == LET e == Live(entries[k], now) IN
          /\ entries' = Touch(entries, k, now)
          /\ reply' = ValueReply(IF e = Absent THEN Absent ELSE e.value)
          /\ UNCHANGED now

Set(k, v, ttl) == /\ entries' = Put(entries, k, v, now, ttl)
                  /\ reply' = ValueReply(Absent)
                  /\ UNCHANGED now

SetIfAbsent(k, v, ttl) ==
  /\ reply' = ClaimReply(Vacant(entries, k, now))
  /\ entries' = IF Vacant(entries, k, now) THEN Put(entries, k, v, now, ttl) ELSE entries
  /\ UNCHANGED now

Delete(k) == /\ entries' = Drop(entries, k)
             /\ reply' = ValueReply(Absent)
             /\ UNCHANGED now

\* 0 for an absent key and for a value that is not a number
IncrBase(e) == IF e # Absent /\ e.value \in Numbers THEN e.value ELSE 0

\* the deadline of an entry that is not there is asked for
IncrDeadlineNull(es, k, t) ==
  LET existing == Touch(es, k, t)[k] IN
  IF existing = Absent THEN Absent ELSE existing.deadline
\* `entries.get(key)?.expiresAt`, after live() has dropped a dead entry
IncrDeadline(es, k, t) ==
  LET existing == Touch(es, k, t)[k] IN
  IF existing = Absent THEN Never ELSE existing.deadline

Incr(k) ==
  LET next == IncrBase(Live(entries[k], now)) + 1 IN
  /\ next <= MaxCount
  /\ entries' = [entries EXCEPT ![k] = [value |-> next, deadline |-> IncrDeadline(entries, k, now)]]
  /\ reply' = ValueReply(next)
  /\ UNCHANGED now

Clear == /\ entries' = [k \in Keys |-> Absent]
         /\ reply' = ValueReply(Absent)
         /\ UNCHANGED now

\* Time passes; nothing is scheduled, so the Map stays as it is.
Tick == /\ now < MaxTime
        /\ now' = now + 1
        /\ UNCHANGED <<entries, reply>>

Next == \/ \E k \in Keys :
             \/ Get(k)
             \/ Delete(k)
             \/ Incr(k)
             \/ \E v \in Values, ttl \in Ttls : Set(k, v, ttl) \/ SetIfAbsent(k, v, ttl)
        \/ Clear
        \/ Tick

Spec == Init /\ [][Next]_vars

-----------------------------------------------------------------------------
\* The map a caller sees: the live entries.
Visible == [k \in Keys |-> Live(entries[k], now)]

Promise == INSTANCE TtlMap WITH map <- Visible

\* Lazy expiry cannot be told from eager expiry: whatever the order of calls and
\* of time, every get, claim and increment answers as if dead entries were gone
\* (store.ts:37 "Expiry is lazy", and the `live()` comment of setIfAbsent).
ImplementsTtlMap == Promise!Spec

\* A window, once opened by a set or a claim, is never moved or lifted by the
\* calls that count inside it: while a key stays visible under a deadline, only
\* a set changes that deadline (store.ts:89 "preserve its deadline").
WindowKept ==
  [][\A k \in Keys :
       (/\ Visible[k] # Absent
        /\ Visible'[k] # Absent
        /\ Visible[k].deadline # Visible'[k].deadline)
       => \E v \in Values, ttl \in Ttls : Set(k, v, ttl)]_vars
=============================================================================
