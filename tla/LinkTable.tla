----------------------------- MODULE LinkTable ------------------------------
(***************************************************************************)
(* The recall table of one response-linking rule (src/runtime/link.ts).    *)
(* The values are in the Store, which cannot enumerate; the order in which *)
(* they are evicted is an array beside it.  record() awaits the Store      *)
(* before it touches the array, and at every eviction.                     *)
(***************************************************************************)
EXTENDS Sequences, FiniteSets, StoreOps

CONSTANTS
  Ids,       \* what a write mints and a read asks for
  Minters,   \* who records: a value is known by who recorded it
  MaxLinks   \* `max` of the rule

\* A negative `max` would keep record() in its loop for good.
ASSUME MaxLinksAssumption == MaxLinks \in Nat
ASSUME MintersAssumption == Absent \notin Minters
ASSUME IdsAssumption == Absent \notin Ids

VARIABLES
  order,      \* keys, in the order of their first record
  links,      \* what the Store holds under each id
  recording   \* record() calls: the id set and not yet ordered, or in eviction

linkVars == <<order, links, recording>>

NotRecording == [pc |-> "idle", id |-> Absent]
Recording == [pc : {"set", "evicting"}, id : Ids] \cup {NotRecording}

LinkTypeOK ==
  /\ order \in Seq(Ids)
  /\ links \in [Ids -> Minters \cup {Absent}]
  /\ recording \in [Minters -> Recording]

LinkInit ==
  /\ order = <<>>
  /\ links = [i \in Ids |-> Absent]
  /\ recording = [m \in Minters |-> NotRecording]

Ordered(s, i) == \E p \in DOMAIN s : s[p] = i

\* store.set(linkKey(index, key), value, ttlMs)
RecordSet(m, i) ==
  /\ recording[m].pc = "idle"
  /\ links' = [links EXCEPT ![i] = m]
  /\ recording' = [recording EXCEPT ![m] = [pc |-> "set", id |-> i]]
  /\ UNCHANGED order

\* if (!keys.includes(key)) keys.push(key)
Pushed(s, i) == IF Ordered(s, i) THEN s ELSE Append(s, i)

\* store.delete(linkKey(index, oldest))
WithoutOldest(values, i) == Drop(values, i)

\* one too many
OverBoundByOne(s) == Len(s) > MaxLinks + 1

OverBound(s) == Len(s) > MaxLinks

\* One turn of the loop over the order `s`, which pauses after a deletion.
Evict(m, s) ==
  IF OverBound(s)
  THEN /\ order' = Tail(s)
       /\ links' = WithoutOldest(links, Head(s))
       /\ recording' = [recording EXCEPT ![m].pc = "evicting"]
  ELSE /\ order' = s
       /\ recording' = [recording EXCEPT ![m] = NotRecording]
       /\ UNCHANGED links

RecordPush(m) ==
  /\ recording[m].pc = "set"
  /\ Evict(m, Pushed(order, recording[m].id))

RecordEvict(m) ==
  /\ recording[m].pc = "evicting"
  /\ Evict(m, order)

Recall(i) == links[i]

\* ttlMs has passed for an entry
LinkExpire(i) ==
  /\ links[i] # Absent
  /\ links' = Drop(links, i)
  /\ UNCHANGED <<order, recording>>

\* clear() and store.clear()
LinksCleared ==
  /\ order' = <<>>
  /\ links' = [i \in Ids |-> Absent]
  /\ UNCHANGED recording

\* record() calls that have written the Store and not the order
Unordered == {m \in Minters : recording[m].pc = "set"}

\* Every value in the Store will be found by an eviction: its id is in the order,
\* once, or about to be.
EveryLinkEvictable ==
  /\ \A i \in Ids : links[i] # Absent =>
       Ordered(order, i) \/ \E m \in Unordered : recording[m].id = i
  /\ \A p, q \in DOMAIN order : order[p] = order[q] => p = q

\* The Store holds no more values than `max` and those whose record() has not
\* reached the order yet.
LinksBounded ==
  Cardinality({i \in Ids : links[i] # Absent}) <= MaxLinks + Cardinality(Unordered)
=============================================================================
