----------------------------- MODULE Idempotency -----------------------------
(***************************************************************************)
(* Idempotent requests, from the claim of pipeline stage 5                 *)
(* (src/runtime/idempotency.ts) to the capture at the single exit (stage   *)
(* 11, `handle` of src/server/handler.ts).                                 *)
(*                                                                         *)
(* A request is followed from the moment it has passed auth and            *)
(* validation.  Other requests run where it awaits: between a lost claim   *)
(* and the lookup, while the operation is produced, and while the response *)
(* body is read before the record is written.                              *)
(*                                                                         *)
(* The Store keeps `IdempotencyEntry` values.  Their field `by`, the       *)
(* request that wrote the value, stands for the stored status, headers and *)
(* body of that request; an in-flight marker carries it for the properties *)
(* alone, and no step of the program reads it there.                       *)
(***************************************************************************)
EXTENDS StoreOps

CONSTANTS
  Requests,     \* the requests that may arrive
  IdemKeys,     \* the keys they supply
  NoKey,        \* a request that supplies none
  Routes,       \* the operations, each idempotent
  Bodies,       \* fingerprints of request bodies
  Scope,        \* config.scope
  Ttl,          \* config.ttlMs
  InFlightTtl,  \* config.inFlightTtlMs
  Nobody,
  Workloads,    \* bound: which assignments of key, route and body to requests
  MaxTime       \* bound on the clock

Request == [key : IdemKeys \cup {NoKey}, route : Routes, body : Bodies]

\* resolveIdempotency throws on a scope that names neither "key" nor "route".
ASSUME ScopeAssumption == /\ Scope \subseteq {"key", "route", "bodyHash"}
                          /\ Scope \cap {"key", "route"} # {}
ASSUME TtlAssumption == Ttl \in Nat /\ InFlightTtl \in Nat /\ MaxTime \in Nat
ASSUME NamesAssumption == NoKey \notin IdemKeys /\ Nobody \notin Requests
ASSUME WorkloadsAssumption == Workloads \subseteq [Requests -> Request]

-----------------------------------------------------------------------------
Any == "any"
RecordKeys == (IdemKeys \cup {NoKey, Any}) \X (Routes \cup {Any})
ASSUME NoKeyAssumption == NoKey \notin RecordKeys

\* recordKey: the scope's `key` and `route` parts, and never the body.
RecordKey(key, route) == << IF "key" \in Scope THEN key ELSE Any,
                            IF "route" \in Scope THEN route ELSE Any >>

\* a record that could not tell another body
DoneNoFingerprint(b, r) == [state |-> "done", by |-> r]

InFlight(b, r) == [state |-> "in-flight", fingerprint |-> b, by |-> r]
Done(b, r) == [state |-> "done", fingerprint |-> b, by |-> r]

IdempotencyEntry == [state : {"in-flight", "done"}, fingerprint : Bodies, by : Requests]

ASSUME AbsentAssumption == Absent \notin Entry(IdempotencyEntry) \cup IdempotencyEntry

\* What the exit knows of the response of `produce`: an answer below 500 the
\* operation gave, a 5xx or a thrown error, a failure the mock injected, or an
\* answer whose body captureBody could not read.
Outcomes == {"answer", "error", "injected", "unread"}

\* Where a request stands.  "looking": its claim was lost and the lookup is to
\* come.  "produced": its claim is its own and the exit is to write.  The last
\* four are final: without a claim, with the record written, with the claim
\* released, with the write rejected by the Store.
PC == {"idle", "looking", "producing", "produced",
       "answered", "recorded", "released", "unwritten"}

VARIABLES
  now,
  entries,  \* the Store, as far as idempotency records go
  pc,
  req,      \* the key, route and body of each request
  outcome,  \* what produce() came back with, for a request that holds a claim
  decision, \* ctx.decisions.idempotency; "first" is trace.claimed
  source,   \* the request whose response is replayed; Nobody if none is
  lost      \* history: the requests whose marker or record came to an end other
            \* than by their own exit: it expired, was cleared by reset, or was
            \* written over or deleted by the exit of another request

vars == <<now, entries, pc, req, outcome, decision, source, lost>>

KeyOf(r) == RecordKey(req[r].key, req[r].route)
Claimed(r) == decision[r] = "first"

TypeOK ==
  /\ now \in 0 .. MaxTime
  /\ entries \in EntryMap(RecordKeys, IdempotencyEntry)
  /\ pc \in [Requests -> PC]
  /\ req \in [Requests -> Request]
  /\ outcome \in [Requests -> Outcomes]
  /\ decision \in [Requests -> {"none", "first", "mismatch", "in-flight", "replayed"}]
  /\ source \in [Requests -> Requests \cup {Nobody}]
  /\ lost \in SUBSET Requests

Init ==
  /\ now = 0
  /\ entries = [k \in RecordKeys |-> Absent]
  /\ pc = [r \in Requests |-> "idle"]
  /\ req \in Workloads
  /\ outcome = [r \in Requests |-> "answer"]
  /\ decision = [r \in Requests |-> "none"]
  /\ source = [r \in Requests |-> Nobody]
  /\ lost = {}

-----------------------------------------------------------------------------
\* Without a key there is nothing to key on.
Unkeyed(r) ==
  /\ pc[r] = "idle"
  /\ req[r].key = NoKey
  /\ pc' = [pc EXCEPT ![r] = "producing"]
  /\ UNCHANGED <<now, entries, req, outcome, decision, source, lost>>

\* the claim as it was before it became atomic: a key is free until a response
\* is on record under it
ClaimFreeUntilDone(k) ==
  Live(entries[k], now) # Absent => Live(entries[k], now).value.state = "in-flight"
ClaimFree(k) == Vacant(entries, k, now)

\* a marker that outlives a dead request
MarkForever(k, r) == Put(entries, k, InFlight(req[r].body, r), now, Never)
Mark(k, r) == Put(entries, k, InFlight(req[r].body, r), now, InFlightTtl)

\* The claim is attempted first: setIfAbsent of an in-flight marker.
ClaimWon(r) ==
  /\ pc[r] = "idle"
  /\ req[r].key # NoKey
  /\ ClaimFree(KeyOf(r))
  /\ entries' = Mark(KeyOf(r), r)
  /\ decision' = [decision EXCEPT ![r] = "first"]
  /\ pc' = [pc EXCEPT ![r] = "producing"]
  /\ UNCHANGED <<now, req, outcome, source, lost>>

ClaimLost(r) ==
  /\ pc[r] = "idle"
  /\ req[r].key # NoKey
  /\ ~ClaimFree(KeyOf(r))
  /\ pc' = [pc EXCEPT ![r] = "looking"]
  /\ UNCHANGED <<now, entries, req, outcome, decision, source, lost>>

\* a marker is reported as in flight before its body is compared
MismatchOfRecords(v, r) ==
  "bodyHash" \in Scope /\ v.state = "done" /\ v.fingerprint # req[r].body
Mismatch(v, r) == "bodyHash" \in Scope /\ v.fingerprint # req[r].body

\* A lost claim: read the entry and decide on its merits.  The entry may be gone
\* by now, and the request then proceeds without a claim.
Lookup(r) ==
  LET e == Live(entries[KeyOf(r)], now) IN
  /\ pc[r] = "looking"
  /\ entries' = Touch(entries, KeyOf(r), now)
  /\ \/ /\ e = Absent
        /\ pc' = [pc EXCEPT ![r] = "producing"]
        /\ UNCHANGED <<decision, source>>
     \/ /\ e # Absent
        /\ Mismatch(e.value, r)
        /\ decision' = [decision EXCEPT ![r] = "mismatch"]
        /\ pc' = [pc EXCEPT ![r] = "answered"]
        /\ UNCHANGED source
     \/ /\ e # Absent
        /\ ~Mismatch(e.value, r)
        /\ e.value.state = "in-flight"
        /\ decision' = [decision EXCEPT ![r] = "in-flight"]
        /\ pc' = [pc EXCEPT ![r] = "answered"]
        /\ UNCHANGED source
     \/ /\ e # Absent
        /\ ~Mismatch(e.value, r)
        /\ e.value.state = "done"
        /\ decision' = [decision EXCEPT ![r] = "replayed"]
        /\ source' = [source EXCEPT ![r] = e.value.by]
        /\ pc' = [pc EXCEPT ![r] = "answered"]
  /\ UNCHANGED <<now, req, outcome, lost>>

\* Stages 6 to 10 run, or the boundary catch answers, and the exit has read the
\* response body.
Produce(r, o) ==
  /\ pc[r] = "producing"
  /\ Claimed(r)
  /\ outcome' = [outcome EXCEPT ![r] = o]
  /\ pc' = [pc EXCEPT ![r] = "produced"]
  /\ UNCHANGED <<now, entries, req, decision, source, lost>>

\* Without a claim the exit stores nothing, whatever was produced.
ProduceUnclaimed(r) ==
  /\ pc[r] = "producing"
  /\ ~Claimed(r)
  /\ pc' = [pc EXCEPT ![r] = "answered"]
  /\ UNCHANGED <<now, entries, req, outcome, decision, source, lost>>

\* an injected failure is stored like an answer
StorableInjected(o) == o \in {"answer", "injected"}
Storable(o) == o = "answer"

\* The holder of the entry that a write to r's key ends, if it is not r.
Displaced(r) ==
  LET e == entries[KeyOf(r)] IN
  IF e # Absent /\ e.value.by # r THEN {e.value.by} ELSE {}

\* The exit writes the record, or deletes the marker, without a look at what is
\* under the key by then.
Record(r) ==
  /\ pc[r] = "produced"
  /\ Storable(outcome[r])
  /\ entries' = Put(entries, KeyOf(r), Done(req[r].body, r), now, Ttl)
  /\ lost' = (lost \cup Displaced(r)) \ {r}
  /\ pc' = [pc EXCEPT ![r] = "recorded"]
  /\ UNCHANGED <<now, req, outcome, decision, source>>

Release(r) ==
  /\ pc[r] = "produced"
  /\ ~Storable(outcome[r])
  /\ entries' = Drop(entries, KeyOf(r))
  /\ lost' = lost \cup Displaced(r)
  /\ pc' = [pc EXCEPT ![r] = "released"]
  /\ UNCHANGED <<now, req, outcome, decision, source>>

\* A caller-supplied Store rejects the write: reported, and the marker stays.
WriteFails(r) ==
  /\ pc[r] = "produced"
  /\ pc' = [pc EXCEPT ![r] = "unwritten"]
  /\ UNCHANGED <<now, entries, req, outcome, decision, source, lost>>

\* mock.reset() clears the Store under whatever is in flight.
Reset ==
  /\ entries' = [k \in RecordKeys |-> Absent]
  /\ lost' = lost \cup {r \in Requests : Claimed(r)}
  /\ UNCHANGED <<now, pc, req, outcome, decision, source>>

Tick ==
  /\ now < MaxTime
  /\ now' = now + 1
  /\ lost' = lost \cup {r \in Requests : \E k \in RecordKeys :
                          Expired(entries[k], now + 1) /\ entries[k].value.by = r}
  /\ UNCHANGED <<entries, pc, req, outcome, decision, source>>

Next == \/ \E r \in Requests :
             \/ Unkeyed(r)
             \/ ClaimWon(r)
             \/ ClaimLost(r)
             \/ Lookup(r)
             \/ \E o \in Outcomes : Produce(r, o)
             \/ ProduceUnclaimed(r)
             \/ Record(r)
             \/ Release(r)
             \/ WriteFails(r)
        \/ Reset
        \/ Tick

\* Time passes.  Nothing obliges a request to arrive, a callback to return or a
\* process to live: a request that takes no further step is one that died.
Spec == Init /\ [][Next]_vars /\ WF_vars(Tick)

-----------------------------------------------------------------------------
\* A request that stands on what it wrote to the Store: it runs under its claim,
\* its marker was left behind, or its response is on record.
Holds(r) == Claimed(r) /\ pc[r] # "released"

Holding(r) ==
  IF pc[r] = "recorded" THEN Done(req[r].body, r) ELSE InFlight(req[r].body, r)

\* A holder that has not lost its entry finds exactly that entry, alive, under
\* its key: the inductive part of the two properties that follow.
Accounted(r) == /\ entries[KeyOf(r)] # Absent
                /\ entries[KeyOf(r)].value = Holding(r)
                /\ ~Expired(entries[KeyOf(r)], now)

HoldersAccounted == \A r \in Requests : Holds(r) /\ r \notin lost => Accounted(r)

\* Two requests run under, or have on record, the same key only if one of them
\* has lost its entry: a claim is exclusive for as long as it lasts
\* (idempotency.ts:240, the claim is attempted first).
ClaimsExclusive ==
  \A r, s \in Requests :
    r # s /\ Holds(r) /\ Holds(s) /\ KeyOf(r) = KeyOf(s) => r \in lost \/ s \in lost

\* The exit of a request ends what another has alive in the Store only when its
\* own claim is already gone: one that finishes in time never takes another's
\* marker or record with it (handler.ts:1338 and 1340 set and delete the key
\* without a look).
ExitKeepsToItsOwn ==
  [][\A r \in Requests :
       (Record(r) \/ Release(r)) /\ ~(Displaced(r) \subseteq lost) => r \in lost]_vars

SameScope(r, s) == /\ "key" \in Scope => req[r].key = req[s].key
                   /\ "route" \in Scope => req[r].route = req[s].route

\* What the lookup reports is true of the requests that came before.  A replay
\* is the response of a request of the same scope that the operation itself
\* answered: never a 5xx, an injected failure or a body that was not read
\* (handler.ts:1319).  A conflict points at a request that claimed the key, with
\* another body when it is a mismatch.
DecisionsHaveCause ==
  \A r \in Requests :
    /\ decision[r] = "replayed" =>
         /\ source[r] \in Requests \ {r}
         /\ SameScope(source[r], r)
         /\ pc[source[r]] = "recorded" /\ outcome[source[r]] = "answer"
         /\ "bodyHash" \in Scope => req[source[r]].body = req[r].body
    /\ decision[r] \in {"in-flight", "mismatch"} =>
         \E s \in Requests \ {r} :
           /\ Claimed(s) /\ SameScope(s, r)
           /\ decision[r] = "mismatch" => req[s].body # req[r].body

\* A marker never wedges its key: unless the bound on time cuts the run short,
\* a key in flight is at some time not in flight, whether its owner dies, hangs
\* or cannot write (idempotency.ts:17).
Marked(k) == LET e == Live(entries[k], now) IN e # Absent /\ e.value.state = "in-flight"
KeysUnwedge ==
  \A key \in IdemKeys, route \in Routes : LET k == RecordKey(key, route) IN
    (Marked(k) /\ now + InFlightTtl < MaxTime) ~> ~Marked(k)

\* As long as no marker has expired and no reset has come between, the requests
\* under one key are produced one at a time.  The code does not keep to it: a
\* request that loses its claim to one that then fails and releases the key goes
\* on without a claim, beside the next request that claims it
\* (idempotency.ts:260, "there is nothing to conflict with").
OneAtATime ==
  lost = {} =>
    \A r, s \in Requests :
      (/\ r # s /\ pc[r] = "producing" /\ pc[s] = "producing"
       /\ req[r].key # NoKey /\ req[s].key # NoKey)
      => KeyOf(r) # KeyOf(s)

-----------------------------------------------------------------------------
\* The Store without its clock: what a lookup would find under each key.
Held == [k \in RecordKeys |->
           IF Live(entries[k], now) = Absent THEN Absent ELSE entries[k].value]

\* Between a lost claim and its lookup a request is as undecided as before.
StageOf(at) == CASE at \in {"idle", "looking"} -> "waiting"
                 [] at \in {"producing", "produced"} -> "running"
                 [] OTHER -> "ended"
Stage == [r \in Requests |-> StageOf(pc[r])]

SlotOf == [r \in Requests |-> IF req[r].key = NoKey THEN NoKey ELSE KeyOf(r)]
BodyOf == [r \in Requests |-> req[r].body]

Atomic == INSTANCE AtomicClaims WITH
  Slots <- RecordKeys,
  NoSlot <- NoKey,
  ComparesBody <- "bodyHash" \in Scope,
  Free <- Absent,
  slotOf <- SlotOf,
  bodyOf <- BodyOf,
  held <- Held,
  stage <- Stage

\* The two calls of the Store a request makes, and the awaits around them, decide
\* it as one step would: the lookup never reports what is no longer there, and a
\* request is first, refused or replayed by what is under its key as it decides
\* (idempotency.ts:240-293, handler.ts:1317-1351).
ImplementsAtomicClaims == Atomic!Spec
=============================================================================
