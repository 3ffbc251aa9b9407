----------------------------- MODULE AtomicClaims -----------------------------
(***************************************************************************)
(* What idempotency promises a client: each request is decided in one      *)
(* step, by what is held under its key at that moment.  It runs as the     *)
(* holder of the key, runs without it, is refused or replays the response  *)
(* on record.  A response comes on record by the request it answers, under *)
(* that request's own key, and there is no clock: the mock may forget a    *)
(* key at any time.                                                        *)
(***************************************************************************)

CONSTANTS
  Requests,
  Slots,         \* the keys
  NoSlot,        \* a request that is not keyed
  Bodies,        \* fingerprints of request bodies
  ComparesBody,  \* whether a key is refused to another body
  Free,          \* nothing is held under a key
  Nobody

VARIABLES
  slotOf,    \* the key of each request
  bodyOf,    \* its body
  held,      \* what is under each key: whose, of which body, and whether a
             \* response is on record
  stage,     \* where each request stands
  decision,  \* how it was decided
  source     \* whose response it replays

vars == <<slotOf, bodyOf, held, stage, decision, source>>

InFlight(r) == [state |-> "in-flight", fingerprint |-> bodyOf[r], by |-> r]
Done(r) == [state |-> "done", fingerprint |-> bodyOf[r], by |-> r]

Init ==
  /\ slotOf \in [Requests -> Slots \cup {NoSlot}]
  /\ bodyOf \in [Requests -> Bodies]
  /\ held = [k \in Slots |-> Free]
  /\ stage = [r \in Requests |-> "waiting"]
  /\ decision = [r \in Requests |-> "none"]
  /\ source = [r \in Requests |-> Nobody]

-----------------------------------------------------------------------------
FreeFor(r) == slotOf[r] # NoSlot /\ held[slotOf[r]] = Free
TakenFor(r) == slotOf[r] # NoSlot /\ held[slotOf[r]] # Free
OtherBody(r) == ComparesBody /\ held[slotOf[r]].fingerprint # bodyOf[r]

\* Nothing stands in the way of r, and it leaves nothing behind.
Run(r) ==
  /\ stage[r] = "waiting"
  /\ slotOf[r] = NoSlot \/ FreeFor(r)
  /\ stage' = [stage EXCEPT ![r] = "running"]
  /\ UNCHANGED <<slotOf, bodyOf, held, decision, source>>

Claim(r) ==
  /\ stage[r] = "waiting"
  /\ FreeFor(r)
  /\ held' = [held EXCEPT ![slotOf[r]] = InFlight(r)]
  /\ stage' = [stage EXCEPT ![r] = "running"]
  /\ decision' = [decision EXCEPT ![r] = "first"]
  /\ UNCHANGED <<slotOf, bodyOf, source>>

Refuse(r) ==
  /\ stage[r] = "waiting"
  /\ TakenFor(r)
  /\ \/ OtherBody(r) /\ decision' = [decision EXCEPT ![r] = "mismatch"]
     \/ /\ ~OtherBody(r) /\ held[slotOf[r]].state = "in-flight"
        /\ decision' = [decision EXCEPT ![r] = "in-flight"]
  /\ stage' = [stage EXCEPT ![r] = "ended"]
  /\ UNCHANGED <<slotOf, bodyOf, held, source>>

Replay(r) ==
  /\ stage[r] = "waiting"
  /\ TakenFor(r) /\ ~OtherBody(r) /\ held[slotOf[r]].state = "done"
  /\ decision' = [decision EXCEPT ![r] = "replayed"]
  /\ source' = [source EXCEPT ![r] = held[slotOf[r]].by]
  /\ stage' = [stage EXCEPT ![r] = "ended"]
  /\ UNCHANGED <<slotOf, bodyOf, held>>

\* A request that claimed its key puts its response on record under it, gives
\* the key up, or leaves it as it is.  One that did not leaves no trace.
End(r) ==
  /\ stage[r] = "running"
  /\ stage' = [stage EXCEPT ![r] = "ended"]
  /\ \/ UNCHANGED held
     \/ /\ decision[r] = "first"
        /\ \E v \in {Done(r), Free} : held' = [held EXCEPT ![slotOf[r]] = v]
  /\ UNCHANGED <<slotOf, bodyOf, decision, source>>

\* What is under any of the keys is forgotten.
Forget ==
  /\ \E K \in SUBSET Slots : held' = [k \in Slots |-> IF k \in K THEN Free ELSE held[k]]
  /\ UNCHANGED <<slotOf, bodyOf, stage, decision, source>>

Next ==
  \/ \E r \in Requests : Run(r) \/ Claim(r) \/ Refuse(r) \/ Replay(r) \/ End(r)
  \/ Forget

Spec == Init /\ [][Next]_vars
=============================================================================
