------------------------------ MODULE Resolver ------------------------------
(***************************************************************************)
(* The fixture resolver (src/fixtures/resolve.ts) over the fixture store:  *)
(* a stored entry when there is one, and in mode lazy or live a call of    *)
(* the content source, one per key at a time and no more than the budget   *)
(* allows.                                                                 *)
(*                                                                         *)
(* resolve() runs without a pause up to the await of a flight, and the     *)
(* flight without a pause from the source's answer to its end: those are   *)
(* the steps.  A content source is an answer, nothing, a rejection, or a   *)
(* function that throws before it returns a promise.                       *)
(***************************************************************************)
EXTENDS Disk

CONSTANTS
  Requests,    \* calls of resolve()
  RequestKeys, \* the keys that a request can have
  WildcardOf,  \* [Keys -> Keys]: the key of the same response for any parameters
  Bodiless,    \* the keys of responses with no JSON body
  Sendable,    \* the keys whose schema a request can be built from
  Configs,     \* of the process: mode, source, budget and scope
  Unlimited,   \* no maxCalls
  Generated    \* resolve() answers undefined: the body will be generated

Modes == {"off", "bake", "lazy", "live"}

ASSUME WildcardAssumption ==
  /\ WildcardOf \in [Keys -> Keys]
  /\ \A k \in Keys : FileOf[WildcardOf[k]] = FileOf[k]
ASSUME ResponsesAssumption ==
  RequestKeys \subseteq Keys /\ Bodiless \subseteq Keys /\ Sendable \subseteq Keys
ASSUME UnlimitedAssumption == Unlimited \notin Nat
ASSUME ConfigsAssumption ==
  Configs \subseteq [mode : Modes, source : BOOLEAN, maxCalls : Nat \cup {Unlimited}, scoped : BOOLEAN]
ASSUME GeneratedAssumption == Generated \notin [version : Nat, narrowed : BOOLEAN, layer : BOOLEAN]
ASSUME RequestsAssumption == Absent \notin Requests /\ IsFiniteSet(Requests)

VARIABLES
  config,    \* what the process was started with
  calls,     \* the budget used
  inFlight,  \* the Map of flights: under a key, the request that leads it
  request,   \* resolve() calls
  sent       \* history: calls of the source by this process

resolverVars == <<config, calls, inFlight, request, sent>>

Answer == [version : Nat, narrowed : BOOLEAN, layer : BOOLEAN]

\* `leader` is the request whose flight this one awaits, its own or another's;
\* `flight` is this request's own call of the source.
Request == [pc : {"idle", "awaiting", "done"},
            key : Keys \cup {Absent},
            leader : Requests \cup {Absent},
            flight : {"none", "flying", "landed"},
            answer : Answer \cup {Generated}]

ResolverTypeOK ==
  /\ config \in Configs
  /\ calls \in Nat
  /\ inFlight \in [Keys -> Requests \cup {Absent}]
  /\ request \in [Requests -> Request]
  /\ sent \in Nat

NotAsked == [pc |-> "idle", key |-> Absent, leader |-> Absent, flight |-> "none",
             answer |-> Generated]

ResolverInit ==
  /\ config \in Configs
  /\ calls = 0 /\ sent = 0
  /\ inFlight = [k \in Keys |-> Absent]
  /\ request = [r \in Requests |-> NotAsked]

\* the ambient configuration decides, whatever the entry says of itself
ShapeByConfig(value, narrowed, scoped) ==
  [version |-> value, narrowed |-> narrowed, layer |-> config.scoped]
\* the marker decides, also of an entry that has none
ShapeByMarker(value, narrowed, scoped) ==
  [version |-> value, narrowed |-> narrowed, layer |-> scoped]

\* shape(): the entry's own marker, else the ambient scope
Shape(value, narrowed, scoped) ==
  [version |-> value, narrowed |-> narrowed,
   layer |-> IF scoped = Absent THEN config.scoped ELSE scoped]

\* storeGet(): the exact key before the wildcard
Stored(k) == IF memory[k] # Absent THEN memory[k] ELSE memory[WildcardOf[k]]

\* peek(), and the first half of resolve()
Peek(k) ==
  IF k \in Bodiless \/ Stored(k) = Absent THEN Generated
  ELSE Shape(Stored(k).version, Stored(k).narrowed, Stored(k).scoped)

Hit(k) == config.mode # "live" /\ Peek(k) # Generated

MayFetch(k) ==
  /\ k \notin Bodiless
  /\ config.source /\ config.mode \in {"lazy", "live"}

WithinBudget == config.maxCalls # Unlimited => calls < config.maxCalls

Answered(r, k, answer) ==
  request' = [request EXCEPT ![r] = [@ EXCEPT !.pc = "done", !.key = k, !.answer = answer]]

\* A stored entry, or nothing a source may be asked for.
ResolveAtOnce(r, k) ==
  /\ request[r].pc = "idle"
  /\ \/ Hit(k)
     \/ ~MayFetch(k)
     \/ ~WithinBudget
     \/ inFlight[k] = Absent /\ k \notin Sendable
  /\ Answered(r, k, IF Hit(k) THEN Peek(k) ELSE Generated)
  /\ UNCHANGED <<diskVars, config, calls, inFlight, sent>>

Misses(r, k) ==
  /\ request[r].pc = "idle"
  /\ ~Hit(k) /\ MayFetch(k) /\ WithinBudget

\* `await existing`; a flight that has landed has nothing to give.
Join(r, k) ==
  /\ Misses(r, k) /\ inFlight[k] # Absent
  /\ LET leader == inFlight[k]
     IN IF request[leader].flight = "flying"
        THEN request' = [request EXCEPT ![r] =
               [@ EXCEPT !.pc = "awaiting", !.key = k, !.leader = leader]]
        ELSE Answered(r, k, Generated)
  /\ UNCHANGED <<diskVars, config, calls, inFlight, sent>>

\* a flight that enters the Map only when its answer is here
NoEntry(k, r) == inFlight

Entered(k, r) == [inFlight EXCEPT ![k] = r]

\* A new flight: counted, started, and only then entered in the Map.
Launch(r, k) ==
  /\ Misses(r, k) /\ inFlight[k] = Absent /\ k \in Sendable
  /\ calls' = calls + 1 /\ sent' = sent + 1
  /\ inFlight' = Entered(k, r)
  /\ request' = [request EXCEPT ![r] =
       [@ EXCEPT !.pc = "awaiting", !.key = k, !.leader = r, !.flight = "flying"]]
  /\ UNCHANGED <<diskVars, config>>

\* The source throws before there is a promise: the flight ends, and removes
\* itself, before it is entered.
LaunchThrows(r, k) ==
  /\ Misses(r, k) /\ inFlight[k] = Absent /\ k \in Sendable
  /\ calls' = calls + 1 /\ sent' = sent + 1
  /\ inFlight' = Entered(k, r)
  /\ request' = [request EXCEPT ![r] =
       [@ EXCEPT !.pc = "done", !.key = k, !.leader = r, !.flight = "landed"]]
  /\ UNCHANGED <<diskVars, config>>

\* Everyone who awaits the flight of `r` has `answer`.
Landed(r, answer) ==
  request' = [q \in Requests |->
    IF request[q].pc = "awaiting" /\ request[q].leader = r
    THEN [request[q] EXCEPT !.pc = "done", !.answer = answer,
                            !.flight = IF q = r THEN "landed" ELSE @]
    ELSE request[q]]

Flying(r) == request[r].pc = "awaiting" /\ request[r].flight = "flying"

\* An answer: stored under the exact key, in mode lazy, and the flight leaves
\* the Map, with no pause in between.
LandWithValue(r) ==
  LET k == request[r].key
      new == version + 1
  IN /\ Flying(r) /\ version < MaxVersions
     /\ version' = new
     /\ IF config.mode = "lazy"
        THEN SetAll([x \in {k} |-> [version |-> new, narrowed |-> FALSE, scoped |-> Absent]])
        ELSE UNCHANGED <<memory, timer>>
     /\ inFlight' = [inFlight EXCEPT ![k] = Absent]
     /\ Landed(r, Shape(new, FALSE, Absent))
     /\ UNCHANGED <<unsafe, queue, writing, disk, torn, flushes, faults, durable, gaveUp, config, calls, sent>>

\* No result, or a rejection.
LandEmpty(r) ==
  /\ Flying(r)
  /\ inFlight' = [inFlight EXCEPT ![request[r].key] = Absent]
  /\ Landed(r, Generated)
  /\ UNCHANGED <<diskVars, config, calls, sent>>

\* A new process, which may be configured otherwise.
ResolverRestart ==
  /\ config' \in Configs
  /\ calls' = 0 /\ sent' = 0
  /\ inFlight' = [k \in Keys |-> Absent]
  /\ request' = [r \in Requests |-> NotAsked]

\* Two flights under one key are never in the air, and the budget bounds the
\* calls of the source, of all requests together, in any order of their awaits.
FlightsBounded ==
  /\ \A r, q \in Requests :
       Flying(r) /\ Flying(q) /\ request[r].key = request[q].key => r = q
  /\ config.maxCalls # Unlimited => sent <= config.maxCalls

\* A value reduced to a part of the body is laid over a generated one, never
\* served as the body, under whatever configuration it is read.
NarrowedOnlyLayered ==
  \A r \in Requests : request[r].answer # Generated =>
     (request[r].answer.narrowed => request[r].answer.layer)
=============================================================================
