------------------------------ MODULE Capture -------------------------------
(***************************************************************************)
(* What the exit of a request writes for later ones to read, and where     *)
(* emissions therefore go: the capture pass (src/runtime/capture.ts, run   *)
(* by the exit of src/server/handler.ts), the destination registry, the    *)
(* table of linked responses, and the tiers of a destination               *)
(* (src/webhooks/emit.ts).                                                 *)
(*                                                                         *)
(* A request is known by its position, which stands for the URL in its     *)
(* body and for the response it got, so that whoever reads the Store finds *)
(* out whose value it is.  mock.register() and mock.unregister() are       *)
(* requests of the caller that need no pass.  An emission with an explicit *)
(* `to` looks up what this one does and drops it; it is left out.          *)
(***************************************************************************)
EXTENDS Registry, LinkTable

CONSTANTS
  Webhooks,
  Scopes,
  Unscoped,      \* the empty scope
  Unresolved,    \* an expression that does not resolve
  Scoped,        \* the webhooks with a scopeBy
  Operations,
  Rules,         \* per operation: callbacks, then registry, then link rules
  Emits,         \* per operation: the webhooks it emits
  Inputs,        \* bound: which requests are made
  Mixes,         \* bound: the sets of operations that meet in one run
  MaxRequests,   \* bound on the requests and register/unregister calls of a run
  MaxObservers,  \* bound on emissions and listings together: they do not see each other
  MaxReplays,    \* bound on the requests that are replayed, once each
  MaxResets      \* bound on reset()

Requests == 1..MaxRequests

Rule == [kind : {"callback", "register", "unregister"}, webhook : Webhooks]
        \cup [kind : {"link"}]

ASSUME ScopesAssumption == Unscoped \in Scopes /\ Unresolved \notin Scopes /\ Unresolved \notin Ids
ASSUME ScopedAssumption == Scoped \subseteq Webhooks
ASSUME SharedAssumption == /\ Keys = Webhooks \X Scopes
                           /\ Urls = Requests /\ Minters = Requests
ASSUME RulesAssumption == /\ Rules \in [Operations -> Seq(Rule)]
                          /\ Emits \in [Operations -> Seq(Webhooks)]

\* A request, as far as the expressions of its rules can tell: those for a scope
\* and an identifier resolve to something or not, the one for a URL does or not.
Input == [op : Operations,
          scope : Scopes \cup {Unresolved},
          url : BOOLEAN,
          id : Ids \cup {Unresolved},
          accepted : BOOLEAN]   \* the response has a status below 400

ASSUME ControlAssumption == "control" \notin Operations
ASSUME ReadersAssumption == IsFiniteSet(Readers)
ASSUME InputsAssumption == Inputs \subseteq Input
ASSUME BoundsAssumption == {MaxRequests, MaxObservers, MaxReplays, MaxResets} \subseteq Nat

VARIABLES
  requests,
  callbacks,  \* the URL captured for each webhook
  emissions,
  resets

vars == <<index, registered, listing, steady, order, links, recording,
          requests, callbacks, emissions, resets>>

\* Its input, and how far its capture pass is.
Request == [op : Operations \cup {"control"},
            scope : Scopes \cup {Unresolved},
            url : BOOLEAN,
            id : Ids \cup {Unresolved},
            accepted : BOOLEAN,
            pc : {"capturing", "recording", "done"},
            rule : Nat \ {0},   \* the next rule
            retry : {"kept", "replayed", "lost"}]
                     \* its idempotency record is kept, was used, or is not there

Emission == [webhook : Webhooks, scope : Scopes,
             pc : {"waiting", "looking", "sent", "gone"},
             registered : Urls \cup {Absent},
             to : Urls \cup {Absent}]  \* Absent: the configured URL, or none

TypeOK ==
  /\ RegistryTypeOK
  /\ LinkTypeOK
  /\ requests \in Seq(Request) /\ Len(requests) <= MaxRequests
  /\ callbacks \in [Webhooks -> Urls \cup {Absent}]
  /\ emissions \in Seq(Emission) /\ Len(emissions) <= MaxObservers
  /\ resets \in 0..MaxResets

Init ==
  /\ RegistryInit
  /\ LinkInit
  /\ requests = <<>>
  /\ callbacks = [w \in Webhooks |-> Absent]
  /\ emissions = <<>>
  /\ resets = 0

Observers == Len(emissions) + Cardinality({r \in Readers : listing[r].pc # "idle"})

(***************************************************************************)
(* Requests and their capture pass.                                        *)
(***************************************************************************)
\* any response
MayCaptureAlways(accepted) == TRUE
\* response.status < 400
MayCapture(accepted) == accepted

\* The bounds let a request of this operation join the others.
MayJoin(op) ==
  /\ Len(requests) < MaxRequests
  /\ \E mix \in Mixes : {op} \cup {requests[i].op : i \in DOMAIN requests} \subseteq mix

\* The response of a request is final.
Answer(in) ==
  /\ MayJoin(in.op)
  /\ requests' = Append(requests,
       [op |-> in.op, scope |-> in.scope, url |-> in.url, id |-> in.id, accepted |-> in.accepted,
        pc |-> IF MayCapture(in.accepted) THEN "capturing" ELSE "done",
        rule |-> 1, retry |-> "kept"])
  /\ UNCHANGED <<registryVars, linkVars, callbacks, emissions, resets>>

Capturing(i) == i \in DOMAIN requests /\ requests[i].pc = "capturing"
RulesOf(i) == Rules[requests[i].op]

\* The pass of request i is at a rule of this kind.
At(i, kind) ==
  /\ Capturing(i)
  /\ requests[i].rule <= Len(RulesOf(i))
  /\ RulesOf(i)[requests[i].rule].kind = kind
RuleAt(i) == RulesOf(i)[requests[i].rule]
NextRule(i) == requests' = [requests EXCEPT ![i].rule = @ + 1, ![i].pc = "capturing"]

\* a scope that does not resolve falls back on the unscoped registration
RuleScopeOrNone(scope, w) ==
  IF w \in Scoped /\ scope # Unresolved THEN scope ELSE Unscoped

\* The scope under which a rule registers, if it resolves.
RuleScope(scope, w) == IF w \in Scoped THEN scope ELSE Unscoped

\* taken as it is
ResolvesAlways(scope) == TRUE
Resolves(scope) == scope # Unresolved

CaptureCallback(i) ==
  /\ At(i, "callback")
  /\ callbacks' = IF requests[i].url THEN [callbacks EXCEPT ![RuleAt(i).webhook] = i]
                  ELSE callbacks
  /\ NextRule(i)
  /\ UNCHANGED <<registryVars, linkVars, emissions, resets>>

CaptureRegistry(i) ==
  \E kind \in {"register", "unregister"} :
    /\ At(i, kind)
    /\ LET w == RuleAt(i).webhook
           scope == RuleScope(requests[i].scope, w)
       IN \/ Resolves(scope) /\ kind = "unregister" /\ Unregister(<<w, scope>>)
          \/ Resolves(scope) /\ kind = "register" /\ requests[i].url
             /\ Register(<<w, scope>>, i)
          \/ (~Resolves(scope) \/ (kind = "register" /\ ~requests[i].url))
             /\ UNCHANGED registryVars
    /\ NextRule(i)
    /\ UNCHANGED <<linkVars, callbacks, emissions, resets>>

CaptureLink(i) ==
  /\ At(i, "link")
  /\ \/ /\ requests[i].id # Unresolved
        /\ RecordSet(i, requests[i].id)
        /\ requests' = [requests EXCEPT ![i].pc = "recording"]
     \/ /\ requests[i].id = Unresolved
        /\ NextRule(i)
        /\ UNCHANGED linkVars
  /\ UNCHANGED <<registryVars, callbacks, emissions, resets>>

\* The Store has answered record(), at its write or at an eviction.
ContinueLink(i) ==
  /\ i \in DOMAIN requests /\ requests[i].pc = "recording"
  /\ RecordPush(i) \/ RecordEvict(i)
  /\ IF recording'[i].pc = "idle" THEN NextRule(i) ELSE UNCHANGED requests
  /\ UNCHANGED <<registryVars, callbacks, emissions, resets>>

\* An emission addresses the unscoped registration when its scope does not
\* resolve.
EmitScope(scope, w) ==
  IF w \in Scoped /\ scope # Unresolved THEN scope ELSE Unscoped

NewEmission(w, scope) ==
  [webhook |-> w, scope |-> scope, pc |-> "waiting", registered |-> Absent, to |-> Absent]

\* The pass has run its rules; the request schedules what it emits, unless it is
\* a replay.
EndPass(i) ==
  /\ Capturing(i) /\ requests[i].rule > Len(RulesOf(i))
  /\ LET emits == IF requests[i].retry = "replayed" THEN <<>> ELSE Emits[requests[i].op]
     IN /\ Observers + Len(emits) <= MaxObservers
        /\ emissions' = emissions \o
             [n \in DOMAIN emits |-> NewEmission(emits[n], EmitScope(requests[i].scope, emits[n]))]
  /\ requests' = [requests EXCEPT ![i].pc = "done"]
  /\ UNCHANGED <<registryVars, linkVars, callbacks, resets>>

\* A retry with its idempotency key gets the stored response, and the exit runs
\* the same pass for it: the status is that of the first answer.
Replay(i) ==
  /\ i \in DOMAIN requests /\ requests[i].pc = "done" /\ requests[i].retry = "kept"
  /\ Cardinality({j \in DOMAIN requests : requests[j].retry = "replayed"}) < MaxReplays
  /\ MayCapture(requests[i].accepted)
  /\ requests' = [requests EXCEPT ![i].pc = "capturing", ![i].rule = 1, ![i].retry = "replayed"]
  /\ UNCHANGED <<registryVars, linkVars, callbacks, emissions, resets>>

(***************************************************************************)
(* The control plane.                                                      *)
(***************************************************************************)
\* mock.register() and mock.unregister()
Control(w, scope, registers) ==
  /\ MayJoin("control")
  /\ requests' = Append(requests,
       [op |-> "control", scope |-> scope, url |-> registers, id |-> Unresolved,
        accepted |-> TRUE, pc |-> "done", rule |-> 1, retry |-> "lost"])
  /\ IF registers THEN Register(<<w, scope>>, Len(requests) + 1)
     ELSE Unregister(<<w, scope>>)
  /\ UNCHANGED <<linkVars, callbacks, emissions, resets>>

Reset ==
  /\ resets < MaxResets
  /\ resets' = resets + 1
  \* the Store
  /\ RegistryCleared
  /\ LinksCleared
  /\ callbacks' = [w \in Webhooks |-> Absent]
  /\ emissions' = [e \in DOMAIN emissions |->
       IF emissions[e].pc = "waiting" THEN [emissions[e] EXCEPT !.pc = "gone"]
       ELSE emissions[e]]
  /\ requests' = [i \in DOMAIN requests |->
       IF requests[i].retry = "kept" THEN [requests[i] EXCEPT !.retry = "lost"] ELSE requests[i]]

List(r) ==
  /\ (Observers < MaxObservers /\ StartListing(r)) \/ ListFound(r) \/ ListDropped(r)
  /\ UNCHANGED <<linkVars, requests, callbacks, emissions, resets>>

Expire(id) ==
  /\ LinkExpire(id)
  /\ UNCHANGED <<registryVars, requests, callbacks, emissions, resets>>

(***************************************************************************)
(* Emissions.                                                              *)
(***************************************************************************)
\* What emitWebhook() begins with: the registration of its scope.
Looking(e) ==
  [e EXCEPT !.pc = "looking", !.registered = Lookup(<<e.webhook, e.scope>>)]

\* mock.emit()
Emit(w, scope) ==
  /\ Observers < MaxObservers
  /\ emissions' = Append(emissions, Looking(NewEmission(w, scope)))
  /\ UNCHANGED <<registryVars, linkVars, requests, callbacks, resets>>

Fire(n) ==
  /\ n \in DOMAIN emissions /\ emissions[n].pc = "waiting"
  /\ emissions' = [emissions EXCEPT ![n] = Looking(@)]
  /\ UNCHANGED <<registryVars, linkVars, requests, callbacks, resets>>

Destination(e) ==
  IF e.registered # Absent THEN e.registered ELSE callbacks[e.webhook]

\* The registry has answered: the captured URL is read, and the tiers decide.
Resolve(n) ==
  /\ n \in DOMAIN emissions /\ emissions[n].pc = "looking"
  /\ emissions' = [emissions EXCEPT ![n].pc = "sent", ![n].to = Destination(emissions[n])]
  /\ UNCHANGED <<registryVars, linkVars, requests, callbacks, resets>>

Next ==
  \/ \E in \in Inputs : Answer(in)
  \/ \E i \in Requests : \/ CaptureCallback(i) \/ CaptureRegistry(i) \/ CaptureLink(i)
                         \/ ContinueLink(i) \/ EndPass(i) \/ Replay(i)
  \/ \E w \in Webhooks, scope \in Scopes :
       \/ Emit(w, scope)
       \/ \E registers \in BOOLEAN : Control(w, scope, registers)
  \/ \E r \in Readers : List(r)
  \/ \E id \in Ids : Expire(id)
  \/ \E n \in 1..MaxObservers : Fire(n) \/ Resolve(n)
  \/ Reset

Spec == Init /\ [][Next]_vars

(***************************************************************************)
(* Properties.                                                             *)
(***************************************************************************)
\* Request i may have registered a URL for webhook w and this scope.
Registers(i, w, scope) ==
  /\ i \in DOMAIN requests /\ requests[i].accepted /\ requests[i].url
  /\ \/ requests[i].op = "control" /\ requests[i].scope = scope
     \/ /\ requests[i].op # "control"
        /\ \E p \in DOMAIN RulesOf(i) :
             RulesOf(i)[p] = [kind |-> "register", webhook |-> w]
        /\ scope = IF w \in Scoped THEN requests[i].scope ELSE Unscoped

\* An emission that finds a registration goes to the URL of an accepted request
\* that registered its webhook for its own scope: no tenant's request, resolved
\* scope or not, accepted or not, redirects the webhooks of another.
TenantsApart ==
  \A n \in DOMAIN emissions :
    emissions[n].pc = "sent" /\ emissions[n].registered # Absent =>
      Registers(emissions[n].to, emissions[n].webhook, emissions[n].scope)

\* What a read recalls under an identifier is the response of an accepted write
\* that minted this identifier.
RecallsWhatWasMinted ==
  \A id \in Ids : Recall(id) # Absent =>
    /\ Recall(id) \in DOMAIN requests
    /\ requests[Recall(id)].accepted /\ requests[Recall(id)].id = id

\* What the index is for: every registration made in this process is enumerated.
Enumerable == \A k \in Keys : registered[k] # Absent => Indexed(index, k)

\* A replayed request has no further effect on what the Store holds.
ReplayHasNoEffect ==
  [][\A i \in DOMAIN requests :
       requests[i].retry = "replayed" /\ requests'[i] # requests[i]
         => UNCHANGED <<registered, callbacks, links>>]_vars
=============================================================================
