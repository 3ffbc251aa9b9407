------------------------------ MODULE Exchange ------------------------------
(***************************************************************************)
(* A request on its way through the handler (produce() of                  *)
(* src/server/handler.ts): routing, the runtime override and variant, the  *)
(* body, authentication, validation, the selection of a response, and the  *)
(* body that is rendered from generation, fixture, link and overrides.     *)
(* Each action ends at an await; control calls run in between.             *)
(*                                                                         *)
(* A case is a document with its configuration and the requests made to    *)
(* it.  The idempotency and failure stages, the fixture resolver and the   *)
(* link table have modules of their own: here a stage may answer, and a    *)
(* link may be known or not.                                               *)
(*                                                                         *)
(* What the readers of schemas and of values compute is a parameter here:  *)
(* the way of a request does not depend on it.  Bodies says what it is.    *)
(***************************************************************************)
EXTENDS Control, Routes, Selection, Auth, RequestBody

CONSTANTS
  Cases,     \* the cases, in a sequence
  Requests,  \* requests of a behaviour
  Content,   \* what each override says: a status, and a body per status
  Conforms(_, _, _, _),  \* whether a request is what its operation declares
  Drafts(_, _),          \* what may be generated from a schema
  Laid(_, _),            \* a body with layers laid over it
  Part(_, _, _)          \* what a scope claims of a value

Sequence(s) == s \in Seq({s[i] : i \in DOMAIN s})

\* What a verify callback may say, and the operations a document loads as.
Verdicts ==
  [says : {"principal"}, scopes : SUBSET STRING] \cup [says : {"response"}, status : 200..599]
    \cup [says : {"throws"}]

Loaded(operation) ==
  /\ operation.path \in Seq([value : STRING, dynamic : BOOLEAN])
  /\ operation.security \in Seq(Seq([scheme : STRING, scopes : SUBSET STRING]))
  /\ Sequence(operation.responses) /\ Sequence(operation.default)
  /\ \A i \in DOMAIN operation.responses :
       LET response == operation.responses[i]
       IN response.range \in BOOLEAN /\ (response.range => response.status \in {100, 200, 300, 400, 500})

ASSUME CasesAssumption ==
  \A n \in DOMAIN Cases :
    /\ Sequence(Cases[n].operations) /\ Sequence(Cases[n].inputs)
    /\ \A o \in DOMAIN Cases[n].operations : Loaded(Cases[n].operations[o])
    /\ \A i \in DOMAIN Cases[n].inputs, scheme \in DOMAIN Cases[n].verify \cap DOMAIN Cases[n].schemes :
         LET credential == CredentialFor(Cases[n].schemes[scheme], Cases[n].inputs[i].carried)
         IN credential # "" => Cases[n].verify[scheme][credential] \in Verdicts

VARIABLES
  chosen,  \* the number of the case
  request  \* the requests

exchangeVars == <<slots, calls, object, promised, chosen, request>>

Case == Cases[chosen]
Fresh == [pc |-> "new", input |-> 0, op |-> 0, runtime |-> None, variant |-> "", value |-> Undefined,
          failure |-> <<>>, response |-> <<>>, fixture |-> <<>>, recalled |-> <<>>, answer |-> <<>>]

Input(r) == Case.inputs[request[r].input]
Operation(r) == Case.operations[request[r].op]

ExchangeInit ==
  /\ ControlInit
  /\ chosen \in DOMAIN Cases
  /\ request = [r \in Requests |-> Fresh]

(***************************************************************************)
(* Answers.  An answer keeps how its body came about: the schema it was    *)
(* generated from and the value below the layers.                          *)
(***************************************************************************)
Reply(by, status, body) ==
  [by |-> by, status |-> status, body |-> body, base |-> body, schema |-> <<>>, reported |-> FALSE]

Envelope == JString("envelope", 0)

\* The boundary's 500: a callback threw, or the response could not be made.
InternalError(by) == Reply(by, 500, Envelope)
Sent(answer) ==
  IF CannotSend(answer.status, answer.body.kind # "undefined") THEN InternalError("internal") ELSE answer

AtStage(r, pc) == request[r].pc = pc
Go(r, pc) == request' = [request EXCEPT ![r].pc = pc]
Answer(r, answer) == request' = [request EXCEPT ![r].pc = "answered", ![r].answer = <<answer>>]
Fail(r, by, status) ==
  request' = [request EXCEPT ![r].pc = "failing", ![r].failure = <<[by |-> by, status |-> status]>>]
Still == UNCHANGED <<slots, calls, object, promised, chosen>>

(***************************************************************************)
(* The stages.                                                             *)
(***************************************************************************)
Arrive(r, i) ==
  /\ AtStage(r, "new") /\ i \in DOMAIN Case.inputs
  /\ LET input == Case.inputs[i]
         op == Match(Case.operations, input.method, input.parts)
         allowed == AllowedMethods(Case.operations, input.parts)
     IN IF op # 0
        THEN request' = [request EXCEPT ![r].pc = "routed", ![r].input = i, ![r].op = op]
        ELSE request' = [request EXCEPT ![r].pc = "failing", ![r].input = i,
               ![r].failure = <<[by |-> "route", status |-> IF allowed # {} THEN 405 ELSE 404]>>]
  /\ Still

TakeOverride(r) ==
  /\ AtStage(r, "routed")
  /\ request' = [request EXCEPT ![r].pc = "overridden", ![r].runtime = ReadOverride(request[r].op)]
  /\ Still

\* The variant the request prefers, or else the one that is pinned.
TakeVariant(r) ==
  /\ AtStage(r, "overridden")
  /\ LET pinned == ReadVariant(request[r].op)
         variant == IF Input(r).variant # "" THEN Input(r).variant
                    ELSE IF pinned # None THEN pinned ELSE ""
     IN request' = [request EXCEPT ![r].pc = "reading", ![r].variant = variant]
  /\ Still

ReadBody(r) ==
  /\ AtStage(r, "reading")
  /\ LET parsed == ParseBody(Input(r).body, Operation(r))
     IN IF parsed.status = 0
        THEN request' = [request EXCEPT ![r].pc = "parsed", ![r].value = parsed.value]
        ELSE Fail(r, "body", parsed.status)
  /\ Still

Authenticate(r) ==
  /\ AtStage(r, "parsed")
  /\ LET outcome == CheckAuth(Operation(r).security, Case.schemes, Case.verify, Input(r).carried)
     IN IF outcome.ok THEN Go(r, "authenticated")
        ELSE IF outcome.throws THEN Answer(r, InternalError("callback"))
        ELSE IF outcome.given THEN Answer(r, Reply("auth", outcome.status, Envelope))
        ELSE Fail(r, "auth", outcome.status)
  /\ Still

Sources(r) ==
  LET params == Params(Operation(r).path, Input(r).parts)
  IN [place \in {<<"path", name>> : name \in DOMAIN params} |-> <<params[place[2]]>>] @@ Input(r).sources

Validate(r) ==
  /\ AtStage(r, "authenticated")
  /\ IF ~Case.validates \/ Conforms(Operation(r), Sources(r), request[r].value, Input(r).body.media)
     THEN Go(r, "valid")
     ELSE Fail(r, "validation", 400)
  /\ Still

\* The idempotency and failure stages: one of them answers, or neither does.
Stage(r) ==
  /\ AtStage(r, "valid")
  /\ \/ Go(r, "admitted")
     \/ \E status \in Case.stages : Fail(r, "stage", status)
  /\ Still

\* A response of the mock's own, as the operation declares it if it does.
FailWith(r) ==
  /\ AtStage(r, "failing")
  /\ LET failure == request[r].failure[1]
         media == IF request[r].op = 0 THEN <<>> ELSE ErrorMedia(Operation(r), failure.status, Case.errors)
         reply == Reply(failure.by, failure.status, Envelope)
     IN IF media = <<>> THEN Answer(r, Sent(reply))
        ELSE \E d \in Drafts(media[1].schema, Case.options) :
               Answer(r, Sent([reply EXCEPT !.schema = <<media[1].schema>>, !.reported = d.reported,
                                            !.body = d.value, !.base = d.value]))
  /\ Still

Respond(r) ==
  /\ AtStage(r, "admitted")
  /\ LET respond == LastOf("respond", Operation(r), Case.configs, "none")
     IN CASE respond = "none" -> Go(r, "unanswered")
          [] respond = "throws" -> Answer(r, InternalError("callback"))
          [] OTHER -> Answer(r, Reply("respond", 200, Envelope))
  /\ Still

(***************************************************************************)
(* The response: its status, then its fixture and link, then its body.     *)
(***************************************************************************)
Runtime(r) == IF request[r].runtime = None THEN [status |-> 0, bodies |-> <<>>] ELSE Content[request[r].runtime]

StaticStatus(r) ==
  IF Runtime(r).status # 0 THEN Runtime(r).status ELSE LastOf("status", Operation(r), Case.configs, 0)

Select(r) ==
  /\ AtStage(r, "unanswered")
  /\ LET selected == SelectResponse(Operation(r), Input(r).status, StaticStatus(r))
     IN IF selected # <<>>
        THEN request' = [request EXCEPT ![r].pc = "selected", ![r].response = selected]
        ELSE Fail(r, "select", 501)
  /\ Still

Status(r) == request[r].response[1].status
MediaOf(r) == MediaFor(Operation(r), Status(r))

\* A fixture serves the body, or a layer of it when it was baked with a scope.
\* Where the response has no schema it is not asked for.
TakeFixture(r) ==
  /\ AtStage(r, "selected")
  /\ LET found == SelectSeq(Case.fixtures, LAMBDA f :
                     f.op = request[r].op /\ f.status = Status(r) /\ MediaOf(r) # <<>>)
     IN request' = [request EXCEPT ![r].pc = "fixed", ![r].fixture = found]
  /\ Still

Recall(r) ==
  /\ AtStage(r, "fixed")
  /\ \E recalled \in {<<>>} \cup (IF Status(r) \in 200..299 THEN {Case.recalled} ELSE {}) :
       request' = [request EXCEPT ![r].pc = "recalled", ![r].recalled = recalled]
  /\ Still

\* What a fixture is to the body: all of it, or a layer.
Whole(r) ==
  LET found == request[r].fixture
  IN IF found = <<>> \/ found[1].scope # <<>> THEN <<>> ELSE <<found[1].value>>

ScopedPart(found, media) ==
  IF found = <<>> \/ found[1].scope = <<>> THEN <<>>
  ELSE SelectSeq(<<Part(found[1].value, media[1].schema, found[1].scope[1])>>,
                 LAMBDA layer : layer.kind # "undefined")

FixtureLayer(r) == ScopedPart(request[r].fixture, MediaOf(r))

\* The bases a body may have, each with the schema it was generated from: the
\* example the request names, a whole fixture, or a generated value.
Bases(r) ==
  LET media == MediaOf(r)
      options == [Case.options EXCEPT !.variant = request[r].variant]
      Given(value) == [value |-> value, reported |-> FALSE, schema |-> <<>>]
  IN IF media # <<>> /\ Has(media[1].examples, Input(r).example)
     THEN {Given(media[1].examples[Input(r).example])}
     ELSE IF Whole(r) # <<>> THEN {Given(Whole(r)[1])}
     ELSE IF media = <<>> THEN {Given(Undefined)}
     ELSE {[value |-> d.value, reported |-> d.reported, schema |-> <<media[1].schema>>] :
             d \in Drafts(media[1].schema, options)}

RuntimeBodies(r) ==
  IF Status(r) \in DOMAIN Runtime(r).bodies THEN <<Runtime(r).bodies[Status(r)]>> ELSE <<>>

BodyLayersLinkFirst(r) ==
  [i \in DOMAIN request[r].recalled |-> Call(request[r].recalled[i])] \o FixtureLayer(r)
  \o ConfigBodies(Operation(r), Case.configs, Status(r)) \o RuntimeBodies(r)

BodyLayers(r) ==
  FixtureLayer(r) \o [i \in DOMAIN request[r].recalled |-> Call(request[r].recalled[i])]
  \o ConfigBodies(Operation(r), Case.configs, Status(r)) \o RuntimeBodies(r)

Render(r) ==
  /\ AtStage(r, "recalled")
  /\ \E layers \in {BodyLayers(r)}, base \in Bases(r) :
       IF \E i \in DOMAIN layers : layers[i] = Throwing THEN Answer(r, InternalError("callback"))
       ELSE Answer(r, Sent([Reply("render", Status(r), base.value) EXCEPT
                              !.body = Laid(base.value, layers), !.schema = base.schema,
                              !.reported = base.reported]))
  /\ Still

Step(r) ==
  \/ \E i \in DOMAIN Case.inputs : Arrive(r, i)
  \/ TakeOverride(r) \/ TakeVariant(r) \/ ReadBody(r)
  \/ Authenticate(r) \/ Validate(r) \/ Stage(r) \/ FailWith(r) \/ Respond(r)
  \/ Select(r) \/ TakeFixture(r) \/ Recall(r) \/ Render(r)

\* Control calls after the last request has read the slots change nothing for
\* it, and are left out; before the first one arrives they may all be made.
Unread == \E r \in Requests : request[r].pc \in {"new", "routed", "overridden"}

Control ==
  /\ Case.control /\ Unread
  /\ ControlNext
  /\ UNCHANGED <<chosen, request>>

ExchangeNext == Control \/ \E r \in Requests : Step(r)
ExchangeSpec == ExchangeInit /\ [][ExchangeNext]_exchangeVars

(***************************************************************************)
(* Type correctness, and what is served can be sent: a response that       *)
(* cannot is made of a status the document declares exactly, never of one  *)
(* of its ranges.  (src/runtime/select.ts:20)                              *)
(***************************************************************************)
Stages == {"new", "routed", "overridden", "reading", "parsed", "authenticated", "valid",
           "failing", "admitted", "unanswered", "selected", "fixed", "recalled", "answered"}

RequestTypeOK(r) ==
  /\ request[r].pc \in Stages
  /\ AtStage(r, "new") <=> request[r].input = 0
  /\ request[r].op \in 0..Len(Case.operations)
  /\ request[r].runtime \in Overrides \cup {None}
  /\ AtStage(r, "answered") <=> Len(request[r].answer) = 1
  /\ AtStage(r, "answered") =>
       /\ request[r].answer[1].status \in 200..599
       /\ (request[r].answer[1].by = "internal" /\ request[r].response # <<>>) =>
            ~request[r].response[1].range

TypeOK ==
  /\ ControlTypeOK
  /\ chosen \in DOMAIN Cases
  /\ \A r \in Requests : RequestTypeOK(r)

(***************************************************************************)
(* Who answers, and to whom.  The operation a request is given to is the   *)
(* one that fits it best - no other that fits has a static segment where   *)
(* it has a parameter, at the first segment where they differ - a request  *)
(* no operation fits is told so, and by 405 exactly when another method    *)
(* would do; and past authentication is only who is entitled, and only who *)
(* is not is turned away there.                                            *)
(* (src/spec/routes.ts:87, src/runtime/auth.ts:111: sorting once and       *)
(* stopping at the first match, over loops with early exits.)              *)
(***************************************************************************)
Fitting(r) ==
  {i \in DOMAIN Case.operations : MatchSegments(Case.operations[i].path, Input(r).parts)}

BetterFit(i, j) ==
  LET a == Case.operations[i].path  b == Case.operations[j].path
      differ == {n \in DOMAIN a : a[n].dynamic # b[n].dynamic}
  IN IF differ = {} THEN i < j ELSE ~a[CHOOSE n \in differ : \A m \in differ : n <= m].dynamic

RoutedTo(r, op, fitting) ==
  LET here == {i \in fitting : Case.operations[i].method = Input(r).method}
  IN IF op # 0 THEN op \in here /\ \A i \in here \ {op} : BetterFit(op, i)
     ELSE here = {} /\ request[r].failure[1].status = IF fitting = {} THEN 404 ELSE 405

RoutedBest(r) == RoutedTo(r, request[r].op, Fitting(r))

Inside == {"authenticated", "valid", "admitted", "unanswered", "selected", "fixed", "recalled"}

AnsweredBy(r) ==
  CASE AtStage(r, "failing") -> request[r].failure[1].by
    [] AtStage(r, "answered") -> request[r].answer[1].by
    [] OTHER -> ""

AuthSound(r, by, entitled) ==
  /\ (request[r].pc \in Inside \/ by \in {"validation", "stage", "respond", "select", "render", "internal"}) => entitled
  /\ by = "auth" => ~entitled

Admission ==
  \A r \in Requests : ~AtStage(r, "new") =>
    /\ RoutedBest(r)
    /\ request[r].op # 0 =>
         AuthSound(r, AnsweredBy(r),
                   Entitled(Operation(r).security, Case.schemes, Case.verify, Input(r).carried))
=============================================================================
