------------------------------- MODULE Bodies -------------------------------
(***************************************************************************)
(* The bodies that Exchange serves: what validation, generation, layers    *)
(* and scopes compute of schemas and values is what RequestChecks,         *)
(* Generator and Layers say.                                               *)
(***************************************************************************)
EXTENDS Exchange, RequestChecks, Generator, Layers

(***************************************************************************)
(* What the mock generates, its own validator accepts: every body that is  *)
(* generated from a schema - of the response that is served, of the error  *)
(* that is declared - satisfies it, unless the depth budget was reported   *)
(* as exhausted.  Left out are documents whose schemas no value satisfies  *)
(* or no draw is sure to.                                                  *)
(* (src/generate/generate.ts:113 and src/schema/compile.ts:79 read one     *)
(* traversal: each keyword is handled twice, and composed with the rest.)  *)
(***************************************************************************)
BodyConforms ==
  \A r \in Requests : \A i \in DOMAIN request[r].answer :
    LET answer == request[r].answer[i]
    IN (Case.satisfiable /\ answer.schema # <<>>) =>
         answer.reported \/ Accepts(answer.schema[1], answer.base)

(***************************************************************************)
(* The precedence of the layers, leaf by leaf: what the runtime override   *)
(* says, else the configuration (the later entry first), else the link,    *)
(* else the part of a fixture that its scope claims, else what was         *)
(* generated.  And a scope claims what is in it, all of it and no more.    *)
(* (src/server/handler.ts:1130, src/resolve/layer.ts:15,                   *)
(* src/fixtures/scope.ts:56: the layers come from four places and meet in  *)
(* one array.)                                                             *)
(***************************************************************************)
Precedence(r) ==
  LET link == IF request[r].recalled = <<>> THEN <<>> ELSE <<Call(request[r].recalled[1])>>
  IN FixtureLayer(r) \o link
     \o ConfigBodies(Operation(r), Case.configs, Status(r)) \o RuntimeBodies(r)

LayersCompose ==
  \A r \in Requests : \A i \in DOMAIN request[r].answer :
    LET answer == request[r].answer[i]
        found == request[r].fixture
    IN answer.by = "render" =>
         /\ ComposedOf(answer.body, answer.base, Precedence(r))
         /\ (found # <<>> /\ found[1].scope # <<>>) =>
              NarrowedTo(Part(found[1].value, MediaOf(r)[1].schema, found[1].scope[1]),
                         found[1].value, MediaOf(r)[1].schema, found[1].scope[1])
=============================================================================
