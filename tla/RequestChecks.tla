---------------------------- MODULE RequestChecks ----------------------------
(***************************************************************************)
(* Whether the parameters and the body of a request match what the         *)
(* operation declares (src/runtime/validate.ts).                           *)
(*                                                                         *)
(* Sources of parameters are by place: <<location, name>>, a sequence of   *)
(* texts.                                                                  *)
(***************************************************************************)
EXTENDS SchemaCompiler, RequestBody

CONSTANT Numerals  \* words that read as a number, and the number

\* A text is read as the kind that its schema declares, where it can be.
Coerce(text, node) ==
  LET kind == Classify(node).kind
  IN IF kind \in {"integer", "number"} /\ text \in DOMAIN Numerals THEN JNumber(Numerals[text])
     ELSE IF kind = "boolean" /\ text \in {"true", "false"} THEN JBoolean(text = "true")
     ELSE JString(text, Len(text))

\* A parameter that is there once is a value, more than once an array; an
\* array parameter is one either way, read member by member.
ParameterValue(texts, node) ==
  LET kind == Classify(node)
      AtPosition(i) == IF i <= Len(kind.prefix) THEN kind.prefix[i] ELSE kind.items
  IN IF kind.kind = "array" THEN JArray([i \in DOMAIN texts |-> Coerce(texts[i], AtPosition(i))])
     ELSE IF Len(texts) > 1 THEN JArray([i \in DOMAIN texts |-> Coerce(texts[i], node)])
     ELSE Coerce(texts[1], node)

ParameterValid(parameter, sources) ==
  LET place == <<parameter.location, parameter.name>>
  IN IF place \notin DOMAIN sources THEN ~parameter.required
     ELSE Accepts(parameter.schema, ParameterValue(sources[place], parameter.schema))

BodyValid(value, media, operation) ==
  LET declared == PickMedia(operation.requestBody, media)
  IN IF value.kind = "undefined" THEN ~operation.bodyRequired
     ELSE declared = <<>> \/ value.kind = "bytes" \/ Accepts(declared[1], value)

ValidateRequest(operation, sources, value, media) ==
  /\ \A i \in DOMAIN operation.parameters : ParameterValid(operation.parameters[i], sources)
  /\ BodyValid(value, media, operation)
=============================================================================
