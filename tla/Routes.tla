------------------------------- MODULE Routes -------------------------------
(***************************************************************************)
(* Which operation a request or a target means (src/spec/routes.ts,        *)
(* src/resolve/target.ts), and what the configuration says of it           *)
(* (src/runtime/config.ts).                                                *)
(*                                                                         *)
(* A path is the sequence of its segments.  A segment of a template is     *)
(* [value, dynamic]; one of a request that cannot be decoded is Malformed. *)
(***************************************************************************)
EXTENDS Integers, Sequences, FiniteSets, TLC

Malformed == "%"

Static(value) == [value |-> value, dynamic |-> FALSE]
Dynamic(name) == [value |-> name, dynamic |-> TRUE]

(***************************************************************************)
(* Templates that match, in the order they are tried: shorter ones first,  *)
(* a static segment before a dynamic one, then as the document has them.   *)
(***************************************************************************)
ScoreByLength(path, i) == IF i > Len(path) THEN -1 ELSE 0
Score(path, i) == IF i > Len(path) THEN -1 ELSE IF path[i].dynamic THEN 1 ELSE 0

CompareScore(a, b) ==
  LET length == IF Len(a) > Len(b) THEN Len(a) ELSE Len(b)
      differ == {i \in 1..length : Score(a, i) # Score(b, i)}
      first == CHOOSE i \in differ : \A j \in differ : i <= j
  IN IF differ = {} THEN 0 ELSE Score(a, first) - Score(b, first)

Before(operations, i, j) ==
  LET compared == CompareScore(operations[i].path, operations[j].path)
  IN compared < 0 \/ (compared = 0 /\ i < j)

MatchSegments(path, parts) ==
  /\ Len(path) = Len(parts)
  /\ \A i \in DOMAIN path :
       IF path[i].dynamic THEN parts[i] # Malformed ELSE path[i].value = parts[i]

FirstRoute(operations, candidates) ==
  IF candidates = {} THEN 0
  ELSE CHOOSE i \in candidates : \A j \in candidates \ {i} : Before(operations, i, j)

\* The number of the operation, 0 for none.
Match(operations, method, parts) ==
  FirstRoute(operations, {i \in DOMAIN operations :
    operations[i].method = method /\ MatchSegments(operations[i].path, parts)})

AllowedMethods(operations, parts) ==
  {operations[i].method : i \in {j \in DOMAIN operations : MatchSegments(operations[j].path, parts)}}

\* Values of the parameters of the path.
Params(path, parts) ==
  [name \in {path[i].value : i \in {j \in DOMAIN path : path[j].dynamic}} |->
     parts[CHOOSE i \in DOMAIN path : path[i].dynamic /\ path[i].value = name
             /\ \A j \in DOMAIN path : (path[j].dynamic /\ path[j].value = name) => j <= i]]

(***************************************************************************)
(* Targets: an operationId, or a method and a path of patterns.            *)
(***************************************************************************)
Raw(segment) == IF segment.dynamic THEN "{" \o segment.value \o "}" ELSE segment.value

PatternMatches(pattern, path) ==
  LET Meets(i) == i <= Len(path) /\ pattern[i] \in {"*", Raw(path[i])}
      rest == {i \in DOMAIN pattern : pattern[i] = "**"}
      first == CHOOSE i \in rest : \A j \in rest : i <= j
  IN IF rest = {} THEN Len(pattern) = Len(path) /\ \A i \in DOMAIN pattern : Meets(i)
     ELSE \A i \in 1..first - 1 : Meets(i)

TargetMatches(target, operation) ==
  IF "id" \in DOMAIN target THEN operation.id = target.id
  ELSE target.method \in {"*", operation.method} /\ PatternMatches(target.pattern, operation.path)

\* No operation at all is an error to whoever wrote the target.
ResolveTarget(target, operations) == {i \in DOMAIN operations : TargetMatches(target, operations[i])}

(***************************************************************************)
(* Configuration: every entry whose target matches; the last status and    *)
(* the last respond win, the bodies of a status are layered in order.      *)
(***************************************************************************)
Matching(operation, configs) == SelectSeq(configs, LAMBDA entry : TargetMatches(entry.target, operation))

LastOf(key, operation, configs, none) ==
  LET matching == Matching(operation, configs)
      having == {i \in DOMAIN matching : key \in DOMAIN matching[i]}
  IN IF having = {} THEN none
     ELSE matching[CHOOSE i \in having : \A j \in having : j <= i][key]

ConfigBodies(operation, configs, status) ==
  LET with == SelectSeq(Matching(operation, configs), LAMBDA entry :
                "bodies" \in DOMAIN entry /\ status \in DOMAIN entry.bodies)
  IN [i \in DOMAIN with |-> with[i].bodies[status]]
=============================================================================
