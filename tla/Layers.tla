------------------------------- MODULE Layers -------------------------------
(***************************************************************************)
(* The layers of a body (src/resolve/layer.ts) and the part of a fixture   *)
(* that is one of them (src/fixtures/scope.ts).                            *)
(*                                                                         *)
(* A layer is a JSON value: an object claims member by member, by index in *)
(* an array, "*" for every one that is there, and anything else replaces   *)
(* what it is laid over, a callback by its answer.                         *)
(***************************************************************************)
EXTENDS JsonSchema

Indices(items) == {ToString(i - 1) : i \in DOMAIN items}
ItemAt(items, index) == items[CHOOSE i \in DOMAIN items : ToString(i - 1) = index]

\* What a layer says of a key that is there.
Chosen(layer, key) == Get(layer.members, key, Get(layer.members, "*", Undefined))

RECURSIVE Overlay(_, _)
Overlay(base, layer) ==
  LET source == IF base.kind = "object" THEN base.members ELSE Empty
  IN CASE layer.kind = "undefined" -> base
       [] layer.kind = "call" -> layer.items[1]
       [] layer.kind = "object" /\ base.kind = "array" ->
            JArray([i \in DOMAIN base.items |->
                      Overlay(base.items[i], Chosen(layer, ToString(i - 1)))])
       [] layer.kind = "object" /\ base.kind # "array" ->
            JObject([key \in DOMAIN source \cup (DOMAIN layer.members \ {"*"}) |->
                       IF key \in DOMAIN source THEN Overlay(source[key], Chosen(layer, key))
                       ELSE Overlay(Undefined, layer.members[key])])
       [] OTHER -> layer

\* The first layer is laid first: the last one has the last word.
ApplyAll(base, layers) == FoldLeft(Overlay, base, layers)

(***************************************************************************)
(* narrow: the part of a value that a scope claims.  A named schema of     *)
(* bySchema is claimed whole before anything else, a property of byName    *)
(* where an object declares it.  Nothing in scope is `undefined`.          *)
(***************************************************************************)
RECURSIVE MergeClaims(_, _)
MergeClaims(left, right) ==
  IF left.kind # "object" \/ right.kind # "object" THEN left
  ELSE JObject([key \in DOMAIN left.members \cup DOMAIN right.members |->
         IF ~Has(right.members, key) THEN left.members[key]
         ELSE IF ~Has(left.members, key) THEN right.members[key]
         ELSE MergeClaims(left.members[key], right.members[key])])

\* What is left of the parts, as an object: by index for an array.
Kept(parts) ==
  LET kept == {key \in DOMAIN parts : parts[key].kind # "undefined"}
  IN IF kept = {} THEN Undefined ELSE JObject([key \in kept |-> parts[key]])

\* The schemas a union narrows by: its base, and the variants that the
\* discriminator of the value names, or else all of them.
Candidates(kind, value) ==
  LET tagged == kind.discriminator # "" /\ value.kind = "object" /\ Has(value.members, kind.discriminator)
      named == IF ~tagged THEN <<>>
               ELSE SelectSeq(kind.variants, LAMBDA variant :
                      MatchesVariant(variant, kind.discriminator, value.members[kind.discriminator].word))
  IN (IF Has(kind, "base") THEN <<kind.base>> ELSE <<>>)
     \o (IF named # <<>> THEN named ELSE kind.variants)

PositionOf(kind, index) ==
  LET at == {i \in DOMAIN kind.prefix : ToString(i - 1) = index}
  IN IF at = {} THEN kind.items ELSE kind.prefix[CHOOSE i \in at : TRUE]

RECURSIVE NarrowIn(_, _, _, _)
NarrowIn(value, node, scope, seen) ==
  LET kind == Classify(node)
      nested == seen \cup Identity(node)
      Item(index) == NarrowIn(ItemAt(value.items, index), PositionOf(kind, index), scope, nested)
      Property(name) ==
        IF name \in scope.byName THEN value.members[name]
        ELSE NarrowIn(value.members[name], kind.properties[name], scope, nested)
      Claim(claim, candidate) ==
        LET narrowed == NarrowIn(value, candidate, scope, nested)
        IN CASE claim = value \/ narrowed.kind = "undefined" -> claim
             [] claim # value /\ (narrowed = value \/ claim.kind = "undefined") -> narrowed
             [] OTHER -> MergeClaims(claim, narrowed)
  IN IF Identity(node) \cap scope.bySchema # {} THEN value
     ELSE IF Identity(node) \cap seen # {} THEN Undefined
     ELSE IF kind.kind = "array" /\ value.kind = "array"
     THEN Kept([index \in Indices(value.items) |-> Item(index)])
     ELSE IF kind.kind = "object" /\ value.kind = "object"
     THEN Kept([name \in DOMAIN kind.properties \cap DOMAIN value.members |-> Property(name)])
     ELSE IF kind.kind = "union" THEN FoldLeft(Claim, Undefined, Candidates(kind, value))
     ELSE Undefined

Narrow(value, node, scope) == NarrowIn(value, node, scope, {})

(***************************************************************************)
(* The two, path by path, for the properties: the leaves of a value, what  *)
(* is at a path, what a layer says of a path, and whether a path is in a   *)
(* scope.                                                                  *)
(***************************************************************************)
RECURSIVE Leaves(_), At(_, _), Met(_, _), InScope(_, _, _, _, _)
Leaves(value) ==
  CASE value.kind = "object" ->
         UNION {{<<key>> \o path : path \in Leaves(value.members[key])} : key \in DOMAIN value.members}
    [] value.kind = "array" ->
         UNION {{<<index>> \o path : path \in Leaves(ItemAt(value.items, index))} :
                  index \in Indices(value.items)}
    [] OTHER -> {<<>>}

At(value, path) ==
  CASE path = <<>> -> value
    [] path # <<>> /\ value.kind = "object" /\ Has(value.members, Head(path)) ->
         At(value.members[Head(path)], Tail(path))
    [] path # <<>> /\ value.kind = "array" /\ Head(path) \in Indices(value.items) ->
         At(ItemAt(value.items, Head(path)), Tail(path))
    [] OTHER -> Undefined

\* The part of a layer met on the way down a path, and the rest of the path.
Met(layer, path) ==
  IF path = <<>> \/ layer.kind # "object" THEN [part |-> layer, rest |-> path]
  ELSE Met(Chosen(layer, Head(path)), Tail(path))

Touches(layer, path) == Met(layer, path).part.kind # "undefined"
Speaks(layer, path) == Met(layer, path).part.kind \notin {"undefined", "object"}
Says(layer, path) ==
  LET met == Met(layer, path)
  IN At(IF met.part.kind = "call" THEN met.part.items[1] ELSE met.part, met.rest)

InScope(value, node, path, scope, seen) ==
  LET kind == Classify(node)
      nested == seen \cup Identity(node)
      Within(child) == InScope(At(value, <<Head(path)>>), child, Tail(path), scope, nested)
  IN \/ Identity(node) \cap scope.bySchema # {}
     \/ /\ Identity(node) \cap seen = {} /\ path # <<>>
        /\ \/ kind.kind = "array" /\ value.kind = "array" /\ Within(PositionOf(kind, Head(path)))
           \/ /\ kind.kind = "object" /\ value.kind = "object" /\ Has(kind.properties, Head(path))
              /\ Head(path) \in scope.byName \/ Within(kind.properties[Head(path)])
           \/ /\ kind.kind = "union"
              /\ \E i \in DOMAIN Candidates(kind, value) :
                   InScope(value, Candidates(kind, value)[i], path, scope, nested)

(***************************************************************************)
(* Every leaf of a body is what the last layer that speaks of it says, or  *)
(* else what was below them all; and a leaf that no layer touches is there *)
(* still.                                                                  *)
(***************************************************************************)
Decided(base, layers, path) ==
  LET speaking == {i \in DOMAIN layers : Speaks(layers[i], path)}
      last == CHOOSE i \in speaking : \A j \in speaking : j <= i
  IN IF speaking = {} THEN At(base, path) ELSE Says(layers[last], path)

ComposedOf(body, base, layers) ==
  /\ \A path \in Leaves(body) : At(body, path) = Decided(base, layers, path)
  /\ \A path \in Leaves(base) :
       path \in Leaves(body) \/ \E i \in DOMAIN layers : Touches(layers[i], path)

\* A scope claims every leaf of the value that is in it, as it is, and no other.
NarrowedTo(narrowed, value, node, scope) ==
  {path \in Leaves(value) : InScope(value, node, path, scope, {})}
    = {path \in Leaves(value) : Speaks(narrowed, path) /\ Says(narrowed, path) = At(value, path)}
=============================================================================
