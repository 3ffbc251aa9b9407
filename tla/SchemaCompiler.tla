--------------------------- MODULE SchemaCompiler ---------------------------
(***************************************************************************)
(* What a schema accepts (src/schema/compile.ts): the validator that       *)
(* checks requests, and that the generator asks about the candidates of a  *)
(* conditional or a negation.                                              *)
(*                                                                         *)
(* A validator's issues are left out: a value is accepted or it is not.    *)
(* The cache and the lazy validator of a cyclic schema are left out too:   *)
(* they give the validator of the same schema.                             *)
(***************************************************************************)
EXTENDS JsonSchema

CONSTANT Patterns  \* regular expressions: the words each matches, and those
                   \* generateFromPattern invents from it

Within(schema, low, high, size) ==
  /\ Has(schema, low) => size >= schema[low]
  /\ Has(schema, high) => size <= schema[high]

StringRules(schema, value) ==
  /\ value.kind = "string"
  /\ Within(schema, "minLength", "maxLength", value.num)
  /\ Has(schema, "pattern") => value.word \in Patterns[schema.pattern].matches

NumberRules(schema, value) ==
  /\ value.kind = "number"
  /\ Within(schema, "minimum", "maximum", value.num)
  /\ Has(schema, "exclusiveMinimum") => value.num > schema.exclusiveMinimum
  /\ Has(schema, "exclusiveMaximum") => value.num < schema.exclusiveMaximum
  /\ Has(schema, "multipleOf") => value.num % schema.multipleOf = 0

RECURSIVE Accepts(_, _)

(***************************************************************************)
(* A union: the variants, each folded into the base when that is an array, *)
(* beside the base itself.  A discriminator that every variant declares as *)
(* a constant or an enum picks the variant, so two cannot both match.      *)
(***************************************************************************)
Declares(kind, property) ==
  /\ kind.kind = "object" /\ Has(kind.properties, property)
  /\ Classify(kind.properties[property]).kind \in {"const", "enum"}

Usable(variant, property) == Declares(Classify(variant), property)

Branches(kind) ==
  IF ~Has(kind, "base") THEN kind.variants
  ELSE IF Classify(kind.base).kind = "object" THEN kind.variants
  ELSE [i \in DOMAIN kind.variants |-> FoldBranch(kind.base, kind.variants[i])]

EnoughMatch(kind, branches, matched) ==
  IF kind.mode = "any" \/ (kind.discriminator # "" /\
       \A i \in DOMAIN branches : Usable(branches[i], kind.discriminator))
  THEN matched # {}
  ELSE Cardinality(matched) = 1

BranchesAccept(kind, branches, value) ==
  EnoughMatch(kind, branches, {i \in DOMAIN branches : Accepts(branches[i], value)})

UnionAccepts(kind, value) ==
  /\ Has(kind, "base") => Accepts(kind.base, value)
  /\ BranchesAccept(kind, Branches(kind), value)

(***************************************************************************)
(* An array: its length, its members by position, those that must differ   *)
(* and those that must match `contains`.                                   *)
(***************************************************************************)
Distinct(items) == \A i, j \in DOMAIN items : items[i] = items[j] => i = j

ContainsEnough(contains, matched) ==
  matched >= contains.min /\ (Has(contains, "max") => matched <= contains.max)

MayHold(kind, i) == i <= Len(kind.prefix) \/ ~kind.closed \/ kind.prefix = <<>>
BaseAt(kind, i) == IF i <= Len(kind.prefix) THEN kind.prefix[i] ELSE kind.items

ArrayAccepts(kind, schema, value) ==
  LET items == value.items
  IN /\ value.kind = "array"
     /\ Within(schema, "minItems", "maxItems", Len(items))
     /\ Get(schema, "uniqueItems", FALSE) => Distinct(items)
     /\ Has(kind, "contains") =>
          ContainsEnough(kind.contains,
            Cardinality({i \in DOMAIN items : Accepts(kind.contains.schema, items[i])}))
     /\ \A i \in DOMAIN items : MayHold(kind, i) /\ Accepts(BaseAt(kind, i), items[i])

(***************************************************************************)
(* An object: declared members, names, patterns (a member they match is    *)
(* not an additional one) and what the presence of a member demands.       *)
(***************************************************************************)
Declarations(kind, name) ==
  {kind.patternProperties[p] : p \in {q \in DOMAIN kind.patternProperties : name \in Patterns[q].matches}}
  \cup Range(Maybe(kind.properties, name))

OrElse(set, default) == IF set = {} THEN {default} ELSE set

MemberAccepts(kind, name, value) ==
  /\ Has(kind, "propertyNames") => Accepts(kind.propertyNames, JString(name, Len(name)))
  /\ \A schema \in OrElse(Declarations(kind, name), kind.additional) : Accepts(schema, value)

\* What is read under a name an object does not have.  A declared name is checked
\* by its schema alone, so one that accepts `undefined`, as one that declares
\* nothing does, is optional whether it is required or not.
MayMiss(kind, name) ==
  Has(kind.properties, name) /\ Accepts(kind.properties[name], Undefined)

ObjectAccepts(kind, value) ==
  LET members == value.members
  IN /\ value.kind = "object"
     /\ \A name \in kind.required \ DOMAIN members : MayMiss(kind, name)
     /\ \A name \in DOMAIN members : MemberAccepts(kind, name, members[name])
     /\ \A trigger \in DOMAIN kind.dependentRequired \cap DOMAIN members :
          Range(kind.dependentRequired[trigger]) \subseteq DOMAIN members
     /\ \A trigger \in DOMAIN kind.dependentSchemas \cap DOMAIN members :
          Accepts(kind.dependentSchemas[trigger], value)

KindAccepts(kind, schema, value) ==
  CASE kind.kind = "const" -> value = kind.value
    [] kind.kind = "enum" -> value \in kind.values
    [] kind.kind = "string" -> StringRules(schema, value)
    [] kind.kind \in {"integer", "number"} -> NumberRules(schema, value)
    [] kind.kind \in {"boolean", "null"} -> value.kind = kind.kind
    [] kind.kind = "union" -> UnionAccepts(kind, value)
    [] kind.kind = "array" -> ArrayAccepts(kind, schema, value)
    [] kind.kind = "object" -> ObjectAccepts(kind, value)
    [] OTHER -> kind.kind = "unknown"

(***************************************************************************)
(* The branches of a conditional apply beside the schema they stand in.    *)
(* `nullable` is read from the schema as it is written, before allOf.      *)
(***************************************************************************)
ConditionalAccepts(conditional, value) ==
  conditional = Empty \/
    \A branch \in Range(IF Accepts(conditional.when, value) THEN conditional.onTrue
                         ELSE conditional.onFalse) : Accepts(branch, value)

Accepts(node, value) ==
  \/ IsNullable(Node(node)) /\ value.kind = "null"
  \/ /\ KindAccepts(Classify(node), MergeAllOf(node), value)
     /\ \A negated \in Range(NegationOf(node)) : ~Accepts(negated, value)
     /\ ConditionalAccepts(ConditionalOf(node), value)
=============================================================================
