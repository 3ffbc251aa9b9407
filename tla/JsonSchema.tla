----------------------------- MODULE JsonSchema -----------------------------
(***************************************************************************)
(* The traversal every reader of a schema shares (src/schema/walk.ts):     *)
(* folding allOf, telling what kind of value a schema declares, and the    *)
(* effective schemas of a conditional and of a union beside a shape.       *)
(*                                                                         *)
(* A schema is a function from the keywords it has to their values: `type` *)
(* and the alternatives are sequences, `required` a set, `properties` and  *)
(* the like functions of the name.  A schema under components.schemas is   *)
(* named where it is used, [ref |-> name]: the name stands for the         *)
(* identity the document's nodes have once references are resolved.        *)
(***************************************************************************)
EXTENDS Integers, Sequences, SequencesExt, TLC, JsonValues

CONSTANT Components  \* the schemas of components.schemas, by name

Never == [never |-> TRUE]
Node(node) == IF Has(node, "ref") THEN Components[node.ref] ELSE node
Identity(node) == IF Has(node, "ref") THEN {node.ref} ELSE {}
IsNever(node) == Has(node, "never")

TypeNames(schema) == {schema.type[i] : i \in DOMAIN Get(schema, "type", <<>>)}

ObjectEvidence(schema) ==
  \E key \in {"properties", "required", "patternProperties", "propertyNames",
              "dependentRequired", "dependentSchemas"} : Has(schema, key)

ArrayEvidence(schema) ==
  \/ Has(schema, "items") \/ Has(schema, "contains")
  \/ Get(schema, "prefixItems", <<>>) # <<>>

IsNullable(schema) == Get(schema, "nullable", FALSE) \/ "null" \in TypeNames(schema)

(***************************************************************************)
(* allOf.  A later member wins, except for the keywords that accumulate.   *)
(***************************************************************************)
Absorb(into, source) ==
  [key \in DOMAIN into \cup DOMAIN source |->
     CASE key \notin DOMAIN source -> into[key]
       [] key \notin DOMAIN into -> source[key]
       [] key \in {"properties", "patternProperties", "dependentSchemas"} ->
            source[key] @@ into[key]
       [] key = "required" -> into[key] \cup source[key]
       [] key = "dependentRequired" ->
            [name \in DOMAIN into[key] \cup DOMAIN source[key] |->
               LET had == Get(into[key], name, <<>>)
               IN had \o SelectSeq(Get(source[key], name, <<>>),
                                   LAMBDA other : \A i \in DOMAIN had : had[i] # other)]
       [] OTHER -> source[key]]

Vacant(key, value) ==
  \/ key = "required" /\ value = {}
  \/ /\ key \in {"properties", "patternProperties", "dependentSchemas", "dependentRequired"}
     /\ DOMAIN value = {}

Finished(merged) ==
  LET kept == Without(merged, {key \in DOMAIN merged : Vacant(key, merged[key])})
  IN IF Has(kept, "properties") /\ ~Has(kept, "type") THEN ("type" :> <<"object">>) @@ kept
     ELSE kept

RECURSIVE Merge(_, _)
Merge(node, seen) ==
  LET schema == Node(node)
      nested == seen \cup Identity(node)
      parts == SelectSeq(Get(schema, "allOf", <<>>),
                         LAMBDA part : Identity(part) \cap nested = {})
      Add(into, part) == Absorb(into, Merge(part, nested))
  IN IF Get(schema, "allOf", <<>>) = <<>> THEN schema
     ELSE Finished(Absorb(FoldLeft(Add, Empty, parts), Without(schema, {"allOf"})))

MergeAllOf(node) == Merge(node, {})
FoldBranch(base, variant) == MergeAllOf([allOf |-> <<base, variant>>])

(***************************************************************************)
(* The kind of a schema.                                                   *)
(***************************************************************************)
SiblingBase(schema) ==
  IF TypeNames(schema) \cap {"object", "array"} # {} \/ ObjectEvidence(schema) \/ ArrayEvidence(schema)
  THEN "base" :> Without(schema, {"oneOf", "anyOf", "discriminator"})
  ELSE Empty

UnionKind(schema) ==
  [kind |-> "union",
   variants |-> Get(schema, "oneOf", Get(schema, "anyOf", <<>>)),
   mode |-> IF Has(schema, "oneOf") THEN "one" ELSE "any",
   discriminator |-> Get(schema, "discriminator", "")] @@ SiblingBase(schema)

\* A subschema of names is one of strings, whether it says so or not.
NameSchema(node) ==
  IF IsNever(Node(node)) \/ Has(Node(node), "type") THEN node
  ELSE ("type" :> <<"string">>) @@ Node(node)

ObjectKind(schema) ==
  [kind |-> "object",
   properties |-> Get(schema, "properties", Empty),
   required |-> Get(schema, "required", {}),
   additional |-> Get(schema, "additionalProperties", Empty),
   patternProperties |-> Get(schema, "patternProperties", Empty),
   dependentRequired |-> Get(schema, "dependentRequired", Empty),
   dependentSchemas |-> Get(schema, "dependentSchemas", Empty)]
  @@ (IF Has(schema, "propertyNames")
      THEN "propertyNames" :> NameSchema(schema.propertyNames) ELSE Empty)

ContainsOf(schema) ==
  IF ~Has(schema, "contains") THEN Empty
  ELSE "contains" :>
       [schema |-> schema.contains, min |-> Get(schema, "minContains", 1)]
       @@ (IF Has(schema, "maxContains") THEN "max" :> schema.maxContains ELSE Empty)

ArrayKind(schema) ==
  LET items == Get(schema, "items", Empty)
  IN [kind |-> "array", items |-> IF IsNever(items) THEN Empty ELSE items,
      prefix |-> Get(schema, "prefixItems", <<>>), closed |-> IsNever(items)]
     @@ ContainsOf(schema)

Scalars == {"string", "integer", "number", "boolean"}

Primary(names) == IF names = <<>> THEN "" ELSE Head(names)

KindOf(written, schema) ==
  LET primary == Primary(SelectSeq(Get(schema, "type", <<>>), LAMBDA name : name # "null"))
  IN CASE IsNever(written) -> [kind |-> "never"]
       [] Has(schema, "const") -> [kind |-> "const", value |-> schema.const]
       [] Get(schema, "enum", {}) # {} -> [kind |-> "enum", values |-> schema.enum]
       [] Get(schema, "oneOf", Get(schema, "anyOf", <<>>)) # <<>> -> UnionKind(schema)
       [] primary = "object" \/ (primary = "" /\ ObjectEvidence(schema)) -> ObjectKind(schema)
       [] primary = "array" \/ (primary = "" /\ ArrayEvidence(schema)) -> ArrayKind(schema)
       [] primary \in Scalars -> [kind |-> primary]
       [] primary = "" /\ "null" \in TypeNames(schema) -> [kind |-> "null"]
       [] OTHER -> [kind |-> "unknown"]

Classify(node) == KindOf(Node(node), MergeAllOf(node))

(***************************************************************************)
(* The names of a variant: the string constants of its properties, or of   *)
(* the one that discriminates.                                             *)
(***************************************************************************)
IsNamed(kind, name) == kind.kind = "const" /\ kind.value.kind = "string" /\ kind.value.word = name

MatchesVariant(branch, discriminator, name) ==
  LET properties == Get(MergeAllOf(branch), "properties", Empty)
  IN \E property \in DOMAIN properties :
       discriminator \in {"", property} /\ IsNamed(Classify(properties[property]), name)

(***************************************************************************)
(* if, then, else: the condition, the two branches and the effective       *)
(* schema of each outcome; nothing without a condition and a branch.       *)
(***************************************************************************)
ConditionalIn(schema) ==
  LET stripped == Without(schema, {"if", "then", "else"})
      Branch(key) == Maybe(schema, key)
  IN IF ~Has(schema, "if") \/ ~(Has(schema, "then") \/ Has(schema, "else")) THEN Empty
     ELSE [when |-> schema["if"], onTrue |-> Branch("then"), onFalse |-> Branch("else"),
           whenTrue |-> MergeAllOf([allOf |-> <<stripped, schema["if"]>> \o Branch("then")]),
           whenFalse |-> MergeAllOf([allOf |-> <<stripped>> \o Branch("else")])]

ConditionalOf(node) == ConditionalIn(MergeAllOf(node))

NegationOf(node) == Maybe(MergeAllOf(node), "not")
=============================================================================
