------------------------------ MODULE Generator ------------------------------
(***************************************************************************)
(* What may be generated from a schema (src/generate/generate.ts,          *)
(* constraints.ts, values.ts, src/resolve/resolvers.ts): the set of the    *)
(* values a seeded generator can draw, each with whether the depth budget  *)
(* was reported as exhausted on the way to it.                             *)
(*                                                                         *)
(* A draw from a range of numbers is one of its two ends.  Repeated draws  *)
(* (a negation, unique items) are taken to be enough to meet a value that  *)
(* can be drawn.                                                           *)
(***************************************************************************)
EXTENDS SchemaCompiler, FiniteSetsExt

CONSTANT MaxUnionHops  \* unions in a row before generation gives up

ASSUME MaxUnionHopsAssumption == MaxUnionHops \in Nat

Draw(value) == [value |-> value, reported |-> FALSE]

(***************************************************************************)
(* Bounds: a bound that is declared holds, a default gives way to it.      *)
(***************************************************************************)
Bounded(schema, low, high, least, most) ==
  CASE Has(schema, low) /\ Has(schema, high) ->
         [min |-> schema[low], max |-> Max({schema[low], schema[high]})]
    [] Has(schema, low) -> [min |-> schema[low], max |-> Max({most, schema[low]})]
    [] Has(schema, high) -> [min |-> Min({least, schema[high]}), max |-> schema[high]]
    [] OTHER -> [min |-> least, max |-> most]

StringLength(schema) == Bounded(schema, "minLength", "maxLength", 5, 12)
ArrayLength(schema) == Bounded(schema, "minItems", "maxItems", 1, 3)

NumberBounds(schema) ==
  LET low == Get(schema, "minimum", 0)
      high == Get(schema, "maximum", 1000)
      min == IF Has(schema, "exclusiveMinimum") THEN Max({low, schema.exclusiveMinimum + 1}) ELSE low
      max == IF Has(schema, "exclusiveMaximum") THEN Min({high, schema.exclusiveMaximum - 1}) ELSE high
      hasMin == Has(schema, "minimum") \/ Has(schema, "exclusiveMinimum")
      hasMax == Has(schema, "maximum") \/ Has(schema, "exclusiveMaximum")
  IN IF max >= min THEN [min |-> min, max |-> max]
     ELSE IF hasMax /\ ~hasMin THEN [min |-> max, max |-> max]
     ELSE [min |-> min, max |-> min]

\* The multiple below, else the first one in the bounds, else the bound.
ApplyMultipleOf(n, schema) ==
  LET step == Get(schema, "multipleOf", 0)
      bounds == NumberBounds(schema)
      snapped == (n \div step) * step
      raised == -((-bounds.min) \div step) * step
  IN IF step <= 0 THEN n
     ELSE IF snapped \in bounds.min..bounds.max THEN snapped
     ELSE IF raised <= bounds.max THEN raised
     ELSE bounds.min

(***************************************************************************)
(* Scalars.  A pattern decides alone, then a format that is known: neither *)
(* looks at the bounds of the length.  A pattern outside the subset invents*)
(* nothing and falls through.  Without either, words are added up to the   *)
(* least length and cut at the most.  Of the lengths of the words, and of  *)
(* what is made of them, there are the two ends.                           *)
(***************************************************************************)
WordLengths == {4, 7}

FormatLengths ==
  [email |-> {17, 26}, uuid |-> {36}, uri |-> {20, 27}, url |-> {20, 27}, hostname |-> {7, 11},
   ipv4 |-> {7, 15}, ipv6 |-> {19}, date |-> {10}, time |-> {8}, duration |-> {3, 4},
   byte |-> {14}, password |-> {11, 14}] @@ ("date-time" :> {24})

\* The extension names a format that wins over the declared one.
WantsUuid7(schema) ==
  Get(schema, "xMockFormat", Get(schema, "format", "")) \in {"uuid7", "uuidv7", "uuid-v7"}

\* The lengths of words joined by a dash until they are long enough.
RECURSIVE Joined(_, _)
Joined(length, least) ==
  IF length >= least THEN {length} ELSE UNION {Joined(length + 1 + n, least) : n \in WordLengths}

FitLength(schema) ==
  LET length == StringLength(schema)
  IN {Min({n, length.max}) : n \in UNION {Joined(m, length.min) : m \in WordLengths}}

GenerateString(schema) ==
  LET invents == IF Has(schema, "pattern") THEN Patterns[schema.pattern].invents ELSE {}
      format == Get(schema, "format", "")
  IN IF invents # {} THEN {JString(word, Len(word)) : word \in invents}
     ELSE IF WantsUuid7(schema) THEN {JString("uuid7", 36)}
     ELSE IF Has(FormatLengths, format) THEN {JString(format, n) : n \in FormatLengths[format]}
     ELSE {JString("drawn", n) : n \in FitLength(schema)}

GenerateNumber(schema) ==
  LET bounds == NumberBounds(schema)
  IN {JNumber(ApplyMultipleOf(n, schema)) : n \in {bounds.min, bounds.max}}

(***************************************************************************)
(* A resolver for the property of a named schema, for the name of the      *)
(* property, or for the format: the first that there is.                   *)
(***************************************************************************)
Resolved(schema, resolvers, at) ==
  LET member == <<at.container, at.property>>
      format == Get(schema, "format", "")
  IN IF member \in DOMAIN resolvers.bySchema THEN {resolvers.bySchema[member]}
     ELSE IF at.property \in DOMAIN resolvers.byName THEN {resolvers.byName[at.property]}
     ELSE IF format \in DOMAIN resolvers.byFormat THEN {resolvers.byFormat[format]}
     ELSE {}

(***************************************************************************)
(* Where generation stands: the depth, the property and the named schema   *)
(* it is in, the node a folded union stands for, and the unions in a row.  *)
(***************************************************************************)
Top == [depth |-> 0, property |-> "", container |-> "", identity |-> <<>>, hops |-> 0]
Below(at) == [at EXCEPT !.depth = @ + 1, !.identity = <<>>, !.hops = 0]
Member(at, property, container) ==
  [Below(at) EXCEPT !.property = property, !.container = container]
NameOf(node) == IF Has(node, "ref") THEN node.ref ELSE ""

RECURSIVE Walk(_, _, _)

(***************************************************************************)
(* An array: its tuple positions, its members, and the last ones drawn to  *)
(* match `contains` as well.                                               *)
(***************************************************************************)
Wanted(kind) ==
  IF ~Has(kind, "contains") THEN 0
  ELSE IF Has(kind.contains, "max") THEN Min({kind.contains.min, kind.contains.max})
  ELSE kind.contains.min

ItemCounts(kind, length) ==
  LET tuple == Len(kind.prefix)
      open == ~kind.closed /\ DOMAIN Node(kind.items) # {}
      floor == IF kind.closed THEN tuple ELSE tuple + Wanted(kind)
      low == IF floor > 0 THEN Min({Max({length.min, floor}), length.max}) ELSE length.min
      pinned == (tuple > 0 /\ ~open) \/ (Has(kind, "contains") /\ Has(kind.contains, "max"))
  IN [low |-> low, high |-> IF pinned THEN low ELSE Max({low, length.max})]

SchemaAtBase(kind, i, count) == BaseAt(kind, i)

\* The base of a position; for a carrier of `contains`, both together.
SchemaAt(kind, i, count) ==
  IF Wanted(kind) = 0 \/ i <= count - Wanted(kind) \/ IsNever(Node(kind.contains.schema))
  THEN BaseAt(kind, i)
  ELSE FoldBranch(BaseAt(kind, i), kind.contains.schema)

\* One more member of a partial array.  A unique one is drawn again while it
\* is met already; a carrier that was met gives way to the base.
Unmet(first, base, met) ==
  LET collided == \E d \in first : d.value \in met
  IN {d \in first \cup (IF collided THEN base ELSE {}) : d.value \notin met}

NextItem(partial, unique, first, base) ==
  LET drawn == IF unique THEN Unmet(first, base, Range(partial.value)) ELSE first
  IN IF partial.short \/ drawn = {} THEN {[partial EXCEPT !.short = TRUE]}
     ELSE {[value |-> Append(partial.value, d.value), short |-> FALSE,
            reported |-> partial.reported \/ d.reported] : d \in drawn}

ItemsOf(kind, unique, count, options, at) ==
  FoldLeft(LAMBDA partials, i :
             UNION {NextItem(p, unique, Walk(SchemaAt(kind, i, count), options, Below(at)),
                             Walk(BaseAt(kind, i), options, Below(at))) : p \in partials},
           {[value |-> <<>>, reported |-> FALSE, short |-> FALSE]}, [i \in 1..count |-> i])

GenerateArray(kind, schema, counts, options, at) ==
  IF at.depth >= options.maxDepth
  THEN {[value |-> JArray(<<>>), reported |-> counts.low > 0]}
  ELSE {[value |-> JArray(p.value), reported |-> p.reported] :
          p \in UNION {ItemsOf(kind, Get(schema, "uniqueItems", FALSE), count, options, at) :
                         count \in counts.low..counts.high}}

(***************************************************************************)
(* An object.  SchemaFor is what a name may hold: its declared schema and  *)
(* those of the patterns it matches, else additionalProperties.            *)
(***************************************************************************)
NameAllowed(kind, name) ==
  Has(kind, "propertyNames") => Accepts(kind.propertyNames, JString(name, Len(name)))

Together(parts, additional) ==
  CASE \E i \in DOMAIN parts : IsNever(Node(parts[i])) -> Never
    [] parts = <<>> -> additional
    [] Len(parts) = 1 -> parts[1]
    [] OTHER -> MergeAllOf([allOf |-> parts])

SchemaFor(kind, name) ==
  LET matching == {p \in DOMAIN kind.patternProperties : name \in Patterns[p].matches}
  IN Together(Maybe(kind.properties, name)
                \o SetToSeq({kind.patternProperties[p] : p \in matching}),
              kind.additional)

\* Every declared member whose name is allowed, every required one.
Emitted(kind) ==
  {name \in DOMAIN kind.properties \cup kind.required :
     /\ name \in kind.required \/ NameAllowed(kind, name)
     /\ ~IsNever(Node(SchemaFor(kind, name)))}

\* The partial objects that add the member `name` to `partial`.
With(partial, name, node, options, at) ==
  {[partial EXCEPT !.value = (name :> d.value) @@ @, !.reported = @ \/ d.reported] :
     d \in Walk(node, options, at)}

\* A pattern that no member matches yet invents one.
AddPattern(partial, kind, pattern, options, at, container) ==
  LET node == kind.patternProperties[pattern]
      covered == DOMAIN partial.value \cap Patterns[pattern].matches # {}
      invented == {word \in Patterns[pattern].invents \cap Patterns[pattern].matches :
                     NameAllowed(kind, word)}
  IN IF covered \/ IsNever(Node(node)) \/ invented = {} THEN {partial}
     ELSE UNION {With(partial, word, node, options, Member(at, word, container)) : word \in invented}

\* What the presence of a trigger demands is laid over the object.
AddDependentSchema(partial, kind, trigger, options, at) ==
  LET node == kind.dependentSchemas[trigger]
  IN IF ~Has(partial.value, trigger) \/ Classify(node).kind # "object" THEN {partial}
     ELSE {[partial EXCEPT !.value = d.value.members @@ @, !.reported = @ \/ d.reported] :
             d \in {e \in Walk(node, options, Below(at)) : e.value.kind = "object"}}

\* A member that a trigger requires is added, or the trigger is dropped.
AddDependent(partial, kind, trigger, name, node, options, at) ==
  IF partial.stop \/ ~Has(partial.value, trigger) \/ Has(partial.value, name) THEN {partial}
  ELSE IF IsNever(Node(node)) \/ ~NameAllowed(kind, name)
  THEN {[partial EXCEPT !.stop = TRUE,
           !.value = IF trigger \in kind.required THEN @ ELSE Without(@, {trigger})]}
  ELSE With(partial, name, node, options, at)

\* One more step from every partial object.
Onward(partials, Step(_)) == UNION {Step(p) : p \in partials}

AddMembers(partials, kind, options, at, container) ==
  FoldLeft(LAMBDA some, name : Onward(some, LAMBDA p :
             With(p, name, SchemaFor(kind, name), options, Member(at, name, container))),
           partials, SetToSeq(Emitted(kind)))

AddPatterns(partials, kind, options, at, container) ==
  FoldLeft(LAMBDA some, pattern : Onward(some, LAMBDA p :
             AddPattern(p, kind, pattern, options, at, container)),
           partials, SetToSeq(DOMAIN kind.patternProperties))

AddDependentSchemas(partials, kind, options, at) ==
  FoldLeft(LAMBDA some, trigger : Onward(some, LAMBDA p :
             AddDependentSchema(p, kind, trigger, options, at)),
           partials, SetToSeq(DOMAIN kind.dependentSchemas))

\* Every trigger begins again, member by member.
Demands(kind) ==
  FlattenSeq([n \in DOMAIN SetToSeq(DOMAIN kind.dependentRequired) |->
    LET trigger == SetToSeq(DOMAIN kind.dependentRequired)[n]
    IN [i \in DOMAIN kind.dependentRequired[trigger] |->
          [trigger |-> trigger, name |-> kind.dependentRequired[trigger][i], first |-> i = 1]]])

AddDependents(partials, kind, options, at, container) ==
  FoldLeft(LAMBDA some, demand : Onward(some, LAMBDA p :
             AddDependent(IF demand.first THEN [p EXCEPT !.stop = FALSE] ELSE p, kind,
                          demand.trigger, demand.name, SchemaFor(kind, demand.name),
                          options, Member(at, demand.name, container))),
           partials, Demands(kind))

GenerateObject(kind, container, options, at) ==
  LET start == {[value |-> Empty, reported |-> FALSE, stop |-> FALSE]}
  IN IF at.depth >= options.maxDepth
     THEN {[value |-> JObject(Empty), reported |-> DOMAIN kind.properties # {}]}
     ELSE {[value |-> JObject(p.value), reported |-> p.reported] :
             p \in AddDependents(
                     AddDependentSchemas(
                       AddPatterns(AddMembers(start, kind, options, at, container),
                                   kind, options, at, container),
                       kind, options, at),
                     kind, options, at, container)}

(***************************************************************************)
(* A union: the requested variant when one has that name, else any; folded *)
(* into the base that stands beside it.                                    *)
(***************************************************************************)
GenerateUnion(kind, node, options, at) ==
  LET Requested(i) == MatchesVariant(kind.variants[i], kind.discriminator, options.variant)
      named == IF options.variant = "" THEN {} ELSE {i \in DOMAIN kind.variants : Requested(i)}
      chosen == IF named = {} THEN DOMAIN kind.variants ELSE {Min(named)}
      beside == [at EXCEPT !.identity = <<node>>, !.hops = @ + 1]
      alone == [at EXCEPT !.property = "", !.container = "", !.identity = <<>>, !.hops = @ + 1]
  IN IF at.hops >= MaxUnionHops THEN {Draw(JNull)}
     ELSE IF Has(kind, "base")
     THEN UNION {Walk(FoldBranch(kind.base, kind.variants[i]), options, beside) : i \in chosen}
     ELSE UNION {Walk(kind.variants[i], options, alone) : i \in chosen}

KindDraws(kind, schema, node, origin, options, at) ==
  CASE kind.kind = "const" -> {Draw(kind.value)}
    [] kind.kind = "enum" -> {Draw(value) : value \in kind.values}
    [] kind.kind = "string" -> {Draw(value) : value \in GenerateString(schema)}
    [] kind.kind \in {"integer", "number"} -> {Draw(value) : value \in GenerateNumber(schema)}
    [] kind.kind = "boolean" -> {Draw(JBoolean(b)) : b \in BOOLEAN}
    [] kind.kind = "union" -> GenerateUnion(kind, node, options, at)
    [] kind.kind = "array" -> GenerateArray(kind, schema, ItemCounts(kind, ArrayLength(schema)), options, at)
    [] kind.kind = "object" -> GenerateObject(kind, NameOf(origin), options, at)
    [] OTHER -> {Draw(JNull)}

Shape(node, origin, options, at) ==
  KindDraws(Classify(node), MergeAllOf(node), node, origin, options, at)

(***************************************************************************)
(* A conditional: a branch is aimed at; a candidate that does not land in  *)
(* it gives way to one of the other branch, and stays if that misses too.  *)
(***************************************************************************)
Aimed(aimed, other, landing) ==
  CASE aimed \subseteq landing -> aimed
    [] ~(aimed \subseteq landing) /\ other \cap landing = {} -> (aimed \cap landing) \cup other
    [] OTHER -> aimed \cup (other \ landing)

\* `holds` are those candidates that meet the condition.
Conditioned(whenTrue, whenFalse, holds) ==
  Aimed(whenTrue, whenFalse, holds)
    \cup Aimed(whenFalse, whenTrue, (whenTrue \cup whenFalse) \ holds)

\* What is drawn from the schema itself, or from the branches of its condition.
Effective(node, conditional) ==
  IF conditional = Empty THEN <<node>> ELSE <<conditional.whenTrue, conditional.whenFalse>>

Drawn(conditional, drawn) ==
  IF conditional = Empty THEN drawn[1]
  ELSE Conditioned(drawn[1], drawn[2],
                   {d \in drawn[1] \cup drawn[2] : Accepts(conditional.when, d.value)})

ShapesOf(nodes, origin, options, at) ==
  [i \in DOMAIN nodes |-> Shape(nodes[i], origin, options, at)]

\* A negation: what it forbids is drawn again, and served when there is
\* nothing else.
Escaped(drawn, forbidden) == IF drawn \subseteq forbidden THEN drawn ELSE drawn \ forbidden

\* Those of the draws that the negation forbids.
Forbidden(drawn, negation) ==
  {d \in drawn : \E i \in DOMAIN negation : Accepts(negation[i], d.value)}

Allowed(drawn, negation) == Escaped(drawn, Forbidden(drawn, negation))

Walk(node, options, at) ==
  LET schema == Node(node)
      hit == Resolved(schema, options.resolvers, at)
      origin == IF at.identity = <<>> THEN node ELSE at.identity[1]
  IN IF hit # {} THEN {Draw(value) : value \in hit}
     ELSE IF options.preferExamples /\ Has(schema, "example") THEN {Draw(schema.example)}
     ELSE IF Has(schema, "default") THEN {Draw(schema.default)}
     ELSE Allowed(Drawn(ConditionalOf(node),
                        ShapesOf(Effective(node, ConditionalOf(node)), origin, options, at)),
                  NegationOf(node))

Generated(node, options) == Walk(node, options, Top)
=============================================================================
