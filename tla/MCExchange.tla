----------------------------- MODULE MCExchange -----------------------------
(***************************************************************************)
(* Exchange on a sequence of small documents, one for each thing that can  *)
(* go wrong on the way of a request: routing, authentication, validation,  *)
(* selection, generation, and the layers with control calls in between.    *)
(***************************************************************************)
EXTENDS Bodies

CONSTANTS c1, c2, gone, tall, bad, r1

MCCalls == {c1, c2}
MCOperations == {1, 2}
MCTargets == {{1}, {1, 2}}
MCOverrides == {gone, tall, bad}
MCValid == {gone, tall}
MCNames == {"Dog"}
MCRequests == {r1}
Symmetric == Permutations(MCCalls)

(***************************************************************************)
(* Schemas.                                                                *)
(***************************************************************************)
S == [type |-> <<"string">>]
Between(low, high) == [type |-> <<"integer">>, minimum |-> low, maximum |-> high]
Bit == Between(0, 1)
Word(word) == JString(word, Len(word))
Const(word) == [const |-> Word(word)]
ListOf(items) == [type |-> <<"array">>, items |-> items]
Obj(properties, required) == [type |-> <<"object">>, properties |-> properties, required |-> required]
Ref(name) == [ref |-> name]
JObj(members) == JObject(members)

MCComponents ==
  [Self  |-> [allOf |-> <<Ref("Self"), Obj([a |-> Bit], {"a"})>>, properties |-> [b |-> S]],
   Tree  |-> Obj([kids |-> ListOf(Ref("Tree")) @@ [minItems |-> 1, maxItems |-> 1]], {"kids"}),
   Loop  |-> [oneOf |-> <<Ref("Loop"), Between(1, 1)>>],
   Cat   |-> Obj([kind |-> Const("cat"), age |-> Bit], {"kind"}),
   Dog   |-> Obj([kind |-> Const("dog"), size |-> Bit], {"kind", "size"}),
   Owner |-> Obj([name |-> S], {"name"}),
   Pet   |-> Obj([owner |-> Ref("Owner"), tags |-> ListOf(Ref("Tag")), next |-> Ref("Pet")], {}),
   Tag   |-> Obj([label |-> S], {"label"})]

MCPatterns == [x |-> [matches |-> {"x1", "x2"}, invents |-> {"x1"}]]
MCNumerals == [n0 \in {"0", "1", "7"} |-> CASE n0 = "0" -> 0 [] n0 = "1" -> 1 [] n0 = "7" -> 7]

Animal == [oneOf |-> <<Ref("Cat"), Ref("Dog")>>, discriminator |-> "kind"]

\* Schemas that some value satisfies.
Catalogue == <<
  S,
  [type |-> <<"integer">>, minimum |-> 1, maximum |-> 7, multipleOf |-> 3, exclusiveMaximum |-> 7],
  [type |-> <<"null", "string">>, minLength |-> 2, maxLength |-> 3],
  Ref("Self"), Ref("Tree"), Animal,
  Animal @@ [properties |-> [id |-> Bit], required |-> {"id"}],
  [anyOf |-> <<[maxItems |-> 1], [minItems |-> 3]>>] @@ ListOf(Bit),
  Obj([kind |-> [enum |-> {Word("a"), Word("b")}], extra |-> Bit], {"kind"})
    @@ ("if" :> [properties |-> [kind |-> Const("a")], required |-> {"kind"}])
    @@ ("then" :> [required |-> {"reason"}]),
  [enum |-> {Word("a"), Word("b")}] @@ ("not" :> Const("a")),
  [type |-> <<"array">>, prefixItems |-> <<S, Bit>>, items |-> Never],
  [type |-> <<"array">>, prefixItems |-> <<Bit>>, items |-> Between(0, 9), minContains |-> 1,
   contains |-> [minimum |-> 5, type |-> <<"integer">>]],
  ListOf(Bit) @@ [uniqueItems |-> TRUE, contains |-> [const |-> JNumber(1)], minItems |-> 2, maxItems |-> 2],
  Obj([x1 |-> Between(0, 9)], {})
    @@ [patternProperties |-> [x |-> [type |-> <<"integer">>, maximum |-> 5]], additionalProperties |-> Never],
  [patternProperties |-> [x |-> Between(0, 5)], propertyNames |-> [maxLength |-> 2]],
  Obj([card |-> Bit], {}) @@ [dependentRequired |-> [card |-> <<"addr">>], additionalProperties |-> Never],
  Obj([card |-> Bit], {})
    @@ [dependentRequired |-> [card |-> <<"addr">>], dependentSchemas |-> [card |-> Obj([addr |-> S], {"addr"})]],
  Obj([host |-> S @@ [format |-> "hostname", minLength |-> 7, maxLength |-> 11],
       id |-> S @@ [format |-> "word", xMockFormat |-> "uuid7", minLength |-> 36],
       line |-> S @@ [format |-> "word", minLength |-> 20, maxLength |-> 21]], {"host", "id", "line"})>>

(***************************************************************************)
(* Documents.                                                              *)
(***************************************************************************)
Json(schema) == <<[schema |-> schema, examples |-> Empty]>>
Declared(status, media) == [status |-> status, range |-> FALSE, media |-> media]
Range100(status, media) == [status |-> status, range |-> TRUE, media |-> media]

Plain == [method |-> "get", path |-> <<Static("a")>>, id |-> "a", security |-> <<>>,
          parameters |-> <<>>, requestBody |-> Empty, bodyRequired |-> FALSE,
          responses |-> <<Declared(200, Json(Bit))>>, default |-> <<>>]

NoBody == [empty |-> TRUE, media |-> "", json |-> FALSE, value |-> Undefined]
Nothing == [values |-> Empty, word |-> "", credential |-> ""]
Ask == [method |-> "get", parts |-> <<"a">>, status |-> 0, variant |-> "", example |-> "",
        carried |-> Nothing, body |-> NoBody, sources |-> Empty]

NoResolvers == [bySchema |-> Empty, byName |-> Empty, byFormat |-> Empty]
Document == [operations |-> <<Plain>>, schemes |-> Empty, verify |-> Empty, configs |-> <<>>,
             fixtures |-> <<>>, recalled |-> <<>>, inputs |-> <<Ask>>,
             options |-> [maxDepth |-> 2, preferExamples |-> TRUE, variant |-> "", resolvers |-> NoResolvers],
             errors |-> "contract", validates |-> TRUE, stages |-> {}, control |-> FALSE, satisfiable |-> TRUE]

Numbered(n) == [Ask EXCEPT !.parts = <<ToString(n)>>]
At1(n) == <<Static(ToString(n))>>

Generating ==
  [Document EXCEPT
     !.operations = [n \in DOMAIN Catalogue |->
        [Plain EXCEPT !.path = At1(n), !.responses = <<Declared(200, Json(Catalogue[n]))>>]],
     !.inputs = [n \in DOMAIN Catalogue |-> Numbered(n)]
                \o <<[Numbered(6) EXCEPT !.variant = "Cat"], [Numbered(7) EXCEPT !.variant = "Nobody"]>>]

\* A union that is only itself again, and names and formats with a resolver.
Looping == [Document EXCEPT !.operations = <<[Plain EXCEPT !.responses = <<Declared(200, Json(Ref("Loop")))>>]>>,
                            !.satisfiable = FALSE]

Resolving ==
  [Document EXCEPT
     !.operations = <<[Plain EXCEPT !.responses =
        <<Declared(200, Json(Obj([owner |-> Ref("Owner"), name |-> S, at |-> S @@ [format |-> "date"]],
                                 {"owner", "name", "at"})))>>]>>,
     !.options.resolvers = [bySchema |-> [k \in {<<"Owner", "name">>} |-> Word("ada")],
                            byName |-> [name |-> Word("bob")], byFormat |-> [date |-> Word("today")]]]

(***************************************************************************)
(* Routing: operations in an order that is not that of precedence.         *)
(***************************************************************************)
On(method, path) == [Plain EXCEPT !.method = method, !.path = path]
Routing ==
  [Document EXCEPT
     !.operations = <<On("get", <<Dynamic("x"), Static("b")>>), On("get", <<Static("a"), Dynamic("y")>>),
                      On("get", <<Dynamic("x"), Dynamic("y")>>), On("post", <<Static("a"), Static("b")>>),
                      On("get", <<Dynamic("z"), Static("b")>>), On("get", <<Static("a")>>)>>,
     !.inputs = <<[Ask EXCEPT !.parts = <<"a", "b">>], [Ask EXCEPT !.parts = <<"c", "b">>],
                  [Ask EXCEPT !.parts = <<"c", "d">>], [Ask EXCEPT !.parts = <<"a", Malformed>>],
                  [Ask EXCEPT !.parts = <<"a", "b">>, !.method = "post"],
                  [Ask EXCEPT !.parts = <<"a", "c">>, !.method = "post"],
                  [Ask EXCEPT !.parts = <<"a", "b">>, !.method = "put"], [Ask EXCEPT !.parts = <<"b">>]>>]

(***************************************************************************)
(* Authentication: every requirement with what several requests carry.     *)
(***************************************************************************)
Scheme(type) == [type |-> type, location |-> "header", name |-> "key", word |-> "basic"]
Entry(scheme, scopes) == [scheme |-> scheme, scopes |-> scopes]
Carrying(values, word, credential) ==
  [Ask EXCEPT !.carried = [values |-> values, word |-> word, credential |-> credential]]
Key(word) == [place \in {<<"header", "key">>} |-> word]
Requirements == <<
  <<>>,
  <<<<>>>>,
  <<<<Entry("key", {})>>>>,
  <<<<Entry("key", {}), Entry("token", {"write"})>>>>,
  <<<<Entry("token", {"write"})>>, <<Entry("key", {})>>>>,
  <<<<Entry("missing", {})>>, <<Entry("token", {"read"})>>>>,
  <<<<Entry("odd", {}), Entry("login", {})>>>>,
  <<<<Entry("token", {"read"}), Entry("odd", {})>>>>>>

Guarding ==
  [Document EXCEPT
     !.operations = [n \in DOMAIN Requirements |->
        [Plain EXCEPT !.path = At1(n), !.security = Requirements[n],
                      !.responses = <<Declared(200, Json(Bit)), Declared(401, Json(S))>>]],
     !.schemes = [key |-> Scheme("apiKey"), token |-> Scheme("oauth2"), login |-> Scheme("http"),
                  odd |-> Scheme("mutualTLS")],
     !.verify = [token |-> [good |-> [says |-> "principal", scopes |-> {"read"}],
                            full |-> [says |-> "principal", scopes |-> {"read", "write"}],
                            late |-> [says |-> "response", status |-> 401],
                            odd |-> [says |-> "throws"]]],
     !.inputs = [i \in 1..(8 * Len(Requirements)) |->
        LET asked == Numbered(1 + (i - 1) \div 8)
            carried == <<Carrying(Empty, "", ""), Carrying(Key("k"), "", ""), Carrying(Empty, "bearer", "good"),
                         Carrying(Key("k"), "bearer", "full"), Carrying(Key("k"), "bearer", "late"),
                         Carrying(Empty, "bearer", "odd"), Carrying(Empty, "basic", "good"),
                         Carrying(Empty, "bearer", "full")>>[1 + ((i - 1) % 8)].carried
        IN [asked EXCEPT !.carried = carried]]]

(***************************************************************************)
(* Validation: the parameters and the body of a request.                   *)
(***************************************************************************)
Parameter(location, name, required, schema) ==
  [location |-> location, name |-> name, required |-> required, schema |-> schema]
Given(sources) == [Ask EXCEPT !.parts = <<"a", "7">>, !.sources = sources]
Query(texts) == [place \in {<<"query", "q">>} |-> texts]
Body(media, json, value) == [empty |-> FALSE, media |-> media, json |-> json, value |-> value]

Checking ==
  [Document EXCEPT
     !.operations = <<[Plain EXCEPT !.path = <<Static("a"), Dynamic("id")>>,
        !.parameters = <<Parameter("path", "id", TRUE, Between(0, 7)),
                         Parameter("query", "q", FALSE, ListOf([type |-> <<"boolean">>]))>>,
        !.requestBody = [json |-> Obj([a |-> Bit], {"a"})], !.bodyRequired = FALSE,
        !.responses = <<Declared(200, Json(Bit)), Range100(400, Json(Obj([m |-> S], {"m"})))>>],
        [Plain EXCEPT !.path = <<Static("b")>>, !.requestBody = [json |-> Bit], !.bodyRequired = TRUE,
                      !.default = <<Json(S)>>]>>,
     !.inputs = <<Given(Empty), Given(Query(<<"true">>)), Given(Query(<<"true", "no">>)),
                  [Given(Empty) EXCEPT !.parts = <<"a", "x">>],
                  [Given(Empty) EXCEPT !.body = Body("json", TRUE, JObj([a |-> JNumber(1)]))],
                  [Given(Empty) EXCEPT !.body = Body("+json", TRUE, JObj([b |-> JNumber(1)]))],
                  [Given(Empty) EXCEPT !.body = Body("json", FALSE, Undefined)],
                  [Given(Empty) EXCEPT !.body = Body("text", TRUE, Word("t"))],
                  [Given(Empty) EXCEPT !.body = Body("", TRUE, Undefined)],
                  [Ask EXCEPT !.parts = <<"b">>],
                  [Ask EXCEPT !.parts = <<"b">>, !.body = Body("json", TRUE, JNumber(1))]>>,
     !.stages = {409, 503}]

(***************************************************************************)
(* Selection: ranges, default, no response at all, and what the            *)
(* configuration and the request prefer.                                   *)
(***************************************************************************)
Answers == <<
  <<Declared(404, Json(S)), Range100(200, Json(Bit)), Declared(201, Json(S))>>,
  <<Range100(100, Json(S)), Declared(404, Json(Bit))>>,
  <<Declared(204, <<>>)>>,
  <<>>, <<>>, <<>>,
  \* What a document may declare and nothing can send.
  <<Declared(102, Json(S))>>,
  <<Declared(204, Json(S))>>>>
Target(n) == [method |-> "get", pattern |-> <<ToString(n)>>]
Selecting ==
  [Document EXCEPT
     !.operations = [n \in DOMAIN Answers |->
        [Plain EXCEPT !.path = At1(n), !.id = ToString(n), !.responses = Answers[n],
                      !.default = IF n = 5 THEN <<Json(S)>> ELSE <<>>]],
     !.configs = <<[target |-> Target(1), status |-> 201], [target |-> [id |-> "6"], respond |-> "answers"],
                   [target |-> [method |-> "*", pattern |-> <<"**">>], status |-> 404],
                   [target |-> [id |-> "4"], respond |-> "throws"]>>,
     !.inputs = [n \in DOMAIN Answers |-> Numbered(n)]
                \o [n \in DOMAIN Answers |-> [Numbered(n) EXCEPT !.status = IF n = 2 THEN 100 ELSE 200]],
     !.errors = "envelope", !.validates = FALSE]
Unanswering == [Document EXCEPT !.operations = <<[Plain EXCEPT !.responses = <<>>]>>]

(***************************************************************************)
(* Layers: a fixture, whole or scoped, a link, the configuration.          *)
(***************************************************************************)
Name(word) == JObj([name |-> Word(word)])
Tagged(word) == JObj([label |-> Word(word)])
PetValue == JObj([owner |-> Name("ada"), tags |-> JArray(<<Tagged("t"), Tagged("u")>>),
                  next |-> JObj([owner |-> Name("bob")])])
Example == <<[schema |-> Ref("Pet"), examples |-> [sample |-> PetValue]]>>
Fixture(value, scope) == [op |-> 1, status |-> 200, value |-> value, scope |-> scope]
Scope(byName, bySchema) == <<[byName |-> byName, bySchema |-> bySchema]>>

Serving(scope, bodies, recalled) ==
  [Document EXCEPT
     !.operations = <<[Plain EXCEPT !.responses = <<Declared(200, Example), Declared(404, Json(S))>>]>>,
     !.fixtures = <<Fixture(PetValue, scope)>>,
     !.configs = [i \in DOMAIN bodies |-> [target |-> [id |-> "a"], bodies |-> [k \in {200} |-> bodies[i]]]],
     !.recalled = recalled,
     !.inputs = <<Ask, [Ask EXCEPT !.example = "sample"], [Ask EXCEPT !.status = 404]>>,
     !.options.maxDepth = 1]

Each(layer) == JObj([k \in {"*"} |-> layer])
Second(layer) == JObj([k \in {"1"} |-> layer])
Layering == <<
  Serving(Scope({"owner"}, {}), <<JObj([owner |-> Name("eve")])>>, <<>>),
  Serving(Scope({}, {"Tag"}), <<JObj([tags |-> Each(Tagged("v")), more |-> Word("m")])>>, <<>>),
  Serving(Scope({"label"}, {"Owner"}), <<>>, <<JObj([id |-> JNumber(7)])>>),
  Serving(<<>>, <<JObj([tags |-> JObj([k \in {"1", "*"} |-> Tagged(k)])]), JObj([tags |-> Second(Tagged("w"))])>>,
          <<JObj([tags |-> JArray(<<Tagged("x"), Tagged("y")>>)])>>),
  Serving(<<>>, <<Each(JNull), Call(Word("c")), JObj([owner |-> Call(Name("z"))])>>, <<>>),
  Serving(<<>>, <<Throwing>>, <<>>),
  \* A union: the base of it, and the variant that the value says it is.
  [Serving(<<>>, <<JObj([age |-> JNumber(5)])>>, <<>>) EXCEPT
     !.operations = <<[Plain EXCEPT !.responses =
        <<Declared(200, Json(Animal @@ Obj([id |-> Bit], {"id"})))>>]>>,
     !.fixtures = <<Fixture(JObj([kind |-> Word("dog"), size |-> JNumber(1), id |-> JNumber(0), age |-> JNumber(1)]),
                            Scope({"id", "age"}, {"Dog"}))>>],
  \* A response that has no schema: no fixture and no body, but layers.
  [Serving(<<>>, <<JObj([a |-> JNull])>>, <<>>) EXCEPT
     !.operations = <<[Plain EXCEPT !.responses = <<Declared(200, <<>>)>>]>>]>>

(***************************************************************************)
(* Control calls while a request is on its way: what an override says, and *)
(* the two operations that one call may mean.                              *)
(***************************************************************************)
MCContent ==
  [o \in MCOverrides |->
     IF o = gone THEN [status |-> 404, bodies |-> Empty]
     ELSE [status |-> 0, bodies |-> [k \in {200} |-> JObj([size |-> JNumber(9)])]]]

Controlling ==
  [Document EXCEPT
     !.operations = [n \in 1..2 |-> [Plain EXCEPT !.path = At1(n), !.responses =
        <<Declared(200, Json(IF n = 1 THEN Animal ELSE Bit)), Declared(404, Json(S))>>]],
     !.inputs = <<Numbered(1)>>,
     !.control = TRUE]

MCCases == <<Generating, Looping, Resolving, Routing, Guarding, Checking, Selecting, Unanswering, Controlling>>
           \o Layering
=============================================================================
