# Formal models of mockingham

mockingham turns an OpenAPI document into a mock server: a `fetch`-style handler
(`src/src/server/handler.ts`) behind a programmatic control plane
(`src/src/index.ts`), a node listener, a CLI and an MCP server. It is a
single-threaded JavaScript program. Nothing in it runs in parallel, but every
`await` is a place where another request, a timer or a call of the control plane
comes in, and almost all state lives behind an asynchronous `Store` that a caller
may replace.

These modules model the parts of the program whose correctness depends on what
comes between two steps, check them with TLC on small instances, and prove the
most important properties with TLAPS for all instances.

Contents: [the system](#the-system), [what is hard](#what-is-hard),
[the modules](#the-modules), [the runs](#the-runs), [the proofs](#the-proofs),
[where the code and its documentation disagree](#where-the-code-and-its-documentation-disagree),
[what is not modelled](#what-is-not-modelled), [the plan](#the-plan).

## The system

| Component | State it keeps | Operations | Correct when |
|---|---|---|---|
| Store (`runtime/store.ts`) | a Map of values with deadlines | `get`, `set`, `setIfAbsent`, `delete`, `incr`, `clear` | lazy expiry cannot be told from eager expiry; a window keeps its deadline |
| Idempotency (`runtime/idempotency.ts`, exit of `handler.ts`) | one marker or record per key, in the Store | claim and look up (stage 5), record or release (exit) | a claim is exclusive while it lasts; a replay is a real answer to the same call; no key is wedged |
| Failure simulation (`runtime/failure.ts`) | armed counts, outages, circuit counts and open circuits, in the Store | `checkFailure` (stage 6), `failNext`, `outage` | armed failures are spent once each; circuits count within a window, are not shared, and close |
| Webhook emission (`handler.ts`, `webhooks/emit.ts`, `webhooks/deliver.ts`) | waiting and pending emissions, ordinals, the delivery log | schedule at the exit, `emit`, `redeliver`, `clearDeliveries` | an id identifies its bytes; the log is truthful; a reset or a close drops what waits; close drains |
| Virtual clock and counters (`generate/clock.ts`, `runtime/context.ts`) | blocks and ordinals handed out | `allocate`, `next` | blocks follow the order of the schedule |
| Destination registry and capture (`webhooks/registry.ts`, `runtime/capture.ts`) | an index of keys in memory, the destinations in the Store, one captured URL per webhook | `register`, `unregister`, `lookup`, `all`, capture at the exit | a destination that was registered and not removed is found and listed |
| Link table (`runtime/link.ts`) | produced values in the Store, their eviction order in memory | `record`, `recall`, `clear` | the bound holds; nothing outlives it |
| Overrides and variants (`runtime/overrides.ts`, `runtime/variant.ts`, `index.ts`) | one Store entry per kind and operation | `override`, `clearOverrides`, `setVariant`, `clearVariants`, the reads of a request | one call is one change, for every operation it means |
| Fixture resolver (`fixtures/resolve.ts`) | flights in progress, calls made | `resolve`, `peek` | one call per key at a time; the budget is not exceeded; a part of a body is never served as the body |
| Disk fixtures and bake (`fixtures/store.ts`, `persist.ts`, `bake.ts`) | fixtures in memory, a timer, a queue of writes, files | `set`, `clear`, `flush`, load, bake | a resolved flush is on disk and stays there; a crash leaves files that load; a bake accounts for what it was asked |
| CLI and reload (`server/cli.ts`) | the current handler | build, reload, the bake command | a reload serves what was on disk when it began |
| Node listener (`server/node.ts`) | the listening server | `listen`, `close` | `close()` closes the server that is open |
| MCP server (`mcp/**`, `index.ts`) | the mounted handle | mount and unmount; tools over the control plane | a newer mount outlives the close of an older handle |
| Request pipeline (`runtime/pipeline.ts`, `produce` of `handler.ts`) | the context of one request | the stages, in order | each stage answers what it should and passes on the rest |
| Routing and targets (`spec/routes.ts`, `resolve/target.ts`, `resolve/config.ts`) | none | match, allowed methods, what a target means | the best fit is found, whatever the order of the document |
| Selection, authentication and layers (`runtime/select.ts`, `runtime/auth.ts`, `resolve/layer.ts`, `fixtures/scope.ts`) | none | the response of a status, `checkAuth`, overlay, narrowing | who is entitled passes; the precedence of the layers is kept leaf by leaf |
| Validation, bodies and rendering (`runtime/validate.ts`, `runtime/body.ts`, `handler.ts`) | none | parse, coerce, validate, error bodies | — |
| Value generation (`generate/**`) | the depth at which it is, per value | `generateValue` | what is generated satisfies its schema |
| Schema compilation (`schema/walk.ts`, `schema/compile.ts`) | none | the traversal, the validator | the same |
| Runtime expressions, document loading, fixture sources, signing, logging, options | none | conversions, clients | — |

How they interact: a request passes the stages of `runtime/pipeline.ts` in order
(authentication, validation, idempotency, failure, then overrides, fixtures,
generation) and leaves through the single exit in `handle` of `handler.ts`, where
its idempotency record is written, its destinations are captured and its emissions
are scheduled. Everything but the emission queue, the registry's index, the link
table's order, the counters and the fixture resolver's maps goes through the Store.
The fixtures are shared by three parts: requests read and add to them, a bake writes
them, and a disk store saves them under both, for another process to load.
`mock.reset()` clears the Store and all of these at once, under whatever is in
flight.

A call of the in-memory Store takes effect when it is made; its caller resumes
later. So in every module an action is one run of JavaScript from one `await` to
the next, at most one Store call long where the order of calls matters, and
anything else may come between two actions.

## What is hard

* A read and its write have an `await` between them: the armed count of `failNext`,
  the circuit count, the lost claim and its lookup, `all()` of the registry.
* The exit of a request acts on a key it claimed long ago.
* `reset()` and `close()` come at any time, and nothing is cancelled by them that
  has got past its check.
* Emissions wait for a time, fire out of order, retry, and are repeated.
* Deadlines: an entry dies while someone is about to count in it.
* Bounds: the delivery log, the link table, the call budget.
* A write of fixtures takes its snapshot late and pauses twice per file; sets,
  flushes, failures, crashes and readers of the directory come in between.
* A wildcard control call is one Store write per operation, and a request reads one
  slot at a time.
* Every schema keyword is handled twice, by the generator and by the validator, and
  keywords meet: a tuple with `contains`, a pattern beside `additionalProperties`, a
  conditional whose branch demands more, a union beside a shape, a component that
  contains itself.

The `hazards` of `PROJECT.json` list these at their lines, each with the properties
that would catch it going wrong.

## The modules

| Module | Models | Its state in the code |
|---|---|---|
| `StoreOps` | what one Store call does to the Map (`Put`, `Drop`, `Touch`, `Live`, `Vacant`), as operators | used by every module that keeps state in the Store |
| `TtlMap` | the abstract specification of the Store: entries vanish at their deadline | — |
| `MemoryStore` | `createMemoryStore`, dead entries included | `entries` is the Map, `now` is `Date.now()` |
| `AtomicClaims` | the abstract specification of idempotent requests: each is decided in one step | — |
| `Idempotency` | the claim, the lookup and the exit, for requests that interleave | `entries` the Store, `pc` where each request is, `decision` is `ctx.decisions.idempotency` |
| `Announcements` | composes it with the last step of the exit, which schedules the emissions | `announced` the requests for which it has |
| `Failure` | `checkFailure` step by step, `failNext`, `outage`, `reset` | `entries` the Store, `at` the policy being asked, `seen` the count that was read |
| `Emission` | scheduling, waiting, firing, delivery with retries, the log, redelivery, reset, close | `jobs` the emissions, `counters`, `allocations`, `generation`, `closed` and the log are variables of `createHandler` and `createDeliveryLog` |
| `Registry` | the destination registry: its index in memory and its entries in the Store | `index` the Map of keys, `registered` the entries `registration\|...`, `listing` the calls of `all()` |
| `LinkTable` | the recall table of one link rule: values in the Store, eviction order in memory | `order` the array, `links` the entries `link\|...`, `recording` the calls of `record()` |
| `Capture` | composes the two with the capture pass at the exit, the control plane and the resolution of a destination | `requests` the passes, `callbacks` the entries `callback\|...`, `emissions` the calls of `emitWebhook` |
| `Disk` | the disk fixture store: memory, timer, queue, the write with its temporary file and rename, load, crash | `memory`, `timer`, `queue` and `writing` of `createDiskFixtureStore`, `disk` and `torn` the directory |
| `Resolver` | `createFixtureResolver`: flights, budget, modes | `calls`, `inFlight`, and where each `resolve()` is |
| `Bake` | `bake()`: scope, plan, chunks, summary | `baking` is its local state |
| `Serving` | build and reload of the CLI, the node listener, the MCP slot | `current`, `server`, `mount`, and the calls on their way |
| `Fixtures` | composes the four over one directory | `mix`: which parts act together |
| `JsonValues` | JSON values, and the layers that are called | pure |
| `JsonSchema` | the shared traversal of a schema | pure |
| `SchemaCompiler` | what a compiled validator accepts | pure |
| `Generator` | the set of values `generateValue` can draw | pure |
| `Layers` | overlays and scopes, and the reference definition of precedence | pure |
| `Routes`, `Selection`, `Auth`, `RequestBody`, `RequestChecks` | matching and targets; the response of a status; requirements and schemes; the body a request brings; parameters and validation | pure |
| `Control` | overrides and variants: overlapping calls over Store slots | `slots` the entries, `calls` the calls, `object` what their callers hold |
| `Exchange` | composes `Control` and the modules that decide into a request's way through the handler; what the readers of schemas and values compute is a parameter | `request` the context of each request |
| `Bodies` | `Exchange` together with those readers, and what is so of the bodies that are served | — |
| `MC...` | a small instance of each for TLC | |
| `...Proofs` | theorems about each | |

Variables that are not in the code are history variables and are named as such in
their modules: `lost` in `Idempotency` (whose entry has been taken away by expiry,
reset or a late exit), `owed` and `window` in `Failure` (what the counts would be if
a read and its write were one step, and `Unknown` once they were not), `trippedAt`
and `downAt` there (when a circuit was last tripped and an outage last began),
`dropped` (what waited at a reset or a close) and `logged` in `Emission`, `steady` in `Registry` (what a listing cannot miss), `durable` and `gaveUp`
in `Disk` (what a resolved flush has promised; the last write failed), `sent` in
`Resolver`, parts of `baking` in `Bake`, `overlap` and `newest` in `Serving`, and
`promised` in `Control` (what the calls that have returned have set).

### Store

`MemoryStore` keeps dead entries in its Map until a call reads their key, as
`live()` does. It is shown to implement `TtlMap`, in which an entry vanishes with
the tick that passes its deadline and `get`, `setIfAbsent` and `incr` never meet a
dead one: `ImplementsTtlMap` is `TtlMap`'s specification with `map` replaced by the
live part of the Map. An entry is alive at its deadline and dead after it.

### Idempotency

A request is `idle`, then holds the claim (`producing`), or has lost it and will
look (`looking`); when its response has been produced and read it is `produced`,
and its exit writes the record, deletes the marker, or fails. `Reset` and `Tick`
come at any time. A request that dies is one that takes no further step: nothing in
the specification makes it. `OneAtATime` is the property the code does not have.

`AtomicClaims` is what all this promises: no clock, no Store, no pause. A request is
decided in one step by what is held under its key - it claims, runs without a claim,
is refused or replays - and a response comes on record only by the exit of a request
that claimed, under that request's own key, with that request's body; what is held may
be forgotten at any time. `ImplementsAtomicClaims` is its specification with `held` replaced by
the live part of the Store and `stage` by where a request is. A lost claim is
invisible there: `setIfAbsent` and the lookup behave as one step at the moment of the
lookup. That is why a request may run with nothing held under its key, which is the
case `OneAtATime` trips over. An exit may write over what another request holds,
also in `AtomicClaims`; `ExitKeepsToItsOwn` says when.

`Announcements` adds what the outside sees. Emissions are scheduled after the record
is written, under a guard of their own (`Announces`), and `EffectOnce` says what that
guard and the claim give together: a second announcement under one key needs a marker
or record that was lost, a body that could not be read, or a request that ran
without a claim. It asks that `conflictStatus` is an error: the code does not check it, and
with a status below 400 a refused retry is announced like an answer. From the
scheduling on an emission is `Emission`.

### Failure simulation

Each Store call of `checkFailure` is an action: `ReadFailNext` and `Shoot`,
`Outage`, `AskCircuit`, `Miss`/`Hit`, `Bump`, `Trip`, `Forget`. The seeded roll is a
free choice. The histories tell exact counting from the known imprecision: a
property says what holds unless two calls meet between a read and its write.
`OpenSinceTripped` asks of the Store, at every instant, that a circuit is open and an
outage on exactly while the last trip or start is no longer ago than its length. It
reads the instants of `Trip`, `StartOutage` and `Reset` and no deadline, so an answer
that arms the circuit again breaks it as an entry that never dies does.

### Emission

`jobs` is append-only: emissions and redeliveries in the order they came, each with
the generation it belongs to, the ordinal it drew (the delivery id is the webhook
and the ordinal), its block of the virtual clock, the answers of its fetches, and
the emission whose bytes it carries. `Wake` is the continuation after the wait,
with the check that drops what a reset or close has invalidated; `Release` is the
same step when the program itself can make it happen. `dropped` is told at a reset or
a close who was waiting then, whatever those do about it, and `WaitsDropped` holds
every later step to it. `Break` is an emission whose
override, generator or signature throws. `Settled` is the return of `close()`.

### Registry, links and capture

`register` and `unregister` change the index and call the Store in one run of
JavaScript, so each is one action. `all()` pauses at every read of an iteration over
a Map that others change meanwhile: `next` is where its iterator stands, which a
deletion before it moves (`NextAfterDelete`), as a JavaScript Map does. `record`
pauses at its write and after every eviction.

In `Capture` a request begins where the single exit has a final response: `Answer`
is that moment, and the pass then goes through the rules of its operation
(callbacks, registry, links, in that order), one Store call at a time, beside the
passes of other requests. `Replay` is the exit of a retry that got the stored
response: it runs the same pass, and `EndPass` schedules nothing for it. A value is
known by the request that wrote it, so `TenantsApart` and `RecallsWhatWasMinted`
can ask whose it is. An emission looks up the registration of its scope (`Fire`,
`Emit`), then reads the captured URL and decides (`Resolve`). What happens to it
after that is `Emission`.

### Fixtures

`set()` writes to memory and arms the timer in one run of JavaScript, so it is part
of the action that calls it: the answer of a flight (`LandWithValue`), the answer to
a chunk (`BakeAnswer`). `TimerFires` and `CallFlush` put a write on the queue;
`BeginWrite` takes the snapshot of that moment, `WriteTemp` and `Rename` are the two
pauses per file, and `Settle` ends the write, resolves its `flush()` and makes room
for the next. `FailWrite` and `RefuseWrite` are the failures: of a call, and of an
operation id that is no safe file name, which throws before any file is touched.
`Restart` is a process that dies anywhere and is started again over the same
directory, with a configuration of its own. Every value has a version, so that a
property can say "this or something newer"; the program has none.

`resolve()` answers at once (`ResolveAtOnce`), joins a flight (`Join`) or starts one
(`Launch`), and everyone who awaits a flight is answered with it. `LaunchThrows` is a
source that throws before it returns a promise: its flight has already removed itself
when it is entered, and stays in the Map for good. Whoever joins it is sent on to
generation. `inFlight` shows it and no property is broken by it.

`Serving` reads the directory the other process writes: `ReadDocument` lists the
files, `LoadFile` reads one, and a file may be renamed or edited between the two.
The listener's server is known only from the callback of `listen()` (`ListenOpens`) to
the callback of `close()` (`CloseEnds`); `SlotsTrue` excepts the calls that run into
one another, which `overlap` records. `Mcp` and `CloseHandle` are the slot.

### The request pipeline

A request of `Exchange` goes through the stages of `produce()`, one action up to each
`await`: `Arrive` (match and parameters), `TakeOverride` and `TakeVariant` (the reads of
the Store that control calls can come between), `ReadBody`, `Authenticate`, `Validate`,
`Stage` (idempotency or failure may answer; those are modules of their own),
`Respond`, `Select`, `TakeFixture`, `Recall`, `Render`, and `FailWith` for what the mock
answers itself. A *case* is a document, its configuration and the requests made to it.

Where a request goes does not depend on what is computed of a schema or a value, so
`Exchange` has four operators as constants: `Conforms` (is a request what its operation
declares), `Drafts` (what may be generated from a schema), `Laid` (a body with layers
laid over it) and `Part` (what a scope claims of a value). `Bodies` brings the modules
that define them together with `Exchange`, and the configuration of the run gives
`ValidateRequest`, `Generated`, `ApplyAll` and `Narrow` for them. The proofs about
`Exchange` hold for any four operators, these among them.

What `new Response` throws at (`Selection!CannotSend`) is part of the model: a response
declared exactly as `102`, or a body for a `204`, becomes the boundary's 500, which
`Sent` makes of it. `TypeOK` says that a range (`2XX`) never brings this about.

The values a seed can draw are a set (`Generated`), so a run covers every seed. A
JSON schema is a record of its keywords, a component is a reference and may contain
itself; a JSON value is a record of its kind and content. A string is a word and its
length, an enumeration or a pattern is a set, and a number is drawn at the ends of its
range and of the steps of `multipleOf`. `JsonSchema` is the traversal both sides read
(`allOf` merged, kinds, conditionals, negation, unions beside a shape);
`Generator!Shape` and `SchemaCompiler!Accepts` are what each makes of it, translated
each from its own file. `BodyConforms` sets one against the other.

`Layers!Overlay` is `applyLayer`, which walks the layers one after another;
`ComposedOf` is the reference: what a leaf is, by the last layer that says something
of it. `LayersCompose` holds the two together, with the layers the handler really
passes in their order. `Control!WildcardWhole` speaks of the Store between calls:
what has been promised is forgotten when a call begins, when a call fails, or when
two meet, and known again when a call that met no other returns.

## The runs

| Run | Shows | Bounds, and why they are enough |
|---|---|---|
| `store` | the lazy Map refines `TtlMap`; windows keep their deadline | two keys, two kinds of value, TTL 1 or none, four instants: a dead, a live and a permanent entry can stand side by side, and each can be read at, before and after its deadline |
| `idempotency` | each request is decided as if in one step, claims are exclusive, exits keep to their own, decisions have a cause, a retry announces nothing again, keys unwedge | three requests (one wins, one loses, one comes later), three workloads (the same call, another body, another route and no key), three instants, a marker that lives to the end of its own and a record one longer: a marker can expire under its owner, a record under its reader, and three markers one after another; refusals with 409 |
| `idempotency_race` | a violation: two requests of one key run at once | the same, with the clock standing still, so that no expiry is to blame |
| `failure` | armed failures and circuits are exact where no calls meet; circuits are not shared; an open circuit and an outage last from their last cause to its end, no longer and no shorter | three requests, a policy over two operations and one without a circuit, limits of two, two control-plane calls, three instants |
| `failure_decay` | a violation: a circuit count that never decays | the same without control-plane calls |
| `emission` | ids identify, the log is truthful and honest about evictions, the clock follows the schedule, what waited at a reset or a close never goes out, close drains and returns | three emissions or redeliveries, two attempts (a retry and a last one), a log of two (the third record evicts), one reset |
| `emission_order` | a violation: ordinals follow the delays | two emissions |
| `capture` | no tenant's request redirects another's emissions, recall is faithful, listings are complete, the link table keeps to its bound | three requests or control-plane calls, one of them replayed (a subscribe, an unsubscribe and a retry of the first), two scopes, two identifiers and a table of one (the second evicts), a scope, a URL or an identifier that does not resolve, a refused response, one reset |
| `registry_listing` | a violation: a listing drops the key of a fresh registration | the same |
| `capture_replay` | a violation: a replay undoes what came after its first answer | the same |
| `fixtures` | resolved flushes hold through failures and crashes, flights and budget are bounded, parts are layered, bakes account, reloads see what was flushed, slots are held by their owners | two operations in a file each, one with an exact and a wildcard key (a stored entry can be found under either); three versions (one is overwritten twice); one flush beside the timer (three writes can queue); three requests (one leads, one joins, one comes later), budgets of one, two and none; five responses of every kind, chunks of one and two, a source that is absent; two builds, two listeners, two handles; one crash and one hand edit |
| `exchange` | the best route and the entitled caller, generated bodies that validate, layers in their precedence, wildcard calls that are whole | seventeen documents: one with eighteen schemas, in each of which keywords meet (formats with bounds of length among them); a union that is only itself; named resolvers; overlapping templates and other methods; eight requirements by eight callers; parameters and bodies, right and wrong; ranges, defaults and no response; eight of layers; one with two control calls in all orders, each over one operation or both |

One request is enough in `exchange`: requests share nothing but the slots and the
modules that have runs of their own. Control calls are interchangeable and are made
while some request has yet to read a slot; afterwards they can change nothing it
sees. In `fixtures` not everything runs with everything: `MCMixes` lists the parts
that act together, so chosen that every two parts that share state meet (requests
with bake, flush, crash and failure; bake with the command, unsafe names, clear, edit
and reload), and that parts that share none (listener and mount with the directory)
do not multiply.

Deadlock is checked in `store`. The other systems really stop: every request has
been answered and the bounds on time, calls or jobs are reached.

Bounds that are not in the code: `MaxTime` (the clock), `MaxCount` (what `incr`
counts to), `MaxCalls` (control-plane calls), `MaxTimes` (the argument of
`failNext`), `MaxJobs`, `MaxResets`, `Workloads` and `Modes` (which inputs are
combined); in `Disk` `MaxVersions`, `MaxCrashes` and `MaxEdits`, in `Serving`
`MaxDocuments`, in `Fixtures` `Mixes`, in `Exchange` `Cases`; in `Capture` also `MaxRequests`, `MaxReplays`, `Inputs`,
`Mixes` (which operations meet in one run: those that register with those that
unregister and the control plane, or those that link; the registry and the link
table share nothing but the pass, and the proofs do not bound this) and
`MaxObservers`, which bounds listings and emissions together: one neither sees nor
disturbs the other, except that a listing drops keys from an index that emissions
never read. Each is a guard of the action it bounds. The identifiers of `Capture`
are interchangeable in every input and property, so the run takes them up to
symmetry.

### Fairness

* `Idempotency`: only time passes (`WF(Tick)`). `KeysUnwedge` must hold with no
  help from any request, since a handler may hang.
* `Emission`: `WF(Settled)` and weak fairness of the steps of the emissions that
  the program can take by itself: the event loop runs a continuation whose promise
  has resolved, a fetch ends (with a timeout or an error if need be), a backoff is
  a timer. That the time of an `afterMs` wait comes is *not* assumed, because
  `CloseReturns` says that `close()` does not have to wait for it.

The other specifications have no liveness property and state no fairness.

## The proofs

Every theorem holds for all values of the constants that satisfy the assumptions
declared in its component's module. Those say that TTLs, bounds and attempts are
naturals, that `conflictStatus` is a natural, that a scope names the key or the route (which `resolveIdempotency`
enforces), that the policies are a sequence of policies, that a key and its wildcard
key belong to one operation, and that the distinguished values (`Absent`, `Never`,
`Unknown`, `Nobody`, `NoKey`, `Unresolved`, `Generated`, `Unlimited`) are none of the
ordinary ones. That the bound of a link rule is a natural is such an assumption and
not checked by the code: with a negative `max`, `record()` would not leave its loop.

| Module | Theorems | Along which argument |
|---|---|---|
| `MemoryStoreProofs` | `TypeCorrect`, `DeadlinesKept`, `Refinement` (the Store implements `TtlMap`) | `TypeOK` is inductive; each action maps to the abstract action of its name, and a read of a dead entry to the read of an absent one; a tick maps to the tick that drops what it passes |
| `IdempotencyProofs` | `HoldersStayAccounted`, `Exclusive`, `ExitsKeepToTheirOwn`, `CausesTrue`, `RefinesAtomicClaims` (Idempotency implements `AtomicClaims`), `AnnouncingTypeCorrect`, `EffectsHappenOnce` | the invariant joins two views of the Store: from a request (a holder that has not lost its entry finds it, `HoldersAccounted`) and from an entry (it was written by a request of that key that claimed it, `EntriesOwned`); neither is inductive alone, because an exit writes without looking. The refinement: a won claim maps to a claim, a lookup to the decision it makes, an exit to an end; a lost claim and the operation itself are stutters; a reset or a tick forgets the keys it empties. Every action but an announcement is one of `Idempotency` (the lemma `AnnouncingKeepsSpec`), so all of this carries over; who has announced itself stays entitled to (`AnnouncedStand`), and a key is released only by an exit that had nothing to store (`ReleasedUnstored`), so that two announced answers under one key are two holders, and a claim is exclusive |
| `FailureProofs` | `TypeCorrect`, `ArmedExactly`, `CircuitsCountExactly`, `OpenFromTripToEnd`, `OpeningsHaveCause` | exact counting needs the requests that have read and not yet written: while nothing has come between there is at most one, and what it read is what is owed (`ShootersExact`), or what is in the window unless that has ended since (`CircuitInv`); `ArmedWell` keeps a count positive and without a deadline; the Store has the entry of a circuit or an outage, with the deadline its last cause gave it, or has none and that is over (`OpenWell`); an open circuit is followed to the request that tripped it, which stays where it tripped (`OpenCaused`) |
| `EmissionProofs` | `TypeCorrect`, `OneIdOneEmission`, `LogTells`, `EvictionsCounted`, `ClockFollows`, `CloseIsFinal`, `WaitsStayDropped` | four invariants side by side: what has been drawn (no ordinal or block beyond the counters of its generation, and no two emissions of a generation with one ordinal), what has been answered (a delivery under way has had only answers to be retried, and the log points at recorded deliveries), what is left after `close()`, and what was dropped (`Dropped`: still waiting, of an earlier generation unless the handler is closed, or gone, and never numbered); each step is first reduced to one of a few effects (a job joins, a job moves, the log is cleared) |
| `ExchangeProofs` | `ControlTypeCorrect`, `WildcardIsWhole` (of `ControlSpec`) | a slot may be called known only because no call is on its way to it: while a call writes, its slots are `Unknown` unless another call met it, and then it stays marked as overlapped (`WritingForgotten`, `MeetingOverlapped`); what it has written stands while it is not overlapped (`WrittenStays`), so that at its return the whole target has its value |
| | `ExchangeTypesCorrect`, `RequestsAdmitted`, `WildcardIsWholeWhileServing`, `BodiesAreMade` (of `ExchangeSpec`) | three facts about the deciding operators, then one invariant per request. Routing: `Before` is a strict total order of the templates that fit one path (`BeforeOrders`, by the first segment at which two differ), and a finite set so ordered has a first element (`FirstOfOrder`, by counting what is below each), so the match is a choice that exists and is before every other (`MatchFirst`). Authentication: a scheme, a requirement and the whole pass just when the reference is satisfied (`SchemeMeans`, `RequirementMeans`, `AuthMeans`), and the status of a refusal is 401 or 403. Selection: what is selected can be served (`SelectedServable`). `Sound` says of a request what its stage has settled - its operation was found first (`Placed`), a failure is one that may be told it (`Failed`), a response is one that was selected (`Selected`), an answer is one it may have (`Replied`) - and each of the thirteen actions either goes on, refuses or concludes (`GoesOn`, `Fails`, `Replies`), which is proved once each. `Owned` joins the two: a variant's name is never in the slot of an override. `BodiesMade`: what a body is made of is read from fields that no later step writes (`MadeHolds`), and the 500 of the boundary claims nothing of its body (`SentMade`) |
| `CaptureProofs` | `TypeCorrect`, `TenantsStayApart`, `ListingsAreComplete`, `RecallIsFaithful`, `NoLinkEscapes`, `LinksStayBounded` | whose a value is must be followed from its request through the Store to its reader: a pass is only ever that of an accepted request (`PassesAccepted`), a registration in the Store is from a request that registers its key (`RegisteredByItsOwn`), what a lookup has found was such a registration (`FoundItsOwn`, still true when the Store has changed since); for the links, the order has no duplicates and covers the values but for the `record()` calls between their write and their push, and it never outgrows the bound, because a push and the pops it calls for are one step (`OrderBounded`); for the listings, a key left alone is still ahead of the iterator, being read, or found, and a deletion moves keys and iterator together (`Walked`) |
| `FixturesProofs`, on the lemmas of `DiskProofs` | `FixtureTypesCorrect`, `BakesAccount`, `FlushesHold`, `FlightsAreBounded`, `PartsAreLayered`, `ReloadsSeeFlushed`, `SlotsHeld` | `DiskInv`: versions only grow, so a snapshot taken after a `flush()` was called is no older than what that flush was promised, and replacing a file by it loses nothing (`Grown`, `WritingForHead`); with no timer armed, what memory holds is written, being written or waits for the write behind (`NothingMissed`). `ResolverInv`: who leads a flight is in the Map under its key for as long as it flies, and a call is counted before it is made. `ServingInv`: a build that reads has every file that is owed to it still before it, or has read it (`BuildInv`); `SlotsInv` says who is in the slots. `BakeInv`: what a bake has walked is a prefix of the responses it plans for, in an order without repetitions (`InOrderLists`, proved by counting, since the order is chosen), and each of them writes a key of its own; an answered chunk adds as many keys as it counts (`ChunkAnsweredFills`) |

Three assumptions are about what a document loads as, and are worth their reasons.
`ExactKeysAssumption` (`Bake`): two responses that a bake can ask for have different
keys. `toResponses()` reads an exact status once per operation, the router refuses a
method and path declared twice, and the code skips a range because it would share the
key of its lower bound; without the assumption two answers could fall on one key and
the summary would count both. `CasesAssumption` (`Exchange`): operations, responses
and inputs are finite sequences, a path is of static and dynamic segments, a range is
one of the five buckets, and a `verify` callback answers with a principal and its
scopes, throws, or answers with a `Response` whose status is 200 to 599, as the
constructor of `Response` demands (a callback that hands on `Response.error()`, whose
status is 0, is left out). `ResponsesSequence` (`Bake`) says the same of the walk.

Only model-checked: `BodyConforms` and `LayersCompose`, because schemas and layers are
walked by recursion to the depth of the data: their readers are `RECURSIVE` operators,
which the prover does not take, and to know what they compute is an induction over
schemas. The half of them that is about the pipeline is proved, for any readers:
`BodiesAreMade` says that a rendered body is a base of the response that was selected
with just the layers of its own fixture, link, configuration and override laid over it,
and that a declared error is a draft of its own media; left to TLC is that a draft
satisfies its schema, and that layers laid over a value compose leaf by leaf. Also only
model-checked are the liveness properties `KeysUnwedge` and `CloseReturns`, because
liveness under fairness is out of the prover's reach, as is `ENABLED`. Every other
property of the passing runs is a theorem.

## Where the code and its documentation disagree

* **A lost claim may run beside the next claimant** (`idempotency_race`). A request
  whose claim fails and whose lookup then finds nothing goes on without a claim.
  That the entry is gone is taken to mean that it expired; it is also gone when the
  winner failed and released its key, and then a third request can claim it while
  the second runs.
* **A circuit count can lose its window** (`failure_decay`). `bumpCircuit` reads
  the count and increments it in a later step. If the window ends between the two,
  or another request trips the circuit and deletes the count, `incr` creates a
  count with no deadline.
* **Ordinals follow the delays** (`emission_order`). The clock block of an emission
  is reserved when its request schedules it, its ordinal is drawn when it fires.
* **A listing can hide a registration** (`registry_listing`). After a reset, `all()`
  reads a key that has no entry and awaits; a registration of that key in between
  is in the Store and in the index, until the continuation deletes it from the
  index. Emissions use it and no listing shows it.
* **A replay captures again** (`capture_replay`). The exit refuses a replayed
  request its emissions and not its capture pass: a retried subscribe brings back
  a registration that has been replaced or removed since.

`PROJECT.json` quotes the sentences concerned.

## What is not modelled

* The content of payloads, headers and signatures: no modelled property
  looks at them. A payload is identified by the emission that generated it.
* The clock running backwards. `now` is monotone in every module.
* In `Emission`: where a payload goes is one step with a free result, somewhere or
  nowhere; the length of a backoff; the header that turns emission off for a
  request. An `afterMs` function that throws uses up its block and nothing else.
* In `Capture`: an emission with an explicit `to` (it looks up the same and ignores
  it), the webhook that `all()` may filter by (it filters what is returned), the
  merge of a recalled value into a response, and a Store that throws. What a runtime
  expression resolves to is an input. A captured callback URL is one entry per
  webhook, whoever carried it: no property promises more of that tier.
* In `Idempotency`: how the key is read from the request, and concurrent writers to
  a Store shared between processes.
* In `Failure`: latency, which sleeps and touches no state, and how targets are
  matched to operations.
* In `Disk` and `Fixtures`: a second process that writes the same directory; one
  malformed entry among good ones in a file that parses; the hash in a key, which is
  exact or wildcard here.
* In `Serving`: that the newest document wins. Overlapping reloads finish in any
  order in the code (`cli.ts:212`) and nothing in the repository promises otherwise, so
  no property says it.
* In the pipeline: the idempotency and failure stages and the exit (modules of their
  own), headers of a response, content types, the list of issues and how it reads,
  request ids and debug headers; a `verify` callback, a body function or a resolver
  settles at once or throws. The function form of `errorBody`.
* In `Generator` and `SchemaCompiler`: the letters of a string (what a pattern or a
  format invents is a set); the boolean `exclusiveMinimum` of OpenAPI 3.0; the order in
  which `dependentSchemas` and patterns are taken, when it can be seen only in names;
  a redraw that runs out of its attempts, which is taken to have succeeded where
  another value is possible; the byte stream of the seed. A known
  format decides the length alone, as in the code, so a schema that bounds it where the
  format does not go is one the generator does not meet; no schema of the run is of that
  kind, and `BodyConforms` says nothing of it.
* `webhooks/expr.ts` (a runtime expression resolves or not), `load` and the walk of
  references (its result is what `JsonSchema` takes), the fixture sources (answers,
  failures or exceptions), signatures, log lines, the parsing of options, the JSON-RPC
  of the MCP server and what its read tools report: conversions, or clients of
  services, with no state of the program's own.
* Two hazards have no property, for the reasons in `PROJECT.json`: the flight that
  stays in the Map when its source throws at once (`resolve.ts:192`), and overlapping
  reloads. Of the emission of a response whose body could not be captured
  (`handler.ts:1470`) the model has the case, and `EffectOnce` excepts it: the retry
  claims the released key and announces itself a second time.

## The plan

1. *(done)* `StoreOps`, `TtlMap`, `MemoryStore`; `Idempotency`; `Failure`;
   `Emission`; `Registry`, `LinkTable`, `Capture`; their runs and proofs.
2. *(done)* `Disk`, `Resolver`, `Bake`, `Serving` and their composition `Fixtures`,
   with proofs.
3. *(done)* The pure modules, `Control`, and their composition `Exchange`.
4. *(done)* Every safety property as a theorem, but the two that are inductions over
   schemas and values (`BodyConforms`, `LayersCompose`).
5. *(done)* `AtomicClaims`, and `Announcements`: idempotency as one step, and the exit
   of a request whose key is released and whose emission fires all the same.
