-------------------------------- MODULE Bake --------------------------------
(***************************************************************************)
(* bake() (src/fixtures/bake.ts): walks the responses of the document,     *)
(* plans a request for each that a source can answer, and sends them in    *)
(* chunks, one chunk after another.  Every answer goes to the fixture      *)
(* store under the wildcard key of its response.                           *)
(*                                                                         *)
(* The walk is one step, and so is what follows the answer to a chunk: the *)
(* only pause is the source.                                               *)
(***************************************************************************)
EXTENDS Disk

CONSTANTS
  Responses,  \* of the document, in the order of the walk: the operation, the
              \* status, the wildcard key, and what there is to send
  Scopes,     \* the `only` options callers give
  Plans       \* what a bake is configured with: source, budget, chunks, scope

Kinds == {"json", "range", "bodiless", "unsendable"}

ASSUME ResponsesSequence ==
  /\ Responses \in Seq([op : Files, status : Nat, key : Keys, kind : Kinds])
  /\ \A i \in DOMAIN Responses : Responses[i].op = FileOf[Responses[i].key]
\* toResponses() (src/spec/load.ts) reads each exact status of an operation
\* once, and the router refuses a method and path declared twice: the store has
\* a place for every body of the document.  A range shares the key of its lower
\* bound.
ASSUME ExactKeysAssumption ==
  \A i, j \in DOMAIN Responses :
    Responses[i].kind = "json" /\ Responses[j].kind = "json" /\ Responses[i].key = Responses[j].key
      => i = j
ASSUME ScopesAssumption == Scopes \subseteq
  {Absent} \cup [op : Nat \cup {Absent}, status : Nat \cup {Absent}]
ASSUME PlansAssumption == Plans \subseteq
  [source : BOOLEAN, maxCalls : Nat \cup {Absent}, chunkSize : Nat, scoped : BOOLEAN]

VARIABLES
  baking  \* the bake in progress or the last one

Summary == [generated : Nat, skipped : Nat, failed : Nat]

\* `considered` is a count of the responses asked for, `written` of the keys
\* this bake wrote and `asked` of the requests it sent: history.
Baking == [pc : {"idle", "calling", "done", "refused"},
           plan : Plans \cup {Absent},
           attempted : Seq(DOMAIN Responses),
           next : Nat,
           summary : Summary,
           considered : Nat,
           written : SUBSET Keys,
           asked : Nat]

BakeTypeOK == baking \in Baking

NotBaking == [pc |-> "idle", plan |-> Absent, attempted |-> <<>>, next |-> 1,
              summary |-> [generated |-> 0, skipped |-> 0, failed |-> 0],
              considered |-> 0, written |-> {}, asked |-> 0]

BakeInit == baking = NotBaking

\* matchesScope()
InScope(i, only) ==
  \/ only = Absent
  \/ Responses[i].op = only.op

\* The status that was asked for, and no other.
Considered(only) ==
  {i \in DOMAIN Responses :
     /\ InScope(i, only)
     /\ only = Absent \/ only.status \in {Absent, Responses[i].status}}

\* A scope that names no operation, one that matches none, and a status that
\* nothing declares.
Refuses(only) ==
  /\ only # Absent
  /\ \/ only.op = Absent
     \/ Considered(only) = {}

\* a walk that also plans for a range, under the key of its lower bound
PlannedWithRanges(considered) ==
  {i \in considered : Responses[i].kind \in {"json", "range"}}

Planned(considered) == {i \in considered : Responses[i].kind = "json"}

\* The members of `indices` in the order of the walk.
InOrder(indices) ==
  LET place(i) == Cardinality({j \in indices : j <= i})
  IN [p \in 1..Cardinality(indices) |-> CHOOSE i \in indices : place(i) = p]

FirstOf(s, limit) == IF limit = Absent \/ limit >= Len(s) THEN s ELSE SubSeq(s, 1, limit)

StartBake(only, plan) ==
  /\ baking.pc = "idle"
  /\ LET considered == Considered(only)
         attempted == FirstOf(InOrder(Planned(considered)), plan.maxCalls)
     IN baking' =
          IF ~plan.source \/ Refuses(only) THEN [baking EXCEPT !.pc = "refused"]
          ELSE [baking EXCEPT
                 !.pc = IF attempted = <<>> THEN "done" ELSE "calling",
                 !.plan = plan,
                 !.attempted = attempted,
                 !.considered = Cardinality(considered),
                 !.summary.skipped = Cardinality(considered) - Len(attempted)]
  /\ UNCHANGED diskVars

ChunkEnd ==
  LET size == NewerOf(1, baking.plan.chunkSize)
      end == baking.next + size - 1
  IN IF end > Len(baking.attempted) THEN Len(baking.attempted) ELSE end

\* The positions of `attempted` in the call that is out.
Chunk == baking.next..ChunkEnd

KeyAt(p) == Responses[baking.attempted[p]].key

Advanced(generated, failed, keys) ==
  baking' = [baking EXCEPT
    !.next = ChunkEnd + 1,
    !.pc = IF ChunkEnd = Len(baking.attempted) THEN "done" ELSE "calling",
    !.summary.generated = @ + generated,
    !.summary.failed = @ + failed,
    !.written = @ \cup keys,
    !.asked = @ + Cardinality(Chunk)]

\* The source throws: it costs the chunk, not the run.
ChunkFails ==
  /\ baking.pc = "calling"
  /\ Advanced(0, Cardinality(Chunk), {})
  /\ UNCHANGED diskVars

\* The source answers for the positions in `kept`; for the others it has no
\* result, or one that holds nothing the scope claims.  Later positions write
\* over earlier ones.
ChunkAnswered(kept) ==
  LET keys == {KeyAt(p) : p \in kept}
      last(k) == CHOOSE p \in kept : KeyAt(p) = k /\ \A q \in kept : KeyAt(q) = k => q <= p
      rank(p) == Cardinality({q \in kept : q <= p})
  IN /\ version + Cardinality(kept) <= MaxVersions
     /\ version' = version + Cardinality(kept)
     /\ SetAll([k \in keys |->
          [version |-> version + rank(last(k)), narrowed |-> baking.plan.scoped,
           scoped |-> IF baking.plan.scoped THEN TRUE ELSE Absent]])
     /\ Advanced(Cardinality(kept), Cardinality(Chunk \ kept), keys)
     /\ UNCHANGED <<unsafe, queue, writing, disk, torn, flushes, faults, durable, gaveUp>>

BakeAnswer == baking.pc = "calling" /\ \E kept \in SUBSET Chunk : ChunkAnswered(kept)

BakeRestart == baking' = NotBaking

\* A bake that has ended accounts for every response it was asked for, once;
\* it sent no more requests than its budget, and every fixture it counts as
\* generated has a key of its own.
BakeAccounted ==
  LET s == baking.summary
  IN /\ baking.pc = "done" => s.generated + s.skipped + s.failed = baking.considered
     /\ s.generated = Cardinality(baking.written)
     /\ baking.plan # Absent /\ baking.plan.maxCalls # Absent =>
          baking.asked <= baking.plan.maxCalls
=============================================================================
