------------------------------ MODULE StoreOps ------------------------------
(***************************************************************************)
(* What one call of the in-process Store of src/runtime/store.ts does to   *)
(* its Map, as operators on a function from keys to entries.  Every module *)
(* whose component keeps its state in the Store uses these operators.      *)
(*                                                                         *)
(* A call of the Store is `async`, but the whole body runs synchronously   *)
(* when it is called: a call is one step, and what is interleaved is the   *)
(* caller's continuation.                                                  *)
(***************************************************************************)
EXTENDS Naturals

CONSTANTS
  Absent,  \* no entry under a key
  Never    \* no deadline: expiresAt is undefined

ASSUME NeverAssumption == Never \notin Nat

Deadline == Nat \cup {Never}

\* The entries whose value is in V; a Map from Keys has EntryMap(Keys, V).
Entry(V) == [value : V, deadline : Deadline]
EntryMap(Keys, V) == [Keys -> Entry(V) \cup {Absent}]

\* `now() > entry.expiresAt`, false for an entry without a deadline.
Expired(e, t) == e # Absent /\ e.deadline # Never /\ t > e.deadline

\* What `live(key)` returns, and what it leaves behind: a dead entry is dropped.
Live(e, t) == IF Expired(e, t) THEN Absent ELSE e
Touch(entries, k, t) == [entries EXCEPT ![k] = Live(@, t)]

DeadlineAfter(t, ttl) == IF ttl = Never THEN Never ELSE t + ttl

\* set(key, value, ttlMs)
Put(entries, k, v, t, ttl) ==
  [entries EXCEPT ![k] = [value |-> v, deadline |-> DeadlineAfter(t, ttl)]]

\* `has(key)` in the place of `live(key)`: a dead entry still blocks a claim
VacantByHas(entries, k, t) == entries[k] = Absent
\* a get-then-set claim: two callers both find the key free
VacantAlways(entries, k, t) == TRUE

\* setIfAbsent(key, ...) succeeds
Vacant(entries, k, t) == Live(entries[k], t) = Absent

\* delete(key)
Drop(entries, k) == [entries EXCEPT ![k] = Absent]
=============================================================================
