------------------------------ MODULE Registry ------------------------------
(***************************************************************************)
(* The registry of webhook destinations (src/webhooks/registry.ts).  The   *)
(* Store holds a URL under the key of a webhook and a scope; an index in   *)
(* the process holds the keys, in the order of a Map, so that all() can    *)
(* enumerate what the Store cannot.                                        *)
(*                                                                         *)
(* register() and unregister() touch the index and call the Store without  *)
(* a pause in between, so each is one step.  all() pauses at every read,   *)
(* and anything may happen to the index it is iterating.  The webhook a    *)
(* caller asks all() for filters what is returned and nothing else, so     *)
(* every listing here is of all webhooks.                                  *)
(***************************************************************************)
EXTENDS Sequences, StoreOps

CONSTANTS
  Keys,    \* of registrations: a webhook and a scope
  Urls,
  Readers  \* calls of all()

ASSUME UrlsAssumption == Absent \notin Urls
ASSUME KeysAssumption == Absent \notin Keys

VARIABLES
  index,       \* the keys of the Map, oldest first
  registered,  \* what the Store holds under each key
  listing,     \* all() calls
  steady       \* history: per reader, the keys indexed and in the Store when
               \* its listing began, and neither written, deleted, cleared nor
               \* taken from the index since

registryVars == <<index, registered, listing, steady>>

\* `found`, sorted: per key, the URLs found under it, in the order found.  `key`
\* and `value` are the read in flight and `next` where the iterator stands.
Listing == [pc : {"idle", "reading", "done"},
            next : Nat,
            key : Keys \cup {Absent},
            value : Urls \cup {Absent},
            found : [Keys -> Seq(Urls)]]

RegistryTypeOK ==
  /\ index \in Seq(Keys)
  /\ registered \in [Keys -> Urls \cup {Absent}]
  /\ listing \in [Readers -> Listing]
  /\ steady \in [Readers -> SUBSET Keys]

RegistryInit ==
  /\ index = <<>>
  /\ registered = [k \in Keys |-> Absent]
  /\ listing = [r \in Readers |->
       [pc |-> "idle", next |-> 1, key |-> Absent, value |-> Absent,
        found |-> [k \in Keys |-> <<>>]]]
  /\ steady = [r \in Readers |-> {}]

Indexed(s, k) == \E p \in DOMAIN s : s[p] = k

\* index.set(key, ...): a key the Map has keeps its place.
WithKey(s, k) == IF Indexed(s, k) THEN s ELSE Append(s, k)

Place(s, k) == CHOOSE p \in DOMAIN s : s[p] = k

\* index.delete(key): no key is in a Map twice.
WithoutKey(s, k) ==
  IF Indexed(s, k)
  THEN [p \in 1..(Len(s) - 1) |-> IF p < Place(s, k) THEN s[p] ELSE s[p + 1]]
  ELSE s

\* an iteration by position, which a deletion behind it moves past a key
NextByPosition(next, s, k) == next

\* Where an iterator of the Map stands after the deletion: on the same key.
NextAfterDelete(next, s, k) ==
  IF Indexed(s, k) /\ Place(s, k) < next THEN next - 1 ELSE next

Touched(k) == [r \in Readers |-> steady[r] \ {k}]

\* index.delete(key), as the readers in `readers` see it
Shifted(readers, k) ==
  [r \in Readers |-> IF r \in readers
                     THEN [listing[r] EXCEPT !.next = NextAfterDelete(@, index, k)]
                     ELSE listing[r]]

Register(k, url) ==
  /\ index' = WithKey(index, k)
  /\ registered' = [registered EXCEPT ![k] = url]
  /\ steady' = Touched(k)
  /\ UNCHANGED listing

Unregister(k) ==
  /\ index' = WithoutKey(index, k)
  /\ registered' = Drop(registered, k)
  /\ listing' = Shifted(Readers, k)
  /\ steady' = Touched(k)

Lookup(k) == registered[k]

\* The iterator of `l` moves on in `s`: it reads the next key, or the listing is
\* done.
Step(l, s) ==
  IF l.next \in DOMAIN s
  THEN [l EXCEPT !.pc = "reading", !.key = s[l.next], !.next = @ + 1,
                 !.value = registered[s[l.next]]]
  ELSE [l EXCEPT !.pc = "done", !.key = Absent, !.value = Absent, !.next = 1]

StartListing(r) ==
  /\ listing[r].pc = "idle"
  /\ listing' = [listing EXCEPT ![r] = Step(@, index)]
  /\ steady' = [steady EXCEPT ![r] =
       {k \in Keys : Indexed(index, k) /\ registered[k] # Absent}]
  /\ UNCHANGED <<index, registered>>

\* The read ends with a URL: it is pushed, and the iterator moves on.
ListFound(r) ==
  LET l == listing[r]
  IN /\ l.pc = "reading" /\ l.value # Absent
     /\ listing' = [listing EXCEPT ![r] =
          Step([l EXCEPT !.found[l.key] = Append(@, l.value)], index)]
     /\ UNCHANGED <<index, registered, steady>>

\* It ends with nothing: the key leaves the index, whoever registered it since.
ListDropped(r) ==
  LET l == listing[r]
      s == WithoutKey(index, l.key)
      shifted == Shifted(Readers, l.key)
  IN /\ l.pc = "reading" /\ l.value = Absent
     /\ index' = s
     /\ listing' = [shifted EXCEPT ![r] = Step(@, s)]
     /\ steady' = Touched(l.key)
     /\ UNCHANGED registered

\* store.clear(): the index does not hear of it.
RegistryCleared ==
  /\ registered' = [k \in Keys |-> Absent]
  /\ steady' = [r \in Readers |-> {}]
  /\ UNCHANGED <<index, listing>>

\* A finished listing has every key that was there before and was left alone,
\* once, with its URL.
ListingComplete ==
  \A r \in Readers : listing[r].pc = "done" =>
     \A k \in steady[r] : listing[r].found[k] = <<registered[k]>>
=============================================================================
