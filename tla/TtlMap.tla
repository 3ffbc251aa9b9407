------------------------------- MODULE TtlMap -------------------------------
(***************************************************************************)
(* What a caller of the Store interface of src/runtime/store.ts relies on: *)
(* a map whose entries vanish, all by themselves, the moment their         *)
(* deadline has passed.  No caller can see a dead entry, and none has to   *)
(* read a key for it to die.                                               *)
(***************************************************************************)
EXTENDS StoreOps

CONSTANTS
  Keys,
  Texts,     \* the values that are not numbers
  Ttls,      \* the ttlMs arguments; Never stands for an omitted one
  MaxCount,  \* bound on what incr counts to
  MaxTime    \* bound on the clock

Numbers == 0 .. MaxCount
Values == Texts \cup Numbers

\* A call that resolves to a value, or to nothing; a call that resolves to a boolean.
ValueReply(v) == <<"value", v>>
ClaimReply(b) == <<"claimed", b>>

VARIABLES
  map,   \* map[k]: the entry under k, or Absent
  now,   \* what now() returns
  reply  \* what the last call resolved to: a value, or whether a claim succeeded

vars == <<map, now, reply>>

Init == /\ map = [k \in Keys |-> Absent]
        /\ now = 0
        /\ reply = ValueReply(Absent)

Get(k) == /\ reply' = ValueReply(IF map[k] = Absent THEN Absent ELSE map[k].value)
          /\ UNCHANGED <<map, now>>

Set(k, v, ttl) == /\ map' = Put(map, k, v, now, ttl)
                  /\ reply' = ValueReply(Absent)
                  /\ UNCHANGED now

SetIfAbsent(k, v, ttl) == /\ reply' = ClaimReply(map[k] = Absent)
                          /\ map' = IF map[k] = Absent THEN Put(map, k, v, now, ttl) ELSE map
                          /\ UNCHANGED now

Delete(k) == /\ map' = Drop(map, k)
             /\ reply' = ValueReply(Absent)
             /\ UNCHANGED now

\* A live number is added to under the deadline it has; a live text restarts
\* the count under the deadline it has; a counter made from nothing has none.
Incr(k) ==
  LET old == map[k]
      base == IF old # Absent /\ old.value \in Numbers THEN old.value ELSE 0
  IN /\ base < MaxCount
     /\ map' = [map EXCEPT ![k] = [value |-> base + 1,
                                   deadline |-> IF old = Absent THEN Never ELSE old.deadline]]
     /\ reply' = ValueReply(base + 1)
     /\ UNCHANGED now

Clear == /\ map' = [k \in Keys |-> Absent]
         /\ reply' = ValueReply(Absent)
         /\ UNCHANGED now

Tick == /\ now < MaxTime
        /\ now' = now + 1
        /\ map' = [k \in Keys |-> Live(map[k], now + 1)]
        /\ UNCHANGED reply

Next == \/ \E k \in Keys :
             \/ Get(k)
             \/ Delete(k)
             \/ Incr(k)
             \/ \E v \in Values, ttl \in Ttls : Set(k, v, ttl) \/ SetIfAbsent(k, v, ttl)
        \/ Clear
        \/ Tick

Spec == Init /\ [][Next]_vars
=============================================================================
