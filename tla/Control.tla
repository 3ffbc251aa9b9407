------------------------------- MODULE Control -------------------------------
(***************************************************************************)
(* Overrides and pinned variants set while the mock serves                 *)
(* (src/index.ts, src/runtime/overrides.ts, src/runtime/variant.ts).       *)
(*                                                                         *)
(* A call that means several operations is one awaited write of the Store  *)
(* per operation.  Calls overlap, a write of the Store may fail, the       *)
(* caller keeps the object it passed, and a request reads one slot at a    *)
(* time.                                                                   *)
(***************************************************************************)
EXTENDS Integers, FiniteSets

CONSTANTS
  Calls,       \* control calls: each is made once
  Operations,  \* operations that the calls are about, numbered in the document's order
  Targets,     \* the sets of operations that targets mean
  Overrides,   \* overrides that can be set
  Valid,       \* those that are JSON data and have a status as every key
  Names,       \* variant names
  None, Unknown

ASSUME OperationsAssumption == Operations \subseteq Nat
ASSUME TargetsAssumption == Targets \subseteq SUBSET Operations
ASSUME ValidAssumption == Valid \subseteq Overrides
ASSUME NoneAssumption == Unknown \notin Overrides \cup Names \cup {None}

VARIABLES
  slots,     \* Store: per kind and operation, what is set
  calls,     \* the calls
  object,    \* the object of each caller, which the caller may change
  promised   \* history: what is set by calls that have returned, per slot;
             \* Unknown once a call that is not over, failed or overlapped
             \* another could have written there

controlVars == <<slots, calls, object, promised>>

Kinds == {"override", "variant"}
Values(kind) == IF kind = "override" THEN Valid ELSE Names
Slots == [Kinds -> [Operations -> Overrides \cup Names \cup {None}]]
NoSlots == [kind \in Kinds |-> [o \in Operations |-> None]]

ControlCall == [pc : {"idle", "writing", "done", "failed"}, kind : Kinds, target : SUBSET Operations,
                todo : SUBSET Operations, value : Overrides \cup Names \cup {None}, overlapped : BOOLEAN]

ControlTypeOK ==
  /\ slots \in Slots
  /\ calls \in [Calls -> ControlCall]
  /\ object \in [Calls -> Overrides \cup Names \cup {None}]
  /\ promised \in [Kinds -> [Operations -> Overrides \cup Names \cup {None, Unknown}]]

NotWriting(pc) == [pc |-> pc, kind |-> "override", target |-> {}, todo |-> {},
                   value |-> None, overlapped |-> FALSE]

ControlInit ==
  /\ slots = NoSlots
  /\ calls = [c \in Calls |-> NotWriting("idle")]
  /\ object = [c \in Calls |-> None]
  /\ promised = NoSlots

(***************************************************************************)
(* A call begins: nothing is promised of its slots any more, and the calls *)
(* on its way there are overlapped.                                        *)
(***************************************************************************)
Meets(c, kind, target) ==
  calls[c].pc = "writing" /\ calls[c].kind = kind /\ calls[c].target \cap target # {}

Forgotten(kind, target) ==
  [k \in Kinds |-> [o \in Operations |->
     IF k = kind /\ o \in target THEN Unknown ELSE promised[k][o]]]

Begin(c, kind, target, value) ==
  /\ calls[c].pc = "idle"
  /\ calls' = [d \in Calls |->
       IF d = c THEN [pc |-> "writing", kind |-> kind, target |-> target, todo |-> target,
                      value |-> value, overlapped |-> \E e \in Calls : Meets(e, kind, target)]
       ELSE [calls[d] EXCEPT !.overlapped = @ \/ Meets(d, kind, target)]]
  /\ promised' = Forgotten(kind, target)
  /\ UNCHANGED slots

\* override(): a copy of the caller's object is what will be written.
Override(c, target, value) ==
  /\ value \in Valid
  /\ Begin(c, "override", target, value)
  /\ object' = [object EXCEPT ![c] = value]

\* What is not JSON data or has another key is refused before any write.
RefuseOverride(c, value) ==
  /\ calls[c].pc = "idle"
  /\ value \in Overrides \ Valid
  /\ calls' = [calls EXCEPT ![c] = NotWriting("failed")]
  /\ UNCHANGED <<slots, object, promised>>

SetVariant(c, target, name) ==
  /\ name \in Names
  /\ Begin(c, "variant", target, name)
  /\ UNCHANGED object

\* clearOverrides(), clearVariants(): of a target, or of every operation.
ClearSlots(c, kind, target) ==
  /\ kind \in Kinds
  /\ Begin(c, kind, target, None)
  /\ UNCHANGED object

Mutate(c, value) ==
  /\ calls[c].pc = "writing" /\ calls[c].kind = "override" /\ calls[c].value # None
  /\ value \in Valid
  /\ object' = [object EXCEPT ![c] = value]
  /\ UNCHANGED <<slots, calls, promised>>

(***************************************************************************)
(* One awaited write or delete, in the order of the document.              *)
(***************************************************************************)
WrittenAsObject(c) ==
  IF calls[c].kind = "override" /\ calls[c].value # None THEN object[c] ELSE calls[c].value

Written(c) == calls[c].value

WriteSlot(c) ==
  /\ calls[c].pc = "writing"
  /\ \E o \in calls[c].todo :
       /\ \A p \in calls[c].todo : o <= p
       /\ slots' = [slots EXCEPT ![calls[c].kind][o] = Written(c)]
       /\ calls' = [calls EXCEPT ![c].todo = @ \ {o}]
  /\ UNCHANGED <<object, promised>>

\* What a call was about is of no consequence once it is over.
Ends(c, pc) ==
  /\ calls' = [calls EXCEPT ![c] = NotWriting(pc)]
  /\ object' = [object EXCEPT ![c] = None]

\* The Store fails: the call rejects and the writes that are left are not made.
WriteFails(c) ==
  /\ calls[c].pc = "writing" /\ calls[c].todo # {}
  /\ Ends(c, "failed")
  /\ UNCHANGED <<slots, promised>>

Returns(c) ==
  /\ calls[c].pc = "writing" /\ calls[c].todo = {}
  /\ Ends(c, "done")
  /\ promised' = IF calls[c].overlapped THEN promised
                 ELSE [k \in Kinds |-> [o \in Operations |->
                         IF k = calls[c].kind /\ o \in calls[c].target THEN calls[c].value
                         ELSE promised[k][o]]]
  /\ UNCHANGED slots

\* reset(): the Store is cleared; a call on its way goes on writing.
ResetSlots ==
  /\ slots' = NoSlots
  /\ calls' = [d \in Calls |-> [calls[d] EXCEPT !.overlapped = @ \/ calls[d].pc = "writing"]]
  /\ promised' = [k \in Kinds |-> [o \in Operations |->
       IF \E c \in Calls : Meets(c, k, {o}) THEN Unknown ELSE None]]
  /\ UNCHANGED object

ControlNext ==
  \/ \E c \in Calls, target \in Targets, value \in Overrides : Override(c, target, value)
  \/ \E c \in Calls, value \in Overrides : RefuseOverride(c, value) \/ Mutate(c, value)
  \/ \E c \in Calls, target \in Targets, name \in Names : SetVariant(c, target, name)
  \/ \E c \in Calls, kind \in Kinds, target \in Targets \cup {Operations} : ClearSlots(c, kind, target)
  \/ \E c \in Calls : WriteSlot(c) \/ WriteFails(c) \/ Returns(c)
  \/ ResetSlots

ControlSpec == ControlInit /\ [][ControlNext]_controlVars

(***************************************************************************)
(* What the runtime reads: an object with the override, a variant's name.  *)
(* Of an operation that no call is about, nothing was ever set.            *)
(***************************************************************************)
ReadOverride(o) == IF o \in Operations THEN slots["override"][o] ELSE None
ReadVariant(o) == IF o \in Operations THEN slots["variant"][o] ELSE None

(***************************************************************************)
(* The writes of one call make one change: once a call has returned, and   *)
(* as long as no other call or reset overlapped it or came after, every    *)
(* operation its target means has exactly what the call was given - not    *)
(* what the caller made of the object since, and not on some of them only. *)
(* (src/index.ts:202: one write per key, of a copy made once.)             *)
(***************************************************************************)
WildcardWhole ==
  \A kind \in Kinds, o \in Operations :
    promised[kind][o] # Unknown => slots[kind][o] = promised[kind][o]
=============================================================================
