--------------------------- MODULE ExchangeProofs ---------------------------
(***************************************************************************)
(* That the writes of one control call make one change, for any number of  *)
(* calls, operations and values; and that a request, for any document that *)
(* was loaded, is given to the operation that fits it best, passes         *)
(* authentication only when it is entitled to it, and is answered with     *)
(* what can be sent, made of the bases and layers of its own response.     *)
(***************************************************************************)
EXTENDS Exchange, FiniteSetTheorems, TLAPS

Data == Overrides \cup Names \cup {None}
Writing(c) == calls[c].pc = "writing"

\* Nothing is promised where a call is writing.
WritingForgotten ==
  \A c \in Calls : Writing(c) =>
    \A o \in calls[c].target : promised[calls[c].kind][o] = Unknown

\* A call that nothing overlapped finds what it has written.
WrittenStays ==
  \A c \in Calls : (Writing(c) /\ ~calls[c].overlapped) =>
    \A o \in calls[c].target \ calls[c].todo : slots[calls[c].kind][o] = calls[c].value

\* Calls that meet know it.
MeetingOverlapped ==
  \A c, d \in Calls :
    (c # d /\ Writing(c) /\ Writing(d) /\ calls[c].kind = calls[d].kind
       /\ calls[c].target \cap calls[d].target # {}) => calls[c].overlapped

TodoTargeted == \A c \in Calls : calls[c].todo \subseteq calls[c].target

ControlInv ==
  /\ ControlTypeOK
  /\ TodoTargeted
  /\ WritingForgotten
  /\ WrittenStays
  /\ MeetingOverlapped
  /\ WildcardWhole

(***************************************************************************)
(* Type correctness, action by action.                                     *)
(***************************************************************************)
LEMMA NotWritingType ==
  ASSUME NEW pc \in {"idle", "done", "failed"} PROVE NotWriting(pc) \in ControlCall
BY DEF NotWriting, ControlCall, Kinds

LEMMA ControlInitTypeOK == ControlInit => ControlTypeOK
BY NotWritingType DEF ControlInit, ControlTypeOK, NoSlots, Slots

LEMMA BeginTypeOK ==
  ASSUME ControlTypeOK, NEW c \in Calls, NEW kind \in Kinds, NEW target \in SUBSET Operations,
         NEW value \in Data, Begin(c, kind, target, value), object' \in [Calls -> Data]
  PROVE  ControlTypeOK'
<1>1. \A d \in Calls : calls'[d] \in ControlCall
  <2> TAKE d \in Calls
  <2>1. calls[d] \in ControlCall  BY DEF ControlTypeOK
  <2>2. Meets(d, kind, target) \in BOOLEAN  BY DEF Meets
  <2>3. CASE d = c
    BY <2>3 DEF Begin, ControlCall, Data
  <2>4. CASE d # c
    <3>1. calls'[d] = [calls[d] EXCEPT !.overlapped = @ \/ Meets(d, kind, target)]
      BY <2>4 DEF Begin
    <3> QED  BY <2>1, <2>2, <3>1 DEF ControlCall
  <2> QED  BY <2>3, <2>4
<1>2. calls' \in [Calls -> ControlCall]
  BY <1>1 DEF Begin
<1>3. promised' \in [Kinds -> [Operations -> Data \cup {Unknown}]]
  BY DEF Begin, Forgotten, ControlTypeOK, Data
<1> QED  BY <1>2, <1>3 DEF Begin, ControlTypeOK, Data

LEMMA StepTypeOK ==
  ASSUME ControlTypeOK, [ControlNext]_controlVars PROVE ControlTypeOK'
<1> USE DEF Data
<1>1. ASSUME NEW c \in Calls, NEW target \in Targets, NEW value \in Overrides,
             Override(c, target, value)
      PROVE  ControlTypeOK'
  <2>1. object' \in [Calls -> Data]  BY <1>1 DEF Override, ControlTypeOK
  <2>2. Begin(c, "override", target, value)  BY <1>1 DEF Override
  <2> QED  BY <2>1, <2>2, BeginTypeOK, TargetsAssumption DEF Kinds
<1>2. ASSUME NEW c \in Calls, NEW value \in Overrides, RefuseOverride(c, value)
      PROVE  ControlTypeOK'
  BY <1>2, NotWritingType DEF RefuseOverride, ControlTypeOK
<1>3. ASSUME NEW c \in Calls, NEW value \in Overrides, Mutate(c, value)
      PROVE  ControlTypeOK'
  BY <1>3 DEF Mutate, ControlTypeOK
<1>4. ASSUME NEW c \in Calls, NEW target \in Targets, NEW name \in Names, SetVariant(c, target, name)
      PROVE  ControlTypeOK'
  <2>1. object' \in [Calls -> Data]  BY <1>4 DEF SetVariant, ControlTypeOK
  <2>2. Begin(c, "variant", target, name)  BY <1>4 DEF SetVariant
  <2> QED  BY <2>1, <2>2, BeginTypeOK, TargetsAssumption DEF Kinds
<1>5. ASSUME NEW c \in Calls, NEW kind \in Kinds, NEW target \in Targets \cup {Operations},
             ClearSlots(c, kind, target)
      PROVE  ControlTypeOK'
  <2>1. object' \in [Calls -> Data]  BY <1>5 DEF ClearSlots, ControlTypeOK
  <2>2. Begin(c, kind, target, None)  BY <1>5 DEF ClearSlots
  <2> QED  BY <2>1, <2>2, BeginTypeOK, TargetsAssumption
<1>6. ASSUME NEW c \in Calls, WriteSlot(c) PROVE ControlTypeOK'
  <2>1. PICK o \in calls[c].todo :
          /\ slots' = [slots EXCEPT ![calls[c].kind][o] = Written(c)]
          /\ calls' = [calls EXCEPT ![c].todo = @ \ {o}]
    BY <1>6 DEF WriteSlot
  <2>2. calls[c] \in ControlCall  BY DEF ControlTypeOK
  <2>3. calls[c].kind \in Kinds /\ o \in Operations /\ Written(c) \in Data
    BY <2>2 DEF ControlCall, Written
  <2>4. slots' \in Slots  BY <2>1, <2>3 DEF ControlTypeOK, Slots
  <2>5. [calls[c] EXCEPT !.todo = @ \ {o}] \in ControlCall  BY <2>2 DEF ControlCall
  <2>6. calls' \in [Calls -> ControlCall]  BY <2>1, <2>5 DEF ControlTypeOK
  <2> QED  BY <1>6, <2>4, <2>6 DEF WriteSlot, ControlTypeOK
<1>7. ASSUME NEW c \in Calls, WriteFails(c) PROVE ControlTypeOK'
  BY <1>7, NotWritingType DEF WriteFails, Ends, ControlTypeOK
<1>8. ASSUME NEW c \in Calls, Returns(c) PROVE ControlTypeOK'
  <2>1. calls[c].value \in Data  BY DEF ControlTypeOK, ControlCall
  <2>2. promised' \in [Kinds -> [Operations -> Data \cup {Unknown}]]
    BY <1>8, <2>1 DEF Returns, ControlTypeOK
  <2> QED  BY <1>8, <2>2, NotWritingType DEF Returns, Ends, ControlTypeOK
<1>9. ASSUME ResetSlots PROVE ControlTypeOK'
  <2>1. \A d \in Calls : [calls[d] EXCEPT !.overlapped = @ \/ calls[d].pc = "writing"] \in ControlCall
    BY DEF ControlTypeOK, ControlCall
  <2> QED  BY <1>9, <2>1 DEF ResetSlots, ControlTypeOK, NoSlots, Slots
<1>10. CASE UNCHANGED controlVars
  BY <1>10 DEF controlVars, ControlTypeOK
<1> QED
  BY <1>1, <1>2, <1>3, <1>4, <1>5, <1>6, <1>7, <1>8, <1>9, <1>10 DEF ControlNext

\* Every variable keeps to its type, whatever the calls.
THEOREM ControlTypeCorrect == ControlSpec => []ControlTypeOK
<1>1. ControlInit => ControlTypeOK
  BY ControlInitTypeOK
<1>2. ControlTypeOK /\ [ControlNext]_controlVars => ControlTypeOK'
  BY StepTypeOK
<1> QED  BY <1>1, <1>2, PTL DEF ControlSpec

(***************************************************************************)
(* The inductive invariant, action by action.                              *)
(***************************************************************************)
LEMMA ControlInitInv == ControlInit => ControlInv
BY ControlInitTypeOK
DEF ControlInit, ControlInv, TodoTargeted, WritingForgotten, WrittenStays, MeetingOverlapped,
    WildcardWhole, Writing, NotWriting, NoSlots

LEMMA BeginInv ==
  ASSUME ControlInv, ControlTypeOK', NEW c \in Calls, NEW kind \in Kinds,
         NEW target \in SUBSET Operations, NEW value \in Data, Begin(c, kind, target, value)
  PROVE  ControlInv'
<1> USE DEF ControlInv
<1>1. /\ slots' = slots
      /\ promised' = Forgotten(kind, target)
      /\ ~Writing(c)
  BY DEF Begin, Writing
<1>2. calls'[c] = [pc |-> "writing", kind |-> kind, target |-> target, todo |-> target,
                   value |-> value, overlapped |-> \E e \in Calls : Meets(e, kind, target)]
  BY DEF Begin
<1>3. ASSUME NEW d \in Calls, d # c
      PROVE  /\ calls'[d].pc = calls[d].pc
             /\ calls'[d].kind = calls[d].kind
             /\ calls'[d].target = calls[d].target
             /\ calls'[d].todo = calls[d].todo
             /\ calls'[d].value = calls[d].value
             /\ (calls[d].overlapped \/ Meets(d, kind, target)) => calls'[d].overlapped
  <2>1. calls'[d] = [calls[d] EXCEPT !.overlapped = @ \/ Meets(d, kind, target)]
    BY <1>3 DEF Begin
  <2>2. calls[d] \in ControlCall /\ Meets(d, kind, target) \in BOOLEAN
    BY DEF ControlTypeOK, Meets
  <2> QED  BY <2>1, <2>2 DEF ControlCall
<1>4. \A k \in Kinds, o \in Operations :
        promised'[k][o] = IF k = kind /\ o \in target THEN Unknown ELSE promised[k][o]
  BY <1>1 DEF Forgotten
<1>5. TodoTargeted'
  BY <1>2, <1>3 DEF TodoTargeted
<1>6. WritingForgotten'
  <2> SUFFICES ASSUME NEW d \in Calls, calls'[d].pc = "writing", NEW o \in calls'[d].target
               PROVE  promised'[calls'[d].kind][o] = Unknown
    BY DEF WritingForgotten, Writing
  <2>1. calls'[d].kind \in Kinds /\ o \in Operations
    BY DEF ControlTypeOK, ControlCall
  <2>2. CASE d = c  BY <1>2, <1>4, <2>1, <2>2
  <2>3. CASE d # c  BY <1>3, <1>4, <2>1, <2>3 DEF WritingForgotten, Writing
  <2> QED  BY <2>2, <2>3
<1>7. WrittenStays'
  BY <1>1, <1>2, <1>3 DEF WrittenStays, Writing
<1>8. MeetingOverlapped'
  <2> SUFFICES ASSUME NEW d \in Calls, NEW e \in Calls, d # e,
                      calls'[d].pc = "writing", calls'[e].pc = "writing",
                      calls'[d].kind = calls'[e].kind,
                      calls'[d].target \cap calls'[e].target # {}
               PROVE  calls'[d].overlapped
    BY DEF MeetingOverlapped, Writing
  <2>1. CASE d = c
    <3>1. Meets(e, kind, target)  BY <1>2, <1>3, <2>1 DEF Meets
    <3> QED  BY <1>2, <2>1, <3>1
  <2>2. CASE d # c /\ e = c
    <3>1. Meets(d, kind, target)  BY <1>2, <1>3, <2>2 DEF Meets
    <3> QED  BY <1>3, <2>2, <3>1
  <2>3. CASE d # c /\ e # c
    BY <1>3, <2>3 DEF MeetingOverlapped, Writing
  <2> QED  BY <2>1, <2>2, <2>3
<1>9. WildcardWhole'
  BY <1>1, <1>4 DEF WildcardWhole
<1> QED  BY <1>5, <1>6, <1>7, <1>8, <1>9

\* A write lands where nothing is promised, and in no other call's way.
LEMMA WriteInv ==
  ASSUME ControlInv, ControlTypeOK', NEW c \in Calls, WriteSlot(c) PROVE ControlInv'
<1> USE DEF ControlInv
<1>1. PICK o \in calls[c].todo :
        /\ slots' = [slots EXCEPT ![calls[c].kind][o] = Written(c)]
        /\ calls' = [calls EXCEPT ![c].todo = @ \ {o}]
  BY DEF WriteSlot
<1>2. Writing(c) /\ promised' = promised
  BY DEF WriteSlot, Writing
<1>3. calls[c].kind \in Kinds /\ o \in Operations /\ o \in calls[c].target
  BY DEF ControlTypeOK, ControlCall, TodoTargeted
<1>4. \A k \in Kinds, p \in Operations :
        slots'[k][p] = IF k = calls[c].kind /\ p = o THEN calls[c].value ELSE slots[k][p]
  BY <1>1, <1>3 DEF ControlTypeOK, Slots, Written
<1>5. \A d \in Calls :
        /\ calls'[d].pc = calls[d].pc
        /\ calls'[d].kind = calls[d].kind
        /\ calls'[d].target = calls[d].target
        /\ calls'[d].value = calls[d].value
        /\ calls'[d].overlapped = calls[d].overlapped
        /\ calls'[d].todo = IF d = c THEN calls[c].todo \ {o} ELSE calls[d].todo
  BY <1>1 DEF ControlTypeOK, ControlCall
<1>6. TodoTargeted'
  BY <1>5 DEF TodoTargeted
<1>7. WritingForgotten'
  BY <1>2, <1>5 DEF WritingForgotten, Writing
<1>8. WrittenStays'
  <2> SUFFICES ASSUME NEW d \in Calls, calls[d].pc = "writing", ~calls[d].overlapped,
                      NEW p \in calls[d].target \ calls'[d].todo
               PROVE  slots'[calls[d].kind][p] = calls[d].value
    BY <1>5 DEF WrittenStays, Writing
  <2>1. calls[d].kind \in Kinds /\ p \in Operations
    BY DEF ControlTypeOK, ControlCall
  <2>2. CASE d = c
    BY <1>4, <1>5, <2>1, <2>2 DEF WrittenStays, Writing
  <2>3. CASE d # c
    <3>1. ~(calls[d].kind = calls[c].kind /\ p = o)
      BY <1>2, <1>3, <2>3 DEF MeetingOverlapped, Writing
    <3> QED  BY <1>4, <1>5, <2>1, <2>3, <3>1 DEF WrittenStays, Writing
  <2> QED  BY <2>2, <2>3
<1>9. MeetingOverlapped'
  BY <1>5 DEF MeetingOverlapped, Writing
<1>10. WildcardWhole'
  BY <1>2, <1>3, <1>4 DEF WildcardWhole, WritingForgotten
<1> QED  BY <1>6, <1>7, <1>8, <1>9, <1>10

\* A call that ends stands in nobody's way.
LEMMA EndsInv ==
  ASSUME ControlInv, ControlTypeOK', NEW c \in Calls,
         \/ WriteFails(c)
         \/ \E value \in Overrides : RefuseOverride(c, value)
  PROVE  ControlInv'
<1> USE DEF ControlInv
<1>1. /\ calls' = [calls EXCEPT ![c] = NotWriting("failed")]
      /\ slots' = slots /\ promised' = promised
  BY DEF WriteFails, Ends, RefuseOverride
<1>2. /\ calls'[c].pc = "failed" /\ calls'[c].todo = {} /\ calls'[c].target = {}
      /\ \A d \in Calls \ {c} : calls'[d] = calls[d]
  BY <1>1 DEF ControlTypeOK, NotWriting
<1> QED
  BY <1>1, <1>2
  DEF TodoTargeted, WritingForgotten, WrittenStays, MeetingOverlapped, WildcardWhole, Writing

\* What is promised when a call returns is what it has found to stay.
LEMMA ReturnsInv ==
  ASSUME ControlInv, ControlTypeOK', NEW c \in Calls, Returns(c) PROVE ControlInv'
<1> USE DEF ControlInv
<1>1. /\ Writing(c) /\ calls[c].todo = {}
      /\ calls' = [calls EXCEPT ![c] = NotWriting("done")]
      /\ slots' = slots
  BY DEF Returns, Ends, Writing
<1>2. /\ calls'[c].pc = "done" /\ calls'[c].todo = {} /\ calls'[c].target = {}
      /\ \A d \in Calls \ {c} : calls'[d] = calls[d]
  BY <1>1 DEF ControlTypeOK, NotWriting
<1>3. TodoTargeted' /\ WrittenStays' /\ MeetingOverlapped'
  BY <1>1, <1>2 DEF TodoTargeted, WrittenStays, MeetingOverlapped, Writing
<1>4. CASE calls[c].overlapped
  <2>1. promised' = promised  BY <1>4 DEF Returns
  <2> QED  BY <1>1, <1>2, <1>3, <2>1 DEF WritingForgotten, WildcardWhole, Writing
<1>5. CASE ~calls[c].overlapped
  <2>1. \A k \in Kinds, o \in Operations :
          promised'[k][o] = IF k = calls[c].kind /\ o \in calls[c].target THEN calls[c].value
                            ELSE promised[k][o]
    BY <1>5 DEF Returns
  <2>2. WildcardWhole'
    BY <1>1, <1>5, <2>1 DEF WildcardWhole, WrittenStays
  <2>3. WritingForgotten'
    <3> SUFFICES ASSUME NEW d \in Calls, calls'[d].pc = "writing", NEW o \in calls'[d].target
                 PROVE  promised'[calls'[d].kind][o] = Unknown
      BY DEF WritingForgotten, Writing
    <3>1. d # c /\ calls'[d] = calls[d]  BY <1>2
    <3>2. calls[d].kind \in Kinds /\ o \in Operations
      BY <3>1 DEF ControlTypeOK, ControlCall
    <3>3. ~(calls[d].kind = calls[c].kind /\ o \in calls[c].target)
      BY <1>1, <1>5, <3>1 DEF MeetingOverlapped, Writing
    <3> QED  BY <2>1, <3>1, <3>2, <3>3 DEF WritingForgotten, Writing
  <2> QED  BY <1>3, <2>2, <2>3
<1> QED  BY <1>4, <1>5

LEMMA ResetInv ==
  ASSUME ControlInv, ControlTypeOK', ResetSlots PROVE ControlInv'
<1> USE DEF ControlInv
<1>1. slots' = NoSlots
  BY DEF ResetSlots
<1>2. ASSUME NEW d \in Calls
      PROVE  /\ calls'[d].pc = calls[d].pc
             /\ calls'[d].kind = calls[d].kind
             /\ calls'[d].target = calls[d].target
             /\ calls'[d].todo = calls[d].todo
             /\ (calls[d].overlapped \/ calls[d].pc = "writing") => calls'[d].overlapped
  <2>1. calls'[d] = [calls[d] EXCEPT !.overlapped = @ \/ calls[d].pc = "writing"]
    BY DEF ResetSlots
  <2>2. calls[d] \in ControlCall  BY DEF ControlTypeOK
  <2> QED  BY <2>1, <2>2 DEF ControlCall
<1>3. \A k \in Kinds, o \in Operations :
        promised'[k][o] = IF \E c \in Calls : Meets(c, k, {o}) THEN Unknown ELSE None
  BY DEF ResetSlots
<1>4. TodoTargeted' /\ WrittenStays' /\ MeetingOverlapped'
  BY <1>2 DEF TodoTargeted, WrittenStays, MeetingOverlapped, Writing
<1>5. WritingForgotten'
  <2> SUFFICES ASSUME NEW d \in Calls, calls[d].pc = "writing", NEW o \in calls[d].target
               PROVE  promised'[calls[d].kind][o] = Unknown
    BY <1>2 DEF WritingForgotten, Writing
  <2>1. calls[d].kind \in Kinds /\ o \in Operations
    BY DEF ControlTypeOK, ControlCall
  <2>2. Meets(d, calls[d].kind, {o})  BY DEF Meets
  <2> QED  BY <1>3, <2>1, <2>2
<1>6. WildcardWhole'
  BY <1>1, <1>3 DEF WildcardWhole, NoSlots
<1> QED  BY <1>4, <1>5, <1>6

LEMMA StepInv ==
  ASSUME ControlInv, [ControlNext]_controlVars PROVE ControlInv'
<1> USE DEF Data
<1>0. ControlTypeOK'
  BY StepTypeOK DEF ControlInv
<1>1. ASSUME NEW c \in Calls, NEW target \in Targets, NEW value \in Overrides,
             Override(c, target, value)
      PROVE  ControlInv'
  <2>1. Begin(c, "override", target, value)  BY <1>1 DEF Override
  <2> QED  BY <1>0, <2>1, BeginInv, TargetsAssumption DEF Kinds
<1>2. ASSUME NEW c \in Calls, NEW value \in Overrides, Mutate(c, value)
      PROVE  ControlInv'
  BY <1>0, <1>2
  DEF Mutate, ControlInv, TodoTargeted, WritingForgotten, WrittenStays, MeetingOverlapped,
      WildcardWhole, Writing
<1>3. ASSUME NEW c \in Calls, NEW target \in Targets, NEW name \in Names, SetVariant(c, target, name)
      PROVE  ControlInv'
  <2>1. Begin(c, "variant", target, name)  BY <1>3 DEF SetVariant
  <2> QED  BY <1>0, <2>1, BeginInv, TargetsAssumption DEF Kinds
<1>4. ASSUME NEW c \in Calls, NEW kind \in Kinds, NEW target \in Targets \cup {Operations},
             ClearSlots(c, kind, target)
      PROVE  ControlInv'
  <2>1. Begin(c, kind, target, None)  BY <1>4 DEF ClearSlots
  <2> QED  BY <1>0, <2>1, BeginInv, TargetsAssumption
<1>5. CASE UNCHANGED controlVars
  BY <1>0, <1>5
  DEF controlVars, ControlInv, TodoTargeted, WritingForgotten, WrittenStays, MeetingOverlapped,
      WildcardWhole, Writing
<1> QED
  BY <1>0, <1>1, <1>2, <1>3, <1>4, <1>5, WriteInv, EndsInv, ReturnsInv, ResetInv DEF ControlNext

\* Once a control call has returned, and while no other overlapped it or came
\* after, every operation it means has what it was given.
THEOREM WildcardIsWhole == ControlSpec => []WildcardWhole
<1>1. ControlInit => ControlInv
  BY ControlInitInv
<1>2. ControlInv /\ [ControlNext]_controlVars => ControlInv'
  BY StepInv
<1>3. ControlInv => WildcardWhole
  BY DEF ControlInv
<1> QED  BY <1>1, <1>2, <1>3, PTL DEF ControlSpec

\* What is set of an override is an override: no call writes a variant's name there.
Owned ==
  /\ \A o \in Operations : slots["override"][o] \in Overrides \cup {None}
  /\ \A c \in Calls : Writing(c) /\ calls[c].kind = "override" => calls[c].value \in Overrides \cup {None}

LEMMA BeginOwned ==
  ASSUME ControlTypeOK, Owned, NEW c \in Calls, NEW kind, NEW target, NEW value,
         Begin(c, kind, target, value), kind = "override" => value \in Overrides \cup {None}
  PROVE  Owned'
<1>1. \A d \in Calls \ {c} : /\ calls'[d].pc = calls[d].pc /\ calls'[d].kind = calls[d].kind
                            /\ calls'[d].value = calls[d].value
  <2> TAKE d \in Calls \ {c}
  <2>1. calls'[d] = [calls[d] EXCEPT !.overlapped = @ \/ Meets(d, kind, target)] /\ calls[d] \in ControlCall
    BY DEF Begin, ControlTypeOK
  <2> QED  BY <2>1 DEF ControlCall
<1>2. calls'[c].kind = kind /\ calls'[c].value = value
  BY DEF Begin
<1> QED  BY <1>1, <1>2 DEF Begin, Owned, Writing

LEMMA ControlOwned ==
  ASSUME ControlTypeOK, Owned, [ControlNext]_controlVars PROVE Owned'
<1>1. ASSUME NEW c \in Calls, NEW target \in Targets, NEW value \in Overrides,
             Override(c, target, value)
      PROVE  Owned'
  BY <1>1, BeginOwned DEF Override
<1>2. ASSUME NEW c \in Calls, NEW value \in Overrides, RefuseOverride(c, value) \/ Mutate(c, value)
      PROVE  Owned'
  BY <1>2 DEF RefuseOverride, Mutate, NotWriting, Owned, Writing, ControlTypeOK
<1>3. ASSUME NEW c \in Calls, NEW target \in Targets, NEW name \in Names, SetVariant(c, target, name)
      PROVE  Owned'
  BY <1>3, BeginOwned DEF SetVariant
<1>4. ASSUME NEW c \in Calls, NEW kind \in Kinds, NEW target \in Targets \cup {Operations},
             ClearSlots(c, kind, target)
      PROVE  Owned'
  BY <1>4, BeginOwned DEF ClearSlots
<1>5. ASSUME NEW c \in Calls, WriteSlot(c) PROVE Owned'
  <2>1. PICK o \in calls[c].todo :
          /\ slots' = [slots EXCEPT ![calls[c].kind][o] = Written(c)]
          /\ calls' = [calls EXCEPT ![c].todo = @ \ {o}]
    BY <1>5 DEF WriteSlot
  <2>2. Writing(c) /\ calls[c].kind \in Kinds /\ o \in Operations
    BY <1>5 DEF WriteSlot, Writing, ControlTypeOK, ControlCall
  <2>3. \A p \in Operations :
          slots'["override"][p] = IF calls[c].kind = "override" /\ p = o THEN calls[c].value
                                  ELSE slots["override"][p]
    BY <2>1, <2>2 DEF ControlTypeOK, Slots, Written, Kinds
  <2>4. \A d \in Calls : /\ calls'[d].pc = calls[d].pc /\ calls'[d].kind = calls[d].kind
                        /\ calls'[d].value = calls[d].value
    BY <2>1 DEF ControlTypeOK, ControlCall
  <2> QED  BY <2>2, <2>3, <2>4 DEF Owned, Writing
<1>6. ASSUME NEW c \in Calls, WriteFails(c) \/ Returns(c) PROVE Owned'
  BY <1>6 DEF WriteFails, Returns, Ends, NotWriting, Owned, Writing, ControlTypeOK
<1>7. ASSUME ResetSlots PROVE Owned'
  <2>1. \A d \in Calls : /\ calls'[d].pc = calls[d].pc /\ calls'[d].kind = calls[d].kind
                        /\ calls'[d].value = calls[d].value
    <3> TAKE d \in Calls
    <3>1. /\ calls'[d] = [calls[d] EXCEPT !.overlapped = @ \/ calls[d].pc = "writing"]
          /\ calls[d] \in ControlCall
      BY <1>7 DEF ResetSlots, ControlTypeOK
    <3> QED  BY <3>1 DEF ControlCall
  <2> QED  BY <1>7, <2>1 DEF ResetSlots, NoSlots, Owned, Writing, Kinds
<1>8. CASE UNCHANGED controlVars
  BY <1>8 DEF controlVars, Owned, Writing
<1> QED  BY <1>1, <1>2, <1>3, <1>4, <1>5, <1>6, <1>7, <1>8 DEF ControlNext

(***************************************************************************)
(* First elements.                                                         *)
(***************************************************************************)
\* A finite set with a strict total order on it has a first element: or else
\* the number of elements below each, which tells them apart, is never zero.
Below(S, R, x) == {y \in S : <<y, x>> \in R}

Orders(S, R) ==
  /\ \A x \in S : <<x, x>> \notin R
  /\ \A x, y \in S : x # y => <<x, y>> \in R \/ <<y, x>> \in R
  /\ \A x, y, z \in S : <<x, y>> \in R /\ <<y, z>> \in R => <<x, z>> \in R

HasFirst(S, R) == \E m \in S : \A x \in S \ {m} : <<m, x>> \in R

LEMMA FirstOfOrder ==
  ASSUME NEW S, IsFiniteSet(S), S # {}, NEW R, Orders(S, R)
  PROVE  HasFirst(S, R)
<1> SUFFICES ASSUME \A m \in S : \E x \in S \ {m} : <<m, x>> \notin R PROVE FALSE
  BY DEF HasFirst
<1>0. /\ \A x \in S : <<x, x>> \notin R
      /\ \A x, y \in S : x # y => <<x, y>> \in R \/ <<y, x>> \in R
      /\ \A x, y, z \in S : <<x, y>> \in R /\ <<y, z>> \in R => <<x, z>> \in R
  BY DEF Orders
<1> DEFINE n == Cardinality(S)
           Rank == [x \in S |-> Cardinality(Below(S, R, x))]
<1>1. n \in Nat
  BY FS_CardinalityType
<1>2. \A x \in S : Below(S, R, x) # {}
  BY <1>0 DEF Below
<1>3. \A x \in S : Below(S, R, x) \subseteq S \ {x}
  BY <1>0 DEF Below
<1>4. \A x \in S : IsFiniteSet(S \ {x}) /\ Cardinality(S \ {x}) = n - 1
  BY FS_RemoveElement
<1>5. \A x \in S : IsFiniteSet(Below(S, R, x)) /\ Cardinality(Below(S, R, x)) \in 1..n - 1
  <2> TAKE x \in S
  <2>1. IsFiniteSet(Below(S, R, x)) /\ Cardinality(Below(S, R, x)) <= Cardinality(S \ {x})
    BY <1>3, <1>4, FS_Subset
  <2>2. Cardinality(Below(S, R, x)) \in Nat /\ Cardinality(Below(S, R, x)) # 0
    BY <2>1, <1>2, FS_CardinalityType, FS_EmptySet
  <2>3. Cardinality(Below(S, R, x)) <= n - 1
    BY <2>1, <1>4
  <2> HIDE DEF n
  <2> QED  BY <2>1, <2>2, <2>3, <1>1
<1>6. \A x, y \in S : <<x, y>> \in R => Cardinality(Below(S, R, x)) < Cardinality(Below(S, R, y))
  <2> SUFFICES ASSUME NEW x \in S, NEW y \in S, <<x, y>> \in R
               PROVE  Cardinality(Below(S, R, x)) < Cardinality(Below(S, R, y))
    OBVIOUS
  <2>1. Below(S, R, x) \subseteq Below(S, R, y)
    BY <1>0 DEF Below
  <2>2. x \in Below(S, R, y) /\ x \notin Below(S, R, x)
    BY <1>0 DEF Below
  <2>3. IsFiniteSet(Below(S, R, x)) /\ IsFiniteSet(Below(S, R, y))
    BY <1>5
  <2>4. Below(S, R, x) # Below(S, R, y)
    BY <2>2
  <2>5. /\ Cardinality(Below(S, R, x)) <= Cardinality(Below(S, R, y))
        /\ Cardinality(Below(S, R, x)) = Cardinality(Below(S, R, y)) => Below(S, R, x) = Below(S, R, y)
    BY <2>1, <2>3, FS_Subset
  <2>6. Cardinality(Below(S, R, x)) \in Nat /\ Cardinality(Below(S, R, y)) \in Nat
    BY <2>3, FS_CardinalityType
  <2> QED  BY <2>4, <2>5, <2>6
<1>7. Rank \in Injection(S, 1..n - 1)
  <2>1. Rank \in [S -> 1..n - 1]
    BY <1>5
  <2>2. \A x, y \in S : x # y => Rank[x] # Rank[y]
    <3> SUFFICES ASSUME NEW x \in S, NEW y \in S, x # y PROVE Rank[x] # Rank[y]
      OBVIOUS
    <3>1. Rank[x] = Cardinality(Below(S, R, x)) /\ Rank[y] = Cardinality(Below(S, R, y))
      OBVIOUS
    <3>2. Cardinality(Below(S, R, x)) \in Nat /\ Cardinality(Below(S, R, y)) \in Nat
      BY <1>5, FS_CardinalityType
    <3>3. \/ Cardinality(Below(S, R, x)) < Cardinality(Below(S, R, y))
          \/ Cardinality(Below(S, R, y)) < Cardinality(Below(S, R, x))
      BY <1>0, <1>6
    <3> HIDE DEF Rank
    <3> QED  BY <3>1, <3>2, <3>3
  <2> HIDE DEF Rank
  <2> QED  BY <2>1, <2>2 DEF Injection, IsInjective
<1>8. IsFiniteSet(1..n - 1) /\ Cardinality(1..n - 1) = n - 1
  <2>1. n # 0  BY FS_EmptySet
  <2>2. n - 1 >= 0 /\ 1 \in Int /\ n - 1 \in Int  BY <1>1, <2>1
  <2>3. IsFiniteSet(1..n-1) /\ Cardinality(1..n - 1) = IF 1 > n - 1 THEN 0 ELSE (n - 1) - 1 + 1
    BY <2>2, FS_Interval
  <2> HIDE DEF n
  <2> QED  BY <1>1, <2>2, <2>3
<1>9. n <= Cardinality(1..n - 1)
  <2> HIDE DEF Rank
  <2> QED BY <1>7, <1>8, FS_Injection
<1> HIDE DEF n
<1> QED  BY <1>1, <1>8, <1>9

Least(S) == CHOOSE i \in S : \A j \in S : i <= j

LEMMA LeastOf ==
  ASSUME NEW S \in SUBSET Nat, IsFiniteSet(S), S # {}
  PROVE  Least(S) \in S /\ \A j \in S : Least(S) <= j
<1> DEFINE R == {p \in S \X S : p[1] < p[2]}
<1>1. \A x, y \in S : <<x, y>> \in R <=> x < y
  <2> SUFFICES ASSUME NEW x \in S, NEW y \in S PROVE <<x, y>> \in R <=> x < y
    OBVIOUS
  <2> DEFINE p == <<x, y>>
  <2>1. p \in S \X S /\ p[1] = x /\ p[2] = y
    OBVIOUS
  <2> HIDE DEF p
  <2>2. p \in R <=> x < y
    BY <2>1 DEF R
  <2> QED  BY <2>2 DEF p
<1> HIDE DEF R
<1>2. \E m \in S : \A x \in S \ {m} : <<m, x>> \in R
  <2>1. \A x \in S : <<x, x>> \notin R  BY <1>1
  <2>2. \A x, y \in S : x # y => <<x, y>> \in R \/ <<y, x>> \in R  BY <1>1
  <2>3. \A x, y, z \in S : <<x, y>> \in R /\ <<y, z>> \in R => <<x, z>> \in R  BY <1>1
  <2>4. Orders(S, R)  BY <2>1, <2>2, <2>3 DEF Orders
  <2>5. HasFirst(S, R)  BY <2>4, FirstOfOrder
  <2> QED  BY <2>5 DEF HasFirst
<1>3. PICK m \in S : \A x \in S \ {m} : <<m, x>> \in R
  BY <1>2
<1>4. \A j \in S : m \in Nat /\ j \in Nat /\ (j # m => m < j)
  BY <1>1, <1>3
<1>5. \A j \in S : m <= j
  BY <1>4
<1>6. \E i \in S : \A j \in S : i <= j
  BY <1>5
<1> QED  BY <1>6 DEF Least

LEMMA IndicesFinite ==
  ASSUME NEW s, Sequence(s), NEW some \in SUBSET DOMAIN s
  PROVE  /\ Len(s) \in Nat /\ DOMAIN s = 1..Len(s)
         /\ IsFiniteSet(some) /\ some \subseteq Nat
<1>1. Len(s) \in Nat /\ DOMAIN s = 1..Len(s)
  BY DEF Sequence
<1>2. IsFiniteSet(DOMAIN s)
  BY <1>1, FS_Interval
<1> QED  BY <1>1, <1>2, FS_Subset

LEMMA IndexSet ==
  ASSUME NEW n \in Nat, NEW some \in SUBSET (1..n)
  PROVE  IsFiniteSet(some) /\ some \in SUBSET Nat
<1>1. IsFiniteSet(1..n)
  BY FS_Interval
<1>2. IsFiniteSet(some)
  BY <1>1, FS_Subset
<1>3. some \in SUBSET Nat
  OBVIOUS
<1> QED  BY <1>2, <1>3

(***************************************************************************)
(* Routing.                                                                *)
(***************************************************************************)
Segment == [value : STRING, dynamic : BOOLEAN]

Differ(a, b) == {n \in DOMAIN a : a[n].dynamic # b[n].dynamic}

LEMMA CompareMeans ==
  ASSUME NEW a \in Seq(Segment), NEW b \in Seq(Segment), Len(a) = Len(b)
  PROVE  /\ Differ(a, b) = {} => CompareScore(a, b) = 0
         /\ Differ(a, b) # {} =>
              /\ Least(Differ(a, b)) \in Differ(a, b)
              /\ \A m \in Differ(a, b) : Least(Differ(a, b)) <= m
              /\ CompareScore(a, b) = IF a[Least(Differ(a, b))].dynamic THEN 1 ELSE -1
<1> DEFINE length == IF Len(a) > Len(b) THEN Len(a) ELSE Len(b)
           scored == {i \in 1..length : Score(a, i) # Score(b, i)}
           first == Least(Differ(a, b))
<1>1. Len(a) \in Nat /\ length = Len(a) /\ DOMAIN a = 1..Len(a) /\ DOMAIN b = 1..Len(a)
  OBVIOUS
<1>2. \A n \in DOMAIN a : /\ a[n].dynamic \in BOOLEAN /\ b[n].dynamic \in BOOLEAN
                          /\ Score(a, n) = (IF a[n].dynamic THEN 1 ELSE 0)
                          /\ Score(b, n) = (IF b[n].dynamic THEN 1 ELSE 0)
  <2> TAKE n \in DOMAIN a
  <2>1. a[n] \in Segment /\ b[n] \in Segment /\ ~(n > Len(a)) /\ ~(n > Len(b))
    BY <1>1
  <2> QED  BY <2>1 DEF Score, Segment
<1>3. scored = Differ(a, b)
  BY <1>1, <1>2 DEF Differ
<1>4. CompareScore(a, b) = IF Differ(a, b) = {} THEN 0 ELSE Score(a, first) - Score(b, first)
  <2>1. CompareScore(a, b) = IF scored = {} THEN 0 ELSE Score(a, Least(scored)) - Score(b, Least(scored))
    BY DEF CompareScore, Least
  <2> HIDE DEF scored
  <2> QED  BY <1>3, <2>1
<1>5. IsFiniteSet(Differ(a, b)) /\ Differ(a, b) \in SUBSET Nat
  <2>1. IsFiniteSet(DOMAIN a)  BY <1>1, FS_Interval
  <2>2. DOMAIN a \subseteq Nat /\ Differ(a, b) \subseteq DOMAIN a  BY <1>1 DEF Differ
  <2> QED  BY <2>1, <2>2, FS_Subset
<1>6. Differ(a, b) # {} => first \in Differ(a, b) /\ \A m \in Differ(a, b) : first <= m
  BY <1>5, LeastOf
<1> HIDE DEF first
<1>7. ASSUME Differ(a, b) # {}
      PROVE  CompareScore(a, b) = IF a[first].dynamic THEN 1 ELSE -1
  <2>1. first \in DOMAIN a /\ a[first].dynamic # b[first].dynamic
    BY <1>6, <1>7 DEF Differ
  <2> QED  BY <1>2, <1>4, <1>7, <2>1
<1>8. Differ(a, b) = {} => CompareScore(a, b) = 0
  BY <1>4
<1> QED  BY <1>6, <1>7, <1>8 DEF first

\* One path before another, where they are of one length.
Ahead(a, b) ==
  \E n \in DOMAIN a : /\ ~a[n].dynamic /\ b[n].dynamic
                      /\ \A m \in DOMAIN a : m < n => a[m].dynamic = b[m].dynamic

LEMMA CompareAhead ==
  ASSUME NEW a \in Seq(Segment), NEW b \in Seq(Segment), Len(a) = Len(b)
  PROVE  /\ CompareScore(a, b) < 0 <=> Ahead(a, b)
         /\ CompareScore(a, b) = 0 <=> Differ(a, b) = {}
         /\ Differ(a, b) # {} => (Ahead(a, b) <=> ~a[Least(Differ(a, b))].dynamic)
<1> DEFINE first == Least(Differ(a, b))
<1>1. DOMAIN a = 1..Len(a) /\ DOMAIN b = 1..Len(a) /\ Len(a) \in Nat
  OBVIOUS
<1>2. \A n \in DOMAIN a : a[n].dynamic \in BOOLEAN /\ b[n].dynamic \in BOOLEAN
  <2> TAKE n \in DOMAIN a
  <2>1. a[n] \in Segment /\ b[n] \in Segment  BY <1>1
  <2> QED  BY <2>1 DEF Segment
<1>3. ASSUME Differ(a, b) = {}
      PROVE  CompareScore(a, b) = 0 /\ ~Ahead(a, b)
  BY <1>2, <1>3, CompareMeans DEF Differ, Ahead
<1>4. ASSUME Differ(a, b) # {}
      PROVE  /\ CompareScore(a, b) = IF a[first].dynamic THEN 1 ELSE -1
             /\ Ahead(a, b) <=> ~a[first].dynamic
             /\ a[first].dynamic \in BOOLEAN
  <2>1. /\ first \in DOMAIN a /\ a[first].dynamic # b[first].dynamic
        /\ \A m \in DOMAIN a : a[m].dynamic # b[m].dynamic => first <= m
        /\ CompareScore(a, b) = IF a[first].dynamic THEN 1 ELSE -1
    <3>1. /\ first \in Differ(a, b) /\ \A m \in Differ(a, b) : first <= m
          /\ CompareScore(a, b) = IF a[first].dynamic THEN 1 ELSE -1
      BY <1>4, CompareMeans
    <3> HIDE DEF first
    <3> QED  BY <3>1 DEF Differ
  <2> HIDE DEF first
  <2>2. \A m \in DOMAIN a : m < first => a[m].dynamic = b[m].dynamic
    BY <1>1, <2>1
  <2>3. \A n \in DOMAIN a :
          (a[n].dynamic # b[n].dynamic /\ \A m \in DOMAIN a : m < n => a[m].dynamic = b[m].dynamic)
            => n = first
    BY <1>1, <2>1
  <2>4. Ahead(a, b) <=> ~a[first].dynamic
    BY <1>2, <2>1, <2>2, <2>3 DEF Ahead
  <2> QED  BY <1>2, <2>1, <2>4
<1> HIDE DEF first
<1>5. CASE Differ(a, b) = {}  BY <1>3, <1>5
<1>6. CASE Differ(a, b) # {}  BY <1>4, <1>6 DEF first
<1> QED  BY <1>5, <1>6

LEMMA AheadOrders ==
  ASSUME NEW a \in Seq(Segment), NEW b \in Seq(Segment), NEW c \in Seq(Segment),
         Len(a) = Len(b), Len(b) = Len(c)
  PROVE  /\ Differ(a, b) # {} => (Ahead(a, b) <=> ~Ahead(b, a))
         /\ Ahead(a, b) => Differ(a, b) # {}
         /\ Differ(a, b) = {} => Differ(b, a) = {}
         /\ Ahead(a, b) /\ Ahead(b, c) => Ahead(a, c)
         /\ Ahead(a, b) /\ Differ(b, c) = {} => Ahead(a, c)
         /\ Differ(a, b) = {} /\ Ahead(b, c) => Ahead(a, c)
         /\ Differ(a, b) = {} /\ Differ(b, c) = {} => Differ(a, c) = {}
<1>1. DOMAIN a = 1..Len(a) /\ DOMAIN b = 1..Len(a) /\ DOMAIN c = 1..Len(a) /\ Len(a) \in Nat
  OBVIOUS
<1>2. \A n \in 1..Len(a) :
        a[n].dynamic \in BOOLEAN /\ b[n].dynamic \in BOOLEAN /\ c[n].dynamic \in BOOLEAN
  <2> TAKE n \in 1..Len(a)
  <2>1. a[n] \in Segment /\ b[n] \in Segment /\ c[n] \in Segment  BY <1>1
  <2> QED  BY <2>1 DEF Segment
<1>3. Ahead(a, b) /\ Ahead(b, c) => Ahead(a, c)
  <2> SUFFICES ASSUME NEW n \in 1..Len(a), ~a[n].dynamic, b[n].dynamic,
                      \A m \in 1..Len(a) : m < n => a[m].dynamic = b[m].dynamic,
                      NEW k \in 1..Len(a), ~b[k].dynamic, c[k].dynamic,
                      \A m \in 1..Len(a) : m < k => b[m].dynamic = c[m].dynamic
               PROVE  Ahead(a, c)
    BY <1>1 DEF Ahead
  <2>1. CASE n <= k
    <3>1. n # k
      <4> SUFFICES ASSUME n = k PROVE FALSE
        OBVIOUS
      <4>1. b[n].dynamic /\ ~b[n].dynamic  OBVIOUS
      <4> QED  BY <4>1
    <3>2. c[n].dynamic /\ \A m \in 1..Len(a) : m < n => a[m].dynamic = c[m].dynamic
      BY <2>1, <3>1
    <3> QED  BY <1>1, <3>2 DEF Ahead
  <2>2. CASE k < n
    <3>1. ~a[k].dynamic /\ \A m \in 1..Len(a) : m < k => a[m].dynamic = c[m].dynamic
      BY <2>2
    <3> QED  BY <1>1, <3>1 DEF Ahead
  <2> QED  BY <2>1, <2>2
<1>4. Differ(a, b) # {} => (Ahead(a, b) <=> ~Ahead(b, a))
  <2> SUFFICES ASSUME Differ(a, b) # {} PROVE Ahead(a, b) <=> ~Ahead(b, a)
    OBVIOUS
  <2>1. Differ(b, a) = Differ(a, b)
    BY <1>1 DEF Differ
  <2>2. Least(Differ(a, b)) \in Differ(a, b)
    BY CompareMeans
  <2>3. (Ahead(a, b) <=> ~a[Least(Differ(a, b))].dynamic) /\ (Ahead(b, a) <=> ~b[Least(Differ(a, b))].dynamic)
    BY <2>1, CompareAhead
  <2> QED  BY <1>1, <1>2, <2>2, <2>3 DEF Differ
<1>5. Ahead(a, b) => Differ(a, b) # {}
  BY <1>1, <1>2 DEF Ahead, Differ
<1>6. /\ Differ(a, b) = {} => Differ(b, a) = {}
      /\ Ahead(a, b) /\ Differ(b, c) = {} => Ahead(a, c)
      /\ Differ(a, b) = {} /\ Ahead(b, c) => Ahead(a, c)
      /\ Differ(a, b) = {} /\ Differ(b, c) = {} => Differ(a, c) = {}
  BY <1>1, <1>2 DEF Ahead, Differ
<1> QED  BY <1>3, <1>4, <1>5, <1>6

LEMMA BeforeOrders ==
  ASSUME NEW ops, NEW here \in SUBSET Nat, NEW n \in Nat,
         \A i \in here : ops[i].path \in Seq(Segment) /\ Len(ops[i].path) = n
  PROVE  Orders(here, {p \in here \X here : Before(ops, p[1], p[2])})
<1> DEFINE R == {p \in here \X here : Before(ops, p[1], p[2])}
           Path(i) == ops[i].path
<1>1. \A x, y \in here : <<x, y>> \in R <=> Before(ops, x, y)
  <2> SUFFICES ASSUME NEW x \in here, NEW y \in here PROVE <<x, y>> \in R <=> Before(ops, x, y)
    OBVIOUS
  <2> DEFINE p == <<x, y>>
  <2>1. p \in here \X here /\ p[1] = x /\ p[2] = y
    OBVIOUS
  <2> HIDE DEF p
  <2>2. p \in R <=> Before(ops, x, y)
    BY <2>1
  <2> QED  BY <2>2 DEF p
<1> HIDE DEF R
<1>2. \A x, y \in here :
        Before(ops, x, y) <=> (Ahead(Path(x), Path(y)) \/ (Differ(Path(x), Path(y)) = {} /\ x < y))
  <2> SUFFICES ASSUME NEW x \in here, NEW y \in here
               PROVE  Before(ops, x, y)
                        <=> (Ahead(Path(x), Path(y)) \/ (Differ(Path(x), Path(y)) = {} /\ x < y))
    OBVIOUS
  <2>1. /\ CompareScore(Path(x), Path(y)) < 0 <=> Ahead(Path(x), Path(y))
        /\ CompareScore(Path(x), Path(y)) = 0 <=> Differ(Path(x), Path(y)) = {}
    BY CompareAhead
  <2> QED  BY <2>1 DEF Before
<1>3. \A x \in here : Differ(Path(x), Path(x)) = {} /\ ~Ahead(Path(x), Path(x))
  <2>1. \A x \in here : Differ(Path(x), Path(x)) = {}
    BY DEF Differ
  <2> HIDE DEF Path
  <2> QED  BY <2>1, AheadOrders DEF Path
<1>4. \A x, y \in here :
        /\ Differ(Path(x), Path(y)) # {} => (Ahead(Path(x), Path(y)) <=> ~Ahead(Path(y), Path(x)))
        /\ Ahead(Path(x), Path(y)) => Differ(Path(x), Path(y)) # {}
        /\ Differ(Path(x), Path(y)) = {} => Differ(Path(y), Path(x)) = {}
  BY AheadOrders
<1>5. \A x, y, z \in here :
        /\ Ahead(Path(x), Path(y)) /\ Ahead(Path(y), Path(z)) => Ahead(Path(x), Path(z))
        /\ Ahead(Path(x), Path(y)) /\ Differ(Path(y), Path(z)) = {} => Ahead(Path(x), Path(z))
        /\ Differ(Path(x), Path(y)) = {} /\ Ahead(Path(y), Path(z)) => Ahead(Path(x), Path(z))
        /\ Differ(Path(x), Path(y)) = {} /\ Differ(Path(y), Path(z)) = {} => Differ(Path(x), Path(z)) = {}
  BY AheadOrders
<1> HIDE DEF Path
<1>6. \A x \in here : <<x, x>> \notin R
  BY <1>1, <1>2, <1>3
<1>7. \A x, y \in here : x # y => <<x, y>> \in R \/ <<y, x>> \in R
  BY <1>1, <1>2, <1>4
<1>8. \A x, y, z \in here : <<x, y>> \in R /\ <<y, z>> \in R => <<x, z>> \in R
  <2>1. \A x, y, z \in here : Before(ops, x, y) /\ Before(ops, y, z) => Before(ops, x, z)
    <3> SUFFICES ASSUME NEW x \in here, NEW y \in here, NEW z \in here,
                        Before(ops, x, y), Before(ops, y, z)
                 PROVE  Before(ops, x, z)
      OBVIOUS
    <3>1. (x < y /\ y < z) => x < z
      OBVIOUS
    <3> QED  BY <1>2, <1>5, <3>1
  <2> QED  BY <1>1, <2>1
<1>9. Orders(here, R)
  BY <1>6, <1>7, <1>8 DEF Orders
<1> QED  BY <1>9 DEF R

\* The operation that is matched is before every other that would do.
LEMMA MatchFirst ==
  ASSUME NEW ops, Sequence(ops), \A o \in DOMAIN ops : Loaded(ops[o]), NEW method, NEW parts,
         NEW here, here = {i \in DOMAIN ops : ops[i].method = method /\ MatchSegments(ops[i].path, parts)}
  PROVE  /\ here = {} => Match(ops, method, parts) = 0
         /\ here # {} => /\ Match(ops, method, parts) \in here
                         /\ \A i \in here \ {Match(ops, method, parts)} :
                              Before(ops, Match(ops, method, parts), i)
<1> DEFINE R == {p \in here \X here : Before(ops, p[1], p[2])}
           matched == CHOOSE i \in here : \A j \in here \ {i} : Before(ops, i, j)
<1>1. Match(ops, method, parts) = IF here = {} THEN 0 ELSE matched
  BY DEF Match, FirstRoute
<1>2. ASSUME here # {}
      PROVE  matched \in here /\ \A i \in here \ {matched} : Before(ops, matched, i)
  <2>1. here \in SUBSET DOMAIN ops
    OBVIOUS
  <2>2. IsFiniteSet(here) /\ here \in SUBSET Nat
    BY <2>1, IndicesFinite
  <2>3. PICK first \in here : TRUE
    BY <1>2
  <2>4. \A i \in here : ops[i].path \in Seq(Segment) /\ Len(ops[i].path) = Len(ops[first].path)
    BY <2>1, <2>3 DEF Loaded, Segment, MatchSegments
  <2>5. Len(ops[first].path) \in Nat
    BY <2>4
  <2>6. Orders(here, R)
    BY <2>2, <2>4, <2>5, BeforeOrders
  <2> HIDE DEF R
  <2>7. HasFirst(here, R)
    BY <1>2, <2>2, <2>6, FirstOfOrder
  <2>8. PICK m \in here : \A x \in here \ {m} : <<m, x>> \in R
    BY <2>7 DEF HasFirst
  <2>9. \A x \in here : <<m, x>> \in R => Before(ops, m, x)
    <3> SUFFICES ASSUME NEW x \in here, <<m, x>> \in R PROVE Before(ops, m, x)
      OBVIOUS
    <3> DEFINE p == <<m, x>>
    <3>1. p[1] = m /\ p[2] = x /\ p \in R
      OBVIOUS
    <3> HIDE DEF p
    <3> QED  BY <3>1 DEF R
  <2>10. \E i \in here : \A j \in here \ {i} : Before(ops, i, j)
    BY <2>8, <2>9
  <2> QED  BY <2>10
<1> HIDE DEF matched, R
<1> QED  BY <1>1, <1>2

LEMMA BetterIsBefore ==
  ASSUME NEW i \in DOMAIN Case.operations, NEW j \in DOMAIN Case.operations,
         Case.operations[i].path \in Seq(Segment), Case.operations[j].path \in Seq(Segment),
         Len(Case.operations[i].path) = Len(Case.operations[j].path),
         Before(Case.operations, i, j)
  PROVE  BetterFit(i, j)
<1> DEFINE a == Case.operations[i].path
           b == Case.operations[j].path
<1>1. BetterFit(i, j) = IF Differ(a, b) = {} THEN i < j ELSE ~a[Least(Differ(a, b))].dynamic
  BY DEF BetterFit, Differ, Least
<1>2. CompareScore(a, b) < 0 \/ (CompareScore(a, b) = 0 /\ i < j)
  BY DEF Before
<1>3. /\ CompareScore(a, b) < 0 <=> Ahead(a, b)
      /\ CompareScore(a, b) = 0 <=> Differ(a, b) = {}
      /\ Differ(a, b) # {} => (Ahead(a, b) <=> ~a[Least(Differ(a, b))].dynamic)
      /\ Ahead(a, b) => Differ(a, b) # {}
  BY CompareAhead, AheadOrders
<1> HIDE DEF a, b
<1> QED  BY <1>1, <1>2, <1>3

(***************************************************************************)
(* Authentication.                                                         *)
(***************************************************************************)
Outcome == [ok : BOOLEAN, throws : BOOLEAN, given : BOOLEAN, status : 200..599]
Told(outcome) ==
  outcome \in Outcome /\ (~outcome.ok /\ ~outcome.throws /\ ~outcome.given => outcome.status \in {401, 403})

SecurityEntry == [scheme : STRING, scopes : SUBSET STRING]
Attested(schemes, verify, carried) ==
  \A scheme \in DOMAIN verify \cap DOMAIN schemes :
    LET credential == CredentialFor(schemes[scheme], carried)
    IN credential # "" => verify[scheme][credential] \in Verdicts

LEMMA OutcomesTold ==
  /\ Told(Admitted) /\ Admitted.ok
  /\ Told(Denied(401)) /\ ~Denied(401).ok
  /\ Told(Denied(403)) /\ ~Denied(403).ok
  /\ Told(Thrown) /\ ~Thrown.ok
  /\ \A status \in 200..599 : Told(OwnResponse(status)) /\ ~OwnResponse(status).ok
<1>1. Admitted \in Outcome /\ Admitted.ok /\ ~Admitted.throws /\ ~Admitted.given
  BY DEF Admitted, Outcome
<1>2. \A s \in 200..599 : /\ Denied(s) \in Outcome /\ Denied(s).status = s
                         /\ ~Denied(s).ok /\ ~Denied(s).throws /\ ~Denied(s).given
  BY ZenonT(60), <1>1 DEF Denied, Outcome
<1>3. \A o \in Outcome :
        /\ [o EXCEPT !.given = TRUE] \in Outcome /\ [o EXCEPT !.given = TRUE].given
        /\ [o EXCEPT !.given = TRUE].ok = o.ok
        /\ [o EXCEPT !.throws = TRUE] \in Outcome /\ [o EXCEPT !.throws = TRUE].throws
        /\ [o EXCEPT !.throws = TRUE].ok = o.ok
  BY ZenonT(60) DEF Outcome
<1>4. \A s \in 200..599 : OwnResponse(s) \in Outcome /\ ~OwnResponse(s).ok /\ OwnResponse(s).given
  BY <1>2, <1>3 DEF OwnResponse
<1>5. Thrown \in Outcome /\ ~Thrown.ok /\ Thrown.throws
  <2> DEFINE denied == Denied(500)
  <2>1. denied \in Outcome /\ ~denied.ok
    <3>1. 500 \in 200..599
      OBVIOUS
    <3> QED  BY <1>2, <3>1
  <2>2. Thrown = [denied EXCEPT !.throws = TRUE]
    BY DEF Thrown
  <2> HIDE DEF denied
  <2> QED  BY <1>3, <2>1, <2>2
<1>6. Told(Denied(401)) /\ Told(Denied(403)) /\ ~Denied(401).ok /\ ~Denied(403).ok
  <2>1. 401 \in 200..599 /\ 403 \in 200..599
    OBVIOUS
  <2>2. /\ Denied(401) \in Outcome /\ Denied(401).status = 401 /\ ~Denied(401).ok
        /\ Denied(403) \in Outcome /\ Denied(403).status = 403 /\ ~Denied(403).ok
    BY <1>2, <2>1
  <2> QED  BY <2>2 DEF Told
<1>7. Told(Admitted) /\ Told(Thrown) /\ \A s \in 200..599 : Told(OwnResponse(s))
  BY ZenonT(60), <1>1, <1>4, <1>5 DEF Told
<1> QED  BY ZenonT(60), <1>1, <1>4, <1>5, <1>6, <1>7

LEMMA SchemeMeans ==
  ASSUME NEW entry, NEW schemes, NEW verify, NEW carried, Attested(schemes, verify, carried)
  PROVE  /\ Told(CheckScheme(entry, schemes, verify, carried))
         /\ CheckScheme(entry, schemes, verify, carried).ok <=> Satisfied(entry, schemes, verify, carried)
<1> DEFINE credential == CredentialFor(schemes[entry.scheme], carried)
           answer == verify[entry.scheme][credential]
           outcome == CheckScheme(entry, schemes, verify, carried)
<1>1. CASE entry.scheme \notin DOMAIN schemes
  BY <1>1, OutcomesTold DEF CheckScheme, Satisfied
<1>2. CASE entry.scheme \in DOMAIN schemes /\ schemes[entry.scheme].type \notin KnownTypes
  BY <1>2, OutcomesTold DEF CheckScheme, Satisfied
<1>3. CASE /\ entry.scheme \in DOMAIN schemes /\ schemes[entry.scheme].type \in KnownTypes
           /\ credential = ""
  BY <1>3, OutcomesTold DEF CheckScheme, Satisfied
<1>4. CASE /\ entry.scheme \in DOMAIN schemes /\ schemes[entry.scheme].type \in KnownTypes
           /\ credential # "" /\ entry.scheme \notin DOMAIN verify
  BY <1>4, OutcomesTold DEF CheckScheme, Satisfied
<1>5. CASE /\ entry.scheme \in DOMAIN schemes /\ schemes[entry.scheme].type \in KnownTypes
           /\ credential # "" /\ entry.scheme \in DOMAIN verify
  <2>1. outcome = Verified(answer, entry.scopes)
    BY <1>5 DEF CheckScheme
  <2>2. Satisfied(entry, schemes, verify, carried)
          <=> answer.says = "principal" /\ entry.scopes \subseteq answer.scopes
    BY <1>5 DEF Satisfied
  <2>3. answer \in Verdicts
    BY <1>5 DEF Attested
  <2> HIDE DEF answer, outcome
  <2>4. CASE answer.says = "throws"
    <3>1. outcome = Thrown
      BY <2>1, <2>4 DEF Verified
    <3> QED  BY <2>2, <2>4, <3>1, OutcomesTold DEF outcome
  <2>5. CASE answer.says = "response"
    <3>1. answer.status \in 200..599
      BY <2>3, <2>5 DEF Verdicts
    <3>2. Told(OwnResponse(answer.status)) /\ ~OwnResponse(answer.status).ok
      BY <3>1, OutcomesTold
    <3>3. outcome = OwnResponse(answer.status)
      BY <2>1, <2>5 DEF Verified
    <3> QED  BY <2>2, <2>5, <3>2, <3>3 DEF outcome
  <2>6. CASE answer.says = "principal"
    <3>1. outcome = IF entry.scopes \subseteq answer.scopes THEN Admitted ELSE Denied(403)
      BY <2>1, <2>6 DEF Verified
    <3>2. Told(Admitted) /\ Admitted.ok /\ Told(Denied(403)) /\ ~Denied(403).ok
      BY OutcomesTold
    <3>3. Told(outcome) /\ (outcome.ok <=> entry.scopes \subseteq answer.scopes)
      BY <3>1, <3>2
    <3> QED  BY <2>2, <2>6, <3>3 DEF outcome
  <2>7. answer.says \in {"principal", "response", "throws"}
    BY <2>3 DEF Verdicts
  <2> QED  BY <2>4, <2>5, <2>6, <2>7 DEF outcome
<1> QED  BY <1>1, <1>2, <1>3, <1>4, <1>5

LEMMA RequirementMeans ==
  ASSUME NEW requirement \in Seq(SecurityEntry), NEW schemes, NEW verify, NEW carried,
         Attested(schemes, verify, carried)
  PROVE  /\ Told(CheckRequirement(requirement, schemes, verify, carried))
         /\ CheckRequirement(requirement, schemes, verify, carried).ok
              <=> \A j \in DOMAIN requirement : Satisfied(requirement[j], schemes, verify, carried)
<1> DEFINE Check(j) == CheckScheme(requirement[j], schemes, verify, carried)
           outcomes == [j \in DOMAIN requirement |-> Check(j)]
           failing == {j \in DOMAIN requirement : ~outcomes[j].ok}
<1>1. CheckRequirement(requirement, schemes, verify, carried)
        = IF failing = {} THEN Admitted ELSE outcomes[Least(failing)]
  BY DEF CheckRequirement, First, Least
<1>2. \A j \in DOMAIN requirement :
        /\ outcomes[j] = Check(j) /\ Told(Check(j))
        /\ Check(j).ok <=> Satisfied(requirement[j], schemes, verify, carried)
  BY SchemeMeans
<1>3. failing # {} => Least(failing) \in failing
  <2>1. failing \in SUBSET DOMAIN requirement /\ DOMAIN requirement = 1..Len(requirement)
          /\ Len(requirement) \in Nat
    OBVIOUS
  <2> HIDE DEF failing
  <2>2. IsFiniteSet(failing) /\ failing \in SUBSET Nat
    BY <2>1, IndexSet
  <2> QED  BY <2>2, LeastOf
<1>4. CASE failing = {}
  <2>1. \A j \in DOMAIN requirement : outcomes[j].ok
    BY <1>4
  <2>2. CheckRequirement(requirement, schemes, verify, carried) = Admitted
    BY <1>1, <1>4
  <2>3. \A j \in DOMAIN requirement : Satisfied(requirement[j], schemes, verify, carried)
    BY <1>2, <2>1
  <2> QED  BY <2>2, <2>3, OutcomesTold
<1>5. CASE failing # {}
  <2>1. Least(failing) \in DOMAIN requirement /\ ~outcomes[Least(failing)].ok
    BY <1>3, <1>5
  <2> HIDE DEF outcomes, failing, Check
  <2> QED  BY <1>1, <1>2, <1>5, <2>1
<1> QED  BY <1>4, <1>5

LEMMA AuthMeans ==
  ASSUME NEW security \in Seq(Seq(SecurityEntry)), NEW schemes, NEW verify, NEW carried,
         Attested(schemes, verify, carried),
         NEW outcome, outcome = CheckAuth(security, schemes, verify, carried)
  PROVE  /\ Told(outcome)
         /\ outcome.ok => Entitled(security, schemes, verify, carried)
         /\ ~outcome.ok /\ ~outcome.throws => ~Entitled(security, schemes, verify, carried)
<1> DEFINE Check(i) == CheckRequirement(security[i], schemes, verify, carried)
           Met(i) == \A j \in DOMAIN security[i] : Satisfied(security[i][j], schemes, verify, carried)
           outcomes == [i \in DOMAIN security |-> Check(i)]
           ending == {i \in DOMAIN outcomes : outcomes[i].ok \/ outcomes[i].throws}
<1>1. outcome = CASE DOMAIN outcomes = {} -> Admitted
                  [] DOMAIN outcomes # {} /\ ending = {} -> outcomes[1]
                  [] OTHER -> outcomes[Least(ending)]
  BY DEF CheckAuth, FirstEnding, First, Least
<1>2. DOMAIN outcomes = DOMAIN security /\ DOMAIN security = 1..Len(security) /\ Len(security) \in Nat
  OBVIOUS
<1>3. \A i \in DOMAIN security :
        outcomes[i] = Check(i) /\ Told(Check(i)) /\ (Check(i).ok <=> Met(i))
  BY RequirementMeans
<1>4. Entitled(security, schemes, verify, carried)
        <=> DOMAIN security = {} \/ \E i \in DOMAIN security : Met(i)
  BY DEF Entitled
<1>5. ending # {} => Least(ending) \in ending
  <2>1. ending \in SUBSET DOMAIN security
    BY <1>2
  <2> HIDE DEF ending
  <2>2. IsFiniteSet(ending) /\ ending \in SUBSET Nat
    BY <1>2, <2>1, IndexSet
  <2> QED  BY <2>2, LeastOf
<1>6. /\ ending # {} => /\ Least(ending) \in DOMAIN security
                        /\ outcomes[Least(ending)].ok \/ outcomes[Least(ending)].throws
      /\ ending = {} => \A i \in DOMAIN security : ~outcomes[i].ok
  BY <1>2, <1>5
<1> HIDE DEF outcomes, ending, Check, Met
<1>7. CASE DOMAIN security = {}
  BY ZenonT(60), <1>1, <1>2, <1>4, <1>7, OutcomesTold
<1>8. CASE DOMAIN security # {} /\ ending = {}
  <2>1. 1 \in DOMAIN security
    BY <1>2, <1>8
  <2>2. outcome = outcomes[1]
    BY <1>1, <1>2, <1>8
  <2>3. ~outcome.ok /\ Told(outcome) /\ \A i \in DOMAIN security : ~Met(i)
    BY <1>3, <1>6, <1>8, <2>1, <2>2
  <2> QED  BY <1>4, <1>8, <2>3
<1>9. CASE DOMAIN security # {} /\ ending # {}
  <2>1. outcome = outcomes[Least(ending)]
    BY <1>1, <1>2, <1>9
  <2> QED  BY <1>3, <1>4, <1>6, <1>9, <2>1
<1> QED  BY <1>7, <1>8, <1>9

(***************************************************************************)
(* What is so of a request, of a case c, at every stage: q is request[r].  *)
(***************************************************************************)
Asked(c, q) == c.inputs[q.input]
Fits(c, q) == {i \in DOMAIN c.operations : MatchSegments(c.operations[i].path, Asked(c, q).parts)}
Meant(c, q) == {i \in Fits(c, q) : c.operations[i].method = Asked(c, q).method}

\* It is entitled to the operation it was given to.
Due(c, q) == Entitled(c.operations[q.op].security, c.schemes, c.verify, Asked(c, q).carried)

FoundFirst(c, q) ==
  IF q.op # 0 THEN q.op \in Meant(c, q) /\ \A i \in Meant(c, q) \ {q.op} : Before(c.operations, q.op, i)
  ELSE Meant(c, q) = {} /\ q.failure[1].status = IF Fits(c, q) = {} THEN 404 ELSE 405

Underway == {"routed", "overridden", "reading", "parsed"} \cup Inside

Placed(c, q) ==
  /\ q.pc \in Stages
  /\ q.pc = "new" => q.input = 0 /\ q.op = 0
  /\ q.pc # "new" => q.input \in DOMAIN c.inputs /\ q.op \in 0..Len(c.operations) /\ FoundFirst(c, q)
  /\ q.op = 0 => q.pc \in {"new", "failing", "answered"}
  /\ q.runtime \in Overrides \cup {None}
  /\ q.pc \in Inside => Due(c, q)

Refusable(c, q, by, status) ==
  /\ by \in {"route", "body", "auth", "validation", "stage", "select"}
  /\ by \in {"route", "body", "auth"} => status \in 400..499
  /\ q.op # 0 => (by \in {"validation", "stage", "select"} => Due(c, q)) /\ (by = "auth" => ~Due(c, q))

Failed(c, q) == q.pc = "failing" => Refusable(c, q, q.failure[1].by, q.failure[1].status)

Selected(q) ==
  /\ q.pc \in {"selected", "fixed", "recalled"} => q.response # <<>>
  /\ q.response # <<>> =>
       /\ q.pc \in {"selected", "fixed", "recalled", "answered"}
       /\ q.response[1].range => q.response[1].status \in {200, 300, 400, 500}

Answerable(c, q, answer) ==
  /\ answer.status \in 200..599
  /\ answer.by = "internal" /\ q.response # <<>> => ~q.response[1].range
  /\ q.op # 0 =>
       /\ answer.by \in {"validation", "stage", "respond", "select", "render", "internal"} => Due(c, q)
       /\ answer.by = "auth" => ~Due(c, q)

Replied(c, q) ==
  /\ q.pc # "answered" => q.answer = <<>>
  /\ q.pc = "answered" => Len(q.answer) = 1 /\ Answerable(c, q, q.answer[1])

Sound(c, q) == Placed(c, q) /\ Failed(c, q) /\ Selected(q) /\ Replied(c, q)

\* The next stage of a request that goes on.
LEMMA GoesOn ==
  ASSUME NEW c, NEW q, NEW p, Sound(c, q), q.pc \in Underway, p.pc \in Underway,
         p.input = q.input, p.op = q.op, p.answer = q.answer, p.runtime \in Overrides \cup {None},
         p.pc \in Inside => Due(c, q), Selected(p)
  PROVE  Sound(c, p)
<1>1. q.op # 0 /\ q.pc \notin {"new", "failing", "answered"}
  BY DEF Sound, Placed, Underway, Inside
<1>2. p.op # 0 /\ p.pc \notin {"new", "failing", "answered"} /\ p.pc \in Stages
  BY <1>1 DEF Underway, Inside, Stages
<1>3. FoundFirst(c, p) <=> FoundFirst(c, q)
  BY <1>1 DEF FoundFirst, Meant, Fits, Asked
<1>4. Due(c, p) <=> Due(c, q)
  BY DEF Due, Asked
<1>5. Placed(c, p)
  BY <1>1, <1>2, <1>3, <1>4 DEF Sound, Placed
<1>6. Replied(c, p) /\ Failed(c, p)
  BY <1>1, <1>2 DEF Sound, Replied, Failed
<1> QED  BY <1>5, <1>6 DEF Sound

LEMMA Fails ==
  ASSUME NEW c, NEW q, NEW p, Sound(c, q), q.pc \in Underway, p.pc = "failing",
         NEW by, NEW status, p.failure = <<[by |-> by, status |-> status]>>,
         p.input = q.input, p.op = q.op, p.answer = q.answer, p.runtime = q.runtime,
         p.response = q.response, q.response = <<>>, Refusable(c, q, by, status)
  PROVE  Sound(c, p)
<1>1. q.op # 0 /\ q.pc \notin {"new", "failing", "answered"}
  BY DEF Sound, Placed, Underway, Inside
<1>2. p.op # 0 /\ p.pc \in Stages /\ p.pc \notin Inside
  BY <1>1 DEF Inside, Stages
<1>3. FoundFirst(c, p) <=> FoundFirst(c, q)
  BY <1>1 DEF FoundFirst, Meant, Fits, Asked
<1>4. Due(c, p) <=> Due(c, q)
  BY DEF Due, Asked
<1>5. Placed(c, p)
  BY <1>1, <1>2, <1>3 DEF Sound, Placed
<1>6. Replied(c, p) /\ Selected(p)
  BY <1>1 DEF Sound, Replied, Selected
<1>7. Refusable(c, p, by, status)
  BY <1>4 DEF Refusable
<1>8. p.failure[1].by = by /\ p.failure[1].status = status
  OBVIOUS
<1>9. Failed(c, p)
  BY <1>7, <1>8 DEF Failed
<1> QED  BY <1>5, <1>6, <1>9 DEF Sound

LEMMA Replies ==
  ASSUME NEW c, NEW q, NEW p, Sound(c, q), q.pc \in Underway \cup {"failing"}, p.pc = "answered",
         NEW answer, p.answer = <<answer>>,
         p.input = q.input, p.op = q.op, p.runtime = q.runtime, p.failure = q.failure,
         p.response = q.response, Answerable(c, q, answer)
  PROVE  Sound(c, p)
<1>1. q.pc \notin {"new", "answered"}
  BY DEF Underway, Inside
<1>2. p.pc \in Stages /\ p.pc \notin Inside
  BY DEF Inside, Stages
<1>3. FoundFirst(c, p) <=> FoundFirst(c, q)
  BY DEF FoundFirst, Meant, Fits, Asked
<1>4. Due(c, p) <=> Due(c, q)
  BY DEF Due, Asked
<1>5. Placed(c, p)
  BY <1>1, <1>2, <1>3 DEF Sound, Placed
<1>6. Failed(c, p) /\ Selected(p)
  BY <1>1 DEF Sound, Failed, Selected
<1>7. Replied(c, p)
  BY <1>4 DEF Replied, Answerable
<1> QED  BY <1>5, <1>6, <1>7 DEF Sound

(***************************************************************************)
(* What the parts that are asked answer.                                   *)
(***************************************************************************)
LEMMA ParsedStatus ==
  ASSUME NEW body, NEW operation PROVE ParseBody(body, operation).status \in {0, 400, 415}
BY DEF ParseBody

\* What goes out is what was made, or a 500 in place of what cannot be sent.
LEMMA SentMeans ==
  ASSUME NEW answer
  PROVE  /\ Sent(answer).status \in 200..599
         /\ \/ Sent(answer) = answer
            \/ /\ Sent(answer).by = "internal"
               /\ answer.status \notin 200..599 \/ answer.status \in {204, 205, 304}
<1>1. 500 \in 200..599
  OBVIOUS
<1> QED  BY <1>1 DEF Sent, CannotSend, InternalError, Reply

LEMMA FirstAmongMeans ==
  ASSUME NEW responses, Sequence(responses), NEW some \in SUBSET DOMAIN responses
  PROVE  /\ some = {} => FirstAmong(responses, some) = <<>>
         /\ some # {} => \E i \in some : FirstAmong(responses, some) = <<responses[i]>>
<1>1. IsFiniteSet(some) /\ some \in SUBSET Nat
  BY IndicesFinite
<1>2. some # {} => Least(some) \in some
  BY <1>1, LeastOf
<1> QED  BY <1>2 DEF FirstAmong, Least

\* What is selected can be served, and a range of it has a status that can.
LEMMA SelectedServable ==
  ASSUME NEW operation, Loaded(operation), NEW preferred, NEW static,
         NEW selected, selected = SelectResponse(operation, preferred, static), selected # <<>>
  PROVE  selected[1].range => selected[1].status \in {200, 300, 400, 500}
<1> DEFINE responses == operation.responses
           servable == {i \in DOMAIN responses : Servable(responses[i])}
           OfStatus(status) == FirstAmong(responses, {i \in servable : responses[i].status = status})
           successes == {i \in servable : responses[i].status \in 200..299}
           fallback == [i \in DOMAIN operation.default |->
                          [status |-> 200, range |-> FALSE, media |-> operation.default[i]]]
           Good(found) == found # <<>> => (found[1].range => found[1].status \in {200, 300, 400, 500})
<1>1. selected = Otherwise(OfStatus(preferred), Otherwise(OfStatus(static),
                   Otherwise(FirstAmong(responses, successes),
                   Otherwise(FirstAmong(responses, servable), fallback))))
  BY DEF SelectResponse
<1>2. ASSUME NEW some \in SUBSET servable PROVE Good(FirstAmong(responses, some))
  <2>1. Sequence(responses) /\ some \in SUBSET DOMAIN responses
    BY DEF Loaded
  <2>2. ASSUME NEW i \in some PROVE responses[i].range => responses[i].status \in {200, 300, 400, 500}
    <3>1. Servable(responses[i]) /\ (responses[i].range => responses[i].status \in {100, 200, 300, 400, 500})
      BY DEF Loaded
    <3> QED  BY <3>1 DEF Servable
  <2> HIDE DEF responses
  <2>3. CASE some = {}
    BY <2>1, <2>3, FirstAmongMeans
  <2>4. CASE some # {}
    <3>1. PICK i \in some : FirstAmong(responses, some) = <<responses[i]>>
      BY <2>1, <2>4, FirstAmongMeans
    <3>2. FirstAmong(responses, some)[1] = responses[i]
      BY <3>1
    <3> QED  BY <2>2, <3>2
  <2> QED  BY <2>3, <2>4
<1>3. Good(fallback)
  <2>1. CASE operation.default = <<>>
    <3>1. fallback = <<>>
      BY <2>1
    <3> QED  BY <3>1
  <2>2. CASE operation.default # <<>>
    <3>1. 1 \in DOMAIN operation.default
      BY <2>2 DEF Loaded, Sequence
    <3> QED  BY <3>1
  <2> QED  BY <2>1, <2>2
<1>4. /\ \A status : Good(OfStatus(status))
      /\ Good(FirstAmong(responses, successes)) /\ Good(FirstAmong(responses, servable))
  <2>1. \A status : {i \in servable : responses[i].status = status} \in SUBSET servable
    OBVIOUS
  <2>2. successes \in SUBSET servable /\ servable \in SUBSET servable
    OBVIOUS
  <2> HIDE DEF responses, servable, successes, Good
  <2> QED  BY <1>2, <2>1, <2>2
<1>5. Good(selected)
  <2> HIDE DEF responses, servable, successes, fallback, Good, OfStatus
  <2>1. \A first, second : Good(first) /\ Good(second) => Good(Otherwise(first, second))
    BY DEF Otherwise
  <2> QED  BY <1>1, <1>3, <1>4, <2>1
<1> QED  BY <1>5

(***************************************************************************)
(* The stages, action by action.                                           *)
(***************************************************************************)
Fields == {"pc", "input", "op", "runtime", "variant", "value", "failure", "response", "fixture",
           "recalled", "answer"}
Shaped == DOMAIN request = Requests /\ \A r \in Requests : DOMAIN request[r] = Fields

\* The request r alone has moved, and of it only these fields.
Moved(r, fields) ==
  /\ Shaped'
  /\ \A s \in Requests \ {r} : request'[s] = request[s]
  /\ \A f \in Fields \ fields : request'[r][f] = request[r][f]

Alone(r) == Shaped' /\ \A s \in Requests \ {r} : request'[s] = request[s]

Ready(r) == Shaped /\ chosen \in DOMAIN Cases /\ Sound(Case, request[r])

LEMMA GoMoves ==
  ASSUME Shaped, NEW r \in Requests, NEW pc, Go(r, pc)
  PROVE  Moved(r, {"pc"}) /\ request'[r].pc = pc
BY DEF Go, Moved, Shaped, Fields

LEMMA FailMoves ==
  ASSUME Shaped, NEW r \in Requests, NEW by, NEW status, Fail(r, by, status)
  PROVE  /\ Moved(r, {"pc", "failure"}) /\ request'[r].pc = "failing"
         /\ request'[r].failure = <<[by |-> by, status |-> status]>>
BY DEF Fail, Moved, Shaped, Fields

LEMMA AnswerMoves ==
  ASSUME Shaped, NEW r \in Requests, NEW answer, Answer(r, answer)
  PROVE  /\ Moved(r, {"pc", "answer"}) /\ request'[r].pc = "answered"
         /\ request'[r].answer = <<answer>>
BY DEF Answer, Moved, Shaped, Fields

LEMMA CaseLoaded ==
  ASSUME chosen \in DOMAIN Cases
  PROVE  /\ Sequence(Case.operations) /\ Sequence(Case.inputs)
         /\ \A o \in DOMAIN Case.operations : Loaded(Case.operations[o])
         /\ \A i \in DOMAIN Case.inputs : Attested(Case.schemes, Case.verify, Case.inputs[i].carried)
BY CasesAssumption DEF Case, Attested

\* A request on its way has an operation and an input.
LEMMA UnderwayHas ==
  ASSUME NEW r \in Requests, Ready(r), request[r].pc \in Underway
  PROVE  /\ request[r].op \in DOMAIN Case.operations /\ request[r].op # 0
         /\ request[r].input \in DOMAIN Case.inputs
         /\ Loaded(Operation(r))
         /\ Attested(Case.schemes, Case.verify, Input(r).carried)
         /\ request[r].pc \in Inside => Due(Case, request[r])
         /\ request[r].runtime \in Overrides \cup {None}
<1>1. /\ request[r].op # 0 /\ request[r].op \in 0..Len(Case.operations)
      /\ request[r].input \in DOMAIN Case.inputs
      /\ request[r].pc \in Inside => Due(Case, request[r])
      /\ request[r].runtime \in Overrides \cup {None}
  BY DEF Ready, Sound, Placed, Underway, Inside
<1>2. DOMAIN Case.operations = 1..Len(Case.operations) /\ Len(Case.operations) \in Nat
  BY CaseLoaded DEF Ready, Sequence
<1>3. request[r].op \in DOMAIN Case.operations
  BY <1>1, <1>2
<1> QED  BY <1>1, <1>3, CaseLoaded DEF Ready, Operation, Input

\* Onward to the next stage, with nothing settled but what a later stage reads.
LEMMA Continues ==
  ASSUME NEW r \in Requests, Ready(r), request[r].pc \in Underway,
         NEW fields, fields \in SUBSET {"pc", "variant", "value", "fixture", "recalled"},
         Moved(r, fields), request'[r].pc \in Underway,
         request'[r].pc \in Inside => Due(Case, request[r]),
         (request'[r].pc \in {"selected", "fixed", "recalled"})
            <=> (request[r].pc \in {"selected", "fixed", "recalled"})
  PROVE  Alone(r) /\ Sound(Case, request'[r])
<1> DEFINE q == request[r]
           p == request'[r]
<1>1. /\ p.input = q.input /\ p.op = q.op /\ p.answer = q.answer /\ p.runtime = q.runtime
      /\ p.response = q.response
  BY DEF Moved, Fields
<1>2. Sound(Case, q) /\ q.runtime \in Overrides \cup {None}
  BY UnderwayHas DEF Ready
<1>3. p.pc # "answered" /\ q.pc # "answered"
  BY DEF Underway, Inside
<1> HIDE DEF p, q
<1>4. Selected(p)
  BY <1>1, <1>2, <1>3 DEF Sound, Selected, p, q
<1>5. Sound(Case, p)
  BY <1>1, <1>2, <1>4, GoesOn DEF p, q
<1> QED  BY <1>5 DEF Moved, Alone, p

LEMMA Refuses ==
  ASSUME NEW r \in Requests, Ready(r), request[r].pc \in Underway \ {"selected", "fixed", "recalled"},
         NEW by, NEW status, Fail(r, by, status), Refusable(Case, request[r], by, status)
  PROVE  Alone(r) /\ Sound(Case, request'[r])
<1> DEFINE q == request[r]
           p == request'[r]
<1>1. Moved(r, {"pc", "failure"}) /\ p.pc = "failing" /\ p.failure = <<[by |-> by, status |-> status]>>
  BY FailMoves DEF Ready
<1>2. /\ p.input = q.input /\ p.op = q.op /\ p.answer = q.answer /\ p.runtime = q.runtime
      /\ p.response = q.response
  BY <1>1 DEF Moved, Fields
<1>3. q.response = <<>> /\ Sound(Case, q)
  BY DEF Ready, Sound, Selected, Underway, Inside
<1> HIDE DEF p, q
<1>4. Sound(Case, p)
  BY <1>1, <1>2, <1>3, Fails DEF q
<1> QED  BY <1>1, <1>4 DEF Moved, Alone, p

LEMMA Concludes ==
  ASSUME NEW r \in Requests, Ready(r), request[r].pc \in Underway \cup {"failing"},
         NEW answer, Answer(r, answer), Answerable(Case, request[r], answer)
  PROVE  Alone(r) /\ Sound(Case, request'[r])
<1> DEFINE q == request[r]
           p == request'[r]
<1>1. Moved(r, {"pc", "answer"}) /\ p.pc = "answered" /\ p.answer = <<answer>>
  BY AnswerMoves DEF Ready
<1>2. /\ p.input = q.input /\ p.op = q.op /\ p.failure = q.failure /\ p.runtime = q.runtime
      /\ p.response = q.response
  BY <1>1 DEF Moved, Fields
<1>3. Sound(Case, q)
  BY DEF Ready
<1> HIDE DEF p, q
<1>4. Sound(Case, p)
  BY <1>1, <1>2, <1>3, Replies DEF q
<1> QED  BY <1>1, <1>4 DEF Moved, Alone, p

\* Routing: the operation that fits first, or what the request is told.
LEMMA ArriveSound ==
  ASSUME NEW r \in Requests, Ready(r), NEW i \in DOMAIN Case.inputs, Arrive(r, i)
  PROVE  Alone(r) /\ Sound(Case, request'[r])
<1> DEFINE q == request[r]
           p == request'[r]
           input == Case.inputs[i]
           fits == {o \in DOMAIN Case.operations : MatchSegments(Case.operations[o].path, input.parts)}
           meant == {o \in fits : Case.operations[o].method = input.method}
           op == Match(Case.operations, input.method, input.parts)
           allowed == AllowedMethods(Case.operations, input.parts)
           told == IF allowed # {} THEN 405 ELSE 404
<1>1. q.pc = "new" /\ q.op = 0 /\ q.answer = <<>> /\ q.response = <<>> /\ q.runtime \in Overrides \cup {None}
  BY DEF Ready, Arrive, AtStage, Sound, Placed, Replied, Selected
<1>2. /\ meant = {} => op = 0
      /\ meant # {} => op \in meant /\ \A o \in meant \ {op} : Before(Case.operations, op, o)
  <2> DEFINE here == {o \in DOMAIN Case.operations : Case.operations[o].method = input.method
                        /\ MatchSegments(Case.operations[o].path, input.parts)}
  <2>1. here = meant
    OBVIOUS
  <2>2. Sequence(Case.operations) /\ \A o \in DOMAIN Case.operations : Loaded(Case.operations[o])
    BY CaseLoaded DEF Ready
  <2>3. /\ here = {} => op = 0
        /\ here # {} => op \in here /\ \A o \in here \ {op} : Before(Case.operations, op, o)
    BY <2>2, MatchFirst
  <2> HIDE DEF here, meant, op
  <2> QED  BY <2>1, <2>3
<1>3. /\ DOMAIN Case.operations = 1..Len(Case.operations) /\ Len(Case.operations) \in Nat
      /\ 0 \notin DOMAIN Case.operations
  BY CaseLoaded DEF Ready, Sequence
<1>4. told = IF fits = {} THEN 404 ELSE 405
  BY DEF AllowedMethods
<1>5. /\ Alone(r) /\ p.input = i /\ p.answer = q.answer /\ p.response = q.response /\ p.runtime = q.runtime
      /\ \/ op # 0 /\ p.pc = "routed" /\ p.op = op
         \/ op = 0 /\ p.pc = "failing" /\ p.op = q.op /\ p.failure = <<[by |-> "route", status |-> told]>>
  <2> HIDE DEF op, allowed
  <2>1. \/ op # 0 /\ request' = [request EXCEPT ![r].pc = "routed", ![r].input = i, ![r].op = op]
        \/ op = 0 /\ request' = [request EXCEPT ![r].pc = "failing", ![r].input = i,
                                   ![r].failure = <<[by |-> "route", status |-> told]>>]
    BY DEF Arrive, op, allowed
  <2> HIDE DEF told
  <2> QED  BY <2>1 DEF Ready, Alone, Shaped, Fields
<1>6. Asked(Case, p) = input /\ Fits(Case, p) = fits /\ Meant(Case, p) = meant
  <2>1. Asked(Case, p) = input
    BY <1>5 DEF Asked
  <2> HIDE DEF p, input
  <2> QED  BY <2>1 DEF Fits, Meant
<1>7. meant \subseteq DOMAIN Case.operations
  OBVIOUS
<1> HIDE DEF p, q, op, meant, fits, input, allowed
<1>8. CASE op # 0
  <2>1. p.pc = "routed" /\ p.op = op
    BY <1>5, <1>8
  <2>2. op \in meant /\ \A o \in meant \ {op} : Before(Case.operations, op, o)
    BY <1>2, <1>8
  <2>3. FoundFirst(Case, p)
    BY <1>6, <1>8, <2>1, <2>2 DEF FoundFirst
  <2>4. op \in 0..Len(Case.operations)
    BY <1>3, <1>7, <2>2
  <2>5. Placed(Case, p)
    BY <1>1, <1>5, <1>8, <2>1, <2>3, <2>4 DEF Placed, Stages, Inside
  <2>6. Sound(Case, p)
    BY <1>1, <1>5, <2>1, <2>5 DEF Sound, Failed, Selected, Replied
  <2> QED  BY <1>5, <2>6 DEF p
<1>9. CASE op = 0
  <2>1. p.pc = "failing" /\ p.op = 0 /\ p.failure[1].by = "route" /\ p.failure[1].status = told
    BY <1>1, <1>5, <1>9
  <2>2. meant = {}
    BY <1>2, <1>3, <1>7, <1>9
  <2>3. FoundFirst(Case, p)
    BY <1>4, <1>6, <2>1, <2>2 DEF FoundFirst
  <2>4. 0 \in 0..Len(Case.operations) /\ told \in 400..499
    BY <1>3
  <2>5. Placed(Case, p)
    BY <1>1, <1>5, <2>1, <2>3, <2>4 DEF Placed, Stages, Inside
  <2>6. Failed(Case, p)
    BY <2>1, <2>4 DEF Failed, Refusable
  <2>7. Sound(Case, p)
    BY <1>1, <1>5, <2>1, <2>5, <2>6 DEF Sound, Selected, Replied
  <2> QED  BY <1>5, <2>7 DEF p
<1> QED  BY <1>8, <1>9

LEMMA TakeOverrideSound ==
  ASSUME NEW r \in Requests, Ready(r), TakeOverride(r), ReadOverride(request[r].op) \in Overrides \cup {None}
  PROVE  Alone(r) /\ Sound(Case, request'[r])
<1> DEFINE q == request[r]
           p == request'[r]
<1>1. q.pc = "routed" /\ q.pc \in Underway
  BY DEF TakeOverride, AtStage, Underway
<1>2. /\ Alone(r) /\ p.pc = "overridden" /\ p.runtime = ReadOverride(q.op)
      /\ p.input = q.input /\ p.op = q.op /\ p.answer = q.answer /\ p.response = q.response
  BY DEF TakeOverride, Alone, Ready, Shaped, Fields
<1>3. Sound(Case, q)
  BY DEF Ready
<1>4. p.runtime \in Overrides \cup {None}
  BY <1>2
<1> HIDE DEF p, q
<1>5. p.pc \in Underway /\ p.pc \notin Inside /\ Selected(p)
  BY <1>1, <1>2, <1>3 DEF Underway, Inside, Selected, Sound
<1>6. Sound(Case, p)
  BY <1>1, <1>2, <1>3, <1>4, <1>5, GoesOn
<1> QED  BY <1>2, <1>6 DEF p

LEMMA TakeVariantSound ==
  ASSUME NEW r \in Requests, Ready(r), TakeVariant(r)
  PROVE  Alone(r) /\ Sound(Case, request'[r])
<1>1. request[r].pc = "overridden"
  BY DEF TakeVariant, AtStage
<1>2. Moved(r, {"pc", "variant"}) /\ request'[r].pc = "reading"
  BY DEF TakeVariant, Moved, Ready, Shaped, Fields
<1> QED  BY <1>1, <1>2, Continues DEF Underway, Inside

LEMMA ReadBodySound ==
  ASSUME NEW r \in Requests, Ready(r), ReadBody(r)
  PROVE  Alone(r) /\ Sound(Case, request'[r])
<1> DEFINE parsed == ParseBody(Input(r).body, Operation(r))
<1>1. request[r].pc = "reading" /\ parsed.status \in {0, 400, 415}
  BY ParsedStatus DEF ReadBody, AtStage
<1>2. IF parsed.status = 0
        THEN request' = [request EXCEPT ![r].pc = "parsed", ![r].value = parsed.value]
        ELSE Fail(r, "body", parsed.status)
  BY DEF ReadBody
<1> HIDE DEF parsed
<1>3. CASE parsed.status = 0
  <2>1. Moved(r, {"pc", "value"}) /\ request'[r].pc = "parsed"
    BY <1>2, <1>3 DEF Moved, Ready, Shaped, Fields
  <2> QED  BY <1>1, <2>1, Continues DEF Underway, Inside
<1>4. CASE parsed.status # 0
  <2>1. Fail(r, "body", parsed.status) /\ parsed.status \in 400..499
    BY <1>1, <1>2, <1>4
  <2>2. Refusable(Case, request[r], "body", parsed.status)
    BY <2>1 DEF Refusable
  <2>3. request[r].pc \in Underway \ {"selected", "fixed", "recalled"}
    BY <1>1 DEF Underway
  <2> QED  BY <2>1, <2>2, <2>3, Refuses
<1> QED  BY <1>3, <1>4

\* Past here is who is entitled, and turned away is who is not.
LEMMA AuthenticateSound ==
  ASSUME NEW r \in Requests, Ready(r), Authenticate(r)
  PROVE  Alone(r) /\ Sound(Case, request'[r])
<1> DEFINE outcome == CheckAuth(Operation(r).security, Case.schemes, Case.verify, Input(r).carried)
<1>1. request[r].pc = "parsed" /\ request[r].pc \in Underway
  BY DEF Authenticate, AtStage, Underway
<1>2. IF outcome.ok THEN Go(r, "authenticated")
      ELSE IF outcome.throws THEN Answer(r, InternalError("callback"))
      ELSE IF outcome.given THEN Answer(r, Reply("auth", outcome.status, Envelope))
      ELSE Fail(r, "auth", outcome.status)
  BY DEF Authenticate
<1>3. /\ Told(outcome)
      /\ outcome.ok => Due(Case, request[r])
      /\ ~outcome.ok /\ ~outcome.throws => ~Due(Case, request[r])
  <2>1. /\ Operation(r).security \in Seq(Seq(SecurityEntry))
        /\ Attested(Case.schemes, Case.verify, Input(r).carried)
    BY <1>1, UnderwayHas DEF Loaded, SecurityEntry
  <2>2. Due(Case, request[r]) = Entitled(Operation(r).security, Case.schemes, Case.verify, Input(r).carried)
    BY DEF Due, Asked, Operation, Input
  <2> QED  BY <2>1, <2>2, AuthMeans
<1> HIDE DEF outcome
<1>4. CASE outcome.ok
  <2>1. Moved(r, {"pc"}) /\ request'[r].pc = "authenticated"
    BY <1>2, <1>4, GoMoves DEF Ready
  <2> QED  BY <1>1, <1>3, <1>4, <2>1, Continues DEF Underway, Inside
<1>5. CASE ~outcome.ok /\ outcome.throws
  <2>1. Answer(r, InternalError("callback"))
    BY <1>2, <1>5
  <2>2. /\ InternalError("callback").status = 500 /\ InternalError("callback").by = "callback"
        /\ 500 \in 200..599
    BY DEF InternalError, Reply
  <2>3. Answerable(Case, request[r], InternalError("callback"))
    BY <2>2 DEF Answerable
  <2> QED  BY <1>1, <2>1, <2>3, Concludes
<1>6. CASE ~outcome.ok /\ ~outcome.throws /\ outcome.given
  <2> DEFINE reply == Reply("auth", outcome.status, Envelope)
  <2>1. Answer(r, reply)
    BY <1>2, <1>6
  <2>2. reply.status \in 200..599 /\ reply.by = "auth"
    BY <1>3 DEF Reply, Told, Outcome
  <2> HIDE DEF reply
  <2>3. Answerable(Case, request[r], reply)
    BY <1>3, <1>6, <2>2 DEF Answerable
  <2> QED  BY <1>1, <2>1, <2>3, Concludes
<1>7. CASE ~outcome.ok /\ ~outcome.throws /\ ~outcome.given
  <2>1. Fail(r, "auth", outcome.status) /\ outcome.status \in {401, 403}
    BY <1>2, <1>3, <1>7 DEF Told
  <2>2. outcome.status \in 400..499
    BY <2>1
  <2>3. Refusable(Case, request[r], "auth", outcome.status)
    BY <1>3, <1>7, <2>2 DEF Refusable
  <2>4. request[r].pc \in Underway \ {"selected", "fixed", "recalled"}
    BY <1>1 DEF Underway
  <2> QED  BY <2>1, <2>3, <2>4, Refuses
<1> QED  BY <1>4, <1>5, <1>6, <1>7

LEMMA ValidateSound ==
  ASSUME NEW r \in Requests, Ready(r), Validate(r)
  PROVE  Alone(r) /\ Sound(Case, request'[r])
<1>1. /\ request[r].pc = "authenticated" /\ request[r].pc \in Inside
      /\ request[r].pc \in Underway \ {"selected", "fixed", "recalled"}
  BY DEF Validate, AtStage, Underway, Inside
<1>2. Due(Case, request[r])
  BY <1>1, UnderwayHas
<1>3. ASSUME Go(r, "valid") PROVE Alone(r) /\ Sound(Case, request'[r])
  <2>1. Moved(r, {"pc"}) /\ request'[r].pc = "valid"
    BY <1>3, GoMoves DEF Ready
  <2> QED  BY <1>1, <1>2, <2>1, Continues DEF Underway, Inside
<1>4. ASSUME Fail(r, "validation", 400) PROVE Alone(r) /\ Sound(Case, request'[r])
  <2>1. Refusable(Case, request[r], "validation", 400)
    BY <1>2 DEF Refusable
  <2> QED  BY <1>1, <1>4, <2>1, Refuses
<1> QED  BY <1>3, <1>4 DEF Validate

LEMMA StageSound ==
  ASSUME NEW r \in Requests, Ready(r), Stage(r)
  PROVE  Alone(r) /\ Sound(Case, request'[r])
<1>1. /\ request[r].pc = "valid" /\ request[r].pc \in Inside
      /\ request[r].pc \in Underway \ {"selected", "fixed", "recalled"}
  BY DEF Stage, AtStage, Underway, Inside
<1>2. Due(Case, request[r])
  BY <1>1, UnderwayHas
<1>3. ASSUME Go(r, "admitted") PROVE Alone(r) /\ Sound(Case, request'[r])
  <2>1. Moved(r, {"pc"}) /\ request'[r].pc = "admitted"
    BY <1>3, GoMoves DEF Ready
  <2> QED  BY <1>1, <1>2, <2>1, Continues DEF Underway, Inside
<1>4. ASSUME NEW status, Fail(r, "stage", status) PROVE Alone(r) /\ Sound(Case, request'[r])
  <2>1. Refusable(Case, request[r], "stage", status)
    BY <1>2 DEF Refusable
  <2> QED  BY <1>1, <1>4, <2>1, Refuses
<1> QED  BY <1>3, <1>4 DEF Stage

\* What goes out of a failure is the failure: a status of 400 to 499 can be
\* sent, and any other is said of who is entitled.
LEMMA FailWithSound ==
  ASSUME NEW r \in Requests, Ready(r), FailWith(r)
  PROVE  Alone(r) /\ Sound(Case, request'[r])
<1> DEFINE failure == request[r].failure[1]
           reply == Reply(failure.by, failure.status, Envelope)
<1>1. request[r].pc = "failing" /\ request[r].response = <<>>
  BY DEF FailWith, AtStage, Ready, Sound, Selected
<1>2. Refusable(Case, request[r], failure.by, failure.status)
  BY <1>1 DEF Ready, Sound, Failed
<1>3. PICK made : Answer(r, Sent(made)) /\ made.by = failure.by /\ made.status = failure.status
  <2> DEFINE media == IF request[r].op = 0 THEN <<>> ELSE ErrorMedia(Operation(r), failure.status, Case.errors)
             Of(d) == [reply EXCEPT !.schema = <<media[1].schema>>, !.reported = d.reported,
                                    !.body = d.value, !.base = d.value]
  <2>1. reply.by = failure.by /\ reply.status = failure.status
    BY DEF Reply
  <2>2. \A d : Of(d).by = failure.by /\ Of(d).status = failure.status
    <3> HIDE DEF media, failure
    <3> QED  BY DEF Reply
  <2>3. Answer(r, Sent(reply)) \/ \E d : Answer(r, Sent(Of(d)))
    BY DEF FailWith
  <2> HIDE DEF Of, reply, failure
  <2> QED  BY <2>1, <2>2, <2>3
<1> HIDE DEF failure
<1>4. \/ Sent(made) = made
      \/ Sent(made).by = "internal" /\ (made.status \notin 200..599 \/ made.status \in {204, 205, 304})
  BY SentMeans
<1>5. Sent(made).status \in 200..599
  BY SentMeans
<1>6. failure.status \in 400..499 => failure.status \in 200..599 /\ failure.status \notin {204, 205, 304}
  OBVIOUS
<1>7. ASSUME failure.by \in {"route", "body", "auth"}
      PROVE  Answerable(Case, request[r], Sent(made))
  <2>1. Sent(made).by = failure.by /\ failure.by # "internal"
    BY <1>2, <1>3, <1>4, <1>6, <1>7 DEF Refusable
  <2> QED  BY <1>2, <1>5, <1>7, <2>1 DEF Answerable, Refusable
<1>8. ASSUME failure.by \in {"validation", "stage", "select"}
      PROVE  Answerable(Case, request[r], Sent(made))
  <2>1. /\ Sent(made).by \in {"validation", "stage", "select", "internal"}
        /\ request[r].op # 0 => Due(Case, request[r])
    BY <1>2, <1>3, <1>4, <1>8 DEF Refusable
  <2> QED  BY <1>1, <1>5, <2>1 DEF Answerable
<1>9. Answerable(Case, request[r], Sent(made))
  BY <1>2, <1>7, <1>8 DEF Refusable
<1> QED  BY <1>1, <1>3, <1>9, Concludes

LEMMA RespondSound ==
  ASSUME NEW r \in Requests, Ready(r), Respond(r)
  PROVE  Alone(r) /\ Sound(Case, request'[r])
<1>1. request[r].pc = "admitted" /\ request[r].pc \in Inside /\ request[r].pc \in Underway
  BY DEF Respond, AtStage, Underway, Inside
<1>2. Due(Case, request[r]) /\ request[r].response = <<>>
  BY <1>1, UnderwayHas DEF Ready, Sound, Selected
<1>3. ASSUME Go(r, "unanswered") PROVE Alone(r) /\ Sound(Case, request'[r])
  <2>1. Moved(r, {"pc"}) /\ request'[r].pc = "unanswered"
    BY <1>3, GoMoves DEF Ready
  <2> QED  BY <1>1, <1>2, <2>1, Continues DEF Underway, Inside
<1>4. ASSUME NEW by, NEW status \in 200..599, by # "auth", Answer(r, Reply(by, status, Envelope))
      PROVE  Alone(r) /\ Sound(Case, request'[r])
  <2>1. Reply(by, status, Envelope).by = by /\ Reply(by, status, Envelope).status = status
    BY DEF Reply
  <2>2. Answerable(Case, request[r], Reply(by, status, Envelope))
    BY <1>2, <1>4, <2>1 DEF Answerable
  <2> QED  BY <1>1, <1>4, <2>2, Concludes
<1>5. \/ Go(r, "unanswered")
      \/ Answer(r, Reply("callback", 500, Envelope))
      \/ Answer(r, Reply("respond", 200, Envelope))
  BY DEF Respond, InternalError
<1>6. 500 \in 200..599 /\ 200 \in 200..599
  OBVIOUS
<1> QED  BY <1>3, <1>4, <1>5, <1>6

LEMMA SelectSound ==
  ASSUME NEW r \in Requests, Ready(r), Select(r)
  PROVE  Alone(r) /\ Sound(Case, request'[r])
<1> DEFINE q == request[r]
           p == request'[r]
           selected == SelectResponse(Operation(r), Input(r).status, StaticStatus(r))
<1>1. q.pc = "unanswered" /\ q.pc \in Inside /\ q.pc \in Underway \ {"selected", "fixed", "recalled"}
  BY DEF Select, AtStage, Underway, Inside
<1>2. Due(Case, q) /\ Loaded(Operation(r)) /\ q.runtime \in Overrides \cup {None}
  BY <1>1, UnderwayHas
<1>3. selected # <<>> => (selected[1].range => selected[1].status \in {200, 300, 400, 500})
  BY <1>2, SelectedServable
<1>4. IF selected # <<>>
      THEN request' = [request EXCEPT ![r].pc = "selected", ![r].response = selected]
      ELSE Fail(r, "select", 501)
  BY DEF Select
<1> HIDE DEF selected
<1>5. CASE selected # <<>>
  <2>1. /\ Alone(r) /\ p.pc = "selected" /\ p.response = selected
        /\ p.input = q.input /\ p.op = q.op /\ p.answer = q.answer /\ p.runtime = q.runtime
    BY <1>4, <1>5 DEF Alone, Ready, Shaped, Fields
  <2>2. Sound(Case, q)
    BY DEF Ready
  <2> HIDE DEF p, q
  <2>3. p.pc \in Underway /\ Selected(p)
    BY <1>3, <1>5, <2>1 DEF Underway, Inside, Selected
  <2>4. Sound(Case, p)
    BY <1>1, <1>2, <2>1, <2>2, <2>3, GoesOn
  <2> QED  BY <2>1, <2>4 DEF p
<1>6. CASE selected = <<>>
  <2>1. Refusable(Case, q, "select", 501)
    BY <1>2 DEF Refusable
  <2> QED  BY <1>1, <1>4, <1>6, <2>1, Refuses
<1> QED  BY <1>5, <1>6

LEMMA TakeFixtureSound ==
  ASSUME NEW r \in Requests, Ready(r), TakeFixture(r)
  PROVE  Alone(r) /\ Sound(Case, request'[r])
<1>1. request[r].pc = "selected"
  BY DEF TakeFixture, AtStage
<1>2. Moved(r, {"pc", "fixture"}) /\ request'[r].pc = "fixed"
  BY DEF TakeFixture, Moved, Ready, Shaped, Fields
<1>3. Due(Case, request[r])
  BY <1>1, UnderwayHas DEF Underway, Inside
<1> QED  BY <1>1, <1>2, <1>3, Continues DEF Underway, Inside

LEMMA RecallSound ==
  ASSUME NEW r \in Requests, Ready(r), Recall(r)
  PROVE  Alone(r) /\ Sound(Case, request'[r])
<1>1. request[r].pc = "fixed"
  BY DEF Recall, AtStage
<1>2. Moved(r, {"pc", "recalled"}) /\ request'[r].pc = "recalled"
  <2>1. PICK recalled : request' = [request EXCEPT ![r].pc = "recalled", ![r].recalled = recalled]
    BY DEF Recall
  <2> QED  BY <2>1 DEF Moved, Ready, Shaped, Fields
<1>3. Due(Case, request[r])
  BY <1>1, UnderwayHas DEF Underway, Inside
<1> QED  BY <1>1, <1>2, <1>3, Continues DEF Underway, Inside

LEMMA RenderSound ==
  ASSUME NEW r \in Requests, Ready(r), Render(r)
  PROVE  Alone(r) /\ Sound(Case, request'[r])
<1>1. request[r].pc = "recalled" /\ request[r].pc \in Inside /\ request[r].pc \in Underway
  BY DEF Render, AtStage, Underway, Inside
<1>2. Due(Case, request[r])
  BY <1>1, UnderwayHas
<1>3. /\ request[r].response # <<>>
      /\ request[r].response[1].range => Status(r) \in {200, 300, 400, 500}
  BY <1>1 DEF Ready, Sound, Selected, Status
<1>4. ASSUME Answer(r, InternalError("callback")) PROVE Alone(r) /\ Sound(Case, request'[r])
  <2>1. /\ InternalError("callback").status = 500 /\ InternalError("callback").by = "callback"
        /\ 500 \in 200..599
    BY DEF InternalError, Reply
  <2>2. Answerable(Case, request[r], InternalError("callback"))
    BY <2>1 DEF Answerable
  <2> QED  BY <1>1, <1>4, <2>2, Concludes
<1>5. ASSUME NEW made, made.status = Status(r), made.by = "render", Answer(r, Sent(made))
      PROVE  Alone(r) /\ Sound(Case, request'[r])
  <2>1. /\ Sent(made).status \in 200..599
        /\ \/ Sent(made) = made
           \/ Sent(made).by = "internal" /\ (made.status \notin 200..599 \/ made.status \in {204, 205, 304})
    BY SentMeans
  <2>2. made.status \in {200, 300, 400, 500} => made.status \in 200..599 /\ made.status \notin {204, 205, 304}
    OBVIOUS
  <2>3. /\ Sent(made).by \in {"render", "internal"}
        /\ Sent(made).by = "internal" => ~request[r].response[1].range
    <3>1. CASE Sent(made) = made
      <4>1. Sent(made).by = "render" /\ "render" # "internal"
        BY <1>5, <3>1
      <4> QED  BY <4>1
    <3>2. CASE /\ Sent(made).by = "internal"
               /\ made.status \notin 200..599 \/ made.status \in {204, 205, 304}
      <4>1. made.status \notin {200, 300, 400, 500}
        BY <2>2, <3>2
      <4>2. ~request[r].response[1].range
        BY <1>3, <1>5, <4>1
      <4> QED  BY <3>2, <4>2
    <3> QED  BY <2>1, <3>1, <3>2
  <2>4. Answerable(Case, request[r], Sent(made))
    BY <1>2, <2>1, <2>3 DEF Answerable
  <2> QED  BY <1>1, <1>5, <2>4, Concludes
<1>6. \/ Answer(r, InternalError("callback"))
      \/ \E made : made.status = Status(r) /\ made.by = "render" /\ Answer(r, Sent(made))
  <2> DEFINE Of(base) == [Reply("render", Status(r), base.value) EXCEPT
                            !.body = Laid(base.value, BodyLayers(r)), !.schema = base.schema,
                            !.reported = base.reported]
  <2>1. \A base : Of(base).by = "render" /\ Of(base).status = Status(r)
    BY DEF Reply
  <2>2. Answer(r, InternalError("callback")) \/ \E base : Answer(r, Sent(Of(base)))
    BY DEF Render
  <2> HIDE DEF Of
  <2> QED  BY <2>1, <2>2
<1> QED  BY <1>4, <1>5, <1>6

(***************************************************************************)
(* The inductive invariant of the whole, and what follows from it.         *)
(***************************************************************************)
ExchangeInv ==
  /\ ControlInv /\ Owned
  /\ Shaped /\ chosen \in DOMAIN Cases
  /\ \A r \in Requests : Sound(Case, request[r])

LEMMA ExchangeInitInv == ExchangeInit => ExchangeInv
<1> SUFFICES ASSUME ExchangeInit PROVE ExchangeInv
  OBVIOUS
<1>1. ControlInv
  BY ControlInitInv DEF ExchangeInit
<1>2. Owned
  BY DEF ExchangeInit, ControlInit, NoSlots, NotWriting, Owned, Writing, Kinds
<1>3. Shaped /\ chosen \in DOMAIN Cases
  BY DEF ExchangeInit, Fresh, Shaped, Fields
<1>4. ASSUME NEW r \in Requests PROVE Sound(Case, request[r])
  <2>1. /\ request[r].pc = "new" /\ request[r].input = 0 /\ request[r].op = 0 /\ request[r].runtime = None
        /\ request[r].answer = <<>> /\ request[r].response = <<>>
    BY DEF ExchangeInit, Fresh
  <2>2. Placed(Case, request[r])
    BY <2>1 DEF Placed, Stages, Inside
  <2> QED  BY <2>1, <2>2 DEF Sound, Failed, Selected, Replied
<1> QED  BY <1>1, <1>2, <1>3, <1>4 DEF ExchangeInv

LEMMA RequestSound ==
  ASSUME ExchangeInv, NEW r \in Requests, Step(r) PROVE Alone(r) /\ Sound(Case, request'[r])
<1>1. Ready(r)
  BY DEF ExchangeInv, Ready
<1>2. ReadOverride(request[r].op) \in Overrides \cup {None}
  BY DEF ExchangeInv, Owned, ReadOverride
<1> QED
  BY <1>1, <1>2, ArriveSound, TakeOverrideSound, TakeVariantSound, ReadBodySound, AuthenticateSound,
     ValidateSound, StageSound, FailWithSound, RespondSound, SelectSound, TakeFixtureSound,
     RecallSound, RenderSound
  DEF Step

LEMMA RequestStep ==
  ASSUME ExchangeInv, NEW r \in Requests, Step(r) PROVE ExchangeInv'
<1>1. Alone(r) /\ Sound(Case, request'[r])
  BY RequestSound
<1>2. Still
  BY DEF Step, Arrive, TakeOverride, TakeVariant, ReadBody, Authenticate, Validate, Stage, FailWith,
         Respond, Select, TakeFixture, Recall, Render
<1>3. UNCHANGED controlVars /\ chosen' = chosen
  BY <1>2 DEF Still, controlVars
<1>4. ControlInv' /\ Owned'
  BY <1>3, StepInv, ControlOwned DEF ExchangeInv, ControlInv
<1>5. \A s \in Requests : Sound(Case', request'[s])
  <2>1. Case' = Case
    BY <1>3 DEF Case
  <2> QED  BY <1>1, <2>1 DEF Alone, ExchangeInv
<1> QED  BY <1>1, <1>3, <1>4, <1>5 DEF ExchangeInv, Alone

LEMMA ExchangeStepInv ==
  ASSUME ExchangeInv, [ExchangeNext]_exchangeVars PROVE ExchangeInv'
<1>1. ASSUME NEW r \in Requests, Step(r) PROVE ExchangeInv'
  BY <1>1, RequestStep
<1>2. ASSUME Control \/ UNCHANGED exchangeVars PROVE ExchangeInv'
  <2>1. /\ [ControlNext]_controlVars
        /\ UNCHANGED <<chosen, request>>
    BY <1>2 DEF Control, exchangeVars, controlVars
  <2>2. ControlInv' /\ Owned'
    BY <2>1, StepInv, ControlOwned DEF ExchangeInv, ControlInv
  <2> QED  BY <2>1, <2>2 DEF ExchangeInv, Shaped, Case
<1> QED  BY <1>1, <1>2 DEF ExchangeNext

LEMMA ExchangeKeeps == ExchangeSpec => []ExchangeInv
<1>1. ExchangeInit => ExchangeInv
  BY ExchangeInitInv
<1>2. ExchangeInv /\ [ExchangeNext]_exchangeVars => ExchangeInv'
  BY ExchangeStepInv
<1> QED  BY <1>1, <1>2, PTL DEF ExchangeSpec

\* Every variable keeps to its type, and what is served can be sent: a response
\* that cannot has a status of the document's own, never one of a range.
THEOREM ExchangeTypesCorrect == ExchangeSpec => []TypeOK
<1>1. ExchangeInv => TypeOK
  <2> SUFFICES ASSUME ExchangeInv, NEW r \in Requests PROVE RequestTypeOK(r)
    BY DEF ExchangeInv, ControlInv, TypeOK
  <2>1. Placed(Case, request[r]) /\ Replied(Case, request[r])
    BY DEF ExchangeInv, Sound
  <2>2. 0 \in 0..Len(Case.operations) /\ 0 \notin DOMAIN Case.inputs
    BY CaseLoaded DEF ExchangeInv, Sequence
  <2>3. request[r].answer = <<>> => Len(request[r].answer) # 1
    OBVIOUS
  <2> QED  BY <2>1, <2>2, <2>3 DEF RequestTypeOK, Placed, Replied, Answerable, AtStage
<1> QED  BY <1>1, ExchangeKeeps, PTL

\* A request is given to the operation that fits it best, and past
\* authentication is only who is entitled.
THEOREM RequestsAdmitted == ExchangeSpec => []Admission
<1>1. ExchangeInv => Admission
  <2> SUFFICES ASSUME ExchangeInv, NEW r \in Requests, request[r].pc # "new"
               PROVE  /\ RoutedBest(r)
                      /\ request[r].op # 0 =>
                           AuthSound(r, AnsweredBy(r),
                             Entitled(Operation(r).security, Case.schemes, Case.verify, Input(r).carried))
    BY DEF Admission, AtStage
  <2> DEFINE q == request[r]
  <2>1. Sound(Case, q)
    BY DEF ExchangeInv
  <2>2. Due(Case, q) = Entitled(Operation(r).security, Case.schemes, Case.verify, Input(r).carried)
    BY DEF Due, Asked, Operation, Input
  <2>3. RoutedBest(r)
    <3>1. Asked(Case, q) = Input(r) /\ Fits(Case, q) = Fitting(r)
      BY DEF Asked, Input, Fits, Fitting
    <3>2. Meant(Case, q) = {i \in Fitting(r) : Case.operations[i].method = Input(r).method}
      BY <3>1 DEF Meant
    <3>3. \A i, j \in Fitting(r) : Before(Case.operations, i, j) => BetterFit(i, j)
      <4>1. \A i \in Fitting(r) : /\ i \in DOMAIN Case.operations
                                  /\ Case.operations[i].path \in Seq(Segment)
                                  /\ Len(Case.operations[i].path) = Len(Input(r).parts)
        BY CaseLoaded DEF ExchangeInv, Fitting, MatchSegments, Loaded, Segment
      <4> QED  BY <4>1, BetterIsBefore
    <3>4. FoundFirst(Case, q)
      BY <2>1 DEF Sound, Placed
    <3> HIDE DEF q
    <3>5. RoutedTo(r, q.op, Fitting(r))
      BY <3>1, <3>2, <3>3, <3>4 DEF RoutedTo, FoundFirst, q
    <3> QED  BY <3>5 DEF RoutedBest, q
  <2>4. ASSUME q.op # 0 PROVE AuthSound(r, AnsweredBy(r), Due(Case, q))
    <3>1. CASE q.pc = "failing"
      <4>1. AnsweredBy(r) = q.failure[1].by /\ q.pc \notin Inside
        BY <3>1 DEF AnsweredBy, AtStage, Inside
      <4>2. Refusable(Case, q, q.failure[1].by, q.failure[1].status)
        BY <2>1, <3>1 DEF Sound, Failed
      <4> QED  BY <2>4, <4>1, <4>2 DEF AuthSound, Refusable
    <3>2. CASE q.pc = "answered"
      <4>1. AnsweredBy(r) = q.answer[1].by /\ q.pc \notin Inside
        BY <3>2 DEF AnsweredBy, AtStage, Inside
      <4>2. Answerable(Case, q, q.answer[1])
        BY <2>1, <3>2 DEF Sound, Replied
      <4> QED  BY <2>4, <4>1, <4>2 DEF AuthSound, Answerable
    <3>3. CASE q.pc \notin {"failing", "answered"}
      <4>1. AnsweredBy(r) = ""
        BY <3>3 DEF AnsweredBy, AtStage
      <4>2. q.pc \in Inside => Due(Case, q)
        BY <2>1 DEF Sound, Placed
      <4> QED  BY <4>1, <4>2 DEF AuthSound
    <3> QED  BY <3>1, <3>2, <3>3
  <2> QED  BY <2>2, <2>3, <2>4
<1> QED  BY <1>1, ExchangeKeeps, PTL

\* The writes of a control call make one change, with requests that read them on
\* their way.
THEOREM WildcardIsWholeWhileServing == ExchangeSpec => []WildcardWhole
<1>1. ExchangeInv => WildcardWhole
  BY DEF ExchangeInv, ControlInv
<1> QED  BY <1>1, ExchangeKeeps, PTL

(***************************************************************************)
(* What the bodies that are served are made of, for any readers of schemas *)
(* and of values.                                                          *)
(***************************************************************************)

\* A rendered body is one of the bases, below the layers; and what was
\* generated for an error is a draft of the media the operation declares it in.
Rendered(r, answer) ==
  \E base \in Bases(r) :
    /\ answer.status = Status(r) /\ answer.base = base.value
    /\ answer.schema = base.schema /\ answer.reported = base.reported
    /\ answer.body = Laid(base.value, BodyLayers(r))

DraftedError(r, answer) ==
  answer.schema # <<>> =>
    LET media == ErrorMedia(Operation(r), answer.status, Case.errors)
    IN /\ request[r].op # 0 /\ media # <<>> /\ answer.schema = <<media[1].schema>>
       /\ \E d \in Drafts(media[1].schema, Case.options) :
            answer.body = d.value /\ answer.base = d.value /\ answer.reported = d.reported

Made(r, answer) == IF answer.by = "render" THEN Rendered(r, answer) ELSE DraftedError(r, answer)

\* And so of every body that is served, as long as it is there to be seen.
Served(r) == {request[r].answer[i] : i \in DOMAIN request[r].answer}
BodiesMade == \A r \in Requests : \A answer \in Served(r) : Made(r, answer)

\* What a body is made of, a request that has its answer keeps.
Holds(r) ==
  /\ chosen' = chosen
  /\ \A f \in Fields \ {"pc", "answer"} : request'[r][f] = request[r][f]

LEMMA MadeHolds ==
  ASSUME NEW r \in Requests, Holds(r), NEW answer, Made(r, answer) PROVE Made(r, answer)'
<1>1. /\ Case' = Case
      /\ request'[r].input = request[r].input /\ request'[r].op = request[r].op
      /\ request'[r].runtime = request[r].runtime /\ request'[r].variant = request[r].variant
      /\ request'[r].response = request[r].response /\ request'[r].fixture = request[r].fixture
      /\ request'[r].recalled = request[r].recalled
  BY DEF Holds, Fields, Case
<1>2. Operation(r)' = Operation(r) /\ Status(r)' = Status(r) /\ Runtime(r)' = Runtime(r) /\ Input(r)' = Input(r)
  BY <1>1 DEF Operation, Status, Runtime, Input
<1>3. MediaOf(r)' = MediaOf(r) /\ RuntimeBodies(r)' = RuntimeBodies(r) /\ Whole(r)' = Whole(r)
  BY <1>1, <1>2 DEF MediaOf, RuntimeBodies, Whole
<1>4. FixtureLayer(r)' = FixtureLayer(r)
  BY <1>1, <1>3 DEF FixtureLayer
<1>5. BodyLayers(r)' = BodyLayers(r)
  BY <1>1, <1>2, <1>3, <1>4 DEF BodyLayers
<1>6. Bases(r)' = Bases(r)
  BY <1>1, <1>2, <1>3 DEF Bases
<1>7. Rendered(r, answer)' = Rendered(r, answer)
  BY <1>2, <1>5, <1>6 DEF Rendered
<1>8. DraftedError(r, answer)' = DraftedError(r, answer)
  BY <1>1, <1>2 DEF DraftedError
<1> QED  BY <1>7, <1>8 DEF Made

\* A 500 of the boundary claims nothing of its body.
LEMMA SentMade ==
  ASSUME NEW r, NEW answer, Made(r, answer) PROVE Made(r, Sent(answer))
<1>1. Sent(answer) = answer \/ Sent(answer) = InternalError("internal")
  BY DEF Sent
<1>2. InternalError("internal").schema = <<>> /\ InternalError("internal").by # "render"
  BY DEF InternalError, Reply
<1>3. Made(r, InternalError("internal"))
  BY <1>2 DEF Made, DraftedError
<1> QED  BY <1>1, <1>3

LEMMA AnswersHold ==
  ASSUME Shaped, NEW r \in Requests, NEW answer, Answer(r, answer), chosen' = chosen, Made(r, answer)
  PROVE  \A a \in Served(r)' : Made(r, a)'
<1>1. /\ Moved(r, {"pc", "answer"})
      /\ request'[r].answer = <<answer>>
  BY AnswerMoves
<1>2. Holds(r)
  BY <1>1 DEF Moved, Holds
<1>3. Made(r, answer)'
  BY <1>2, MadeHolds
<1>4. Served(r)' = {answer}
  BY <1>1 DEF Served
<1> QED  BY <1>3, <1>4

LEMMA RenderMade ==
  ASSUME NEW r \in Requests, Render(r)
  PROVE  \E answer : Answer(r, answer) /\ Made(r, answer)
<1>1. ASSUME Answer(r, InternalError("callback")) PROVE \E answer : Answer(r, answer) /\ Made(r, answer)
  <2>1. InternalError("callback").schema = <<>> /\ InternalError("callback").by # "render"
    BY DEF InternalError, Reply
  <2>2. Made(r, InternalError("callback"))
    BY <2>1 DEF Made, DraftedError
  <2> QED  BY <1>1, <2>2
<1> DEFINE Of(base) == [Reply("render", Status(r), base.value) EXCEPT
                          !.body = Laid(base.value, BodyLayers(r)), !.schema = base.schema,
                          !.reported = base.reported]
<1>2. Answer(r, InternalError("callback")) \/ \E base \in Bases(r) : Answer(r, Sent(Of(base)))
  BY DEF Render
<1>3. \A base : /\ Of(base).by = "render" /\ Of(base).status = Status(r) /\ Of(base).base = base.value
                /\ Of(base).schema = base.schema /\ Of(base).reported = base.reported
                /\ Of(base).body = Laid(base.value, BodyLayers(r))
  BY DEF Reply
<1> HIDE DEF Of
<1>4. ASSUME NEW base \in Bases(r) PROVE Made(r, Sent(Of(base)))
  <2>1. Rendered(r, Of(base))
    BY <1>3 DEF Rendered
  <2>2. Made(r, Of(base))
    BY <1>3, <2>1 DEF Made
  <2> QED  BY <2>2, SentMade
<1> QED  BY <1>1, <1>2, <1>4

LEMMA FailWithMade ==
  ASSUME NEW r \in Requests, Ready(r), FailWith(r)
  PROVE  \E answer : Answer(r, answer) /\ Made(r, answer)
<1> DEFINE failure == request[r].failure[1]
           media == ErrorMedia(Operation(r), failure.status, Case.errors)
           reply == Reply(failure.by, failure.status, Envelope)
           Of(d) == [reply EXCEPT !.schema = <<media[1].schema>>, !.reported = d.reported,
                                  !.body = d.value, !.base = d.value]
<1>1. failure.by # "render"
  BY DEF FailWith, AtStage, Ready, Sound, Failed, Refusable
<1>2. \/ Answer(r, Sent(reply))
      \/ /\ request[r].op # 0 /\ media # <<>>
         /\ \E d \in Drafts(media[1].schema, Case.options) : Answer(r, Sent(Of(d)))
  BY DEF FailWith
<1>3. reply.by = failure.by /\ reply.schema = <<>>
  BY DEF Reply
<1>4. \A d : /\ Of(d).by = failure.by /\ Of(d).status = failure.status
             /\ Of(d).schema = <<media[1].schema>> /\ Of(d).reported = d.reported
             /\ Of(d).body = d.value /\ Of(d).base = d.value
  <2> HIDE DEF media, failure
  <2> QED  BY DEF Reply
<1> HIDE DEF failure, reply, Of
<1>5. Made(r, Sent(reply))
  <2>1. Made(r, reply)
    BY <1>1, <1>3 DEF Made, DraftedError
  <2> QED  BY <2>1, SentMade
<1>6. ASSUME request[r].op # 0, media # <<>>, NEW d \in Drafts(media[1].schema, Case.options)
      PROVE  Made(r, Sent(Of(d)))
  <2>1. DraftedError(r, Of(d))
    BY <1>4, <1>6 DEF DraftedError
  <2>2. Made(r, Of(d))
    BY <1>1, <1>4, <2>1 DEF Made
  <2> QED  BY <2>2, SentMade
<1> QED  BY <1>2, <1>5, <1>6

LEMMA UnschemedMade ==
  ASSUME NEW r, NEW by, NEW status, NEW body, by # "render" PROVE Made(r, Reply(by, status, body))
<1>1. Reply(by, status, body).by = by /\ Reply(by, status, body).schema = <<>>
  BY DEF Reply
<1> QED  BY <1>1 DEF Made, DraftedError

\* A stage answers with what is made as it should be, or has not answered.
LEMMA StepAnswers ==
  ASSUME NEW r \in Requests, Ready(r), Step(r)
  PROVE  \/ \E answer : Answer(r, answer) /\ Made(r, answer)
         \/ request'[r].pc # "answered"
<1>1. ASSUME NEW i \in DOMAIN Case.inputs, Arrive(r, i) PROVE request'[r].pc # "answered"
  BY <1>1 DEF Arrive, Ready, Shaped, Fields
<1>2. TakeOverride(r) \/ TakeVariant(r) => request'[r].pc # "answered"
  <2>1. TakeOverride(r) => request'[r].pc = "overridden"
    BY DEF TakeOverride, Ready, Shaped, Fields
  <2>2. \A variant : request' = [request EXCEPT ![r].pc = "reading", ![r].variant = variant]
          => request'[r].pc = "reading"
    BY DEF Ready, Shaped, Fields
  <2> QED  BY <2>1, <2>2 DEF TakeVariant
<1>3. ReadBody(r) => request'[r].pc # "answered"
  BY DEF ReadBody, Fail, Ready, Shaped, Fields
<1>4. Validate(r) => request'[r].pc # "answered"
  BY DEF Validate, Go, Fail, Ready, Shaped, Fields
<1>5. Stage(r) => request'[r].pc # "answered"
  BY DEF Stage, Go, Fail, Ready, Shaped, Fields
<1>6. Select(r) => request'[r].pc # "answered"
  BY DEF Select, Fail, Ready, Shaped, Fields
<1>7. TakeFixture(r) \/ Recall(r) => request'[r].pc # "answered"
  BY DEF TakeFixture, Recall, Ready, Shaped, Fields
<1>8. \A by, status : Go(r, "authenticated") \/ Go(r, "unanswered") \/ Fail(r, by, status)
        => request'[r].pc # "answered"
  BY DEF Go, Fail, Ready, Shaped, Fields
<1>9. Made(r, InternalError("callback"))
  BY UnschemedMade DEF InternalError
<1>10. Authenticate(r) => \/ \E answer : Answer(r, answer) /\ Made(r, answer)
                          \/ request'[r].pc # "answered"
  <2>1. \A status : Made(r, Reply("auth", status, Envelope))
    BY UnschemedMade
  <2> QED  BY <1>8, <1>9, <2>1 DEF Authenticate
<1>11. Respond(r) => \/ \E answer : Answer(r, answer) /\ Made(r, answer)
                     \/ request'[r].pc # "answered"
  <2>1. Made(r, Reply("respond", 200, Envelope))
    BY UnschemedMade
  <2> QED  BY <1>8, <1>9, <2>1 DEF Respond
<1> QED
  BY <1>1, <1>2, <1>3, <1>4, <1>5, <1>6, <1>7, <1>10, <1>11, FailWithMade, RenderMade DEF Step

LEMMA StepMade ==
  ASSUME ExchangeInv, ExchangeInv', BodiesMade, NEW r \in Requests, Step(r) PROVE BodiesMade'
<1>1. Ready(r)
  BY DEF ExchangeInv, Ready
<1>2. chosen' = chosen
  BY DEF Step, Arrive, TakeOverride, TakeVariant, ReadBody, Authenticate, Validate, Stage, FailWith,
         Respond, Select, TakeFixture, Recall, Render, Still
<1>3. Alone(r)
  BY RequestSound
<1>4. \A a \in Served(r)' : Made(r, a)'
  <2>1. ASSUME NEW answer, Answer(r, answer), Made(r, answer) PROVE \A a \in Served(r)' : Made(r, a)'
    BY <1>1, <1>2, <2>1, AnswersHold DEF Ready
  <2>2. ASSUME request'[r].pc # "answered" PROVE Served(r)' = {}
    <3>1. request'[r].answer = <<>>
      BY <2>2 DEF ExchangeInv, Sound, Replied
    <3> QED  BY <3>1 DEF Served
  <2> QED  BY <1>1, <2>1, <2>2, StepAnswers
<1>5. ASSUME NEW s \in Requests \ {r}, NEW a \in Served(s)' PROVE Made(s, a)'
  <2>1. request'[s] = request[s]
    BY <1>3 DEF Alone
  <2>2. Holds(s)
    BY <1>2, <2>1 DEF Holds
  <2>3. Made(s, a)
    BY <1>5, <2>1 DEF BodiesMade, Served
  <2> QED  BY <2>2, <2>3, MadeHolds
<1>6. ASSUME NEW s \in Requests, NEW a \in Served(s)' PROVE Made(s, a)'
  <2>1. CASE s = r
    BY <1>4, <1>6, <2>1
  <2>2. CASE s # r
    BY <1>5, <1>6, <2>2
  <2> QED  BY <2>1, <2>2
<1> QED  BY <1>6 DEF BodiesMade

\* Every body that is served is what its stage makes: the base and the layers
\* are those of the response that was selected, and stay the request's.
THEOREM BodiesAreMade == ExchangeSpec => []BodiesMade
<1>1. ExchangeInit => BodiesMade
  <2> SUFFICES ASSUME ExchangeInit, NEW r \in Requests PROVE Served(r) = {}
    BY DEF BodiesMade
  <2>1. request[r].answer = <<>>
    BY DEF ExchangeInit, Fresh
  <2> QED  BY <2>1 DEF Served
<1>2. ASSUME ExchangeInv, ExchangeInv', BodiesMade, [ExchangeNext]_exchangeVars PROVE BodiesMade'
  <2>1. ASSUME NEW r \in Requests, Step(r) PROVE BodiesMade'
    BY <1>2, <2>1, StepMade
  <2>2. ASSUME Control \/ UNCHANGED exchangeVars PROVE BodiesMade'
    <3>1. request' = request /\ \A r \in Requests : Holds(r)
      BY <2>2 DEF Control, exchangeVars, Holds
    <3>2. ASSUME NEW r \in Requests, NEW a \in Served(r)' PROVE Made(r, a)'
      <4>1. Made(r, a)
        BY <1>2, <3>1, <3>2 DEF BodiesMade, Served
      <4> QED  BY <3>1, <4>1, MadeHolds
    <3> QED  BY <3>2 DEF BodiesMade
  <2> QED  BY <1>2, <2>1, <2>2 DEF ExchangeNext
<1> QED  BY <1>1, <1>2, ExchangeKeeps, PTL DEF ExchangeSpec
=============================================================================
