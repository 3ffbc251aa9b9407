-------------------------- MODULE MemoryStoreProofs --------------------------
(***************************************************************************)
(* The in-process Store implements TtlMap, for every set of keys, values   *)
(* and TTLs and for every bound on counters and time.                      *)
(***************************************************************************)
EXTENDS MemoryStore, TLAPS

USE DEF Deadline, Entry, EntryMap, Values, Numbers, Live, Expired, DeadlineAfter

\* The type invariant.
THEOREM TypeCorrect == Spec => []TypeOK
<1> USE NeverAssumption, TtlsAssumption, BoundsAssumption DEF TypeOK
<1>1. Init => TypeOK
  BY DEF Init, ValueReply
<1>2. TypeOK /\ [Next]_vars => TypeOK'
  <2> SUFFICES ASSUME TypeOK, [Next]_vars PROVE TypeOK'
    OBVIOUS
  <2>1. ASSUME NEW k \in Keys, Get(k) PROVE TypeOK'
    BY <2>1 DEF Get, Touch, ValueReply
  <2>2. ASSUME NEW k \in Keys, NEW v \in Values, NEW ttl \in Ttls, Set(k, v, ttl)
        PROVE TypeOK'
    BY <2>2 DEF Set, Put, ValueReply
  <2>3. ASSUME NEW k \in Keys, NEW v \in Values, NEW ttl \in Ttls, SetIfAbsent(k, v, ttl)
        PROVE TypeOK'
    <3>1. Vacant(entries, k, now) \in BOOLEAN
      BY DEF Vacant
    <3>2. entries' \in EntryMap(Keys, Values) /\ now' = now
      BY <2>3 DEF SetIfAbsent, Put
    <3>3. reply' \in {"claimed"} \X BOOLEAN
      BY <2>3, <3>1, Zenon DEF SetIfAbsent, ClaimReply
    <3>4. QED
      BY <3>2, <3>3
  <2>4. ASSUME NEW k \in Keys, Delete(k) PROVE TypeOK'
    BY <2>4 DEF Delete, Drop, ValueReply
  <2>5. ASSUME NEW k \in Keys, Incr(k) PROVE TypeOK'
    <3> DEFINE next == IncrBase(Live(entries[k], now)) + 1
    <3>1. next \in Numbers
      BY <2>5 DEF Incr, IncrBase
    <3>2. IncrDeadline(entries, k, now) \in Deadline
      BY DEF IncrDeadline, Touch
    <3>3. QED
      BY <2>5, <3>1, <3>2 DEF Incr, ValueReply
  <2>6. CASE Clear
    BY <2>6 DEF Clear, ValueReply
  <2>7. CASE Tick
    BY <2>7 DEF Tick
  <2>8. CASE UNCHANGED vars
    BY <2>8 DEF vars
  <2>9. QED
    BY <2>1, <2>2, <2>3, <2>4, <2>5, <2>6, <2>7, <2>8 DEF Next
<1>3. QED
  BY <1>1, <1>2, PTL DEF Spec

\* Every step of the lazy Map is a step of the eager one, or leaves what a
\* caller sees as it was.
LEMMA StepImplements ==
  TypeOK /\ [Next]_vars => [Promise!Next]_(Promise!vars)
<1> SUFFICES ASSUME TypeOK, [Next]_vars PROVE [Promise!Next]_(Promise!vars)
  OBVIOUS
<1> USE NeverAssumption, TtlsAssumption, BoundsAssumption, AbsentAssumption
    DEF TypeOK, Visible, Promise!Put, Promise!Drop, Promise!DeadlineAfter,
        Promise!Live, Promise!Expired
<1>0. entries \in EntryMap(Keys, Values) /\ now \in Nat
  OBVIOUS
<1>1. ASSUME NEW k \in Keys, Get(k) PROVE Promise!Get(k)
  BY <1>1 DEF Get, Touch, ValueReply, Promise!Get, Promise!ValueReply
<1>2. ASSUME NEW k \in Keys, NEW v \in Values, NEW ttl \in Ttls, Set(k, v, ttl)
      PROVE Promise!Set(k, v, ttl)
  <2>1. reply' = Promise!ValueReply(Absent) /\ now' = now
    BY <1>2 DEF Set, ValueReply, Promise!ValueReply
  <2>2. DeadlineAfter(now, ttl) = Never \/ ~ now > DeadlineAfter(now, ttl)
    OBVIOUS
  <2>3. Visible' = Promise!Put(Visible, k, v, now, ttl)
    BY <1>2, <2>2 DEF Set, Put
  <2>4. QED
    BY <2>1, <2>3 DEF Promise!Set
<1>3. ASSUME NEW k \in Keys, NEW v \in Values, NEW ttl \in Ttls, SetIfAbsent(k, v, ttl)
      PROVE Promise!SetIfAbsent(k, v, ttl)
  <2>1. reply' = Promise!ClaimReply(Visible[k] = Absent) /\ now' = now
    BY <1>3, Zenon DEF SetIfAbsent, Vacant, ClaimReply, Promise!ClaimReply
  <2>2. CASE Visible[k] = Absent
    BY <1>3, <2>1, <2>2 DEF SetIfAbsent, Put, Vacant, Promise!SetIfAbsent
  <2>3. CASE Visible[k] # Absent
    BY <1>3, <2>1, <2>3 DEF SetIfAbsent, Vacant, Promise!SetIfAbsent
  <2>4. QED
    BY <2>2, <2>3
<1>4. ASSUME NEW k \in Keys, Delete(k) PROVE Promise!Delete(k)
  BY <1>4 DEF Delete, Drop, ValueReply, Promise!Delete, Promise!ValueReply
<1>5. ASSUME NEW k \in Keys, Incr(k) PROVE Promise!Incr(k)
  <2> DEFINE old == Live(entries[k], now)
             base == IncrBase(old)
  <2>1. old = Visible[k] /\ old \in Entry(Values) \cup {Absent}
    OBVIOUS
  <2>2. base \in Nat /\ base + 1 <= MaxCount
    BY <1>5, <2>1 DEF Incr, IncrBase
  <2>3. IncrDeadline(entries, k, now) = IF old = Absent THEN Never ELSE old.deadline
    BY DEF IncrDeadline, Touch
  <2>4. IncrDeadline(entries, k, now) = Never
        \/ ~ now > IncrDeadline(entries, k, now)
    BY <2>1, <2>3
  <2>5. Visible' = [Visible EXCEPT ![k] = [value |-> base + 1,
                      deadline |-> IF old = Absent THEN Never ELSE old.deadline]]
    BY <1>5, <2>2, <2>3, <2>4 DEF Incr
  <2>6. reply' = Promise!ValueReply(base + 1) /\ now' = now /\ base < MaxCount
    BY <1>5, <2>2 DEF Incr, ValueReply, Promise!ValueReply
  <2>7. QED
    BY <2>1, <2>5, <2>6 DEF Promise!Incr, Promise!Numbers, IncrBase
<1>6. ASSUME Clear PROVE Promise!Clear
  BY <1>6 DEF Clear, ValueReply, Promise!Clear, Promise!ValueReply
<1>7. ASSUME Tick PROVE Promise!Tick
  BY <1>7 DEF Tick, Promise!Tick
<1>8. ASSUME UNCHANGED vars PROVE UNCHANGED Promise!vars
  BY <1>8 DEF vars, Promise!vars
<1>9. QED
  BY <1>1, <1>2, <1>3, <1>4, <1>5, <1>6, <1>7, <1>8
     DEF Next, Promise!Next, Promise!Values, Promise!Numbers

\* A deadline a caller sees is moved by a set and by nothing else.
THEOREM DeadlinesKept == Spec => WindowKept
<1> DEFINE Step == \A k \in Keys :
                     (/\ Visible[k] # Absent
                      /\ Visible'[k] # Absent
                      /\ Visible[k].deadline # Visible'[k].deadline)
                     => \E v \in Values, ttl \in Ttls : Set(k, v, ttl)
<1> USE NeverAssumption, TtlsAssumption, BoundsAssumption DEF TypeOK, Visible
<1>1. TypeOK /\ [Next]_vars => [Step]_vars
  <2> SUFFICES ASSUME TypeOK, Next, NEW k \in Keys,
                      Visible[k] # Absent, Visible'[k] # Absent,
                      Visible[k].deadline # Visible'[k].deadline
               PROVE  \E v \in Values, ttl \in Ttls : Set(k, v, ttl)
    OBVIOUS
  <2>1. ~ \E j \in Keys : Get(j) \/ Delete(j)
    BY DEF Get, Delete, Touch, Drop
  <2>2. ASSUME NEW j \in Keys, Incr(j) PROVE FALSE
    BY <2>2 DEF Incr, IncrDeadline, Touch
  <2>3. ~ \E j \in Keys, v \in Values, ttl \in Ttls : SetIfAbsent(j, v, ttl)
    BY DEF SetIfAbsent, Vacant, Put
  <2>4. ~Clear /\ ~Tick
    BY DEF Clear, Tick
  <2>5. ASSUME NEW j \in Keys, NEW v \in Values, NEW ttl \in Ttls, Set(j, v, ttl)
        PROVE j = k
    BY <2>5 DEF Set, Put
  <2>6. QED
    BY <2>1, <2>2, <2>3, <2>4, <2>5 DEF Next
<1>2. QED
  BY <1>1, TypeCorrect, PTL DEF Spec, WindowKept

\* The Store implements the eager map (the property the run MCStore checks).
THEOREM Refinement == Spec => ImplementsTtlMap
<1>1. Init => Promise!Init
  BY DEF Init, Visible, ValueReply, Promise!Init, Promise!ValueReply
<1>2. QED
  BY <1>1, TypeCorrect, StepImplements, PTL DEF Spec, ImplementsTtlMap, Promise!Spec
=============================================================================
