--------------------------- MODULE CaptureProofs ----------------------------
(***************************************************************************)
(* Tenants stay apart, a listing misses no registration that was there     *)
(* before and after it, a read recalls what was minted, every linked       *)
(* response can be evicted and the link table stays within its bound: for  *)
(* every set of webhooks, scopes, identifiers and operations, whatever     *)
(* their rules, and for every bound.                                       *)
(***************************************************************************)
EXTENDS Capture, SequenceTheorems, FiniteSetTheorems, TLAPS

(***************************************************************************)
(* The registry: what its operations keep of its types.                    *)
(***************************************************************************)
LEMMA WithKeyType ==
  ASSUME NEW s \in Seq(Keys), NEW k \in Keys
  PROVE  WithKey(s, k) \in Seq(Keys)
BY DEF WithKey

LEMMA PlaceType ==
  ASSUME NEW s \in Seq(Keys), NEW k, Indexed(s, k)
  PROVE  Place(s, k) \in 1 .. Len(s) /\ s[Place(s, k)] = k
BY DEF Indexed, Place

LEMMA WithoutKeyType ==
  ASSUME NEW s \in Seq(Keys), NEW k
  PROVE  WithoutKey(s, k) \in Seq(Keys)
<1>1. CASE ~Indexed(s, k)
  BY <1>1 DEF WithoutKey
<1>2. CASE Indexed(s, k)
  <2> DEFINE n == Len(s) - 1
  <2>1. Place(s, k) \in 1 .. Len(s)
    BY <1>2, PlaceType
  <2>2. n \in Nat
    BY <2>1
  <2>3. \A p \in 1 .. n : (IF p < Place(s, k) THEN s[p] ELSE s[p + 1]) \in Keys
    BY <2>1, <2>2
  <2> QED
    BY <1>2, <2>2, <2>3 DEF WithoutKey
<1> QED
  BY <1>1, <1>2

LEMMA NextType ==
  ASSUME NEW s \in Seq(Keys), NEW k, NEW next \in Nat
  PROVE  NextAfterDelete(next, s, k) \in Nat
<1>1. CASE Indexed(s, k) /\ Place(s, k) < next
  BY <1>1, PlaceType DEF NextAfterDelete
<1> QED
  BY <1>1 DEF NextAfterDelete

LEMMA StepType ==
  ASSUME NEW l \in Listing, NEW s \in Seq(Keys), registered \in [Keys -> Urls \cup {Absent}]
  PROVE  Step(l, s) \in Listing
<1>1. l.next \in Nat
  BY DEF Listing
<1>2. CASE l.next \in DOMAIN s
  <2>1. s[l.next] \in Keys
    BY <1>2
  <2>2. registered[s[l.next]] \in Urls \cup {Absent}
    BY <2>1
  <2> DEFINE k == s[l.next]
             v == registered[k]
             e == [l EXCEPT !.pc = "reading", !.key = k, !.next = @ + 1, !.value = v]
  <2>3. Step(l, s) = e
    BY <1>2 DEF Step
  <2> HIDE DEF k, v
  <2>4. l.next + 1 \in Nat /\ k \in Keys /\ v \in Urls \cup {Absent}
    BY <1>1, <2>1, <2>2 DEF k, v
  <2>5. e \in Listing
    BY <2>4 DEF Listing
  <2> QED
    BY <2>3, <2>5
<1>3. CASE l.next \notin DOMAIN s
  BY <1>3 DEF Step, Listing
<1> QED
  BY <1>2, <1>3

LEMMA ShiftedType ==
  ASSUME RegistryTypeOK, NEW k
  PROVE  Shifted(Readers, k) \in [Readers -> Listing]
<1> SUFFICES ASSUME NEW r \in Readers
             PROVE  [listing[r] EXCEPT !.next = NextAfterDelete(@, index, k)] \in Listing
  BY DEF Shifted
<1> DEFINE l == listing[r]
<1>1. l \in Listing /\ index \in Seq(Keys)
  BY DEF RegistryTypeOK
<1> HIDE DEF l
<1>2. l.next \in Nat
  BY <1>1 DEF Listing
<1>3. NextAfterDelete(l.next, index, k) \in Nat
  BY <1>1, <1>2, NextType
<1>4. [l EXCEPT !.next = NextAfterDelete(@, index, k)] \in Listing
  BY <1>1, <1>3 DEF Listing
<1> QED
  BY <1>4 DEF l

LEMMA RegisterType ==
  ASSUME RegistryTypeOK, NEW k \in Keys, NEW url \in Urls, Register(k, url)
  PROVE  RegistryTypeOK'
BY WithKeyType DEF RegistryTypeOK, Register, Touched

LEMMA UnregisterType ==
  ASSUME RegistryTypeOK, NEW k \in Keys, Unregister(k)
  PROVE  RegistryTypeOK'
BY WithoutKeyType, ShiftedType DEF RegistryTypeOK, Unregister, Touched, Drop

LEMMA ClearedType ==
  ASSUME RegistryTypeOK, RegistryCleared
  PROVE  RegistryTypeOK'
BY DEF RegistryTypeOK, RegistryCleared

LEMMA ListType ==
  ASSUME RegistryTypeOK, NEW r \in Readers, StartListing(r) \/ ListFound(r) \/ ListDropped(r)
  PROVE  RegistryTypeOK' /\ UNCHANGED registered
<1> DEFINE l == listing[r]
<1>0. l \in Listing /\ index \in Seq(Keys) /\ registered \in [Keys -> Urls \cup {Absent}]
  BY DEF RegistryTypeOK
<1>1. CASE StartListing(r)
  <2>1. Step(l, index) \in Listing
    BY <1>0, StepType
  <2>2. /\ listing' = [listing EXCEPT ![r] = Step(l, index)]
        /\ steady' = [steady EXCEPT ![r] = {k \in Keys : Indexed(index, k) /\ registered[k] # Absent}]
        /\ UNCHANGED <<index, registered>>
    BY <1>1 DEF StartListing
  <2> HIDE DEF l
  <2> QED
    BY <2>1, <2>2 DEF RegistryTypeOK
<1>2. CASE ListFound(r)
  <2> DEFINE f == [l EXCEPT !.found[l.key] = Append(@, l.value)]
  <2>1. l.value \in Urls /\ l.key \in Keys \cup {Absent} /\ l.found \in [Keys -> Seq(Urls)]
    BY <1>0, <1>2 DEF ListFound, Listing
  <2>2. [l.found EXCEPT ![l.key] = Append(@, l.value)] \in [Keys -> Seq(Urls)]
    <3> DEFINE g == l.found
               v == l.value
               c == l.key
    <3>1. \A k \in Keys : Append(g[k], v) \in Seq(Urls)
      BY <2>1, AppendProperties
    <3>2. \A k \in Keys : [g EXCEPT ![c] = Append(g[c], v)][k]
                              = IF k = c THEN Append(g[k], v) ELSE g[k]
      BY <2>1
    <3>3. [g EXCEPT ![c] = Append(g[c], v)] = [k \in Keys |-> IF k = c THEN Append(g[k], v) ELSE g[k]]
      BY <2>1, <3>2
    <3> QED
      BY <2>1, <3>1, <3>3
  <2>3. f \in Listing
    BY <1>0, <2>2 DEF Listing
  <2> HIDE DEF f
  <2>4. Step(f, index) \in Listing
    BY <1>0, <2>3, StepType
  <2> QED
    BY <1>2, <2>4 DEF RegistryTypeOK, ListFound, f
<1>3. CASE ListDropped(r)
  <2> DEFINE shifted == Shifted(Readers, l.key)
             s == WithoutKey(index, l.key)
  <2>1. shifted \in [Readers -> Listing] /\ s \in Seq(Keys)
    BY <1>0, ShiftedType, WithoutKeyType
  <2>2. Step(shifted[r], s) \in Listing
    BY <1>0, <2>1, StepType
  <2>3. /\ index' = s
        /\ listing' = [shifted EXCEPT ![r] = Step(shifted[r], s)]
        /\ steady' = Touched(l.key) /\ UNCHANGED registered
    BY <1>3 DEF ListDropped
  <2> HIDE DEF shifted, s
  <2> QED
    BY <2>1, <2>2, <2>3 DEF RegistryTypeOK, Touched
<1> QED
  BY <1>1, <1>2, <1>3

(***************************************************************************)
(* The table of linked responses: whatever record() calls interleave, no   *)
(* value escapes the order of eviction.                                    *)
(***************************************************************************)
Distinct(s) == \A p, q \in DOMAIN s : s[p] = s[q] => p = q

LEMMA PushedProperties ==
  ASSUME NEW s \in Seq(Ids), Distinct(s), NEW i \in Ids
  PROVE  /\ Pushed(s, i) \in Seq(Ids) /\ Distinct(Pushed(s, i))
         /\ \A x : Ordered(s, x) \/ x = i => Ordered(Pushed(s, i), x)
<1>1. CASE Ordered(s, i)
  BY <1>1 DEF Pushed
<1>2. CASE ~Ordered(s, i)
  <2> DEFINE t == Append(s, i)
  <2>1. t \in Seq(Ids) /\ Len(t) = Len(s) + 1 /\ t[Len(s) + 1] = i
        /\ \A p \in 1 .. Len(s) : t[p] = s[p]
    BY AppendProperties
  <2>2. Distinct(t)
    BY <1>2, <2>1 DEF Distinct, Ordered
  <2>3. \A x : Ordered(s, x) \/ x = i => Ordered(t, x)
    BY <2>1 DEF Ordered
  <2> QED
    BY <1>2, <2>1, <2>2, <2>3 DEF Pushed
<1> QED
  BY <1>1, <1>2

LEMMA TailProperties ==
  ASSUME NEW s \in Seq(Ids), Distinct(s), Len(s) > 0
  PROVE  /\ Tail(s) \in Seq(Ids) /\ Distinct(Tail(s)) /\ Head(s) \in Ids
         /\ \A x : Ordered(s, x) /\ x # Head(s) => Ordered(Tail(s), x)
<1> DEFINE t == Tail(s)
<1>1. /\ t \in Seq(Ids) /\ Len(t) = Len(s) - 1 /\ Head(s) = s[1] /\ Head(s) \in Ids
      /\ \A p \in 1 .. Len(t) : t[p] = s[p + 1]
  BY EmptySeq, HeadTailProperties
<1>2. Distinct(t)
  <2> SUFFICES ASSUME NEW p \in DOMAIN t, NEW q \in DOMAIN t, t[p] = t[q]
               PROVE  p = q
    BY DEF Distinct
  <2>1. p \in 1 .. Len(t) /\ q \in 1 .. Len(t) /\ Len(t) = Len(s) - 1
    BY <1>1
  <2> HIDE DEF t
  <2>2. p + 1 \in DOMAIN s /\ q + 1 \in DOMAIN s /\ s[p + 1] = s[q + 1]
    BY <1>1, <2>1
  <2> QED
    BY <2>1, <2>2 DEF Distinct
<1>3. ASSUME NEW x, Ordered(s, x), x # Head(s)
      PROVE  Ordered(t, x)
  <2>1. PICK p \in 1 .. Len(s) : s[p] = x
    BY <1>3 DEF Ordered
  <2>2. p - 1 \in 1 .. Len(t) /\ t[p - 1] = x
    BY <1>1, <1>3, <2>1
  <2>3. t \in Seq(Ids)
    BY <1>1
  <2> HIDE DEF t
  <2> QED
    BY <2>2, <2>3 DEF Ordered
<1> QED
  BY <1>1, <1>2, <1>3

LEMMA RecordingType ==
  ASSUME LinkTypeOK, NEW m \in Minters, NEW rec \in Recording
  PROVE  [recording EXCEPT ![m] = rec] \in [Minters -> Recording]
BY DEF LinkTypeOK

\* One turn of the loop of record() by m, once its id is in the order `s`.
LEMMA EvictKeeps ==
  ASSUME LinkTypeOK, NEW m \in Minters, recording[m].pc # "idle",
         NEW s \in Seq(Ids), Distinct(s), Evict(m, s),
         \A i \in Ids : links[i] # Absent =>
           Ordered(s, i) \/ \E n \in Unordered : n # m /\ recording[n].id = i
  PROVE  /\ LinkTypeOK' /\ EveryLinkEvictable'
         /\ \A i \in Ids : links'[i] # Absent => links'[i] = links[i]
<1> USE DEF LinkTypeOK
<1>0. ASSUME NEW rec \in Recording, rec.pc # "set", recording' = [recording EXCEPT ![m] = rec]
      PROVE  /\ recording' \in [Minters -> Recording]
             /\ \A n \in Unordered : n # m => n \in Unordered' /\ recording'[n].id = recording[n].id
  BY <1>0 DEF Unordered
<1>1. CASE OverBound(s)
  <2> DEFINE rec == [recording[m] EXCEPT !.pc = "evicting"]
  <2>1. rec \in Recording /\ rec.pc # "set"
    BY DEF Recording, NotRecording
  <2>2. /\ order' = Tail(s) /\ recording' = [recording EXCEPT ![m] = rec]
        /\ links' = [links EXCEPT ![Head(s)] = Absent]
    BY <1>1 DEF Evict, WithoutOldest, Drop
  <2>3. Len(s) > 0
    BY <1>1, MaxLinksAssumption DEF OverBound
  <2>4. /\ Tail(s) \in Seq(Ids) /\ Distinct(Tail(s)) /\ Head(s) \in Ids
        /\ \A x : Ordered(s, x) /\ x # Head(s) => Ordered(Tail(s), x)
    BY <2>3, TailProperties
  <2> HIDE DEF rec
  <2>5. LinkTypeOK' /\ \A i \in Ids : links'[i] # Absent => links'[i] = links[i] /\ i # Head(s)
    BY <1>0, <2>1, <2>2, <2>4
  <2>6. \A n \in Unordered : n # m => n \in Unordered' /\ recording'[n].id = recording[n].id
    BY <1>0, <2>1, <2>2
  <2>7. ASSUME NEW i \in Ids, links'[i] # Absent
        PROVE  Ordered(order', i) \/ \E n \in Unordered' : recording'[n].id = i
    <3>1. links[i] # Absent /\ i # Head(s)
      BY <2>5, <2>7
    <3>2. CASE Ordered(s, i)
      BY <2>2, <2>4, <3>1, <3>2
    <3>3. CASE \E n \in Unordered : n # m /\ recording[n].id = i
      BY <2>6, <3>3
    <3> QED
      BY <3>1, <3>2, <3>3
  <2>8. EveryLinkEvictable'
    <3>1. \A p, q \in DOMAIN order' : order'[p] = order'[q] => p = q
      BY <2>2, <2>4 DEF Distinct
    <3> QED
      BY <2>7, <3>1 DEF EveryLinkEvictable
  <2> QED
    BY <2>5, <2>8
<1>2. CASE ~OverBound(s)
  <2>1. NotRecording \in Recording /\ NotRecording.pc # "set"
    BY DEF Recording, NotRecording
  <2>2. order' = s /\ recording' = [recording EXCEPT ![m] = NotRecording] /\ links' = links
    BY <1>2 DEF Evict
  <2>3. LinkTypeOK'
    BY <1>0, <2>1, <2>2
  <2>4. \A n \in Unordered : n # m => n \in Unordered' /\ recording'[n].id = recording[n].id
    BY <1>0, <2>1, <2>2
  <2> QED
    BY <2>2, <2>3, <2>4 DEF EveryLinkEvictable, Distinct
<1> QED
  BY <1>1, <1>2

LEMMA ContinueKeeps ==
  ASSUME LinkTypeOK, EveryLinkEvictable, NEW m \in Minters, RecordPush(m) \/ RecordEvict(m)
  PROVE  /\ LinkTypeOK' /\ EveryLinkEvictable'
         /\ \A i \in Ids : links'[i] # Absent => links'[i] = links[i]
<1>0. order \in Seq(Ids) /\ Distinct(order) /\ recording[m] \in Recording
  BY DEF LinkTypeOK, EveryLinkEvictable, Distinct
<1>1. CASE RecordPush(m) /\ recording[m].id \in Ids
  <2> DEFINE s == Pushed(order, recording[m].id)
  <2>1. /\ s \in Seq(Ids) /\ Distinct(s)
        /\ \A x : Ordered(order, x) \/ x = recording[m].id => Ordered(s, x)
    BY <1>0, <1>1, PushedProperties
  <2>2. Evict(m, s)
    BY <1>1 DEF RecordPush
  <2>4. recording[m].pc # "idle"
    BY <1>1 DEF RecordPush
  <2> HIDE DEF s
  <2>3. \A i \in Ids : links[i] # Absent =>
           Ordered(s, i) \/ \E n \in Unordered : n # m /\ recording[n].id = i
    BY <2>1 DEF EveryLinkEvictable
  <2> QED
    BY <2>1, <2>2, <2>3, <2>4, EvictKeeps
<1>2. CASE RecordEvict(m)
  <2>1. m \notin Unordered
    BY <1>2 DEF RecordEvict, Unordered
  <2>2. \A i \in Ids : links[i] # Absent =>
           Ordered(order, i) \/ \E n \in Unordered : n # m /\ recording[n].id = i
    BY <2>1 DEF EveryLinkEvictable
  <2> QED
    BY <1>0, <1>2, <2>2, EvictKeeps DEF RecordEvict
<1>3. RecordPush(m) => recording[m].id \in Ids
  BY <1>0 DEF RecordPush, Recording, NotRecording
<1> QED
  BY <1>1, <1>2, <1>3

LEMMA RecordKeeps ==
  ASSUME LinkTypeOK, EveryLinkEvictable, NEW m \in Minters, NEW i \in Ids, RecordSet(m, i)
  PROVE  LinkTypeOK' /\ EveryLinkEvictable'
<1> DEFINE rec == [pc |-> "set", id |-> i]
<1>1. rec \in Recording /\ rec.pc = "set" /\ rec.id = i
  BY DEF Recording
<1>2. /\ recording[m].pc = "idle" /\ links' = [links EXCEPT ![i] = m]
      /\ recording' = [recording EXCEPT ![m] = rec] /\ order' = order
  BY DEF RecordSet
<1> HIDE DEF rec
<1>3. LinkTypeOK'
  BY <1>1, <1>2 DEF LinkTypeOK
<1>4. /\ m \in Unordered' /\ recording'[m].id = i
      /\ \A n \in Unordered : n \in Unordered' /\ recording'[n].id = recording[n].id
  BY <1>1, <1>2 DEF LinkTypeOK, Unordered
<1>5. \A x \in Ids : x # i => links'[x] = links[x]
  BY <1>2 DEF LinkTypeOK
<1> QED
  BY <1>2, <1>3, <1>4, <1>5 DEF EveryLinkEvictable

LEMMA ForgetKeeps ==
  ASSUME LinkTypeOK, EveryLinkEvictable, LinksCleared \/ \E i \in Ids : LinkExpire(i)
  PROVE  /\ LinkTypeOK' /\ EveryLinkEvictable'
         /\ \A i \in Ids : links'[i] # Absent => links'[i] = links[i]
<1>1. CASE LinksCleared
  <2>1. order' = << >> /\ links' = [i \in Ids |-> Absent] /\ recording' = recording
    BY <1>1 DEF LinksCleared
  <2> QED
    BY <2>1 DEF LinkTypeOK, EveryLinkEvictable
<1>2. ASSUME NEW i \in Ids, LinkExpire(i)
      PROVE  /\ LinkTypeOK' /\ EveryLinkEvictable'
             /\ \A x \in Ids : links'[x] # Absent => links'[x] = links[x]
  <2>1. links' = [links EXCEPT ![i] = Absent] /\ order' = order /\ recording' = recording
    BY <1>2 DEF LinkExpire, Drop
  <2>2. \A x \in Ids : links'[x] # Absent => links'[x] = links[x]
    BY <2>1 DEF LinkTypeOK
  <2> QED
    BY <2>1, <2>2 DEF LinkTypeOK, EveryLinkEvictable, Unordered
<1> QED
  BY <1>1, <1>2

(***************************************************************************)
(* Requests, the Store and emissions.                                      *)
(***************************************************************************)
\* Only an accepted request has a pass, and only a request of an operation.
PassesAccepted ==
  \A i \in DOMAIN requests :
    /\ requests[i].pc # "done" => requests[i].accepted
    /\ requests[i].pc # "done" \/ requests[i].retry = "kept" => requests[i].op \in Operations

\* What is registered was registered by a request of that scope.
RegisteredByItsOwn ==
  \A w \in Webhooks, scope \in Scopes :
    registered[<<w, scope>>] # Absent => Registers(registered[<<w, scope>>], w, scope)

\* So is what an emission has found, and that is where it goes.
FoundItsOwn ==
  \A n \in DOMAIN emissions :
    emissions[n].registered # Absent =>
      /\ Registers(emissions[n].registered, emissions[n].webhook, emissions[n].scope)
      /\ emissions[n].pc = "sent" => emissions[n].to = emissions[n].registered

\* The inductive invariant.
IInv == /\ TypeOK /\ PassesAccepted /\ RegisteredByItsOwn /\ FoundItsOwn
        /\ RecallsWhatWasMinted /\ EveryLinkEvictable

\* What a request is does not change; how far it is does.
SameRequests ==
  \A i \in DOMAIN requests :
    /\ i \in DOMAIN requests'
    /\ requests'[i].op = requests[i].op /\ requests'[i].scope = requests[i].scope
    /\ requests'[i].url = requests[i].url /\ requests'[i].id = requests[i].id
    /\ requests'[i].accepted = requests[i].accepted

LEMMA RegistersStays ==
  ASSUME SameRequests, NEW i, NEW w, NEW scope, Registers(i, w, scope)
  PROVE  Registers(i, w, scope)'
BY DEF SameRequests, Registers, RulesOf

\* The three ways in which a step changes the sequence of requests.
LEMMA RequestType ==
  ASSUME TypeOK, NEW i \in DOMAIN requests
  PROVE  /\ i \in Requests /\ requests[i] \in Request
         /\ requests[i].rule \in Nat \ {0}
<1>1. requests \in Seq(Request) /\ Len(requests) <= MaxRequests /\ MaxRequests \in Nat
  BY BoundsAssumption DEF TypeOK
<1>2. requests[i] \in Request /\ i \in Requests
  BY <1>1 DEF Requests
<1>3. \A e \in Request : e.rule \in Nat \ {0}
  BY DEF Request
<1> QED
  BY <1>2, <1>3

LEMMA ProgressKeeps ==
  ASSUME TypeOK, PassesAccepted, NEW i \in DOMAIN requests, NEW e \in Request,
         requests' = [requests EXCEPT ![i] = e],
         e.op = requests[i].op, e.scope = requests[i].scope, e.url = requests[i].url,
         e.id = requests[i].id, e.accepted = requests[i].accepted,
         e.pc # "done" => requests[i].accepted,
         e.pc # "done" \/ e.retry = "kept" => requests[i].op \in Operations
  PROVE  /\ SameRequests /\ PassesAccepted'
         /\ requests' \in Seq(Request) /\ Len(requests') <= MaxRequests
<1>1. requests \in Seq(Request) /\ Len(requests) <= MaxRequests
  BY DEF TypeOK
<1>2. /\ requests' \in Seq(Request) /\ Len(requests') = Len(requests)
      /\ DOMAIN requests' = DOMAIN requests
      /\ requests'[i] = e /\ \A j \in DOMAIN requests : j # i => requests'[j] = requests[j]
  BY <1>1, ExceptSeq
<1>3. SameRequests
  BY <1>2 DEF SameRequests
<1>4. PassesAccepted'
  BY <1>2 DEF PassesAccepted
<1> QED
  BY <1>1, <1>2, <1>3, <1>4

LEMMA NewRequestKeeps ==
  ASSUME TypeOK, PassesAccepted, NEW e \in Request, requests' = Append(requests, e),
         Len(requests) < MaxRequests, e.pc # "done" => e.accepted,
         e.pc # "done" \/ e.retry = "kept" => e.op \in Operations
  PROVE  /\ SameRequests /\ PassesAccepted'
         /\ requests' \in Seq(Request) /\ Len(requests') <= MaxRequests
         /\ Len(requests) + 1 \in DOMAIN requests' /\ requests'[Len(requests) + 1] = e
         /\ Len(requests) + 1 \in Requests
<1>1. requests \in Seq(Request) /\ MaxRequests \in Nat
  BY BoundsAssumption DEF TypeOK
<1>2. /\ requests' \in Seq(Request) /\ Len(requests') = Len(requests) + 1
      /\ requests'[Len(requests) + 1] = e
      /\ \A j \in 1 .. Len(requests) : requests'[j] = requests[j]
  BY <1>1, AppendProperties
<1>3. DOMAIN requests = 1 .. Len(requests) /\ DOMAIN requests' = 1 .. Len(requests) + 1
  BY <1>1, <1>2
<1>4. SameRequests
  BY <1>2, <1>3 DEF SameRequests
<1>5. PassesAccepted'
  BY <1>2, <1>3 DEF PassesAccepted
<1> QED
  BY <1>1, <1>2, <1>3, <1>4, <1>5 DEF Requests

\* What is known of requests after a step.
RequestsKept ==
  /\ SameRequests /\ PassesAccepted'
  /\ requests' \in Seq(Request) /\ Len(requests') <= MaxRequests

LEMMA NextRuleKeeps ==
  ASSUME TypeOK, PassesAccepted, NEW i \in DOMAIN requests, requests[i].pc # "done",
         NextRule(i)
  PROVE  RequestsKept
<1> DEFINE r == requests[i]
           e == [r EXCEPT !.rule = @ + 1, !.pc = "capturing"]
<1>1. r \in Request /\ r.rule \in Nat \ {0} /\ r.accepted /\ r.op \in Operations
  BY RequestType DEF PassesAccepted
<1>2. requests' = [requests EXCEPT ![i] = e]
  BY DEF NextRule, TypeOK
<1> HIDE DEF r
<1>3. r.rule + 1 \in Nat \ {0}
  BY <1>1
<1>4. /\ e \in Request /\ e.op = r.op /\ e.scope = r.scope /\ e.url = r.url /\ e.id = r.id
      /\ e.accepted = r.accepted
  BY <1>1, <1>3 DEF Request
<1> HIDE DEF e
<1> QED
  BY <1>1, <1>2, <1>4, ProgressKeeps DEF RequestsKept, r

LEMMA PcKeeps ==
  ASSUME TypeOK, PassesAccepted, NEW i \in DOMAIN requests,
         NEW p \in {"capturing", "recording", "done"},
         requests[i].accepted, requests[i].op \in Operations,
         requests' = [requests EXCEPT ![i].pc = p]
  PROVE  RequestsKept
<1> DEFINE r == requests[i]
           e == [r EXCEPT !.pc = p]
<1>1. r \in Request
  BY RequestType
<1>2. requests' = [requests EXCEPT ![i] = e]
  BY DEF TypeOK
<1>3. r.accepted /\ r.op \in Operations
  OBVIOUS
<1> HIDE DEF r
<1>4. /\ e \in Request /\ e.op = r.op /\ e.scope = r.scope /\ e.url = r.url /\ e.id = r.id
      /\ e.accepted = r.accepted
  BY <1>1 DEF Request
<1> HIDE DEF e
<1> QED
  BY <1>2, <1>3, <1>4, ProgressKeeps DEF RequestsKept, r

\* What does not look at the pc, the rule or the retry of a request stays true.
LEMMA KeptInvariants ==
  ASSUME IInv, RequestsKept
  PROVE  /\ emissions' = emissions => FoundItsOwn'
         /\ registered' = registered => RegisteredByItsOwn'
         /\ (\A id \in Ids : links'[id] # Absent => links'[id] = links[id])
              => RecallsWhatWasMinted'
<1>1. \A i, w, scope : Registers(i, w, scope) => Registers(i, w, scope)'
  BY RegistersStays DEF RequestsKept
<1>2. emissions' = emissions => FoundItsOwn'
  BY <1>1 DEF IInv, FoundItsOwn
<1>3. registered' = registered => RegisteredByItsOwn'
  BY <1>1 DEF IInv, RegisteredByItsOwn
<1>4. (\A id \in Ids : links'[id] # Absent => links'[id] = links[id]) => RecallsWhatWasMinted'
  BY DEF IInv, RecallsWhatWasMinted, Recall, RequestsKept, SameRequests
<1> QED
  BY <1>2, <1>3, <1>4

\* A step that touches requests alone.
LEMMA RequestsOnly ==
  ASSUME IInv, RequestsKept, UNCHANGED <<registryVars, linkVars, callbacks, emissions, resets>>
  PROVE  IInv'
<1>0. /\ emissions' = emissions /\ registered' = registered /\ links' = links
      /\ callbacks' = callbacks /\ resets' = resets /\ order' = order
      /\ recording' = recording /\ index' = index /\ listing' = listing /\ steady' = steady
  BY DEF registryVars, linkVars
<1>1. TypeOK'
  BY <1>0 DEF IInv, TypeOK, RegistryTypeOK, LinkTypeOK, RequestsKept
<1>2. EveryLinkEvictable'
  BY <1>0 DEF IInv, EveryLinkEvictable, Unordered
<1>3. FoundItsOwn' /\ RegisteredByItsOwn' /\ RecallsWhatWasMinted'
  BY <1>0, KeptInvariants
<1> QED
  BY <1>1, <1>2, <1>3 DEF IInv, RequestsKept

LEMMA AnswerKeeps ==
  ASSUME IInv, NEW in \in Inputs, Answer(in)
  PROVE  IInv'
<1> DEFINE p == IF MayCapture(in.accepted) THEN "capturing" ELSE "done"
           e == [op |-> in.op, scope |-> in.scope, url |-> in.url, id |-> in.id,
                 accepted |-> in.accepted, pc |-> p, rule |-> 1, retry |-> "kept"]
<1>1. in \in Input
  BY InputsAssumption
<1>2. p \in {"capturing", "recording", "done"} /\ (p # "done" => in.accepted)
  BY <1>1 DEF MayCapture
<1>3. requests' = Append(requests, e) /\ Len(requests) < MaxRequests
  BY DEF Answer, MayJoin
<1> HIDE DEF p
<1>4. /\ e \in Request /\ (e.pc # "done" => e.accepted) /\ e.op \in Operations
  BY <1>1, <1>2 DEF Input, Request
<1> HIDE DEF e
<1>5. RequestsKept
  BY <1>3, <1>4, NewRequestKeeps DEF RequestsKept, IInv
<1>6. UNCHANGED <<registryVars, linkVars, callbacks, emissions, resets>>
  BY DEF Answer
<1> QED
  BY <1>5, <1>6, RequestsOnly

LEMMA ReplayKeeps ==
  ASSUME IInv, NEW i \in Requests, Replay(i)
  PROVE  IInv'
<1> DEFINE r == requests[i]
           first == 1
           e == [r EXCEPT !.pc = "capturing", !.rule = first, !.retry = "replayed"]
<1>1. /\ i \in DOMAIN requests /\ r.accepted /\ r.retry = "kept"
  BY DEF Replay, MayCapture
<1>2. r \in Request /\ r.op \in Operations
  BY <1>1, RequestType DEF IInv, PassesAccepted
<1>3. requests' = [requests EXCEPT ![i] = e]
  BY DEF Replay, IInv, TypeOK
<1>4. UNCHANGED <<registryVars, linkVars, callbacks, emissions, resets>>
  BY DEF Replay
<1>7. first \in Nat \ {0}
  OBVIOUS
<1> HIDE DEF r, first
<1>5. /\ e \in Request /\ e.op = r.op /\ e.scope = r.scope /\ e.url = r.url /\ e.id = r.id
      /\ e.accepted = r.accepted
  BY <1>2, <1>7 DEF Request
<1> HIDE DEF e
<1>6. RequestsKept
  BY <1>1, <1>2, <1>3, <1>5, ProgressKeeps DEF RequestsKept, IInv, r
<1> QED
  BY <1>4, <1>6, RequestsOnly

\* The rule a pass is at.
LEMMA AtRule ==
  ASSUME IInv, NEW i \in Requests, NEW kind, At(i, kind)
  PROVE  /\ i \in DOMAIN requests /\ requests[i].pc # "done" /\ requests[i].accepted
         /\ requests[i].op \in Operations
         /\ requests[i].rule \in DOMAIN RulesOf(i) /\ RuleAt(i) \in Rule /\ RuleAt(i).kind = kind
<1>1. i \in DOMAIN requests /\ requests[i].pc = "capturing" /\ requests[i].rule <= Len(RulesOf(i))
  BY DEF At, Capturing
<1>2. requests[i].accepted /\ requests[i].op \in Operations /\ requests[i].rule \in Nat \ {0}
  BY <1>1, RequestType DEF IInv, PassesAccepted
<1>3. RulesOf(i) \in Seq(Rule)
  BY <1>2, RulesAssumption DEF RulesOf
<1>4. requests[i].rule \in DOMAIN RulesOf(i)
  BY <1>1, <1>2, <1>3
<1>5. RuleAt(i) \in Rule
  BY <1>3, <1>4 DEF RuleAt
<1> QED
  BY <1>1, <1>2, <1>4, <1>5 DEF At, RuleAt

LEMMA CallbackKeeps ==
  ASSUME IInv, NEW i \in Requests, CaptureCallback(i)
  PROVE  IInv'
<1>1. /\ i \in DOMAIN requests /\ requests[i].pc # "done"
  BY AtRule DEF CaptureCallback
<1>2. RequestsKept
  BY <1>1, NextRuleKeeps DEF CaptureCallback, IInv
<1>3. /\ emissions' = emissions /\ registered' = registered /\ links' = links
      /\ resets' = resets /\ order' = order /\ recording' = recording
      /\ index' = index /\ listing' = listing /\ steady' = steady
  BY DEF CaptureCallback, registryVars, linkVars
<1>4. callbacks' \in [Webhooks -> Urls \cup {Absent}]
  <2>1. i \in Urls /\ callbacks \in [Webhooks -> Urls \cup {Absent}]
    BY SharedAssumption DEF IInv, TypeOK
  <2>2. \/ callbacks' = [callbacks EXCEPT ![RuleAt(i).webhook] = i]
        \/ callbacks' = callbacks
    BY DEF CaptureCallback
  <2> QED
    BY <2>1, <2>2
<1>5. TypeOK'
  BY <1>2, <1>3, <1>4 DEF IInv, TypeOK, RegistryTypeOK, LinkTypeOK, RequestsKept
<1>6. EveryLinkEvictable'
  BY <1>3 DEF IInv, EveryLinkEvictable, Unordered
<1>7. FoundItsOwn' /\ RegisteredByItsOwn' /\ RecallsWhatWasMinted'
  BY <1>2, <1>3, KeptInvariants
<1> QED
  BY <1>2, <1>5, <1>6, <1>7 DEF IInv, RequestsKept

\* A step that registers for request `i`, one that unregisters, and one that does
\* neither.
LEMMA RegistrationKeeps ==
  ASSUME IInv, RequestsKept, NEW w \in Webhooks, NEW scope \in Scopes, NEW i \in Requests,
         \/ Register(<<w, scope>>, i) /\ Registers(i, w, scope)'
         \/ Unregister(<<w, scope>>)
         \/ UNCHANGED registryVars,
         UNCHANGED <<linkVars, callbacks, emissions, resets>>
  PROVE  IInv'
<1> DEFINE k == <<w, scope>>
<1>0. k \in Keys /\ i \in Urls
  BY SharedAssumption
<1>1. RegistryTypeOK /\ registered \in [Webhooks \X Scopes -> Urls \cup {Absent}]
  BY SharedAssumption DEF IInv, TypeOK, RegistryTypeOK
<1>2. RegistryTypeOK'
  BY <1>0, <1>1, RegisterType, UnregisterType DEF registryVars, RegistryTypeOK
<1>3. /\ emissions' = emissions /\ links' = links /\ callbacks' = callbacks
      /\ resets' = resets /\ order' = order /\ recording' = recording
  BY DEF linkVars
<1>4. TypeOK'
  BY <1>2, <1>3 DEF IInv, TypeOK, LinkTypeOK, RequestsKept
<1>5. EveryLinkEvictable'
  BY <1>3 DEF IInv, EveryLinkEvictable, Unordered
<1>6. FoundItsOwn' /\ RecallsWhatWasMinted' /\ (registered' = registered => RegisteredByItsOwn')
  BY <1>3, KeptInvariants
<1>7. ASSUME Register(k, i), Registers(i, w, scope)'
      PROVE  RegisteredByItsOwn'
  <2>1. registered' = [registered EXCEPT ![k] = i]
    BY <1>7 DEF Register
  <2> SUFFICES ASSUME NEW v \in Webhooks, NEW s \in Scopes, registered'[<<v, s>>] # Absent
               PROVE  Registers(registered[<<v, s>>], v, s)'
    BY DEF RegisteredByItsOwn
  <2>2. CASE <<v, s>> = k
    BY <1>1, <1>7, <2>1, <2>2
  <2>3. CASE <<v, s>> # k
    <3>1. registered'[<<v, s>>] = registered[<<v, s>>]
      BY <1>1, <2>1, <2>3
    <3>2. Registers(registered[<<v, s>>], v, s)
      BY <3>1 DEF IInv, RegisteredByItsOwn
    <3>3. \A j : Registers(j, v, s) => Registers(j, v, s)'
      BY RegistersStays DEF RequestsKept
    <3> QED
      BY <3>1, <3>2, <3>3
  <2> QED
    BY <2>2, <2>3
<1>8. ASSUME Unregister(k)
      PROVE  RegisteredByItsOwn'
  <2>1. registered' = [registered EXCEPT ![k] = Absent]
    BY <1>8 DEF Unregister, Drop
  <2> SUFFICES ASSUME NEW v \in Webhooks, NEW s \in Scopes, registered'[<<v, s>>] # Absent
               PROVE  Registers(registered[<<v, s>>], v, s)'
    BY DEF RegisteredByItsOwn
  <2>2. registered'[<<v, s>>] = registered[<<v, s>>]
    BY <1>1, <2>1
  <2>3. Registers(registered[<<v, s>>], v, s)
    BY <2>2 DEF IInv, RegisteredByItsOwn
  <2>4. \A j : Registers(j, v, s) => Registers(j, v, s)'
    BY RegistersStays DEF RequestsKept
  <2> QED
    BY <2>2, <2>3, <2>4
<1>9. RegisteredByItsOwn'
  BY <1>6, <1>7, <1>8 DEF registryVars
<1> QED
  BY <1>4, <1>5, <1>6, <1>9 DEF IInv, RequestsKept

LEMMA RegistryKeeps ==
  ASSUME IInv, NEW i \in Requests, CaptureRegistry(i)
  PROVE  IInv'
<1>1. PICK kind, w, scope :
        /\ At(i, kind) /\ w = RuleAt(i).webhook /\ scope = RuleScope(requests[i].scope, w)
        /\ kind \in {"register", "unregister"}
        /\ \/ Resolves(scope) /\ kind = "unregister" /\ Unregister(<<w, scope>>)
           \/ Resolves(scope) /\ kind = "register" /\ requests[i].url
              /\ Register(<<w, scope>>, i)
           \/ UNCHANGED registryVars
        /\ NextRule(i)
        /\ UNCHANGED <<linkVars, callbacks, emissions, resets>>
  BY DEF CaptureRegistry
<1>2. /\ i \in DOMAIN requests /\ requests[i].pc # "done" /\ requests[i].accepted
      /\ requests[i].op \in Operations /\ requests[i].rule \in DOMAIN RulesOf(i)
      /\ RuleAt(i) \in Rule /\ RuleAt(i).kind = kind
  BY <1>1, AtRule
<1>3. RequestsKept
  BY <1>1, <1>2, NextRuleKeeps DEF IInv
<1>4. w \in Webhooks /\ RuleAt(i) = [kind |-> kind, webhook |-> w]
  BY <1>1, <1>2 DEF Rule
<1>5. scope \in Scopes \cup {Unresolved}
  BY <1>1, <1>2, RequestType, ScopesAssumption DEF IInv, RuleScope, Request
<1>6. Resolves(scope) => scope \in Scopes
  BY <1>5 DEF Resolves
<1>7. kind = "register" /\ requests[i].url => Registers(i, w, scope)
  <2>1. requests[i].op # "control"
    BY <1>2, ControlAssumption
  <2>2. RulesOf(i)[requests[i].rule] = [kind |-> kind, webhook |-> w]
    BY <1>4 DEF RuleAt
  <2> QED
    BY <1>1, <1>2, <2>1, <2>2 DEF Registers, RuleScope
<1>8. Registers(i, w, scope) => Registers(i, w, scope)'
  BY <1>3, RegistersStays DEF RequestsKept
<1>9. UNCHANGED <<linkVars, callbacks, emissions, resets>>
  BY <1>1
<1>10. CASE UNCHANGED registryVars
  BY <1>3, <1>9, <1>10, RequestsOnly
<1>11. CASE Resolves(scope) /\ kind = "unregister" /\ Unregister(<<w, scope>>)
  BY <1>3, <1>4, <1>6, <1>9, <1>11, RegistrationKeeps
<1>12. CASE Resolves(scope) /\ kind = "register" /\ requests[i].url /\ Register(<<w, scope>>, i)
  BY <1>3, <1>4, <1>6, <1>7, <1>8, <1>9, <1>12, RegistrationKeeps
<1> QED
  BY <1>1, <1>10, <1>11, <1>12

LEMMA ControlKeeps ==
  ASSUME IInv, NEW w \in Webhooks, NEW scope \in Scopes, NEW registers \in BOOLEAN,
         Control(w, scope, registers)
  PROVE  IInv'
<1> DEFINE i == Len(requests) + 1
           e == [op |-> "control", scope |-> scope, url |-> registers, id |-> Unresolved,
                 accepted |-> TRUE, pc |-> "done", rule |-> 1, retry |-> "lost"]
<1>1. /\ requests' = Append(requests, e) /\ Len(requests) < MaxRequests
      /\ UNCHANGED <<linkVars, callbacks, emissions, resets>>
      /\ IF registers THEN Register(<<w, scope>>, i) ELSE Unregister(<<w, scope>>)
  BY DEF Control, MayJoin
<1>2. /\ e \in Request /\ e.pc = "done" /\ e.accepted /\ e.retry = "lost" /\ e.op = "control"
      /\ e.url = registers /\ e.scope = scope
  BY DEF Request
<1> HIDE DEF e
<1>3. /\ RequestsKept /\ i \in DOMAIN requests' /\ requests'[i] = e /\ i \in Requests
  BY <1>1, <1>2, NewRequestKeeps DEF RequestsKept, IInv
<1>4. PICK j \in Requests : j = i
  BY <1>3
<1>5. registers => Registers(j, w, scope)'
  BY <1>2, <1>3, <1>4 DEF Registers
<1> QED
  BY <1>1, <1>3, <1>4, <1>5, RegistrationKeeps

\* record() of request i: the write.
LEMMA LinkKeeps ==
  ASSUME IInv, NEW i \in Requests, CaptureLink(i)
  PROVE  IInv'
<1>1. /\ i \in DOMAIN requests /\ requests[i].pc # "done" /\ requests[i].accepted
      /\ requests[i].op \in Operations
  BY AtRule DEF CaptureLink
<1>2. UNCHANGED <<registryVars, callbacks, emissions, resets>>
  BY DEF CaptureLink
<1>3. CASE requests[i].id = Unresolved /\ NextRule(i) /\ UNCHANGED linkVars
  <2>1. RequestsKept
    BY <1>1, <1>3, NextRuleKeeps DEF IInv
  <2> QED
    BY <1>2, <1>3, <2>1, RequestsOnly
<1>4. CASE /\ requests[i].id # Unresolved /\ RecordSet(i, requests[i].id)
           /\ requests' = [requests EXCEPT ![i].pc = "recording"]
  <2>1. RequestsKept
    BY <1>1, <1>4, PcKeeps DEF IInv
  <2>2. PICK id : id = requests[i].id
    OBVIOUS
  <2>3. id \in Ids /\ i \in Minters
    BY <1>1, <1>4, <2>2, RequestType, SharedAssumption DEF IInv, Request
  <2>4. LinkTypeOK' /\ EveryLinkEvictable'
    BY <1>4, <2>2, <2>3, RecordKeeps DEF IInv, TypeOK
  <2>5. TypeOK'
    BY <1>2, <2>1, <2>4 DEF IInv, TypeOK, RegistryTypeOK, RequestsKept, registryVars
  <2>6. FoundItsOwn' /\ RegisteredByItsOwn'
    BY <1>2, <2>1, KeptInvariants DEF registryVars
  <2>7. links' = [links EXCEPT ![id] = i]
    BY <1>4, <2>2 DEF RecordSet
  <2>8. \A x \in Ids : links'[x] = IF x = id THEN i ELSE links[x]
    BY <2>3, <2>7 DEF IInv, TypeOK, LinkTypeOK
  <2>9. RecallsWhatWasMinted'
    BY <1>1, <2>1, <2>2, <2>8 DEF IInv, RecallsWhatWasMinted, Recall, RequestsKept, SameRequests
  <2> QED
    BY <2>1, <2>4, <2>5, <2>6, <2>9 DEF IInv, RequestsKept
<1> QED
  BY <1>3, <1>4 DEF CaptureLink

\* Its push and its evictions.
LEMMA ContinueLinkKeeps ==
  ASSUME IInv, NEW i \in Requests, ContinueLink(i)
  PROVE  IInv'
<1>1. /\ i \in DOMAIN requests /\ requests[i].pc # "done" /\ i \in Minters
  BY SharedAssumption DEF ContinueLink
<1>2. UNCHANGED <<registryVars, callbacks, emissions, resets>>
  BY DEF ContinueLink
<1>3. /\ LinkTypeOK' /\ EveryLinkEvictable'
      /\ \A id \in Ids : links'[id] # Absent => links'[id] = links[id]
  BY <1>1, ContinueKeeps DEF ContinueLink, IInv, TypeOK
<1>4. NextRule(i) \/ requests' = requests
  BY DEF ContinueLink
<1>5. RequestsKept
  <2>1. CASE NextRule(i)
    BY <1>1, <2>1, NextRuleKeeps DEF IInv
  <2>2. CASE requests' = requests
    BY <2>2 DEF RequestsKept, SameRequests, PassesAccepted, IInv, TypeOK
  <2> QED
    BY <1>4, <2>1, <2>2
<1>6. TypeOK'
  BY <1>2, <1>3, <1>5 DEF IInv, TypeOK, RegistryTypeOK, RequestsKept, registryVars
<1>7. FoundItsOwn' /\ RegisteredByItsOwn' /\ RecallsWhatWasMinted'
  BY <1>2, <1>3, <1>5, KeptInvariants DEF registryVars
<1> QED
  BY <1>3, <1>5, <1>6, <1>7 DEF IInv, RequestsKept

LEMMA ObserversType ==
  Cardinality({r \in Readers : listing[r].pc # "idle"}) \in Nat
BY ReadersAssumption, FS_Subset, FS_CardinalityType

\* A step that touches emissions, and requests at most.
LEMMA EmissionsKeep ==
  ASSUME IInv, RequestsKept, UNCHANGED <<registryVars, linkVars, callbacks, resets>>,
         emissions' \in Seq(Emission), Len(emissions') <= MaxObservers, FoundItsOwn'
  PROVE  IInv'
<1>0. /\ registered' = registered /\ links' = links /\ callbacks' = callbacks
      /\ resets' = resets /\ order' = order /\ recording' = recording /\ index' = index
      /\ listing' = listing /\ steady' = steady
  BY DEF registryVars, linkVars
<1>1. TypeOK'
  BY <1>0 DEF IInv, TypeOK, RegistryTypeOK, LinkTypeOK, RequestsKept
<1>2. EveryLinkEvictable'
  BY <1>0 DEF IInv, EveryLinkEvictable, Unordered
<1>3. RegisteredByItsOwn' /\ RecallsWhatWasMinted'
  BY <1>0, KeptInvariants
<1> QED
  BY <1>1, <1>2, <1>3 DEF IInv, RequestsKept

LEMMA SameRequestsKept ==
  ASSUME IInv, requests' = requests
  PROVE  RequestsKept
BY DEF RequestsKept, SameRequests, PassesAccepted, IInv, TypeOK

LEMMA NewEmissionType ==
  ASSUME NEW w \in Webhooks, NEW scope \in Scopes
  PROVE  /\ NewEmission(w, scope) \in Emission
         /\ NewEmission(w, scope).registered = Absent
         /\ NewEmission(w, scope).webhook = w /\ NewEmission(w, scope).scope = scope
BY DEF NewEmission, Emission

LEMMA LookingFinds ==
  ASSUME IInv, NEW e \in Emission
  PROVE  /\ Looking(e) \in Emission /\ Looking(e).pc = "looking"
         /\ Looking(e).registered # Absent =>
              Registers(Looking(e).registered, Looking(e).webhook, Looking(e).scope)
<1> DEFINE v == registered[<<e.webhook, e.scope>>]
<1>1. e.webhook \in Webhooks /\ e.scope \in Scopes
  BY DEF Emission
<1>2. v \in Urls \cup {Absent}
  BY <1>1, SharedAssumption DEF IInv, TypeOK, RegistryTypeOK
<1>3. v # Absent => Registers(v, e.webhook, e.scope)
  BY <1>1 DEF IInv, RegisteredByItsOwn
<1>4. Looking(e) = [e EXCEPT !.pc = "looking", !.registered = v]
  BY DEF Looking, Lookup
<1> HIDE DEF v
<1>5. [e EXCEPT !.pc = "looking", !.registered = v] \in Emission
  BY <1>2 DEF Emission
<1> DEFINE l == [e EXCEPT !.pc = "looking", !.registered = v]
<1>6. l.pc = "looking" /\ l.registered = v /\ l.webhook = e.webhook /\ l.scope = e.scope
  BY DEF Emission
<1> HIDE DEF l
<1>7. Looking(e) = l /\ l \in Emission
  BY <1>4, <1>5 DEF l
<1> QED
  BY <1>3, <1>6, <1>7

LEMMA EndPassKeeps ==
  ASSUME IInv, NEW i \in Requests, EndPass(i)
  PROVE  IInv'
<1> DEFINE emits == IF requests[i].retry = "replayed" THEN <<>> ELSE Emits[requests[i].op]
           new == [n \in DOMAIN emits |-> NewEmission(emits[n], EmitScope(requests[i].scope, emits[n]))]
<1>1. /\ i \in DOMAIN requests /\ requests[i].pc # "done"
      /\ Observers + Len(emits) <= MaxObservers /\ emissions' = emissions \o new
      /\ requests' = [requests EXCEPT ![i].pc = "done"]
      /\ UNCHANGED <<registryVars, linkVars, callbacks, resets>>
  BY DEF EndPass, Capturing
<1>2. requests[i].accepted /\ requests[i].op \in Operations /\ requests[i].scope \in Scopes \cup {Unresolved}
  BY <1>1, RequestType DEF IInv, PassesAccepted, Request
<1>3. RequestsKept
  BY <1>1, <1>2, PcKeeps DEF IInv
<1>4. emits \in Seq(Webhooks)
  <2>1. Emits[requests[i].op] \in Seq(Webhooks)
    BY <1>2, RulesAssumption
  <2> QED
    BY <2>1
<1> HIDE DEF emits
<1>5. \A n \in DOMAIN emits : EmitScope(requests[i].scope, emits[n]) \in Scopes /\ emits[n] \in Webhooks
  BY <1>2, <1>4, ScopesAssumption DEF EmitScope
<1>6. \A n \in DOMAIN emits : new[n] \in Emission /\ new[n].registered = Absent
  BY <1>5, NewEmissionType
<1>7. DOMAIN new = 1 .. Len(emits)
  BY <1>4
<1> HIDE DEF new
<1>8. new \in Seq(Emission) /\ Len(new) = Len(emits)
  <2>1. new = [n \in 1 .. Len(emits) |-> new[n]]
    BY <1>7 DEF new
  <2>2. \A n \in 1 .. Len(emits) : new[n] \in Emission
    BY <1>4, <1>6
  <2>3. Len(emits) \in Nat
    BY <1>4
  <2> QED
    BY <2>1, <2>2, <2>3
<1>9. emissions \in Seq(Emission)
  BY DEF IInv, TypeOK
<1>10. /\ emissions' \in Seq(Emission) /\ Len(emissions') = Len(emissions) + Len(emits)
       /\ \A n \in 1 .. Len(emissions') :
            emissions'[n] = IF n <= Len(emissions) THEN emissions[n] ELSE new[n - Len(emissions)]
  <2>1. emissions' = emissions \o new
    BY <1>1
  <2>2. /\ emissions \o new \in Seq(Emission) /\ Len(emissions \o new) = Len(emissions) + Len(new)
        /\ \A n \in 1 .. Len(emissions) + Len(new) :
             (emissions \o new)[n] = IF n <= Len(emissions) THEN emissions[n] ELSE new[n - Len(emissions)]
    BY <1>8, <1>9, ConcatProperties
  <2> QED
    BY <1>8, <2>1, <2>2
<1>11. Len(emissions') <= MaxObservers
  BY <1>1, <1>4, <1>9, <1>10, ObserversType, BoundsAssumption DEF Observers
<1>12. FoundItsOwn'
  <2> SUFFICES ASSUME NEW n \in 1 .. Len(emissions'), emissions'[n].registered # Absent
               PROVE  /\ Registers(emissions[n].registered, emissions[n].webhook, emissions[n].scope)'
                      /\ emissions'[n].pc = "sent" => emissions'[n].to = emissions'[n].registered
    BY <1>10 DEF FoundItsOwn
  <2>1. n \in 1 .. Len(emissions)
    <3>1. CASE n > Len(emissions)
      <4>1. n - Len(emissions) \in DOMAIN emits
        BY <1>4, <1>9, <1>10, <3>1
      <4>2. new[n - Len(emissions)].registered = Absent
        BY <1>6, <4>1
      <4> QED
        BY <1>9, <1>10, <3>1, <4>2
    <3> QED
      BY <1>9, <3>1
  <2>2. emissions'[n] = emissions[n]
    BY <1>10, <2>1
  <2>3. n \in DOMAIN emissions
    BY <1>9, <2>1
  <2>4. /\ Registers(emissions[n].registered, emissions[n].webhook, emissions[n].scope)
        /\ emissions[n].pc = "sent" => emissions[n].to = emissions[n].registered
    BY <2>2, <2>3 DEF IInv, FoundItsOwn
  <2>5. \A j, v, s : Registers(j, v, s) => Registers(j, v, s)'
    BY <1>3, RegistersStays DEF RequestsKept
  <2> QED
    BY <2>2, <2>4, <2>5
<1>13. UNCHANGED <<registryVars, linkVars, callbacks, resets>>
  BY <1>1
<1>14. emissions' \in Seq(Emission)
  BY <1>10
<1> QED
  BY <1>3, <1>11, <1>12, <1>13, <1>14, EmissionsKeep

\* One emission, in its place or a new one, that has found what its scope has.
LEMMA EmissionKeeps ==
  ASSUME IInv, UNCHANGED <<registryVars, linkVars, requests, callbacks, resets>>,
         NEW e \in Emission,
         e.registered # Absent =>
           /\ Registers(e.registered, e.webhook, e.scope)
           /\ e.pc = "sent" => e.to = e.registered,
         \/ emissions' = Append(emissions, e) /\ Len(emissions) < MaxObservers
         \/ \E n \in DOMAIN emissions : emissions' = [emissions EXCEPT ![n] = e]
  PROVE  IInv'
<1>1. RequestsKept /\ UNCHANGED <<registryVars, linkVars, callbacks, resets>>
  BY SameRequestsKept
<1>2. emissions \in Seq(Emission) /\ Len(emissions) <= MaxObservers /\ MaxObservers \in Nat
  BY BoundsAssumption DEF IInv, TypeOK
<1>3. /\ emissions' \in Seq(Emission) /\ Len(emissions') <= MaxObservers
      /\ \A n \in DOMAIN emissions' :
           emissions'[n] = e \/ (n \in DOMAIN emissions /\ emissions'[n] = emissions[n])
  <2>1. CASE emissions' = Append(emissions, e) /\ Len(emissions) < MaxObservers
    BY <1>2, <2>1, AppendProperties
  <2>2. CASE \E n \in DOMAIN emissions : emissions' = [emissions EXCEPT ![n] = e]
    BY <1>2, <2>2, ExceptSeq
  <2> QED
    BY <2>1, <2>2
<1>4. \A j, v, s : Registers(j, v, s) => Registers(j, v, s)'
  BY <1>1, RegistersStays DEF RequestsKept
<1>5. FoundItsOwn'
  BY <1>3, <1>4 DEF IInv, FoundItsOwn
<1> QED
  BY <1>1, <1>3, <1>5, EmissionsKeep

LEMMA EmitKeeps ==
  ASSUME IInv, NEW w \in Webhooks, NEW scope \in Scopes, Emit(w, scope)
  PROVE  IInv'
<1> DEFINE e == Looking(NewEmission(w, scope))
<1>1. /\ Observers < MaxObservers /\ emissions' = Append(emissions, e)
      /\ UNCHANGED <<registryVars, linkVars, requests, callbacks, resets>>
  BY DEF Emit
<1>2. /\ e \in Emission /\ e.pc = "looking"
      /\ e.registered # Absent => Registers(e.registered, e.webhook, e.scope)
  BY NewEmissionType, LookingFinds
<1>3. Len(emissions) < MaxObservers
  BY <1>1, ObserversType, BoundsAssumption DEF Observers, IInv, TypeOK
<1> HIDE DEF e
<1> QED
  BY <1>1, <1>2, <1>3, EmissionKeeps

LEMMA FireKeeps ==
  ASSUME IInv, NEW n, Fire(n)
  PROVE  IInv'
<1> DEFINE e == Looking(emissions[n])
<1>1. /\ n \in DOMAIN emissions /\ emissions' = [emissions EXCEPT ![n] = e]
      /\ UNCHANGED <<registryVars, linkVars, requests, callbacks, resets>>
  BY DEF Fire, IInv, TypeOK
<1>2. emissions[n] \in Emission
  BY <1>1 DEF IInv, TypeOK
<1>3. /\ e \in Emission /\ e.pc = "looking"
      /\ e.registered # Absent => Registers(e.registered, e.webhook, e.scope)
  BY <1>2, LookingFinds
<1> HIDE DEF e
<1> QED
  BY <1>1, <1>3, EmissionKeeps

LEMMA ResolveKeeps ==
  ASSUME IInv, NEW n, Resolve(n)
  PROVE  IInv'
<1> DEFINE o == emissions[n]
           d == Destination(o)
           e == [o EXCEPT !.pc = "sent", !.to = d]
<1>1. /\ n \in DOMAIN emissions /\ emissions' = [emissions EXCEPT ![n] = e]
      /\ UNCHANGED <<registryVars, linkVars, requests, callbacks, resets>>
  BY DEF Resolve, IInv, TypeOK
<1>2. o \in Emission
  BY <1>1 DEF IInv, TypeOK
<1>3. o.registered # Absent => Registers(o.registered, o.webhook, o.scope)
  BY <1>1 DEF IInv, FoundItsOwn
<1> HIDE DEF o
<1>4. d \in Urls \cup {Absent} /\ (o.registered # Absent => d = o.registered)
  <2>1. o.registered \in Urls \cup {Absent} /\ o.webhook \in Webhooks
    BY <1>2 DEF Emission
  <2>2. callbacks[o.webhook] \in Urls \cup {Absent}
    BY <2>1 DEF IInv, TypeOK
  <2> QED
    BY <2>1, <2>2 DEF Destination
<1> HIDE DEF d
<1>5. /\ e \in Emission /\ e.registered = o.registered /\ e.webhook = o.webhook
      /\ e.scope = o.scope /\ e.to = d
  BY <1>2, <1>4 DEF Emission
<1> HIDE DEF e
<1> QED
  BY <1>1, <1>3, <1>4, <1>5, EmissionKeeps

LEMMA ListKeeps ==
  ASSUME IInv, NEW r \in Readers, List(r)
  PROVE  IInv'
<1>1. /\ links' = links /\ order' = order /\ recording' = recording /\ requests' = requests
      /\ callbacks' = callbacks /\ emissions' = emissions /\ resets' = resets
  BY DEF List, linkVars
<1>2. RegistryTypeOK' /\ registered' = registered
  BY ListType DEF List, IInv, TypeOK
<1>3. RequestsKept
  BY <1>1, SameRequestsKept
<1>4. TypeOK'
  BY <1>1, <1>2 DEF IInv, TypeOK, LinkTypeOK
<1>5. EveryLinkEvictable'
  BY <1>1 DEF IInv, EveryLinkEvictable, Unordered
<1>6. FoundItsOwn' /\ RegisteredByItsOwn' /\ RecallsWhatWasMinted'
  BY <1>1, <1>2, <1>3, KeptInvariants
<1> QED
  BY <1>3, <1>4, <1>5, <1>6 DEF IInv, RequestsKept

LEMMA ExpireKeeps ==
  ASSUME IInv, NEW id \in Ids, Expire(id)
  PROVE  IInv'
<1>1. /\ index' = index /\ registered' = registered /\ listing' = listing /\ steady' = steady
      /\ requests' = requests /\ callbacks' = callbacks /\ emissions' = emissions /\ resets' = resets
  BY DEF Expire, registryVars
<1>2. /\ LinkTypeOK' /\ EveryLinkEvictable'
      /\ \A x \in Ids : links'[x] # Absent => links'[x] = links[x]
  BY ForgetKeeps DEF Expire, IInv, TypeOK
<1>3. RequestsKept
  BY <1>1, SameRequestsKept
<1>4. TypeOK'
  BY <1>1, <1>2 DEF IInv, TypeOK, RegistryTypeOK
<1>5. FoundItsOwn' /\ RegisteredByItsOwn' /\ RecallsWhatWasMinted'
  BY <1>1, <1>2, <1>3, KeptInvariants
<1> QED
  BY <1>2, <1>3, <1>4, <1>5 DEF IInv, RequestsKept

LEMMA ResetKeeps ==
  ASSUME IInv, Reset
  PROVE  IInv'
<1> DEFINE lost(i) == IF requests[i].retry = "kept" THEN [requests[i] EXCEPT !.retry = "lost"]
                      ELSE requests[i]
           gone(n) == IF emissions[n].pc = "waiting" THEN [emissions[n] EXCEPT !.pc = "gone"]
                      ELSE emissions[n]
<1>1. /\ requests' = [i \in DOMAIN requests |-> lost(i)]
      /\ emissions' = [n \in DOMAIN emissions |-> gone(n)]
      /\ callbacks' = [w \in Webhooks |-> Absent]
      /\ resets < MaxResets /\ resets' = resets + 1
      /\ RegistryCleared /\ LinksCleared
  BY DEF Reset
<1>2. /\ requests \in Seq(Request) /\ Len(requests) <= MaxRequests /\ resets \in 0 .. MaxResets
      /\ emissions \in Seq(Emission) /\ Len(emissions) <= MaxObservers
      /\ MaxResets \in Nat
  BY BoundsAssumption DEF IInv, TypeOK
<1>3. ASSUME NEW i \in DOMAIN requests
      PROVE  /\ lost(i) \in Request /\ lost(i).op = requests[i].op
             /\ lost(i).scope = requests[i].scope /\ lost(i).url = requests[i].url
             /\ lost(i).id = requests[i].id /\ lost(i).accepted = requests[i].accepted
             /\ lost(i).pc = requests[i].pc /\ lost(i).retry # "kept"
  <2> DEFINE r == requests[i]
             e == [r EXCEPT !.retry = "lost"]
  <2>1. r \in Request
    BY <1>2
  <2> HIDE DEF r
  <2>2. /\ e \in Request /\ e.op = r.op /\ e.scope = r.scope /\ e.url = r.url /\ e.id = r.id
        /\ e.accepted = r.accepted /\ e.pc = r.pc /\ e.retry = "lost"
    BY <2>1 DEF Request
  <2> HIDE DEF e
  <2>3. lost(i) = IF r.retry = "kept" THEN e ELSE r
    BY DEF r, e
  <2> HIDE DEF lost
  <2>4. CASE r.retry = "kept"
    BY <2>2, <2>3, <2>4 DEF r
  <2>5. CASE r.retry # "kept"
    BY <2>1, <2>3, <2>5 DEF r
  <2> QED
    BY <2>4, <2>5
<1>4. ASSUME NEW n \in DOMAIN emissions
      PROVE  /\ gone(n) \in Emission /\ gone(n).registered = emissions[n].registered
             /\ gone(n).webhook = emissions[n].webhook /\ gone(n).scope = emissions[n].scope
             /\ gone(n).to = emissions[n].to
             /\ gone(n).pc = "sent" => emissions[n].pc = "sent"
  <2>1. emissions[n] \in Emission
    BY <1>2
  <2> QED
    BY <2>1 DEF Emission
<1> HIDE DEF lost, gone
<1>5. /\ requests' \in Seq(Request) /\ Len(requests') = Len(requests)
      /\ DOMAIN requests' = DOMAIN requests /\ \A i \in DOMAIN requests : requests'[i] = lost(i)
  <2>1. Len(requests) \in Nat /\ DOMAIN requests = 1 .. Len(requests)
    BY <1>2
  <2>2. DOMAIN requests' = DOMAIN requests /\ \A i \in DOMAIN requests : requests'[i] = lost(i)
    BY <1>1
  <2>3. requests' \in [1 .. Len(requests) -> Request]
    BY <1>1, <1>3, <2>1
  <2> QED
    BY <2>1, <2>2, <2>3
<1>6. /\ emissions' \in Seq(Emission) /\ Len(emissions') = Len(emissions)
      /\ DOMAIN emissions' = DOMAIN emissions /\ \A n \in DOMAIN emissions : emissions'[n] = gone(n)
  <2>1. Len(emissions) \in Nat /\ DOMAIN emissions = 1 .. Len(emissions)
    BY <1>2
  <2>2. DOMAIN emissions' = DOMAIN emissions /\ \A n \in DOMAIN emissions : emissions'[n] = gone(n)
    BY <1>1
  <2>3. emissions' \in [1 .. Len(emissions) -> Emission]
    BY <1>1, <1>4, <2>1
  <2> QED
    BY <2>1, <2>2, <2>3
<1>7. RequestsKept
  <2>1. SameRequests
    BY <1>3, <1>5 DEF SameRequests
  <2>2. PassesAccepted'
    BY <1>3, <1>5 DEF IInv, PassesAccepted
  <2> QED
    BY <1>2, <1>5, <2>1, <2>2 DEF RequestsKept
<1>8. LinkTypeOK' /\ EveryLinkEvictable' /\ \A x \in Ids : links'[x] # Absent => links'[x] = links[x]
  BY <1>1, ForgetKeeps DEF IInv, TypeOK
<1>9. RegistryTypeOK' /\ registered' = [k \in Keys |-> Absent]
  BY <1>1, ClearedType DEF IInv, TypeOK, RegistryCleared
<1>10. TypeOK'
  BY <1>1, <1>2, <1>6, <1>7, <1>8, <1>9 DEF TypeOK, RequestsKept
<1>11. RegisteredByItsOwn'
  BY <1>9, SharedAssumption DEF RegisteredByItsOwn
<1>12. FoundItsOwn'
  <2>1. \A j, v, s : Registers(j, v, s) => Registers(j, v, s)'
    BY <1>7, RegistersStays DEF RequestsKept
  <2> QED
    BY <1>4, <1>6, <2>1 DEF IInv, FoundItsOwn
<1>13. RecallsWhatWasMinted'
  BY <1>7, <1>8, KeptInvariants
<1> QED
  BY <1>7, <1>8, <1>10, <1>11, <1>12, <1>13 DEF IInv, RequestsKept

(***************************************************************************)
(* The theorems.                                                           *)
(***************************************************************************)
LEMMA InitInv == Init => IInv
<1> SUFFICES ASSUME Init PROVE IInv
  OBVIOUS
<1>0. /\ index = << >> /\ registered = [k \in Keys |-> Absent]
      /\ steady = [r \in Readers |-> {}] /\ order = << >> /\ links = [i \in Ids |-> Absent]
      /\ recording = [m \in Minters |-> NotRecording] /\ requests = << >>
      /\ callbacks = [w \in Webhooks |-> Absent] /\ emissions = << >> /\ resets = 0
  BY DEF Init, RegistryInit, LinkInit
<1>1. listing \in [Readers -> Listing]
  BY DEF Init, RegistryInit, Listing
<1>2. TypeOK
  BY <1>0, <1>1, BoundsAssumption DEF TypeOK, RegistryTypeOK, LinkTypeOK, Recording
<1>3. PassesAccepted /\ FoundItsOwn
  BY <1>0 DEF PassesAccepted, FoundItsOwn
<1>4. RegisteredByItsOwn
  BY <1>0, SharedAssumption DEF RegisteredByItsOwn
<1>5. RecallsWhatWasMinted /\ EveryLinkEvictable
  BY <1>0 DEF RecallsWhatWasMinted, Recall, EveryLinkEvictable
<1> QED
  BY <1>2, <1>3, <1>4, <1>5 DEF IInv

LEMMA NextInv == IInv /\ [Next]_vars => IInv'
<1> SUFFICES ASSUME IInv, [Next]_vars PROVE IInv'
  OBVIOUS
<1>1. ASSUME NEW in \in Inputs, Answer(in) PROVE IInv'
  BY <1>1, AnswerKeeps
<1>2. ASSUME NEW i \in Requests,
             \/ CaptureCallback(i) \/ CaptureRegistry(i) \/ CaptureLink(i)
             \/ ContinueLink(i) \/ EndPass(i) \/ Replay(i)
      PROVE  IInv'
  BY <1>2, CallbackKeeps, RegistryKeeps, LinkKeeps, ContinueLinkKeeps, EndPassKeeps, ReplayKeeps
<1>3. ASSUME NEW w \in Webhooks, NEW scope \in Scopes,
             Emit(w, scope) \/ \E registers \in BOOLEAN : Control(w, scope, registers)
      PROVE  IInv'
  BY <1>3, EmitKeeps, ControlKeeps
<1>4. ASSUME NEW r \in Readers, List(r) PROVE IInv'
  BY <1>4, ListKeeps
<1>5. ASSUME NEW id \in Ids, Expire(id) PROVE IInv'
  BY <1>5, ExpireKeeps
<1>6. ASSUME NEW n \in 1 .. MaxObservers, Fire(n) \/ Resolve(n) PROVE IInv'
  BY <1>6, FireKeeps, ResolveKeeps
<1>7. CASE Reset
  BY <1>7, ResetKeeps
<1>8. CASE UNCHANGED vars
  <2>1. UNCHANGED <<registryVars, linkVars, callbacks, emissions, resets>> /\ requests' = requests
    BY <1>8 DEF vars, registryVars, linkVars
  <2> QED
    BY <2>1, SameRequestsKept, RequestsOnly
<1> QED
  BY <1>1, <1>2, <1>3, <1>4, <1>5, <1>6, <1>7, <1>8 DEF Next

LEMMA Invariance == Spec => []IInv
BY InitInv, NextInv, PTL DEF Spec

\* Types, for every document and every bound.
THEOREM TypeCorrect == Spec => []TypeOK
<1>1. IInv => TypeOK
  BY DEF IInv
<1> QED
  BY <1>1, Invariance, PTL

\* The webhooks of a scope never go to a URL that another scope, or a request that
\* was refused, has registered.
THEOREM TenantsStayApart == Spec => []TenantsApart
<1>1. IInv => TenantsApart
  BY DEF IInv, FoundItsOwn, TenantsApart
<1> QED
  BY <1>1, Invariance, PTL

\* An identifier recalls what it was minted for.
THEOREM RecallIsFaithful == Spec => []RecallsWhatWasMinted
<1>1. IInv => RecallsWhatWasMinted
  BY DEF IInv
<1> QED
  BY <1>1, Invariance, PTL

\* No linked response escapes eviction, whatever record() calls, resets and
\* expirations interleave.
THEOREM NoLinkEscapes == Spec => []EveryLinkEvictable
<1>1. IInv => EveryLinkEvictable
  BY DEF IInv
<1> QED
  BY <1>1, Invariance, PTL

(***************************************************************************)
(* The table of linked responses never outgrows its order, and a push that *)
(* is one too many takes the oldest out in the same step: what the Store   *)
(* holds beyond the bound is held for a record() that has not pushed yet.  *)
(***************************************************************************)
OrderBounded == Len(order) <= MaxLinks

LEMMA EvictBounds ==
  ASSUME NEW m \in Minters, NEW s \in Seq(Ids), Len(s) <= MaxLinks + 1, Evict(m, s)
  PROVE  OrderBounded'
<1>1. Len(s) \in Nat /\ MaxLinks \in Nat
  BY MaxLinksAssumption
<1>2. CASE OverBound(s)
  <2>1. Len(s) > 0
    BY <1>1, <1>2 DEF OverBound
  <2>2. Len(Tail(s)) = Len(s) - 1
    BY <2>1, EmptySeq, HeadTailProperties
  <2> QED
    BY <1>1, <1>2, <2>2 DEF Evict, OrderBounded
<1>3. CASE ~OverBound(s)
  BY <1>1, <1>3 DEF Evict, OverBound, OrderBounded
<1> QED
  BY <1>2, <1>3

LEMMA OrderKeepsBounded == TypeOK /\ OrderBounded /\ [Next]_vars => OrderBounded'
<1> SUFFICES ASSUME TypeOK, OrderBounded, [Next]_vars PROVE OrderBounded'
  OBVIOUS
<1>1. order \in Seq(Ids) /\ Len(order) \in Nat /\ MaxLinks \in Nat
  BY MaxLinksAssumption DEF TypeOK, LinkTypeOK
<1>2. CASE order' = order
  BY <1>2 DEF OrderBounded
<1>3. ASSUME NEW i \in Requests, ContinueLink(i) PROVE OrderBounded'
  <2>1. i \in Minters /\ recording[i] \in Recording
    BY SharedAssumption DEF TypeOK, LinkTypeOK
  <2>2. CASE RecordPush(i)
    <3>1. recording[i].id \in Ids
      BY <2>1, <2>2 DEF RecordPush, Recording, NotRecording
    <3>2. Pushed(order, recording[i].id) \in Seq(Ids) /\ Len(Pushed(order, recording[i].id)) <= Len(order) + 1
      BY <1>1, <3>1, AppendProperties DEF Pushed
    <3>3. Len(Pushed(order, recording[i].id)) \in Nat
      BY <3>2
    <3>4. Len(Pushed(order, recording[i].id)) <= MaxLinks + 1
      BY <1>1, <3>2, <3>3 DEF OrderBounded
    <3> QED
      BY <2>1, <2>2, <3>2, <3>4, EvictBounds DEF RecordPush
  <2>3. CASE RecordEvict(i)
    <3>1. Len(order) <= MaxLinks + 1
      BY <1>1 DEF OrderBounded
    <3> QED
      BY <1>1, <2>1, <2>3, <3>1, EvictBounds DEF RecordEvict
  <2> QED
    BY <1>3, <2>2, <2>3 DEF ContinueLink
<1>4. CASE Reset
  BY <1>1, <1>4 DEF Reset, LinksCleared, OrderBounded
<1>5. order' = order \/ Reset \/ \E i \in Requests : ContinueLink(i)
  <2>1. CASE Next
    BY <2>1
    DEF Next, Answer, CaptureCallback, CaptureRegistry, CaptureLink, RecordSet, EndPass, Replay, Emit, Control,
        List, Expire, LinkExpire, Fire, Resolve, linkVars
  <2>2. CASE UNCHANGED vars
    BY <2>2 DEF vars
  <2> QED
    BY <2>1, <2>2
<1> QED
  BY <1>2, <1>3, <1>4, <1>5

LEMMA BoundFollows == TypeOK /\ OrderBounded /\ EveryLinkEvictable => LinksBounded
<1> SUFFICES ASSUME TypeOK, OrderBounded, EveryLinkEvictable PROVE LinksBounded
  OBVIOUS
<1> DEFINE held == {i \in Ids : links[i] # Absent}
           ordered == {order[p] : p \in 1 .. Len(order)}
           coming == {recording[m].id : m \in Unordered}
<1>1. order \in Seq(Ids) /\ Len(order) \in Nat /\ MaxLinks \in Nat /\ DOMAIN order = 1 .. Len(order)
  BY MaxLinksAssumption DEF TypeOK, LinkTypeOK
<1>2. IsFiniteSet(ordered) /\ Cardinality(ordered) <= Len(order) /\ Cardinality(ordered) \in Nat
  <2>1. IsFiniteSet(1 .. Len(order)) /\ Cardinality(1 .. Len(order)) = Len(order)
    BY <1>1, FS_Interval
  <2> DEFINE f == [p \in 1 .. Len(order) |-> order[p]]
  <2>2. f \in Surjection(1 .. Len(order), ordered)
    BY DEF Surjection
  <2> QED
    BY <2>1, <2>2, FS_Surjection, FS_CardinalityType
<1>3. IsFiniteSet(coming) /\ Cardinality(coming) <= Cardinality(Unordered) /\ Cardinality(coming) \in Nat
        /\ Cardinality(Unordered) \in Nat
  <2>1. IsFiniteSet(Minters)
    BY SharedAssumption, BoundsAssumption, FS_Interval DEF Requests
  <2>2. IsFiniteSet(Unordered) /\ Cardinality(Unordered) \in Nat
    BY <2>1, FS_Subset, FS_CardinalityType DEF Unordered
  <2> DEFINE f == [m \in Unordered |-> recording[m].id]
  <2>3. f \in Surjection(Unordered, coming)
    BY DEF Surjection
  <2> QED
    BY <2>2, <2>3, FS_Surjection, FS_CardinalityType
<1>4. held \subseteq ordered \cup coming
  <2> SUFFICES ASSUME NEW i \in Ids, links[i] # Absent PROVE i \in ordered \/ i \in coming
    OBVIOUS
  <2>1. Ordered(order, i) \/ \E m \in Unordered : recording[m].id = i
    BY DEF EveryLinkEvictable
  <2> QED
    BY <1>1, <2>1 DEF Ordered
<1> HIDE DEF held, ordered, coming
<1>5. /\ IsFiniteSet(ordered \cup coming)
      /\ Cardinality(ordered \cup coming) = Cardinality(ordered) + Cardinality(coming) - Cardinality(ordered \cap coming)
  BY <1>2, <1>3, FS_Union
<1>6. Cardinality(ordered \cap coming) \in Nat
  BY <1>2, FS_Intersection, FS_CardinalityType
<1>7. Cardinality(held) <= Cardinality(ordered \cup coming) /\ Cardinality(held) \in Nat
  BY <1>4, <1>5, FS_Subset, FS_CardinalityType
<1>8. Cardinality(held) <= MaxLinks + Cardinality(Unordered)
  BY <1>1, <1>2, <1>3, <1>5, <1>6, <1>7 DEF OrderBounded
<1> QED
  BY <1>8 DEF LinksBounded, held

\* The Store holds no more linked responses than the bound of the rule and the
\* record() calls on their way to the order, for every bound and any number of
\* record() calls that overlap.
THEOREM LinksStayBounded == Spec => []LinksBounded
<1>1. Init => OrderBounded
  BY MaxLinksAssumption DEF Init, LinkInit, OrderBounded
<1>2. IInv => TypeOK /\ EveryLinkEvictable
  BY DEF IInv
<1> QED
  BY <1>1, <1>2, OrderKeepsBounded, BoundFollows, Invariance, PTL DEF Spec

(***************************************************************************)
(* Listings: all() walks a Map that changes under it.  Where the iterator  *)
(* stands tells what it has read: a key that was left alone is behind it   *)
(* and found, in flight, or still before it, and a deletion moves the key  *)
(* and the iterator together.                                              *)
(***************************************************************************)
\* A key at position p, in a listing whose iterator stands between two reads.
Walked(l, p, k, url) ==
  IF p < l.next THEN l.found[k] = <<url>> ELSE l.found[k] = <<>>

\* The same, with a read in flight.
InFlight(l, p, k, url) ==
  \/ p < l.next /\ l.key = k /\ l.value = url /\ l.found[k] = <<>>
  \/ l.key # k /\ Walked(l, p, k, url)

ListingInv(r) ==
  LET l == listing[r]
  IN /\ l.next > 0
     /\ l.pc = "idle" => l.next = 1 /\ \A k \in Keys : l.found[k] = <<>>
     /\ l.pc = "reading" => \A k \in steady[r] :
          registered[k] # Absent /\ \E p \in DOMAIN index : index[p] = k /\ InFlight(l, p, k, registered[k])
     /\ l.pc = "done" => \A k \in steady[r] : l.found[k] = <<registered[k]>>

ListingsInv == Distinct(index) /\ \A r \in Readers : ListingInv(r)

LEMMA WithKeyKeeps ==
  ASSUME NEW s \in Seq(Keys), Distinct(s), NEW k \in Keys
  PROVE  /\ Distinct(WithKey(s, k))
         /\ \A p \in DOMAIN s : p \in DOMAIN WithKey(s, k) /\ WithKey(s, k)[p] = s[p]
<1>1. CASE Indexed(s, k)
  BY <1>1 DEF WithKey
<1>2. CASE ~Indexed(s, k)
  <2> DEFINE t == Append(s, k)
  <2>1. t \in Seq(Keys) /\ Len(t) = Len(s) + 1 /\ t[Len(s) + 1] = k
        /\ \A p \in 1 .. Len(s) : t[p] = s[p]
    BY AppendProperties
  <2>2. Distinct(t)
    BY <1>2, <2>1 DEF Distinct, Indexed
  <2>3. \A p \in DOMAIN s : p \in DOMAIN t /\ t[p] = s[p]
    BY <2>1
  <2> QED
    BY <1>2, <2>2, <2>3 DEF WithKey
<1> QED
  BY <1>1, <1>2

LEMMA WithoutKeyKeeps ==
  ASSUME NEW s \in Seq(Keys), Distinct(s), NEW k
  PROVE  /\ Distinct(WithoutKey(s, k))
         /\ \A p \in DOMAIN s, next \in Nat \ {0} : s[p] # k =>
              \E q \in DOMAIN WithoutKey(s, k) :
                /\ WithoutKey(s, k)[q] = s[p]
                /\ q < NextAfterDelete(next, s, k) <=> p < next
<1>1. CASE ~Indexed(s, k)
  BY <1>1 DEF WithoutKey, NextAfterDelete
<1>2. CASE Indexed(s, k)
  <2> DEFINE t == WithoutKey(s, k)
             d == Place(s, k)
  <2>1. d \in 1 .. Len(s) /\ s[d] = k /\ Len(s) \in Nat
    BY <1>2, PlaceType
  <2>2. t = [p \in 1 .. (Len(s) - 1) |-> IF p < d THEN s[p] ELSE s[p + 1]]
    BY <1>2 DEF WithoutKey
  <2>3. DOMAIN t = 1 .. (Len(s) - 1) /\ \A p \in 1 .. (Len(s) - 1) : t[p] = IF p < d THEN s[p] ELSE s[p + 1]
    BY <2>2
  <2>4. \A next \in Nat \ {0} : NextAfterDelete(next, s, k) = IF d < next THEN next - 1 ELSE next
    BY <1>2 DEF NextAfterDelete
  <2> HIDE DEF t, d
  <2>5. Distinct(t)
    <3> SUFFICES ASSUME NEW p \in DOMAIN t, NEW q \in DOMAIN t, t[p] = t[q] PROVE p = q
      BY DEF Distinct
    <3> DEFINE up(n) == IF n < d THEN n ELSE n + 1
    <3>1. up(p) \in DOMAIN s /\ up(q) \in DOMAIN s /\ s[up(p)] = s[up(q)] /\ p \in Int /\ q \in Int
      BY <2>1, <2>3
    <3>2. up(p) = up(q)
      BY <3>1 DEF Distinct
    <3> QED
      BY <2>1, <3>1, <3>2
  <2>6. ASSUME NEW p \in DOMAIN s, NEW next \in Nat \ {0}, s[p] # k
        PROVE  \E q \in DOMAIN t : t[q] = s[p] /\ (q < NextAfterDelete(next, s, k) <=> p < next)
    <3>1. p \in 1 .. Len(s) /\ p # d
      BY <2>1, <2>6
    <3>2. CASE p < d
      <4>1. p \in DOMAIN t /\ t[p] = s[p]
        BY <2>1, <2>3, <3>1, <3>2
      <4>2. p < NextAfterDelete(next, s, k) <=> p < next
        BY <2>1, <2>4, <3>1, <3>2
      <4> QED
        BY <4>1, <4>2
    <3>3. CASE p > d
      <4>1. p - 1 \in DOMAIN t /\ t[p - 1] = s[p]
        BY <2>1, <2>3, <3>1, <3>3
      <4>2. p - 1 < NextAfterDelete(next, s, k) <=> p < next
        BY <2>1, <2>4, <3>1, <3>3
      <4> QED
        BY <4>1, <4>2
    <3> QED
      BY <2>1, <3>1, <3>2, <3>3
  <2> QED
    BY <2>5, <2>6 DEF t
<1> QED
  BY <1>1, <1>2

LEMMA NextStaysPositive ==
  ASSUME NEW s \in Seq(Keys), NEW k, NEW next \in Nat \ {0}
  PROVE  NextAfterDelete(next, s, k) \in Nat \ {0} /\ (next = 1 => NextAfterDelete(next, s, k) = 1)
<1>1. CASE Indexed(s, k)
  BY <1>1, PlaceType DEF NextAfterDelete
<1> QED
  BY <1>1 DEF NextAfterDelete

\* The iterator moves on in `s`, over keys it has walked so far.
LEMMA StepWalks ==
  ASSUME NEW l \in Listing, l.next > 0, NEW s \in Seq(Keys), Distinct(s),
         NEW kept \in SUBSET Keys,
         \A k \in kept : registered[k] # Absent /\ \E p \in DOMAIN s : s[p] = k /\ Walked(l, p, k, registered[k])
  PROVE  /\ Step(l, s).next > 0 /\ Step(l, s).pc \in {"reading", "done"}
         /\ Step(l, s).pc = "reading" => \A k \in kept :
              registered[k] # Absent /\ \E p \in DOMAIN s : s[p] = k /\ InFlight(Step(l, s), p, k, registered[k])
         /\ Step(l, s).pc = "done" => \A k \in kept : Step(l, s).found[k] = <<registered[k]>>
<1>0. l.next \in Nat \ {0} /\ DOMAIN s = 1 .. Len(s) /\ Len(s) \in Nat
  BY DEF Listing
<1>1. CASE l.next \in DOMAIN s
  <2> DEFINE k0 == s[l.next]
             v0 == registered[k0]
             n0 == l.next + 1
             e == [l EXCEPT !.pc = "reading", !.key = k0, !.next = n0, !.value = v0]
  <2>1. Step(l, s) = e
    BY <1>1 DEF Step
  <2> HIDE DEF k0, v0, n0
  <2>2. e.pc = "reading" /\ e.key = k0 /\ e.next = n0 /\ e.value = v0 /\ e.found = l.found
    BY DEF Listing
  <2> HIDE DEF e
  <2>3. ASSUME NEW k \in kept
        PROVE  registered[k] # Absent /\ \E p \in DOMAIN s : s[p] = k /\ InFlight(e, p, k, registered[k])
    <3>1. PICK p \in DOMAIN s : s[p] = k /\ Walked(l, p, k, registered[k])
      OBVIOUS
    <3>2. p \in Nat
      BY <1>0
    <3>3. CASE p = l.next
      BY <1>0, <2>2, <3>1, <3>2, <3>3 DEF InFlight, Walked, k0, v0, n0
    <3>4. CASE p # l.next
      <4>1. k0 # k
        BY <1>1, <3>1, <3>4 DEF Distinct, k0
      <4>2. p < n0 <=> p < l.next
        BY <1>0, <3>2, <3>4 DEF n0
      <4> QED
        BY <2>2, <3>1, <4>1, <4>2 DEF InFlight, Walked
    <3> QED
      BY <3>3, <3>4
  <2> QED
    BY <1>0, <2>1, <2>2, <2>3 DEF n0
<1>2. CASE l.next \notin DOMAIN s
  <2> DEFINE e == [l EXCEPT !.pc = "done", !.key = Absent, !.value = Absent, !.next = 1]
  <2>1. Step(l, s) = e
    BY <1>2 DEF Step
  <2>2. e.pc = "done" /\ e.next = 1 /\ e.found = l.found
    BY DEF Listing
  <2> HIDE DEF e
  <2>3. ASSUME NEW k \in kept PROVE l.found[k] = <<registered[k]>>
    <3>1. PICK p \in DOMAIN s : s[p] = k /\ Walked(l, p, k, registered[k])
      OBVIOUS
    <3>2. p < l.next
      BY <1>0, <1>2
    <3> QED
      BY <3>1, <3>2 DEF Walked
  <2> QED
    BY <2>1, <2>2, <2>3
<1> QED
  BY <1>1, <1>2

LEMMA ListingType ==
  ASSUME RegistryTypeOK, NEW r \in Readers
  PROVE  listing[r] \in Listing /\ steady[r] \in SUBSET Keys /\ listing[r].next \in Nat
BY DEF RegistryTypeOK, Listing

\* A key leaves the index, for every reader whose listing is not otherwise moved.
LEMMA ShiftedWalks ==
  ASSUME RegistryTypeOK, ListingsInv, NEW k, NEW r \in Readers,
         index' = WithoutKey(index, k), listing'[r] = Shifted(Readers, k)[r],
         steady'[r] = steady[r] \ {k}, \A x \in Keys \ {k} : registered'[x] = registered[x]
  PROVE  ListingInv(r)'
<1> DEFINE l == listing[r]
           next == NextAfterDelete(l.next, index, k)
           e == [l EXCEPT !.next = next]
<1>1. listing'[r] = e
  BY DEF Shifted
<1>2. l \in Listing /\ l.next \in Nat \ {0} /\ steady[r] \in SUBSET Keys /\ ListingInv(r)
  BY ListingType DEF ListingsInv, ListingInv
<1>3. index \in Seq(Keys) /\ Distinct(index)
  BY DEF RegistryTypeOK, ListingsInv
<1>4. next \in Nat \ {0} /\ (l.next = 1 => next = 1)
  BY <1>2, <1>3, NextStaysPositive
<1>5. \A p \in DOMAIN index : index[p] # k =>
        \E q \in DOMAIN index' : index'[q] = index[p] /\ (q < next <=> p < l.next)
  BY <1>2, <1>3, WithoutKeyKeeps
<1> HIDE DEF next
<1>6. e.next = next /\ e.pc = l.pc /\ e.key = l.key /\ e.value = l.value /\ e.found = l.found
  BY <1>2 DEF Listing
<1> HIDE DEF e
<1>7. ASSUME l.pc = "reading", NEW x \in steady[r], x # k
      PROVE  registered'[x] # Absent /\ \E q \in DOMAIN index' : index'[q] = x /\ InFlight(e, q, x, registered'[x])
  <2>1. x \in Keys /\ registered'[x] = registered[x] /\ registered[x] # Absent
    BY <1>2, <1>7 DEF ListingInv
  <2>2. PICK p \in DOMAIN index : index[p] = x /\ InFlight(l, p, x, registered[x])
    BY <1>2, <1>7 DEF ListingInv
  <2>3. PICK q \in DOMAIN index' : index'[q] = x /\ (q < next <=> p < l.next)
    BY <1>5, <1>7, <2>2
  <2> QED
    BY <1>6, <2>1, <2>2, <2>3 DEF InFlight, Walked
<1> QED
  BY <1>1, <1>2, <1>4, <1>6, <1>7 DEF ListingInv

LEMMA RegisterWalks ==
  ASSUME RegistryTypeOK, ListingsInv, NEW k \in Keys, NEW url \in Urls, Register(k, url)
  PROVE  ListingsInv'
<1>1. index \in Seq(Keys) /\ Distinct(index)
  BY DEF RegistryTypeOK, ListingsInv
<1>2. Distinct(index') /\ \A p \in DOMAIN index : p \in DOMAIN index' /\ index'[p] = index[p]
  BY <1>1, WithKeyKeeps DEF Register
<1>3. ASSUME NEW r \in Readers PROVE ListingInv(r)'
  <2>1. listing' = listing /\ steady'[r] = steady[r] \ {k} /\ steady[r] \in SUBSET Keys
    BY ListingType DEF Register, Touched
  <2>2. \A x \in steady'[r] : registered'[x] = registered[x]
    BY <2>1 DEF Register, RegistryTypeOK
  <2>3. ListingInv(r)
    BY DEF ListingsInv
  <2> QED
    BY <1>2, <2>1, <2>2, <2>3 DEF ListingInv
<1> QED
  BY <1>2, <1>3 DEF ListingsInv

LEMMA UnregisterWalks ==
  ASSUME RegistryTypeOK, ListingsInv, NEW k \in Keys, Unregister(k)
  PROVE  ListingsInv'
<1>1. index \in Seq(Keys) /\ Distinct(index) /\ index' = WithoutKey(index, k)
  BY DEF RegistryTypeOK, ListingsInv, Unregister
<1>2. \A x \in Keys \ {k} : registered'[x] = registered[x]
  BY DEF Unregister, Drop, RegistryTypeOK
<1>3. ASSUME NEW r \in Readers PROVE ListingInv(r)'
  <2>1. listing'[r] = Shifted(Readers, k)[r] /\ steady'[r] = steady[r] \ {k}
    BY DEF Unregister, Touched
  <2> QED
    BY <1>1, <1>2, <2>1, ShiftedWalks
<1>4. Distinct(index')
  BY <1>1, WithoutKeyKeeps
<1> QED
  BY <1>3, <1>4 DEF ListingsInv

LEMMA ClearedWalks ==
  ASSUME RegistryTypeOK, ListingsInv, RegistryCleared
  PROVE  ListingsInv'
BY DEF RegistryCleared, ListingsInv, ListingInv, RegistryTypeOK

LEMMA StartWalks ==
  ASSUME RegistryTypeOK, ListingsInv, NEW r \in Readers, StartListing(r)
  PROVE  ListingsInv'
<1> DEFINE l == listing[r]
           kept == {k \in Keys : Indexed(index, k) /\ registered[k] # Absent}
<1>1. l \in Listing /\ l.next = 1 /\ l.next > 0 /\ \A k \in Keys : l.found[k] = <<>>
  BY ListingType DEF StartListing, ListingsInv, ListingInv
<1>2. index \in Seq(Keys) /\ Distinct(index)
  BY DEF RegistryTypeOK, ListingsInv
<1>3. ASSUME NEW k \in kept
      PROVE  registered[k] # Absent /\ \E p \in DOMAIN index : index[p] = k /\ Walked(l, p, k, registered[k])
  <2>1. PICK p \in DOMAIN index : index[p] = k
    BY DEF Indexed
  <2>2. ~(p < 1)
    BY <1>2, <2>1
  <2> QED
    BY <1>1, <2>1, <2>2 DEF Walked
<1>4. /\ listing' = [listing EXCEPT ![r] = Step(l, index)] /\ steady' = [steady EXCEPT ![r] = kept]
      /\ UNCHANGED <<index, registered>>
  BY DEF StartListing
<1> HIDE DEF l
<1>5. kept \in SUBSET Keys
  OBVIOUS
<1> HIDE DEF kept
<1>6. /\ Step(l, index).next > 0 /\ Step(l, index).pc \in {"reading", "done"}
      /\ Step(l, index).pc = "reading" => \A k \in kept :
           registered[k] # Absent /\ \E p \in DOMAIN index : index[p] = k /\ InFlight(Step(l, index), p, k, registered[k])
      /\ Step(l, index).pc = "done" => \A k \in kept : Step(l, index).found[k] = <<registered[k]>>
  BY <1>1, <1>2, <1>3, <1>5, StepWalks
<1>7. listing'[r] = Step(l, index) /\ steady'[r] = kept
        /\ \A q \in Readers \ {r} : listing'[q] = listing[q] /\ steady'[q] = steady[q]
  BY <1>4 DEF RegistryTypeOK
<1>8. ListingInv(r)'
  BY <1>4, <1>6, <1>7 DEF ListingInv
<1>9. ASSUME NEW q \in Readers \ {r} PROVE ListingInv(q)'
  BY <1>4, <1>7 DEF ListingInv, ListingsInv
<1> QED
  BY <1>2, <1>4, <1>8, <1>9 DEF ListingsInv

LEMMA FoundWalks ==
  ASSUME RegistryTypeOK, ListingsInv, NEW r \in Readers, ListFound(r)
  PROVE  ListingsInv'
<1> DEFINE l == listing[r]
           found == [l.found EXCEPT ![l.key] = Append(@, l.value)]
           e == [l EXCEPT !.found = found]
           kept == steady[r]
<1>1. /\ l \in Listing /\ l.next \in Nat /\ l.next > 0 /\ kept \in SUBSET Keys /\ l.pc = "reading"
      /\ l.value \in Urls /\ l.found \in [Keys -> Seq(Urls)]
      /\ \A k \in kept :
           registered[k] # Absent /\ \E p \in DOMAIN index : index[p] = k /\ InFlight(l, p, k, registered[k])
  BY ListingType DEF ListFound, ListingsInv, ListingInv, Listing
<1>2. index \in Seq(Keys) /\ Distinct(index)
  BY DEF RegistryTypeOK, ListingsInv
<1>3. listing' = [listing EXCEPT ![r] = Step(e, index)] /\ UNCHANGED <<index, registered, steady>>
  BY DEF ListFound, Listing
<1>4. found \in [Keys -> Seq(Urls)]
  <2>1. CASE l.key \in Keys
    <3>1. Append(l.found[l.key], l.value) \in Seq(Urls)
      BY <1>1, <2>1, AppendProperties
    <3> QED
      BY <1>1, <3>1
  <2>2. CASE l.key \notin Keys
    <3>1. found = l.found
      BY <1>1, <2>2
    <3> QED
      BY <1>1, <3>1
  <2> QED
    BY <2>1, <2>2
<1>5. \A k \in Keys : found[k] = IF k = l.key THEN Append(l.found[k], l.value) ELSE l.found[k]
  BY <1>1
<1> HIDE DEF l, found
<1>6. e \in Listing /\ e.next = l.next /\ e.found = found
  BY <1>1, <1>4 DEF Listing
<1> HIDE DEF e
<1>7. ASSUME NEW k \in kept
      PROVE  registered[k] # Absent /\ \E p \in DOMAIN index : index[p] = k /\ Walked(e, p, k, registered[k])
  <2>1. PICK p \in DOMAIN index : index[p] = k /\ InFlight(l, p, k, registered[k])
    BY <1>1
  <2>2. k \in Keys
    BY <1>1
  <2>3. CASE l.key = k
    <3>1. p < l.next /\ l.value = registered[k] /\ l.found[k] = <<>>
      BY <2>1, <2>3 DEF InFlight
    <3>2. found[k] = <<registered[k]>>
      <4>1. found[k] = Append(l.found[k], l.value)
        BY <1>5, <2>2, <2>3
      <4>2. found[k] = Append(<<>>, registered[k])
        BY <3>1, <4>1
      <4> QED
        BY <4>2
    <3>3. Walked(e, p, k, registered[k])
      BY <1>6, <3>1, <3>2 DEF Walked
    <3> QED
      BY <1>1, <2>1, <3>3
  <2>4. CASE l.key # k
    BY <1>1, <1>5, <1>6, <2>1, <2>2, <2>4 DEF InFlight, Walked
  <2> QED
    BY <2>3, <2>4
<1> HIDE DEF kept
<1>8. /\ Step(e, index).next > 0 /\ Step(e, index).pc \in {"reading", "done"}
      /\ Step(e, index).pc = "reading" => \A k \in kept :
           registered[k] # Absent /\ \E p \in DOMAIN index : index[p] = k /\ InFlight(Step(e, index), p, k, registered[k])
      /\ Step(e, index).pc = "done" => \A k \in kept : Step(e, index).found[k] = <<registered[k]>>
  <2>1. e \in Listing /\ e.next > 0 /\ kept \in SUBSET Keys
    BY <1>1, <1>6
  <2> QED
    BY <1>2, <1>7, <2>1, StepWalks
<1>9. listing'[r] = Step(e, index) /\ \A q \in Readers \ {r} : listing'[q] = listing[q]
  BY <1>3 DEF RegistryTypeOK
<1>10. ListingInv(r)'
  BY <1>3, <1>8, <1>9 DEF ListingInv, kept
<1>11. ASSUME NEW q \in Readers \ {r} PROVE ListingInv(q)'
  BY <1>3, <1>9 DEF ListingInv, ListingsInv
<1> QED
  BY <1>2, <1>3, <1>10, <1>11 DEF ListingsInv

LEMMA DroppedWalks ==
  ASSUME RegistryTypeOK, ListingsInv, NEW r \in Readers, ListDropped(r)
  PROVE  ListingsInv'
<1> DEFINE l == listing[r]
           k0 == l.key
           s == WithoutKey(index, k0)
           next == NextAfterDelete(l.next, index, k0)
           e == [l EXCEPT !.next = next]
           kept == steady[r] \ {k0}
<1>1. /\ l \in Listing /\ l.next \in Nat \ {0} /\ steady[r] \in SUBSET Keys /\ l.pc = "reading"
      /\ l.value = Absent /\ k0 \in Keys \cup {Absent}
      /\ \A k \in steady[r] :
           registered[k] # Absent /\ \E p \in DOMAIN index : index[p] = k /\ InFlight(l, p, k, registered[k])
  BY ListingType DEF ListDropped, ListingsInv, ListingInv, Listing
<1>2. index \in Seq(Keys) /\ Distinct(index)
  BY DEF RegistryTypeOK, ListingsInv
<1>3. /\ index' = s /\ UNCHANGED registered /\ steady' = Touched(k0)
      /\ listing' = [Shifted(Readers, k0) EXCEPT ![r] = Step(@, s)]
  BY DEF ListDropped
<1>4. Shifted(Readers, k0)[r] = e
  BY DEF Shifted
<1>5. /\ s \in Seq(Keys) /\ Distinct(s) /\ next \in Nat \ {0}
      /\ \A p \in DOMAIN index : index[p] # k0 =>
           \E q \in DOMAIN s : s[q] = index[p] /\ (q < next <=> p < l.next)
  BY <1>1, <1>2, WithoutKeyType, WithoutKeyKeeps, NextStaysPositive
<1> HIDE DEF l, s, next
<1>6. next \in Nat /\ next > 0 /\ s \in Seq(Keys) /\ Distinct(s)
  BY <1>5
<1>7. e \in Listing /\ e.next = next /\ e.next > 0 /\ e.found = l.found
  <2>1. e \in Listing /\ e.next = next /\ e.found = l.found
    BY <1>1, <1>6 DEF Listing
  <2> QED
    BY <1>6, <2>1
<1> HIDE DEF e
<1>8. ASSUME NEW k \in kept
      PROVE  registered[k] # Absent /\ \E q \in DOMAIN s : s[q] = k /\ Walked(e, q, k, registered[k])
  <2>1. PICK p \in DOMAIN index : index[p] = k /\ InFlight(l, p, k, registered[k])
    BY <1>1
  <2>2. Walked(l, p, k, registered[k]) /\ k # k0
    BY <2>1 DEF InFlight
  <2>3. PICK q \in DOMAIN s : s[q] = k /\ (q < next <=> p < l.next)
    BY <1>5, <2>1, <2>2
  <2> QED
    BY <1>1, <1>7, <2>2, <2>3 DEF Walked
<1>9. kept \in SUBSET Keys
  BY <1>1
<1> HIDE DEF kept
<1>10. /\ Step(e, s).next > 0 /\ Step(e, s).pc \in {"reading", "done"}
       /\ Step(e, s).pc = "reading" => \A k \in kept :
            registered[k] # Absent /\ \E p \in DOMAIN s : s[p] = k /\ InFlight(Step(e, s), p, k, registered[k])
       /\ Step(e, s).pc = "done" => \A k \in kept : Step(e, s).found[k] = <<registered[k]>>
  BY <1>6, <1>7, <1>8, <1>9, StepWalks
<1>11. listing'[r] = Step(e, s) /\ \A q \in Readers \ {r} : listing'[q] = Shifted(Readers, k0)[q]
  BY <1>3, <1>4 DEF Shifted
<1>12. \A q \in Readers : steady'[q] = steady[q] \ {k0}
  BY <1>3 DEF Touched
<1>13. ListingInv(r)'
  <2>1. listing'[r] = Step(e, s) /\ index' = s /\ registered' = registered /\ steady'[r] = kept
    BY <1>3, <1>11, <1>12 DEF kept
  <2>2. Step(e, s).pc # "idle"
    BY <1>10
  <2> QED
    BY <1>10, <2>1, <2>2 DEF ListingInv
<1>14. ASSUME NEW q \in Readers \ {r} PROVE ListingInv(q)'
  <2>1. index' = WithoutKey(index, k0) /\ listing'[q] = Shifted(Readers, k0)[q]
          /\ steady'[q] = steady[q] \ {k0} /\ \A x \in Keys \ {k0} : registered'[x] = registered[x]
    BY <1>3, <1>11, <1>12 DEF s
  <2> HIDE DEF k0
  <2> QED
    BY <2>1, ShiftedWalks
<1> QED
  BY <1>3, <1>5, <1>13, <1>14 DEF ListingsInv

LEMMA CaptureRegistryWalks ==
  ASSUME IInv, ListingsInv, NEW i \in Requests, CaptureRegistry(i)
  PROVE  ListingsInv'
<1>1. PICK kind, w, scope :
        /\ At(i, kind) /\ w = RuleAt(i).webhook /\ scope = RuleScope(requests[i].scope, w)
        /\ kind \in {"register", "unregister"}
        /\ \/ Resolves(scope) /\ Unregister(<<w, scope>>)
           \/ Resolves(scope) /\ Register(<<w, scope>>, i)
           \/ UNCHANGED registryVars
  BY DEF CaptureRegistry
<1>2. /\ i \in DOMAIN requests /\ RuleAt(i) \in Rule /\ RuleAt(i).kind = kind
  BY <1>1, AtRule
<1>3. w \in Webhooks /\ requests[i].scope \in Scopes \cup {Unresolved}
  BY <1>1, <1>2, RequestType DEF Rule, IInv, Request
<1>4. Resolves(scope) => <<w, scope>> \in Keys
  BY <1>1, <1>3, ScopesAssumption, SharedAssumption DEF Resolves, RuleScope
<1>5. RegistryTypeOK /\ i \in Urls
  BY SharedAssumption DEF IInv, TypeOK
<1>6. CASE UNCHANGED registryVars
  BY <1>6 DEF registryVars, ListingsInv, ListingInv
<1>7. CASE Resolves(scope) /\ Unregister(<<w, scope>>)
  BY <1>4, <1>5, <1>7, UnregisterWalks
<1>8. CASE Resolves(scope) /\ Register(<<w, scope>>, i)
  BY <1>4, <1>5, <1>8, RegisterWalks
<1> QED
  BY <1>1, <1>6, <1>7, <1>8

LEMMA ControlWalks ==
  ASSUME IInv, ListingsInv, NEW w \in Webhooks, NEW scope \in Scopes, NEW registers \in BOOLEAN,
         Control(w, scope, registers)
  PROVE  ListingsInv'
<1>1. RegistryTypeOK /\ <<w, scope>> \in Keys
  BY SharedAssumption DEF IInv, TypeOK
<1>2. Len(requests) + 1 \in Urls
  BY SharedAssumption, BoundsAssumption DEF Control, MayJoin, IInv, TypeOK, Requests
<1>3. Register(<<w, scope>>, Len(requests) + 1) \/ Unregister(<<w, scope>>)
  BY DEF Control
<1> QED
  BY <1>1, <1>2, <1>3, RegisterWalks, UnregisterWalks

LEMMA ListingsKeep == IInv /\ ListingsInv /\ [Next]_vars => ListingsInv'
<1> SUFFICES ASSUME IInv, ListingsInv, [Next]_vars PROVE ListingsInv'
  OBVIOUS
<1>1. RegistryTypeOK
  BY DEF IInv, TypeOK
<1>2. CASE UNCHANGED registryVars
  BY <1>2 DEF registryVars, ListingsInv, ListingInv
<1>3. ASSUME NEW r \in Readers, List(r) PROVE ListingsInv'
  BY <1>1, <1>3, StartWalks, FoundWalks, DroppedWalks DEF List
<1>4. CASE Reset
  BY <1>1, <1>4, ClearedWalks DEF Reset
<1>5. \/ UNCHANGED registryVars \/ Reset
      \/ \E r \in Readers : List(r)
      \/ \E i \in Requests : CaptureRegistry(i)
      \/ \E w \in Webhooks, scope \in Scopes, registers \in BOOLEAN : Control(w, scope, registers)
  <2>1. CASE Next
    BY <2>1
    DEF Next, Answer, CaptureCallback, CaptureLink, ContinueLink, EndPass, Replay, Emit, Expire, Fire, Resolve
  <2>2. CASE UNCHANGED vars
    BY <2>2 DEF vars, registryVars
  <2> QED
    BY <2>1, <2>2
<1> QED
  BY <1>2, <1>3, <1>4, <1>5, CaptureRegistryWalks, ControlWalks

LEMMA ListingsInit == Init => ListingsInv
<1> SUFFICES ASSUME Init PROVE ListingsInv
  OBVIOUS
<1>1. index = <<>> /\ \A r \in Readers : listing[r].pc = "idle" /\ listing[r].next = 1
        /\ \A k \in Keys : listing[r].found[k] = <<>>
  BY DEF Init, RegistryInit
<1> QED
  BY <1>1 DEF ListingsInv, ListingInv, Distinct

\* A listing that has ended has every registration that was there when it began
\* and was left alone, once, with its URL, however the Map it walks was changed
\* meanwhile by registrations, removals, resets and other listings.
THEOREM ListingsAreComplete == Spec => []ListingComplete
<1>1. ListingsInv => ListingComplete
  BY DEF ListingsInv, ListingInv, ListingComplete
<1> QED
  BY <1>1, ListingsInit, ListingsKeep, Invariance, PTL DEF Spec
=============================================================================
