--------------------------- MODULE FixturesProofs ---------------------------
(***************************************************************************)
(* What the parts that share the fixtures promise, in every mix of them:   *)
(* for every set of keys, files, requests, responses, plans, builds,       *)
(* listeners and handles, and any number of crashes and edits.             *)
(***************************************************************************)
EXTENDS Fixtures, DiskProofs

(***************************************************************************)
(* The disk store under every part.                                        *)
(***************************************************************************)
LEMMA StutterFills == DiskInv /\ UNCHANGED diskVars => Filled
BY DEF DiskInv, DiskTypeOK, Contents, Filled, diskVars

LEMMA StoreKeepsDisk == DiskInv /\ Store => DiskInv'
BY TimerFiresKeepsDisk, BeginWriteKeepsDisk, WriteNothingKeepsDisk, WriteTempKeepsDisk, RenameKeepsDisk,
   FailWriteKeepsDisk, RefuseWriteKeepsDisk, CallFlushKeepsDisk
DEF Store, BakeCommandEnds

LEMMA OperatorKeepsDisk == DiskInv /\ Operator => DiskInv'
BY ClearKeepsDisk, HandEditKeepsDisk DEF Operator

LEMMA LandWithValueFills ==
  ASSUME DiskInv, ResolverTypeOK, NEW r \in Requests, LandWithValue(r)
  PROVE  Filled
<1> DEFINE k == request[r].key
           entry == [version |-> version + 1, narrowed |-> FALSE, scoped |-> Absent]
<1>1. version \in Nat /\ timer \in BOOLEAN /\ memory \in [Keys -> FixtureEntry \cup {Absent}]
  BY DEF DiskInv, DiskTypeOK, Contents
<1>2. /\ version' = version + 1
      /\ UNCHANGED <<unsafe, queue, writing, disk, torn, flushes, faults, durable, gaveUp>>
  BY DEF LandWithValue
<1>3. entry \in FixtureEntry /\ Marked(entry) /\ entry.version = version + 1
  BY <1>1 DEF FixtureEntry, Marked
<1>4. CASE config.mode = "lazy"
  <2>1. SetAll([x \in {k} |-> entry])
    BY <1>4 DEF LandWithValue
  <2> HIDE DEF entry, k
  <2>2. timer' = TRUE /\ memory' = [x \in Keys |-> IF x = k THEN entry ELSE memory[x]]
    BY <2>1 DEF SetAll
  <2>3. \A x \in Keys : memory'[x] = memory[x] \/ NewerValue(x)
    BY <1>1, <1>2, <1>3, <2>2 DEF NewerValue
  <2> QED
    BY <1>1, <1>2, <2>2, <2>3 DEF Filled
<1>5. CASE config.mode # "lazy"
  <2>1. UNCHANGED <<memory, timer>>
    BY <1>5 DEF LandWithValue
  <2> QED
    BY <1>1, <1>2, <2>1 DEF Filled
<1> QED
  BY <1>4, <1>5

LEMMA ResolvingKeepsDisk == DiskInv /\ ResolverTypeOK /\ Resolving => DiskInv'
<1> SUFFICES ASSUME DiskInv, ResolverTypeOK, Resolving PROVE Filled
  BY FilledKeepsDisk
<1>1. UNCHANGED diskVars \/ \E r \in Requests : LandWithValue(r)
  BY DEF Resolving, ResolveAtOnce, Join, Launch, LaunchThrows, LandEmpty
<1> QED
  BY <1>1, StutterFills, LandWithValueFills

LEMMA BakesKeepsDisk == DiskInv /\ BakeInv /\ Bakes => DiskInv' /\ BakeInv'
<1> SUFFICES ASSUME DiskInv, BakeInv, Bakes PROVE Filled /\ BakeInv'
  BY FilledKeepsDisk
<1>1. ASSUME NEW only \in Scopes, NEW plan \in Plans, StartBake(only, plan)
      PROVE  Filled /\ BakeInv'
  BY <1>1, StartBakeKeeps, StutterFills DEF StartBake
<1>2. CASE ChunkFails
  BY <1>2, ChunkFailsKeeps, StutterFills DEF ChunkFails
<1>3. CASE BakeAnswer
  BY <1>3, ChunkAnsweredKeeps, ChunkAnsweredFills DEF BakeAnswer
<1> QED
  BY <1>1, <1>2, <1>3 DEF Bakes

LEMMA ServesStill == Serves => UNCHANGED <<diskVars, resolverVars, baking>>
BY DEF Serves, SaveDocument, StartBuild, ReadDocument, LoadFile, FinishBuild, CallClose, Listen,
       ListenOpens, ListenFails, CloseEnds, CloseHandle, Mcp

(***************************************************************************)
(* The resolver: the request that leads a flight is in the Map under its   *)
(* key for as long as it flies, which is why no other can be launched, and *)
(* a call is counted before it is made.                                    *)
(***************************************************************************)
LayeredIfPart(answer) == answer # Generated => (answer.narrowed => answer.layer)

ResolverInv ==
  /\ ResolverTypeOK
  /\ sent = calls
  /\ config.maxCalls # Unlimited => calls <= config.maxCalls
  /\ \A r \in Requests :
       /\ Flying(r) => request[r].leader = r /\ inFlight[request[r].key] = r
       /\ request[r].flight = "flying" => request[r].pc = "awaiting"
       /\ LayeredIfPart(request[r].answer)

LEMMA ShapeType ==
  ASSUME ResolverTypeOK, NEW entry \in FixtureEntry, Marked(entry)
  PROVE  LET a == Shape(entry.version, entry.narrowed, entry.scoped)
         IN a \in Answer /\ LayeredIfPart(a)
<1>1. config.scoped \in BOOLEAN
  BY ConfigsAssumption DEF ResolverTypeOK
<1>2. entry # Absent /\ entry.version \in Nat /\ entry.narrowed \in BOOLEAN
        /\ entry.scoped \in BOOLEAN \cup {Absent} /\ Absent \notin BOOLEAN
  BY AbsentAssumption DEF FixtureEntry
<1>3. entry.narrowed => entry.scoped = TRUE
  BY <1>2 DEF Marked
<1> QED
  BY <1>1, <1>2, <1>3 DEF Shape, Answer, LayeredIfPart

LEMMA PeekType ==
  ASSUME DiskInv, ResolverTypeOK, NEW k \in Keys
  PROVE  Peek(k) \in Answer \cup {Generated} /\ LayeredIfPart(Peek(k))
<1>1. WildcardOf[k] \in Keys
  BY WildcardAssumption
<1>2. Stored(k) \in FixtureEntry \cup {Absent} /\ Marked(Stored(k))
  BY <1>1 DEF Stored, DiskInv, DiskTypeOK, Contents, AllMarked
<1> QED
  BY <1>2, ShapeType DEF Peek, LayeredIfPart

LEMMA NewShape ==
  ASSUME ResolverTypeOK, NEW v \in Nat
  PROVE  Shape(v, FALSE, Absent) \in Answer /\ LayeredIfPart(Shape(v, FALSE, Absent))
<1>1. config.scoped \in BOOLEAN
  BY ConfigsAssumption DEF ResolverTypeOK
<1> QED
  BY <1>1 DEF Shape, Answer, LayeredIfPart

\* One request moves, and no flight of another leaves the Map.
LEMMA RequestMoves ==
  ASSUME ResolverInv, NEW r \in Requests, NEW new \in Request, request' = [request EXCEPT ![r] = new],
         LayeredIfPart(new.answer), inFlight' \in [Keys -> Requests \cup {Absent}],
         calls' \in Nat, sent' = calls', UNCHANGED config,
         config.maxCalls # Unlimited => calls' <= config.maxCalls,
         new.flight = "flying" =>
           new.pc = "awaiting" /\ new.leader = r /\ inFlight'[new.key] = r,
         \A q \in Requests \ {r} : Flying(q) => inFlight'[request[q].key] = inFlight[request[q].key]
  PROVE  ResolverInv'
<1> USE DEF ResolverInv
<1>1. \A q \in Requests : request'[q] = IF q = r THEN new ELSE request[q]
  BY DEF ResolverTypeOK
<1>2. request' \in [Requests -> Request]
  BY DEF ResolverTypeOK
<1>3. ResolverTypeOK'
  BY <1>2 DEF ResolverTypeOK
<1>4. ASSUME NEW q \in Requests
      PROVE  /\ Flying(q)' => request'[q].leader = q /\ inFlight'[request'[q].key] = q
             /\ request'[q].flight = "flying" => request'[q].pc = "awaiting"
             /\ LayeredIfPart(request'[q].answer)
  BY <1>1 DEF Flying
<1> QED
  BY <1>3, <1>4 DEF LayeredIfPart

LEMMA ResolveAtOnceKeeps ==
  ASSUME DiskInv, ResolverInv, NEW r \in Requests, NEW k \in RequestKeys, ResolveAtOnce(r, k)
  PROVE  ResolverInv'
<1> DEFINE answer == IF Hit(k) THEN Peek(k) ELSE Generated
           new == [request[r] EXCEPT !.pc = "done", !.key = k, !.answer = answer]
<1>1. k \in Keys
  BY ResponsesAssumption
<1>2. answer \in Answer \cup {Generated} /\ LayeredIfPart(answer)
  BY <1>1, PeekType DEF ResolverInv, LayeredIfPart
<1>3. request' = [request EXCEPT ![r] = new] /\ UNCHANGED <<config, calls, inFlight, sent>>
  BY DEF ResolveAtOnce, Answered
<1> HIDE DEF answer
<1>4. new \in Request /\ new.pc = "done" /\ new.answer = answer /\ new.flight = request[r].flight
  BY <1>1, <1>2 DEF ResolverInv, ResolverTypeOK, Request
<1>5. request[r].flight # "flying"
  BY DEF ResolveAtOnce, ResolverInv
<1>6. /\ inFlight' \in [Keys -> Requests \cup {Absent}] /\ calls' \in Nat /\ sent' = calls'
      /\ config.maxCalls # Unlimited => calls' <= config.maxCalls
  BY <1>3 DEF ResolverInv, ResolverTypeOK
<1> HIDE DEF new
<1> QED
  BY <1>2, <1>3, <1>4, <1>5, <1>6, RequestMoves

LEMMA JoinKeeps ==
  ASSUME ResolverInv, NEW r \in Requests, NEW k \in RequestKeys, Join(r, k)
  PROVE  ResolverInv'
<1>1. k \in Keys
  BY ResponsesAssumption
<1>2. request[r].pc = "idle" /\ inFlight[k] \in Requests /\ request[r] \in Request
  BY <1>1 DEF Join, Misses, ResolverInv, ResolverTypeOK
<1>3. UNCHANGED <<config, calls, inFlight, sent>>
  BY DEF Join
<1>4. CASE request[inFlight[k]].flight = "flying"
  <2> DEFINE new == [request[r] EXCEPT !.pc = "awaiting", !.key = k, !.leader = inFlight[k]]
  <2>1. request' = [request EXCEPT ![r] = new]
    BY <1>4 DEF Join
  <2>2. new \in Request /\ new.answer = request[r].answer /\ new.leader = inFlight[k] /\ new.key = k
          /\ new.flight = request[r].flight
    BY <1>1, <1>2 DEF Request
  <2>3. LayeredIfPart(new.answer)
    BY <2>2 DEF ResolverInv
  <2>4. request[r].flight # "flying"
    BY <1>2 DEF ResolverInv
  <2> HIDE DEF new
  <2> QED
    BY <1>3, <2>1, <2>2, <2>3, <2>4, RequestMoves DEF ResolverInv, ResolverTypeOK
<1>5. CASE request[inFlight[k]].flight # "flying"
  <2> DEFINE new == [request[r] EXCEPT !.pc = "done", !.key = k, !.answer = Generated]
  <2>1. request' = [request EXCEPT ![r] = new]
    BY <1>5 DEF Join, Answered
  <2>2. new \in Request /\ LayeredIfPart(new.answer) /\ new.flight = request[r].flight
    BY <1>1, <1>2 DEF Request, LayeredIfPart
  <2>3. request[r].flight # "flying"
    BY <1>2 DEF ResolverInv
  <2> HIDE DEF new
  <2> QED
    BY <1>3, <2>1, <2>2, <2>3, RequestMoves DEF ResolverInv, ResolverTypeOK
<1> QED
  BY <1>4, <1>5

\* A request enters the Map where no other is: its call is within the budget.
LEMMA LaunchKeeps ==
  ASSUME ResolverInv, NEW r \in Requests, NEW k \in RequestKeys, Launch(r, k) \/ LaunchThrows(r, k)
  PROVE  ResolverInv'
<1>1. k \in Keys
  BY ResponsesAssumption
<1>2. /\ request[r].pc = "idle" /\ request[r] \in Request /\ inFlight[k] = Absent
      /\ calls' = calls + 1 /\ sent' = sent + 1 /\ UNCHANGED config
      /\ inFlight' = [inFlight EXCEPT ![k] = r]
      /\ config.maxCalls # Unlimited => calls < config.maxCalls
  BY DEF Launch, LaunchThrows, Misses, WithinBudget, Entered, ResolverInv, ResolverTypeOK
<1>3. calls' \in Nat /\ sent' = calls' /\ (config.maxCalls # Unlimited => calls' <= config.maxCalls)
  <2>1. calls \in Nat /\ config.maxCalls \in Nat \cup {Unlimited}
    BY ConfigsAssumption DEF ResolverInv, ResolverTypeOK
  <2> QED
    BY <1>2, <2>1 DEF ResolverInv
<1>4. inFlight' \in [Keys -> Requests \cup {Absent}] /\ inFlight'[k] = r
  BY <1>1, <1>2 DEF ResolverInv, ResolverTypeOK
<1>5. \A q \in Requests \ {r} : Flying(q) => inFlight'[request[q].key] = inFlight[request[q].key]
  BY <1>2, RequestsAssumption DEF ResolverInv, ResolverTypeOK
<1>6. ASSUME NEW pc \in {"awaiting", "done"}, NEW flight \in {"flying", "landed"},
             flight = "flying" => pc = "awaiting",
             request' = [request EXCEPT ![r] =
               [@ EXCEPT !.pc = pc, !.key = k, !.leader = r, !.flight = flight]]
      PROVE  ResolverInv'
  <2> DEFINE new == [request[r] EXCEPT !.pc = pc, !.key = k, !.leader = r, !.flight = flight]
  <2>1. request' = [request EXCEPT ![r] = new]
    BY <1>6
  <2>2. new \in Request /\ new.answer = request[r].answer /\ new.leader = r /\ new.key = k
          /\ new.pc = pc /\ new.flight = flight
    BY <1>1, <1>2 DEF Request
  <2>3. LayeredIfPart(new.answer)
    BY <2>2 DEF ResolverInv
  <2> HIDE DEF new
  <2> QED
    BY <1>2, <1>3, <1>4, <1>5, <1>6, <2>1, <2>2, <2>3, RequestMoves
<1> QED
  BY <1>6 DEF Launch, LaunchThrows

LEMMA LandedKeeps ==
  ASSUME ResolverInv, NEW r \in Requests, Flying(r), NEW answer \in Answer \cup {Generated},
         LayeredIfPart(answer), Landed(r, answer),
         inFlight' = [inFlight EXCEPT ![request[r].key] = Absent], UNCHANGED <<config, calls, sent>>
  PROVE  ResolverInv'
<1>1. \A q \in Requests : request[q] \in Request
  BY DEF ResolverInv, ResolverTypeOK
<1>2. request[r].leader = r /\ request[r].key \in Keys \cup {Absent}
  BY <1>1 DEF ResolverInv, Request
<1>3. inFlight' \in [Keys -> Requests \cup {Absent}]
  BY DEF ResolverInv, ResolverTypeOK
<1>4. ASSUME NEW q \in Requests
      PROVE  /\ request'[q] \in Request
             /\ LayeredIfPart(request'[q].answer)
             /\ request'[q].flight = "flying" => request'[q].pc = "awaiting"
             /\ Flying(q)' => request'[q] = request[q] /\ Flying(q) /\ q # r
  <2>1. CASE request[q].pc = "awaiting" /\ request[q].leader = r
    <3>1. request'[q] = [request[q] EXCEPT !.pc = "done", !.answer = answer,
                            !.flight = IF q = r THEN "landed" ELSE @]
      BY <2>1 DEF Landed
    <3>2. q # r => request[q].flight # "flying"
      BY <2>1 DEF ResolverInv, Flying
    <3> QED
      BY <1>1, <3>1, <3>2 DEF Request, Flying
  <2>2. CASE ~(request[q].pc = "awaiting" /\ request[q].leader = r)
    <3>1. request'[q] = request[q]
      BY <2>2 DEF Landed
    <3> QED
      BY <1>1, <1>2, <2>2, <3>1 DEF ResolverInv, Flying
  <2> QED
    BY <2>1, <2>2
<1>5. request' \in [Requests -> Request]
  BY <1>4 DEF Landed
<1>6. ASSUME NEW q \in Requests, Flying(q)'
      PROVE  request'[q].leader = q /\ inFlight'[request'[q].key] = q
  <2>1. request'[q] = request[q] /\ Flying(q) /\ q # r
    BY <1>4, <1>6
  <2>2. request[q].leader = q /\ inFlight[request[q].key] = q /\ inFlight[request[r].key] = r
    BY <2>1 DEF ResolverInv
  <2> QED
    BY <2>1, <2>2
<1>7. ResolverTypeOK'
  BY <1>3, <1>5 DEF ResolverInv, ResolverTypeOK
<1> QED
  BY <1>4, <1>6, <1>7 DEF ResolverInv

LEMMA ResolvingKeeps == DiskInv /\ ResolverInv /\ Resolving => ResolverInv'
<1> SUFFICES ASSUME DiskInv, ResolverInv, Resolving PROVE ResolverInv'
  OBVIOUS
<1>1. ASSUME NEW r \in Requests, LandWithValue(r) PROVE ResolverInv'
  <2>1. version + 1 \in Nat
    BY DEF DiskInv, DiskTypeOK
  <2> QED
    BY <1>1, <2>1, NewShape, LandedKeeps DEF LandWithValue, ResolverInv
<1>2. ASSUME NEW r \in Requests, LandEmpty(r) PROVE ResolverInv'
  BY <1>2, LandedKeeps DEF LandEmpty, LayeredIfPart
<1> QED
  BY <1>1, <1>2, ResolveAtOnceKeeps, JoinKeeps, LaunchKeeps DEF Resolving

LEMMA ResolverRestartKeeps == ResolverRestart => ResolverInv'
<1> SUFFICES ASSUME ResolverRestart PROVE ResolverInv'
  OBVIOUS
<1>1. ResolverTypeOK'
  BY DEF ResolverRestart, ResolverTypeOK, NotAsked, Request
<1>2. config'.maxCalls # Unlimited => calls' <= config'.maxCalls
  BY <1>1, ConfigsAssumption DEF ResolverRestart, ResolverTypeOK
<1> QED
  BY <1>1, <1>2 DEF ResolverRestart, ResolverInv, NotAsked, Flying, LayeredIfPart

LEMMA ResolverInitInv == ResolverInit => ResolverInv
<1> SUFFICES ASSUME ResolverInit PROVE ResolverInv
  OBVIOUS
<1>1. ResolverTypeOK
  BY DEF ResolverInit, ResolverTypeOK, NotAsked, Request
<1>2. config.maxCalls # Unlimited => calls <= config.maxCalls
  BY <1>1, ConfigsAssumption DEF ResolverInit, ResolverTypeOK
<1> QED
  BY <1>1, <1>2 DEF ResolverInit, ResolverInv, NotAsked, Flying, LayeredIfPart

LEMMA ResolverStill == ResolverInv /\ UNCHANGED resolverVars => ResolverInv'
BY DEF ResolverInv, ResolverTypeOK, resolverVars, Flying, LayeredIfPart

(***************************************************************************)
(* What is served.  A build that is reading has every file that is owed to *)
(* it still before it, or has read it.                                     *)
(***************************************************************************)
BuildInv(r) ==
  LET b == reload[r]
  IN /\ b.pc \in {"loading", "done"} => b.doc.loads
     /\ b.pc = "loading" => \A k \in Keys :
          /\ b.due[k] <= durable[k]
          /\ b.due[k] > 0 => FileOf[k] \in b.todo \/ b.due[k] <= VersionOf(b.loaded[k])
     /\ b.pc = "done" => \A k \in Keys : b.due[k] <= VersionOf(b.loaded[k])

Active(s) == listener[s] \in {"opening", "open", "closing"}

SlotsInv ==
  /\ ~overlap =>
       /\ \A s, t \in Servers : Active(s) /\ Active(t) => s = t
       /\ \A s \in Servers : listener[s] \in {"open", "closing"} <=> server = s
  /\ newest # 0 => handle[newest] # "none"
  /\ mount = IF newest # 0 /\ handle[newest] = "open" THEN newest ELSE 0

ServingInv ==
  /\ ServingTypeOK
  /\ current # Absent => current.doc.loads
  /\ \A r \in Reloads : BuildInv(r)
  /\ SlotsInv

LEMMA BuildType ==
  ASSUME ServingTypeOK, NEW r \in Reloads
  PROVE  /\ reload[r] \in Build /\ reload[r].due \in [Keys -> Nat]
         /\ \A k \in Keys : VersionOf(reload[r].loaded[k]) \in Nat
<1>1. reload[r] \in Build
  BY DEF ServingTypeOK
<1>2. reload[r].loaded \in [Keys -> FixtureEntry \cup {Absent}]
  BY <1>1 DEF Build, Contents
<1> QED
  BY <1>1, <1>2, VersionNat DEF Build

\* One build moves.
LEMMA ReloadMoves ==
  ASSUME ServingInv, NEW r \in Reloads, NEW new \in Build, reload' = [reload EXCEPT ![r] = new],
         UNCHANGED <<durable, document, listeners, mounts>>,
         current' \in Handler \cup {Absent}, current' # Absent => current'.doc.loads,
         new.pc \in {"loading", "done"} => new.doc.loads,
         new.pc = "loading" => \A k \in Keys :
           /\ new.due[k] <= durable[k]
           /\ new.due[k] > 0 => FileOf[k] \in new.todo \/ new.due[k] <= VersionOf(new.loaded[k]),
         new.pc = "done" => \A k \in Keys : new.due[k] <= VersionOf(new.loaded[k])
  PROVE  ServingInv'
<1> USE DEF ServingInv
<1>1. \A q \in Reloads : reload'[q] = IF q = r THEN new ELSE reload[q]
  BY DEF ServingTypeOK
<1>2. ServingTypeOK'
  BY DEF ServingTypeOK, listeners, mounts
<1>3. ASSUME NEW q \in Reloads PROVE BuildInv(q)'
  <2>1. CASE q = r
    BY <1>1, <2>1 DEF BuildInv, VersionOf
  <2>2. CASE q # r
    BY <1>1, <2>2 DEF BuildInv, VersionOf
  <2> QED
    BY <2>1, <2>2
<1>4. SlotsInv'
  BY DEF SlotsInv, listeners, mounts, Active
<1> QED
  BY <1>2, <1>3, <1>4

LEMMA StartBuildKeeps ==
  ASSUME ServingInv, NEW r \in Reloads, StartBuild(r)
  PROVE  ServingInv'
<1> DEFINE new == [reload[r] EXCEPT !.pc = "reading"]
<1>1. reload' = [reload EXCEPT ![r] = new]
  BY DEF StartBuild
<1>2. new \in Build /\ new.pc = "reading"
  BY BuildType DEF ServingInv, Build
<1>3. UNCHANGED <<durable, document, current, listeners, mounts>>
  BY DEF StartBuild, diskVars
<1>4. current \in Handler \cup {Absent} /\ (current # Absent => current.doc.loads)
  BY DEF ServingInv, ServingTypeOK
<1> HIDE DEF new
<1> QED
  BY <1>1, <1>2, <1>3, <1>4, ReloadMoves

LEMMA ReadDocumentKeeps ==
  ASSUME DiskInv, ServingInv, NEW r \in Reloads, ReadDocument(r)
  PROVE  ServingInv'
<1> DEFINE failed == [reload[r] EXCEPT !.pc = "failed"]
           new == [reload[r] EXCEPT !.pc = "loading", !.doc = document, !.todo = FilesIn(disk), !.due = durable]
<1>1. reload[r] \in Build /\ document \in Document
  BY BuildType DEF ServingInv, ServingTypeOK
<1>2. UNCHANGED <<durable, document, current, listeners, mounts>>
  BY DEF ReadDocument, diskVars
<1>3. current \in Handler \cup {Absent} /\ (current # Absent => current.doc.loads)
  BY DEF ServingInv, ServingTypeOK
<1>4. CASE ~document.loads
  <2>1. reload' = [reload EXCEPT ![r] = failed]
    BY <1>4 DEF ReadDocument
  <2>2. failed \in Build /\ failed.pc = "failed"
    BY <1>1 DEF Build
  <2> HIDE DEF failed
  <2> QED
    BY <1>2, <1>3, <2>1, <2>2, ReloadMoves
<1>5. CASE document.loads
  <2>1. reload' = [reload EXCEPT ![r] = new]
    BY <1>5 DEF ReadDocument
  <2>2. FilesIn(disk) \subseteq Files
    BY FileOfAssumption DEF FilesIn
  <2>3. durable \in [Keys -> Nat]
    BY DEF DiskInv, DiskTypeOK
  <2>4. new \in Build /\ new.pc = "loading" /\ new.doc = document /\ new.due = durable
          /\ new.todo = FilesIn(disk)
    BY <1>1, <2>2, <2>3 DEF Build
  <2>5. ASSUME NEW k \in Keys, durable[k] > 0 PROVE FileOf[k] \in FilesIn(disk)
    <3>1. VersionOf(disk[k]) >= durable[k] /\ durable[k] \in Nat
      BY <2>3, <2>5 DEF DiskInv, Durable
    <3>2. disk[k] # Absent
      BY <2>5, <3>1, AbsentIsNoEntry
    <3> QED
      BY <3>2 DEF FilesIn
  <2>6. \A k \in Keys : durable[k] <= durable[k]
    BY <2>3
  <2> HIDE DEF new
  <2> QED
    BY <1>2, <1>3, <1>5, <2>1, <2>4, <2>5, <2>6, ReloadMoves
<1> QED
  BY <1>4, <1>5

LEMMA LoadFileKeeps ==
  ASSUME DiskInv, ServingInv, NEW r \in Reloads, LoadFile(r)
  PROVE  ServingInv'
<1>1. PICK f \in Files :
        /\ First(f, reload[r].todo)
        /\ reload' = [reload EXCEPT
             ![r].todo = @ \ {f},
             ![r].loaded = [k \in Keys |-> IF FileOf[k] = f THEN Readable(k) ELSE @[k]]]
  BY DEF LoadFile
<1> DEFINE todo == reload[r].todo \ {f}
           loaded == [k \in Keys |-> IF FileOf[k] = f THEN Readable(k) ELSE reload[r].loaded[k]]
           new == [reload[r] EXCEPT !.todo = todo, !.loaded = loaded]
<1>2. reload[r] \in Build /\ reload[r].pc = "loading" /\ reload[r].doc.loads
  BY BuildType DEF LoadFile, ServingInv, BuildInv
<1>3. loaded \in Contents
  <2>1. \A k \in Keys : Readable(k) \in FixtureEntry \cup {Absent}
    BY DEF Readable, DiskInv, DiskTypeOK, Contents
  <2>2. \A k \in Keys : reload[r].loaded[k] \in FixtureEntry \cup {Absent}
    BY <1>2 DEF Build, Contents
  <2> QED
    BY <2>1, <2>2 DEF Contents
<1>4. todo \in SUBSET Files
  BY <1>2 DEF Build
<1>5. reload' = [reload EXCEPT ![r] = new]
  BY <1>1, <1>2 DEF ServingInv, ServingTypeOK
<1>6. ASSUME NEW k \in Keys
      PROVE  /\ reload[r].due[k] <= durable[k]
             /\ reload[r].due[k] > 0 => FileOf[k] \in todo \/ reload[r].due[k] <= VersionOf(loaded[k])
  <2>1. /\ reload[r].due[k] <= durable[k]
        /\ reload[r].due[k] > 0 =>
             FileOf[k] \in reload[r].todo \/ reload[r].due[k] <= VersionOf(reload[r].loaded[k])
    BY <1>2 DEF ServingInv, BuildInv
  <2>2. reload[r].due[k] \in Nat /\ durable[k] \in Nat /\ VersionOf(disk[k]) \in Nat
    BY <1>2, VersionNat DEF Build, DiskInv, DiskTypeOK, Contents
  <2>3. CASE FileOf[k] = f
    <3>1. durable[k] > 0 => Readable(k) = disk[k] /\ VersionOf(disk[k]) >= durable[k]
      BY DEF DiskInv, Durable, Readable
    <3> QED
      BY <2>1, <2>2, <2>3, <3>1
  <2>4. CASE FileOf[k] # f
    BY <2>1, <2>4
  <2> QED
    BY <2>3, <2>4
<1> HIDE DEF todo, loaded
<1>7. new \in Build /\ new.pc = "loading" /\ new.doc = reload[r].doc /\ new.due = reload[r].due
        /\ new.todo = todo /\ new.loaded = loaded
  BY <1>2, <1>3, <1>4 DEF Build
<1>8. UNCHANGED <<durable, document, current, listeners, mounts>>
  BY DEF LoadFile, diskVars
<1>9. current \in Handler \cup {Absent} /\ (current # Absent => current.doc.loads)
  BY DEF ServingInv, ServingTypeOK
<1> HIDE DEF new
<1> QED
  BY <1>2, <1>5, <1>6, <1>7, <1>8, <1>9, ReloadMoves

LEMMA FinishBuildKeeps ==
  ASSUME DiskInv, ServingInv, NEW r \in Reloads, FinishBuild(r)
  PROVE  ServingInv'
<1> DEFINE new == [reload[r] EXCEPT !.pc = "done"]
<1>1. reload[r] \in Build /\ reload[r].pc = "loading" /\ reload[r].doc.loads /\ reload[r].todo = {}
  BY BuildType DEF FinishBuild, ServingInv, BuildInv
<1>2. reload' = [reload EXCEPT ![r] = new] /\ current' = [doc |-> reload[r].doc, loaded |-> reload[r].loaded]
        /\ UNCHANGED <<durable, document, listeners, mounts>>
  BY DEF FinishBuild, diskVars
<1>3. new \in Build /\ new.pc = "done" /\ new.doc = reload[r].doc /\ new.due = reload[r].due
        /\ new.loaded = reload[r].loaded
  BY <1>1 DEF Build
<1>4. current' \in Handler /\ current'.doc.loads
  BY <1>1, <1>2 DEF Build, Handler
<1>5. \A k \in Keys : reload[r].due[k] <= VersionOf(reload[r].loaded[k])
  BY <1>1, BuildType DEF ServingInv, BuildInv
<1> HIDE DEF new
<1> QED
  BY <1>1, <1>2, <1>3, <1>4, <1>5, ReloadMoves

LEMMA SaveDocumentKeeps ==
  ASSUME ServingInv, NEW loads \in BOOLEAN, SaveDocument(loads)
  PROVE  ServingInv'
<1>1. document' \in Document
  BY DEF SaveDocument, ServingInv, ServingTypeOK, Document
<1>2. UNCHANGED <<durable, reload, current, listeners, mounts>>
  BY DEF SaveDocument, diskVars
<1>3. ServingTypeOK'
  BY <1>1, <1>2 DEF ServingInv, ServingTypeOK, listeners, mounts
<1>4. \A r \in Reloads : BuildInv(r)'
  BY <1>2 DEF ServingInv, BuildInv, VersionOf
<1>5. SlotsInv'
  BY <1>2 DEF ServingInv, SlotsInv, listeners, mounts, Active
<1> QED
  BY <1>2, <1>3, <1>4, <1>5 DEF ServingInv

\* The listener and the mount change, and nothing else does.
LEMMA SlotsMove ==
  ASSUME ServingInv, ServingTypeOK', SlotsInv', UNCHANGED <<durable, document, reload, current>>
  PROVE  ServingInv'
BY DEF ServingInv, BuildInv, VersionOf

\* One call of listen() or close() is on its way: until another one is, it is
\* the only one that is.
LEMMA ListenersKeep ==
  ASSUME ServingInv, NEW s \in Servers, Listen(s) \/ ListenOpens(s) \/ ListenFails(s) \/ CloseEnds(s)
  PROVE  ServingInv'
<1>1. UNCHANGED <<durable, document, reload, current, mounts>>
  BY DEF Listen, ListenOpens, ListenFails, CloseEnds, diskVars
<1>2. listener \in [Servers -> {"unused", "opening", "open", "closing", "closed", "failed"}]
        /\ server \in Servers \cup {Absent} /\ overlap \in BOOLEAN
  BY DEF ServingInv, ServingTypeOK
<1>3. ServingTypeOK'
  <2>1. listener' \in [Servers -> {"unused", "opening", "open", "closing", "closed", "failed"}]
          /\ server' \in Servers \cup {Absent}
    BY <1>2 DEF Listen, ListenOpens, ListenFails, CloseEnds
  <2>2. overlap' \in BOOLEAN
    BY <1>2 DEF Listen, ListenOpens, ListenFails, CloseEnds, Moving, Opened
  <2> QED
    BY <1>1, <2>1, <2>2 DEF ServingInv, ServingTypeOK, mounts
<1>4. ASSUME ~overlap'
      PROVE  /\ \A t, u \in Servers : Active(t)' /\ Active(u)' => t = u
             /\ \A t \in Servers : listener'[t] \in {"open", "closing"} <=> server' = t
  <2> USE DEF Active, Moving, Opened
  <2>1. ~overlap
    BY <1>2, <1>4 DEF Listen, ListenOpens, ListenFails, CloseEnds
  <2>2. /\ \A t, u \in Servers : Active(t) /\ Active(u) => t = u
        /\ \A t \in Servers : listener[t] \in {"open", "closing"} <=> server = t
    BY <2>1 DEF ServingInv, SlotsInv
  <2>3. CASE Listen(s)
    BY <1>2, <1>4, <2>2, <2>3 DEF Listen
  <2>4. CASE ListenOpens(s)
    BY <1>2, <2>2, <2>4 DEF ListenOpens
  <2>5. CASE ListenFails(s)
    BY <1>2, <2>2, <2>5 DEF ListenFails
  <2>6. CASE CloseEnds(s)
    BY <1>2, <2>2, <2>6, ServersAssumption DEF CloseEnds
  <2> QED
    BY <2>3, <2>4, <2>5, <2>6
<1>5. SlotsInv'
  BY <1>1, <1>4 DEF ServingInv, SlotsInv, mounts
<1> QED
  BY <1>1, <1>3, <1>5, SlotsMove

LEMMA CallCloseKeeps == ServingInv /\ CallClose => ServingInv'
<1> SUFFICES ASSUME ServingInv, CallClose PROVE ServingInv'
  OBVIOUS
<1>1. UNCHANGED <<durable, document, reload, current, server, mounts>>
  BY DEF CallClose, diskVars
<1>2. listener \in [Servers -> {"unused", "opening", "open", "closing", "closed", "failed"}]
        /\ server \in Servers \cup {Absent} /\ overlap \in BOOLEAN
  BY DEF ServingInv, ServingTypeOK
<1>3. \A t \in Servers : listener'[t] = listener[t] \/
        (server = t /\ listener[t] = "open" /\ listener'[t] = "closing")
  BY <1>2 DEF CallClose
<1>4. ServingTypeOK'
  <2>1. listener' \in [Servers -> {"unused", "opening", "open", "closing", "closed", "failed"}]
    BY <1>2 DEF CallClose
  <2>2. overlap' \in BOOLEAN
    BY <1>2 DEF CallClose, Moving
  <2> QED
    BY <1>1, <2>1, <2>2 DEF ServingInv, ServingTypeOK, mounts
<1>5. ~overlap' => ~overlap
  BY <1>2 DEF CallClose
<1>6. SlotsInv'
  BY <1>1, <1>3, <1>5 DEF ServingInv, SlotsInv, Active, mounts
<1> QED
  BY <1>1, <1>4, <1>6, SlotsMove

\* The handle that took the slot last keeps it until it is closed.
LEMMA MountsKeep ==
  ASSUME ServingInv, NEW h \in Handles, CloseHandle(h) \/ \E http \in BOOLEAN : Mcp(h, http)
  PROVE  ServingInv'
<1>1. UNCHANGED <<durable, document, reload, current, listeners>>
  BY DEF CloseHandle, Mcp, diskVars
<1>2. handle \in [Handles -> {"none", "open", "closed"}] /\ mount \in Handles \cup {0}
        /\ newest \in Handles \cup {0} /\ h # 0
  BY HandlesAssumption DEF ServingInv, ServingTypeOK
<1>3. ServingTypeOK'
  <2>1. handle' \in [Handles -> {"none", "open", "closed"}] /\ mount' \in Handles \cup {0}
          /\ newest' \in Handles \cup {0}
    BY <1>2 DEF CloseHandle, Mcp, Unmounted
  <2> QED
    BY <1>1, <2>1 DEF ServingInv, ServingTypeOK, listeners
<1>4. /\ newest' # 0 => handle'[newest'] # "none"
      /\ mount' = IF newest' # 0 /\ handle'[newest'] = "open" THEN newest' ELSE 0
  BY <1>2 DEF ServingInv, SlotsInv, CloseHandle, Mcp, Unmounted
<1>5. SlotsInv'
  BY <1>1, <1>4 DEF ServingInv, SlotsInv, listeners, Active
<1> QED
  BY <1>1, <1>3, <1>5, SlotsMove

LEMMA ServesKeeps == DiskInv /\ ServingInv /\ Serves => ServingInv'
BY SaveDocumentKeeps, StartBuildKeeps, ReadDocumentKeeps, LoadFileKeeps, FinishBuildKeeps,
   ListenersKeep, CallCloseKeeps, MountsKeep
DEF Serves

\* What is owed to a build that reads stays owed when more is durable.
LEMMA DurableGrows ==
  ASSUME ServingInv, UNCHANGED servingVars,
         \A k \in Keys : durable[k] \in Nat /\ durable'[k] \in Nat /\ durable[k] <= durable'[k]
  PROVE  ServingInv'
<1> USE DEF servingVars
<1>1. ServingTypeOK'
  BY DEF ServingInv, ServingTypeOK
<1>2. ASSUME NEW r \in Reloads PROVE BuildInv(r)'
  <2>1. BuildInv(r) /\ reload[r].due \in [Keys -> Nat]
    BY BuildType DEF ServingInv
  <2> QED
    BY <2>1 DEF BuildInv, VersionOf
<1>3. SlotsInv'
  BY DEF ServingInv, SlotsInv, Active
<1> QED
  BY <1>1, <1>2, <1>3 DEF ServingInv

LEMMA StoreGrows ==
  ASSUME DiskInv, Store, NEW k \in Keys
  PROVE  durable[k] <= durable'[k]
<1>1. durable \in [Keys -> Nat]
  BY DEF DiskInv, DiskTypeOK
<1>2. ASSUME NEW pc \in {"resolved", "rejected"}, Settle(pc), queue # <<>>
      PROVE  durable[k] <= durable'[k]
  <2>1. CASE durable' = durable
    BY <1>1, <2>1
  <2>2. CASE durable' = [x \in Keys |-> NewerOf(durable[x], flushes[Head(queue)].promised[x])]
                /\ Head(queue) # Debounce
    <3>1. flushes[Head(queue)].promised \in [Keys -> Nat]
      BY <1>2, <2>2, HeadAsked DEF DiskInv, DiskTypeOK, Flush
    <3> QED
      BY <1>1, <2>2, <3>1 DEF NewerOf
  <2> QED
    BY <1>2, <2>1, <2>2 DEF Settle
<1>3. UNCHANGED durable \/ (queue # <<>> /\ \E pc \in {"resolved", "rejected"} : Settle(pc))
  BY DEF Store, BakeCommandEnds, TimerFires, CallFlush, BeginWrite, WriteNothing, RefuseWrite, WriteTemp,
         FailWrite, Rename, DiskInv, WritingForHead
<1> QED
  BY <1>1, <1>2, <1>3

LEMMA StoreKeepsServing == DiskInv /\ ServingInv /\ Store => ServingInv'
<1> SUFFICES ASSUME DiskInv, ServingInv, Store PROVE ServingInv'
  OBVIOUS
<1>1. DiskInv'
  BY StoreKeepsDisk
<1>2. \A k \in Keys : durable[k] \in Nat /\ durable'[k] \in Nat
  BY <1>1 DEF DiskInv, DiskTypeOK
<1>3. UNCHANGED servingVars
  BY DEF Store
<1> QED
  BY <1>2, <1>3, StoreGrows, DurableGrows

\* What is taken back of the promises is taken back from the builds that read.
LEMMA ForgettingKeeps ==
  ASSUME DiskInv, ServingInv, NEW files \in SUBSET Files, durable' = Forgets(durable, files), ReloadsForget(files)
  PROVE  ServingInv'
<1>1. durable \in [Keys -> Nat]
  BY DEF DiskInv, DiskTypeOK
<1>2. UNCHANGED <<document, current, listeners, mounts>>
  BY DEF ReloadsForget
<1>3. ASSUME NEW r \in Reloads
      PROVE  reload'[r] \in Build /\ BuildInv(r)'
  <2> DEFINE b == reload[r]
             due == Forgets(b.due, files)
             new == [b EXCEPT !.due = due]
  <2>1. b \in Build /\ b.due \in [Keys -> Nat]
    BY BuildType DEF ServingInv
  <2>2. due \in [Keys -> Nat]
    BY <2>1 DEF Forgets
  <2>3. CASE b.pc = "loading"
    <3>1. reload'[r] = new
      BY <2>3 DEF ReloadsForget
    <3>2. ASSUME NEW k \in Keys
          PROVE  /\ due[k] <= durable'[k]
                 /\ due[k] > 0 => FileOf[k] \in b.todo \/ due[k] <= VersionOf(b.loaded[k])
      <4>1. /\ b.due[k] <= durable[k]
            /\ b.due[k] > 0 => FileOf[k] \in b.todo \/ b.due[k] <= VersionOf(b.loaded[k])
        BY <2>3 DEF ServingInv, BuildInv
      <4> QED
        BY <1>1, <2>1, <4>1 DEF Forgets
    <3> HIDE DEF due
    <3>3. new \in Build /\ new.pc = "loading" /\ new.doc = b.doc /\ new.todo = b.todo
            /\ new.loaded = b.loaded /\ new.due = due
      BY <2>1, <2>2, <2>3 DEF Build
    <3> QED
      BY <2>3, <3>1, <3>2, <3>3 DEF ServingInv, BuildInv, VersionOf
  <2>4. CASE b.pc # "loading"
    <3>1. reload'[r] = b
      BY <2>4 DEF ReloadsForget
    <3> QED
      BY <2>1, <2>4, <3>1 DEF ServingInv, BuildInv, VersionOf
  <2> QED
    BY <2>3, <2>4
<1>4. reload' \in [Reloads -> Build]
  BY <1>3 DEF ReloadsForget
<1>5. ServingTypeOK'
  BY <1>2, <1>4 DEF ServingInv, ServingTypeOK, listeners, mounts
<1>6. SlotsInv'
  BY <1>2 DEF ServingInv, SlotsInv, Active, listeners, mounts
<1> QED
  BY <1>2, <1>3, <1>5, <1>6 DEF ServingInv

LEMMA OperatorKeepsServing == DiskInv /\ ServingInv /\ Operator => ServingInv'
<1> SUFFICES ASSUME DiskInv, ServingInv, Operator PROVE ServingInv'
  OBVIOUS
<1>1. CASE Clear /\ ReloadsForget(Files)
  <2>1. durable' = Forgets(durable, Files)
    BY <1>1, FileOfAssumption DEF Clear, Nothing, Forgets
  <2> QED
    BY <1>1, <2>1, ForgettingKeeps
<1>2. ASSUME NEW file \in Files, HandEdit(file), ReloadsForget({file}) PROVE ServingInv'
  BY <1>2, ForgettingKeeps DEF HandEdit
<1> QED
  BY <1>1, <1>2 DEF Operator

\* Who neither serves nor writes leaves what is served, and what is durable.
LEMMA OthersKeepServing == DiskInv /\ ServingInv /\ (Crash \/ Resolving \/ Bakes) => ServingInv'
<1> SUFFICES ASSUME DiskInv, ServingInv, Crash \/ Resolving \/ Bakes PROVE ServingInv'
  OBVIOUS
<1>1. UNCHANGED <<durable, servingVars>>
  BY ZenonT(60) DEF Crash, Restart, Resolving, ResolveAtOnce, Join, Launch, LaunchThrows, LandWithValue, LandEmpty,
         Bakes, StartBake, ChunkFails, BakeAnswer, ChunkAnswered, diskVars
<1>2. durable \in [Keys -> Nat]
  BY DEF DiskInv, DiskTypeOK
<1> QED
  BY <1>1, <1>2, DurableGrows

LEMMA ServingInitInv == ServingInit => ServingInv
<1> SUFFICES ASSUME ServingInit PROVE ServingInv
  OBVIOUS
<1> DEFINE start == [pc |-> "idle", doc |-> document, todo |-> {}, loaded |-> Empty, due |-> Nothing]
<1>1. document \in Document
  BY DEF ServingInit, Document
<1>2. start \in Build /\ start.pc = "idle"
  BY <1>1 DEF Build, Empty, Nothing, Contents
<1>3. \A r \in Reloads : reload[r] = start
  BY DEF ServingInit
<1>4. reload \in [Reloads -> Build]
  BY <1>2 DEF ServingInit
<1> HIDE DEF start
<1>5. ServingTypeOK
  BY <1>1, <1>4 DEF ServingInit, ServingTypeOK
<1>6. \A r \in Reloads : BuildInv(r)
  BY <1>2, <1>3 DEF BuildInv
<1>7. SlotsInv
  BY ServersAssumption DEF ServingInit, SlotsInv, Active
<1> QED
  BY <1>5, <1>6, <1>7 DEF ServingInit, ServingInv

(***************************************************************************)
(* Together: each part keeps its own, and what the others need of it.      *)
(***************************************************************************)
FixturesInv == DiskInv /\ BakeInv /\ ResolverInv /\ ServingInv /\ mix \in Mixes

LEMMA MixStays == [Next]_vars => UNCHANGED mix
BY DEF Next, Store, Operator, Crash, Resolving, Bakes, Serves, vars

LEMMA FixturesInitInv == Init => FixturesInv
<1> SUFFICES ASSUME Init PROVE FixturesInv
  OBVIOUS
<1>1. DiskInv
  BY DiskInitInv DEF Init
<1>2. BakeInv
  BY NotBakingAccounts DEF Init, BakeInit, BakeInv
<1> QED
  BY <1>1, <1>2, ResolverInitInv, ServingInitInv DEF Init, FixturesInv

LEMMA FixturesNextInv == FixturesInv /\ [Next]_vars => FixturesInv'
<1> SUFFICES ASSUME DiskInv, BakeInv, ResolverInv, ServingInv, [Next]_vars
    PROVE  DiskInv' /\ BakeInv' /\ ResolverInv' /\ ServingInv'
  BY MixStays DEF FixturesInv
<1>1. CASE Store
  <2>1. UNCHANGED baking /\ UNCHANGED resolverVars
    BY <1>1 DEF Store
  <2> QED
    BY <1>1, <2>1, StoreKeepsDisk, AccountsKept, ResolverStill, StoreKeepsServing
<1>2. CASE Operator
  <2>1. UNCHANGED baking /\ UNCHANGED resolverVars
    BY <1>2 DEF Operator
  <2> QED
    BY <1>2, <2>1, OperatorKeepsDisk, AccountsKept, ResolverStill, OperatorKeepsServing
<1>3. CASE Crash
  <2>1. BakeInv'
    BY <1>3, NotBakingAccounts DEF Crash, BakeRestart, BakeInv
  <2> QED
    BY <1>3, <2>1, RestartKeepsDisk, ResolverRestartKeeps, OthersKeepServing DEF Crash
<1>4. CASE Resolving
  <2>1. DiskInv'
    BY <1>4, ResolvingKeepsDisk DEF ResolverInv
  <2>2. UNCHANGED baking
    BY <1>4 DEF Resolving
  <2> QED
    BY <1>4, <2>1, <2>2, AccountsKept, ResolvingKeeps, OthersKeepServing
<1>5. CASE Bakes
  <2>1. UNCHANGED resolverVars
    BY <1>5 DEF Bakes
  <2> QED
    BY <1>5, <2>1, BakesKeepsDisk, ResolverStill, OthersKeepServing
<1>6. CASE Serves
  <2>1. UNCHANGED diskVars /\ UNCHANGED resolverVars /\ UNCHANGED baking
    BY <1>6, ServesStill
  <2> QED
    BY <1>6, <2>1, StutterFills, FilledKeepsDisk, ResolverStill, AccountsKept, ServesKeeps
<1>7. CASE UNCHANGED vars
  <2>1. UNCHANGED diskVars /\ UNCHANGED resolverVars /\ UNCHANGED baking /\ UNCHANGED servingVars
          /\ UNCHANGED durable
    BY <1>7 DEF vars, diskVars
  <2>2. \A k \in Keys : durable[k] \in Nat
    BY DEF DiskInv, DiskTypeOK
  <2>3. ServingInv'
    BY <2>1, <2>2, DurableGrows
  <2> QED
    BY <2>1, <2>3, StutterFills, FilledKeepsDisk, ResolverStill, AccountsKept
<1> QED
  BY <1>1, <1>2, <1>3, <1>4, <1>5, <1>6, <1>7 DEF Next

LEMMA FixturesAlways == Spec => []FixturesInv
<1> QED
  BY FixturesInitInv, FixturesNextInv, PTL DEF Spec

\* The fixture store, the resolver, the bake and what is served keep their
\* types, in whatever order requests, bakes, flushes, reloads and crashes come.
THEOREM FixtureTypesCorrect == Spec => []TypeOK
<1>1. FixturesInv => TypeOK
  BY InvAccounted DEF FixturesInv, DiskInv, ResolverInv, ServingInv, TypeOK
<1> QED
  BY <1>1, FixturesAlways, PTL

\* A bake that has ended accounts for every response it was asked for, once,
\* whatever the source answered and in whichever chunk it threw; it stays in
\* its budget, and what it counts as generated is as many keys of the store
\* (bake() of src/fixtures/bake.ts).
THEOREM BakesAccount == Spec => []BakeAccounted
<1>1. FixturesInv => BakeAccounted
  BY InvAccounted DEF FixturesInv
<1> QED
  BY <1>1, FixturesAlways, PTL

\* A flush() that has resolved keeps its word, through failing writes, hand
\* edits and crashes, and a quiet store has saved what it holds
\* (src/fixtures/persist.ts).
THEOREM FlushesHold == Spec => []DiskKeepsUp
<1>1. FixturesInv => DiskKeepsUp
  BY DiskInvKeepsUp DEF FixturesInv
<1> QED
  BY <1>1, FixturesAlways, PTL

\* Requests that overlap never have two flights in the air under one key, and
\* together call the source no more often than its budget allows
\* (resolve() of src/fixtures/resolve.ts).
THEOREM FlightsAreBounded == Spec => []FlightsBounded
<1>1. ASSUME ResolverInv PROVE FlightsBounded
  <2>1. \A r \in Requests : Flying(r) => inFlight[request[r].key] = r
    BY <1>1 DEF ResolverInv
  <2>2. config.maxCalls # Unlimited => sent <= config.maxCalls
    BY <1>1 DEF ResolverInv
  <2> QED
    BY <2>1, <2>2 DEF FlightsBounded
<1> QED
  BY <1>1, FixturesAlways, PTL DEF FixturesInv

\* A fixture that holds a part of a body is laid over a generated one by
\* whatever process reads it, with whatever scope it was started
\* (shape() of src/fixtures/resolve.ts and the meta of src/fixtures/bake.ts).
THEOREM PartsAreLayered == Spec => []NarrowedOnlyLayered
<1>1. ResolverInv => NarrowedOnlyLayered
  BY DEF ResolverInv, LayeredIfPart, NarrowedOnlyLayered
<1> QED
  BY <1>1, FixturesAlways, PTL DEF FixturesInv

\* Builds may overlap each other and the writes of another process: one that
\* has ended has what was flushed when it began to read, and only a document
\* that loads is served (build() of src/server/cli.ts).
THEOREM ReloadsSeeFlushed == Spec => []ReloadSeesFlushed
<1>1. ASSUME ServingInv PROVE ReloadSeesFlushed
  <2>1. current # Absent => current.doc.loads
    BY <1>1 DEF ServingInv
  <2>2. ASSUME NEW r \in Reloads, reload[r].pc = "done", NEW k \in Keys
        PROVE  VersionOf(reload[r].loaded[k]) >= reload[r].due[k]
    <3>1. reload[r].due[k] <= VersionOf(reload[r].loaded[k])
      BY <1>1, <2>2 DEF ServingInv, BuildInv
    <3>2. reload[r].due[k] \in Nat /\ VersionOf(reload[r].loaded[k]) \in Nat
      BY <1>1, BuildType DEF ServingInv
    <3> QED
      BY <3>1, <3>2
  <2> QED
    BY <2>1, <2>2 DEF ReloadSeesFlushed
<1> QED
  BY <1>1, FixturesAlways, PTL DEF FixturesInv

\* For any number of listeners and of handles: the open server is the one
\* close() knows while no two calls run into each other, and the mount is the
\* newest handle's until that handle is closed (src/server/node.ts, mcp() of
\* src/index.ts).
THEOREM SlotsHeld == Spec => []SlotsTrue
<1>1. ServingInv => SlotsTrue
  BY DEF ServingInv, SlotsInv, SlotsTrue, ServersKnown, MountIsNewest
<1> QED
  BY <1>1, FixturesAlways, PTL DEF FixturesInv
=============================================================================
