------------------------------ MODULE Fixtures ------------------------------
(***************************************************************************)
(* The parts that share the fixtures: requests that resolve them, a bake   *)
(* that makes them, a disk store that keeps them, and a server that loads  *)
(* them while they are written.  `mix` says which of them act in a         *)
(* behaviour; together they are all of Parts.                              *)
(***************************************************************************)
EXTENDS Resolver, Bake, Serving

CONSTANT Mixes  \* the sets of parts that act together

Parts == {"requests", "bake", "scopes", "flush", "clear", "edit", "crash", "fail",
          "reload", "document", "unsafe", "cli", "listen", "mount"}

ASSUME MixesAssumption == Mixes \subseteq SUBSET Parts

VARIABLE mix

vars == <<diskVars, resolverVars, baking, servingVars, mix>>

TypeOK == DiskTypeOK /\ ResolverTypeOK /\ BakeTypeOK /\ ServingTypeOK /\ mix \in Mixes

Init ==
  /\ DiskInit /\ ResolverInit /\ BakeInit /\ ServingInit
  /\ mix \in Mixes
  /\ unsafe = IF "unsafe" \in mix THEN Unsafe ELSE {}

\* A reload is owed no more than the files still owe.
ReloadsForget(files) ==
  /\ reload' = [r \in Reloads |->
       IF reload[r].pc = "loading" THEN [reload[r] EXCEPT !.due = Forgets(@, files)] ELSE reload[r]]
  /\ UNCHANGED <<document, current, listeners, mounts>>

\* startBake(): whatever became of the bake, the store is flushed; a process
\* that exits after that is a crash like any other.
BakeCommandEnds ==
  /\ baking.pc \in {"done", "refused"}
  /\ \E f \in Flushers : CallFlush(f)

Store ==
  /\ \/ TimerFires
     \/ BeginWrite \/ WriteNothing \/ WriteTemp \/ Rename
     \/ "fail" \in mix /\ FailWrite
     \/ ("fail" \in mix \/ FilesIn(memory) \cap unsafe # {}) /\ RefuseWrite
     \/ "flush" \in mix /\ \E f \in Flushers : CallFlush(f)
     \/ "cli" \in mix /\ BakeCommandEnds
  /\ UNCHANGED <<resolverVars, baking, servingVars, mix>>

Operator ==
  /\ \/ "clear" \in mix /\ Clear /\ ReloadsForget(Files)
     \/ /\ "edit" \in mix
        /\ \E file \in Files : HandEdit(file) /\ ReloadsForget({file})
  /\ UNCHANGED <<resolverVars, baking, mix>>

Crash ==
  /\ "crash" \in mix
  /\ Restart /\ ResolverRestart /\ BakeRestart
  /\ UNCHANGED <<servingVars, mix>>

Resolving ==
  /\ "requests" \in mix
  /\ \E r \in Requests :
       \/ \E k \in RequestKeys : ResolveAtOnce(r, k) \/ Join(r, k) \/ Launch(r, k) \/ LaunchThrows(r, k)
       \/ LandWithValue(r)
       \/ LandEmpty(r)
  /\ UNCHANGED <<baking, servingVars, mix>>

\* bake() of the mock, and of the bake command.
Bakes ==
  /\ "bake" \in mix
  /\ \/ \E only \in Scopes, plan \in Plans :
          ("scopes" \in mix \/ only = Absent) /\ StartBake(only, plan)
     \/ ChunkFails
     \/ BakeAnswer
  /\ UNCHANGED <<resolverVars, servingVars, mix>>

Serves ==
  /\ \/ /\ "reload" \in mix
        /\ \/ "document" \in mix /\ \E loads \in BOOLEAN : SaveDocument(loads)
           \/ \E r \in Reloads :
                StartBuild(r) \/ ReadDocument(r) \/ LoadFile(r) \/ FinishBuild(r)
     \/ /\ "listen" \in mix
        /\ \/ CallClose
           \/ \E s \in Servers : Listen(s) \/ ListenOpens(s) \/ ListenFails(s) \/ CloseEnds(s)
     \/ /\ "mount" \in mix
        /\ \E h \in Handles : CloseHandle(h) \/ \E http \in BOOLEAN : Mcp(h, http)
  /\ UNCHANGED <<resolverVars, baking, mix>>

Next == Store \/ Operator \/ Crash \/ Resolving \/ Bakes \/ Serves

Spec == Init /\ [][Next]_vars
=============================================================================
