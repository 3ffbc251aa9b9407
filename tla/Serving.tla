------------------------------- MODULE Serving -------------------------------
(***************************************************************************)
(* What stands between a request and a handler: the handler the CLI serves *)
(* from and its reload (src/server/cli.ts), the node listener              *)
(* (src/server/node.ts), and the slot an MCP server is mounted in          *)
(* (src/index.ts).                                                         *)
(*                                                                         *)
(* The process that serves reads a fixture directory that another one      *)
(* writes, one file per await.  reload() calls may overlap, listen() and   *)
(* close() too: nothing in the code keeps them apart.                      *)
(***************************************************************************)
EXTENDS Disk

CONSTANTS
  Reloads,       \* calls of build(): the first one and those of reload()
  Servers,       \* calls of listen()
  Handles,       \* calls of mcp(), numbered in the order they are made
  MaxDocuments   \* bound: states of the document file

ASSUME HandlesAssumption == Handles \subseteq Nat \ {0}
ASSUME ServersAssumption == Absent \notin Servers /\ IsFiniteSet(Reloads)
ASSUME MaxDocumentsAssumption == MaxDocuments \in Nat

VARIABLES
  document,  \* the document file: a version of it, and whether it loads
  reload,    \* build() calls
  current,   \* the handler that serves: its document and its fixtures
  server,    \* the listener close() will close
  listener,  \* listen() calls
  overlap,   \* history: a listen() or a close() was called while another one
             \* was on its way, or a second listen() after a first
  mount,     \* the handle that is mounted, 0 for none
  handle,    \* mcp() calls
  newest     \* history: the last handle that took the slot, 0 for none

servingVars == <<document, reload, current, server, listener, overlap, mount, handle, newest>>

Document == [version : Nat, loads : BOOLEAN]

\* `due` is what was durable when the call read its document: history.
Build == [pc : {"idle", "reading", "loading", "done", "failed"},
          doc : Document,
          todo : SUBSET Files,
          loaded : Contents,
          due : [Keys -> Nat]]

Handler == [doc : Document, loaded : Contents]

ServingTypeOK ==
  /\ document \in Document
  /\ reload \in [Reloads -> Build]
  /\ current \in Handler \cup {Absent}
  /\ server \in Servers \cup {Absent}
  /\ listener \in [Servers -> {"unused", "opening", "open", "closing", "closed", "failed"}]
  /\ overlap \in BOOLEAN
  /\ mount \in Handles \cup {0}
  /\ handle \in [Handles -> {"none", "open", "closed"}]
  /\ newest \in Handles \cup {0}

ServingInit ==
  /\ document = [version |-> 1, loads |-> TRUE]
  /\ reload = [r \in Reloads |->
       [pc |-> "idle", doc |-> document, todo |-> {}, loaded |-> Empty, due |-> Nothing]]
  /\ current = Absent
  /\ server = Absent /\ listener = [s \in Servers |-> "unused"] /\ overlap = FALSE
  /\ mount = 0 /\ newest = 0 /\ handle = [h \in Handles |-> "none"]

listeners == <<server, listener, overlap>>
mounts == <<mount, handle, newest>>

\* Someone saves the document, perhaps half of it.
SaveDocument(loads) ==
  /\ document.version < MaxDocuments
  /\ document' = [version |-> document.version + 1, loads |-> loads]
  /\ UNCHANGED <<diskVars, reload, current, listeners, mounts>>

\* build(): startCli calls it once, and the watcher or the caller after that.
StartBuild(r) ==
  /\ reload[r].pc = "idle"
  /\ current = Absent => \A q \in Reloads : reload[q].pc \in {"idle", "failed"}
  /\ reload' = [reload EXCEPT ![r].pc = "reading"]
  /\ UNCHANGED <<diskVars, document, current, listeners, mounts>>

\* readFile() answers; a text that does not load fails this build and leaves
\* what is served alone.  Then the directory is listed.
ReadDocument(r) ==
  /\ reload[r].pc = "reading"
  /\ reload' = [reload EXCEPT ![r] =
       IF ~document.loads THEN [@ EXCEPT !.pc = "failed"]
       ELSE [@ EXCEPT !.pc = "loading", !.doc = document,
                      !.todo = FilesIn(disk), !.due = durable]]
  /\ UNCHANGED <<diskVars, document, current, listeners, mounts>>

\* One file more, in the order of their names; one that does not parse is skipped.
LoadFile(r) ==
  /\ reload[r].pc = "loading"
  /\ \E f \in Files :
       /\ First(f, reload[r].todo)
       /\ reload' = [reload EXCEPT
            ![r].todo = @ \ {f},
            ![r].loaded = [k \in Keys |-> IF FileOf[k] = f THEN Readable(k) ELSE @[k]]]
  /\ UNCHANGED <<diskVars, document, current, listeners, mounts>>

\* a handler that serves before its fixtures are loaded
FinishAtOnce(r) ==
  /\ reload[r].pc = "loading"
  /\ reload' = [reload EXCEPT ![r].pc = "done"]
  /\ current' = [doc |-> reload[r].doc, loaded |-> reload[r].loaded]
  /\ UNCHANGED <<diskVars, document, listeners, mounts>>

\* The new handler takes the place of the old one, whichever that is by now.
FinishBuild(r) ==
  /\ reload[r].pc = "loading" /\ reload[r].todo = {}
  /\ reload' = [reload EXCEPT ![r].pc = "done"]
  /\ current' = [doc |-> reload[r].doc, loaded |-> reload[r].loaded]
  /\ UNCHANGED <<diskVars, document, listeners, mounts>>

Moving == \E s \in Servers : listener[s] \in {"opening", "closing"}
Opened == \E s \in Servers : listener[s] = "open"

Listen(s) ==
  /\ listener[s] = "unused"
  /\ listener' = [listener EXCEPT ![s] = "opening"]
  /\ overlap' = (overlap \/ Moving \/ Opened)
  /\ UNCHANGED <<diskVars, document, reload, current, server, mounts>>

\* The callback of listen(): only now is there a server to close.
ListenOpens(s) ==
  /\ listener[s] = "opening"
  /\ listener' = [listener EXCEPT ![s] = "open"]
  /\ server' = s
  /\ UNCHANGED <<diskVars, document, reload, current, overlap, mounts>>

ListenFails(s) ==
  /\ listener[s] = "opening"
  /\ listener' = [listener EXCEPT ![s] = "failed"]
  /\ UNCHANGED <<diskVars, document, reload, current, server, overlap, mounts>>

\* close(): at once when there is no server, else when its connections end.
CallClose ==
  /\ Moving \/ server # Absent
  /\ overlap' = (overlap \/ Moving)
  /\ listener' = IF server # Absent /\ listener[server] = "open"
                 THEN [listener EXCEPT ![server] = "closing"] ELSE listener
  /\ UNCHANGED <<diskVars, document, reload, current, server, mounts>>

\* The callback of close() forgets whatever server there is.
CloseEnds(s) ==
  /\ listener[s] = "closing"
  /\ listener' = [listener EXCEPT ![s] = "closed"]
  /\ server' = Absent
  /\ UNCHANGED <<diskVars, document, reload, current, overlap, mounts>>

\* mcp(): over HTTP the newer handle takes the slot; over stdio there is none.
Mcp(h, http) ==
  /\ handle[h] = "none" /\ \A g \in Handles : g < h => handle[g] # "none"
  /\ handle' = [handle EXCEPT ![h] = "open"]
  /\ mount' = IF http THEN h ELSE mount
  /\ newest' = IF http THEN h ELSE newest
  /\ UNCHANGED <<diskVars, document, reload, current, listeners>>

\* close() of a handle that empties the slot whoever is in it
UnmountedAlways(h) == 0

Unmounted(h) == IF mount = h THEN 0 ELSE mount

CloseHandle(h) ==
  /\ handle[h] # "none"
  /\ handle' = [handle EXCEPT ![h] = "closed"]
  /\ mount' = Unmounted(h)
  /\ UNCHANGED <<diskVars, document, reload, current, listeners, newest>>

\* Only a document that loads is served, and once a build has read its
\* document it serves whatever a resolved flush() had put on disk by then, or
\* something newer, although the files change while they are read.
ReloadSeesFlushed ==
  /\ current # Absent => current.doc.loads
  /\ \A r \in Reloads : reload[r].pc = "done" =>
       \A k \in Keys : VersionOf(reload[r].loaded[k]) >= reload[r].due[k]

\* When no listen() or close() ran into another, the server that is open or
\* closing is the one close() knows.
ServersKnown ==
  ~overlap => \A s \in Servers : listener[s] \in {"open", "closing"} <=> server = s

\* The slot is held by the last handle that took it, until that one is closed.
MountIsNewest ==
  newest # 0 => mount = IF handle[newest] = "open" THEN newest ELSE 0

\* No order of listen(), mcp() and close() calls takes the listener or the
\* mount from the one it belongs to; calls of listen() and close() that run
\* into each other are excepted.
SlotsTrue == ServersKnown /\ MountIsNewest
=============================================================================
