-------------------------------- MODULE Disk --------------------------------
(***************************************************************************)
(* The disk fixture store (src/fixtures/persist.ts, over the memory store  *)
(* of src/fixtures/store.ts): entries in memory, one file per operation.   *)
(*                                                                         *)
(* set() writes to memory and arms a timer; the timer and flush() queue a  *)
(* write.  A queued write takes its snapshot when it begins, and then      *)
(* pauses twice per file, for the temporary file and for the rename.       *)
(* Anything may happen at a pause: a set(), a flush(), a crash.            *)
(*                                                                         *)
(* Every value that ever reaches a store has a version of its own, newer   *)
(* than the ones before.  The program has no versions: they are what the   *)
(* properties tell values apart by.                                        *)
(***************************************************************************)
EXTENDS Naturals, Sequences, FiniteSets

CONSTANTS
  Keys,         \* of entries: an operation, a status and the parameters
  Files,        \* one per operation, numbered in the order of their names
  FileOf,       \* [Keys -> Files]
  Unsafe,       \* files whose operation id may be no safe file name
  Flushers,     \* calls of flush()
  Debounce,     \* who queues a write when the timer fires
  Absent,       \* no entry under a key
  MaxVersions,  \* bound: values that reach a store
  MaxCrashes,   \* bound
  MaxEdits      \* bound: hand edits that leave a file unreadable

ASSUME FilesAssumption == Files \subseteq Nat /\ IsFiniteSet(Files) /\ Unsafe \subseteq Files
ASSUME FileOfAssumption == FileOf \in [Keys -> Files]
ASSUME FlushersAssumption == Debounce \notin Flushers
ASSUME MaxVersionsAssumption == MaxVersions \in Nat
ASSUME AbsentAssumption ==
  Absent \notin BOOLEAN \cup [version : Nat, narrowed : BOOLEAN, scoped : BOOLEAN \cup {Absent}]

VARIABLES
  unsafe,   \* the files whose operation id is no safe file name, in this document
  memory,   \* what the store answers
  timer,    \* the debounce timer is armed
  queue,    \* who asked for the writes that have not ended, oldest first
  writing,  \* the write in progress
  disk,     \* the entries in the files of the directory
  torn,     \* the files that do not parse
  flushes,  \* flush() calls
  version,  \* of the newest value
  faults,   \* crashes and hand edits so far
  durable,  \* history: per key, the newest version that a resolved flush() was
            \* called after, since the last clear() or hand edit; 0 for none
  gaveUp    \* history: the last write to end was rejected

diskVars == <<unsafe, memory, timer, queue, writing, disk, torn, flushes, version, faults, durable, gaveUp>>

\* `scoped` is the marker in the entry's meta, Absent when it has none, and
\* `narrowed` whether the value really was reduced to a part of the body.
FixtureEntry == [version : Nat, narrowed : BOOLEAN, scoped : BOOLEAN \cup {Absent}]
Contents == [Keys -> FixtureEntry \cup {Absent}]

\* `promised` is what memory held when flush() was called.
Flush == [pc : {"idle", "waiting", "resolved", "rejected"}, promised : [Keys -> Nat]]
Write == [pc : {"none", "temp", "rename"}, todo : SUBSET Files, snapshot : Contents]

DiskTypeOK ==
  /\ unsafe \subseteq Unsafe
  /\ memory \in Contents
  /\ timer \in BOOLEAN
  /\ queue \in Seq(Flushers \cup {Debounce})
  /\ writing \in Write
  /\ disk \in Contents
  /\ torn \subseteq Files
  /\ flushes \in [Flushers -> Flush]
  /\ version \in Nat
  /\ faults \in [crashes : Nat, edits : Nat]
  /\ durable \in [Keys -> Nat]
  /\ gaveUp \in BOOLEAN

Empty == [k \in Keys |-> Absent]
Nothing == [k \in Keys |-> 0]
NotWriting == [pc |-> "none", todo |-> {}, snapshot |-> Empty]
NotFlushing == [pc |-> "idle", promised |-> Nothing]

DiskInit ==
  /\ memory = Empty /\ disk = Empty
  /\ timer = FALSE /\ queue = <<>> /\ writing = NotWriting
  /\ torn = {}
  /\ flushes = [f \in Flushers |-> NotFlushing]
  /\ version = 0 /\ faults = [crashes |-> 0, edits |-> 0]
  /\ durable = Nothing /\ gaveUp = FALSE

VersionOf(entry) == IF entry = Absent THEN 0 ELSE entry.version
Versions(contents) == [k \in Keys |-> VersionOf(contents[k])]

\* set(), once per key of `entries`: memory first, then the timer anew.
SetAll(entries) ==
  /\ memory' = [k \in Keys |-> IF k \in DOMAIN entries THEN entries[k] ELSE memory[k]]
  /\ timer' = (timer \/ DOMAIN entries # {})

\* write(): queued behind the writes that have not ended.
Queued(who) == queue' = Append(queue, who)

TimerFires ==
  /\ timer
  /\ timer' = FALSE
  /\ Queued(Debounce)
  /\ UNCHANGED <<unsafe, memory, writing, disk, torn, flushes, version, faults, durable, gaveUp>>

CallFlush(f) ==
  /\ flushes[f].pc = "idle"
  /\ timer' = FALSE
  /\ Queued(f)
  /\ flushes' = [flushes EXCEPT ![f] = [pc |-> "waiting", promised |-> Versions(memory)]]
  /\ UNCHANGED <<unsafe, memory, writing, disk, torn, version, faults, durable, gaveUp>>

FilesIn(contents) == {FileOf[k] : k \in {x \in Keys : contents[x] # Absent}}

NewerOf(m, n) == IF m > n THEN m ELSE n

\* The promise of the write at the head settles; the next one may begin.
Settle(pc) ==
  LET f == Head(queue)
  IN /\ queue' = Tail(queue)
     /\ writing' = NotWriting
     /\ flushes' = IF f = Debounce THEN flushes ELSE [flushes EXCEPT ![f].pc = pc]
     /\ gaveUp' = (pc = "rejected")
     /\ durable' = IF f = Debounce \/ pc # "resolved" THEN durable
                   ELSE [k \in Keys |-> NewerOf(durable[k], flushes[f].promised[k])]

\* writeFixtures(): the records of this moment, grouped by file.
BeginWrite ==
  /\ writing.pc = "none" /\ queue # <<>>
  /\ FilesIn(memory) # {} /\ FilesIn(memory) \cap unsafe = {}
  /\ writing' = [pc |-> "temp", todo |-> FilesIn(memory), snapshot |-> memory]
  /\ UNCHANGED <<unsafe, memory, timer, queue, disk, torn, flushes, version, faults, durable, gaveUp>>

\* Nothing to write, and no directory that cannot be made.
WriteNothing ==
  /\ writing.pc = "none" /\ queue # <<>>
  /\ FilesIn(memory) = {}
  /\ Settle("resolved")
  /\ UNCHANGED <<unsafe, memory, timer, disk, torn, version, faults>>

\* safeName() throws before any file is touched, and mkdir() may fail.
RefuseWrite ==
  /\ writing.pc = "none" /\ queue # <<>>
  /\ Settle("rejected")
  /\ UNCHANGED <<unsafe, memory, timer, disk, torn, version, faults>>

\* The files are taken in the order of their names.
First(f, files) == f \in files /\ \A g \in files : f <= g

\* a write straight into the file: until it ends the file does not parse
WriteInPlace ==
  /\ writing.pc = "temp"
  /\ writing' = [writing EXCEPT !.pc = "rename"]
  /\ \E f \in Files : First(f, writing.todo) /\ torn' = torn \cup {f}
  /\ UNCHANGED <<unsafe, memory, timer, queue, disk, flushes, version, faults, durable, gaveUp>>

WriteTemp ==
  /\ writing.pc = "temp"
  /\ writing' = [writing EXCEPT !.pc = "rename"]
  /\ UNCHANGED <<unsafe, memory, timer, queue, disk, torn, flushes, version, faults, durable, gaveUp>>

\* The file is whole before its name changes, and the one it replaces was.
Renamed(f) ==
  /\ disk' = [k \in Keys |-> IF FileOf[k] = f THEN writing.snapshot[k] ELSE disk[k]]
  /\ torn' = torn \ {f}

Rename ==
  /\ writing.pc = "rename"
  /\ \E f \in Files :
       /\ First(f, writing.todo)
       /\ Renamed(f)
       /\ IF writing.todo = {f}
          THEN Settle("resolved")
          ELSE /\ writing' = [writing EXCEPT !.pc = "temp", !.todo = @ \ {f}]
               /\ UNCHANGED <<queue, flushes, durable, gaveUp>>
  /\ UNCHANGED <<unsafe, memory, timer, version, faults>>

\* Either call fails: the rest of this write is given up, the queue goes on.
FailWrite ==
  /\ writing.pc # "none"
  /\ Settle("rejected")
  /\ UNCHANGED <<unsafe, memory, timer, disk, torn, version, faults>>

Forgets(promised, files) == [k \in Keys |-> IF FileOf[k] \in files THEN 0 ELSE promised[k]]

\* clear() is the memory store's own: it arms no timer.
Clear ==
  /\ memory' = Empty
  /\ durable' = Nothing
  /\ flushes' = [f \in Flushers |-> [flushes[f] EXCEPT !.promised = Nothing]]
  /\ UNCHANGED <<unsafe, timer, queue, writing, disk, torn, version, faults, gaveUp>>

\* Someone leaves a file that does not parse.
HandEdit(file) ==
  /\ faults.edits < MaxEdits
  /\ file \in FilesIn(disk)
  /\ torn' = torn \cup {file}
  /\ durable' = Forgets(durable, {file})
  /\ flushes' = [f \in Flushers |->
       [flushes[f] EXCEPT !.promised = Forgets(@, {file})]]
  /\ faults' = [faults EXCEPT !.edits = @ + 1]
  /\ UNCHANGED <<unsafe, memory, timer, queue, writing, disk, version, gaveUp>>

\* loadFixtures(): a file that does not parse is skipped, not an error.
Readable(k) == IF FileOf[k] \in torn THEN Absent ELSE disk[k]
Load == [k \in Keys |-> Readable(k)]

\* The process stops between any two steps, and is started again.
Restart ==
  /\ faults.crashes < MaxCrashes
  /\ memory' = Load
  /\ timer' = FALSE /\ queue' = <<>> /\ writing' = NotWriting
  /\ flushes' = [f \in Flushers |-> NotFlushing]
  /\ faults' = [faults EXCEPT !.crashes = @ + 1]
  /\ gaveUp' = FALSE
  /\ UNCHANGED <<unsafe, disk, torn, version, durable>>

\* What a resolved flush() was called after is in a file that loads, or
\* something newer is, whatever fails or crashes since.
Durable ==
  \A k \in Keys : durable[k] > 0 =>
     /\ FileOf[k] \notin torn
     /\ VersionOf(disk[k]) >= durable[k]

\* With no timer armed and no write queued, and the last write not given up,
\* the files that parse hold what memory holds.
QuietIsSaved ==
  (~timer /\ queue = <<>> /\ ~gaveUp) =>
    \A k \in Keys : memory[k] # Absent /\ FileOf[k] \notin torn => disk[k] = memory[k]

\* A resolved flush() keeps its word through failures, crashes and later
\* writes, and no set() falls between the timer, the queue and the write.
DiskKeepsUp == Durable /\ QuietIsSaved
=============================================================================
