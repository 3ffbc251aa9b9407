----------------------------- MODULE DiskProofs -----------------------------
(***************************************************************************)
(* What every step of the disk fixture store keeps: a resolved flush is on *)
(* disk and stays there, and no value falls between the timer, the queue   *)
(* and the write.  And what every step of a bake keeps: the responses it   *)
(* is done with are the first it planned, each under a key of its own.     *)
(* FixturesProofs puts the steps together.                                 *)
(***************************************************************************)
EXTENDS Bake, FiniteSetTheorems, SequenceTheorems, TLAPS

(***************************************************************************)
(* Versions only grow: what is promised of a key, by a flush() that waits  *)
(* or that has resolved, is no newer than what memory holds, and the write *)
(* in progress took its snapshot after the flush() it is for.              *)
(***************************************************************************)
Grown ==
  \A k \in Keys :
    /\ VersionOf(memory[k]) <= version
    /\ durable[k] <= VersionOf(memory[k])
    /\ \A f \in Flushers : flushes[f].promised[k] <= VersionOf(memory[k])

\* Who waits in the queue has called.
QueuedCalled ==
  \A i \in 1 .. Len(queue) : queue[i] # Debounce => flushes[queue[i]].pc # "idle"

\* What the write in progress has done of what the flush() at the head was promised.
Kept(f, k) ==
  \/ FileOf[k] \in writing.todo
  \/ flushes[f].promised[k] = 0
  \/ FileOf[k] \notin torn /\ flushes[f].promised[k] <= VersionOf(disk[k])

WritingForHead ==
  writing.pc # "none" =>
    /\ queue # <<>>
    /\ writing.todo # {}
    /\ \A k \in Keys : durable[k] <= VersionOf(writing.snapshot[k])
    /\ Head(queue) # Debounce =>
         \A k \in Keys :
           /\ flushes[Head(queue)].promised[k] <= VersionOf(writing.snapshot[k])
           /\ Kept(Head(queue), k)

\* With no timer armed, what memory holds will be written, is being written, or is saved.
Saved(k) == memory[k] # Absent /\ FileOf[k] \notin torn => disk[k] = memory[k]

BeingSaved(k) ==
  memory[k] # Absent =>
    /\ writing.snapshot[k] = memory[k]
    /\ FileOf[k] \in writing.todo \/ Saved(k)

\* No value is newer than the newest.
NoneNewer ==
  \A k \in Keys : VersionOf(disk[k]) <= version /\ VersionOf(writing.snapshot[k]) <= version

NothingMissed ==
  ~timer =>
    \/ Len(queue) > 1
    \/ Len(queue) = 1 /\ (writing.pc = "none" \/ \A k \in Keys : BeingSaved(k))
    \/ queue = <<>> /\ (gaveUp \/ \A k \in Keys : Saved(k))

\* A value that was reduced to a part of the body says so itself.
Marked(entry) == entry # Absent /\ entry.narrowed => entry.scoped = TRUE

AllMarked ==
  \A k \in Keys : Marked(memory[k]) /\ Marked(disk[k]) /\ Marked(writing.snapshot[k])

DiskInv ==
  DiskTypeOK /\ Grown /\ QueuedCalled /\ WritingForHead /\ Durable /\ NothingMissed /\ AllMarked
  /\ NoneNewer

(***************************************************************************)
(* The effect of set(), by whoever calls it: some keys have newer values,  *)
(* and then the timer is armed.                                            *)
(***************************************************************************)
NewerValue(k) ==
  /\ timer'
  /\ memory'[k] \in FixtureEntry
  /\ version <= memory'[k].version /\ memory'[k].version <= version'
  /\ Marked(memory'[k])

Filled ==
  /\ version' \in Nat /\ version <= version'
  /\ timer' \in BOOLEAN /\ (timer => timer')
  /\ memory' = [k \in Keys |-> memory'[k]]
  /\ \A k \in Keys : memory'[k] = memory[k] \/ NewerValue(k)
  /\ UNCHANGED <<unsafe, queue, writing, disk, torn, flushes, faults, durable, gaveUp>>

LEMMA VersionNat ==
  ASSUME NEW entry \in FixtureEntry \cup {Absent}
  PROVE  VersionOf(entry) \in Nat
BY AbsentAssumption DEF VersionOf, FixtureEntry

LEMMA AbsentIsNoEntry == Absent \notin FixtureEntry /\ VersionOf(Absent) = 0
BY AbsentAssumption DEF FixtureEntry, VersionOf

LEMMA DiskInitInv == DiskInit /\ unsafe \subseteq Unsafe => DiskInv
<1> SUFFICES ASSUME DiskInit, unsafe \subseteq Unsafe PROVE DiskInv
  OBVIOUS
<1> USE DEF DiskInit, Empty, Nothing, NotWriting, NotFlushing
<1>1. DiskTypeOK
  <2>1. Empty \in Contents /\ Nothing \in [Keys -> Nat]
    BY DEF Contents
  <2>2. writing \in Write
    BY <2>1 DEF Write
  <2>3. flushes \in [Flushers -> Flush]
    BY <2>1 DEF Flush
  <2>4. queue \in Seq(Flushers \cup {Debounce}) /\ version \in Nat
    OBVIOUS
  <2>5. faults \in [crashes : Nat, edits : Nat]
    OBVIOUS
  <2>6. memory \in Contents /\ disk \in Contents /\ durable \in [Keys -> Nat]
    BY <2>1
  <2>7. timer \in BOOLEAN /\ gaveUp \in BOOLEAN /\ torn \subseteq Files
    OBVIOUS
  <2> QED
    BY <2>2, <2>3, <2>4, <2>5, <2>6, <2>7 DEF DiskTypeOK
<1>2. Grown
  BY AbsentIsNoEntry DEF Grown
<1>3. QueuedCalled /\ WritingForHead /\ Durable /\ NothingMissed
  BY DEF QueuedCalled, WritingForHead, Durable, NothingMissed, Saved
<1>4. AllMarked
  BY DEF AllMarked, Marked
<1>5. NoneNewer
  BY AbsentIsNoEntry DEF NoneNewer
<1> QED
  BY <1>1, <1>2, <1>3, <1>4, <1>5 DEF DiskInv

LEMMA FilledKeepsDisk == DiskInv /\ Filled => DiskInv'
<1> SUFFICES ASSUME DiskInv, Filled PROVE DiskInv'
  OBVIOUS
<1> USE DEF DiskInv, Filled, NewerValue
<1>1. DiskTypeOK'
  BY DEF DiskTypeOK, Contents
<1>2. ASSUME NEW k \in Keys
      PROVE  VersionOf(memory[k]) \in Nat /\ VersionOf(memory[k]) <= VersionOf(memory[k])'
                /\ VersionOf(memory[k])' <= version'
  <2>1. VersionOf(memory[k]) \in Nat /\ VersionOf(memory[k]) <= version /\ version \in Nat
    BY VersionNat DEF DiskTypeOK, Contents, Grown
  <2>2. CASE memory'[k] = memory[k]
    BY <2>1, <2>2 DEF VersionOf
  <2>3. CASE NewerValue(k)
    BY <2>1, <2>3, AbsentIsNoEntry DEF VersionOf, FixtureEntry
  <2> QED
    BY <2>2, <2>3
<1>3. Grown'
  <2> SUFFICES ASSUME NEW k \in Keys
               PROVE  /\ VersionOf(memory'[k]) <= version'
                      /\ durable[k] <= VersionOf(memory'[k])
                      /\ \A f \in Flushers : flushes[f].promised[k] <= VersionOf(memory'[k])
    BY DEF Grown, VersionOf
  <2>1. VersionOf(memory'[k]) \in Nat
    BY <1>1, VersionNat DEF DiskTypeOK, Contents
  <2>2. durable[k] \in Nat /\ \A f \in Flushers : flushes[f].promised[k] \in Nat
    BY DEF DiskTypeOK, Flush
  <2> QED
    BY <1>2, <2>1, <2>2 DEF Grown, VersionOf
<1>4. QueuedCalled'
  BY DEF QueuedCalled
<1>5. WritingForHead'
  BY DEF WritingForHead, Kept, VersionOf
<1>6. Durable'
  BY DEF Durable, VersionOf
<1>7. NothingMissed'
  BY DEF NothingMissed, BeingSaved, Saved
<1>8. AllMarked'
  BY DEF AllMarked, Marked
<1>9. NoneNewer'
  <2>1. \A k \in Keys : VersionOf(disk[k]) \in Nat /\ VersionOf(writing.snapshot[k]) \in Nat
    BY VersionNat DEF DiskTypeOK, Write, Contents
  <2> QED
    BY <2>1 DEF NoneNewer, VersionOf, DiskTypeOK
<1> QED
  BY <1>1, <1>3, <1>4, <1>5, <1>6, <1>7, <1>8, <1>9

(***************************************************************************)
(* The queue.                                                              *)
(***************************************************************************)
LEMMA HeadAsked ==
  ASSUME DiskInv, queue # <<>>
  PROVE  /\ Head(queue) \in Flushers \cup {Debounce}
         /\ Tail(queue) \in Seq(Flushers \cup {Debounce})
         /\ Head(queue) # Debounce => flushes[Head(queue)].pc # "idle"
         /\ Len(Tail(queue)) = Len(queue) - 1
         /\ \A i \in 1 .. Len(Tail(queue)) : Tail(queue)[i] = queue[i + 1] /\ i + 1 \in 1 .. Len(queue)
BY DEF DiskInv, DiskTypeOK, QueuedCalled

LEMMA QueuedKeeps ==
  ASSUME DiskInv, NEW who \in Flushers \cup {Debounce}, Queued(who),
         who # Debounce => flushes'[who].pc # "idle",
         \A f \in Flushers : flushes'[f].pc = flushes[f].pc \/ flushes'[f].pc # "idle"
  PROVE  /\ queue' \in Seq(Flushers \cup {Debounce})
         /\ queue' # <<>> /\ Len(queue') = Len(queue) + 1
         /\ queue # <<>> => Head(queue') = Head(queue)
         /\ QueuedCalled'
<1> USE DEF DiskInv, DiskTypeOK, Queued
<1>1. \A i \in 1 .. Len(queue') : queue'[i] = IF i = Len(queue) + 1 THEN who ELSE queue[i]
  OBVIOUS
<1>2. \A i \in 1 .. Len(queue) : queue[i] \in Flushers \cup {Debounce}
  OBVIOUS
<1>3. QueuedCalled'
  BY <1>1, <1>2 DEF QueuedCalled
<1> QED
  BY <1>3

LEMMA TimerFiresKeepsDisk == DiskInv /\ TimerFires => DiskInv'
<1> SUFFICES ASSUME DiskInv, TimerFires PROVE DiskInv'
  OBVIOUS
<1> USE DEF DiskInv, TimerFires
<1>1. /\ queue' \in Seq(Flushers \cup {Debounce})
      /\ queue' # <<>> /\ Len(queue') = Len(queue) + 1
      /\ queue # <<>> => Head(queue') = Head(queue)
      /\ QueuedCalled'
  BY QueuedKeeps
<1>2. DiskTypeOK'
  BY <1>1 DEF DiskTypeOK
<1>3. Grown' /\ Durable' /\ AllMarked' /\ NoneNewer'
  BY DEF Grown, Durable, AllMarked, Marked, VersionOf, NoneNewer
<1>4. WritingForHead'
  BY <1>1 DEF WritingForHead, Kept, VersionOf
<1>5. NothingMissed'
  <2>1. Len(queue) \in Nat /\ (queue = <<>> <=> Len(queue) = 0)
    BY DEF DiskTypeOK
  <2>2. CASE queue = <<>>
    BY <1>1, <2>1, <2>2 DEF WritingForHead, NothingMissed
  <2>3. CASE queue # <<>>
    BY <1>1, <2>1, <2>3 DEF NothingMissed
  <2> QED
    BY <2>2, <2>3
<1> QED
  BY <1>1, <1>2, <1>3, <1>4, <1>5

LEMMA CallFlushKeepsDisk ==
  ASSUME DiskInv, NEW f \in Flushers, CallFlush(f)
  PROVE  DiskInv'
<1> USE DEF DiskInv, CallFlush
<1>1. \A g \in Flushers : flushes'[g] = IF g = f THEN [pc |-> "waiting", promised |-> Versions(memory)]
                                       ELSE flushes[g]
  BY DEF DiskTypeOK
<1>2. \A k \in Keys : VersionOf(memory[k]) \in Nat
  BY VersionNat DEF DiskTypeOK, Contents
<1>3. Versions(memory) \in [Keys -> Nat] /\ \A k \in Keys : Versions(memory)[k] = VersionOf(memory[k])
  BY <1>2 DEF Versions
<1>4. /\ queue' \in Seq(Flushers \cup {Debounce})
      /\ queue' # <<>> /\ Len(queue') = Len(queue) + 1
      /\ queue # <<>> => Head(queue') = Head(queue)
      /\ QueuedCalled'
  BY <1>1, QueuedKeeps
<1>5. DiskTypeOK'
  BY <1>3, <1>4 DEF DiskTypeOK, Flush
<1>6. Grown'
  BY <1>1, <1>2, <1>3 DEF Grown, VersionOf
<1>7. Durable' /\ AllMarked' /\ NoneNewer'
  BY DEF Durable, AllMarked, Marked, VersionOf, NoneNewer
<1>8. WritingForHead'
  <2> SUFFICES ASSUME writing.pc # "none" PROVE WritingForHead'
    BY DEF WritingForHead
  <2>1. queue # <<>> /\ Head(queue') = Head(queue)
    BY <1>4 DEF WritingForHead
  <2>2. Head(queue) # Debounce => Head(queue) \in Flushers /\ Head(queue) # f
    BY <2>1, HeadAsked
  <2>3. Head(queue) # Debounce => flushes'[Head(queue)] = flushes[Head(queue)]
    BY <1>1, <2>2
  <2> QED
    BY <1>4, <2>1, <2>3 DEF WritingForHead, Kept, VersionOf
<1>9. NothingMissed'
  <2>1. Len(queue) \in Nat /\ (queue = <<>> <=> Len(queue) = 0)
    BY DEF DiskTypeOK
  <2>2. CASE queue = <<>>
    BY <1>4, <2>1, <2>2 DEF WritingForHead, NothingMissed
  <2>3. CASE queue # <<>>
    BY <1>4, <2>1, <2>3 DEF NothingMissed
  <2> QED
    BY <2>2, <2>3
<1> QED
  BY <1>4, <1>5, <1>6, <1>7, <1>8, <1>9

(***************************************************************************)
(* A write begins.                                                         *)
(***************************************************************************)
LEMMA BeginWriteKeepsDisk == DiskInv /\ BeginWrite => DiskInv'
<1> SUFFICES ASSUME DiskInv, BeginWrite PROVE DiskInv'
  OBVIOUS
<1> USE DEF DiskInv, BeginWrite
<1>1. FilesIn(memory) \subseteq Files
  BY FileOfAssumption DEF FilesIn
<1>2. DiskTypeOK'
  BY <1>1 DEF DiskTypeOK, Write
<1>3. Grown' /\ QueuedCalled' /\ Durable' /\ AllMarked' /\ NoneNewer'
  BY DEF Grown, QueuedCalled, Durable, AllMarked, Marked, VersionOf, NoneNewer
<1>4. \A k \in Keys : memory[k] # Absent => FileOf[k] \in FilesIn(memory)
  BY DEF FilesIn
<1>5. WritingForHead'
  <2>1. writing' = [pc |-> "temp", todo |-> FilesIn(memory), snapshot |-> memory]
    OBVIOUS
  <2>2. ASSUME NEW k \in Keys
        PROVE  durable[k] <= VersionOf(memory[k])
    BY DEF Grown
  <2>3. ASSUME Head(queue) # Debounce, NEW k \in Keys
        PROVE  /\ flushes[Head(queue)].promised[k] <= VersionOf(memory[k])
               /\ FileOf[k] \in FilesIn(memory) \/ flushes[Head(queue)].promised[k] = 0
    <3>1. Head(queue) \in Flushers
      BY <2>3, HeadAsked
    <3>2. flushes[Head(queue)].promised[k] <= VersionOf(memory[k])
      BY <3>1 DEF Grown
    <3>3. flushes[Head(queue)].promised[k] \in Nat
      BY <3>1 DEF DiskTypeOK, Flush
    <3> QED
      BY <1>4, <3>2, <3>3, AbsentIsNoEntry
  <2> QED
    BY <2>1, <2>2, <2>3 DEF WritingForHead, Kept, VersionOf
<1>6. NothingMissed'
  <2>1. \A k \in Keys : BeingSaved(k)'
    BY <1>4 DEF BeingSaved
  <2> QED
    BY <2>1 DEF NothingMissed, DiskTypeOK
<1> QED
  BY <1>2, <1>3, <1>5, <1>6

LEMMA WriteTempKeepsDisk == DiskInv /\ WriteTemp => DiskInv'
<1> SUFFICES ASSUME DiskInv, WriteTemp PROVE DiskInv'
  OBVIOUS
<1> USE DEF DiskInv, WriteTemp
<1>1. writing' \in Write /\ writing'.todo = writing.todo /\ writing'.snapshot = writing.snapshot
        /\ writing'.pc # "none" /\ writing.pc # "none"
  BY DEF DiskTypeOK, Write
<1>2. DiskTypeOK'
  BY <1>1 DEF DiskTypeOK
<1>3. Grown' /\ QueuedCalled' /\ Durable'
  BY DEF Grown, QueuedCalled, Durable, VersionOf
<1>4. AllMarked' /\ NoneNewer'
  BY <1>1 DEF AllMarked, Marked, NoneNewer, VersionOf
<1>5. WritingForHead'
  BY <1>1 DEF WritingForHead, Kept, VersionOf
<1>6. NothingMissed'
  BY <1>1 DEF NothingMissed, BeingSaved, Saved
<1> QED
  BY <1>2, <1>3, <1>4, <1>5, <1>6

(***************************************************************************)
(* A write ends.                                                           *)
(***************************************************************************)
LEMMA SettleType ==
  ASSUME DiskInv, queue # <<>>, NEW pc \in {"resolved", "rejected"}, Settle(pc)
  PROVE  /\ queue' \in Seq(Flushers \cup {Debounce})
         /\ Len(queue') = Len(queue) - 1 /\ (queue' = <<>> <=> Len(queue) = 1)
         /\ QueuedCalled'
         /\ flushes' \in [Flushers -> Flush]
         /\ \A f \in Flushers : flushes'[f].promised = flushes[f].promised
         /\ writing' \in Write /\ writing'.pc = "none" /\ writing'.snapshot = Empty
         /\ gaveUp' \in BOOLEAN
<1> USE DEF DiskInv, Settle
<1>1. /\ Head(queue) \in Flushers \cup {Debounce}
      /\ queue' = Tail(queue)
      /\ queue' \in Seq(Flushers \cup {Debounce})
      /\ Len(queue') = Len(queue) - 1
      /\ \A i \in 1 .. Len(queue') : queue'[i] = queue[i + 1] /\ i + 1 \in 1 .. Len(queue)
  BY HeadAsked
<1>2. /\ flushes' \in [Flushers -> Flush]
      /\ \A f \in Flushers : flushes'[f].promised = flushes[f].promised
      /\ \A f \in Flushers : flushes[f].pc # "idle" => flushes'[f].pc # "idle"
  <2>1. CASE Head(queue) = Debounce
    BY <2>1 DEF DiskTypeOK
  <2>2. CASE Head(queue) # Debounce
    <3>1. flushes' = [flushes EXCEPT ![Head(queue)].pc = pc]
      BY <2>2
    <3>2. \A f \in Flushers : flushes'[f] = IF f = Head(queue) THEN [flushes[f] EXCEPT !.pc = pc] ELSE flushes[f]
      BY <3>1 DEF DiskTypeOK
    <3>3. \A f \in Flushers : flushes[f] \in Flush
      BY DEF DiskTypeOK
    <3>4. \A f \in Flushers : flushes'[f] \in Flush /\ flushes'[f].promised = flushes[f].promised
                                /\ (flushes[f].pc # "idle" => flushes'[f].pc # "idle")
      BY <3>2, <3>3 DEF Flush
    <3> QED
      BY <3>1, <3>4 DEF DiskTypeOK
  <2> QED
    BY <2>1, <2>2
<1>3. QueuedCalled'
  <2> SUFFICES ASSUME NEW i \in 1 .. Len(queue'), queue'[i] # Debounce
               PROVE  flushes'[queue'[i]].pc # "idle"
    BY DEF QueuedCalled
  <2>1. i + 1 \in 1 .. Len(queue) /\ queue'[i] = queue[i + 1] /\ queue[i + 1] \in Flushers
    BY <1>1 DEF DiskTypeOK
  <2> QED
    BY <1>2, <2>1 DEF QueuedCalled
<1>4. writing' \in Write /\ writing'.pc = "none" /\ writing'.snapshot = Empty
  BY DEF NotWriting, Write, Empty, Contents
<1>5. gaveUp' \in BOOLEAN
  <2>1. gaveUp' = (pc = "rejected")
    OBVIOUS
  <2> QED
    BY <2>1
<1>6. queue' = <<>> <=> Len(queue) = 1
  <2> HIDE DEF DiskInv, Settle
  <2>1. Len(queue) \in Nat
    BY DEF DiskInv, DiskTypeOK
  <2> QED
    BY <1>1, <2>1
<1> HIDE DEF DiskInv, Settle
<1> QED
  BY <1>1, <1>2, <1>3, <1>4, <1>5, <1>6

LEMMA WriteNothingKeepsDisk == DiskInv /\ WriteNothing => DiskInv'
<1> SUFFICES ASSUME DiskInv, WriteNothing PROVE DiskInv'
  OBVIOUS
<1>1. queue # <<>> /\ Settle("resolved") /\ FilesIn(memory) = {} /\ writing.pc = "none"
        /\ UNCHANGED <<unsafe, memory, timer, disk, torn, version, faults>>
  BY DEF WriteNothing
<1>2. /\ queue' \in Seq(Flushers \cup {Debounce})
      /\ Len(queue') = Len(queue) - 1 /\ (queue' = <<>> <=> Len(queue) = 1)
      /\ QueuedCalled'
      /\ flushes' \in [Flushers -> Flush]
      /\ \A f \in Flushers : flushes'[f].promised = flushes[f].promised
      /\ writing' \in Write /\ writing'.pc = "none" /\ writing'.snapshot = Empty
      /\ gaveUp' \in BOOLEAN
  BY <1>1, SettleType
<1>3. \A k \in Keys : memory[k] = Absent
  BY <1>1 DEF FilesIn
<1>4. durable' = durable
  <2>1. CASE Head(queue) = Debounce
    BY <1>1, <2>1 DEF Settle
  <2>2. CASE Head(queue) # Debounce
    <3>1. Head(queue) \in Flushers
      BY <1>1, <2>2, HeadAsked
    <3>2. \A k \in Keys : flushes[Head(queue)].promised[k] \in Nat /\ durable[k] \in Nat
                            /\ flushes[Head(queue)].promised[k] <= 0
      <4>1. flushes[Head(queue)] \in Flush
        BY <3>1 DEF DiskInv, DiskTypeOK
      <4>2. \A k \in Keys : flushes[Head(queue)].promised[k] <= VersionOf(memory[k])
        BY <3>1 DEF DiskInv, Grown
      <4> QED
        BY <1>3, <4>1, <4>2, AbsentIsNoEntry DEF DiskInv, DiskTypeOK, Flush
    <3>3. \A k \in Keys : NewerOf(durable[k], flushes[Head(queue)].promised[k]) = durable[k]
      BY <3>2 DEF NewerOf
    <3>4. durable' = [k \in Keys |-> NewerOf(durable[k], flushes[Head(queue)].promised[k])]
      BY <1>1, <2>2 DEF Settle
    <3>5. durable = [k \in Keys |-> durable[k]]
      BY DEF DiskInv, DiskTypeOK
    <3> QED
      BY <3>3, <3>4, <3>5
  <2> QED
    BY <2>1, <2>2
<1>5. DiskTypeOK'
  BY <1>1, <1>2, <1>4 DEF DiskInv, DiskTypeOK
<1>6. Grown'
  BY <1>1, <1>2, <1>4 DEF DiskInv, Grown, VersionOf
<1>7. WritingForHead'
  BY <1>2 DEF WritingForHead
<1>8. Durable'
  BY <1>1, <1>4 DEF DiskInv, Durable, VersionOf
<1>9. NothingMissed'
  <2>1. Len(queue) \in Nat /\ Len(queue) > 0
    BY <1>1 DEF DiskInv, DiskTypeOK
  <2>2. \A k \in Keys : Saved(k)'
    BY <1>1, <1>3 DEF Saved
  <2> QED
    BY <1>2, <2>1, <2>2 DEF NothingMissed
<1>10. AllMarked'
  BY <1>1, <1>2 DEF DiskInv, AllMarked, Marked, Empty
<1>11. NoneNewer'
  BY <1>1, <1>2, AbsentIsNoEntry DEF DiskInv, DiskTypeOK, NoneNewer, VersionOf, Empty
<1> QED
  BY <1>2, <1>5, <1>6, <1>7, <1>8, <1>9, <1>10, <1>11 DEF DiskInv

(***************************************************************************)
(* A write that is given up: the last one is known to have been.           *)
(***************************************************************************)
LEMMA RejectedKeepsDisk ==
  ASSUME DiskInv, queue # <<>>, Settle("rejected"),
         UNCHANGED <<unsafe, memory, timer, disk, torn, version, faults>>
  PROVE  DiskInv'
<1>2. /\ queue' \in Seq(Flushers \cup {Debounce})
      /\ Len(queue') = Len(queue) - 1 /\ (queue' = <<>> <=> Len(queue) = 1)
      /\ QueuedCalled'
      /\ flushes' \in [Flushers -> Flush]
      /\ \A f \in Flushers : flushes'[f].promised = flushes[f].promised
      /\ writing' \in Write /\ writing'.pc = "none" /\ writing'.snapshot = Empty
      /\ gaveUp' \in BOOLEAN
  BY SettleType
<1>4. durable' = durable /\ gaveUp'
  BY DEF Settle
<1>5. DiskTypeOK'
  BY <1>2, <1>4 DEF DiskInv, DiskTypeOK
<1>6. Grown'
  BY <1>2, <1>4 DEF DiskInv, Grown, VersionOf
<1>7. WritingForHead'
  BY <1>2 DEF WritingForHead
<1>8. Durable'
  BY <1>4 DEF DiskInv, Durable, VersionOf
<1>9. NothingMissed'
  <2>1. Len(queue) \in Nat /\ Len(queue) > 0
    BY DEF DiskInv, DiskTypeOK
  <2> QED
    BY <1>2, <1>4, <2>1 DEF NothingMissed
<1>10. AllMarked'
  BY <1>2 DEF DiskInv, AllMarked, Marked, Empty
<1>11. NoneNewer'
  BY <1>2, AbsentIsNoEntry DEF DiskInv, DiskTypeOK, NoneNewer, VersionOf, Empty
<1> QED
  BY <1>2, <1>5, <1>6, <1>7, <1>8, <1>9, <1>10, <1>11 DEF DiskInv

LEMMA RefuseWriteKeepsDisk == DiskInv /\ RefuseWrite => DiskInv'
BY RejectedKeepsDisk DEF RefuseWrite

LEMMA FailWriteKeepsDisk == DiskInv /\ FailWrite => DiskInv'
BY RejectedKeepsDisk DEF FailWrite, DiskInv, WritingForHead

(***************************************************************************)
(* A file is replaced: what it held was no newer than the snapshot, and    *)
(* what the write at the head was promised of it is kept now.              *)
(***************************************************************************)
LEMMA RenamedKeeps ==
  ASSUME DiskInv, writing.pc # "none", NEW f \in writing.todo, Renamed(f)
  PROVE  /\ disk' \in Contents /\ torn' \subseteq Files
         /\ \A k \in Keys : disk'[k] = IF FileOf[k] = f THEN writing.snapshot[k] ELSE disk[k]
         /\ \A k \in Keys : durable[k] > 0 => FileOf[k] \notin torn' /\ durable[k] <= VersionOf(disk'[k])
         /\ \A k \in Keys : Marked(disk'[k])
<1> USE DEF DiskInv, Renamed
<1>1. writing.snapshot \in Contents /\ disk \in Contents /\ durable \in [Keys -> Nat]
  BY DEF DiskTypeOK, Write
<1>2. \A k \in Keys : disk'[k] = IF FileOf[k] = f THEN writing.snapshot[k] ELSE disk[k]
  BY <1>1 DEF Contents
<1>3. disk' \in Contents /\ torn' \subseteq Files
  BY <1>1 DEF Contents, DiskTypeOK
<1>4. ASSUME NEW k \in Keys, durable[k] > 0
      PROVE  FileOf[k] \notin torn' /\ durable[k] <= VersionOf(disk'[k])
  <2>1. CASE FileOf[k] = f
    BY <1>2, <2>1 DEF WritingForHead
  <2>2. CASE FileOf[k] # f
    <3>1. VersionOf(disk[k]) \in Nat /\ durable[k] \in Nat
      BY <1>1, VersionNat DEF Contents
    <3> QED
      BY <1>2, <1>4, <2>2, <3>1 DEF Durable
  <2> QED
    BY <2>1, <2>2
<1>5. \A k \in Keys : Marked(disk'[k])
  BY <1>2 DEF AllMarked
<1> HIDE DEF DiskInv, Renamed
<1> QED
  BY <1>2, <1>3, <1>4, <1>5

LEMMA RenameGoesOn ==
  ASSUME DiskInv, writing.pc # "none", NEW f \in writing.todo, Renamed(f), writing.todo # {f},
         writing' = [writing EXCEPT !.pc = "temp", !.todo = @ \ {f}],
         UNCHANGED <<queue, flushes, durable, gaveUp>>,
         UNCHANGED <<unsafe, memory, timer, version, faults>>
  PROVE  DiskInv'
<1>1. /\ disk' \in Contents /\ torn' \subseteq Files
      /\ \A k \in Keys : disk'[k] = IF FileOf[k] = f THEN writing.snapshot[k] ELSE disk[k]
      /\ \A k \in Keys : durable[k] > 0 => FileOf[k] \notin torn' /\ durable[k] <= VersionOf(disk'[k])
      /\ \A k \in Keys : Marked(disk'[k])
  BY RenamedKeeps
<1>2. torn' = torn \ {f}
  BY DEF Renamed
<1>3. writing' \in Write /\ writing'.todo = writing.todo \ {f} /\ writing'.snapshot = writing.snapshot
        /\ writing'.pc # "none" /\ writing'.todo # {}
  BY DEF DiskInv, DiskTypeOK, Write
<1>4. DiskTypeOK'
  BY <1>1, <1>3 DEF DiskInv, DiskTypeOK
<1>5. Grown' /\ QueuedCalled'
  BY DEF DiskInv, Grown, QueuedCalled, VersionOf
<1>6. AllMarked'
  BY <1>1, <1>3 DEF DiskInv, AllMarked
<1>7. WritingForHead'
  <2>1. queue' # <<>> /\ Head(queue') = Head(queue)
          /\ \A k \in Keys : durable'[k] <= VersionOf(writing'.snapshot[k])
    BY <1>3 DEF DiskInv, WritingForHead
  <2>2. ASSUME Head(queue) # Debounce, NEW k \in Keys
        PROVE  /\ flushes[Head(queue)].promised[k] <= VersionOf(writing.snapshot[k])
               /\ Kept(Head(queue), k)'
    <3>1. flushes[Head(queue)].promised[k] <= VersionOf(writing.snapshot[k]) /\ Kept(Head(queue), k)
      BY <2>2 DEF DiskInv, WritingForHead
    <3>2. CASE FileOf[k] = f
      BY <1>1, <1>2, <3>1, <3>2 DEF Kept, VersionOf
    <3>3. CASE FileOf[k] # f
      BY <1>1, <1>2, <1>3, <3>1, <3>3 DEF Kept, VersionOf
    <3> QED
      BY <3>2, <3>3
  <2> QED
    BY <1>3, <2>1, <2>2 DEF WritingForHead, VersionOf
<1>8. Durable'
  BY <1>1 DEF Durable, VersionOf
<1>9. NothingMissed'
  <2>1. ASSUME NEW k \in Keys, BeingSaved(k) PROVE BeingSaved(k)'
    BY <1>1, <1>2, <1>3, <2>1 DEF BeingSaved, Saved
  <2>2. queue # <<>> /\ Len(queue) \in Nat
    BY DEF DiskInv, DiskTypeOK, WritingForHead
  <2> QED
    BY <2>1, <2>2 DEF DiskInv, NothingMissed
<1>10. NoneNewer'
  BY <1>1, <1>3 DEF DiskInv, NoneNewer, VersionOf
<1> QED
  BY <1>4, <1>5, <1>6, <1>7, <1>8, <1>9, <1>10 DEF DiskInv

LEMMA RenameEnds ==
  ASSUME DiskInv, writing.pc # "none", NEW f \in writing.todo, Renamed(f), writing.todo = {f},
         Settle("resolved"), UNCHANGED <<unsafe, memory, timer, version, faults>>
  PROVE  DiskInv'
<1>1. /\ disk' \in Contents /\ torn' \subseteq Files
      /\ \A k \in Keys : disk'[k] = IF FileOf[k] = f THEN writing.snapshot[k] ELSE disk[k]
      /\ \A k \in Keys : durable[k] > 0 => FileOf[k] \notin torn' /\ durable[k] <= VersionOf(disk'[k])
      /\ \A k \in Keys : Marked(disk'[k])
  BY RenamedKeeps
<1>2. torn' = torn \ {f}
  BY DEF Renamed
<1>3. queue # <<>> /\ Len(queue) \in Nat /\ Len(queue) > 0
  BY DEF DiskInv, DiskTypeOK, WritingForHead
<1>4. /\ queue' \in Seq(Flushers \cup {Debounce})
      /\ Len(queue') = Len(queue) - 1 /\ (queue' = <<>> <=> Len(queue) = 1)
      /\ QueuedCalled'
      /\ flushes' \in [Flushers -> Flush]
      /\ \A g \in Flushers : flushes'[g].promised = flushes[g].promised
      /\ writing' \in Write /\ writing'.pc = "none" /\ writing'.snapshot = Empty
      /\ gaveUp' \in BOOLEAN
  BY <1>3, SettleType
<1>5. ASSUME Head(queue) # Debounce, NEW k \in Keys
      PROVE  LET m == flushes[Head(queue)].promised[k]
             IN /\ m \in Nat
                /\ m > 0 => FileOf[k] \notin torn' /\ m <= VersionOf(disk'[k])
                /\ m <= VersionOf(memory[k])
  <2>1. Head(queue) \in Flushers
    BY <1>3, <1>5, HeadAsked
  <2>2. flushes[Head(queue)].promised[k] \in Nat
    BY <2>1 DEF DiskInv, DiskTypeOK, Flush
  <2>3. flushes[Head(queue)].promised[k] <= VersionOf(writing.snapshot[k]) /\ Kept(Head(queue), k)
    BY <1>5 DEF DiskInv, WritingForHead
  <2>4. flushes[Head(queue)].promised[k] <= VersionOf(memory[k])
    BY <2>1 DEF DiskInv, Grown
  <2>5. CASE FileOf[k] = f
    BY <1>1, <1>2, <2>2, <2>3, <2>4, <2>5
  <2>6. CASE FileOf[k] # f
    BY <1>1, <1>2, <2>2, <2>3, <2>4, <2>6 DEF Kept
  <2> QED
    BY <2>5, <2>6
<1>6. ASSUME NEW k \in Keys
      PROVE  /\ durable'[k] \in Nat
             /\ durable'[k] > 0 => FileOf[k] \notin torn' /\ durable'[k] <= VersionOf(disk'[k])
             /\ durable'[k] <= VersionOf(memory[k])
  <2>1. durable[k] \in Nat /\ durable[k] <= VersionOf(memory[k])
    BY DEF DiskInv, DiskTypeOK, Grown
  <2>2. CASE Head(queue) = Debounce
    BY <1>1, <2>1, <2>2 DEF Settle
  <2>3. CASE Head(queue) # Debounce
    <3>1. durable'[k] = NewerOf(durable[k], flushes[Head(queue)].promised[k])
      BY <2>3 DEF Settle
    <3>2. durable'[k] \in {durable[k], flushes[Head(queue)].promised[k]}
      BY <3>1 DEF NewerOf
    <3> QED
      BY <1>1, <1>5, <2>1, <2>3, <3>2
  <2> QED
    BY <2>2, <2>3
<1>7. durable' \in [Keys -> Nat]
  BY <1>6 DEF Settle, DiskInv, DiskTypeOK
<1>8. DiskTypeOK'
  BY <1>1, <1>4, <1>7 DEF DiskInv, DiskTypeOK
<1>9. Grown'
  BY <1>4, <1>6 DEF DiskInv, Grown, VersionOf
<1>10. WritingForHead'
  BY <1>4 DEF WritingForHead
<1>11. Durable'
  <2>1. \A k \in Keys : VersionOf(disk'[k]) \in Nat
    BY <1>1, VersionNat DEF Contents
  <2> QED
    BY <1>6, <2>1 DEF Durable, VersionOf
<1>12. NothingMissed'
  <2>1. ASSUME NEW k \in Keys, BeingSaved(k) PROVE Saved(k)'
    BY <1>1, <1>2, <2>1 DEF BeingSaved, Saved
  <2>2. CASE Len(queue) = 1
    BY <1>3, <1>4, <2>1, <2>2 DEF DiskInv, NothingMissed
  <2>3. CASE Len(queue) > 1
    BY <1>3, <1>4, <2>3 DEF NothingMissed
  <2>4. Len(queue) = 1 \/ Len(queue) > 1
    BY <1>3
  <2> QED
    BY <2>2, <2>3, <2>4
<1>13. AllMarked'
  BY <1>1, <1>4 DEF DiskInv, AllMarked, Marked, Empty
<1>14. NoneNewer'
  <2>1. version \in Nat /\ version' = version
    BY DEF DiskInv, DiskTypeOK
  <2>2. ASSUME NEW k \in Keys
        PROVE  VersionOf(disk'[k]) <= version /\ VersionOf(writing'.snapshot[k]) <= version
    <3>1. VersionOf(disk[k]) <= version /\ VersionOf(writing.snapshot[k]) <= version
      BY DEF DiskInv, NoneNewer
    <3>2. disk'[k] \in {disk[k], writing.snapshot[k]} /\ writing'.snapshot[k] = Absent
      BY <1>1, <1>4 DEF Empty
    <3> QED
      BY <2>1, <3>1, <3>2, AbsentIsNoEntry
  <2> QED
    BY <2>1, <2>2 DEF NoneNewer, VersionOf
<1> QED
  BY <1>4, <1>8, <1>9, <1>10, <1>11, <1>12, <1>13, <1>14 DEF DiskInv

LEMMA RenameKeepsDisk == DiskInv /\ Rename => DiskInv'
BY RenameGoesOn, RenameEnds DEF Rename, First

(***************************************************************************)
(* What takes promises back, and the process that starts again.            *)
(***************************************************************************)
LEMMA ClearKeepsDisk == DiskInv /\ Clear => DiskInv'
<1> SUFFICES ASSUME DiskInv, Clear PROVE DiskInv'
  OBVIOUS
<1>1. /\ memory' = Empty /\ durable' = Nothing
      /\ UNCHANGED <<unsafe, timer, queue, writing, disk, torn, version, faults, gaveUp>>
  BY DEF Clear
<1>2. \A f \in Flushers : flushes[f] \in Flush
  BY DEF DiskInv, DiskTypeOK
<1>3. \A f \in Flushers : flushes'[f] = [flushes[f] EXCEPT !.promised = Nothing]
  BY DEF Clear
<1>4. \A f \in Flushers : /\ flushes'[f] \in Flush
                          /\ flushes'[f].pc = flushes[f].pc
                          /\ \A k \in Keys : flushes'[f].promised[k] = 0
  <2> TAKE f \in Flushers
  <2>1. Nothing \in [Keys -> Nat] /\ \A k \in Keys : Nothing[k] = 0
    BY DEF Nothing
  <2>2. flushes[f] \in Flush /\ flushes'[f] = [flushes[f] EXCEPT !.promised = Nothing]
    BY <1>2, <1>3
  <2>3. flushes'[f] = [pc |-> flushes[f].pc, promised |-> Nothing]
    BY <2>2 DEF Flush
  <2> QED
    BY <2>1, <2>2, <2>3 DEF Flush
<1>5. DiskTypeOK'
  <2>1. memory' \in Contents /\ durable' \in [Keys -> Nat]
    BY <1>1 DEF Empty, Nothing, Contents
  <2>2. flushes' \in [Flushers -> Flush]
    BY <1>4 DEF Clear
  <2> QED
    BY <1>1, <2>1, <2>2 DEF DiskInv, DiskTypeOK
<1>6. Grown'
  <2>1. \A k \in Keys : VersionOf(memory'[k]) = 0 /\ durable'[k] = 0
    BY <1>1, AbsentIsNoEntry DEF Empty, Nothing
  <2> QED
    BY <1>1, <1>4, <2>1 DEF DiskInv, DiskTypeOK, Grown, VersionOf
<1>7. QueuedCalled'
  <2>1. \A i \in 1 .. Len(queue) : queue[i] \in Flushers \cup {Debounce}
    BY DEF DiskInv, DiskTypeOK
  <2> QED
    BY <1>1, <1>4, <2>1 DEF DiskInv, QueuedCalled
<1>8. WritingForHead'
  <2> SUFFICES ASSUME writing.pc # "none"
               PROVE  WritingForHead'
    BY <1>1 DEF WritingForHead
  <2>1. queue # <<>> /\ writing.todo # {}
    BY DEF DiskInv, WritingForHead
  <2>2. \A k \in Keys : VersionOf(writing.snapshot[k]) \in Nat
    BY VersionNat DEF DiskInv, DiskTypeOK, Write, Contents
  <2>3. Head(queue) # Debounce => \A k \in Keys : flushes'[Head(queue)].promised[k] = 0
    BY <1>4, <2>1, HeadAsked
  <2>4. \A k \in Keys : durable'[k] = 0
    BY <1>1 DEF Nothing
  <2> QED
    BY <1>1, <2>1, <2>2, <2>3, <2>4 DEF WritingForHead, Kept, VersionOf
<1>9. Durable'
  BY <1>1 DEF Durable, Nothing
<1>10. NothingMissed'
  BY <1>1 DEF DiskInv, NothingMissed, BeingSaved, Saved, Empty
<1>11. AllMarked'
  BY <1>1 DEF DiskInv, AllMarked, Marked, Empty
<1>12. NoneNewer'
  BY <1>1 DEF DiskInv, NoneNewer, VersionOf
<1> QED
  BY <1>5, <1>6, <1>7, <1>8, <1>9, <1>10, <1>11, <1>12 DEF DiskInv

LEMMA ForgetsLess ==
  ASSUME NEW promised \in [Keys -> Nat], NEW files
  PROVE  /\ Forgets(promised, files) \in [Keys -> Nat]
         /\ \A k \in Keys : Forgets(promised, files)[k] = 0 \/
                            (FileOf[k] \notin files /\ Forgets(promised, files)[k] = promised[k])
BY DEF Forgets

LEMMA HandEditKeepsDisk ==
  ASSUME DiskInv, NEW file \in Files, HandEdit(file)
  PROVE  DiskInv'
<1>1. /\ torn' = torn \cup {file} /\ durable' = Forgets(durable, {file})
      /\ UNCHANGED <<unsafe, memory, timer, queue, writing, disk, version, gaveUp>>
  BY DEF HandEdit
<1>2. \A f \in Flushers : flushes[f] \in Flush
  BY DEF DiskInv, DiskTypeOK
<1>3. \A f \in Flushers : flushes'[f] = [flushes[f] EXCEPT !.promised = Forgets(@, {file})]
  BY DEF HandEdit
<1>4. \A f \in Flushers :
        /\ flushes'[f] \in Flush
        /\ flushes'[f].pc = flushes[f].pc
        /\ \A k \in Keys : flushes'[f].promised[k] = 0 \/
             (FileOf[k] # file /\ flushes'[f].promised[k] = flushes[f].promised[k])
  <2> TAKE f \in Flushers
  <2> DEFINE less == Forgets(flushes[f].promised, {file})
  <2>1. flushes[f] \in Flush /\ flushes'[f] = [flushes[f] EXCEPT !.promised = less]
    BY <1>2, <1>3
  <2>2. flushes[f].promised \in [Keys -> Nat]
    BY <2>1 DEF Flush
  <2>3. less \in [Keys -> Nat] /\ \A k \in Keys : less[k] = 0 \/ (FileOf[k] # file /\ less[k] = flushes[f].promised[k])
    BY <2>2, ForgetsLess
  <2> HIDE DEF less
  <2>4. flushes'[f] = [pc |-> flushes[f].pc, promised |-> less]
    BY <2>1 DEF Flush
  <2> QED
    BY <2>1, <2>3, <2>4 DEF Flush
<1>5. \A k \in Keys : durable'[k] = 0 \/ (FileOf[k] # file /\ durable'[k] = durable[k])
  BY <1>1, ForgetsLess DEF DiskInv, DiskTypeOK
<1>6. DiskTypeOK'
  <2>1. durable' \in [Keys -> Nat]
    BY <1>1, ForgetsLess DEF DiskInv, DiskTypeOK
  <2>2. flushes' \in [Flushers -> Flush]
    BY <1>4 DEF HandEdit
  <2>3. faults' \in [crashes : Nat, edits : Nat]
    BY DEF HandEdit, DiskInv, DiskTypeOK
  <2> QED
    BY <1>1, <2>1, <2>2, <2>3 DEF DiskInv, DiskTypeOK
<1>7. \A k \in Keys : VersionOf(memory[k]) \in Nat /\ VersionOf(writing.snapshot[k]) \in Nat
  BY VersionNat DEF DiskInv, DiskTypeOK, Write, Contents
<1>8. Grown'
  <2> SUFFICES ASSUME NEW k \in Keys
               PROVE  /\ VersionOf(memory[k]) <= version
                      /\ durable'[k] <= VersionOf(memory[k])
                      /\ \A f \in Flushers : flushes'[f].promised[k] <= VersionOf(memory[k])
    BY <1>1 DEF Grown, VersionOf
  <2>1. VersionOf(memory[k]) <= version /\ durable[k] <= VersionOf(memory[k])
    BY DEF DiskInv, Grown
  <2>2. ASSUME NEW f \in Flushers PROVE flushes[f].promised[k] <= VersionOf(memory[k])
    BY DEF DiskInv, Grown
  <2> QED
    BY <1>4, <1>5, <1>7, <2>1, <2>2
<1>9. QueuedCalled'
  <2>1. \A i \in 1 .. Len(queue) : queue[i] \in Flushers \cup {Debounce}
    BY DEF DiskInv, DiskTypeOK
  <2> QED
    BY <1>1, <1>4, <2>1 DEF DiskInv, QueuedCalled
<1>10. WritingForHead'
  <2> SUFFICES ASSUME writing.pc # "none"
               PROVE  WritingForHead'
    BY <1>1 DEF WritingForHead
  <2>1. queue # <<>> /\ writing.todo # {}
    BY DEF DiskInv, WritingForHead
  <2>2. \A k \in Keys : durable'[k] <= VersionOf(writing.snapshot[k])
    BY <1>5, <1>7 DEF DiskInv, WritingForHead
  <2>3. ASSUME Head(queue) # Debounce, NEW k \in Keys
        PROVE  /\ flushes'[Head(queue)].promised[k] <= VersionOf(writing.snapshot[k])
               /\ Kept(Head(queue), k)'
    <3>1. Head(queue) \in Flushers
      BY <2>1, <2>3, HeadAsked
    <3>2. flushes[Head(queue)].promised[k] <= VersionOf(writing.snapshot[k]) /\ Kept(Head(queue), k)
      BY <2>3 DEF DiskInv, WritingForHead
    <3> QED
      BY <1>1, <1>4, <1>7, <3>1, <3>2 DEF Kept, VersionOf
  <2> QED
    BY <1>1, <2>1, <2>2, <2>3 DEF WritingForHead, VersionOf
<1>11. Durable'
  <2>1. ASSUME NEW k \in Keys, durable'[k] > 0
        PROVE  FileOf[k] \notin torn' /\ VersionOf(disk[k]) >= durable'[k]
    <3>1. FileOf[k] # file /\ durable'[k] = durable[k]
      BY <1>5, <2>1
    <3>2. FileOf[k] \notin torn /\ VersionOf(disk[k]) >= durable[k]
      BY <2>1, <3>1 DEF DiskInv, Durable
    <3> QED
      BY <1>1, <3>1, <3>2
  <2> QED
    BY <1>1, <2>1 DEF Durable, VersionOf
<1>12. NothingMissed'
  BY <1>1 DEF DiskInv, NothingMissed, BeingSaved, Saved
<1>13. AllMarked'
  BY <1>1 DEF DiskInv, AllMarked
<1>14. NoneNewer'
  BY <1>1 DEF DiskInv, NoneNewer, VersionOf
<1> QED
  BY <1>6, <1>8, <1>9, <1>10, <1>11, <1>12, <1>13, <1>14 DEF DiskInv

LEMMA RestartKeepsDisk == DiskInv /\ Restart => DiskInv'
<1> SUFFICES ASSUME DiskInv, Restart PROVE DiskInv'
  OBVIOUS
<1>1. /\ memory' = Load /\ ~timer' /\ queue' = <<>> /\ writing' = NotWriting /\ gaveUp' = FALSE
      /\ flushes' = [f \in Flushers |-> NotFlushing]
      /\ UNCHANGED <<unsafe, disk, torn, version, durable>>
  BY DEF Restart
<1>2. \A k \in Keys : memory'[k] = IF FileOf[k] \in torn THEN Absent ELSE disk[k]
  BY <1>1 DEF Load, Readable
<1>3. memory' \in Contents
  BY <1>1, <1>2 DEF DiskInv, DiskTypeOK, Contents, Load
<1>4. DiskTypeOK'
  <2>1. writing' \in Write /\ writing'.pc = "none"
    BY <1>1 DEF NotWriting, Write, Empty, Contents
  <2>2. flushes' \in [Flushers -> Flush]
    BY <1>1 DEF NotFlushing, Nothing, Flush
  <2>3. faults' \in [crashes : Nat, edits : Nat]
    BY DEF Restart, DiskInv, DiskTypeOK
  <2>5. timer' = FALSE /\ gaveUp' = FALSE
    BY DEF Restart
  <2>4. queue' \in Seq(Flushers \cup {Debounce})
    BY <1>1
  <2> QED
    BY <1>1, <1>3, <2>1, <2>2, <2>3, <2>4, <2>5 DEF DiskInv, DiskTypeOK
<1>5. ASSUME NEW k \in Keys
      PROVE  /\ VersionOf(memory'[k]) <= version /\ durable[k] <= VersionOf(memory'[k])
             /\ \A f \in Flushers : flushes'[f].promised[k] <= VersionOf(memory'[k])
  <2>1. VersionOf(memory'[k]) \in Nat /\ VersionOf(disk[k]) \in Nat /\ durable[k] \in Nat /\ version \in Nat
    BY <1>3, VersionNat DEF DiskInv, DiskTypeOK, Contents
  <2>2. \A f \in Flushers : flushes'[f].promised[k] = 0
    BY <1>1 DEF NotFlushing, Nothing
  <2>3. CASE FileOf[k] \in torn
    BY <1>2, <2>1, <2>2, <2>3, AbsentIsNoEntry DEF DiskInv, Durable
  <2>4. CASE FileOf[k] \notin torn
    BY <1>2, <2>1, <2>2, <2>4 DEF DiskInv, Durable, NoneNewer
  <2> QED
    BY <2>3, <2>4
<1>6. Grown'
  BY <1>1, <1>5 DEF Grown, VersionOf
<1>7. QueuedCalled' /\ WritingForHead' /\ NothingMissed'
  BY <1>1, <1>2 DEF QueuedCalled, WritingForHead, NothingMissed, Saved, NotWriting
<1>8. Durable'
  BY <1>1 DEF DiskInv, Durable, VersionOf
<1>9. AllMarked'
  BY <1>1, <1>2 DEF DiskInv, AllMarked, Marked, NotWriting, Empty
<1>10. NoneNewer'
  BY <1>1, AbsentIsNoEntry DEF DiskInv, DiskTypeOK, NoneNewer, VersionOf, NotWriting, Empty
<1> QED
  BY <1>4, <1>6, <1>7, <1>8, <1>9, <1>10 DEF DiskInv

(***************************************************************************)
(* The disk part of the invariant is what the properties say.              *)
(***************************************************************************)
LEMMA DiskInvKeepsUp == DiskInv => DiskKeepsUp
<1> SUFFICES ASSUME DiskInv PROVE Durable /\ QuietIsSaved
  BY DEF DiskKeepsUp
<1>1. ASSUME ~timer, queue = <<>>, ~gaveUp PROVE \A k \in Keys : Saved(k)
  BY <1>1 DEF DiskInv, NothingMissed, DiskTypeOK
<1> QED
  BY <1>1 DEF DiskInv, QuietIsSaved, Saved
(***************************************************************************)
(* The bake.  What it plans is listed in the order of the walk, each       *)
(* response once; a position of the list in a subset of the responses is   *)
(* the number of members up to it, which is an injection into 1..n, and so *)
(* onto it.                                                                *)
(***************************************************************************)
LEMMA InOrderLists ==
  ASSUME NEW P \in SUBSET (DOMAIN Responses)
  PROVE  /\ IsFiniteSet(P) /\ Cardinality(P) \in Nat
         /\ InOrder(P) \in [1 .. Cardinality(P) -> P]
         /\ \A p, q \in 1 .. Cardinality(P) : InOrder(P)[p] = InOrder(P)[q] => p = q
<1> DEFINE n == Cardinality(P)
           upTo(i) == {j \in P : j <= i}
           place == [i \in P |-> Cardinality(upTo(i))]
<1>1. Len(Responses) \in Nat /\ DOMAIN Responses = 1 .. Len(Responses)
  BY ResponsesSequence
<1>2. IsFiniteSet(DOMAIN Responses)
  BY <1>1, FS_Interval
<1>3. IsFiniteSet(P) /\ n \in Nat
  BY <1>2, FS_Subset, FS_CardinalityType
<1>4. \A i \in P : upTo(i) \in SUBSET P /\ IsFiniteSet(upTo(i)) /\ Cardinality(upTo(i)) \in Nat
  BY <1>3, FS_Subset, FS_CardinalityType
<1>5. ASSUME NEW i \in P PROVE place[i] \in 1 .. n
  <2>1. Cardinality(upTo(i)) <= n
    BY <1>3, <1>4, FS_Subset
  <2>2. i \in Nat /\ i \in upTo(i)
    BY <1>1
  <2>3. Cardinality(upTo(i)) # 0
    BY <1>4, <2>2, FS_EmptySet
  <2> QED
    BY <1>3, <1>4, <2>1, <2>3
<1>6. ASSUME NEW i \in P, NEW j \in P, i < j PROVE place[i] # place[j]
  <2>1. i \in Nat /\ j \in Nat /\ P \subseteq Nat
    BY <1>1
  <2>2. upTo(i) \in SUBSET upTo(j) /\ j \in upTo(j) /\ j \notin upTo(i)
    BY <2>1, <1>6
  <2>3. Cardinality(upTo(i)) # Cardinality(upTo(j))
    BY <2>2, <1>4, FS_Subset
  <2> QED
    BY <2>3
<1>7. ASSUME NEW i \in P, NEW j \in P, place[i] = place[j] PROVE i = j
  <2>1. i \in Nat /\ j \in Nat
    BY <1>1
  <2> HIDE DEF place
  <2>2. ~(i < j) /\ ~(j < i)
    BY <1>6, <1>7
  <2> QED
    BY <2>1, <2>2
<1>8. place \in Injection(P, 1 .. n)
  <2>1. place = [i \in P |-> place[i]]
    OBVIOUS
  <2> HIDE DEF n, place
  <2>2. place \in [P -> 1 .. n]
    BY <1>5, <2>1
  <2> QED
    BY <1>7, <2>2 DEF Injection, IsInjective
<1>9. IsFiniteSet(1 .. n) /\ Cardinality(1 .. n) = n
  BY <1>3, FS_Interval
<1>10. place \in Surjection(P, 1 .. n)
  <2> HIDE DEF place
  <2> QED
    BY <1>8, <1>9, FS_Injection
<1>11. \A p \in 1 .. n : \E i \in P : Cardinality(upTo(i)) = p
  BY <1>10 DEF Surjection
<1> DEFINE at(p) == CHOOSE i \in P : Cardinality(upTo(i)) = p
<1>12. InOrder(P) = [p \in 1 .. n |-> at(p)]
  BY DEF InOrder
<1>13. \A p \in 1 .. n : at(p) \in P /\ Cardinality(upTo(at(p))) = p
  BY <1>11
<1> HIDE DEF at
<1> QED
  BY <1>3, <1>12, <1>13

KeysUpTo(b, n) == {Responses[b.attempted[p]].key : p \in 1 .. n}

\* The bake `b`: which of the responses it plans for are done is a prefix of
\* them, and each is a JSON response of its own, so its key is too.
Accounts(b) ==
  /\ b \in Baking
  /\ b.next \in 1 .. Len(b.attempted) + 1
  /\ b.pc = "calling" => b.plan \in Plans /\ b.next <= Len(b.attempted)
  /\ b.pc = "done" => b.next = Len(b.attempted) + 1
  /\ b.pc = "idle" => b = NotBaking
  /\ b.pc \in {"calling", "done"} => b.considered = b.summary.skipped + Len(b.attempted)
  /\ b.plan # Absent /\ b.plan.maxCalls # Absent => Len(b.attempted) <= b.plan.maxCalls
  /\ \A p \in 1 .. Len(b.attempted) : Responses[b.attempted[p]].kind = "json"
  /\ \A p, q \in 1 .. Len(b.attempted) : b.attempted[p] = b.attempted[q] => p = q
  /\ b.asked = b.next - 1
  /\ b.summary.generated + b.summary.failed = b.next - 1
  /\ b.written \subseteq KeysUpTo(b, b.next - 1)
  /\ IsFiniteSet(b.written)
  /\ b.summary.generated = Cardinality(b.written)

BakeInv == Accounts(baking)

LEMMA AccountsKept == BakeInv /\ UNCHANGED baking => BakeInv'
BY DEF BakeInv

LEMMA NotBakingFields ==
  /\ NotBaking \in Baking /\ NotBaking.summary \in Summary
  /\ NotBaking.pc = "idle" /\ NotBaking.plan = Absent /\ NotBaking.attempted = <<>>
  /\ NotBaking.next = 1 /\ NotBaking.asked = 0 /\ NotBaking.written = {}
  /\ NotBaking.summary.generated = 0 /\ NotBaking.summary.failed = 0 /\ NotBaking.summary.skipped = 0
BY DEF NotBaking, Baking, Summary

LEMMA NotBakingAccounts == Accounts(NotBaking)
BY NotBakingFields, FS_EmptySet DEF Accounts

LEMMA RefusedAccounts == Accounts([NotBaking EXCEPT !.pc = "refused"])
<1> DEFINE b == [NotBaking EXCEPT !.pc = "refused"]
<1>1. /\ b \in Baking /\ b.pc = "refused" /\ b.plan = NotBaking.plan /\ b.next = NotBaking.next
      /\ b.attempted = NotBaking.attempted /\ b.asked = NotBaking.asked
      /\ b.written = NotBaking.written /\ b.summary = NotBaking.summary
  BY NotBakingFields DEF Baking
<1> HIDE DEF b
<1>2. Accounts(b)
  BY <1>1, NotBakingFields, FS_EmptySet DEF Accounts
<1> QED
  BY <1>2 DEF b

LEMMA InvAccounted == BakeInv => BakeTypeOK /\ BakeAccounted
<1> SUFFICES ASSUME Accounts(baking) PROVE baking \in Baking /\ BakeAccounted
  BY DEF BakeInv, BakeTypeOK
<1>1. baking \in Baking /\ baking.summary \in Summary
  BY DEF Accounts, Baking
<1>2. /\ baking.summary.generated \in Nat /\ baking.summary.failed \in Nat
      /\ baking.summary.skipped \in Nat /\ Len(baking.attempted) \in Nat /\ baking.next \in Nat
  BY <1>1 DEF Summary, Baking
<1>3. baking.plan # Absent => baking.plan \in Plans
  BY <1>1 DEF Baking
<1>4. baking.plan \in Plans => baking.plan.maxCalls \in Nat \cup {Absent}
  BY PlansAssumption
<1>5. baking.pc = "done" =>
        baking.summary.generated + baking.summary.skipped + baking.summary.failed = baking.considered
  BY SMTT(30), <1>2 DEF Accounts
<1>6. baking.plan # Absent /\ baking.plan.maxCalls # Absent => baking.asked <= baking.plan.maxCalls
  <2> SUFFICES ASSUME baking.plan # Absent, baking.plan.maxCalls # Absent
               PROVE  baking.asked <= baking.plan.maxCalls
    OBVIOUS
  <2>1. baking.plan.maxCalls \in Nat
    BY <1>3, <1>4
  <2>2. /\ Len(baking.attempted) <= baking.plan.maxCalls
        /\ baking.asked = baking.next - 1 /\ baking.next <= Len(baking.attempted) + 1
    BY <1>2 DEF Accounts
  <2> QED
    BY <1>2, <2>1, <2>2
<1>7. baking.summary.generated = Cardinality(baking.written)
  BY DEF Accounts
<1> QED
  BY <1>1, <1>5, <1>6, <1>7 DEF BakeAccounted

LEMMA FirstOfKeeps ==
  ASSUME NEW S, NEW s \in Seq(S), NEW limit \in Nat \cup {Absent}
  PROVE  /\ FirstOf(s, limit) \in Seq(S)
         /\ Len(FirstOf(s, limit)) <= Len(s)
         /\ limit # Absent => Len(FirstOf(s, limit)) <= limit
         /\ \A p \in 1 .. Len(FirstOf(s, limit)) : p \in 1 .. Len(s) /\ FirstOf(s, limit)[p] = s[p]
<1>1. CASE limit = Absent \/ limit >= Len(s)
  BY <1>1 DEF FirstOf
<1>2. CASE ~(limit = Absent \/ limit >= Len(s))
  <2>1. limit \in Nat /\ limit < Len(s) /\ FirstOf(s, limit) = SubSeq(s, 1, limit)
    BY <1>2 DEF FirstOf
  <2>2. SubSeq(s, 1, limit) \in Seq(S) /\ Len(SubSeq(s, 1, limit)) = limit
          /\ \A p \in 1 .. limit : SubSeq(s, 1, limit)[p] = s[p]
    BY <2>1
  <2> QED
    BY <2>1, <2>2
<1> QED
  BY <1>1, <1>2

LEMMA StartBakeKeeps ==
  ASSUME BakeInv, NEW only \in Scopes, NEW plan \in Plans, StartBake(only, plan)
  PROVE  BakeInv'
<1> DEFINE considered == Considered(only)
           planned == Planned(considered)
           attempted == FirstOf(InOrder(planned), plan.maxCalls)
           pc == IF attempted = <<>> THEN "done" ELSE "calling"
           skipped == Cardinality(considered) - Len(attempted)
           summary == [NotBaking.summary EXCEPT !.skipped = skipped]
           b == [NotBaking EXCEPT !.pc = pc, !.plan = plan, !.attempted = attempted,
                                  !.considered = Cardinality(considered), !.summary = summary]
<1>1. considered \in SUBSET (DOMAIN Responses) /\ planned \in SUBSET considered
  BY DEF Considered, Planned
<1>2. /\ IsFiniteSet(considered) /\ Cardinality(considered) \in Nat
      /\ Cardinality(planned) \in Nat /\ Cardinality(planned) <= Cardinality(considered)
      /\ InOrder(planned) \in [1 .. Cardinality(planned) -> planned]
      /\ \A p, q \in 1 .. Cardinality(planned) : InOrder(planned)[p] = InOrder(planned)[q] => p = q
  BY <1>1, InOrderLists, FS_Subset
<1>3. InOrder(planned) \in Seq(planned) /\ Len(InOrder(planned)) = Cardinality(planned)
  BY <1>2
<1>4. plan.maxCalls \in Nat \cup {Absent}
  BY PlansAssumption
<1> HIDE DEF planned
<1>5. /\ attempted \in Seq(planned) /\ Len(attempted) \in Nat /\ Len(attempted) <= Cardinality(considered)
      /\ plan.maxCalls # Absent => Len(attempted) <= plan.maxCalls
      /\ \A p \in 1 .. Len(attempted) : p \in 1 .. Cardinality(planned)
                                        /\ attempted[p] = InOrder(planned)[p]
  <2>1. /\ attempted \in Seq(planned) /\ Len(attempted) <= Len(InOrder(planned))
        /\ plan.maxCalls # Absent => Len(attempted) <= plan.maxCalls
        /\ \A p \in 1 .. Len(attempted) : p \in 1 .. Len(InOrder(planned))
                                          /\ attempted[p] = InOrder(planned)[p]
    BY <1>3, <1>4, FirstOfKeeps
  <2> HIDE DEF attempted, considered
  <2>2. Len(attempted) \in Nat
    BY <2>1
  <2> QED
    BY <1>2, <1>3, <2>1, <2>2
<1> HIDE DEF attempted
<1>6. \A p, q \in 1 .. Len(attempted) : attempted[p] = attempted[q] => p = q
  BY <1>2, <1>5
<1>7. \A p \in 1 .. Len(attempted) : Responses[attempted[p]].kind = "json"
  BY <1>5 DEF planned, Planned
<1>8. attempted \in Seq(DOMAIN Responses)
  BY <1>1, <1>5
<1>9. skipped \in Nat /\ skipped + Len(attempted) = Cardinality(considered)
  BY <1>2, <1>5
<1> HIDE DEF considered, skipped
<1>10. /\ summary \in Summary /\ summary.skipped = skipped
       /\ summary.generated = 0 /\ summary.failed = 0
  BY <1>9, NotBakingFields DEF Summary
<1>11. pc \in {"calling", "done"} /\ (pc = "calling" => Len(attempted) >= 1)
         /\ (pc = "done" => Len(attempted) = 0)
  BY <1>8
<1> HIDE DEF pc, summary
<1>12. /\ b \in Baking /\ b.pc = pc /\ b.plan = plan /\ b.attempted = attempted /\ b.summary = summary
       /\ b.considered = Cardinality(considered) /\ b.next = NotBaking.next
       /\ b.asked = NotBaking.asked /\ b.written = NotBaking.written
  BY <1>2, <1>8, <1>10, <1>11, NotBakingFields DEF Baking
<1>13. Accounts(b)
  <2> HIDE DEF b
  <2>1. b.next = 1 /\ b.asked = 0 /\ b.written = {}
    BY <1>12, NotBakingFields
  <2> QED
    BY <1>4, <1>5, <1>6, <1>7, <1>9, <1>10, <1>11, <1>12, <2>1, FS_EmptySet DEF Accounts
<1>14. baking = NotBaking
  BY DEF BakeInv, Accounts, StartBake
<1>15. CASE ~plan.source \/ Refuses(only)
  BY <1>14, <1>15, RefusedAccounts DEF BakeInv, StartBake
<1>16. CASE ~(~plan.source \/ Refuses(only))
  <2>1. baking' = [baking EXCEPT
                 !.pc = pc, !.plan = plan, !.attempted = attempted,
                 !.considered = Cardinality(considered), !.summary.skipped = skipped]
    BY <1>16 DEF StartBake, pc, skipped, attempted, planned, considered
  <2>2. baking' = b
    BY <1>14, <2>1 DEF summary
  <2> QED
    BY <1>13, <2>2 DEF BakeInv
<1> QED
  BY <1>15, <1>16

LEMMA ChunkSpans ==
  ASSUME BakeInv, baking.pc = "calling"
  PROVE  /\ baking.next \in Nat /\ baking.next >= 1 /\ Len(baking.attempted) \in Nat
         /\ ChunkEnd \in Nat /\ baking.next <= ChunkEnd /\ ChunkEnd <= Len(baking.attempted)
         /\ Chunk = baking.next .. ChunkEnd
         /\ IsFiniteSet(Chunk) /\ Cardinality(Chunk) = ChunkEnd - baking.next + 1
         /\ \A kept \in SUBSET Chunk :
              /\ IsFiniteSet(kept) /\ Cardinality(kept) \in Nat /\ Cardinality(Chunk \ kept) \in Nat
              /\ Cardinality(kept) + Cardinality(Chunk \ kept) = Cardinality(Chunk)
<1>1. /\ baking.plan.chunkSize \in Nat /\ baking.next \in Nat /\ baking.next >= 1
      /\ Len(baking.attempted) \in Nat /\ baking.next <= Len(baking.attempted)
  BY PlansAssumption DEF BakeInv, Accounts, Baking
<1> DEFINE size == NewerOf(1, baking.plan.chunkSize)
<1>2. ChunkEnd \in Nat /\ baking.next <= ChunkEnd /\ ChunkEnd <= Len(baking.attempted)
  <2>1. size \in Nat /\ size >= 1
    BY <1>1 DEF NewerOf
  <2>2. ChunkEnd = IF baking.next + size - 1 > Len(baking.attempted) THEN Len(baking.attempted)
                   ELSE baking.next + size - 1
    BY DEF ChunkEnd
  <2> HIDE DEF size
  <2> QED
    BY <1>1, <2>1, <2>2
<1>3. Chunk = baking.next .. ChunkEnd
  BY DEF Chunk
<1> HIDE DEF size
<1>4. IsFiniteSet(Chunk) /\ Cardinality(Chunk) = ChunkEnd - baking.next + 1
  <2>1. baking.next \in Int /\ ChunkEnd \in Int /\ ~(baking.next > ChunkEnd)
    BY <1>1, <1>2
  <2> QED
    BY <1>3, <2>1, FS_Interval
<1>5. ASSUME NEW kept \in SUBSET Chunk
      PROVE  /\ IsFiniteSet(kept) /\ Cardinality(kept) \in Nat /\ Cardinality(Chunk \ kept) \in Nat
             /\ Cardinality(kept) + Cardinality(Chunk \ kept) = Cardinality(Chunk)
  <2>1. IsFiniteSet(kept) /\ Cardinality(kept) \in Nat /\ Cardinality(Chunk) \in Nat
    BY <1>4, FS_Subset, FS_CardinalityType
  <2>2. IsFiniteSet(Chunk \ kept) /\ Cardinality(Chunk \ kept) = Cardinality(Chunk) - Cardinality(Chunk \cap kept)
    BY <1>4, FS_Difference
  <2>3. Cardinality(Chunk \ kept) \in Nat
    BY <2>2, FS_CardinalityType
  <2>4. Cardinality(Chunk \cap kept) = Cardinality(kept)
    <3>1. Chunk \cap kept = kept
      OBVIOUS
    <3> QED
      BY <3>1
  <2> DEFINE rest == Chunk \ kept
             both == Chunk \cap kept
  <2>5. Cardinality(rest) = Cardinality(Chunk) - Cardinality(both) /\ Cardinality(rest) \in Nat
          /\ Cardinality(both) = Cardinality(kept)
    BY <2>2, <2>3, <2>4
  <2> HIDE DEF rest, both
  <2>6. Cardinality(rest) \in Nat /\ Cardinality(kept) + Cardinality(rest) = Cardinality(Chunk)
    BY <2>1, <2>5
  <2> QED
    BY <2>1, <2>6 DEF rest
<1> QED
  BY <1>1, <1>2, <1>3, <1>4, <1>5

\* The keys of the positions `kept` are as many as they, and none was written.
LEMMA KeptKeys ==
  ASSUME BakeInv, baking.pc = "calling", NEW kept \in SUBSET Chunk
  PROVE  LET keys == {KeyAt(p) : p \in kept}
         IN /\ keys \subseteq Keys /\ keys \subseteq KeysUpTo(baking, ChunkEnd)
            /\ IsFiniteSet(keys) /\ Cardinality(keys) = Cardinality(kept)
            /\ IsFiniteSet(baking.written \cup keys)
            /\ Cardinality(baking.written \cup keys) = Cardinality(baking.written) + Cardinality(kept)
<1> DEFINE len == Len(baking.attempted)
           keys == {KeyAt(p) : p \in kept}
           key == [p \in kept |-> KeyAt(p)]
<1>1. /\ baking.next \in Nat /\ baking.next >= 1 /\ len \in Nat /\ ChunkEnd \in Nat /\ ChunkEnd <= len
      /\ baking.next <= ChunkEnd
      /\ \A p \in kept : p \in Nat /\ baking.next <= p /\ p <= ChunkEnd
      /\ IsFiniteSet(kept) /\ Cardinality(kept) \in Nat
  <2>1. /\ baking.next \in Nat /\ baking.next >= 1 /\ len \in Nat /\ ChunkEnd \in Nat /\ ChunkEnd <= len
        /\ baking.next <= ChunkEnd /\ Chunk = baking.next .. ChunkEnd
        /\ IsFiniteSet(kept) /\ Cardinality(kept) \in Nat
    BY ChunkSpans
  <2>2. \A p \in baking.next .. ChunkEnd : p \in Nat /\ baking.next <= p /\ p <= ChunkEnd
    BY <2>1
  <2>3. \A p \in kept : p \in baking.next .. ChunkEnd
    BY <2>1
  <2> QED
    BY <2>1, <2>2, <2>3
<1>2. \A p \in 1 .. len : baking.attempted[p] \in DOMAIN Responses
  BY DEF BakeInv, Accounts, Baking
<1>3. \A p, q \in 1 .. len : KeyAt(p) = KeyAt(q) => p = q
  BY <1>2, ExactKeysAssumption DEF BakeInv, Accounts, KeyAt
<1>4. \A p \in 1 .. len : KeyAt(p) \in Keys
  <2> DEFINE Response == [op : Files, status : Nat, key : Keys, kind : Kinds]
  <2>1. \A r \in Response : r.key \in Keys
    OBVIOUS
  <2>2. Responses \in Seq(Response)
    BY ResponsesSequence
  <2> HIDE DEF Response
  <2>3. \A i \in DOMAIN Responses : Responses[i] \in Response
    BY <2>2
  <2> QED
    BY <1>2, <2>1, <2>3 DEF KeyAt
<1>5. \A p \in kept : p \in 1 .. ChunkEnd /\ p \in 1 .. len
  BY <1>1
<1>6. keys \subseteq Keys /\ keys \subseteq KeysUpTo(baking, ChunkEnd)
  BY <1>4, <1>5 DEF KeysUpTo, KeyAt
<1>7. IsFiniteSet(keys) /\ Cardinality(keys) = Cardinality(kept)
  <2> HIDE DEF len
  <2>1. key \in Surjection(kept, keys)
    BY DEF Surjection
  <2>2. key \in Injection(kept, keys)
    <3>1. key \in [kept -> keys]
      OBVIOUS
    <3>2. \A p, q \in kept : KeyAt(p) = KeyAt(q) => p = q
      BY <1>3, <1>5
    <3>3. \A p \in kept : key[p] = KeyAt(p)
      OBVIOUS
    <3> HIDE DEF key, keys
    <3> QED
      BY <3>1, <3>2, <3>3 DEF Injection, IsInjective
  <2> HIDE DEF key, keys
  <2> QED
    BY <1>1, <2>1, <2>2, FS_Surjection
<1>8. baking.written \cap keys = {}
  <2> SUFFICES ASSUME NEW k \in baking.written, k \in keys PROVE FALSE
    OBVIOUS
  <2>1. PICK p \in kept : k = KeyAt(p)
    OBVIOUS
  <2>2. PICK q \in 1 .. baking.next - 1 : k = KeyAt(q)
    BY DEF BakeInv, Accounts, KeysUpTo, KeyAt
  <2>3. q \in 1 .. len /\ p \in 1 .. len /\ q < p
    BY <1>1, <1>5, <2>2
  <2> QED
    BY <1>1, <1>3, <2>1, <2>2, <2>3
<1>9. IsFiniteSet(baking.written) /\ Cardinality(baking.written) \in Nat
  BY FS_CardinalityType DEF BakeInv, Accounts
<1> HIDE DEF keys
<1>10. /\ IsFiniteSet(baking.written \cup keys)
       /\ Cardinality(baking.written \cup keys)
            = Cardinality(baking.written) + Cardinality(keys) - Cardinality(baking.written \cap keys)
  BY <1>7, <1>9, FS_Union
<1> DEFINE both == baking.written \cap keys
           all == baking.written \cup keys
<1>11. Cardinality(all) = Cardinality(baking.written) + Cardinality(kept)
  <2>1. Cardinality(both) = 0
    BY <1>8, FS_EmptySet
  <2>2. Cardinality(all) = Cardinality(baking.written) + Cardinality(keys) - Cardinality(both)
    BY <1>10
  <2> HIDE DEF both, all
  <2> QED
    BY <1>1, <1>7, <1>9, <2>1, <2>2
<1> QED
  BY <1>6, <1>7, <1>10, <1>11 DEF keys

LEMMA AdvancedKeeps ==
  ASSUME BakeInv, baking.pc = "calling", NEW kept \in SUBSET Chunk,
         Advanced(Cardinality(kept), Cardinality(Chunk \ kept), {KeyAt(p) : p \in kept})
  PROVE  BakeInv'
<1> DEFINE s == baking.summary
           keys == {KeyAt(p) : p \in kept}
           n == Cardinality(kept)
           m == Cardinality(Chunk \ kept)
           pc == IF ChunkEnd = Len(baking.attempted) THEN "done" ELSE "calling"
           next == ChunkEnd + 1
           generated == s.generated + n
           failed == s.failed + m
           summary == [s EXCEPT !.generated = generated, !.failed = failed]
           written == baking.written \cup keys
           asked == baking.asked + Cardinality(Chunk)
           b == [baking EXCEPT !.next = next, !.pc = pc, !.summary = summary,
                               !.written = written, !.asked = asked]
<1>1. baking \in Baking /\ s \in Summary /\ baking.attempted \in Seq(DOMAIN Responses)
  BY DEF BakeInv, Accounts, Baking
<1>2. /\ baking.next \in Nat /\ baking.next >= 1 /\ Len(baking.attempted) \in Nat
      /\ ChunkEnd \in Nat /\ baking.next <= ChunkEnd /\ ChunkEnd <= Len(baking.attempted)
      /\ Cardinality(Chunk) = ChunkEnd - baking.next + 1
      /\ n \in Nat /\ m \in Nat /\ n + m = Cardinality(Chunk)
  BY ChunkSpans
<1>3. /\ keys \subseteq Keys /\ keys \subseteq KeysUpTo(baking, ChunkEnd)
      /\ IsFiniteSet(written) /\ Cardinality(written) = Cardinality(baking.written) + n
  BY KeptKeys
<1>4. baking' = b
  <2>1. baking' = [baking EXCEPT !.next = next, !.pc = pc,
                     !.summary.generated = @ + n, !.summary.failed = @ + m,
                     !.written = written, !.asked = asked]
    BY DEF Advanced
  <2> HIDE DEF n, m, next, pc, written, asked
  <2> QED
    BY <1>1, <2>1 DEF Baking, Summary
<1> HIDE DEF keys
<1>5. written \subseteq KeysUpTo(baking, ChunkEnd) /\ written \subseteq Keys
  <2>1. baking.written \subseteq Keys /\ baking.written \subseteq KeysUpTo(baking, baking.next - 1)
    BY DEF BakeInv, Accounts, Baking
  <2>2. KeysUpTo(baking, baking.next - 1) \subseteq KeysUpTo(baking, ChunkEnd)
    BY SMTT(30), <1>2 DEF KeysUpTo
  <2> QED
    BY <1>3, <2>1, <2>2
<1>6. /\ s.generated \in Nat /\ s.failed \in Nat /\ baking.asked \in Nat
      /\ s.generated + s.failed = baking.next - 1 /\ baking.asked = baking.next - 1
      /\ s.generated = Cardinality(baking.written)
  BY <1>1 DEF BakeInv, Accounts, Baking, Summary
<1> HIDE DEF n, m, written
<1> DEFINE size == Cardinality(Chunk)
           len == Len(baking.attempted)
           end == ChunkEnd
<1>7. /\ generated \in Nat /\ failed \in Nat /\ generated + failed = next - 1
      /\ generated = Cardinality(written) /\ asked = next - 1 /\ asked \in Nat /\ next \in Nat
      /\ next \in 1 .. Len(baking.attempted) + 1
  <2>1. /\ baking.next \in Nat /\ baking.next >= 1 /\ len \in Nat
        /\ end \in Nat /\ baking.next <= end /\ end <= len
        /\ size = end - baking.next + 1 /\ n \in Nat /\ m \in Nat /\ n + m = size
    BY <1>2
  <2>2. asked = baking.asked + size /\ next = end + 1
    OBVIOUS
  <2> HIDE DEF size, end, asked, next, len
  <2>3. /\ generated \in Nat /\ failed \in Nat /\ generated + failed = next - 1
        /\ asked = next - 1 /\ asked \in Nat /\ next \in Nat /\ next \in 1 .. len + 1
    BY <1>6, <2>1, <2>2
  <2>4. generated = Cardinality(written)
    BY <1>3, <1>6
  <2> QED
    BY <2>3, <2>4 DEF len
<1>8. /\ pc \in {"calling", "done"}
      /\ (pc = "calling" => next <= Len(baking.attempted))
      /\ (pc = "done" => next = Len(baking.attempted) + 1)
  BY <1>2
<1> HIDE DEF generated, failed, asked, next, pc, s, size, end, len
<1>9. summary \in Summary /\ summary.generated = generated /\ summary.failed = failed
        /\ summary.skipped = s.skipped
  BY <1>1, <1>7 DEF Summary
<1> HIDE DEF summary
<1>10. /\ b \in Baking /\ b.pc = pc /\ b.plan = baking.plan /\ b.attempted = baking.attempted
       /\ b.next = next /\ b.summary = summary /\ b.considered = baking.considered
       /\ b.written = written /\ b.asked = asked
  BY <1>1, <1>5, <1>7, <1>8, <1>9 DEF Baking
<1> HIDE DEF b
<1>11. KeysUpTo(b, b.next - 1) = KeysUpTo(baking, ChunkEnd)
  <2>1. b.next - 1 = ChunkEnd
    BY <1>2, <1>10 DEF next
  <2> QED
    BY <1>10, <2>1 DEF KeysUpTo
<1>12. Accounts(b)
  BY <1>3, <1>5, <1>7, <1>8, <1>9, <1>10, <1>11 DEF BakeInv, Accounts, s
<1> QED
  BY <1>4, <1>12 DEF BakeInv

LEMMA ChunkFailsKeeps == BakeInv /\ ChunkFails => BakeInv'
<1> SUFFICES ASSUME BakeInv, ChunkFails PROVE BakeInv'
  OBVIOUS
<1> DEFINE none == {}
<1>1. Chunk \ none = Chunk /\ Cardinality(none) = 0 /\ {KeyAt(p) : p \in none} = {} /\ none \in SUBSET Chunk
  BY FS_EmptySet
<1>2. baking.pc = "calling"
        /\ Advanced(Cardinality(none), Cardinality(Chunk \ none), {KeyAt(p) : p \in none})
  BY <1>1 DEF ChunkFails
<1> HIDE DEF none
<1> QED
  BY <1>1, <1>2, AdvancedKeeps

LEMMA ChunkAnsweredKeeps ==
  ASSUME BakeInv, baking.pc = "calling", NEW kept \in SUBSET Chunk, ChunkAnswered(kept)
  PROVE  BakeInv'
BY AdvancedKeeps DEF ChunkAnswered

LEMMA ChunkAnsweredFills ==
  ASSUME DiskInv, BakeInv, baking.pc = "calling", NEW kept \in SUBSET Chunk, ChunkAnswered(kept)
  PROVE  Filled
<1> DEFINE keys == {KeyAt(p) : p \in kept}
           last(k) == CHOOSE p \in kept : KeyAt(p) = k /\ \A q \in kept : KeyAt(q) = k => q <= p
           rank(p) == Cardinality({q \in kept : q <= p})
           entry(k) == [version |-> version + rank(last(k)), narrowed |-> baking.plan.scoped,
                        scoped |-> IF baking.plan.scoped THEN TRUE ELSE Absent]
<1>1. /\ version' = version + Cardinality(kept)
      /\ SetAll([k \in keys |-> entry(k)])
      /\ UNCHANGED <<unsafe, queue, writing, disk, torn, flushes, faults, durable, gaveUp>>
  BY DEF ChunkAnswered
<1>2. version \in Nat /\ timer \in BOOLEAN /\ memory \in [Keys -> FixtureEntry \cup {Absent}]
  BY DEF DiskInv, DiskTypeOK, Contents
<1>3. IsFiniteSet(kept) /\ Cardinality(kept) \in Nat
  BY ChunkSpans
<1>4. \A p : rank(p) \in Nat /\ rank(p) <= Cardinality(kept)
  BY <1>3, FS_Subset, FS_CardinalityType
<1>5. baking.plan.scoped \in BOOLEAN
  BY PlansAssumption DEF BakeInv, Accounts
<1> HIDE DEF rank, last
<1>6. \A k : /\ entry(k) \in FixtureEntry /\ Marked(entry(k))
             /\ version <= entry(k).version /\ entry(k).version <= version + Cardinality(kept)
  BY <1>2, <1>3, <1>4, <1>5 DEF FixtureEntry, Marked
<1> HIDE DEF entry
<1>7. memory' = [k \in Keys |-> IF k \in keys THEN entry(k) ELSE memory[k]]
  BY <1>1 DEF SetAll
<1>8. timer' = (timer \/ keys # {})
  BY <1>1 DEF SetAll
<1> HIDE DEF keys
<1>9. \A k \in Keys : memory'[k] = memory[k] \/ NewerValue(k)
  BY <1>1, <1>6, <1>7, <1>8 DEF NewerValue
<1> QED
  BY <1>1, <1>2, <1>3, <1>7, <1>8, <1>9 DEF Filled
=============================================================================
