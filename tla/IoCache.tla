------------------------------- MODULE IoCache -------------------------------
(***************************************************************************)
(* The caching protocol "cache:" of ijkiocache.c under its manager         *)
(* (ijkiomanager.c): one connection to one resource, whose bytes are kept  *)
(* in a file.  A tree of entries says which bytes of the resource are      *)
(* where in the file.  With a forwards capacity a task of the thread pool  *)
(* fills the file ahead of the reader; without one the reader fills it as  *)
(* it reads.  The manager pauses and resumes the connection, closes and    *)
(* opens it, and saves and parses the tree when the player is destroyed    *)
(* and made anew.                                                          *)
(*                                                                         *)
(* A byte is its position in the resource.  A section under file_mutex is  *)
(* one step; what the task does without it is cut where the reader can see *)
(* the difference.                                                         *)
(***************************************************************************)
EXTENDS Integers, Sequences, FiniteSets, FiniteSetsExt

CONSTANTS ResourceSize,     \* logical_size
          CacheCapacity,    \* cache_max_capacity
          ForwardsOptions,  \* values of cache_file_forwards_capacity
          CacheChunk,       \* most bytes read from the resource at once: 4096
          FileRetries,      \* failures of the file before it is made anew: 3
          CacheSeeks,       \* positions the reader seeks to
          MaxSyncCalls,     \* bound: calls of the reader without a forwards capacity
          MaxCacheCalls,    \* bound: calls of the reader with one
          MaxIncidents      \* bound: failures, deaths, interrupts and sharings in one run

ASSUME CacheAssumption ==
    /\ ResourceSize \in Nat \ {0} /\ CacheCapacity \in Nat /\ ForwardsOptions \subseteq Nat
    /\ CacheChunk \in Nat \ {0}
    /\ \A forwards \in ForwardsOptions : CacheCapacity > forwards + CacheChunk
    /\ CacheSeeks \subseteq 0 .. ResourceSize
    /\ {FileRetries, MaxSyncCalls, MaxCacheCalls, MaxIncidents} \subseteq Nat

VARIABLES
    c,          \* IjkIOCacheContext
    app,        \* IjkIOApplicationContext: the tree, the end of the file, shared
    disk,       \* the cache file: its bytes and the offset of the descriptor
    saved,      \* the tree in cache_map_path; stale: the file was begun anew since
    origin,     \* where the inner protocol is read next
    task,       \* ijkio_cache_task: where it is and the bytes it holds
    io,         \* the call the reader is in; at: the position it reads at
    waits,     \* who waits: "main", "file_background" or "exit"
    urgent,     \* what the interrupt callback answers
    faithful,   \* history: every byte the reader got was the byte it asked for
    astray,     \* history: the ways this code can lose its place, once taken
    incidents   \* history: what went wrong so far

cacheVars == <<c, app, disk, saved, origin, task, io, waits, urgent, faithful, astray, incidents>>
theFile   == <<app, disk, saved>>
theReader == <<io, urgent, faithful>>

Fresh(forwards, last) ==
    [forwards |-> forwards, readPos |-> 0, readInner |-> 0, fileLogical |-> 0,
     fileInner |-> 0, fileEnd |-> 0, cachePhysical |-> last, closed |-> FALSE,
     eof |-> FALSE, retry |-> 0, abort |-> FALSE,
     running |-> forwards > 0, paused |-> FALSE,
     seekRequest |-> FALSE, seekPos |-> 0, seekDone |-> FALSE]

NoCall    == [op |-> "none", left |-> 0, got |-> 0, at |-> 0, calls |-> 0]
NoTask    == [pc |-> "gone", bytes |-> << >>]
StartTask(forwards) == IF forwards > 0 THEN [pc |-> "top", bytes |-> << >>] ELSE NoTask
EmptyFile == [bytes |-> [p \in 0 .. CacheCapacity - 1 |-> -1], at |-> 0]
NoTree    == [entries |-> {}, last |-> 0]

\* ijkio_manager_create, ijkio_manager_io_open, ijkio_cache_open.
CacheInit ==
    /\ \E forwards \in ForwardsOptions :
          c = Fresh(forwards, 0) /\ task = StartTask(forwards)
    /\ app = [entries |-> {}, last |-> 0, shared |-> FALSE]
    /\ disk = EmptyFile /\ saved = [tree |-> NoTree, stale |-> FALSE]
    /\ origin = 0
    /\ io = NoCall /\ waits = {} /\ urgent = FALSE
    /\ faithful = TRUE /\ astray = {} /\ incidents = 0

(***************************************************************************)
(* The tree: the entry a position falls into or follows (ijk_av_tree_find  *)
(* and its next[0]), and the first one after it (next[1]).                 *)
(***************************************************************************)
UpTo(pos)    == {e \in app.entries : e.logical <= pos}
Nearest(pos) == CHOOSE e \in UpTo(pos) : \A d \in UpTo(pos) : d.logical <= e.logical
Holds(pos)   == UpTo(pos) # {} /\ pos - Nearest(pos).logical < Nearest(pos).size
After(pos)   == {e.logical : e \in {d \in app.entries : d.logical > pos}}
Gap(from, pos) == IF After(from) = {} THEN CacheChunk
                  ELSE Min({Min(After(from)) - pos, CacheChunk})

\* n bytes were written at the end of the file for position pos: the entry that
\* ends there in both is made longer, or there is a new one.
Filed(pos, n) ==
    LET near == Nearest(pos)
    IN  IF /\ UpTo(pos) # {}
           /\ near.logical + near.size = pos /\ near.physical + near.size = app.last
        THEN (app.entries \ {near}) \cup {[near EXCEPT !.size = @ + n]}
        ELSE app.entries \cup {[logical |-> pos, physical |-> app.last, size |-> n]}

\* write: bytes at the offset at.
Written(at, bytes) ==
    [bytes |-> [p \in DOMAIN disk.bytes |->
                   IF p >= at /\ p < at + Len(bytes) THEN bytes[p - at + 1] ELSE disk.bytes[p]],
     at |-> at + Len(bytes)]

MustStop == c.abort \/ urgent      \* ijkio_cache_check_interrupt
Told(who)    == waits' = waits \ {who}

(***************************************************************************)
(* ijkio_cache_task                                                        *)
(***************************************************************************)
Incident   == incidents < MaxIncidents /\ incidents' = incidents + 1
TaskAt(pc) == task.pc = pc
Goto(pc)   == task' = [task EXCEPT !.pc = pc]

TaskBegins ==
    /\ TaskAt("top") /\ ~c.closed /\ ~MustStop
    /\ IF c.seekRequest
       THEN /\ c' = [c EXCEPT !.eof = FALSE, !.seekDone = TRUE, !.seekRequest = FALSE,
                              !.readPos = c.seekPos, !.fileLogical = c.seekPos]
            /\ Told("main")
       ELSE UNCHANGED <<c, waits>>
    /\ Goto("decide")
    /\ UNCHANGED <<theFile, theReader, origin, astray, incidents>>

TaskStops ==
    /\ TaskAt("top")
    /\ c.closed \/ MustStop
    /\ c' = IF c.closed THEN c ELSE [c EXCEPT !.abort = TRUE, !.eof = TRUE]
    /\ Goto("exit")
    /\ UNCHANGED <<theFile, theReader, origin, waits, astray, incidents>>

\* The test is made without the mutex, the wait that follows it under it.
TaskDecides ==
    /\ TaskAt("decide")
    /\ Goto(IF c.fileLogical - c.readPos > c.forwards \/ c.eof THEN "rest" ELSE "write")
    /\ UNCHANGED <<c, theFile, theReader, origin, waits, astray, incidents>>

\* It is not looked again whether the task must stop: one whose abort has already
\* been asked for waits like any other (it is told apart for CacheCallsReturn).
TaskRests ==
    /\ TaskAt("rest")
    /\ waits' = (waits \ {"main"}) \cup {"file_background"}
    /\ Goto(IF c.abort THEN "overslept" ELSE "woken")
    /\ UNCHANGED <<c, theFile, theReader, origin, astray, incidents>>

TaskWakes ==
    /\ task.pc \in {"woken", "overslept"} /\ "file_background" \notin waits
    /\ Goto("top")
    /\ UNCHANGED <<c, theFile, theReader, origin, waits, astray, incidents>>

(***************************************************************************)
(* ijkio_cache_write_file, up to the read of the inner protocol: past what *)
(* is already in the file, and no further than what is in it after that.   *)
(***************************************************************************)
FilePos == IF Holds(c.fileLogical)
           THEN Nearest(c.fileLogical).logical + Nearest(c.fileLogical).size
           ELSE c.fileLogical
AtEnd == \/ c.fileEnd > 0 /\ FilePos = c.fileEnd
         \/ FilePos >= ResourceSize

WriteNothing ==
    /\ TaskAt("write")
    /\ Gap(c.fileLogical, FilePos) = 0 \/ AtEnd
    /\ c' = [c EXCEPT !.fileLogical = FilePos,
                      !.eof = IF Gap(c.fileLogical, FilePos) = 0 THEN @ ELSE TRUE]
    /\ Goto("top")
    /\ UNCHANGED <<theFile, theReader, origin, waits, astray, incidents>>

\* Where the inner protocol stands once it has been sought, if it must be.
From == IF FilePos # c.fileInner THEN FilePos ELSE origin
Wanting == TaskAt("write") /\ Gap(c.fileLogical, FilePos) > 0 /\ ~AtEnd

\* The read of the inner protocol fails.  The code that says how (io_error) is
\* left out: an end and an error both end a read.
WriteFails ==
    /\ Wanting /\ Incident
    /\ c' = [c EXCEPT !.fileLogical = FilePos, !.fileInner = FilePos, !.eof = TRUE]
    /\ origin' = From
    /\ Goto("top")
    /\ UNCHANGED <<theFile, theReader, waits, astray>>

\* The seek of the inner protocol fails: no error is left behind.  Where the end
\* is not known, position 0 is taken for it.
WriteCannotSeek ==
    /\ Wanting /\ Incident /\ FilePos # c.fileInner
    /\ c' = [c EXCEPT !.fileLogical = FilePos, !.eof = TRUE,
                      !.fileInner = IF c.fileEnd = FilePos THEN c.fileEnd ELSE @]
    /\ astray' = astray \cup (IF c.fileEnd = FilePos THEN {"inner position"} ELSE {})
    /\ Goto("top")
    /\ UNCHANGED <<theFile, theReader, origin, waits>>

WriteReads ==
    /\ Wanting
    /\ \E n \in 1 .. Gap(c.fileLogical, FilePos) :
          /\ From + n <= ResourceSize
          /\ origin' = From + n
          /\ task' = [pc |-> "store", bytes |-> [i \in 1 .. n |-> From + i - 1]]
          /\ c' = [c EXCEPT !.fileLogical = FilePos, !.fileInner = FilePos + n]
    /\ UNCHANGED <<theFile, theReader, waits, astray, incidents>>

\* The inner protocol gives nothing: that is taken for the end of the resource.
WriteFindsEnd ==
    /\ Wanting
    /\ IF From < ResourceSize THEN Incident ELSE UNCHANGED incidents
    /\ c' = [c EXCEPT !.fileLogical = FilePos, !.fileInner = FilePos,
                      !.fileEnd = FilePos, !.eof = TRUE]
    /\ origin' = From
    /\ Goto("top")
    /\ UNCHANGED <<theFile, theReader, waits, astray>>

(***************************************************************************)
(* The file fails (ijkio_cache_file_error).  After FileRetries failures in *)
(* a row it is made anew and the tree forgotten, unless it is shared;      *)
(* fileInner says 0 then, wherever the inner protocol stands, and bytes    *)
(* the task holds will be filed where the reader is.                       *)
(***************************************************************************)
Forgotten ==
    /\ app' = [app EXCEPT !.entries = {}, !.last = 0]
    /\ saved' = [saved EXCEPT !.stale = saved.tree # NoTree]

MadeAnew ==
    /\ Forgotten
    /\ disk' = EmptyFile
    /\ \E gone \in BOOLEAN :      \* it cannot be made, or failed too often
          /\ c' = [c EXCEPT !.cachePhysical = 0, !.fileInner = 0, !.eof = FALSE,
                            !.fileLogical = c.readPos, !.retry = 0, !.closed = gone]
          /\ astray' = astray \cup (IF gone THEN {"closed"} ELSE {})
                              \cup (IF origin # 0 THEN {"inner position"} ELSE {})

FileFails ==
    /\ Incident
    /\ IF c.retry < FileRetries \/ app.shared
       THEN c' = [c EXCEPT !.retry = @ + 1] /\ UNCHANGED <<theFile, astray>>
       ELSE MadeAnew

(***************************************************************************)
(* add_entry, under file_mutex: the bytes go to the end of the file.  A    *)
(* file that would grow past its capacity is begun anew                    *)
(* (ijkio_cache_file_overrang) and the bytes dropped; while it is shared   *)
(* the cache is closed instead.                                            *)
(***************************************************************************)
Full == app.last + Len(task.bytes) >= CacheCapacity

StoreFails == TaskAt("store") /\ FileFails
              /\ task' = [pc |-> IF c'.closed THEN "exit" ELSE "top", bytes |-> << >>]
              /\ UNCHANGED <<theReader, origin, waits>>

StoreGivesUp ==
    /\ TaskAt("store") /\ Full /\ app.shared
    /\ c' = [c EXCEPT !.closed = TRUE]
    /\ astray' = astray \cup {"closed"}
    /\ task' = [pc |-> "exit", bytes |-> << >>]
    /\ UNCHANGED <<theFile, theReader, origin, waits, incidents>>

\* Mutant of StoreOverruns: the file is begun anew and the tree kept.
StoreOverrunsKeepingTree ==
    /\ TaskAt("store") /\ Full /\ ~app.shared
    /\ app' = [app EXCEPT !.last = 0]
    /\ disk' = [disk EXCEPT !.at = 0]
    /\ c' = [c EXCEPT !.cachePhysical = 0, !.eof = FALSE, !.fileLogical = c.readPos]
    /\ task' = [pc |-> "top", bytes |-> << >>]
    /\ UNCHANGED <<saved, theReader, origin, waits, astray, incidents>>

StoreOverruns ==
    /\ TaskAt("store") /\ Full /\ ~app.shared
    /\ Forgotten
    /\ disk' = [disk EXCEPT !.at = 0]
    /\ c' = [c EXCEPT !.cachePhysical = 0, !.eof = FALSE, !.fileLogical = c.readPos]
    /\ task' = [pc |-> "top", bytes |-> << >>]
    /\ UNCHANGED <<theReader, origin, waits, astray, incidents>>

\* The task drops the mutex before it takes it again to tell the reader.
Store ==
    /\ TaskAt("store") /\ ~Full
    /\ \E n \in 1 .. Len(task.bytes) :
          /\ disk' = Written(app.last, SubSeq(task.bytes, 1, n))
          /\ app' = [app EXCEPT !.last = @ + n, !.entries = Filed(c.fileLogical, n)]
          /\ c' = [c EXCEPT !.cachePhysical = app.last + n, !.retry = 0,
                            !.fileLogical = @ + n]
          /\ IF n < Len(task.bytes) THEN Incident ELSE UNCHANGED incidents    \* a short write
    /\ task' = [pc |-> "stored", bytes |-> << >>]
    /\ UNCHANGED <<saved, theReader, origin, waits, astray>>

TaskTells ==
    /\ TaskAt("stored")
    /\ Told("main") /\ Goto("top")
    /\ UNCHANGED <<c, theFile, theReader, origin, astray, incidents>>

TaskEnds ==
    /\ TaskAt("exit")
    /\ c' = [c EXCEPT !.running = FALSE]
    /\ waits' = waits \ {"main", "exit"}
    /\ task' = NoTask
    /\ UNCHANGED <<theFile, theReader, origin, astray, incidents>>

CacheTask ==
    \/ TaskBegins \/ TaskStops \/ TaskDecides \/ TaskRests \/ TaskWakes
    \/ WriteNothing \/ WriteFails \/ WriteCannotSeek \/ WriteFindsEnd
    \/ WriteReads \/ StoreFails \/ StoreGivesUp \/ StoreOverruns \/ Store
    \/ TaskTells \/ TaskEnds

(***************************************************************************)
(* The reader: ijkio_manager_io_read and _seek resume a connection that    *)
(* was paused before they pass the call on (ijkio_cache_resume).  The end  *)
(* and the error of before the pause are not withdrawn.                    *)
(***************************************************************************)
TreeAstray == astray \cap {"inner position", "map"} # {}
CacheIdle == /\ io.op = "none"
             /\ io.calls < IF c.forwards = 0 THEN MaxSyncCalls ELSE MaxCacheCalls
Awake == "main" \notin waits

Resumed ==
    IF ~c.paused THEN c
    ELSE LET on == ~c.closed /\ c.forwards > 0
         IN  [c EXCEPT !.paused = FALSE, !.abort = FALSE,
                       !.running = on, !.cachePhysical = IF on THEN app.last ELSE @]
Resume ==
    /\ disk' = IF c.paused /\ Resumed.running THEN [disk EXCEPT !.at = app.last] ELSE disk
    /\ task' = IF c.paused /\ Resumed.running THEN StartTask(c.forwards) ELSE task

Calls(op, n) == io' = [io EXCEPT !.op = op, !.left = n, !.got = 0, !.calls = @ + 1]

\* The bytes go to the application, and it expects those at its position.
Gets(bytes) ==
    /\ faithful' = (faithful /\ \A i \in DOMAIN bytes : bytes[i] = io.at + i - 1)
    /\ io' = [io EXCEPT !.left = @ - Len(bytes), !.got = @ + Len(bytes), !.at = @ + Len(bytes),
                        !.op = IF io.left = Len(bytes) THEN "none" ELSE @]
CacheReturns == io' = [io EXCEPT !.op = "none", !.left = 0]

CacheRead(n) ==
    /\ CacheIdle /\ Calls(IF Resumed.closed THEN "direct" ELSE "read", n)
    /\ c' = Resumed /\ Resume
    /\ UNCHANGED <<app, saved, origin, waits, urgent, faithful, astray, incidents>>

\* The inner protocol is read into the reader's buffer, at most n bytes of it.
InnerBytes(from, n) == {[i \in 1 .. m |-> from + i - 1] : m \in 0 .. Min({n, ResourceSize - from})}

\* Closed before the call: the inner protocol is read where it stands.
ReadDirectly ==
    /\ io.op = "direct"
    /\ \E bytes \in InnerBytes(origin, io.left) :
          /\ origin' = origin + Len(bytes)
          /\ faithful' = (faithful /\ \A i \in DOMAIN bytes : bytes[i] = io.at + i - 1)
          /\ io' = [io EXCEPT !.op = "none", !.left = 0, !.at = @ + Len(bytes)]
    /\ UNCHANGED <<c, theFile, task, waits, urgent, astray, incidents>>

Reading == io.op = "read" /\ c.forwards > 0 /\ Awake

CacheReadInterrupted ==
    /\ Reading /\ MustStop
    /\ c' = [c EXCEPT !.abort = TRUE]
    /\ CacheReturns /\ Told("file_background")
    /\ UNCHANGED <<theFile, origin, task, urgent, faithful, astray, incidents>>

\* Closed during the call: sought first.
ReadGoesOn ==
    /\ Reading /\ ~MustStop /\ c.closed
    /\ \E bytes \in InnerBytes(c.readPos, io.left) :
          /\ origin' = c.readPos + Len(bytes)
          /\ faithful' = (faithful /\ \A i \in DOMAIN bytes : bytes[i] = io.at + i - 1)
          /\ io' = [io EXCEPT !.op = "none", !.left = 0, !.at = @ + Len(bytes)]
    /\ UNCHANGED <<c, theFile, task, waits, urgent, astray, incidents>>

\* ijkio_file_read: where the offset is believed to be right it is not set.
Target == Nearest(c.readPos).physical + c.readPos - Nearest(c.readPos).logical
InFile(from) == LET near == Nearest(c.readPos)
                    n    == Min({io.left, near.size - (c.readPos - near.logical)})
                IN  [i \in 1 .. n |-> disk.bytes[from + i - 1]]

ReadFromFile ==
    /\ Reading /\ ~MustStop /\ ~c.closed /\ Holds(c.readPos)
    /\ LET from  == IF c.cachePhysical # Target THEN Target ELSE disk.at
           bytes == InFile(from)
           pos   == c.readPos + Len(bytes)
       IN  /\ Gets(bytes)
           /\ c' = [c EXCEPT !.readPos = pos]
           /\ disk' = [disk EXCEPT !.at = from + Len(bytes)]
           /\ waits' = IF Len(bytes) < io.left
                        THEN (waits \ {"file_background"}) \cup {"main"}
                        ELSE IF ~c.eof /\ c.fileLogical - pos <= c.forwards
                        THEN waits \ {"file_background"} ELSE waits
    /\ UNCHANGED <<app, saved, origin, task, urgent, astray, incidents>>

\* What follows a read of the file that fails, or of nothing.
ReadEndsOrWaits(ended) ==
    IF ended THEN CacheReturns /\ Told("file_background")
    ELSE /\ waits' = (waits \ {"file_background"}) \cup {"main"}
         /\ UNCHANGED io

ReadFileFails ==
    /\ Reading /\ ~MustStop /\ ~c.closed /\ Holds(c.readPos)
    /\ FileFails
    /\ ReadEndsOrWaits(c'.eof)
    /\ UNCHANGED <<origin, task, urgent, faithful>>

ReadFindsNothing ==
    /\ Reading /\ ~MustStop /\ ~c.closed /\ ~Holds(c.readPos)
    /\ ReadEndsOrWaits(c.eof)
    /\ UNCHANGED <<c, theFile, origin, task, urgent, faithful, astray, incidents>>

(***************************************************************************)
(* Without a forwards capacity (ijkio_cache_sync_read).                    *)
(***************************************************************************)
Alone == io.op = "read" /\ c.forwards = 0

SyncTakes ==
    /\ Alone /\ Holds(c.readPos)
    /\ LET from  == IF c.cachePhysical # Target THEN Target ELSE disk.at
           bytes == InFile(from)
       IN  /\ faithful' = (faithful /\ \A i \in DOMAIN bytes : bytes[i] = io.at + i - 1)
           /\ io' = [io EXCEPT !.op = "none", !.left = 0, !.at = @ + Len(bytes)]
           /\ c' = [c EXCEPT !.readPos = @ + Len(bytes),
                             !.cachePhysical = Target + Len(bytes)]
           /\ disk' = [disk EXCEPT !.at = from + Len(bytes)]
    /\ UNCHANGED <<app, saved, origin, task, waits, urgent, astray, incidents>>

\* The file is bad: it is made anew, and the read goes on without it.
SyncFileFails ==
    /\ Alone /\ Holds(c.readPos) /\ Incident
    /\ Forgotten /\ disk' = EmptyFile
    /\ c' = [c EXCEPT !.cachePhysical = 0, !.eof = FALSE]
    /\ UNCHANGED <<origin, task, io, waits, urgent, faithful, astray>>

\* sync_add_entry: what was read is put at the end of the file; a file that is
\* full is begun anew first, an error of the file costs only the entry.
SyncStores(bytes) ==
    LET full == app.last + Len(bytes) >= CacheCapacity
        at   == IF full THEN 0 ELSE app.last
        tree == IF full THEN {} ELSE app.entries
        near == Nearest(c.readPos)
        joins == tree # {} /\ UpTo(c.readPos) # {}
                 /\ near.logical + near.size = c.readPos /\ near.physical + near.size = at
    IN  /\ app' = [app EXCEPT !.last = at + Len(bytes),
                     !.entries = IF joins
                                 THEN (tree \ {near}) \cup {[near EXCEPT !.size = @ + Len(bytes)]}
                                 ELSE tree \cup {[logical |-> c.readPos, physical |-> at,
                                                  size |-> Len(bytes)]}]
        /\ saved' = [saved EXCEPT !.stale = @ \/ (full /\ saved.tree # NoTree)]
        /\ disk' = Written(IF ~full /\ c.cachePhysical = app.last THEN disk.at ELSE at, bytes)
        /\ c' = [c EXCEPT !.readPos = @ + Len(bytes), !.readInner = c.readPos + Len(bytes),
                          !.cachePhysical = at + Len(bytes)]

\* Mutant of SyncReads: the inner protocol is read where it stands.
SyncReadsOn ==
    /\ Alone /\ ~Holds(c.readPos)
    /\ LET n == IF After(c.readPos) = {} THEN io.left
                ELSE Min({io.left, Min(After(c.readPos)) - c.readPos})
       IN  \E bytes \in InnerBytes(origin, n) :
              /\ origin' = origin + Len(bytes)
              /\ bytes # << >> /\ SyncStores(bytes)
              /\ faithful' = (faithful /\ \A i \in DOMAIN bytes : bytes[i] = io.at + i - 1)
              /\ io' = [io EXCEPT !.op = "none", !.left = 0, !.at = @ + Len(bytes)]
    /\ UNCHANGED <<task, waits, urgent, astray, incidents>>

SyncReads ==
    /\ Alone /\ ~Holds(c.readPos) /\ c.readPos < ResourceSize
    /\ LET from == IF c.readInner # c.readPos THEN c.readPos ELSE origin
           n    == IF After(c.readPos) = {} THEN io.left
                   ELSE Min({io.left, Min(After(c.readPos)) - c.readPos})
       IN  \E bytes \in InnerBytes(from, n) :
              /\ origin' = from + Len(bytes)
              /\ IF bytes = << >>
                 THEN c' = [c EXCEPT !.readInner = c.readPos] /\ UNCHANGED theFile
                 ELSE \/ /\ app.last + Len(bytes) < CacheCapacity \/ ~app.shared
                         /\ SyncStores(bytes)
                      \/ /\ c' = [c EXCEPT !.readPos = @ + Len(bytes),
                                           !.readInner = c.readPos + Len(bytes)]
                         /\ UNCHANGED theFile
              /\ faithful' = (faithful /\ \A i \in DOMAIN bytes : bytes[i] = io.at + i - 1)
              /\ io' = [io EXCEPT !.op = "none", !.left = 0, !.at = @ + Len(bytes)]
    /\ UNCHANGED <<task, waits, urgent, astray, incidents>>

SyncEnds ==
    /\ Alone /\ ~Holds(c.readPos) /\ c.readPos >= ResourceSize
    /\ c' = [c EXCEPT !.eof = TRUE]
    /\ CacheReturns
    /\ UNCHANGED <<theFile, origin, task, waits, urgent, faithful, astray, incidents>>

(***************************************************************************)
(* ijkio_cache_seek: the task does it, and the reader waits until it has.  *)
(***************************************************************************)
CacheSeek(pos) ==
    /\ CacheIdle
    /\ Resume
    /\ IF c.closed
       THEN /\ origin' = pos /\ io' = [io EXCEPT !.at = pos, !.calls = @ + 1]
            /\ c' = Resumed
       ELSE IF c.forwards = 0
       THEN /\ c' = [Resumed EXCEPT !.readPos = pos]
            /\ io' = [io EXCEPT !.at = pos, !.calls = @ + 1] /\ UNCHANGED origin
       ELSE /\ c' = [Resumed EXCEPT !.seekRequest = TRUE, !.seekPos = pos, !.seekDone = FALSE]
            /\ Calls("seek", 0) /\ UNCHANGED origin
    /\ UNCHANGED <<app, saved, waits, urgent, faithful, astray, incidents>>

Seeking == io.op = "seek" /\ Awake

CacheSeekInterrupted ==
    /\ Seeking /\ MustStop
    /\ c' = [c EXCEPT !.abort = TRUE]
    /\ CacheReturns
    /\ UNCHANGED <<theFile, origin, task, waits, urgent, faithful, astray, incidents>>

CacheSeekEnds ==
    /\ Seeking /\ ~MustStop /\ c.seekDone
    /\ io' = [io EXCEPT !.op = "none", !.at = c.seekPos]
    /\ UNCHANGED <<c, theFile, origin, task, waits, urgent, faithful, astray, incidents>>

CacheSeekWaits ==
    /\ Seeking /\ ~MustStop /\ ~c.seekDone
    /\ waits' = (waits \ {"file_background"}) \cup {"main"}
    /\ UNCHANGED <<c, theFile, theReader, origin, task, astray, incidents>>

(***************************************************************************)
(* ijkio_cache_pause, which the manager calls when another resource is     *)
(* opened, and ijkio_cache_close: both end the task and wait for its end.  *)
(***************************************************************************)
\* Mutant of Ends: the task that sleeps is not told.
EndsSilently(op) ==
    /\ CacheIdle /\ ~c.paused /\ Calls(op, 0)
    /\ c' = [c EXCEPT !.abort = TRUE]
    /\ waits' = IF c.running THEN waits \cup {"exit"} ELSE waits
    /\ UNCHANGED <<theFile, origin, task, urgent, faithful, astray, incidents>>

Ends(op) ==
    /\ CacheIdle /\ ~c.paused /\ Calls(op, 0)
    /\ c' = [c EXCEPT !.abort = TRUE]
    /\ waits' = IF c.running THEN (waits \ {"file_background"}) \cup {"exit"} ELSE waits
    /\ UNCHANGED <<theFile, origin, task, urgent, faithful, astray, incidents>>

Pause == Ends("pause")
CacheClose == Ends("close")

PauseEnds ==
    /\ io.op = "pause" /\ "exit" \notin waits /\ ~c.running
    /\ c' = [c EXCEPT !.paused = TRUE]
    /\ CacheReturns
    /\ UNCHANGED <<theFile, origin, task, waits, urgent, faithful, astray, incidents>>

\* The player ends, and the manager saves the tree before it goes
\* (ijkio_manager_destroy).  Another may come.
CacheCloseEnds ==
    /\ io.op = "close" /\ "exit" \notin waits /\ ~c.running
    /\ saved' = [tree |-> [entries |-> app.entries, last |-> app.last], stale |-> TreeAstray]
    /\ io' = [io EXCEPT !.op = "gone"]
    /\ UNCHANGED <<c, app, disk, origin, task, waits, urgent, faithful, astray, incidents>>

CacheInterrupt ==
    /\ ~urgent /\ urgent' = TRUE /\ Incident
    /\ UNCHANGED <<c, theFile, io, origin, task, waits, faithful, astray>>

\* ijkio_manager_will_share_cache_map and _did_share_cache_map, called by the
\* application: while it is shared nothing may be taken out of the file.
Share ==
    /\ ~app.shared /\ io.op # "gone" /\ Incident
    /\ app' = [app EXCEPT !.shared = TRUE]
    /\ saved' = [tree |-> [entries |-> app.entries, last |-> app.last], stale |-> TreeAstray]
    /\ UNCHANGED <<c, disk, theReader, origin, task, waits, astray>>

Unshare ==
    /\ app.shared
    /\ app' = [app EXCEPT !.shared = FALSE]
    /\ UNCHANGED <<c, disk, saved, theReader, origin, task, waits, astray, incidents>>

\* The process dies; what was written to the file and to the map is kept.
Die ==
    /\ io.op # "gone" /\ Incident
    /\ io' = [io EXCEPT !.op = "gone"]
    /\ task' = NoTask /\ waits' = {}
    /\ UNCHANGED <<c, theFile, origin, urgent, faithful, astray>>

\* A new player parses the map (ijkio_manager_parse_cache_info) and opens the
\* file again.  One that is shorter than the map says is not used.
Restart ==
    /\ io.op = "gone"
    /\ app' = [entries |-> saved.tree.entries, last |-> saved.tree.last, shared |-> FALSE]
    /\ disk' = IF saved.tree.entries = {} THEN EmptyFile ELSE [disk EXCEPT !.at = saved.tree.last]
    /\ astray' = IF saved.stale THEN {"map"} ELSE {}
    /\ \E forwards \in ForwardsOptions :
          c' = Fresh(forwards, saved.tree.last) /\ task' = StartTask(forwards)
    /\ origin' = 0
    /\ io' = [NoCall EXCEPT !.calls = io.calls]
    /\ urgent' = FALSE /\ faithful' = TRUE
    /\ UNCHANGED <<saved, waits, incidents>>

CacheCall ==
    \/ \E n \in 1 .. CacheChunk : CacheRead(n)
    \/ \E pos \in CacheSeeks : CacheSeek(pos)
    \/ Pause \/ CacheClose \/ CacheInterrupt \/ Share \/ Unshare \/ Die \/ Restart

CacheReader ==
    \/ ReadDirectly \/ CacheReadInterrupted \/ ReadGoesOn \/ ReadFromFile \/ ReadFileFails
    \/ ReadFindsNothing \/ SyncTakes \/ SyncFileFails \/ SyncReads \/ SyncEnds
    \/ CacheSeekInterrupted \/ CacheSeekEnds \/ CacheSeekWaits \/ PauseEnds \/ CacheCloseEnds

CacheNext == CacheCall \/ CacheReader \/ CacheTask

CacheSpec == CacheInit /\ [][CacheNext]_cacheVars

\* The task's thread and the reader's run on; nothing makes the file fail.
CacheFairness == WF_cacheVars(CacheTask) /\ WF_cacheVars(CacheReader)

----------------------------------------------------------------------------

\* What the tree says is in the file is there, whatever was read, written, begun
\* anew, saved and parsed in between: no entry of the tree names bytes of another
\* place of the resource.  The two ways the code does lose its place are excluded:
\* a file made anew while the inner protocol stands elsewhere, and a map saved
\* before the file was begun anew.
TreeIsTrue ==
    ~TreeAstray =>
        \A e \in app.entries : \A i \in 0 .. e.size - 1 :
            disk.bytes[e.physical + i] = e.logical + i

\* Every byte a reader was ever given is the byte of the resource at its position,
\* over reads, seeks, pauses, full and failing files, and restarts; besides the
\* two ways above, only after the task closed the cache behind the reader's back
\* may it be another, because the inner protocol is then read where it stands.
ReadsAreTrue == faithful \/ astray # {}

\* The task went to wait after a pause or a close had asked it to stop and told
\* whoever waited: between the task's test and its wait (ijkiocache.c:510, :514).
\* Nobody tells it again, and the pause or the close waits for its end for ever.
Overslept == /\ io.op \in {"pause", "close"}
             /\ task.pc = "overslept" /\ "file_background" \in waits

\* A read returns, a seek does unless the cache was closed under it, and a pause
\* and a close do but for the one wake-up this code loses (Overslept): each thread
\* wakes the other before it waits, and a task that ends wakes both.
CacheCallsReturn ==
    /\ []<>(io.op # "read")
    /\ []<>(io.op # "seek" \/ c.closed)
    /\ []<>(io.op \notin {"pause", "close"} \/ Overslept)

=============================================================================
