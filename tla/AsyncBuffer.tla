----------------------------- MODULE AsyncBuffer -----------------------------
(***************************************************************************)
(* The read-ahead protocol "async:" of ijkasync.c.  A background thread    *)
(* copies the inner resource into a ring buffer ahead of the reader; the   *)
(* reader takes bytes from the ring, goes back into what it has already    *)
(* read while that is still in the ring, skips forward by reading, and     *)
(* asks the background thread to seek when none of this will do.           *)
(*                                                                         *)
(* A byte is its position in the resource.  A section under c->mutex is    *)
(* one step; the background thread copies from the inner resource without  *)
(* the mutex, and what it copied shows in the ring before it takes the     *)
(* mutex again.                                                            *)
(***************************************************************************)
EXTENDS Integers, Sequences

CONSTANTS Size,             \* bytes of the inner resource
          SizeKnown,        \* logical_size > 0
          Forwards,         \* forwards_capacity
          Backwards,        \* backwards_capacity
          Chunk,            \* most bytes of one copy: 4096
          ShortSeek,        \* SHORT_SEEK_THRESHOLD
          InnerMayFail,     \* reads and seeks of the inner resource may fail
          MaxAsyncCalls     \* bound: calls of the reader

ASSUME AsyncAssumption ==
    /\ Size \in Nat \ {0} /\ SizeKnown \in BOOLEAN
    /\ Forwards \in Nat \ {0} /\ Backwards \in Nat
    /\ Chunk \in Nat \ {0} /\ ShortSeek \in Nat
    /\ InnerMayFail \in BOOLEAN /\ MaxAsyncCalls \in Nat

Capacity == Forwards + Backwards    \* bytes of the fifo

VARIABLES
    ring,           \* the fifo, the oldest byte first
    readPos,        \* ring->read_pos: bytes of it that were read already
    inner,          \* where the inner resource is read next
    innerError,     \* inner_io_error
    logicalPos,     \* logical_pos
    eofReached,     \* io_eof_reached
    ioError,        \* io_error
    seeking,        \* seek_request, seek_pos, seek_completed and seek_ret
    abort,          \* abort_request
    interrupted,    \* what the player's interrupt callback answers
    back,           \* the background thread: where it is and what it copied
    call,           \* the call the reader is in
    asleep,         \* which of "reader" and "back" waits for its condition
    result,         \* what the last call returned
    asyncCalls

fifo   == <<ring, readPos>>
source == <<inner, innerError>>
end    == <<eofReached, ioError>>
stop   == <<abort, interrupted>>
stream == <<fifo, source, logicalPos, end, seeking>>
reader == <<call, result, asyncCalls>>
asyncVars == <<stream, stop, back, reader, asleep>>

Idle      == [op |-> "none", left |-> 0, got |-> 0, whole |-> FALSE]
Failed    == -1     \* a negative result of ffurl_seek
NotSeeking == [request |-> FALSE, pos |-> 0, completed |-> FALSE, ret |-> 0]

\* async_open
AsyncInit ==
    /\ ring = << >> /\ readPos = 0
    /\ inner = 0 /\ innerError = "none"
    /\ logicalPos = 0
    /\ eofReached = FALSE /\ ioError = "none"
    /\ seeking = NotSeeking
    /\ abort = FALSE /\ interrupted = FALSE
    /\ back = [pc |-> "top", want |-> 0, copied |-> << >>]
    /\ call = Idle /\ asleep = {} /\ result = "none"
    /\ asyncCalls = 0

Readable == Len(ring) - readPos                 \* ring_size
Space    == Capacity - Len(ring)                \* ring_space
Smaller(a, b) == IF a < b THEN a ELSE b

Signal(who)   == asleep' = asleep \ {who}
SignalAndWait(who, me) == asleep' = (asleep \ {who}) \cup {me}

\* async_check_interrupt: once it said yes it says yes for ever.
MustAbort == abort \/ interrupted
CheckInterrupt == abort' = MustAbort

(***************************************************************************)
(* ring_generic_read: takes n bytes, and keeps no more than Backwards of   *)
(* the bytes that were read.                                               *)
(***************************************************************************)
TakeFromRing(n) ==
    LET read    == readPos + n
        drained == IF read > Backwards THEN read - Backwards ELSE 0
    IN  /\ ring' = SubSeq(ring, drained + 1, Len(ring))
        /\ readPos' = read - drained

(***************************************************************************)
(* async_buffer_task: one pass of its loop is one of BackExits, BackSeeks, *)
(* BackSleeps, or BackCopies and the steps that follow it.                 *)
(***************************************************************************)
BackReady == back.pc = "top" /\ "back" \notin asleep

BackExits ==
    /\ BackReady
    /\ MustAbort /\ CheckInterrupt
    /\ eofReached' = TRUE /\ ioError' = "exit"
    /\ back' = [back EXCEPT !.pc = "gone"]
    /\ Signal("reader")
    /\ UNCHANGED <<fifo, source, logicalPos, seeking, interrupted, reader>>

RingReset == ring' = << >> /\ readPos' = 0

\* A failed seek leaves the inner resource anywhere.
BackSeeks ==
    /\ BackReady /\ ~MustAbort
    /\ seeking.request
    /\ \E ret \in {seeking.pos} \cup (IF InnerMayFail THEN {Failed} ELSE {}) :
          /\ IF ret = Failed THEN inner' \in 0 .. Size ELSE inner' = ret
          /\ eofReached' = (ret = Failed)
          /\ ioError' = IF ret = Failed THEN "io" ELSE "none"
          /\ seeking' = [seeking EXCEPT !.request = FALSE, !.completed = TRUE, !.ret = ret]
    /\ RingReset
    /\ Signal("reader")
    /\ UNCHANGED <<innerError, logicalPos, stop, back, reader>>

BackSleeps ==
    /\ BackReady /\ ~MustAbort /\ ~seeking.request
    /\ eofReached \/ Space <= 0
    /\ SignalAndWait("reader", "back")
    /\ UNCHANGED <<stream, stop, back, reader>>

BackCopies ==
    /\ BackReady /\ ~MustAbort /\ ~seeking.request
    /\ ~eofReached /\ Space > 0
    /\ back' = [pc |-> "copy", want |-> Smaller(Chunk, Space), copied |-> << >>]
    /\ UNCHANGED <<stream, stop, reader, asleep>>

\* wrapped_url_read got some of the bytes asked for; the fifo asks for the rest.
InnerRead ==
    /\ back.pc = "copy" /\ Len(back.copied) < back.want
    /\ \E n \in 1 .. back.want - Len(back.copied) :
          /\ inner + n <= Size
          /\ back' = [back EXCEPT !.copied = @ \o [i \in 1 .. n |-> inner + i - 1]]
          /\ inner' = inner + n
    /\ innerError' = "none"
    /\ UNCHANGED <<fifo, logicalPos, end, seeking, stop, reader, asleep>>

\* It got none: the end, an error, or the interrupt callback it is called with.
InnerStops ==
    /\ back.pc = "copy" /\ Len(back.copied) < back.want
    /\ \/ inner = Size /\ innerError' \in {"none", "eof"} /\ UNCHANGED abort
       \/ InnerMayFail /\ innerError' = "io" /\ UNCHANGED abort
       \/ MustAbort /\ CheckInterrupt /\ innerError' = "exit"
    /\ back' = [back EXCEPT !.want = Len(back.copied)]
    /\ UNCHANGED <<fifo, inner, logicalPos, end, seeking, interrupted, reader,
                   asleep>>

\* The end of av_fifo_generic_write: the bytes show in the ring.
BackWrites ==
    /\ back.pc = "copy" /\ Len(back.copied) = back.want
    /\ ring' = ring \o back.copied
    /\ back' = [pc |-> "tell", want |-> Len(back.copied), copied |-> << >>]
    /\ UNCHANGED <<readPos, source, logicalPos, end, seeking, stop, reader,
                   asleep>>

BackTells ==
    /\ back.pc = "tell"
    /\ eofReached' = (eofReached \/ back.want = 0)
    /\ ioError' = IF back.want = 0 /\ innerError # "none" THEN innerError ELSE ioError
    /\ back' = [back EXCEPT !.pc = "top"]
    /\ Signal("reader")
    /\ UNCHANGED <<fifo, source, logicalPos, seeking, stop, reader>>

Back == \/ BackExits \/ BackSeeks \/ BackSleeps \/ BackCopies
        \/ InnerRead \/ InnerStops \/ BackWrites \/ BackTells

(***************************************************************************)
(* async_read_internal.  call.left is to_read, call.got is ret; call.whole *)
(* says read_complete, which only a seek forwards asks for.                *)
(***************************************************************************)
Returns(r) == call' = Idle /\ result' = r

ReaderReady(op) == call.op = op /\ "reader" \notin asleep

StartCall(new) ==
    /\ call.op = "none" /\ asyncCalls < MaxAsyncCalls
    /\ asyncCalls' = asyncCalls + 1
    /\ call' = new

Read(n) ==
    /\ result # "closed"
    /\ StartCall([op |-> "read", left |-> n, got |-> 0, whole |-> FALSE])
    /\ result' = "none"
    /\ UNCHANGED <<stream, stop, back, asleep>>

ReadIsInterrupted ==
    /\ ReaderReady("read")
    /\ MustAbort /\ CheckInterrupt
    /\ Returns("exit")
    /\ Signal("back")
    /\ UNCHANGED <<stream, interrupted, back, asyncCalls>>

\* Some bytes are there: a plain read is content with them.
ReadTakes ==
    /\ ReaderReady("read") /\ ~MustAbort
    /\ Readable > 0
    /\ LET n == Smaller(call.left, Readable)
       IN  /\ TakeFromRing(n)
           /\ logicalPos' = logicalPos + n
           /\ IF n = call.left \/ ~call.whole
              THEN Returns("ok") /\ Signal("back")
              ELSE /\ call' = [call EXCEPT !.left = @ - n, !.got = @ + n]
                   /\ SignalAndWait("back", "reader")
                   /\ UNCHANGED result
    /\ UNCHANGED <<source, end, seeking, stop, back, asyncCalls>>

\* A seek forwards returns where it got to, whatever stopped it.
ReadEnds ==
    /\ ReaderReady("read") /\ ~MustAbort
    /\ Readable = 0 /\ eofReached
    /\ Returns(IF call.got > 0 \/ call.whole THEN "ok"
               ELSE IF ioError # "none" THEN ioError ELSE "eof")
    /\ Signal("back")
    /\ UNCHANGED <<stream, stop, back, asyncCalls>>

ReadWaits ==
    /\ ReaderReady("read") /\ ~MustAbort
    /\ Readable = 0 /\ ~eofReached
    /\ SignalAndWait("back", "reader")
    /\ UNCHANGED <<stream, stop, back, reader>>

(***************************************************************************)
(* async_seek, SEEK_SET and SEEK_CUR.  The first decision is taken without *)
(* the mutex.                                                              *)
(***************************************************************************)
InWindow(pos) == /\ pos >= logicalPos - readPos
                 /\ pos < logicalPos + Readable + ShortSeek

SeekStays(pos) ==
    /\ result # "closed"
    /\ pos = logicalPos
    /\ StartCall(Idle) /\ result' = "ok"
    /\ UNCHANGED <<stream, stop, back, asleep>>

SeekForwards(pos) ==
    /\ result # "closed"
    /\ pos > logicalPos /\ InWindow(pos)
    /\ StartCall([op |-> "read", left |-> pos - logicalPos, got |-> 0, whole |-> TRUE])
    /\ result' = "none"
    /\ UNCHANGED <<stream, stop, back, asleep>>

\* Mutant of SeekBackwards: the position moves, the ring does not.
SeekBackwardsKeepsRing(pos) ==
    /\ result # "closed"
    /\ pos < logicalPos /\ InWindow(pos)
    /\ StartCall(Idle) /\ result' = "ok"
    /\ logicalPos' = pos
    /\ UNCHANGED <<fifo, source, end, seeking, stop, back, asleep>>

SeekBackwards(pos) ==
    /\ result # "closed"
    /\ pos < logicalPos /\ InWindow(pos)
    /\ StartCall(Idle) /\ result' = "ok"
    /\ readPos' = readPos + (pos - logicalPos)
    /\ logicalPos' = pos
    /\ UNCHANGED <<ring, source, end, seeking, stop, back, asleep>>

SeekRefused(pos) ==
    /\ result # "closed"
    /\ pos # logicalPos /\ ~InWindow(pos)
    /\ ~SizeKnown \/ pos > Size
    /\ StartCall(Idle) /\ result' = "invalid"
    /\ UNCHANGED <<stream, stop, back, asleep>>

SeekAsks(pos) ==
    /\ result # "closed"
    /\ pos # logicalPos /\ ~InWindow(pos)
    /\ SizeKnown /\ pos <= Size
    /\ StartCall([Idle EXCEPT !.op = "seek"])
    /\ seeking' = [request |-> TRUE, pos |-> pos, completed |-> FALSE, ret |-> 0]
    /\ result' = "none"
    /\ UNCHANGED <<fifo, source, logicalPos, end, stop, back, asleep>>

SeekIsInterrupted ==
    /\ ReaderReady("seek")
    /\ MustAbort /\ CheckInterrupt
    /\ Returns("exit")
    /\ UNCHANGED <<stream, interrupted, back, asleep, asyncCalls>>

SeekEnds ==
    /\ ReaderReady("seek") /\ ~MustAbort
    /\ seeking.completed
    /\ logicalPos' = IF seeking.ret # Failed THEN seeking.ret ELSE logicalPos
    /\ Returns(IF seeking.ret # Failed THEN "ok" ELSE "io")
    /\ UNCHANGED <<fifo, source, end, seeking, stop, back, asleep, asyncCalls>>

SeekWaits ==
    /\ ReaderReady("seek") /\ ~MustAbort
    /\ ~seeking.completed
    /\ SignalAndWait("back", "reader")
    /\ UNCHANGED <<stream, stop, back, reader>>

(***************************************************************************)
(* async_close: joins the background thread.                               *)
(***************************************************************************)
\* Mutant of Close: a background thread that sleeps is left asleep.
CloseSilently ==
    /\ call.op = "none" /\ result # "closed"
    /\ abort' = TRUE
    /\ call' = [Idle EXCEPT !.op = "close"]
    /\ UNCHANGED <<stream, interrupted, back, asleep, result, asyncCalls>>

Close ==
    /\ call.op = "none" /\ result # "closed"
    /\ abort' = TRUE
    /\ Signal("back")
    /\ call' = [Idle EXCEPT !.op = "close"]
    /\ UNCHANGED <<stream, interrupted, back, result, asyncCalls>>

CloseEnds ==
    /\ call.op = "close" /\ back.pc = "gone"
    /\ Returns("closed")
    /\ UNCHANGED <<stream, stop, back, asleep, asyncCalls>>

\* The player is asked to stop: its interrupt callback says so from now on.
Interrupt ==
    /\ ~interrupted
    /\ interrupted' = TRUE
    /\ UNCHANGED <<stream, abort, back, reader, asleep>>

Reader == \/ ReadIsInterrupted \/ ReadTakes \/ ReadEnds \/ ReadWaits
          \/ SeekIsInterrupted \/ SeekEnds \/ SeekWaits \/ CloseEnds

AsyncNext ==
    \/ Back \/ Reader
    \/ \E n \in 1 .. Size : Read(n)
    \/ \E pos \in 0 .. Size + 1 :
          \/ SeekStays(pos) \/ SeekForwards(pos) \/ SeekBackwards(pos)
          \/ SeekRefused(pos) \/ SeekAsks(pos)
    \/ Close \/ Interrupt

AsyncSpec == AsyncInit /\ [][AsyncNext]_asyncVars

(***************************************************************************)
(* Both threads go on while they can, and the inner resource answers.      *)
(***************************************************************************)
AsyncFairness == WF_asyncVars(Back) /\ WF_asyncVars(Reader)

-----------------------------------------------------------------------------
\* Where the next readable byte of the ring comes from: while the reader has
\* not yet seen that its seek is done, the ring is ahead of logicalPos.
Base == IF call.op = "seek" /\ seeking.completed /\ seeking.ret # Failed
        THEN seeking.ret ELSE logicalPos

\* The types, and that nothing is written over bytes that can still be read,
\* forwards or back: what is copied and what is kept fit into the fifo.
AsyncTypeOK ==
    /\ ring \in Seq(Nat) /\ readPos \in 0 .. Len(ring) /\ readPos <= Backwards
    /\ back.copied \in Seq(Nat) /\ back.want \in Nat
    /\ back.pc \in {"top", "copy", "tell", "gone"}
    /\ Len(ring) + (IF back.pc = "copy" THEN back.want ELSE 0) <= Capacity
    /\ inner \in 0 .. Size /\ logicalPos \in Nat
    /\ innerError \in {"none", "eof", "io", "exit"}
    /\ ioError \in {"none", "eof", "io", "exit"}
    /\ eofReached \in BOOLEAN /\ abort \in BOOLEAN /\ interrupted \in BOOLEAN
    /\ seeking \in [request : BOOLEAN, pos : Nat, completed : BOOLEAN, ret : Nat \cup {Failed}]
    /\ call \in [op : {"none", "read", "seek", "close"}, left : Nat, got : Nat, whole : BOOLEAN]
    /\ asleep \subseteq {"reader", "back"}
    /\ result \in {"none", "ok", "eof", "io", "exit", "invalid", "closed"}
    /\ asyncCalls \in Nat

\* Until the stream is aborted the ring is a window on the resource around the
\* logical position: the byte a read takes, after any seeks forwards, back and
\* through the background thread, and after reads and seeks that failed, is the
\* byte at the position the reader believes to be at (ijkasync.c:123-156, 445).
RingIsWindow ==
    MustAbort \/ \A i \in 1 .. Len(ring) : ring[i] = Base - readPos + i - 1

\* A read that reports the end of the stream is at the end (ijkasync.c:416-421):
\* an error, a seek back or a slow background thread is never taken for it.
EofIsTrue == (result = "eof") => logicalPos >= Size

\* What the reader is told is true: bytes of its position, and an end that is one.
AsyncReadsTrue == RingIsWindow /\ EofIsTrue

\* Every call of the reader returns: the two threads never both wait for each
\* other, whatever fails and whenever the stream is closed (ijkasync.c:260-265,
\* 425-426, 509-522, 370-375).
AsyncCallsReturn == []<>(call.op = "none")
==============================================================================
