----------------------------- MODULE FrameQueue -----------------------------
(***************************************************************************)
(* The frame queue of ff_ffplay.c: a ring of MaxSize slots between one     *)
(* decoder thread (the writer) and the one thread that shows or plays its  *)
(* frames (the reader).  The indices and the slots are touched without a   *)
(* lock; only the count of slots in use, and the waiting on it, are under  *)
(* the queue's mutex.  A step below is one locked section, or one unlocked *)
(* access another thread can get in between of.                            *)
(*                                                                         *)
(* The player opens three of them: pictq (KeepLast, polled by the video    *)
(* refresh thread), sampq (KeepLast, the audio callback blocks on it) and  *)
(* subpq (not KeepLast, polled by the video refresh thread).  Frames are   *)
(* numbered in the order the decoder produces them.                        *)
(***************************************************************************)
EXTENDS Naturals

CONSTANTS MaxSize,    \* slots of the queue (max_size)
          KeepLast,   \* the frame taken last stays in its slot (keep_last)
          Reads,      \* how the reader gets at a frame: "poll", "block" or both
          MaxFrames   \* bound: frames the decoder produces

\* A queue that keeps the last frame needs a second slot for the next one:
\* the code's sizes are 3 to 16.
ASSUME QueueAssumption ==
    /\ MaxSize \in Nat \ {0}
    /\ KeepLast \in BOOLEAN /\ Reads \subseteq {"poll", "block"}
    /\ KeepLast => MaxSize > 1
    /\ MaxFrames \in Nat

VARIABLES queue,          \* what each slot refers to: a frame, or None
          rindex, windex, size, rindex_shown,
          abort_request,  \* of the packet queue the decoder reads (pktq)
          writer, reader, \* what the two threads do
          closer,         \* the thread that closes the stream component
          pushed, taken   \* frames put in and taken out so far

ring == <<queue, rindex, windex, size, rindex_shown>>
vars == <<ring, abort_request, writer, reader, closer, pushed, taken>>

None  == 0
Slots == 0 .. MaxSize - 1

\* Mutant of Remaining: the newest frame stays behind.
RemainingShort == size - rindex_shown - 1

Slot(i)   == (rindex + i) % MaxSize
After(x)  == IF x + 1 = MaxSize THEN 0 ELSE x + 1
Remaining == size - rindex_shown

TypeOK ==
    /\ queue \in [Slots -> Nat]
    /\ rindex \in Slots /\ windex \in Slots
    /\ size \in 0 .. MaxSize
    /\ rindex_shown \in 0 .. (IF KeepLast THEN 1 ELSE 0)
    /\ abort_request \in BOOLEAN
    /\ writer \in {"decode", "peek", "waiting", "peeked", "fill", "push", "grow", "done"}
    /\ reader \in {"idle", "peek", "waiting", "peeked", "look", "advance", "shrink"}
    /\ closer \in {"open", "signal", "join", "closed"}
    /\ pushed \in Nat /\ taken \in Nat

Init ==
    /\ queue = [s \in Slots |-> None]
    /\ rindex = 0 /\ windex = 0 /\ size = 0 /\ rindex_shown = 0
    /\ abort_request = FALSE
    /\ writer = "decode" /\ reader = "idle" /\ closer = "open"
    /\ pushed = 0 /\ taken = 0

(***************************************************************************)
(* SDL_CondSignal of the queue's one condition variable, and the threads   *)
(* that may sleep on it.  A woken thread looks at its condition again.     *)
(***************************************************************************)
WakeWriter == writer' = IF writer = "waiting" THEN "peek" ELSE writer
WakeReader == reader' = IF reader = "waiting" THEN "peek" ELSE reader

(***************************************************************************)
(* The writer: queue_picture, audio_thread, subtitle_thread.               *)
(***************************************************************************)
Decode ==
    /\ writer = "decode" /\ ~abort_request
    /\ pushed < MaxFrames
    /\ writer' = "peek"
    /\ UNCHANGED <<ring, abort_request, reader, closer, pushed, taken>>

\* decoder_decode_frame gives up when the packet queue is aborted.
DecodeAborted ==
    /\ writer = "decode" /\ abort_request
    /\ writer' = "done"
    /\ UNCHANGED <<ring, abort_request, reader, closer, pushed, taken>>

\* Mutant of Full: one slot too many is given out.
FullLate == size > MaxSize

Full == size >= MaxSize

PeekWritable ==
    /\ writer = "peek"
    /\ writer' = IF Full /\ ~abort_request THEN "waiting" ELSE "peeked"
    /\ UNCHANGED <<ring, abort_request, reader, closer, pushed, taken>>

WritableOrNull ==
    /\ writer = "peeked"
    /\ writer' = IF abort_request THEN "done" ELSE "fill"
    /\ UNCHANGED <<ring, abort_request, reader, closer, pushed, taken>>

Fill ==
    /\ writer = "fill"
    /\ queue' = [queue EXCEPT ![windex] = pushed + 1]
    /\ writer' = "push"
    /\ UNCHANGED <<rindex, windex, size, rindex_shown, abort_request, reader,
                   closer, pushed, taken>>

\* queue_picture returns without a push: no overlay could be allocated, or
\* the queue was aborted during the allocation.
FillFails ==
    /\ writer = "fill"
    /\ writer' = IF abort_request THEN "done" ELSE "decode"
    /\ UNCHANGED <<ring, abort_request, reader, closer, pushed, taken>>

Push ==
    /\ writer = "push"
    /\ windex' = After(windex)
    /\ writer' = "grow"
    /\ UNCHANGED <<queue, rindex, size, rindex_shown, abort_request, reader,
                   closer, pushed, taken>>

\* Mutant of Grow: the reader is not told of the frame.
GrowSilently ==
    /\ writer = "grow"
    /\ size' = size + 1
    /\ pushed' = pushed + 1
    /\ writer' = "decode"
    /\ UNCHANGED <<queue, rindex, windex, rindex_shown, abort_request, reader,
                   closer, taken>>

Grow ==
    /\ writer = "grow"
    /\ size' = size + 1
    /\ WakeReader
    /\ pushed' = pushed + 1
    /\ writer' = "decode"
    /\ UNCHANGED <<queue, rindex, windex, rindex_shown, abort_request, closer, taken>>

(***************************************************************************)
(* The reader: video_refresh, which polls, and audio_decode_frame, which   *)
(* blocks.  In "look" it uses the frames it peeked at; in "idle" it may    *)
(* still use the frame it took last, if the queue keeps that one.          *)
(***************************************************************************)
Poll ==
    /\ "poll" \in Reads
    /\ reader = "idle" /\ Remaining > 0
    /\ reader' = "look"
    /\ UNCHANGED <<ring, abort_request, writer, closer, pushed, taken>>

\* video_refresh leaves the frame it looked at for a later refresh.
LookAgain ==
    /\ "poll" \in Reads
    /\ reader = "look"
    /\ reader' = "idle"
    /\ UNCHANGED <<ring, abort_request, writer, closer, pushed, taken>>

CallPeekReadable ==
    /\ "block" \in Reads
    /\ reader = "idle" /\ closer # "closed"
    /\ reader' = "peek"
    /\ UNCHANGED <<ring, abort_request, writer, closer, pushed, taken>>

PeekReadable ==
    /\ reader = "peek"
    /\ reader' = IF Remaining <= 0 /\ ~abort_request THEN "waiting" ELSE "peeked"
    /\ UNCHANGED <<ring, abort_request, writer, closer, pushed, taken>>

ReadableOrNull ==
    /\ reader = "peeked"
    /\ reader' = IF abort_request THEN "idle" ELSE "look"
    /\ UNCHANGED <<ring, abort_request, writer, closer, pushed, taken>>

(***************************************************************************)
(* frame_queue_next                                                        *)
(***************************************************************************)
\* The first frame of a queue that keeps its last one only becomes the last.
NextShows ==
    /\ reader = "look"
    /\ KeepLast /\ rindex_shown = 0
    /\ rindex_shown' = 1
    /\ taken' = taken + 1
    /\ reader' = "idle"
    /\ UNCHANGED <<queue, rindex, windex, size, abort_request, writer, closer, pushed>>

\* Mutant of NextUnref: the frame being taken is dropped, not the one before.
NextUnrefShown ==
    /\ reader = "look"
    /\ ~(KeepLast /\ rindex_shown = 0)
    /\ queue' = [queue EXCEPT ![Slot(rindex_shown)] = None]
    /\ taken' = taken + 1
    /\ reader' = "advance"
    /\ UNCHANGED <<rindex, windex, size, rindex_shown, abort_request, writer,
                   closer, pushed>>

NextUnref ==
    /\ reader = "look"
    /\ ~(KeepLast /\ rindex_shown = 0)
    /\ queue' = [queue EXCEPT ![rindex] = None]
    /\ taken' = taken + 1
    /\ reader' = "advance"
    /\ UNCHANGED <<rindex, windex, size, rindex_shown, abort_request, writer,
                   closer, pushed>>

NextAdvance ==
    /\ reader = "advance"
    /\ rindex' = After(rindex)
    /\ reader' = "shrink"
    /\ UNCHANGED <<queue, windex, size, rindex_shown, abort_request, writer,
                   closer, pushed, taken>>

NextShrink ==
    /\ reader = "shrink"
    /\ size' = size - 1
    /\ WakeWriter
    /\ reader' = "idle"
    /\ UNCHANGED <<queue, rindex, windex, rindex_shown, abort_request, closer,
                   pushed, taken>>

(***************************************************************************)
(* decoder_abort: abort the packet queue, signal the frame queue, join the *)
(* decoder thread.                                                         *)
(***************************************************************************)
PacketQueueAbort ==
    /\ closer = "open"
    /\ abort_request' = TRUE
    /\ closer' = "signal"
    /\ UNCHANGED <<ring, writer, reader, pushed, taken>>

\* Mutant of FrameQueueSignal: whoever sleeps on the frame queue sleeps on.
FrameQueueNotSignalled ==
    /\ closer = "signal"
    /\ closer' = "join"
    /\ UNCHANGED <<ring, abort_request, writer, reader, pushed, taken>>

\* One signal wakes one of the threads that sleep on the queue.
FrameQueueSignal ==
    /\ closer = "signal"
    /\ closer' = "join"
    /\ \/ WakeWriter /\ UNCHANGED reader /\ (writer = "waiting" \/ reader # "waiting")
       \/ WakeReader /\ UNCHANGED writer /\ reader = "waiting"
    /\ UNCHANGED <<ring, abort_request, pushed, taken>>

JoinDecoder ==
    /\ closer = "join" /\ writer = "done"
    /\ closer' = "closed"
    /\ UNCHANGED <<ring, abort_request, writer, reader, pushed, taken>>

WriterNext == Decode \/ DecodeAborted \/ PeekWritable \/ WritableOrNull
              \/ Fill \/ FillFails \/ Push \/ Grow
FrameQueueNext == NextShows \/ NextUnref \/ NextAdvance \/ NextShrink
ReaderNext == Poll \/ LookAgain \/ CallPeekReadable \/ PeekReadable
              \/ ReadableOrNull \/ FrameQueueNext
CloserNext == PacketQueueAbort \/ FrameQueueSignal \/ JoinDecoder

Next == WriterNext \/ ReaderNext \/ CloserNext

Spec == Init /\ [][Next]_vars

(***************************************************************************)
(* Fairness.  The scheduler runs every thread that can run; the refresh    *)
(* loop and the audio callback come back to the queue again and again, and *)
(* do not put a frame off forever (its time to be shown comes).  Nothing   *)
(* obliges the decoder to find another frame, or anyone to close.          *)
(***************************************************************************)
FairSpec ==
    /\ Spec
    /\ WF_vars(DecodeAborted \/ PeekWritable \/ WritableOrNull \/ Fill \/ Push \/ Grow)
    /\ WF_vars(Poll \/ CallPeekReadable \/ PeekReadable \/ ReadableOrNull)
    /\ SF_vars(FrameQueueNext)
    /\ WF_vars(FrameQueueSignal \/ JoinDecoder)

(***************************************************************************)
(* Properties                                                              *)
(***************************************************************************)
\* Slots the reader may be using: the frame it took last, the frame it is
\* looking at, the one after that (video_refresh peeks at it to decide on
\* dropping the current one), and the one it is about to unreference.
InUse ==
    {Slot(i) : i \in {j \in {0, 1, 2} :
        \/ reader = "idle" /\ j < rindex_shown
        \/ reader = "look" /\ j < size /\ j <= rindex_shown + 1
        \/ reader = "advance" /\ j \in 1 .. rindex_shown
        \/ reader = "shrink" /\ j < rindex_shown}}

\* The decoder never writes into a slot the reader uses, although both reach
\* the slots without the lock (frame_queue_peek_writable against
\* frame_queue_peek, frame_queue_peek_next and frame_queue_peek_last).
NoDataRaces == writer \in {"fill", "push"} => windex \notin InUse

\* Between two calls of frame_queue_next the frame shown last is still in
\* its slot: audio_decode_frame goes on reading af after frame_queue_next,
\* and video_image_display2 shows frame_queue_peek_last at any time.
LastFrameIntact ==
    reader \in {"idle", "look"} /\ rindex_shown = 1 => queue[rindex] = taken

\* The frame offered to the reader is always the successor of the one it
\* took last: the ring never skips a frame, repeats one, or offers an empty
\* slot.
FramesInOrder == reader = "look" => queue[Slot(rindex_shown)] = taken + 1

\* What a slot holds is the reader's for as long as it needs it: the three
\* above, each of which rests on frame_queue_next keeping one slot back.
FramesKept == NoDataRaces /\ LastFrameIntact /\ FramesInOrder

\* The writer and the reader share one condition variable and each signal
\* wakes one thread, which is enough only because they never both sleep.
NotBothWaiting == ~(writer = "waiting" /\ reader = "waiting")

\* A thread sleeps only while it has to, or while the thread that will wake
\* it is on its way: no signal of push, next or decoder_abort is lost.
NoLostWakeup ==
    /\ writer = "waiting" => Full /\ (abort_request => closer = "signal")
    /\ reader = "waiting" => Remaining <= 0 /\ (abort_request => closer = "signal")

\* The one condition variable of a queue serves both of its threads.
Woken == NotBothWaiting /\ NoLostWakeup

\* Every frame that was pushed is taken, unless the stream is closed.
EveryFrameTaken ==
    \A n \in 1 .. MaxFrames : []<>(pushed < n \/ taken >= n \/ abort_request)

\* Closing a stream component ends: the decoder thread comes out of the
\* queue and is joined, and the audio callback is not left asleep in it.
CloseEnds == []<>(abort_request => closer = "closed" /\ reader # "waiting")

(***************************************************************************)
(* The abstract queue.  The reader's step that drops the old frame is the  *)
(* one that takes; the writer's step that counts the frame is the one that *)
(* puts.                                                                   *)
(***************************************************************************)
Dropped == IF reader = "advance" THEN 1 ELSE 0
Leaving == IF reader \in {"advance", "shrink"} THEN 1 ELSE 0

Fifo == INSTANCE KeptFifo WITH
    Frames   <- 1 .. MaxFrames,
    Capacity <- MaxSize,
    ready <- [i \in 1 .. size - Leaving - rindex_shown |->
                queue[Slot(Dropped + rindex_shown + i - 1)]],
    last  <- IF rindex_shown = 1 THEN queue[Slot(Dropped)] ELSE None

\* The ring implements the bounded queue that keeps its last frame.
IsKeptFifo == Fifo!Spec
=============================================================================
