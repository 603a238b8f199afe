------------------------------ MODULE Playback ------------------------------
(***************************************************************************)
(* How one video stream plays: the read thread fills the packet queue, the *)
(* decoder thread turns packets into frames, the refresh thread shows      *)
(* them, and a seek cuts through all three while they run.  Nothing stops  *)
(* them for a seek: packets and frames from before it are told apart by    *)
(* the serial they carry, which every thread reads without a lock.         *)
(*                                                                         *)
(* The frame queue is the bounded FIFO that keeps its last frame           *)
(* (KeptFifo); that the ring of the code is one is what FrameQueue shows.  *)
(* Positions in the input are packets; a seek lands where it was aimed.    *)
(***************************************************************************)
EXTENDS PacketQueue, PlayControl

CONSTANTS Length,           \* packets in the input, at positions 0 .. Length - 1
          MinFrames,        \* the read thread waits with more packets than that
          Capacity,         \* slots of the frame queue
          CodecDelay,       \* frames the codec may hold back
          PacketBuffering,  \* playback is held while packets are missing
          FrameDrop,        \* late frames are dropped
          SeekMayFail,      \* avformat_seek_file may fail
          SeekTargets,      \* positions the application seeks to
          MaxSeeks,         \* bound: seeks
          MaxPresses        \* bound: presses of pause and start

ASSUME PlaybackAssumption ==
    /\ Length \in Nat /\ MinFrames \in Nat /\ CodecDelay \in Nat
    /\ Capacity \in Nat \ {0, 1}
    /\ {PacketBuffering, FrameDrop, SeekMayFail} \subseteq BOOLEAN
    /\ SeekTargets \subseteq 0 .. Length
    /\ MaxSeeks \in Nat /\ MaxPresses \in Nat

VARIABLES
    seek,       \* is->seek_req and is->seek_pos
    videoq,     \* the packet queue
    read,       \* the read thread: where it is, and the demuxer's position
    eof, completed,
    decoder,    \* the decoder thread: where it is, packet and frame in hand
    pkt_serial, finished,
    codec,      \* packets in the codec whose frame is not out, and draining
    ready, last,  \* the frame queue
    refresh,    \* where the refresh thread is
    shown,      \* the frame on the screen
    vidclk,     \* the serial of the video clock
    play,       \* the switches of PlayControl
    abort_request,
    seeks, presses, \* history: how often the application called
    late        \* history: frames from before a seek, shown since it

seekVars   == <<seek, seeks>>
readVars   == <<read, eof, completed>>
decodeVars == <<decoder, pkt_serial, finished, codec>>
frames     == <<ready, last>>
screen     == <<shown, vidclk, late>>
showVars   == <<refresh, screen>>
vars == <<seekVars, videoq, readVars, decodeVars, frames, showVars, play,
          abort_request, presses>>

\* A frame: the position it was read at, the serial it is tagged with, and
\* the serial its packet was put with (which the code does not keep).
NoFrame == [pos |-> -1, serial |-> 0, from |-> 0]

Remaining == Len(ready)
InUse     == Remaining + (IF last = NoFrame THEN 0 ELSE 1)

Init ==
    /\ seek = [req |-> FALSE, pos |-> 0] /\ seeks = 0
    /\ videoq = QueueStart(ClosedQueue)
    /\ read = [at |-> "loop", target |-> 0, pos |-> 0]
    /\ eof = FALSE /\ completed = FALSE
    /\ decoder = [at |-> "try", pkt |-> NullPkt, frame |-> NoFrame]
    /\ pkt_serial = 0 /\ finished = 0
    /\ codec = [pkts |-> << >>, draining |-> FALSE]
    /\ ready = << >> /\ last = NoFrame
    /\ refresh = "idle" /\ shown = NoFrame /\ vidclk = 0 /\ late = 0
    /\ play = InitialSwitches(TRUE)
    /\ abort_request = FALSE
    /\ presses = 0

ReadGoes(at) == read' = [read EXCEPT !.at = at]

(***************************************************************************)
(* The application, through the player: seek, pause, start, close.         *)
(***************************************************************************)
\* stream_seek: a seek that comes while one is pending is ignored.
StreamSeek ==
    /\ seeks < MaxSeeks /\ ~abort_request
    /\ ~seek.req
    /\ \E pos \in SeekTargets : seek' = [req |-> TRUE, pos |-> pos]
    /\ seeks' = seeks + 1
    /\ UNCHANGED <<videoq, readVars, decodeVars, frames, showVars, play,
                   abort_request, presses>>

PressPause ==
    /\ presses < MaxPresses /\ ~abort_request
    /\ \E on \in BOOLEAN : play' = TogglePause(play, on)
    /\ presses' = presses + 1
    /\ UNCHANGED <<seekVars, videoq, readVars, decodeVars, frames, showVars,
                   abort_request>>

\* stream_close begins; it then aborts the queue and joins the threads.
Close ==
    /\ ~abort_request
    /\ abort_request' = TRUE
    /\ UNCHANGED <<seekVars, videoq, readVars, decodeVars, frames, showVars,
                   play, presses>>

CloseQueue ==
    /\ abort_request /\ ~videoq.abort_request
    /\ videoq' = QueueAbort(videoq)
    /\ UNCHANGED <<seekVars, readVars, decodeVars, frames, showVars, play,
                   abort_request, presses>>

(***************************************************************************)
(* The read thread: one turn of the loop of read_thread.                   *)
(***************************************************************************)
ReadLoop ==
    /\ read.at = "loop"
    /\ \/ abort_request /\ ReadGoes("done") /\ UNCHANGED play
       \/ /\ ~abort_request /\ seek.req
          /\ read' = [read EXCEPT !.at = "seek", !.target = seek.pos]
          /\ play' = ToggleBuffering(play, TRUE, PacketBuffering)
       \/ ~abort_request /\ ~seek.req /\ ReadGoes("full") /\ UNCHANGED play
    /\ UNCHANGED <<seekVars, videoq, eof, completed, decodeVars, frames,
                   showVars, abort_request, presses>>

ReadSeekFile ==
    /\ read.at = "seek"
    /\ \/ read' = [at |-> "flush", target |-> 0, pos |-> read.target]
       \/ SeekMayFail /\ read' = [read EXCEPT !.at = "sought", !.target = 0]
    /\ UNCHANGED <<seekVars, videoq, eof, completed, decodeVars, frames,
                   showVars, play, abort_request, presses>>

ReadFlush ==
    /\ read.at = "flush"
    /\ videoq' = QueueFlush(videoq)
    /\ ReadGoes("putflush")
    /\ UNCHANGED <<seekVars, eof, completed, decodeVars, frames, showVars, play,
                   abort_request, presses>>

\* Mutant of ReadPutFlush: the serial stays as it was.
ReadPutFlushForgotten ==
    /\ read.at = "putflush"
    /\ late' = 0
    /\ ReadGoes("sought")
    /\ UNCHANGED <<seekVars, videoq, eof, completed, decodeVars, frames, refresh,
                   shown, vidclk, play, abort_request, presses>>

ReadPutFlush ==
    /\ read.at = "putflush"
    /\ videoq' = PutPrivate(videoq, FlushPkt)
    /\ late' = 0
    /\ ReadGoes("sought")
    /\ UNCHANGED <<seekVars, eof, completed, decodeVars, frames, refresh, shown,
                   vidclk, play, abort_request, presses>>

ReadSought ==
    /\ read.at = "sought"
    /\ seek' = [seek EXCEPT !.req = FALSE]
    /\ eof' = FALSE /\ completed' = FALSE
    /\ ReadGoes("resume")
    /\ UNCHANGED <<seeks, videoq, decodeVars, frames, showVars, play,
                   abort_request, presses>>

\* Mutant of ReadResume: a paused player stays paused, without a step.
ReadResumeStays ==
    /\ read.at = "resume"
    /\ ReadGoes("rebuffer")
    /\ UNCHANGED <<seekVars, videoq, eof, completed, decodeVars, frames, showVars,
                   play, abort_request, presses>>

ReadResume ==
    /\ read.at = "resume"
    /\ play' = ResumeOrStep(play, PacketBuffering)
    /\ ReadGoes("rebuffer")
    /\ UNCHANGED <<seekVars, videoq, eof, completed, decodeVars, frames, showVars,
                   abort_request, presses>>

ReadRebuffer ==
    /\ read.at = "rebuffer"
    /\ play' = ToggleBuffering(play, TRUE, PacketBuffering)
    /\ ReadGoes("full")
    /\ UNCHANGED <<seekVars, videoq, eof, completed, decodeVars, frames, showVars,
                   abort_request, presses>>

Enough == videoq.abort_request \/ Len(videoq.pkts) > MinFrames

ReadFull ==
    /\ read.at = "full"
    /\ IF Enough /\ ~seek.req
       THEN /\ ReadGoes("loop")
            /\ play' = IF eof THEN play ELSE ToggleBuffering(play, FALSE, PacketBuffering)
       ELSE ReadGoes("ended") /\ UNCHANGED play
    /\ UNCHANGED <<seekVars, videoq, eof, completed, decodeVars, frames, showVars,
                   abort_request, presses>>

\* Mutant of PlayedOut: the frames still to be shown are forgotten.
PlayedOutDecoded == (~play.paused \/ completed) /\ finished = videoq.serial

PlayedOut == (~play.paused \/ completed) /\ finished = videoq.serial /\ Remaining = 0

ReadEnded ==
    /\ read.at = "ended"
    /\ completed' = (completed \/ PlayedOut)
    /\ IF PlayedOut
       THEN ReadGoes(IF completed THEN "wait" ELSE "complete")
       ELSE ReadGoes("read")
    /\ play' = IF PlayedOut /\ ~completed THEN [play EXCEPT !.auto_resume = FALSE] ELSE play
    /\ UNCHANGED <<seekVars, videoq, eof, decodeVars, frames, showVars,
                   abort_request, presses>>

\* The end is reported once; playback pauses, each switch under its own lock.
ReadComplete ==
    /\ read.at = "complete"
    /\ play' = ToggleBuffering(play, FALSE, PacketBuffering)
    /\ ReadGoes("pause")
    /\ UNCHANGED <<seekVars, videoq, eof, completed, decodeVars, frames, showVars,
                   abort_request, presses>>

ReadPause ==
    /\ read.at = "pause"
    /\ play' = TogglePause(play, TRUE)
    /\ ReadGoes("read")
    /\ UNCHANGED <<seekVars, videoq, eof, completed, decodeVars, frames, showVars,
                   abort_request, presses>>

\* Mutant of ReadWait: the wait at the end is not ended by the close.
ReadWaitSeek ==
    /\ read.at = "wait"
    /\ seek.req
    /\ ReadGoes("loop")
    /\ UNCHANGED <<seekVars, videoq, eof, completed, decodeVars, frames, showVars,
                   play, abort_request, presses>>

\* After the end the thread waits for a seek or for the close.
ReadWait ==
    /\ read.at = "wait"
    /\ abort_request \/ seek.req
    /\ ReadGoes(IF abort_request THEN "read" ELSE "loop")
    /\ UNCHANGED <<seekVars, videoq, eof, completed, decodeVars, frames, showVars,
                   play, abort_request, presses>>

\* av_read_frame returned a packet.
ReadPacket ==
    /\ read.at = "read" /\ read.pos < Length
    /\ videoq' = PutPrivate(videoq, read.pos)
    /\ read' = [read EXCEPT !.at = IF PacketBuffering THEN "marks" ELSE "loop",
                            !.pos = @ + 1]
    /\ eof' = FALSE
    /\ UNCHANGED <<seekVars, completed, decodeVars, frames, showVars, play,
                   abort_request, presses>>

\* From time to time the water marks are looked at: reaching one ends the
\* buffering, if two packets are queued.
ReadCheckBuffering ==
    /\ read.at = "marks"
    /\ \/ UNCHANGED play
       \/ /\ Len(videoq.pkts) >= 2 \/ (videoq.pkts # << >> /\ videoq.abort_request)
          /\ play' = ToggleBuffering(play, FALSE, PacketBuffering)
    /\ ReadGoes("loop")
    /\ UNCHANGED <<seekVars, videoq, eof, completed, decodeVars, frames, showVars,
                   abort_request, presses>>

\* Mutant of ReadEof: buffering is ended only when the end is first met.
ReadEofOnce ==
    /\ read.at = "read" /\ read.pos >= Length
    /\ videoq' = IF eof THEN videoq ELSE PutPrivate(videoq, NullPkt)
    /\ eof' = TRUE
    /\ play' = IF eof THEN play ELSE ToggleBuffering(play, FALSE, PacketBuffering)
    /\ ReadGoes("loop")
    /\ UNCHANGED <<seekVars, completed, decodeVars, frames, showVars,
                   abort_request, presses>>

\* av_read_frame is at the end: a null packet, the first time.
ReadEof ==
    /\ read.at = "read" /\ read.pos >= Length
    /\ videoq' = IF eof THEN videoq ELSE PutPrivate(videoq, NullPkt)
    /\ eof' = TRUE
    /\ play' = ToggleBuffering(play, FALSE, PacketBuffering)
    /\ ReadGoes("loop")
    /\ UNCHANGED <<seekVars, completed, decodeVars, frames, showVars,
                   abort_request, presses>>

(***************************************************************************)
(* The decoder thread: decoder_decode_frame, then queue_picture.           *)
(***************************************************************************)
DecoderGoes(at)   == decoder' = [decoder EXCEPT !.at = at]
DecoderLeaves(at) == decoder' = [decoder EXCEPT !.at = at, !.frame = NoFrame]

DecoderTry ==
    /\ decoder.at = "try"
    /\ DecoderGoes(IF videoq.serial # pkt_serial THEN "get"
                   ELSE IF videoq.abort_request THEN "done" ELSE "receive")
    /\ UNCHANGED <<seekVars, videoq, readVars, pkt_serial, finished, codec, frames,
                   showVars, play, abort_request, presses>>

DecoderReceive ==
    /\ decoder.at = "receive"
    /\ codec.pkts # << >>
    /\ decoder' = [decoder EXCEPT !.at = "push",
                                  !.frame = [pos |-> Head(codec.pkts).data,
                                             serial |-> pkt_serial,
                                             from |-> Head(codec.pkts).serial]]
    /\ codec' = [codec EXCEPT !.pkts = Tail(@)]
    /\ UNCHANGED <<seekVars, videoq, readVars, pkt_serial, finished, frames,
                   showVars, play, abort_request, presses>>

\* AVERROR(EAGAIN): the codec wants another packet first.
DecoderAgain ==
    /\ decoder.at = "receive"
    /\ ~codec.draining /\ Len(codec.pkts) <= CodecDelay
    /\ DecoderGoes("get")
    /\ UNCHANGED <<seekVars, videoq, readVars, pkt_serial, finished, codec, frames,
                   showVars, play, abort_request, presses>>

\* AVERROR_EOF: everything up to the null packet is out.
DecoderFinished ==
    /\ decoder.at = "receive"
    /\ codec.draining /\ codec.pkts = << >>
    /\ finished' = pkt_serial
    /\ codec' = [codec EXCEPT !.draining = FALSE]
    /\ DecoderGoes("try")
    /\ UNCHANGED <<seekVars, videoq, readVars, pkt_serial, frames, showVars, play,
                   abort_request, presses>>

\* The queue is empty before the end: playback is held until it fills again.
DecoderStarves ==
    /\ PacketBuffering
    /\ decoder.at = "get"
    /\ videoq.pkts = << >> /\ ~videoq.abort_request
    /\ DecoderGoes(IF finished = 0 THEN "starved" ELSE "block")
    /\ UNCHANGED <<seekVars, videoq, readVars, pkt_serial, finished, codec, frames,
                   showVars, play, abort_request, presses>>

DecoderBuffers ==
    /\ decoder.at = "starved"
    /\ play' = ToggleBuffering(play, TRUE, PacketBuffering)
    /\ DecoderGoes("block")
    /\ UNCHANGED <<seekVars, videoq, readVars, pkt_serial, finished, codec, frames,
                   showVars, abort_request, presses>>

\* With packet buffering, packets of a serial that has ended are dropped.
DecoderGet ==
    /\ decoder.at \in {"get", "block"}
    /\ Gettable(videoq)
    /\ decoder' = IF PacketBuffering /\ finished = QueueGot(videoq).serial
                  THEN [decoder EXCEPT !.at = "get"]
                  ELSE [decoder EXCEPT !.at = "check", !.pkt = QueueGot(videoq).data]
    /\ pkt_serial' = QueueGot(videoq).serial
    /\ videoq' = QueueGet(videoq)
    /\ UNCHANGED <<seekVars, readVars, finished, codec, frames, showVars, play,
                   abort_request, presses>>

DecoderAborted ==
    /\ decoder.at \in {"get", "block"}
    /\ videoq.abort_request
    /\ DecoderGoes("done")
    /\ UNCHANGED <<seekVars, videoq, readVars, pkt_serial, finished, codec, frames,
                   showVars, play, abort_request, presses>>

\* A packet the read thread has flushed meanwhile is not decoded.
DecoderSkip ==
    /\ decoder.at = "check"
    /\ videoq.serial # pkt_serial
    /\ decoder' = [decoder EXCEPT !.at = "get", !.pkt = NullPkt]
    /\ UNCHANGED <<seekVars, videoq, readVars, pkt_serial, finished, codec, frames,
                   showVars, play, abort_request, presses>>

\* Mutant of DecoderFlush: the codec keeps what it holds.
DecoderFlushKeeps ==
    /\ decoder.at = "check"
    /\ videoq.serial = pkt_serial /\ decoder.pkt = FlushPkt
    /\ finished' = 0
    /\ decoder' = [decoder EXCEPT !.at = "try", !.pkt = NullPkt]
    /\ UNCHANGED <<seekVars, videoq, readVars, pkt_serial, codec, frames, showVars,
                   play, abort_request, presses>>

DecoderFlush ==
    /\ decoder.at = "check"
    /\ videoq.serial = pkt_serial /\ decoder.pkt = FlushPkt
    /\ codec' = [pkts |-> << >>, draining |-> FALSE]
    /\ finished' = 0
    /\ decoder' = [decoder EXCEPT !.at = "try", !.pkt = NullPkt]
    /\ UNCHANGED <<seekVars, videoq, readVars, pkt_serial, frames, showVars, play,
                   abort_request, presses>>

DecoderSend ==
    /\ decoder.at = "check"
    /\ videoq.serial = pkt_serial /\ decoder.pkt # FlushPkt
    /\ codec' = IF decoder.pkt = NullPkt
                THEN [codec EXCEPT !.draining = TRUE]
                ELSE [codec EXCEPT !.pkts = Append(@, [data |-> decoder.pkt,
                                                       serial |-> pkt_serial])]
    /\ decoder' = [decoder EXCEPT !.at = "try", !.pkt = NullPkt]
    /\ UNCHANGED <<seekVars, videoq, readVars, pkt_serial, finished, frames,
                   showVars, play, abort_request, presses>>

\* Mutant of DecoderPush: the decoder does not wait for room in the queue.
DecoderPushAnyway ==
    /\ decoder.at = "push"
    /\ ready' = IF InUse < Capacity THEN Append(ready, decoder.frame) ELSE ready
    /\ DecoderLeaves(IF videoq.abort_request THEN "done" ELSE "try")
    /\ UNCHANGED <<seekVars, videoq, readVars, pkt_serial, finished, codec, last,
                   showVars, play, abort_request, presses>>

\* queue_picture waits for a slot; once the queue is aborted it gives up.
DecoderPush ==
    /\ decoder.at = "push"
    /\ \/ /\ ~videoq.abort_request /\ InUse < Capacity
          /\ ready' = Append(ready, decoder.frame)
          /\ DecoderLeaves("try")
       \/ /\ videoq.abort_request
          /\ UNCHANGED ready
          /\ DecoderLeaves("done")
    /\ UNCHANGED <<seekVars, videoq, readVars, pkt_serial, finished, codec, last,
                   showVars, play, abort_request, presses>>

\* get_video_frame drops a frame that is late already, if packets are queued
\* and the video clock has come to a frame of this serial.
DecoderDrop ==
    /\ FrameDrop
    /\ decoder.at = "push" /\ videoq.pkts # << >> /\ vidclk = pkt_serial
    /\ DecoderLeaves("try")
    /\ UNCHANGED <<seekVars, videoq, readVars, pkt_serial, finished, codec, frames,
                   showVars, play, abort_request, presses>>

(***************************************************************************)
(* The refresh thread: video_refresh.                                      *)
(***************************************************************************)
TakeFrame ==
    /\ last' = Head(ready)
    /\ ready' = Tail(ready)

RefreshIdle ==
    /\ refresh = "idle"
    /\ \/ abort_request /\ refresh' = "done"
       \/ ~abort_request /\ ~play.paused /\ refresh' = "look"
    /\ UNCHANGED <<seekVars, videoq, readVars, decodeVars, frames, screen, play,
                   abort_request, presses>>

\* The first of the frames, if it is not from before a seek.
RefreshLook ==
    /\ refresh = "look"
    /\ ready # << >> /\ Head(ready).serial = videoq.serial
    /\ refresh' = "due"
    /\ UNCHANGED <<seekVars, videoq, readVars, decodeVars, frames, screen, play,
                   abort_request, presses>>

\* Mutant of RefreshSkip: a frame from before the seek is shown like any other.
RefreshSkipShown ==
    /\ refresh = "look"
    /\ ready # << >> /\ Head(ready).serial # videoq.serial
    /\ refresh' = "due"
    /\ UNCHANGED <<seekVars, videoq, readVars, decodeVars, frames, screen, play,
                   abort_request, presses>>

\* A frame from before the seek is dropped.
RefreshSkip ==
    /\ refresh = "look"
    /\ ready # << >> /\ Head(ready).serial # videoq.serial
    /\ TakeFrame
    /\ UNCHANGED <<seekVars, videoq, readVars, decodeVars, showVars, play,
                   abort_request, presses>>

\* There is no frame; or playback is paused, or the frame is not due yet.
RefreshLater ==
    /\ \/ refresh = "look" /\ ready = << >>
       \/ refresh = "due"
    /\ refresh' = "idle"
    /\ UNCHANGED <<seekVars, videoq, readVars, decodeVars, frames, screen, play,
                   abort_request, presses>>

RefreshDue ==
    /\ refresh = "due"
    /\ ~play.paused
    /\ refresh' = "take"
    /\ vidclk' = Head(ready).serial
    /\ UNCHANGED <<seekVars, videoq, readVars, decodeVars, frames, shown, late, play,
                   abort_request, presses>>

\* The next frame is late too: this one is dropped.
RefreshDrop ==
    /\ FrameDrop
    /\ refresh = "take" /\ Remaining > 1 /\ ~play.step
    /\ TakeFrame
    /\ refresh' = "look"
    /\ UNCHANGED <<seekVars, videoq, readVars, decodeVars, screen, play,
                   abort_request, presses>>

RefreshTake ==
    /\ refresh = "take"
    /\ TakeFrame
    /\ refresh' = "step"
    /\ UNCHANGED <<seekVars, videoq, readVars, decodeVars, screen, play,
                   abort_request, presses>>

RefreshStep ==
    /\ refresh = "step"
    /\ play' = FrameShown(play)
    /\ refresh' = "show"
    /\ UNCHANGED <<seekVars, videoq, readVars, decodeVars, frames, screen,
                   abort_request, presses>>

RefreshShow ==
    /\ refresh = "show"
    /\ shown' = last
    /\ late' = IF last.serial = videoq.serial THEN late ELSE late + 1
    /\ refresh' = "idle"
    /\ UNCHANGED <<seekVars, videoq, readVars, decodeVars, frames, vidclk, play,
                   abort_request, presses>>

ReadNext == ReadLoop \/ ReadSeekFile \/ ReadFlush \/ ReadPutFlush \/ ReadSought
            \/ ReadResume \/ ReadRebuffer \/ ReadFull \/ ReadEnded \/ ReadComplete
            \/ ReadPause \/ ReadWait \/ ReadPacket
            \/ ReadCheckBuffering \/ ReadEof
DecoderNext == DecoderTry \/ DecoderReceive \/ DecoderAgain \/ DecoderFinished
               \/ DecoderStarves \/ DecoderBuffers \/ DecoderGet \/ DecoderAborted
               \/ DecoderSkip \/ DecoderFlush \/ DecoderSend \/ DecoderPush
               \/ DecoderDrop
RefreshNext == RefreshIdle \/ RefreshLook \/ RefreshSkip \/ RefreshLater
               \/ RefreshDue \/ RefreshDrop \/ RefreshTake \/ RefreshStep \/ RefreshShow
AppNext == StreamSeek \/ PressPause \/ Close

Next == AppNext \/ CloseQueue \/ ReadNext \/ DecoderNext \/ RefreshNext

Spec == Init /\ [][Next]_vars

(***************************************************************************)
(* Fairness: every thread that can run does run, and a frame offered again *)
(* and again comes due.  The application owes nothing.                     *)
(***************************************************************************)
FairSpec ==
    /\ Spec
    /\ WF_vars(CloseQueue)
    /\ WF_vars(ReadNext)
    /\ WF_vars(DecoderNext)
    /\ WF_vars(RefreshNext)
    /\ SF_vars(RefreshDue)

(***************************************************************************)
(* Properties                                                              *)
(***************************************************************************)
Serials == 0 .. MaxSeeks + 1
Frames  == [pos : 0 .. Length - 1, serial : Serials, from : Serials] \cup {NoFrame}
Datas   == 0 .. Length - 1
Packets == [data : Datas \cup {FlushPkt, NullPkt}, serial : Serials]

TypeOK ==
    /\ seek \in [req : BOOLEAN, pos : 0 .. Length]
    /\ videoq \in [pkts : Seq(Packets), serial : Serials, abort_request : BOOLEAN]
    /\ read \in [at : {"loop", "seek", "flush", "putflush", "sought", "resume", "rebuffer",
                       "full", "ended", "complete", "pause", "wait", "read", "marks", "done"},
                 target : 0 .. Length, pos : 0 .. Length]
    /\ {eof, completed, abort_request} \subseteq BOOLEAN
    /\ decoder \in [at : {"try", "receive", "get", "starved", "block", "check", "push", "done"},
                    pkt : Datas \cup {FlushPkt, NullPkt}, frame : Frames]
    /\ {pkt_serial, finished, vidclk} \subseteq Serials
    /\ codec \in [pkts : Seq([data : Datas, serial : Serials]), draining : BOOLEAN]
    /\ ready \in Seq(Frames) /\ InUse <= Capacity
    /\ {last, shown} \subseteq Frames
    /\ refresh \in {"idle", "look", "due", "take", "step", "show", "done"}
    /\ play \in Switches

\* Every frame carries the serial its packet was put with: the codec never
\* returns a frame of an earlier serial under a newer one, although pkt_serial
\* moves on with every packet taken off the queue.
SerialIsTrue ==
    \A frame \in {ready[i] : i \in 1 .. Remaining} \cup {last, shown, decoder.frame} :
        frame.serial = frame.from

\* After a seek at most one more frame from before it reaches the screen, the
\* one the refresh thread had found fresh just before.
OneLateFrame == late <= 1

Follows(new, old) ==
    \/ new.serial > old.serial
    \/ new.serial = old.serial /\ new.pos > old.pos

\* What is on the screen only moves forward within one serial, and serials
\* only grow: the picture never jumps back unless a seek did it.
NeverShowsEarlier == [][shown' # shown => Follows(shown', shown)]_shown

\* While the end of the stream counts as reported, no packet and no frame of
\* the current serial is left anywhere between the demuxer and the screen.  A
\* seek moves the demuxer first and withdraws the report last, at "sought".
EndIsTheEnd ==
    completed /\ read.at # "sought" =>
        /\ read.pos = Length \/ read.at \in {"flush", "putflush"}
        /\ \A i \in 1 .. Len(videoq.pkts) : videoq.pkts[i].data = NullPkt
        /\ codec.pkts = << >>
        /\ decoder.at # "push" /\ ready = << >>

\* Without frame dropping no frame is lost: what follows a frame of one serial
\* in the frame queue is the frame of the next packet.
NoFrameSkipped ==
    LET queued == (IF last = NoFrame THEN << >> ELSE <<last>>) \o ready
    IN  \A i \in 1 .. Len(queued) - 1 :
            queued[i + 1].serial = queued[i].serial => queued[i + 1].pos = queued[i].pos + 1

\* A stream that is not closed ends up completed, or paused by the user: the
\* buffering that decoders start and the read thread ends does not stay on.
PlaysToTheEnd == <>[](completed \/ play.pause_req \/ abort_request)

\* After a seek that leaves something to show the screen shows a frame from
\* after it, even if the player is paused - unless another seek or the close
\* comes first, or a late frame took the step.  (No switch is pressed after it:
\* a press cancels the step.)
SeekShows ==
    (read.at = "resume" /\ read.pos < Length /\ presses = MaxPresses)
        ~> shown.serial = videoq.serial \/ late > 0 \/ seek.req \/ abort_request

\* Closing ends all three threads.
CloseEnds ==
    abort_request ~> read.at = "done" /\ decoder.at = "done" /\ refresh = "done"
=============================================================================
