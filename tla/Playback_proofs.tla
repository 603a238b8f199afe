--------------------------- MODULE Playback_proofs ---------------------------
(***************************************************************************)
(* Proofs about Playback: inputs of any length, queues of any size, any    *)
(* number of seeks and presses.                                            *)
(*                                                                         *)
(* The argument is about serials.  Those in the packet queue form a chain: *)
(* a flush packet starts a new serial, any other packet has the serial of  *)
(* the one before it, and the chain goes on from pkt_serial, the serial of *)
(* the packet the decoder took last, to the serial of the queue.  So the   *)
(* decoder can meet a new serial only by taking its flush packet first,    *)
(* and what the codec still holds by then can no longer come out of it     *)
(* before the codec is flushed.                                            *)
(***************************************************************************)
EXTENDS Playback, SequenceTheorems, TLAPS

\* The serial before the packet at place i of the queue.
Before(i) == IF i = 1 THEN pkt_serial ELSE videoq.pkts[i - 1].serial

ChainInv ==
    /\ \A i \in 1 .. Len(videoq.pkts) :
          /\ videoq.pkts[i].serial \in pkt_serial .. videoq.serial
          /\ IF videoq.pkts[i].data = FlushPkt
             THEN videoq.pkts[i].serial > Before(i)
             ELSE videoq.pkts[i].serial = Before(i)
    /\ \A i \in 1 .. Len(videoq.pkts) : \A j \in 1 .. i :
          videoq.pkts[j].serial <= videoq.pkts[i].serial
    /\ finished <= pkt_serial /\ pkt_serial <= videoq.serial

\* The end of the chain: the queue's own serial, except while read_thread is
\* between the flush and its packet, and once nothing is put any more.
EndInv ==
    \/ Before(Len(videoq.pkts) + 1) = videoq.serial
    \/ videoq.abort_request
    \/ read.at = "putflush" /\ videoq.pkts = << >>

\* What the codec holds has the decoder's serial, wherever it can come out.
CodecFresh == \A i \in 1 .. Len(codec.pkts) : codec.pkts[i].serial = pkt_serial

CodecInv ==
    /\ decoder.at \in {"try", "receive", "push"} => CodecFresh
    /\ decoder.at \in {"get", "starved", "block", "check"} =>
          \/ CodecFresh
          \/ videoq.serial > pkt_serial
          \/ decoder.at = "check" /\ decoder.pkt = FlushPkt

\* What the refresh thread was about to use is still there.
RefreshInv == refresh \in {"due", "take"} => ready # << >>

\* Every serial but the first is that of a seek.
SeekInv ==
    /\ read.at \in {"seek", "flush", "putflush", "sought"} => seek.req
    /\ videoq.serial <= seeks + 1
    /\ seek.req /\ read.at # "sought" => videoq.serial <= seeks
    /\ seeks \in 0 .. MaxSeeks

\* A late frame was fresh when it was looked at; it was shown before the next
\* look, and no new serial has started since.
LateInv ==
    \/ late = 0
    \/ /\ late = 1
       /\ refresh \in {"due", "take"} => Head(ready).serial = videoq.serial
       /\ refresh \in {"step", "show"} => last.serial = videoq.serial

\* The conjuncts of SerialIsTrue, one for each place a frame can be in.
True(frame) == frame.serial = frame.from
FramesTrue ==
    /\ \A i \in 1 .. Len(ready) : True(ready[i])
    /\ True(last) /\ True(shown) /\ True(decoder.frame)

BaseInv == TypeOK /\ SeekInv /\ RefreshInv
IInv == BaseInv /\ ChainInv /\ EndInv /\ CodecInv /\ FramesTrue

-----------------------------------------------------------------------------
(***************************************************************************)
(* The operations of the queue and the switches keep their types.          *)
(***************************************************************************)
LEMMA SwitchesClosed ==
    ASSUME NEW s \in Switches, NEW on \in BOOLEAN
    PROVE  /\ TogglePause(s, on) \in Switches
           /\ ToggleBuffering(s, on, PacketBuffering) \in Switches
           /\ ResumeOrStep(s, PacketBuffering) \in Switches
           /\ FrameShown(s) \in Switches
           /\ [s EXCEPT !.auto_resume = FALSE] \in Switches
  <1>1. PacketBuffering \in BOOLEAN
    BY PlaybackAssumption
  <1>2. ASSUME NEW r \in Switches, NEW b \in BOOLEAN
        PROVE  StreamTogglePause(r, b) \in Switches /\ StreamUpdatePause(r) \in Switches
    <2>1. ASSUME NEW c \in BOOLEAN PROVE StreamTogglePause(r, c) \in Switches
      BY <1>2, <2>1 DEF StreamTogglePause, Held, Switches
    <2>2. (~r.step /\ Held(r)) \in BOOLEAN
      BY DEF Held
    <2>3. QED  BY <2>1, <2>2, <1>2 DEF StreamUpdatePause
  <1>3. TogglePause(s, on) \in Switches
    <2> DEFINE asked == [s EXCEPT !.pause_req = on, !.auto_resume = ~on]
    <2>1. asked \in Switches
      BY DEF Switches
    <2>2. StreamUpdatePause(asked) \in Switches
      BY <2>1, <1>2
    <2> HIDE DEF asked
    <2>3. [StreamUpdatePause(asked) EXCEPT !.step = FALSE] \in Switches
      BY <2>2 DEF Switches
    <2>4. QED  BY <2>3 DEF TogglePause, asked
  <1>4. ToggleBuffering(s, on, PacketBuffering) \in Switches
    <2>1. [s EXCEPT !.buffering_on = on] \in Switches
      BY DEF Switches
    <2>2. StreamUpdatePause([s EXCEPT !.buffering_on = on]) \in Switches
      BY <2>1, <1>2
    <2>3. QED  BY <2>2 DEF ToggleBuffering
  <1>5. ResumeOrStep(s, PacketBuffering) \in Switches
    <2> DEFINE asked == [s EXCEPT !.pause_req = FALSE, !.auto_resume = FALSE,
                                  !.buffering_on = @ \/ PacketBuffering]
               resumed == IF s.auto_resume THEN StreamUpdatePause(asked) ELSE s
    <2>1. asked \in Switches
      BY <1>1 DEF Switches
    <2>2. resumed \in Switches
      BY <2>1, <1>2
    <2> HIDE DEF resumed
    <2>3. StepToNextFrame(resumed) \in Switches
      <3>1. [resumed EXCEPT !.step = TRUE] \in Switches
        BY <2>2 DEF Switches
      <3>2. StreamTogglePause([resumed EXCEPT !.step = TRUE], FALSE) \in Switches
        BY <3>1, <1>2
      <3>3. QED  BY <3>1, <3>2 DEF StepToNextFrame
    <2>4. QED  BY <2>2, <2>3 DEF ResumeOrStep, resumed
  <1>6. FrameShown(s) \in Switches
    <2>1. [s EXCEPT !.step = FALSE] \in Switches
      BY DEF Switches
    <2>2. StreamUpdatePause([s EXCEPT !.step = FALSE]) \in Switches
      BY <2>1, <1>2
    <2>3. QED  BY <2>1, <2>2 DEF FrameShown
  <1>7. [s EXCEPT !.auto_resume = FALSE] \in Switches
    BY DEF Switches
  <1>8. QED  BY <1>3, <1>4, <1>5, <1>6, <1>7

Queues == [pkts : Seq(Packets), serial : Serials, abort_request : BOOLEAN]

\* What a put does to the queue.
LEMMA PutEffect ==
    ASSUME NEW q \in Queues, NEW data \in Datas \cup {FlushPkt, NullPkt},
           NEW s \in Serials, s = IF data = FlushPkt THEN q.serial + 1 ELSE q.serial
    PROVE  LET put == PutPrivate(q, data)
           IN  /\ put \in Queues /\ put.abort_request = q.abort_request
               /\ q.abort_request => put = q
               /\ ~q.abort_request =>
                     /\ put.serial = s
                     /\ put.pkts = Append(q.pkts, [data |-> data, serial |-> s])
  <1>1. [data |-> data, serial |-> s] \in Packets
    BY DEF Packets
  <1>2. Append(q.pkts, [data |-> data, serial |-> s]) \in Seq(Packets)
    BY <1>1 DEF Queues
  <1>3. CASE q.abort_request
    BY <1>3 DEF PutPrivate
  <1>4. CASE ~q.abort_request
    <2>1. PutPrivate(q, data) = [q EXCEPT !.serial = s,
                                          !.pkts = Append(@, [data |-> data, serial |-> s])]
      BY <1>4 DEF PutPrivate
    <2>2. QED  BY <2>1, <1>2, <1>4 DEF Queues
  <1>5. QED  BY <1>3, <1>4

-----------------------------------------------------------------------------
(***************************************************************************)
(* Which steps touch which variables.                                      *)
(***************************************************************************)
LEMMA Footprint ==
    ASSUME [Next]_vars
    PROVE  /\ seek' = seek \/ StreamSeek \/ ReadSought
           /\ seeks' = seeks \/ StreamSeek
           /\ \/ videoq' = videoq
              \/ CloseQueue \/ ReadFlush \/ ReadPutFlush \/ ReadPacket \/ ReadEof \/ DecoderGet
           /\ read' = read \/ ReadNext
           /\ eof' = eof \/ ReadSought \/ ReadPacket \/ ReadEof
           /\ completed' = completed \/ ReadSought \/ ReadEnded
           /\ decoder' = decoder \/ DecoderNext
           /\ pkt_serial' = pkt_serial \/ DecoderGet
           /\ finished' = finished \/ DecoderFinished \/ DecoderFlush
           /\ \/ codec' = codec
              \/ DecoderReceive \/ DecoderFinished \/ DecoderFlush \/ DecoderSend
           /\ \/ UNCHANGED <<ready, last>>
              \/ DecoderPush \/ RefreshSkip \/ RefreshDrop \/ RefreshTake
           /\ refresh' = refresh \/ RefreshNext
           /\ shown' = shown \/ RefreshShow
           /\ vidclk' = vidclk \/ RefreshDue
           /\ late' = late \/ RefreshShow \/ ReadPutFlush
           /\ \/ play' = play
              \/ PressPause \/ ReadLoop \/ ReadResume \/ ReadRebuffer \/ ReadFull \/ ReadEnded
              \/ ReadComplete \/ ReadPause \/ ReadCheckBuffering \/ ReadEof
              \/ DecoderBuffers \/ RefreshStep
           /\ abort_request' = abort_request \/ Close
  <1> USE DEF seekVars, readVars, decodeVars, frames, screen, showVars
  <1>1. CASE AppNext \/ CloseQueue
    <2>1. CASE StreamSeek
      BY <1>1, <2>1 DEF StreamSeek
    <2>2. CASE PressPause
      BY <1>1, <2>2 DEF PressPause
    <2>3. CASE Close
      BY <1>1, <2>3 DEF Close
    <2>4. CASE CloseQueue
      BY <1>1, <2>4 DEF CloseQueue
    <2>5. QED  BY <1>1, <2>1, <2>2, <2>3, <2>4 DEF AppNext
  <1>2. CASE ReadNext
    <2>1. CASE ReadLoop
      BY <1>2, <2>1 DEF ReadLoop
    <2>2. CASE ReadSeekFile
      BY <1>2, <2>2 DEF ReadSeekFile
    <2>3. CASE ReadFlush
      BY <1>2, <2>3 DEF ReadFlush
    <2>4. CASE ReadPutFlush
      BY <1>2, <2>4 DEF ReadPutFlush
    <2>5. CASE ReadSought
      BY <1>2, <2>5 DEF ReadSought
    <2>6. CASE ReadResume
      BY <1>2, <2>6 DEF ReadResume
    <2>7. CASE ReadRebuffer
      BY <1>2, <2>7 DEF ReadRebuffer
    <2>8. CASE ReadFull
      BY <1>2, <2>8 DEF ReadFull
    <2>9. CASE ReadEnded
      BY <1>2, <2>9 DEF ReadEnded
    <2>10. CASE ReadComplete
      BY <1>2, <2>10 DEF ReadComplete
    <2>11. CASE ReadPause
      BY <1>2, <2>11 DEF ReadPause
    <2>12. CASE ReadWait
      BY <1>2, <2>12 DEF ReadWait
    <2>13. CASE ReadPacket
      BY <1>2, <2>13 DEF ReadPacket
    <2>14. CASE ReadCheckBuffering
      BY <1>2, <2>14 DEF ReadCheckBuffering
    <2>15. CASE ReadEof
      BY <1>2, <2>15 DEF ReadEof
    <2>16. QED  BY <1>2, <2>1, <2>2, <2>3, <2>4, <2>5, <2>6, <2>7, <2>8, <2>9, <2>10, <2>11, <2>12, <2>13, <2>14, <2>15 DEF ReadNext
  <1>3. CASE DecoderNext
    <2>1. CASE DecoderTry
      BY <1>3, <2>1 DEF DecoderTry
    <2>2. CASE DecoderReceive
      BY <1>3, <2>2 DEF DecoderReceive
    <2>3. CASE DecoderAgain
      BY <1>3, <2>3 DEF DecoderAgain
    <2>4. CASE DecoderFinished
      BY <1>3, <2>4 DEF DecoderFinished
    <2>5. CASE DecoderStarves
      BY <1>3, <2>5 DEF DecoderStarves
    <2>6. CASE DecoderBuffers
      BY <1>3, <2>6 DEF DecoderBuffers
    <2>7. CASE DecoderGet
      BY <1>3, <2>7 DEF DecoderGet
    <2>8. CASE DecoderAborted
      BY <1>3, <2>8 DEF DecoderAborted
    <2>9. CASE DecoderSkip
      BY <1>3, <2>9 DEF DecoderSkip
    <2>10. CASE DecoderFlush
      BY <1>3, <2>10 DEF DecoderFlush
    <2>11. CASE DecoderSend
      BY <1>3, <2>11 DEF DecoderSend
    <2>12. CASE DecoderPush
      BY <1>3, <2>12 DEF DecoderPush
    <2>13. CASE DecoderDrop
      BY <1>3, <2>13 DEF DecoderDrop
    <2>14. QED  BY <1>3, <2>1, <2>2, <2>3, <2>4, <2>5, <2>6, <2>7, <2>8, <2>9, <2>10, <2>11, <2>12, <2>13 DEF DecoderNext
  <1>4. CASE RefreshNext
    <2>1. CASE RefreshIdle
      BY <1>4, <2>1 DEF RefreshIdle
    <2>2. CASE RefreshLook
      BY <1>4, <2>2 DEF RefreshLook
    <2>3. CASE RefreshSkip
      BY <1>4, <2>3 DEF RefreshSkip
    <2>4. CASE RefreshLater
      BY <1>4, <2>4 DEF RefreshLater
    <2>5. CASE RefreshDue
      BY <1>4, <2>5 DEF RefreshDue
    <2>6. CASE RefreshDrop
      BY <1>4, <2>6 DEF RefreshDrop
    <2>7. CASE RefreshTake
      BY <1>4, <2>7 DEF RefreshTake
    <2>8. CASE RefreshStep
      BY <1>4, <2>8 DEF RefreshStep
    <2>9. CASE RefreshShow
      BY <1>4, <2>9 DEF RefreshShow
    <2>10. QED  BY <1>4, <2>1, <2>2, <2>3, <2>4, <2>5, <2>6, <2>7, <2>8, <2>9 DEF RefreshNext
  <1>5. CASE UNCHANGED vars
    BY <1>5 DEF vars
  <1>6. QED  BY <1>1, <1>2, <1>3, <1>4, <1>5 DEF Next

-----------------------------------------------------------------------------
(***************************************************************************)
(* The type invariant, and the count of serials it needs.                  *)
(***************************************************************************)
\* Only the flush packet of a seek changes the serial of the queue.
LEMMA SerialStays ==
    ASSUME TypeOK, [Next]_vars, ~ReadPutFlush
    PROVE  videoq'.serial = videoq.serial
  <1>0. videoq \in Queues /\ read.pos # FlushPkt /\ NullPkt # FlushPkt
    BY PlaybackAssumption DEF TypeOK, Queues, FlushPkt, NullPkt
  <1>1. \A data : data # FlushPkt => PutPrivate(videoq, data).serial = videoq.serial
    BY <1>0 DEF PutPrivate, Queues
  <1>2. \/ videoq' \in {videoq, QueueAbort(videoq), QueueFlush(videoq), QueueGet(videoq)}
        \/ \E data \in {NullPkt, read.pos} : videoq' = PutPrivate(videoq, data)
    BY Footprint DEF CloseQueue, ReadFlush, ReadPacket, ReadEof, DecoderGet
  <1>3. videoq' \in {videoq, QueueAbort(videoq), QueueFlush(videoq), QueueGet(videoq)}
           => videoq'.serial = videoq.serial
    BY <1>0 DEF QueueAbort, QueueFlush, QueueGet, Queues
  <1>4. QED  BY <1>0, <1>1, <1>2, <1>3

\* At the start the queue holds the flush packet of the first serial.
LEMMA QueueInit ==
    ASSUME Init
    PROVE  /\ videoq \in Queues /\ videoq.serial = 1 /\ ~videoq.abort_request
           /\ Len(videoq.pkts) = 1
           /\ videoq.pkts[1] = [data |-> FlushPkt, serial |-> 1]
  <1> DEFINE q == [ClosedQueue EXCEPT !.abort_request = FALSE]
             first == [data |-> FlushPkt, serial |-> 1]
  <1>1. 0 \in Serials /\ 1 \in Serials
    BY PlaybackAssumption DEF Serials
  <1>2. q \in Queues /\ q.serial = 0 /\ q.pkts = << >> /\ ~q.abort_request
    <2>1. /\ ClosedQueue \in Queues
          /\ ClosedQueue.serial = 0 /\ ClosedQueue.pkts = << >>
      BY <1>1 DEF Queues, ClosedQueue
    <2>2. QED  BY <2>1 DEF Queues
  <1>3. videoq = PutPrivate(q, FlushPkt)
    BY DEF Init, QueueStart
  <1> HIDE DEF q
  <1>4. /\ PutPrivate(q, FlushPkt) \in Queues
        /\ PutPrivate(q, FlushPkt).abort_request = q.abort_request
        /\ PutPrivate(q, FlushPkt).serial = 1
        /\ PutPrivate(q, FlushPkt).pkts = Append(q.pkts, first)
    BY <1>1, <1>2, PutEffect
  <1>5. Append(<< >>, first) = <<first>>
    OBVIOUS
  <1>6. QED  BY <1>2, <1>3, <1>4, <1>5

LEMMA TypeInit == Init => TypeOK /\ SeekInv
  <1> SUFFICES ASSUME Init PROVE TypeOK /\ SeekInv
    OBVIOUS
  <1>1. 0 \in Serials /\ NoFrame \in Frames /\ MaxSeeks \in Nat /\ Length \in Nat
    BY PlaybackAssumption DEF Serials, Frames
  <1>2. play \in Switches
    BY DEF Init, InitialSwitches, Switches
  <1>3. /\ seek \in [req : BOOLEAN, pos : 0 .. Length]
        /\ read.at = "loop" /\ read.target \in 0 .. Length /\ read.pos \in 0 .. Length
        /\ codec \in [pkts : Seq([data : Datas, serial : Serials]), draining : BOOLEAN]
        /\ ready \in Seq(Frames) /\ InUse <= Capacity
    BY <1>1, PlaybackAssumption DEF Init, InUse, Remaining
  <1>4. /\ {eof, completed, abort_request} \subseteq BOOLEAN
        /\ {pkt_serial, finished, vidclk} \subseteq Serials /\ {last, shown} \subseteq Frames
        /\ decoder \in [at : {"try", "receive", "get", "starved", "block", "check", "push", "done"},
                        pkt : Datas \cup {FlushPkt, NullPkt}, frame : Frames]
        /\ refresh \in {"idle", "look", "due", "take", "step", "show", "done"}
        /\ videoq \in [pkts : Seq(Packets), serial : Serials, abort_request : BOOLEAN]
    BY <1>1, QueueInit DEF Init, Queues
  <1>5. read \in [at : {"loop", "seek", "flush", "putflush", "sought", "resume", "rebuffer",
                       "full", "ended", "complete", "pause", "wait", "read", "marks", "done"},
                  target : 0 .. Length, pos : 0 .. Length]
    BY <1>1 DEF Init
  <1>6. TypeOK
    BY <1>2, <1>3, <1>4, <1>5, Zenon DEF TypeOK
  <1>7. SeekInv
    <2>1. ~seek.req /\ seeks = 0 /\ read.at = "loop"
      BY DEF Init
    <2>2. QED  BY <1>1, <2>1, QueueInit DEF SeekInv
  <1>8. QED  BY <1>6, <1>7

LEMMA SeekStep == TypeOK /\ SeekInv /\ [Next]_vars => SeekInv'
  <1> SUFFICES ASSUME TypeOK, SeekInv, [Next]_vars PROVE SeekInv'
    OBVIOUS
  <1>0. /\ videoq \in Queues /\ videoq.serial \in Nat /\ seeks \in 0 .. MaxSeeks
        /\ seek \in [req : BOOLEAN, pos : 0 .. Length] /\ MaxSeeks \in Nat
        /\ DOMAIN read = {"at", "target", "pos"}
    BY PlaybackAssumption DEF TypeOK, Queues, SeekInv, Serials
  <1> USE DEF SeekInv
  <1>1. CASE StreamSeek
    BY <1>1, <1>0 DEF StreamSeek, readVars
  <1>2. CASE ReadPutFlush
    <2>1. /\ read.at = "putflush" /\ read'.at = "sought" /\ UNCHANGED <<seek, seeks>>
          /\ videoq' = PutPrivate(videoq, FlushPkt)
      BY <1>2, <1>0 DEF ReadPutFlush, ReadGoes, seekVars
    <2>2. videoq'.serial \in {videoq.serial, videoq.serial + 1}
      BY <2>1, <1>0 DEF PutPrivate, Queues
    <2>3. QED  BY <2>1, <2>2, <1>0
  <1>3. CASE ReadSought
    BY <1>3, <1>0 DEF ReadSought, ReadGoes
  <1>4. CASE ~StreamSeek /\ ~ReadPutFlush /\ ~ReadSought
    <2>1. UNCHANGED <<seek, seeks>> /\ videoq'.serial = videoq.serial
      BY <1>4, Footprint, SerialStays
    <2>2. CASE read' = read
      BY <2>1, <2>2, <1>0
    <2>3. CASE ReadNext
      <3>1. /\ read.at # "sought"
            /\ read'.at \in {"seek", "flush", "putflush", "sought"} => seek.req
        BY <2>3, <1>4, <1>0 DEF ReadNext, ReadLoop, ReadSeekFile, ReadFlush, ReadResume,
           ReadRebuffer, ReadFull, ReadEnded, ReadComplete, ReadPause, ReadWait, ReadPacket,
           ReadCheckBuffering, ReadEof, ReadGoes
      <3>2. QED  BY <2>1, <3>1, <1>0
    <2>4. QED  BY <2>2, <2>3, Footprint
  <1>5. QED  BY <1>1, <1>2, <1>3, <1>4

\* A step keeps the length of the frame queue within its capacity.
LEMMA FramesStep ==
    ASSUME TypeOK, RefreshInv, [Next]_vars
    PROVE  ready' \in Seq(Frames) /\ last' \in Frames /\ InUse' <= Capacity
  <1>0. /\ ready \in Seq(Frames) /\ last \in Frames /\ InUse <= Capacity
        /\ decoder.frame \in Frames /\ Len(ready) \in Nat /\ Capacity \in Nat
    BY PlaybackAssumption DEF TypeOK
  <1> USE DEF InUse, Remaining
  <1>1. CASE UNCHANGED <<ready, last>>
    BY <1>1, <1>0
  <1>2. CASE DecoderPush
    <2>1. UNCHANGED last
      BY <1>2 DEF DecoderPush
    <2>2. \/ ready' = ready
          \/ ready' = Append(ready, decoder.frame) /\ InUse < Capacity
      BY <1>2 DEF DecoderPush
    <2>3. Len(Append(ready, decoder.frame)) = Len(ready) + 1
          /\ Append(ready, decoder.frame) \in Seq(Frames)
      BY <1>0
    <2>4. QED  BY <2>1, <2>2, <2>3, <1>0
  <1>3. CASE RefreshSkip \/ RefreshDrop \/ RefreshTake
    <2>1. ready # << >> /\ last' = Head(ready) /\ ready' = Tail(ready)
      BY <1>3 DEF RefreshSkip, RefreshDrop, RefreshTake, TakeFrame, RefreshInv
    <2>2. Head(ready) \in Frames /\ Tail(ready) \in Seq(Frames)
          /\ Len(Tail(ready)) = Len(ready) - 1
      BY <2>1, <1>0, HeadTailProperties
    <2>3. QED  BY <2>1, <2>2, <1>0
  <1>4. QED  BY <1>1, <1>2, <1>3, Footprint

LEMMA TypeStep == TypeOK /\ SeekInv /\ RefreshInv /\ [Next]_vars => TypeOK'
  <1> SUFFICES ASSUME TypeOK, SeekInv, RefreshInv, [Next]_vars PROVE TypeOK'
    OBVIOUS
  <1>0. /\ Length \in Nat /\ MaxSeeks \in Nat /\ SeekTargets \subseteq 0 .. Length
        /\ PacketBuffering \in BOOLEAN /\ NoFrame \in Frames /\ 0 \in Serials
    BY PlaybackAssumption DEF Frames, Serials
  <1>1. seek' \in [req : BOOLEAN, pos : 0 .. Length]
    <2>1. seek \in [req : BOOLEAN, pos : 0 .. Length]
      BY DEF TypeOK
    <2>2. CASE StreamSeek
      <3>1. PICK pos \in SeekTargets : seek' = [req |-> TRUE, pos |-> pos]
        BY <2>2 DEF StreamSeek
      <3>2. pos \in 0 .. Length
        BY <1>0
      <3>3. QED  BY <3>1, <3>2
    <2>3. CASE ReadSought
      BY <2>1, <2>3 DEF ReadSought
    <2>4. QED  BY <2>1, <2>2, <2>3, Footprint
  <1>2. videoq' \in Queues
    <2>1. videoq \in Queues
      BY DEF TypeOK, Queues
    <2>2. CASE CloseQueue \/ ReadFlush
      <3>1. QueueAbort(videoq) \in Queues
        BY <2>1 DEF QueueAbort, Queues
      <3>2. QueueFlush(videoq) \in Queues
        <4>1. << >> \in Seq(Packets)
          OBVIOUS
        <4>2. QED  BY <4>1, <2>1 DEF QueueFlush, Queues
      <3>3. QED  BY <2>2, <3>1, <3>2 DEF CloseQueue, ReadFlush
    <2>3. CASE DecoderGet
      <3>1. videoq.pkts \in Seq(Packets) /\ videoq.pkts # << >>
            /\ videoq' = [videoq EXCEPT !.pkts = Tail(@)]
        BY <2>1, <2>3 DEF DecoderGet, QueueGet, Gettable, Queues
      <3>2. Tail(videoq.pkts) \in Seq(Packets)
        BY <3>1, HeadTailProperties
      <3>3. QED  BY <2>1, <3>1, <3>2 DEF Queues
    <2>4. CASE ReadPutFlush
      <3>1. videoq.serial + 1 \in Serials
        <4>1. read.at = "putflush" /\ videoq' = PutPrivate(videoq, FlushPkt)
          BY <2>4 DEF ReadPutFlush
        <4>2. videoq.serial <= seeks /\ seeks <= MaxSeeks /\ seeks \in Nat
          BY <4>1, <1>0 DEF SeekInv
        <4>3. QED  BY <4>2, <2>1, <1>0 DEF Serials, Queues
      <3>2. PutPrivate(videoq, FlushPkt) \in Queues
        BY <3>1, <2>1, PutEffect
      <3>3. QED  BY <2>4, <3>2 DEF ReadPutFlush
    <2>5. CASE ReadPacket \/ ReadEof
      <3>1. PICK data \in Datas \cup {NullPkt} :
               videoq' = videoq \/ videoq' = PutPrivate(videoq, data)
        <4>1. CASE ReadPacket
          <5>1. read.pos \in Datas /\ videoq' = PutPrivate(videoq, read.pos)
            BY <4>1, <1>0 DEF ReadPacket, TypeOK, Datas
          <5>2. QED  BY <5>1
        <4>2. CASE ReadEof
          BY <4>2 DEF ReadEof
        <4>3. QED  BY <2>5, <4>1, <4>2
      <3>2. data # FlushPkt /\ videoq.serial \in Serials
        BY <2>1, <1>0 DEF Datas, FlushPkt, NullPkt, Queues
      <3>3. PutPrivate(videoq, data) \in Queues
        BY <3>2, <2>1, PutEffect
      <3>4. QED  BY <3>1, <3>3, <2>1
    <2>6. QED  BY <2>1, <2>2, <2>3, <2>4, <2>5, Footprint
  <1>3. read' \in [at : {"loop", "seek", "flush", "putflush", "sought", "resume", "rebuffer",
                         "full", "ended", "complete", "pause", "wait", "read", "marks", "done"},
                   target : 0 .. Length, pos : 0 .. Length]
    <2>1. read \in [at : {"loop", "seek", "flush", "putflush", "sought", "resume", "rebuffer",
                          "full", "ended", "complete", "pause", "wait", "read", "marks", "done"},
                    target : 0 .. Length, pos : 0 .. Length] /\ seek.pos \in 0 .. Length
      BY DEF TypeOK
    <2>2. CASE ReadLoop
      BY <2>1, <2>2 DEF ReadLoop, ReadGoes
    <2>3. CASE ReadSeekFile
      <3>1. CASE read' = [at |-> "flush", target |-> 0, pos |-> read.target]
        <4>1. read.target \in 0 .. Length
          BY <2>1
        <4>2. QED  BY <3>1, <4>1, <1>0
      <3>2. CASE read' = [read EXCEPT !.at = "sought", !.target = 0]
        <4>1. 0 \in 0 .. Length
          BY <1>0
        <4>2. QED  BY <2>1, <3>2, <4>1
      <3>3. QED  BY <2>3, <3>1, <3>2 DEF ReadSeekFile
    <2>4. CASE ReadFlush \/ ReadPutFlush \/ ReadSought \/ ReadResume \/ ReadRebuffer
      BY <2>1, <2>4 DEF ReadFlush, ReadPutFlush, ReadSought, ReadResume, ReadRebuffer, ReadGoes
    <2>5. CASE ReadFull \/ ReadComplete \/ ReadPause \/ ReadCheckBuffering \/ ReadEof
      BY <2>1, <2>5 DEF ReadFull, ReadComplete, ReadPause, ReadCheckBuffering, ReadEof, ReadGoes
    <2>6. CASE ReadEnded \/ ReadWait
      <3>1. PICK at \in {"wait", "complete", "read", "loop"} : read' = [read EXCEPT !.at = at]
        BY <2>6 DEF ReadEnded, ReadWait, ReadGoes
      <3>2. QED  BY <2>1, <3>1
    <2>7. CASE ReadPacket
      <3>1. read.pos + 1 \in 0 .. Length
        BY <2>1, <2>7, <1>0 DEF ReadPacket
      <3>2. QED  BY <2>1, <2>7, <3>1 DEF ReadPacket
    <2>8. QED
      BY <2>1, <2>2, <2>3, <2>4, <2>5, <2>6, <2>7, Footprint DEF ReadNext
  <1>4. {eof, completed, abort_request}' \subseteq BOOLEAN
    <2>1. eof \in BOOLEAN /\ completed \in BOOLEAN /\ abort_request \in BOOLEAN
      BY DEF TypeOK
    <2>2. eof' \in BOOLEAN
      BY <2>1, Footprint DEF ReadSought, ReadPacket, ReadEof
    <2>3. completed' \in BOOLEAN
      BY <2>1, Footprint DEF ReadSought, ReadEnded, PlayedOut
    <2>4. abort_request' \in BOOLEAN
      BY <2>1, Footprint DEF Close
    <2>5. QED  BY <2>2, <2>3, <2>4
  <1>5. decoder' \in [at : {"try", "receive", "get", "starved", "block", "check", "push", "done"},
                      pkt : Datas \cup {FlushPkt, NullPkt}, frame : Frames]
    <2>1. /\ decoder \in [at : {"try", "receive", "get", "starved", "block", "check", "push", "done"},
                          pkt : Datas \cup {FlushPkt, NullPkt}, frame : Frames]
          /\ pkt_serial \in Serials
      BY DEF TypeOK
    <2>2. CASE DecoderReceive
      <3>1. codec.pkts \in Seq([data : Datas, serial : Serials]) /\ codec.pkts # << >>
        BY <2>2 DEF DecoderReceive, TypeOK
      <3>2. Head(codec.pkts) \in [data : Datas, serial : Serials]
        BY <3>1, HeadTailProperties
      <3>3. [pos |-> Head(codec.pkts).data, serial |-> pkt_serial,
             from |-> Head(codec.pkts).serial] \in Frames
        BY <3>2, <2>1 DEF Frames, Datas
      <3>4. QED  BY <2>1, <2>2, <3>3 DEF DecoderReceive
    <2>3. CASE DecoderGet
      <3>1. videoq.pkts \in Seq(Packets) /\ videoq.pkts # << >>
        BY <2>3 DEF DecoderGet, Gettable, TypeOK
      <3>2. QueueGot(videoq) \in Packets
        BY <3>1, HeadTailProperties DEF QueueGot
      <3>3. QED  BY <2>1, <2>3, <3>2 DEF DecoderGet, Packets
    <2>4. CASE DecoderNext /\ ~DecoderReceive /\ ~DecoderGet
      BY <2>1, <2>4, <1>0 DEF DecoderNext, DecoderTry, DecoderAgain, DecoderFinished,
         DecoderStarves, DecoderBuffers, DecoderAborted, DecoderSkip, DecoderFlush,
         DecoderSend, DecoderPush, DecoderDrop, DecoderGoes, DecoderLeaves
    <2>5. QED  BY <2>1, <2>2, <2>3, <2>4, Footprint
  <1>6. {pkt_serial, finished, vidclk}' \subseteq Serials
    <2>1. pkt_serial \in Serials /\ finished \in Serials /\ vidclk \in Serials
      BY DEF TypeOK
    <2>2. CASE DecoderGet
      <3>1. videoq.pkts \in Seq(Packets) /\ videoq.pkts # << >>
        BY <2>2 DEF DecoderGet, Gettable, TypeOK
      <3>2. QueueGot(videoq).serial \in Serials
        <4>1. QueueGot(videoq) \in Packets
          BY <3>1, HeadTailProperties DEF QueueGot
        <4>2. QED  BY <4>1 DEF Packets
      <3>3. QED  BY <2>1, <2>2, <3>2 DEF DecoderGet, showVars, screen
    <2>3. pkt_serial' \in Serials
      BY <2>1, <2>2, Footprint
    <2>4. finished' \in Serials
      BY <2>1, <1>0, Footprint DEF DecoderFinished, DecoderFlush
    <2>5. vidclk' \in Serials
      <3>1. CASE RefreshDue
        <4>1. ready \in Seq(Frames) /\ ready # << >> /\ vidclk' = Head(ready).serial
          BY <3>1 DEF RefreshDue, RefreshInv, TypeOK
        <4>2. Head(ready) \in Frames
          BY <4>1, HeadTailProperties
        <4>3. QED  BY <4>1, <4>2, <1>0 DEF Frames, NoFrame
      <3>2. QED  BY <2>1, <3>1, Footprint
    <2>6. QED  BY <2>3, <2>4, <2>5
  <1>7. codec' \in [pkts : Seq([data : Datas, serial : Serials]), draining : BOOLEAN]
    <2>1. codec \in [pkts : Seq([data : Datas, serial : Serials]), draining : BOOLEAN]
      BY DEF TypeOK
    <2>2. CASE DecoderReceive
      <3>1. Tail(codec.pkts) \in Seq([data : Datas, serial : Serials])
        BY <2>1, <2>2, HeadTailProperties DEF DecoderReceive
      <3>2. QED  BY <2>1, <2>2, <3>1 DEF DecoderReceive
    <2>3. CASE DecoderFinished \/ DecoderFlush
      <3>1. << >> \in Seq([data : Datas, serial : Serials])
        OBVIOUS
      <3>2. \/ codec' = [codec EXCEPT !.draining = FALSE]
            \/ codec' = [pkts |-> << >>, draining |-> FALSE]
        BY <2>3 DEF DecoderFinished, DecoderFlush
      <3>3. [codec EXCEPT !.draining = FALSE]
               \in [pkts : Seq([data : Datas, serial : Serials]), draining : BOOLEAN]
        BY <2>1
      <3>4. [pkts |-> << >>, draining |-> FALSE]
               \in [pkts : Seq([data : Datas, serial : Serials]), draining : BOOLEAN]
        BY <3>1
      <3>5. QED  BY <3>2, <3>3, <3>4
    <2>4. CASE DecoderSend
      <3>1. decoder.pkt \in Datas \cup {FlushPkt, NullPkt} /\ pkt_serial \in Serials
        BY DEF TypeOK
      <3>2. decoder.pkt # NullPkt => [data |-> decoder.pkt, serial |-> pkt_serial]
                                        \in [data : Datas, serial : Serials]
        BY <2>4, <3>1 DEF DecoderSend
      <3>3. decoder.pkt # NullPkt => Append(codec.pkts, [data |-> decoder.pkt, serial |-> pkt_serial])
                                        \in Seq([data : Datas, serial : Serials])
        BY <2>1, <3>2
      <3>4. QED  BY <2>1, <2>4, <3>3 DEF DecoderSend
    <2>5. QED  BY <2>1, <2>2, <2>3, <2>4, Footprint
  <1>8. shown' \in Frames
    <2>1. shown \in Frames /\ last \in Frames
      BY DEF TypeOK
    <2>2. QED  BY <2>1, Footprint DEF RefreshShow
  <1>9. refresh' \in {"idle", "look", "due", "take", "step", "show", "done"}
    <2>1. refresh \in {"idle", "look", "due", "take", "step", "show", "done"}
      BY DEF TypeOK
    <2>2. RefreshNext => refresh' \in {"idle", "look", "due", "take", "step", "show", "done"}
      BY <2>1 DEF RefreshNext, RefreshIdle, RefreshLook, RefreshSkip, RefreshLater,
         RefreshDue, RefreshDrop, RefreshTake, RefreshStep, RefreshShow, showVars
    <2>3. QED  BY <2>1, <2>2, Footprint
  <1>10. play' \in Switches
    <2>1. play \in Switches
      BY DEF TypeOK
    <2>2. \A on \in BOOLEAN :
             /\ TogglePause(play, on) \in Switches
             /\ ToggleBuffering(play, on, PacketBuffering) \in Switches
             /\ ResumeOrStep(play, PacketBuffering) \in Switches
             /\ FrameShown(play) \in Switches
             /\ [play EXCEPT !.auto_resume = FALSE] \in Switches
      BY <2>1, SwitchesClosed
    <2>3. TRUE \in BOOLEAN /\ FALSE \in BOOLEAN
      OBVIOUS
    <2>4. QED
      BY <2>1, <2>2, <2>3, Footprint DEF PressPause, ReadLoop, ReadResume, ReadRebuffer,
         ReadFull, ReadEnded, ReadComplete, ReadPause, ReadCheckBuffering, ReadEof,
         DecoderBuffers, RefreshStep
  <1>11. ready' \in Seq(Frames) /\ last' \in Frames /\ InUse' <= Capacity
    BY FramesStep
  <1>12. {last, shown}' \subseteq Frames
    BY <1>8, <1>11
  <1>13. QED
    BY <1>1, <1>2, <1>3, <1>4, <1>5, <1>6, <1>7, <1>9, <1>10, <1>11, <1>12 DEF TypeOK, Queues

LEMMA RefreshInvStep == TypeOK /\ RefreshInv /\ [Next]_vars => RefreshInv'
  <1> SUFFICES ASSUME TypeOK, RefreshInv, [Next]_vars, refresh' \in {"due", "take"}
               PROVE  ready' # << >>
    BY DEF RefreshInv
  <1>0. ready \in Seq(Frames)
    BY DEF TypeOK
  <1>1. CASE UNCHANGED <<ready, last>>
    <2>1. CASE refresh' = refresh
      BY <2>1, <1>1 DEF RefreshInv
    <2>2. CASE RefreshNext
      BY <2>2, <1>1 DEF RefreshInv, RefreshNext, RefreshIdle, RefreshLook, RefreshSkip,
         RefreshLater, RefreshDue, RefreshDrop, RefreshTake, RefreshStep, RefreshShow, showVars
    <2>3. QED  BY <2>1, <2>2, Footprint
  <1>2. CASE DecoderPush
    <2>1. refresh' = refresh
      BY <1>2 DEF DecoderPush, showVars
    <2>2. ready' = ready \/ ready' = Append(ready, decoder.frame)
      BY <1>2 DEF DecoderPush
    <2>3. Append(ready, decoder.frame) # << >>
      <3>1. decoder.frame \in Frames
        BY DEF TypeOK
      <3>2. QED  BY <1>0, <3>1, AppendProperties
    <2>4. QED  BY <2>1, <2>2, <2>3 DEF RefreshInv
  <1>3. CASE RefreshSkip \/ RefreshDrop \/ RefreshTake
    BY <1>3 DEF RefreshSkip, RefreshDrop, RefreshTake, showVars
  <1>4. QED  BY <1>1, <1>2, <1>3, Footprint

LEMMA BaseInit == Init => BaseInv
  <1>1. Init => RefreshInv
    BY DEF Init, RefreshInv
  <1>2. QED  BY <1>1, TypeInit DEF BaseInv

LEMMA BaseStep == BaseInv /\ [Next]_vars => BaseInv'
  BY TypeStep, SeekStep, RefreshInvStep DEF BaseInv

\* Every record stays within its bounds: no more serials than seeks and one,
\* and never more frames than the frame queue holds.
THEOREM PlaybackTypeCorrect == Spec => []TypeOK
  <1>1. BaseInv => TypeOK
    BY DEF BaseInv
  <1>2. QED  BY <1>1, BaseInit, BaseStep, PTL DEF Spec

-----------------------------------------------------------------------------
(***************************************************************************)
(* The chain of serials in the packet queue.                               *)
(***************************************************************************)
\* What the types say of the serials that are compared below.
LEMMA SerialTypes ==
    ASSUME TypeOK
    PROVE  /\ videoq \in Queues /\ videoq.pkts \in Seq(Packets) /\ Len(videoq.pkts) \in Nat
           /\ pkt_serial \in Nat /\ finished \in Nat /\ videoq.serial \in Nat
           /\ \A i \in 1 .. Len(videoq.pkts) :
                 videoq.pkts[i] \in Packets /\ videoq.pkts[i].serial \in Nat
  <1>1. Serials \subseteq Nat
    BY PlaybackAssumption DEF Serials
  <1>2. videoq \in Queues /\ pkt_serial \in Serials /\ finished \in Serials
    BY DEF TypeOK, Queues
  <1>3. videoq.pkts \in Seq(Packets) /\ videoq.serial \in Serials /\ Len(videoq.pkts) \in Nat
    BY <1>2 DEF Queues
  <1>4. ASSUME NEW i \in 1 .. Len(videoq.pkts) PROVE videoq.pkts[i] \in Packets
    BY <1>3
  <1>5. \A r \in Packets : r.serial \in Nat
    BY <1>1 DEF Packets
  <1>6. QED  BY <1>1, <1>2, <1>3, <1>4, <1>5

\* The end of the chain is at most the serial of the queue.
LEMMA EndBound ==
    ASSUME TypeOK, ChainInv
    PROVE  LET end == Before(Len(videoq.pkts) + 1)
           IN  end \in Nat /\ pkt_serial <= end /\ end <= videoq.serial
  <1>1. CASE Len(videoq.pkts) = 0
    BY <1>1, SerialTypes DEF Before, ChainInv
  <1>2. CASE Len(videoq.pkts) > 0
    <2>1. Len(videoq.pkts) \in 1 .. Len(videoq.pkts) /\ Len(videoq.pkts) + 1 # 1
          /\ (Len(videoq.pkts) + 1) - 1 = Len(videoq.pkts)
      BY <1>2, SerialTypes
    <2>2. videoq.pkts[Len(videoq.pkts)].serial \in pkt_serial .. videoq.serial
      BY <2>1 DEF ChainInv
    <2>3. QED  BY <2>1, <2>2, SerialTypes DEF Before
  <1>3. QED  BY <1>1, <1>2, SerialTypes

\* A packet put to the queue goes on with the chain.
LEMMA ChainPut ==
    ASSUME TypeOK, ChainInv, ~videoq.abort_request,
           NEW packet \in Packets,
           UNCHANGED <<pkt_serial, finished>>,
           videoq'.pkts = Append(videoq.pkts, packet), videoq'.serial = packet.serial,
           IF packet.data = FlushPkt THEN packet.serial = videoq.serial + 1
           ELSE packet.serial = videoq.serial /\ Before(Len(videoq.pkts) + 1) = videoq.serial
    PROVE  ChainInv' /\ Before(Len(videoq.pkts) + 1)' = videoq'.serial
  <1> DEFINE n == Len(videoq.pkts)
             S == videoq.serial
  <1>1. /\ n \in Nat /\ S \in Nat /\ pkt_serial \in Nat /\ finished \in Nat
        /\ videoq.pkts \in Seq(Packets)
        /\ \A i \in 1 .. n : videoq.pkts[i].serial \in Nat
    BY SerialTypes
  <1>2. /\ Len(videoq'.pkts) = n + 1 /\ videoq'.pkts[n + 1] = packet
        /\ \A i \in 1 .. n : videoq'.pkts[i] = videoq.pkts[i]
    BY <1>1
  <1>3. packet.serial \in Nat /\ packet.serial >= S /\ S >= pkt_serial
    BY <1>1 DEF ChainInv
  <1>4. Before(n + 1) \in Nat /\ Before(n + 1) <= S
    BY EndBound
  <1>5. ASSUME NEW i \in 1 .. n + 1 PROVE Before(i)' = Before(i)
    BY <1>1, <1>2 DEF Before
  <1>6. ASSUME NEW i \in 1 .. n + 1
        PROVE  /\ videoq'.pkts[i].serial \in pkt_serial .. packet.serial
               /\ IF videoq'.pkts[i].data = FlushPkt
                  THEN videoq'.pkts[i].serial > Before(i)
                  ELSE videoq'.pkts[i].serial = Before(i)
    <2>1. CASE i = n + 1
      BY <2>1, <1>1, <1>2, <1>3, <1>4
    <2>2. CASE i # n + 1
      <3>1. i \in 1 .. n
        BY <2>2, <1>1
      <3>2. /\ videoq.pkts[i].serial \in pkt_serial .. S
            /\ IF videoq.pkts[i].data = FlushPkt
               THEN videoq.pkts[i].serial > Before(i)
               ELSE videoq.pkts[i].serial = Before(i)
        BY <3>1 DEF ChainInv
      <3>3. QED  BY <3>1, <3>2, <1>1, <1>2, <1>3
    <2>3. QED  BY <2>1, <2>2
  <1>7. ASSUME NEW i \in 1 .. n + 1, NEW j \in 1 .. i
        PROVE  videoq'.pkts[j].serial <= videoq'.pkts[i].serial
    <2>1. CASE i = n + 1
      <3>1. videoq'.pkts[j].serial <= packet.serial /\ videoq'.pkts[i] = packet
        BY <2>1, <1>6, <1>2, <1>1, <1>3
      <3>2. QED  BY <3>1
    <2>2. CASE i # n + 1
      <3>1. i \in 1 .. n /\ j \in 1 .. n
        BY <2>2, <1>1
      <3>2. videoq.pkts[j].serial <= videoq.pkts[i].serial
        BY <3>1 DEF ChainInv
      <3>3. QED  BY <3>1, <3>2, <1>2
    <2>3. QED  BY <2>1, <2>2
  <1>8. finished' <= pkt_serial' /\ pkt_serial' <= packet.serial
    BY <1>1, <1>3 DEF ChainInv
  <1>9. ChainInv'
    BY <1>2, <1>5, <1>6, <1>7, <1>8 DEF ChainInv
  <1>10. Before(Len(videoq.pkts) + 1)' = packet.serial
    <2>1. Len(videoq'.pkts) + 1 # 1 /\ (Len(videoq'.pkts) + 1) - 1 = n + 1
      BY <1>1, <1>2
    <2>2. QED  BY <2>1, <1>2 DEF Before
  <1>11. QED  BY <1>9, <1>10

\* The decoder takes the first link of the chain.
LEMMA ChainGet ==
    ASSUME TypeOK, ChainInv, DecoderGet
    PROVE  /\ ChainInv'
           /\ Before(Len(videoq.pkts) + 1)' = Before(Len(videoq.pkts) + 1)
  <1> DEFINE n == Len(videoq.pkts)
             S == videoq.serial
  <1>1. /\ n \in Nat /\ S \in Nat /\ pkt_serial \in Nat /\ finished \in Nat
        /\ videoq \in Queues /\ videoq.pkts \in Seq(Packets)
        /\ \A i \in 1 .. n : videoq.pkts[i].serial \in Nat
    BY SerialTypes
  <1>2. /\ videoq.pkts # << >> /\ finished' = finished
        /\ pkt_serial' = videoq.pkts[1].serial
        /\ videoq' = [videoq EXCEPT !.pkts = Tail(@)]
    BY <1>1 DEF DecoderGet, Gettable, QueueGot, QueueGet
  <1>3. videoq'.pkts = Tail(videoq.pkts) /\ videoq'.serial = S
    BY <1>1, <1>2 DEF Queues
  <1>4. /\ n > 0 /\ Len(videoq'.pkts) = n - 1
        /\ \A i \in 1 .. n - 1 : videoq'.pkts[i] = videoq.pkts[i + 1]
    BY <1>1, <1>2, <1>3, HeadTailProperties
  <1>5. 1 \in 1 .. n
    BY <1>1, <1>4
  <1>6. ASSUME NEW i \in 1 .. n PROVE Before(i)' = Before(i + 1)
    <2>1. i + 1 # 1 /\ (i + 1) - 1 = i /\ Before(i + 1) = videoq.pkts[i].serial
      BY <1>1 DEF Before
    <2>2. CASE i = 1
      BY <2>1, <2>2, <1>2 DEF Before
    <2>3. CASE i # 1
      <3>1. i - 1 \in 1 .. n - 1 /\ (i - 1) + 1 = i
        BY <2>3, <1>1
      <3>2. videoq'.pkts[i - 1] = videoq.pkts[i]
        BY <3>1, <1>4
      <3>3. QED  BY <2>1, <2>3, <3>2 DEF Before
    <2>4. QED  BY <2>2, <2>3
  <1>7. ASSUME NEW i \in 1 .. n - 1
        PROVE  /\ videoq'.pkts[i].serial \in pkt_serial' .. S
               /\ IF videoq'.pkts[i].data = FlushPkt
                  THEN videoq'.pkts[i].serial > Before(i)'
                  ELSE videoq'.pkts[i].serial = Before(i)'
    <2>1. i + 1 \in 1 .. n /\ i \in 1 .. n /\ 1 \in 1 .. i + 1
      BY <1>1
    <2>2. /\ videoq.pkts[i + 1].serial \in pkt_serial .. S
          /\ IF videoq.pkts[i + 1].data = FlushPkt
             THEN videoq.pkts[i + 1].serial > Before(i + 1)
             ELSE videoq.pkts[i + 1].serial = Before(i + 1)
          /\ videoq.pkts[1].serial <= videoq.pkts[i + 1].serial
      BY <2>1 DEF ChainInv
    <2>3. videoq'.pkts[i] = videoq.pkts[i + 1] /\ Before(i)' = Before(i + 1)
      BY <2>1, <1>4, <1>6
    <2>4. videoq.pkts[1].serial \in Nat /\ videoq.pkts[i + 1].serial \in Nat
      BY <2>1, <1>1, <1>5
    <2>5. QED  BY <2>2, <2>3, <2>4, <1>1, <1>2
  <1>8. ASSUME NEW i \in 1 .. n - 1, NEW j \in 1 .. i
        PROVE  videoq'.pkts[j].serial <= videoq'.pkts[i].serial
    <2>1. j \in 1 .. n - 1 /\ i + 1 \in 1 .. n /\ j + 1 \in 1 .. i + 1
      BY <1>1
    <2>2. videoq.pkts[j + 1].serial <= videoq.pkts[i + 1].serial
      BY <2>1 DEF ChainInv
    <2>3. QED  BY <2>1, <2>2, <1>4
  <1>9. finished' <= pkt_serial' /\ pkt_serial' <= S
    <2>1. videoq.pkts[1].serial \in pkt_serial .. S /\ finished <= pkt_serial
      BY <1>5 DEF ChainInv
    <2>2. QED  BY <2>1, <1>1, <1>2, <1>5
  <1>10. ChainInv'
    BY <1>3, <1>4, <1>7, <1>8, <1>9 DEF ChainInv
  <1>11. Before(Len(videoq.pkts) + 1)' = Before(n + 1)
    <2>1. n \in 1 .. n /\ Len(videoq'.pkts) + 1 = n
      BY <1>1, <1>4
    <2>2. QED  BY <2>1, <1>6 DEF Before
  <1>12. QED  BY <1>10, <1>11

LEMMA ChainInit == Init => ChainInv /\ EndInv
  <1> SUFFICES ASSUME Init PROVE ChainInv /\ EndInv
    OBVIOUS
  <1>1. /\ videoq.serial = 1 /\ Len(videoq.pkts) = 1 /\ pkt_serial = 0 /\ finished = 0
        /\ videoq.pkts[1].data = FlushPkt /\ videoq.pkts[1].serial = 1
    <2>1. pkt_serial = 0 /\ finished = 0
      BY DEF Init
    <2>2. videoq.pkts[1] = [data |-> FlushPkt, serial |-> 1]
      BY QueueInit
    <2>3. QED  BY <2>1, <2>2, QueueInit
  <1>2. Before(1) = 0 /\ Before(2) = 1
    BY <1>1 DEF Before
  <1>3. 1 .. Len(videoq.pkts) = {1} /\ Len(videoq.pkts) + 1 = 2
    BY <1>1
  <1>4. QED  BY <1>1, <1>2, <1>3 DEF ChainInv, EndInv

LEMMA ChainStep == BaseInv /\ ChainInv /\ EndInv /\ [Next]_vars => ChainInv' /\ EndInv'
  <1> SUFFICES ASSUME TypeOK, SeekInv, ChainInv, EndInv, [Next]_vars PROVE ChainInv' /\ EndInv'
    BY DEF BaseInv
  <1>0. /\ videoq \in Queues /\ videoq.serial \in Nat /\ pkt_serial \in Nat /\ finished \in Nat
        /\ finished <= pkt_serial /\ pkt_serial <= videoq.serial
        /\ DOMAIN read = {"at", "target", "pos"} /\ read.pos \in 0 .. Length /\ Length \in Nat
    BY SerialTypes, PlaybackAssumption DEF TypeOK, ChainInv
  <1>1. CASE CloseQueue
    <2>1. /\ videoq'.pkts = videoq.pkts /\ videoq'.serial = videoq.serial
          /\ videoq'.abort_request /\ UNCHANGED <<pkt_serial, finished>>
      BY <1>1, <1>0 DEF CloseQueue, QueueAbort, Queues, decodeVars
    <2>2. \A i : Before(i)' = Before(i)
      BY <2>1 DEF Before
    <2>3. QED  BY <2>1, <2>2 DEF ChainInv, EndInv
  <1>2. CASE ReadFlush
    <2>1. /\ videoq'.pkts = << >> /\ videoq'.serial = videoq.serial
          /\ UNCHANGED <<pkt_serial, finished>> /\ read'.at = "putflush"
      BY <1>2, <1>0 DEF ReadFlush, ReadGoes, QueueFlush, Queues, decodeVars
    <2>2. 1 .. Len(videoq'.pkts) = {}
      BY <2>1
    <2>3. QED  BY <2>1, <2>2, <1>0 DEF ChainInv, EndInv
  <1>3. ASSUME NEW data \in Datas \cup {FlushPkt, NullPkt}, 
               read.at = IF data = FlushPkt THEN "putflush" ELSE "read",
               videoq' = PutPrivate(videoq, data), UNCHANGED <<pkt_serial, finished>>
        PROVE  ChainInv' /\ EndInv'
    <2>1. CASE videoq.abort_request
      <3>1. videoq' = videoq
        BY <1>3, <2>1 DEF PutPrivate
      <3>2. \A i : Before(i)' = Before(i)
        BY <3>1, <1>3 DEF Before
      <3>3. QED  BY <3>1, <3>2, <2>1, <1>3 DEF ChainInv, EndInv
    <2>2. CASE ~videoq.abort_request
      <3> DEFINE serial == IF data = FlushPkt THEN videoq.serial + 1 ELSE videoq.serial
                 packet == [data |-> data, serial |-> serial]
      <3>1. serial \in Serials
        <4>1. CASE data = FlushPkt
          <5>1. videoq.serial <= seeks /\ seeks <= MaxSeeks /\ seeks \in Nat /\ MaxSeeks \in Nat
            BY <4>1, <1>3, PlaybackAssumption DEF SeekInv
          <5>2. QED  BY <5>1, <4>1, <1>0 DEF Serials
        <4>2. CASE data # FlushPkt
          BY <4>2, <1>0 DEF Queues
        <4>3. QED  BY <4>1, <4>2
      <3>2. packet \in Packets /\ packet.data = data /\ packet.serial = serial
        BY <3>1, <1>3 DEF Packets
      <3>3. videoq'.pkts = Append(videoq.pkts, packet) /\ videoq'.serial = packet.serial
        BY <3>1, <3>2, <2>2, <1>0, <1>3, PutEffect
      <3>4. data # FlushPkt => Before(Len(videoq.pkts) + 1) = videoq.serial
        BY <2>2, <1>3 DEF EndInv
      <3> HIDE DEF packet
      <3>5. ChainInv' /\ Before(Len(videoq.pkts) + 1)' = videoq'.serial
        BY <3>2, <3>3, <3>4, <2>2, <1>3, ChainPut
      <3>6. QED  BY <3>5 DEF EndInv
    <2>3. QED  BY <2>1, <2>2
  <1>4. CASE ReadPutFlush
    BY <1>3, <1>4 DEF ReadPutFlush, decodeVars
  <1>5. CASE ReadPacket
    <2>1. read.pos \in Datas /\ read.pos # FlushPkt /\ read.at = "read"
      BY <1>5, <1>0 DEF ReadPacket, Datas, FlushPkt
    <2>2. QED  BY <1>3, <1>5, <2>1 DEF ReadPacket, decodeVars
  <1>6. CASE ReadEof /\ ~eof
    <2>1. NullPkt # FlushPkt
      BY DEF NullPkt, FlushPkt
    <2>2. QED  BY <1>3, <1>6, <2>1 DEF ReadEof, decodeVars
  <1>7. CASE DecoderGet
    <2>1. ChainInv' /\ Before(Len(videoq.pkts) + 1)' = Before(Len(videoq.pkts) + 1)
      BY <1>7, ChainGet
    <2>2. /\ ~videoq.abort_request /\ videoq.pkts # << >> /\ videoq'.serial = videoq.serial
      BY <1>7, <1>0 DEF DecoderGet, Gettable, QueueGet, Queues
    <2>3. Before(Len(videoq.pkts) + 1) = videoq.serial
      BY <2>2 DEF EndInv
    <2>4. QED  BY <2>1, <2>2, <2>3 DEF EndInv
  <1>8. CASE videoq' = videoq /\ pkt_serial' = pkt_serial
    <2>1. \A i : Before(i)' = Before(i)
      BY <1>8 DEF Before
    <2>2. finished' \in {finished, pkt_serial, 0}
      BY Footprint DEF DecoderFinished, DecoderFlush
    <2>3. ChainInv'
      BY <1>8, <2>1, <2>2, <1>0 DEF ChainInv
    <2>4. read.at = "putflush" => read' = read \/ ReadPutFlush
      <3>1. read.at = "putflush" /\ ReadNext => ReadPutFlush
        BY DEF ReadNext, ReadLoop, ReadSeekFile, ReadFlush, ReadSought, ReadResume,
           ReadRebuffer, ReadFull, ReadEnded, ReadComplete, ReadPause, ReadWait, ReadPacket,
           ReadCheckBuffering, ReadEof
      <3>2. QED  BY <3>1, Footprint
    <2>5. EndInv'
      <3>1. CASE ReadPutFlush
        BY <1>4, <3>1
      <3>2. CASE ~ReadPutFlush
        BY <1>8, <2>1, <2>4, <3>2 DEF EndInv
      <3>3. QED  BY <3>1, <3>2
    <2>6. QED  BY <2>3, <2>5
  <1>9. CASE ReadEof /\ eof
    <2>1. videoq' = videoq /\ pkt_serial' = pkt_serial
      BY <1>9 DEF ReadEof, decodeVars
    <2>2. QED  BY <2>1, <1>8
  <1>10. QED
    BY <1>1, <1>2, <1>4, <1>5, <1>6, <1>7, <1>8, <1>9, Footprint

-----------------------------------------------------------------------------
(***************************************************************************)
(* The codec holds nothing of an earlier serial when frames come out.      *)
(***************************************************************************)
\* What the decoder takes has its serial already, or is a flush packet.
LEMMA GetSerial ==
    ASSUME TypeOK, ChainInv, DecoderGet
    PROVE  pkt_serial' = pkt_serial \/ QueueGot(videoq).data = FlushPkt
  <1>1. videoq.pkts # << >> /\ Len(videoq.pkts) \in Nat /\ videoq.pkts \in Seq(Packets)
        /\ pkt_serial' = videoq.pkts[1].serial /\ QueueGot(videoq) = videoq.pkts[1]
    BY SerialTypes DEF DecoderGet, Gettable, QueueGot
  <1>2. 1 \in 1 .. Len(videoq.pkts)
    BY <1>1
  <1>3. videoq.pkts[1].data # FlushPkt => videoq.pkts[1].serial = Before(1)
    BY <1>2 DEF ChainInv
  <1>4. QED  BY <1>1, <1>3 DEF Before

LEMMA CodecStep == BaseInv /\ ChainInv /\ EndInv /\ CodecInv /\ [Next]_vars => CodecInv'
  <1> SUFFICES ASSUME TypeOK, ChainInv, ChainInv', CodecInv, [Next]_vars PROVE CodecInv'
    BY ChainStep DEF BaseInv
  <1>0. /\ videoq \in Queues /\ pkt_serial \in Nat /\ videoq.serial \in Nat
        /\ pkt_serial <= videoq.serial
        /\ codec.pkts \in Seq([data : Datas, serial : Serials])
        /\ DOMAIN decoder = {"at", "pkt", "frame"} /\ DOMAIN codec = {"pkts", "draining"}
    BY SerialTypes DEF TypeOK, ChainInv
  <1>1. videoq'.serial \in Nat /\ videoq'.serial >= videoq.serial
    <2>1. CASE ReadPutFlush
      <3>1. videoq' = PutPrivate(videoq, FlushPkt)
        BY <2>1 DEF ReadPutFlush
      <3>2. PutPrivate(videoq, FlushPkt).serial \in {videoq.serial, videoq.serial + 1}
        BY <1>0 DEF PutPrivate, Queues
      <3>3. QED  BY <3>1, <3>2, <1>0
    <2>2. QED  BY <2>1, <1>0, SerialStays
  <1>2. CASE DecoderReceive
    <2>1. /\ decoder'.at = "push" /\ pkt_serial' = pkt_serial /\ CodecFresh
          /\ codec'.pkts = Tail(codec.pkts) /\ codec.pkts # << >>
      BY <1>2, <1>0 DEF DecoderReceive, CodecInv
    <2>2. /\ Len(Tail(codec.pkts)) = Len(codec.pkts) - 1 /\ Len(codec.pkts) \in Nat
          /\ \A i \in 1 .. Len(codec.pkts) - 1 : Tail(codec.pkts)[i] = codec.pkts[i + 1]
      BY <2>1, <1>0, HeadTailProperties
    <2>3. CodecFresh'
      BY <2>1, <2>2 DEF CodecFresh
    <2>4. QED  BY <2>1, <2>3 DEF CodecInv
  <1>3. CASE DecoderFinished
    <2>1. decoder'.at = "try" /\ pkt_serial' = pkt_serial /\ CodecFresh /\ codec'.pkts = codec.pkts
      BY <1>3, <1>0 DEF DecoderFinished, DecoderGoes, CodecInv
    <2>2. QED  BY <2>1 DEF CodecInv, CodecFresh
  <1>4. CASE DecoderFlush
    <2>1. decoder'.at = "try" /\ codec'.pkts = << >>
      BY <1>4, <1>0 DEF DecoderFlush
    <2>2. QED  BY <2>1 DEF CodecInv, CodecFresh
  <1>5. CASE DecoderSend
    <2>1. /\ decoder'.at = "try" /\ pkt_serial' = pkt_serial /\ decoder.pkt # FlushPkt
          /\ decoder.at = "check" /\ videoq.serial = pkt_serial
      BY <1>5, <1>0 DEF DecoderSend
    <2>2. CodecFresh
      BY <2>1, <1>0 DEF CodecInv
    <2>3. CASE codec'.pkts = codec.pkts
      BY <2>1, <2>2, <2>3 DEF CodecInv, CodecFresh
    <2>4. CASE codec' = [codec EXCEPT !.pkts = Append(@, [data |-> decoder.pkt, serial |-> pkt_serial])]
      <3> DEFINE packet == [data |-> decoder.pkt, serial |-> pkt_serial]
      <3>1. packet.serial = pkt_serial /\ codec'.pkts = Append(codec.pkts, packet)
        BY <2>4, <1>0
      <3> HIDE DEF packet
      <3>2. /\ Len(codec'.pkts) = Len(codec.pkts) + 1 /\ Len(codec.pkts) \in Nat
            /\ codec'.pkts[Len(codec.pkts) + 1] = packet
            /\ \A i \in 1 .. Len(codec.pkts) : codec'.pkts[i] = codec.pkts[i]
        BY <3>1, <1>0
      <3>3. CodecFresh'
        BY <3>1, <3>2, <2>1, <2>2 DEF CodecFresh
      <3>4. QED  BY <3>3, <2>1 DEF CodecInv
    <2>5. QED  BY <2>3, <2>4, <1>5, <1>0 DEF DecoderSend
  <1>6. CASE DecoderGet
    <2>1. /\ codec' = codec /\ videoq'.serial = videoq.serial
          /\ decoder.at \in {"get", "block"} /\ decoder'.at \in {"get", "check"}
          /\ decoder'.at = "check" => decoder'.pkt = QueueGot(videoq).data
      BY <1>6, <1>0 DEF DecoderGet, QueueGet, Queues
    <2>2. CASE decoder'.at = "check" /\ QueueGot(videoq).data = FlushPkt
      BY <2>1, <2>2 DEF CodecInv
    <2>3. CASE pkt_serial' = pkt_serial
      BY <2>1, <2>3 DEF CodecInv, CodecFresh
    <2>4. CASE decoder'.at = "get" /\ QueueGot(videoq).data = FlushPkt
      <3>1. finished = QueueGot(videoq).serial
        BY <2>1, <2>4, <1>6, <1>0 DEF DecoderGet
      <3>2. videoq.pkts # << >> /\ QueueGot(videoq) = videoq.pkts[1]
            /\ 1 \in 1 .. Len(videoq.pkts)
        BY <1>6, SerialTypes DEF DecoderGet, Gettable, QueueGot
      <3>3. videoq.pkts[1].serial > Before(1) /\ Before(1) = pkt_serial /\ finished <= pkt_serial
        BY <2>4, <3>2 DEF ChainInv, Before
      <3>4. QED  BY <3>1, <3>2, <3>3, SerialTypes
    <2>5. QED  BY <2>1, <2>2, <2>3, <2>4, <1>6, GetSerial
  <1>7. ASSUME UNCHANGED <<codec, pkt_serial>> PROVE CodecInv'
    <2>1. CodecFresh' <=> CodecFresh
      BY <1>7 DEF CodecFresh
    <2>2. CASE decoder' = decoder
      BY <2>1, <2>2, <1>7, <1>0, <1>1 DEF CodecInv
    <2>3. CASE DecoderTry \/ DecoderAgain \/ DecoderPush \/ DecoderDrop
      BY <2>1, <2>3, <1>0 DEF CodecInv, DecoderTry, DecoderAgain, DecoderPush, DecoderDrop,
         DecoderGoes, DecoderLeaves
    <2>4. CASE DecoderStarves \/ DecoderBuffers
      BY <2>1, <2>4, <1>7, <1>0, <1>1 DEF CodecInv, DecoderStarves, DecoderBuffers, DecoderGoes
    <2>5. CASE DecoderAborted
      BY <2>5, <1>0 DEF CodecInv, DecoderAborted, DecoderGoes
    <2>6. CASE DecoderSkip
      <3>1. videoq'.serial > pkt_serial' /\ decoder'.at = "get"
        BY <2>6, <1>7, <1>0, <1>1 DEF DecoderSkip
      <3>2. QED  BY <3>1 DEF CodecInv
    <2>7. QED
      BY <1>2, <1>3, <1>4, <1>5, <1>6, <2>2, <2>3, <2>4, <2>5, <2>6, Footprint DEF DecoderNext
  <1>8. QED  BY <1>2, <1>3, <1>4, <1>5, <1>6, <1>7, Footprint

-----------------------------------------------------------------------------
(***************************************************************************)
(* So a frame's serial is that of its packet.                              *)
(***************************************************************************)
LEMMA FramesInit == Init => FramesTrue /\ CodecInv
  BY DEF Init, FramesTrue, True, NoFrame, CodecInv, CodecFresh

LEMMA FramesTrueStep == BaseInv /\ CodecInv /\ FramesTrue /\ [Next]_vars => FramesTrue'
  <1> SUFFICES ASSUME TypeOK, RefreshInv, CodecInv, FramesTrue, [Next]_vars PROVE FramesTrue'
    BY DEF BaseInv
  <1>0. /\ ready \in Seq(Frames) /\ Len(ready) \in Nat /\ decoder.frame \in Frames
        /\ codec.pkts \in Seq([data : Datas, serial : Serials])
        /\ DOMAIN decoder = {"at", "pkt", "frame"}
    BY DEF TypeOK
  <1>1. True(NoFrame)
    BY DEF True, NoFrame
  <1>2. True(decoder.frame)'
    <2>1. CASE DecoderReceive
      <3>1. CodecFresh /\ codec.pkts # << >>
        BY <2>1 DEF DecoderReceive, CodecInv
      <3>2. Head(codec.pkts).serial = pkt_serial
        <4>1. 1 \in 1 .. Len(codec.pkts) /\ Head(codec.pkts) = codec.pkts[1]
          BY <3>1, <1>0
        <4>2. QED  BY <4>1, <3>1 DEF CodecFresh
      <3>3. decoder'.frame = [pos |-> Head(codec.pkts).data, serial |-> pkt_serial,
                              from |-> Head(codec.pkts).serial]
        BY <2>1, <1>0 DEF DecoderReceive
      <3>4. QED  BY <3>2, <3>3 DEF True
    <2>2. CASE DecoderNext /\ ~DecoderReceive
      <3>1. decoder'.frame \in {decoder.frame, NoFrame}
        BY <2>2, <1>0 DEF DecoderNext, DecoderTry, DecoderAgain, DecoderFinished,
           DecoderStarves, DecoderBuffers, DecoderGet, DecoderAborted, DecoderSkip,
           DecoderFlush, DecoderSend, DecoderPush, DecoderDrop, DecoderGoes, DecoderLeaves
      <3>2. QED  BY <3>1, <1>1 DEF FramesTrue
    <2>3. QED  BY <2>1, <2>2, Footprint DEF FramesTrue
  <1>3. True(shown)'
    BY Footprint DEF RefreshShow, FramesTrue
  <1>4. True(last)' /\ \A i \in 1 .. Len(ready') : True(ready'[i])
    <2>1. CASE UNCHANGED <<ready, last>>
      BY <2>1 DEF FramesTrue
    <2>2. CASE DecoderPush
      <3>1. last' = last /\ (ready' = ready \/ ready' = Append(ready, decoder.frame))
        BY <2>2 DEF DecoderPush
      <3>2. CASE ready' = ready
        BY <3>1, <3>2 DEF FramesTrue
      <3>3. CASE ready' = Append(ready, decoder.frame)
        <4>1. /\ Len(ready') = Len(ready) + 1 /\ ready'[Len(ready) + 1] = decoder.frame
              /\ \A i \in 1 .. Len(ready) : ready'[i] = ready[i]
          BY <3>3, <1>0, AppendProperties
        <4>2. QED  BY <3>1, <4>1, <1>0 DEF FramesTrue
      <3>4. QED  BY <3>1, <3>2, <3>3
    <2>3. CASE RefreshSkip \/ RefreshDrop \/ RefreshTake
      <3>1. ready # << >> /\ last' = Head(ready) /\ ready' = Tail(ready)
        BY <2>3 DEF RefreshSkip, RefreshDrop, RefreshTake, TakeFrame, RefreshInv
      <3>2. /\ 1 \in 1 .. Len(ready) /\ Head(ready) = ready[1]
            /\ Len(Tail(ready)) = Len(ready) - 1
            /\ \A i \in 1 .. Len(ready) - 1 : Tail(ready)[i] = ready[i + 1]
        BY <3>1, <1>0, HeadTailProperties
      <3>3. QED  BY <3>1, <3>2, <1>0 DEF FramesTrue
    <2>4. QED  BY <2>1, <2>2, <2>3, Footprint
  <1>5. QED  BY <1>2, <1>3, <1>4 DEF FramesTrue

\* No frame is ever tagged with a serial that is not its packet's, although
\* the decoder tags frames with the serial of the packet it took last: for
\* inputs of any length, any delay in the codec and any number of seeks.
THEOREM SerialsAreTrue == Spec => []SerialIsTrue
  <1>1. Init => IInv
    BY BaseInit, ChainInit, FramesInit DEF IInv
  <1>2. IInv /\ [Next]_vars => IInv'
    BY BaseStep, ChainStep, CodecStep, FramesTrueStep DEF IInv
  <1>3. IInv => SerialIsTrue
    BY DEF IInv, FramesTrue, True, SerialIsTrue, Remaining
  <1>4. QED  BY <1>1, <1>2, <1>3, PTL DEF Spec

-----------------------------------------------------------------------------
(***************************************************************************)
(* At most one late frame.                                                 *)
(***************************************************************************)
LEMMA LateInit == Init => LateInv
  BY DEF Init, LateInv

LEMMA LateStep == BaseInv /\ LateInv /\ [Next]_vars => LateInv'
  <1> SUFFICES ASSUME TypeOK, RefreshInv, LateInv, [Next]_vars PROVE LateInv'
    BY DEF BaseInv
  <1>0. ready \in Seq(Frames) /\ Len(ready) \in Nat /\ videoq \in Queues /\ decoder.frame \in Frames
    BY DEF TypeOK, Queues
  <1>1. CASE ReadPutFlush
    BY <1>1 DEF ReadPutFlush, LateInv
  <1>2. CASE ~ReadPutFlush
    <2>1. videoq'.serial = videoq.serial
      BY <1>2, SerialStays
    <2>2. CASE RefreshIdle \/ RefreshLater \/ RefreshLook \/ RefreshDue \/ RefreshStep
      BY <2>1, <2>2 DEF LateInv, RefreshIdle, RefreshLater, RefreshLook, RefreshDue,
         RefreshStep, frames, screen
    <2>3. CASE RefreshSkip \/ RefreshDrop \/ RefreshTake
      <3>1. /\ late' = late /\ last' = Head(ready) /\ refresh' \in {"look", "step"}
            /\ refresh' = "step" => refresh = "take"
        BY <2>3 DEF RefreshSkip, RefreshDrop, RefreshTake, TakeFrame, showVars, screen
      <3>2. QED  BY <2>1, <3>1 DEF LateInv
    <2>4. CASE RefreshShow
      <3>1. late' = (IF last.serial = videoq.serial THEN late ELSE late + 1) /\ refresh = "show"
            /\ refresh' = "idle"
        BY <2>4 DEF RefreshShow
      <3>2. QED  BY <3>1 DEF LateInv
    <2>5. CASE DecoderPush
      <3>1. /\ UNCHANGED <<last, refresh, late>>
            /\ ready' = ready \/ ready' = Append(ready, decoder.frame)
        BY <2>5 DEF DecoderPush, showVars, screen
      <3>2. ready # << >> => Head(Append(ready, decoder.frame)) = Head(ready)
        BY <1>0
      <3>3. refresh \in {"due", "take"} => ready # << >>
        BY DEF RefreshInv
      <3>4. QED  BY <2>1, <3>1, <3>2, <3>3 DEF LateInv
    <2>6. CASE UNCHANGED <<refresh, ready, last, late>>
      BY <2>1, <2>6 DEF LateInv
    <2>7. QED
      BY <2>2, <2>3, <2>4, <2>5, <2>6, <1>2, Footprint DEF RefreshNext
  <1>3. QED  BY <1>1, <1>2

\* A frame from before a seek is shown at most once after it, whatever the
\* threads do between the look at the frame and the screen.
THEOREM OneFrameLate == Spec => []OneLateFrame
  <1>1. LateInv => OneLateFrame
    BY DEF LateInv, OneLateFrame
  <1>2. QED  BY <1>1, BaseInit, BaseStep, LateInit, LateStep, PTL DEF Spec

-----------------------------------------------------------------------------
(***************************************************************************)
(* The order of packets and frames.  Say that the packets of a serial are  *)
(* put in the places of the input: place n holds the packet at position n, *)
(* and from Length on null packets.  Then what is queued begins at some    *)
(* place q and what the codec was sent ends before some place c; the two   *)
(* are the same place, or one packet apart, as long as no seek is between  *)
(* the threads.  The proofs below name q and c, which the code does not    *)
(* keep, by an existential quantifier.                                     *)
(***************************************************************************)
\* The packet at a place, and the frames that come out before it.
Datum(n) == IF n < Length THEN n ELSE NullPkt
Cap(n)   == IF n < Length THEN n ELSE Length

\* The packet the decoder has taken and not yet looked at.
AtFlush == decoder.at = "check" /\ decoder.pkt = FlushPkt
InHand  == decoder.at = "check" /\ decoder.pkt # FlushPkt

\* The frame that was put in the frame queue last.
Newest == IF ready # << >> THEN ready[Len(ready)] ELSE last

SerialsInv ==
    /\ videoq.serial >= 1
    /\ \A i \in 1 .. Len(videoq.pkts) : videoq.pkts[i].serial = videoq.serial
    /\ read.at = "putflush" => videoq.pkts = << >>
    /\ \A i \in 1 .. Len(codec.pkts) : codec.pkts[i].serial \in 1 .. pkt_serial
    /\ Newest.serial <= pkt_serial
    /\ AtFlush => /\ finished < pkt_serial /\ Newest.serial < pkt_serial
                  /\ \A i \in 1 .. Len(codec.pkts) : codec.pkts[i].serial < pkt_serial
    /\ decoder.at = "push" => decoder.frame.serial = pkt_serial /\ pkt_serial >= 1
    /\ videoq.abort_request => abort_request

\* The read thread has moved the demuxer and not put anything from there; once
\* the queue is aborted it may leave it at that and end.
Unread ==
    \/ read.at \in {"flush", "putflush"}
    \/ videoq.abort_request /\ read.at = "sought"
    \/ /\ videoq.abort_request /\ ~seek.req
       /\ read.at \in {"resume", "rebuffer", "full", "loop", "done"}

\* The queue holds the packets from place q up to the demuxer's position.
QueueInv(q) ==
    /\ q >= -1
    /\ \A i \in 1 .. Len(videoq.pkts) : videoq.pkts[i].data \in {FlushPkt, Datum(q + i - 1)}
    /\ ~Unread => /\ ~videoq.abort_request => q + Len(videoq.pkts) >= read.pos
                  /\ read.pos < Length => q + Len(videoq.pkts) <= read.pos

\* The codec was sent the packets before place c; the frames of those it does
\* not hold any more are in the frame queue and beyond it.
Out(c) == Cap(c) - Len(codec.pkts)
NextOut(c) == IF decoder.at = "push" THEN Out(c) - 1 ELSE Out(c)
DecodedInv(c) ==
    /\ CodecFresh => \A i \in 1 .. Len(codec.pkts) : codec.pkts[i].data = Out(c) + i - 1
    /\ codec.draining /\ ~AtFlush => c >= Length
    /\ finished = pkt_serial => c >= Length /\ codec.pkts = << >> /\ decoder.at # "push"
    /\ decoder.at = "push" => decoder.frame.pos = Out(c) - 1
    /\ CodecFresh /\ decoder.at # "done" /\ Newest # NoFrame /\ Newest.serial = pkt_serial =>
          Newest.pos < NextOut(c) /\ (FrameDrop \/ Newest.pos = NextOut(c) - 1)

\* The decoder goes on where the queue begins, but for the packet in its hand.
Linked(q, c) ==
    pkt_serial = videoq.serial =>
        /\ InHand => decoder.pkt = Datum(c) /\ q = c + 1
        /\ ~InHand => q = c

OrderInv == \E q \in Int, c \in Nat : QueueInv(q) /\ DecodedInv(c) /\ Linked(q, c)

\* The frames of the frame queue, and the one on the screen, in order.
Chained(a, b) ==
    \/ b.serial > a.serial
    \/ b.serial = a.serial /\ b.pos > a.pos /\ (FrameDrop \/ b.pos = a.pos + 1)
FramesInv ==
    /\ \A i \in 1 .. Len(ready) : ready[i].serial >= 1
    /\ \A i \in 1 .. Len(ready) - 1 : Chained(ready[i], ready[i + 1])
    /\ last # NoFrame => last.serial >= 1
    /\ last # NoFrame /\ ready # << >> => Chained(last, ready[1])
    /\ shown = last \/ (last # NoFrame /\ Follows(last, shown))

EndsInv ==
    completed /\ read.at # "sought" =>
        /\ finished = videoq.serial /\ ready = << >>
        /\ read.pos = Length \/ read.at \in {"flush", "putflush"}

LEMMA OrderTypes ==
    ASSUME TypeOK
    PROVE  /\ codec.pkts \in Seq([data : Datas, serial : Serials]) /\ Len(codec.pkts) \in Nat
           /\ \A i \in 1 .. Len(codec.pkts) :
                 codec.pkts[i].data \in Nat /\ codec.pkts[i].serial \in Nat
           /\ DOMAIN codec = {"pkts", "draining"} /\ DOMAIN decoder = {"at", "pkt", "frame"}
           /\ DOMAIN read = {"at", "target", "pos"}
           /\ Length \in Nat /\ read.pos \in 0 .. Length
           /\ decoder.pkt \in Datas \cup {FlushPkt, NullPkt}
           /\ ready \in Seq(Frames) /\ Len(ready) \in Nat
           /\ {last, shown, decoder.frame, Newest} \subseteq Frames
           /\ \A frame \in Frames : frame.pos \in Int /\ frame.serial \in Nat
  <1>1. Length \in Nat /\ MaxSeeks \in Nat /\ Serials \subseteq Nat /\ Datas \subseteq Nat
    BY PlaybackAssumption DEF Serials, Datas
  <1>2. /\ codec.pkts \in Seq([data : Datas, serial : Serials]) /\ Len(codec.pkts) \in Nat
        /\ DOMAIN codec = {"pkts", "draining"} /\ DOMAIN decoder = {"at", "pkt", "frame"}
        /\ DOMAIN read = {"at", "target", "pos"} /\ read.pos \in 0 .. Length
        /\ decoder.pkt \in Datas \cup {FlushPkt, NullPkt} /\ decoder.frame \in Frames
        /\ ready \in Seq(Frames) /\ Len(ready) \in Nat /\ last \in Frames /\ shown \in Frames
    BY DEF TypeOK
  <1>3. ASSUME NEW i \in 1 .. Len(codec.pkts)
        PROVE  codec.pkts[i].data \in Nat /\ codec.pkts[i].serial \in Nat
    <2>1. codec.pkts \in Seq([data : Datas, serial : Serials])
      BY <1>2
    <2>2. codec.pkts[i] \in [data : Datas, serial : Serials]
      BY <2>1, <1>3, ElementOfSeq
    <2>3. codec.pkts[i].data \in Datas /\ codec.pkts[i].serial \in Serials
      BY <2>2
    <2>4. QED  BY <2>3, <1>1
  <1>4. ASSUME NEW frame \in Frames PROVE frame.pos \in Int /\ frame.serial \in Nat
    <2>1. CASE frame = NoFrame
      BY <2>1 DEF NoFrame
    <2>2. CASE frame \in [pos : 0 .. Length - 1, serial : Serials, from : Serials]
      <3>1. frame.pos \in 0 .. Length - 1
        BY <2>2
      <3>2. frame.serial \in Nat
        BY <2>2, <1>1
      <3>3. QED  BY <3>1, <3>2
    <2>3. frame = NoFrame \/ frame \in [pos : 0 .. Length - 1, serial : Serials, from : Serials]
      BY <1>4, Zenon DEF Frames
    <2>4. QED  BY <2>1, <2>2, <2>3
  <1>5. Newest \in Frames
    <2>1. ready # << >> => ready[Len(ready)] \in Frames
      BY <1>2
    <2>2. QED  BY <2>1, <1>2 DEF Newest
  <1>6. QED  BY <1>1, <1>2, <1>3, <1>4, <1>5

\* Taking a frame off the queue does not change which one is the newest.
LEMMA NewestStep ==
    ASSUME TypeOK, RefreshInv, [Next]_vars
    PROVE  \/ Newest' = Newest
           \/ /\ DecoderPush /\ ~videoq.abort_request
              /\ ready' = Append(ready, decoder.frame) /\ UNCHANGED last
              /\ Newest' = decoder.frame
  <1>0. ready \in Seq(Frames) /\ Len(ready) \in Nat /\ decoder.frame \in Frames
    BY OrderTypes
  <1>1. CASE UNCHANGED <<ready, last>>
    BY <1>1 DEF Newest
  <1>2. CASE DecoderPush
    <2>1. CASE videoq.abort_request
      <3>1. UNCHANGED <<ready, last>>
        BY <1>2, <2>1 DEF DecoderPush
      <3>2. QED  BY <3>1 DEF Newest
    <2>2. CASE ~videoq.abort_request
      <3>1. ready' = Append(ready, decoder.frame) /\ UNCHANGED last
        BY <1>2, <2>2 DEF DecoderPush
      <3>2. Len(ready') = Len(ready) + 1 /\ ready'[Len(ready) + 1] = decoder.frame
        BY <3>1, <1>0, AppendProperties
      <3>3. Newest' = decoder.frame
        BY <3>2, <1>0 DEF Newest
      <3>4. QED  BY <3>1, <3>3, <1>2, <2>2
    <2>3. QED  BY <2>1, <2>2
  <1>3. CASE RefreshSkip \/ RefreshDrop \/ RefreshTake
    <2>1. ready # << >> /\ last' = Head(ready) /\ ready' = Tail(ready)
      BY <1>3 DEF RefreshSkip, RefreshDrop, RefreshTake, TakeFrame, RefreshInv
    <2>2. /\ Len(ready) > 0 /\ Head(ready) = ready[1] /\ Len(ready') = Len(ready) - 1
          /\ \A i \in 1 .. Len(ready) - 1 : ready'[i] = ready[i + 1]
      BY <2>1, <1>0, HeadTailProperties
    <2>3. CASE Len(ready) = 1
      <3>1. ready' = << >>
        BY <2>1, <2>2, <2>3, <1>0
      <3>2. QED  BY <3>1, <2>1, <2>2, <2>3 DEF Newest
    <2>4. CASE Len(ready) # 1
      <3>0. Len(ready) - 1 \in 1 .. Len(ready) - 1 /\ Len(ready') # 0
        BY <2>2, <2>4, <1>0
      <3>1. ready' # << >> /\ Len(ready) - 1 \in 1 .. Len(ready) - 1
        BY <3>0
      <3>2. ready'[Len(ready')] = ready[Len(ready)]
        BY <3>1, <2>2, <1>0
      <3>3. QED  BY <3>1, <3>2, <2>1 DEF Newest
    <2>5. QED  BY <2>3, <2>4
  <1>4. QED  BY <1>1, <1>2, <1>3, Footprint


LEMMA SerialsInit == Init => SerialsInv
  <1> SUFFICES ASSUME Init PROVE SerialsInv
    OBVIOUS
  <1>1. /\ read.at = "loop" /\ decoder.at = "try" /\ codec.pkts = << >> /\ pkt_serial = 0
        /\ ready = << >> /\ last = NoFrame
    BY DEF Init
  <1>2. Newest.serial = 0
    BY <1>1 DEF Newest, NoFrame
  <1>3. ASSUME NEW i \in 1 .. Len(videoq.pkts) PROVE videoq.pkts[i].serial = videoq.serial
    <2>1. Len(videoq.pkts) = 1 /\ videoq.serial = 1
      BY QueueInit
    <2>2. videoq.pkts[1].serial = 1
      <3>1. videoq.pkts[1] = [data |-> FlushPkt, serial |-> 1]
        BY QueueInit
      <3>2. QED  BY <3>1
    <2>3. i = 1
      BY <2>1
    <2>4. QED  BY <2>1, <2>2, <2>3
  <1>4. videoq.serial = 1 /\ ~videoq.abort_request
    BY QueueInit
  <1>5. QED  BY <1>1, <1>2, <1>3, <1>4 DEF SerialsInv, AtFlush

\* A packet is put in the queue, which is not aborted.
Queued(data, s) ==
    /\ ~videoq.abort_request /\ ~videoq'.abort_request
    /\ videoq'.serial = s
    /\ videoq'.pkts = Append(videoq.pkts, [data |-> data, serial |-> s])

\* What a step does to the packets in the queue.
LEMMA QueueStep ==
    ASSUME TypeOK, SeekInv, [Next]_vars
    PROVE  /\ CloseQueue =>
                 /\ videoq'.pkts = videoq.pkts /\ videoq'.serial = videoq.serial
                 /\ videoq'.abort_request
           /\ ReadFlush =>
                 /\ videoq'.pkts = << >> /\ videoq'.serial = videoq.serial
                 /\ videoq'.abort_request = videoq.abort_request
           /\ ReadPutFlush => IF videoq.abort_request THEN videoq' = videoq
                              ELSE Queued(FlushPkt, videoq.serial + 1)
           /\ ReadPacket => IF videoq.abort_request THEN videoq' = videoq
                            ELSE Queued(read.pos, videoq.serial)
           /\ ReadEof => IF videoq.abort_request \/ eof THEN videoq' = videoq
                         ELSE Queued(NullPkt, videoq.serial)
           /\ DecoderGet =>
                 /\ videoq.pkts # << >> /\ ~videoq.abort_request
                 /\ videoq'.pkts = Tail(videoq.pkts) /\ videoq'.serial = videoq.serial
                 /\ videoq'.abort_request = videoq.abort_request
           /\ \/ videoq' = videoq
              \/ CloseQueue \/ ReadFlush \/ ReadPutFlush \/ ReadPacket \/ ReadEof \/ DecoderGet
  <1>0. /\ videoq \in Queues /\ videoq.serial \in Serials /\ 0 \in Serials
        /\ FlushPkt # NullPkt /\ Length \in Nat /\ read.pos \in 0 .. Length
    BY OrderTypes, PlaybackAssumption DEF TypeOK, Queues, FlushPkt, NullPkt, Serials
  <1>1. CloseQueue => /\ videoq'.pkts = videoq.pkts /\ videoq'.serial = videoq.serial
                      /\ videoq'.abort_request
    BY <1>0 DEF CloseQueue, QueueAbort, Queues
  <1>2. ReadFlush => /\ videoq'.pkts = << >> /\ videoq'.serial = videoq.serial
                     /\ videoq'.abort_request = videoq.abort_request
    BY <1>0 DEF ReadFlush, QueueFlush, Queues
  <1>3. DecoderGet => /\ videoq.pkts # << >> /\ ~videoq.abort_request
                      /\ videoq'.pkts = Tail(videoq.pkts) /\ videoq'.serial = videoq.serial
                      /\ videoq'.abort_request = videoq.abort_request
    BY <1>0 DEF DecoderGet, Gettable, QueueGet, Queues
  <1>4. ASSUME NEW data \in Datas \cup {FlushPkt, NullPkt}, NEW s \in Serials,
               s = IF data = FlushPkt THEN videoq.serial + 1 ELSE videoq.serial,
               videoq' = PutPrivate(videoq, data)
        PROVE  IF videoq.abort_request THEN videoq' = videoq ELSE Queued(data, s)
    <2>1. CASE videoq.abort_request
      BY <1>4, <2>1 DEF PutPrivate
    <2>2. CASE ~videoq.abort_request
      <3>1. /\ ~videoq'.abort_request /\ videoq'.serial = s
            /\ videoq'.pkts = Append(videoq.pkts, [data |-> data, serial |-> s])
        BY <1>4, <2>2, <1>0, PutEffect
      <3>2. QED  BY <3>1, <2>2 DEF Queued
    <2>3. QED  BY <2>1, <2>2
  <1>5. ASSUME ReadPutFlush
        PROVE  IF videoq.abort_request THEN videoq' = videoq
               ELSE Queued(FlushPkt, videoq.serial + 1)
    <2>1. read.at = "putflush" /\ videoq' = PutPrivate(videoq, FlushPkt)
      BY <1>5 DEF ReadPutFlush
    <2>2. videoq.serial + 1 \in Serials
      <3>1. videoq.serial <= seeks /\ seeks <= MaxSeeks /\ seeks \in Nat
        BY <2>1, PlaybackAssumption DEF SeekInv
      <3>2. QED  BY <3>1, <1>0, PlaybackAssumption DEF Serials
    <2>3. QED  BY <2>1, <2>2, <1>4
  <1>6. ASSUME ReadPacket
        PROVE  IF videoq.abort_request THEN videoq' = videoq
               ELSE Queued(read.pos, videoq.serial)
    <2>1. read.pos \in Datas /\ read.pos # FlushPkt /\ videoq' = PutPrivate(videoq, read.pos)
      BY <1>6, <1>0 DEF ReadPacket, Datas, FlushPkt
    <2>2. QED  BY <2>1, <1>4, <1>0
  <1>7. ASSUME ReadEof
        PROVE  IF videoq.abort_request \/ eof THEN videoq' = videoq
               ELSE Queued(NullPkt, videoq.serial)
    <2>1. videoq' = IF eof THEN videoq ELSE PutPrivate(videoq, NullPkt)
      BY <1>7 DEF ReadEof
    <2>2. videoq' = PutPrivate(videoq, NullPkt) =>
             IF videoq.abort_request THEN videoq' = videoq ELSE Queued(NullPkt, videoq.serial)
      BY <1>4, <1>0
    <2>3. QED  BY <2>1, <2>2
  <1>8. QED  BY <1>1, <1>2, <1>3, <1>5, <1>6, <1>7, Footprint

\* Elements of a sequence after an Append or a Tail.
LEMMA AppendElement ==
    ASSUME NEW S, NEW s \in Seq(S), NEW e, NEW i \in 1 .. Len(Append(s, e))
    PROVE  Append(s, e)[i] = e \/ \E j \in 1 .. Len(s) : i = j /\ Append(s, e)[i] = s[j]
  <1>1. Len(s) \in Nat /\ Len(Append(s, e)) = Len(s) + 1 /\ Append(s, e)[Len(s) + 1] = e
    OBVIOUS
  <1>2. \A j \in 1 .. Len(s) : Append(s, e)[j] = s[j]
    OBVIOUS
  <1>3. i = Len(s) + 1 \/ i \in 1 .. Len(s)
    BY <1>1
  <1>4. QED  BY <1>1, <1>2, <1>3

LEMMA TailElement ==
    ASSUME NEW S, NEW s \in Seq(S), s # << >>, NEW i \in 1 .. Len(Tail(s))
    PROVE  i + 1 \in 1 .. Len(s) /\ Tail(s)[i] = s[i + 1]
  BY HeadTailProperties

\* Serials only grow for the decoder, and do so with a flush packet.
LEMMA TakenSerial ==
    ASSUME TypeOK, ChainInv, DecoderGet
    PROVE  pkt_serial' \in Nat /\ pkt_serial' >= pkt_serial
  <1>1. videoq.pkts # << >> /\ pkt_serial' = videoq.pkts[1].serial /\ 1 \in 1 .. Len(videoq.pkts)
    BY SerialTypes DEF DecoderGet, Gettable, QueueGot
  <1>2. videoq.pkts[1].serial \in pkt_serial .. videoq.serial
    BY <1>1 DEF ChainInv
  <1>3. QED  BY <1>1, <1>2, SerialTypes

LEMMA TakenFlush ==
    ASSUME TypeOK, ChainInv, DecoderGet, decoder'.at = "check", decoder'.pkt = FlushPkt
    PROVE  pkt_serial' > pkt_serial
  <1>1. /\ videoq.pkts # << >> /\ pkt_serial' = videoq.pkts[1].serial /\ 1 \in 1 .. Len(videoq.pkts)
        /\ QueueGot(videoq) = videoq.pkts[1]
    BY SerialTypes DEF DecoderGet, Gettable, QueueGot
  <1>2. videoq.pkts[1].data = FlushPkt
    BY <1>1, OrderTypes DEF DecoderGet
  <1>3. videoq.pkts[1].serial > Before(1) /\ Before(1) = pkt_serial
    BY <1>1, <1>2 DEF ChainInv, Before
  <1>4. QED  BY <1>1, <1>3

\* What only the decoder thread changes, and how it gets to a place.
LEMMA DecoderKeeps ==
    ASSUME TypeOK, RefreshInv, [Next]_vars, ~DecoderNext
    PROVE  UNCHANGED <<decoder, pkt_serial, finished, codec>> /\ Newest' = Newest
  BY NewestStep, Footprint DEF DecoderNext

LEMMA CheckedNext ==
    ASSUME TypeOK, [Next]_vars
    PROVE  /\ decoder'.at = "check" => ~DecoderNext \/ DecoderGet
           /\ decoder'.at = "push" => ~DecoderNext \/ DecoderReceive
  <1>0. DOMAIN decoder = {"at", "pkt", "frame"}
    BY OrderTypes
  <1>1. DecoderTry \/ DecoderAgain \/ DecoderFinished \/ DecoderStarves \/ DecoderBuffers
        \/ DecoderAborted => decoder'.at \notin {"check", "push"}
    BY <1>0 DEF DecoderTry, DecoderAgain, DecoderFinished, DecoderStarves, DecoderBuffers,
       DecoderAborted, DecoderGoes
  <1>2. /\ DecoderSkip \/ DecoderFlush \/ DecoderSend => decoder'.at \notin {"check", "push"}
        /\ DecoderPush \/ DecoderDrop => decoder'.at \notin {"check", "push"}
    <2>1. DecoderSkip \/ DecoderFlush \/ DecoderSend => decoder'.at \in {"get", "try"}
      BY <1>0 DEF DecoderSkip, DecoderFlush, DecoderSend
    <2>2. DecoderPush \/ DecoderDrop => decoder'.at \in {"done", "try"}
      BY <1>0 DEF DecoderPush, DecoderDrop, DecoderLeaves
    <2>3. QED  BY <2>1, <2>2
  <1>3. DecoderReceive => decoder'.at = "push"
    BY <1>0 DEF DecoderReceive
  <1>4. DecoderGet => decoder'.at \in {"get", "check"}
    BY <1>0 DEF DecoderGet
  <1>5. QED  BY <1>1, <1>2, <1>3, <1>4 DEF DecoderNext

LEMMA SerialsStep ==
    BaseInv /\ ChainInv /\ CodecInv /\ SerialsInv /\ [Next]_vars => SerialsInv'
  <1> SUFFICES ASSUME TypeOK, SeekInv, RefreshInv, ChainInv, CodecInv, SerialsInv, [Next]_vars
               PROVE  SerialsInv'
    BY DEF BaseInv
  <1> DEFINE n == Len(videoq.pkts)
  <1>0. /\ videoq \in Queues /\ videoq.pkts \in Seq(Packets) /\ n \in Nat /\ pkt_serial \in Nat
        /\ videoq.serial \in Nat /\ finished <= pkt_serial /\ pkt_serial <= videoq.serial
        /\ finished \in Nat /\ Newest.serial \in Nat
        /\ DOMAIN decoder = {"at", "pkt", "frame"} /\ DOMAIN read = {"at", "target", "pos"}
        /\ DOMAIN codec = {"pkts", "draining"}
    BY SerialTypes, OrderTypes DEF ChainInv
  <1>1. videoq'.serial \in Nat /\ videoq'.serial >= 1
    <2>1. CASE ReadPutFlush
      <3>1. videoq' = videoq \/ videoq'.serial = videoq.serial + 1
        <4>1. videoq' = PutPrivate(videoq, FlushPkt)
          BY <2>1 DEF ReadPutFlush
        <4>2. QED  BY <4>1, <1>0 DEF PutPrivate, Queues
      <3>2. QED  BY <3>1, <1>0 DEF SerialsInv
    <2>2. CASE ~ReadPutFlush
      BY <2>2, <1>0, SerialStays DEF SerialsInv
    <2>3. QED  BY <2>1, <2>2
  <1>2. ASSUME NEW i \in 1 .. Len(videoq'.pkts) PROVE videoq'.pkts[i].serial = videoq'.serial
    <2>1. CASE videoq'.pkts = videoq.pkts /\ videoq'.serial = videoq.serial
      BY <2>1, <1>2 DEF SerialsInv
    <2>2. CASE videoq'.pkts = << >>
      BY <2>2, <1>2
    <2>3. ASSUME NEW data, NEW s, s = videoq.serial \/ ReadPutFlush, videoq'.serial = s,
                 videoq'.pkts = Append(videoq.pkts, [data |-> data, serial |-> s])
          PROVE  videoq'.pkts[i].serial = videoq'.serial
      <3> DEFINE packet == [data |-> data, serial |-> s]
      <3>1. packet.serial = s
        OBVIOUS
      <3> HIDE DEF packet
      <3>2. /\ Len(videoq'.pkts) = n + 1 /\ videoq'.pkts[n + 1] = packet
            /\ \A j \in 1 .. n : videoq'.pkts[j] = videoq.pkts[j]
        BY <2>3, <1>0, AppendProperties DEF packet
      <3>3. CASE i = n + 1
        BY <3>1, <3>2, <3>3, <2>3
      <3>4. CASE i # n + 1
        <4>1. i \in 1 .. n
          BY <3>4, <3>2, <1>2, <1>0
        <4>2. ~ReadPutFlush
          BY <4>1 DEF ReadPutFlush, SerialsInv
        <4>3. QED  BY <4>1, <4>2, <3>2, <2>3 DEF SerialsInv
      <3>5. QED  BY <3>3, <3>4
    <2>4. CASE /\ videoq.pkts # << >> /\ videoq'.pkts = Tail(videoq.pkts)
               /\ videoq'.serial = videoq.serial
      <3>1. Len(videoq'.pkts) = n - 1 /\ \A j \in 1 .. n - 1 : videoq'.pkts[j] = videoq.pkts[j + 1]
        BY <2>4, <1>0, HeadTailProperties
      <3>2. i \in 1 .. n - 1 /\ i + 1 \in 1 .. n
        BY <3>1, <1>2, <1>0
      <3>3. QED  BY <3>1, <3>2, <2>4 DEF SerialsInv
    <2>6. \A data, s : Queued(data, s) /\ (s = videoq.serial \/ ReadPutFlush)
                          => videoq'.pkts[i].serial = videoq'.serial
      BY <2>3 DEF Queued
    <2>7. CASE ReadPutFlush
      BY <2>1, <2>6, <2>7, QueueStep
    <2>8. CASE ReadPacket \/ ReadEof
      BY <2>1, <2>6, <2>8, QueueStep
    <2>9. QED
      BY <2>1, <2>2, <2>4, <2>7, <2>8, QueueStep
  <1>3. ASSUME read'.at = "putflush" PROVE videoq'.pkts = << >>
    <2>1. CASE ReadFlush
      BY <2>1, <1>0 DEF ReadFlush, QueueFlush, Queues
    <2>2. CASE ~ReadFlush
      <3>1. ReadNext => FALSE
        <4>0. ReadSeekFile => read'.at # "putflush"
          <5>1. ReadSeekFile => \/ read' = [at |-> "flush", target |-> 0, pos |-> read.target]
                                \/ read' = [read EXCEPT !.at = "sought", !.target = 0]
            BY DEF ReadSeekFile
          <5>2. [at |-> "flush", target |-> 0, pos |-> read.target].at = "flush"
            OBVIOUS
          <5>3. [read EXCEPT !.at = "sought", !.target = 0].at = "sought"
            BY <1>0
          <5>4. QED  BY <5>1, <5>2, <5>3
        <4>1. ReadLoop \/ ReadPutFlush \/ ReadSought \/ ReadResume => read'.at # "putflush"
          BY <1>0 DEF ReadLoop, ReadPutFlush, ReadSought, ReadResume, ReadGoes
        <4>2. ReadRebuffer \/ ReadFull \/ ReadEnded \/ ReadComplete \/ ReadPause
                 => read'.at # "putflush"
          BY <1>0 DEF ReadRebuffer, ReadFull, ReadEnded, ReadComplete, ReadPause, ReadGoes
        <4>3. ReadWait \/ ReadPacket \/ ReadCheckBuffering \/ ReadEof
                 => read'.at # "putflush"
          BY <1>0 DEF ReadWait, ReadPacket, ReadCheckBuffering, ReadEof, ReadGoes
        <4>4. QED  BY <4>0, <4>1, <4>2, <4>3, <2>2, <1>3 DEF ReadNext
      <3>2. read' = read /\ videoq.pkts = << >>
        BY <3>1, <1>3, Footprint DEF SerialsInv
      <3>3. ~ReadPutFlush /\ ~ReadPacket /\ ~ReadEof /\ ~DecoderGet
        BY <3>1, <3>2 DEF ReadNext, DecoderGet, Gettable
      <3>4. QED  BY <3>2, <3>3, <2>2, <1>0, QueueStep DEF Queues
    <2>3. QED  BY <2>1, <2>2
  <1>4. videoq'.abort_request => abort_request'
    <2>1. abort_request => abort_request'
      BY Footprint DEF Close
    <2>2. CloseQueue => abort_request
      BY DEF CloseQueue
    <2>3. videoq'.abort_request => videoq.abort_request \/ CloseQueue
      BY QueueStep DEF Queued
    <2>4. QED  BY <2>1, <2>2, <2>3 DEF SerialsInv
  <1>5. \A i \in 1 .. Len(codec.pkts) :
           codec.pkts[i].serial \in Nat /\ 1 <= codec.pkts[i].serial /\ codec.pkts[i].serial <= pkt_serial
    BY OrderTypes DEF SerialsInv
  <1>6. pkt_serial' \in Nat /\ pkt_serial' >= pkt_serial
    BY <1>0, TakenSerial, Footprint
  <1>7. ASSUME NEW i \in 1 .. Len(codec'.pkts)
        PROVE  /\ codec'.pkts[i].serial \in Nat /\ 1 <= codec'.pkts[i].serial
               /\ codec'.pkts[i].serial <= pkt_serial'
    <2>1. CASE codec'.pkts = codec.pkts
      BY <2>1, <1>0, <1>5, <1>6
    <2>2. CASE DecoderReceive
      <3>1. codec'.pkts = Tail(codec.pkts) /\ codec.pkts # << >>
        BY <2>2, <1>0 DEF DecoderReceive
      <3>2. \E j \in 1 .. Len(codec.pkts) : codec'.pkts[i] = codec.pkts[j]
        BY <3>1, OrderTypes, TailElement
      <3>3. QED  BY <3>2, <1>0, <1>5, <1>6
    <2>3. CASE DecoderFlush
      <3>1. codec'.pkts = << >>
        BY <2>3 DEF DecoderFlush
      <3>2. QED  BY <3>1
    <2>4. CASE DecoderFinished
      <3>1. codec'.pkts = codec.pkts
        BY <2>4, <1>0 DEF DecoderFinished
      <3>2. QED  BY <3>1, <2>1
    <2>5. CASE DecoderSend
      <3> DEFINE packet == [data |-> decoder.pkt, serial |-> pkt_serial]
      <3>1. codec'.pkts = codec.pkts \/ codec'.pkts = Append(codec.pkts, packet)
        BY <2>5, <1>0 DEF DecoderSend
      <3>2. packet.serial = pkt_serial /\ pkt_serial' = pkt_serial /\ pkt_serial >= 1
        BY <2>5 DEF DecoderSend, SerialsInv
      <3> HIDE DEF packet
      <3>3. CASE codec'.pkts = Append(codec.pkts, packet)
        <4>1. codec'.pkts[i] = packet \/ \E j \in 1 .. Len(codec.pkts) : codec'.pkts[i] = codec.pkts[j]
          BY <3>3, <1>7, OrderTypes, AppendElement
        <4>2. QED  BY <4>1, <3>2, <1>0, <1>5
      <3>4. QED  BY <3>1, <3>3, <2>1
    <2>6. QED  BY <2>1, <2>2, <2>3, <2>4, <2>5, Footprint
  <1>8. Newest'.serial \in Nat /\ Newest'.serial <= pkt_serial'
    <2>1. CASE Newest' = Newest
      BY <2>1, <1>0, <1>6 DEF SerialsInv
    <2>2. CASE DecoderPush /\ Newest' = decoder.frame
      <3>1. decoder.frame.serial = pkt_serial
        BY <2>2 DEF DecoderPush, SerialsInv
      <3>2. QED  BY <2>2, <3>1, <1>0, <1>6
    <2>3. QED  BY <2>1, <2>2, NewestStep
  <1>9. ASSUME AtFlush'
        PROVE  /\ finished' < pkt_serial' /\ Newest'.serial < pkt_serial'
               /\ \A i \in 1 .. Len(codec'.pkts) : codec'.pkts[i].serial < pkt_serial'
    <2>1. decoder'.at = "check" /\ decoder'.pkt = FlushPkt
      BY <1>9 DEF AtFlush
    <2>2. CASE DecoderGet
      <3>1. UNCHANGED <<finished, codec>> /\ ~DecoderPush
        BY <2>2 DEF DecoderGet, DecoderPush
      <3>2. pkt_serial' > pkt_serial
        BY <2>1, <2>2, <1>0, TakenFlush
      <3>3. Newest' = Newest
        BY <3>1, NewestStep
      <3>4. QED  BY <3>1, <3>2, <3>3, <1>0, <1>5, <1>6 DEF SerialsInv
    <2>3. CASE ~DecoderNext
      <3>1. UNCHANGED <<decoder, pkt_serial, finished, codec>> /\ Newest' = Newest
        BY <2>3, DecoderKeeps
      <3>2. AtFlush
        BY <3>1, <2>1 DEF AtFlush
      <3>3. QED  BY <3>1, <3>2 DEF SerialsInv
    <2>4. QED  BY <2>1, <2>2, <2>3, CheckedNext
  <1>10. ASSUME decoder'.at = "push"
         PROVE  decoder'.frame.serial = pkt_serial' /\ pkt_serial' >= 1
    <2>1. CASE DecoderReceive
      <3>1. /\ decoder'.frame = [pos |-> Head(codec.pkts).data, serial |-> pkt_serial,
                                 from |-> Head(codec.pkts).serial]
            /\ codec.pkts # << >> /\ pkt_serial' = pkt_serial
        BY <2>1, <1>0 DEF DecoderReceive
      <3>2. decoder'.frame.serial = pkt_serial
        BY <3>1
      <3>3. 1 \in 1 .. Len(codec.pkts)
        BY <3>1, OrderTypes
      <3>4. QED  BY <3>1, <3>2, <3>3, <1>0, <1>5
    <2>2. CASE ~DecoderNext
      BY <2>2, <1>10, DecoderKeeps DEF SerialsInv
    <2>3. QED  BY <1>10, <2>1, <2>2, CheckedNext
  <1>11. QED  BY <1>1, <1>2, <1>3, <1>4, <1>6, <1>7, <1>8, <1>9, <1>10 DEF SerialsInv


-----------------------------------------------------------------------------
(***************************************************************************)
(* The places of the packets in the queue.                                 *)
(***************************************************************************)
LEMMA AbortKeeps ==
    ASSUME TypeOK, SeekInv, [Next]_vars
    PROVE  /\ videoq.abort_request => videoq'.abort_request
           /\ videoq'.abort_request => videoq.abort_request \/ CloseQueue
  BY QueueStep DEF Queued

\* How the read thread comes to owe the queue nothing.
LEMMA UnreadStep ==
    ASSUME TypeOK, SeekInv, SerialsInv, [Next]_vars
    PROVE  \/ Unread'
           \/ ~Unread /\ ~ReadPacket /\ read'.pos = read.pos
           \/ ~Unread /\ ReadPacket
           \/ ReadPutFlush /\ ~videoq.abort_request
  <1> DEFINE A == videoq.abort_request
  <1>0. DOMAIN read = {"at", "target", "pos"} /\ seek \in [req : BOOLEAN, pos : 0 .. Length]
        /\ (A => abort_request) /\ (A => A')
    BY OrderTypes, AbortKeeps DEF TypeOK, SerialsInv
  <1>1. CASE ~ReadNext
    <2>1. read' = read /\ ~ReadPacket /\ ~ReadSought
      BY <1>1, Footprint DEF ReadNext
    <2>2. A => seek' = seek
      BY <2>1, <1>0, Footprint DEF StreamSeek
    <2>3. Unread => Unread'
      BY <2>1, <2>2, <1>0 DEF Unread
    <2>4. QED  BY <2>1, <2>3
  <1>2. CASE ReadLoop
    <2>1. /\ UNCHANGED <<videoq, seek>> /\ read'.pos = read.pos /\ read.at = "loop"
          /\ (read'.at = "done" \/ ~abort_request)
      BY <1>2, <1>0 DEF ReadLoop, ReadGoes, seekVars
    <2>2. QED  BY <2>1, <1>0, <1>2 DEF Unread, ReadPacket
  <1>3. CASE ReadSeekFile
    <2>1. CASE read' = [at |-> "flush", target |-> 0, pos |-> read.target]
      BY <2>1 DEF Unread
    <2>2. CASE read' = [read EXCEPT !.at = "sought", !.target = 0]
      BY <2>2, <1>0, <1>3 DEF Unread, ReadSeekFile, ReadPacket
    <2>3. QED  BY <2>1, <2>2, <1>3 DEF ReadSeekFile
  <1>4. CASE ReadFlush
    BY <1>4, <1>0 DEF ReadFlush, ReadGoes, Unread
  <1>5. CASE ReadPutFlush
    BY <1>5, <1>0 DEF ReadPutFlush, ReadGoes, Unread
  <1>6. CASE ReadSought
    <2>1. read.at = "sought" /\ read'.at = "resume" /\ ~seek'.req /\ read'.pos = read.pos
      BY <1>6, <1>0 DEF ReadSought, ReadGoes
    <2>2. QED  BY <2>1, <1>0 DEF Unread, ReadPacket
  <1>7. CASE ReadResume \/ ReadRebuffer
    <2>1. /\ UNCHANGED <<videoq, seek>> /\ read'.pos = read.pos
          /\ read.at \in {"resume", "rebuffer"} /\ read'.at \in {"rebuffer", "full"}
      BY <1>7, <1>0 DEF ReadResume, ReadRebuffer, ReadGoes, seekVars
    <2>2. QED  BY <2>1, <1>0 DEF Unread, ReadPacket
  <1>8. CASE ReadFull
    <2>1. /\ UNCHANGED <<videoq, seek>> /\ read'.pos = read.pos /\ read.at = "full"
          /\ read'.at = "loop" \/ ~(A /\ ~seek.req)
      BY <1>8, <1>0 DEF ReadFull, ReadGoes, seekVars, Enough
    <2>2. QED  BY <2>1, <1>0 DEF Unread, ReadPacket
  <1>9. CASE ReadEnded \/ ReadComplete \/ ReadPause \/ ReadWait
    <2>1. read'.pos = read.pos /\ read.at \in {"ended", "complete", "pause", "wait"}
      BY <1>9, <1>0 DEF ReadEnded, ReadComplete, ReadPause, ReadWait, ReadGoes
    <2>2. QED  BY <2>1, <1>0 DEF Unread, ReadPacket
  <1>10. CASE ReadCheckBuffering \/ ReadEof
    <2>1. read'.pos = read.pos /\ read.at \in {"marks", "read"}
      BY <1>10, <1>0 DEF ReadCheckBuffering, ReadEof, ReadGoes
    <2>2. ~ReadPacket
      BY <1>10, <1>0, OrderTypes DEF ReadPacket, ReadCheckBuffering, ReadEof
    <2>3. QED  BY <2>1, <2>2 DEF Unread
  <1>11. CASE ReadPacket
    BY <1>11 DEF ReadPacket, Unread
  <1>12. QED
    BY <1>1, <1>2, <1>3, <1>4, <1>5, <1>6, <1>7, <1>8, <1>9, <1>10, <1>11 DEF ReadNext

LEMMA PlacesStep ==
    ASSUME TypeOK, SeekInv, SerialsInv, NEW q \in Int, QueueInv(q), [Next]_vars
    PROVE  \/ DecoderGet /\ QueueInv(q + 1)'
           \/ /\ ReadPutFlush /\ videoq'.serial = videoq.serial + 1
              /\ \E r \in Int : QueueInv(r)'
           \/ ~DecoderGet /\ videoq'.serial = videoq.serial /\ QueueInv(q)'
  <1> DEFINE n == Len(videoq.pkts)
  <1>0. /\ videoq \in Queues /\ videoq.pkts \in Seq(Packets) /\ n \in Nat
        /\ videoq.serial \in Nat /\ Length \in Nat /\ read.pos \in 0 .. Length
        /\ DOMAIN read = {"at", "target", "pos"} /\ q >= -1
    BY SerialTypes, OrderTypes DEF QueueInv
  <1>1. ASSUME videoq'.pkts = videoq.pkts, videoq'.serial = videoq.serial,
               videoq.abort_request => videoq'.abort_request, 
               ReadPacket => videoq.abort_request,
               ~ReadPutFlush \/ videoq.abort_request
        PROVE  QueueInv(q)'
    <2>1. ASSUME ~Unread' PROVE ~Unread /\ (read'.pos = read.pos \/ ReadPacket)
      BY <1>1, <2>1, UnreadStep
    <2>2. ReadPacket => read'.pos = read.pos + 1 /\ read.pos < Length /\ videoq'.abort_request
      BY <1>1, <1>0 DEF ReadPacket
    <2>3. ~Unread' => /\ ~videoq'.abort_request => q + n >= read'.pos
                      /\ read'.pos < Length => q + n <= read'.pos
      BY <2>1, <2>2, <1>0, <1>1 DEF QueueInv
    <2>4. QED  BY <1>1, <1>0, <2>3 DEF QueueInv
  <1>2. CASE DecoderGet
    <2>1. /\ videoq.pkts # << >> /\ videoq'.pkts = Tail(videoq.pkts) /\ read' = read
          /\ ~videoq.abort_request
      BY <1>2, QueueStep DEF DecoderGet, readVars
    <2>2. Len(videoq'.pkts) = n - 1 /\ \A i \in 1 .. n - 1 : videoq'.pkts[i] = videoq.pkts[i + 1]
      BY <2>1, <1>0, HeadTailProperties
    <2>3. ASSUME NEW i \in 1 .. Len(videoq'.pkts)
          PROVE  videoq'.pkts[i].data \in {FlushPkt, Datum((q + 1) + i - 1)}
      <3>1. i \in Int /\ i + 1 \in 1 .. n /\ videoq'.pkts[i] = videoq.pkts[i + 1]
        BY <2>2, <1>0
      <3>2. videoq.pkts[i + 1].data \in {FlushPkt, Datum(q + (i + 1) - 1)}
        BY <3>1 DEF QueueInv
      <3>3. q + (i + 1) - 1 = (q + 1) + i - 1
        BY <3>1
      <3>4. QED  BY <3>1, <3>2, <3>3
    <2>4. ~ReadPacket /\ ~ReadPutFlush
      BY <2>1, <1>0 DEF ReadPacket, ReadPutFlush, ReadGoes
    <2>5. ~Unread' => ~Unread
      BY <2>4, UnreadStep
    <2>6. ~Unread' => /\ (q + 1) + Len(videoq'.pkts) >= read'.pos
                      /\ read'.pos < Length => (q + 1) + Len(videoq'.pkts) <= read'.pos
      <3>1. ~Unread' => q + n >= read.pos /\ (read.pos < Length => q + n <= read.pos)
        BY <2>1, <2>5 DEF QueueInv
      <3>2. (q + 1) + Len(videoq'.pkts) = q + n
        <4>1. Len(videoq'.pkts) = n - 1 /\ n \in Int
          BY <2>2, <1>0
        <4>2. \A k \in Int : (q + 1) + (k - 1) = q + k
          OBVIOUS
        <4>3. QED  BY <4>1, <4>2
      <3>3. QED  BY <3>1, <3>2, <2>1
    <2>7. QueueInv(q + 1)'
      <3>1. q + 1 >= -1
        BY <1>0
      <3>2. QED  BY <3>1, <2>3, <2>6 DEF QueueInv
    <2>8. QED  BY <2>7, <1>2
  <1>3. CASE ReadPutFlush /\ ~videoq.abort_request
    <2>1. /\ Queued(FlushPkt, videoq.serial + 1) /\ videoq.pkts = << >>
          /\ read'.at = "sought" /\ read'.pos = read.pos
      BY <1>3, <1>0, QueueStep DEF ReadPutFlush, ReadGoes, SerialsInv
    <2> DEFINE packet == [data |-> FlushPkt, serial |-> videoq.serial + 1]
    <2>2. packet.data = FlushPkt /\ videoq'.pkts = Append(videoq.pkts, packet)
      BY <2>1 DEF Queued
    <2> HIDE DEF packet
    <2>3. Len(videoq'.pkts) = 1 /\ videoq'.pkts[1] = packet
      BY <2>1, <2>2
    <2>4. PICK r \in Int : r = read.pos - 1
      BY <1>0
    <2>5. \A i \in 1 .. Len(videoq'.pkts) : videoq'.pkts[i].data = FlushPkt
      BY <2>2, <2>3
    <2>6. r >= -1 /\ r + Len(videoq'.pkts) = read'.pos
      BY <2>1, <2>3, <2>4, <1>0
    <2>7. QueueInv(r)'
      BY <2>5, <2>6, <1>0 DEF QueueInv
    <2>8. QED  BY <2>1, <2>7, <1>3 DEF Queued
  <1>4. CASE ReadFlush /\ ~DecoderGet
    <2>1. /\ videoq'.pkts = << >> /\ videoq'.serial = videoq.serial /\ read'.at = "putflush"
      BY <1>4, <1>0, QueueStep DEF ReadFlush, ReadGoes
    <2>2. Len(videoq'.pkts) = 0 /\ Unread'
      BY <2>1 DEF Unread
    <2>3. QueueInv(q)'
      BY <2>2, <1>0 DEF QueueInv
    <2>4. QED  BY <2>1, <2>3, <1>4
  <1>5. ASSUME NEW data, Queued(data, videoq.serial), data = Datum(q + n), ~ReadPutFlush,
               ~Unread' => /\ q + n + 1 >= read'.pos
                           /\ read'.pos < Length => q + n + 1 <= read'.pos
        PROVE  videoq'.serial = videoq.serial /\ QueueInv(q)'
    <2> DEFINE packet == [data |-> data, serial |-> videoq.serial]
    <2>1. /\ packet.data = data /\ videoq'.pkts = Append(videoq.pkts, packet)
          /\ videoq'.serial = videoq.serial
      BY <1>5 DEF Queued
    <2> HIDE DEF packet
    <2>2. /\ Len(videoq'.pkts) = n + 1 /\ videoq'.pkts[n + 1] = packet
          /\ \A i \in 1 .. n : videoq'.pkts[i] = videoq.pkts[i]
      BY <2>1, <1>0, AppendProperties
    <2>3. ASSUME NEW i \in 1 .. Len(videoq'.pkts)
          PROVE  videoq'.pkts[i].data \in {FlushPkt, Datum(q + i - 1)}
      <3>1. CASE i = n + 1
        <4>1. q + i - 1 = q + n
          BY <3>1, <1>0
        <4>2. QED  BY <3>1, <4>1, <2>1, <2>2, <1>5
      <3>2. CASE i # n + 1
        <4>1. i \in 1 .. n
          BY <3>2, <2>2, <1>0
        <4>2. QED  BY <4>1, <2>2 DEF QueueInv
      <3>3. QED  BY <3>1, <3>2
    <2>4. ~Unread' => /\ q + Len(videoq'.pkts) >= read'.pos
                      /\ read'.pos < Length => q + Len(videoq'.pkts) <= read'.pos
      BY <2>2, <1>0, <1>5
    <2>5. QueueInv(q)'
      BY <2>3, <2>4, <1>0 DEF QueueInv
    <2>6. QED  BY <2>1, <2>5
  <1>6. CASE ReadPacket /\ ~videoq.abort_request /\ ~DecoderGet
    <2>1. /\ Queued(read.pos, videoq.serial) /\ ~ReadPutFlush /\ ~Unread /\ read.pos < Length
          /\ read'.pos = read.pos + 1
      BY <1>6, <1>0, QueueStep DEF ReadPacket, ReadPutFlush, Unread
    <2>2. q + n = read.pos
      BY <2>1, <1>6, <1>0 DEF QueueInv
    <2>3. read.pos = Datum(q + n) /\ q + n + 1 = read'.pos
      BY <2>1, <2>2, <1>0 DEF Datum
    <2>4. QED  BY <2>1, <2>3, <1>5, <1>6, <1>0
  <1>7. CASE ReadEof /\ ~videoq.abort_request /\ ~eof /\ ~DecoderGet
    <2>1. /\ Queued(NullPkt, videoq.serial) /\ ~ReadPutFlush /\ ~Unread /\ read.pos = Length
          /\ read'.pos = read.pos
      BY <1>7, <1>0, QueueStep DEF ReadEof, ReadPutFlush, Unread, ReadGoes
    <2>2. q + n >= Length
      BY <2>1, <1>7, <1>0 DEF QueueInv
    <2>3. NullPkt = Datum(q + n) /\ q + n + 1 >= read'.pos /\ ~(read'.pos < Length)
      BY <2>1, <2>2, <1>0 DEF Datum
    <2>4. QED  BY <2>1, <2>3, <1>5, <1>7
  <1>8. CASE /\ ~DecoderGet /\ ~ReadFlush
             /\ ReadPutFlush \/ ReadPacket => videoq.abort_request
             /\ ReadEof => videoq.abort_request \/ eof
    <2>1. videoq'.pkts = videoq.pkts /\ videoq'.serial = videoq.serial
      BY <1>8, QueueStep
    <2>2. videoq.abort_request => videoq'.abort_request
      BY AbortKeeps
    <2>3. QED  BY <2>1, <2>2, <1>8, <1>1
  <1>9. QED  BY <1>2, <1>3, <1>4, <1>6, <1>7, <1>8


-----------------------------------------------------------------------------
(***************************************************************************)
(* The places of what the codec holds and of the frames that came out.     *)
(***************************************************************************)
\* Past the end of the input one place is like another.
LEMMA PastEnd ==
    ASSUME TypeOK, NEW c \in Nat, NEW e \in Nat, c >= Length, e >= Length, DecodedInv(c)
    PROVE  DecodedInv(e)
  <1>1. Cap(e) = Cap(c)
    BY OrderTypes DEF Cap
  <1>2. Out(e) = Out(c) /\ NextOut(e) = NextOut(c)
    BY <1>1 DEF Out, NextOut
  <1>3. QED  BY <1>2 DEF DecodedInv

\* The decoder goes from one place to another.
LEMMA DecodedMoves ==
    ASSUME NEW c, DecodedInv(c), UNCHANGED <<codec, pkt_serial, finished>>, Newest' = Newest,
           decoder.at \notin {"push", "done"}, decoder'.at # "push", ~AtFlush
    PROVE  DecodedInv(c)'
  <1>1. Out(c)' = Out(c) /\ NextOut(c)' = Out(c) /\ NextOut(c) = Out(c)
    BY DEF Out, NextOut
  <1>2. CodecFresh' <=> CodecFresh
    BY DEF CodecFresh
  <1>3. QED  BY <1>1, <1>2 DEF DecodedInv

LEMMA DecodedStays ==
    ASSUME NEW c, DecodedInv(c), UNCHANGED <<decoder, codec, pkt_serial, finished>>,
           Newest' = Newest
    PROVE  DecodedInv(c)'
  <1>1. Out(c)' = Out(c) /\ NextOut(c)' = NextOut(c) /\ (AtFlush' <=> AtFlush)
    BY DEF Out, NextOut, AtFlush
  <1>2. CodecFresh' <=> CodecFresh
    BY DEF CodecFresh
  <1>3. QED  BY <1>1, <1>2 DEF DecodedInv

\* A new serial has begun: nothing of it has been sent to the codec.
LEMMA DecodedNew ==
    ASSUME NEW e, pkt_serial' \in Nat, finished' \in Nat, Newest'.serial \in Nat,
           finished' < pkt_serial', Newest'.serial < pkt_serial',
           Len(codec'.pkts) \in Nat,
           \A i \in 1 .. Len(codec'.pkts) :
              codec'.pkts[i].serial \in Nat /\ codec'.pkts[i].serial < pkt_serial',
           decoder'.at # "push", codec'.draining /\ ~AtFlush' => e >= Length
    PROVE  DecodedInv(e)'
  <1>1. CodecFresh' => Len(codec'.pkts) = 0
    <2>1. ASSUME CodecFresh', Len(codec'.pkts) # 0 PROVE FALSE
      <3>1. 1 \in 1 .. Len(codec'.pkts)
        BY <2>1
      <3>2. codec'.pkts[1].serial = pkt_serial' /\ codec'.pkts[1].serial < pkt_serial'
        BY <3>1, <2>1 DEF CodecFresh
      <3>3. QED  BY <3>2
    <2>2. QED  BY <2>1
  <1>2. CodecFresh' => \A i \in 1 .. Len(codec'.pkts) : codec'.pkts[i].data = Out(e)' + i - 1
    BY <1>1
  <1>3. QED  BY <1>2 DEF DecodedInv

LEMMA OutIs ==
    ASSUME TypeOK, NEW c \in Nat
    PROVE  /\ Length \in Nat /\ Cap(c) \in Nat /\ Out(c) \in Int
           /\ Len(codec.pkts) \in Nat /\ Out(c) = Cap(c) - Len(codec.pkts)
           /\ c < Length => Cap(c) = c /\ Cap(c + 1) = c + 1
           /\ c >= Length => Cap(c) = Length /\ Cap(c + 1) = Length
  <1>1. Length \in Nat /\ Len(codec.pkts) \in Nat
    BY OrderTypes
  <1>2. Cap(c) \in Nat /\ (c < Length => Cap(c) = c) /\ (c >= Length => Cap(c) = Length)
    BY <1>1 DEF Cap
  <1>3. (c < Length => Cap(c + 1) = c + 1) /\ (c >= Length => Cap(c + 1) = Length)
    BY <1>1 DEF Cap
  <1>4. QED  BY <1>1, <1>2, <1>3 DEF Out

LEMMA DecodedReceive ==
    ASSUME TypeOK, RefreshInv, CodecInv, NEW c \in Nat, DecodedInv(c), [Next]_vars, DecoderReceive
    PROVE  DecodedInv(c)'
  <1> DEFINE m == Len(codec.pkts)
  <1>1. /\ decoder.at = "receive" /\ decoder'.at = "push" /\ codec.pkts # << >>
        /\ decoder'.frame.pos = Head(codec.pkts).data
        /\ codec'.pkts = Tail(codec.pkts) /\ codec'.draining = codec.draining
        /\ UNCHANGED <<pkt_serial, finished>> /\ Newest' = Newest
    <2>1. Newest' = Newest
      <3>1. ~DecoderPush
        BY DEF DecoderReceive, DecoderPush
      <3>2. QED  BY <3>1, NewestStep
    <2>2. decoder'.frame = [pos |-> Head(codec.pkts).data, serial |-> pkt_serial,
                            from |-> Head(codec.pkts).serial]
      BY OrderTypes DEF DecoderReceive
    <2>3. QED  BY <2>1, <2>2, OrderTypes DEF DecoderReceive
  <1>2. /\ m \in Nat /\ m > 0 /\ Len(codec'.pkts) = m - 1 /\ Head(codec.pkts) = codec.pkts[1]
        /\ \A i \in 1 .. m - 1 : codec'.pkts[i] = codec.pkts[i + 1]
    BY <1>1, OrderTypes, HeadTailProperties
  <1>3. CodecFresh /\ \A i \in 1 .. m : codec.pkts[i].data = Out(c) + i - 1
    BY <1>1 DEF CodecInv, DecodedInv
  <1>4. Out(c) \in Int /\ Out(c)' = Out(c) + 1 /\ NextOut(c) = Out(c) /\ NextOut(c)' = Out(c)
    <2>1. Out(c)' = Cap(c) - (m - 1) /\ Out(c) = Cap(c) - m /\ Cap(c) \in Nat /\ Out(c) \in Int
      BY <1>2, OutIs DEF Out
    <2>2. Out(c)' = Out(c) + 1
      BY <2>1, <1>2
    <2>3. Out(c)' - 1 = Out(c)
      BY <2>2, <2>1
    <2>4. QED  BY <2>1, <2>2, <2>3, <1>1 DEF NextOut
  <1>5. \A i \in 1 .. m - 1 : codec'.pkts[i].data = Out(c)' + i - 1
    <2>1. \A i \in 1 .. m - 1 : i + 1 \in 1 .. m /\ Out(c) + (i + 1) - 1 = (Out(c) + 1) + i - 1
      BY <1>2, <1>4
    <2>2. QED  BY <2>1, <1>2, <1>3, <1>4
  <1>6. decoder'.frame.pos = Out(c)' - 1
    <2>1. 1 \in 1 .. m /\ Out(c) + 1 - 1 = (Out(c) + 1) - 1
      BY <1>2, <1>4
    <2>2. QED  BY <2>1, <1>1, <1>2, <1>3, <1>4
  <1>7. finished' # pkt_serial' /\ ~AtFlush
    BY <1>1, <1>2 DEF DecodedInv, AtFlush
  <1>8. codec'.draining => c >= Length
    BY <1>1, <1>7 DEF DecodedInv
  <1>9. Newest' # NoFrame /\ Newest'.serial = pkt_serial' =>
           Newest'.pos < NextOut(c)' /\ (FrameDrop \/ Newest'.pos = NextOut(c)' - 1)
    BY <1>1, <1>3, <1>4 DEF DecodedInv
  <1>10. QED  BY <1>1, <1>2, <1>5, <1>6, <1>7, <1>8, <1>9 DEF DecodedInv

LEMMA DecodedFinished ==
    ASSUME TypeOK, RefreshInv, NEW c \in Nat, DecodedInv(c), [Next]_vars, DecoderFinished
    PROVE  DecodedInv(c)'
  <1>1. /\ decoder.at = "receive" /\ decoder'.at = "try" /\ codec.pkts = << >>
        /\ codec'.pkts = codec.pkts /\ codec.draining /\ ~codec'.draining
        /\ pkt_serial' = pkt_serial
    BY OrderTypes DEF DecoderFinished, DecoderGoes
  <1>2. Newest' = Newest
    <2>1. ~DecoderPush
      BY DEF DecoderFinished, DecoderPush
    <2>2. QED  BY <2>1, NewestStep
  <1>3. c >= Length
    BY <1>1 DEF DecodedInv, AtFlush
  <1>4. Out(c)' = Out(c) /\ NextOut(c) = Out(c) /\ NextOut(c)' = Out(c) /\ (CodecFresh' <=> CodecFresh)
    BY <1>1 DEF Out, NextOut, CodecFresh
  <1>5. QED  BY <1>1, <1>2, <1>3, <1>4 DEF DecodedInv


LEMMA DecodedSend ==
    ASSUME TypeOK, RefreshInv, CodecInv, NEW c \in Nat, DecodedInv(c), [Next]_vars,
           DecoderSend, decoder.pkt = Datum(c)
    PROVE  DecodedInv(c + 1)'
  <1> DEFINE m == Len(codec.pkts)
  <1>1. /\ decoder.at = "check" /\ decoder'.at = "try" /\ decoder.pkt # FlushPkt
        /\ UNCHANGED <<pkt_serial, finished>> /\ Newest' = Newest /\ videoq.serial = pkt_serial
    <2>1. Newest' = Newest
      <3>1. ~DecoderPush
        BY DEF DecoderSend, DecoderPush
      <3>2. QED  BY <3>1, NewestStep
    <2>2. QED  BY <2>1, OrderTypes DEF DecoderSend
  <1>2. CodecFresh /\ ~AtFlush /\ ~AtFlush'
    BY <1>1, SerialTypes DEF CodecInv, AtFlush
  <1>3. /\ \A i \in 1 .. m : codec.pkts[i].data = Out(c) + i - 1
        /\ codec.draining => c >= Length
        /\ NextOut(c) = Out(c)
    BY <1>1, <1>2 DEF DecodedInv, NextOut
  <1>4. m \in Nat /\ Length \in Nat /\ NextOut(c + 1)' = Out(c + 1)'
    BY <1>1, OutIs DEF NextOut
  <1>5. CASE c >= Length
    <2>1. decoder.pkt = NullPkt
      BY <1>4, <1>5 DEF Datum
    <2>2. codec'.pkts = codec.pkts
      BY <2>1, OrderTypes DEF DecoderSend
    <2>3. Out(c + 1)' = Out(c)
      <3>1. Out(c + 1)' = Cap(c + 1) - m /\ Out(c) = Cap(c) - m
        BY <2>2 DEF Out
      <3>2. QED  BY <3>1, <1>5, OutIs
    <2>4. CodecFresh' /\ c + 1 >= Length
      BY <1>1, <1>2, <1>4, <1>5, <2>2 DEF CodecFresh
    <2>5. QED  BY <1>1, <1>2, <1>3, <1>4, <2>2, <2>3, <2>4 DEF DecodedInv
  <1>6. CASE c < Length
    <2> DEFINE packet == [data |-> decoder.pkt, serial |-> pkt_serial]
    <2>1. packet.data = c /\ packet.serial = pkt_serial /\ decoder.pkt # NullPkt
      BY <1>6, <1>4 DEF Datum, NullPkt
    <2>2. codec'.pkts = Append(codec.pkts, packet) /\ codec'.draining = codec.draining
      BY <2>1, OrderTypes DEF DecoderSend
    <2> HIDE DEF packet
    <2>3. /\ Len(codec'.pkts) = m + 1 /\ codec'.pkts[m + 1] = packet
          /\ \A i \in 1 .. m : codec'.pkts[i] = codec.pkts[i]
      BY <2>2, OrderTypes, AppendProperties
    <2>4. Out(c) = c - m /\ Out(c + 1)' = c - m
      <3>1. Out(c + 1)' = Cap(c + 1) - (m + 1) /\ Cap(c + 1) = c + 1
        BY <2>3, <1>6, OutIs DEF Out
      <3>2. Out(c) = Cap(c) - m /\ Cap(c) = c
        BY <1>6, OutIs
      <3>3. (c + 1) - (m + 1) = c - m
        BY <1>4
      <3>4. QED  BY <3>1, <3>2, <3>3
    <2>5. ASSUME NEW i \in 1 .. m + 1
          PROVE  codec'.pkts[i].data = Out(c + 1)' + i - 1 /\ codec'.pkts[i].serial = pkt_serial
      <3>1. CASE i = m + 1
        <4>1. (c - m) + (m + 1) - 1 = c
          BY <1>4
        <4>2. QED  BY <3>1, <4>1, <2>1, <2>3, <2>4
      <3>2. CASE i # m + 1
        <4>1. i \in 1 .. m
          BY <3>2, <1>4
        <4>2. QED  BY <4>1, <2>3, <2>4, <1>2, <1>3 DEF CodecFresh
      <3>3. QED  BY <3>1, <3>2
    <2>6. finished # pkt_serial /\ ~codec'.draining
      BY <1>3, <1>4, <1>6, <2>2 DEF DecodedInv
    <2>7. Newest # NoFrame /\ Newest.serial = pkt_serial =>
             Newest.pos < Out(c) /\ (FrameDrop \/ Newest.pos = Out(c) - 1)
      BY <1>1, <1>2, <1>3 DEF DecodedInv
    <2>8. Out(c + 1)' = Out(c)
      BY <2>4
    <2>9. QED  BY <1>1, <1>4, <2>3, <2>5, <2>6, <2>7, <2>8 DEF DecodedInv
  <1>7. QED  BY <1>4, <1>5, <1>6

LEMMA DecodedOut ==
    ASSUME TypeOK, RefreshInv, CodecInv, NEW c \in Nat, DecodedInv(c), [Next]_vars,
           DecoderPush \/ DecoderDrop
    PROVE  DecodedInv(c)'
  <1>1. /\ decoder.at = "push" /\ decoder'.at \in {"try", "done"}
        /\ UNCHANGED <<codec, pkt_serial, finished>>
    BY OrderTypes DEF DecoderPush, DecoderDrop, DecoderLeaves
  <1>2. CodecFresh /\ decoder.frame.pos = Out(c) - 1 /\ NextOut(c) = Out(c) - 1
    BY <1>1 DEF CodecInv, DecodedInv, NextOut
  <1>3. /\ Out(c)' = Out(c) /\ NextOut(c)' = Out(c) /\ (CodecFresh' <=> CodecFresh)
        /\ ~AtFlush /\ ~AtFlush' /\ Out(c) \in Int
    BY <1>1, OutIs DEF Out, NextOut, CodecFresh, AtFlush
  <1>4. CASE DecoderPush /\ Newest' = decoder.frame
    <2>1. Newest'.pos < NextOut(c)' /\ Newest'.pos = NextOut(c)' - 1
      BY <1>2, <1>3, <1>4
    <2>2. QED  BY <1>1, <1>3, <2>1 DEF DecodedInv
  <1>5. CASE Newest' = Newest
    <2>1. CASE decoder'.at = "done"
      BY <1>1, <1>3, <1>5, <2>1 DEF DecodedInv
    <2>2. CASE decoder'.at = "try" /\ FrameDrop
      <3>1. Newest # NoFrame /\ Newest.serial = pkt_serial => Newest.pos < Out(c) - 1
        BY <1>1, <1>2 DEF DecodedInv
      <3>2. Newest.pos \in Int
        BY OrderTypes
      <3>3. Newest # NoFrame /\ Newest.serial = pkt_serial => Newest.pos < Out(c)
        BY <3>1, <3>2, <1>3
      <3>4. QED  BY <1>1, <1>3, <1>5, <2>2, <3>3 DEF DecodedInv
    <2>3. CASE decoder'.at = "try" /\ ~FrameDrop
      <3>1. DecoderPush /\ ready' = Append(ready, decoder.frame) /\ last' = last
        BY <2>3, OrderTypes DEF DecoderPush, DecoderDrop, DecoderLeaves
      <3>2. Newest' = decoder.frame
        <4>1. Len(ready') = Len(ready) + 1 /\ ready'[Len(ready) + 1] = decoder.frame
          BY <3>1, OrderTypes, AppendProperties
        <4>2. QED  BY <4>1, OrderTypes DEF Newest
      <3>3. QED  BY <3>1, <3>2, <1>4
    <2>4. QED  BY <2>1, <2>2, <2>3, <1>1
  <1>6. QED  BY <1>4, <1>5, NewestStep


-----------------------------------------------------------------------------
(***************************************************************************)
(* The queue and the codec together.                                       *)
(***************************************************************************)
LEMMA OrderInit == Init => OrderInv
  <1> SUFFICES ASSUME Init PROVE OrderInv
    OBVIOUS
  <1>1. /\ read.at = "loop" /\ read.pos = 0 /\ decoder.at = "try" /\ codec.pkts = << >>
        /\ ~codec.draining /\ pkt_serial = 0 /\ ready = << >> /\ last = NoFrame
    BY DEF Init
  <1>2. videoq.serial = 1 /\ ~videoq.abort_request /\ Len(videoq.pkts) = 1 /\ Length \in Nat
    BY QueueInit, PlaybackAssumption
  <1>3. videoq.pkts[1].data = FlushPkt
    <2>1. videoq.pkts[1] = [data |-> FlushPkt, serial |-> 1]
      BY QueueInit
    <2>2. QED  BY <2>1
  <1>4. \A i \in 1 .. Len(videoq.pkts) : videoq.pkts[i].data = FlushPkt
    BY <1>2, <1>3
  <1>5. -1 + Len(videoq.pkts) = 0
    BY <1>2
  <1>6. QueueInv(-1)
    BY <1>1, <1>2, <1>4, <1>5 DEF QueueInv
  <1>7. DecodedInv(Length)
    <2>1. Newest = NoFrame /\ Len(codec.pkts) = 0
      BY <1>1 DEF Newest
    <2>2. QED  BY <1>1, <1>2, <2>1 DEF DecodedInv
  <1>8. Linked(-1, Length)
    BY <1>1, <1>2 DEF Linked
  <1>9. QED  BY <1>2, <1>6, <1>7, <1>8 DEF OrderInv

\* What the decoder does between two packets it takes.
LEMMA DecoderOrder ==
    ASSUME TypeOK, RefreshInv, ChainInv, CodecInv, SerialsInv, NEW q \in Int, NEW c \in Nat,
           DecodedInv(c), Linked(q, c), [Next]_vars, DecoderNext, ~DecoderGet,
           videoq'.serial = videoq.serial
    PROVE  \E e \in Nat : DecodedInv(e)' /\ Linked(q, e)'
  <1>0. pkt_serial' = pkt_serial /\ DOMAIN decoder = {"at", "pkt", "frame"} /\ Length \in Nat
    BY OrderTypes, Footprint
  <1>1. ASSUME decoder.at # "check", decoder'.at # "check"
        PROVE  Linked(q, c)'
    BY <1>0, <1>1 DEF Linked, InHand
  <1>2. CASE DecoderTry \/ DecoderAgain \/ DecoderStarves \/ DecoderBuffers \/ DecoderAborted
    <2>1. /\ decoder.at \in {"try", "receive", "get", "starved", "block"}
          /\ decoder'.at \in {"get", "done", "receive", "starved", "block"}
          /\ UNCHANGED <<codec, finished>> /\ ~DecoderPush
      BY <1>2, <1>0 DEF DecoderTry, DecoderAgain, DecoderStarves, DecoderBuffers,
         DecoderAborted, DecoderGoes, DecoderPush
    <2>2. Newest' = Newest
      BY <2>1, NewestStep
    <2>3. DecodedInv(c)'
      BY <2>1, <2>2, <1>0, DecodedMoves DEF AtFlush
    <2>4. QED  BY <2>1, <2>3, <1>1
  <1>3. CASE DecoderReceive
    BY <1>1, <1>3, <1>0, DecodedReceive DEF DecoderReceive
  <1>4. CASE DecoderFinished
    <2>1. decoder.at # "check" /\ decoder'.at # "check"
      BY <1>4, <1>0 DEF DecoderFinished, DecoderGoes
    <2>2. QED  BY <2>1, <1>1, <1>4, DecodedFinished
  <1>5. CASE DecoderPush \/ DecoderDrop
    <2>1. decoder.at # "check" /\ decoder'.at # "check"
      BY <1>5, <1>0 DEF DecoderPush, DecoderDrop, DecoderLeaves
    <2>2. QED  BY <2>1, <1>1, <1>5, DecodedOut
  <1>6. CASE DecoderSkip
    <2>1. /\ decoder.at = "check" /\ decoder'.at = "get" /\ videoq.serial # pkt_serial
          /\ UNCHANGED <<codec, finished>> /\ ~DecoderPush
      BY <1>6, <1>0 DEF DecoderSkip, DecoderPush
    <2>2. Newest' = Newest
      BY <2>1, NewestStep
    <2>3. \A e : Linked(q, e)'
      BY <2>1, <1>0 DEF Linked
    <2>4. CASE ~AtFlush
      BY <2>1, <2>2, <2>3, <2>4, <1>0, DecodedMoves
    <2>5. CASE AtFlush
      <3>1. /\ finished < pkt_serial /\ Newest.serial < pkt_serial
            /\ \A i \in 1 .. Len(codec.pkts) : codec.pkts[i].serial < pkt_serial
        BY <2>5 DEF SerialsInv
      <3>2. /\ pkt_serial \in Nat /\ finished \in Nat /\ Newest.serial \in Nat
            /\ Len(codec.pkts) \in Nat /\ \A i \in 1 .. Len(codec.pkts) : codec.pkts[i].serial \in Nat
        BY SerialTypes, OrderTypes
      <3>3. /\ pkt_serial' \in Nat /\ finished' \in Nat /\ Newest'.serial \in Nat
            /\ finished' < pkt_serial' /\ Newest'.serial < pkt_serial'
            /\ decoder'.at # "push" /\ Length >= Length
        BY <3>1, <3>2, <2>1, <2>2, <1>0
      <3>4. /\ Len(codec'.pkts) \in Nat
            /\ \A i \in 1 .. Len(codec'.pkts) :
                  codec'.pkts[i].serial \in Nat /\ codec'.pkts[i].serial < pkt_serial'
        BY <3>1, <3>2, <2>1, <1>0
      <3>5. DecodedInv(Length)'
        BY <3>3, <3>4, DecodedNew
      <3>6. QED  BY <3>5, <2>3, <1>0
    <2>6. QED  BY <2>4, <2>5
  <1>7. CASE DecoderFlush
    <2>1. /\ decoder.at = "check" /\ decoder.pkt = FlushPkt /\ videoq.serial = pkt_serial
          /\ decoder'.at = "try" /\ codec'.pkts = << >> /\ ~codec'.draining /\ finished' = 0
          /\ ~DecoderPush
      BY <1>7, <1>0 DEF DecoderFlush, DecoderPush
    <2>2. Newest' = Newest
      BY <2>1, NewestStep
    <2>3. pkt_serial \in Nat /\ Newest.serial \in Nat /\ finished \in Nat
      BY SerialTypes, OrderTypes
    <2>4. finished < pkt_serial /\ Newest.serial < pkt_serial
      BY <2>1 DEF SerialsInv, AtFlush
    <2>5. DecodedInv(c)'
      BY <2>1, <2>2, <2>3, <2>4, <1>0, DecodedNew
    <2>6. Linked(q, c)'
      BY <2>1, <1>0 DEF Linked, InHand
    <2>7. QED  BY <2>5, <2>6
  <1>8. CASE DecoderSend
    <2>1. /\ decoder.at = "check" /\ decoder.pkt # FlushPkt /\ videoq.serial = pkt_serial
          /\ decoder'.at = "try"
      BY <1>8, <1>0 DEF DecoderSend
    <2>2. decoder.pkt = Datum(c) /\ q = c + 1
      BY <2>1 DEF Linked, InHand
    <2>3. DecodedInv(c + 1)'
      BY <2>2, <1>8, DecodedSend
    <2>4. Linked(q, c + 1)'
      BY <2>1, <2>2 DEF Linked, InHand
    <2>5. QED  BY <2>3, <2>4
  <1>9. QED
    BY <1>2, <1>3, <1>4, <1>5, <1>6, <1>7, <1>8 DEF DecoderNext

\* The decoder takes the first packet of the queue.
LEMMA GetOrder ==
    ASSUME TypeOK, RefreshInv, ChainInv, CodecInv, SerialsInv, SerialsInv', TypeOK',
           NEW q \in Int, NEW c \in Nat,
           QueueInv(q), DecodedInv(c), Linked(q, c), [Next]_vars, DecoderGet
    PROVE  \E e \in Nat : DecodedInv(e)' /\ Linked(q + 1, e)'
  <1>0. /\ pkt_serial \in Nat /\ DOMAIN decoder = {"at", "pkt", "frame"} /\ Length \in Nat
        /\ videoq \in Queues /\ q >= -1 /\ finished \in Nat
    BY OrderTypes, SerialTypes DEF QueueInv
  <1>1. /\ decoder.at \in {"get", "block"} /\ UNCHANGED <<codec, finished>>
        /\ videoq.pkts # << >> /\ 1 \in 1 .. Len(videoq.pkts)
        /\ QueueGot(videoq) = videoq.pkts[1] /\ pkt_serial' = videoq.pkts[1].serial
        /\ videoq'.serial = videoq.serial
    BY SerialTypes, <1>0 DEF DecoderGet, Gettable, QueueGot, QueueGet, Queues
  <1>2. Newest' = Newest
    <2>1. ~DecoderPush
      BY <1>1 DEF DecoderPush
    <2>2. QED  BY <2>1, NewestStep
  <1>3. pkt_serial' = videoq.serial
    BY <1>1 DEF SerialsInv
  <1>4. \/ PacketBuffering /\ finished = pkt_serial' /\ decoder'.at = "get"
        \/ decoder'.at = "check" /\ decoder'.pkt = videoq.pkts[1].data
    BY <1>0, <1>1 DEF DecoderGet
  <1>5. CASE videoq.pkts[1].data = FlushPkt
    <2>1. pkt_serial' > pkt_serial
      BY <1>1, <1>5 DEF ChainInv, Before
    <2>2. AtFlush'
      BY <2>1, <1>0, <1>3, <1>4, <1>5, SerialTypes DEF ChainInv, AtFlush
    <2>3. /\ finished' < pkt_serial' /\ Newest'.serial < pkt_serial'
          /\ \A i \in 1 .. Len(codec'.pkts) : codec'.pkts[i].serial < pkt_serial'
      BY <2>2 DEF SerialsInv
    <2>4. /\ pkt_serial' \in Nat /\ finished' \in Nat /\ Newest'.serial \in Nat
          /\ Len(codec'.pkts) \in Nat
          /\ \A i \in 1 .. Len(codec'.pkts) : codec'.pkts[i].serial \in Nat
      BY <1>0, <1>1, <1>2, <1>3, SerialTypes, OrderTypes
    <2>5. decoder'.at = "check" /\ decoder'.pkt = FlushPkt
      BY <2>2 DEF AtFlush
    <2>6. DecodedInv(q + 1)'
      BY <2>2, <2>3, <2>4, <2>5, DecodedNew
    <2>7. Linked(q + 1, q + 1)' /\ q + 1 \in Nat
      BY <2>5, <1>0 DEF Linked, InHand
    <2>8. QED  BY <2>6, <2>7
  <1>6. CASE videoq.pkts[1].data # FlushPkt
    <2>1. pkt_serial' = pkt_serial
      BY <1>1, <1>6, GetSerial
    <2>2. q = c /\ videoq.pkts[1].data = Datum(c)
      <3>1. q = c
        BY <1>1, <1>3, <2>1 DEF Linked, InHand
      <3>2. videoq.pkts[1].data = Datum(q + 1 - 1) /\ q + 1 - 1 = q
        BY <1>1, <1>6 DEF QueueInv
      <3>3. QED  BY <3>1, <3>2
    <2>3. CASE decoder'.at = "check" /\ decoder'.pkt = videoq.pkts[1].data
      <3>1. DecodedInv(c)'
        BY <1>1, <1>2, <2>1, <2>3, DecodedMoves DEF AtFlush
      <3>2. Linked(q + 1, c)'
        BY <2>2, <2>3, <1>6 DEF Linked, InHand
      <3>3. QED  BY <3>1, <3>2
    <2>4. CASE finished = pkt_serial' /\ decoder'.at = "get"
      <3>1. c >= Length
        BY <2>1, <2>4 DEF DecodedInv
      <3>2. DecodedInv(c + 1)
        BY <3>1, <1>0, PastEnd
      <3>3. DecodedInv(c + 1)'
        BY <1>1, <1>2, <2>1, <2>4, <3>2, DecodedMoves DEF AtFlush
      <3>4. Linked(q + 1, c + 1)'
        BY <2>2, <2>4 DEF Linked, InHand
      <3>5. QED  BY <3>3, <3>4
    <2>5. QED  BY <2>3, <2>4, <1>4
  <1>7. QED  BY <1>5, <1>6

LEMMA OrderStep ==
    /\ BaseInv /\ ChainInv /\ EndInv /\ CodecInv /\ SerialsInv /\ OrderInv /\ [Next]_vars
    => OrderInv'
  <1> SUFFICES ASSUME TypeOK, SeekInv, RefreshInv, ChainInv, CodecInv, SerialsInv, OrderInv,
                      [Next]_vars, TypeOK', SerialsInv'
               PROVE  OrderInv'
    BY BaseStep, SerialsStep DEF BaseInv
  <1>0. PICK q \in Int, c \in Nat : QueueInv(q) /\ DecodedInv(c) /\ Linked(q, c)
    BY DEF OrderInv
  <1>1. CASE DecoderGet /\ QueueInv(q + 1)'
    <2>1. PICK e \in Nat : DecodedInv(e)' /\ Linked(q + 1, e)'
      BY <1>0, <1>1, GetOrder
    <2>2. q + 1 \in Int
      OBVIOUS
    <2>3. QED  BY <2>1, <2>2, <1>1 DEF OrderInv
  <1>2. ASSUME ~DecoderNext PROVE DecodedInv(c)' /\ UNCHANGED <<decoder, pkt_serial>>
    BY <1>0, <1>2, DecoderKeeps, DecodedStays
  <1>3. CASE /\ ReadPutFlush /\ videoq'.serial = videoq.serial + 1
             /\ \E r \in Int : QueueInv(r)'
    <2>1. PICK r \in Int : QueueInv(r)'
      BY <1>3
    <2>2. UNCHANGED <<decoder, codec, pkt_serial, finished, ready, last>>
      BY <1>3 DEF ReadPutFlush, decodeVars, frames
    <2>3. Newest' = Newest
      BY <2>2 DEF Newest
    <2>4. DecodedInv(c)'
      BY <1>0, <2>2, <2>3, DecodedStays
    <2>5. Linked(r, c)'
      BY <1>3, <2>2, SerialTypes DEF Linked, ChainInv
    <2>6. QED  BY <2>1, <2>4, <2>5 DEF OrderInv
  <1>4. CASE ~DecoderGet /\ videoq'.serial = videoq.serial /\ QueueInv(q)'
    <2>1. CASE DecoderNext
      <3>1. PICK e \in Nat : DecodedInv(e)' /\ Linked(q, e)'
        BY <1>0, <1>4, <2>1, DecoderOrder
      <3>2. QED  BY <3>1, <1>4 DEF OrderInv
    <2>2. CASE ~DecoderNext
      <3>1. Linked(q, c)'
        BY <1>0, <1>2, <1>4, <2>2 DEF Linked, InHand
      <3>2. QED  BY <3>1, <1>2, <1>4, <2>2 DEF OrderInv
    <2>3. QED  BY <2>1, <2>2
  <1>5. QED  BY <1>0, <1>1, <1>3, <1>4, PlacesStep


-----------------------------------------------------------------------------
(***************************************************************************)
(* The frames in the frame queue and on the screen.                        *)
(***************************************************************************)
LEMMA ChainedFollows ==
    ASSUME TypeOK, NEW a \in Frames, NEW b \in Frames, Chained(a, b)
    PROVE  Follows(b, a)
  BY DEF Chained, Follows

LEMMA FollowsOn ==
    ASSUME TypeOK, NEW a \in Frames, NEW b \in Frames, NEW c \in Frames,
           Follows(b, a), Follows(c, b)
    PROVE  Follows(c, a)
  <1>1. /\ a.pos \in Int /\ b.pos \in Int /\ c.pos \in Int
        /\ a.serial \in Nat /\ b.serial \in Nat /\ c.serial \in Nat
    BY OrderTypes
  <1>2. QED  BY <1>1 DEF Follows

LEMMA OrderedInit == Init => FramesInv /\ EndsInv
  BY DEF Init, FramesInv, EndsInv

\* The frame that is pushed is the next one after the newest of the queue.
LEMMA PushedNext ==
    ASSUME TypeOK, CodecInv, SerialsInv, OrderInv, decoder.at = "push", Newest # NoFrame
    PROVE  Chained(Newest, decoder.frame)
  <1>1. PICK c \in Nat : DecodedInv(c)
    BY DEF OrderInv
  <1>2. /\ CodecFresh /\ decoder.frame.pos = Out(c) - 1 /\ NextOut(c) = Out(c) - 1
        /\ decoder.frame.serial = pkt_serial /\ Newest.serial <= pkt_serial
    BY <1>1 DEF CodecInv, DecodedInv, NextOut, SerialsInv
  <1>3. /\ Out(c) \in Int /\ Newest.pos \in Int /\ Newest.serial \in Nat /\ pkt_serial \in Nat
    BY OutIs, OrderTypes, SerialTypes
  <1>4. CASE Newest.serial < pkt_serial
    BY <1>2, <1>3, <1>4 DEF Chained
  <1>5. CASE Newest.serial = pkt_serial
    <2>1. Newest.pos < NextOut(c) /\ (FrameDrop \/ Newest.pos = NextOut(c) - 1)
      BY <1>1, <1>2, <1>5 DEF DecodedInv
    <2>2. Newest.pos < decoder.frame.pos /\ (FrameDrop \/ decoder.frame.pos = Newest.pos + 1)
      BY <2>1, <1>2, <1>3
    <2>3. QED  BY <2>2, <1>2, <1>5 DEF Chained
  <1>6. QED  BY <1>2, <1>3, <1>4, <1>5

LEMMA OrderedStep ==
    /\ BaseInv /\ CodecInv /\ SerialsInv /\ OrderInv /\ FramesInv /\ [Next]_vars
    => FramesInv'
  <1> SUFFICES ASSUME TypeOK, RefreshInv, CodecInv, SerialsInv, OrderInv, FramesInv, [Next]_vars
               PROVE  FramesInv'
    BY DEF BaseInv
  <1> DEFINE n == Len(ready)
  <1>0. /\ n \in Nat /\ ready \in Seq(Frames) /\ last \in Frames /\ shown \in Frames
        /\ decoder.frame \in Frames /\ NoFrame.serial = 0
        /\ \A i \in 1 .. n : ready[i] \in Frames
    BY OrderTypes, ElementOfSeq DEF NoFrame
  <1>1. CASE UNCHANGED <<ready, last>> /\ shown' \in {shown, last}
    BY <1>1 DEF FramesInv
  <1>2. CASE DecoderPush /\ ready' = Append(ready, decoder.frame) /\ UNCHANGED last
    <2>1. /\ Len(ready') = n + 1 /\ ready'[n + 1] = decoder.frame
          /\ \A i \in 1 .. n : ready'[i] = ready[i]
      BY <1>2, <1>0, AppendProperties
    <2>2. shown' = shown /\ decoder.at = "push" /\ decoder.frame.serial >= 1
      BY <1>2 DEF DecoderPush, showVars, screen, SerialsInv
    <2>3. Newest # NoFrame => Chained(Newest, decoder.frame)
      BY <2>2, PushedNext
    <2>4. ASSUME NEW i \in 1 .. Len(ready') PROVE ready'[i].serial >= 1
      <3>1. i = n + 1 \/ i \in 1 .. n
        BY <2>1, <1>0
      <3>2. QED  BY <3>1, <2>1, <2>2 DEF FramesInv
    <2>5. ASSUME NEW i \in 1 .. n PROVE Chained(ready'[i], ready'[i + 1])
      <3>1. CASE i = n
        <4>1. n # 0 /\ ready # << >>
          BY <3>1, <1>0
        <4>2. Newest = ready[n] /\ ready[n].serial >= 1
          BY <3>1, <4>1 DEF Newest, FramesInv
        <4>3. Newest # NoFrame
          BY <4>2, <1>0
        <4>4. QED  BY <4>2, <4>3, <3>1, <2>1, <2>3
      <3>2. CASE i # n
        <4>1. i \in 1 .. n - 1 /\ i + 1 \in 1 .. n
          BY <3>2, <1>0
        <4>2. QED  BY <4>1, <2>1 DEF FramesInv
      <3>3. QED  BY <3>1, <3>2
    <2>6. ASSUME last # NoFrame PROVE Chained(last, ready'[1])
      <3>1. CASE ready = << >>
        <4>1. n = 0 /\ Newest = last
          BY <3>1 DEF Newest
        <4>2. QED  BY <4>1, <2>1, <2>3, <2>6
      <3>2. CASE ready # << >>
        <4>1. 1 \in 1 .. n
          BY <3>2, <1>0
        <4>2. QED  BY <4>1, <3>2, <2>1, <2>6 DEF FramesInv
      <3>3. QED  BY <3>1, <3>2
    <2>7. Len(ready') - 1 = n
      BY <2>1, <1>0
    <2>8. QED  BY <2>2, <2>4, <2>5, <2>6, <2>7, <1>2 DEF FramesInv
  <1>3. CASE RefreshSkip \/ RefreshDrop \/ RefreshTake
    <2>1. /\ ready # << >> /\ last' = Head(ready) /\ ready' = Tail(ready) /\ shown' = shown
      BY <1>3 DEF RefreshSkip, RefreshDrop, RefreshTake, TakeFrame, RefreshInv, showVars, screen
    <2>2. /\ 1 \in 1 .. n /\ last' = ready[1] /\ Len(ready') = n - 1
          /\ \A i \in 1 .. n - 1 : ready'[i] = ready[i + 1]
      BY <2>1, <1>0, HeadTailProperties
    <2>3. ready[1] \in Frames /\ ready[1].serial >= 1 /\ ready[1] # NoFrame
      BY <2>2, <1>0 DEF FramesInv
    <2>4. ASSUME NEW i \in 1 .. Len(ready') PROVE ready'[i].serial >= 1
      <3>1. i \in 1 .. n - 1 /\ i + 1 \in 1 .. n
        BY <2>2, <1>0
      <3>2. QED  BY <3>1, <2>2 DEF FramesInv
    <2>5. ASSUME NEW i \in 1 .. Len(ready') - 1 PROVE Chained(ready'[i], ready'[i + 1])
      <3>1. i \in 1 .. n - 1 /\ i + 1 \in 1 .. n - 1
        BY <2>2, <1>0
      <3>2. ready'[i] = ready[i + 1] /\ ready'[i + 1] = ready[(i + 1) + 1]
        BY <3>1, <2>2
      <3>3. QED  BY <3>1, <3>2 DEF FramesInv
    <2>6. ASSUME ready' # << >> PROVE Chained(last', ready'[1])
      <3>0. ready' \in Seq(Frames)
        BY <2>1, <1>0, HeadTailProperties
      <3>1. 1 \in 1 .. n - 1
        BY <2>2, <2>6, <3>0, <1>0
      <3>2. ready'[1] = ready[1 + 1] /\ Chained(ready[1], ready[1 + 1])
        BY <3>1, <2>2 DEF FramesInv
      <3>3. QED  BY <3>2, <2>2
    <2>7. Follows(ready[1], shown)
      <3>1. CASE last = NoFrame
        BY <3>1, <2>3, <1>0, OrderTypes DEF FramesInv, Follows
      <3>2. CASE last # NoFrame
        <4>1. Chained(last, ready[1])
          BY <3>2, <2>1 DEF FramesInv
        <4>2. Follows(ready[1], last)
          BY <4>1, <2>3, <1>0, ChainedFollows
        <4>3. shown = last \/ Follows(last, shown)
          BY DEF FramesInv
        <4>4. QED  BY <4>2, <4>3, <2>3, <1>0, FollowsOn
      <3>3. QED  BY <3>1, <3>2
    <2>8. QED  BY <2>1, <2>2, <2>3, <2>4, <2>5, <2>6, <2>7 DEF FramesInv
  <1>4. RefreshShow => UNCHANGED <<ready, last>> /\ shown' = last
    BY DEF RefreshShow, frames
  <1>5. QED
    <2>1. CASE UNCHANGED <<ready, last>>
      BY <2>1, <1>1, <1>4, Footprint
    <2>2. CASE DecoderPush
      <3>1. shown' = shown /\ last' = last /\ (ready' = ready \/ ready' = Append(ready, decoder.frame))
        BY <2>2 DEF DecoderPush, showVars, screen
      <3>2. QED  BY <3>1, <2>2, <1>1, <1>2
    <2>3. QED  BY <2>1, <2>2, <1>3, Footprint

-----------------------------------------------------------------------------
(***************************************************************************)
(* The end of the stream.                                                  *)
(***************************************************************************)
\* When the decoder has met the end of the serial that is current, the queue
\* was read to the end of the input and nothing is under way.
LEMMA AtTheEnd ==
    ASSUME TypeOK, ChainInv, SerialsInv, OrderInv, finished = videoq.serial
    PROVE  /\ pkt_serial = videoq.serial /\ ~AtFlush
           /\ codec.pkts = << >> /\ decoder.at # "push"
           /\ \A i \in 1 .. Len(videoq.pkts) : videoq.pkts[i].data = NullPkt
           /\ Unread \/ read.pos = Length
  <1>1. PICK q \in Int, c \in Nat : QueueInv(q) /\ DecodedInv(c) /\ Linked(q, c)
    BY DEF OrderInv
  <1>2. /\ finished = pkt_serial /\ pkt_serial = videoq.serial /\ pkt_serial \in Nat
        /\ Length \in Nat /\ Len(videoq.pkts) \in Nat /\ read.pos \in 0 .. Length
    BY SerialTypes, OrderTypes DEF ChainInv
  <1>3. ~AtFlush
    BY <1>2 DEF SerialsInv
  <1>4. c >= Length /\ codec.pkts = << >> /\ decoder.at # "push"
    BY <1>1, <1>2 DEF DecodedInv
  <1>5. q >= Length
    BY <1>1, <1>2, <1>4 DEF Linked
  <1>6. ASSUME NEW i \in 1 .. Len(videoq.pkts) PROVE videoq.pkts[i].data = NullPkt
    <2>1. Before(i) = pkt_serial
      <3>1. CASE i = 1
        BY <3>1 DEF Before
      <3>2. CASE i # 1
        <4>1. i - 1 \in 1 .. Len(videoq.pkts)
          BY <3>2, <1>2
        <4>2. QED  BY <4>1, <3>2, <1>2 DEF Before, SerialsInv
      <3>3. QED  BY <3>1, <3>2
    <2>2. videoq.pkts[i].serial = pkt_serial
      BY <1>2 DEF SerialsInv
    <2>3. videoq.pkts[i].data # FlushPkt
      BY <2>1, <2>2, <1>2 DEF ChainInv
    <2>4. videoq.pkts[i].data = Datum(q + i - 1)
      BY <2>3, <1>1 DEF QueueInv
    <2>5. ~(q + i - 1 < Length)
      BY <1>2, <1>5
    <2>6. QED  BY <2>4, <2>5 DEF Datum
  <1>7. Unread \/ read.pos = Length
    <2>1. ~Unread /\ read.pos < Length => q + Len(videoq.pkts) <= read.pos
      BY <1>1 DEF QueueInv
    <2>2. QED  BY <2>1, <1>2, <1>5
  <1>8. QED  BY <1>2, <1>3, <1>4, <1>6, <1>7

LEMMA EndsStep ==
    /\ BaseInv /\ ChainInv /\ SerialsInv /\ OrderInv /\ EndsInv /\ [Next]_vars
    => EndsInv'
  <1> SUFFICES ASSUME TypeOK, RefreshInv, ChainInv, SerialsInv, OrderInv, EndsInv, [Next]_vars,
                      completed', read'.at # "sought"
               PROVE  /\ finished' = videoq'.serial /\ ready' = << >>
                      /\ read'.pos = Length \/ read'.at \in {"flush", "putflush"}
    BY DEF BaseInv, EndsInv
  <1>0. DOMAIN read = {"at", "target", "pos"} /\ read.pos \in 0 .. Length /\ Length \in Nat
    BY OrderTypes
  <1>1. CASE completed /\ read.at = "sought"
    <2>1. ReadNext => ReadSought
      BY <1>1 DEF ReadNext, ReadLoop, ReadSeekFile, ReadFlush, ReadPutFlush, ReadResume,
         ReadRebuffer, ReadFull, ReadEnded, ReadComplete, ReadPause, ReadWait, ReadPacket,
         ReadCheckBuffering, ReadEof
    <2>2. ~ReadSought
      BY DEF ReadSought
    <2>3. read' = read
      BY <2>1, <2>2, Footprint
    <2>4. QED  BY <2>3, <1>1
  <1>2. CASE completed /\ read.at # "sought"
    <2>1. /\ finished = videoq.serial /\ ready = << >>
          /\ read.pos = Length \/ read.at \in {"flush", "putflush"}
      BY <1>2 DEF EndsInv
    <2>2. pkt_serial = videoq.serial /\ ~AtFlush /\ decoder.at # "push"
      BY <2>1, AtTheEnd
    <2>3. ~ReadPutFlush
      BY <1>0 DEF ReadPutFlush, ReadGoes
    <2>4. videoq'.serial = videoq.serial
      BY <2>3, SerialStays
    <2>5. finished' = finished
      <3>1. ~DecoderFlush
        BY <2>2 DEF DecoderFlush, AtFlush
      <3>2. DecoderFinished => finished' = pkt_serial
        BY DEF DecoderFinished
      <3>3. QED  BY <3>1, <3>2, <2>1, <2>2, Footprint
    <2>6. ready' = << >>
      <3>1. ~DecoderPush /\ ~RefreshSkip /\ ~RefreshDrop /\ ~RefreshTake
        BY <2>1, <2>2 DEF DecoderPush, RefreshSkip, RefreshDrop, RefreshTake, RefreshInv
      <3>2. QED  BY <3>1, <2>1, Footprint
    <2>7. read'.pos = Length \/ read'.at \in {"flush", "putflush"}
      <3>1. CASE read' = read
        BY <3>1, <2>1
      <3>2. CASE ReadSeekFile
        <4>1. CASE read' = [at |-> "flush", target |-> 0, pos |-> read.target]
          BY <4>1
        <4>2. CASE read' = [read EXCEPT !.at = "sought", !.target = 0]
          BY <4>2, <1>0
        <4>3. QED  BY <4>1, <4>2, <3>2 DEF ReadSeekFile
      <3>3. CASE ReadFlush
        BY <3>3, <1>0 DEF ReadFlush, ReadGoes
      <3>4. CASE ReadPacket
        BY <3>4, <2>1, <1>0 DEF ReadPacket
      <3>5. CASE ReadLoop \/ ReadSought \/ ReadResume \/ ReadRebuffer \/ ReadFull \/ ReadEnded
        <4>1. read'.pos = read.pos /\ read.at \notin {"flush", "putflush"}
          BY <3>5, <1>0 DEF ReadLoop, ReadSought, ReadResume, ReadRebuffer, ReadFull, ReadEnded,
             ReadGoes
        <4>2. QED  BY <4>1, <2>1
      <3>6. CASE ReadComplete \/ ReadPause \/ ReadWait \/ ReadCheckBuffering \/ ReadEof
        <4>1. read'.pos = read.pos /\ read.at \notin {"flush", "putflush"}
          BY <3>6, <1>0 DEF ReadComplete, ReadPause, ReadWait, ReadCheckBuffering, ReadEof,
             ReadGoes
        <4>2. QED  BY <4>1, <2>1
      <3>7. QED
        BY <3>1, <3>2, <3>3, <3>4, <3>5, <3>6, <2>3, Footprint DEF ReadNext
    <2>8. QED  BY <2>1, <2>4, <2>5, <2>6, <2>7
  <1>3. CASE ~completed
    <2>1. ReadEnded
      BY <1>3, Footprint DEF ReadSought
    <2>2. /\ PlayedOut /\ UNCHANGED <<videoq, finished, ready>> /\ read'.pos = read.pos
          /\ read.at = "ended"
      BY <2>1, <1>0, <1>3 DEF ReadEnded, ReadGoes, decodeVars, frames
    <2>3. finished = videoq.serial /\ Len(ready) = 0
      BY <2>2 DEF PlayedOut, Remaining
    <2>4. ready = << >>
      BY <2>3, OrderTypes
    <2>5. read.pos = Length
      BY <2>2, <2>3, AtTheEnd DEF Unread
    <2>6. QED  BY <2>2, <2>3, <2>4, <2>5
  <1>4. QED  BY <1>1, <1>2, <1>3

PlayInv == IInv /\ SerialsInv /\ OrderInv /\ FramesInv /\ EndsInv

\* Everything above together, for inputs, queues and seeks of any number.
THEOREM PlayInvHolds == Spec => []PlayInv
  <1>1. Init => PlayInv
    BY BaseInit, ChainInit, FramesInit, SerialsInit, OrderInit, OrderedInit DEF PlayInv, IInv
  <1>2. PlayInv /\ [Next]_vars => PlayInv'
    BY BaseStep, ChainStep, CodecStep, FramesTrueStep, SerialsStep, OrderStep, OrderedStep,
       EndsStep DEF PlayInv, IInv
  <1>3. QED  BY <1>1, <1>2, PTL DEF Spec

\* The report that the stream has ended is true as long as it stands: neither
\* the packet queue, nor the codec, nor the decoder's hand, nor the frame queue
\* has anything of the current serial, and the demuxer is at the end.
THEOREM EndIsTrue == Spec => []EndIsTheEnd
  <1>1. PlayInv => EndIsTheEnd
    <2> SUFFICES ASSUME PlayInv, completed, read.at # "sought"
                 PROVE  /\ read.pos = Length \/ read.at \in {"flush", "putflush"}
                        /\ \A i \in 1 .. Len(videoq.pkts) : videoq.pkts[i].data = NullPkt
                        /\ codec.pkts = << >>
                        /\ decoder.at # "push" /\ ready = << >>
      BY DEF EndIsTheEnd
    <2>1. /\ finished = videoq.serial /\ ready = << >>
          /\ read.pos = Length \/ read.at \in {"flush", "putflush"}
      BY DEF PlayInv, EndsInv
    <2>2. QED  BY <2>1, AtTheEnd DEF PlayInv, IInv, BaseInv
  <1>2. QED  BY <1>1, PlayInvHolds, PTL

\* The picture only goes back when a seek did it, whatever the threads, the
\* frame dropping and the seeks do.
THEOREM ScreenGoesForward == Spec => NeverShowsEarlier
  <1>1. PlayInv /\ [Next]_vars => [shown' # shown => Follows(shown', shown)]_shown
    <2> SUFFICES ASSUME PlayInv, [Next]_vars, shown' # shown PROVE Follows(shown', shown)
      OBVIOUS
    <2>1. shown' = last
      BY Footprint DEF RefreshShow, PlayInv, IInv, BaseInv
    <2>2. shown = last \/ Follows(last, shown)
      BY DEF PlayInv, FramesInv
    <2>3. QED  BY <2>1, <2>2
  <1>2. QED  BY <1>1, PlayInvHolds, PTL DEF Spec, NeverShowsEarlier

\* Without frame dropping no frame is lost between the codec and the screen,
\* although each thread goes at its own pace and seeks cut through.
THEOREM NoneSkipped ==
    ASSUME ~FrameDrop
    PROVE  Spec => []NoFrameSkipped
  <1>1. PlayInv => NoFrameSkipped
    <2> SUFFICES ASSUME PlayInv PROVE NoFrameSkipped
      OBVIOUS
    <2> DEFINE shows == IF last = NoFrame THEN << >> ELSE <<last>>
               queued == shows \o ready
    <2>0. ready \in Seq(Frames) /\ Len(ready) \in Nat /\ last \in Frames /\ FramesInv
      BY OrderTypes DEF PlayInv, IInv, BaseInv
    <2>1. ASSUME NEW i \in 1 .. Len(queued) - 1 PROVE Chained(queued[i], queued[i + 1])
      <3>1. CASE last = NoFrame
        <4>1. queued = ready
          BY <3>1, <2>0
        <4>2. QED  BY <4>1, <2>0, <2>1 DEF FramesInv
      <3>2. CASE last # NoFrame
        <4>1. /\ Len(queued) = Len(ready) + 1 /\ queued[1] = last
              /\ \A j \in 1 .. Len(ready) : queued[j + 1] = ready[j]
          BY <3>2, <2>0
        <4>2. i \in 1 .. Len(ready)
          BY <4>1, <2>0, <2>1
        <4>3. CASE i = 1
          BY <3>2, <4>1, <4>2, <4>3, <2>0 DEF FramesInv
        <4>4. CASE i # 1
          <5>1. i - 1 \in 1 .. Len(ready) - 1 /\ (i - 1) + 1 = i
            BY <4>2, <4>4, <2>0
          <5>2. Chained(ready[i - 1], ready[(i - 1) + 1])
            BY <5>1, <2>0 DEF FramesInv
          <5>3. queued[(i - 1) + 1] = ready[i - 1] /\ queued[i + 1] = ready[i]
            BY <5>1, <4>1, <4>2, <2>0
          <5>4. QED  BY <5>1, <5>2, <5>3
        <4>5. QED  BY <4>3, <4>4
      <3>3. QED  BY <3>1, <3>2
    <2>2. ASSUME NEW i \in 1 .. Len(queued) - 1, queued[i + 1].serial = queued[i].serial
          PROVE  queued[i + 1].pos = queued[i].pos + 1
      <3>1. queued[i].serial \in Nat
        <4>1. shows \in Seq(Frames)
          BY <2>0
        <4>2. queued \in Seq(Frames)
          BY <4>1, <2>0
        <4> HIDE DEF queued
        <4>3. Len(queued) \in Nat
          BY <4>2
        <4>4. i \in 1 .. Len(queued)
          BY <4>3, <2>2
        <4>5. queued[i] \in Frames
          BY <4>2, <4>4, ElementOfSeq
        <4>6. QED  BY <4>5, <2>0, OrderTypes DEF PlayInv, IInv, BaseInv
      <3>2. ~(queued[i + 1].serial > queued[i].serial)
        BY <3>1, <2>2
      <3>3. QED  BY <3>2, <2>1, <2>2 DEF Chained
    <2>3. QED  BY <2>2 DEF NoFrameSkipped
  <1>2. QED  BY <1>1, PlayInvHolds, PTL
===============================================================================
