---------------------------- MODULE AccurateSeek ----------------------------
(***************************************************************************)
(* The accurate seek of ff_ffplay.c.  The demuxer can only go to a key     *)
(* frame before the target of a seek; with enable-accurate-seek each       *)
(* decoder then drops frames until it reaches the target, waits there for  *)
(* the other one, and the last of them reports the end of the seek.  They  *)
(* share two requests, two time stamps and one start time, most of them    *)
(* read outside accurate_seek_mutex, while the reading thread may already  *)
(* be at the next seek.                                                    *)
(*                                                                         *)
(* A time stamp is a number.  Of the clock only matters whether the time   *)
(* given to an accurate seek is over: a start time of 0 counts as one that *)
(* was very long ago.                                                      *)
(***************************************************************************)
EXTENDS Integers

CONSTANTS SeekStreams,   \* the sets of streams that are considered
          Unstamped,     \* decoders whose frames may have no time stamp
          LastPts,       \* time stamps are 0 .. LastPts
          MaxDeviation,  \* MAX_DEVIATION
          MaxSeeks       \* bound: seeks

Decoders == {"video", "audio"}
Pts      == 0 .. LastPts
NoPts    == -1          \* AV_NOPTS_VALUE

\* (A file with neither picture nor sound is not played: ff_ffplay.c 3304.)
ASSUME SeekAssumption ==
    /\ SeekStreams \subseteq (SUBSET Decoders) \ {{}}
    /\ Unstamped \subseteq Decoders /\ LastPts \in Nat /\ MaxDeviation \in Nat
    /\ MaxSeeks \in Nat

VARIABLES
    streams,        \* the decoders this file has
    seekReq, seekPos,
    accurateReq,    \* video_accurate_seek_req, audio_accurate_seek_req
    reached,        \* accurate_seek_vframe_pts, accurate_seek_aframe_pts
    dropping,       \* drop_vframe_count > 0, drop_aframe_count > 0
    startTime,      \* accurate_seek_start_time: "none", "running" or "over"
    seekHolder,     \* who holds accurate_seek_mutex
    decoder,        \* where each decoder is
    decoded,        \* the frame it has: its pts, and whether it was decoded after the seek
    target,         \* the seek_pos it took
    ahead,          \* the pts of the frame that comes next
    seekReader,     \* where the reading thread is in the handling of a seek
    seekAborted,    \* abort_request
    seekStopper,    \* where ffp_stop_l is
    completions,    \* history: ACCURATE_SEEK_COMPLETE since the requests were last set
    unsettled,      \* history: how requests were taken back other than at the target:
                    \* "given up", for a frame from "before" this seek, or "overtaken"
    tooEarly,       \* history: a frame before the target was kept
    seeks           \* bound

accurateVars == <<accurateReq, reached, dropping, startTime, seekHolder>>
decoderVars  == <<decoder, decoded, target, ahead>>
historyVars  == <<completions, unsettled, tooEarly>>
readerVars   == <<streams, seekReq, seekPos, seekReader, seekAborted, seekStopper, seeks>>
seekVars == <<accurateVars, decoderVars, historyVars, readerVars>>

Free == "free"
NoFrame == [pts |-> 0, fresh |-> FALSE]
Other(d) == IF d = "video" THEN "audio" ELSE "video"

SeekInit ==
    /\ streams \in SeekStreams
    /\ seekReq = FALSE /\ seekPos = 0
    /\ accurateReq = [d \in Decoders |-> FALSE]
    /\ reached = [d \in Decoders |-> 0]
    /\ dropping = [d \in Decoders |-> FALSE]
    /\ startTime = "none" /\ seekHolder = Free
    /\ decoder = [d \in Decoders |-> "decode"]
    /\ decoded = [d \in Decoders |-> NoFrame]
    /\ target = [d \in Decoders |-> 0]
    /\ ahead = [d \in Decoders |-> 0]
    /\ seekReader = "reads"
    /\ seekAborted = FALSE /\ seekStopper = "idle"
    /\ completions = 0 /\ unsettled = {} /\ tooEarly = FALSE
    /\ seeks = 0

Goes(d, where) == decoder' = [decoder EXCEPT ![d] = where]
Lock(t)        == seekHolder = Free /\ seekHolder' = t

\* SDL_CondSignal on the condition of decoder d; the one that waits takes the mutex again.
Signalled(where, d) ==
    CASE where[d] = "waits"     -> [where EXCEPT ![d] = "woken"]
      [] where[d] = "waitsLost" -> [where EXCEPT ![d] = "wokenLost"]
      [] OTHER -> where
-----------------------------------------------------------------------------
(* The decoders: the part of queue_picture and of audio_thread before a frame is kept. *)

\* decoder_decode_frame; after a flush nothing comes before the reader has read again.
GetFrame(d) ==
    /\ d \in streams /\ decoder[d] = "decode" /\ ~seekAborted
    /\ seekReader = "reads"
    /\ ahead[d] <= LastPts
    /\ \E pts \in {ahead[d]} \cup (IF d \in Unstamped THEN {NoPts} ELSE {}) :
          decoded' = [decoded EXCEPT ![d] = [pts |-> pts, fresh |-> TRUE]]
    /\ ahead' = [ahead EXCEPT ![d] = @ + 1]
    /\ Goes(d, "gate")
    /\ UNCHANGED <<accurateVars, target, historyVars, readerVars>>

\* The frame has been kept or dropped.
NextFrame(d) ==
    /\ Goes(d, "decode")
    /\ decoded' = [decoded EXCEPT ![d] = NoFrame]
    /\ target' = [target EXCEPT ![d] = 0]

\* The frame goes to the frame queue; one from before the flush is dropped there.
KeepFrame(d) ==
    /\ NextFrame(d)
    /\ tooEarly' = (tooEarly \/ (decoded[d].fresh /\ ~seekReq /\ seekReader = "reads" /\ ~seekAborted
                                 /\ decoded[d].pts \in 0 .. seekPos - 1 /\ unsettled \subseteq {"overtaken"}))

Gate(d) ==
    /\ decoder[d] = "gate"
    /\ IF accurateReq[d] /\ ~seekReq
       THEN /\ Goes(d, IF decoded[d].pts = NoPts THEN "fails" ELSE "compares")
            /\ UNCHANGED <<decoded, target, tooEarly>>
       ELSE KeepFrame(d)
    /\ UNCHANGED <<accurateVars, ahead, completions, unsettled, readerVars>>

TooFar(d) == \/ decoded[d].pts < seekPos
             \/ decoded[d].pts - seekPos > MaxDeviation

\* The first frame dropped starts the clock, if the other decoder is still on its way.
StartClock(d) ==
    /\ dropping' = [dropping EXCEPT ![d] = TRUE]
    /\ IF dropping[d] THEN UNCHANGED startTime
       ELSE /\ seekHolder = Free
            /\ startTime' = IF /\ startTime = "none"
                               /\ Other(d) \notin streams \/ accurateReq[Other(d)]
                            THEN "running" ELSE startTime

Compares(d) ==
    /\ decoder[d] = "compares"
    /\ target' = [target EXCEPT ![d] = seekPos]
    /\ reached' = [reached EXCEPT ![d] = decoded[d].pts]
    /\ IF TooFar(d)
       THEN Goes(d, "polls") /\ StartClock(d)
       ELSE Goes(d, "arrives") /\ UNCHANGED <<dropping, startTime>>
    /\ UNCHANGED <<accurateReq, seekHolder, decoded, ahead, historyVars, readerVars>>

TimeOver == startTime # "running"

\* The loop of 20 ms sleeps: a decoder does not run far ahead of the other one.
Abreast(d) == reached[Other(d)] >= decoded[d].pts /\ reached[Other(d)] < seekPos

PollEnds(d) == ~accurateReq[Other(d)] \/ seekAborted \/ Abreast(d) \/ TimeOver

\* Only audio gives up at once when video has arrived and is behind it.
VideoArrived(d) ==
    /\ d = "audio" /\ "video" \in streams
    /\ ~accurateReq["video"] /\ decoded[d].pts > reached["video"]

Judge(d) ==
    /\ decoder[d] = "polls" /\ PollEnds(d)
    /\ IF VideoArrived(d) \/ TimeOver
       THEN Goes(d, "fails") /\ UNCHANGED <<decoded, target>>
       ELSE NextFrame(d)
    /\ UNCHANGED <<accurateVars, ahead, historyVars, readerVars>>

\* At the target.  A seek that came meanwhile lets the frame through, request and all.
Arrives(d) ==
    /\ decoder[d] = "arrives"
    /\ IF target[d] = seekPos
       THEN dropping' = [dropping EXCEPT ![d] = FALSE] /\ Goes(d, "settles")
       ELSE Goes(d, "ends") /\ UNCHANGED dropping
    /\ UNCHANGED <<accurateReq, reached, startTime, seekHolder, decoded, target, ahead,
                   historyVars, readerVars>>

\* A decoder takes its request back and wakes the other one.  It waits if that is still
\* on its way, and reports the end of the seek otherwise.
TakeBack(d, waits, waiting, going) ==
    /\ accurateReq' = [accurateReq EXCEPT ![d] = FALSE]
    /\ decoder' = Signalled([decoder EXCEPT ![d] = IF waits THEN waiting ELSE going], Other(d))
    /\ completions' = IF waits THEN completions ELSE completions + 1

\* The request that is taken back may be that of a seek that came after this frame.
Before(d) == CASE target[d] # seekPos -> {"overtaken"}
               [] target[d] = seekPos /\ decoded[d].fresh -> {}
               [] OTHER -> {"before"}

Settle(d) ==
    /\ decoder[d] = "settles" /\ seekHolder = Free
    /\ LET waits == target[d] = seekPos /\ accurateReq[Other(d)] /\ ~seekAborted
       IN  /\ TakeBack(d, waits, "waits", "checks")
           /\ seekHolder' = IF waits THEN Free ELSE d
    /\ unsettled' = unsettled \cup Before(d)
    /\ UNCHANGED <<reached, dropping, startTime, decoded, target, ahead,
                   tooEarly, readerVars>>

\* SDL_CondWaitTimeout returns, signalled or not, with the mutex.
Wake(d) ==
    /\ decoder[d] \in {"waits", "woken"} /\ Lock(d)
    /\ Goes(d, "checks")
    /\ UNCHANGED <<accurateReq, reached, dropping, startTime, decoded, target, ahead,
                   historyVars, readerVars>>

\* Mutant of Overtaken: the target is not looked at again.
OvertakenNever(d) == FALSE

\* The target has moved: this frame was none of the new seek's, which wants its request.
Overtaken(d) == target[d] # seekPos /\ ~seekAborted

Check(d) ==
    /\ decoder[d] = "checks"
    /\ seekHolder' = Free
    /\ IF Overtaken(d)
       THEN accurateReq' = [accurateReq EXCEPT ![d] = TRUE] /\ NextFrame(d)
       ELSE Goes(d, "ends") /\ UNCHANGED <<accurateReq, decoded, target>>
    /\ UNCHANGED <<reached, dropping, startTime, ahead, historyVars, readerVars>>

\* The seek is given up for this decoder; it is not looked at whether it was overtaken.
Fail(d) ==
    /\ decoder[d] = "fails" /\ seekHolder = Free
    /\ dropping' = [dropping EXCEPT ![d] = FALSE]
    /\ TakeBack(d, accurateReq[Other(d)] /\ ~seekAborted, "waitsLost", "ends")
    /\ unsettled' = unsettled \cup Before(d) \cup {"given up"}
    /\ UNCHANGED <<reached, startTime, seekHolder, decoded, target, ahead,
                   tooEarly, readerVars>>

WakeLost(d) ==
    /\ decoder[d] \in {"waitsLost", "wokenLost"} /\ seekHolder = Free
    /\ Goes(d, "ends")
    /\ UNCHANGED <<accurateVars, decoded, target, ahead, historyVars, readerVars>>

End(d) ==
    /\ decoder[d] = "ends"
    /\ startTime' = "none"
    /\ reached' = IF d = "video" THEN [reached EXCEPT ![d] = 0] ELSE reached
    /\ KeepFrame(d)
    /\ UNCHANGED <<accurateReq, dropping, seekHolder, ahead, completions, unsettled, readerVars>>

DecoderNext(d) ==
    \/ GetFrame(d) \/ Gate(d) \/ Compares(d) \/ Judge(d)
    \/ Arrives(d) \/ Settle(d) \/ Wake(d) \/ Check(d) \/ Fail(d) \/ WakeLost(d) \/ End(d)

\* More than accurate_seek_timeout since startTime.
TimePasses ==
    /\ startTime = "running"
    /\ startTime' = "over"
    /\ UNCHANGED <<accurateReq, reached, dropping, seekHolder, decoderVars, historyVars, readerVars>>
-----------------------------------------------------------------------------
(* The application's seek and its handling by the reading thread. *)

SeekAsked ==
    /\ ~seekReq /\ ~seekAborted /\ seeks < MaxSeeks
    /\ seekPos' \in Pts
    /\ seekReq' = TRUE
    /\ seeks' = seeks + 1
    /\ UNCHANGED <<accurateVars, decoderVars, historyVars, streams, seekReader, seekAborted, seekStopper>>

\* avformat_seek_file goes to a key frame before the target, and what was read is flushed;
\* if it fails reading goes on where it was.
SeekFile ==
    /\ seekReader = "reads" /\ seekReq /\ ~seekAborted
    /\ seekReader' = "sought"
    /\ \/ UNCHANGED ahead
       \/ \E key \in 0 .. seekPos : ahead' = [d \in Decoders |-> key]
    /\ decoded' = [d \in Decoders |-> [decoded[d] EXCEPT !.fresh = FALSE]]
    /\ UNCHANGED <<accurateVars, decoder, target, historyVars, streams, seekReq,
                   seekPos, seekAborted, seekStopper, seeks>>

\* Mutant of SeekReqTaken: reading goes on before the decoders are asked.
SeekReqTakenEnds ==
    /\ seekReader = "sought"
    /\ seekReader' = "reads"
    /\ seekReq' = FALSE
    /\ dropping' = [d \in Decoders |-> FALSE]
    /\ accurateReq' = [d \in Decoders |-> FALSE]
    /\ completions' = 0 /\ unsettled' = {}
    /\ UNCHANGED <<reached, startTime, seekHolder, decoderVars, tooEarly, streams,
                   seekPos, seekAborted, seekStopper, seeks>>

SeekReqTaken ==
    /\ seekReader = "sought"
    /\ seekReader' = "taken"
    /\ seekReq' = FALSE
    /\ dropping' = [d \in Decoders |-> FALSE]
    /\ UNCHANGED <<accurateReq, reached, startTime, seekHolder, decoderVars, historyVars, streams,
                   seekPos, seekAborted, seekStopper, seeks>>

\* Both decoders are asked, and woken if they still wait because of the former seek.
BothSignalled == Signalled(Signalled(decoder, "audio"), "video")

AskDecoders ==
    /\ seekReader = "taken" /\ seekHolder = Free
    /\ seekReader' = "reads"
    /\ accurateReq' = [d \in Decoders |-> accurateReq[d] \/ d \in streams]
    /\ decoder' = BothSignalled
    /\ completions' = 0 /\ unsettled' = {}
    /\ UNCHANGED <<reached, dropping, startTime, seekHolder, decoded, target, ahead,
                   tooEarly, streams, seekReq, seekPos, seekAborted, seekStopper, seeks>>

ReaderSeeks == SeekFile \/ SeekReqTaken \/ AskDecoders

(* ffp_stop_l. *)
StopAborts ==
    /\ seekStopper = "idle"
    /\ seekAborted' = TRUE /\ seekStopper' = "aborted"
    /\ UNCHANGED <<accurateVars, decoderVars, historyVars, streams, seekReq, seekPos, seekReader, seeks>>

\* Mutant of StopWakes: the decoders are not woken.
StopWakesNone ==
    /\ seekStopper = "aborted" /\ seekHolder = Free
    /\ seekStopper' = "done"
    /\ accurateReq' = [d \in Decoders |-> FALSE]
    /\ UNCHANGED <<decoderVars, reached, dropping, startTime, seekHolder,
                   historyVars, streams, seekReq, seekPos, seekReader, seekAborted, seeks>>

StopWakes ==
    /\ seekStopper = "aborted" /\ seekHolder = Free
    /\ seekStopper' = "done"
    /\ accurateReq' = [d \in Decoders |-> FALSE]
    /\ decoder' = BothSignalled
    /\ UNCHANGED <<reached, dropping, startTime, seekHolder, decoded, target, ahead,
                   historyVars, streams, seekReq, seekPos, seekReader, seekAborted, seeks>>

SeekNext ==
    \/ \E d \in Decoders : DecoderNext(d)
    \/ TimePasses \/ SeekAsked \/ ReaderSeeks \/ StopAborts \/ StopWakes

SeekSpec == SeekInit /\ [][SeekNext]_seekVars
-----------------------------------------------------------------------------
\* Each seek is reported once, and not before both decoders have taken their request back
\* (ff_ffplay.c 1570, 2059: the last one reports), as long as no seek overtakes another.
CompletionOnce ==
    /\ unsettled \subseteq {"given up"} /\ ~seekAborted => completions <= 1
    /\ (/\ seeks > 0 /\ ~seekReq /\ seekReader = "reads" /\ ~seekAborted
        /\ \A d \in Decoders : decoder[d] = "decode" /\ ~accurateReq[d]) => completions >= 1

\* After an accurate seek the first frame kept is at the target, unless the seek was given
\* up or a frame from before it was taken for the target (ff_ffplay.c 1575, 2065, 3430).
ExactStart == ~tooEarly

\* A decoder that waits for the other one waits for something to come: the other's request
\* is set, so that it will be taken back, or set anew, or the player stopped, each with a
\* signal.  Only then is the five-second timeout a last resort.
WaitedForIsDue == \A d \in Decoders :
    decoder[d] \in {"waits", "waitsLost"} => accurateReq[Other(d)]

\* Video gives an accurate seek up only when its time is over (the comment at
\* ff_ffplay.c 1561: "if KEY_FRAME interval too big, disable accurate seek").
GivenUpLate ==
    [][(/\ decoder["video"] = "polls" /\ decoder'["video"] = "fails"
        /\ decoded["video"].fresh /\ ~seekAborted) => startTime = "over"]_seekVars
=============================================================================
