---------------------------- MODULE AudioOutput ----------------------------
(***************************************************************************)
(* The audio device behind SDL_Aout: ijksdl_aout_android_audiotrack.c and  *)
(* ijksdl_aout_android_opensles.c, with the callback of ff_ffplay.c that   *)
(* fills their buffers and the part of the player that opens, pauses and   *)
(* closes them.                                                            *)
(*                                                                         *)
(* A thread of the device takes decoded sound, through the callback, and   *)
(* writes it to the hardware.  Everybody else leaves flags for it under    *)
(* wakeup_mutex; each of its waits on wakeup_cond lasts at most a second,  *)
(* so that a signal is never the only thing that wakes it, and signals are *)
(* left out.  A piece of sound is known by its serial, that of the packet  *)
(* queue when it was decoded; Silence is none.                             *)
(***************************************************************************)
EXTENDS Naturals, Sequences

CONSTANTS Devices,      \* "track", "opensl": the outputs that are considered
          Buffers,      \* OPENSLES_BUFFERS; pieces the AudioTrack holds
          WaitsForStart,\* values of render_wait_start that are considered
          MaxOpens,     \* bound: times the audio stream is opened
          MaxAudioCalls \* bound: pauses, resumes and seeks

ASSUME AudioAssumption ==
    /\ Devices \subseteq {"track", "opensl"} /\ Buffers \in Nat \ {0}
    /\ WaitsForStart \subseteq BOOLEAN
    /\ MaxOpens \in Nat /\ MaxAudioCalls \in Nat

VARIABLES
    device, waitsForStart,   \* which output; render_wait_start
    out,        \* the stream component: "closed", "opening", "open", "aborted", "closing"
    flags,      \* abort_request, pause_on, need_flush
    audioPc,    \* where the device's thread is
    count,      \* slState.count as the thread saw it
    nextBuffer, \* next_buffer_index
    hardware,   \* what the hardware has still to play
    playing,    \* it plays
    piece,      \* what the callback has put into the buffer
    rest,       \* what is left of the sound decoded last (audio_buf): its serial
    sampleFrame,\* the frame that waits in sampq: its serial
    querySerial, decSerial, \* audioq.serial, auddec.pkt_serial
    held,       \* is->pause_req
    awaited,    \* sync_av_start: the first picture has not been decoded yet
    ending,     \* is->abort_request
    missed,     \* history: the device was resumed between the two looks of its thread
    opens, audioCalls        \* bounds

threadVars == <<audioPc, count, nextBuffer, hardware, playing, piece, rest>>
sourceVars == <<sampleFrame, querySerial, decSerial>>
settled == <<device, waitsForStart, awaited>>
playerVars == <<settled, out, held, ending, missed, opens, audioCalls>>
audioVars == <<flags, threadVars, sourceVars, playerVars>>

Silence == 0

Quiet == [abort |-> FALSE, pause |-> FALSE, flush |-> FALSE]

AudioInit ==
    /\ device \in Devices /\ waitsForStart \in WaitsForStart
    /\ out = "closed" /\ flags = Quiet
    /\ audioPc = "ended" /\ count = 0 /\ nextBuffer = 0
    /\ hardware = << >> /\ playing = FALSE
    /\ piece = Silence /\ rest = Silence
    /\ sampleFrame = Silence /\ querySerial = 1 /\ decSerial = 1
    /\ held = TRUE /\ awaited \in BOOLEAN /\ ending = FALSE /\ missed = FALSE
    /\ opens = 0 /\ audioCalls = 0
-----------------------------------------------------------------------------
(* The thread of the device: aout_thread_n of the two outputs. *)

Piece(buffer, serial) == [buffer |-> buffer, serial |-> serial]

AudioGoes(from, to) == audioPc = from /\ audioPc' = to

Begin ==
    /\ AudioGoes("begin", "loop")
    /\ playing' = (~flags.abort /\ ~flags.pause)
    /\ UNCHANGED <<flags, count, nextBuffer, hardware, piece, rest, sourceVars, playerVars>>

\* GetState comes before the mutex; the thread that leaves releases the AudioTrack.
Loop ==
    /\ AudioGoes("loop", IF flags.abort THEN "ended" ELSE "lock")
    /\ count' = Len(hardware)
    /\ playing' = (playing /\ ~(flags.abort /\ device = "track"))
    /\ hardware' = IF flags.abort /\ device = "track" THEN << >> ELSE hardware
    /\ UNCHANGED <<flags, nextBuffer, piece, rest, sourceVars, playerVars>>

\* Mutant of Full: one buffer more than there are.
FullBehind == device = "opensl" /\ count > Buffers

Full == device = "opensl" /\ count >= Buffers

MustWait == ~flags.abort /\ (flags.pause \/ Full)

\* What the thread does with the flags before it releases the mutex.
Served ==
    /\ flags' = [flags EXCEPT !.flush = FALSE]
    /\ hardware' = IF flags.flush THEN << >> ELSE hardware

\* AudioTrack is paused before the wait, OpenSL ES after it.
LockWaits ==
    /\ AudioGoes("lock", "waits") /\ MustWait
    /\ playing' = IF flags.pause THEN playing /\ device # "track" ELSE TRUE
    /\ missed' = (missed /\ ~flags.pause)
    /\ UNCHANGED <<flags, count, nextBuffer, hardware, piece, rest, sourceVars,
                   settled, out, held, ending, opens, audioCalls>>

LockPasses ==
    /\ AudioGoes("lock", "callback") /\ ~MustWait
    /\ Served
    /\ UNCHANGED <<count, nextBuffer, playing, piece, rest, sourceVars, playerVars>>


\* SDL_CondWaitTimeout returns: signalled, or after a second.
Looks ==
    /\ audioPc = "waits"
    /\ count' = Len(hardware)
    /\ IF ~flags.abort /\ (flags.pause \/ (device = "opensl" /\ Len(hardware) >= Buffers))
       THEN /\ playing' = ~flags.pause
            /\ UNCHANGED <<audioPc, flags, hardware>>
       ELSE /\ audioPc' = "callback"
            /\ playing' = IF flags.abort THEN playing /\ ~flags.pause ELSE TRUE
            /\ Served
    /\ UNCHANGED <<nextBuffer, piece, rest, sourceVars, playerVars>>

-----------------------------------------------------------------------------
(* sdl_audio_callback. *)

\* audio_decode_frame: silence when paused, and while the first picture is awaited; otherwise
\* it waits for a frame of the present serial, or for the end of the packet queue, and does
\* not look at the pause again.
Decoded(from, serial) ==
    /\ AudioGoes(from, "fill")
    /\ rest' = serial
    /\ UNCHANGED <<flags, count, nextBuffer, hardware, playing, piece, querySerial, decSerial, playerVars>>

DecodeSilence ==
    /\ rest = Silence /\ (held \/ awaited)
    /\ Decoded("callback", Silence)
    /\ UNCHANGED sampleFrame

Peeks ==
    /\ rest = Silence /\ ~held /\ ~awaited
    /\ AudioGoes("callback", "peeks")
    /\ UNCHANGED <<flags, count, nextBuffer, hardware, playing, piece, rest, sourceVars, playerVars>>

PeekAborted ==
    /\ out \in {"aborted", "closing"}
    /\ Decoded("peeks", Silence)
    /\ UNCHANGED sampleFrame

\* A frame that cannot be resampled is lost: silence takes its place.
DecodeFrame ==
    /\ sampleFrame = querySerial
    /\ \E serial \in {sampleFrame, Silence} : Decoded("peeks", serial)
    /\ sampleFrame' = Silence

DecodeOldFrame ==
    /\ audioPc = "peeks" /\ sampleFrame \notin {Silence, querySerial}
    /\ sampleFrame' = Silence
    /\ UNCHANGED <<flags, threadVars, querySerial, decSerial, playerVars>>

\* Something is left of the frame before.
DecodeRest ==
    /\ rest # Silence
    /\ Decoded("callback", rest)
    /\ UNCHANGED sampleFrame

\* While the decoder has not come to the flush packet of a seek, the device is flushed;
\* otherwise the sound is copied, and used up now or later.
Fill ==
    /\ AudioGoes("fill", "hold")
    /\ IF decSerial # querySerial
       THEN /\ piece' = Silence /\ rest' = Silence
            /\ flags' = [flags EXCEPT !.flush = TRUE]
       ELSE /\ piece' = rest /\ rest' \in {rest, Silence}
            /\ UNCHANGED flags
    /\ UNCHANGED <<count, nextBuffer, hardware, playing, sourceVars, playerVars>>

\* With render_wait_start the callback does not return before the start.
Hold ==
    /\ AudioGoes("hold", "write")
    /\ waitsForStart => ~held \/ ending
    /\ UNCHANGED <<flags, count, nextBuffer, hardware, playing, piece, rest, sourceVars, playerVars>>

AfterBuffer == (nextBuffer + 1) % Buffers

\* A flush left by the callback comes first.  write of AudioTrack waits for room; Enqueue
\* refuses what is too much.
Write ==
    /\ AudioGoes("write", "loop")
    /\ LET played == IF flags.flush THEN << >> ELSE hardware
           room   == Len(played) < Buffers
       IN  /\ device = "track" /\ playing => room
           /\ hardware' = IF room THEN Append(played, Piece(nextBuffer, piece)) ELSE played
    /\ flags' = [flags EXCEPT !.flush = FALSE]
    /\ nextBuffer' = AfterBuffer
    /\ piece' = Silence
    /\ UNCHANGED <<count, playing, rest, sourceVars, playerVars>>

DeviceThread ==
    \/ Begin \/ Loop \/ LockWaits \/ LockPasses \/ Looks
    \/ DecodeSilence \/ Peeks \/ PeekAborted \/ DecodeFrame \/ DecodeOldFrame \/ DecodeRest
    \/ Fill \/ Hold \/ Write

\* The hardware has played a piece.
Played ==
    /\ playing /\ hardware # << >>
    /\ hardware' = Tail(hardware)
    /\ UNCHANGED <<flags, audioPc, count, nextBuffer, playing, piece, rest, sourceVars, playerVars>>
-----------------------------------------------------------------------------
(* The audio decoder, as far as the callback sees it. *)

DecoderFlushed ==
    /\ out \in {"opening", "open"} /\ decSerial # querySerial
    /\ decSerial' = querySerial
    /\ UNCHANGED <<flags, threadVars, sampleFrame, querySerial, playerVars>>

\* The video decoder has its first picture, or two seconds are over.
PictureDecoded ==
    /\ awaited
    /\ awaited' = FALSE
    /\ UNCHANGED <<flags, threadVars, sourceVars, device, waitsForStart, out, held, ending, missed,
                   opens, audioCalls>>

DecoderQueues ==
    /\ out = "open" /\ sampleFrame = Silence
    /\ sampleFrame' = decSerial
    /\ UNCHANGED <<flags, threadVars, querySerial, decSerial, playerVars>>
-----------------------------------------------------------------------------
(* The player. *)

AudioCall ==
    /\ out = "open" /\ ~ending /\ audioCalls < MaxAudioCalls
    /\ audioCalls' = audioCalls + 1
    /\ UNCHANGED <<threadVars, settled, out, ending, missed, opens>>

\* stream_component_open: audio_open tries one format after the other.
AudioOpens ==
    /\ out = "closed" /\ ~ending /\ opens < MaxOpens
    /\ opens' = opens + 1
    /\ missed' = FALSE
    /\ UNCHANGED <<sourceVars, settled, held, ending, audioCalls>>

\* The output takes none of them; OpenSL ES has closed what it had of each.
AudioRefused ==
    /\ AudioOpens
    /\ flags' = [flags EXCEPT !.abort = @ \/ device = "opensl"]
    /\ UNCHANGED <<out, threadVars>>

\* Or it creates the device, paused, and its thread; OpenSL ES starts with all its buffers
\* in the queue.
AudioOpen ==
    /\ AudioOpens
    /\ out' = "opening"
    /\ flags' = [flags EXCEPT !.abort = FALSE, !.pause = TRUE]
    /\ audioPc' = "begin" /\ count' = 0 /\ nextBuffer' = 0 /\ playing' = FALSE
    /\ hardware' = IF device = "track" THEN << >>
                   ELSE [i \in 1 .. Buffers |-> Piece(i - 1, Silence)]
    /\ piece' = Silence /\ rest' = Silence

\* Then the decoder is started, and the device resumed whether or not the player plays.
AudioOpened ==
    /\ out = "opening"
    /\ out' = "open"
    /\ flags' = [flags EXCEPT !.pause = FALSE]
    /\ missed' = (device = "track" /\ audioPc \in {"loop", "lock"})
    /\ UNCHANGED <<threadVars, sourceVars, settled, held, ending, opens, audioCalls>>

\* pause_req, and SDL_AoutPauseAudio with it.
AudioToggle ==
    /\ AudioCall
    /\ held' = ~held
    /\ flags' = [flags EXCEPT !.pause = ~held]
    /\ UNCHANGED <<sourceVars>>

AudioSeek ==
    /\ AudioCall
    /\ querySerial' = querySerial + 1
    /\ UNCHANGED <<held, flags, sampleFrame, decSerial>>

\* ffp_stop_l, before the stream is closed.
AudioEnd ==
    /\ ~ending
    /\ ending' = TRUE
    /\ UNCHANGED <<flags, threadVars, sourceVars, settled, out, held, missed, opens, audioCalls>>

\* stream_component_close: decoder_abort, which ends every wait for a frame, and then
\* SDL_AoutCloseAudio, which waits for the thread of the device.
DecoderAbort ==
    /\ out = "open"
    /\ out' = "aborted" /\ sampleFrame' = Silence
    /\ UNCHANGED <<flags, threadVars, querySerial, decSerial, settled, held, ending, missed,
                   opens, audioCalls>>

AudioClose ==
    /\ out = "aborted"
    /\ out' = "closing"
    /\ flags' = [flags EXCEPT !.abort = TRUE]
    /\ UNCHANGED <<threadVars, sourceVars, settled, held, ending, missed, opens, audioCalls>>

AudioClosed ==
    /\ out = "closing" /\ audioPc = "ended"
    /\ out' = "closed"
    /\ hardware' = << >> /\ playing' = FALSE
    /\ UNCHANGED <<flags, audioPc, count, nextBuffer, piece, rest, sourceVars, settled,
                   held, ending, missed, opens, audioCalls>>

AudioPlayer == AudioOpened \/ AudioClose \/ AudioClosed
AudioCalls  == AudioOpen \/ AudioRefused \/ AudioToggle \/ AudioSeek \/ AudioEnd \/ DecoderAbort

AudioNext ==
    \/ DeviceThread \/ Played \/ DecoderFlushed \/ DecoderQueues \/ PictureDecoded
    \/ AudioPlayer \/ AudioCalls

AudioSpec == AudioInit /\ [][AudioNext]_audioVars

\* The threads run, the hardware plays; the application need not call, and the sound may end
\* or stall: no frame is owed to the callback.
AudioFairSpec ==
    /\ AudioSpec
    /\ WF_audioVars(DeviceThread) /\ WF_audioVars(Played)
    /\ WF_audioVars(DecoderFlushed) /\ WF_audioVars(AudioPlayer)
-----------------------------------------------------------------------------
\* While the callback fills a buffer the hardware does not have it, and the sound in the
\* hardware is in the order of the seeks, until the device is closed (opensles.c 146, 185;
\* ff_ffplay.c 2495, 2670).
BuffersInOrder ==
    /\ (/\ device = "opensl" /\ ~flags.abort
        /\ audioPc \in {"callback", "peeks", "fill", "hold", "write"}) =>
          \A i \in DOMAIN hardware : hardware[i].buffer # nextBuffer
    /\ \A i, j \in DOMAIN hardware : i < j /\ hardware[j].serial # Silence =>
          hardware[i].serial <= hardware[j].serial

\* The hardware has nothing left to play, and the callback that should give it more waits for
\* a frame, or with render_wait_start for the start.
RunDry ==
    /\ hardware = << >>
    /\ (audioPc = "peeks" /\ sampleFrame = Silence) \/ (audioPc = "hold" /\ held)


\* Closing the audio stream ends the thread of the device, wherever it waits, with one
\* exception: the callback that waits for a start waits on while the stream is closed by
\* a caller that holds the player's mutex and so keeps the start away.
AudioCloses == []<>(out \notin {"aborted", "closing"} \/ (waitsForStart /\ held /\ ~ending))
=============================================================================
