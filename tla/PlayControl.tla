----------------------------- MODULE PlayControl -----------------------------
(***************************************************************************)
(* The pause, step and buffering switches of ff_ffplay.c, as functions on  *)
(* one record.  Several threads press these switches: the message loop     *)
(* (start, pause, stop), the read thread (seek, completion, water marks),  *)
(* the decoders (starvation) and the video refresh thread (end of a step). *)
(* Each function below runs under play_mutex in the code, which makes it   *)
(* one step of the modules that use it.                                    *)
(*                                                                         *)
(*   pause_req     the pause that was asked for                            *)
(*   buffering_on  playback is held back until enough packets are queued   *)
(*   step          show one picture although pause_req is set              *)
(*   paused        what the video refresh thread and the clocks obey       *)
(*   aout_paused   what the audio output obeys                             *)
(*   auto_resume   a later seek, or the end of the preparation, resumes    *)
(***************************************************************************)

Switches == [pause_req : BOOLEAN, buffering_on : BOOLEAN, step : BOOLEAN,
             paused : BOOLEAN, aout_paused : BOOLEAN, auto_resume : BOOLEAN]

\* stream_open: nothing plays yet and no audio device is open.
InitialSwitches(start_on_prepared) ==
    [pause_req |-> ~start_on_prepared, buffering_on |-> FALSE, step |-> FALSE,
     paused |-> FALSE, aout_paused |-> TRUE, auto_resume |-> FALSE]

Held(s) == s.pause_req \/ s.buffering_on

\* A step taken while playback is held moves the picture but not the sound.
StreamTogglePause(s, on) ==
    IF s.step /\ Held(s)
    THEN [s EXCEPT !.paused = on]
    ELSE [s EXCEPT !.paused = on, !.aout_paused = on]

StreamUpdatePause(s) == StreamTogglePause(s, ~s.step /\ Held(s))

\* Mutant of TogglePause: a pause leaves an armed auto_resume armed.
TogglePauseStaysArmed(s, on) ==
    LET asked == [s EXCEPT !.pause_req = on, !.auto_resume = @ \/ ~on]
    IN  [StreamUpdatePause(asked) EXCEPT !.step = FALSE]

\* The step is cancelled only after the switches have been applied.
TogglePause(s, on) ==
    LET asked == [s EXCEPT !.pause_req = on, !.auto_resume = ~on]
    IN  [StreamUpdatePause(asked) EXCEPT !.step = FALSE]

StepToNextFrame(s) ==
    LET stepping == [s EXCEPT !.step = TRUE]
    IN  IF s.paused THEN StreamTogglePause(stepping, FALSE) ELSE stepping

ToggleBuffering(s, on, packet_buffering) ==
    IF packet_buffering /\ s.buffering_on # on
    THEN StreamUpdatePause([s EXCEPT !.buffering_on = on])
    ELSE s

\* The end of a seek in read_thread: resume if that was asked for, otherwise
\* show the picture at the new position and stay paused.
ResumeOrStep(s, packet_buffering) ==
    LET resumed == IF s.auto_resume
                   THEN StreamUpdatePause(
                          [s EXCEPT !.pause_req = FALSE, !.auto_resume = FALSE,
                                    !.buffering_on = @ \/ packet_buffering])
                   ELSE s
    IN  IF resumed.pause_req THEN StepToNextFrame(resumed) ELSE resumed

\* video_refresh has taken a picture.
FrameShown(s) ==
    LET done == [s EXCEPT !.step = FALSE]
    IN  IF s.step /\ ~s.paused THEN StreamUpdatePause(done) ELSE done
==============================================================================
