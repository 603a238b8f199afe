----------------------------- MODULE MCDevices ------------------------------
(***************************************************************************)
(* The devices behind the decoder node, the audio output and the display   *)
(* for TLC, each on its own (part says which one moves):                   *)
(*   - HwDecoder: a codec with two output buffers that keeps back one      *)
(*     frame, one frame drawn as a fake, and three events (packets, seeks, *)
(*     surfaces lost and given, failures) in every order;                  *)
(*   - AudioOutput: two buffers, opened twice;                             *)
(*   - VoutDisplay: every overlay format, two windows, frames of two       *)
(*     sizes that are linked (with a short and a long line) or converted,  *)
(*     and six pictures, windows and failures in every order.              *)
(***************************************************************************)
EXTENDS HwDecoder, AudioOutput, VoutDisplay

VARIABLE part

deviceVars == <<part, hwVars, audioVars, voutVars>>

Source(pix, width, linesize) == [pix |-> pix, width |-> width, linesize |-> linesize]
TheFrames == {Source("yuv420p", 12, 16), Source("yuv420p", 12, 32), Source("yuv420p", 11, 16),
              Source("yuv444p10", 12, 32), Source("rgb", 12, 36), Source("codec", 12, 0)}

DevicesInit ==
    /\ part \in {"video", "audio", "display"}
    /\ HwInit /\ AudioInit /\ VoutInit
    /\ part # "video" => ~alone /\ surface = 1
    /\ part # "audio" => device = "track" /\ ~waitsForStart /\ ~awaited
    /\ part # "display" => overlayFormat = "GLES2" /\ \A w \in Windows : geometry[w].format = "RGBA"

VideoPart(A) == part = "video" /\ A /\ UNCHANGED <<part, audioVars, voutVars>>
AudioPart(A) == part = "audio" /\ A /\ UNCHANGED <<part, hwVars, voutVars>>
DisplayPart  == part = "display" /\ VoutNext /\ UNCHANGED <<part, hwVars, audioVars>>

DevicesNext == VideoPart(HwNext) \/ AudioPart(AudioNext) \/ DisplayPart

\* The fairness of each module's own specification.
DevicesSpec ==
    /\ DevicesInit /\ [][DevicesNext]_deviceVars
    /\ WF_deviceVars(VideoPart(Feed)) /\ WF_deviceVars(VideoPart(Drain))
    /\ WF_deviceVars(AudioPart(DeviceThread)) /\ WF_deviceVars(AudioPart(Played))
    /\ WF_deviceVars(AudioPart(DecoderFlushed)) /\ WF_deviceVars(AudioPart(AudioPlayer))

\* Closing a device ends its threads, wherever they wait for each other: the two
\* of the decoder node, and the one of the audio output.
DevicesEnd == DecoderEnds /\ AudioCloses

=============================================================================
