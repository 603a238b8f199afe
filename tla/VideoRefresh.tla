----------------------------- MODULE VideoRefresh -----------------------------
(***************************************************************************)
(* What the viewer gets and when: the clocks of ff_ffplay.c, the refresh   *)
(* thread that shows a picture when its time has come by the master clock, *)
(* the audio callback that sets the audio clock, the timed text, and the   *)
(* position the application is told.  Playback says which picture is shown *)
(* and leaves the time open; here time counts and the queues are simple.   *)
(*                                                                         *)
(* Time is a number of ticks of some 20 ms.  Between two ticks the threads *)
(* do all that is due, in any order, unless one of them is late, which a   *)
(* budget limits.  A seek is one step.  The picture or the buffer that is  *)
(* being worked on when the player is paused is still brought out: the     *)
(* refresh thread and the callback do not hold play_mutex.                 *)
(*                                                                         *)
(* The clocks run at speed 1: check_external_clock_speed needs a real-time *)
(* stream and the external clock as the master.  render_wait_start is left *)
(* at its default, and buffering_on (see IjkMediaPlayer) stays off.        *)
(***************************************************************************)
EXTENDS Integers, Sequences, FiniteSetsExt, PlayControl

CONSTANTS
    FrameTime,       \* a picture lasts so long
    Period,          \* and an audio buffer
    ThresholdMin, ThresholdMax, FrameDup, NoSync,   \* AV_SYNC_...
    Texts,           \* the timed texts of the file: [start, end]
    Scenarios,       \* the master clock - "audio", "video" (no sound) or "external" (sound
                     \* that could not be opened) - whether the option framedrop is above
                     \* 0, and how many late ticks, pauses and resumes, seeks and decoded
                     \* texts there may be
    MaxTime,         \* bound: so many ticks
    CalmTime         \* so many ticks without a disturbance are calm

ASSUME VideoRefreshAssumption ==
    /\ {FrameTime, Period, ThresholdMax, MaxTime, CalmTime} \subseteq Nat \ {0}
    /\ {ThresholdMin, FrameDup, NoSync} \subseteq Nat
    /\ Scenarios \subseteq [master : {"audio", "video", "external"}, framedrop : BOOLEAN,
                             late : Nat, togglings : Nat, jumps : Nat, texts : Nat]
    /\ Texts \in Seq([start : Nat, end : Nat])
    /\ \A i \in DOMAIN Texts : Texts[i].start <= Texts[i].end

VARIABLES
    time,         \* av_gettime_relative
    scenario,     \* what is left of it
    clock,        \* vidclk, audclk and extclk
    serial,       \* the serial of the packet queues
    seek_pos,
    switches,     \* pause_req, step, paused, ... (PlayControl)
    frame_timer,
    pictures,     \* the pictures that wait in pictq
    shown,        \* and the one that was shown last
    refresh,      \* the refresh thread: its place
    upcoming,     \* the decoders: the time of the next picture and sound, the last text
    sound,        \* the audio callback: audio_clock, when it began and is due, its place
    texts,        \* subpq
    text,         \* the text on the screen
    since         \* see Remember

refreshVars == <<time, scenario, clock, serial, seek_pos, switches, frame_timer, pictures, shown,
                 refresh, upcoming, sound, texts, text, since>>

NAN == -100
NoText == 0
PictureQueueSize == 3

(***************************************************************************)
(* Clocks                                                                  *)
(***************************************************************************)
Clocks == {"vid", "aud", "ext"}

\* Mutant of Stopped: the audio clock runs on when the player is paused.
StoppedPictureOnly(c) == c # "aud" /\ switches.paused

Stopped(c) == IF c = "aud" THEN switches.aout_paused ELSE switches.paused

Reads(c, k) == IF (c # "ext" /\ k.serial # serial) \/ k.pts = NAN THEN NAN
               ELSE IF Stopped(c) THEN k.pts ELSE k.pts + time - k.last_updated

\* extclk is checked against its own serial, the others against their queue's.
GetClock(c) == Reads(c, clock[c])

ClockAt(pts, s, at) == [pts |-> pts, serial |-> s, last_updated |-> at]
SetToItself(c) == ClockAt(GetClock(c), clock[c].serial, time)

MasterClock == CASE scenario.master = "audio" -> "aud" [] scenario.master = "video" -> "vid" [] OTHER -> "ext"

\* A clock of the streams is set; the external clock follows it if it has no
\* time of its own or is far away.
SetAndSync(c, new) ==
    LET value == Reads(c, new)
        ext   == GetClock("ext")
        apart == value # NAN /\ (ext = NAN \/ ext - value > NoSync \/ value - ext > NoSync)
    IN  [clock EXCEPT ![c] = new, !["ext"] = IF apart THEN ClockAt(value, new.serial, time) ELSE @]

\* What the application is told, in a file that starts at 0.
Position ==
    LET now == GetClock(MasterClock) IN Max({0, IF now = NAN THEN seek_pos ELSE now})

RefreshInit ==
    /\ time = 0 /\ serial = 1 /\ seek_pos = 0 /\ frame_timer = 0
    /\ scenario \in Scenarios
    /\ clock = [c \in Clocks |-> ClockAt(NAN, -1, 0)]
    /\ switches = [InitialSwitches(TRUE) EXCEPT !.aout_paused = FALSE]
    /\ pictures = <<>> /\ shown = [pts |-> 0, serial |-> 0]
    /\ refresh = "idle"
    /\ upcoming = [pts |-> 0, sound |-> 0, text |-> 0]
    /\ sound = [pc |-> "idle", clock |-> NAN, serial |-> 0, at |-> 0, wait |-> 0]
    /\ texts = <<>> /\ text = NoText
    /\ since = [calm |-> 0, moved |-> 0, slipped |-> FALSE]

(***************************************************************************)
(* The switches move the clocks                                            *)
(***************************************************************************)
Resumes(new) == switches.paused /\ ~ new.paused

SetClocks(cs) == [c \in Clocks |-> IF c \in cs THEN SetToItself(c) ELSE clock[c]]

\* stream_toggle_pause_l: the time in between does not count.
SwitchTo(new) ==
    /\ switches' = new
    /\ clock' = SetClocks(IF Resumes(new) THEN Clocks ELSE {"ext"})
    /\ frame_timer' = IF Resumes(new) THEN frame_timer + time - clock["vid"].last_updated ELSE frame_timer

\* toggle_pause_l sets the clocks of the streams before that: the video clock
\* was set just now, and frame_timer stays where it was.
Toggle ==
    LET on  == ~ switches.pause_req
        new == TogglePause(switches, on)
    IN  /\ scenario.togglings > 0
        /\ scenario' = [scenario EXCEPT !.togglings = @ - 1]
        /\ \/ on /\ SwitchTo(new)
           \/ ~ on /\ switches' = new /\ clock' = SetClocks(Clocks) /\ UNCHANGED frame_timer
        /\ UNCHANGED <<time, serial, seek_pos, pictures, shown, refresh, upcoming, sound, texts,
                       text>>

\* A seek: everything in the queues is out of date.  The player goes on, or
\* shows one picture.
FirstText(pts) == Max({0} \cup {i \in DOMAIN Texts : Texts[i].end < pts})

Jump(target) ==
    LET new == ResumeOrStep(switches, FALSE)
        outOfDate(c) == ClockAt(NAN, clock[c].serial, time)
    IN  /\ scenario.jumps > 0
        /\ scenario' = [scenario EXCEPT !.jumps = @ - 1]
        /\ serial' = serial + 1 /\ seek_pos' = target
        /\ upcoming' = [pts |-> target, sound |-> target, text |-> FirstText(target)]
        /\ switches' = new
        /\ clock' = [c \in Clocks |-> CASE c = "ext" -> ClockAt(target, 0, time)
                                        [] c # "ext" /\ Resumes(new) -> outOfDate(c)
                                        [] OTHER -> clock[c]]
        /\ frame_timer' = IF Resumes(new) THEN frame_timer + time - clock["vid"].last_updated ELSE frame_timer
        /\ UNCHANGED <<time, pictures, shown, refresh, sound, texts, text>>

(***************************************************************************)
(* The decoders and the audio callback                                     *)
(***************************************************************************)
Decode ==
    /\ Len(pictures) < PictureQueueSize
    /\ pictures' = Append(pictures, [pts |-> upcoming.pts, serial |-> serial])
    /\ upcoming' = [upcoming EXCEPT !.pts = @ + FrameTime]
    /\ UNCHANGED <<time, scenario, clock, serial, seek_pos, switches, frame_timer, shown, refresh,
                   sound, texts, text>>

PushText ==
    /\ upcoming.text < Len(Texts)
    /\ scenario.texts > 0 /\ scenario' = [scenario EXCEPT !.texts = @ - 1]
    /\ upcoming' = [upcoming EXCEPT !.text = @ + 1]
    /\ texts' = Append(texts, [n |-> upcoming.text + 1, serial |-> serial, uploaded |-> FALSE])
    /\ UNCHANGED <<time, clock, serial, seek_pos, switches, frame_timer, pictures, shown, refresh,
                   sound, text>>

\* The device takes a buffer and has one left to play; when the decoder has
\* nothing (a late tick) the callback comes late.
SoundDue == scenario.master = "audio" /\ sound.pc = "idle" /\ sound.wait = 0 /\ ~ switches.aout_paused

SoundBegins ==
    /\ SoundDue
    /\ sound' = [pc |-> "fills", clock |-> upcoming.sound + Period, serial |-> serial,
                  at |-> time, wait |-> Period]
    /\ upcoming' = [upcoming EXCEPT !.sound = @ + Period]
    /\ UNCHANGED <<time, scenario, clock, serial, seek_pos, switches, frame_timer, pictures,
                   shown, refresh, texts, text>>

SoundEnds ==
    /\ sound.pc = "fills"
    /\ sound' = [sound EXCEPT !.pc = "idle"]
    /\ clock' = SetAndSync("aud", ClockAt(sound.clock - Period, sound.serial, sound.at))
    /\ UNCHANGED <<time, scenario, serial, seek_pos, switches, frame_timer, pictures, shown,
                   refresh, upcoming, texts, text>>

(***************************************************************************)
(* The refresh thread                                                      *)
(***************************************************************************)
Picture == Head(pictures)

VpDuration(vp, next) ==
    IF vp.serial # next.serial THEN 0
    ELSE IF next.pts > vp.pts THEN next.pts - vp.pts ELSE FrameTime

SyncThreshold(delay) == Max({ThresholdMin, Min({ThresholdMax, delay})})

\* Mutant of TargetDelay: a picture that is late is waited for even longer.
TargetDelaySigned(delay) ==
    LET vid  == GetClock("vid")
        main == GetClock(MasterClock)
        diff == main - vid
    IN  CASE scenario.master = "video" \/ NAN \in {vid, main} \/ diff >= NoSync \/ -diff >= NoSync -> delay
          [] OTHER -> IF diff <= - SyncThreshold(delay) THEN Max({0, delay + diff})
                      ELSE IF diff < SyncThreshold(delay) THEN delay
                      ELSE IF delay > FrameDup THEN delay + diff ELSE 2 * delay

TargetDelay(delay) ==
    LET vid  == GetClock("vid")
        main == GetClock(MasterClock)
        diff == vid - main
    IN  CASE scenario.master = "video" \/ NAN \in {vid, main} \/ diff >= NoSync \/ -diff >= NoSync -> delay
          [] OTHER -> IF diff <= - SyncThreshold(delay) THEN Max({0, delay + diff})
                      ELSE IF diff < SyncThreshold(delay) THEN delay
                      ELSE IF delay > FrameDup THEN delay + diff ELSE 2 * delay

\* A paused player is not refreshed (video_refresh_thread), and no picture of
\* it comes up (video_refresh reads paused again).
RefreshIdle == refresh = "idle" /\ pictures # <<>> /\ ~ switches.paused

OldPicture == RefreshIdle /\ Picture.serial # serial
NewTimer == IF shown.serial # Picture.serial THEN time ELSE Min({time, frame_timer})
Delay    == TargetDelay(VpDuration(shown, Picture))
PictureDue == RefreshIdle /\ Picture.serial = serial /\ time >= NewTimer + Delay

TakePicture == pictures' = Tail(pictures) /\ shown' = Picture

RefreshSkipsOld ==
    /\ OldPicture /\ TakePicture
    /\ UNCHANGED <<time, scenario, clock, serial, seek_pos, switches, frame_timer, refresh,
                   upcoming, sound, texts, text>>

RefreshDecides ==
    /\ PictureDue
    /\ frame_timer' = LET next == NewTimer + Delay
                      IN  IF Delay > 0 /\ time - next > ThresholdMax THEN time ELSE next
    /\ refresh' = "shows"
    /\ UNCHANGED <<time, scenario, clock, serial, seek_pos, switches, pictures, shown, upcoming,
                   sound, texts, text>>

\* It is too early, but the timer is corrected.
RefreshWaits ==
    /\ RefreshIdle /\ Picture.serial = serial /\ ~ PictureDue
    /\ NewTimer # frame_timer
    /\ frame_timer' = NewTimer
    /\ UNCHANGED <<time, scenario, clock, serial, seek_pos, switches, pictures, shown, refresh,
                   upcoming, sound, texts, text>>

DropsPicture == /\ scenario.framedrop /\ Len(pictures) > 1 /\ ~ switches.step
                /\ time > frame_timer + VpDuration(Picture, pictures[2])

\* The texts at the front that are over, or followed by one that has begun.
Over(i) == LET t == texts[i]
           IN  \/ t.serial # serial \/ Picture.pts > Texts[t.n].end
               \/ i < Len(texts) /\ Picture.pts > Texts[texts[i + 1].n].start
FirstLeft == Min({Len(texts) + 1} \cup {i \in DOMAIN texts : ~ Over(i)})

RefreshShows ==
    /\ refresh = "shows"
    /\ clock' = SetAndSync("vid", ClockAt(Picture.pts, Picture.serial, time))
    /\ TakePicture
    /\ \/ DropsPicture /\ refresh' = "idle" /\ UNCHANGED <<texts, text>>
       \/ /\ ~ DropsPicture /\ refresh' = "displays"
          /\ texts' = SubSeq(texts, FirstLeft, Len(texts))
          /\ text' = IF \E i \in 1 .. FirstLeft - 1 : texts[i].uploaded THEN NoText ELSE text
    /\ UNCHANGED <<time, scenario, serial, seek_pos, switches, frame_timer, upcoming, sound>>

\* A step ends; the picture is displayed, and with it the text it is due for.
RefreshDisplays ==
    LET due == texts # <<>> /\ ~ Head(texts).uploaded /\ shown.pts >= Texts[Head(texts).n].start
    IN  /\ refresh = "displays"
        /\ refresh' = "idle"
        /\ IF switches.step /\ ~ switches.paused THEN SwitchTo(FrameShown(switches))
           ELSE switches' = FrameShown(switches) /\ UNCHANGED <<clock, frame_timer>>
        /\ texts' = IF due THEN [texts EXCEPT ![1].uploaded = TRUE] ELSE texts
        /\ text' = IF due THEN Head(texts).n ELSE text
        /\ UNCHANGED <<time, scenario, serial, seek_pos, pictures, shown, upcoming, sound>>

RefreshThread == RefreshSkipsOld \/ RefreshDecides \/ RefreshWaits \/ RefreshShows \/ RefreshDisplays

(***************************************************************************)
(* Time passes when nothing is left to do, or somebody is late.            *)
(***************************************************************************)
AllDone == /\ refresh = "idle" /\ ~ OldPicture /\ ~ PictureDue
           /\ sound.pc = "idle" /\ ~ SoundDue
           /\ Len(pictures) = PictureQueueSize

Tick ==
    /\ time < MaxTime /\ time' = time + 1
    /\ IF AllDone THEN UNCHANGED scenario
       ELSE scenario.late > 0 /\ scenario' = [scenario EXCEPT !.late = @ - 1]
    /\ sound' = IF switches.aout_paused THEN sound ELSE [sound EXCEPT !.wait = Max({0, @ - 1})]
    /\ UNCHANGED <<clock, serial, seek_pos, switches, frame_timer, pictures, shown, refresh,
                   upcoming, texts, text>>

\* For the properties: for how long nothing disturbed the threads and the clocks
\* ran, how often the position moved in a pause, and whether the text on the
\* screen came there with a picture of another serial than its own.
Disturbed == \/ [scenario' EXCEPT !.texts = 0] # [scenario EXCEPT !.texts = 0]
             \/ NAN \in {GetClock("vid"), GetClock(MasterClock)}

Remember ==
    since' =
      [calm    |-> IF Disturbed THEN 0
                   ELSE IF time' # time THEN Min({since.calm + 1, CalmTime}) ELSE since.calm,
       moved   |-> IF switches.paused /\ switches'.paused /\ serial' = serial
                   THEN since.moved + (IF Position' # Position THEN 1 ELSE 0) ELSE 0,
       slipped |-> IF refresh = "displays" /\ refresh' = "idle"
                   THEN text' # NoText /\ (since.slipped \/ shown.serial # Head(texts).serial)
                   ELSE text' # NoText /\ since.slipped]

RefreshNext ==
    /\ \/ Toggle
       \/ \E target \in {0, FrameTime} : Jump(target)
       \/ Decode \/ PushText \/ SoundBegins \/ SoundEnds
       \/ RefreshThread \/ Tick
    /\ Remember
RefreshSpec == RefreshInit /\ [][RefreshNext]_refreshVars

(***************************************************************************)
(* Properties                                                              *)
(***************************************************************************)
\* While the player is paused the position is moved once at most, by what was in
\* hand; and the pause itself takes a player that runs smoothly back by less
\* than what was brought out last.
PositionHeld ==
    [][/\ since'.moved <= 1
       /\ (since.calm = CalmTime /\ ~ switches.paused /\ switches'.paused =>
             /\ Position' <= Position
             /\ Position - Position' < Max({Period, FrameTime}) + ThresholdMax)]_refreshVars

\* When nothing disturbs the threads for a while, the picture is as close to the
\* master clock as the thresholds want it.
InStep ==
    since.calm = CalmTime /\ ~ switches.paused /\ AllDone =>
        LET diff == GetClock("vid") - GetClock(MasterClock)
        IN  - (FrameTime + ThresholdMin) <= diff /\ diff <= FrameTime + ThresholdMin

\* The text on the screen is that of the front of the queue, and belongs to the
\* picture that is displayed.
TextInTime ==
    /\ text # NoText => texts # <<>> /\ Head(texts).n = text /\ Head(texts).uploaded
    /\ texts # <<>> /\ Head(texts).uploaded => text = Head(texts).n
    /\ refresh = "displays" /\ text # NoText /\ ~ since.slipped =>
         /\ Head(texts).serial = shown.serial
         /\ Texts[text].start <= shown.pts /\ shown.pts <= Texts[text].end

ScreenFollowsClock == InStep /\ TextInTime
===============================================================================
