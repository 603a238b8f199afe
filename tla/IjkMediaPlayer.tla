---------------------------- MODULE IjkMediaPlayer ----------------------------
(***************************************************************************)
(* ijkplayer.c with the threads that share its state:                      *)
(*                                                                         *)
(*   - the application, which calls set_data_source, prepare_async, start, *)
(*     pause, seek_to and stop (one call at a time: each takes mp->mutex); *)
(*   - the message loop (message_loop_n over ijkmp_get_msg), which takes   *)
(*     messages off the queue WITHOUT mp->mutex and handles them under it; *)
(*   - read_thread of ff_ffplay.c, which opens the input, serves seeks and *)
(*     reports PREPARED, SEEK_COMPLETE, COMPLETED and ERROR, without       *)
(*     mp->mutex;                                                          *)
(*   - the decoders, which start buffering when they starve, and the video *)
(*     refresh thread, which ends a step.                                  *)
(*                                                                         *)
(* A body that runs under mp->mutex is a sequence of instructions in todo, *)
(* one step each, so that the threads that do not take mp->mutex are free  *)
(* to run between any two of them.                                         *)
(***************************************************************************)
EXTENDS Naturals, Sequences, PlayControl

CONSTANTS
    StartOnPrepared,    \* ffp->start_on_prepared
    PacketBuffering,    \* ffp->packet_buffering
    AccurateSeek,       \* ffp->enable_accurate_seek
    Loop,               \* ffp->loop: 0 for ever, 1 no loop, n plays n times
    Positions,          \* positions the application seeks to, 0 the start
    Duration,           \* duration of the stream; 0 when it is unknown
    InputFails,         \* whether opening or reading the input may fail
    MaxCalls            \* bound: accepted calls of the application

ASSUME PlayerAssumption ==
    /\ StartOnPrepared \in BOOLEAN /\ PacketBuffering \in BOOLEAN
    /\ AccurateSeek \in BOOLEAN /\ InputFails \in BOOLEAN
    /\ Loop \in Nat /\ Duration \in Nat /\ MaxCalls \in Nat
    /\ Positions \subseteq Nat /\ 0 \in Positions

VARIABLES
    mp_state, restart, restart_from_beginning,
    mp_seek_req, mp_seek_msec,      \* mp->seek_req, mp->seek_msec
    mutex,                          \* who holds mp->mutex
    todo,                           \* what is left of the body under it
    queue, queue_abort,             \* ffp->msg_queue
    loop_pc, loop_msg,              \* the message loop and its message
    open,                           \* ffp->is # NULL
    abort_request, is_seek_req, is_seek_pos,    \* fields of ffp->is
    play,                           \* the switches of PlayControl
    read_pc, read_target, completed, prepared, loop_count,   \* read_thread
    eof, drained,                   \* the input has ended; all of it was played
    calls,                          \* accepted calls so far
    asked,      \* history: the last accepted start or pause, or that playback failed since
    overtaken   \* history: auto_resume was set just before read_thread cleared it

mpVars     == <<mp_state, restart, restart_from_beginning, mp_seek_req, mp_seek_msec>>
lockVars   == <<mutex, todo>>
queueVars  == <<queue, queue_abort>>
loopVars   == <<loop_pc, loop_msg>>
streamVars == <<open, abort_request, is_seek_req, is_seek_pos>>
readVars   == <<read_pc, read_target, completed, prepared, loop_count, eof, drained>>
history    == <<calls, asked, overtaken>>
vars == <<mpVars, lockVars, queueVars, loopVars, streamVars, play, readVars, history>>

States == {"IDLE", "INITIALIZED", "ASYNC_PREPARING", "PREPARED", "STARTED",
           "PAUSED", "COMPLETED", "STOPPED", "ERROR"}
Requests == {"REQ_START", "REQ_PAUSE", "REQ_SEEK"}
Messages == [what : Requests \cup {"FLUSH", "PREPARED", "COMPLETED", "SEEK_COMPLETE", "ERROR"},
             arg : Positions]
Instructions == [op : {"state", "remove", "put", "restart", "from_beginning", "mp_seek",
                       "queue_start", "spawn", "stream_open", "abort_stream", "queue_abort",
                       "pause", "auto_resume", "buffering", "stream_seek"},
                 what : States \cup Requests \cup {"PREPARED", "COMPLETED", "ON", "OFF"},
                 arg : Positions]

Msg(what, arg) == [what |-> what, arg |-> arg]
I(op, what, arg) == [op |-> op, what |-> what, arg |-> arg]

\* ikjmp_chkst_start_l, ikjmp_chkst_pause_l and ikjmp_chkst_seek_l.
Ready == mp_state \in {"PREPARED", "STARTED", "PAUSED", "COMPLETED"}

Put(m) == IF queue_abort THEN queue ELSE Append(queue, m)

\* msg_queue_remove: the messages of one kind go, the others keep their order.
Without(q, what) ==
    LET kept[n \in 0..Len(q)] ==
            IF n = 0 THEN <<>>
            ELSE IF q[n].what = what THEN kept[n - 1] ELSE Append(kept[n - 1], q[n])
    IN  kept[Len(q)]

-------------------------------------------------------------------------------
(* The bodies that run under mp->mutex. *)

SetDataSourceBody == <<I("state", "INITIALIZED", 0)>>

\* ffp_prepare_async_l fails when the audio output or the stream cannot be made.
PrepareAsyncBody(ok) ==
    <<I("state", "ASYNC_PREPARING", 0), I("queue_start", "ON", 0), I("spawn", "ON", 0),
      IF ok THEN I("stream_open", "ON", 0) ELSE I("state", "ERROR", 0)>>

StartBody == <<I("remove", "REQ_START", 0), I("remove", "REQ_PAUSE", 0),
               I("put", "REQ_START", 0)>>

PauseBody == <<I("remove", "REQ_START", 0), I("remove", "REQ_PAUSE", 0),
               I("put", "REQ_PAUSE", 0)>>

SeekToBody(msec) == <<I("mp_seek", "ON", msec), I("remove", "REQ_SEEK", 0),
                      I("put", "REQ_SEEK", msec)>>

StopBody == <<I("remove", "REQ_START", 0), I("remove", "REQ_PAUSE", 0)>>
            \o (IF open THEN <<I("abort_stream", "ON", 0), I("pause", "ON", 0)>> ELSE <<>>)
            \o <<I("queue_abort", "ON", 0), I("state", "STOPPED", 0)>>

FFSeekTo(msec) ==
    IF AccurateSeek /\ Duration > 0 /\ msec >= Duration
    THEN <<I("pause", "ON", 0), I("put", "COMPLETED", 0)>>
    ELSE <<I("stream_seek", "ON", msec)>>

FFStartFrom(msec) ==
    <<I("auto_resume", "ON", 0), I("buffering", "ON", 0)>> \o FFSeekTo(msec)

PreparedBody ==
    (IF mp_state = "ASYNC_PREPARING" THEN <<I("state", "PREPARED", 0)>> ELSE <<>>)
    \o (IF StartOnPrepared THEN <<>> ELSE <<I("state", "PAUSED", 0)>>)

CompletedBody == <<I("restart", "ON", 0), I("from_beginning", "ON", 0),
                   I("state", "COMPLETED", 0)>>

ReqStartBody ==
    IF ~Ready THEN <<>>
    ELSE (IF restart /\ restart_from_beginning
          THEN FFStartFrom(0) ELSE <<I("pause", "OFF", 0)>>)
         \o <<I("state", "STARTED", 0)>>
         \o (IF restart
             THEN <<I("restart", "OFF", 0), I("from_beginning", "OFF", 0)>> ELSE <<>>)

ReqPauseBody == IF Ready THEN <<I("pause", "ON", 0), I("state", "PAUSED", 0)>> ELSE <<>>

ReqSeekBody(msec) ==
    IF Ready THEN <<I("from_beginning", "OFF", 0)>> \o FFSeekTo(msec) ELSE <<>>

\* The switch of ijkmp_get_msg.
Handler(m) ==
    CASE m.what = "PREPARED"      -> PreparedBody
      [] m.what = "COMPLETED"     -> CompletedBody
      [] m.what = "SEEK_COMPLETE" -> <<I("mp_seek", "OFF", 0)>>
      [] m.what = "REQ_START"     -> ReqStartBody
      [] m.what = "REQ_PAUSE"     -> ReqPauseBody
      [] m.what = "REQ_SEEK"      -> ReqSeekBody(m.arg)

-------------------------------------------------------------------------------
Init ==
    /\ mp_state = "IDLE" /\ restart = FALSE /\ restart_from_beginning = FALSE
    /\ mp_seek_req = FALSE /\ mp_seek_msec = 0
    /\ mutex = "free" /\ todo = <<>>
    /\ queue = <<>> /\ queue_abort = TRUE
    /\ loop_pc = "none" /\ loop_msg = Msg("FLUSH", 0)
    /\ open = FALSE /\ abort_request = FALSE /\ is_seek_req = FALSE /\ is_seek_pos = 0
    /\ play = InitialSwitches(StartOnPrepared)
    /\ read_pc = "none" /\ read_target = 0 /\ completed = FALSE /\ prepared = FALSE
    /\ loop_count = Loop /\ eof = FALSE /\ drained = FALSE
    /\ calls = 0 /\ asked = "none" /\ overtaken = FALSE

(* Calls of the application: an accepted call locks mp->mutex; a refused   *)
(* one changes nothing.                                                    *)
Call(body, wish) ==
    /\ mutex = "free" /\ calls < MaxCalls
    /\ mutex' = "app" /\ todo' = body /\ calls' = calls + 1 /\ asked' = wish
    /\ UNCHANGED <<mpVars, queueVars, loopVars, streamVars, play, readVars, overtaken>>

SetDataSource == mp_state = "IDLE" /\ Call(SetDataSourceBody, asked)

\* The code accepts it from STOPPED too, where the assertion that there is
\* no stream (ff_ffplay.c:4252) fails; that second session is left out.
PrepareAsync ==
    mp_state = "INITIALIZED" /\ \E ok \in BOOLEAN : Call(PrepareAsyncBody(ok), asked)

Start == Ready /\ Call(StartBody, "start")
Pause == Ready /\ Call(PauseBody, "pause")
SeekTo == Ready /\ \E msec \in Positions : Call(SeekToBody(msec), asked)

Stop == /\ mp_state \notin {"IDLE", "INITIALIZED", "ERROR"}
        /\ Call(StopBody, asked)

-------------------------------------------------------------------------------
(* The instructions. *)

Takes(op) == /\ mutex # "free" /\ todo # <<>> /\ Head(todo).op = op
             /\ todo' = Tail(todo)
             /\ UNCHANGED <<mutex, calls, asked>>
Next1(op) == Takes(op) /\ UNCHANGED overtaken
On == Head(todo).what = "ON"

ChangeState ==
    /\ Next1("state") /\ mp_state' = Head(todo).what
    /\ UNCHANGED <<restart, restart_from_beginning, mp_seek_req, mp_seek_msec,
                   queueVars, loopVars, streamVars, play, readVars>>

SetRestart ==
    /\ \/ Next1("restart") /\ restart' = On /\ UNCHANGED restart_from_beginning
       \/ Next1("from_beginning") /\ restart_from_beginning' = On /\ UNCHANGED restart
    /\ UNCHANGED <<mp_state, mp_seek_req, mp_seek_msec,
                   queueVars, loopVars, streamVars, play, readVars>>

SetSeek ==
    /\ Next1("mp_seek") /\ mp_seek_req' = On /\ mp_seek_msec' = Head(todo).arg
    /\ UNCHANGED <<mp_state, restart, restart_from_beginning,
                   queueVars, loopVars, streamVars, play, readVars>>

MsgQueueRemove ==
    /\ Next1("remove")
    /\ queue' = IF queue_abort THEN queue
                ELSE Without(queue, Head(todo).what)
    /\ UNCHANGED <<mpVars, queue_abort, loopVars, streamVars, play, readVars>>

MsgQueuePut ==
    /\ Next1("put") /\ queue' = Put(Msg(Head(todo).what, Head(todo).arg))
    /\ UNCHANGED <<mpVars, queue_abort, loopVars, streamVars, play, readVars>>

MsgQueueStart ==
    /\ Next1("queue_start")
    /\ queue_abort' = FALSE /\ queue' = Append(queue, Msg("FLUSH", 0))
    /\ UNCHANGED <<mpVars, loopVars, streamVars, play, readVars>>

MsgQueueAbort ==
    /\ Next1("queue_abort") /\ queue_abort' = TRUE
    /\ UNCHANGED <<mpVars, queue, loopVars, streamVars, play, readVars>>

SpawnMsgLoop ==
    /\ Next1("spawn") /\ loop_pc' = "get"
    /\ UNCHANGED <<mpVars, queueVars, loop_msg, streamVars, play, readVars>>

StreamOpen ==
    /\ Next1("stream_open")
    /\ open' = TRUE /\ read_pc' = "open"
    /\ UNCHANGED <<mpVars, queueVars, loopVars, abort_request, is_seek_req, is_seek_pos,
                   play, read_target, completed, prepared, loop_count, eof, drained>>

AbortStream ==
    /\ Next1("abort_stream") /\ abort_request' = TRUE
    /\ UNCHANGED <<mpVars, queueVars, loopVars, open, is_seek_req, is_seek_pos, play, readVars>>

\* auto_resume is the one switch that is written without play_mutex.
PressSwitch ==
    /\ \/ Next1("pause") /\ play' = TogglePause(play, On)
       \/ /\ Takes("auto_resume") /\ play' = [play EXCEPT !.auto_resume = TRUE]
          /\ overtaken' = (overtaken \/ read_pc = "resumed")
       \/ Next1("buffering") /\ play' = ToggleBuffering(play, On, PacketBuffering)
    /\ UNCHANGED <<mpVars, queueVars, loopVars, streamVars, readVars>>

\* A seek is dropped while another is pending.
RequestSeek(pos) ==
    /\ is_seek_req' = TRUE
    /\ is_seek_pos' = IF is_seek_req THEN is_seek_pos ELSE pos

StreamSeek ==
    /\ Next1("stream_seek") /\ RequestSeek(Head(todo).arg)
    /\ UNCHANGED <<mpVars, queueVars, loopVars, open, abort_request, play, readVars>>

\* A request is consumed inside ijkmp_get_msg, the rest is posted to Java.
Unlock ==
    /\ mutex # "free" /\ todo = <<>>
    /\ mutex' = "free"
    /\ loop_pc' = IF mutex = "app" THEN loop_pc
                  ELSE IF loop_msg.what \in Requests THEN "get" ELSE "post"
    /\ UNCHANGED <<mpVars, todo, queueVars, loop_msg, streamVars, play, readVars, history>>

-------------------------------------------------------------------------------
(* The message loop. *)

LoopGet ==
    /\ loop_pc = "get" /\ ~queue_abort /\ queue # <<>>
    /\ loop_msg' = Head(queue) /\ queue' = Tail(queue)
    /\ loop_pc' = IF Head(queue).what \in {"FLUSH", "ERROR"} THEN "post" ELSE "handle"
    /\ UNCHANGED <<mpVars, lockVars, queue_abort, streamVars, play, readVars, history>>

LoopExit ==
    /\ loop_pc = "get" /\ queue_abort
    /\ loop_pc' = "exited"
    /\ UNCHANGED <<mpVars, lockVars, queueVars, loop_msg, streamVars, play, readVars, history>>

LoopHandle ==
    /\ loop_pc = "handle" /\ mutex = "free"
    /\ mutex' = "loop" /\ todo' = Handler(loop_msg) /\ loop_pc' = "locked"
    /\ UNCHANGED <<mpVars, queueVars, loop_msg, streamVars, play, readVars, history>>

LoopPost ==
    /\ loop_pc = "post" /\ loop_pc' = "get"
    /\ UNCHANGED <<mpVars, lockVars, queueVars, loop_msg, streamVars, play, readVars, history>>

-------------------------------------------------------------------------------
(* read_thread. *)

\* A step of read_thread that leaves the seek request and its own data alone.
ReadGoes(from, to) ==
    /\ read_pc = from /\ read_pc' = to
    /\ UNCHANGED <<mpVars, lockVars, loopVars, queue_abort, open, abort_request, calls, overtaken>>
ReadStep(from, to) == ReadGoes(from, to) /\ UNCHANGED asked
ReadLocals == <<is_seek_req, is_seek_pos, read_target, completed, prepared, loop_count,
                eof, drained>>
Notify(m) == queue' = Put(m)

\* avformat_open_input, avformat_find_stream_info or the streams failed.
ReadOpenFailed ==
    /\ ReadStep("open", "fail") /\ InputFails
    /\ UNCHANGED <<queue, play, ReadLocals>>

\* The components are open (the audio device plays) and PREPARED is posted.
ReadPrepared ==
    /\ ReadStep("open", IF StartOnPrepared THEN "resume" ELSE "wait_start")
    /\ LET opened == [play EXCEPT !.aout_paused = FALSE]
       IN  play' = IF StartOnPrepared THEN opened ELSE TogglePause(opened, TRUE)
    /\ prepared' = TRUE /\ Notify(Msg("PREPARED", 0))
    /\ UNCHANGED <<is_seek_req, is_seek_pos, read_target, completed, loop_count, eof, drained>>

ReadWaitStart ==
    /\ ReadStep("wait_start", "resume")
    /\ ~play.pause_req \/ abort_request
    /\ UNCHANGED <<queue, play, ReadLocals>>

\* auto_resume is read here and cleared in the next step, with no lock.
ReadResume ==
    /\ ReadStep("resume", IF play.auto_resume THEN "resumed" ELSE "loop")
    /\ queue' = IF play.auto_resume THEN Put(Msg("REQ_START", 0)) ELSE queue
    /\ UNCHANGED <<play, ReadLocals>>

ReadResumed ==
    /\ ReadStep("resumed", "loop")
    /\ play' = [play EXCEPT !.auto_resume = FALSE]
    /\ UNCHANGED <<queue, ReadLocals>>

\* The head of the main loop looks at abort_request, then at seek_req.
ReadAbort == ReadStep("loop", "fail") /\ abort_request /\ UNCHANGED <<queue, play, ReadLocals>>

\* Mutant of ReadNoSeek: packets are read although a seek is waiting.
ReadNoSeekStarves == /\ ReadStep("loop", "body") /\ ~abort_request
                     /\ UNCHANGED <<queue, play, ReadLocals>>

ReadNoSeek == /\ ReadStep("loop", "body") /\ ~abort_request /\ ~is_seek_req
              /\ UNCHANGED <<queue, play, ReadLocals>>

\* The target is copied, then avformat_seek_file runs for as long as it takes.
ReadSeekBegin ==
    /\ ReadStep("loop", "seeking") /\ ~abort_request /\ is_seek_req
    /\ read_target' = is_seek_pos
    /\ play' = ToggleBuffering(play, TRUE, PacketBuffering)
    /\ UNCHANGED <<queue, is_seek_req, is_seek_pos, completed, prepared, loop_count, eof,
                   drained>>

\* The packet queues are flushed unless the seek failed.
ReadSeekDone ==
    /\ ReadStep("seeking", "seek_resume")
    /\ \E ok \in BOOLEAN : drained' = (drained /\ ~ok)
    /\ is_seek_req' = FALSE /\ eof' = FALSE /\ completed' = FALSE
    /\ UNCHANGED <<queue, is_seek_pos, play, read_target, prepared, loop_count>>

ReadSeekResume ==
    /\ ReadStep("seek_resume", "seek_notify")
    /\ play' = ResumeOrStep(play, PacketBuffering)
    /\ UNCHANGED <<queue, ReadLocals>>

\* Mutant of ReadSeekNotify: only the first seek after the preparation is reported.
ReadSeekNotifyOnce ==
    /\ ReadStep("seek_notify", "seek_buffer")
    /\ queue' = IF play.pause_req THEN queue ELSE Put(Msg("SEEK_COMPLETE", read_target))
    /\ UNCHANGED <<play, ReadLocals>>

ReadSeekNotify ==
    /\ ReadStep("seek_notify", "seek_buffer")
    /\ Notify(Msg("SEEK_COMPLETE", read_target))
    /\ UNCHANGED <<play, ReadLocals>>

ReadSeekBuffer ==
    /\ ReadStep("seek_buffer", "body")
    /\ play' = ToggleBuffering(play, TRUE, PacketBuffering)
    /\ UNCHANGED <<queue, ReadLocals>>

\* A packet is queued; the water mark may be reached.
ReadPacket ==
    /\ ReadStep("body", "loop")
    /\ eof' = FALSE
    /\ \/ play' = ToggleBuffering(play, FALSE, PacketBuffering)
       \/ play' = play
    /\ UNCHANGED <<queue, is_seek_req, is_seek_pos, read_target, completed, prepared,
                   loop_count, drained>>

\* av_read_frame has no more packets.
ReadEof ==
    /\ ReadStep("body", "loop")
    /\ eof' = TRUE /\ play' = ToggleBuffering(play, FALSE, PacketBuffering)
    /\ UNCHANGED <<queue, is_seek_req, is_seek_pos, read_target, completed, prepared,
                   loop_count, drained>>

PlayedOut == (~play.paused \/ completed) /\ drained

\* The stream is to be played again.
ReadLoopSeek ==
    /\ ReadStep("body", "loop") /\ PlayedOut
    /\ loop_count # 1
    /\ loop_count' = IF loop_count = 0 THEN 0 ELSE loop_count - 1
    /\ RequestSeek(0)
    /\ UNCHANGED <<queue, play, read_target, completed, prepared, eof, drained>>

\* The end is reported once; then read_thread waits for a seek or an abort.
ReadEnded ==
    /\ ReadStep("body", IF completed THEN "ended" ELSE "ending") /\ PlayedOut
    /\ loop_count = 1
    /\ completed' = TRUE
    /\ play' = IF completed THEN play ELSE [play EXCEPT !.auto_resume = FALSE]
    /\ UNCHANGED <<queue, is_seek_req, is_seek_pos, read_target, prepared, loop_count, eof,
                   drained>>

ReadEndBuffering ==
    /\ ReadStep("ending", "end_pause")
    /\ play' = ToggleBuffering(play, FALSE, PacketBuffering)
    /\ UNCHANGED <<queue, ReadLocals>>

ReadEndPause ==
    /\ ReadStep("end_pause", "end_notify")
    /\ play' = TogglePause(play, TRUE)
    /\ UNCHANGED <<queue, ReadLocals>>

\* ffp->error decides between ERROR and COMPLETED.
ReadEndNotify ==
    /\ ReadGoes("end_notify", "loop")
    /\ \/ Notify(Msg("COMPLETED", 0)) /\ UNCHANGED asked
       \/ InputFails /\ Notify(Msg("ERROR", 0)) /\ asked' = "failed"
    /\ UNCHANGED <<play, ReadLocals>>

\* Mutants of ReadEndedWait: the wait for one of the two events is forgotten.
ReadEndedWaitAbort ==
    /\ ReadStep("ended", "loop") /\ abort_request
    /\ UNCHANGED <<queue, play, ReadLocals>>
ReadEndedWaitSeek ==
    /\ ReadStep("ended", "loop") /\ is_seek_req
    /\ UNCHANGED <<queue, play, ReadLocals>>

ReadEndedWait ==
    /\ ReadStep("ended", "loop") /\ (abort_request \/ is_seek_req)
    /\ UNCHANGED <<queue, play, ReadLocals>>

ReadExit ==
    /\ ReadStep("fail", "exited")
    /\ queue' = IF ~prepared \/ ~abort_request THEN Put(Msg("ERROR", 0)) ELSE queue
    /\ UNCHANGED <<play, ReadLocals>>

-------------------------------------------------------------------------------
(* The threads behind the packet queues. *)

\* packet_queue_get_or_buffering found its queue empty before the end.
DecoderStarves ==
    /\ prepared /\ ~abort_request /\ ~drained
    /\ play' = ToggleBuffering(play, TRUE, PacketBuffering)
    /\ UNCHANGED <<mpVars, lockVars, queueVars, loopVars, streamVars, readVars, history>>

\* The decoders have finished and the frame queues are empty.
PlayOut ==
    /\ eof /\ ~drained /\ ~play.paused
    /\ drained' = TRUE
    /\ UNCHANGED <<mpVars, lockVars, queueVars, loopVars, streamVars, play, read_pc,
                   read_target, completed, prepared, loop_count, eof, history>>

RefreshFrameShown ==
    /\ prepared /\ ~abort_request /\ ~play.paused
    /\ play' = FrameShown(play)
    /\ UNCHANGED <<mpVars, lockVars, queueVars, loopVars, streamVars, readVars, history>>

AppNext == SetDataSource \/ PrepareAsync \/ Start \/ Pause \/ SeekTo \/ Stop
LockedNext == \/ ChangeState \/ SetRestart \/ SetSeek
              \/ MsgQueueRemove \/ MsgQueuePut \/ MsgQueueStart \/ MsgQueueAbort
              \/ SpawnMsgLoop \/ StreamOpen \/ AbortStream \/ PressSwitch \/ StreamSeek
              \/ Unlock
LoopNext == LoopGet \/ LoopExit \/ LoopHandle \/ LoopPost
ReadNext == \/ ReadOpenFailed \/ ReadPrepared \/ ReadWaitStart \/ ReadResume \/ ReadResumed
            \/ ReadAbort \/ ReadNoSeek \/ ReadSeekBegin \/ ReadSeekDone \/ ReadSeekResume
            \/ ReadSeekNotify \/ ReadSeekBuffer \/ ReadPacket \/ ReadEof \/ ReadLoopSeek
            \/ ReadEnded \/ ReadEndBuffering \/ ReadEndPause \/ ReadEndNotify
            \/ ReadEndedWait \/ ReadExit
SinkNext == DecoderStarves \/ PlayOut \/ RefreshFrameShown

Next == AppNext \/ LockedNext \/ LoopNext \/ ReadNext \/ SinkNext

Spec == Init /\ [][Next]_vars

(* Every thread is scheduled; a mutex holder and the message loop go on,   *)
(* and input and seeks return (ijkplayer gives the protocol layer an       *)
(* interrupt callback and timeouts).  The application owes nothing.        *)
Fairness == WF_vars(LockedNext) /\ WF_vars(LoopNext) /\ WF_vars(ReadNext)
FairSpec == Spec /\ Fairness

-------------------------------------------------------------------------------
TypeOK ==
    /\ mp_state \in States
    /\ restart \in BOOLEAN /\ restart_from_beginning \in BOOLEAN
    /\ mp_seek_req \in BOOLEAN /\ mp_seek_msec \in Positions
    /\ mutex \in {"free", "app", "loop"} /\ todo \in Seq(Instructions)
    /\ queue \in Seq(Messages) /\ queue_abort \in BOOLEAN
    /\ loop_pc \in {"none", "get", "handle", "locked", "post", "exited"}
    /\ loop_msg \in Messages
    /\ open \in BOOLEAN /\ abort_request \in BOOLEAN
    /\ is_seek_req \in BOOLEAN /\ is_seek_pos \in Positions
    /\ play \in Switches
    /\ read_pc \in {"none", "open", "wait_start", "resume", "resumed", "loop", "body", "seeking",
                    "seek_resume", "seek_notify", "seek_buffer", "ending", "end_pause",
                    "end_notify", "ended", "fail", "exited"}
    /\ read_target \in Positions /\ completed \in BOOLEAN /\ prepared \in BOOLEAN
    /\ loop_count \in Nat /\ eof \in BOOLEAN /\ drained \in BOOLEAN
    /\ calls \in 0..MaxCalls /\ asked \in {"none", "start", "pause", "failed"}
    /\ overtaken \in BOOLEAN

Queued(whats) == \E i \in DOMAIN queue : queue[i].what \in whats
InFlight(whats) == \/ Queued(whats)
                   \/ loop_pc \in {"handle", "locked"} /\ loop_msg.what \in whats

\* Nothing that was asked for is still on its way through the threads.
Settled ==
    /\ mutex = "free" /\ ~queue_abort /\ ~is_seek_req
    /\ ~InFlight(Requests \cup {"PREPARED", "COMPLETED"})
    /\ read_pc \in {"wait_start", "loop", "body", "ended"}

(* A player that says STARTED is not held by a pause, whichever way start  *)
(* was served (on the fly, or by auto_resume at the end of a seek) and     *)
(* wherever read_thread was.  Only an input that failed since leaves it    *)
(* paused: the ERROR message at the end does not change the state.         *)
StartedPlays ==
    Settled /\ mp_state = "STARTED" => ~play.pause_req \/ asked = "failed"

(* A player that says PAUSED is held: no auto_resume that was armed before *)
(* the pause outlives it.                                                  *)
PausedHolds == Settled /\ mp_state = "PAUSED" => play.pause_req

(* ijkmp_start overrides an earlier ijkmp_pause, even one whose message    *)
(* was already taken off the queue when start removed its kind.            *)
StartSticks == Settled /\ asked = "start" => mp_state \in {"STARTED", "COMPLETED"}

(* mp->restart and mp->restart_from_beginning are armed by an end of       *)
(* playback and disarmed by the start that follows, across any seeks and   *)
(* pauses between.                                                         *)
RestartArmed ==
    mutex = "free" => /\ restart_from_beginning => restart
                      /\ mp_state = "COMPLETED" => restart
                      /\ mp_state \in {"PREPARED", "STARTED"} => ~restart

(* The state a player reports, the switches it plays by and the last call  *)
(* of the application agree once nothing is on its way between them: the   *)
(* four above, which no single test of a call can reach.                   *)
LastCallHolds == StartedPlays /\ PausedHolds /\ StartSticks /\ RestartArmed

(* While ijkmp_get_current_position answers with the target of a seek      *)
(* (mp->seek_req), that seek or the answer to it is on its way: the        *)
(* reported position does not freeze.  (Not of accurate seeks: one past    *)
(* the end is answered by COMPLETED and leaves mp->seek_req set.)          *)
SeekTracked ==
    mutex = "free" /\ ~queue_abort /\ mp_seek_req =>
        \/ is_seek_req \/ read_pc \in {"seek_resume", "seek_notify"}
        \/ InFlight({"REQ_SEEK", "SEEK_COMPLETE"})

(* A start is carried through: playback does not stay paused for ever      *)
(* behind the state STARTED, unless the input failed.                      *)
StartResumes ==
    mp_state = "STARTED" ~> ~play.pause_req \/ mp_state # "STARTED" \/ asked = "failed"

(* So it is but for two starts that go by a seek to the beginning: one     *)
(* that comes while read_thread still waits for the first resume           *)
(* (ff_ffplay.c:3333), and one whose auto_resume read_thread clears        *)
(* together with the earlier one it has answered (3337-3339).              *)
StartCarriedThrough ==
    mp_state = "STARTED" ~> \/ ~play.pause_req \/ mp_state # "STARTED" \/ asked = "failed"
                            \/ overtaken \/ (read_pc = "wait_start" /\ is_seek_req)

(* A seek of a player that is not paused before its first start is         *)
(* answered, unless the player is stopped or the input is lost.  An        *)
(* accurate seek past the end is answered by COMPLETED alone, which arms   *)
(* mp->restart.                                                            *)
SeekAnswered ==
    mp_seek_req ~> \/ ~mp_seek_req \/ abort_request
                   \/ AccurateSeek /\ restart
                   \/ read_pc \in {"wait_start", "fail", "exited"}

(* stop ends both threads, wherever they wait.                             *)
StopEndsThreads == abort_request ~> read_pc = "exited" /\ loop_pc = "exited"

-------------------------------------------------------------------------------
(* What the comments of ijkplayer.h and ff_ffplay.c say and the code does  *)
(* not do.                                                                 *)

(* The comment on MP_STATE_STARTED: ijkmp_pause() -> MP_STATE_PAUSED, so a *)
(* pause that was not followed by a start leaves no player STARTED.        *)
PauseSticks == Settled /\ asked = "pause" => mp_state # "STARTED"
===============================================================================
