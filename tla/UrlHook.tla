------------------------------- MODULE UrlHook -------------------------------
(***************************************************************************)
(* The protocols that stand between a demuxer and the connection, and ask  *)
(* the application for the address to open:                                *)
(*   "tcp"    ijktcphook of ijkurlhook.c, which asks nobody;               *)
(*   "http"   ijkhttphook of ijkurlhook.c;                                 *)
(*   "ijkio"  httphook of ijkiourlhook.c, below the I/O cache;             *)
(*   "live"   ijklivehook.c, a demuxer around a demuxer;                   *)
(*   "source" ijkmediadatasource.c, where Java is asked for the bytes.     *)
(* When a connection fails the application is asked whether to connect     *)
(* again, and where; the new connection starts at the position the old one *)
(* had come to.  The player may interrupt at any time.                     *)
(*                                                                         *)
(* A byte is its position in the resource.  The caller (avio_seek) takes   *)
(* every seek that does not answer with an error for one that has arrived  *)
(* where it was sent.                                                      *)
(***************************************************************************)
EXTENDS Naturals

CONSTANTS HookKinds,    \* the protocols that are considered
          HookSize,     \* logical_size of a resource that is not streamed
          MaxRetries,   \* the application: it takes on so many failures of a call
          MaxLives      \* bound: connections of a live stream

ASSUME HookAssumption ==
    /\ HookKinds \subseteq {"tcp", "http", "ijkio", "live", "source"}
    /\ HookSize \in Nat /\ MaxRetries \in Nat /\ MaxLives \in Nat

VARIABLES
    kind, streamed,     \* which protocol; is_streamed
    connection,         \* the connection: open, and where it reads next
    hook,               \* the Context: logical_pos, logical_size, io_error, app_io_ctrl
    request,            \* the call in progress
    answer,             \* what the last call returned; "eof" only of reads
    interruption,       \* the interrupt callback of the player says so
    abortRequest,       \* abort_request of "ijkio"
    activeReconnect,    \* ijkio_app_ctx->active_reconnect
    believed,           \* where the caller takes the next byte to be from
    misled,             \* history: a seek that failed was answered with 0,
                        \* and none has arrived since
    told,               \* history: where the last bytes were from, and were taken to be
    live                \* of "live": the connection, of which the last packet was, its flag

hookVars == <<kind, streamed, connection, hook, request, answer, interruption, abortRequest,
              activeReconnect, believed, misled, told, live>>

Failures == {"io", "exit", "eof"}       \* the negative answers

NoRequest == [op |-> "none", pc |-> "idle", ret |-> "ok", target |-> 0, again |-> FALSE]

HookInit ==
    /\ kind \in HookKinds
    /\ streamed \in (IF kind \in {"tcp", "live"} THEN {TRUE} ELSE BOOLEAN)
    /\ connection = [open |-> FALSE, at |-> 0]
    /\ hook = [pos |-> 0, size |-> 0, error |-> "ok", retry |-> 0, handled |-> FALSE, changed |-> FALSE]
    /\ request = NoRequest /\ answer = "ok"
    /\ interruption = FALSE /\ abortRequest = FALSE /\ activeReconnect = FALSE
    /\ believed = 0 /\ misled = FALSE /\ told = [from |-> 0, wanted |-> 0]
    /\ live = [gen |-> 0, shown |-> 0, before |-> 0, discontinuity |-> FALSE, flagged |-> FALSE]

Loops == kind \in {"http", "ijkio"}     \* the protocols that connect again
Stopped == interruption \/ (kind = "ijkio" /\ abortRequest)
Aborted == kind = "ijkio" /\ abortRequest

outside == <<kind, streamed, interruption, live>>
caller  == <<believed, misled, told>>
-----------------------------------------------------------------------------
(* How a call ends, or its loop goes round again. *)

AnswerWith(ret) == request' = NoRequest /\ answer' = ret

AskAgain(h) ==
    /\ request' = [request EXCEPT !.pc = "ask", !.again = TRUE]
    /\ hook' = [h EXCEPT !.retry = @ + 1]
    /\ UNCHANGED answer

\* io_error after a read that returned ret; 0 is no error.
Kept(ret) == IF ret = "end" THEN "ok" ELSE ret

\* open: all but an interruption is put to the application.
OpenIsAnswered(ret, h) ==
    IF Loops /\ ret \in {"io", "eof"} /\ ~Aborted
    THEN AskAgain(h)
    ELSE AnswerWith(ret) /\ hook' = h

Unfinished(h) == Loops /\ ~streamed /\ h.pos < h.size /\ ~Aborted

\* read: all but an interruption, as long as the end has not been reached.
ReadIsAnswered(ret, h) ==
    IF Unfinished(h) /\ ret \in {"io", "eof"}
    THEN AskAgain(h)
    ELSE AnswerWith(ret) /\ hook' = IF ret = "bytes" THEN h ELSE [h EXCEPT !.error = Kept(ret)]

\* What the caller makes of the answer to a seek.
Arrives(ret, failed) ==
    /\ AnswerWith(IF ret = "eof" THEN "io" ELSE ret)
    /\ IF ret \in Failures THEN UNCHANGED caller
       ELSE /\ believed' = request.target /\ misled' = failed
            /\ told' = [from |-> 0, wanted |-> 0]

\* seek: neither an interruption nor the end is put to the application; both, and a failure
\* it does not take on, jump to fail, where ret is still the 0 of the last injection.
SeekIsAnswered(ret, h) ==
    CASE ret = "ok" -> hook' = [h EXCEPT !.error = "ok"] /\ Arrives("ok", FALSE)
      [] ret # "ok" /\ Aborted -> hook' = [h EXCEPT !.error = "ok"] /\ Arrives(ret, FALSE)
      [] ret \in {"exit", "eof"} /\ ~Aborted -> hook' = h /\ Arrives("ok", TRUE)
      [] ret = "io" /\ ~Aborted -> AskAgain(h) /\ UNCHANGED caller

Answered(ret, h) ==
    \/ request.op = "open" /\ OpenIsAnswered(ret, h) /\ UNCHANGED caller
    \/ request.op = "read" /\ ReadIsAnswered(ret, h) /\ UNCHANGED caller
    \/ request.op = "seek" /\ SeekIsAnswered(ret, h)
-----------------------------------------------------------------------------
(* The calls. *)

Requests(op, pc, target) ==
    /\ request' = [NoRequest EXCEPT !.op = op, !.pc = pc, !.target = target]
    /\ UNCHANGED answer

HookIdle == request.op = "none" /\ kind \in {"tcp", "http", "ijkio"}

HookOpen ==
    /\ HookIdle /\ ~connection.open
    /\ Requests("open", IF kind = "tcp" THEN "connect" ELSE "ask", 0)
    /\ hook' = [hook EXCEPT !.retry = 0]
    /\ UNCHANGED <<connection, abortRequest, activeReconnect, outside, caller>>

\* With active_reconnect the old connection is not even tried.
HookRead ==
    /\ HookIdle /\ connection.open
    /\ LET h == [hook EXCEPT !.retry = 0] IN
       CASE ~activeReconnect -> Requests("read", "read", 0) /\ hook' = h
         [] activeReconnect /\ Unfinished(h) ->
                /\ request' = [NoRequest EXCEPT !.op = "read", !.pc = "ask", !.again = TRUE]
                /\ hook' = [h EXCEPT !.retry = 1]
                /\ UNCHANGED answer
         [] activeReconnect /\ ~Unfinished(h) -> AnswerWith("end") /\ hook' = [h EXCEPT !.error = "ok"]
    /\ UNCHANGED <<connection, abortRequest, activeReconnect, outside, caller>>

\* A seek to where it is returns at once, whatever has failed there.
HookSeek ==
    /\ HookIdle /\ Loops /\ connection.open
    /\ \E target \in 0 .. HookSize :
       IF target = hook.pos \/ (kind = "http" /\ streamed)
       THEN /\ answer' = IF target = hook.pos THEN "ok" ELSE "io"
            /\ believed' = IF target = hook.pos THEN target ELSE believed
            /\ told' = [from |-> 0, wanted |-> 0]
            /\ UNCHANGED <<request, hook, misled>>
       ELSE /\ Requests("seek", "ask", target)
            /\ hook' = [hook EXCEPT !.retry = 0]
            /\ UNCHANGED caller
    /\ UNCHANGED <<connection, abortRequest, activeReconnect, outside>>
-----------------------------------------------------------------------------
(* Their steps. *)

At(pc) == request.pc = pc

HookAt(pc) == kind # "live" /\ At(pc)

Goes(pc) == request' = [request EXCEPT !.pc = pc] /\ UNCHANGED answer

\* What the application says, through inject_callback: whether it takes the failure on, and
\* whether the address is another; or the callback fails.
Says(h, b, d) == [h EXCEPT !.handled = b, !.changed = d]
TakesOn(h) == IF h.retry <= MaxRetries THEN BOOLEAN ELSE {FALSE}
Answers(h) == {Says(h, b, d) : b \in TakesOn(h), d \in BOOLEAN}

\* An interruption, or an application that fails: the call returns AVERROR_EXIT.
AskExits ==
    /\ HookAt("ask")
    /\ abortRequest' = (abortRequest \/ (kind = "ijkio" /\ interruption))
    /\ hook' = IF request.op = "read" THEN [hook EXCEPT !.error = "exit"] ELSE hook
    /\ activeReconnect' = (activeReconnect /\ request.op # "read")
    /\ AnswerWith("exit")
    /\ UNCHANGED <<connection, outside, caller>>

Asked(h) == ~Stopped /\ h \in Answers(hook)

\* The application takes it on, and the new connection starts at the position.
AskGoesOn ==
    /\ HookAt("ask")
    /\ \E h \in Answers(hook) :
        /\ Asked(h) /\ (request.again => h.handled)
        /\ hook' = h
        /\ Goes(IF request.op = "seek" /\ ~h.changed THEN "seek" ELSE "connect")
    /\ activeReconnect' = (activeReconnect /\ request.op # "read")
    /\ UNCHANGED <<connection, abortRequest, outside, caller>>

\* It does not: open returns the failure, read 0, which is the end of the stream, and seek
\* 0, which is a position.
AskRefused ==
    /\ HookAt("ask") /\ request.again
    /\ \E h \in Answers(hook) :
        /\ Asked(h) /\ ~h.handled
        /\ hook' = IF request.op = "read" THEN [h EXCEPT !.error = "ok"] ELSE h
    /\ \/ request.op = "open" /\ AnswerWith("io") /\ UNCHANGED caller
       \/ request.op = "read" /\ AnswerWith("end") /\ UNCHANGED caller
       \/ request.op = "seek" /\ Arrives("ok", TRUE)
    /\ activeReconnect' = (activeReconnect /\ request.op # "read")
    /\ UNCHANGED <<connection, abortRequest, outside>>

\* What a connection may fail with.
Fails == IF Stopped THEN {"io", "exit"} ELSE {"io"}

\* Mutant of Offset: a read reconnects where an open does.
OffsetStart == IF request.op = "seek" THEN request.target ELSE 0

\* The offset of the new connection.
Offset == CASE request.op = "open" -> 0 [] request.op = "read" -> hook.pos [] OTHER -> request.target

Connected(h, offset) ==
    [h EXCEPT !.pos = offset, !.size = IF streamed THEN 0 ELSE HookSize, !.error = "ok"]

HookConnect ==
    /\ HookAt("connect")
    /\ connection' = [open |-> TRUE, at |-> Offset]
    /\ \/ /\ request.op = "read"
          /\ hook' = Connected(hook, Offset)
          /\ Goes("read")
          /\ UNCHANGED caller
       \/ /\ request.op # "read"
          /\ Answered("ok", Connected(hook, Offset))
    /\ UNCHANGED <<abortRequest, activeReconnect, outside>>

\* The old connection stays.
ConnectFails ==
    /\ HookAt("connect")
    /\ \E ret \in Fails :
        Answered(ret, IF request.op = "seek" THEN [hook EXCEPT !.error = ret] ELSE hook)
    /\ UNCHANGED <<connection, abortRequest, activeReconnect, outside>>

\* ijkurlhook_read: an error once met is returned again.
ReadInner ==
    /\ HookAt("read") /\ hook.error = "ok"
    /\ \E n \in 1 .. HookSize - connection.at :
        /\ told' = [from |-> connection.at, wanted |-> IF misled THEN connection.at ELSE believed]
        /\ believed' = told'.wanted + n
        /\ connection' = [connection EXCEPT !.at = @ + n]
        /\ ReadIsAnswered("bytes", [hook EXCEPT !.pos = @ + n])
    /\ UNCHANGED <<misled, abortRequest, activeReconnect, outside>>

ReadFails ==
    /\ HookAt("read")
    /\ \E ret \in IF hook.error # "ok" THEN {hook.error}
                  ELSE Fails \union (IF connection.at = HookSize THEN {"eof", "end"} ELSE {}) :
        ReadIsAnswered(ret, [hook EXCEPT !.error = Kept(ret)])
    /\ UNCHANGED <<connection, abortRequest, activeReconnect, outside, caller>>

SeekInner ==
    /\ HookAt("seek") /\ ~streamed
    /\ connection' = [connection EXCEPT !.at = request.target]
    /\ Answered("ok", [hook EXCEPT !.pos = request.target])
    /\ UNCHANGED <<abortRequest, activeReconnect, outside>>

SeekFails ==
    /\ HookAt("seek")
    /\ \E ret \in Fails \union {"eof"} : Answered(ret, [hook EXCEPT !.error = ret])
    /\ UNCHANGED <<connection, abortRequest, activeReconnect, outside>>
-----------------------------------------------------------------------------
(* The live hook. *)

LiveCall(op, pc) ==
    /\ kind = "live" /\ request.op = "none"
    /\ Requests(op, pc, 0)
    /\ hook' = [hook EXCEPT !.retry = 0]

liveRest == <<connection, kind, streamed, interruption, abortRequest, activeReconnect, caller>>

\* (After a failure the demuxer is opened again with a Context of its own.)
LiveReadHeader ==
    /\ ~connection.open
    /\ LiveCall("open", "ask")
    /\ live' = [live EXCEPT !.discontinuity = FALSE]
    /\ UNCHANGED liveRest

LiveReadPacket ==
    /\ connection.open /\ hook.error = "ok"
    /\ LiveCall("read", "read")
    /\ UNCHANGED <<live, liveRest>>

\* A failure is no longer put to the application once it was an interruption.
LiveEnds(ret) ==
    IF ret # "exit" THEN AskAgain(hook)
    ELSE /\ AnswerWith(ret)
         /\ hook' = [hook EXCEPT !.error = IF request.op = "read" THEN "exit" ELSE @]

LiveAsk ==
    /\ kind = "live" /\ At("ask")
    /\ \/ AnswerWith("exit") /\ UNCHANGED live
       \/ /\ ~interruption /\ hook.retry <= MaxRetries
          /\ Goes("connect")
          /\ live' = [live EXCEPT !.discontinuity = @ \/ request.again]
    /\ UNCHANGED <<hook, liveRest>>

OpenInner ==
    /\ kind = "live" /\ At("connect") /\ live.gen < MaxLives
    /\ live' = [live EXCEPT !.gen = @ + 1]
    /\ connection' = [connection EXCEPT !.open = TRUE]
    /\ UNCHANGED hook
    /\ IF request.op = "open" THEN AnswerWith("ok") ELSE Goes("read")
    /\ UNCHANGED <<kind, streamed, interruption, abortRequest, activeReconnect, caller>>

OpenInnerFails ==
    /\ kind = "live" /\ At("connect")
    /\ \E ret \in Fails : LiveEnds(ret)
    /\ UNCHANGED <<live, liveRest>>

\* av_read_frame gives a packet.  (While it answers EAGAIN it is called again at once.)
LiveFrame ==
    /\ kind = "live" /\ At("read")
    /\ live' = [live EXCEPT !.shown = live.gen, !.before = live.shown,
                            !.flagged = live.discontinuity, !.discontinuity = FALSE]
    /\ AnswerWith("bytes")
    /\ UNCHANGED <<hook, liveRest>>

LiveFrameFails ==
    /\ kind = "live" /\ At("read")
    /\ \E ret \in Fails \union {"eof"} : LiveEnds(ret)
    /\ UNCHANGED <<live, liveRest>>
-----------------------------------------------------------------------------
(* The media data source: the position is the hook's, the bytes are Java's. *)

sourceRest == <<request, abortRequest, activeReconnect, outside>>

SourceOpen ==
    /\ kind = "source" /\ ~connection.open
    /\ connection' = [connection EXCEPT !.open = TRUE]
    /\ hook' = [hook EXCEPT !.size = IF streamed THEN 0 ELSE HookSize]
    /\ answer' = "ok"
    /\ UNCHANGED <<sourceRest, caller>>

SourceRead ==
    /\ kind = "source" /\ connection.open
    /\ \/ \E n \in 1 .. HookSize - hook.pos :
            /\ told' = [from |-> hook.pos, wanted |-> believed]
            /\ believed' = believed + n
            /\ hook' = [hook EXCEPT !.pos = @ + n]
            /\ answer' = "bytes"
       \/ /\ answer' \in {"io", "again"} \union (IF hook.pos = HookSize THEN {"eof"} ELSE {})
          /\ UNCHANGED <<hook, told, believed>>
    /\ UNCHANGED <<connection, misled, sourceRest>>

\* Java is asked for no bytes at the new position, to see whether it has them.
SourceSeek ==
    /\ kind = "source" /\ connection.open
    /\ \/ \E target \in 0 .. HookSize :
            /\ hook' = [hook EXCEPT !.pos = target]
            /\ believed' = target
            /\ answer' = "ok"
       \/ answer' \in {"io", "eof"} /\ UNCHANGED <<hook, believed>>
    /\ told' = [from |-> 0, wanted |-> 0]
    /\ UNCHANGED <<connection, misled, sourceRest>>
-----------------------------------------------------------------------------
(* The world outside. *)

InterruptRequest ==
    /\ ~interruption /\ interruption' = TRUE
    /\ UNCHANGED <<kind, streamed, connection, hook, request, answer, abortRequest, activeReconnect, caller, live>>

\* ijkio_httphook_pause and _resume, of the I/O manager.
HookPause ==
    /\ kind = "ijkio" /\ connection.open
    /\ abortRequest' = ~abortRequest
    /\ UNCHANGED <<connection, hook, request, answer, activeReconnect, outside, caller>>

\* ijkio_manager_immediate_reconnect.
ImmediateReconnect ==
    /\ kind = "ijkio" /\ ~activeReconnect
    /\ activeReconnect' = TRUE
    /\ UNCHANGED <<connection, hook, request, answer, abortRequest, outside, caller>>

HookCall == HookOpen \/ HookRead \/ HookSeek \/ LiveReadHeader \/ LiveReadPacket
            \/ SourceOpen \/ SourceRead \/ SourceSeek

HookStep ==
    \/ AskExits \/ AskGoesOn \/ AskRefused \/ HookConnect \/ ConnectFails
    \/ ReadInner \/ ReadFails \/ SeekInner \/ SeekFails
    \/ LiveAsk \/ OpenInner \/ OpenInnerFails \/ LiveFrame \/ LiveFrameFails

HookNext == HookCall \/ HookStep \/ InterruptRequest \/ HookPause \/ ImmediateReconnect

\* A call that has begun goes on.
HookSpec == HookInit /\ [][HookNext]_hookVars /\ WF_hookVars(HookStep)
-----------------------------------------------------------------------------
\* Over failed connections, reconnections and seeks the caller gets the bytes of the
\* position it takes itself to be at: the new connection starts where the old one broke off,
\* whatever failed between (ijkurlhook.c 320, ijkiourlhook.c 352).  Nothing is said of what
\* follows a seek that failed for good: it is answered with 0, like one that arrived
\* (ijkurlhook.c 410).
HookReadsTrue == told.from = told.wanted

\* A failure is not taken for the end of the stream - as long as the application takes the
\* failures on; one it refuses is answered with 0 (ijkurlhook.c 316, 328-332), and so is a
\* read of a paused hook that was told to reconnect (ijkiourlhook.c 332, 336).
HookEndIsTrue == answer \in {"end", "eof"} /\ Loops /\ request.op = "none" /\ ~streamed =>
                     hook.pos = hook.size \/ misled \/ ~hook.handled \/ activeReconnect

\* A packet of another connection than the packet before it carries the flag of a
\* discontinuity, however many attempts came between (ijklivehook.c 272, 281-284).
LiveJumpsFlagged == live.before # 0 /\ live.shown # live.before => live.flagged

\* What the caller is told is true: bytes of its position, an end that is one, and the cut
\* where a live stream was connected anew.
HookTellsTrue == HookReadsTrue /\ HookEndIsTrue /\ LiveJumpsFlagged

\* A call returns once the application refuses, or the player interrupts: no loop of
\* attempts goes on by itself (ijkurlhook.c 316, 398; ijkiourlhook.c 336).
HookCallsReturn == []<>(request.op = "none")
=============================================================================
