------------------------------ MODULE HwDecoder ------------------------------
(***************************************************************************)
(* The hardware video decoder: ffpipenode_android_mediacodec_vdec.c over    *)
(* the codec wrappers ijksdl_codec_android_mediacodec*.c, the video output *)
(* ijksdl_vout_android_nativewindow.c and the surface of                    *)
(* ffpipeline_android.c.                                                    *)
(*                                                                         *)
(* One thread feeds packets, another takes decoded buffers out, the        *)
(* display gives them back by drawing or dropping them, the application    *)
(* changes the surface and seeks at any time.  A buffer the codec lends is *)
(* known by its index and by the serial number the codec had then; a codec *)
(* that is flushed or stopped takes its buffers back and changes its       *)
(* serial.  With mediacodec_sync one thread feeds and drains in turn.      *)
(*                                                                         *)
(* The vout's functions run under vout->mutex and are one step each; the   *)
(* sections under acodec_mutex are not, for holding it is what the two     *)
(* threads contend for.                                                    *)
(***************************************************************************)
EXTENDS Integers, Sequences

CONSTANTS Outputs,        \* indices of a codec's output buffers
          FakeFrames,     \* FAKE_BUFFER_QUEUE_SIZE
          KeptBack,       \* n_buf_out: buffers kept back to put them in order
          Pictures,       \* pictures the frame queue holds
          Alone,          \* values of mediacodec_sync that are considered
          MaxEvents       \* bound: packets, seeks, calls of set_surface and failures
                          \* of the codec, all together

ASSUME HwAssumption ==
    /\ Outputs \subseteq Nat /\ FakeFrames \in Nat \ {0}
    /\ KeptBack \in {0, 1} /\ Pictures \in Nat \ {0}
    /\ Alone \subseteq BOOLEAN
    /\ MaxEvents \in Nat

VARIABLES
    codecs,         \* the codecs created so far
    serials,        \* g_amediacodec_object_serial
    acodec,         \* opaque->acodec: which of them, None for NULL
    voutCodec,      \* the codec of the vout
    window,         \* the vout's native_window
    surface,        \* the pipeline's jsurface
    needReconfigure,\* is_surface_need_reconfigure
    jsurface,       \* the surface the codec was configured with
    flushRequest,   \* acodec_flush_request
    reconfigureRequest, \* acodec_reconfigure_request
    firstRequest,   \* acodec_first_dequeue_output_request
    needRecreate,   \* aformat_need_recreate
    inputCount,     \* input_packet_count > 0
    kept,           \* amc_buf_out
    holder,         \* who holds acodec_mutex
    feed,           \* where the feeding thread is, and the packet it got
    pending,        \* packet_pending
    drain,          \* where the draining thread is
    frame,          \* the buffer proxy of the frame it got
    pictures,       \* the proxies in the picture queue
    flushQueued,    \* the flush packet of a seek heads the packet queue
    stopping,       \* the packet queue's abort_request
    app, seeker,    \* where set_surface and the seek are
    alone,          \* mediacodec_sync
    orphaned,       \* history: buffers were given up with nothing to take them back
    left            \* bound: events left

None    == 0
Nowhere == 0        \* no surface, no window

codecVars   == <<codecs, serials, acodec, voutCodec>>
surfaceVars == <<window, surface, needReconfigure, app>>
requests    == <<flushRequest, reconfigureRequest, firstRequest>>
nodeVars    == <<jsurface, needRecreate, inputCount>>
buffers     == <<kept, frame, pictures>>
input       == <<flushQueued, seeker, pending>>
threads     == <<feed, drain, holder>>
fixed       == <<stopping, alone, orphaned, left>>
hwVars == <<codecVars, surfaceVars, requests, nodeVars, buffers, input, threads, fixed>>

\* SDL_AMediaCodec_CreateInternal and the two codecs' create: a dummy has no serial.
NewCodec(dummy, serial) ==
    [dummy |-> dummy, serial |-> serial, started |-> FALSE, lent |-> {}, inside |-> 0,
     fakes |-> 0, dummies |-> 0, abort |-> FALSE, valid |-> FALSE, refs |-> 1]

Codec == codecs[acodec]
Dead  == feed.pc = "crashed" \/ drain = "crashed"

Invalid == [serial |-> 0, index |-> -1, fake |-> FALSE]    \* a proxy after its reset
NoProxy == [serial |-> -1, index |-> -1, fake |-> FALSE]   \* the NULL proxy

NewPacket == [pc |-> "top", packet |-> "none"]
At(pc)    == feed' = [feed EXCEPT !.pc = pc]
-----------------------------------------------------------------------------
(* The codec wrappers: what each call makes of a codec. *)

FakeFlushed(c) == IF c.abort THEN c ELSE [c EXCEPT !.fakes = 0]
FakeAborted(c) == [c EXCEPT !.abort = TRUE]
CanFake(c)     == ~c.abort /\ c.fakes < FakeFrames
FakeQueued(c)  == [c EXCEPT !.fakes = @ + 1]
FakeOut(c)     == ~c.abort /\ c.fakes > 0

DummyFlushed(c) == IF c.abort THEN c ELSE [c EXCEPT !.dummies = 0]
DummyTakes(c)   == c.dummy /\ ~c.abort /\ c.dummies < FakeFrames
DummyOut(c)     == c.dummy /\ ~c.abort /\ c.dummies > 0

\* The Java codec takes its buffers back; the serial follows in a write of its own.
JavaFlushed(c) == [c EXCEPT !.lent = {}, !.inside = 0]

CodecFlushed(c) ==
    IF c.dummy THEN DummyFlushed(FakeFlushed(c)) ELSE JavaFlushed(FakeFlushed(c))

JavaStopped(c, serial)  == [c EXCEPT !.lent = {}, !.inside = 0, !.serial = serial]

CodecStopped(c, serial) ==
    LET idle == [FakeAborted(c) EXCEPT !.started = FALSE]
    IN  IF c.dummy THEN idle ELSE JavaStopped(idle, serial)

Configured(c) == [c EXCEPT !.valid = TRUE, !.started = TRUE]

\* SDL_AMediaCodec_decreaseReference: the last reference deletes the codec.
Deleted == [NewCodec(TRUE, 0) EXCEPT !.refs = 0]
Unreferenced(cs, n) ==
    CASE n = None -> cs
      [] n # None /\ cs[n].refs = 1 -> [cs EXCEPT ![n] = Deleted]
      [] OTHER -> [cs EXCEPT ![n].refs = @ - 1]
Referenced(cs, n)   == [cs EXCEPT ![n].refs = @ + 1]
-----------------------------------------------------------------------------
(* The vout. *)

ProxyReset(p) == IF p = NoProxy THEN p ELSE Invalid

InvalidateAll ==
    /\ pictures' = [i \in DOMAIN pictures |-> ProxyReset(pictures[i])]
    /\ frame' = ProxyReset(frame)

\* SDL_VoutAndroid_setAMediaCodec, for the codecs cs.
SetCodec(cs, n) ==
    /\ voutCodec' = n
    /\ IF n = voutCodec THEN codecs' = cs /\ UNCHANGED <<pictures, frame>>
       ELSE /\ InvalidateAll
            /\ LET rest == Unreferenced(cs, voutCodec)
               IN  codecs' = IF n = None THEN rest ELSE Referenced(rest, n)

SameSerial(p) == voutCodec # None /\ codecs[voutCodec].serial = p.serial

\* Whether the release of p calls releaseOutputBuffer.
GivesBack(p) == p # NoProxy /\ SameSerial(p) /\ p.index >= 0 /\ ~p.fake

Release(p) ==
    codecs' = IF GivesBack(p) THEN [codecs EXCEPT ![voutCodec].lent = @ \ {p.index}]
              ELSE codecs

Obtained(serial, index, fake) == [serial |-> serial, index |-> index, fake |-> fake]

\* func_display_overlay_l: nothing happens without a window.
DisplayShows ==
    /\ pictures # <<>> /\ window # Nowhere /\ Head(pictures) # NoProxy
    /\ Release(Head(pictures))
    /\ pictures' = <<NoProxy>> \o Tail(pictures)
    /\ UNCHANGED <<serials, acodec, voutCodec, surfaceVars, requests, nodeVars, kept, frame,
                   input, threads, fixed>>

\* The picture leaves the queue, shown or not: overlay_unref.
DisplayDrops ==
    /\ pictures # <<>>
    /\ Release(Head(pictures))
    /\ pictures' = Tail(pictures)
    /\ UNCHANGED <<serials, acodec, voutCodec, surfaceVars, requests, nodeVars, kept, frame,
                   input, threads, fixed>>

Display == ~Dead /\ (DisplayShows \/ DisplayDrops)
-----------------------------------------------------------------------------
(* The application: ijkmp_android_set_surface_l, the seek of the read thread *)
(* and the abort of the packet queue.                                        *)

\* A surface other than the last, or none.  The surface the codec still has may come back.
NextSurfaces == ({Nowhere, jsurface} \cup {left + 2}) \ {surface}

\* SDL_VoutAndroid_SetNativeWindow
SetWindow ==
    /\ app = [pc |-> "idle", surface |-> Nowhere]
    /\ left > 0
    /\ \E s \in NextSurfaces \cup {Nowhere} :
        /\ app' = [pc |-> "window", surface |-> s]
        /\ window' = s
        /\ IF s # window \/ s = Nowhere THEN InvalidateAll ELSE UNCHANGED <<pictures, frame>>
        /\ orphaned' = (orphaned \/ s = surface)
    /\ left' = left - 1
    /\ UNCHANGED <<codecVars, surface, needReconfigure, requests, nodeVars, kept,
                   input, threads, stopping, alone>>

\* ffpipeline_set_surface, under surface_mutex: the vout loses its codec, too.
SetSurface ==
    /\ app.pc = "window"
    /\ app' = [pc |-> "idle", surface |-> Nowhere]
    /\ surface' = app.surface
    /\ IF app.surface = surface THEN UNCHANGED <<codecs, voutCodec, pictures, frame, needReconfigure>>
       ELSE SetCodec(codecs, None) /\ needReconfigure' = TRUE
    /\ UNCHANGED <<serials, acodec, window, requests, nodeVars, kept, input, threads, fixed>>

\* The read thread asks the decoder to flush, and then puts the flush packet.
SeekFlushes ==
    /\ seeker = "idle" /\ left > 0
    /\ flushRequest' = TRUE /\ seeker' = "queues"
    /\ left' = left - 1
    /\ UNCHANGED <<codecVars, surfaceVars, reconfigureRequest, firstRequest, nodeVars, buffers,
                   flushQueued, pending, threads, stopping, alone, orphaned>>

SeekQueues ==
    /\ seeker = "queues"
    /\ flushQueued' = TRUE /\ seeker' = "idle"
    /\ UNCHANGED <<codecVars, surfaceVars, requests, nodeVars, buffers, pending, threads,
                   fixed>>

Stops ==
    /\ ~stopping /\ stopping' = TRUE
    /\ UNCHANGED <<codecVars, surfaceVars, requests, nodeVars, buffers, input, threads, alone,
                   orphaned, left>>

App == ~Dead /\ (SetWindow \/ SetSurface \/ SeekFlushes \/ SeekQueues \/ Stops)
-----------------------------------------------------------------------------
(* The feeding thread: feed_input_buffer, or feed_input_buffer2 when alone. *)

Faulty == left > 0
Faults == left' = left - 1

\* A call of the feeding function ends, without and with an error.
Returns ==
    IF alone THEN At("idle") /\ drain' = "top" ELSE At("top") /\ UNCHANGED drain
Fails ==
    IF alone THEN At("idle") /\ drain' = "top" ELSE At("leave") /\ UNCHANGED drain

FeedStops ==
    /\ feed.pc \in {"top", "get"} /\ stopping
    /\ IF feed.pc = "get" THEN Fails ELSE IF alone THEN Returns ELSE At("leave") /\ UNCHANGED drain
    /\ UNCHANGED <<codecVars, surfaceVars, requests, nodeVars, buffers, input, holder, fixed>>

\* ffp_packet_queue_get_or_buffering; a packet whose side data tells a new size is "resized".
FeedGets ==
    /\ ~stopping
    /\ feed.pc = "get" \/ (feed.pc = "top" /\ (~pending \/ flushQueued))
    /\ \/ /\ flushQueued /\ flushQueued' = FALSE
          /\ feed' = [pc |-> "got", packet |-> "flush"]
          /\ UNCHANGED left
       \/ /\ ~flushQueued /\ left > 0 /\ left' = left - 1
          /\ \E kind \in {"data", "resized"} : feed' = [pc |-> "got", packet |-> kind]
          /\ UNCHANGED flushQueued
    /\ UNCHANGED <<codecVars, surfaceVars, requests, nodeVars, buffers, seeker, pending, drain,
                   holder, stopping, alone, orphaned>>

\* The packet of the last time did not fit in yet.
FeedResumes ==
    /\ feed.pc = "top" /\ ~stopping /\ pending /\ ~flushQueued
    /\ At("surface")
    /\ UNCHANGED <<codecVars, surfaceVars, requests, nodeVars, buffers, input, drain, holder,
                   fixed>>

\* A packet of before the seek, and the flush packet, are passed over.
Keeps ==
    IF feed.packet = "flush" \/ flushQueued
    THEN At("get") /\ UNCHANGED <<pending, needRecreate, needReconfigure>>
    ELSE /\ pending' = TRUE /\ feed' = [pc |-> "surface", packet |-> "none"]
         /\ needRecreate' = (needRecreate \/ feed.packet = "resized")
         /\ needReconfigure' = (needReconfigure \/ feed.packet = "resized")

\* The decoder that is opened to learn the new size may fail, and the packet then stays.
FeedCannotFollow ==
    /\ feed.pc = "got" /\ feed.packet = "resized" /\ ~flushRequest /\ ~flushQueued
    /\ Fails
    /\ pending' = TRUE
    /\ UNCHANGED <<codecVars, surfaceVars, requests, nodeVars, buffers, flushQueued, seeker,
                   holder, fixed>>

FeedKeeps ==
    /\ feed.pc = "got" /\ feed.packet # "flush" /\ ~flushRequest
    /\ Keeps
    /\ UNCHANGED <<codecVars, window, surface, app, requests, jsurface, inputCount,
                   buffers, flushQueued, seeker, drain, holder, fixed>>

\* Mutant: the mutex is asked for without the request.
FeedLocksUnasked ==
    /\ feed.pc = "got" /\ (feed.packet = "flush" \/ flushRequest)
    /\ flushRequest' = flushRequest
    /\ At(IF alone THEN "check" ELSE "lock")
    /\ UNCHANGED <<codecVars, surfaceVars, reconfigureRequest, firstRequest, nodeVars, buffers,
                   input, drain, holder, fixed>>

\* The request is made before the mutex is asked for: the draining thread steps back.
FeedAsksToFlush ==
    /\ feed.pc = "got" /\ (feed.packet = "flush" \/ flushRequest)
    /\ flushRequest' = TRUE
    /\ At(IF alone THEN "check" ELSE "lock")
    /\ UNCHANGED <<codecVars, surfaceVars, reconfigureRequest, firstRequest, nodeVars, buffers,
                   input, drain, holder, fixed>>

FeedLocks ==
    /\ feed.pc \in {"lock", "lockAgain"} /\ holder = "none"
    /\ holder' = "feed"
    /\ At(IF feed.pc = "lock" THEN "check" ELSE "replace")
    /\ UNCHANGED <<codecVars, surfaceVars, requests, nodeVars, buffers, input, drain, fixed>>

\* Mutant: the proxies keep the buffers the flush takes back.
FeedFlushesAtOnce ==
    /\ feed.pc = "check"
    /\ CASE acodec = None -> At("crashed") /\ UNCHANGED <<pictures, frame>>
         [] acodec # None /\ Codec.started /\ inputCount -> At("flush") /\ UNCHANGED <<pictures, frame>>
         [] OTHER -> At("flushed") /\ UNCHANGED <<pictures, frame>>
    /\ UNCHANGED <<codecVars, surfaceVars, requests, nodeVars, kept, input, drain, holder, fixed>>

FeedInvalidates ==
    /\ feed.pc = "check"
    /\ CASE acodec = None -> At("crashed") /\ UNCHANGED <<pictures, frame>>
         [] acodec # None /\ Codec.started /\ inputCount -> At("flush") /\ InvalidateAll
         [] OTHER -> At("flushed") /\ UNCHANGED <<pictures, frame>>
    /\ UNCHANGED <<codecVars, surfaceVars, requests, nodeVars, kept, input, drain, holder, fixed>>

\* SDL_AMediaCodec_flush, but for the new serial
FeedFlushes ==
    /\ feed.pc = "flush"
    /\ codecs' = [codecs EXCEPT ![acodec] = CodecFlushed(@)]
    /\ inputCount' = FALSE
    /\ At("renew")
    /\ UNCHANGED <<serials, acodec, voutCodec, surfaceVars, requests, jsurface, needRecreate,
                   buffers, input, drain, holder, fixed>>

FeedRenews ==
    /\ feed.pc = "renew"
    /\ IF Codec.dummy THEN UNCHANGED <<codecs, serials>>
       ELSE /\ serials' = serials + 1
            /\ codecs' = [codecs EXCEPT ![acodec].serial = serials + 1]
    /\ At("flushed")
    /\ UNCHANGED <<acodec, voutCodec, surfaceVars, requests, nodeVars, buffers, input, drain,
                   holder, fixed>>

Wakes == drain' = IF drain = "waits" THEN "woken" ELSE drain

FeedFlushed ==
    /\ feed.pc = "flushed"
    /\ flushRequest' = FALSE /\ holder' = "none" /\ Wakes
    /\ Keeps
    /\ UNCHANGED <<codecVars, window, surface, app, reconfigureRequest, firstRequest,
                   jsurface, inputCount, buffers, flushQueued, seeker, fixed>>

\* Has the surface or the format changed?  The flag is cleared and the surface read under
\* surface_mutex, and the reconfiguration is requested before acodec_mutex is asked for.
FeedReuses ==
    /\ feed.pc = "surface"
    /\ \/ ~needReconfigure
       \/ ~needRecreate /\ surface = jsurface
    /\ needReconfigure' = FALSE
    /\ orphaned' = (orphaned \/ (needReconfigure /\ voutCodec # acodec))
    /\ At("input")
    /\ UNCHANGED <<codecVars, window, surface, app, requests, nodeVars, buffers,
                   input, drain, holder, stopping, alone, left>>

FeedReconfigures ==
    /\ feed.pc = "surface" /\ needReconfigure
    /\ needRecreate \/ surface # jsurface
    /\ needReconfigure' = FALSE
    /\ IF alone /\ stopping THEN Returns /\ UNCHANGED <<reconfigureRequest, needRecreate, jsurface>>
       ELSE /\ At(IF alone THEN "replace" ELSE "lockAgain") /\ UNCHANGED drain
            /\ needRecreate' = FALSE /\ reconfigureRequest' = ~alone /\ jsurface' = surface
    /\ UNCHANGED <<codecVars, window, surface, app, flushRequest, firstRequest,
                   inputCount, buffers, input, holder, fixed>>

\* recreate_format_l fails
FeedCannotRecreate ==
    /\ feed.pc = "surface" /\ needReconfigure /\ needRecreate
    /\ ~(alone /\ stopping) /\ Faulty /\ Faults
    /\ needReconfigure' = FALSE
    /\ orphaned' = (orphaned \/ voutCodec # acodec)
    /\ Fails
    /\ UNCHANGED <<codecVars, window, surface, app, requests, nodeVars, buffers,
                   input, holder, stopping, alone>>

\* reconfigure_codec_l: a codec that runs is stopped once no proxy names its buffers ...
FeedRetires ==
    /\ feed.pc = "replace"
    /\ At(IF acodec = None THEN "create" ELSE "stop")
    /\ IF acodec # None /\ Codec.started THEN InvalidateAll ELSE UNCHANGED <<pictures, frame>>
    /\ UNCHANGED <<codecVars, surfaceVars, requests, nodeVars, kept, input, drain, holder, fixed>>

\* ... and let go
FeedStopsCodec ==
    /\ feed.pc = "stop"
    /\ LET renewed == Codec.started /\ ~Codec.dummy
       IN  /\ serials' = IF renewed THEN serials + 1 ELSE serials
           /\ codecs' = Unreferenced(IF Codec.started
                                     THEN [codecs EXCEPT ![acodec] = CodecStopped(@, serials + 1)]
                                     ELSE codecs, acodec)
    /\ acodec' = None
    /\ At("unhook")
    /\ UNCHANGED <<voutCodec, surfaceVars, requests, nodeVars, buffers, input, drain, holder,
                   fixed>>

FeedUnhooks ==
    /\ feed.pc = "unhook"
    /\ SetCodec(codecs, None)
    /\ At("create")
    /\ UNCHANGED <<serials, acodec, surfaceVars, requests, nodeVars, kept, input, drain, holder,
                   fixed>>

\* The end of the section: the draining thread may go on.
Unlocks ==
    IF alone THEN UNCHANGED <<reconfigureRequest, holder, drain>>
    ELSE reconfigureRequest' = FALSE /\ holder' = "none" /\ Wakes

\* create_codec_l: without a surface a dummy does.
FeedCreates ==
    /\ feed.pc = "create"
    /\ serials' = IF jsurface = Nowhere THEN serials ELSE serials + 1
    /\ codecs' = Append(codecs, NewCodec(jsurface = Nowhere,
                                         IF jsurface = Nowhere THEN 0 ELSE serials + 1))
    /\ acodec' = Len(codecs) + 1
    /\ At("configure")
    /\ UNCHANGED <<voutCodec, surfaceVars, requests, nodeVars, buffers, input, drain, holder,
                   fixed>>

\* The codec cannot be created, configured or started: the function returns no error.
FeedCannotConfigure ==
    /\ \/ feed.pc = "create" /\ jsurface # Nowhere
       \/ feed.pc = "configure" /\ ~Codec.dummy
    /\ Faulty /\ Faults
    /\ IF alone THEN Returns ELSE At("top") /\ Wakes
    /\ reconfigureRequest' = FALSE /\ holder' = "none"
    /\ UNCHANGED <<codecVars, surfaceVars, flushRequest, firstRequest, nodeVars, buffers, input,
                   stopping, alone, orphaned>>

FeedConfigures ==
    /\ feed.pc = "configure"
    /\ firstRequest' = TRUE
    /\ SetCodec([codecs EXCEPT ![acodec] = Configured(@)], acodec)
    /\ At("await")
    /\ Unlocks
    /\ UNCHANGED <<serials, acodec, surfaceVars, flushRequest, nodeVars, kept, input, fixed>>

\* Mutant: only the first dequeue ends the wait.
FeedAwaitsTheFirst ==
    /\ feed.pc = "await"
    /\ alone \/ ~firstRequest
    /\ IF stopping \/ flushRequest THEN Returns ELSE At("input") /\ UNCHANGED drain
    /\ UNCHANGED <<codecVars, surfaceVars, requests, nodeVars, buffers, input, holder, fixed>>

\* The wait is timed: the conditions are polled.  Alone there is nobody to wait for.
FeedAwaits ==
    /\ feed.pc = "await"
    /\ alone \/ stopping \/ flushRequest \/ ~firstRequest
    /\ IF stopping \/ flushRequest THEN Returns ELSE At("input") /\ UNCHANGED drain
    /\ UNCHANGED <<codecVars, surfaceVars, requests, nodeVars, buffers, input, holder, fixed>>

\* The packet, or as much of it as fits, goes in; the fake frames are forgotten.
Entered(c) == IF c.dummy THEN [FakeFlushed(c) EXCEPT !.dummies = @ + 1]
              ELSE [FakeFlushed(c) EXCEPT !.inside = @ + 1]

Usable == acodec # None /\ feed.pc = "input"

FeedEnters ==
    /\ Usable
    /\ \/ DummyTakes(Codec)
       \/ ~Codec.dummy /\ Codec.started
    /\ codecs' = [codecs EXCEPT ![acodec] = Entered(@)]
    /\ inputCount' = TRUE
    /\ pending' = FALSE
    /\ Returns
    /\ UNCHANGED <<serials, acodec, voutCodec, surfaceVars, requests, jsurface, needRecreate,
                   buffers, flushQueued, seeker, holder, fixed>>

\* No input buffer within the time: the packet stays pending.
FeedTimesOut ==
    /\ Usable /\ (Codec.dummy \/ (Codec.started /\ Codec.valid))
    /\ Returns
    /\ UNCHANGED <<codecVars, surfaceVars, requests, nodeVars, buffers, input, holder, fixed>>

\* The codec throws, as one that was not started always does, or it threw before: a fake frame
\* stands for the packet, as long as there is room for one.
FeedFakes ==
    /\ Usable /\ ~Codec.dummy
    /\ IF Codec.started /\ Codec.valid THEN Faulty /\ Faults ELSE UNCHANGED left
    /\ LET thrown == [Codec EXCEPT !.valid = FALSE]
       IN  IF CanFake(thrown)
           THEN /\ codecs' = [codecs EXCEPT ![acodec] = FakeQueued(thrown)]
                /\ inputCount' = TRUE /\ pending' = FALSE
                /\ Returns
           ELSE /\ codecs' = [codecs EXCEPT ![acodec] = thrown]
                /\ UNCHANGED <<inputCount, pending>>
                /\ Fails
    /\ UNCHANGED <<serials, acodec, voutCodec, surfaceVars, requests, jsurface, needRecreate,
                   buffers, flushQueued, seeker, holder, stopping, alone, orphaned>>

\* The buffer cannot be written or queued.
FeedCannotEnter ==
    /\ Usable /\ ~Codec.dummy /\ Codec.started /\ Faulty /\ Faults
    /\ codecs' = [codecs EXCEPT ![acodec] = FakeFlushed(@)]
    /\ Fails
    /\ UNCHANGED <<serials, acodec, voutCodec, surfaceVars, requests, nodeVars, buffers, input,
                   holder, stopping, alone, orphaned>>

\* opaque->acodec is NULL after a codec that could not be created.
FeedCrashes ==
    /\ acodec = None /\ feed.pc \in {"input", "leave"}
    /\ At("crashed")
    /\ UNCHANGED <<codecVars, surfaceVars, requests, nodeVars, buffers, input, drain, holder,
                   fixed>>

FeedLeaves ==
    /\ feed.pc = "leave" /\ acodec # None
    /\ codecs' = [codecs EXCEPT ![acodec] = FakeAborted(@)]
    /\ At("gone")
    /\ UNCHANGED <<serials, acodec, voutCodec, surfaceVars, requests, nodeVars, buffers, input,
                   drain, holder, fixed>>

FeedInput ==
    \/ FeedEnters
    \/ FeedTimesOut
    \/ FeedFakes
    \/ FeedCannotEnter
    \/ FeedCrashes
    \/ FeedLeaves

FeedPacket ==
    \/ FeedStops
    \/ FeedGets
    \/ FeedResumes
    \/ FeedKeeps
    \/ FeedCannotFollow
    \/ FeedAsksToFlush
    \/ FeedLocks
    \/ FeedInvalidates
    \/ FeedFlushes
    \/ FeedRenews
    \/ FeedFlushed

FeedSurface ==
    \/ FeedReuses
    \/ FeedReconfigures
    \/ FeedCannotRecreate
    \/ FeedRetires
    \/ FeedStopsCodec
    \/ FeedUnhooks
    \/ FeedCreates
    \/ FeedCannotConfigure
    \/ FeedConfigures
    \/ FeedAwaits

Feed == ~Dead /\ (FeedPacket \/ FeedSurface \/ FeedInput)
-----------------------------------------------------------------------------
(* The draining thread: func_run_sync and drain_output_buffer_l, or         *)
(* func_run_sync_loop and drain_output_buffer2_l when alone.                *)

DrainLocks ==
    /\ drain = "top" /\ ~alone /\ ~stopping /\ holder = "none"
    /\ IF flushRequest \/ reconfigureRequest
       THEN drain' = "waits" /\ UNCHANGED holder
       ELSE drain' = "dequeue" /\ holder' = "drain"
    /\ UNCHANGED <<codecVars, surfaceVars, requests, nodeVars, buffers, feed, input, fixed>>

\* Signalled, or after 100 ms: long enough for a thread that is about to lock a free mutex.
DrainWakes ==
    /\ holder = "none"
    /\ drain = "woken" \/ (drain = "waits" /\ feed.pc \notin {"lock", "lockAgain"})
    /\ drain' = "dequeue" /\ holder' = "drain"
    /\ UNCHANGED <<codecVars, surfaceVars, requests, nodeVars, buffers, feed, input, fixed>>

LoopStarts ==
    /\ drain = "top" /\ alone /\ ~stopping
    /\ drain' = "dequeue"
    /\ UNCHANGED <<codecVars, surfaceVars, requests, nodeVars, buffers, feed, input, holder, fixed>>

\* SDL_AMediaCodecFake_dequeueOutputBuffer: a fake frame if there is one, or what the codec has,
\* in the lowest of its free buffers.
Out ==
    CASE FakeOut(Codec) -> {[index |-> 0, fake |-> TRUE]}
      [] ~FakeOut(Codec) /\ DummyOut(Codec) -> {[index |-> 0, fake |-> TRUE]}
      [] ~FakeOut(Codec) /\ Codec.started /\ Codec.inside > 0 ->
            {[index |-> i, fake |-> FALSE] : i \in
                {i \in Outputs \ Codec.lent : \A j \in Outputs \ Codec.lent : i <= j}}
      [] OTHER -> {}

Taken(c, out) ==
    CASE out.fake /\ FakeOut(c) -> [c EXCEPT !.fakes = @ - 1]
      [] out.fake /\ ~FakeOut(c) -> [c EXCEPT !.dummies = @ - 1]
      [] ~out.fake -> [c EXCEPT !.lent = @ \cup {out.index}, !.inside = @ - 1]

\* The new buffer, or the one kept back in its place, becomes the frame: amc_buf_out.  One that
\* belongs nowhere in the order goes straight back.
Ordered(out) ==
    LET new  == Obtained(Codec.serial, out.index, out.fake)
        took == [codecs EXCEPT ![acodec] = Taken(@, out)]
    IN  \/ /\ Len(kept) < KeptBack
           /\ kept' = Append(kept, new) /\ codecs' = took
           /\ UNCHANGED frame
        \/ /\ Len(kept) = KeptBack
           /\ frame' = new /\ codecs' = took
           /\ UNCHANGED kept
        \/ /\ KeptBack > 0 /\ Len(kept) = KeptBack
           /\ frame' = Head(kept) /\ kept' = <<new>> /\ codecs' = took
        \/ /\ KeptBack > 0 /\ Len(kept) = KeptBack
           /\ codecs' = IF out.fake THEN took
                        ELSE [took EXCEPT ![acodec].lent = @ \ {out.index}]
           /\ UNCHANGED <<kept, frame>>

Dequeues ==
    /\ drain = "dequeue" /\ acodec # None
    /\ drain' = "drained"
    /\ \/ \E out \in Out : Ordered(out)
       \/ ~FakeOut(Codec) /\ UNCHANGED <<codecs, kept, frame>>
    /\ UNCHANGED <<serials, acodec, voutCodec, surfaceVars, requests, nodeVars, pictures, input,
                   feed, fixed>>

DrainDequeues == ~alone /\ Dequeues /\ holder' = "none"
LoopDequeues  == alone /\ Dequeues /\ UNCHANGED holder

DrainCrashes ==
    /\ acodec = None /\ drain \in {"dequeue", "ending"}
    /\ drain' = "crashed"
    /\ UNCHANGED <<codecVars, surfaceVars, requests, nodeVars, buffers, input, feed, holder, fixed>>

\* The first dequeue is over, whichever codec it was of.
DrainGoesOn ==
    /\ drain = "drained" /\ ~alone
    /\ firstRequest' = FALSE
    /\ drain' = CASE stopping -> "join"
                  [] ~stopping /\ frame # NoProxy -> "picture"
                  [] OTHER -> "top"
    /\ IF stopping THEN Release(frame) /\ frame' = NoProxy ELSE UNCHANGED <<codecs, frame>>
    /\ UNCHANGED <<serials, acodec, voutCodec, surfaceVars, flushRequest, reconfigureRequest,
                   nodeVars, kept, pictures, input, feed, holder, fixed>>

LoopGoesOn ==
    /\ drain = "drained" /\ alone
    /\ CASE stopping -> drain' = "feeds" /\ At("top")
         [] ~stopping /\ frame # NoProxy -> drain' = "picture" /\ UNCHANGED feed
         [] OTHER -> drain' = "feeds" /\ At("top")
    /\ IF stopping THEN Release(frame) /\ frame' = NoProxy ELSE UNCHANGED <<codecs, frame>>
    /\ UNCHANGED <<serials, acodec, voutCodec, surfaceVars, requests, nodeVars, kept, pictures,
                   input, holder, fixed>>

After == IF alone THEN drain' = "feeds" /\ At("top") ELSE drain' = "top" /\ UNCHANGED feed

\* The frame is late, or the picture queue was aborted.
DrainDrops ==
    /\ drain = "picture"
    /\ Release(frame) /\ frame' = NoProxy
    /\ After
    /\ UNCHANGED <<serials, acodec, voutCodec, surfaceVars, requests, nodeVars, kept, pictures,
                   input, holder, fixed>>

DrainQueues ==
    /\ drain = "picture" /\ ~stopping /\ Len(pictures) < Pictures
    /\ pictures' = Append(pictures, frame) /\ frame' = NoProxy
    /\ After
    /\ UNCHANGED <<codecVars, surfaceVars, requests, nodeVars, kept, input, holder, fixed>>

DrainStops ==
    /\ drain = "top" /\ stopping
    /\ drain' = IF alone THEN "ending" ELSE "join"
    /\ UNCHANGED <<codecVars, surfaceVars, requests, nodeVars, buffers, feed, input, holder, fixed>>

DrainJoins ==
    /\ drain = "join" /\ feed.pc = "gone"
    /\ drain' = "ending"
    /\ UNCHANGED <<codecVars, surfaceVars, requests, nodeVars, buffers, feed, input, holder, fixed>>

\* opaque->abort: the feeding thread leaves although packets would still come.
DrainEnds ==
    /\ drain = "ending" /\ acodec # None
    /\ InvalidateAll /\ kept' = <<>>
    /\ drain' = "stop"
    /\ UNCHANGED <<codecVars, surfaceVars, requests, nodeVars, feed, input, holder, fixed>>

DrainStopsCodec ==
    /\ drain = "stop"
    /\ serials' = IF Codec.dummy THEN serials ELSE serials + 1
    /\ codecs' = Unreferenced([codecs EXCEPT ![acodec] = CodecStopped(@, serials + 1)], acodec)
    /\ acodec' = None
    /\ drain' = "gone"
    /\ UNCHANGED <<voutCodec, surfaceVars, requests, nodeVars, buffers, feed, input, holder, fixed>>

DrainOne ==
    \/ DrainLocks
    \/ DrainWakes
    \/ LoopStarts
    \/ DrainDequeues
    \/ LoopDequeues
    \/ DrainCrashes
    \/ DrainGoesOn
    \/ LoopGoesOn

DrainTwo ==
    \/ DrainDrops
    \/ DrainQueues
    \/ DrainStops
    \/ DrainJoins
    \/ DrainEnds
    \/ DrainStopsCodec

Drain == ~Dead /\ (DrainOne \/ DrainTwo)
-----------------------------------------------------------------------------

\* The codec of a node that is opened with its stream: without a surface a dummy ...
Opened == NewCodec(surface = Nowhere, IF surface = Nowhere THEN 0 ELSE 1)

\* ... and of one that was set up ahead of the stream: the real one, surface or not.
OpenedAhead == NewCodec(FALSE, 1)

HwInit ==
    /\ surface \in {Nowhere, 1} /\ window = surface /\ jsurface = surface
    /\ \E c \in {Opened, OpenedAhead} : codecs = Referenced(<<Configured(c)>>, 1)
    /\ serials = 1
    /\ acodec = 1 /\ voutCodec = 1
    /\ needReconfigure = FALSE
    /\ flushRequest = FALSE /\ reconfigureRequest = FALSE /\ firstRequest = TRUE
    /\ needRecreate = FALSE /\ inputCount = FALSE
    /\ kept = <<>> /\ frame = NoProxy /\ pictures = <<>>
    /\ holder = "none" /\ alone \in Alone
    /\ feed = [NewPacket EXCEPT !.pc = IF alone THEN "idle" ELSE "top"]
    /\ drain = "top"
    /\ pending = FALSE /\ flushQueued = FALSE
    /\ stopping = FALSE /\ seeker = "idle"
    /\ app = [pc |-> "idle", surface |-> Nowhere]
    /\ orphaned = FALSE
    /\ left = MaxEvents

HwNext == Feed \/ Drain \/ Display \/ App
-----------------------------------------------------------------------------
(* Properties *)

Proxies == pictures \o <<frame>>
AllHeld == Proxies \o kept

\* A buffer is given back only to the codec that lent it, and only while that codec counts it
\* as lent: no proxy survives a flush or a stop with a serial that still matches, no two
\* proxies stand for one buffer, and the codec behind them has not been deleted.
OwnBuffersOnly ==
    \A i \in DOMAIN Proxies : GivesBack(AllHeld[i]) =>
        /\ AllHeld[i].index \in codecs[voutCodec].lent
        /\ codecs[voutCodec].refs > 0
        /\ \A j \in DOMAIN AllHeld :
              GivesBack(AllHeld[j]) /\ AllHeld[j].index = AllHeld[i].index => i = j

\* Every buffer the codec has lent is in somebody's hands, so that it comes back and the codec
\* does not run dry: only while a new surface, a flush or the end is about to take all buffers
\* back may one be lost (or when the vout lost its codec for a surface that came back).
BuffersHeld ==
    \/ acodec = None \/ stopping \/ orphaned \/ needReconfigure \/ app.pc # "idle"
    \/ feed.pc \in {"flush", "lockAgain", "replace", "stop"}
    \/ \A i \in Codec.lent :
          \E k \in DOMAIN AllHeld : AllHeld[k] = Obtained(Codec.serial, i, FALSE)

\* The codec's buffers are used by the one who holds them, and none is lost.
BuffersAccounted == OwnBuffersOnly /\ BuffersHeld

\* The feeding thread gets acodec_mutex for a flush or a reconfiguration, although the draining
\* thread holds it nearly all the time and takes it again as soon as it has let it go.
FeedGetsCodec == []<>(feed.pc \notin {"lock", "lockAgain"} \/ Dead)

\* Once the packet queue is aborted both threads come to their end and the codec is stopped,
\* wherever a flush, a new surface or a codec that fails has left them.
DecoderEnds == []<>(stopping => drain = "gone" \/ Dead)

HwFairness == WF_hwVars(Feed) /\ WF_hwVars(Drain)

HwSpec == HwInit /\ [][HwNext]_hwVars /\ HwFairness
=============================================================================
