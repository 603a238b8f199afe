----------------------------- MODULE PlayerLife -----------------------------
(***************************************************************************)
(* Who keeps a player alive, and for how long: ijkplayer_jni.c (the native *)
(* methods and the message loop), ijkplayer.c (creation, preparation, stop,*)
(* shutdown, reference count) and ff_ffplay.c (opening and closing of the  *)
(* stream and of its components).                                          *)
(*                                                                         *)
(* A Java object has a field with a native player.  A native method takes  *)
(* a reference to it, does its work and gives the reference back; the      *)
(* message loop, a thread started by the preparation, holds another.  The  *)
(* Java object is called by one thread at a time, as its documentation     *)
(* asks; everything below it runs concurrently.  A reset puts a new player *)
(* in the place of the old one, whose loop may still be running.           *)
(***************************************************************************)
EXTENDS Naturals, Sequences

CONSTANTS
    LifePlayers,        \* players one Java object may go through
    LifeSessions,       \* preparations, over all its players
    LifeCalls,          \* calls of the application
    AutoStart,          \* start_on_prepared
    PrepareAgain,       \* the application may prepare a stopped player again
    LifeThreadsMayFail      \* pthread_create may fail, once

LifeAssumption ==
    /\ {LifePlayers, LifeSessions} \subseteq Nat \ {0} /\ LifeCalls \in Nat
    /\ {AutoStart, PrepareAgain, LifeThreadsMayFail} \subseteq BOOLEAN

ASSUME LifeAssumption

Media == {"audio", "video"}
Objects == 1 .. LifePlayers
Sessions == 1 .. LifeSessions

VARIABLES
    field,      \* mNativeMediaPlayer of the Java object: a player, or 0
    mp,         \* mp[p]: the native player p
    cookies,    \* the players whose weak reference to the Java object exists
    strm,       \* strm[s]: the stream opened by preparation s
    loop,       \* loop[s]: the message loop started by preparation s
    todo,       \* what the call of the application still has to do
    lifeCalls,  \* calls made so far
    broken      \* a thread could not be started; "crashed" if that brought everything down

lifeVars == <<field, mp, cookies, strm, loop, todo, lifeCalls, broken>>

NoPlayer ==
    [made |-> FALSE, refs |-> 0, freed |-> FALSE, state |-> "idle", lock |-> 0,
     cookie |-> FALSE, is |-> 0, aborted |-> TRUE, msgs |-> <<>>, last |-> 0]

\* ijkmp_android_create and IjkMediaPlayer_native_setup: one reference for the
\* creator, which it gives back, one for the field; the queue is not started.
NewPlayer == [NoPlayer EXCEPT !.made = TRUE, !.refs = 1, !.cookie = TRUE]

NoStream ==
    [open |-> FALSE, freed |-> FALSE, abort |-> FALSE, go |-> FALSE, prepared |-> FALSE,
     read |-> "none", refresh |-> "none", dec |-> [k \in Media |-> "none"]]

NoLoop == [pc |-> "none", mp |-> 0, msg |-> "none", late |-> 0]

LifeInit ==
    /\ field = 1
    /\ mp = [p \in Objects |-> IF p = 1 THEN NewPlayer ELSE NoPlayer]
    /\ cookies = {1}
    /\ strm = [s \in Sessions |-> NoStream]
    /\ loop = [s \in Sessions |-> NoLoop]
    /\ todo = <<>> /\ lifeCalls = 0 /\ broken = "no"

Running == broken # "crashed"
Used == {s \in Sessions : loop[s].pc # "none"}

\* A message into the queue of player p, which takes none once it is aborted;
\* "flush" stands for the messages that are passed on to Java as they are.
Post(p, what) == [p EXCEPT !.msgs = IF p.aborted THEN @ ELSE Append(@, what)]

(***************************************************************************)
(* The application                                                         *)
(***************************************************************************)
\* A call is a list of instructions; the mutex is held within one, and from
\* "prepare" to "open", from "deselect" to "deselected".
Release == <<"surface", "shutdown", "cookie", "field", "put">>

Body(op) ==
    CASE op = "release" -> Release
      [] op = "reset" -> <<"unhook", "get">> \o Release \o <<"setup", "put">>
      [] op = "prepare" -> <<"prepare", "open", "put">>
      [] op = "deselect" -> <<"deselect", "deselected", "put">>
      [] OTHER -> <<op, "put">>

Operations == {"source", "prepare", "request", "stop", "ask", "deselect", "select", "release", "reset"}

\* jni_get_media_player: the field is read and the reference taken under the
\* mutex of the class.  Without a player the methods throw or return.
Call ==
    /\ Running /\ todo = <<>> /\ lifeCalls < LifeCalls /\ field # 0
    /\ lifeCalls' = lifeCalls + 1
    /\ \E op \in Operations :
          /\ op = "reset" => \E p \in Objects : ~ mp[p].made
          /\ op = "prepare" => Used # Sessions /\ (PrepareAgain \/ mp[field].state # "stopped")
          /\ op \in {"select", "deselect"} => mp[field].state = "prepared"
          /\ todo' = [i \in 1 .. Len(Body(op)) |-> <<Body(op)[i], field>>]
    /\ mp' = [mp EXCEPT ![field].refs = @ + 1]
    /\ UNCHANGED <<field, cookies, strm, loop, broken>>

\* The instruction is name, for player p.
Now(name, p) == Running /\ todo # <<>> /\ Head(todo) = <<name, p>>
Done == todo' = Tail(todo)
Unlocked(p) == mp[p].lock = 0

Get(p) ==
    /\ Now("get", p) /\ Done
    /\ mp' = [mp EXCEPT ![p].refs = @ + 1]
    /\ UNCHANGED <<field, cookies, strm, loop, lifeCalls, broken>>

SetDataSource(p) ==
    /\ Now("source", p) /\ Unlocked(p) /\ Done
    /\ mp' = [mp EXCEPT ![p].state = IF @ = "idle" THEN "initialized" ELSE @]
    /\ UNCHANGED <<field, cookies, strm, loop, lifeCalls, broken>>

\* start, pause and seek_to leave a request for the message loop.
Request(p) ==
    /\ Now("request", p) /\ Unlocked(p) /\ Done
    /\ mp' = [mp EXCEPT ![p] = IF @.state = "prepared" THEN Post(@, "request") ELSE @]
    /\ UNCHANGED <<field, cookies, strm, loop, lifeCalls, broken>>

\* The getters and setters take the mutex and read the stream, if there is one.
Ask(p) ==
    /\ Now("ask", p) /\ Unlocked(p) /\ Done
    /\ UNCHANGED <<field, mp, cookies, strm, loop, lifeCalls, broken>>

\* ijkmp_android_set_surface(NULL), before a release.
Surface(p) ==
    /\ Now("surface", p) /\ Unlocked(p) /\ Done
    /\ UNCHANGED <<field, mp, cookies, strm, loop, lifeCalls, broken>>

\* ffp_stop_l: the stream is told, the queue is aborted.
StopStream(s) == IF s = 0 THEN strm ELSE [strm EXCEPT ![s].abort = TRUE]

Aborted(p) == [mp EXCEPT ![p].aborted = TRUE]

Stop(p) ==
    /\ Now("stop", p) /\ Unlocked(p) /\ Done
    /\ IF mp[p].state \in {"idle", "initialized", "error"}
       THEN UNCHANGED <<mp, strm>>
       ELSE /\ strm' = StopStream(mp[p].is)
            /\ mp' = [Aborted(p) EXCEPT ![p].state = "stopped"]
    /\ UNCHANGED <<field, cookies, loop, lifeCalls, broken>>

\* Mutant of Preparing: the loop runs without a reference of its own.
PreparingUncounted(m, s) ==
    Post([m EXCEPT !.state = "preparing", !.aborted = FALSE, !.lock = 1, !.last = s], "flush")

\* Player m while it is prepared, s its new message loop: msg_queue_start, and
\* the reference of the loop.
Preparing(m, s) ==
    Post([m EXCEPT !.state = "preparing", !.aborted = FALSE, !.refs = @ + 1,
                   !.lock = 1, !.last = s], "flush")

\* ijkmp_prepare_async_l up to ffp_prepare_async_l.  The reference of the
\* message loop is taken first, and lost when the thread cannot be started.
Prepare(p) ==
    /\ Now("prepare", p) /\ Unlocked(p)
    /\ IF mp[p].state \notin {"initialized", "stopped"}
       THEN /\ todo' = Tail(Tail(todo))
            /\ UNCHANGED <<mp, loop, broken>>
       ELSE \E s \in Sessions \ Used, ok \in BOOLEAN :
            /\ \A r \in Sessions : r < s => r \in Used
            /\ ok \/ (LifeThreadsMayFail /\ broken = "no")
            /\ Done
            /\ mp' = [mp EXCEPT ![p] = Preparing(@, IF ok THEN s ELSE 0)]
            /\ loop' = [loop EXCEPT ![s] = [NoLoop EXCEPT !.pc = IF ok THEN "begin" ELSE "failed", !.mp = p]]
            /\ broken' = IF ok THEN broken ELSE "loop"
    /\ UNCHANGED <<field, cookies, strm, lifeCalls>>

\* ffp_prepare_async_l and stream_open: the audio output, the stream with its
\* two threads.  A refresh thread that cannot be started leaves the stream
\* behind; when read_thread cannot be started, stream_close finds the stream
\* numbers at 0 and no input.
Opening(p) == CHOOSE s \in Used : loop[s].mp = p /\ \A r \in Used : r <= s

Open(p) ==
    LET s == Opening(p)
        refused == [mp EXCEPT ![p].state = "error", ![p].lock = 0] IN
    /\ Now("open", p) /\ Done
    /\ \/ /\ strm' = [strm EXCEPT ![s] = [NoStream EXCEPT !.open = TRUE, !.go = AutoStart,
                                                        !.read = "open", !.refresh = "run"]]
          /\ mp' = [mp EXCEPT ![p].is = s, ![p].lock = 0]
          /\ UNCHANGED broken
       \/ /\ mp' = refused                          \* no audio output
          /\ UNCHANGED <<strm, broken>>
       \/ /\ LifeThreadsMayFail /\ broken = "no"
          /\ mp' = [refused EXCEPT ![p].is = 0]
          /\ broken' \in {"refresh", "crashed"}
          /\ UNCHANGED strm
    /\ UNCHANGED <<field, cookies, loop, lifeCalls>>

\* ffp_set_stream_selected under the mutex: a component is closed, its decoder
\* joined; or one that is closed is opened (to change to another stream of the
\* same kind is the one after the other).
Deselect(p) ==
    LET s == mp[p].is IN
    /\ Now("deselect", p) /\ Unlocked(p)
    /\ IF s = 0 \/ \A k \in Media : strm[s].dec[k] = "none"
       THEN todo' = Tail(Tail(todo)) /\ UNCHANGED <<mp, strm>>
       ELSE /\ Done
            /\ mp' = [mp EXCEPT ![p].lock = 1]
            /\ \E k \in Media :
                  /\ strm[s].dec[k] # "none"
                  /\ strm' = [strm EXCEPT ![s].dec[k] = IF @ = "run" THEN "told" ELSE @]
    /\ UNCHANGED <<field, cookies, loop, lifeCalls, broken>>

Deselected(p) ==
    LET s == mp[p].is IN
    /\ Now("deselected", p) /\ Done
    /\ \E k \in Media :
          /\ strm[s].dec[k] = "ended"
          /\ strm' = [strm EXCEPT ![s].dec[k] = "none"]
    /\ mp' = [mp EXCEPT ![p].lock = 0]
    /\ UNCHANGED <<field, cookies, loop, lifeCalls, broken>>

Select(p) ==
    LET s == mp[p].is IN
    /\ Now("select", p) /\ Unlocked(p) /\ Done
    /\ IF s = 0 THEN UNCHANGED strm
       ELSE \E k \in Media, opens \in BOOLEAN :
            strm' = [strm EXCEPT ![s].dec[k] = IF @ = "none" /\ opens THEN "run" ELSE @]
    /\ UNCHANGED <<field, mp, cookies, loop, lifeCalls, broken>>

\* IjkMediaPlayer_release.  The stream is closed without the mutex.
Shutdown(p) ==
    /\ Now("shutdown", p)
    /\ strm' = StopStream(mp[p].is)
    /\ mp' = Aborted(p)
    /\ todo' = IF mp[p].is = 0 THEN Tail(todo)
               ELSE [i \in 1 .. 5 |-> <<<<"tell", "join", "components", "refresh", "free">>[i], p>>]
                    \o Tail(todo)
    /\ UNCHANGED <<field, cookies, loop, lifeCalls, broken>>

\* packet_queue_abort; a decoder that is started later is not reached by it.
Told(d) == [k \in Media |-> IF d[k] = "run" THEN "told" ELSE d[k]]

TellDecoders(p) ==
    /\ Now("tell", p) /\ Done
    /\ strm' = [strm EXCEPT ![mp[p].is].dec = Told(@)]
    /\ UNCHANGED <<field, mp, cookies, loop, lifeCalls, broken>>

JoinRead(p) ==
    /\ Now("join", p) /\ strm[mp[p].is].read = "ended" /\ Done
    /\ UNCHANGED <<field, mp, cookies, strm, loop, lifeCalls, broken>>

\* stream_component_close tells every decoder that is there, and joins it.
CloseComponents(p) ==
    LET dec == strm[mp[p].is].dec IN
    /\ Now("components", p)
    /\ IF \E k \in Media : dec[k] = "run"
       THEN /\ strm' = [strm EXCEPT ![mp[p].is].dec = Told(@)]
            /\ UNCHANGED todo
       ELSE /\ \A k \in Media : dec[k] # "told"
            /\ Done /\ UNCHANGED strm
    /\ UNCHANGED <<field, mp, cookies, loop, lifeCalls, broken>>

JoinRefresh(p) ==
    /\ Now("refresh", p) /\ strm[mp[p].is].refresh = "ended" /\ Done
    /\ UNCHANGED <<field, mp, cookies, strm, loop, lifeCalls, broken>>

FreeStream(p) ==
    /\ Now("free", p) /\ Done
    /\ strm' = [strm EXCEPT ![mp[p].is].freed = TRUE]
    /\ mp' = [mp EXCEPT ![p].is = 0]
    /\ UNCHANGED <<field, cookies, loop, lifeCalls, broken>>

\* The weak reference is taken out of the player, and then deleted.
TakeCookie(p) ==
    /\ Now("cookie", p)
    /\ mp' = [mp EXCEPT ![p].cookie = FALSE]
    /\ todo' = IF mp[p].cookie THEN <<<<"delete", p>>>> \o Tail(todo) ELSE Tail(todo)
    /\ UNCHANGED <<field, cookies, strm, loop, lifeCalls, broken>>

DeleteCookie(p) ==
    /\ Now("delete", p) /\ Done
    /\ cookies' = cookies \ {p}
    /\ UNCHANGED <<field, mp, strm, loop, lifeCalls, broken>>

\* Mutant of ClearField: the reference of the field is forgotten.
ClearFieldOnly(p) ==
    /\ Now("field", p) /\ Done
    /\ field' = 0
    /\ UNCHANGED <<mp, cookies, strm, loop, lifeCalls, broken>>

\* jni_set_media_player(NULL).  The call still holds a reference of its own.
ClearField(p) ==
    /\ Now("field", p) /\ Done
    /\ field' = 0
    /\ mp' = IF field = 0 THEN mp ELSE [mp EXCEPT ![field].refs = @ - 1]
    /\ UNCHANGED <<cookies, strm, loop, lifeCalls, broken>>

\* IjkMediaPlayer_reset takes the weak reference out without deleting it: the
\* new player gets a copy of it.
Unhook(p) ==
    /\ Now("unhook", p) /\ Done
    /\ mp' = [mp EXCEPT ![p].cookie = FALSE]
    /\ UNCHANGED <<field, cookies, strm, loop, lifeCalls, broken>>

Setup(p) ==
    /\ Now("setup", p) /\ Done
    /\ \E q \in Objects :
          /\ ~ mp[q].made /\ \A r \in Objects : mp[r].made \/ q <= r
          /\ mp' = [mp EXCEPT ![q] = NewPlayer]
          /\ cookies' = cookies \cup {q}
          /\ field' = q
    /\ UNCHANGED <<strm, loop, lifeCalls, broken>>

\* ijkmp_dec_ref_p: who gives back the last reference destroys the player.
Put(p) ==
    /\ Now("put", p)
    /\ mp' = [mp EXCEPT ![p].refs = @ - 1]
    /\ todo' = IF mp[p].refs = 1 THEN <<<<"destroy", p>>>> \o Tail(todo) ELSE Tail(todo)
    /\ UNCHANGED <<field, cookies, strm, loop, lifeCalls, broken>>

\* ijkmp_destroy joins the message loop.
FreePlayer(p) ==
    /\ Now("destroy", p) /\ Done
    /\ mp[p].last # 0 => loop[mp[p].last].pc = "ended"
    /\ mp' = [mp EXCEPT ![p].freed = TRUE]
    /\ UNCHANGED <<field, cookies, strm, loop, lifeCalls, broken>>

AppStep ==
    \E p \in Objects :
        \/ Get(p) \/ SetDataSource(p) \/ Request(p) \/ Ask(p) \/ Surface(p) \/ Stop(p) \/ Prepare(p) \/ Open(p)
        \/ Deselect(p) \/ Deselected(p) \/ Select(p)
        \/ Shutdown(p) \/ TellDecoders(p) \/ JoinRead(p) \/ CloseComponents(p) \/ JoinRefresh(p)
        \/ FreeStream(p) \/ TakeCookie(p) \/ DeleteCookie(p) \/ ClearField(p)
        \/ Unhook(p) \/ Setup(p) \/ Put(p) \/ FreePlayer(p)

(***************************************************************************)
(* The message loop of preparation s                                       *)
(***************************************************************************)
At(s, pc) == Running /\ loop[s].pc = pc
Goto(s, pc) == loop' = [loop EXCEPT ![s].pc = pc]

LoopBegin(s) ==
    /\ At(s, "begin")
    /\ Goto(s, IF mp[loop[s].mp].cookie THEN "wait" ELSE "put")
    /\ UNCHANGED <<field, mp, cookies, strm, todo, lifeCalls, broken>>

\* ijkmp_get_msg: the message is taken off the queue before the mutex is asked for.
LoopTake(s) ==
    LET p == loop[s].mp IN
    /\ At(s, "wait")
    /\ IF mp[p].aborted THEN Goto(s, "put") /\ UNCHANGED mp
       ELSE /\ mp[p].msgs # <<>>
            /\ mp' = [mp EXCEPT ![p].msgs = Tail(@)]
            /\ LET what == Head(mp[p].msgs) IN
               loop' = [loop EXCEPT ![s].msg = what,
                                    ![s].pc = IF what \in {"prepared", "request"} THEN "lock" ELSE "post"]
    /\ UNCHANGED <<field, cookies, strm, todo, lifeCalls, broken>>

HandlePrepared(s) ==
    LET p == loop[s].mp IN
    /\ At(s, "lock") /\ loop[s].msg = "prepared" /\ Unlocked(p)
    /\ mp' = [mp EXCEPT ![p].state = IF @ = "preparing" \/ ~ AutoStart THEN "prepared" ELSE @]
    /\ Goto(s, "post")
    /\ UNCHANGED <<field, cookies, strm, todo, lifeCalls, broken>>

\* A request reads ffp->is, and then presses the switches of that stream.
HandleRequest(s) ==
    LET p == loop[s].mp IN
    /\ At(s, "lock") /\ loop[s].msg = "request" /\ Unlocked(p)
    /\ IF mp[p].state = "prepared" /\ mp[p].is # 0
       THEN mp' = [mp EXCEPT ![p].lock = mp[p].is] /\ Goto(s, "touch")
       ELSE Goto(s, "wait") /\ UNCHANGED mp
    /\ UNCHANGED <<field, cookies, strm, todo, lifeCalls, broken>>

Late(s, gone) == [loop EXCEPT ![s].pc = "wait", ![s].msg = "none", ![s].late = IF gone THEN @ + 1 ELSE @]

Touch(s) ==
    LET p == loop[s].mp IN
    /\ At(s, "touch")
    /\ \E starts \in BOOLEAN : strm' = [strm EXCEPT ![mp[p].lock].go = @ \/ starts]
    /\ loop' = Late(s, strm[mp[p].lock].freed)
    /\ mp' = [mp EXCEPT ![p].lock = 0]
    /\ UNCHANGED <<field, cookies, todo, lifeCalls, broken>>

PostEvent(s) ==
    /\ At(s, "post")
    /\ loop' = Late(s, loop[s].mp \notin cookies)
    /\ UNCHANGED <<field, mp, cookies, strm, todo, lifeCalls, broken>>

\* The loop gives its reference back.  If it was the last one, the loop itself
\* destroys the player: the join of its own thread fails and is ignored.
LoopPut(s) ==
    LET p == loop[s].mp IN
    /\ At(s, "put")
    /\ mp' = [mp EXCEPT ![p].refs = @ - 1]
    /\ Goto(s, IF mp[p].refs = 1 THEN "destroy" ELSE "ended")
    /\ UNCHANGED <<field, cookies, strm, todo, lifeCalls, broken>>

LoopDestroys(s) ==
    /\ At(s, "destroy")
    /\ mp' = [mp EXCEPT ![loop[s].mp].freed = TRUE]
    /\ Goto(s, "ended")
    /\ UNCHANGED <<field, cookies, strm, todo, lifeCalls, broken>>

LoopStep(s) ==
    \/ LoopBegin(s) \/ LoopTake(s) \/ HandlePrepared(s) \/ HandleRequest(s)
    \/ Touch(s) \/ PostEvent(s) \/ LoopPut(s) \/ LoopDestroys(s)

(***************************************************************************)
(* The threads of the stream of preparation s                              *)
(***************************************************************************)
ReadAt(s, pc) == Running /\ strm[s].read = pc
Owner(s) == loop[s].mp

\* avformat_open_input, avformat_find_stream_info: they fail, or are interrupted.
ReadOpens(s) ==
    /\ ReadAt(s, "open")
    /\ \/ ~ strm[s].abort /\ strm' = [strm EXCEPT ![s].read = "audio"]
       \/ strm' = [strm EXCEPT ![s].read = "leave"]
    /\ UNCHANGED <<field, mp, cookies, loop, todo, lifeCalls, broken>>

\* stream_component_open, which may fail and asks nobody whether to go on;
\* decoder_start starts the packet queue again.
OpenComponent(s) ==
    /\ \E k \in Media, opens \in BOOLEAN :
          /\ ReadAt(s, k)
          /\ strm' = [strm EXCEPT ![s].read = IF k = "audio" THEN "video" ELSE "opened",
                                  ![s].dec[k] = IF opens THEN "run" ELSE "none"]
    /\ UNCHANGED <<field, mp, cookies, loop, todo, lifeCalls, broken>>

ReadPrepared(s) ==
    /\ ReadAt(s, "opened")
    /\ IF \A k \in Media : strm[s].dec[k] = "none"
       THEN strm' = [strm EXCEPT ![s].read = "leave"] /\ UNCHANGED mp
       ELSE /\ strm' = [strm EXCEPT ![s].prepared = TRUE,
                                    ![s].read = IF AutoStart THEN "loop" ELSE "waiting"]
            /\ mp' = [mp EXCEPT ![Owner(s)] = Post(@, "prepared")]
    /\ UNCHANGED <<field, cookies, loop, todo, lifeCalls, broken>>

ReadWaits(s) ==
    /\ ReadAt(s, "waiting") /\ (strm[s].go \/ strm[s].abort)
    /\ strm' = [strm EXCEPT ![s].read = "loop"]
    /\ UNCHANGED <<field, mp, cookies, loop, todo, lifeCalls, broken>>

ReadLoop(s) ==
    /\ ReadAt(s, "loop") /\ strm[s].abort
    /\ strm' = [strm EXCEPT ![s].read = "leave"]
    /\ UNCHANGED <<field, mp, cookies, loop, todo, lifeCalls, broken>>

ReadLeaves(s) ==
    /\ ReadAt(s, "leave")
    /\ strm' = [strm EXCEPT ![s].read = "ended"]
    /\ mp' = IF strm[s].prepared /\ strm[s].abort THEN mp
             ELSE [mp EXCEPT ![Owner(s)] = Post(@, "error")]
    /\ UNCHANGED <<field, cookies, loop, todo, lifeCalls, broken>>

ReadStep(s) ==
    \/ ReadOpens(s) \/ OpenComponent(s) \/ ReadPrepared(s) \/ ReadWaits(s) \/ ReadLoop(s) \/ ReadLeaves(s)

RefreshEnds(s) ==
    /\ Running /\ strm[s].refresh = "run" /\ strm[s].abort
    /\ strm' = [strm EXCEPT ![s].refresh = "ended"]
    /\ UNCHANGED <<field, mp, cookies, loop, todo, lifeCalls, broken>>

DecoderLeaves(s) ==
    /\ Running
    /\ \E k \in Media : strm[s].dec[k] = "told" /\ strm' = [strm EXCEPT ![s].dec[k] = "ended"]
    /\ UNCHANGED <<field, mp, cookies, loop, todo, lifeCalls, broken>>

LifeWork ==
    \/ AppStep
    \/ \E s \in Sessions : LoopStep(s) \/ ReadStep(s) \/ RefreshEnds(s) \/ DecoderLeaves(s)

LifeNext == Call \/ LifeWork

\* One condition for all threads: no thread goes round a loop here, so that
\* each of them comes to its turn when some thread that can run always does.
LifeSpec == LifeInit /\ [][LifeNext]_lifeVars /\ WF_lifeVars(LifeWork)

(***************************************************************************)
(* Properties                                                              *)
(***************************************************************************)
\* A player is freed when nobody uses it any more: neither a native method
\* between its two ends, nor a message loop before it gave its reference back.
ReferencesHold ==
    /\ todo # <<>> => ~ mp[Head(todo)[2]].freed
    /\ \A s \in Used : loop[s].pc \notin {"ended", "failed"} => ~ mp[loop[s].mp].freed

\* What the threads of a stream use outlives them: the stream itself, and the
\* weak reference through which read_thread asks the Java object before it opens
\* an address.
ThreadsServed ==
    \A s \in Sessions :
        /\ strm[s].freed => /\ strm[s].read = "ended" /\ strm[s].refresh = "ended"
                            /\ \A k \in Media : strm[s].dec[k] \in {"none", "ended"}
        /\ strm[s].read \notin {"none", "ended"} => loop[s].mp \in cookies

\* The message loop is not joined before the stream and the weak reference go;
\* it may meet their absence with the message it had in hand, and no further one.
OneLateMessage == \A s \in Used : loop[s].late <= 1

\* Nothing is given back while a thread may still reach it: the player, the
\* stream and the weak reference, with the one message for an exception.
LifeHolds == ReferencesHold /\ ThreadsServed /\ OneLateMessage

\* Every call comes back, the release from a player in any condition included.
CallsReturn == []<>(todo = <<>> \/ ~ Running)

\* A player the Java object has let go of is freed, unless the thread that was
\* to give back the loop's reference never started.
LetGo(p) == mp[p].made /\ field # p /\ ~ \E s \in Used : loop[s].mp = p /\ loop[s].pc = "failed"
ReleasedIsFreed == []<>(~ Running \/ \A p \in Objects : LetGo(p) => mp[p].freed)

\* assert(!ffp->is) in ffp_prepare_async_l: a preparation finds no stream.  It
\* fails with PrepareAgain = TRUE, since stop leaves the stream where it is.
PrepareFindsNoStream ==
    \A p \in Objects : Now("open", p) => mp[p].is = 0
=============================================================================
