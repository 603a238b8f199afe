---------------------------- MODULE PlayerLife_proofs ----------------------------
(***************************************************************************)
(* Proofs about PlayerLife: a player, its stream and the weak reference to *)
(* its Java object outlive whoever uses them, for any number of players,   *)
(* preparations and calls, as long as a stopped player is not prepared     *)
(* again.                                                                  *)
(***************************************************************************)
EXTENDS PlayerLife, SequenceTheorems, TLAPS

(***************************************************************************)
(* What the application has still to do.  It is at the instruction n of    *)
(* player p, or between two calls ("idle"); again: it is in a reset, which *)
(* goes on with a new player.                                              *)
(***************************************************************************)
Alone == {"source", "request", "ask", "stop", "select", "open", "deselected"}
Closing == {"tell", "join", "components", "refresh", "free"}
Releasing == {"surface", "shutdown", "cookie", "delete", "field", "put"} \cup Closing
Steps == Alone \cup Releasing \cup {"idle", "prepare", "deselect", "unhook", "get", "setup", "destroy"}

Do(n, p, rest) == <<<<n, p>>>> \o rest

AfterPut(p, again)        == IF again THEN Do("setup", p, Do("put", p, <<>>)) ELSE <<>>
AfterField(p, again)      == Do("put", p, AfterPut(p, again))
AfterCookie(p, again)     == Do("field", p, AfterField(p, again))
AfterFree(p, again)       == Do("cookie", p, AfterCookie(p, again))
AfterRefresh(p, again)    == Do("free", p, AfterFree(p, again))
AfterComponents(p, again) == Do("refresh", p, AfterRefresh(p, again))
AfterJoin(p, again)       == Do("components", p, AfterComponents(p, again))
AfterTell(p, again)       == Do("join", p, AfterJoin(p, again))
AfterSurface(p, again)    == Do("shutdown", p, AfterFree(p, again))
AfterGet(p)               == Do("surface", p, AfterSurface(p, TRUE))

Rest(n, p, again) ==
    CASE n \in Alone \cup {"setup"} -> AfterField(p, FALSE)
      [] n = "prepare"    -> Do("open", p, AfterField(p, FALSE))
      [] n = "deselect"   -> Do("deselected", p, AfterField(p, FALSE))
      [] n = "unhook"     -> Do("get", p, AfterGet(p))
      [] n = "get"        -> AfterGet(p)
      [] n = "surface"    -> AfterSurface(p, again)
      [] n = "tell"       -> AfterTell(p, again)
      [] n = "join"       -> AfterJoin(p, again)
      [] n = "components" -> AfterComponents(p, again)
      [] n = "refresh"    -> AfterRefresh(p, again)
      [] n \in {"shutdown", "free"} -> AfterFree(p, again)
      [] n \in {"cookie", "delete"} -> AfterCookie(p, again)
      [] n = "field"      -> AfterField(p, again)
      [] n = "put"        -> AfterPut(p, again)
      [] OTHER            -> <<>>

Doing(n, p, again) ==
    /\ todo = IF n = "idle" THEN <<>> ELSE Do(n, p, Rest(n, p, again))
    /\ n \in {"unhook", "get", "setup"} => again
    /\ n \notin Releasing \cup {"unhook", "get", "setup"} => ~ again

-----------------------------------------------------------------------------
(***************************************************************************)
(* The inductive invariant.                                                *)
(***************************************************************************)
Messages == {"flush", "prepared", "request", "error"}
Players ==
    [made : BOOLEAN, refs : Nat, freed : BOOLEAN,
     state : {"idle", "initialized", "preparing", "prepared", "stopped", "error"}, lock : Nat,
     cookie : BOOLEAN, is : Sessions \cup {0}, aborted : BOOLEAN, msgs : Seq(Messages),
     last : Sessions \cup {0}]
Streams ==
    [open : BOOLEAN, freed : BOOLEAN, abort : BOOLEAN, go : BOOLEAN, prepared : BOOLEAN,
     read : {"none", "open", "audio", "video", "opened", "waiting", "loop", "leave", "ended"},
     refresh : {"none", "run", "ended"}, dec : [Media -> {"none", "run", "told", "ended"}]]
Loops ==
    [pc : {"none", "failed", "begin", "wait", "lock", "touch", "post", "put", "destroy", "ended"},
     mp : Objects \cup {0}, msg : Messages \cup {"none"}, late : Nat]

LifeTypeOK ==
    /\ field \in Objects \cup {0}
    /\ mp \in [Objects -> Players]
    /\ strm \in [Sessions -> Streams]
    /\ loop \in [Sessions -> Loops]

\* A player is prepared once: it has at most one message loop and one stream.
SessionInv ==
    /\ \A s \in Used : /\ loop[s].mp \in Objects /\ mp[loop[s].mp].made
                       /\ mp[loop[s].mp].state \notin {"idle", "initialized"}
    /\ \A s \in Used : \A t \in Used : loop[s].mp = loop[t].mp => s = t
    /\ \A s \in Used : \A r \in Sessions : r < s => r \in Used
    /\ \A p \in Objects : mp[p].is # 0 => /\ mp[p].is \in Used /\ loop[mp[p].is].mp = p
                                          /\ ~ strm[mp[p].is].freed

\* What the threads of a stream use is there.
Quiet(s) == /\ strm[s].read = "ended" /\ strm[s].refresh = "ended"
            /\ \A k \in Media : strm[s].dec[k] \in {"none", "ended"}
StreamInv ==
    \A s \in Sessions :
        /\ strm[s].read \notin {"none", "ended"} =>
              s \in Used /\ mp[loop[s].mp].is = s /\ loop[s].mp \in cookies
        /\ strm[s].freed => s \in Used /\ mp[loop[s].mp].aborted /\ Quiet(s)

\* A loop that came late takes no other message.
LateInv ==
    /\ \A s \in Used :
          /\ loop[s].late \in {0, 1}
          /\ loop[s].late = 1 => /\ mp[loop[s].mp].aborted
                                 /\ loop[s].pc \in {"wait", "put", "destroy", "ended"}
          /\ loop[s].pc = "touch" => mp[loop[s].mp].lock = s
    /\ \A p \in Objects \ cookies : mp[p].aborted

\* Who destroys a player is alone with it.
FreedInv ==
    /\ \A p \in Objects : mp[p].freed => mp[p].refs = 0
    /\ \A s \in Used : loop[s].pc = "destroy" => mp[loop[s].mp].refs = 0 /\ ~ mp[loop[s].mp].freed

\* The references: of the field, of the loop (lost if it never started), of the call.
FieldRef(p)    == IF field = p THEN 1 ELSE 0
Refers(s, p)   == loop[s].mp = p /\ loop[s].pc \notin {"none", "destroy", "ended"}
LoopRef(p)     == IF \E s \in Sessions : Refers(s, p) THEN 1 ELSE 0
Held(n, again) == IF n \in {"idle", "destroy"} THEN 0 ELSE IF again /\ n \in Releasing THEN 2 ELSE 1

RefsInv(n, p, again) ==
    \A q \in Objects :
        IF mp[q].made THEN mp[q].refs = FieldRef(q) + LoopRef(q) + (IF q = p THEN Held(n, again) ELSE 0)
                      ELSE mp[q].refs = 0 /\ field # q /\ (n # "idle" => q # p)

\* What a call has got to.
Early == Alone \cup Closing \cup {"prepare", "deselect", "unhook", "get", "surface", "shutdown", "cookie"}
StepInv(n, p, again) ==
    /\ field # 0 /\ n # "field" => field \in cookies
    /\ n \in Early \cup {"delete", "field"} => field = p
    /\ n = "setup" \/ (n = "put" /\ again) => field = 0
    /\ n = "destroy" => /\ mp[p].refs = 0 /\ ~ mp[p].freed
                        /\ \A s \in Used : loop[s].mp = p => loop[s].pc # "destroy"
    /\ n = "prepare" => mp[p].state # "stopped"
    /\ n = "open" => mp[p].is = 0 /\ \E s \in Used : loop[s].mp = p /\ \A r \in Used : r <= s
    /\ n = "deselected" => mp[p].is # 0
    /\ n \in {"open", "deselected"} =>
          mp[p].lock # 0 /\ \A s \in Used : loop[s].mp = p => loop[s].pc # "touch"
    /\ n \in Closing => mp[p].is # 0
    /\ n \in {"components", "refresh", "free"} => strm[mp[p].is].read = "ended"
    /\ n \in {"refresh", "free"} => \A k \in Media : strm[mp[p].is].dec[k] \in {"none", "ended"}
    /\ n = "free" => strm[mp[p].is].refresh = "ended"
    /\ n \in Closing \cup {"cookie", "delete"} => mp[p].aborted
    /\ n \in {"cookie", "delete"} => mp[p].is = 0

CallInv(n, p, again) == Doing(n, p, again) /\ RefsInv(n, p, again) /\ StepInv(n, p, again)

PartsInv == LifeTypeOK /\ SessionInv /\ StreamInv /\ LateInv /\ FreedInv
LifeInv  == PartsInv /\ \E n \in Steps, p \in Objects, again \in BOOLEAN : CallInv(n, p, again)


-----------------------------------------------------------------------------
(***************************************************************************)
(* The instructions of a call, one after the other.                        *)
(***************************************************************************)
Instructions == Steps \X Objects

LEMMA DoIs ==
    ASSUME NEW n \in Steps, NEW p \in Objects, NEW rest \in Seq(Instructions)
    PROVE  /\ Do(n, p, rest) \in Seq(Instructions) /\ Do(n, p, rest) # <<>>
           /\ Head(Do(n, p, rest)) = <<n, p>> /\ Tail(Do(n, p, rest)) = rest
<1>1. <<n, p>> \in Instructions
  BY DEF Instructions
<1> DEFINE i == <<n, p>>
<1>2. i \in Instructions
  BY <1>1
<1> HIDE DEF i
<1>3. <<i>> \o rest \in Seq(Instructions) /\ <<i>> \o rest # <<>> /\ Head(<<i>> \o rest) = i
  BY <1>2
<1>4. Tail(<<i>> \o rest) = rest
  BY <1>2
<1> QED BY <1>3, <1>4, Zenon DEF Do, i

LEMMA StepNames ==
    /\ {"put", "setup", "field", "cookie", "free", "refresh", "components", "join", "tell", "shutdown",
        "surface", "get", "open", "deselected", "delete", "destroy", "unhook", "idle"} \subseteq Steps
    /\ Alone \subseteq Steps /\ {"prepare", "deselect"} \subseteq Steps
  BY DEF Steps, Alone, Releasing, Closing

LEMMA AftersAre ==
    ASSUME NEW p \in Objects, NEW again \in BOOLEAN
    PROVE  /\ AfterPut(p, again) \in Seq(Instructions) /\ AfterField(p, again) \in Seq(Instructions)
           /\ AfterCookie(p, again) \in Seq(Instructions) /\ AfterFree(p, again) \in Seq(Instructions)
           /\ AfterRefresh(p, again) \in Seq(Instructions) /\ AfterComponents(p, again) \in Seq(Instructions)
           /\ AfterJoin(p, again) \in Seq(Instructions) /\ AfterTell(p, again) \in Seq(Instructions)
           /\ AfterSurface(p, again) \in Seq(Instructions)
<1>0. <<>> \in Seq(Instructions)
  OBVIOUS
<1>1. AfterPut(p, again) \in Seq(Instructions)
  BY <1>0, DoIs, StepNames DEF AfterPut
<1>2. AfterField(p, again) \in Seq(Instructions)
  BY <1>1, DoIs, StepNames DEF AfterField
<1>3. AfterCookie(p, again) \in Seq(Instructions)
  BY <1>2, DoIs, StepNames DEF AfterCookie
<1>4. AfterFree(p, again) \in Seq(Instructions)
  BY <1>3, DoIs, StepNames DEF AfterFree
<1>5. AfterRefresh(p, again) \in Seq(Instructions)
  BY <1>4, DoIs, StepNames DEF AfterRefresh
<1>6. AfterComponents(p, again) \in Seq(Instructions)
  BY <1>5, DoIs, StepNames DEF AfterComponents
<1>7. AfterJoin(p, again) \in Seq(Instructions)
  BY <1>6, DoIs, StepNames DEF AfterJoin
<1>8. AfterTell(p, again) \in Seq(Instructions)
  BY <1>7, DoIs, StepNames DEF AfterTell
<1>9. AfterSurface(p, again) \in Seq(Instructions)
  BY <1>4, DoIs, StepNames DEF AfterSurface
<1> QED BY <1>1, <1>2, <1>3, <1>4, <1>5, <1>6, <1>7, <1>8, <1>9

LEMMA RestIs ==
    ASSUME NEW n \in Steps, NEW p \in Objects, NEW again \in BOOLEAN
    PROVE  Rest(n, p, again) \in Seq(Instructions)
<1>1. AfterGet(p) \in Seq(Instructions)
  BY AftersAre, DoIs, StepNames DEF AfterGet
<1>2. Do("open", p, AfterField(p, FALSE)) \in Seq(Instructions)
      /\ Do("deselected", p, AfterField(p, FALSE)) \in Seq(Instructions)
  BY AftersAre, DoIs, StepNames
<1>3. Do("get", p, AfterGet(p)) \in Seq(Instructions)
  BY <1>1, DoIs, StepNames
<1>4. <<>> \in Seq(Instructions)
  OBVIOUS
<1> QED BY <1>1, <1>2, <1>3, <1>4, AftersAre, Zenon DEF Rest

\* The instruction a call is at, and what is left after it.
LEMMA NowIs ==
    ASSUME NEW n \in Steps, NEW p \in Objects, NEW again \in BOOLEAN, Doing(n, p, again),
           NEW m, NEW q, Now(m, q)
    PROVE  n = m /\ p = q /\ m # "idle" /\ Tail(todo) = Rest(m, q, again)
<1>1. todo # <<>> /\ Head(todo) = <<m, q>>
  BY DEF Now
<1>2. n # "idle" /\ todo = Do(n, p, Rest(n, p, again))
  BY <1>1 DEF Doing
<1>3. Head(todo) = <<n, p>> /\ Tail(todo) = Rest(n, p, again)
  BY <1>2, RestIs, DoIs
<1> QED BY <1>1, <1>2, <1>3

\* The next instruction.
LEMMA NextIs ==
    ASSUME NEW p \in Objects, NEW again \in BOOLEAN
    PROVE  /\ \A n \in Alone : Rest(n, p, FALSE) = Do("put", p, Rest("put", p, FALSE))
           /\ Rest("setup", p, again) = Do("put", p, Rest("put", p, FALSE))
           /\ Rest("prepare", p, FALSE) = Do("open", p, Rest("open", p, FALSE))
           /\ Tail(Rest("prepare", p, FALSE)) = Do("put", p, Rest("put", p, FALSE))
           /\ Rest("deselect", p, FALSE) = Do("deselected", p, Rest("deselected", p, FALSE))
           /\ Tail(Rest("deselect", p, FALSE)) = Do("put", p, Rest("put", p, FALSE))
           /\ Rest("unhook", p, again) = Do("get", p, Rest("get", p, TRUE))
           /\ Rest("get", p, again) = Do("surface", p, Rest("surface", p, TRUE))
           /\ Rest("surface", p, again) = Do("shutdown", p, Rest("shutdown", p, again))
           /\ Rest("shutdown", p, again) = Do("cookie", p, Rest("cookie", p, again))
           /\ Rest("tell", p, again) = Do("join", p, Rest("join", p, again))
           /\ Rest("join", p, again) = Do("components", p, Rest("components", p, again))
           /\ Rest("components", p, again) = Do("refresh", p, Rest("refresh", p, again))
           /\ Rest("refresh", p, again) = Do("free", p, Rest("free", p, again))
           /\ Rest("free", p, again) = Do("cookie", p, Rest("cookie", p, again))
           /\ Rest("cookie", p, again) = Do("field", p, Rest("field", p, again))
           /\ Rest("delete", p, again) = Rest("cookie", p, again)
           /\ Rest("field", p, again) = Do("put", p, Rest("put", p, again))
           /\ Rest("put", p, again) = IF again THEN Do("setup", p, Rest("setup", p, again)) ELSE <<>>
           /\ Rest("destroy", p, again) = <<>>
<1>1. /\ \A n \in Alone : Rest(n, p, FALSE) = AfterField(p, FALSE)
      /\ Rest("setup", p, again) = AfterField(p, FALSE)
      /\ Rest("open", p, FALSE) = AfterField(p, FALSE)
      /\ Rest("deselected", p, FALSE) = AfterField(p, FALSE)
  BY DEF Rest, Alone
<1>2. /\ Rest("prepare", p, FALSE) = Do("open", p, AfterField(p, FALSE))
      /\ Rest("deselect", p, FALSE) = Do("deselected", p, AfterField(p, FALSE))
      /\ Rest("unhook", p, again) = Do("get", p, AfterGet(p))
      /\ Rest("get", p, again) = AfterGet(p) /\ Rest("get", p, TRUE) = AfterGet(p)
  BY DEF Rest, Alone
<1>3. /\ Rest("surface", p, again) = AfterSurface(p, again) /\ Rest("surface", p, TRUE) = AfterSurface(p, TRUE)
      /\ Rest("shutdown", p, again) = AfterFree(p, again) /\ Rest("free", p, again) = AfterFree(p, again)
      /\ Rest("tell", p, again) = AfterTell(p, again) /\ Rest("join", p, again) = AfterJoin(p, again)
      /\ Rest("components", p, again) = AfterComponents(p, again)
      /\ Rest("refresh", p, again) = AfterRefresh(p, again)
  BY DEF Rest, Alone
<1>4. /\ Rest("cookie", p, again) = AfterCookie(p, again) /\ Rest("delete", p, again) = AfterCookie(p, again)
      /\ Rest("field", p, again) = AfterField(p, again) /\ Rest("put", p, again) = AfterPut(p, again)
      /\ Rest("put", p, FALSE) = AfterPut(p, FALSE) /\ Rest("destroy", p, again) = <<>>
  BY DEF Rest, Alone
<1>5. AfterField(p, FALSE) = Do("put", p, Rest("put", p, FALSE))
  BY <1>4 DEF AfterField
<1>6. AfterPut(p, again) = IF again THEN Do("setup", p, Rest("setup", p, again)) ELSE <<>>
  BY <1>1 DEF AfterPut, AfterField
<1>7. /\ Tail(Rest("prepare", p, FALSE)) = AfterField(p, FALSE)
      /\ Tail(Rest("deselect", p, FALSE)) = AfterField(p, FALSE)
  <2>1. AfterField(p, FALSE) \in Seq(Instructions) /\ "open" \in Steps /\ "deselected" \in Steps
    BY AftersAre, StepNames
  <2>2. /\ Tail(Do("open", p, AfterField(p, FALSE))) = AfterField(p, FALSE)
        /\ Tail(Do("deselected", p, AfterField(p, FALSE))) = AfterField(p, FALSE)
    BY <2>1, DoIs
  <2> QED BY <1>2, <2>2, Zenon
<1>8. /\ AfterGet(p) = Do("surface", p, Rest("surface", p, TRUE))
      /\ AfterSurface(p, again) = Do("shutdown", p, Rest("shutdown", p, again))
      /\ AfterFree(p, again) = Do("cookie", p, Rest("cookie", p, again))
  BY <1>3, <1>4 DEF AfterGet, AfterSurface, AfterFree
<1>9. /\ AfterTell(p, again) = Do("join", p, Rest("join", p, again))
      /\ AfterJoin(p, again) = Do("components", p, Rest("components", p, again))
      /\ AfterComponents(p, again) = Do("refresh", p, Rest("refresh", p, again))
      /\ AfterRefresh(p, again) = Do("free", p, Rest("free", p, again))
  BY <1>3, <1>4 DEF AfterTell, AfterJoin, AfterComponents, AfterRefresh
<1>10. /\ AfterCookie(p, again) = Do("field", p, Rest("field", p, again))
       /\ AfterField(p, again) = Do("put", p, Rest("put", p, again))
  BY <1>4 DEF AfterCookie, AfterField
<1> QED BY <1>1, <1>2, <1>3, <1>4, <1>5, <1>6, <1>7, <1>8, <1>9, <1>10, Zenon


-----------------------------------------------------------------------------
(***************************************************************************)
(* What a step leaves alone.                                               *)
(***************************************************************************)
LEMMA LifeFields ==
    ASSUME LifeTypeOK
    PROVE  /\ \A p \in Objects :
                /\ mp[p] \in Players /\ mp[p].made \in BOOLEAN /\ mp[p].refs \in Nat /\ mp[p].freed \in BOOLEAN
                /\ mp[p].lock \in Nat /\ mp[p].cookie \in BOOLEAN /\ mp[p].is \in Sessions \cup {0}
                /\ mp[p].aborted \in BOOLEAN /\ mp[p].msgs \in Seq(Messages)
           /\ \A s \in Sessions :
                /\ strm[s] \in Streams /\ strm[s].freed \in BOOLEAN
                /\ strm[s].dec \in [Media -> {"none", "run", "told", "ended"}]
           /\ \A s \in Sessions : loop[s] \in Loops /\ loop[s].mp \in Objects \cup {0} /\ loop[s].late \in Nat
  BY DEF LifeTypeOK, Players, Streams, Loops

LEMMA Numbers ==
    /\ Objects \subseteq Nat \ {0} /\ Sessions \subseteq Nat \ {0} /\ 0 \notin Objects /\ 0 \notin Sessions
    /\ \A s \in Used : s \in Sessions
  BY LifeAssumption DEF Objects, Sessions, Used

\* Nothing of a player or a stream that the invariant speaks of changes.
SameMp ==
    /\ mp' \in [Objects -> Players]
    /\ \A q \in Objects : /\ mp'[q].made = mp[q].made /\ mp'[q].refs = mp[q].refs /\ mp'[q].freed = mp[q].freed
                          /\ mp'[q].state = mp[q].state /\ mp'[q].lock = mp[q].lock /\ mp'[q].is = mp[q].is
                          /\ mp'[q].aborted = mp[q].aborted
SameStrm ==
    /\ strm' \in [Sessions -> Streams]
    /\ \A s \in Sessions : /\ strm'[s].freed = strm[s].freed /\ strm'[s].read = strm[s].read
                           /\ strm'[s].refresh = strm[s].refresh /\ strm'[s].dec = strm[s].dec

LEMMA SameMpIs == ASSUME LifeTypeOK, mp' = mp PROVE SameMp
  BY DEF LifeTypeOK, SameMp

LEMMA SameStrmIs == ASSUME LifeTypeOK, strm' = strm PROVE SameStrm
  BY DEF LifeTypeOK, SameStrm

\* Or only what does no harm: a queue is aborted, a stream comes to its end.
SoftMp ==
    /\ mp' \in [Objects -> Players]
    /\ \A q \in Objects : /\ mp'[q].made = mp[q].made /\ mp'[q].refs = mp[q].refs /\ mp'[q].freed = mp[q].freed
                          /\ mp'[q].is = mp[q].is /\ (mp[q].aborted => mp'[q].aborted)
                          /\ mp'[q].state \in {"idle", "initialized"} => mp[q].state \in {"idle", "initialized"}
    /\ \A s \in Used : loop[s].pc = "touch" => mp'[loop[s].mp].lock = mp[loop[s].mp].lock
DecQuiet(s) == \A k \in Media : strm[s].dec[k] \in {"none", "ended"}
SoftStrm ==
    /\ strm' \in [Sessions -> Streams]
    /\ \A s \in Sessions : /\ strm'[s].freed = strm[s].freed
                           /\ strm[s].read \in {"none", "ended"} => strm'[s].read = strm[s].read
                           /\ strm[s].refresh = "ended" => strm'[s].refresh = "ended"
                           /\ strm[s].freed /\ DecQuiet(s) => DecQuiet(s)'

LEMMA SameIsSoft == ASSUME PartsInv, SameMp, SameStrm PROVE SoftMp /\ SoftStrm
<1>1. SoftMp
  BY Numbers DEF SameMp, SoftMp, PartsInv, SessionInv
<1>2. \A s \in Sessions : DecQuiet(s) => DecQuiet(s)'
  BY DEF DecQuiet, SameStrm
<1> QED BY <1>1, <1>2 DEF SameStrm, SoftStrm

LEMMA PartsKept ==
    ASSUME PartsInv, UNCHANGED <<field, cookies, loop>>, SoftMp, SoftStrm
    PROVE  PartsInv'
<1>0. Used' = Used /\ \A s \in Used : s \in Sessions /\ loop[s].mp \in Objects
  BY DEF Used, PartsInv, SessionInv
<1>1. LifeTypeOK'
  BY DEF PartsInv, LifeTypeOK, SoftMp, SoftStrm
<1>2. SessionInv'
  <2>2. \A s \in Used : /\ loop'[s].mp \in Objects /\ mp'[loop'[s].mp].made
                        /\ mp'[loop'[s].mp].state \notin {"idle", "initialized"}
    BY <1>0 DEF PartsInv, SessionInv, SoftMp
  <2>3. /\ \A s \in Used : \A t \in Used : loop'[s].mp = loop'[t].mp => s = t
        /\ \A s \in Used : \A r \in Sessions : r < s => r \in Used
    BY DEF PartsInv, SessionInv
  <2>4. \A p \in Objects : mp'[p].is # 0 => /\ mp'[p].is \in Used /\ loop'[mp'[p].is].mp = p
                                            /\ ~ strm'[mp'[p].is].freed
    BY <1>0 DEF PartsInv, SessionInv, SoftMp, SoftStrm
  <2> QED BY <1>0, <2>2, <2>3, <2>4 DEF SessionInv
<1>3. StreamInv'
  <2>1. ASSUME NEW s \in Sessions, strm'[s].read \notin {"none", "ended"}
        PROVE  s \in Used' /\ mp'[loop'[s].mp].is = s /\ loop'[s].mp \in cookies'
    BY <1>0, <2>1 DEF PartsInv, StreamInv, SoftMp, SoftStrm
  <2>2. ASSUME NEW s \in Sessions, strm'[s].freed
        PROVE  s \in Used' /\ mp'[loop'[s].mp].aborted /\ Quiet(s)'
    <3>1. s \in Used /\ mp[loop[s].mp].aborted /\ Quiet(s)
      BY <2>2 DEF PartsInv, StreamInv, SoftStrm
    <3>2. DecQuiet(s)'
      BY <2>2, <3>1 DEF SoftStrm, Quiet, DecQuiet
    <3>3. strm'[s].read = "ended" /\ strm'[s].refresh = "ended"
      BY <3>1 DEF SoftStrm, Quiet
    <3> QED BY <1>0, <3>1, <3>2, <3>3 DEF SoftMp, Quiet, DecQuiet
  <2> QED BY <2>1, <2>2 DEF StreamInv
<1>4. LateInv'
  BY <1>0 DEF PartsInv, LateInv, SoftMp
<1>5. FreedInv'
  BY <1>0 DEF PartsInv, FreedInv, SoftMp
<1> QED BY <1>1, <1>2, <1>3, <1>4, <1>5 DEF PartsInv

LEMMA PartsStay ==
    ASSUME PartsInv, UNCHANGED <<field, cookies, loop>>, SameMp, SameStrm
    PROVE  PartsInv'
  BY SameIsSoft, PartsKept

LEMMA RefsStay ==
    ASSUME UNCHANGED <<field, loop>>,
           \A q \in Objects : mp'[q].made = mp[q].made /\ mp'[q].refs = mp[q].refs,
           NEW n \in Steps, NEW p \in Objects, NEW again \in BOOLEAN, RefsInv(n, p, again),
           NEW m \in Steps, NEW b \in BOOLEAN, Held(m, b) = Held(n, again), n = "idle" => m = "idle"
    PROVE  RefsInv(m, p, b)'
<1>1. \A q \in Objects : LoopRef(q)' = LoopRef(q) /\ FieldRef(q)' = FieldRef(q)
  BY DEF LoopRef, FieldRef, Refers
<1>2. \A q \in Objects :
        IF mp'[q].made THEN mp'[q].refs = FieldRef(q)' + LoopRef(q)' + (IF q = p THEN Held(m, b) ELSE 0)
                       ELSE mp'[q].refs = 0 /\ field' # q /\ (m # "idle" => q # p)
  BY <1>1 DEF RefsInv
<1> QED BY <1>2 DEF RefsInv

LEMMA StepStays ==
    ASSUME PartsInv, UNCHANGED <<field, cookies, loop>>, SameMp, SameStrm,
           NEW n \in Steps, NEW p \in Objects, NEW again \in BOOLEAN, StepInv(n, p, again)
    PROVE  StepInv(n, p, again)'
<1>0. Used' = Used /\ (mp[p].is # 0 => mp[p].is \in Sessions)
  BY LifeFields DEF Used, PartsInv
<1>1. n \in Closing => mp[p].is # 0
  BY DEF StepInv
<1>2. {"components", "refresh", "free"} \subseteq Closing
  BY DEF Closing
<1>3. /\ n \in {"components", "refresh", "free"} => strm'[mp'[p].is].read = "ended"
      /\ n \in {"refresh", "free"} => \A k \in Media : strm'[mp'[p].is].dec[k] \in {"none", "ended"}
      /\ n = "free" => strm'[mp'[p].is].refresh = "ended"
  BY <1>0, <1>1, <1>2 DEF StepInv, SameMp, SameStrm
<1> QED BY <1>0, <1>3 DEF StepInv, SameMp

\* A step of the application that changes nothing else.
LEMMA GoesOn ==
    ASSUME PartsInv, UNCHANGED <<field, cookies, loop>>, SameMp, SameStrm,
           NEW n \in Steps, NEW p \in Objects, NEW again \in BOOLEAN, RefsInv(n, p, again),
           NEW m \in Steps, NEW b \in BOOLEAN, Held(m, b) = Held(n, again), n = "idle" => m = "idle",
           StepInv(m, p, b), Doing(m, p, b)'
    PROVE  LifeInv'
<1>1. PartsInv'
  BY PartsStay
<1>2. RefsInv(m, p, b)'
  BY RefsStay DEF SameMp
<1>3. StepInv(m, p, b)'
  BY StepStays
<1>4. CallInv(m, p, b)'
  BY <1>2, <1>3 DEF CallInv
<1> QED BY <1>1, <1>4 DEF LifeInv

LEMMA NamesAre ==
    /\ \A n \in Alone : n \notin Releasing \cup {"unhook", "get", "setup", "idle", "put"}
    /\ \A n \in Closing : n \in Releasing /\ n # "idle"
  BY DEF Alone, Releasing, Closing

\* The last instruction of a call before the reference is given back.
LEMMA LastStep ==
    ASSUME NEW n \in Alone, NEW p \in Objects, NEW again \in BOOLEAN, CallInv(n, p, again),
           Now(n, p), todo' = Tail(todo)
    PROVE  /\ again = FALSE /\ Doing("put", p, FALSE)' /\ StepInv("put", p, FALSE)
           /\ Held("put", FALSE) = Held(n, again) /\ n # "idle" /\ field = p /\ p \in cookies /\ n \in Steps
<1>1. n \in Steps
  BY StepNames
<1>2. Tail(todo) = Rest(n, p, again) /\ again = FALSE /\ n # "idle"
  BY <1>1, NowIs, NamesAre DEF CallInv, Doing
<1>3. Doing("put", p, FALSE)'
  BY <1>2, NextIs DEF Doing, Releasing
<1>4. /\ field # 0 => field \in cookies
      /\ field = p
  BY <1>2, NamesAre DEF CallInv, StepInv, Early, Releasing
<1>5. StepInv("put", p, FALSE)
  BY <1>2, <1>4 DEF StepInv, Early, Alone, Closing
<1>6. Held("put", FALSE) = Held(n, again)
  BY <1>2, NamesAre DEF Held, Alone
<1> QED BY <1>1, <1>2, <1>3, <1>4, <1>5, <1>6, Numbers

\* Such an instruction that does no harm.
LEMMA LastStepKeeps ==
    ASSUME PartsInv, NEW n \in Alone, NEW p \in Objects, NEW again \in BOOLEAN, CallInv(n, p, again),
           Now(n, p), todo' = Tail(todo), UNCHANGED <<field, cookies, loop>>, SoftMp, SoftStrm
    PROVE  LifeInv'
<1>1. /\ Doing("put", p, FALSE)' /\ StepInv("put", p, FALSE)
      /\ Held("put", FALSE) = Held(n, again) /\ n # "idle" /\ n \in Steps
  BY LastStep
<1>2. PartsInv'
  BY PartsKept
<1>3. RefsInv("put", p, FALSE)'
  <2>1. RefsInv(n, p, again) /\ "put" \in Steps
    BY StepNames DEF CallInv
  <2>2. \A q \in Objects : mp'[q].made = mp[q].made /\ mp'[q].refs = mp[q].refs
    BY DEF SoftMp
  <2> QED BY <1>1, <2>1, <2>2, RefsStay
<1>4. StepInv("put", p, FALSE)'
  BY <1>1 DEF StepInv, Early, Alone, Closing
<1>5. CallInv("put", p, FALSE)'
  BY <1>1, <1>3, <1>4 DEF CallInv
<1> QED BY <1>2, <1>5, StepNames DEF LifeInv

\* The call that is under way.
LEMMA CallIs ==
    ASSUME LifeInv, NEW m, NEW q, Now(m, q)
    PROVE  \E again \in BOOLEAN : /\ CallInv(m, q, again) /\ m \in Steps /\ q \in Objects /\ m # "idle"
                                  /\ Tail(todo) = Rest(m, q, again)
<1>1. PICK n \in Steps, p \in Objects, again \in BOOLEAN : CallInv(n, p, again)
  BY DEF LifeInv
<1>2. n = m /\ p = q /\ m # "idle" /\ Tail(todo) = Rest(m, q, again)
  BY <1>1, NowIs DEF CallInv
<1> QED BY <1>1, <1>2

-----------------------------------------------------------------------------
(***************************************************************************)
(* The calls of the application.                                           *)
(***************************************************************************)
LEMMA NothingSoft == ASSUME PartsInv, mp' = mp, strm' = strm PROVE SoftMp /\ SoftStrm
  BY SameMpIs, SameStrmIs, SameIsSoft DEF PartsInv

LEMMA AskKeeps == ASSUME LifeInv, NEW p \in Objects, Ask(p) PROVE LifeInv'
<1>1. Now("ask", p) /\ todo' = Tail(todo) /\ UNCHANGED <<field, mp, cookies, strm, loop>>
  BY DEF Ask, Done
<1>2. PartsInv /\ "ask" \in Alone
  BY DEF LifeInv, Alone
<1>3. PICK again \in BOOLEAN : CallInv("ask", p, again)
  BY <1>1, CallIs
<1> QED BY <1>1, <1>2, <1>3, NothingSoft, LastStepKeeps

\* The streams as they are.
LEMMA StrmStays == ASSUME PartsInv, strm' = strm PROVE SoftStrm
<1>1. strm \in [Sessions -> Streams]
  BY DEF PartsInv, LifeTypeOK
<1>2. \A s \in Sessions : DecQuiet(s)' <=> DecQuiet(s)
  BY DEF DecQuiet
<1> QED BY <1>1, <1>2 DEF SoftStrm

LEMMA SetDataSourceKeeps == ASSUME LifeInv, NEW p \in Objects, SetDataSource(p) PROVE LifeInv'
<1>1. /\ Now("source", p) /\ todo' = Tail(todo) /\ UNCHANGED <<field, cookies, strm, loop>>
      /\ mp' = [mp EXCEPT ![p].state = IF mp[p].state = "idle" THEN "initialized" ELSE mp[p].state]
  BY DEF SetDataSource, Done
<1>2. PartsInv /\ "source" \in Alone /\ mp \in [Objects -> Players] /\ mp[p] \in Players
  BY DEF LifeInv, Alone, PartsInv, LifeTypeOK
<1>3. PICK again \in BOOLEAN : CallInv("source", p, again)
  BY <1>1, CallIs
<1> DEFINE state == IF mp[p].state = "idle" THEN "initialized" ELSE mp[p].state
<1>4. /\ state \in {"idle", "initialized", "preparing", "prepared", "stopped", "error"}
      /\ state \in {"idle", "initialized"} => mp[p].state \in {"idle", "initialized"}
  BY <1>2 DEF Players
<1>5. mp' = [mp EXCEPT ![p] = [mp[p] EXCEPT !.state = state]]
  BY <1>1
<1> HIDE DEF state
<1>6. mp' \in [Objects -> Players] /\ \A q \in Objects \ {p} : mp'[q] = mp[q]
  BY <1>2, <1>4, <1>5 DEF Players
<1>7. /\ mp'[p].made = mp[p].made /\ mp'[p].refs = mp[p].refs /\ mp'[p].freed = mp[p].freed
      /\ mp'[p].is = mp[p].is /\ mp'[p].aborted = mp[p].aborted /\ mp'[p].lock = mp[p].lock
      /\ mp'[p].state = state
  BY <1>2, <1>5 DEF Players
<1>8. \A s \in Used : loop[s].mp \in Objects
  BY <1>2 DEF PartsInv, SessionInv
<1>9. SoftMp
  BY <1>2, <1>4, <1>6, <1>7, <1>8 DEF SoftMp
<1>10. SoftStrm
  BY <1>1, <1>2, StrmStays
<1> QED BY <1>1, <1>2, <1>3, <1>9, <1>10, LastStepKeeps


\* A message is posted.
LEMMA PostIs ==
    ASSUME NEW m \in Players, NEW what \in Messages
    PROVE  /\ Post(m, what) \in Players
           /\ Post(m, what).made = m.made /\ Post(m, what).refs = m.refs /\ Post(m, what).freed = m.freed
           /\ Post(m, what).state = m.state /\ Post(m, what).lock = m.lock /\ Post(m, what).is = m.is
           /\ Post(m, what).aborted = m.aborted
<1> DEFINE msgs == IF m.aborted THEN m.msgs ELSE Append(m.msgs, what)
<1>1. m.msgs \in Seq(Messages)
  BY DEF Players
<1>2. msgs \in Seq(Messages)
  BY <1>1
<1>3. Post(m, what) = [m EXCEPT !.msgs = msgs]
  BY DEF Post
<1> HIDE DEF msgs
<1> QED BY <1>2, <1>3 DEF Players

LEMMA PostsSame ==
    ASSUME LifeTypeOK, NEW p \in Objects, NEW what \in Messages, NEW m,
           m = Post(mp[p], what) \/ m = mp[p], mp' = [mp EXCEPT ![p] = m]
    PROVE  SameMp
<1>1. mp \in [Objects -> Players] /\ mp[p] \in Players
  BY DEF LifeTypeOK
<1>2. /\ m \in Players /\ m.made = mp[p].made /\ m.refs = mp[p].refs /\ m.freed = mp[p].freed
      /\ m.state = mp[p].state /\ m.lock = mp[p].lock /\ m.is = mp[p].is /\ m.aborted = mp[p].aborted
  BY <1>1, PostIs
<1>3. mp' \in [Objects -> Players] /\ mp'[p] = m /\ \A q \in Objects \ {p} : mp'[q] = mp[q]
  BY <1>1, <1>2
<1> QED BY <1>2, <1>3 DEF SameMp

\* A stream is told to stop.
LEMMA StopSoft ==
    ASSUME LifeTypeOK, NEW s \in Sessions \cup {0}, strm' = StopStream(s)
    PROVE  SameStrm /\ SoftStrm
<1>1. SameStrm
  <2>1. CASE s = 0
    <3>1. strm' = strm
      BY <2>1 DEF StopStream
    <3> QED BY <3>1, SameStrmIs
  <2>2. CASE s # 0
    <3> DEFINE r == [strm[s] EXCEPT !.abort = TRUE]
    <3>1. s \in Sessions /\ strm[s] \in Streams /\ strm \in [Sessions -> Streams]
      BY <2>2 DEF LifeTypeOK
    <3>2. /\ r \in Streams /\ r.freed = strm[s].freed /\ r.read = strm[s].read
          /\ r.refresh = strm[s].refresh /\ r.dec = strm[s].dec
      BY <3>1 DEF Streams
    <3>3. strm' = [strm EXCEPT ![s] = r]
      BY <2>2 DEF StopStream
    <3> HIDE DEF r
    <3> QED BY <3>1, <3>2, <3>3 DEF SameStrm
  <2> QED BY <2>1, <2>2
<1>2. \A t \in Sessions : DecQuiet(t) => DecQuiet(t)'
  BY <1>1 DEF DecQuiet, SameStrm
<1> QED BY <1>1, <1>2 DEF SameStrm, SoftStrm


\* A field of a player that the invariant does not look at, or only one way.
LEMMA RequestKeeps == ASSUME LifeInv, NEW p \in Objects, Request(p) PROVE LifeInv'
<1>1. /\ Now("request", p) /\ todo' = Tail(todo) /\ UNCHANGED <<field, cookies, strm, loop>>
      /\ mp' = [mp EXCEPT ![p] = IF mp[p].state = "prepared" THEN Post(mp[p], "request") ELSE mp[p]]
  BY DEF Request, Done
<1>2. PartsInv /\ "request" \in Alone /\ LifeTypeOK
  BY DEF LifeInv, Alone, PartsInv
<1>3. PICK again \in BOOLEAN : CallInv("request", p, again)
  BY <1>1, CallIs
<1>4. SameMp
  BY <1>1, <1>2, PostsSame DEF Messages
<1>5. SoftMp /\ SoftStrm
  BY <1>1, <1>2, <1>4, SameStrmIs, SameIsSoft
<1> QED BY <1>1, <1>2, <1>3, <1>5, LastStepKeeps

LEMMA StopKeeps == ASSUME LifeInv, NEW p \in Objects, Stop(p) PROVE LifeInv'
<1>1. Now("stop", p) /\ todo' = Tail(todo) /\ UNCHANGED <<field, cookies, loop>>
  BY DEF Stop, Done
<1>2. PartsInv /\ "stop" \in Alone /\ LifeTypeOK
  BY DEF LifeInv, Alone, PartsInv
<1>3. PICK again \in BOOLEAN : CallInv("stop", p, again)
  BY <1>1, CallIs
<1>4. CASE mp[p].state \in {"idle", "initialized", "error"}
  <2>1. mp' = mp /\ strm' = strm
    BY <1>4 DEF Stop
  <2> QED BY <2>1, <1>1, <1>2, <1>3, NothingSoft, LastStepKeeps
<1>5. CASE mp[p].state \notin {"idle", "initialized", "error"}
  <2>1. strm' = StopStream(mp[p].is) /\ mp' = [Aborted(p) EXCEPT ![p].state = "stopped"]
    BY <1>5 DEF Stop
  <2>2. mp' = [mp EXCEPT ![p] = [mp[p] EXCEPT !.aborted = TRUE, !.state = "stopped"]]
    BY <2>1, <1>2 DEF Aborted, LifeTypeOK
  <2>3. mp[p] \in Players /\ mp \in [Objects -> Players]
    BY <1>2 DEF LifeTypeOK
  <2>4. mp' \in [Objects -> Players] /\ \A q \in Objects \ {p} : mp'[q] = mp[q]
    BY <2>2, <2>3 DEF Players
  <2>5. /\ mp'[p].made = mp[p].made /\ mp'[p].refs = mp[p].refs /\ mp'[p].freed = mp[p].freed
        /\ mp'[p].is = mp[p].is /\ mp'[p].aborted = TRUE /\ mp'[p].lock = mp[p].lock
        /\ mp'[p].state = "stopped"
    BY <2>2, <2>3 DEF Players
  <2>6. \A s \in Used : loop[s].mp \in Objects
    BY <1>2 DEF PartsInv, SessionInv
  <2>7. SoftMp
    BY <2>4, <2>5, <2>6 DEF SoftMp
  <2>8. SoftStrm
    BY <2>1, <1>2, <2>3, StopSoft DEF Players
  <2> QED BY <1>1, <1>2, <1>3, <2>7, <2>8, LastStepKeeps
<1> QED BY <1>4, <1>5


\* One instruction of a release after the other.
LEMMA ReleaseNames ==
    /\ Releasing \subseteq Steps
    /\ \A n \in Releasing : n \notin {"idle", "destroy", "unhook", "get", "setup"}
    /\ {"surface", "shutdown", "cookie", "delete", "field", "put", "tell", "join", "components", "refresh", "free"}
          \subseteq Releasing
  BY DEF Steps, Releasing, Closing

LEMMA ReleaseGoesOn ==
    ASSUME PartsInv, UNCHANGED <<field, cookies, loop>>, SameMp, SameStrm,
           NEW n \in Releasing, NEW p \in Objects, NEW again \in BOOLEAN, CallInv(n, p, again),
           NEW m \in Releasing, todo' = Do(m, p, Rest(m, p, again)), StepInv(m, p, again)
    PROVE  LifeInv'
<1>1. n \in Steps /\ m \in Steps /\ n # "idle" /\ RefsInv(n, p, again) /\ Held(m, again) = Held(n, again)
  BY ReleaseNames DEF CallInv, Held
<1>2. Doing(m, p, again)'
  BY ReleaseNames DEF Doing
<1> QED BY <1>1, <1>2, GoesOn

LEMMA SurfaceKeeps == ASSUME LifeInv, NEW p \in Objects, Surface(p) PROVE LifeInv'
<1>1. Now("surface", p) /\ todo' = Tail(todo) /\ UNCHANGED <<field, mp, cookies, strm, loop>>
  BY DEF Surface, Done
<1>2. PartsInv /\ SameMp /\ SameStrm
  BY <1>1, SameMpIs, SameStrmIs DEF LifeInv, PartsInv
<1>3. PICK again \in BOOLEAN : CallInv("surface", p, again) /\ Tail(todo) = Rest("surface", p, again)
  BY <1>1, CallIs
<1>4. todo' = Do("shutdown", p, Rest("shutdown", p, again))
  BY <1>1, <1>3, NextIs
<1>5. StepInv("shutdown", p, again)
  BY <1>3 DEF CallInv, StepInv, Early, Alone, Closing
<1> QED BY <1>1, <1>2, <1>3, <1>4, <1>5, ReleaseNames, ReleaseGoesOn

LEMMA JoinReadKeeps == ASSUME LifeInv, NEW p \in Objects, JoinRead(p) PROVE LifeInv'
<1>1. Now("join", p) /\ todo' = Tail(todo) /\ UNCHANGED <<field, mp, cookies, strm, loop>>
      /\ strm[mp[p].is].read = "ended"
  BY DEF JoinRead, Done
<1>2. PartsInv /\ SameMp /\ SameStrm
  BY <1>1, SameMpIs, SameStrmIs DEF LifeInv, PartsInv
<1>3. PICK again \in BOOLEAN : CallInv("join", p, again) /\ Tail(todo) = Rest("join", p, again)
  BY <1>1, CallIs
<1>4. todo' = Do("components", p, Rest("components", p, again))
  BY <1>1, <1>3, NextIs
<1>5. StepInv("components", p, again)
  BY <1>1, <1>3 DEF CallInv, StepInv, Early, Alone, Closing
<1> QED BY <1>1, <1>2, <1>3, <1>4, <1>5, ReleaseNames, ReleaseGoesOn

LEMMA JoinRefreshKeeps == ASSUME LifeInv, NEW p \in Objects, JoinRefresh(p) PROVE LifeInv'
<1>1. Now("refresh", p) /\ todo' = Tail(todo) /\ UNCHANGED <<field, mp, cookies, strm, loop>>
      /\ strm[mp[p].is].refresh = "ended"
  BY DEF JoinRefresh, Done
<1>2. PartsInv /\ SameMp /\ SameStrm
  BY <1>1, SameMpIs, SameStrmIs DEF LifeInv, PartsInv
<1>3. PICK again \in BOOLEAN : CallInv("refresh", p, again) /\ Tail(todo) = Rest("refresh", p, again)
  BY <1>1, CallIs
<1>4. todo' = Do("free", p, Rest("free", p, again))
  BY <1>1, <1>3, NextIs
<1>5. StepInv("free", p, again)
  BY <1>1, <1>3 DEF CallInv, StepInv, Early, Alone, Closing
<1> QED BY <1>1, <1>2, <1>3, <1>4, <1>5, ReleaseNames, ReleaseGoesOn

\* A player in the place of another.
LEMMA MpIs ==
    ASSUME LifeTypeOK, NEW p \in Objects, NEW m \in Players, mp' = [mp EXCEPT ![p] = m]
    PROVE  mp' \in [Objects -> Players] /\ mp'[p] = m /\ \A q \in Objects \ {p} : mp'[q] = mp[q]
  BY DEF LifeTypeOK

LEMMA StrmIs ==
    ASSUME LifeTypeOK, NEW s \in Sessions, NEW r \in Streams, strm' = [strm EXCEPT ![s] = r]
    PROVE  strm' \in [Sessions -> Streams] /\ strm'[s] = r /\ \A t \in Sessions \ {s} : strm'[t] = strm[t]
  BY DEF LifeTypeOK

\* The weak reference is no longer in the player.
LEMMA CookieSame ==
    ASSUME LifeTypeOK, NEW p \in Objects, mp' = [mp EXCEPT ![p].cookie = FALSE]
    PROVE  SameMp
<1> DEFINE m == [mp[p] EXCEPT !.cookie = FALSE]
<1>1. mp[p] \in Players
  BY DEF LifeTypeOK
<1>2. /\ m \in Players /\ m.made = mp[p].made /\ m.refs = mp[p].refs /\ m.freed = mp[p].freed
      /\ m.state = mp[p].state /\ m.lock = mp[p].lock /\ m.is = mp[p].is /\ m.aborted = mp[p].aborted
  BY <1>1 DEF Players
<1>3. mp' = [mp EXCEPT ![p] = m]
  OBVIOUS
<1> HIDE DEF m
<1>4. mp' \in [Objects -> Players] /\ mp'[p] = m /\ \A q \in Objects \ {p} : mp'[q] = mp[q]
  BY <1>2, <1>3, MpIs
<1> QED BY <1>2, <1>4 DEF SameMp

LEMMA TakeCookieKeeps == ASSUME LifeInv, NEW p \in Objects, TakeCookie(p) PROVE LifeInv'
<1>1. /\ Now("cookie", p) /\ UNCHANGED <<field, cookies, strm, loop>>
      /\ mp' = [mp EXCEPT ![p].cookie = FALSE]
      /\ todo' = IF mp[p].cookie THEN <<<<"delete", p>>>> \o Tail(todo) ELSE Tail(todo)
  BY DEF TakeCookie
<1>2. PartsInv /\ SameMp /\ SameStrm
  BY <1>1, CookieSame, SameStrmIs DEF LifeInv, PartsInv
<1>3. PICK again \in BOOLEAN : CallInv("cookie", p, again) /\ Tail(todo) = Rest("cookie", p, again)
  BY <1>1, CallIs
<1>4. CASE mp[p].cookie
  <2>1. todo' = Do("delete", p, Rest("delete", p, again))
    BY <1>1, <1>3, <1>4, NextIs, Zenon DEF Do
  <2>2. StepInv("delete", p, again)
    BY <1>3 DEF CallInv, StepInv, Early, Alone, Closing
  <2> QED BY <1>1, <1>2, <1>3, <2>1, <2>2, ReleaseNames, ReleaseGoesOn
<1>5. CASE ~ mp[p].cookie
  <2>1. todo' = Do("field", p, Rest("field", p, again))
    BY <1>1, <1>3, <1>5, NextIs
  <2>2. StepInv("field", p, again)
    BY <1>3 DEF CallInv, StepInv, Early, Alone, Closing
  <2> QED BY <1>1, <1>2, <1>3, <2>1, <2>2, ReleaseNames, ReleaseGoesOn
<1> QED BY <1>4, <1>5

LEMMA UnhookKeeps == ASSUME LifeInv, NEW p \in Objects, Unhook(p) PROVE LifeInv'
<1>1. /\ Now("unhook", p) /\ UNCHANGED <<field, cookies, strm, loop>> /\ todo' = Tail(todo)
      /\ mp' = [mp EXCEPT ![p].cookie = FALSE]
  BY DEF Unhook, Done
<1>2. PartsInv /\ SameMp /\ SameStrm
  BY <1>1, CookieSame, SameStrmIs DEF LifeInv, PartsInv
<1>3. PICK again \in BOOLEAN : CallInv("unhook", p, again) /\ Tail(todo) = Rest("unhook", p, again)
  BY <1>1, CallIs
<1>4. todo' = Do("get", p, Rest("get", p, TRUE))
  BY <1>1, <1>3, NextIs
<1>5. StepInv("get", p, TRUE)
  BY <1>3 DEF CallInv, StepInv, Early, Alone, Closing
<1>6. Doing("get", p, TRUE)'
  BY <1>4 DEF Doing, Releasing, Closing
<1>7. /\ "get" \in Steps /\ "unhook" \in Steps /\ RefsInv("unhook", p, again)
      /\ Held("get", TRUE) = Held("unhook", again)
  BY <1>3, StepNames DEF CallInv, Held, Releasing, Closing
<1> QED BY <1>1, <1>2, <1>5, <1>6, <1>7, GoesOn


\* Decoders are told, or opened, or closed.
LEMMA DecIs ==
    ASSUME LifeTypeOK, NEW s \in Sessions, NEW d \in [Media -> {"none", "run", "told", "ended"}],
           strm' = [strm EXCEPT ![s].dec = d]
    PROVE  /\ strm' \in [Sessions -> Streams] /\ strm'[s].dec = d
           /\ \A t \in Sessions : /\ strm'[t].freed = strm[t].freed /\ strm'[t].read = strm[t].read
                                  /\ strm'[t].refresh = strm[t].refresh
                                  /\ t # s => strm'[t].dec = strm[t].dec
<1> DEFINE r == [strm[s] EXCEPT !.dec = d]
<1>1. strm[s] \in Streams
  BY DEF LifeTypeOK
<1>2. r \in Streams /\ r.freed = strm[s].freed /\ r.read = strm[s].read /\ r.refresh = strm[s].refresh /\ r.dec = d
  BY <1>1 DEF Streams
<1>3. strm' = [strm EXCEPT ![s] = r]
  OBVIOUS
<1> HIDE DEF r
<1>4. strm' \in [Sessions -> Streams] /\ strm'[s] = r /\ \A t \in Sessions \ {s} : strm'[t] = strm[t]
  BY <1>2, <1>3, StrmIs
<1> QED BY <1>2, <1>4

LEMMA DecSoft ==
    ASSUME LifeTypeOK, NEW s \in Sessions, NEW d \in [Media -> {"none", "run", "told", "ended"}],
           strm' = [strm EXCEPT ![s].dec = d],
           ~ strm[s].freed \/ \A k \in Media : strm[s].dec[k] \in {"none", "ended"} => d[k] \in {"none", "ended"}
    PROVE  SoftStrm
<1>1. /\ strm' \in [Sessions -> Streams] /\ strm'[s].dec = d
      /\ \A t \in Sessions : /\ strm'[t].freed = strm[t].freed /\ strm'[t].read = strm[t].read
                             /\ strm'[t].refresh = strm[t].refresh
                             /\ t # s => strm'[t].dec = strm[t].dec
  BY DecIs
<1>2. \A t \in Sessions : strm[t].freed /\ DecQuiet(t) => DecQuiet(t)'
  BY <1>1 DEF DecQuiet
<1> QED BY <1>1, <1>2 DEF SoftStrm

LEMMA ToldIs ==
    ASSUME NEW d \in [Media -> {"none", "run", "told", "ended"}]
    PROVE  /\ Told(d) \in [Media -> {"none", "run", "told", "ended"}]
           /\ \A k \in Media : d[k] \in {"none", "ended"} => Told(d)[k] \in {"none", "ended"}
  BY DEF Told

LEMMA MpSoft == ASSUME PartsInv, mp' = mp PROVE SoftMp
<1>1. mp \in [Objects -> Players]
  BY DEF PartsInv, LifeTypeOK
<1> QED BY <1>1 DEF SoftMp

\* The decoders of the stream of a player are told.
LEMMA ToldSoft ==
    ASSUME PartsInv, NEW p \in Objects, mp[p].is # 0, mp' = mp,
           strm' = [strm EXCEPT ![mp[p].is].dec = Told(strm[mp[p].is].dec)]
    PROVE  SoftMp /\ SoftStrm
<1> DEFINE s == mp[p].is
           d == Told(strm[s].dec)
<1>1. s \in Sessions /\ ~ strm[s].freed
  BY Numbers DEF PartsInv, SessionInv
<1>2. d \in [Media -> {"none", "run", "told", "ended"}]
  BY <1>1, ToldIs, LifeFields DEF PartsInv
<1>3. strm' = [strm EXCEPT ![s].dec = d] /\ LifeTypeOK
  BY DEF PartsInv
<1> HIDE DEF s, d
<1>4. SoftStrm
  BY <1>1, <1>2, <1>3, DecSoft
<1> QED BY <1>4, MpSoft

LEMMA SelectKeeps == ASSUME LifeInv, NEW p \in Objects, Select(p) PROVE LifeInv'
<1>1. Now("select", p) /\ todo' = Tail(todo) /\ UNCHANGED <<field, mp, cookies, loop>>
  BY DEF Select, Done
<1>2. PartsInv /\ "select" \in Alone /\ LifeTypeOK
  BY DEF LifeInv, Alone, PartsInv
<1>3. PICK again \in BOOLEAN : CallInv("select", p, again)
  BY <1>1, CallIs
<1>4. SoftMp
  BY <1>1, <1>2, MpSoft
<1>5. CASE mp[p].is = 0
  <2>1. strm' = strm
    BY <1>5 DEF Select
  <2> QED BY <2>1, <1>1, <1>2, <1>3, NothingSoft, LastStepKeeps
<1>6. CASE mp[p].is # 0
  <2> DEFINE s == mp[p].is
  <2>1. PICK k \in Media, opens \in BOOLEAN :
          strm' = [strm EXCEPT ![s].dec[k] = IF strm[s].dec[k] = "none" /\ opens THEN "run" ELSE strm[s].dec[k]]
    BY <1>6 DEF Select
  <2> DEFINE d == [strm[s].dec EXCEPT ![k] = IF strm[s].dec[k] = "none" /\ opens THEN "run" ELSE strm[s].dec[k]]
  <2>2. s \in Sessions /\ ~ strm[s].freed
    BY <1>2, <1>6, Numbers DEF PartsInv, SessionInv
  <2>3. strm[s].dec \in [Media -> {"none", "run", "told", "ended"}]
    BY <1>2, <2>2, LifeFields
  <2>4. d \in [Media -> {"none", "run", "told", "ended"}]
    BY <2>3
  <2>5. strm' = [strm EXCEPT ![s].dec = d]
    BY <2>1
  <2> HIDE DEF s, d
  <2>6. SoftStrm
    BY <1>2, <2>2, <2>4, <2>5, DecSoft
  <2> QED BY <1>1, <1>2, <1>3, <1>4, <2>6, LastStepKeeps
<1> QED BY <1>5, <1>6

LEMMA TellDecodersKeeps == ASSUME LifeInv, NEW p \in Objects, TellDecoders(p) PROVE LifeInv'
<1>1. /\ Now("tell", p) /\ todo' = Tail(todo) /\ UNCHANGED <<field, mp, cookies, loop>>
      /\ strm' = [strm EXCEPT ![mp[p].is].dec = Told(strm[mp[p].is].dec)]
  BY DEF TellDecoders, Done
<1>2. PartsInv /\ LifeTypeOK /\ SameMp
  BY <1>1, SameMpIs DEF LifeInv, PartsInv
<1>3. PICK again \in BOOLEAN : CallInv("tell", p, again) /\ Tail(todo) = Rest("tell", p, again)
  BY <1>1, CallIs
<1>4. mp[p].is # 0
  BY <1>3 DEF CallInv, StepInv, Closing
<1>5. SoftMp /\ SoftStrm
  BY <1>1, <1>2, <1>4, ToldSoft
<1>6. PartsInv'
  BY <1>1, <1>2, <1>5, PartsKept
<1>7. /\ "tell" \in Steps /\ "join" \in Steps /\ RefsInv("tell", p, again)
      /\ Held("join", again) = Held("tell", again)
  BY <1>3, StepNames DEF CallInv, Held, Releasing, Closing
<1>8. RefsInv("join", p, again)'
  BY <1>1, <1>2, <1>7, RefsStay
<1>9. todo' = Do("join", p, Rest("join", p, again))
  BY <1>1, <1>3, NextIs
<1>10. Doing("join", p, again)'
  BY <1>9 DEF Doing, Releasing, Closing
<1>11. StepInv("join", p, again)'
  BY <1>1, <1>3 DEF CallInv, StepInv, Early, Alone, Closing, Used
<1> QED BY <1>6, <1>7, <1>8, <1>10, <1>11 DEF CallInv, LifeInv

LEMMA CloseComponentsKeeps == ASSUME LifeInv, NEW p \in Objects, CloseComponents(p) PROVE LifeInv'
<1>1. Now("components", p) /\ UNCHANGED <<field, mp, cookies, loop>>
  BY DEF CloseComponents
<1>2. PartsInv /\ LifeTypeOK /\ SameMp
  BY <1>1, SameMpIs DEF LifeInv, PartsInv
<1>3. PICK again \in BOOLEAN : CallInv("components", p, again) /\ Tail(todo) = Rest("components", p, again)
  BY <1>1, CallIs
<1>4. mp[p].is # 0 /\ mp[p].is \in Sessions
  BY <1>2, <1>3, LifeFields DEF CallInv, StepInv, Closing
<1>5. strm[mp[p].is].dec \in [Media -> {"none", "run", "told", "ended"}]
  BY <1>2, <1>4, LifeFields
<1>6. CASE \E k \in Media : strm[mp[p].is].dec[k] = "run"
  <2>1. strm' = [strm EXCEPT ![mp[p].is].dec = Told(strm[mp[p].is].dec)] /\ todo' = todo
    BY <1>6 DEF CloseComponents
  <2>2. SoftMp /\ SoftStrm
    BY <1>1, <1>2, <1>4, <2>1, ToldSoft
  <2>3. PartsInv'
    BY <1>1, <1>2, <2>2, PartsKept
  <2>4. "components" \in Steps /\ RefsInv("components", p, again)
    BY <1>3, StepNames DEF CallInv
  <2>5. RefsInv("components", p, again)'
    BY <1>1, <1>2, <2>4, RefsStay
  <2>6. Doing("components", p, again)'
    BY <2>1, <1>3 DEF Doing, CallInv
  <2>7. strm'[mp[p].is].read = strm[mp[p].is].read
    BY <1>2, <1>4, <1>5, <2>1, DecIs, ToldIs
  <2>8. StepInv("components", p, again)'
    BY <1>1, <1>3, <2>7 DEF CallInv, StepInv, Early, Alone, Closing, Used
  <2> QED BY <2>3, <2>4, <2>5, <2>6, <2>8 DEF CallInv, LifeInv
<1>7. CASE ~ \E k \in Media : strm[mp[p].is].dec[k] = "run"
  <2>1. strm' = strm /\ todo' = Tail(todo) /\ \A k \in Media : strm[mp[p].is].dec[k] # "told"
    BY <1>7 DEF CloseComponents, Done
  <2>2. todo' = Do("refresh", p, Rest("refresh", p, again))
    BY <1>3, <2>1, NextIs
  <2>3. \A k \in Media : strm[mp[p].is].dec[k] \in {"none", "ended"}
    BY <1>5, <1>7, <2>1
  <2>4. StepInv("refresh", p, again)
    BY <1>3, <2>3 DEF CallInv, StepInv, Early, Alone, Closing
  <2>5. SameStrm
    BY <1>2, <2>1, SameStrmIs
  <2> QED BY <1>1, <1>2, <1>3, <2>2, <2>4, <2>5, ReleaseNames, ReleaseGoesOn
<1> QED BY <1>6, <1>7


\* A sequence that begins with an element.
LEMMA Begins ==
    ASSUME NEW S, NEW a \in S, NEW s \in Seq(S), NEW t \in Seq(S), NEW long \in Seq(S),
           Len(long) = Len(s) + 1, long[1] = a, \A i \in 1 .. Len(s) : long[i + 1] = s[i]
    PROVE  long \o t = <<a>> \o (s \o t)
<1>1. <<a>> \in Seq(S) /\ Len(<<a>>) = 1 /\ <<a>>[1] = a /\ Len(s) \in Nat
  OBVIOUS
<1>2. <<a>> \o s \in Seq(S) /\ Len(<<a>> \o s) = Len(s) + 1
  BY <1>1, ConcatProperties
<1>3. (<<a>> \o s)[1] = a /\ \A i \in 1 .. Len(s) : (<<a>> \o s)[i + 1] = s[i]
  BY <1>1
<1>4. ASSUME NEW i \in 1 .. Len(long) PROVE long[i] = (<<a>> \o s)[i]
  <2>1. CASE i = 1
    BY <1>3, <2>1
  <2>2. CASE i # 1
    <3>1. i - 1 \in 1 .. Len(s) /\ (i - 1) + 1 = i
      BY <1>1, <2>2
    <3> QED BY <1>3, <3>1
  <2> QED BY <2>1, <2>2
<1>5. long = <<a>> \o s
  BY <1>2, <1>4, SeqEqual
<1>6. (<<a>> \o s) \o t = <<a>> \o (s \o t)
  BY <1>1, ConcatAssociative
<1> QED BY <1>5, <1>6

\* Instructions by name, one by one.
Named(names, p, rest) == [i \in 1 .. Len(names) |-> <<names[i], p>>] \o rest

LEMMA NamedIs ==
    ASSUME NEW p \in Objects, NEW a \in Steps, NEW names \in Seq(Steps), NEW rest \in Seq(Instructions)
    PROVE  Named(<<a>> \o names, p, rest) = Do(a, p, Named(names, p, rest))
<1> DEFINE all == <<a>> \o names
           long == [i \in 1 .. Len(all) |-> <<all[i], p>>]
           short == [i \in 1 .. Len(names) |-> <<names[i], p>>]
<1>1. /\ all \in Seq(Steps) /\ Len(all) = Len(names) + 1 /\ all[1] = a /\ Len(names) \in Nat
      /\ \A i \in 1 .. Len(names) : all[i + 1] = names[i]
  OBVIOUS
<1>2. short \in Seq(Instructions) /\ Len(short) = Len(names)
  BY DEF Instructions
<1>3. long \in Seq(Instructions) /\ Len(long) = Len(all)
  BY <1>1 DEF Instructions
<1>4. <<a, p>> \in Instructions
  BY DEF Instructions
<1>5. long[1] = <<a, p>> /\ \A i \in 1 .. Len(names) : long[i + 1] = <<names[i], p>> /\ short[i] = <<names[i], p>>
  BY <1>1
<1>6. Len(long) = Len(short) + 1 /\ \A i \in 1 .. Len(short) : long[i + 1] = short[i]
  BY <1>1, <1>2, <1>3, <1>5
<1> HIDE DEF all, long, short
<1>7. long \o rest = <<<<a, p>>>> \o (short \o rest)
  BY <1>2, <1>3, <1>4, <1>5, <1>6, Begins
<1> QED BY <1>7 DEF Do, Named, all, long, short


LEMMA NamedEnds ==
    ASSUME NEW p \in Objects, NEW a \in Steps, NEW rest \in Seq(Instructions)
    PROVE  /\ Named(<<>>, p, rest) = rest
           /\ Named(<<a>>, p, rest) = Do(a, p, rest)
<1>1. [i \in 1 .. 0 |-> <<(<<>>)[i], p>>] = <<>>
  OBVIOUS
<1>2. Named(<<>>, p, rest) = rest
  BY <1>1 DEF Named
<1>3. <<>> \in Seq(Steps) /\ <<a>> \o <<>> = <<a>>
  OBVIOUS
<1>4. Named(<<a>> \o <<>>, p, rest) = Do(a, p, Named(<<>>, p, rest))
  BY <1>3, NamedIs
<1> QED BY <1>2, <1>3, <1>4

LEMMA ClosingIs ==
    ASSUME NEW p \in Objects, NEW again \in BOOLEAN
    PROVE  [i \in 1 .. 5 |-> <<<<"tell", "join", "components", "refresh", "free">>[i], p>>] \o AfterFree(p, again)
              = Do("tell", p, Rest("tell", p, again))
<1> DEFINE rest == AfterFree(p, again)
           n1 == <<"free">>
           n2 == <<"refresh", "free">>
           n3 == <<"components", "refresh", "free">>
           n4 == <<"join", "components", "refresh", "free">>
           n5 == <<"tell", "join", "components", "refresh", "free">>
<1>1. rest \in Seq(Instructions)
  BY AftersAre
<1>2. n1 \in Seq(Steps) /\ n2 \in Seq(Steps) /\ n3 \in Seq(Steps) /\ n4 \in Seq(Steps)
  BY StepNames
<1>3. n2 = <<"refresh">> \o n1 /\ n3 = <<"components">> \o n2 /\ n4 = <<"join">> \o n3 /\ n5 = <<"tell">> \o n4
  OBVIOUS
<1>4. Len(n5) = 5
  OBVIOUS
<1>5. [i \in 1 .. 5 |-> <<n5[i], p>>] \o rest = Named(n5, p, rest)
  BY <1>4, Zenon DEF Named
<1>6. Named(n1, p, rest) = AfterRefresh(p, again)
  BY <1>1, NamedEnds, StepNames DEF AfterRefresh
<1> HIDE DEF rest, n1, n2, n3, n4, n5
<1>a. \A a \in Steps, names \in Seq(Steps) : Named(<<a>> \o names, p, rest) = Do(a, p, Named(names, p, rest))
  BY <1>1, NamedIs
<1>b. "refresh" \in Steps /\ "components" \in Steps /\ "join" \in Steps /\ "tell" \in Steps
  BY StepNames
<1>c. /\ Named(<<"refresh">> \o n1, p, rest) = Do("refresh", p, Named(n1, p, rest))
      /\ Named(<<"components">> \o n2, p, rest) = Do("components", p, Named(n2, p, rest))
      /\ Named(<<"join">> \o n3, p, rest) = Do("join", p, Named(n3, p, rest))
      /\ Named(<<"tell">> \o n4, p, rest) = Do("tell", p, Named(n4, p, rest))
  BY <1>2, <1>a, <1>b
<1>7. Named(n2, p, rest) = AfterComponents(p, again)
  BY <1>3, <1>6, <1>c DEF AfterComponents
<1>8. Named(n3, p, rest) = AfterJoin(p, again)
  BY <1>3, <1>7, <1>c DEF AfterJoin
<1>9. Named(n4, p, rest) = AfterTell(p, again)
  BY <1>3, <1>8, <1>c DEF AfterTell
<1>10. Named(n5, p, rest) = Do("tell", p, AfterTell(p, again))
  BY <1>3, <1>9, <1>c
<1>11. Rest("tell", p, again) = AfterTell(p, again)
  BY DEF Rest, Alone
<1> QED BY <1>5, <1>10, <1>11 DEF rest, n5


\* No message loop is pressing the switches of the player's stream.
Untouched(p) == \A s \in Used : loop[s].mp = p => loop[s].pc # "touch"

\* One player changes, in nothing that does harm.
LEMMA OneSoft ==
    ASSUME PartsInv, NEW p \in Objects, NEW m \in Players, mp' = [mp EXCEPT ![p] = m],
           m.made = mp[p].made, m.refs = mp[p].refs, m.freed = mp[p].freed, m.is = mp[p].is,
           mp[p].aborted => m.aborted,
           m.state \in {"idle", "initialized"} => mp[p].state \in {"idle", "initialized"},
           m.lock = mp[p].lock \/ Untouched(p)
    PROVE  SoftMp
<1>1. mp' \in [Objects -> Players] /\ mp'[p] = m /\ \A q \in Objects \ {p} : mp'[q] = mp[q]
  BY MpIs DEF PartsInv
<1>2. \A s \in Used : loop[s].mp \in Objects
  BY DEF PartsInv, SessionInv
<1>3. \A s \in Used : loop[s].pc = "touch" => mp'[loop[s].mp].lock = mp[loop[s].mp].lock
  BY <1>1, <1>2 DEF Untouched
<1>4. ASSUME NEW q \in Objects
      PROVE  /\ mp'[q].made = mp[q].made /\ mp'[q].refs = mp[q].refs /\ mp'[q].freed = mp[q].freed
             /\ mp'[q].is = mp[q].is /\ (mp[q].aborted => mp'[q].aborted)
             /\ mp'[q].state \in {"idle", "initialized"} => mp[q].state \in {"idle", "initialized"}
  BY <1>1
<1> QED BY <1>1, <1>3, <1>4 DEF SoftMp

\* The lock of a player that no message loop has: none of them is at "touch".
LEMMA LockFree ==
    ASSUME PartsInv, NEW p \in Objects, Unlocked(p)
    PROVE  Untouched(p)
  BY Numbers DEF PartsInv, LateInv, Unlocked, Untouched

LEMMA LockSoft ==
    ASSUME PartsInv, NEW p \in Objects, NEW lock \in Nat, mp' = [mp EXCEPT ![p].lock = lock],
           Untouched(p)
    PROVE  SoftMp /\ mp'[p].is = mp[p].is /\ mp'[p].lock = lock
<1> DEFINE m == [mp[p] EXCEPT !.lock = lock]
<1>1. mp[p] \in Players
  BY DEF PartsInv, LifeTypeOK
<1>2. /\ m \in Players /\ m.made = mp[p].made /\ m.refs = mp[p].refs /\ m.freed = mp[p].freed
      /\ m.is = mp[p].is /\ m.aborted = mp[p].aborted /\ m.state = mp[p].state /\ m.lock = lock
  BY <1>1 DEF Players
<1>3. mp' = [mp EXCEPT ![p] = m]
  OBVIOUS
<1> HIDE DEF m
<1>4. SoftMp
  BY <1>2, <1>3, OneSoft
<1>5. mp'[p] = m
  BY <1>2, <1>3, MpIs DEF PartsInv
<1> QED BY <1>2, <1>4, <1>5

LEMMA DeselectedKeeps == ASSUME LifeInv, NEW p \in Objects, Deselected(p) PROVE LifeInv'
<1>1. /\ Now("deselected", p) /\ todo' = Tail(todo) /\ UNCHANGED <<field, cookies, loop>>
      /\ mp' = [mp EXCEPT ![p].lock = 0]
  BY DEF Deselected, Done
<1>2. PartsInv /\ "deselected" \in Alone /\ LifeTypeOK
  BY DEF LifeInv, Alone, PartsInv
<1>3. PICK again \in BOOLEAN : CallInv("deselected", p, again)
  BY <1>1, CallIs
<1>4. mp[p].is # 0 /\ Untouched(p)
  BY <1>3 DEF CallInv, StepInv, Untouched
<1>5. SoftMp
  BY <1>1, <1>2, <1>4, LockSoft
<1> DEFINE s == mp[p].is
<1>6. PICK k \in Media : strm' = [strm EXCEPT ![s].dec[k] = "none"]
  BY DEF Deselected
<1> DEFINE d == [strm[s].dec EXCEPT ![k] = "none"]
<1>7. s \in Sessions /\ ~ strm[s].freed
  BY <1>2, <1>4, Numbers DEF PartsInv, SessionInv
<1>8. strm[s].dec \in [Media -> {"none", "run", "told", "ended"}]
  BY <1>2, <1>7, LifeFields
<1>9. d \in [Media -> {"none", "run", "told", "ended"}]
  BY <1>8
<1>10. strm' = [strm EXCEPT ![s].dec = d]
  BY <1>6
<1> HIDE DEF s, d
<1>11. SoftStrm
  BY <1>2, <1>7, <1>9, <1>10, DecSoft
<1> QED BY <1>1, <1>2, <1>3, <1>5, <1>11, LastStepKeeps

LEMMA DeselectKeeps == ASSUME LifeInv, NEW p \in Objects, Deselect(p) PROVE LifeInv'
<1>1. Now("deselect", p) /\ UNCHANGED <<field, cookies, loop>> /\ Unlocked(p)
  BY DEF Deselect
<1>2. PartsInv /\ LifeTypeOK
  BY DEF LifeInv, PartsInv
<1>3. PICK again \in BOOLEAN : CallInv("deselect", p, again) /\ Tail(todo) = Rest("deselect", p, again)
  BY <1>1, CallIs
<1>4. /\ again = FALSE /\ "deselect" \in Steps /\ RefsInv("deselect", p, again) /\ field = p
      /\ Held("put", FALSE) = Held("deselect", again) /\ Held("deselected", FALSE) = Held("deselect", again)
  BY <1>3, StepNames DEF CallInv, Doing, StepInv, Held, Releasing, Closing, Early
<1> DEFINE s == mp[p].is
<1>5. CASE s = 0 \/ \A k \in Media : strm[s].dec[k] = "none"
  <2>1. mp' = mp /\ strm' = strm /\ todo' = Tail(Tail(todo))
    BY <1>5 DEF Deselect
  <2>2. Doing("put", p, FALSE)'
    BY <1>3, <1>4, <2>1, NextIs DEF Doing, Releasing
  <2>3. StepInv("put", p, FALSE)
    BY <1>3, <1>4 DEF CallInv, StepInv, Early, Alone, Closing
  <2>4. SameMp /\ SameStrm
    BY <1>2, <2>1, SameMpIs, SameStrmIs
  <2> QED BY <1>1, <1>2, <1>4, <2>2, <2>3, <2>4, StepNames, GoesOn
<1>6. CASE ~ (s = 0 \/ \A k \in Media : strm[s].dec[k] = "none")
  <2>1. todo' = Tail(todo) /\ mp' = [mp EXCEPT ![p].lock = 1]
    BY <1>6 DEF Deselect, Done
  <2>2. PICK k \in Media : strm' = [strm EXCEPT ![s].dec[k] = IF strm[s].dec[k] = "run" THEN "told" ELSE strm[s].dec[k]]
    BY <1>6 DEF Deselect
  <2> DEFINE d == [strm[s].dec EXCEPT ![k] = IF strm[s].dec[k] = "run" THEN "told" ELSE strm[s].dec[k]]
  <2>3. s \in Sessions /\ ~ strm[s].freed
    BY <1>2, <1>6, Numbers DEF PartsInv, SessionInv
  <2>4. strm[s].dec \in [Media -> {"none", "run", "told", "ended"}]
    BY <1>2, <2>3, LifeFields
  <2>5. d \in [Media -> {"none", "run", "told", "ended"}]
    BY <2>4
  <2>6. strm' = [strm EXCEPT ![s].dec = d]
    BY <2>2
  <2> HIDE DEF d
  <2>7. SoftStrm
    BY <1>2, <2>3, <2>5, <2>6, DecSoft
  <2>8. Untouched(p)
    BY <1>1, <1>2, LockFree
  <2>9. SoftMp /\ mp'[p].is = mp[p].is /\ mp'[p].lock = 1
    BY <1>2, <2>1, <2>8, LockSoft
  <2>10. PartsInv'
    BY <1>1, <1>2, <2>7, <2>9, PartsKept
  <2>11. \A q \in Objects : mp'[q].made = mp[q].made /\ mp'[q].refs = mp[q].refs
    BY <2>9 DEF SoftMp
  <2>12. RefsInv("deselected", p, FALSE)'
    BY <1>1, <1>4, <2>11, StepNames, RefsStay
  <2>13. Doing("deselected", p, FALSE)'
    BY <1>3, <1>4, <2>1, NextIs DEF Doing, Releasing, Closing
  <2>14. StepInv("deselected", p, FALSE)'
    BY <1>1, <1>3, <1>4, <1>6, <2>8, <2>9 DEF CallInv, StepInv, Early, Alone, Closing, Used, Untouched
  <2> QED BY <2>10, <2>12, <2>13, <2>14, StepNames DEF CallInv, LifeInv
<1> QED BY <1>5, <1>6

LEMMA ShutdownRest ==
    ASSUME NEW p \in Objects, NEW again \in BOOLEAN PROVE Rest("shutdown", p, again) = AfterFree(p, again)
  BY DEF Rest, Alone

LEMMA ShutdownKeeps == ASSUME LifeInv, NEW p \in Objects, Shutdown(p) PROVE LifeInv'
<1>1. /\ Now("shutdown", p) /\ UNCHANGED <<field, cookies, loop>>
      /\ strm' = StopStream(mp[p].is) /\ mp' = [mp EXCEPT ![p].aborted = TRUE]
  BY DEF Shutdown, Aborted
<1>2. PartsInv /\ LifeTypeOK /\ mp[p] \in Players /\ mp[p].is \in Sessions \cup {0}
  BY DEF LifeInv, PartsInv, LifeTypeOK, Players
<1>3. PICK again \in BOOLEAN : CallInv("shutdown", p, again) /\ Tail(todo) = Rest("shutdown", p, again)
  BY <1>1, CallIs
<1>4. SoftMp /\ mp'[p].is = mp[p].is /\ mp'[p].aborted
  <2> DEFINE m == [mp[p] EXCEPT !.aborted = TRUE]
  <2>1. /\ m \in Players /\ m.made = mp[p].made /\ m.refs = mp[p].refs /\ m.freed = mp[p].freed
        /\ m.is = mp[p].is /\ m.aborted /\ m.state = mp[p].state /\ m.lock = mp[p].lock
    BY <1>2 DEF Players
  <2>2. mp' = [mp EXCEPT ![p] = m]
    BY <1>1
  <2> HIDE DEF m
  <2>3. SoftMp
    BY <1>2, <2>1, <2>2, OneSoft
  <2>4. mp'[p] = m
    BY <1>2, <2>1, <2>2, MpIs
  <2> QED BY <2>1, <2>3, <2>4
<1>5. SoftStrm
  BY <1>1, <1>2, StopSoft
<1>6. PartsInv'
  BY <1>1, <1>2, <1>4, <1>5, PartsKept
<1>7. \A q \in Objects : mp'[q].made = mp[q].made /\ mp'[q].refs = mp[q].refs
  BY <1>4 DEF SoftMp
<1>8. /\ "shutdown" \in Steps /\ RefsInv("shutdown", p, again)
      /\ Held("tell", again) = Held("shutdown", again) /\ Held("cookie", again) = Held("shutdown", again)
  BY <1>3, StepNames DEF CallInv, Held, Releasing, Closing
<1>9. CASE mp[p].is = 0
  <2>1. todo' = Tail(todo)
    BY <1>9 DEF Shutdown
  <2>2. Doing("cookie", p, again)'
    BY <1>3, <2>1, NextIs DEF Doing, Releasing, Closing
  <2>3. RefsInv("cookie", p, again)'
    BY <1>1, <1>7, <1>8, StepNames, RefsStay
  <2>4. StepInv("cookie", p, again)'
    BY <1>1, <1>3, <1>4, <1>9 DEF CallInv, StepInv, Early, Alone, Closing, Used
  <2> QED BY <1>6, <2>2, <2>3, <2>4, StepNames DEF CallInv, LifeInv
<1>10. CASE mp[p].is # 0
  <2>1. todo' = [i \in 1 .. 5 |-> <<<<"tell", "join", "components", "refresh", "free">>[i], p>>] \o Tail(todo)
    BY <1>10 DEF Shutdown
  <2>2. todo' = Do("tell", p, Rest("tell", p, again))
    BY <1>3, <2>1, ClosingIs, ShutdownRest
  <2>3. Doing("tell", p, again)'
    BY <2>2 DEF Doing, Releasing, Closing
  <2>4. RefsInv("tell", p, again)'
    BY <1>1, <1>7, <1>8, StepNames, RefsStay
  <2>5. StepInv("tell", p, again)'
    BY <1>1, <1>3, <1>4, <1>10 DEF CallInv, StepInv, Early, Alone, Closing, Used
  <2> QED BY <1>6, <2>3, <2>4, <2>5, StepNames DEF CallInv, LifeInv
<1> QED BY <1>9, <1>10


-----------------------------------------------------------------------------
(***************************************************************************)
(* References taken and given back.                                        *)
(***************************************************************************)
LEMMA RefsChange ==
    ASSUME PartsInv, UNCHANGED <<cookies, strm, loop>>, field' \in Objects \cup {0},
           NEW p \in Objects, NEW r \in Nat, mp' = [mp EXCEPT ![p].refs = r], mp[p].refs # 0
    PROVE  /\ PartsInv'
           /\ mp'[p].refs = r /\ \A q \in Objects \ {p} : mp'[q].refs = mp[q].refs
           /\ \A q \in Objects :
                /\ mp'[q].made = mp[q].made /\ mp'[q].freed = mp[q].freed /\ mp'[q].state = mp[q].state
                /\ mp'[q].lock = mp[q].lock /\ mp'[q].is = mp[q].is /\ mp'[q].aborted = mp[q].aborted
<1> DEFINE m == [mp[p] EXCEPT !.refs = r]
<1>1. mp[p] \in Players /\ LifeTypeOK
  BY DEF PartsInv, LifeTypeOK
<1>2. /\ m \in Players /\ m.refs = r /\ m.made = mp[p].made /\ m.freed = mp[p].freed /\ m.state = mp[p].state
      /\ m.lock = mp[p].lock /\ m.is = mp[p].is /\ m.aborted = mp[p].aborted
  BY <1>1 DEF Players
<1>3. mp' = [mp EXCEPT ![p] = m]
  OBVIOUS
<1> HIDE DEF m
<1>4. mp' \in [Objects -> Players] /\ mp'[p] = m /\ \A q \in Objects \ {p} : mp'[q] = mp[q]
  BY <1>1, <1>2, <1>3, MpIs
<1>5. mp'[p].refs = r /\ \A q \in Objects \ {p} : mp'[q].refs = mp[q].refs
  BY <1>2, <1>4
<1>6. \A q \in Objects :
        /\ mp'[q].made = mp[q].made /\ mp'[q].freed = mp[q].freed /\ mp'[q].state = mp[q].state
        /\ mp'[q].lock = mp[q].lock /\ mp'[q].is = mp[q].is /\ mp'[q].aborted = mp[q].aborted
  BY <1>2, <1>4
<1>7. Used' = Used /\ \A s \in Used : s \in Sessions /\ loop[s].mp \in Objects
  BY DEF Used, PartsInv, SessionInv
<1>8. LifeTypeOK'
  BY <1>1, <1>4 DEF LifeTypeOK
<1>9. SessionInv'
  BY <1>6, <1>7 DEF PartsInv, SessionInv
<1>10. StreamInv'
  BY <1>6, <1>7 DEF PartsInv, StreamInv, Quiet
<1>11. LateInv'
  BY <1>6, <1>7 DEF PartsInv, LateInv
<1>12. ~ mp[p].freed /\ \A s \in Used : loop[s].pc = "destroy" => loop[s].mp # p
  BY DEF PartsInv, FreedInv
<1>13. FreedInv'
  BY <1>5, <1>6, <1>7, <1>12 DEF PartsInv, FreedInv
<1> QED BY <1>5, <1>6, <1>8, <1>9, <1>10, <1>11, <1>13 DEF PartsInv

\* The numbers a reference count is made of.
LEMMA RefNumbers ==
    /\ \A p : FieldRef(p) \in {0, 1} /\ LoopRef(p) \in {0, 1}
    /\ \A n, again : Held(n, again) \in {0, 1, 2}
  BY DEF FieldRef, LoopRef, Held

\* Somebody is at work on the player: it was made, and has a reference.
LEMMA CountIs ==
    ASSUME PartsInv, NEW n, NEW p \in Objects, NEW again, RefsInv(n, p, again), n # "idle"
    PROVE  mp[p].made /\ mp[p].refs = FieldRef(p) + LoopRef(p) + Held(n, again)
  BY DEF RefsInv

\* The references of the other players stay what they are.
LEMMA RefsMove ==
    ASSUME PartsInv, NEW n, NEW p \in Objects, NEW again, RefsInv(n, p, again), n # "idle",
           NEW m, NEW b, field' \in {field, 0, p},
           \A q \in Objects : mp'[q].made = mp[q].made,
           \A q \in Objects \ {p} : /\ mp'[q].refs = mp[q].refs
                                    /\ FieldRef(q)' = FieldRef(q) /\ LoopRef(q)' = LoopRef(q),
           mp'[p].refs = FieldRef(p)' + LoopRef(p)' + Held(m, b)
    PROVE  RefsInv(m, p, b)'
<1>1. mp'[p].made
  BY CountIs
<1>2. ASSUME NEW q \in Objects \ {p}
      PROVE  IF mp'[q].made THEN mp'[q].refs = FieldRef(q)' + LoopRef(q)' + 0
                            ELSE mp'[q].refs = 0 /\ field' # q
  <2>1. IF mp[q].made THEN mp[q].refs = FieldRef(q) + LoopRef(q) + 0 ELSE mp[q].refs = 0 /\ field # q
    BY DEF RefsInv
  <2> QED BY <2>1, Numbers
<1>3. ASSUME NEW q \in Objects
      PROVE  IF mp'[q].made THEN mp'[q].refs = FieldRef(q)' + LoopRef(q)' + (IF q = p THEN Held(m, b) ELSE 0)
                            ELSE mp'[q].refs = 0 /\ field' # q /\ (m # "idle" => q # p)
  BY <1>1, <1>2
<1> QED BY <1>3 DEF RefsInv

LEMMA GetKeeps == ASSUME LifeInv, NEW p \in Objects, Get(p) PROVE LifeInv'
<1>1. /\ Now("get", p) /\ todo' = Tail(todo) /\ UNCHANGED <<field, cookies, strm, loop>>
      /\ mp' = [mp EXCEPT ![p].refs = mp[p].refs + 1]
  BY DEF Get, Done
<1>2. PartsInv /\ LifeTypeOK /\ mp[p].refs \in Nat
  BY LifeFields DEF LifeInv, PartsInv
<1>3. PICK again \in BOOLEAN : CallInv("get", p, again) /\ Tail(todo) = Rest("get", p, again)
  BY <1>1, CallIs
<1>e. again = TRUE
  BY <1>3 DEF CallInv, Doing
<1>4. Held("get", again) = 1 /\ Held("surface", again) = 2 /\ RefsInv("get", p, again)
  BY <1>3, <1>e, ReleaseNames DEF CallInv, Held
<1>a. mp[p].made /\ mp[p].refs = FieldRef(p) + LoopRef(p) + Held("get", again)
  BY <1>2, <1>4, CountIs
<1>5. mp[p].made /\ mp[p].refs = FieldRef(p) + LoopRef(p) + 1
  BY <1>4, <1>a
<1> DEFINE r == mp[p].refs + 1
<1>6. r \in Nat /\ mp[p].refs # 0 /\ r = FieldRef(p) + LoopRef(p) + 2 /\ mp' = [mp EXCEPT ![p].refs = r]
  BY <1>1, <1>2, <1>5, RefNumbers
<1>7. field' \in Objects \cup {0}
  BY <1>1, <1>2 DEF LifeTypeOK
<1> HIDE DEF r
<1>8. /\ PartsInv'
      /\ mp'[p].refs = r /\ \A q \in Objects \ {p} : mp'[q].refs = mp[q].refs
      /\ \A q \in Objects :
           /\ mp'[q].made = mp[q].made /\ mp'[q].freed = mp[q].freed /\ mp'[q].state = mp[q].state
           /\ mp'[q].lock = mp[q].lock /\ mp'[q].is = mp[q].is /\ mp'[q].aborted = mp[q].aborted
  BY <1>1, <1>2, <1>6, <1>7, RefsChange
<1>9. \A q \in Objects : FieldRef(q)' = FieldRef(q) /\ LoopRef(q)' = LoopRef(q)
  BY <1>1 DEF FieldRef, LoopRef, Refers
<1>d. /\ field' \in {field, 0, p}
      /\ \A q \in Objects : mp'[q].made = mp[q].made
      /\ \A q \in Objects \ {p} : /\ mp'[q].refs = mp[q].refs
                                  /\ FieldRef(q)' = FieldRef(q) /\ LoopRef(q)' = LoopRef(q)
  BY <1>1, <1>8, <1>9
<1>b. mp'[p].refs = FieldRef(p)' + LoopRef(p)' + Held("surface", again)
  BY <1>4, <1>6, <1>8, <1>9
<1>10. RefsInv("surface", p, again)'
  BY <1>2, <1>4, <1>b, <1>d, RefsMove
<1>c. todo' = Do("surface", p, Rest("surface", p, again))
  BY <1>1, <1>3, <1>e, NextIs, Zenon
<1>11. Doing("surface", p, again)'
  BY <1>c DEF Doing, Releasing, Closing
<1>12. StepInv("surface", p, again)'
  BY <1>1, <1>3, <1>8 DEF CallInv, StepInv, Early, Alone, Closing, Used
<1> QED BY <1>8, <1>10, <1>11, <1>12, StepNames DEF CallInv, LifeInv

LEMMA ClearFieldKeeps == ASSUME LifeInv, NEW p \in Objects, ClearField(p) PROVE LifeInv'
<1>1. /\ Now("field", p) /\ todo' = Tail(todo) /\ UNCHANGED <<cookies, strm, loop>> /\ field' = 0
      /\ field # 0 => mp' = [mp EXCEPT ![field].refs = mp[field].refs - 1]
  BY DEF ClearField, Done
<1>2. PartsInv /\ LifeTypeOK /\ mp[p].refs \in Nat
  BY LifeFields DEF LifeInv, PartsInv
<1>3. PICK again \in BOOLEAN : CallInv("field", p, again) /\ Tail(todo) = Rest("field", p, again)
  BY <1>1, CallIs
<1>4. /\ Held("field", again) = Held("put", again) /\ Held("field", again) # 0
      /\ RefsInv("field", p, again) /\ field = p /\ p # 0
  BY <1>3, ReleaseNames, Numbers DEF CallInv, Held, StepInv
<1> DEFINE r == mp[p].refs - 1
<1>5. mp[p].made /\ mp[p].refs = 1 + LoopRef(p) + Held("field", again)
  BY <1>2, <1>4, CountIs DEF FieldRef
<1>a. mp' = [mp EXCEPT ![p].refs = r]
  BY <1>1, <1>4
<1>6. r \in Nat /\ mp[p].refs # 0 /\ r = LoopRef(p) + Held("field", again)
  <2>1. LoopRef(p) \in {0, 1} /\ Held("field", again) \in {0, 1, 2}
    BY RefNumbers
  <2>2. mp[p].refs \in Nat /\ mp[p].refs = 1 + LoopRef(p) + Held("field", again)
    BY <1>2, <1>5
  <2> QED BY <2>1, <2>2
<1> HIDE DEF r
<1>7. /\ PartsInv'
      /\ mp'[p].refs = r /\ \A q \in Objects \ {p} : mp'[q].refs = mp[q].refs
      /\ \A q \in Objects :
           /\ mp'[q].made = mp[q].made /\ mp'[q].freed = mp[q].freed /\ mp'[q].state = mp[q].state
           /\ mp'[q].lock = mp[q].lock /\ mp'[q].is = mp[q].is /\ mp'[q].aborted = mp[q].aborted
  BY <1>1, <1>2, <1>a, <1>6, RefsChange
<1>8. /\ \A q \in Objects : FieldRef(q)' = 0 /\ LoopRef(q)' = LoopRef(q)
      /\ \A q \in Objects \ {p} : FieldRef(q) = 0
  BY <1>1, <1>4, Numbers DEF FieldRef, LoopRef, Refers
<1>b. mp'[p].refs = FieldRef(p)' + LoopRef(p)' + Held("put", again)
  BY <1>4, <1>6, <1>7, <1>8, RefNumbers
<1>9. RefsInv("put", p, again)'
  BY <1>1, <1>2, <1>4, <1>7, <1>8, <1>b, RefsMove
<1>10. Doing("put", p, again)'
  BY <1>1, <1>3, NextIs DEF Doing, Releasing
<1>11. StepInv("put", p, again)'
  BY <1>1 DEF StepInv, Early, Alone, Closing
<1> QED BY <1>7, <1>9, <1>10, <1>11, StepNames DEF CallInv, LifeInv


\* No message loop is about to free the player.
Untouchable(p) == \A s \in Used : loop[s].mp = p => loop[s].pc # "destroy"

LEMMA FreedIs ==
    ASSUME LifeTypeOK, NEW p \in Objects, mp' = [mp EXCEPT ![p].freed = TRUE]
    PROVE  /\ mp' \in [Objects -> Players] /\ mp'[p].freed /\ \A q \in Objects \ {p} : mp'[q] = mp[q]
           /\ \A q \in Objects :
                /\ mp'[q].made = mp[q].made /\ mp'[q].refs = mp[q].refs /\ mp'[q].state = mp[q].state
                /\ mp'[q].lock = mp[q].lock /\ mp'[q].is = mp[q].is /\ mp'[q].aborted = mp[q].aborted
<1> DEFINE m == [mp[p] EXCEPT !.freed = TRUE]
<1>1. mp[p] \in Players
  BY DEF LifeTypeOK
<1>2. /\ m \in Players /\ m.refs = mp[p].refs /\ m.made = mp[p].made /\ m.freed /\ m.state = mp[p].state
      /\ m.lock = mp[p].lock /\ m.is = mp[p].is /\ m.aborted = mp[p].aborted
  BY <1>1 DEF Players
<1>3. mp' = [mp EXCEPT ![p] = m]
  OBVIOUS
<1> HIDE DEF m
<1>4. mp' \in [Objects -> Players] /\ mp'[p] = m /\ \A q \in Objects \ {p} : mp'[q] = mp[q]
  BY <1>2, <1>3, MpIs
<1> QED BY <1>2, <1>4

LEMMA FreedChange ==
    ASSUME PartsInv, UNCHANGED <<field, cookies, strm, loop>>, NEW p \in Objects,
           mp' = [mp EXCEPT ![p].freed = TRUE], mp[p].refs = 0, Untouchable(p)
    PROVE  PartsInv' /\ \A q \in Objects : mp'[q].made = mp[q].made /\ mp'[q].refs = mp[q].refs
<1>1. /\ mp' \in [Objects -> Players] /\ mp'[p].freed /\ \A q \in Objects \ {p} : mp'[q] = mp[q]
      /\ \A q \in Objects :
           /\ mp'[q].made = mp[q].made /\ mp'[q].refs = mp[q].refs /\ mp'[q].state = mp[q].state
           /\ mp'[q].lock = mp[q].lock /\ mp'[q].is = mp[q].is /\ mp'[q].aborted = mp[q].aborted
  BY FreedIs DEF PartsInv
<1>2. Used' = Used /\ \A s \in Used : s \in Sessions /\ loop[s].mp \in Objects
  BY DEF Used, PartsInv, SessionInv
<1>3. LifeTypeOK'
  BY <1>1 DEF PartsInv, LifeTypeOK
<1>4. SessionInv'
  BY <1>1, <1>2 DEF PartsInv, SessionInv
<1>5. StreamInv'
  BY <1>1, <1>2 DEF PartsInv, StreamInv, Quiet
<1>6. LateInv'
  BY <1>1, <1>2 DEF PartsInv, LateInv
<1>7. FreedInv'
  BY <1>1, <1>2 DEF PartsInv, FreedInv, Untouchable
<1> QED BY <1>1, <1>3, <1>4, <1>5, <1>6, <1>7 DEF PartsInv

LEMMA PutKeeps == ASSUME LifeInv, NEW p \in Objects, Put(p) PROVE LifeInv'
<1>1. /\ Now("put", p) /\ UNCHANGED <<field, cookies, strm, loop>>
      /\ mp' = [mp EXCEPT ![p].refs = mp[p].refs - 1]
      /\ todo' = IF mp[p].refs = 1 THEN <<<<"destroy", p>>>> \o Tail(todo) ELSE Tail(todo)
  BY DEF Put
<1>2. PartsInv /\ LifeTypeOK /\ mp[p].refs \in Nat /\ field' \in Objects \cup {0}
  BY <1>1, LifeFields DEF LifeInv, PartsInv, LifeTypeOK
<1>3. PICK again \in BOOLEAN : CallInv("put", p, again) /\ Tail(todo) = Rest("put", p, again)
  BY <1>1, CallIs
<1>4. RefsInv("put", p, again)
  BY <1>3 DEF CallInv
<1>5. /\ again => Held("put", again) = 2
      /\ ~ again => Held("put", again) = 1
      /\ Held("setup", TRUE) = 1 /\ Held("idle", FALSE) = 0 /\ Held("destroy", FALSE) = 0
  BY ReleaseNames DEF Held
<1> DEFINE r == mp[p].refs - 1
<1>6. mp[p].made /\ mp[p].refs = FieldRef(p) + LoopRef(p) + Held("put", again)
  BY <1>2, <1>4, CountIs
<1>7. r \in Nat /\ mp[p].refs # 0 /\ r = FieldRef(p) + LoopRef(p) + (IF again THEN 1 ELSE 0)
  BY <1>2, <1>5, <1>6, RefNumbers
<1>8. mp' = [mp EXCEPT ![p].refs = r] /\ mp[p].refs = r + 1
  BY <1>1, <1>2
<1>a. UNCHANGED <<cookies, strm, loop>>
  BY <1>1
<1> HIDE DEF r
<1>9. /\ PartsInv'
      /\ mp'[p].refs = r /\ \A q \in Objects \ {p} : mp'[q].refs = mp[q].refs
      /\ \A q \in Objects :
           /\ mp'[q].made = mp[q].made /\ mp'[q].freed = mp[q].freed /\ mp'[q].state = mp[q].state
           /\ mp'[q].lock = mp[q].lock /\ mp'[q].is = mp[q].is /\ mp'[q].aborted = mp[q].aborted
  BY <1>2, <1>7, <1>8, <1>a, RefsChange
<1>10. \A q \in Objects : FieldRef(q)' = FieldRef(q) /\ LoopRef(q)' = LoopRef(q)
  BY <1>1 DEF FieldRef, LoopRef, Refers
<1>11. /\ field' \in {field, 0, p}
       /\ \A q \in Objects : mp'[q].made = mp[q].made
       /\ \A q \in Objects \ {p} : /\ mp'[q].refs = mp[q].refs
                                   /\ FieldRef(q)' = FieldRef(q) /\ LoopRef(q)' = LoopRef(q)
  BY <1>1, <1>9, <1>10
<1>12. \E m \in Steps, b \in BOOLEAN :
         mp'[p].refs = FieldRef(p)' + LoopRef(p)' + Held(m, b) /\ Doing(m, p, b)' /\ StepInv(m, p, b)'
  <2>1. CASE again
    <3>1. r # 0 /\ mp[p].refs # 1
      BY <1>7, <1>8, <2>1, RefNumbers
    <3>2. todo' = Tail(todo)
      BY <1>1, <3>1
    <3>3. Tail(todo) = Do("setup", p, Rest("setup", p, again))
      BY <1>3, <2>1, NextIs
    <3>4. Doing("setup", p, TRUE)'
      BY <2>1, <3>2, <3>3, Zenon DEF Doing
    <3>5. StepInv("setup", p, TRUE)'
      BY <1>1, <1>3, <2>1 DEF CallInv, StepInv, Early, Alone, Closing
    <3>6. mp'[p].refs = FieldRef(p)' + LoopRef(p)' + Held("setup", TRUE)
      BY <1>5, <1>7, <1>9, <1>10, <2>1
    <3> QED BY <3>4, <3>5, <3>6, StepNames
  <2>2. CASE ~ again /\ mp[p].refs = 1
    <3>1. Tail(todo) = <<>>
      BY <1>3, <2>2, NextIs
    <3>2. todo' = <<<<"destroy", p>>>> \o <<>>
      BY <1>1, <2>2, <3>1
    <3>3. todo' = Do("destroy", p, Rest("destroy", p, FALSE))
      BY <3>2, NextIs DEF Do
    <3>4. Doing("destroy", p, FALSE)'
      BY <3>3 DEF Doing
    <3>5. r = 0 /\ ~ mp[p].freed /\ \A s \in Used : loop[s].mp = p => loop[s].pc # "destroy"
      BY <1>2, <1>7, <1>8, <2>2 DEF PartsInv, FreedInv
    <3>6. StepInv("destroy", p, FALSE)'
      BY <1>1, <1>3, <1>9, <3>5 DEF CallInv, StepInv, Early, Alone, Closing, Used
    <3>7. mp'[p].refs = FieldRef(p)' + LoopRef(p)' + Held("destroy", FALSE)
      BY <1>5, <1>7, <1>9, <1>10, <2>2, RefNumbers
    <3> QED BY <3>4, <3>6, <3>7, StepNames
  <2>3. CASE ~ again /\ mp[p].refs # 1
    <3>1. todo' = <<>>
      BY <1>1, <1>3, <2>3, NextIs
    <3>2. Doing("idle", p, FALSE)'
      BY <3>1 DEF Doing
    <3>3. StepInv("idle", p, FALSE)'
      BY <1>1, <1>3 DEF CallInv, StepInv, Early, Alone, Closing
    <3>4. mp'[p].refs = FieldRef(p)' + LoopRef(p)' + Held("idle", FALSE)
      BY <1>5, <1>7, <1>9, <1>10, <2>3, RefNumbers
    <3> QED BY <3>2, <3>3, <3>4, StepNames
  <2> QED BY <2>1, <2>2, <2>3
<1>13. PICK m \in Steps, b \in BOOLEAN :
         mp'[p].refs = FieldRef(p)' + LoopRef(p)' + Held(m, b) /\ Doing(m, p, b)' /\ StepInv(m, p, b)'
  BY <1>12
<1>14. RefsInv(m, p, b)'
  BY <1>2, <1>4, <1>11, <1>13, RefsMove
<1> QED BY <1>9, <1>13, <1>14 DEF CallInv, LifeInv

\* The player is freed by the call that gave back the last reference.
LEMMA FreePlayerKeeps == ASSUME LifeInv, NEW p \in Objects, FreePlayer(p) PROVE LifeInv'
<1>1. /\ Now("destroy", p) /\ todo' = Tail(todo) /\ UNCHANGED <<field, cookies, strm, loop>>
      /\ mp' = [mp EXCEPT ![p].freed = TRUE]
  BY DEF FreePlayer, Done
<1>2. PartsInv /\ LifeTypeOK
  BY DEF LifeInv, PartsInv
<1>3. PICK again \in BOOLEAN : CallInv("destroy", p, again) /\ Tail(todo) = Rest("destroy", p, again)
  BY <1>1, CallIs
<1>4. mp[p].refs = 0 /\ Untouchable(p)
  BY <1>3 DEF CallInv, StepInv, Untouchable
<1>5. PartsInv' /\ \A q \in Objects : mp'[q].made = mp[q].made /\ mp'[q].refs = mp[q].refs
  BY <1>1, <1>2, <1>4, FreedChange
<1>6. /\ "destroy" \in Steps /\ "idle" \in Steps /\ RefsInv("destroy", p, again)
      /\ Held("idle", FALSE) = Held("destroy", again)
  BY <1>3, StepNames DEF CallInv, Held
<1>7. RefsInv("idle", p, FALSE)'
  BY <1>1, <1>5, <1>6, RefsStay
<1>8. Doing("idle", p, FALSE)'
  BY <1>1, <1>3, NextIs DEF Doing
<1>9. StepInv("idle", p, FALSE)'
  BY <1>1, <1>3 DEF CallInv, StepInv, Early, Alone, Closing
<1> QED BY <1>5, <1>6, <1>7, <1>8, <1>9 DEF CallInv, LifeInv


-----------------------------------------------------------------------------
(***************************************************************************)
(* The end of a stream, of a weak reference; the next player.              *)
(***************************************************************************)
LEMMA FreeStreamKeeps == ASSUME LifeInv, NEW p \in Objects, FreeStream(p) PROVE LifeInv'
<1> DEFINE s == mp[p].is
<1>1. /\ Now("free", p) /\ todo' = Tail(todo) /\ UNCHANGED <<field, cookies, loop>>
      /\ strm' = [strm EXCEPT ![s].freed = TRUE]
      /\ mp' = [mp EXCEPT ![p].is = 0]
  BY DEF FreeStream, Done
<1>2. PartsInv /\ LifeTypeOK
  BY DEF LifeInv, PartsInv
<1>3. PICK again \in BOOLEAN : CallInv("free", p, again) /\ Tail(todo) = Rest("free", p, again)
  BY <1>1, CallIs
<1>4. /\ s # 0 /\ strm[s].read = "ended" /\ strm[s].refresh = "ended" /\ mp[p].aborted /\ field = p
      /\ \A k \in Media : strm[s].dec[k] \in {"none", "ended"}
  BY <1>3 DEF CallInv, StepInv, Closing, Early
<1>5. s \in Sessions /\ s \in Used /\ loop[s].mp = p
  BY <1>2, <1>4, Numbers DEF PartsInv, SessionInv
<1>6. /\ mp' \in [Objects -> Players] /\ mp'[p].is = 0 /\ \A q \in Objects \ {p} : mp'[q] = mp[q]
      /\ \A q \in Objects :
           /\ mp'[q].made = mp[q].made /\ mp'[q].refs = mp[q].refs /\ mp'[q].freed = mp[q].freed
           /\ mp'[q].state = mp[q].state /\ mp'[q].lock = mp[q].lock /\ mp'[q].aborted = mp[q].aborted
  <2> DEFINE m == [mp[p] EXCEPT !.is = 0]
  <2>1. mp[p] \in Players
    BY <1>2 DEF LifeTypeOK
  <2>2. /\ m \in Players /\ m.refs = mp[p].refs /\ m.made = mp[p].made /\ m.freed = mp[p].freed
        /\ m.state = mp[p].state /\ m.lock = mp[p].lock /\ m.is = 0 /\ m.aborted = mp[p].aborted
    BY <2>1 DEF Players
  <2>3. mp' = [mp EXCEPT ![p] = m]
    BY <1>1
  <2> HIDE DEF m
  <2>4. mp' \in [Objects -> Players] /\ mp'[p] = m /\ \A q \in Objects \ {p} : mp'[q] = mp[q]
    BY <1>2, <2>2, <2>3, MpIs
  <2> QED BY <2>2, <2>4
<1>7. /\ strm' \in [Sessions -> Streams] /\ \A t \in Sessions \ {s} : strm'[t] = strm[t]
      /\ strm'[s].read = strm[s].read /\ strm'[s].refresh = strm[s].refresh /\ strm'[s].dec = strm[s].dec
  <2> DEFINE r == [strm[s] EXCEPT !.freed = TRUE]
  <2>1. strm[s] \in Streams
    BY <1>2, <1>5 DEF LifeTypeOK
  <2>2. /\ r \in Streams /\ r.read = strm[s].read /\ r.refresh = strm[s].refresh /\ r.dec = strm[s].dec
    BY <2>1 DEF Streams
  <2>3. strm' = [strm EXCEPT ![s] = r]
    BY <1>1
  <2> HIDE DEF r, s
  <2>4. strm' \in [Sessions -> Streams] /\ strm'[s] = r /\ \A t \in Sessions \ {s} : strm'[t] = strm[t]
    BY <1>2, <1>5, <2>2, <2>3, StrmIs
  <2> QED BY <2>2, <2>4
<1> HIDE DEF s
<1>8. Used' = Used /\ \A t \in Used : t \in Sessions /\ loop[t].mp \in Objects
  BY <1>1, <1>2 DEF Used, PartsInv, SessionInv
<1>9. LifeTypeOK'
  BY <1>1, <1>2, <1>6, <1>7 DEF LifeTypeOK
<1>10. SessionInv'
  <2>1. ASSUME NEW q \in Objects, mp'[q].is # 0
        PROVE  mp'[q].is \in Used /\ loop[mp'[q].is].mp = q /\ ~ strm'[mp'[q].is].freed
    <3>1. q # p /\ mp'[q].is = mp[q].is
      BY <1>6, <2>1
    <3>2. mp[q].is \in Used /\ loop[mp[q].is].mp = q /\ ~ strm[mp[q].is].freed
      BY <1>2, <2>1, <3>1 DEF PartsInv, SessionInv
    <3>3. mp[q].is # s /\ mp[q].is \in Sessions
      BY <1>5, <1>8, <3>1, <3>2
    <3> QED BY <1>7, <3>1, <3>2, <3>3
  <2> QED BY <1>1, <1>2, <1>6, <1>8, <2>1 DEF PartsInv, SessionInv
<1>11. StreamInv'
  <2>1. ASSUME NEW t \in Sessions, strm'[t].read \notin {"none", "ended"}
        PROVE  t \in Used /\ mp'[loop[t].mp].is = t /\ loop[t].mp \in cookies
    <3>1. t # s /\ strm'[t] = strm[t]
      BY <1>4, <1>7, <2>1
    <3>2. t \in Used /\ mp[loop[t].mp].is = t /\ loop[t].mp \in cookies
      BY <1>2, <2>1, <3>1 DEF PartsInv, StreamInv
    <3>3. loop[t].mp # p
      BY <3>1, <3>2 DEF s
    <3> QED BY <1>6, <1>8, <3>2, <3>3
  <2>2. ASSUME NEW t \in Sessions, strm'[t].freed
        PROVE  t \in Used /\ mp'[loop[t].mp].aborted /\ Quiet(t)'
    <3>1. CASE t = s
      BY <1>4, <1>5, <1>6, <1>7, <3>1 DEF Quiet
    <3>2. CASE t # s
      <4>1. strm'[t] = strm[t]
        BY <1>7, <3>2
      <4>2. t \in Used /\ mp[loop[t].mp].aborted /\ Quiet(t)
        BY <1>2, <2>2, <4>1 DEF PartsInv, StreamInv
      <4> QED BY <1>6, <1>8, <4>1, <4>2 DEF Quiet
    <3> QED BY <3>1, <3>2
  <2> QED BY <1>1, <1>8, <2>1, <2>2 DEF StreamInv
<1>12. LateInv'
  BY <1>1, <1>2, <1>6, <1>8 DEF PartsInv, LateInv
<1>13. FreedInv'
  BY <1>1, <1>2, <1>6, <1>8 DEF PartsInv, FreedInv
<1>14. RefsInv("cookie", p, again)'
  <2>1. /\ "free" \in Steps /\ "cookie" \in Steps /\ RefsInv("free", p, again)
        /\ Held("cookie", again) = Held("free", again)
    BY <1>3, StepNames, ReleaseNames DEF CallInv, Held
  <2> QED BY <1>1, <1>6, <2>1, RefsStay
<1>15. Doing("cookie", p, again)'
  BY <1>1, <1>3, NextIs DEF Doing, Releasing
<1>16. StepInv("cookie", p, again)'
  BY <1>1, <1>3, <1>4, <1>6 DEF CallInv, StepInv, Early, Alone, Closing
<1> QED BY <1>9, <1>10, <1>11, <1>12, <1>13, <1>14, <1>15, <1>16, StepNames DEF CallInv, PartsInv, LifeInv

LEMMA DeleteCookieKeeps == ASSUME LifeInv, NEW p \in Objects, DeleteCookie(p) PROVE LifeInv'
<1>1. /\ Now("delete", p) /\ todo' = Tail(todo) /\ UNCHANGED <<field, mp, strm, loop>>
      /\ cookies' = cookies \ {p}
  BY DEF DeleteCookie, Done
<1>2. PartsInv /\ LifeTypeOK
  BY DEF LifeInv, PartsInv
<1>3. PICK again \in BOOLEAN : CallInv("delete", p, again) /\ Tail(todo) = Rest("delete", p, again)
  BY <1>1, CallIs
<1>4. mp[p].is = 0 /\ mp[p].aborted /\ field = p
  BY <1>3 DEF CallInv, StepInv
<1>5. Used' = Used /\ LifeTypeOK' /\ SessionInv' /\ FreedInv'
  BY <1>1, <1>2 DEF Used, LifeTypeOK, PartsInv, SessionInv, FreedInv
<1>6. StreamInv'
  <2>1. ASSUME NEW s \in Sessions, strm[s].read \notin {"none", "ended"}
        PROVE  s \in Used /\ mp[loop[s].mp].is = s /\ loop[s].mp \in cookies \ {p}
    <3>1. s \in Used /\ mp[loop[s].mp].is = s /\ loop[s].mp \in cookies
      BY <1>2, <2>1 DEF PartsInv, StreamInv
    <3> QED BY <1>4, <3>1, Numbers
  <2> QED BY <1>1, <1>2, <1>5, <2>1 DEF PartsInv, StreamInv, Quiet
<1>7. LateInv'
  BY <1>1, <1>2, <1>4, <1>5 DEF PartsInv, LateInv
<1>8. RefsInv("field", p, again)'
  <2>1. /\ "delete" \in Steps /\ "field" \in Steps /\ RefsInv("delete", p, again)
        /\ Held("field", again) = Held("delete", again)
    BY <1>3, StepNames, ReleaseNames DEF CallInv, Held
  <2> QED BY <1>1, <2>1, RefsStay
<1>9. Rest("delete", p, again) = Do("field", p, Rest("field", p, again))
  BY NextIs
<1>10. Doing("field", p, again)'
  BY <1>1, <1>3, <1>9 DEF Doing, Releasing
<1>11. StepInv("field", p, again)'
  BY <1>1, <1>4 DEF StepInv, Early, Alone, Closing
<1> QED BY <1>5, <1>6, <1>7, <1>8, <1>10, <1>11, StepNames DEF CallInv, PartsInv, LifeInv


LEMMA NewPlayerIs ==
    /\ NewPlayer \in Players /\ NewPlayer.made /\ NewPlayer.refs = 1 /\ ~ NewPlayer.freed
    /\ NewPlayer.is = 0 /\ NewPlayer.aborted /\ NewPlayer.lock = 0
<1>1. <<>> \in Seq(Messages)
  OBVIOUS
<1> QED BY <1>1 DEF NewPlayer, NoPlayer, Players

LEMMA SetupKeeps == ASSUME LifeInv, NEW p \in Objects, Setup(p) PROVE LifeInv'
<1>1. Now("setup", p) /\ todo' = Tail(todo) /\ UNCHANGED <<strm, loop>>
  BY DEF Setup, Done
<1>2. PICK q \in Objects : /\ ~ mp[q].made /\ mp' = [mp EXCEPT ![q] = NewPlayer]
                           /\ cookies' = cookies \cup {q} /\ field' = q
  BY DEF Setup
<1>3. PartsInv /\ LifeTypeOK
  BY DEF LifeInv, PartsInv
<1>4. PICK again \in BOOLEAN : CallInv("setup", p, again) /\ Tail(todo) = Rest("setup", p, again)
  BY <1>1, CallIs
<1>5. RefsInv("setup", p, again) /\ field = 0
  BY <1>4 DEF CallInv, StepInv
<1>6. mp[p].made /\ mp[p].refs = FieldRef(p) + LoopRef(p) + Held("setup", again)
  BY <1>3, <1>5, CountIs
<1>7. /\ mp' \in [Objects -> Players] /\ mp'[q] = NewPlayer /\ \A r \in Objects \ {q} : mp'[r] = mp[r]
  BY <1>2, <1>3, NewPlayerIs, MpIs
<1>8. Used' = Used /\ \A s \in Used : s \in Sessions /\ loop[s].mp \in Objects /\ loop[s].mp # q
  BY <1>1, <1>2, <1>3 DEF Used, PartsInv, SessionInv
<1>9. LifeTypeOK'
  BY <1>1, <1>2, <1>3, <1>7 DEF LifeTypeOK
<1>10. SessionInv'
  <2>1. \A s \in Used : mp'[loop[s].mp] = mp[loop[s].mp]
    BY <1>7, <1>8
  <2>2. \A r \in Objects : mp'[r].is # 0 => mp'[r].is = mp[r].is
    BY <1>7, NewPlayerIs
  <2> QED BY <1>1, <1>3, <1>8, <2>1, <2>2 DEF PartsInv, SessionInv
<1>11. StreamInv'
  <2>1. \A s \in Used : mp'[loop[s].mp] = mp[loop[s].mp]
    BY <1>7, <1>8
  <2> QED BY <1>1, <1>2, <1>3, <1>8, <2>1 DEF PartsInv, StreamInv, Quiet
<1>12. LateInv'
  <2>1. \A s \in Used : mp'[loop[s].mp] = mp[loop[s].mp]
    BY <1>7, <1>8
  <2>2. \A r \in Objects \ cookies' : mp'[r].aborted
    BY <1>2, <1>3, <1>7, NewPlayerIs DEF PartsInv, LateInv
  <2> QED BY <1>1, <1>3, <1>8, <2>1, <2>2 DEF PartsInv, LateInv
<1>13. FreedInv'
  <2>1. \A s \in Used : mp'[loop[s].mp] = mp[loop[s].mp]
    BY <1>7, <1>8
  <2>2. \A r \in Objects : mp'[r].freed => mp'[r].refs = 0
    BY <1>3, <1>7, NewPlayerIs DEF PartsInv, FreedInv
  <2> QED BY <1>1, <1>3, <1>8, <2>1, <2>2 DEF PartsInv, FreedInv
<1>14. RefsInv("put", p, FALSE)'
  <2>1. again = TRUE
    BY <1>4 DEF CallInv, Doing
  <2>2. Held("setup", again) = 1 /\ Held("put", FALSE) = 1
    BY ReleaseNames DEF Held
  <2>3. \A r \in Objects : LoopRef(r)' = LoopRef(r) /\ FieldRef(r) = 0
    BY <1>1, <1>5, Numbers DEF LoopRef, Refers, FieldRef
  <2>4. LoopRef(q) = 0 /\ FieldRef(q)' = 1 /\ \A r \in Objects \ {q} : FieldRef(r)' = 0
    BY <1>2, <1>8 DEF LoopRef, Refers, FieldRef, Used
  <2>5. q # p
    BY <1>2, <1>6
  <2>6. ASSUME NEW r \in Objects
        PROVE  IF mp'[r].made THEN mp'[r].refs = FieldRef(r)' + LoopRef(r)' + (IF r = p THEN Held("put", FALSE) ELSE 0)
                              ELSE mp'[r].refs = 0 /\ field' # r /\ ("put" # "idle" => r # p)
    <3>1. CASE r = q
      BY <1>7, <2>3, <2>4, <2>5, <3>1, NewPlayerIs
    <3>2. CASE r = p
      BY <1>6, <1>7, <2>2, <2>3, <2>4, <2>5, <3>2, RefNumbers
    <3>3. CASE r # p /\ r # q
      <4>1. mp'[r] = mp[r]
        BY <1>7, <3>3
      <4>2. IF mp[r].made THEN mp[r].refs = FieldRef(r) + LoopRef(r) + 0 ELSE mp[r].refs = 0
        BY <1>5, <3>3 DEF RefsInv
      <4> QED BY <1>2, <2>3, <2>4, <3>3, <4>1, <4>2
    <3> QED BY <3>1, <3>2, <3>3
  <2> QED BY <2>6 DEF RefsInv
<1>15. Doing("put", p, FALSE)'
  BY <1>1, <1>4, NextIs DEF Doing, Releasing
<1>16. StepInv("put", p, FALSE)'
  BY <1>2 DEF StepInv, Early, Alone, Closing
<1> QED BY <1>9, <1>10, <1>11, <1>12, <1>13, <1>14, <1>15, <1>16, StepNames DEF CallInv, PartsInv, LifeInv

-----------------------------------------------------------------------------
(***************************************************************************)
(* The preparation.                                                        *)
(***************************************************************************)
\* The stream is opened for the loop that was started last, which is the player's.
LEMMA OpeningIs ==
    ASSUME PartsInv, NEW p \in Objects, NEW again, StepInv("open", p, again)
    PROVE  Opening(p) \in Used /\ Opening(p) \in Sessions /\ loop[Opening(p)].mp = p /\ mp[p].is = 0 /\ Untouched(p)
<1>1. \E s \in Used : loop[s].mp = p /\ \A r \in Used : r <= s
  BY DEF StepInv
<1>2. Opening(p) \in Used /\ loop[Opening(p)].mp = p
  BY <1>1 DEF Opening
<1> QED BY <1>2, Numbers DEF StepInv, Untouched

\* What the invariant says of a stream that was just opened for player p.
LEMMA OpenedKeeps ==
    ASSUME PartsInv, UNCHANGED <<field, cookies, loop>>, NEW p \in Objects, p \in cookies, Untouched(p),
           NEW s \in Used, loop[s].mp = p, mp[p].is = 0,
           NEW r \in Streams, ~ r.freed, strm' = [strm EXCEPT ![s] = r],
           NEW m \in Players, m.made = mp[p].made, m.refs = mp[p].refs, m.freed = mp[p].freed,
           m.state = mp[p].state, m.aborted = mp[p].aborted, m.is = s, mp' = [mp EXCEPT ![p] = m]
    PROVE  PartsInv' /\ \A q \in Objects : mp'[q].made = mp[q].made /\ mp'[q].refs = mp[q].refs
<1>1. /\ s \in Sessions /\ s # 0 /\ LifeTypeOK
      /\ \A t \in Used : t \in Sessions /\ loop[t].mp \in Objects /\ (t # s => loop[t].mp # p)
  BY Numbers DEF PartsInv, SessionInv
<1>2. mp' \in [Objects -> Players] /\ mp'[p] = m /\ \A q \in Objects \ {p} : mp'[q] = mp[q]
  BY <1>1, MpIs
<1>3. strm' \in [Sessions -> Streams] /\ strm'[s] = r /\ \A t \in Sessions \ {s} : strm'[t] = strm[t]
  BY <1>1, StrmIs
<1>4. /\ \A q \in Objects : /\ mp'[q].made = mp[q].made /\ mp'[q].refs = mp[q].refs /\ mp'[q].freed = mp[q].freed
                            /\ mp'[q].state = mp[q].state /\ mp'[q].aborted = mp[q].aborted
      /\ \A t \in Used \ {s} : mp'[loop[t].mp] = mp[loop[t].mp]
  BY <1>1, <1>2
<1>5. Used' = Used
  BY DEF Used
<1>6. LifeTypeOK'
  BY <1>1, <1>2, <1>3 DEF LifeTypeOK
<1>7. SessionInv'
  <2>1. ASSUME NEW q \in Objects, mp'[q].is # 0
        PROVE  mp'[q].is \in Used /\ loop[mp'[q].is].mp = q /\ ~ strm'[mp'[q].is].freed
    <3>1. CASE q = p
      BY <1>2, <1>3, <3>1
    <3>2. CASE q # p
      <4>1. mp[q].is \in Used /\ loop[mp[q].is].mp = q /\ ~ strm[mp[q].is].freed /\ mp'[q].is = mp[q].is
        BY <1>2, <2>1, <3>2 DEF PartsInv, SessionInv
      <4>2. mp[q].is # s /\ mp[q].is \in Sessions
        BY <1>1, <3>2, <4>1
      <4> QED BY <1>3, <4>1, <4>2
    <3> QED BY <3>1, <3>2
  <2> QED BY <1>4, <1>5, <1>1, <2>1 DEF PartsInv, SessionInv
<1>8. StreamInv'
  <2>1. ASSUME NEW t \in Sessions, strm'[t].read \notin {"none", "ended"}
        PROVE  t \in Used /\ mp'[loop[t].mp].is = t /\ loop[t].mp \in cookies
    <3>1. CASE t = s
      BY <1>2, <3>1
    <3>2. CASE t # s
      BY <1>3, <1>4, <2>1, <3>2 DEF PartsInv, StreamInv
    <3> QED BY <3>1, <3>2
  <2>2. ASSUME NEW t \in Sessions, strm'[t].freed
        PROVE  t \in Used /\ mp'[loop[t].mp].aborted /\ Quiet(t)'
    <3>1. t # s /\ strm'[t] = strm[t]
      BY <1>3, <2>2
    <3>2. t \in Used /\ mp[loop[t].mp].aborted /\ Quiet(t)
      BY <2>2, <3>1 DEF PartsInv, StreamInv
    <3> QED BY <1>4, <3>1, <3>2 DEF Quiet
  <2> QED BY <1>5, <2>1, <2>2 DEF StreamInv
<1>9. LateInv'
  <2>1. \A t \in Used : loop[t].pc = "touch" => mp'[loop[t].mp].lock = t
    BY <1>4 DEF PartsInv, LateInv, Untouched
  <2> QED BY <1>1, <1>4, <1>5, <2>1 DEF PartsInv, LateInv
<1>10. FreedInv'
  BY <1>1, <1>4, <1>5 DEF PartsInv, FreedInv
<1> QED BY <1>4, <1>6, <1>7, <1>8, <1>9, <1>10 DEF PartsInv

LEMMA OpenKeeps == ASSUME LifeInv, NEW p \in Objects, Open(p) PROVE LifeInv'
<1>1. Now("open", p) /\ todo' = Tail(todo) /\ UNCHANGED <<field, cookies, loop>>
  BY DEF Open, Done
<1>2. PartsInv /\ LifeTypeOK /\ "open" \in Alone /\ mp[p] \in Players /\ mp \in [Objects -> Players]
  BY DEF LifeInv, PartsInv, LifeTypeOK, Alone
<1>3. PICK again \in BOOLEAN : CallInv("open", p, again)
  BY <1>1, CallIs
<1> DEFINE s == Opening(p)
           refused == [mp EXCEPT ![p].state = "error", ![p].lock = 0]
           stream == [NoStream EXCEPT !.open = TRUE, !.go = AutoStart, !.read = "open", !.refresh = "run"]
<1>4. s \in Used /\ s \in Sessions /\ loop[s].mp = p /\ mp[p].is = 0 /\ Untouched(p)
  BY <1>2, <1>3, OpeningIs DEF CallInv
<1>5. \/ strm' = [strm EXCEPT ![s] = stream] /\ mp' = [mp EXCEPT ![p].is = s, ![p].lock = 0]
      \/ strm' = strm /\ mp' = refused
      \/ strm' = strm /\ mp' = [refused EXCEPT ![p].is = 0]
  BY DEF Open
<1>6. CASE strm' = strm /\ (mp' = refused \/ mp' = [refused EXCEPT ![p].is = 0])
  <2> DEFINE m == [mp[p] EXCEPT !.state = "error", !.lock = 0]
  <2>1. /\ m \in Players /\ m.made = mp[p].made /\ m.refs = mp[p].refs /\ m.freed = mp[p].freed
        /\ m.is = mp[p].is /\ m.aborted = mp[p].aborted /\ m.state = "error"
    BY <1>2 DEF Players
  <2>2. [m EXCEPT !.is = 0] = m
    BY <1>2, <1>4 DEF Players
  <2>3. refused = [mp EXCEPT ![p] = m] /\ [refused EXCEPT ![p].is = 0] = [mp EXCEPT ![p] = [m EXCEPT !.is = 0]]
    BY <1>2
  <2>4. mp' = [mp EXCEPT ![p] = m]
    BY <1>6, <2>2, <2>3, Zenon
  <2> HIDE DEF m, s, refused
  <2>5. SoftMp
    BY <1>2, <1>4, <2>1, <2>4, OneSoft
  <2>6. SoftStrm
    BY <1>2, <1>6, StrmStays
  <2> QED BY <1>1, <1>2, <1>3, <2>5, <2>6, LastStepKeeps
<1>7. CASE strm' = [strm EXCEPT ![s] = stream] /\ mp' = [mp EXCEPT ![p].is = s, ![p].lock = 0]
  <2> DEFINE m == [mp[p] EXCEPT !.is = s, !.lock = 0]
  <2>1. /\ Doing("put", p, FALSE)' /\ StepInv("put", p, FALSE)
        /\ Held("put", FALSE) = Held("open", again) /\ field = p /\ p \in cookies /\ "open" \in Steps
    BY <1>1, <1>2, <1>3, LastStep
  <2>a. mp[p] \in Players /\ s \in Sessions
    BY <1>2, <1>4
  <2> HIDE DEF s
  <2>b. m \in Players
    BY <2>a DEF Players
  <2>c. /\ m.made = mp[p].made /\ m.refs = mp[p].refs /\ m.freed = mp[p].freed
        /\ m.state = mp[p].state /\ m.aborted = mp[p].aborted /\ m.is = s
    BY <2>a DEF Players
  <2>2. /\ m \in Players /\ m.made = mp[p].made /\ m.refs = mp[p].refs /\ m.freed = mp[p].freed
        /\ m.state = mp[p].state /\ m.aborted = mp[p].aborted /\ m.is = s
    BY <2>b, <2>c
  <2>3. mp' = [mp EXCEPT ![p] = m]
    BY <1>2, <1>7
  <2>4. stream \in Streams /\ ~ stream.freed
    <3>1. AutoStart \in BOOLEAN
      BY LifeAssumption DEF LifeAssumption
    <3> QED BY <3>1 DEF Streams, NoStream
  <2>5. strm' = [strm EXCEPT ![s] = stream]
    BY <1>7
  <2> HIDE DEF m, stream, refused
  <2>6. PartsInv' /\ \A q \in Objects : mp'[q].made = mp[q].made /\ mp'[q].refs = mp[q].refs
    BY <1>1, <1>2, <1>4, <2>1, <2>2, <2>3, <2>4, <2>5, OpenedKeeps
  <2>7. RefsInv("put", p, FALSE)'
    BY <1>1, <1>3, <2>1, <2>6, StepNames, RefsStay DEF CallInv
  <2>8. StepInv("put", p, FALSE)'
    BY <1>1, <2>1 DEF StepInv, Early, Alone, Closing
  <2> QED BY <2>1, <2>6, <2>7, <2>8, StepNames DEF CallInv, LifeInv
<1> QED BY <1>5, <1>6, <1>7


LEMMA PreparingIs ==
    ASSUME NEW m \in Players, NEW s \in Sessions \cup {0}
    PROVE  LET n == Preparing(m, s) IN
           /\ n \in Players /\ n.made = m.made /\ n.refs = m.refs + 1 /\ n.freed = m.freed /\ n.is = m.is
           /\ n.state = "preparing" /\ n.lock = 1
<1> DEFINE r == m.refs + 1
           n == [m EXCEPT !.state = "preparing", !.aborted = FALSE, !.refs = r, !.lock = 1, !.last = s]
<1>4. r \in Nat
  BY DEF Players
<1>2. Preparing(m, s) = Post(n, "flush")
  BY DEF Preparing
<1> HIDE DEF r
<1>5. n \in Players
  BY <1>4 DEF Players
<1>6. /\ n.made = m.made /\ n.refs = r /\ n.freed = m.freed /\ n.is = m.is
      /\ n.state = "preparing" /\ n.lock = 1
  BY DEF Players
<1>1. /\ n \in Players /\ n.made = m.made /\ n.refs = m.refs + 1 /\ n.freed = m.freed /\ n.is = m.is
      /\ n.state = "preparing" /\ n.lock = 1
  BY <1>5, <1>6 DEF r
<1>3. "flush" \in Messages
  BY DEF Messages
<1> HIDE DEF n
<1> QED BY <1>1, <1>2, <1>3, PostIs

\* A player that was never prepared has neither a loop nor a stream.
LEMMA FreshIs ==
    ASSUME PartsInv, NEW p \in Objects, mp[p].state \in {"idle", "initialized"}
    PROVE  /\ mp[p].is = 0 /\ \A s \in Used : loop[s].mp # p
           /\ LoopRef(p) = 0
<1>1. \A s \in Used : loop[s].mp # p
  BY DEF PartsInv, SessionInv
<1>2. mp[p].is = 0
  BY <1>1 DEF PartsInv, SessionInv
<1>3. LoopRef(p) = 0
  BY <1>1 DEF LoopRef, Refers, Used
<1> QED BY <1>1, <1>2, <1>3

\* What the invariant says of the loop that is started for player p.
LEMMA PreparedKeeps ==
    ASSUME PartsInv, UNCHANGED <<field, cookies, strm>>, NEW p \in Objects, p \in cookies,
           mp[p].made, mp[p].refs # 0, mp[p].state = "initialized",
           NEW s \in Sessions \ Used, \A r \in Sessions : r < s => r \in Used,
           NEW l \in Loops, l.pc \in {"begin", "failed"}, l.mp = p, l.late = 0, loop' = [loop EXCEPT ![s] = l],
           NEW m \in Players, m.made = mp[p].made, m.freed = mp[p].freed,
           m.is = mp[p].is, m.state = "preparing", mp' = [mp EXCEPT ![p] = m]
    PROVE  /\ PartsInv' /\ Used' = Used \cup {s} /\ (\A r \in Used : r <= s)
           /\ loop'[s] = l /\ mp'[p] = m /\ \A q \in Objects \ {p} : mp'[q] = mp[q]
           /\ \A t \in Sessions \ {s} : loop'[t] = loop[t]
<1>1. /\ LifeTypeOK /\ mp[p].is = 0
      /\ \A t \in Used : t \in Sessions /\ loop[t].mp \in Objects /\ loop[t].mp # p
  BY FreshIs DEF PartsInv, SessionInv, Used
<1>2. mp' \in [Objects -> Players] /\ mp'[p] = m /\ \A q \in Objects \ {p} : mp'[q] = mp[q]
  BY <1>1, MpIs
<1>3. loop' \in [Sessions -> Loops] /\ loop'[s] = l /\ \A t \in Sessions \ {s} : loop'[t] = loop[t]
  BY <1>1 DEF LifeTypeOK
<1>4. \A t \in Used : t # s /\ loop'[t] = loop[t] /\ mp'[loop[t].mp] = mp[loop[t].mp]
  BY <1>1, <1>2, <1>3
<1>5. Used' = Used \cup {s}
  BY <1>3 DEF Used
<1>6. \A r \in Used : r <= s
  <2>1. ASSUME NEW r \in Used, s < r PROVE FALSE
    <3>1. \A q \in Sessions : q < r => q \in Used
      BY DEF PartsInv, SessionInv
    <3> QED BY <2>1, <3>1
  <2>2. \A r \in Used : r \in Nat /\ s \in Nat /\ ~ (s < r)
    BY <1>1, <2>1, Numbers
  <2> QED BY <2>2
<1>7. LifeTypeOK'
  BY <1>1, <1>2, <1>3 DEF LifeTypeOK
<1>8. SessionInv'
  <2>1. \A t \in Used' : /\ loop'[t].mp \in Objects /\ mp'[loop'[t].mp].made
                         /\ mp'[loop'[t].mp].state \notin {"idle", "initialized"}
    <3>1. loop'[s].mp = p /\ mp'[p].made /\ mp'[p].state = "preparing"
      BY <1>2, <1>3
    <3>2. \A t \in Used : /\ loop'[t].mp \in Objects /\ mp'[loop'[t].mp].made
                          /\ mp'[loop'[t].mp].state \notin {"idle", "initialized"}
      BY <1>4 DEF PartsInv, SessionInv
    <3> QED BY <1>5, <3>1, <3>2
  <2>2. \A t \in Used' : \A u \in Used' : loop'[t].mp = loop'[u].mp => t = u
    BY <1>1, <1>3, <1>4, <1>5 DEF PartsInv, SessionInv
  <2>3. \A t \in Used' : \A r \in Sessions : r < t => r \in Used'
    BY <1>5 DEF PartsInv, SessionInv
  <2>4. ASSUME NEW q \in Objects, mp'[q].is # 0
        PROVE  mp'[q].is \in Used' /\ loop'[mp'[q].is].mp = q /\ ~ strm'[mp'[q].is].freed
    <3>1. q # p /\ mp'[q].is = mp[q].is
      BY <1>1, <1>2, <2>4
    <3> QED BY <1>4, <1>5, <2>4, <3>1 DEF PartsInv, SessionInv
  <2> QED BY <2>1, <2>2, <2>3, <2>4 DEF SessionInv
<1>9. StreamInv'
  <2>1. ASSUME NEW t \in Sessions, strm[t].read \notin {"none", "ended"}
        PROVE  t \in Used' /\ mp'[loop'[t].mp].is = t /\ loop'[t].mp \in cookies
    BY <1>4, <1>5, <2>1 DEF PartsInv, StreamInv
  <2>2. ASSUME NEW t \in Sessions, strm[t].freed
        PROVE  t \in Used' /\ mp'[loop'[t].mp].aborted /\ Quiet(t)'
    <3>1. t \in Used /\ mp[loop[t].mp].aborted /\ Quiet(t)
      BY <2>2 DEF PartsInv, StreamInv
    <3> QED BY <1>4, <1>5, <3>1 DEF Quiet
  <2> QED BY <2>1, <2>2 DEF StreamInv
<1>10. LateInv'
  <2>1. \A t \in Used' :
          /\ loop'[t].late \in {0, 1}
          /\ loop'[t].late = 1 => /\ mp'[loop'[t].mp].aborted
                                  /\ loop'[t].pc \in {"wait", "put", "destroy", "ended"}
          /\ loop'[t].pc = "touch" => mp'[loop'[t].mp].lock = t
    BY <1>3, <1>4, <1>5 DEF PartsInv, LateInv
  <2>2. \A q \in Objects \ cookies : mp'[q].aborted
    BY <1>2 DEF PartsInv, LateInv
  <2> QED BY <2>1, <2>2 DEF LateInv
<1>11. FreedInv'
  <2>1. ~ mp[p].freed
    BY DEF PartsInv, FreedInv
  <2>2. \A q \in Objects : mp'[q].freed => mp'[q].refs = 0
    BY <1>2, <2>1 DEF PartsInv, FreedInv
  <2>3. \A t \in Used' : loop'[t].pc = "destroy" => mp'[loop'[t].mp].refs = 0 /\ ~ mp'[loop'[t].mp].freed
    BY <1>3, <1>4, <1>5 DEF PartsInv, FreedInv
  <2> QED BY <2>2, <2>3 DEF FreedInv
<1> QED BY <1>2, <1>3, <1>5, <1>6, <1>7, <1>8, <1>9, <1>10, <1>11 DEF PartsInv

LEMMA PrepareKeeps == ASSUME LifeInv, NEW p \in Objects, Prepare(p) PROVE LifeInv'
<1>1. Now("prepare", p) /\ UNCHANGED <<field, cookies, strm>>
  BY DEF Prepare
<1>2. PartsInv /\ LifeTypeOK /\ mp[p] \in Players
  BY DEF LifeInv, PartsInv, LifeTypeOK
<1>3. PICK again \in BOOLEAN : CallInv("prepare", p, again) /\ Tail(todo) = Rest("prepare", p, again)
  BY <1>1, CallIs
<1>4. /\ again = FALSE /\ field = p /\ p \in cookies /\ mp[p].state # "stopped"
  BY <1>3, Numbers DEF CallInv, Doing, StepInv, Releasing, Closing, Early
<1>5. /\ "prepare" \in Steps /\ "open" \in Steps /\ "put" \in Steps
      /\ Held("put", FALSE) = 1 /\ Held("open", again) = 1 /\ Held("prepare", again) = 1
  BY <1>4, StepNames DEF Held, Releasing, Closing
<1>6. RefsInv("prepare", p, again) /\ StepInv("prepare", p, again)
  BY <1>3 DEF CallInv
<1>7. mp[p].made /\ mp[p].refs = FieldRef(p) + LoopRef(p) + Held("prepare", again)
  BY <1>2, <1>6, CountIs
<1>8. CASE mp[p].state \notin {"initialized", "stopped"}
  <2>1. mp' = mp /\ loop' = loop /\ todo' = Tail(Tail(todo))
    BY <1>8 DEF Prepare
  <2>2. Doing("put", p, FALSE)'
    BY <1>3, <1>4, <2>1, NextIs DEF Doing, Releasing
  <2>3. StepInv("put", p, FALSE)
    BY <1>4 DEF StepInv, Early, Alone, Closing
  <2>4. SameMp /\ SameStrm
    BY <1>1, <1>2, <2>1, SameMpIs, SameStrmIs
  <2> QED BY <1>1, <1>2, <1>5, <1>6, <2>1, <2>2, <2>3, <2>4, GoesOn
<1>9. CASE mp[p].state \in {"initialized", "stopped"}
  <2>1. mp[p].state = "initialized"
    BY <1>4, <1>9
  <2>2. PICK s \in Sessions \ Used, ok \in BOOLEAN :
          /\ \A r \in Sessions : r < s => r \in Used
          /\ todo' = Tail(todo)
          /\ mp' = [mp EXCEPT ![p] = Preparing(mp[p], IF ok THEN s ELSE 0)]
          /\ loop' = [loop EXCEPT ![s] = [NoLoop EXCEPT !.pc = IF ok THEN "begin" ELSE "failed", !.mp = p]]
    BY <1>9 DEF Prepare, Done
  <2> DEFINE l == [NoLoop EXCEPT !.pc = IF ok THEN "begin" ELSE "failed", !.mp = p]
             m == Preparing(mp[p], IF ok THEN s ELSE 0)
  <2>3. l \in Loops /\ l.pc \in {"begin", "failed"} /\ l.mp = p /\ l.late = 0
    BY DEF NoLoop, Loops
  <2>4. /\ m \in Players /\ m.made = mp[p].made /\ m.refs = mp[p].refs + 1 /\ m.freed = mp[p].freed
        /\ m.is = mp[p].is /\ m.state = "preparing" /\ m.lock = 1
    <3>1. (IF ok THEN s ELSE 0) \in Sessions \cup {0}
      OBVIOUS
    <3> QED BY <1>2, <3>1, PreparingIs
  <2>5. mp[p].refs # 0 /\ mp[p].refs = FieldRef(p) + 1 /\ mp[p].is = 0 /\ \A t \in Used : loop[t].mp # p
    BY <1>2, <1>5, <1>7, <2>1, FreshIs, RefNumbers
  <2> HIDE DEF l, m
  <2>6. loop' = [loop EXCEPT ![s] = l] /\ mp' = [mp EXCEPT ![p] = m]
    BY <2>2 DEF l, m
  <2>7. /\ PartsInv' /\ Used' = Used \cup {s} /\ (\A r \in Used : r <= s)
        /\ loop'[s] = l /\ mp'[p] = m /\ \A q \in Objects \ {p} : mp'[q] = mp[q]
        /\ \A t \in Sessions \ {s} : loop'[t] = loop[t]
    <3>1. \A r \in Sessions : r < s => r \in Used
      BY <2>2
    <3> QED BY <1>1, <1>2, <1>4, <1>7, <2>1, <2>3, <2>4, <2>5, <2>6, <3>1, PreparedKeeps
  <2>8. RefsInv("open", p, FALSE)'
    <3>1. \A q \in Objects : FieldRef(q)' = FieldRef(q)
      BY <1>1 DEF FieldRef
    <3>2. \A q \in Objects \ {p} : LoopRef(q)' = LoopRef(q)
      <4>1. \A q \in Objects \ {p}, t \in Sessions : Refers(t, q)' <=> Refers(t, q)
        BY <2>2, <2>3, <2>7 DEF Refers, Used
      <4> QED BY <4>1 DEF LoopRef
    <3>3. LoopRef(p)' = 1
      BY <2>3, <2>7 DEF LoopRef, Refers
    <3>4. mp'[p].refs = FieldRef(p)' + LoopRef(p)' + Held("open", again)
      BY <1>5, <2>4, <2>5, <2>7, <3>1, <3>3, RefNumbers
    <3>5. \A q \in Objects : mp'[q].made = mp[q].made
      BY <2>4, <2>7
    <3>6. \A q \in Objects \ {p} : /\ mp'[q].refs = mp[q].refs
                                   /\ FieldRef(q)' = FieldRef(q) /\ LoopRef(q)' = LoopRef(q)
      BY <2>7, <3>1, <3>2
    <3>7. field' \in {field, 0, p}
      BY <1>1
    <3>8. RefsInv("open", p, again)'
      BY <1>2, <1>6, <3>4, <3>5, <3>6, <3>7, RefsMove
    <3> QED BY <1>4, <3>8, Zenon
  <2>9. Doing("open", p, FALSE)'
    BY <1>3, <1>4, <2>2, NextIs DEF Doing, Releasing, Closing
  <2>10. StepInv("open", p, FALSE)'
    <3>1. mp'[p].is = 0 /\ mp'[p].lock # 0
      BY <2>4, <2>5, <2>7
    <3>2. s \in Used' /\ loop'[s].mp = p /\ \A r \in Used' : r <= s
      BY <2>3, <2>7, Numbers
    <3>3. \A t \in Used' : loop'[t].mp = p => loop'[t].pc # "touch"
      <4>1. \A t \in Used : t # s /\ loop'[t] = loop[t]
        BY <2>7, Numbers
      <4> QED BY <2>3, <2>5, <2>7, <4>1
    <3> QED BY <1>1, <1>4, <3>1, <3>2, <3>3 DEF StepInv, Early, Alone, Closing
  <2> QED BY <1>5, <2>7, <2>8, <2>9, <2>10 DEF CallInv, LifeInv
<1> QED BY <1>8, <1>9


-----------------------------------------------------------------------------
(***************************************************************************)
(* A call begins.                                                          *)
(***************************************************************************)
Starts == {"source", "request", "ask", "stop", "select", "prepare", "deselect", "surface", "unhook"}

LEMMA BodyIs ==
    ASSUME NEW p \in Objects, NEW op \in Operations
    PROVE  \E n \in Starts, again \in BOOLEAN :
             /\ Named(Body(op), p, <<>>) = Do(n, p, Rest(n, p, again))
             /\ again <=> n = "unhook"
             /\ n = "prepare" => op = "prepare"
<1>1. /\ \A a \in Steps, names \in Seq(Steps) : Named(<<a>> \o names, p, <<>>) = Do(a, p, Named(names, p, <<>>))
      /\ \A a \in Steps : Named(<<a>>, p, <<>>) = Do(a, p, <<>>)
  <2>1. <<>> \in Seq(Instructions)
    OBVIOUS
  <2> QED BY <2>1, NamedIs, NamedEnds
<1>2. AfterPut(p, FALSE) = <<>> /\ AfterField(p, FALSE) = Do("put", p, <<>>)
      /\ AfterPut(p, TRUE) = Do("setup", p, Do("put", p, <<>>))
  BY DEF AfterField, AfterPut
<1> DEFINE c1 == <<"put">>
<1>3. c1 \in Seq(Steps) /\ Named(c1, p, <<>>) = Do("put", p, <<>>)
  BY <1>1, StepNames
<1>4. CASE op \in {"source", "request", "stop", "ask", "select"}
  <2>1. Body(op) = <<op>> \o c1
    BY <1>4 DEF Body
  <2>2. op \in Steps /\ op \in Alone /\ op \in Starts /\ op # "unhook" /\ op # "prepare"
    BY <1>4 DEF Steps, Alone, Starts
  <2> HIDE DEF c1
  <2>3. Named(Body(op), p, <<>>) = Do(op, p, Do("put", p, <<>>))
    BY <1>1, <1>3, <2>1, <2>2
  <2>4. Rest(op, p, FALSE) = AfterField(p, FALSE)
    BY <1>4 DEF Rest, Alone
  <2>5. Named(Body(op), p, <<>>) = Do(op, p, Rest(op, p, FALSE))
    BY <1>2, <2>3, <2>4
  <2> QED BY <2>2, <2>5
<1>5. CASE op \in {"prepare", "deselect"}
  <2> DEFINE o == IF op = "prepare" THEN "open" ELSE "deselected"
             c2 == <<o, "put">>
  <2>1. Body(op) = <<op>> \o c2 /\ c2 = <<o>> \o c1
    BY <1>5 DEF Body
  <2>2. op \in Steps /\ o \in Steps /\ op \in Starts /\ op # "unhook"
    BY <1>5, StepNames DEF Starts
  <2>3. c2 \in Seq(Steps)
    BY <2>2, StepNames
  <2>4. Rest(op, p, FALSE) = Do(o, p, AfterField(p, FALSE))
    BY <1>5 DEF Rest, Alone
  <2> HIDE DEF c1, c2, o
  <2>5. Named(c2, p, <<>>) = Do(o, p, Do("put", p, <<>>))
    BY <1>1, <1>3, <2>1, <2>2
  <2>6. Named(Body(op), p, <<>>) = Do(op, p, Named(c2, p, <<>>))
    BY <1>1, <2>1, <2>2, <2>3
  <2>7. Named(Body(op), p, <<>>) = Do(op, p, Rest(op, p, FALSE))
    BY <1>2, <2>4, <2>5, <2>6
  <2> QED BY <2>2, <2>7
<1>6. CASE op = "release"
  <2> DEFINE c2 == <<"field", "put">>
             c3 == <<"cookie", "field", "put">>
             c4 == <<"shutdown", "cookie", "field", "put">>
  <2>1. /\ Body(op) = <<"surface">> \o c4 /\ c4 = <<"shutdown">> \o c3
        /\ c3 = <<"cookie">> \o c2 /\ c2 = <<"field">> \o c1
    BY <1>6 DEF Body, Release
  <2>2. /\ "surface" \in Steps /\ "shutdown" \in Steps /\ "cookie" \in Steps /\ "field" \in Steps
        /\ "surface" \in Starts
    BY StepNames DEF Starts
  <2>3. c2 \in Seq(Steps) /\ c3 \in Seq(Steps) /\ c4 \in Seq(Steps)
    BY StepNames
  <2> HIDE DEF c1, c2, c3, c4
  <2>4. Named(c2, p, <<>>) = AfterCookie(p, FALSE)
    BY <1>1, <1>2, <1>3, <2>1, <2>2 DEF AfterCookie
  <2>5. Named(c3, p, <<>>) = AfterFree(p, FALSE)
    BY <1>1, <2>1, <2>2, <2>3, <2>4 DEF AfterFree
  <2>6. Named(c4, p, <<>>) = AfterSurface(p, FALSE)
    BY <1>1, <2>1, <2>2, <2>3, <2>5 DEF AfterSurface
  <2>7. Named(Body(op), p, <<>>) = Do("surface", p, AfterSurface(p, FALSE))
    BY <1>1, <2>1, <2>2, <2>3, <2>6
  <2>8. Rest("surface", p, FALSE) = AfterSurface(p, FALSE)
    BY DEF Rest, Alone
  <2>9. Named(Body(op), p, <<>>) = Do("surface", p, Rest("surface", p, FALSE))
    BY <2>7, <2>8
  <2> QED BY <2>2, <2>9
<1>7. CASE op = "reset"
  <2> DEFINE c2 == <<"setup", "put">>
             c3 == <<"put">> \o c2
             c4 == <<"field">> \o c3
             c5 == <<"cookie">> \o c4
             c6 == <<"shutdown">> \o c5
             c7 == <<"surface">> \o c6
             c8 == <<"get">> \o c7
             c9 == <<"unhook">> \o c8
  <2>1. Body(op) = c9
    <3> DEFINE r2 == <<"field", "put">>
               r3 == <<"cookie", "field", "put">>
               r4 == <<"shutdown", "cookie", "field", "put">>
    <3>1. \A a \in Steps, x \in Seq(Steps), y \in Seq(Steps) : (<<a>> \o x) \o y = <<a>> \o (x \o y)
      <4>1. \A a \in Steps : <<a>> \in Seq(Steps)
        OBVIOUS
      <4> QED BY <4>1, ConcatAssociative
    <3>2. /\ Release = <<"surface">> \o r4 /\ r4 = <<"shutdown">> \o r3 /\ r3 = <<"cookie">> \o r2
          /\ r2 = <<"field">> \o <<"put">>
      BY DEF Release
    <3>3. Body(op) = (<<"unhook">> \o (<<"get">> \o Release)) \o c2
      BY <1>7 DEF Body, Release
    <3>4. /\ "surface" \in Steps /\ "shutdown" \in Steps /\ "cookie" \in Steps /\ "field" \in Steps
          /\ "put" \in Steps /\ "get" \in Steps /\ "unhook" \in Steps
      BY StepNames
    <3>5. /\ <<"put">> \in Seq(Steps) /\ r2 \in Seq(Steps) /\ r3 \in Seq(Steps) /\ r4 \in Seq(Steps)
          /\ Release \in Seq(Steps) /\ <<"get">> \o Release \in Seq(Steps) /\ c2 \in Seq(Steps)
      BY StepNames DEF Release
    <3> HIDE DEF r2, r3, r4, c2
    <3>6. r2 \o c2 = c4
      BY <3>1, <3>2, <3>4, <3>5
    <3>7. r3 \o c2 = c5
      BY <3>1, <3>2, <3>4, <3>5, <3>6
    <3>8. r4 \o c2 = c6
      BY <3>1, <3>2, <3>4, <3>5, <3>7
    <3>9. Release \o c2 = c7
      BY <3>1, <3>2, <3>4, <3>5, <3>8
    <3>10. (<<"get">> \o Release) \o c2 = c8
      <4>1. (<<"get">> \o Release) \o c2 = <<"get">> \o (Release \o c2)
        <5>1. "get" \in Steps /\ Release \in Seq(Steps) /\ c2 \in Seq(Steps)
          BY <3>4, <3>5
        <5> QED BY <3>1, <5>1, Zenon
      <4> QED BY <3>9, <4>1, Zenon
    <3>11. (<<"unhook">> \o (<<"get">> \o Release)) \o c2 = c9
      <4> DEFINE g == <<"get">> \o Release
      <4>1. g \in Seq(Steps) /\ g \o c2 = c8
        BY <3>5, <3>10
      <4> HIDE DEF g
      <4>2. (<<"unhook">> \o g) \o c2 = <<"unhook">> \o (g \o c2)
        <5>1. "unhook" \in Steps /\ g \in Seq(Steps) /\ c2 \in Seq(Steps)
          BY <3>4, <3>5, <4>1
        <5> QED BY <3>1, <5>1, Zenon
      <4> QED BY <4>1, <4>2, Zenon DEF g
    <3> QED BY <3>3, <3>11
  <2>2. /\ c9 = <<"unhook">> \o c8 /\ c8 = <<"get">> \o c7 /\ c7 = <<"surface">> \o c6 /\ c6 = <<"shutdown">> \o c5
        /\ c5 = <<"cookie">> \o c4 /\ c4 = <<"field">> \o c3 /\ c3 = <<"put">> \o c2 /\ c2 = <<"setup">> \o c1
    OBVIOUS
  <2>3. /\ "surface" \in Steps /\ "shutdown" \in Steps /\ "cookie" \in Steps /\ "field" \in Steps /\ "put" \in Steps
        /\ "setup" \in Steps /\ "get" \in Steps /\ "unhook" \in Steps /\ "unhook" \in Starts
    BY StepNames DEF Starts
  <2> HIDE DEF c2
  <2>a. \A a \in Steps, x \in Seq(Steps) : <<a>> \o x \in Seq(Steps)
    OBVIOUS
  <2>b. c2 \in Seq(Steps)
    BY <2>3 DEF c2
  <2> HIDE DEF c1, c3, c4, c5, c6, c7, c8, c9
  <2>c. c3 \in Seq(Steps) /\ c4 \in Seq(Steps) /\ c5 \in Seq(Steps)
    BY <2>a, <2>b, <2>2, <2>3
  <2>4. /\ c2 \in Seq(Steps) /\ c3 \in Seq(Steps) /\ c4 \in Seq(Steps) /\ c5 \in Seq(Steps)
        /\ c6 \in Seq(Steps) /\ c7 \in Seq(Steps) /\ c8 \in Seq(Steps)
    BY <2>a, <2>b, <2>c, <2>2, <2>3
  <2>5. Named(c2, p, <<>>) = AfterPut(p, TRUE)
    BY <1>1, <1>2, <1>3, <2>2, <2>3
  <2>d. /\ Named(<<"put">> \o c2, p, <<>>) = Do("put", p, Named(c2, p, <<>>))
        /\ Named(<<"field">> \o c3, p, <<>>) = Do("field", p, Named(c3, p, <<>>))
        /\ Named(<<"cookie">> \o c4, p, <<>>) = Do("cookie", p, Named(c4, p, <<>>))
        /\ Named(<<"shutdown">> \o c5, p, <<>>) = Do("shutdown", p, Named(c5, p, <<>>))
    BY <1>1, <2>3, <2>4
  <2>e. /\ Named(<<"surface">> \o c6, p, <<>>) = Do("surface", p, Named(c6, p, <<>>))
        /\ Named(<<"get">> \o c7, p, <<>>) = Do("get", p, Named(c7, p, <<>>))
        /\ Named(<<"unhook">> \o c8, p, <<>>) = Do("unhook", p, Named(c8, p, <<>>))
    BY <1>1, <2>3, <2>4
  <2>6. Named(c3, p, <<>>) = AfterField(p, TRUE)
    BY <2>d, <2>2, <2>5 DEF AfterField
  <2>7. Named(c4, p, <<>>) = AfterCookie(p, TRUE)
    BY <2>d, <2>2, <2>6 DEF AfterCookie
  <2>8. Named(c5, p, <<>>) = AfterFree(p, TRUE)
    BY <2>d, <2>2, <2>7 DEF AfterFree
  <2>9. Named(c6, p, <<>>) = AfterSurface(p, TRUE)
    BY <2>d, <2>2, <2>8 DEF AfterSurface
  <2>10. Named(c7, p, <<>>) = AfterGet(p)
    BY <2>e, <2>2, <2>9 DEF AfterGet
  <2>11. Named(c9, p, <<>>) = Do("unhook", p, Do("get", p, AfterGet(p)))
    BY <2>e, <2>2, <2>10
  <2>12. Rest("unhook", p, TRUE) = Do("get", p, AfterGet(p))
    BY DEF Rest, Alone
  <2>13. Named(Body(op), p, <<>>) = Do("unhook", p, Rest("unhook", p, TRUE))
    BY <2>1, <2>11, <2>12
  <2> QED BY <2>3, <2>13
<1> QED BY <1>4, <1>5, <1>6, <1>7 DEF Operations

LEMMA BodyNamed ==
    ASSUME NEW p \in Objects, NEW op \in Operations
    PROVE  [i \in 1 .. Len(Body(op)) |-> <<Body(op)[i], p>>] = Named(Body(op), p, <<>>)
<1> DEFINE b == Body(op)
           all == [i \in 1 .. Len(b) |-> <<b[i], p>>]
<1>1. \E m \in Nat : Len(b) = m
  BY DEF Body, Release, Operations
<1>2. all \in Seq({all[i] : i \in 1 .. Len(b)})
  BY <1>1
<1> HIDE DEF b, all
<1>3. all \o <<>> = all
  BY <1>2, ConcatEmptySeq
<1> QED BY <1>3 DEF Named, b, all

\* No call is under way.
LEMMA IdleIs ==
    ASSUME NEW n \in Steps, NEW p \in Objects, NEW again \in BOOLEAN, Doing(n, p, again), todo = <<>>
    PROVE  n = "idle"
<1>1. n # "idle" => todo = Do(n, p, Rest(n, p, again))
  BY DEF Doing
<1>2. Do(n, p, Rest(n, p, again)) # <<>>
  BY RestIs, DoIs
<1> QED BY <1>1, <1>2

LEMMA StartsAre ==
    ASSUME NEW n \in Starts, NEW again \in BOOLEAN, again <=> n = "unhook"
    PROVE  /\ n \in Steps /\ n \notin {"idle", "field", "setup", "put", "destroy", "open", "deselected"}
           /\ n \notin Closing \cup {"cookie", "delete"}
           /\ Held(n, again) = 1
           /\ n \in {"unhook", "get", "setup"} => again
           /\ n \notin Releasing \cup {"unhook", "get", "setup"} => ~ again
<1>1. n \in Steps /\ n \notin {"idle", "field", "setup", "put", "destroy", "open", "deselected"}
      /\ n \notin Closing \cup {"cookie", "delete"} /\ n # "get"
  BY DEF Starts, Steps, Alone, Closing, Releasing
<1>2. "unhook" \notin Releasing
  BY ReleaseNames
<1>3. Held(n, again) = 1
  BY <1>1, <1>2 DEF Held
<1> QED BY <1>1, <1>3

LEMMA CallKeeps == ASSUME ~ PrepareAgain, LifeInv, Call PROVE LifeInv'
<1>0. field # 0 /\ field \in Objects
  BY Numbers DEF Call, LifeInv, PartsInv, LifeTypeOK
<1>a. PICK p \in Objects : p = field
  BY <1>0
<1>1. /\ todo = <<>> /\ p # 0 /\ UNCHANGED <<field, cookies, strm, loop>>
      /\ mp' = [mp EXCEPT ![p].refs = mp[p].refs + 1]
  BY <1>a DEF Call
<1>2. PartsInv /\ LifeTypeOK /\ p \in Objects /\ mp[p].refs \in Nat /\ field' \in Objects \cup {0}
  BY <1>0, <1>1, LifeFields DEF LifeInv, PartsInv
<1>3. PICK op \in Operations :
        /\ op = "prepare" => mp[p].state # "stopped"
        /\ todo' = [i \in 1 .. Len(Body(op)) |-> <<Body(op)[i], p>>]
  BY <1>a DEF Call
<1>4. todo' = Named(Body(op), p, <<>>)
  BY <1>2, <1>3, BodyNamed
<1>5. PICK n \in Starts, again \in BOOLEAN :
        /\ Named(Body(op), p, <<>>) = Do(n, p, Rest(n, p, again))
        /\ again <=> n = "unhook"
        /\ n = "prepare" => op = "prepare"
  BY <1>2, BodyIs
<1>6. PICK n0 \in Steps, p0 \in Objects, again0 \in BOOLEAN : CallInv(n0, p0, again0)
  BY DEF LifeInv
<1>7. n0 = "idle" /\ RefsInv(n0, p0, again0) /\ field \in cookies
  BY <1>0, <1>1, <1>6, IdleIs DEF CallInv, StepInv
<1>8. /\ n \in Steps /\ n \notin {"idle", "field", "setup", "put", "destroy", "open", "deselected"}
      /\ n \notin Closing \cup {"cookie", "delete"}
      /\ Held(n, again) = 1
      /\ n \in {"unhook", "get", "setup"} => again
      /\ n \notin Releasing \cup {"unhook", "get", "setup"} => ~ again
  BY <1>5, StartsAre
<1>9. \A q \in Objects : IF mp[q].made THEN mp[q].refs = FieldRef(q) + LoopRef(q) ELSE mp[q].refs = 0 /\ field # q
  <2>1. Held(n0, again0) = 0
    BY <1>7 DEF Held
  <2> QED BY <1>7, <2>1, RefNumbers DEF RefsInv
<1> DEFINE r == mp[p].refs + 1
<1>10. r \in Nat /\ mp[p].made /\ mp[p].refs # 0 /\ r = FieldRef(p) + LoopRef(p) + 1
  <2>1. mp[p].made /\ mp[p].refs = FieldRef(p) + LoopRef(p) /\ FieldRef(p) = 1
    BY <1>2, <1>9, <1>a DEF FieldRef
  <2> QED BY <1>2, <2>1, RefNumbers
<1>11. mp' = [mp EXCEPT ![p].refs = r]
  BY <1>1
<1>12. field' \in Objects \cup {0} /\ UNCHANGED <<cookies, strm, loop>>
  BY <1>1, <1>2
<1> HIDE DEF r
<1>13. /\ PartsInv'
       /\ mp'[p].refs = r /\ \A q \in Objects \ {p} : mp'[q].refs = mp[q].refs
       /\ \A q \in Objects :
            /\ mp'[q].made = mp[q].made /\ mp'[q].freed = mp[q].freed /\ mp'[q].state = mp[q].state
            /\ mp'[q].lock = mp[q].lock /\ mp'[q].is = mp[q].is /\ mp'[q].aborted = mp[q].aborted
  BY <1>2, <1>10, <1>11, <1>12, RefsChange
<1>14. \A q \in Objects : FieldRef(q)' = FieldRef(q) /\ LoopRef(q)' = LoopRef(q)
  BY <1>1 DEF FieldRef, LoopRef, Refers
<1>15. RefsInv(n, p, again)'
  <2>1. ASSUME NEW q \in Objects
        PROVE  IF mp'[q].made THEN mp'[q].refs = FieldRef(q)' + LoopRef(q)' + (IF q = p THEN Held(n, again) ELSE 0)
                              ELSE mp'[q].refs = 0 /\ field' # q /\ (n # "idle" => q # p)
    <3>1. CASE q = p
      BY <1>8, <1>10, <1>13, <1>14, <3>1
    <3>2. CASE q # p
      <4>1. mp'[q].made = mp[q].made /\ mp'[q].refs = mp[q].refs
        BY <1>13, <3>2
      <4>2. IF mp[q].made THEN mp[q].refs = FieldRef(q) + LoopRef(q) + 0 ELSE mp[q].refs = 0 /\ field # q
        BY <1>9, RefNumbers
      <4> QED BY <1>1, <1>14, <3>2, <4>1, <4>2
    <3> QED BY <3>1, <3>2
  <2> QED BY <2>1 DEF RefsInv
<1>16. Doing(n, p, again)'
  BY <1>4, <1>5, <1>8 DEF Doing
<1>17. StepInv(n, p, again)'
  <2>1. n = "prepare" => mp'[p].state # "stopped"
    BY <1>2, <1>3, <1>5, <1>13
  <2>2. field' = p /\ field' \in cookies'
    BY <1>1, <1>7, <1>a
  <2>3. n \notin {"components", "refresh", "free"} /\ n \notin {"destroy", "open", "deselected"}
    BY <1>8 DEF Closing
  <2> QED BY <1>8, <2>1, <2>2, <2>3 DEF StepInv
<1> QED BY <1>2, <1>8, <1>13, <1>15, <1>16, <1>17 DEF CallInv, LifeInv


-----------------------------------------------------------------------------
(***************************************************************************)
(* The message loop.                                                       *)
(***************************************************************************)
\* What a step of the loop s, which comes to be l, leaves of the players.
LoopSoft(s) ==
    /\ mp' \in [Objects -> Players]
    /\ \A q \in Objects :
          /\ mp'[q].made = mp[q].made /\ mp'[q].is = mp[q].is /\ mp'[q].aborted = mp[q].aborted
          /\ \/ mp'[q].state = mp[q].state
             \/ mp'[q].state = "prepared" /\ mp[q].state \notin {"idle", "initialized"}
          /\ q # loop[s].mp => mp'[q].lock = mp[q].lock
LateOK(s, l) ==
    /\ l.late \in {0, 1}
    /\ l.late = 1 => mp'[l.mp].aborted /\ l.pc \in {"wait", "put", "destroy", "ended"}
    /\ l.pc = "touch" => mp'[l.mp].lock = s
LockOK(s, l) ==
    \/ mp'[l.mp].lock = mp[l.mp].lock /\ l.pc # "touch"
    \/ mp[l.mp].lock = 0
    \/ loop[s].pc = "touch"

LEMMA LoopParts ==
    ASSUME PartsInv, UNCHANGED <<field, cookies>>, SameStrm,
           NEW s \in Used, NEW l \in Loops, loop' = [loop EXCEPT ![s] = l], l.mp = loop[s].mp, l.pc # "none",
           LoopSoft(s), LateOK(s, l)
    PROVE  /\ LifeTypeOK' /\ SessionInv' /\ StreamInv' /\ LateInv' /\ Used' = Used
           /\ s \in Sessions /\ loop[s].mp \in Objects /\ loop[s].pc # "none"
           /\ loop'[s] = l /\ \A t \in Sessions \ {s} : loop'[t] = loop[t]
           /\ \A t \in Sessions : loop'[t].mp = loop[t].mp
           /\ \A t \in Used \ {s} : t \in Sessions /\ loop[t].mp # loop[s].mp
<1>1. /\ LifeTypeOK /\ \A t \in Used : t \in Sessions /\ loop[t].mp \in Objects /\ loop[t].pc # "none"
      /\ \A t \in Used \ {s} : loop[t].mp # loop[s].mp
  BY DEF PartsInv, SessionInv, Used
<1>2. loop' \in [Sessions -> Loops] /\ loop'[s] = l /\ \A t \in Sessions \ {s} : loop'[t] = loop[t]
  BY <1>1 DEF LifeTypeOK
<1>3. \A t \in Sessions : loop'[t].mp = loop[t].mp
  BY <1>2
<1>4. Used' = Used
  BY <1>1, <1>2 DEF Used
<1>5. LifeTypeOK'
  BY <1>1, <1>2 DEF LifeTypeOK, LoopSoft, SameStrm
<1>6. SessionInv'
  <2>1. \A t \in Used : /\ loop'[t].mp \in Objects /\ mp'[loop'[t].mp].made
                        /\ mp'[loop'[t].mp].state \notin {"idle", "initialized"}
    <3>1. \A t \in Used : mp[loop[t].mp].made /\ mp[loop[t].mp].state \notin {"idle", "initialized"}
      BY DEF PartsInv, SessionInv
    <3> QED BY <1>1, <1>3, <3>1 DEF LoopSoft
  <2>2. /\ \A t \in Used : \A u \in Used : loop'[t].mp = loop'[u].mp => t = u
        /\ \A t \in Used : \A r \in Sessions : r < t => r \in Used
    BY <1>1, <1>3 DEF PartsInv, SessionInv
  <2>3. \A q \in Objects : mp'[q].is # 0 => /\ mp'[q].is \in Used /\ loop'[mp'[q].is].mp = q
                                            /\ ~ strm'[mp'[q].is].freed
    BY <1>1, <1>3 DEF PartsInv, SessionInv, LoopSoft, SameStrm
  <2> QED BY <1>4, <2>1, <2>2, <2>3 DEF SessionInv
<1>7. StreamInv'
  <2>1. \A t \in Sessions : strm'[t].read \notin {"none", "ended"} =>
              t \in Used' /\ mp'[loop'[t].mp].is = t /\ loop'[t].mp \in cookies'
    BY <1>1, <1>3, <1>4 DEF PartsInv, StreamInv, LoopSoft, SameStrm
  <2>2. ASSUME NEW t \in Sessions, strm'[t].freed
        PROVE  t \in Used' /\ mp'[loop'[t].mp].aborted /\ Quiet(t)'
    <3>1. t \in Used /\ mp[loop[t].mp].aborted /\ Quiet(t)
      BY <2>2 DEF PartsInv, StreamInv, SameStrm
    <3>2. Quiet(t)'
      BY <3>1 DEF Quiet, SameStrm
    <3> QED BY <1>1, <1>3, <1>4, <3>1, <3>2 DEF LoopSoft
  <2> QED BY <2>1, <2>2 DEF StreamInv
<1>8. LateInv'
  <2>1. ASSUME NEW t \in Used
        PROVE  /\ loop'[t].late \in {0, 1}
               /\ loop'[t].late = 1 => /\ mp'[loop'[t].mp].aborted
                                       /\ loop'[t].pc \in {"wait", "put", "destroy", "ended"}
               /\ loop'[t].pc = "touch" => mp'[loop'[t].mp].lock = t
    <3>1. CASE t = s
      BY <1>2, <3>1 DEF LateOK
    <3>2. CASE t # s
      BY <1>1, <1>2, <3>2 DEF PartsInv, LateInv, LoopSoft
    <3> QED BY <3>1, <3>2
  <2>2. \A q \in Objects \ cookies : mp'[q].aborted
    BY DEF PartsInv, LateInv, LoopSoft
  <2> QED BY <1>4, <2>1, <2>2 DEF LateInv
<1> QED BY <1>1, <1>2, <1>3, <1>4, <1>5, <1>6, <1>7, <1>8

\* The call of the application is where it was.
LEMMA LoopCall ==
    ASSUME PartsInv, UNCHANGED <<field, cookies>>, SameStrm,
           NEW s \in Used, NEW l \in Loops, loop' = [loop EXCEPT ![s] = l], l.mp = loop[s].mp, l.pc # "none",
           LoopSoft(s), LateOK(s, l), LockOK(s, l),
           NEW n \in Steps, NEW p \in Objects, NEW again \in BOOLEAN, StepInv(n, p, again),
           n = "destroy" => /\ mp'[p].refs = 0 /\ ~ mp'[p].freed /\ (loop[s].mp = p => l.pc # "destroy")
    PROVE  StepInv(n, p, again)'
<1>1. /\ Used' = Used /\ LifeTypeOK /\ s \in Sessions
      /\ loop'[s] = l /\ \A t \in Sessions \ {s} : loop'[t] = loop[t]
      /\ \A t \in Sessions : loop'[t].mp = loop[t].mp
      /\ \A t \in Used : t \in Sessions
  BY LoopParts, Numbers DEF PartsInv
<1>2. mp'[p].is = mp[p].is /\ mp'[p].aborted = mp[p].aborted
      /\ (n = "prepare" => mp'[p].state # "stopped")
  BY DEF LoopSoft, StepInv
<1>3. /\ n \in Closing => mp[p].is \in Sessions
      /\ {"components", "refresh", "free"} \subseteq Closing
  BY <1>1, LifeFields DEF StepInv, Closing
<1>4. /\ n \in {"components", "refresh", "free"} => strm'[mp'[p].is].read = "ended"
      /\ n \in {"refresh", "free"} => \A k \in Media : strm'[mp'[p].is].dec[k] \in {"none", "ended"}
      /\ n = "free" => strm'[mp'[p].is].refresh = "ended"
  BY <1>2, <1>3 DEF StepInv, SameStrm
<1>5. n = "destroy" => \A t \in Used : loop'[t].mp = p => loop'[t].pc # "destroy"
  BY <1>1 DEF StepInv
<1>6. n = "open" => mp'[p].is = 0 /\ \E t \in Used : loop'[t].mp = p /\ \A r \in Used : r <= t
  BY <1>1, <1>2 DEF StepInv
<1>7. n \in {"open", "deselected"} =>
          mp'[p].lock # 0 /\ \A t \in Used : loop'[t].mp = p => loop'[t].pc # "touch"
  <2> HAVE n \in {"open", "deselected"}
  <2>1. mp[p].lock # 0 /\ \A t \in Used : loop[t].mp = p => loop[t].pc # "touch"
    BY DEF StepInv
  <2>2. CASE loop[s].mp = p
    <3>1. mp'[p].lock = mp[p].lock /\ l.pc # "touch"
      BY <2>1, <2>2 DEF LockOK
    <3> QED BY <1>1, <2>1, <3>1
  <2>3. CASE loop[s].mp # p
    BY <1>1, <2>1, <2>3 DEF LoopSoft
  <2> QED BY <2>2, <2>3
<1> QED BY <1>1, <1>2, <1>4, <1>5, <1>6, <1>7 DEF StepInv

\* A step of a loop that keeps its reference.
LEMMA LoopKeeps ==
    ASSUME LifeInv, UNCHANGED <<field, cookies, todo>>, SameStrm,
           NEW s \in Used, NEW l \in Loops, loop' = [loop EXCEPT ![s] = l], l.mp = loop[s].mp,
           l.pc \notin {"none", "destroy", "ended"}, loop[s].pc \notin {"none", "destroy", "ended"},
           LoopSoft(s), LateOK(s, l), LockOK(s, l),
           \A q \in Objects : mp'[q].refs = mp[q].refs /\ mp'[q].freed = mp[q].freed
    PROVE  LifeInv'
<1>1. PartsInv
  BY DEF LifeInv
<1>2. PICK n \in Steps, p \in Objects, again \in BOOLEAN : CallInv(n, p, again)
  BY DEF LifeInv
<1>3. /\ LifeTypeOK' /\ SessionInv' /\ StreamInv' /\ LateInv' /\ Used' = Used
      /\ s \in Sessions /\ loop[s].mp \in Objects
      /\ loop'[s] = l /\ \A t \in Sessions \ {s} : loop'[t] = loop[t]
      /\ \A t \in Sessions : loop'[t].mp = loop[t].mp
      /\ \A t \in Used \ {s} : t \in Sessions /\ loop[t].mp # loop[s].mp
  BY <1>1, LoopParts
<1>4. FreedInv'
  <2>1. \A t \in Used : loop'[t].pc = "destroy" => loop[t].pc = "destroy" /\ loop[t].mp \in Objects
    BY <1>1, <1>3 DEF PartsInv, SessionInv
  <2> QED BY <1>1, <1>3, <2>1 DEF PartsInv, FreedInv
<1>5. RefsInv(n, p, again)'
  <2>1. \A q \in Objects : FieldRef(q)' = FieldRef(q)
    BY DEF FieldRef
  <2>2. \A q \in Objects, t \in Sessions : Refers(t, q)' <=> Refers(t, q)
    BY <1>3 DEF Refers
  <2>3. \A q \in Objects : LoopRef(q)' = LoopRef(q)
    BY <2>2 DEF LoopRef
  <2> QED BY <1>2, <2>1, <2>3 DEF RefsInv, CallInv, LoopSoft
<1>6. StepInv(n, p, again)'
  <2>1. StepInv(n, p, again) /\ l.pc # "none"
    BY <1>2 DEF CallInv
  <2>2. n = "destroy" => /\ mp'[p].refs = 0 /\ ~ mp'[p].freed /\ (loop[s].mp = p => l.pc # "destroy")
    BY <2>1 DEF StepInv
  <2> QED BY <1>1, <2>1, <2>2, LoopCall
<1>7. Doing(n, p, again)'
  BY <1>2 DEF CallInv, Doing
<1> QED BY <1>3, <1>4, <1>5, <1>6, <1>7 DEF CallInv, PartsInv, LifeInv


\* The loop s is somewhere: what is known of it.
LEMMA LoopIs ==
    ASSUME LifeInv, NEW s \in Sessions, loop[s].pc # "none"
    PROVE  /\ s \in Used /\ PartsInv /\ LifeTypeOK /\ loop \in [Sessions -> Loops] /\ loop[s] \in Loops
           /\ loop[s].mp \in Objects /\ loop[s].late \in {0, 1}
           /\ mp[loop[s].mp] \in Players /\ mp \in [Objects -> Players]
           /\ mp[loop[s].mp].state \notin {"idle", "initialized"}
           /\ loop[s].pc \notin {"wait", "put", "destroy", "ended"} => loop[s].late = 0
<1>1. s \in Used /\ PartsInv
  BY DEF Used, LifeInv
<1>2. loop[s].mp \in Objects /\ mp[loop[s].mp].state \notin {"idle", "initialized"}
  BY <1>1 DEF PartsInv, SessionInv
<1> QED BY <1>1, <1>2 DEF PartsInv, LateInv, LifeTypeOK

\* A step that only moves the loop on, from one place before its end to another.
LEMMA LoopMoves ==
    ASSUME LifeInv, UNCHANGED <<field, cookies, todo>>, SameStrm, SameMp, NEW s \in Sessions,
           loop[s].pc \notin {"none", "destroy", "ended"},
           NEW l \in Loops, loop' = [loop EXCEPT ![s] = l], l.mp = loop[s].mp,
           l.pc \notin {"none", "destroy", "ended", "touch"},
           l.late = 1 => mp[l.mp].aborted /\ l.pc \in {"wait", "put"}, l.late \in {0, 1}
    PROVE  LifeInv'
<1>1. s \in Used /\ l.mp \in Objects
  BY LoopIs
<1>2. LoopSoft(s)
  BY DEF SameMp, LoopSoft
<1>3. LateOK(s, l) /\ LockOK(s, l)
  BY <1>1 DEF SameMp, LateOK, LockOK
<1>4. \A q \in Objects : mp'[q].refs = mp[q].refs /\ mp'[q].freed = mp[q].freed
  BY DEF SameMp
<1> QED BY <1>1, <1>2, <1>3, <1>4, LoopKeeps

\* Goto as a new value of the loop.
LEMMA GotoIs ==
    ASSUME LifeInv, NEW s \in Sessions, loop[s].pc # "none",
           NEW pc \in {"begin", "wait", "lock", "touch", "post", "put", "destroy", "ended"}, Goto(s, pc)
    PROVE  \E l \in Loops : /\ loop' = [loop EXCEPT ![s] = l] /\ l.pc = pc
                            /\ l.mp = loop[s].mp /\ l.late = loop[s].late
<1> DEFINE l == [loop[s] EXCEPT !.pc = pc]
<1>1. loop[s] \in Loops
  BY LoopIs
<1>2. l \in Loops /\ l.pc = pc /\ l.mp = loop[s].mp /\ l.late = loop[s].late
  BY <1>1 DEF Loops
<1>3. loop' = [loop EXCEPT ![s] = l]
  BY DEF Goto
<1> QED BY <1>2, <1>3

LEMMA NothingSame == ASSUME LifeInv, UNCHANGED <<mp, strm>> PROVE SameMp /\ SameStrm
  BY SameMpIs, SameStrmIs DEF LifeInv, PartsInv

LEMMA LoopBeginKeeps == ASSUME LifeInv, NEW s \in Sessions, LoopBegin(s) PROVE LifeInv'
<1>1. /\ loop[s].pc = "begin" /\ UNCHANGED <<field, mp, cookies, strm, todo>>
      /\ Goto(s, IF mp[loop[s].mp].cookie THEN "wait" ELSE "put")
  BY DEF LoopBegin, At
<1>2. PICK pc \in {"wait", "put"} : Goto(s, pc)
  BY <1>1
<1>3. PICK l \in Loops : /\ loop' = [loop EXCEPT ![s] = l] /\ l.pc = pc
                         /\ l.mp = loop[s].mp /\ l.late = loop[s].late
  BY <1>1, <1>2, GotoIs
<1>4. l.late = 0
  BY <1>1, <1>3, LoopIs
<1>5. SameMp /\ SameStrm
  BY <1>1, NothingSame
<1>6. /\ UNCHANGED <<field, cookies, todo>> /\ loop' = [loop EXCEPT ![s] = l] /\ l \in Loops
      /\ l.pc \notin {"none", "destroy", "ended", "touch"} /\ loop[s].pc \notin {"none", "destroy", "ended"}
      /\ l.mp = loop[s].mp /\ l.late \in {0, 1} /\ (l.late = 1 => mp[l.mp].aborted /\ l.pc \in {"wait", "put"})
  BY <1>1, <1>2, <1>3, <1>4
<1> QED BY <1>5, <1>6, LoopMoves

LEMMA LoopTakeKeeps == ASSUME LifeInv, NEW s \in Sessions, LoopTake(s) PROVE LifeInv'
<1> DEFINE p == loop[s].mp
<1>1. loop[s].pc = "wait" /\ UNCHANGED <<field, cookies, strm, todo>>
  BY DEF LoopTake, At
<1>2. /\ loop \in [Sessions -> Loops] /\ loop[s] \in Loops /\ p \in Objects /\ loop[s].late \in {0, 1}
      /\ mp[p] \in Players /\ s \in Used /\ PartsInv /\ LifeTypeOK
  BY <1>1, LoopIs
<1>3. SameStrm
  BY <1>1, <1>2, SameStrmIs
<1>4. CASE mp[p].aborted
  <2>1. Goto(s, "put") /\ mp' = mp
    BY <1>4 DEF LoopTake
  <2>2. PICK l \in Loops : /\ loop' = [loop EXCEPT ![s] = l] /\ l.pc = "put"
                           /\ l.mp = loop[s].mp /\ l.late = loop[s].late
    BY <1>1, <2>1, GotoIs
  <2>3. SameMp
    BY <1>2, <2>1, SameMpIs
  <2> QED BY <1>1, <1>2, <1>3, <1>4, <2>2, <2>3, LoopMoves
<1>5. CASE ~ mp[p].aborted
  <2>1. /\ mp[p].msgs # <<>> /\ mp' = [mp EXCEPT ![p].msgs = Tail(mp[p].msgs)]
        /\ loop' = [loop EXCEPT ![s].msg = Head(mp[p].msgs),
                                ![s].pc = IF Head(mp[p].msgs) \in {"prepared", "request"} THEN "lock" ELSE "post"]
    BY <1>5 DEF LoopTake
  <2> DEFINE msgs == mp[p].msgs
             what == Head(msgs)
             pc == IF what \in {"prepared", "request"} THEN "lock" ELSE "post"
             m == [mp[p] EXCEPT !.msgs = Tail(msgs)]
             l == [loop[s] EXCEPT !.msg = what, !.pc = pc]
  <2>2. msgs \in Seq(Messages)
    BY <1>2 DEF Players
  <2>3. what \in Messages /\ Tail(msgs) \in Seq(Messages)
    BY <2>1, <2>2
  <2>4. mp' = [mp EXCEPT ![p] = m] /\ loop' = [loop EXCEPT ![s] = l]
    BY <1>2, <2>1
  <2> HIDE DEF what
  <2>5. l \in Loops /\ l.pc \in {"lock", "post"} /\ l.mp = p /\ l.late = loop[s].late
    BY <1>2, <2>3 DEF Loops
  <2> HIDE DEF msgs
  <2>6. /\ m \in Players /\ m.made = mp[p].made /\ m.refs = mp[p].refs /\ m.freed = mp[p].freed
        /\ m.state = mp[p].state /\ m.lock = mp[p].lock /\ m.is = mp[p].is /\ m.aborted = mp[p].aborted
    BY <1>2, <2>3 DEF Players
  <2> HIDE DEF m, l, pc
  <2>7. SameMp
    <3> HIDE DEF p
    <3>1. mp' \in [Objects -> Players] /\ mp'[p] = m /\ \A q \in Objects \ {p} : mp'[q] = mp[q]
      BY <1>2, <2>4, <2>6, MpIs
    <3> QED BY <2>6, <3>1 DEF SameMp
  <2>8. l.late = 0
    BY <1>2, <1>5, <2>5 DEF PartsInv, LateInv
  <2>9. /\ UNCHANGED <<field, cookies, todo>> /\ loop' = [loop EXCEPT ![s] = l]
        /\ l.pc \notin {"none", "destroy", "ended", "touch"} /\ loop[s].pc \notin {"none", "destroy", "ended"}
        /\ l.mp = loop[s].mp /\ l.late \in {0, 1} /\ (l.late = 1 => mp[l.mp].aborted /\ l.pc \in {"wait", "put"})
    BY <1>1, <2>4, <2>5, <2>8
  <2> QED BY <1>3, <2>5, <2>7, <2>9, LoopMoves
<1> QED BY <1>4, <1>5

\* The field of a player that the loop changes, as a player in its place.
LEMMA LoopMpIs ==
    ASSUME LifeTypeOK, NEW s \in Sessions, loop[s].mp \in Objects,
           NEW m \in Players, mp' = [mp EXCEPT ![loop[s].mp] = m],
           m.made = mp[loop[s].mp].made, m.is = mp[loop[s].mp].is, m.aborted = mp[loop[s].mp].aborted,
           \/ m.state = mp[loop[s].mp].state
           \/ m.state = "prepared" /\ mp[loop[s].mp].state \notin {"idle", "initialized"}
    PROVE  LoopSoft(s) /\ mp'[loop[s].mp] = m /\ \A q \in Objects \ {loop[s].mp} : mp'[q] = mp[q]
<1> DEFINE p == loop[s].mp
<1>1. mp' \in [Objects -> Players] /\ mp'[p] = m /\ \A q \in Objects \ {p} : mp'[q] = mp[q]
  BY DEF LifeTypeOK
<1>2. ASSUME NEW q \in Objects
      PROVE  /\ mp'[q].made = mp[q].made /\ mp'[q].is = mp[q].is /\ mp'[q].aborted = mp[q].aborted
             /\ \/ mp'[q].state = mp[q].state
                \/ mp'[q].state = "prepared" /\ mp[q].state \notin {"idle", "initialized"}
             /\ q # p => mp'[q].lock = mp[q].lock
  BY <1>1
<1> QED BY <1>1, <1>2 DEF LoopSoft

LEMMA HandlePreparedKeeps == ASSUME LifeInv, NEW s \in Sessions, HandlePrepared(s) PROVE LifeInv'
<1> DEFINE p == loop[s].mp
           m == [mp[p] EXCEPT !.state = IF mp[p].state = "preparing" \/ ~ AutoStart THEN "prepared" ELSE mp[p].state]
<1>1. /\ loop[s].pc = "lock" /\ UNCHANGED <<field, cookies, strm, todo>> /\ Goto(s, "post")
      /\ mp' = [mp EXCEPT ![p] = m]
  BY DEF HandlePrepared, At
<1>2. /\ p \in Objects /\ loop[s].late = 0 /\ mp[p].state \notin {"idle", "initialized"}
      /\ mp[p] \in Players /\ s \in Used /\ PartsInv /\ LifeTypeOK
  BY <1>1, LoopIs
<1>3. SameStrm
  BY <1>1, <1>2, SameStrmIs
<1>4. PICK l \in Loops : /\ loop' = [loop EXCEPT ![s] = l] /\ l.pc = "post"
                         /\ l.mp = loop[s].mp /\ l.late = loop[s].late
  BY <1>1, GotoIs
<1>5. /\ m \in Players /\ m.made = mp[p].made /\ m.refs = mp[p].refs /\ m.freed = mp[p].freed
      /\ m.lock = mp[p].lock /\ m.is = mp[p].is /\ m.aborted = mp[p].aborted
      /\ m.state = mp[p].state \/ m.state = "prepared"
  BY <1>2 DEF Players
<1> HIDE DEF m
<1>6. LoopSoft(s) /\ mp'[p] = m /\ \A q \in Objects \ {p} : mp'[q] = mp[q]
  BY <1>1, <1>2, <1>5, LoopMpIs
<1>7. LateOK(s, l) /\ LockOK(s, l)
  BY <1>2, <1>4, <1>5, <1>6 DEF LateOK, LockOK
<1>8. \A q \in Objects : mp'[q].refs = mp[q].refs /\ mp'[q].freed = mp[q].freed
  BY <1>5, <1>6
<1>9. /\ UNCHANGED <<field, cookies, todo>> /\ loop' = [loop EXCEPT ![s] = l] /\ l.mp = loop[s].mp
      /\ l.pc \notin {"none", "destroy", "ended"} /\ loop[s].pc \notin {"none", "destroy", "ended"}
  BY <1>1, <1>4
<1> QED BY <1>2, <1>3, <1>6, <1>7, <1>8, <1>9, LoopKeeps


LEMMA HandleRequestKeeps == ASSUME LifeInv, NEW s \in Sessions, HandleRequest(s) PROVE LifeInv'
<1> DEFINE p == loop[s].mp
<1>1. loop[s].pc = "lock" /\ UNCHANGED <<field, cookies, strm, todo>> /\ mp[p].lock = 0
  BY DEF HandleRequest, At, Unlocked
<1>2. /\ p \in Objects /\ loop[s].late = 0 /\ mp[p].state \notin {"idle", "initialized"}
      /\ mp[p] \in Players /\ s \in Used /\ PartsInv /\ LifeTypeOK
  BY <1>1, LoopIs
<1>3. SameStrm
  BY <1>1, <1>2, SameStrmIs
<1>4. CASE mp[p].state = "prepared" /\ mp[p].is # 0
  <2> DEFINE m == [mp[p] EXCEPT !.lock = mp[p].is]
  <2>1. mp' = [mp EXCEPT ![p] = m] /\ Goto(s, "touch")
    BY <1>4 DEF HandleRequest
  <2>2. PICK l \in Loops : /\ loop' = [loop EXCEPT ![s] = l] /\ l.pc = "touch"
                           /\ l.mp = loop[s].mp /\ l.late = loop[s].late
    BY <1>1, <2>1, GotoIs
  <2>3. mp[p].is = s /\ mp[p].is \in Nat
    BY <1>2, <1>4, Numbers DEF PartsInv, SessionInv
  <2>4. /\ m \in Players /\ m.made = mp[p].made /\ m.refs = mp[p].refs /\ m.freed = mp[p].freed
        /\ m.lock = s /\ m.is = mp[p].is /\ m.aborted = mp[p].aborted /\ m.state = mp[p].state
    BY <1>2, <2>3 DEF Players
  <2> HIDE DEF m
  <2>5. LoopSoft(s) /\ mp'[p] = m /\ \A q \in Objects \ {p} : mp'[q] = mp[q]
    BY <1>2, <2>1, <2>4, LoopMpIs
  <2>6. LateOK(s, l) /\ LockOK(s, l)
    BY <1>1, <1>2, <2>2, <2>4, <2>5 DEF LateOK, LockOK
  <2>7. \A q \in Objects : mp'[q].refs = mp[q].refs /\ mp'[q].freed = mp[q].freed
    BY <2>4, <2>5
  <2>8. /\ UNCHANGED <<field, cookies, todo>> /\ loop' = [loop EXCEPT ![s] = l] /\ l.mp = loop[s].mp
        /\ l.pc \notin {"none", "destroy", "ended"} /\ loop[s].pc \notin {"none", "destroy", "ended"}
    BY <1>1, <2>2
  <2> QED BY <1>2, <1>3, <2>5, <2>6, <2>7, <2>8, LoopKeeps
<1>5. CASE ~ (mp[p].state = "prepared" /\ mp[p].is # 0)
  <2>1. mp' = mp /\ Goto(s, "wait")
    BY <1>5 DEF HandleRequest
  <2>2. PICK l \in Loops : /\ loop' = [loop EXCEPT ![s] = l] /\ l.pc = "wait"
                           /\ l.mp = loop[s].mp /\ l.late = loop[s].late
    BY <1>1, <2>1, GotoIs
  <2>3. SameMp
    BY <1>2, <2>1, SameMpIs
  <2>4. /\ UNCHANGED <<field, cookies, todo>> /\ loop' = [loop EXCEPT ![s] = l] /\ l \in Loops
        /\ l.pc \notin {"none", "destroy", "ended", "touch"} /\ loop[s].pc \notin {"none", "destroy", "ended"}
        /\ l.mp = loop[s].mp /\ l.late \in {0, 1} /\ (l.late = 1 => mp[l.mp].aborted /\ l.pc \in {"wait", "put"})
    BY <1>1, <1>2, <2>2
  <2> QED BY <1>3, <2>3, <2>4, LoopMoves
<1> QED BY <1>4, <1>5

\* The loop is done with a message, and may have come late.
LEMMA LateIs ==
    ASSUME LifeInv, NEW s \in Sessions, loop[s].pc \in {"touch", "post"}, NEW gone, loop' = Late(s, gone)
    PROVE  \E l \in Loops : /\ loop' = [loop EXCEPT ![s] = l] /\ l.pc = "wait"
                            /\ l.mp = loop[s].mp /\ l.late \in {0, 1} /\ (l.late = 1 => gone)
<1> DEFINE late == IF gone THEN loop[s].late + 1 ELSE loop[s].late
           l == [loop[s] EXCEPT !.pc = "wait", !.msg = "none", !.late = late]
<1>1. loop[s] \in Loops /\ loop[s].late = 0 /\ loop \in [Sessions -> Loops]
  BY LoopIs
<1>2. late \in {0, 1} /\ late \in Nat /\ (late = 1 => gone)
  BY <1>1
<1>3. loop' = [loop EXCEPT ![s] = l]
  BY <1>1 DEF Late
<1> HIDE DEF late
<1>4. l \in Loops /\ l.pc = "wait" /\ l.mp = loop[s].mp /\ l.late = late
  BY <1>1, <1>2 DEF Loops
<1> HIDE DEF l
<1> QED BY <1>2, <1>3, <1>4

LEMMA PostEventKeeps == ASSUME LifeInv, NEW s \in Sessions, PostEvent(s) PROVE LifeInv'
<1> DEFINE gone == loop[s].mp \notin cookies
<1>1. loop[s].pc = "post" /\ UNCHANGED <<field, mp, cookies, strm, todo>> /\ loop' = Late(s, gone)
  BY DEF PostEvent, At
<1>2. PICK l \in Loops : /\ loop' = [loop EXCEPT ![s] = l] /\ l.pc = "wait"
                         /\ l.mp = loop[s].mp /\ l.late \in {0, 1} /\ (l.late = 1 => gone)
  BY <1>1, LateIs
<1>3. PartsInv /\ loop[s].mp \in Objects
  BY <1>1, LoopIs
<1>4. l.late = 1 => mp[l.mp].aborted
  BY <1>2, <1>3 DEF PartsInv, LateInv
<1> QED BY <1>1, <1>2, <1>4, NothingSame, LoopMoves

LEMMA TouchKeeps == ASSUME LifeInv, NEW s \in Sessions, Touch(s) PROVE LifeInv'
<1> DEFINE p == loop[s].mp
           t == mp[p].lock
           m == [mp[p] EXCEPT !.lock = 0]
           gone == strm[t].freed
<1>1. /\ loop[s].pc = "touch" /\ UNCHANGED <<field, cookies, todo>> /\ loop' = Late(s, gone)
      /\ mp' = [mp EXCEPT ![p] = m]
      /\ \E starts \in BOOLEAN : strm' = [strm EXCEPT ![t].go = strm[t].go \/ starts]
  BY DEF Touch, At
<1>2. /\ p \in Objects /\ loop[s].late = 0 /\ mp[p].state \notin {"idle", "initialized"}
      /\ mp[p] \in Players /\ s \in Used /\ PartsInv /\ LifeTypeOK
  BY <1>1, LoopIs
<1>3. t = s
  BY <1>1, <1>2 DEF PartsInv, LateInv
<1> HIDE DEF gone
<1>a. loop[s].pc \in {"touch", "post"} /\ loop' = Late(s, gone)
  BY <1>1
<1>4. PICK l \in Loops : /\ loop' = [loop EXCEPT ![s] = l] /\ l.pc = "wait"
                         /\ l.mp = loop[s].mp /\ l.late \in {0, 1} /\ (l.late = 1 => gone)
  BY <1>a, LateIs
<1>5. SameStrm
  <2>1. PICK starts \in BOOLEAN : strm' = [strm EXCEPT ![s].go = strm[s].go \/ starts]
    BY <1>1, <1>3
  <2> DEFINE go == strm[s].go \/ starts
             r == [strm[s] EXCEPT !.go = go]
  <2>2. strm[s] \in Streams /\ go \in BOOLEAN
    BY <1>2 DEF LifeTypeOK, Streams
  <2>3. strm' = [strm EXCEPT ![s] = r]
    BY <2>1
  <2> HIDE DEF go
  <2>4. /\ r \in Streams /\ r.freed = strm[s].freed /\ r.read = strm[s].read /\ r.refresh = strm[s].refresh
        /\ r.dec = strm[s].dec
    BY <2>2 DEF Streams
  <2> HIDE DEF r
  <2>5. strm' \in [Sessions -> Streams] /\ strm'[s] = r /\ \A u \in Sessions \ {s} : strm'[u] = strm[u]
    BY <1>2, <2>3, <2>4, StrmIs
  <2> QED BY <2>4, <2>5 DEF SameStrm
<1>6. /\ m \in Players /\ m.made = mp[p].made /\ m.refs = mp[p].refs /\ m.freed = mp[p].freed
      /\ m.is = mp[p].is /\ m.aborted = mp[p].aborted /\ m.state = mp[p].state
  BY <1>2 DEF Players
<1> HIDE DEF m
<1>7. LoopSoft(s) /\ mp'[p] = m /\ \A q \in Objects \ {p} : mp'[q] = mp[q]
  BY <1>1, <1>2, <1>6, LoopMpIs
<1>8. LateOK(s, l) /\ LockOK(s, l)
  <2>1. strm[s].freed => mp[p].aborted
    BY <1>2 DEF PartsInv, StreamInv
  <2>2. l.late = 1 => mp'[l.mp].aborted
    BY <1>3, <1>4, <1>6, <1>7, <2>1 DEF gone
  <2> QED BY <1>1, <1>4, <2>2 DEF LateOK, LockOK
<1>9. \A q \in Objects : mp'[q].refs = mp[q].refs /\ mp'[q].freed = mp[q].freed
  BY <1>6, <1>7
<1>10. /\ UNCHANGED <<field, cookies, todo>> /\ loop' = [loop EXCEPT ![s] = l] /\ l.mp = loop[s].mp
       /\ l.pc \notin {"none", "destroy", "ended"} /\ loop[s].pc \notin {"none", "destroy", "ended"}
  BY <1>1, <1>4
<1> QED BY <1>2, <1>5, <1>7, <1>8, <1>9, <1>10, LoopKeeps

\* The loop gives its reference back, and destroys the player if that was the last.
LEMMA LoopPutKeeps == ASSUME LifeInv, NEW s \in Sessions, LoopPut(s) PROVE LifeInv'
<1> DEFINE p == loop[s].mp
           r == mp[p].refs - 1
           m == [mp[p] EXCEPT !.refs = r]
<1>1. /\ loop[s].pc = "put" /\ UNCHANGED <<field, cookies, strm, todo>> /\ mp' = [mp EXCEPT ![p] = m]
      /\ Goto(s, IF mp[p].refs = 1 THEN "destroy" ELSE "ended")
  BY DEF LoopPut, At
<1>2. /\ p \in Objects /\ loop[s].late \in {0, 1} /\ mp[p].state \notin {"idle", "initialized"}
      /\ mp[p] \in Players /\ s \in Used /\ PartsInv /\ LifeTypeOK /\ mp[p].refs \in Nat
  BY <1>1, LoopIs, LifeFields
<1>3. SameStrm
  BY <1>1, <1>2, SameStrmIs
<1>4. PICK pc \in {"destroy", "ended"} : Goto(s, pc) /\ (pc = "destroy" => mp[p].refs = 1)
  BY <1>1
<1>5. PICK l \in Loops : /\ loop' = [loop EXCEPT ![s] = l] /\ l.pc = pc
                         /\ l.mp = loop[s].mp /\ l.late = loop[s].late
  BY <1>1, <1>4, GotoIs
<1>6. PICK n \in Steps, o \in Objects, again \in BOOLEAN : CallInv(n, o, again)
  BY DEF LifeInv
<1>7. RefsInv(n, o, again) /\ StepInv(n, o, again)
  BY <1>6 DEF CallInv
<1>8. LoopRef(p) = 1 /\ mp[p].made
  BY <1>1, <1>2 DEF LoopRef, Refers, PartsInv, SessionInv
<1>9. mp[p].refs = FieldRef(p) + 1 + (IF p = o THEN Held(n, again) ELSE 0)
  BY <1>2, <1>7, <1>8 DEF RefsInv
<1>10. r \in Nat /\ mp[p].refs # 0 /\ r = FieldRef(p) + 0 + (IF p = o THEN Held(n, again) ELSE 0)
  BY <1>2, <1>9, RefNumbers
<1>11. pc = "destroy" => r = 0
  BY <1>4
<1> HIDE DEF r
<1>12. /\ m \in Players /\ m.made = mp[p].made /\ m.refs = r /\ m.freed = mp[p].freed /\ m.lock = mp[p].lock
       /\ m.is = mp[p].is /\ m.aborted = mp[p].aborted /\ m.state = mp[p].state
  BY <1>2, <1>10 DEF Players
<1> HIDE DEF m
<1>13. LoopSoft(s) /\ mp'[p] = m /\ \A q \in Objects \ {p} : mp'[q] = mp[q]
  BY <1>1, <1>2, <1>12, LoopMpIs
<1>14. LateOK(s, l) /\ LockOK(s, l)
  <2>1. loop[s].late = 1 => mp[p].aborted
    BY <1>2 DEF PartsInv, LateInv
  <2> QED BY <1>2, <1>4, <1>5, <1>12, <1>13, <2>1 DEF LateOK, LockOK
<1>15. l.mp = loop[s].mp /\ l.pc # "none" /\ loop' = [loop EXCEPT ![s] = l] /\ UNCHANGED <<field, cookies>>
  BY <1>1, <1>4, <1>5
<1>16. /\ LifeTypeOK' /\ SessionInv' /\ StreamInv' /\ LateInv' /\ Used' = Used
       /\ loop'[s] = l /\ \A t \in Sessions \ {s} : loop'[t] = loop[t]
       /\ \A t \in Sessions : loop'[t].mp = loop[t].mp
       /\ \A t \in Used \ {s} : t \in Sessions /\ loop[t].mp # loop[s].mp
  BY <1>2, <1>3, <1>13, <1>14, <1>15, LoopParts
<1>17. ~ mp[p].freed
  BY <1>2, <1>10 DEF PartsInv, FreedInv
<1>18. FreedInv'
  <2>1. \A q \in Objects : mp'[q].freed => mp'[q].refs = 0
    BY <1>2, <1>12, <1>13, <1>17 DEF PartsInv, FreedInv
  <2>2. ASSUME NEW t \in Used, loop'[t].pc = "destroy"
        PROVE  mp'[loop'[t].mp].refs = 0 /\ ~ mp'[loop'[t].mp].freed
    <3>1. CASE t = s
      BY <1>2, <1>5, <1>11, <1>12, <1>13, <1>16, <1>17, <2>2, <3>1
    <3>2. CASE t # s
      <4>1. loop'[t] = loop[t] /\ loop[t].mp # p /\ loop[t].mp \in Objects
        BY <1>2, <1>16, <3>2 DEF PartsInv, SessionInv
      <4> QED BY <1>2, <1>13, <2>2, <4>1 DEF PartsInv, FreedInv
    <3> QED BY <3>1, <3>2
  <2> QED BY <1>16, <2>1, <2>2 DEF FreedInv
<1>19. RefsInv(n, o, again)'
  <2>1. \A q \in Objects : FieldRef(q)' = FieldRef(q)
    BY <1>1 DEF FieldRef
  <2>2. ASSUME NEW q \in Objects, q = p PROVE LoopRef(q)' = 0
    <3>1. \A t \in Sessions : ~ Refers(t, q)'
      BY <1>4, <1>5, <1>16, <2>2 DEF Refers, Used
    <3> QED BY <3>1 DEF LoopRef
  <2>3. \A q \in Objects \ {p} : LoopRef(q)' = LoopRef(q)
    <3>1. \A q \in Objects \ {p}, t \in Sessions : Refers(t, q)' <=> Refers(t, q)
      BY <1>5, <1>16 DEF Refers
    <3> QED BY <3>1 DEF LoopRef
  <2>4. ASSUME NEW q \in Objects
        PROVE  IF mp'[q].made THEN mp'[q].refs = FieldRef(q)' + LoopRef(q)' + (IF q = o THEN Held(n, again) ELSE 0)
                              ELSE mp'[q].refs = 0 /\ field' # q /\ (n # "idle" => q # o)
    <3>1. CASE q = p
      <4>1. mp'[q].made /\ mp'[q].refs = r
        BY <1>8, <1>12, <1>13, <3>1
      <4>2. FieldRef(q)' = FieldRef(q) /\ LoopRef(q)' = 0
        BY <2>1, <2>2, <3>1
      <4> QED BY <1>10, <3>1, <4>1, <4>2
    <3>2. CASE q # p
      <4>1. IF mp[q].made THEN mp[q].refs = FieldRef(q) + LoopRef(q) + (IF q = o THEN Held(n, again) ELSE 0)
                          ELSE mp[q].refs = 0 /\ field # q /\ (n # "idle" => q # o)
        BY <1>7 DEF RefsInv
      <4> QED BY <1>1, <1>13, <2>1, <2>3, <3>2, <4>1
    <3> QED BY <3>1, <3>2
  <2> QED BY <2>4 DEF RefsInv
<1>20. StepInv(n, o, again)'
  <2>1. n = "destroy" => /\ mp'[o].refs = 0 /\ ~ mp'[o].freed /\ (loop[s].mp = o => l.pc # "destroy")
    <3>1. n = "destroy" => mp[o].refs = 0 /\ ~ mp[o].freed
      BY <1>7 DEF StepInv
    <3> QED BY <1>10, <1>13, <3>1
  <2> QED BY <1>2, <1>3, <1>7, <1>13, <1>14, <1>15, <2>1, LoopCall
<1>21. Doing(n, o, again)'
  BY <1>1, <1>6 DEF CallInv, Doing
<1> QED BY <1>16, <1>18, <1>19, <1>20, <1>21 DEF CallInv, PartsInv, LifeInv


LEMMA LoopDestroysKeeps == ASSUME LifeInv, NEW s \in Sessions, LoopDestroys(s) PROVE LifeInv'
<1>1. loop[s].pc = "destroy" /\ UNCHANGED <<field, cookies, strm, todo>> /\ Goto(s, "ended")
  BY DEF LoopDestroys, At
<1>2. /\ loop[s].mp \in Objects /\ loop[s].late \in {0, 1} /\ s \in Used /\ PartsInv /\ LifeTypeOK
      /\ mp[loop[s].mp] \in Players /\ mp[loop[s].mp].state \notin {"idle", "initialized"}
  BY <1>1, LoopIs
<1>3. PICK p \in Objects : p = loop[s].mp
  BY <1>2
<1>4. mp' = [mp EXCEPT ![p].freed = TRUE]
  BY <1>3 DEF LoopDestroys
<1>5. SameStrm
  BY <1>1, <1>2, SameStrmIs
<1>6. PICK l \in Loops : /\ loop' = [loop EXCEPT ![s] = l] /\ l.pc = "ended"
                         /\ l.mp = loop[s].mp /\ l.late = loop[s].late
  BY <1>1, GotoIs
<1>7. PICK n \in Steps, o \in Objects, again \in BOOLEAN : CallInv(n, o, again)
  BY DEF LifeInv
<1>8. RefsInv(n, o, again) /\ StepInv(n, o, again)
  BY <1>7 DEF CallInv
<1>9. mp[p].refs = 0 /\ ~ mp[p].freed
  BY <1>1, <1>2, <1>3 DEF PartsInv, FreedInv
<1>10. /\ mp' \in [Objects -> Players] /\ \A q \in Objects \ {p} : mp'[q] = mp[q]
       /\ \A q \in Objects :
            /\ mp'[q].made = mp[q].made /\ mp'[q].refs = mp[q].refs /\ mp'[q].state = mp[q].state
            /\ mp'[q].lock = mp[q].lock /\ mp'[q].is = mp[q].is /\ mp'[q].aborted = mp[q].aborted
  BY <1>2, <1>4, FreedIs
<1>11. LoopSoft(s)
  BY <1>10 DEF LoopSoft
<1>12. LateOK(s, l) /\ LockOK(s, l)
  <2>1. loop[s].late = 1 => mp[p].aborted
    BY <1>2, <1>3 DEF PartsInv, LateInv
  <2> QED BY <1>2, <1>3, <1>6, <1>10, <2>1 DEF LateOK, LockOK
<1>13. l.mp = loop[s].mp /\ l.pc # "none" /\ loop' = [loop EXCEPT ![s] = l] /\ UNCHANGED <<field, cookies>>
  BY <1>1, <1>6
<1>14. /\ LifeTypeOK' /\ SessionInv' /\ StreamInv' /\ LateInv' /\ Used' = Used
       /\ loop'[s] = l /\ \A t \in Sessions \ {s} : loop'[t] = loop[t]
       /\ \A t \in Sessions : loop'[t].mp = loop[t].mp
       /\ \A t \in Used \ {s} : t \in Sessions /\ loop[t].mp # loop[s].mp
  BY <1>2, <1>5, <1>11, <1>12, <1>13, LoopParts
<1>15. FreedInv'
  <2>1. \A q \in Objects : mp'[q].freed => mp'[q].refs = 0
    BY <1>2, <1>9, <1>10 DEF PartsInv, FreedInv
  <2>2. ASSUME NEW t \in Used, loop'[t].pc = "destroy"
        PROVE  mp'[loop'[t].mp].refs = 0 /\ ~ mp'[loop'[t].mp].freed
    <3>1. t # s
      BY <1>6, <1>14, <2>2
    <3>2. loop'[t] = loop[t] /\ loop[t].mp # p /\ loop[t].mp \in Objects
      BY <1>2, <1>3, <1>14, <3>1 DEF PartsInv, SessionInv
    <3> QED BY <1>2, <1>10, <2>2, <3>2 DEF PartsInv, FreedInv
  <2> QED BY <1>14, <2>1, <2>2 DEF FreedInv
<1>16. RefsInv(n, o, again)'
  <2>1. \A q \in Objects : FieldRef(q)' = FieldRef(q)
    BY <1>1 DEF FieldRef
  <2>2. \A q \in Objects, t \in Sessions : Refers(t, q)' <=> Refers(t, q)
    BY <1>1, <1>6, <1>14 DEF Refers
  <2>3. \A q \in Objects : LoopRef(q)' = LoopRef(q)
    BY <2>2 DEF LoopRef
  <2> QED BY <1>1, <1>8, <1>10, <2>1, <2>3 DEF RefsInv
<1>17. StepInv(n, o, again)'
  <2>1. n = "destroy" => /\ mp'[o].refs = 0 /\ ~ mp'[o].freed /\ (loop[s].mp = o => l.pc # "destroy")
    <3>1. n = "destroy" => mp[o].refs = 0 /\ ~ mp[o].freed /\ o # p
      BY <1>1, <1>2, <1>3, <1>8 DEF StepInv
    <3> QED BY <1>6, <1>10, <3>1
  <2> QED BY <1>2, <1>5, <1>8, <1>11, <1>12, <1>13, <2>1, LoopCall
<1>18. Doing(n, o, again)'
  BY <1>1, <1>7 DEF CallInv, Doing
<1> QED BY <1>14, <1>15, <1>16, <1>17, <1>18 DEF CallInv, PartsInv, LifeInv

LEMMA LoopStepKeeps == ASSUME LifeInv, NEW s \in Sessions, LoopStep(s) PROVE LifeInv'
  BY LoopBeginKeeps, LoopTakeKeeps, HandlePreparedKeeps, HandleRequestKeeps, TouchKeeps, PostEventKeeps,
     LoopPutKeeps, LoopDestroysKeeps DEF LoopStep

-----------------------------------------------------------------------------
(***************************************************************************)
(* The threads of a stream.                                                *)
(***************************************************************************)
\* Once the reader has ended nobody starts a decoder of the stream.
EndsQuiet == \A s \in Sessions : strm[s].read = "ended" /\ DecQuiet(s) => DecQuiet(s)'

LEMMA StreamKeeps ==
    ASSUME LifeInv, UNCHANGED <<field, cookies, loop, todo>>, SameMp, SoftStrm, EndsQuiet
    PROVE  LifeInv'
<1>1. PartsInv
  BY DEF LifeInv
<1>2. SoftMp
  BY <1>1, Numbers DEF SameMp, SoftMp, PartsInv, SessionInv
<1>3. PartsInv'
  BY <1>1, <1>2, PartsKept
<1>4. PICK n \in Steps, p \in Objects, again \in BOOLEAN : CallInv(n, p, again)
  BY DEF LifeInv
<1>5. RefsInv(n, p, again) /\ StepInv(n, p, again)
  BY <1>4 DEF CallInv
<1>6. RefsInv(n, p, again)'
  <2>1. \A q \in Objects : mp'[q].made = mp[q].made /\ mp'[q].refs = mp[q].refs
    BY DEF SameMp
  <2> QED BY <1>5, <2>1, RefsStay
<1>7. StepInv(n, p, again)'
  <2>1. Used' = Used /\ (mp[p].is # 0 => mp[p].is \in Sessions)
    BY <1>1, LifeFields DEF Used, PartsInv
  <2>2. {"components", "refresh", "free"} \subseteq Closing
    BY DEF Closing
  <2>3. n \in {"components", "refresh", "free"} =>
           mp[p].is \in Sessions /\ mp'[p].is = mp[p].is /\ strm[mp[p].is].read = "ended"
    BY <1>5, <2>1, <2>2 DEF StepInv, SameMp
  <2>4. n \in {"components", "refresh", "free"} => strm'[mp'[p].is].read = "ended"
    BY <2>3 DEF SoftStrm
  <2>5. n \in {"refresh", "free"} => \A k \in Media : strm'[mp'[p].is].dec[k] \in {"none", "ended"}
    <3> HAVE n \in {"refresh", "free"}
    <3>1. DecQuiet(mp[p].is) /\ mp[p].is \in Sessions /\ mp'[p].is = mp[p].is /\ strm[mp[p].is].read = "ended"
      BY <1>5, <2>3 DEF StepInv, DecQuiet
    <3>2. PICK s \in Sessions : s = mp[p].is
      BY <3>1
    <3>3. DecQuiet(s)'
      BY <3>1, <3>2 DEF EndsQuiet
    <3> QED BY <3>1, <3>2, <3>3 DEF DecQuiet
  <2>6. n = "free" => strm'[mp'[p].is].refresh = "ended"
    BY <1>5, <2>3 DEF StepInv, SoftStrm
  <2> QED BY <1>5, <2>1, <2>4, <2>5, <2>6 DEF StepInv, SameMp
<1>8. Doing(n, p, again)'
  BY <1>4 DEF CallInv, Doing
<1> QED BY <1>3, <1>6, <1>7, <1>8 DEF CallInv, LifeInv

\* What a thread of the stream s, which comes to be r, may change in it.
StreamMoves(s, r) ==
    /\ r.freed = strm[s].freed
    /\ strm[s].refresh = "ended" => r.refresh = "ended"
    /\ strm[s].read \in {"none", "ended"} =>
          /\ r.read = strm[s].read
          /\ \A k \in Media : strm[s].dec[k] \in {"none", "ended"} => r.dec[k] \in {"none", "ended"}

LEMMA ThreadKeeps ==
    ASSUME LifeInv, UNCHANGED <<field, cookies, loop, todo>>, SameMp,
           NEW s \in Sessions, NEW r \in Streams, strm' = [strm EXCEPT ![s] = r], StreamMoves(s, r)
    PROVE  LifeInv'
<1>1. PartsInv /\ LifeTypeOK
  BY DEF LifeInv, PartsInv
<1>2. strm' \in [Sessions -> Streams] /\ strm'[s] = r /\ \A t \in Sessions \ {s} : strm'[t] = strm[t]
  BY <1>1, StrmIs
<1>3. \A t \in Sessions : strm[t].freed => strm[t].read = "ended"
  BY <1>1 DEF PartsInv, StreamInv, Quiet
<1>4. ASSUME NEW t \in Sessions, strm[t].read \in {"none", "ended"}, DecQuiet(t) PROVE DecQuiet(t)'
  <2>1. CASE t = s
    BY <1>2, <1>4, <2>1 DEF DecQuiet, StreamMoves
  <2>2. CASE t # s
    BY <1>2, <1>4, <2>2 DEF DecQuiet
  <2> QED BY <2>1, <2>2
<1>5. EndsQuiet
  BY <1>4 DEF EndsQuiet
<1>6. SoftStrm
  <2>1. ASSUME NEW t \in Sessions
        PROVE  /\ strm'[t].freed = strm[t].freed
               /\ strm[t].read \in {"none", "ended"} => strm'[t].read = strm[t].read
               /\ strm[t].refresh = "ended" => strm'[t].refresh = "ended"
    <3>1. CASE t = s
      BY <1>2, <3>1 DEF StreamMoves
    <3>2. CASE t # s
      BY <1>2, <3>2
    <3> QED BY <3>1, <3>2
  <2>2. \A t \in Sessions : strm[t].freed /\ DecQuiet(t) => DecQuiet(t)'
    BY <1>3, <1>4
  <2> QED BY <1>2, <2>1, <2>2 DEF SoftStrm
<1> QED BY <1>5, <1>6, StreamKeeps


\* Where the reader is, as a new value of the stream.
LEMMA ReadMoves ==
    ASSUME LifeInv, NEW s \in Sessions, strm[s].read \notin {"none", "ended"},
           NEW read \in {"audio", "video", "opened", "waiting", "loop", "leave", "ended"},
           NEW prepared \in BOOLEAN, NEW r, r = [strm[s] EXCEPT !.prepared = prepared, !.read = read]
    PROVE  r \in Streams /\ StreamMoves(s, r)
<1>1. strm[s] \in Streams
  BY DEF LifeInv, PartsInv, LifeTypeOK
<1>2. r \in Streams /\ r.freed = strm[s].freed /\ r.refresh = strm[s].refresh
  BY <1>1 DEF Streams
<1> QED BY <1>2 DEF StreamMoves

\* A player gets a message from its reader.
LEMMA ReaderPosts ==
    ASSUME LifeInv, NEW s \in Sessions, strm[s].read \notin {"none", "ended"}, NEW what \in Messages,
           mp' = [mp EXCEPT ![Owner(s)] = Post(mp[Owner(s)], what)]
    PROVE  SameMp
<1>1. LifeTypeOK /\ loop[s].mp \in Objects
  BY DEF LifeInv, PartsInv, StreamInv, SessionInv
<1>2. PICK p \in Objects : p = loop[s].mp
  BY <1>1
<1>3. mp' = [mp EXCEPT ![p] = Post(mp[p], what)]
  BY <1>2 DEF Owner
<1> QED BY <1>1, <1>3, PostsSame

LEMMA ReadOpensKeeps == ASSUME LifeInv, NEW s \in Sessions, ReadOpens(s) PROVE LifeInv'
<1>1. UNCHANGED <<field, cookies, loop, todo>> /\ mp' = mp /\ strm[s].read \notin {"none", "ended"}
  BY DEF ReadOpens, ReadAt
<1>2. PICK read \in {"audio", "leave"} : strm' = [strm EXCEPT ![s].read = read]
  BY DEF ReadOpens
<1>3. PICK r : r = [strm[s] EXCEPT !.prepared = strm[s].prepared, !.read = read]
  OBVIOUS
<1>4. strm[s] \in Streams /\ strm[s].prepared \in BOOLEAN /\ LifeTypeOK
  BY DEF LifeInv, PartsInv, LifeTypeOK, Streams
<1>5. strm' = [strm EXCEPT ![s] = r]
  BY <1>2, <1>3, <1>4 DEF Streams
<1>6. r \in Streams /\ StreamMoves(s, r)
  BY <1>1, <1>3, <1>4, ReadMoves
<1>7. SameMp
  BY <1>1, <1>4, SameMpIs
<1> QED BY <1>1, <1>5, <1>6, <1>7, ThreadKeeps

LEMMA OpenComponentKeeps == ASSUME LifeInv, NEW s \in Sessions, OpenComponent(s) PROVE LifeInv'
<1>1. PICK k \in Media, opens \in BOOLEAN :
        /\ ReadAt(s, k)
        /\ strm' = [strm EXCEPT ![s].read = IF k = "audio" THEN "video" ELSE "opened",
                                ![s].dec[k] = IF opens THEN "run" ELSE "none"]
  BY DEF OpenComponent
<1>2. UNCHANGED <<field, cookies, loop, todo>> /\ mp' = mp /\ strm[s].read \notin {"none", "ended"}
  BY <1>1 DEF OpenComponent, ReadAt, Media
<1>3. strm[s] \in Streams /\ strm[s].dec \in [Media -> {"none", "run", "told", "ended"}] /\ LifeTypeOK
      /\ strm \in [Sessions -> Streams]
  BY DEF LifeInv, PartsInv, LifeTypeOK, Streams
<1> DEFINE read == IF k = "audio" THEN "video" ELSE "opened"
           d == [strm[s].dec EXCEPT ![k] = IF opens THEN "run" ELSE "none"]
           r == [strm[s] EXCEPT !.read = read, !.dec = d]
<1>4. strm' = [strm EXCEPT ![s] = r]
  BY <1>1, <1>3 DEF Streams
<1>5. d \in [Media -> {"none", "run", "told", "ended"}] /\ read \in {"video", "opened"}
  BY <1>3
<1> HIDE DEF d, read
<1>6. r \in Streams /\ r.freed = strm[s].freed /\ r.refresh = strm[s].refresh
  BY <1>3, <1>5 DEF Streams
<1> HIDE DEF r
<1>7. StreamMoves(s, r)
  BY <1>2, <1>6 DEF StreamMoves
<1>8. SameMp
  BY <1>2, <1>3, SameMpIs
<1> QED BY <1>2, <1>4, <1>6, <1>7, <1>8, ThreadKeeps

LEMMA ReadPreparedKeeps == ASSUME LifeInv, NEW s \in Sessions, ReadPrepared(s) PROVE LifeInv'
<1>1. UNCHANGED <<field, cookies, loop, todo>> /\ strm[s].read \notin {"none", "ended"}
  BY DEF ReadPrepared, ReadAt
<1>2. strm[s] \in Streams /\ strm[s].prepared \in BOOLEAN /\ LifeTypeOK
  BY DEF LifeInv, PartsInv, LifeTypeOK, Streams
<1>3. CASE \A k \in Media : strm[s].dec[k] = "none"
  <2>1. mp' = mp /\ strm' = [strm EXCEPT ![s].read = "leave"]
    BY <1>3 DEF ReadPrepared
  <2>2. PICK r : r = [strm[s] EXCEPT !.prepared = strm[s].prepared, !.read = "leave"]
    OBVIOUS
  <2>3. strm' = [strm EXCEPT ![s] = r]
    BY <1>2, <2>1, <2>2 DEF Streams
  <2>4. r \in Streams /\ StreamMoves(s, r)
    BY <1>1, <1>2, <2>2, ReadMoves
  <2>5. SameMp
    BY <1>2, <2>1, SameMpIs
  <2> QED BY <1>1, <2>3, <2>4, <2>5, ThreadKeeps
<1>4. CASE ~ \A k \in Media : strm[s].dec[k] = "none"
  <2>1. /\ mp' = [mp EXCEPT ![Owner(s)] = Post(mp[Owner(s)], "prepared")]
        /\ strm' = [strm EXCEPT ![s].prepared = TRUE, ![s].read = IF AutoStart THEN "loop" ELSE "waiting"]
    BY <1>4 DEF ReadPrepared
  <2>2. PICK read \in {"loop", "waiting"} : read = IF AutoStart THEN "loop" ELSE "waiting"
    OBVIOUS
  <2>3. PICK r : r = [strm[s] EXCEPT !.prepared = TRUE, !.read = read]
    OBVIOUS
  <2>4. strm' = [strm EXCEPT ![s] = r]
    BY <1>2, <2>1, <2>2, <2>3
  <2>5. r \in Streams /\ StreamMoves(s, r)
    BY <1>1, <2>2, <2>3, ReadMoves
  <2>6. SameMp
    BY <1>1, <2>1, ReaderPosts DEF Messages
  <2> QED BY <1>1, <2>4, <2>5, <2>6, ThreadKeeps
<1> QED BY <1>3, <1>4

LEMMA ReaderGoesOn == ASSUME LifeInv, NEW s \in Sessions, ReadWaits(s) \/ ReadLoop(s) PROVE LifeInv'
<1>1. UNCHANGED <<field, cookies, loop, todo>> /\ mp' = mp /\ strm[s].read \notin {"none", "ended"}
  BY DEF ReadWaits, ReadLoop, ReadAt
<1>2. PICK read \in {"loop", "leave"} : strm' = [strm EXCEPT ![s].read = read]
  BY DEF ReadWaits, ReadLoop
<1>3. PICK r : r = [strm[s] EXCEPT !.prepared = strm[s].prepared, !.read = read]
  OBVIOUS
<1>4. strm[s] \in Streams /\ strm[s].prepared \in BOOLEAN /\ LifeTypeOK
  BY DEF LifeInv, PartsInv, LifeTypeOK, Streams
<1>5. strm' = [strm EXCEPT ![s] = r]
  BY <1>2, <1>3, <1>4 DEF Streams
<1>6. r \in Streams /\ StreamMoves(s, r)
  BY <1>1, <1>3, <1>4, ReadMoves
<1>7. SameMp
  BY <1>1, <1>4, SameMpIs
<1> QED BY <1>1, <1>5, <1>6, <1>7, ThreadKeeps

LEMMA ReadLeavesKeeps == ASSUME LifeInv, NEW s \in Sessions, ReadLeaves(s) PROVE LifeInv'
<1>1. /\ UNCHANGED <<field, cookies, loop, todo>> /\ strm[s].read \notin {"none", "ended"}
      /\ strm' = [strm EXCEPT ![s].read = "ended"]
  BY DEF ReadLeaves, ReadAt
<1>2. strm[s] \in Streams /\ strm[s].prepared \in BOOLEAN /\ LifeTypeOK
  BY DEF LifeInv, PartsInv, LifeTypeOK, Streams
<1>3. PICK r : r = [strm[s] EXCEPT !.prepared = strm[s].prepared, !.read = "ended"]
  OBVIOUS
<1>4. strm' = [strm EXCEPT ![s] = r]
  BY <1>1, <1>2, <1>3 DEF Streams
<1>5. r \in Streams /\ StreamMoves(s, r)
  BY <1>1, <1>2, <1>3, ReadMoves
<1>6. SameMp
  <2>1. CASE mp' = mp
    BY <1>2, <2>1, SameMpIs
  <2>2. CASE mp' = [mp EXCEPT ![Owner(s)] = Post(mp[Owner(s)], "error")]
    BY <1>1, <2>2, ReaderPosts DEF Messages
  <2> QED BY <2>1, <2>2 DEF ReadLeaves
<1> QED BY <1>1, <1>4, <1>5, <1>6, ThreadKeeps

LEMMA ReadStepKeeps == ASSUME LifeInv, NEW s \in Sessions, ReadStep(s) PROVE LifeInv'
  BY ReadOpensKeeps, OpenComponentKeeps, ReadPreparedKeeps, ReaderGoesOn, ReadLeavesKeeps DEF ReadStep

LEMMA RefreshEndsKeeps == ASSUME LifeInv, NEW s \in Sessions, RefreshEnds(s) PROVE LifeInv'
<1>1. UNCHANGED <<field, cookies, loop, todo>> /\ mp' = mp /\ strm' = [strm EXCEPT ![s].refresh = "ended"]
  BY DEF RefreshEnds
<1>2. strm[s] \in Streams /\ LifeTypeOK
  BY DEF LifeInv, PartsInv, LifeTypeOK
<1> DEFINE r == [strm[s] EXCEPT !.refresh = "ended"]
<1>3. strm' = [strm EXCEPT ![s] = r]
  BY <1>1
<1>4. /\ r \in Streams /\ r.freed = strm[s].freed /\ r.refresh = "ended" /\ r.read = strm[s].read
      /\ r.dec = strm[s].dec
  BY <1>2 DEF Streams
<1> HIDE DEF r
<1>5. StreamMoves(s, r)
  BY <1>4 DEF StreamMoves
<1>6. SameMp
  BY <1>1, <1>2, SameMpIs
<1> QED BY <1>1, <1>3, <1>4, <1>5, <1>6, ThreadKeeps

LEMMA DecoderLeavesKeeps == ASSUME LifeInv, NEW s \in Sessions, DecoderLeaves(s) PROVE LifeInv'
<1>1. PICK k \in Media : strm[s].dec[k] = "told" /\ strm' = [strm EXCEPT ![s].dec[k] = "ended"]
  BY DEF DecoderLeaves
<1>2. UNCHANGED <<field, cookies, loop, todo>> /\ mp' = mp
  BY DEF DecoderLeaves
<1>3. strm[s] \in Streams /\ strm[s].dec \in [Media -> {"none", "run", "told", "ended"}] /\ LifeTypeOK
  BY DEF LifeInv, PartsInv, LifeTypeOK, Streams
<1> DEFINE d == [strm[s].dec EXCEPT ![k] = "ended"]
           r == [strm[s] EXCEPT !.dec = d]
<1>4. strm' = [strm EXCEPT ![s] = r]
  BY <1>1, <1>3
<1>5. /\ d \in [Media -> {"none", "run", "told", "ended"}]
      /\ \A j \in Media : strm[s].dec[j] \in {"none", "ended"} => d[j] \in {"none", "ended"}
  BY <1>3
<1> HIDE DEF d
<1>6. /\ r \in Streams /\ r.freed = strm[s].freed /\ r.refresh = strm[s].refresh /\ r.read = strm[s].read
      /\ r.dec = d
  BY <1>3, <1>5 DEF Streams
<1> HIDE DEF r
<1>7. StreamMoves(s, r)
  BY <1>5, <1>6 DEF StreamMoves
<1>8. SameMp
  BY <1>2, <1>3, SameMpIs
<1> QED BY <1>2, <1>4, <1>6, <1>7, <1>8, ThreadKeeps


-----------------------------------------------------------------------------
(***************************************************************************)
(* The beginning, and every step.                                          *)
(***************************************************************************)
LEMMA LifeStarts == ASSUME LifeInit PROVE LifeInv
<1>1. 1 \in Objects /\ 0 \notin Objects /\ 0 \notin Sessions /\ field = 1 /\ cookies = {1} /\ todo = <<>>
  BY Numbers, LifeAssumption DEF LifeInit, LifeAssumption, Objects
<1>2. /\ NoPlayer \in Players /\ ~ NoPlayer.made /\ NoPlayer.refs = 0 /\ ~ NoPlayer.freed
      /\ NoPlayer.is = 0 /\ NoPlayer.aborted
  <2>1. <<>> \in Seq(Messages)
    OBVIOUS
  <2> QED BY <2>1 DEF NoPlayer, Players
<1>3. /\ NewPlayer \in Players /\ NewPlayer.made /\ NewPlayer.refs = 1 /\ ~ NewPlayer.freed
      /\ NewPlayer.is = 0 /\ NewPlayer.aborted
  BY NewPlayerIs
<1>4. mp = [p \in Objects |-> IF p = 1 THEN NewPlayer ELSE NoPlayer]
  BY DEF LifeInit
<1>5. /\ mp \in [Objects -> Players] /\ mp[1].made /\ mp[1].refs = 1
      /\ \A p \in Objects : ~ mp[p].freed /\ mp[p].is = 0 /\ mp[p].aborted
      /\ \A p \in Objects \ {1} : ~ mp[p].made /\ mp[p].refs = 0
  BY <1>1, <1>2, <1>3, <1>4
<1>6. /\ strm \in [Sessions -> Streams]
      /\ \A s \in Sessions : strm[s].read = "none" /\ ~ strm[s].freed
  BY DEF LifeInit, NoStream, Streams
<1>7. loop \in [Sessions -> Loops] /\ \A s \in Sessions : loop[s].pc = "none"
  BY DEF LifeInit, NoLoop, Loops
<1>8. Used = {}
  BY <1>7 DEF Used
<1>9. LifeTypeOK /\ SessionInv /\ StreamInv /\ LateInv /\ FreedInv
  BY <1>1, <1>5, <1>6, <1>7, <1>8 DEF LifeTypeOK, SessionInv, StreamInv, LateInv, FreedInv
<1>10. CallInv("idle", 1, FALSE)
  <2>1. Doing("idle", 1, FALSE)
    BY <1>1 DEF Doing
  <2>2. \A q \in Objects : LoopRef(q) = 0 /\ FieldRef(q) = IF q = 1 THEN 1 ELSE 0
    BY <1>1, <1>7 DEF LoopRef, Refers, FieldRef
  <2>3. RefsInv("idle", 1, FALSE)
    BY <1>1, <1>5, <2>2 DEF RefsInv, Held
  <2>4. StepInv("idle", 1, FALSE)
    BY <1>1 DEF StepInv, Early, Alone, Closing
  <2> QED BY <2>1, <2>3, <2>4 DEF CallInv
<1> QED BY <1>1, <1>9, <1>10, StepNames DEF PartsInv, LifeInv

LEMMA AppStepKeeps == ASSUME LifeInv, AppStep PROVE LifeInv'
<1>1. PICK p \in Objects :
        \/ Get(p) \/ SetDataSource(p) \/ Request(p) \/ Ask(p) \/ Surface(p) \/ Stop(p) \/ Prepare(p) \/ Open(p)
        \/ Deselect(p) \/ Deselected(p) \/ Select(p)
        \/ Shutdown(p) \/ TellDecoders(p) \/ JoinRead(p) \/ CloseComponents(p) \/ JoinRefresh(p)
        \/ FreeStream(p) \/ TakeCookie(p) \/ DeleteCookie(p) \/ ClearField(p)
        \/ Unhook(p) \/ Setup(p) \/ Put(p) \/ FreePlayer(p)
  BY DEF AppStep
<1>2. CASE Get(p) \/ SetDataSource(p) \/ Request(p) \/ Ask(p) \/ Surface(p) \/ Stop(p) \/ Prepare(p) \/ Open(p)
  BY <1>2, GetKeeps, SetDataSourceKeeps, RequestKeeps, AskKeeps, SurfaceKeeps, StopKeeps, PrepareKeeps, OpenKeeps
<1>3. CASE Deselect(p) \/ Deselected(p) \/ Select(p)
  BY <1>3, DeselectKeeps, DeselectedKeeps, SelectKeeps
<1>4. CASE Shutdown(p) \/ TellDecoders(p) \/ JoinRead(p) \/ CloseComponents(p) \/ JoinRefresh(p)
  BY <1>4, ShutdownKeeps, TellDecodersKeeps, JoinReadKeeps, CloseComponentsKeeps, JoinRefreshKeeps
<1>5. CASE FreeStream(p) \/ TakeCookie(p) \/ DeleteCookie(p) \/ ClearField(p)
  BY <1>5, FreeStreamKeeps, TakeCookieKeeps, DeleteCookieKeeps, ClearFieldKeeps
<1>6. CASE Unhook(p) \/ Setup(p) \/ Put(p) \/ FreePlayer(p)
  BY <1>6, UnhookKeeps, SetupKeeps, PutKeeps, FreePlayerKeeps
<1> QED BY <1>1, <1>2, <1>3, <1>4, <1>5, <1>6

LEMMA NothingKeeps == ASSUME LifeInv, UNCHANGED lifeVars PROVE LifeInv'
<1>1. UNCHANGED <<field, mp, cookies, strm, loop, todo>>
  BY DEF lifeVars
<1>2. PartsInv
  BY DEF LifeInv
<1>3. SameMp /\ SameStrm /\ SoftStrm
  BY <1>1, <1>2, NothingSame, SameIsSoft
<1>4. EndsQuiet
  BY <1>1 DEF EndsQuiet, DecQuiet
<1> QED BY <1>1, <1>3, <1>4, StreamKeeps

LEMMA LifeStep == ASSUME ~ PrepareAgain, LifeInv, [LifeNext]_lifeVars PROVE LifeInv'
<1>1. CASE Call
  BY <1>1, CallKeeps
<1>2. CASE AppStep
  BY <1>2, AppStepKeeps
<1>3. CASE \E s \in Sessions : LoopStep(s) \/ ReadStep(s) \/ RefreshEnds(s) \/ DecoderLeaves(s)
  BY <1>3, LoopStepKeeps, ReadStepKeeps, RefreshEndsKeeps, DecoderLeavesKeeps
<1>4. CASE UNCHANGED lifeVars
  BY <1>4, NothingKeeps
<1> QED BY <1>1, <1>2, <1>3, <1>4 DEF LifeNext, LifeWork

-----------------------------------------------------------------------------
(***************************************************************************)
(* What the invariant says of the uses of a player.                        *)
(***************************************************************************)
\* A counted reference keeps the player.
LEMMA CountedIsThere ==
    ASSUME PartsInv, NEW n \in Steps, NEW p \in Objects, NEW again \in BOOLEAN, RefsInv(n, p, again),
           NEW q \in Objects, mp[q].made, LoopRef(q) = 1 \/ (q = p /\ Held(n, again) # 0)
    PROVE  ~ mp[q].freed
<1>1. mp[q].refs = FieldRef(q) + LoopRef(q) + (IF q = p THEN Held(n, again) ELSE 0)
  BY DEF RefsInv
<1>2. mp[q].refs # 0
  BY <1>1 DEF FieldRef, LoopRef, Held
<1> QED BY <1>2 DEF PartsInv, FreedInv

LEMMA InvHoldsReferences == ASSUME LifeInv PROVE ReferencesHold
<1>1. PICK n \in Steps, p \in Objects, again \in BOOLEAN : CallInv(n, p, again)
  BY DEF LifeInv
<1>2. PartsInv /\ RefsInv(n, p, again) /\ StepInv(n, p, again) /\ Doing(n, p, again)
  BY <1>1 DEF CallInv, LifeInv
<1>3. todo # <<>> => ~ mp[Head(todo)[2]].freed
  <2> HAVE todo # <<>>
  <2>1. n # "idle" /\ Head(todo) = <<n, p>>
    BY <1>2, RestIs, DoIs DEF Doing
  <2>2. Head(todo)[2] = p /\ mp[p].made
    BY <1>2, <2>1 DEF RefsInv
  <2>3. CASE n = "destroy"
    BY <1>2, <2>2, <2>3 DEF StepInv
  <2>4. CASE n # "destroy"
    <3>1. Held(n, again) # 0
      BY <2>1, <2>4 DEF Held
    <3> QED BY <1>2, <2>2, <3>1, CountedIsThere
  <2> QED BY <2>3, <2>4
<1>4. ASSUME NEW s \in Used, loop[s].pc \notin {"ended", "failed"} PROVE ~ mp[loop[s].mp].freed
  <2>1. /\ s \in Sessions /\ loop[s].pc # "none" /\ loop[s].mp \in Objects /\ mp[loop[s].mp].made
    BY <1>2 DEF Used, PartsInv, SessionInv
  <2>2. CASE loop[s].pc = "destroy"
    BY <1>2, <2>2 DEF PartsInv, FreedInv
  <2>3. CASE loop[s].pc # "destroy"
    <3>1. LoopRef(loop[s].mp) = 1
      BY <1>4, <2>1, <2>3 DEF LoopRef, Refers
    <3> QED BY <1>2, <2>1, <3>1, CountedIsThere
  <2> QED BY <2>2, <2>3
<1> QED BY <1>3, <1>4 DEF ReferencesHold

LEMMA InvServesThreads == ASSUME LifeInv PROVE ThreadsServed
  BY DEF LifeInv, PartsInv, StreamInv, Quiet, ThreadsServed

LEMMA InvAllowsOne == ASSUME LifeInv PROVE OneLateMessage
  BY DEF LifeInv, PartsInv, LateInv, OneLateMessage

-----------------------------------------------------------------------------
\* The references of a player are those of the field of the Java object, of its
\* message loop and of the call under way, in every state of every behaviour in
\* which a stopped player is not prepared again: jni_get_media_player,
\* jni_set_media_player and ijkmp_dec_ref_p (ijkplayer_jni.c, ijkplayer.c).
THEOREM LifeInvHolds == ASSUME ~ PrepareAgain PROVE LifeSpec => []LifeInv
<1>1. LifeInit => LifeInv
  BY LifeStarts
<1>2. LifeInv /\ [LifeNext]_lifeVars => LifeInv'
  BY LifeStep
<1> QED BY <1>1, <1>2, PTL DEF LifeSpec

\* Nothing is given back while a thread may still reach it: a player is not
\* freed under a native method or its message loop, a stream not before its
\* threads have ended, the weak reference not while the reader runs; and the
\* message loop meets a stream or a weak reference that is gone with one message
\* at most (ijkmp_dec_ref_p, stream_close, IjkMediaPlayer_release).
THEOREM LifeHoldsTrue == ASSUME ~ PrepareAgain PROVE LifeSpec => []LifeHolds
<1>1. LifeInv => LifeHolds
  BY InvHoldsReferences, InvServesThreads, InvAllowsOne DEF LifeHolds
<1> QED BY <1>1, LifeInvHolds, PTL
===============================================================================
