------------------------- MODULE IjkMediaPlayer_proofs -------------------------
(***************************************************************************)
(* Proofs about IjkMediaPlayer, for every value of its constants, any      *)
(* number of calls and any length of the message queue.                    *)
(*                                                                         *)
(* Whoever holds mp->mutex is in the middle of one of nineteen bodies, and *)
(* what is left of it in todo is its tail from some instruction on.  The   *)
(* inductive invariant AllInv(b, k) says what holds when the kth           *)
(* instruction of the body b is the next: each conjunct is about what one  *)
(* promise of the player rests on.  The proof goes by the threads: the     *)
(* instructions of each body (Does...), the calls that begin one           *)
(* (Calls...), the message loop (Handles..., Gets...), and read_thread and *)
(* the decoders (Keeps...), who run between any two instructions.          *)
(***************************************************************************)
EXTENDS IjkMediaPlayer, SequenceTheorems, WellFoundedInduction, TLAPS

(***************************************************************************)
(* What is under way under mp->mutex: a body, of which the instructions    *)
(* from the kth on are left in todo; m is the position of a seek.          *)
(***************************************************************************)
AppBodies == {"set", "prepare", "refused", "start", "pause", "seek", "stop", "quit"}
LoopBodies == {"ready", "readyHeld", "held", "end", "answered", "resume", "again", "from", "hold",
               "move", "past"}
Bodies == AppBodies \cup LoopBodies \cup {"none"}

On1(op) == I(op, "ON", 0)
Off1(op) == I(op, "OFF", 0)
State(s) == I("state", s, 0)
Remove(w) == I("remove", w, 0)

AppBody(b, m) ==
    CASE b = "set"     -> <<State("INITIALIZED")>>
      [] b = "prepare" -> <<State("ASYNC_PREPARING"), On1("queue_start"), On1("spawn"),
                            On1("stream_open")>>
      [] b = "refused" -> <<State("ASYNC_PREPARING"), On1("queue_start"), On1("spawn"),
                            State("ERROR")>>
      [] b = "start"   -> <<Remove("REQ_START"), Remove("REQ_PAUSE"), I("put", "REQ_START", 0)>>
      [] b = "pause"   -> <<Remove("REQ_START"), Remove("REQ_PAUSE"), I("put", "REQ_PAUSE", 0)>>
      [] b = "seek"    -> <<I("mp_seek", "ON", m), Remove("REQ_SEEK"), I("put", "REQ_SEEK", m)>>
      [] b = "stop"    -> <<Remove("REQ_START"), Remove("REQ_PAUSE"), On1("abort_stream"),
                            On1("pause"), On1("queue_abort"), State("STOPPED")>>
      [] b = "quit"    -> <<Remove("REQ_START"), Remove("REQ_PAUSE"), On1("queue_abort"),
                            State("STOPPED")>>

LoopBody(b, m) ==
    CASE b = "ready"     -> <<State("PREPARED")>>
      [] b = "readyHeld" -> <<State("PREPARED"), State("PAUSED")>>
      [] b = "held"      -> <<State("PAUSED")>>
      [] b = "end"       -> <<On1("restart"), On1("from_beginning"), State("COMPLETED")>>
      [] b = "answered"  -> <<Off1("mp_seek")>>
      [] b = "resume"    -> <<Off1("pause"), State("STARTED")>>
      [] b = "again"     -> <<Off1("pause"), State("STARTED"), Off1("restart"),
                              Off1("from_beginning")>>
      [] b = "from"      -> <<On1("auto_resume"), On1("buffering"), On1("stream_seek"),
                              State("STARTED"), Off1("restart"), Off1("from_beginning")>>
      [] b = "hold"      -> <<On1("pause"), State("PAUSED")>>
      [] b = "move"      -> <<Off1("from_beginning"), I("stream_seek", "ON", m)>>
      [] b = "past"      -> <<Off1("from_beginning"), On1("pause"), I("put", "COMPLETED", 0)>>

Body(b, m) == IF b \in AppBodies THEN AppBody(b, m)
              ELSE IF b \in LoopBodies THEN LoopBody(b, m) ELSE <<>>

LeftOf(rest, b, k, m) ==
    /\ b \in Bodies /\ m \in Positions
    /\ k \in 1 .. (IF b = "none" THEN 1 ELSE Len(Body(b, m)))
    /\ Len(rest) = Len(Body(b, m)) + 1 - k
    /\ \A j \in 1 .. Len(rest) : rest[j] = Body(b, m)[k + j - 1]

\* The bodies, one by one.
LEMMA AppBodyIs ==
    ASSUME NEW m
    PROVE  /\ AppBody("set", m) = <<State("INITIALIZED")>>
           /\ AppBody("prepare", m) = <<State("ASYNC_PREPARING"), On1("queue_start"), On1("spawn"),
                                        On1("stream_open")>>
           /\ AppBody("refused", m) = <<State("ASYNC_PREPARING"), On1("queue_start"), On1("spawn"),
                                        State("ERROR")>>
           /\ AppBody("start", m) = <<Remove("REQ_START"), Remove("REQ_PAUSE"), I("put", "REQ_START", 0)>>
           /\ AppBody("pause", m) = <<Remove("REQ_START"), Remove("REQ_PAUSE"), I("put", "REQ_PAUSE", 0)>>
           /\ AppBody("seek", m) = <<I("mp_seek", "ON", m), Remove("REQ_SEEK"), I("put", "REQ_SEEK", m)>>
           /\ AppBody("stop", m) = <<Remove("REQ_START"), Remove("REQ_PAUSE"), On1("abort_stream"),
                                     On1("pause"), On1("queue_abort"), State("STOPPED")>>
           /\ AppBody("quit", m) = <<Remove("REQ_START"), Remove("REQ_PAUSE"), On1("queue_abort"),
                                     State("STOPPED")>>
  BY DEF AppBody

LEMMA LoopBodyIs ==
    ASSUME NEW m
    PROVE  /\ LoopBody("ready", m) = <<State("PREPARED")>>
           /\ LoopBody("readyHeld", m) = <<State("PREPARED"), State("PAUSED")>>
           /\ LoopBody("held", m) = <<State("PAUSED")>>
           /\ LoopBody("end", m) = <<On1("restart"), On1("from_beginning"), State("COMPLETED")>>
           /\ LoopBody("answered", m) = <<Off1("mp_seek")>>
           /\ LoopBody("resume", m) = <<Off1("pause"), State("STARTED")>>
           /\ LoopBody("again", m) = <<Off1("pause"), State("STARTED"), Off1("restart"),
                                       Off1("from_beginning")>>
           /\ LoopBody("from", m) = <<On1("auto_resume"), On1("buffering"), On1("stream_seek"),
                                      State("STARTED"), Off1("restart"), Off1("from_beginning")>>
           /\ LoopBody("hold", m) = <<On1("pause"), State("PAUSED")>>
           /\ LoopBody("move", m) = <<Off1("from_beginning"), I("stream_seek", "ON", m)>>
           /\ LoopBody("past", m) = <<Off1("from_beginning"), On1("pause"), I("put", "COMPLETED", 0)>>
  BY DEF LoopBody

LEMMA AppInstructions ==
    ASSUME NEW m
    PROVE  /\ Len(Body("set", m)) = 1 /\ Body("set", m)[1] = State("INITIALIZED")
           /\ Len(Body("prepare", m)) = 4 /\ Body("prepare", m)[1] = State("ASYNC_PREPARING")
           /\ Body("prepare", m)[2] = On1("queue_start") /\ Body("prepare", m)[3] = On1("spawn")
           /\ Body("prepare", m)[4] = On1("stream_open")
           /\ Len(Body("refused", m)) = 4 /\ Body("refused", m)[1] = State("ASYNC_PREPARING")
           /\ Body("refused", m)[2] = On1("queue_start") /\ Body("refused", m)[3] = On1("spawn")
           /\ Body("refused", m)[4] = State("ERROR")
           /\ Len(Body("start", m)) = 3 /\ Body("start", m)[1] = Remove("REQ_START")
           /\ Body("start", m)[2] = Remove("REQ_PAUSE")
           /\ Body("start", m)[3] = I("put", "REQ_START", 0)
           /\ Len(Body("pause", m)) = 3 /\ Body("pause", m)[1] = Remove("REQ_START")
           /\ Body("pause", m)[2] = Remove("REQ_PAUSE")
           /\ Body("pause", m)[3] = I("put", "REQ_PAUSE", 0)
           /\ Len(Body("seek", m)) = 3 /\ Body("seek", m)[1] = I("mp_seek", "ON", m)
           /\ Body("seek", m)[2] = Remove("REQ_SEEK")
           /\ Body("seek", m)[3] = I("put", "REQ_SEEK", m)
           /\ Len(Body("stop", m)) = 6 /\ Body("stop", m)[1] = Remove("REQ_START")
           /\ Body("stop", m)[2] = Remove("REQ_PAUSE") /\ Body("stop", m)[3] = On1("abort_stream")
           /\ Body("stop", m)[4] = On1("pause") /\ Body("stop", m)[5] = On1("queue_abort")
           /\ Body("stop", m)[6] = State("STOPPED")
           /\ Len(Body("quit", m)) = 4 /\ Body("quit", m)[1] = Remove("REQ_START")
           /\ Body("quit", m)[2] = Remove("REQ_PAUSE") /\ Body("quit", m)[3] = On1("queue_abort")
           /\ Body("quit", m)[4] = State("STOPPED")
  BY AppBodyIs DEF Body, AppBodies, LoopBodies

LEMMA LoopInstructions ==
    ASSUME NEW m
    PROVE  /\ Len(Body("ready", m)) = 1 /\ Body("ready", m)[1] = State("PREPARED")
           /\ Len(Body("readyHeld", m)) = 2 /\ Body("readyHeld", m)[1] = State("PREPARED")
           /\ Body("readyHeld", m)[2] = State("PAUSED")
           /\ Len(Body("held", m)) = 1 /\ Body("held", m)[1] = State("PAUSED")
           /\ Len(Body("end", m)) = 3 /\ Body("end", m)[1] = On1("restart")
           /\ Body("end", m)[2] = On1("from_beginning") /\ Body("end", m)[3] = State("COMPLETED")
           /\ Len(Body("answered", m)) = 1 /\ Body("answered", m)[1] = Off1("mp_seek")
           /\ Len(Body("resume", m)) = 2 /\ Body("resume", m)[1] = Off1("pause")
           /\ Body("resume", m)[2] = State("STARTED")
           /\ Len(Body("again", m)) = 4 /\ Body("again", m)[1] = Off1("pause")
           /\ Body("again", m)[2] = State("STARTED") /\ Body("again", m)[3] = Off1("restart")
           /\ Body("again", m)[4] = Off1("from_beginning")
           /\ Len(Body("from", m)) = 6 /\ Body("from", m)[1] = On1("auto_resume")
           /\ Body("from", m)[2] = On1("buffering") /\ Body("from", m)[3] = On1("stream_seek")
           /\ Body("from", m)[4] = State("STARTED") /\ Body("from", m)[5] = Off1("restart")
           /\ Body("from", m)[6] = Off1("from_beginning")
           /\ Len(Body("hold", m)) = 2 /\ Body("hold", m)[1] = On1("pause")
           /\ Body("hold", m)[2] = State("PAUSED")
           /\ Len(Body("move", m)) = 2 /\ Body("move", m)[1] = Off1("from_beginning")
           /\ Body("move", m)[2] = I("stream_seek", "ON", m)
           /\ Len(Body("past", m)) = 3 /\ Body("past", m)[1] = Off1("from_beginning")
           /\ Body("past", m)[2] = On1("pause") /\ Body("past", m)[3] = I("put", "COMPLETED", 0)
  BY LoopBodyIs DEF Body, AppBodies, LoopBodies

\* What is left when the first instruction of todo has been taken off.
Comes(b, k, m) == LeftOf(Tail(todo), b, k, m)

LEMMA NoneIs == \A m : Body("none", m) = <<>> /\ Len(Body("none", m)) = 0
  BY DEF Body, AppBodies, LoopBodies

LEMMA BodyLength ==
    ASSUME NEW b \in Bodies, NEW m
    PROVE  Len(Body(b, m)) \in 0 .. 6 /\ (b # "none" => Len(Body(b, m)) > 0)
  BY AppInstructions, LoopInstructions, NoneIs DEF Bodies, AppBodies, LoopBodies

LEMMA NothingLeft ==
    ASSUME NEW rest, Len(rest) = 0, NEW m \in Positions
    PROVE  LeftOf(rest, "none", 1, m)
<1>1. Len(Body("none", m)) = 0 /\ "none" \in Bodies  BY NoneIs DEF Bodies
<1>2. \A j \in 1 .. Len(rest) : FALSE  OBVIOUS
<1>3. \A j \in 1 .. Len(rest) : rest[j] = Body("none", m)[1 + j - 1]  BY <1>2
<1> QED BY <1>1, <1>3 DEF LeftOf

LEMMA DoneIs ==
    ASSUME TypeOK, NEW b, NEW k, NEW m, LeftOf(todo, b, k, m)
    PROVE  todo = <<>> <=> b = "none"
<1>1. todo \in Seq(Instructions)  BY DEF TypeOK
<1>2. todo = <<>> <=> Len(todo) = 0  BY <1>1
<1>3. CASE b = "none"
  BY <1>2, <1>3, NoneIs DEF LeftOf
<1>4. CASE b # "none"
  <2>1. Len(Body(b, m)) \in Nat /\ k \in 1 .. Len(Body(b, m))  BY <1>4, BodyLength DEF LeftOf
  <2> QED BY <1>2, <1>4, <2>1 DEF LeftOf
<1> QED BY <1>3, <1>4

LEMMA InstructionIs ==
    ASSUME TypeOK, NEW b, NEW k, NEW m, LeftOf(todo, b, k, m), todo # <<>>
    PROVE  /\ b \in AppBodies \cup LoopBodies /\ k \in 1 .. Len(Body(b, m)) /\ m \in Positions
           /\ Head(todo) = Body(b, m)[k]
           /\ k < Len(Body(b, m)) => Comes(b, k + 1, m)
           /\ k = Len(Body(b, m)) => Comes("none", 1, m)
<1> DEFINE l == Len(Body(b, m))
<1>1. todo \in Seq(Instructions) /\ b # "none" /\ b \in Bodies /\ m \in Positions
  BY DoneIs DEF TypeOK, LeftOf
<1>2. l \in Nat /\ k \in 1 .. l  BY <1>1, BodyLength DEF LeftOf
<1>3. /\ Len(todo) = l + 1 - k
      /\ \A j \in 1 .. l + 1 - k : todo[j] = Body(b, m)[k + j - 1]
  BY DEF LeftOf
<1>4. /\ Head(todo) = todo[1] /\ Len(Tail(todo)) = l - k
      /\ \A j \in 1 .. l - k : Tail(todo)[j] = todo[j + 1]
  BY <1>1, <1>2, <1>3, HeadTailProperties
<1> HIDE DEF l
<1>5. Head(todo) = Body(b, m)[k]
  BY <1>2, <1>3, <1>4
<1>6. ASSUME k < l PROVE Comes(b, k + 1, m)
  <2>1. Len(Tail(todo)) = l + 1 - (k + 1)  BY <1>2, <1>4, <1>6
  <2>2. \A j \in 1 .. Len(Tail(todo)) : Tail(todo)[j] = Body(b, m)[(k + 1) + j - 1]
    <3> TAKE j \in 1 .. Len(Tail(todo))
    <3>1. j \in 1 .. l - k /\ j + 1 \in 1 .. l + 1 - k /\ k + (j + 1) - 1 = (k + 1) + j - 1
      BY <1>2, <2>1
    <3> QED BY <1>3, <1>4, <3>1
  <2>3. k + 1 \in 1 .. l  BY <1>2, <1>6
  <2> QED BY <1>1, <2>1, <2>2, <2>3 DEF LeftOf, Comes, l
<1>7. ASSUME k = l PROVE Comes("none", 1, m)
  <2>1. Len(Tail(todo)) = 0  BY <1>2, <1>4, <1>7
  <2>2. LeftOf(Tail(todo), "none", 1, m)  BY <1>1, <2>1, NothingLeft
  <2> QED BY <2>2 DEF Comes
<1> QED BY <1>1, <1>2, <1>5, <1>6, <1>7 DEF l, Bodies

\* Every instruction of every body.
Steps(b, k, m) ==
    /\ b = "set" =>
          /\ k \in 1 .. 1
          /\ k = 1 => Head(todo) = State("INITIALIZED") /\ Comes("none", 1, m)
    /\ b = "prepare" =>
          /\ k \in 1 .. 4
          /\ k = 1 => Head(todo) = State("ASYNC_PREPARING") /\ Comes("prepare", 2, m)
          /\ k = 2 => Head(todo) = On1("queue_start") /\ Comes("prepare", 3, m)
          /\ k = 3 => Head(todo) = On1("spawn") /\ Comes("prepare", 4, m)
          /\ k = 4 => Head(todo) = On1("stream_open") /\ Comes("none", 1, m)
    /\ b = "refused" =>
          /\ k \in 1 .. 4
          /\ k = 1 => Head(todo) = State("ASYNC_PREPARING") /\ Comes("refused", 2, m)
          /\ k = 2 => Head(todo) = On1("queue_start") /\ Comes("refused", 3, m)
          /\ k = 3 => Head(todo) = On1("spawn") /\ Comes("refused", 4, m)
          /\ k = 4 => Head(todo) = State("ERROR") /\ Comes("none", 1, m)
    /\ b = "start" =>
          /\ k \in 1 .. 3
          /\ k = 1 => Head(todo) = Remove("REQ_START") /\ Comes("start", 2, m)
          /\ k = 2 => Head(todo) = Remove("REQ_PAUSE") /\ Comes("start", 3, m)
          /\ k = 3 => Head(todo) = I("put", "REQ_START", 0) /\ Comes("none", 1, m)
    /\ b = "pause" =>
          /\ k \in 1 .. 3
          /\ k = 1 => Head(todo) = Remove("REQ_START") /\ Comes("pause", 2, m)
          /\ k = 2 => Head(todo) = Remove("REQ_PAUSE") /\ Comes("pause", 3, m)
          /\ k = 3 => Head(todo) = I("put", "REQ_PAUSE", 0) /\ Comes("none", 1, m)
    /\ b = "seek" =>
          /\ k \in 1 .. 3
          /\ k = 1 => Head(todo) = I("mp_seek", "ON", m) /\ Comes("seek", 2, m)
          /\ k = 2 => Head(todo) = Remove("REQ_SEEK") /\ Comes("seek", 3, m)
          /\ k = 3 => Head(todo) = I("put", "REQ_SEEK", m) /\ Comes("none", 1, m)
    /\ b = "stop" =>
          /\ k \in 1 .. 6
          /\ k = 1 => Head(todo) = Remove("REQ_START") /\ Comes("stop", 2, m)
          /\ k = 2 => Head(todo) = Remove("REQ_PAUSE") /\ Comes("stop", 3, m)
          /\ k = 3 => Head(todo) = On1("abort_stream") /\ Comes("stop", 4, m)
          /\ k = 4 => Head(todo) = On1("pause") /\ Comes("stop", 5, m)
          /\ k = 5 => Head(todo) = On1("queue_abort") /\ Comes("stop", 6, m)
          /\ k = 6 => Head(todo) = State("STOPPED") /\ Comes("none", 1, m)
    /\ b = "quit" =>
          /\ k \in 1 .. 4
          /\ k = 1 => Head(todo) = Remove("REQ_START") /\ Comes("quit", 2, m)
          /\ k = 2 => Head(todo) = Remove("REQ_PAUSE") /\ Comes("quit", 3, m)
          /\ k = 3 => Head(todo) = On1("queue_abort") /\ Comes("quit", 4, m)
          /\ k = 4 => Head(todo) = State("STOPPED") /\ Comes("none", 1, m)
    /\ b = "ready" =>
          /\ k \in 1 .. 1
          /\ k = 1 => Head(todo) = State("PREPARED") /\ Comes("none", 1, m)
    /\ b = "readyHeld" =>
          /\ k \in 1 .. 2
          /\ k = 1 => Head(todo) = State("PREPARED") /\ Comes("readyHeld", 2, m)
          /\ k = 2 => Head(todo) = State("PAUSED") /\ Comes("none", 1, m)
    /\ b = "held" =>
          /\ k \in 1 .. 1
          /\ k = 1 => Head(todo) = State("PAUSED") /\ Comes("none", 1, m)
    /\ b = "end" =>
          /\ k \in 1 .. 3
          /\ k = 1 => Head(todo) = On1("restart") /\ Comes("end", 2, m)
          /\ k = 2 => Head(todo) = On1("from_beginning") /\ Comes("end", 3, m)
          /\ k = 3 => Head(todo) = State("COMPLETED") /\ Comes("none", 1, m)
    /\ b = "answered" =>
          /\ k \in 1 .. 1
          /\ k = 1 => Head(todo) = Off1("mp_seek") /\ Comes("none", 1, m)
    /\ b = "resume" =>
          /\ k \in 1 .. 2
          /\ k = 1 => Head(todo) = Off1("pause") /\ Comes("resume", 2, m)
          /\ k = 2 => Head(todo) = State("STARTED") /\ Comes("none", 1, m)
    /\ b = "again" =>
          /\ k \in 1 .. 4
          /\ k = 1 => Head(todo) = Off1("pause") /\ Comes("again", 2, m)
          /\ k = 2 => Head(todo) = State("STARTED") /\ Comes("again", 3, m)
          /\ k = 3 => Head(todo) = Off1("restart") /\ Comes("again", 4, m)
          /\ k = 4 => Head(todo) = Off1("from_beginning") /\ Comes("none", 1, m)
    /\ b = "from" =>
          /\ k \in 1 .. 6
          /\ k = 1 => Head(todo) = On1("auto_resume") /\ Comes("from", 2, m)
          /\ k = 2 => Head(todo) = On1("buffering") /\ Comes("from", 3, m)
          /\ k = 3 => Head(todo) = On1("stream_seek") /\ Comes("from", 4, m)
          /\ k = 4 => Head(todo) = State("STARTED") /\ Comes("from", 5, m)
          /\ k = 5 => Head(todo) = Off1("restart") /\ Comes("from", 6, m)
          /\ k = 6 => Head(todo) = Off1("from_beginning") /\ Comes("none", 1, m)
    /\ b = "hold" =>
          /\ k \in 1 .. 2
          /\ k = 1 => Head(todo) = On1("pause") /\ Comes("hold", 2, m)
          /\ k = 2 => Head(todo) = State("PAUSED") /\ Comes("none", 1, m)
    /\ b = "move" =>
          /\ k \in 1 .. 2
          /\ k = 1 => Head(todo) = Off1("from_beginning") /\ Comes("move", 2, m)
          /\ k = 2 => Head(todo) = I("stream_seek", "ON", m) /\ Comes("none", 1, m)
    /\ b = "past" =>
          /\ k \in 1 .. 3
          /\ k = 1 => Head(todo) = Off1("from_beginning") /\ Comes("past", 2, m)
          /\ k = 2 => Head(todo) = On1("pause") /\ Comes("past", 3, m)
          /\ k = 3 => Head(todo) = I("put", "COMPLETED", 0) /\ Comes("none", 1, m)

LEMMA StepsAre ==
    ASSUME TypeOK, NEW b, NEW k, NEW m, LeftOf(todo, b, k, m), todo # <<>>
    PROVE  b \in AppBodies \cup LoopBodies /\ m \in Positions /\ Steps(b, k, m)
<1>0. /\ b \in AppBodies \cup LoopBodies /\ m \in Positions
      /\ k \in 1 .. Len(Body(b, m)) /\ Head(todo) = Body(b, m)[k]
      /\ k < Len(Body(b, m)) => Comes(b, k + 1, m)
      /\ k = Len(Body(b, m)) => Comes("none", 1, m)
  BY InstructionIs
<1>1. ASSUME b = "set"
      PROVE  /\ k \in 1 .. 1
             /\ k = 1 => Head(todo) = State("INITIALIZED") /\ Comes("none", 1, m)
  <2>1. /\ Len(Body(b, m)) = 1
        /\ Body(b, m)[1] = State("INITIALIZED")
    BY <1>1, AppInstructions
  <2>2. k \in 1 .. 1  BY <1>0, <2>1
  <2>3. ASSUME k = 1 PROVE Head(todo) = State("INITIALIZED") /\ Comes("none", 1, m)
    BY <1>0, <1>1, <2>1, <2>3
  <2> QED BY <2>2, <2>3
<1>2. ASSUME b = "prepare"
      PROVE  /\ k \in 1 .. 4
             /\ k = 1 => Head(todo) = State("ASYNC_PREPARING") /\ Comes("prepare", 2, m)
             /\ k = 2 => Head(todo) = On1("queue_start") /\ Comes("prepare", 3, m)
             /\ k = 3 => Head(todo) = On1("spawn") /\ Comes("prepare", 4, m)
             /\ k = 4 => Head(todo) = On1("stream_open") /\ Comes("none", 1, m)
  <2>1. /\ Len(Body(b, m)) = 4
        /\ Body(b, m)[1] = State("ASYNC_PREPARING")
        /\ Body(b, m)[2] = On1("queue_start")
        /\ Body(b, m)[3] = On1("spawn")
        /\ Body(b, m)[4] = On1("stream_open")
    BY <1>2, AppInstructions
  <2>2. k \in 1 .. 4  BY <1>0, <2>1
  <2>3. ASSUME k = 1 PROVE Head(todo) = State("ASYNC_PREPARING") /\ Comes("prepare", 2, m)
    BY <1>0, <1>2, <2>1, <2>3
  <2>4. ASSUME k = 2 PROVE Head(todo) = On1("queue_start") /\ Comes("prepare", 3, m)
    BY <1>0, <1>2, <2>1, <2>4
  <2>5. ASSUME k = 3 PROVE Head(todo) = On1("spawn") /\ Comes("prepare", 4, m)
    BY <1>0, <1>2, <2>1, <2>5
  <2>6. ASSUME k = 4 PROVE Head(todo) = On1("stream_open") /\ Comes("none", 1, m)
    BY <1>0, <1>2, <2>1, <2>6
  <2> QED BY <2>2, <2>3, <2>4, <2>5, <2>6
<1>3. ASSUME b = "refused"
      PROVE  /\ k \in 1 .. 4
             /\ k = 1 => Head(todo) = State("ASYNC_PREPARING") /\ Comes("refused", 2, m)
             /\ k = 2 => Head(todo) = On1("queue_start") /\ Comes("refused", 3, m)
             /\ k = 3 => Head(todo) = On1("spawn") /\ Comes("refused", 4, m)
             /\ k = 4 => Head(todo) = State("ERROR") /\ Comes("none", 1, m)
  <2>1. /\ Len(Body(b, m)) = 4
        /\ Body(b, m)[1] = State("ASYNC_PREPARING")
        /\ Body(b, m)[2] = On1("queue_start")
        /\ Body(b, m)[3] = On1("spawn")
        /\ Body(b, m)[4] = State("ERROR")
    BY <1>3, AppInstructions
  <2>2. k \in 1 .. 4  BY <1>0, <2>1
  <2>3. ASSUME k = 1 PROVE Head(todo) = State("ASYNC_PREPARING") /\ Comes("refused", 2, m)
    BY <1>0, <1>3, <2>1, <2>3
  <2>4. ASSUME k = 2 PROVE Head(todo) = On1("queue_start") /\ Comes("refused", 3, m)
    BY <1>0, <1>3, <2>1, <2>4
  <2>5. ASSUME k = 3 PROVE Head(todo) = On1("spawn") /\ Comes("refused", 4, m)
    BY <1>0, <1>3, <2>1, <2>5
  <2>6. ASSUME k = 4 PROVE Head(todo) = State("ERROR") /\ Comes("none", 1, m)
    BY <1>0, <1>3, <2>1, <2>6
  <2> QED BY <2>2, <2>3, <2>4, <2>5, <2>6
<1>4. ASSUME b = "start"
      PROVE  /\ k \in 1 .. 3
             /\ k = 1 => Head(todo) = Remove("REQ_START") /\ Comes("start", 2, m)
             /\ k = 2 => Head(todo) = Remove("REQ_PAUSE") /\ Comes("start", 3, m)
             /\ k = 3 => Head(todo) = I("put", "REQ_START", 0) /\ Comes("none", 1, m)
  <2>1. /\ Len(Body(b, m)) = 3
        /\ Body(b, m)[1] = Remove("REQ_START")
        /\ Body(b, m)[2] = Remove("REQ_PAUSE")
        /\ Body(b, m)[3] = I("put", "REQ_START", 0)
    BY <1>4, AppInstructions
  <2>2. k \in 1 .. 3  BY <1>0, <2>1
  <2>3. ASSUME k = 1 PROVE Head(todo) = Remove("REQ_START") /\ Comes("start", 2, m)
    BY <1>0, <1>4, <2>1, <2>3
  <2>4. ASSUME k = 2 PROVE Head(todo) = Remove("REQ_PAUSE") /\ Comes("start", 3, m)
    BY <1>0, <1>4, <2>1, <2>4
  <2>5. ASSUME k = 3 PROVE Head(todo) = I("put", "REQ_START", 0) /\ Comes("none", 1, m)
    BY <1>0, <1>4, <2>1, <2>5
  <2> QED BY <2>2, <2>3, <2>4, <2>5
<1>5. ASSUME b = "pause"
      PROVE  /\ k \in 1 .. 3
             /\ k = 1 => Head(todo) = Remove("REQ_START") /\ Comes("pause", 2, m)
             /\ k = 2 => Head(todo) = Remove("REQ_PAUSE") /\ Comes("pause", 3, m)
             /\ k = 3 => Head(todo) = I("put", "REQ_PAUSE", 0) /\ Comes("none", 1, m)
  <2>1. /\ Len(Body(b, m)) = 3
        /\ Body(b, m)[1] = Remove("REQ_START")
        /\ Body(b, m)[2] = Remove("REQ_PAUSE")
        /\ Body(b, m)[3] = I("put", "REQ_PAUSE", 0)
    BY <1>5, AppInstructions
  <2>2. k \in 1 .. 3  BY <1>0, <2>1
  <2>3. ASSUME k = 1 PROVE Head(todo) = Remove("REQ_START") /\ Comes("pause", 2, m)
    BY <1>0, <1>5, <2>1, <2>3
  <2>4. ASSUME k = 2 PROVE Head(todo) = Remove("REQ_PAUSE") /\ Comes("pause", 3, m)
    BY <1>0, <1>5, <2>1, <2>4
  <2>5. ASSUME k = 3 PROVE Head(todo) = I("put", "REQ_PAUSE", 0) /\ Comes("none", 1, m)
    BY <1>0, <1>5, <2>1, <2>5
  <2> QED BY <2>2, <2>3, <2>4, <2>5
<1>6. ASSUME b = "seek"
      PROVE  /\ k \in 1 .. 3
             /\ k = 1 => Head(todo) = I("mp_seek", "ON", m) /\ Comes("seek", 2, m)
             /\ k = 2 => Head(todo) = Remove("REQ_SEEK") /\ Comes("seek", 3, m)
             /\ k = 3 => Head(todo) = I("put", "REQ_SEEK", m) /\ Comes("none", 1, m)
  <2>1. /\ Len(Body(b, m)) = 3
        /\ Body(b, m)[1] = I("mp_seek", "ON", m)
        /\ Body(b, m)[2] = Remove("REQ_SEEK")
        /\ Body(b, m)[3] = I("put", "REQ_SEEK", m)
    BY <1>6, AppInstructions
  <2>2. k \in 1 .. 3  BY <1>0, <2>1
  <2>3. ASSUME k = 1 PROVE Head(todo) = I("mp_seek", "ON", m) /\ Comes("seek", 2, m)
    BY <1>0, <1>6, <2>1, <2>3
  <2>4. ASSUME k = 2 PROVE Head(todo) = Remove("REQ_SEEK") /\ Comes("seek", 3, m)
    BY <1>0, <1>6, <2>1, <2>4
  <2>5. ASSUME k = 3 PROVE Head(todo) = I("put", "REQ_SEEK", m) /\ Comes("none", 1, m)
    BY <1>0, <1>6, <2>1, <2>5
  <2> QED BY <2>2, <2>3, <2>4, <2>5
<1>7. ASSUME b = "stop"
      PROVE  /\ k \in 1 .. 6
             /\ k = 1 => Head(todo) = Remove("REQ_START") /\ Comes("stop", 2, m)
             /\ k = 2 => Head(todo) = Remove("REQ_PAUSE") /\ Comes("stop", 3, m)
             /\ k = 3 => Head(todo) = On1("abort_stream") /\ Comes("stop", 4, m)
             /\ k = 4 => Head(todo) = On1("pause") /\ Comes("stop", 5, m)
             /\ k = 5 => Head(todo) = On1("queue_abort") /\ Comes("stop", 6, m)
             /\ k = 6 => Head(todo) = State("STOPPED") /\ Comes("none", 1, m)
  <2>1. /\ Len(Body(b, m)) = 6
        /\ Body(b, m)[1] = Remove("REQ_START")
        /\ Body(b, m)[2] = Remove("REQ_PAUSE")
        /\ Body(b, m)[3] = On1("abort_stream")
        /\ Body(b, m)[4] = On1("pause")
        /\ Body(b, m)[5] = On1("queue_abort")
        /\ Body(b, m)[6] = State("STOPPED")
    BY <1>7, AppInstructions
  <2>2. k \in 1 .. 6  BY <1>0, <2>1
  <2>3. ASSUME k = 1 PROVE Head(todo) = Remove("REQ_START") /\ Comes("stop", 2, m)
    BY <1>0, <1>7, <2>1, <2>3
  <2>4. ASSUME k = 2 PROVE Head(todo) = Remove("REQ_PAUSE") /\ Comes("stop", 3, m)
    BY <1>0, <1>7, <2>1, <2>4
  <2>5. ASSUME k = 3 PROVE Head(todo) = On1("abort_stream") /\ Comes("stop", 4, m)
    BY <1>0, <1>7, <2>1, <2>5
  <2>6. ASSUME k = 4 PROVE Head(todo) = On1("pause") /\ Comes("stop", 5, m)
    BY <1>0, <1>7, <2>1, <2>6
  <2>7. ASSUME k = 5 PROVE Head(todo) = On1("queue_abort") /\ Comes("stop", 6, m)
    BY <1>0, <1>7, <2>1, <2>7
  <2>8. ASSUME k = 6 PROVE Head(todo) = State("STOPPED") /\ Comes("none", 1, m)
    BY <1>0, <1>7, <2>1, <2>8
  <2> QED BY <2>2, <2>3, <2>4, <2>5, <2>6, <2>7, <2>8
<1>8. ASSUME b = "quit"
      PROVE  /\ k \in 1 .. 4
             /\ k = 1 => Head(todo) = Remove("REQ_START") /\ Comes("quit", 2, m)
             /\ k = 2 => Head(todo) = Remove("REQ_PAUSE") /\ Comes("quit", 3, m)
             /\ k = 3 => Head(todo) = On1("queue_abort") /\ Comes("quit", 4, m)
             /\ k = 4 => Head(todo) = State("STOPPED") /\ Comes("none", 1, m)
  <2>1. /\ Len(Body(b, m)) = 4
        /\ Body(b, m)[1] = Remove("REQ_START")
        /\ Body(b, m)[2] = Remove("REQ_PAUSE")
        /\ Body(b, m)[3] = On1("queue_abort")
        /\ Body(b, m)[4] = State("STOPPED")
    BY <1>8, AppInstructions
  <2>2. k \in 1 .. 4  BY <1>0, <2>1
  <2>3. ASSUME k = 1 PROVE Head(todo) = Remove("REQ_START") /\ Comes("quit", 2, m)
    BY <1>0, <1>8, <2>1, <2>3
  <2>4. ASSUME k = 2 PROVE Head(todo) = Remove("REQ_PAUSE") /\ Comes("quit", 3, m)
    BY <1>0, <1>8, <2>1, <2>4
  <2>5. ASSUME k = 3 PROVE Head(todo) = On1("queue_abort") /\ Comes("quit", 4, m)
    BY <1>0, <1>8, <2>1, <2>5
  <2>6. ASSUME k = 4 PROVE Head(todo) = State("STOPPED") /\ Comes("none", 1, m)
    BY <1>0, <1>8, <2>1, <2>6
  <2> QED BY <2>2, <2>3, <2>4, <2>5, <2>6
<1>9. ASSUME b = "ready"
      PROVE  /\ k \in 1 .. 1
             /\ k = 1 => Head(todo) = State("PREPARED") /\ Comes("none", 1, m)
  <2>1. /\ Len(Body(b, m)) = 1
        /\ Body(b, m)[1] = State("PREPARED")
    BY <1>9, LoopInstructions
  <2>2. k \in 1 .. 1  BY <1>0, <2>1
  <2>3. ASSUME k = 1 PROVE Head(todo) = State("PREPARED") /\ Comes("none", 1, m)
    BY <1>0, <1>9, <2>1, <2>3
  <2> QED BY <2>2, <2>3
<1>10. ASSUME b = "readyHeld"
      PROVE  /\ k \in 1 .. 2
             /\ k = 1 => Head(todo) = State("PREPARED") /\ Comes("readyHeld", 2, m)
             /\ k = 2 => Head(todo) = State("PAUSED") /\ Comes("none", 1, m)
  <2>1. /\ Len(Body(b, m)) = 2
        /\ Body(b, m)[1] = State("PREPARED")
        /\ Body(b, m)[2] = State("PAUSED")
    BY <1>10, LoopInstructions
  <2>2. k \in 1 .. 2  BY <1>0, <2>1
  <2>3. ASSUME k = 1 PROVE Head(todo) = State("PREPARED") /\ Comes("readyHeld", 2, m)
    BY <1>0, <1>10, <2>1, <2>3
  <2>4. ASSUME k = 2 PROVE Head(todo) = State("PAUSED") /\ Comes("none", 1, m)
    BY <1>0, <1>10, <2>1, <2>4
  <2> QED BY <2>2, <2>3, <2>4
<1>11. ASSUME b = "held"
      PROVE  /\ k \in 1 .. 1
             /\ k = 1 => Head(todo) = State("PAUSED") /\ Comes("none", 1, m)
  <2>1. /\ Len(Body(b, m)) = 1
        /\ Body(b, m)[1] = State("PAUSED")
    BY <1>11, LoopInstructions
  <2>2. k \in 1 .. 1  BY <1>0, <2>1
  <2>3. ASSUME k = 1 PROVE Head(todo) = State("PAUSED") /\ Comes("none", 1, m)
    BY <1>0, <1>11, <2>1, <2>3
  <2> QED BY <2>2, <2>3
<1>12. ASSUME b = "end"
      PROVE  /\ k \in 1 .. 3
             /\ k = 1 => Head(todo) = On1("restart") /\ Comes("end", 2, m)
             /\ k = 2 => Head(todo) = On1("from_beginning") /\ Comes("end", 3, m)
             /\ k = 3 => Head(todo) = State("COMPLETED") /\ Comes("none", 1, m)
  <2>1. /\ Len(Body(b, m)) = 3
        /\ Body(b, m)[1] = On1("restart")
        /\ Body(b, m)[2] = On1("from_beginning")
        /\ Body(b, m)[3] = State("COMPLETED")
    BY <1>12, LoopInstructions
  <2>2. k \in 1 .. 3  BY <1>0, <2>1
  <2>3. ASSUME k = 1 PROVE Head(todo) = On1("restart") /\ Comes("end", 2, m)
    BY <1>0, <1>12, <2>1, <2>3
  <2>4. ASSUME k = 2 PROVE Head(todo) = On1("from_beginning") /\ Comes("end", 3, m)
    BY <1>0, <1>12, <2>1, <2>4
  <2>5. ASSUME k = 3 PROVE Head(todo) = State("COMPLETED") /\ Comes("none", 1, m)
    BY <1>0, <1>12, <2>1, <2>5
  <2> QED BY <2>2, <2>3, <2>4, <2>5
<1>13. ASSUME b = "answered"
      PROVE  /\ k \in 1 .. 1
             /\ k = 1 => Head(todo) = Off1("mp_seek") /\ Comes("none", 1, m)
  <2>1. /\ Len(Body(b, m)) = 1
        /\ Body(b, m)[1] = Off1("mp_seek")
    BY <1>13, LoopInstructions
  <2>2. k \in 1 .. 1  BY <1>0, <2>1
  <2>3. ASSUME k = 1 PROVE Head(todo) = Off1("mp_seek") /\ Comes("none", 1, m)
    BY <1>0, <1>13, <2>1, <2>3
  <2> QED BY <2>2, <2>3
<1>14. ASSUME b = "resume"
      PROVE  /\ k \in 1 .. 2
             /\ k = 1 => Head(todo) = Off1("pause") /\ Comes("resume", 2, m)
             /\ k = 2 => Head(todo) = State("STARTED") /\ Comes("none", 1, m)
  <2>1. /\ Len(Body(b, m)) = 2
        /\ Body(b, m)[1] = Off1("pause")
        /\ Body(b, m)[2] = State("STARTED")
    BY <1>14, LoopInstructions
  <2>2. k \in 1 .. 2  BY <1>0, <2>1
  <2>3. ASSUME k = 1 PROVE Head(todo) = Off1("pause") /\ Comes("resume", 2, m)
    BY <1>0, <1>14, <2>1, <2>3
  <2>4. ASSUME k = 2 PROVE Head(todo) = State("STARTED") /\ Comes("none", 1, m)
    BY <1>0, <1>14, <2>1, <2>4
  <2> QED BY <2>2, <2>3, <2>4
<1>15. ASSUME b = "again"
      PROVE  /\ k \in 1 .. 4
             /\ k = 1 => Head(todo) = Off1("pause") /\ Comes("again", 2, m)
             /\ k = 2 => Head(todo) = State("STARTED") /\ Comes("again", 3, m)
             /\ k = 3 => Head(todo) = Off1("restart") /\ Comes("again", 4, m)
             /\ k = 4 => Head(todo) = Off1("from_beginning") /\ Comes("none", 1, m)
  <2>1. /\ Len(Body(b, m)) = 4
        /\ Body(b, m)[1] = Off1("pause")
        /\ Body(b, m)[2] = State("STARTED")
        /\ Body(b, m)[3] = Off1("restart")
        /\ Body(b, m)[4] = Off1("from_beginning")
    BY <1>15, LoopInstructions
  <2>2. k \in 1 .. 4  BY <1>0, <2>1
  <2>3. ASSUME k = 1 PROVE Head(todo) = Off1("pause") /\ Comes("again", 2, m)
    BY <1>0, <1>15, <2>1, <2>3
  <2>4. ASSUME k = 2 PROVE Head(todo) = State("STARTED") /\ Comes("again", 3, m)
    BY <1>0, <1>15, <2>1, <2>4
  <2>5. ASSUME k = 3 PROVE Head(todo) = Off1("restart") /\ Comes("again", 4, m)
    BY <1>0, <1>15, <2>1, <2>5
  <2>6. ASSUME k = 4 PROVE Head(todo) = Off1("from_beginning") /\ Comes("none", 1, m)
    BY <1>0, <1>15, <2>1, <2>6
  <2> QED BY <2>2, <2>3, <2>4, <2>5, <2>6
<1>16. ASSUME b = "from"
      PROVE  /\ k \in 1 .. 6
             /\ k = 1 => Head(todo) = On1("auto_resume") /\ Comes("from", 2, m)
             /\ k = 2 => Head(todo) = On1("buffering") /\ Comes("from", 3, m)
             /\ k = 3 => Head(todo) = On1("stream_seek") /\ Comes("from", 4, m)
             /\ k = 4 => Head(todo) = State("STARTED") /\ Comes("from", 5, m)
             /\ k = 5 => Head(todo) = Off1("restart") /\ Comes("from", 6, m)
             /\ k = 6 => Head(todo) = Off1("from_beginning") /\ Comes("none", 1, m)
  <2>1. /\ Len(Body(b, m)) = 6
        /\ Body(b, m)[1] = On1("auto_resume")
        /\ Body(b, m)[2] = On1("buffering")
        /\ Body(b, m)[3] = On1("stream_seek")
        /\ Body(b, m)[4] = State("STARTED")
        /\ Body(b, m)[5] = Off1("restart")
        /\ Body(b, m)[6] = Off1("from_beginning")
    BY <1>16, LoopInstructions
  <2>2. k \in 1 .. 6  BY <1>0, <2>1
  <2>3. ASSUME k = 1 PROVE Head(todo) = On1("auto_resume") /\ Comes("from", 2, m)
    BY <1>0, <1>16, <2>1, <2>3
  <2>4. ASSUME k = 2 PROVE Head(todo) = On1("buffering") /\ Comes("from", 3, m)
    BY <1>0, <1>16, <2>1, <2>4
  <2>5. ASSUME k = 3 PROVE Head(todo) = On1("stream_seek") /\ Comes("from", 4, m)
    BY <1>0, <1>16, <2>1, <2>5
  <2>6. ASSUME k = 4 PROVE Head(todo) = State("STARTED") /\ Comes("from", 5, m)
    BY <1>0, <1>16, <2>1, <2>6
  <2>7. ASSUME k = 5 PROVE Head(todo) = Off1("restart") /\ Comes("from", 6, m)
    BY <1>0, <1>16, <2>1, <2>7
  <2>8. ASSUME k = 6 PROVE Head(todo) = Off1("from_beginning") /\ Comes("none", 1, m)
    BY <1>0, <1>16, <2>1, <2>8
  <2> QED BY <2>2, <2>3, <2>4, <2>5, <2>6, <2>7, <2>8
<1>17. ASSUME b = "hold"
      PROVE  /\ k \in 1 .. 2
             /\ k = 1 => Head(todo) = On1("pause") /\ Comes("hold", 2, m)
             /\ k = 2 => Head(todo) = State("PAUSED") /\ Comes("none", 1, m)
  <2>1. /\ Len(Body(b, m)) = 2
        /\ Body(b, m)[1] = On1("pause")
        /\ Body(b, m)[2] = State("PAUSED")
    BY <1>17, LoopInstructions
  <2>2. k \in 1 .. 2  BY <1>0, <2>1
  <2>3. ASSUME k = 1 PROVE Head(todo) = On1("pause") /\ Comes("hold", 2, m)
    BY <1>0, <1>17, <2>1, <2>3
  <2>4. ASSUME k = 2 PROVE Head(todo) = State("PAUSED") /\ Comes("none", 1, m)
    BY <1>0, <1>17, <2>1, <2>4
  <2> QED BY <2>2, <2>3, <2>4
<1>18. ASSUME b = "move"
      PROVE  /\ k \in 1 .. 2
             /\ k = 1 => Head(todo) = Off1("from_beginning") /\ Comes("move", 2, m)
             /\ k = 2 => Head(todo) = I("stream_seek", "ON", m) /\ Comes("none", 1, m)
  <2>1. /\ Len(Body(b, m)) = 2
        /\ Body(b, m)[1] = Off1("from_beginning")
        /\ Body(b, m)[2] = I("stream_seek", "ON", m)
    BY <1>18, LoopInstructions
  <2>2. k \in 1 .. 2  BY <1>0, <2>1
  <2>3. ASSUME k = 1 PROVE Head(todo) = Off1("from_beginning") /\ Comes("move", 2, m)
    BY <1>0, <1>18, <2>1, <2>3
  <2>4. ASSUME k = 2 PROVE Head(todo) = I("stream_seek", "ON", m) /\ Comes("none", 1, m)
    BY <1>0, <1>18, <2>1, <2>4
  <2> QED BY <2>2, <2>3, <2>4
<1>19. ASSUME b = "past"
      PROVE  /\ k \in 1 .. 3
             /\ k = 1 => Head(todo) = Off1("from_beginning") /\ Comes("past", 2, m)
             /\ k = 2 => Head(todo) = On1("pause") /\ Comes("past", 3, m)
             /\ k = 3 => Head(todo) = I("put", "COMPLETED", 0) /\ Comes("none", 1, m)
  <2>1. /\ Len(Body(b, m)) = 3
        /\ Body(b, m)[1] = Off1("from_beginning")
        /\ Body(b, m)[2] = On1("pause")
        /\ Body(b, m)[3] = I("put", "COMPLETED", 0)
    BY <1>19, LoopInstructions
  <2>2. k \in 1 .. 3  BY <1>0, <2>1
  <2>3. ASSUME k = 1 PROVE Head(todo) = Off1("from_beginning") /\ Comes("past", 2, m)
    BY <1>0, <1>19, <2>1, <2>3
  <2>4. ASSUME k = 2 PROVE Head(todo) = On1("pause") /\ Comes("past", 3, m)
    BY <1>0, <1>19, <2>1, <2>4
  <2>5. ASSUME k = 3 PROVE Head(todo) = I("put", "COMPLETED", 0) /\ Comes("none", 1, m)
    BY <1>0, <1>19, <2>1, <2>5
  <2> QED BY <2>2, <2>3, <2>4, <2>5
<1> QED
  BY <1>0, <1>1, <1>2, <1>3, <1>4, <1>5, <1>6, <1>7, <1>8, <1>9, <1>10, <1>11, <1>12, <1>13, <1>14,
     <1>15, <1>16, <1>17, <1>18, <1>19
  DEF Steps

-------------------------------------------------------------------------------
(* What the queue holds, and what the message loop has taken off it. *)
Has(q, what) == \E i \in DOMAIN q : q[i].what = what

Late == {"REQ_START", "REQ_PAUSE", "REQ_SEEK", "COMPLETED", "SEEK_COMPLETE"}
HasLate(q) == \/ Has(q, "REQ_START") \/ Has(q, "REQ_PAUSE") \/ Has(q, "REQ_SEEK")
              \/ Has(q, "COMPLETED") \/ Has(q, "SEEK_COMPLETE")

\* Nothing that follows from the preparation is queued before PREPARED.
PreparedFirst(q) ==
    \A i, j \in DOMAIN q : i < j /\ q[j].what = "PREPARED" => q[i].what \notin Late \cup {"PREPARED"}

Taken == loop_pc \in {"handle", "locked"}
Waits(what) == loop_pc = "handle" /\ loop_msg.what = what

\* The bodies that lead to STARTED, as long as they have not set it.
Resuming(b, k) == b = "resume" \/ (b = "again" /\ k <= 2) \/ (b = "from" /\ k <= 4)

(***************************************************************************)
(* The inductive invariant, for the body b of which the kth instruction is *)
(* the next.                                                               *)
(***************************************************************************)
\* Who is in the middle of which body.
OwnerInv(b) ==
    /\ mutex = "free" => b = "none"
    /\ b \in AppBodies => mutex = "app"
    /\ b \in LoopBodies => mutex = "loop"
    /\ mutex = "loop" <=> loop_pc = "locked"
    /\ Taken => loop_msg.what \in Late \cup {"PREPARED"}
    /\ b \in {"ready", "readyHeld", "held"} => loop_msg.what = "PREPARED"
    /\ b = "end" => loop_msg.what = "COMPLETED"
    /\ b = "answered" => loop_msg.what = "SEEK_COMPLETE"
    /\ b \in {"resume", "again", "from"} => loop_msg.what = "REQ_START"
    /\ b = "hold" => loop_msg.what = "REQ_PAUSE"
    /\ b \in {"move", "past"} => loop_msg.what = "REQ_SEEK"

\* The threads and messages of a player that is not prepared.
BirthInv(b, k) ==
    /\ mp_state \in {"IDLE", "INITIALIZED"} => queue_abort
    /\ queue_abort /\ mp_state = "ASYNC_PREPARING" =>
          b \in {"stop", "quit"} \/ (b \in {"prepare", "refused"} /\ k = 2)
    /\ (b = "stop" /\ k = 6) \/ (b = "quit" /\ k = 4) => queue_abort
    /\ mp_state \in {"IDLE", "INITIALIZED"} => loop_pc = "none" /\ read_pc = "none"
    /\ b = "set" => mp_state = "IDLE"
    /\ b \in {"prepare", "refused"} =>
          /\ read_pc = "none" /\ (k <= 3 => loop_pc = "none")
          /\ k = 1 => mp_state = "INITIALIZED"
          /\ k > 1 => mp_state = "ASYNC_PREPARING"
          /\ k = 2 => queue_abort
    /\ b \in {"start", "pause", "seek"} => Ready
    /\ read_pc \in {"none", "open"} => ~prepared /\ ~play.auto_resume
    /\ read_pc \notin {"none", "open", "fail", "exited"} => prepared
    /\ Taken \/ Ready \/ HasLate(queue) \/ Has(queue, "PREPARED") => prepared

\* PREPARED comes before everything that follows from it.
OrderInv(b, k) ==
    /\ PreparedFirst(queue)
    /\ Taken /\ loop_msg.what = "PREPARED" => ~Has(queue, "PREPARED")
    /\ b \in {"ready", "readyHeld"} /\ k = 1 => mp_state = "ASYNC_PREPARING"
    /\ ~queue_abort =>
          /\ read_pc = "open" \/ Has(queue, "PREPARED") \/ Waits("PREPARED") =>
                mp_state = "ASYNC_PREPARING"
          /\ Taken /\ loop_msg.what \in Late => Ready
          /\ prepared => \/ Ready \/ Has(queue, "PREPARED") \/ Waits("PREPARED")
                         \/ b \in {"ready", "readyHeld"} /\ k = 1

\* mp->restart and mp->restart_from_beginning.
RestartInv(b, k) ==
    /\ restart_from_beginning => restart \/ (b = "again" /\ k = 4) \/ (b = "from" /\ k = 6)
    /\ mp_state = "COMPLETED" => restart
    /\ mp_state \in {"PREPARED", "STARTED"} =>
          ~restart \/ b = "end" \/ (b = "again" /\ k <= 3) \/ (b = "from" /\ k <= 5)
    /\ b = "end" /\ k >= 2 => restart
    /\ b = "resume" => ~restart
    /\ (b = "again" /\ k <= 3) \/ (b = "from" /\ k <= 5) => restart
    /\ (b = "again" /\ k = 4) \/ (b = "from" /\ k = 6) => ~restart
    /\ (b = "again" /\ k >= 3) \/ (b = "from" /\ k >= 5) => mp_state = "STARTED"
    /\ mp_state \in {"IDLE", "INITIALIZED", "ASYNC_PREPARING"} => ~restart /\ ~restart_from_beginning
    /\ b \in {"end", "resume", "again", "from"} =>
          mp_state \notin {"IDLE", "INITIALIZED", "ASYNC_PREPARING"}

OnHold == play.pause_req /\ ~play.auto_resume

\* The pause behind the state PAUSED.
PausedInv(b, k) ==
    /\ b = "hold" /\ k = 2 => OnHold
    /\ ~queue_abort =>
          /\ mp_state = "PAUSED" => OnHold \/ Resuming(b, k)
          /\ ~StartOnPrepared /\ (\/ Has(queue, "PREPARED") \/ Waits("PREPARED")
                                  \/ b \in {"held", "readyHeld"}) => OnHold
          /\ b \in {"held", "readyHeld"} => ~StartOnPrepared

\* What a start that was the last call still has to do.
StickInv(b, k) ==
    /\ mp_state \in {"IDLE", "INITIALIZED", "ASYNC_PREPARING"} => asked \in {"none", "failed"}
    /\ ~queue_abort /\ b \in {"ready", "readyHeld", "held"} => asked \in {"none", "failed"}
    /\ b = "pause" => asked # "start"
    /\ ~queue_abort /\ b = "start" /\ k = 3 => ~Has(queue, "REQ_PAUSE")
    /\ ~queue_abort /\ asked = "start" /\ b \notin {"start", "stop", "quit"} =>
          /\ ~Has(queue, "REQ_PAUSE")
          /\ \/ Has(queue, "REQ_START") \/ Waits("REQ_START") \/ Resuming(b, k)
             \/ mp_state \in {"STARTED", "COMPLETED"} /\ ~Waits("REQ_PAUSE") /\ b # "hold"

\* What will end a pause under the state STARTED, or the state.
Unless(b, k) ==
    \/ ~play.pause_req \/ asked = "failed" \/ overtaken
    \/ Has(queue, "COMPLETED") \/ Has(queue, "REQ_START") \/ Has(queue, "REQ_PAUSE")
    \/ Waits("COMPLETED") \/ Waits("REQ_START") \/ Waits("REQ_PAUSE")
    \/ read_pc \in {"ending", "end_pause", "end_notify"}
    \/ /\ play.auto_resume /\ read_pc # "resumed"
       /\ is_seek_req \/ read_pc = "seek_resume" \/ (b = "from" /\ k \in {2, 3})

StartedInv(b, k) ==
    /\ ~queue_abort /\ (mp_state = "STARTED" \/ (Resuming(b, k) /\ k >= 2)) =>
          \/ Unless(b, k)
          \/ b \in {"start", "pause", "stop", "quit", "hold", "held", "end"}
          \/ Resuming(b, k) /\ k = 1
          \/ b = "past" /\ k = 3

Early == read_pc \in {"none", "open", "wait_start", "resume", "resumed"}

\* No seek goes past the end of the stream.
SeeksInside == AccurateSeek /\ Duration > 0 => \A pos \in Positions : pos < Duration

\* Nothing has ended before playback has begun.
EarlyInv(b) ==
    /\ b # "past" /\ ~overtaken
    /\ Early => /\ ~restart /\ ~Has(queue, "COMPLETED")
                /\ ~(Taken /\ loop_msg.what = "COMPLETED") /\ b # "end"

\* Where the seek is that ijkmp_get_current_position answers for.
SeekInv(b, k) ==
    /\ mp_state \in {"IDLE", "INITIALIZED", "ASYNC_PREPARING"} => ~mp_seek_req
    /\ ~queue_abort /\ mp_seek_req =>
        \/ is_seek_req \/ read_pc \in {"seek_resume", "seek_notify"}
        \/ Has(queue, "REQ_SEEK") \/ Has(queue, "SEEK_COMPLETE")
        \/ Waits("REQ_SEEK") \/ Waits("SEEK_COMPLETE")
        \/ b \in {"move", "answered"} \/ (b = "seek" /\ k >= 2)

CallInv(b, k) == /\ OwnerInv(b) /\ BirthInv(b, k) /\ OrderInv(b, k) /\ RestartInv(b, k)
                 /\ PausedInv(b, k) /\ StickInv(b, k) /\ StartedInv(b, k)
SeekingInv(b, k) == EarlyInv(b) /\ SeekInv(b, k)
AllInv(b, k) == CallInv(b, k) /\ (SeeksInside => SeekingInv(b, k))

\* A statement about every natural that the least exception refutes.
LEMMA NatInd ==
    ASSUME NEW S, 0 \in S, \A n \in Nat : n \in S => n + 1 \in S
    PROVE  Nat \subseteq S
<1> SUFFICES ASSUME Nat \ S # {} PROVE FALSE
  OBVIOUS
<1>1. PICK x \in Nat \ S : \A y \in Nat \ S : ~ (<<y, x>> \in OpToRel(<, Nat))
  BY WFMin, NatLessThanWellFounded, Nat \ S \subseteq Nat
<1>2. x \in Nat /\ x \notin S /\ x # 0
  OBVIOUS
<1>3. x - 1 \in Nat /\ x - 1 < x /\ (x - 1) + 1 = x
  BY <1>2
<1>4. x - 1 \notin S
  BY <1>2, <1>3
<1>5. <<x - 1, x>> \in OpToRel(<, Nat)
  BY <1>2, <1>3 DEF OpToRel
<1> QED BY <1>1, <1>3, <1>4, <1>5

\* The loop of msg_queue_remove up to its nth turn.
Turns(q, what, n, f) ==
    f = [i \in 0 .. n |-> IF i = 0 THEN << >>
                          ELSE IF q[i].what = what THEN f[i - 1] ELSE Append(f[i - 1], q[i])]

LEMMA TurnsTo ==
    ASSUME NEW q, NEW what, NEW n \in Nat
    PROVE  \E f : Turns(q, what, n, f)
<1> DEFINE S == {m \in Nat : \E f : Turns(q, what, m, f)}
<1>1. 0 \in S
  <2>1. Turns(q, what, 0, [i \in 0 .. 0 |-> << >>])
    BY DEF Turns
  <2> QED BY <2>1
<1>2. ASSUME NEW m \in Nat, m \in S PROVE m + 1 \in S
  <2>1. PICK f : Turns(q, what, m, f)
    BY <1>2
  <2> DEFINE last == IF q[m + 1].what = what THEN f[m] ELSE Append(f[m], q[m + 1])
             g == [i \in 0 .. m + 1 |-> IF i = m + 1 THEN last ELSE f[i]]
  <2>2. \A i \in 0 .. m : f[i] = IF i = 0 THEN << >>
                          ELSE IF q[i].what = what THEN f[i - 1] ELSE Append(f[i - 1], q[i])
    BY <2>1 DEF Turns
  <2>3. Turns(q, what, m + 1, g)
    <3>1. \A i \in 0 .. m : g[i] = f[i]
      OBVIOUS
    <3>2. \A i \in 0 .. m + 1 : g[i] = IF i = 0 THEN << >>
                          ELSE IF q[i].what = what THEN g[i - 1] ELSE Append(g[i - 1], q[i])
      <4> TAKE i \in 0 .. m + 1
      <4>1. CASE i = m + 1
        <5>1. g[i] = last /\ i # 0 /\ i - 1 = m /\ g[m] = f[m]
          BY <4>1, <3>1
        <5> QED BY <5>1, <4>1
      <4>2. CASE i # m + 1
        <5>1. i \in 0 .. m /\ (i # 0 => i - 1 \in 0 .. m)
          BY <4>2
        <5> HIDE DEF g
        <5> QED BY <5>1, <3>1, <2>2
      <4> QED BY <4>1, <4>2
    <3>3. g = [i \in 0 .. m + 1 |-> g[i]]
      OBVIOUS
    <3> HIDE DEF g
    <3> QED BY <3>2, <3>3 DEF Turns
  <2> QED BY <2>3
<1>3. Nat \subseteq S
  <2> HIDE DEF S
  <2> QED BY <1>1, <1>2, NatInd
<1> QED BY <1>3

LEMMA WithoutIs ==
    ASSUME NEW q, NEW what, Len(q) \in Nat
    PROVE  \E f : Turns(q, what, Len(q), f) /\ Without(q, what) = f[Len(q)]
  <1>1. \E f : Turns(q, what, Len(q), f)
    BY TurnsTo
  <1> DEFINE g == CHOOSE f : Turns(q, what, Len(q), f)
  <1>2. Turns(q, what, Len(q), g)
    BY <1>1
  <1>3. Without(q, what) = g[Len(q)]
    BY DEF Without, Turns
  <1> QED BY <1>2, <1>3

\* What is left of a queue is in the order it was in: at says where each of it was.
LeftAt(q, what, n, r, at) ==
    /\ at \in [1 .. Len(r) -> 1 .. n]
    /\ \A j \in 1 .. Len(r) : r[j] = q[at[j]] /\ q[at[j]].what # what
    /\ \A j, k \in 1 .. Len(r) : j < k => at[j] < at[k]
    /\ \A i \in 1 .. n : q[i].what # what => \E j \in 1 .. Len(r) : at[j] = i

LEMMA TurnsKeep ==
    ASSUME NEW S, NEW q \in Seq(S), NEW what, NEW f, Turns(q, what, Len(q), f), NEW n \in 0 .. Len(q)
    PROVE  /\ f[n] \in Seq(S)
           /\ \E at : LeftAt(q, what, n, f[n], at)
<1> DEFINE T == {m \in Nat : m <= Len(q) => f[m] \in Seq(S) /\ \E at : LeftAt(q, what, m, f[m], at)}
<1>0. Len(q) \in Nat
  OBVIOUS
<1>1. \A i \in 0 .. Len(q) : f[i] = IF i = 0 THEN << >>
                          ELSE IF q[i].what = what THEN f[i - 1] ELSE Append(f[i - 1], q[i])
  BY <1>0 DEF Turns
<1>2. 0 \in T
  <2>0. 0 \in 0 .. Len(q)
    BY <1>0
  <2>1. f[0] = << >> /\ f[0] \in Seq(S) /\ Len(f[0]) = 0
    BY <2>0, <1>1, EmptySeq
  <2>2. LeftAt(q, what, 0, f[0], [j \in 1 .. 0 |-> 1])
    BY <2>1 DEF LeftAt
  <2> QED BY <2>1, <2>2
<1>3. ASSUME NEW m \in Nat, m \in T PROVE m + 1 \in T
  <2> SUFFICES ASSUME m + 1 <= Len(q)
               PROVE  f[m + 1] \in Seq(S) /\ \E at : LeftAt(q, what, m + 1, f[m + 1], at)
    OBVIOUS
  <2>1. f[m] \in Seq(S) /\ \E at : LeftAt(q, what, m, f[m], at)
    BY <1>0, <1>3
  <2>2. PICK at : LeftAt(q, what, m, f[m], at)
    BY <2>1
  <2>3. f[m + 1] = IF q[m + 1].what = what THEN f[m] ELSE Append(f[m], q[m + 1])
    BY <1>0, <1>1
  <2>4. q[m + 1] \in S
    BY <1>0
  <2>5. CASE q[m + 1].what = what
    <3>1. LeftAt(q, what, m + 1, f[m + 1], at)
      BY <2>1, <2>2, <2>3, <2>5 DEF LeftAt
    <3> QED BY <2>1, <2>3, <2>5, <3>1
  <2>6. CASE q[m + 1].what # what
    <3> DEFINE r == Append(f[m], q[m + 1])
               l == Len(f[m])
               more == [j \in 1 .. l + 1 |-> IF j = l + 1 THEN m + 1 ELSE at[j]]
    <3>1. /\ r \in Seq(S) /\ Len(r) = l + 1 /\ l \in Nat
          /\ \A j \in 1 .. l : r[j] = f[m][j]
          /\ r[l + 1] = q[m + 1]
      BY <2>1, <2>4
    <3>2. /\ at \in [1 .. l -> 1 .. m]
          /\ \A j \in 1 .. l : f[m][j] = q[at[j]] /\ q[at[j]].what # what
          /\ \A j, k \in 1 .. l : j < k => at[j] < at[k]
          /\ \A i \in 1 .. m : q[i].what # what => \E j \in 1 .. l : at[j] = i
      BY <2>2 DEF LeftAt
    <3> HIDE DEF r, l
    <3>3. /\ more \in [1 .. l + 1 -> 1 .. m + 1] /\ more[l + 1] = m + 1
          /\ \A j \in 1 .. l : more[j] = at[j] /\ at[j] \in 1 .. m
      BY <3>1, <3>2
    <3> HIDE DEF more
    <3>4. \A j \in 1 .. l + 1 : r[j] = q[more[j]] /\ q[more[j]].what # what
      BY <3>1, <3>2, <3>3, <2>6
    <3>5. \A j, k \in 1 .. l + 1 : j < k => more[j] < more[k]
      <4> SUFFICES ASSUME NEW j \in 1 .. l + 1, NEW k \in 1 .. l + 1, j < k
                   PROVE  more[j] < more[k]
        OBVIOUS
      <4>1. j \in 1 .. l /\ more[j] = at[j] /\ at[j] \in 1 .. m  BY <3>1, <3>3
      <4>2. CASE k = l + 1  BY <4>1, <4>2, <3>3
      <4>3. CASE k # l + 1
        <5>1. k \in 1 .. l /\ more[k] = at[k]  BY <4>3, <3>1, <3>3
        <5>2. at[j] < at[k]  BY <3>2, <4>1, <5>1
        <5> QED BY <4>1, <5>1, <5>2
      <4> QED BY <4>2, <4>3
    <3>6. \A i \in 1 .. m + 1 : q[i].what # what => \E j \in 1 .. l + 1 : more[j] = i
      <4> SUFFICES ASSUME NEW i \in 1 .. m + 1, q[i].what # what
                   PROVE  \E j \in 1 .. l + 1 : more[j] = i
        OBVIOUS
      <4>1. CASE i = m + 1  BY <3>1, <3>3, <4>1
      <4>2. CASE i # m + 1
        <5>1. i \in 1 .. m  BY <4>2
        <5>2. PICK j \in 1 .. l : at[j] = i  BY <3>2, <5>1
        <5>3. j \in 1 .. l + 1 /\ more[j] = i  BY <3>1, <3>3, <5>2
        <5> QED BY <5>3
      <4> QED BY <4>1, <4>2
    <3>7. LeftAt(q, what, m + 1, r, more)
      BY <3>1, <3>3, <3>4, <3>5, <3>6 DEF LeftAt
    <3>8. f[m + 1] = r  BY <2>3, <2>6 DEF r
    <3> QED BY <3>1, <3>7, <3>8
  <2> QED BY <2>5, <2>6
<1>4. Nat \subseteq T
  <2> HIDE DEF T
  <2> QED BY <1>2, <1>3, NatInd
<1> QED BY <1>0, <1>4

LEMMA WithoutKeeps ==
    ASSUME NEW S, NEW q \in Seq(S), NEW what
    PROVE  /\ Without(q, what) \in Seq(S)
           /\ \E at : LeftAt(q, what, Len(q), Without(q, what), at)
<1>1. Len(q) \in Nat /\ Len(q) \in 0 .. Len(q)  OBVIOUS
<1>2. PICK f : Turns(q, what, Len(q), f) /\ Without(q, what) = f[Len(q)]  BY <1>1, WithoutIs
<1> QED BY <1>1, <1>2, TurnsKeep

-------------------------------------------------------------------------------
(* What is queued, after each operation on the queue. *)

LEMMA HasNone == ASSUME NEW what PROVE ~Has(<<>>, what)
  BY DEF Has

LEMMA HasAppended ==
    ASSUME NEW q \in Seq(Messages), NEW msg \in Messages, NEW what
    PROVE  Has(Append(q, msg), what) <=> Has(q, what) \/ msg.what = what
<1>1. Len(q) \in Nat /\ DOMAIN q = 1 .. Len(q) /\ DOMAIN Append(q, msg) = 1 .. Len(q) + 1
  OBVIOUS
<1>2. Append(q, msg)[Len(q) + 1] = msg /\ \A i \in 1 .. Len(q) : Append(q, msg)[i] = q[i]
  OBVIOUS
<1> QED BY <1>1, <1>2 DEF Has

LEMMA HasFirst ==
    ASSUME NEW q \in Seq(Messages), q # <<>>, NEW what
    PROVE  Has(q, what) <=> Head(q).what = what \/ Has(Tail(q), what)
<1> DEFINE l == Len(q)
           r == Tail(q)
<1>1. l \in Nat /\ l # 0 /\ DOMAIN q = 1 .. l /\ DOMAIN r = 1 .. l - 1 /\ Head(q) = q[1]
  OBVIOUS
<1>2. \A i \in 1 .. l - 1 : r[i] = q[i + 1]
  OBVIOUS
<1> HIDE DEF l, r
<1>3. ASSUME Has(q, what) PROVE q[1].what = what \/ Has(r, what)
  <2>1. PICK i \in 1 .. l : q[i].what = what  BY <1>1, <1>3 DEF Has
  <2>2. CASE i = 1  BY <2>1, <2>2
  <2>3. CASE i # 1
    <3>1. i - 1 \in 1 .. l - 1 /\ r[i - 1] = q[(i - 1) + 1] /\ (i - 1) + 1 = i  BY <1>1, <1>2, <2>3
    <3> QED BY <1>1, <2>1, <3>1 DEF Has
  <2> QED BY <2>2, <2>3
<1>4. ASSUME q[1].what = what PROVE Has(q, what)
  BY <1>1, <1>4 DEF Has
<1>5. ASSUME Has(r, what) PROVE Has(q, what)
  <2>1. PICK i \in 1 .. l - 1 : r[i].what = what  BY <1>1, <1>5 DEF Has
  <2>2. i + 1 \in 1 .. l /\ r[i] = q[i + 1]  BY <1>1, <1>2
  <2> QED BY <1>1, <2>1, <2>2 DEF Has
<1> QED BY <1>1, <1>3, <1>4, <1>5 DEF r

LEMMA HasWithout ==
    ASSUME NEW q \in Seq(Messages), NEW gone, NEW what
    PROVE  Has(Without(q, gone), what) <=> Has(q, what) /\ what # gone
<1> DEFINE r == Without(q, gone)
<1>1. r \in Seq(Messages)  BY WithoutKeeps
<1>2. PICK at : LeftAt(q, gone, Len(q), r, at)  BY WithoutKeeps
<1>3. DOMAIN q = 1 .. Len(q) /\ DOMAIN r = 1 .. Len(r)  BY <1>1
<1> HIDE DEF r
<1>4. /\ at \in [1 .. Len(r) -> 1 .. Len(q)]
      /\ \A j \in 1 .. Len(r) : r[j] = q[at[j]] /\ q[at[j]].what # gone
      /\ \A i \in 1 .. Len(q) : q[i].what # gone => \E j \in 1 .. Len(r) : at[j] = i
  BY <1>2 DEF LeftAt
<1>5. ASSUME Has(r, what) PROVE Has(q, what) /\ what # gone
  BY <1>3, <1>4, <1>5 DEF Has
<1>6. ASSUME Has(q, what), what # gone PROVE Has(r, what)
  <2>1. PICK i \in 1 .. Len(q) : q[i].what = what  BY <1>3, <1>6 DEF Has
  <2>2. PICK j \in 1 .. Len(r) : at[j] = i  BY <1>4, <1>6, <2>1
  <2> QED BY <1>3, <1>4, <2>1, <2>2 DEF Has
<1> QED BY <1>5, <1>6 DEF r

LEMMA FirstNone == PreparedFirst(<<>>)
  BY DEF PreparedFirst

LEMMA FirstAppended ==
    ASSUME NEW q \in Seq(Messages), NEW msg \in Messages, PreparedFirst(q),
           msg.what = "PREPARED" => ~HasLate(q) /\ ~Has(q, "PREPARED")
    PROVE  PreparedFirst(Append(q, msg))
<1> DEFINE l == Len(q)
           r == Append(q, msg)
<1>1. l \in Nat /\ DOMAIN q = 1 .. l /\ DOMAIN r = 1 .. l + 1 /\ r[l + 1] = msg
  OBVIOUS
<1>2. \A i \in 1 .. l : r[i] = q[i]
  OBVIOUS
<1> HIDE DEF l, r
<1> SUFFICES ASSUME NEW i \in DOMAIN r, NEW j \in DOMAIN r, i < j, r[j].what = "PREPARED"
             PROVE  r[i].what \notin Late \cup {"PREPARED"}
  BY DEF PreparedFirst, r
<1>3. i \in 1 .. l /\ i \in DOMAIN q /\ r[i] = q[i]
  BY <1>1, <1>2
<1>4. CASE j = l + 1
  <2>1. ~HasLate(q) /\ ~Has(q, "PREPARED")  BY <1>1, <1>4
  <2> QED BY <1>3, <2>1 DEF HasLate, Has, Late
<1>5. CASE j # l + 1
  <2>1. j \in DOMAIN q /\ r[j] = q[j]  BY <1>1, <1>2, <1>5
  <2> QED BY <1>3, <2>1 DEF PreparedFirst
<1> QED BY <1>4, <1>5

LEMMA FirstTail ==
    ASSUME NEW q \in Seq(Messages), q # <<>>, PreparedFirst(q)
    PROVE  /\ PreparedFirst(Tail(q))
           /\ Head(q).what \in Late \cup {"PREPARED"} => ~Has(Tail(q), "PREPARED")
<1> DEFINE l == Len(q)
           r == Tail(q)
<1>1. l \in Nat /\ l # 0 /\ DOMAIN q = 1 .. l /\ DOMAIN r = 1 .. l - 1 /\ Head(q) = q[1]
  OBVIOUS
<1>2. \A i \in 1 .. l - 1 : r[i] = q[i + 1] /\ i + 1 \in 2 .. l
  OBVIOUS
<1> HIDE DEF l, r
<1>3. PreparedFirst(r)
  <2> SUFFICES ASSUME NEW i \in 1 .. l - 1, NEW j \in 1 .. l - 1, i < j, r[j].what = "PREPARED"
               PROVE  r[i].what \notin Late \cup {"PREPARED"}
    BY <1>1 DEF PreparedFirst
  <2>1. i + 1 \in DOMAIN q /\ j + 1 \in DOMAIN q /\ i + 1 < j + 1  BY <1>1
  <2>2. q[j + 1].what = "PREPARED" /\ r[i] = q[i + 1]  BY <1>2
  <2> QED BY <2>1, <2>2 DEF PreparedFirst
<1>4. ASSUME q[1].what \in Late \cup {"PREPARED"}, Has(r, "PREPARED") PROVE FALSE
  <2>1. PICK j \in 1 .. l - 1 : r[j].what = "PREPARED"  BY <1>1, <1>4 DEF Has
  <2>2. 1 \in DOMAIN q /\ j + 1 \in DOMAIN q /\ 1 < j + 1 /\ q[j + 1].what = "PREPARED"
    BY <1>1, <1>2, <2>1
  <2> QED BY <1>4, <2>2 DEF PreparedFirst
<1> QED BY <1>1, <1>3, <1>4 DEF r

LEMMA FirstWithout ==
    ASSUME NEW q \in Seq(Messages), NEW gone, PreparedFirst(q)
    PROVE  PreparedFirst(Without(q, gone))
<1> DEFINE r == Without(q, gone)
<1>1. r \in Seq(Messages)  BY WithoutKeeps
<1>2. PICK at : LeftAt(q, gone, Len(q), r, at)  BY WithoutKeeps
<1>3. DOMAIN q = 1 .. Len(q) /\ DOMAIN r = 1 .. Len(r)  BY <1>1
<1> HIDE DEF r
<1>4. /\ at \in [1 .. Len(r) -> 1 .. Len(q)]
      /\ \A j \in 1 .. Len(r) : r[j] = q[at[j]]
      /\ \A j, k \in 1 .. Len(r) : j < k => at[j] < at[k]
  BY <1>2 DEF LeftAt
<1> SUFFICES ASSUME NEW i \in 1 .. Len(r), NEW j \in 1 .. Len(r), i < j, r[j].what = "PREPARED"
             PROVE  r[i].what \notin Late \cup {"PREPARED"}
  BY <1>3 DEF PreparedFirst, r
<1>5. at[i] \in DOMAIN q /\ at[j] \in DOMAIN q /\ at[i] < at[j] /\ q[at[j]].what = "PREPARED"
      /\ r[i] = q[at[i]]
  BY <1>3, <1>4
<1> QED BY <1>5 DEF PreparedFirst

-------------------------------------------------------------------------------
(* What each operation on the switches does to the pause that was asked    *)
(* for and to auto_resume.                                                 *)

LEMMA StreamToggleIs ==
    ASSUME NEW s \in Switches, NEW on \in BOOLEAN
    PROVE  /\ StreamTogglePause(s, on) \in Switches
           /\ StreamTogglePause(s, on).pause_req = s.pause_req
           /\ StreamTogglePause(s, on).auto_resume = s.auto_resume
  BY DEF StreamTogglePause, Switches

LEMMA StreamUpdateIs ==
    ASSUME NEW s \in Switches
    PROVE  /\ StreamUpdatePause(s) \in Switches
           /\ StreamUpdatePause(s).pause_req = s.pause_req
           /\ StreamUpdatePause(s).auto_resume = s.auto_resume
<1>1. (~s.step /\ Held(s)) \in BOOLEAN  BY DEF Held, Switches
<1> QED BY <1>1, StreamToggleIs DEF StreamUpdatePause

LEMMA TogglePauseIs ==
    ASSUME NEW s \in Switches, NEW on \in BOOLEAN
    PROVE  /\ TogglePause(s, on) \in Switches
           /\ TogglePause(s, on).pause_req <=> on
           /\ TogglePause(s, on).auto_resume <=> ~on
<1> DEFINE asked1 == [s EXCEPT !.pause_req = on]
           asked2 == [asked1 EXCEPT !.auto_resume = ~on]
           u == StreamUpdatePause(asked2)
<1>1. asked1 \in Switches /\ asked1.pause_req = on  BY DEF Switches
<1>2. asked2 \in Switches /\ asked2.pause_req = on /\ asked2.auto_resume = ~on
  <2> HIDE DEF asked1
  <2> QED BY <1>1 DEF Switches
<1>3. [s EXCEPT !.pause_req = on, !.auto_resume = ~on] = asked2  BY DEF Switches
<1> HIDE DEF asked2, asked1
<1>4. u \in Switches /\ u.pause_req = on /\ u.auto_resume = ~on  BY <1>2, StreamUpdateIs
<1>5. TogglePause(s, on) = [u EXCEPT !.step = FALSE]  BY <1>3 DEF TogglePause
<1> HIDE DEF u
<1> QED BY <1>4, <1>5 DEF Switches

LEMMA StepToNextIs ==
    ASSUME NEW s \in Switches
    PROVE  /\ StepToNextFrame(s) \in Switches
           /\ StepToNextFrame(s).pause_req = s.pause_req
           /\ StepToNextFrame(s).auto_resume = s.auto_resume
<1> DEFINE t == [s EXCEPT !.step = TRUE]
<1>1. t \in Switches /\ t.pause_req = s.pause_req /\ t.auto_resume = s.auto_resume  BY DEF Switches
<1>2. StepToNextFrame(s) = IF s.paused THEN StreamTogglePause(t, FALSE) ELSE t
  BY DEF StepToNextFrame
<1> HIDE DEF t
<1> QED BY <1>1, <1>2, StreamToggleIs

LEMMA ToggleBufferingIs ==
    ASSUME NEW s \in Switches, NEW on \in BOOLEAN, NEW buffering
    PROVE  /\ ToggleBuffering(s, on, buffering) \in Switches
           /\ ToggleBuffering(s, on, buffering).pause_req = s.pause_req
           /\ ToggleBuffering(s, on, buffering).auto_resume = s.auto_resume
<1> DEFINE t == [s EXCEPT !.buffering_on = on]
<1>1. t \in Switches /\ t.pause_req = s.pause_req /\ t.auto_resume = s.auto_resume  BY DEF Switches
<1>2. ToggleBuffering(s, on, buffering) = IF buffering /\ s.buffering_on # on
                                          THEN StreamUpdatePause(t) ELSE s
  BY DEF ToggleBuffering
<1> HIDE DEF t
<1> QED BY <1>1, <1>2, StreamUpdateIs

LEMMA FrameShownIs ==
    ASSUME NEW s \in Switches
    PROVE  /\ FrameShown(s) \in Switches
           /\ FrameShown(s).pause_req = s.pause_req
           /\ FrameShown(s).auto_resume = s.auto_resume
<1> DEFINE t == [s EXCEPT !.step = FALSE]
<1>1. t \in Switches /\ t.pause_req = s.pause_req /\ t.auto_resume = s.auto_resume  BY DEF Switches
<1>2. FrameShown(s) = IF s.step /\ ~s.paused THEN StreamUpdatePause(t) ELSE t
  BY DEF FrameShown
<1> HIDE DEF t
<1> QED BY <1>1, <1>2, StreamUpdateIs

LEMMA ResumeOrStepIs ==
    ASSUME NEW s \in Switches, NEW buffering \in BOOLEAN
    PROVE  /\ ResumeOrStep(s, buffering) \in Switches
           /\ s.auto_resume => /\ ~ResumeOrStep(s, buffering).pause_req
                               /\ ~ResumeOrStep(s, buffering).auto_resume
           /\ ~s.auto_resume => /\ ResumeOrStep(s, buffering).pause_req = s.pause_req
                                /\ ~ResumeOrStep(s, buffering).auto_resume
<1> DEFINE t1 == [s EXCEPT !.pause_req = FALSE]
           t2 == [t1 EXCEPT !.auto_resume = FALSE]
           t3 == [t2 EXCEPT !.buffering_on = @ \/ buffering]
           u == IF s.auto_resume THEN StreamUpdatePause(t3) ELSE s
<1>1. t1 \in Switches /\ ~t1.pause_req  BY DEF Switches
<1>2. t2 \in Switches /\ ~t2.pause_req /\ ~t2.auto_resume
  <2> HIDE DEF t1
  <2> QED BY <1>1 DEF Switches
<1>3. t3 \in Switches /\ ~t3.pause_req /\ ~t3.auto_resume
  <2>1. (t2.buffering_on \/ buffering) \in BOOLEAN  BY <1>2 DEF Switches
  <2> HIDE DEF t2
  <2> QED BY <1>2, <2>1 DEF Switches
<1>4. [s EXCEPT !.pause_req = FALSE, !.auto_resume = FALSE, !.buffering_on = @ \/ buffering] = t3
  BY DEF Switches
<1> HIDE DEF t3, t2, t1
<1>5. /\ u \in Switches
      /\ s.auto_resume => ~u.pause_req /\ ~u.auto_resume
      /\ ~s.auto_resume => u = s
  BY <1>3, StreamUpdateIs
<1>6. ResumeOrStep(s, buffering) = IF u.pause_req THEN StepToNextFrame(u) ELSE u
  BY <1>4 DEF ResumeOrStep
<1> HIDE DEF u
<1> QED BY <1>5, <1>6, StepToNextIs

LEMMA OpenedIs ==
    ASSUME NEW s \in Switches
    PROVE  /\ [s EXCEPT !.aout_paused = FALSE] \in Switches
           /\ [s EXCEPT !.aout_paused = FALSE].pause_req = s.pause_req
           /\ [s EXCEPT !.aout_paused = FALSE].auto_resume = s.auto_resume
  BY DEF Switches

LEMMA ArmedIs ==
    ASSUME NEW s \in Switches, NEW on \in BOOLEAN
    PROVE  /\ [s EXCEPT !.auto_resume = on] \in Switches
           /\ [s EXCEPT !.auto_resume = on].pause_req = s.pause_req
           /\ [s EXCEPT !.auto_resume = on].auto_resume = on
  BY DEF Switches

-------------------------------------------------------------------------------
LEMMA PutIs ==
    ASSUME TypeOK, NEW msg \in Messages
    PROVE  /\ Put(msg) \in Seq(Messages)
           /\ PreparedFirst(queue) /\ (msg.what = "PREPARED" /\ ~queue_abort =>
                                          ~HasLate(queue) /\ ~Has(queue, "PREPARED"))
              => PreparedFirst(Put(msg))
           /\ \A what : Has(Put(msg), what) <=> Has(queue, what) \/ (~queue_abort /\ msg.what = what)
<1>1. queue \in Seq(Messages)  BY DEF TypeOK
<1>2. CASE queue_abort  BY <1>1, <1>2 DEF Put
<1>3. CASE ~queue_abort
  <2>1. Put(msg) = Append(queue, msg)  BY <1>3 DEF Put
  <2> QED BY <1>1, <1>3, <2>1, HasAppended, FirstAppended
<1> QED BY <1>2, <1>3

LEMMA MessageIs ==
    ASSUME NEW what \in Late \cup {"FLUSH", "PREPARED", "ERROR"}, NEW arg \in Positions
    PROVE  Msg(what, arg) \in Messages /\ Msg(what, arg).what = what /\ Msg(what, arg).arg = arg
  BY DEF Msg, Messages, Requests, Late

LEMMA Posted ==
    ASSUME TypeOK, NEW what \in Late \cup {"FLUSH", "PREPARED", "ERROR"}, NEW arg \in Positions
    PROVE  /\ Put(Msg(what, arg)) \in Seq(Messages)
           /\ PreparedFirst(queue) /\ (what = "PREPARED" /\ ~queue_abort =>
                                          ~HasLate(queue) /\ ~Has(queue, "PREPARED"))
              => PreparedFirst(Put(Msg(what, arg)))
           /\ \A w : Has(Put(Msg(what, arg)), w) <=> Has(queue, w) \/ (~queue_abort /\ w = what)
<1> DEFINE msg == Msg(what, arg)
<1>1. msg \in Messages /\ msg.what = what  BY MessageIs
<1> HIDE DEF msg
<1>2. /\ Put(msg) \in Seq(Messages)
      /\ PreparedFirst(queue) /\ (msg.what = "PREPARED" /\ ~queue_abort =>
                                     ~HasLate(queue) /\ ~Has(queue, "PREPARED"))
              => PreparedFirst(Put(msg))
      /\ \A w : Has(Put(msg), w) <=> Has(queue, w) \/ (~queue_abort /\ msg.what = w)
  BY <1>1, PutIs
<1> QED BY <1>1, <1>2 DEF msg

-------------------------------------------------------------------------------
(* What a step does to the switches and to the queue. *)
SwitchesKept == (play'.pause_req <=> play.pause_req) /\ (play'.auto_resume <=> play.auto_resume)
PauseIsAsked == play'.pause_req /\ ~play'.auto_resume

Sends(what) ==
    /\ \A w : Has(queue', w) <=> Has(queue, w) \/ (~queue_abort /\ w = what)
    /\ PreparedFirst(queue) /\ (what = "PREPARED" /\ ~queue_abort =>
                                   ~HasLate(queue) /\ ~Has(queue, "PREPARED"))
       => PreparedFirst(queue')

LEMMA Sent ==
    ASSUME TypeOK, NEW what \in Late \cup {"FLUSH", "PREPARED", "ERROR"}, NEW arg \in Positions,
           queue' = Put(Msg(what, arg))
    PROVE  Sends(what) /\ queue' \in Seq(Messages)
  BY Posted DEF Sends

-------------------------------------------------------------------------------
(* The steps of read_thread and of the threads behind it. *)

LEMMA KeepsOpenFailed ==
    ASSUME TypeOK, NEW b \in Bodies, NEW k \in 1 .. 6, AllInv(b, k), ReadOpenFailed
    PROVE  AllInv(b, k)'
<1> QED
  BY DEF ReadOpenFailed, ReadStep, ReadGoes, ReadLocals, lockVars, mpVars, loopVars, streamVars,
         readVars, AllInv, CallInv, OwnerInv, BirthInv, OrderInv, RestartInv, PausedInv, StickInv,
         StartedInv, Unless, Resuming, Taken, Waits, Ready, OnHold, HasLate, SeekingInv, EarlyInv,
         SeekInv, Early

LEMMA KeepsPrepared ==
    ASSUME TypeOK, NEW b \in Bodies, NEW k \in 1 .. 6, AllInv(b, k), ReadPrepared
    PROVE  AllInv(b, k)'
<1>1. /\ ReadStep("open", IF StartOnPrepared THEN "resume" ELSE "wait_start")
      /\ prepared' /\ UNCHANGED <<is_seek_req, is_seek_pos, completed>>
  BY DEF ReadPrepared
<1>2. queue' = Put(Msg("PREPARED", 0)) /\ 0 \in Positions
  BY PlayerAssumption DEF ReadPrepared, Notify
<1>3. Sends("PREPARED")
  BY <1>2, Sent
<1>4. [play EXCEPT !.aout_paused = FALSE] \in Switches
  BY OpenedIs DEF TypeOK
<1>5. /\ StartOnPrepared => SwitchesKept
      /\ ~StartOnPrepared => PauseIsAsked
  BY <1>4, OpenedIs, TogglePauseIs DEF ReadPrepared, TypeOK, SwitchesKept, PauseIsAsked
<1> QED
  BY <1>1, <1>2, <1>3, <1>4, <1>5
  DEF ReadStep, ReadGoes, ReadLocals, lockVars, mpVars, loopVars, streamVars, readVars,
      SwitchesKept, PauseIsAsked, Sends, AllInv, CallInv, OwnerInv, BirthInv, OrderInv, RestartInv,
      PausedInv, StickInv, StartedInv, Unless, Resuming, Taken, Waits, Ready, OnHold, HasLate,
      SeekingInv, EarlyInv, SeekInv, Early

LEMMA KeepsWaitStart ==
    ASSUME TypeOK, NEW b \in Bodies, NEW k \in 1 .. 6, AllInv(b, k), ReadWaitStart
    PROVE  AllInv(b, k)'
<1> QED
  BY DEF ReadWaitStart, ReadStep, ReadGoes, ReadLocals, lockVars, mpVars, loopVars, streamVars,
         readVars, AllInv, CallInv, OwnerInv, BirthInv, OrderInv, RestartInv, PausedInv, StickInv,
         StartedInv, Unless, Resuming, Taken, Waits, Ready, OnHold, HasLate, SeekingInv, EarlyInv,
         SeekInv, Early

LEMMA KeepsResume ==
    ASSUME TypeOK, NEW b \in Bodies, NEW k \in 1 .. 6, AllInv(b, k), ReadResume
    PROVE  AllInv(b, k)'
<1>1. /\ ReadStep("resume", IF play.auto_resume THEN "resumed" ELSE "loop")
      /\ UNCHANGED <<play, ReadLocals>>
  BY DEF ReadResume
<1>2. /\ play.auto_resume => queue' = Put(Msg("REQ_START", 0))
      /\ ~play.auto_resume => queue' = queue
      /\ 0 \in Positions
  BY PlayerAssumption DEF ReadResume
<1>3. play.auto_resume => Sends("REQ_START")
  BY <1>2, Sent DEF Late
<1> QED
  BY <1>1, <1>2, <1>3
  DEF ReadStep, ReadGoes, ReadLocals, lockVars, mpVars, loopVars, streamVars, readVars, Sends,
      AllInv, CallInv, OwnerInv, BirthInv, OrderInv, RestartInv, PausedInv, StickInv, StartedInv,
      Unless, Resuming, Taken, Waits, Ready, OnHold, HasLate, SeekingInv, EarlyInv, SeekInv, Early

LEMMA KeepsResumed ==
    ASSUME TypeOK, NEW b \in Bodies, NEW k \in 1 .. 6, AllInv(b, k), ReadResumed
    PROVE  AllInv(b, k)'
<1>1. ReadStep("resumed", "loop") /\ UNCHANGED <<queue, ReadLocals>>
  BY DEF ReadResumed
<1>2. (play'.pause_req <=> play.pause_req) /\ ~play'.auto_resume
  BY ArmedIs DEF ReadResumed, TypeOK
<1> QED
  BY <1>1, <1>2
  DEF ReadStep, ReadGoes, ReadLocals, lockVars, mpVars, loopVars, streamVars, readVars, AllInv,
      CallInv, OwnerInv, BirthInv, OrderInv, RestartInv, PausedInv, StickInv, StartedInv, Unless,
      Resuming, Taken, Waits, Ready, OnHold, HasLate, SeekingInv, EarlyInv, SeekInv, Early

LEMMA KeepsAbort ==
    ASSUME TypeOK, NEW b \in Bodies, NEW k \in 1 .. 6, AllInv(b, k), ReadAbort
    PROVE  AllInv(b, k)'
<1> QED
  BY DEF ReadAbort, ReadStep, ReadGoes, ReadLocals, lockVars, mpVars, loopVars, streamVars,
         readVars, AllInv, CallInv, OwnerInv, BirthInv, OrderInv, RestartInv, PausedInv, StickInv,
         StartedInv, Unless, Resuming, Taken, Waits, Ready, OnHold, HasLate, SeekingInv, EarlyInv,
         SeekInv, Early

LEMMA KeepsNoSeek ==
    ASSUME TypeOK, NEW b \in Bodies, NEW k \in 1 .. 6, AllInv(b, k), ReadNoSeek
    PROVE  AllInv(b, k)'
<1> QED
  BY DEF ReadNoSeek, ReadStep, ReadGoes, ReadLocals, lockVars, mpVars, loopVars, streamVars,
         readVars, AllInv, CallInv, OwnerInv, BirthInv, OrderInv, RestartInv, PausedInv, StickInv,
         StartedInv, Unless, Resuming, Taken, Waits, Ready, OnHold, HasLate, SeekingInv, EarlyInv,
         SeekInv, Early

LEMMA KeepsSeekBegin ==
    ASSUME TypeOK, NEW b \in Bodies, NEW k \in 1 .. 6, AllInv(b, k), ReadSeekBegin
    PROVE  AllInv(b, k)'
<1>1. /\ ReadStep("loop", "seeking")
      /\ UNCHANGED <<queue, is_seek_req, is_seek_pos, completed, prepared>>
  BY DEF ReadSeekBegin
<1>2. SwitchesKept
  BY ToggleBufferingIs DEF ReadSeekBegin, SwitchesKept, TypeOK
<1> QED
  BY <1>1, <1>2
  DEF ReadStep, ReadGoes, ReadLocals, lockVars, mpVars, loopVars, streamVars, readVars,
      SwitchesKept, AllInv, CallInv, OwnerInv, BirthInv, OrderInv, RestartInv, PausedInv, StickInv,
      StartedInv, Unless, Resuming, Taken, Waits, Ready, OnHold, HasLate, SeekingInv, EarlyInv,
      SeekInv, Early

LEMMA KeepsSeekDone ==
    ASSUME TypeOK, NEW b \in Bodies, NEW k \in 1 .. 6, AllInv(b, k), ReadSeekDone
    PROVE  AllInv(b, k)'
<1> QED
  BY DEF ReadSeekDone, ReadStep, ReadGoes, ReadLocals, lockVars, mpVars, loopVars, streamVars,
         readVars, AllInv, CallInv, OwnerInv, BirthInv, OrderInv, RestartInv, PausedInv, StickInv,
         StartedInv, Unless, Resuming, Taken, Waits, Ready, OnHold, HasLate, SeekingInv, EarlyInv,
         SeekInv, Early

LEMMA KeepsSeekResume ==
    ASSUME TypeOK, NEW b \in Bodies, NEW k \in 1 .. 6, AllInv(b, k), ReadSeekResume
    PROVE  AllInv(b, k)'
<1>1. ReadStep("seek_resume", "seek_notify") /\ UNCHANGED <<queue, ReadLocals>>
  BY DEF ReadSeekResume
<1>2. /\ play.auto_resume => ~play'.pause_req
      /\ ~play.auto_resume => (play'.pause_req <=> play.pause_req)
      /\ ~play'.auto_resume
  BY ResumeOrStepIs, PlayerAssumption DEF ReadSeekResume, TypeOK
<1> QED
  BY <1>1, <1>2
  DEF ReadStep, ReadGoes, ReadLocals, lockVars, mpVars, loopVars, streamVars, readVars, AllInv,
      CallInv, OwnerInv, BirthInv, OrderInv, RestartInv, PausedInv, StickInv, StartedInv, Unless,
      Resuming, Taken, Waits, Ready, OnHold, HasLate, SeekingInv, EarlyInv, SeekInv, Early

LEMMA KeepsSeekNotify ==
    ASSUME TypeOK, NEW b \in Bodies, NEW k \in 1 .. 6, AllInv(b, k), ReadSeekNotify
    PROVE  AllInv(b, k)'
<1>1. ReadStep("seek_notify", "seek_buffer") /\ UNCHANGED <<play, ReadLocals>>
  BY DEF ReadSeekNotify
<1>2. queue' = Put(Msg("SEEK_COMPLETE", read_target)) /\ read_target \in Positions
  BY DEF ReadSeekNotify, Notify, TypeOK
<1>3. Sends("SEEK_COMPLETE")
  BY <1>2, Sent DEF Late
<1> QED
  BY <1>1, <1>2, <1>3
  DEF ReadStep, ReadGoes, ReadLocals, lockVars, mpVars, loopVars, streamVars, readVars, Sends,
      AllInv, CallInv, OwnerInv, BirthInv, OrderInv, RestartInv, PausedInv, StickInv, StartedInv,
      Unless, Resuming, Taken, Waits, Ready, OnHold, HasLate, SeekingInv, EarlyInv, SeekInv, Early

LEMMA KeepsSeekBuffer ==
    ASSUME TypeOK, NEW b \in Bodies, NEW k \in 1 .. 6, AllInv(b, k), ReadSeekBuffer
    PROVE  AllInv(b, k)'
<1>1. ReadStep("seek_buffer", "body") /\ UNCHANGED <<queue, ReadLocals>>
  BY DEF ReadSeekBuffer
<1>2. SwitchesKept
  BY ToggleBufferingIs DEF ReadSeekBuffer, SwitchesKept, TypeOK
<1> QED
  BY <1>1, <1>2
  DEF ReadStep, ReadGoes, ReadLocals, lockVars, mpVars, loopVars, streamVars, readVars,
      SwitchesKept, AllInv, CallInv, OwnerInv, BirthInv, OrderInv, RestartInv, PausedInv, StickInv,
      StartedInv, Unless, Resuming, Taken, Waits, Ready, OnHold, HasLate, SeekingInv, EarlyInv,
      SeekInv, Early

LEMMA KeepsPacket ==
    ASSUME TypeOK, NEW b \in Bodies, NEW k \in 1 .. 6, AllInv(b, k), ReadPacket
    PROVE  AllInv(b, k)'
<1>1. /\ ReadStep("body", "loop")
      /\ UNCHANGED <<queue, is_seek_req, is_seek_pos, completed, prepared>>
  BY DEF ReadPacket
<1>2. play' = ToggleBuffering(play, FALSE, PacketBuffering) \/ play' = play
  BY DEF ReadPacket
<1>3. ASSUME play' = ToggleBuffering(play, FALSE, PacketBuffering) PROVE SwitchesKept
  BY <1>3, ToggleBufferingIs DEF SwitchesKept, TypeOK
<1>4. ASSUME play' = play PROVE SwitchesKept
  BY <1>4 DEF SwitchesKept
<1>5. SwitchesKept
  BY <1>2, <1>3, <1>4
<1> QED
  BY <1>1, <1>2, <1>3, <1>4, <1>5
  DEF ReadStep, ReadGoes, ReadLocals, lockVars, mpVars, loopVars, streamVars, readVars,
      SwitchesKept, AllInv, CallInv, OwnerInv, BirthInv, OrderInv, RestartInv, PausedInv, StickInv,
      StartedInv, Unless, Resuming, Taken, Waits, Ready, OnHold, HasLate, SeekingInv, EarlyInv,
      SeekInv, Early

LEMMA KeepsEof ==
    ASSUME TypeOK, NEW b \in Bodies, NEW k \in 1 .. 6, AllInv(b, k), ReadEof
    PROVE  AllInv(b, k)'
<1>1. /\ ReadStep("body", "loop")
      /\ UNCHANGED <<queue, is_seek_req, is_seek_pos, completed, prepared>>
  BY DEF ReadEof
<1>2. SwitchesKept
  BY ToggleBufferingIs DEF ReadEof, SwitchesKept, TypeOK
<1> QED
  BY <1>1, <1>2
  DEF ReadStep, ReadGoes, ReadLocals, lockVars, mpVars, loopVars, streamVars, readVars,
      SwitchesKept, AllInv, CallInv, OwnerInv, BirthInv, OrderInv, RestartInv, PausedInv, StickInv,
      StartedInv, Unless, Resuming, Taken, Waits, Ready, OnHold, HasLate, SeekingInv, EarlyInv,
      SeekInv, Early

LEMMA KeepsLoopSeek ==
    ASSUME TypeOK, NEW b \in Bodies, NEW k \in 1 .. 6, AllInv(b, k), ReadLoopSeek
    PROVE  AllInv(b, k)'
<1> QED
  BY DEF ReadLoopSeek, ReadStep, ReadGoes, ReadLocals, lockVars, mpVars, loopVars, streamVars,
         readVars, RequestSeek, AllInv, CallInv, OwnerInv, BirthInv, OrderInv, RestartInv,
         PausedInv, StickInv, StartedInv, Unless, Resuming, Taken, Waits, Ready, OnHold, HasLate,
         SeekingInv, EarlyInv, SeekInv, Early

LEMMA KeepsEnded ==
    ASSUME TypeOK, NEW b \in Bodies, NEW k \in 1 .. 6, AllInv(b, k), ReadEnded
    PROVE  AllInv(b, k)'
<1>1. /\ ReadStep("body", IF completed THEN "ended" ELSE "ending")
      /\ UNCHANGED <<queue, is_seek_req, is_seek_pos, prepared>>
      /\ completed => play' = play
  BY DEF ReadEnded
<1>2. ~completed => (play'.pause_req <=> play.pause_req) /\ ~play'.auto_resume
  BY ArmedIs DEF ReadEnded, TypeOK
<1> QED
  BY <1>1, <1>2
  DEF ReadStep, ReadGoes, ReadLocals, lockVars, mpVars, loopVars, streamVars, readVars, AllInv,
      CallInv, OwnerInv, BirthInv, OrderInv, RestartInv, PausedInv, StickInv, StartedInv, Unless,
      Resuming, Taken, Waits, Ready, OnHold, HasLate, SeekingInv, EarlyInv, SeekInv, Early

LEMMA KeepsEndBuffering ==
    ASSUME TypeOK, NEW b \in Bodies, NEW k \in 1 .. 6, AllInv(b, k), ReadEndBuffering
    PROVE  AllInv(b, k)'
<1>1. ReadStep("ending", "end_pause") /\ UNCHANGED <<queue, ReadLocals>>
  BY DEF ReadEndBuffering
<1>2. SwitchesKept
  BY ToggleBufferingIs DEF ReadEndBuffering, SwitchesKept, TypeOK
<1> QED
  BY <1>1, <1>2
  DEF ReadStep, ReadGoes, ReadLocals, lockVars, mpVars, loopVars, streamVars, readVars,
      SwitchesKept, AllInv, CallInv, OwnerInv, BirthInv, OrderInv, RestartInv, PausedInv, StickInv,
      StartedInv, Unless, Resuming, Taken, Waits, Ready, OnHold, HasLate, SeekingInv, EarlyInv,
      SeekInv, Early

LEMMA KeepsEndPause ==
    ASSUME TypeOK, NEW b \in Bodies, NEW k \in 1 .. 6, AllInv(b, k), ReadEndPause
    PROVE  AllInv(b, k)'
<1>1. ReadStep("end_pause", "end_notify") /\ UNCHANGED <<queue, ReadLocals>>
  BY DEF ReadEndPause
<1>2. PauseIsAsked
  BY TogglePauseIs DEF ReadEndPause, PauseIsAsked, TypeOK
<1> QED
  BY <1>1, <1>2
  DEF ReadStep, ReadGoes, ReadLocals, lockVars, mpVars, loopVars, streamVars, readVars,
      PauseIsAsked, AllInv, CallInv, OwnerInv, BirthInv, OrderInv, RestartInv, PausedInv, StickInv,
      StartedInv, Unless, Resuming, Taken, Waits, Ready, OnHold, HasLate, SeekingInv, EarlyInv,
      SeekInv, Early

LEMMA KeepsEndNotify ==
    ASSUME TypeOK, NEW b \in Bodies, NEW k \in 1 .. 6, AllInv(b, k), ReadEndNotify
    PROVE  AllInv(b, k)'
<1>1. ReadGoes("end_notify", "loop") /\ UNCHANGED <<play, ReadLocals>>
  BY DEF ReadEndNotify
<1>2. \/ queue' = Put(Msg("COMPLETED", 0)) /\ asked' = asked
      \/ queue' = Put(Msg("ERROR", 0)) /\ asked' = "failed"
  BY DEF ReadEndNotify, Notify
<1>3. \/ Sends("COMPLETED") /\ asked' = asked
      \/ Sends("ERROR") /\ asked' = "failed"
  BY <1>2, Sent, PlayerAssumption DEF Late
<1> QED
  BY <1>1, <1>2, <1>3
  DEF ReadStep, ReadGoes, ReadLocals, lockVars, mpVars, loopVars, streamVars, readVars, Sends,
      AllInv, CallInv, OwnerInv, BirthInv, OrderInv, RestartInv, PausedInv, StickInv, StartedInv,
      Unless, Resuming, Taken, Waits, Ready, OnHold, HasLate, SeekingInv, EarlyInv, SeekInv, Early

LEMMA KeepsEndedWait ==
    ASSUME TypeOK, NEW b \in Bodies, NEW k \in 1 .. 6, AllInv(b, k), ReadEndedWait
    PROVE  AllInv(b, k)'
<1> QED
  BY DEF ReadEndedWait, ReadStep, ReadGoes, ReadLocals, lockVars, mpVars, loopVars, streamVars,
         readVars, AllInv, CallInv, OwnerInv, BirthInv, OrderInv, RestartInv, PausedInv, StickInv,
         StartedInv, Unless, Resuming, Taken, Waits, Ready, OnHold, HasLate, SeekingInv, EarlyInv,
         SeekInv, Early

LEMMA KeepsExit ==
    ASSUME TypeOK, NEW b \in Bodies, NEW k \in 1 .. 6, AllInv(b, k), ReadExit
    PROVE  AllInv(b, k)'
<1>1. ReadStep("fail", "exited") /\ UNCHANGED <<play, ReadLocals>>
  BY DEF ReadExit
<1>2. queue' = queue \/ queue' = Put(Msg("ERROR", 0))
  BY DEF ReadExit
<1>3. queue' = queue \/ Sends("ERROR")
  BY <1>2, Sent, PlayerAssumption
<1> QED
  BY <1>1, <1>2, <1>3
  DEF ReadStep, ReadGoes, ReadLocals, lockVars, mpVars, loopVars, streamVars, readVars, Sends,
      AllInv, CallInv, OwnerInv, BirthInv, OrderInv, RestartInv, PausedInv, StickInv, StartedInv,
      Unless, Resuming, Taken, Waits, Ready, OnHold, HasLate, SeekingInv, EarlyInv, SeekInv, Early

LEMMA KeepsStarves ==
    ASSUME TypeOK, NEW b \in Bodies, NEW k \in 1 .. 6, AllInv(b, k), DecoderStarves
    PROVE  AllInv(b, k)'
<1>1. UNCHANGED <<mpVars, lockVars, queueVars, loopVars, streamVars, readVars, history>>
  BY DEF DecoderStarves
<1>2. SwitchesKept
  BY ToggleBufferingIs DEF DecoderStarves, SwitchesKept, TypeOK
<1> QED
  BY <1>1, <1>2
  DEF queueVars, history, lockVars, mpVars, loopVars, streamVars, readVars, SwitchesKept, AllInv,
      CallInv, OwnerInv, BirthInv, OrderInv, RestartInv, PausedInv, StickInv, StartedInv, Unless,
      Resuming, Taken, Waits, Ready, OnHold, HasLate, SeekingInv, EarlyInv, SeekInv, Early

LEMMA KeepsPlayOut ==
    ASSUME TypeOK, NEW b \in Bodies, NEW k \in 1 .. 6, AllInv(b, k), PlayOut
    PROVE  AllInv(b, k)'
<1> QED
  BY DEF PlayOut, queueVars, history, lockVars, mpVars, loopVars, streamVars, readVars, AllInv,
         CallInv, OwnerInv, BirthInv, OrderInv, RestartInv, PausedInv, StickInv, StartedInv, Unless,
         Resuming, Taken, Waits, Ready, OnHold, HasLate, SeekingInv, EarlyInv, SeekInv, Early

LEMMA KeepsFrameShown ==
    ASSUME TypeOK, NEW b \in Bodies, NEW k \in 1 .. 6, AllInv(b, k), RefreshFrameShown
    PROVE  AllInv(b, k)'
<1>1. UNCHANGED <<mpVars, lockVars, queueVars, loopVars, streamVars, readVars, history>>
  BY DEF RefreshFrameShown
<1>2. SwitchesKept
  BY FrameShownIs DEF RefreshFrameShown, SwitchesKept, TypeOK
<1> QED
  BY <1>1, <1>2
  DEF queueVars, history, lockVars, mpVars, loopVars, streamVars, readVars, SwitchesKept, AllInv,
      CallInv, OwnerInv, BirthInv, OrderInv, RestartInv, PausedInv, StickInv, StartedInv, Unless,
      Resuming, Taken, Waits, Ready, OnHold, HasLate, SeekingInv, EarlyInv, SeekInv, Early

-------------------------------------------------------------------------------
(* The instructions: what each does to the state. *)

LEMMA ActionIs ==
    ASSUME LockedNext, todo # <<>>
    PROVE  /\ todo' = Tail(todo)
           /\ Head(todo).op = "state" => ChangeState
           /\ Head(todo).op = "remove" => MsgQueueRemove
           /\ Head(todo).op = "put" => MsgQueuePut
           /\ Head(todo).op \in {"restart", "from_beginning"} => SetRestart
           /\ Head(todo).op = "mp_seek" => SetSeek
           /\ Head(todo).op = "queue_start" => MsgQueueStart
           /\ Head(todo).op = "spawn" => SpawnMsgLoop
           /\ Head(todo).op = "stream_open" => StreamOpen
           /\ Head(todo).op = "abort_stream" => AbortStream
           /\ Head(todo).op = "queue_abort" => MsgQueueAbort
           /\ Head(todo).op \in {"pause", "auto_resume", "buffering"} => PressSwitch
           /\ Head(todo).op = "stream_seek" => StreamSeek
  BY DEF LockedNext, ChangeState, SetRestart, SetSeek, MsgQueueRemove, MsgQueuePut, MsgQueueStart,
         MsgQueueAbort, SpawnMsgLoop, StreamOpen, AbortStream, PressSwitch, StreamSeek, Unlock,
         Next1, Takes

Becomes(s) ==
    /\ mp_state' = s
    /\ UNCHANGED <<restart, restart_from_beginning, mp_seek_req, mp_seek_msec, queueVars,
                 loopVars, streamVars, play, readVars, mutex, history>>

Removes(w) ==
    /\ \A x : Has(queue', x) <=> Has(queue, x) /\ (queue_abort \/ x # w)
    /\ PreparedFirst(queue) => PreparedFirst(queue')
    /\ UNCHANGED <<mpVars, queue_abort, loopVars, streamVars, play, readVars, mutex,
                 history>>

Puts(w) ==
    /\ Sends(w)
    /\ UNCHANGED <<mpVars, queue_abort, loopVars, streamVars, play, readVars, mutex,
                 history>>

Restarts(on) ==
    /\ restart' <=> on
    /\ UNCHANGED <<mp_state, restart_from_beginning, mp_seek_req, mp_seek_msec, queueVars,
                 loopVars, streamVars, play, readVars, mutex, history>>

FromBeginning(on) ==
    /\ restart_from_beginning' <=> on
    /\ UNCHANGED <<mp_state, restart, mp_seek_req, mp_seek_msec, queueVars, loopVars,
                 streamVars, play, readVars, mutex, history>>

Seeks(on) ==
    /\ mp_seek_req' <=> on
    /\ UNCHANGED <<mp_state, restart, restart_from_beginning, queueVars, loopVars,
                 streamVars, play, readVars, mutex, history>>

StartsQueue ==
    /\ ~queue_abort'
    /\ \A x : x # "FLUSH" => (Has(queue', x) <=> Has(queue, x))
    /\ PreparedFirst(queue) => PreparedFirst(queue')
    /\ UNCHANGED <<mpVars, loopVars, streamVars, play, readVars, mutex, history>>

AbortsQueue ==
    /\ queue_abort'
    /\ UNCHANGED <<mpVars, queue, loopVars, streamVars, play, readVars, mutex, history>>

SpawnsLoop ==
    /\ loop_pc' = "get"
    /\ UNCHANGED <<mpVars, queueVars, loop_msg, streamVars, play, readVars, mutex, history>>

OpensStream ==
    /\ read_pc' = "open"
    /\ UNCHANGED <<mpVars, queueVars, loopVars, abort_request, is_seek_req, is_seek_pos,
                 play, read_target, completed, prepared, loop_count, eof, drained, mutex,
                 history>>

AbortsStream ==
    /\ TRUE
    /\ UNCHANGED <<mpVars, queueVars, loopVars, open, is_seek_req, is_seek_pos, play,
                 readVars, mutex, history>>

Pauses(on) ==
    /\ play'.pause_req <=> on
    /\ play'.auto_resume <=> ~on
    /\ UNCHANGED <<mpVars, queueVars, loopVars, streamVars, readVars, mutex, history>>

Arms ==
    /\ play'.pause_req <=> play.pause_req
    /\ play'.auto_resume
    /\ overtaken' <=> overtaken \/ read_pc = "resumed"
    /\ UNCHANGED <<mpVars, queueVars, loopVars, streamVars, readVars, mutex, calls, asked>>

Buffers ==
    /\ SwitchesKept
    /\ UNCHANGED <<mpVars, queueVars, loopVars, streamVars, readVars, mutex, history>>

SeeksStream ==
    /\ is_seek_req'
    /\ UNCHANGED <<mpVars, queueVars, loopVars, open, abort_request, play, readVars, mutex,
                 history>>

LEMMA BecomesIs ==
    ASSUME TypeOK, LockedNext, todo # <<>>, NEW s, Head(todo) = State(s)
    PROVE  Becomes(s)
<1>1. Head(todo).op = "state" /\ Head(todo).what = s /\ Head(todo).arg = 0
  BY DEF State, Remove, On1, Off1, I
<1>2. ChangeState  BY <1>1, ActionIs
<1> QED
  BY <1>1, <1>2
  DEF ChangeState, Next1, Takes, On, Becomes, mpVars, queueVars, loopVars, streamVars, readVars,
      history

LEMMA RemovesIs ==
    ASSUME TypeOK, LockedNext, todo # <<>>, NEW w, Head(todo) = Remove(w)
    PROVE  Removes(w)
<1>1. Head(todo).op = "remove" /\ Head(todo).what = w /\ Head(todo).arg = 0
  BY DEF State, Remove, On1, Off1, I
<1>2. MsgQueueRemove  BY <1>1, ActionIs
<1>3. queue' = IF queue_abort THEN queue ELSE Without(queue, w)
  BY <1>1, <1>2 DEF MsgQueueRemove
<1>4. /\ \A x : Has(queue', x) <=> Has(queue, x) /\ (queue_abort \/ x # w)
      /\ PreparedFirst(queue) => PreparedFirst(queue')
  BY <1>3, HasWithout, FirstWithout DEF TypeOK
<1> QED
  BY <1>1, <1>2, <1>3, <1>4
  DEF MsgQueueRemove, Next1, Takes, On, Removes, mpVars, queueVars, loopVars, streamVars, readVars,
      history

LEMMA PutsIs ==
    ASSUME TypeOK, LockedNext, todo # <<>>, NEW w \in Late, NEW n \in Positions, Head(todo) = I("put", w, n)
    PROVE  Puts(w)
<1>1. Head(todo).op = "put" /\ Head(todo).what = w /\ Head(todo).arg = n
  BY DEF State, Remove, On1, Off1, I
<1>2. MsgQueuePut  BY <1>1, ActionIs
<1>3. queue' = Put(Msg(w, n))
  BY <1>1, <1>2 DEF MsgQueuePut
<1>4. Sends(w)
  BY <1>3, Sent
<1> QED
  BY <1>1, <1>2, <1>3, <1>4
  DEF MsgQueuePut, Next1, Takes, On, Puts, mpVars, queueVars, loopVars, streamVars, readVars,
      history

LEMMA RestartsOn ==
    ASSUME TypeOK, LockedNext, todo # <<>>, Head(todo) = On1("restart")
    PROVE  Restarts(TRUE)
<1>1. Head(todo).op = "restart" /\ Head(todo).what = "ON" /\ Head(todo).arg = 0
  BY DEF State, Remove, On1, Off1, I
<1>2. SetRestart  BY <1>1, ActionIs
<1> QED
  BY <1>1, <1>2
  DEF SetRestart, Next1, Takes, On, Restarts, mpVars, queueVars, loopVars, streamVars, readVars,
      history

LEMMA FromBeginningOn ==
    ASSUME TypeOK, LockedNext, todo # <<>>, Head(todo) = On1("from_beginning")
    PROVE  FromBeginning(TRUE)
<1>1. Head(todo).op = "from_beginning" /\ Head(todo).what = "ON" /\ Head(todo).arg = 0
  BY DEF State, Remove, On1, Off1, I
<1>2. SetRestart  BY <1>1, ActionIs
<1> QED
  BY <1>1, <1>2
  DEF SetRestart, Next1, Takes, On, FromBeginning, mpVars, queueVars, loopVars, streamVars,
      readVars, history

LEMMA PausesOn ==
    ASSUME TypeOK, LockedNext, todo # <<>>, Head(todo) = On1("pause")
    PROVE  Pauses(TRUE)
<1>1. Head(todo).op = "pause" /\ Head(todo).what = "ON" /\ Head(todo).arg = 0
  BY DEF State, Remove, On1, Off1, I
<1>2. PressSwitch  BY <1>1, ActionIs
<1>3. play' = TogglePause(play, TRUE)
  BY <1>1, <1>2 DEF PressSwitch, Next1, Takes, On
<1>4. (play'.pause_req <=> TRUE) /\ (play'.auto_resume <=> ~TRUE)
  BY <1>3, TogglePauseIs DEF TypeOK
<1> QED
  BY <1>1, <1>2, <1>3, <1>4
  DEF PressSwitch, Next1, Takes, On, Pauses, mpVars, queueVars, loopVars, streamVars, readVars,
      history

LEMMA RestartsOff ==
    ASSUME TypeOK, LockedNext, todo # <<>>, Head(todo) = Off1("restart")
    PROVE  Restarts(FALSE)
<1>1. Head(todo).op = "restart" /\ Head(todo).what = "OFF" /\ Head(todo).arg = 0
  BY DEF State, Remove, On1, Off1, I
<1>2. SetRestart  BY <1>1, ActionIs
<1> QED
  BY <1>1, <1>2
  DEF SetRestart, Next1, Takes, On, Restarts, mpVars, queueVars, loopVars, streamVars, readVars,
      history

LEMMA FromBeginningOff ==
    ASSUME TypeOK, LockedNext, todo # <<>>, Head(todo) = Off1("from_beginning")
    PROVE  FromBeginning(FALSE)
<1>1. Head(todo).op = "from_beginning" /\ Head(todo).what = "OFF" /\ Head(todo).arg = 0
  BY DEF State, Remove, On1, Off1, I
<1>2. SetRestart  BY <1>1, ActionIs
<1> QED
  BY <1>1, <1>2
  DEF SetRestart, Next1, Takes, On, FromBeginning, mpVars, queueVars, loopVars, streamVars,
      readVars, history

LEMMA PausesOff ==
    ASSUME TypeOK, LockedNext, todo # <<>>, Head(todo) = Off1("pause")
    PROVE  Pauses(FALSE)
<1>1. Head(todo).op = "pause" /\ Head(todo).what = "OFF" /\ Head(todo).arg = 0
  BY DEF State, Remove, On1, Off1, I
<1>2. PressSwitch  BY <1>1, ActionIs
<1>3. play' = TogglePause(play, FALSE)
  BY <1>1, <1>2 DEF PressSwitch, Next1, Takes, On
<1>4. (play'.pause_req <=> FALSE) /\ (play'.auto_resume <=> ~FALSE)
  BY <1>3, TogglePauseIs DEF TypeOK
<1> QED
  BY <1>1, <1>2, <1>3, <1>4
  DEF PressSwitch, Next1, Takes, On, Pauses, mpVars, queueVars, loopVars, streamVars, readVars,
      history

LEMMA SeeksOn ==
    ASSUME TypeOK, LockedNext, todo # <<>>, NEW n, Head(todo) = I("mp_seek", "ON", n)
    PROVE  Seeks(TRUE)
<1>1. Head(todo).op = "mp_seek" /\ Head(todo).what = "ON" /\ Head(todo).arg = n
  BY DEF State, Remove, On1, Off1, I
<1>2. SetSeek  BY <1>1, ActionIs
<1> QED
  BY <1>1, <1>2
  DEF SetSeek, Next1, Takes, On, Seeks, mpVars, queueVars, loopVars, streamVars, readVars, history

LEMMA SeeksOff ==
    ASSUME TypeOK, LockedNext, todo # <<>>, Head(todo) = Off1("mp_seek")
    PROVE  Seeks(FALSE)
<1>1. Head(todo).op = "mp_seek" /\ Head(todo).what = "OFF" /\ Head(todo).arg = 0
  BY DEF State, Remove, On1, Off1, I
<1>2. SetSeek  BY <1>1, ActionIs
<1> QED
  BY <1>1, <1>2
  DEF SetSeek, Next1, Takes, On, Seeks, mpVars, queueVars, loopVars, streamVars, readVars, history

LEMMA StartsQueueIs ==
    ASSUME TypeOK, LockedNext, todo # <<>>, Head(todo) = On1("queue_start")
    PROVE  StartsQueue
<1>1. Head(todo).op = "queue_start" /\ Head(todo).what = "ON" /\ Head(todo).arg = 0
  BY DEF State, Remove, On1, Off1, I
<1>2. MsgQueueStart  BY <1>1, ActionIs
<1>3. queue' = Append(queue, Msg("FLUSH", 0))
  BY <1>2 DEF MsgQueueStart
<1>4. Msg("FLUSH", 0) \in Messages /\ Msg("FLUSH", 0).what = "FLUSH"
  BY MessageIs, PlayerAssumption
<1>5. /\ \A x : x # "FLUSH" => (Has(queue', x) <=> Has(queue, x))
      /\ PreparedFirst(queue) => PreparedFirst(queue')
  BY <1>3, <1>4, HasAppended, FirstAppended DEF TypeOK
<1> QED
  BY <1>1, <1>2, <1>3, <1>4, <1>5
  DEF MsgQueueStart, Next1, Takes, On, StartsQueue, mpVars, queueVars, loopVars, streamVars,
      readVars, history

LEMMA AbortsQueueIs ==
    ASSUME TypeOK, LockedNext, todo # <<>>, Head(todo) = On1("queue_abort")
    PROVE  AbortsQueue
<1>1. Head(todo).op = "queue_abort" /\ Head(todo).what = "ON" /\ Head(todo).arg = 0
  BY DEF State, Remove, On1, Off1, I
<1>2. MsgQueueAbort  BY <1>1, ActionIs
<1> QED
  BY <1>1, <1>2
  DEF MsgQueueAbort, Next1, Takes, On, AbortsQueue, mpVars, queueVars, loopVars, streamVars,
      readVars, history

LEMMA SpawnsLoopIs ==
    ASSUME TypeOK, LockedNext, todo # <<>>, Head(todo) = On1("spawn")
    PROVE  SpawnsLoop
<1>1. Head(todo).op = "spawn" /\ Head(todo).what = "ON" /\ Head(todo).arg = 0
  BY DEF State, Remove, On1, Off1, I
<1>2. SpawnMsgLoop  BY <1>1, ActionIs
<1> QED
  BY <1>1, <1>2
  DEF SpawnMsgLoop, Next1, Takes, On, SpawnsLoop, mpVars, queueVars, loopVars, streamVars, readVars,
      history

LEMMA OpensStreamIs ==
    ASSUME TypeOK, LockedNext, todo # <<>>, Head(todo) = On1("stream_open")
    PROVE  OpensStream
<1>1. Head(todo).op = "stream_open" /\ Head(todo).what = "ON" /\ Head(todo).arg = 0
  BY DEF State, Remove, On1, Off1, I
<1>2. StreamOpen  BY <1>1, ActionIs
<1> QED
  BY <1>1, <1>2
  DEF StreamOpen, Next1, Takes, On, OpensStream, mpVars, queueVars, loopVars, streamVars, readVars,
      history

LEMMA AbortsStreamIs ==
    ASSUME TypeOK, LockedNext, todo # <<>>, Head(todo) = On1("abort_stream")
    PROVE  AbortsStream
<1>1. Head(todo).op = "abort_stream" /\ Head(todo).what = "ON" /\ Head(todo).arg = 0
  BY DEF State, Remove, On1, Off1, I
<1>2. AbortStream  BY <1>1, ActionIs
<1> QED
  BY <1>1, <1>2
  DEF AbortStream, Next1, Takes, On, AbortsStream, mpVars, queueVars, loopVars, streamVars,
      readVars, history

LEMMA ArmsIs ==
    ASSUME TypeOK, LockedNext, todo # <<>>, Head(todo) = On1("auto_resume")
    PROVE  Arms
<1>1. Head(todo).op = "auto_resume" /\ Head(todo).what = "ON" /\ Head(todo).arg = 0
  BY DEF State, Remove, On1, Off1, I
<1>2. PressSwitch  BY <1>1, ActionIs
<1>3. play' = [play EXCEPT !.auto_resume = TRUE]
  BY <1>1, <1>2 DEF PressSwitch, Next1, Takes
<1>4. (play'.pause_req <=> play.pause_req) /\ play'.auto_resume
  BY <1>3, ArmedIs DEF TypeOK
<1> QED
  BY <1>1, <1>2, <1>3, <1>4
  DEF PressSwitch, Next1, Takes, On, Arms, mpVars, queueVars, loopVars, streamVars, readVars,
      history

LEMMA BuffersIs ==
    ASSUME TypeOK, LockedNext, todo # <<>>, Head(todo) = On1("buffering")
    PROVE  Buffers
<1>1. Head(todo).op = "buffering" /\ Head(todo).what = "ON" /\ Head(todo).arg = 0
  BY DEF State, Remove, On1, Off1, I
<1>2. PressSwitch  BY <1>1, ActionIs
<1>3. play' = ToggleBuffering(play, TRUE, PacketBuffering)
  BY <1>1, <1>2 DEF PressSwitch, Next1, Takes, On
<1>4. SwitchesKept
  BY <1>3, ToggleBufferingIs DEF TypeOK, SwitchesKept
<1> QED
  BY <1>1, <1>2, <1>3, <1>4
  DEF PressSwitch, Next1, Takes, On, Buffers, mpVars, queueVars, loopVars, streamVars, readVars,
      history

LEMMA SeeksStreamIs ==
    ASSUME TypeOK, LockedNext, todo # <<>>, NEW n, Head(todo) = I("stream_seek", "ON", n)
    PROVE  SeeksStream
<1>1. Head(todo).op = "stream_seek" /\ Head(todo).what = "ON" /\ Head(todo).arg = n
  BY DEF State, Remove, On1, Off1, I
<1>2. StreamSeek  BY <1>1, ActionIs
<1> QED
  BY <1>1, <1>2
  DEF StreamSeek, Next1, Takes, On, SeeksStream, mpVars, queueVars, loopVars, streamVars, readVars,
      history, RequestSeek

-------------------------------------------------------------------------------
(* The bodies: each instruction of each keeps the invariant. *)

Moved == \E b \in Bodies, k \in 1 .. 6, m \in Positions : LeftOf(todo', b, k, m) /\ AllInv(b, k)'

LEMMA MovesTo ==
    ASSUME NEW b \in Bodies, NEW k \in 1 .. 6, NEW m \in Positions, Comes(b, k, m),
           todo' = Tail(todo), AllInv(b, k)'
    PROVE  Moved
  BY DEF Comes, Moved

LEMMA DoesSet ==
    ASSUME TypeOK, LockedNext, todo # <<>>, NEW k, NEW m \in Positions,
           Steps("set", k, m), AllInv("set", k)
    PROVE  Moved
<1>1. k \in 1 .. 1  BY DEF Steps
<1>2. CASE k = 1
  <2>1. Head(todo) = State("INITIALIZED") /\ Comes("none", 1, m)  BY <1>2 DEF Steps
  <2>2. Becomes("INITIALIZED") /\ todo' = Tail(todo)  BY <2>1, BecomesIs, ActionIs
  <2>3. AllInv("none", 1)'
    BY <1>2, <2>2
    DEF Becomes, mpVars, queueVars, loopVars, streamVars, readVars, history, AllInv, CallInv,
        OwnerInv, BirthInv, OrderInv, RestartInv, PausedInv, StickInv, StartedInv, Unless, Resuming,
        Taken, Waits, Ready, OnHold, HasLate, SeekingInv, EarlyInv, SeekInv, Early, AppBodies,
        LoopBodies
  <2> QED BY <2>1, <2>2, <2>3, MovesTo DEF Bodies, AppBodies, LoopBodies
<1> QED BY <1>1, <1>2

LEMMA DoesPrepare ==
    ASSUME TypeOK, LockedNext, todo # <<>>, NEW k, NEW m \in Positions,
           Steps("prepare", k, m), AllInv("prepare", k)
    PROVE  Moved
<1>1. k \in 1 .. 4  BY DEF Steps
<1>2. CASE k = 1
  <2>1. Head(todo) = State("ASYNC_PREPARING") /\ Comes("prepare", 2, m)  BY <1>2 DEF Steps
  <2>2. Becomes("ASYNC_PREPARING") /\ todo' = Tail(todo)  BY <2>1, BecomesIs, ActionIs
  <2>3. AllInv("prepare", 2)'
    BY <1>2, <2>2
    DEF Becomes, mpVars, queueVars, loopVars, streamVars, readVars, history, AllInv, CallInv,
        OwnerInv, BirthInv, OrderInv, RestartInv, PausedInv, StickInv, StartedInv, Unless, Resuming,
        Taken, Waits, Ready, OnHold, HasLate, SeekingInv, EarlyInv, SeekInv, Early, AppBodies,
        LoopBodies
  <2> QED BY <2>1, <2>2, <2>3, MovesTo DEF Bodies, AppBodies, LoopBodies
<1>3. CASE k = 2
  <2>1. Head(todo) = On1("queue_start") /\ Comes("prepare", 3, m)  BY <1>3 DEF Steps
  <2>2. StartsQueue /\ todo' = Tail(todo)  BY <2>1, StartsQueueIs, ActionIs
  <2>3. AllInv("prepare", 3)'
    BY <1>3, <2>2
    DEF StartsQueue, mpVars, queueVars, loopVars, streamVars, readVars, history, AllInv, CallInv,
        OwnerInv, BirthInv, OrderInv, RestartInv, PausedInv, StickInv, StartedInv, Unless, Resuming,
        Taken, Waits, Ready, OnHold, HasLate, SeekingInv, EarlyInv, SeekInv, Early, AppBodies,
        LoopBodies
  <2> QED BY <2>1, <2>2, <2>3, MovesTo DEF Bodies, AppBodies, LoopBodies
<1>4. CASE k = 3
  <2>1. Head(todo) = On1("spawn") /\ Comes("prepare", 4, m)  BY <1>4 DEF Steps
  <2>2. SpawnsLoop /\ todo' = Tail(todo)  BY <2>1, SpawnsLoopIs, ActionIs
  <2>3. AllInv("prepare", 4)'
    BY <1>4, <2>2
    DEF SpawnsLoop, mpVars, queueVars, loopVars, streamVars, readVars, history, AllInv, CallInv,
        OwnerInv, BirthInv, OrderInv, RestartInv, PausedInv, StickInv, StartedInv, Unless, Resuming,
        Taken, Waits, Ready, OnHold, HasLate, SeekingInv, EarlyInv, SeekInv, Early, AppBodies,
        LoopBodies
  <2> QED BY <2>1, <2>2, <2>3, MovesTo DEF Bodies, AppBodies, LoopBodies
<1>5. CASE k = 4
  <2>1. Head(todo) = On1("stream_open") /\ Comes("none", 1, m)  BY <1>5 DEF Steps
  <2>2. OpensStream /\ todo' = Tail(todo)  BY <2>1, OpensStreamIs, ActionIs
  <2>3. AllInv("none", 1)'
    BY <1>5, <2>2
    DEF OpensStream, mpVars, queueVars, loopVars, streamVars, readVars, history, AllInv, CallInv,
        OwnerInv, BirthInv, OrderInv, RestartInv, PausedInv, StickInv, StartedInv, Unless, Resuming,
        Taken, Waits, Ready, OnHold, HasLate, SeekingInv, EarlyInv, SeekInv, Early, AppBodies,
        LoopBodies
  <2> QED BY <2>1, <2>2, <2>3, MovesTo DEF Bodies, AppBodies, LoopBodies
<1> QED BY <1>1, <1>2, <1>3, <1>4, <1>5

LEMMA DoesRefused ==
    ASSUME TypeOK, LockedNext, todo # <<>>, NEW k, NEW m \in Positions,
           Steps("refused", k, m), AllInv("refused", k)
    PROVE  Moved
<1>1. k \in 1 .. 4  BY DEF Steps
<1>2. CASE k = 1
  <2>1. Head(todo) = State("ASYNC_PREPARING") /\ Comes("refused", 2, m)  BY <1>2 DEF Steps
  <2>2. Becomes("ASYNC_PREPARING") /\ todo' = Tail(todo)  BY <2>1, BecomesIs, ActionIs
  <2>3. AllInv("refused", 2)'
    BY <1>2, <2>2
    DEF Becomes, mpVars, queueVars, loopVars, streamVars, readVars, history, AllInv, CallInv,
        OwnerInv, BirthInv, OrderInv, RestartInv, PausedInv, StickInv, StartedInv, Unless, Resuming,
        Taken, Waits, Ready, OnHold, HasLate, SeekingInv, EarlyInv, SeekInv, Early, AppBodies,
        LoopBodies
  <2> QED BY <2>1, <2>2, <2>3, MovesTo DEF Bodies, AppBodies, LoopBodies
<1>3. CASE k = 2
  <2>1. Head(todo) = On1("queue_start") /\ Comes("refused", 3, m)  BY <1>3 DEF Steps
  <2>2. StartsQueue /\ todo' = Tail(todo)  BY <2>1, StartsQueueIs, ActionIs
  <2>3. AllInv("refused", 3)'
    BY <1>3, <2>2
    DEF StartsQueue, mpVars, queueVars, loopVars, streamVars, readVars, history, AllInv, CallInv,
        OwnerInv, BirthInv, OrderInv, RestartInv, PausedInv, StickInv, StartedInv, Unless, Resuming,
        Taken, Waits, Ready, OnHold, HasLate, SeekingInv, EarlyInv, SeekInv, Early, AppBodies,
        LoopBodies
  <2> QED BY <2>1, <2>2, <2>3, MovesTo DEF Bodies, AppBodies, LoopBodies
<1>4. CASE k = 3
  <2>1. Head(todo) = On1("spawn") /\ Comes("refused", 4, m)  BY <1>4 DEF Steps
  <2>2. SpawnsLoop /\ todo' = Tail(todo)  BY <2>1, SpawnsLoopIs, ActionIs
  <2>3. AllInv("refused", 4)'
    BY <1>4, <2>2
    DEF SpawnsLoop, mpVars, queueVars, loopVars, streamVars, readVars, history, AllInv, CallInv,
        OwnerInv, BirthInv, OrderInv, RestartInv, PausedInv, StickInv, StartedInv, Unless, Resuming,
        Taken, Waits, Ready, OnHold, HasLate, SeekingInv, EarlyInv, SeekInv, Early, AppBodies,
        LoopBodies
  <2> QED BY <2>1, <2>2, <2>3, MovesTo DEF Bodies, AppBodies, LoopBodies
<1>5. CASE k = 4
  <2>1. Head(todo) = State("ERROR") /\ Comes("none", 1, m)  BY <1>5 DEF Steps
  <2>2. Becomes("ERROR") /\ todo' = Tail(todo)  BY <2>1, BecomesIs, ActionIs
  <2>3. AllInv("none", 1)'
    BY <1>5, <2>2
    DEF Becomes, mpVars, queueVars, loopVars, streamVars, readVars, history, AllInv, CallInv,
        OwnerInv, BirthInv, OrderInv, RestartInv, PausedInv, StickInv, StartedInv, Unless, Resuming,
        Taken, Waits, Ready, OnHold, HasLate, SeekingInv, EarlyInv, SeekInv, Early, AppBodies,
        LoopBodies
  <2> QED BY <2>1, <2>2, <2>3, MovesTo DEF Bodies, AppBodies, LoopBodies
<1> QED BY <1>1, <1>2, <1>3, <1>4, <1>5

LEMMA DoesStart ==
    ASSUME TypeOK, LockedNext, todo # <<>>, NEW k, NEW m \in Positions,
           Steps("start", k, m), AllInv("start", k)
    PROVE  Moved
<1>1. k \in 1 .. 3  BY DEF Steps
<1>2. CASE k = 1
  <2>1. Head(todo) = Remove("REQ_START") /\ Comes("start", 2, m)  BY <1>2 DEF Steps
  <2>2. Removes("REQ_START") /\ todo' = Tail(todo)  BY <2>1, RemovesIs, ActionIs
  <2>3. AllInv("start", 2)'
    BY <1>2, <2>2
    DEF Removes, mpVars, queueVars, loopVars, streamVars, readVars, history, AllInv, CallInv,
        OwnerInv, BirthInv, OrderInv, RestartInv, PausedInv, StickInv, StartedInv, Unless, Resuming,
        Taken, Waits, Ready, OnHold, HasLate, SeekingInv, EarlyInv, SeekInv, Early, AppBodies,
        LoopBodies
  <2> QED BY <2>1, <2>2, <2>3, MovesTo DEF Bodies, AppBodies, LoopBodies
<1>3. CASE k = 2
  <2>1. Head(todo) = Remove("REQ_PAUSE") /\ Comes("start", 3, m)  BY <1>3 DEF Steps
  <2>2. Removes("REQ_PAUSE") /\ todo' = Tail(todo)  BY <2>1, RemovesIs, ActionIs
  <2>3. AllInv("start", 3)'
    BY <1>3, <2>2
    DEF Removes, mpVars, queueVars, loopVars, streamVars, readVars, history, AllInv, CallInv,
        OwnerInv, BirthInv, OrderInv, RestartInv, PausedInv, StickInv, StartedInv, Unless, Resuming,
        Taken, Waits, Ready, OnHold, HasLate, SeekingInv, EarlyInv, SeekInv, Early, AppBodies,
        LoopBodies
  <2> QED BY <2>1, <2>2, <2>3, MovesTo DEF Bodies, AppBodies, LoopBodies
<1>4. CASE k = 3
  <2>1. Head(todo) = I("put", "REQ_START", 0) /\ Comes("none", 1, m)  BY <1>4 DEF Steps
  <2>2. Puts("REQ_START") /\ todo' = Tail(todo)
    BY <2>1, PutsIs, PlayerAssumption, ActionIs
    DEF Late
  <2>3. AllInv("none", 1)'
    BY <1>4, <2>2
    DEF Puts, Sends, Late, mpVars, queueVars, loopVars, streamVars, readVars, history, AllInv,
        CallInv, OwnerInv, BirthInv, OrderInv, RestartInv, PausedInv, StickInv, StartedInv, Unless,
        Resuming, Taken, Waits, Ready, OnHold, HasLate, SeekingInv, EarlyInv, SeekInv, Early,
        AppBodies, LoopBodies
  <2> QED BY <2>1, <2>2, <2>3, MovesTo DEF Bodies, AppBodies, LoopBodies
<1> QED BY <1>1, <1>2, <1>3, <1>4

LEMMA DoesPause ==
    ASSUME TypeOK, LockedNext, todo # <<>>, NEW k, NEW m \in Positions,
           Steps("pause", k, m), AllInv("pause", k)
    PROVE  Moved
<1>1. k \in 1 .. 3  BY DEF Steps
<1>2. CASE k = 1
  <2>1. Head(todo) = Remove("REQ_START") /\ Comes("pause", 2, m)  BY <1>2 DEF Steps
  <2>2. Removes("REQ_START") /\ todo' = Tail(todo)  BY <2>1, RemovesIs, ActionIs
  <2>3. AllInv("pause", 2)'
    BY <1>2, <2>2
    DEF Removes, mpVars, queueVars, loopVars, streamVars, readVars, history, AllInv, CallInv,
        OwnerInv, BirthInv, OrderInv, RestartInv, PausedInv, StickInv, StartedInv, Unless, Resuming,
        Taken, Waits, Ready, OnHold, HasLate, SeekingInv, EarlyInv, SeekInv, Early, AppBodies,
        LoopBodies
  <2> QED BY <2>1, <2>2, <2>3, MovesTo DEF Bodies, AppBodies, LoopBodies
<1>3. CASE k = 2
  <2>1. Head(todo) = Remove("REQ_PAUSE") /\ Comes("pause", 3, m)  BY <1>3 DEF Steps
  <2>2. Removes("REQ_PAUSE") /\ todo' = Tail(todo)  BY <2>1, RemovesIs, ActionIs
  <2>3. AllInv("pause", 3)'
    BY <1>3, <2>2
    DEF Removes, mpVars, queueVars, loopVars, streamVars, readVars, history, AllInv, CallInv,
        OwnerInv, BirthInv, OrderInv, RestartInv, PausedInv, StickInv, StartedInv, Unless, Resuming,
        Taken, Waits, Ready, OnHold, HasLate, SeekingInv, EarlyInv, SeekInv, Early, AppBodies,
        LoopBodies
  <2> QED BY <2>1, <2>2, <2>3, MovesTo DEF Bodies, AppBodies, LoopBodies
<1>4. CASE k = 3
  <2>1. Head(todo) = I("put", "REQ_PAUSE", 0) /\ Comes("none", 1, m)  BY <1>4 DEF Steps
  <2>2. Puts("REQ_PAUSE") /\ todo' = Tail(todo)
    BY <2>1, PutsIs, PlayerAssumption, ActionIs
    DEF Late
  <2>3. AllInv("none", 1)'
    BY <1>4, <2>2
    DEF Puts, Sends, Late, mpVars, queueVars, loopVars, streamVars, readVars, history, AllInv,
        CallInv, OwnerInv, BirthInv, OrderInv, RestartInv, PausedInv, StickInv, StartedInv, Unless,
        Resuming, Taken, Waits, Ready, OnHold, HasLate, SeekingInv, EarlyInv, SeekInv, Early,
        AppBodies, LoopBodies
  <2> QED BY <2>1, <2>2, <2>3, MovesTo DEF Bodies, AppBodies, LoopBodies
<1> QED BY <1>1, <1>2, <1>3, <1>4

LEMMA DoesSeek ==
    ASSUME TypeOK, LockedNext, todo # <<>>, NEW k, NEW m \in Positions,
           Steps("seek", k, m), AllInv("seek", k)
    PROVE  Moved
<1>1. k \in 1 .. 3  BY DEF Steps
<1>2. CASE k = 1
  <2>1. Head(todo) = I("mp_seek", "ON", m) /\ Comes("seek", 2, m)  BY <1>2 DEF Steps
  <2>2. Seeks(TRUE) /\ todo' = Tail(todo)  BY <2>1, SeeksOn, ActionIs
  <2>3. AllInv("seek", 2)'
    BY <1>2, <2>2
    DEF Seeks, mpVars, queueVars, loopVars, streamVars, readVars, history, AllInv, CallInv,
        OwnerInv, BirthInv, OrderInv, RestartInv, PausedInv, StickInv, StartedInv, Unless, Resuming,
        Taken, Waits, Ready, OnHold, HasLate, SeekingInv, EarlyInv, SeekInv, Early, AppBodies,
        LoopBodies
  <2> QED BY <2>1, <2>2, <2>3, MovesTo DEF Bodies, AppBodies, LoopBodies
<1>3. CASE k = 2
  <2>1. Head(todo) = Remove("REQ_SEEK") /\ Comes("seek", 3, m)  BY <1>3 DEF Steps
  <2>2. Removes("REQ_SEEK") /\ todo' = Tail(todo)  BY <2>1, RemovesIs, ActionIs
  <2>3. AllInv("seek", 3)'
    BY <1>3, <2>2
    DEF Removes, mpVars, queueVars, loopVars, streamVars, readVars, history, AllInv, CallInv,
        OwnerInv, BirthInv, OrderInv, RestartInv, PausedInv, StickInv, StartedInv, Unless, Resuming,
        Taken, Waits, Ready, OnHold, HasLate, SeekingInv, EarlyInv, SeekInv, Early, AppBodies,
        LoopBodies
  <2> QED BY <2>1, <2>2, <2>3, MovesTo DEF Bodies, AppBodies, LoopBodies
<1>4. CASE k = 3
  <2>1. Head(todo) = I("put", "REQ_SEEK", m) /\ Comes("none", 1, m)  BY <1>4 DEF Steps
  <2>2. Puts("REQ_SEEK") /\ todo' = Tail(todo)  BY <2>1, PutsIs, PlayerAssumption, ActionIs DEF Late
  <2>3. AllInv("none", 1)'
    BY <1>4, <2>2
    DEF Puts, Sends, Late, mpVars, queueVars, loopVars, streamVars, readVars, history, AllInv,
        CallInv, OwnerInv, BirthInv, OrderInv, RestartInv, PausedInv, StickInv, StartedInv, Unless,
        Resuming, Taken, Waits, Ready, OnHold, HasLate, SeekingInv, EarlyInv, SeekInv, Early,
        AppBodies, LoopBodies
  <2> QED BY <2>1, <2>2, <2>3, MovesTo DEF Bodies, AppBodies, LoopBodies
<1> QED BY <1>1, <1>2, <1>3, <1>4

LEMMA DoesStop ==
    ASSUME TypeOK, LockedNext, todo # <<>>, NEW k, NEW m \in Positions,
           Steps("stop", k, m), AllInv("stop", k)
    PROVE  Moved
<1>1. k \in 1 .. 6  BY DEF Steps
<1>2. CASE k = 1
  <2>1. Head(todo) = Remove("REQ_START") /\ Comes("stop", 2, m)  BY <1>2 DEF Steps
  <2>2. Removes("REQ_START") /\ todo' = Tail(todo)  BY <2>1, RemovesIs, ActionIs
  <2>3. AllInv("stop", 2)'
    BY <1>2, <2>2
    DEF Removes, mpVars, queueVars, loopVars, streamVars, readVars, history, AllInv, CallInv,
        OwnerInv, BirthInv, OrderInv, RestartInv, PausedInv, StickInv, StartedInv, Unless, Resuming,
        Taken, Waits, Ready, OnHold, HasLate, SeekingInv, EarlyInv, SeekInv, Early, AppBodies,
        LoopBodies
  <2> QED BY <2>1, <2>2, <2>3, MovesTo DEF Bodies, AppBodies, LoopBodies
<1>3. CASE k = 2
  <2>1. Head(todo) = Remove("REQ_PAUSE") /\ Comes("stop", 3, m)  BY <1>3 DEF Steps
  <2>2. Removes("REQ_PAUSE") /\ todo' = Tail(todo)  BY <2>1, RemovesIs, ActionIs
  <2>3. AllInv("stop", 3)'
    BY <1>3, <2>2
    DEF Removes, mpVars, queueVars, loopVars, streamVars, readVars, history, AllInv, CallInv,
        OwnerInv, BirthInv, OrderInv, RestartInv, PausedInv, StickInv, StartedInv, Unless, Resuming,
        Taken, Waits, Ready, OnHold, HasLate, SeekingInv, EarlyInv, SeekInv, Early, AppBodies,
        LoopBodies
  <2> QED BY <2>1, <2>2, <2>3, MovesTo DEF Bodies, AppBodies, LoopBodies
<1>4. CASE k = 3
  <2>1. Head(todo) = On1("abort_stream") /\ Comes("stop", 4, m)  BY <1>4 DEF Steps
  <2>2. AbortsStream /\ todo' = Tail(todo)  BY <2>1, AbortsStreamIs, ActionIs
  <2>3. AllInv("stop", 4)'
    BY <1>4, <2>2
    DEF AbortsStream, mpVars, queueVars, loopVars, streamVars, readVars, history, AllInv, CallInv,
        OwnerInv, BirthInv, OrderInv, RestartInv, PausedInv, StickInv, StartedInv, Unless, Resuming,
        Taken, Waits, Ready, OnHold, HasLate, SeekingInv, EarlyInv, SeekInv, Early, AppBodies,
        LoopBodies
  <2> QED BY <2>1, <2>2, <2>3, MovesTo DEF Bodies, AppBodies, LoopBodies
<1>5. CASE k = 4
  <2>1. Head(todo) = On1("pause") /\ Comes("stop", 5, m)  BY <1>5 DEF Steps
  <2>2. Pauses(TRUE) /\ todo' = Tail(todo)  BY <2>1, PausesOn, ActionIs
  <2>3. AllInv("stop", 5)'
    BY <1>5, <2>2
    DEF Pauses, mpVars, queueVars, loopVars, streamVars, readVars, history, AllInv, CallInv,
        OwnerInv, BirthInv, OrderInv, RestartInv, PausedInv, StickInv, StartedInv, Unless, Resuming,
        Taken, Waits, Ready, OnHold, HasLate, SeekingInv, EarlyInv, SeekInv, Early, AppBodies,
        LoopBodies
  <2> QED BY <2>1, <2>2, <2>3, MovesTo DEF Bodies, AppBodies, LoopBodies
<1>6. CASE k = 5
  <2>1. Head(todo) = On1("queue_abort") /\ Comes("stop", 6, m)  BY <1>6 DEF Steps
  <2>2. AbortsQueue /\ todo' = Tail(todo)  BY <2>1, AbortsQueueIs, ActionIs
  <2>3. AllInv("stop", 6)'
    BY <1>6, <2>2
    DEF AbortsQueue, mpVars, queueVars, loopVars, streamVars, readVars, history, AllInv, CallInv,
        OwnerInv, BirthInv, OrderInv, RestartInv, PausedInv, StickInv, StartedInv, Unless, Resuming,
        Taken, Waits, Ready, OnHold, HasLate, SeekingInv, EarlyInv, SeekInv, Early, AppBodies,
        LoopBodies
  <2> QED BY <2>1, <2>2, <2>3, MovesTo DEF Bodies, AppBodies, LoopBodies
<1>7. CASE k = 6
  <2>1. Head(todo) = State("STOPPED") /\ Comes("none", 1, m)  BY <1>7 DEF Steps
  <2>2. Becomes("STOPPED") /\ todo' = Tail(todo)  BY <2>1, BecomesIs, ActionIs
  <2>3. AllInv("none", 1)'
    BY <1>7, <2>2
    DEF Becomes, mpVars, queueVars, loopVars, streamVars, readVars, history, AllInv, CallInv,
        OwnerInv, BirthInv, OrderInv, RestartInv, PausedInv, StickInv, StartedInv, Unless, Resuming,
        Taken, Waits, Ready, OnHold, HasLate, SeekingInv, EarlyInv, SeekInv, Early, AppBodies,
        LoopBodies
  <2> QED BY <2>1, <2>2, <2>3, MovesTo DEF Bodies, AppBodies, LoopBodies
<1> QED BY <1>1, <1>2, <1>3, <1>4, <1>5, <1>6, <1>7

LEMMA DoesQuit ==
    ASSUME TypeOK, LockedNext, todo # <<>>, NEW k, NEW m \in Positions,
           Steps("quit", k, m), AllInv("quit", k)
    PROVE  Moved
<1>1. k \in 1 .. 4  BY DEF Steps
<1>2. CASE k = 1
  <2>1. Head(todo) = Remove("REQ_START") /\ Comes("quit", 2, m)  BY <1>2 DEF Steps
  <2>2. Removes("REQ_START") /\ todo' = Tail(todo)  BY <2>1, RemovesIs, ActionIs
  <2>3. AllInv("quit", 2)'
    BY <1>2, <2>2
    DEF Removes, mpVars, queueVars, loopVars, streamVars, readVars, history, AllInv, CallInv,
        OwnerInv, BirthInv, OrderInv, RestartInv, PausedInv, StickInv, StartedInv, Unless, Resuming,
        Taken, Waits, Ready, OnHold, HasLate, SeekingInv, EarlyInv, SeekInv, Early, AppBodies,
        LoopBodies
  <2> QED BY <2>1, <2>2, <2>3, MovesTo DEF Bodies, AppBodies, LoopBodies
<1>3. CASE k = 2
  <2>1. Head(todo) = Remove("REQ_PAUSE") /\ Comes("quit", 3, m)  BY <1>3 DEF Steps
  <2>2. Removes("REQ_PAUSE") /\ todo' = Tail(todo)  BY <2>1, RemovesIs, ActionIs
  <2>3. AllInv("quit", 3)'
    BY <1>3, <2>2
    DEF Removes, mpVars, queueVars, loopVars, streamVars, readVars, history, AllInv, CallInv,
        OwnerInv, BirthInv, OrderInv, RestartInv, PausedInv, StickInv, StartedInv, Unless, Resuming,
        Taken, Waits, Ready, OnHold, HasLate, SeekingInv, EarlyInv, SeekInv, Early, AppBodies,
        LoopBodies
  <2> QED BY <2>1, <2>2, <2>3, MovesTo DEF Bodies, AppBodies, LoopBodies
<1>4. CASE k = 3
  <2>1. Head(todo) = On1("queue_abort") /\ Comes("quit", 4, m)  BY <1>4 DEF Steps
  <2>2. AbortsQueue /\ todo' = Tail(todo)  BY <2>1, AbortsQueueIs, ActionIs
  <2>3. AllInv("quit", 4)'
    BY <1>4, <2>2
    DEF AbortsQueue, mpVars, queueVars, loopVars, streamVars, readVars, history, AllInv, CallInv,
        OwnerInv, BirthInv, OrderInv, RestartInv, PausedInv, StickInv, StartedInv, Unless, Resuming,
        Taken, Waits, Ready, OnHold, HasLate, SeekingInv, EarlyInv, SeekInv, Early, AppBodies,
        LoopBodies
  <2> QED BY <2>1, <2>2, <2>3, MovesTo DEF Bodies, AppBodies, LoopBodies
<1>5. CASE k = 4
  <2>1. Head(todo) = State("STOPPED") /\ Comes("none", 1, m)  BY <1>5 DEF Steps
  <2>2. Becomes("STOPPED") /\ todo' = Tail(todo)  BY <2>1, BecomesIs, ActionIs
  <2>3. AllInv("none", 1)'
    BY <1>5, <2>2
    DEF Becomes, mpVars, queueVars, loopVars, streamVars, readVars, history, AllInv, CallInv,
        OwnerInv, BirthInv, OrderInv, RestartInv, PausedInv, StickInv, StartedInv, Unless, Resuming,
        Taken, Waits, Ready, OnHold, HasLate, SeekingInv, EarlyInv, SeekInv, Early, AppBodies,
        LoopBodies
  <2> QED BY <2>1, <2>2, <2>3, MovesTo DEF Bodies, AppBodies, LoopBodies
<1> QED BY <1>1, <1>2, <1>3, <1>4, <1>5

LEMMA DoesReady ==
    ASSUME TypeOK, LockedNext, todo # <<>>, NEW k, NEW m \in Positions,
           Steps("ready", k, m), AllInv("ready", k)
    PROVE  Moved
<1>1. k \in 1 .. 1  BY DEF Steps
<1>2. CASE k = 1
  <2>1. Head(todo) = State("PREPARED") /\ Comes("none", 1, m)  BY <1>2 DEF Steps
  <2>2. Becomes("PREPARED") /\ todo' = Tail(todo)  BY <2>1, BecomesIs, ActionIs
  <2>3. AllInv("none", 1)'
    BY <1>2, <2>2
    DEF Becomes, mpVars, queueVars, loopVars, streamVars, readVars, history, AllInv, CallInv,
        OwnerInv, BirthInv, OrderInv, RestartInv, PausedInv, StickInv, StartedInv, Unless, Resuming,
        Taken, Waits, Ready, OnHold, HasLate, SeekingInv, EarlyInv, SeekInv, Early, AppBodies,
        LoopBodies
  <2> QED BY <2>1, <2>2, <2>3, MovesTo DEF Bodies, AppBodies, LoopBodies
<1> QED BY <1>1, <1>2

LEMMA DoesReadyHeld ==
    ASSUME TypeOK, LockedNext, todo # <<>>, NEW k, NEW m \in Positions,
           Steps("readyHeld", k, m), AllInv("readyHeld", k)
    PROVE  Moved
<1>1. k \in 1 .. 2  BY DEF Steps
<1>2. CASE k = 1
  <2>1. Head(todo) = State("PREPARED") /\ Comes("readyHeld", 2, m)  BY <1>2 DEF Steps
  <2>2. Becomes("PREPARED") /\ todo' = Tail(todo)  BY <2>1, BecomesIs, ActionIs
  <2>3. AllInv("readyHeld", 2)'
    BY <1>2, <2>2
    DEF Becomes, mpVars, queueVars, loopVars, streamVars, readVars, history, AllInv, CallInv,
        OwnerInv, BirthInv, OrderInv, RestartInv, PausedInv, StickInv, StartedInv, Unless, Resuming,
        Taken, Waits, Ready, OnHold, HasLate, SeekingInv, EarlyInv, SeekInv, Early, AppBodies,
        LoopBodies
  <2> QED BY <2>1, <2>2, <2>3, MovesTo DEF Bodies, AppBodies, LoopBodies
<1>3. CASE k = 2
  <2>1. Head(todo) = State("PAUSED") /\ Comes("none", 1, m)  BY <1>3 DEF Steps
  <2>2. Becomes("PAUSED") /\ todo' = Tail(todo)  BY <2>1, BecomesIs, ActionIs
  <2>3. AllInv("none", 1)'
    BY <1>3, <2>2
    DEF Becomes, mpVars, queueVars, loopVars, streamVars, readVars, history, AllInv, CallInv,
        OwnerInv, BirthInv, OrderInv, RestartInv, PausedInv, StickInv, StartedInv, Unless, Resuming,
        Taken, Waits, Ready, OnHold, HasLate, SeekingInv, EarlyInv, SeekInv, Early, AppBodies,
        LoopBodies
  <2> QED BY <2>1, <2>2, <2>3, MovesTo DEF Bodies, AppBodies, LoopBodies
<1> QED BY <1>1, <1>2, <1>3

LEMMA DoesHeld ==
    ASSUME TypeOK, LockedNext, todo # <<>>, NEW k, NEW m \in Positions,
           Steps("held", k, m), AllInv("held", k)
    PROVE  Moved
<1>1. k \in 1 .. 1  BY DEF Steps
<1>2. CASE k = 1
  <2>1. Head(todo) = State("PAUSED") /\ Comes("none", 1, m)  BY <1>2 DEF Steps
  <2>2. Becomes("PAUSED") /\ todo' = Tail(todo)  BY <2>1, BecomesIs, ActionIs
  <2>3. AllInv("none", 1)'
    BY <1>2, <2>2
    DEF Becomes, mpVars, queueVars, loopVars, streamVars, readVars, history, AllInv, CallInv,
        OwnerInv, BirthInv, OrderInv, RestartInv, PausedInv, StickInv, StartedInv, Unless, Resuming,
        Taken, Waits, Ready, OnHold, HasLate, SeekingInv, EarlyInv, SeekInv, Early, AppBodies,
        LoopBodies
  <2> QED BY <2>1, <2>2, <2>3, MovesTo DEF Bodies, AppBodies, LoopBodies
<1> QED BY <1>1, <1>2

LEMMA DoesEnd ==
    ASSUME TypeOK, LockedNext, todo # <<>>, NEW k, NEW m \in Positions,
           Steps("end", k, m), AllInv("end", k)
    PROVE  Moved
<1>1. k \in 1 .. 3  BY DEF Steps
<1>2. CASE k = 1
  <2>1. Head(todo) = On1("restart") /\ Comes("end", 2, m)  BY <1>2 DEF Steps
  <2>2. Restarts(TRUE) /\ todo' = Tail(todo)  BY <2>1, RestartsOn, ActionIs
  <2>3. AllInv("end", 2)'
    BY <1>2, <2>2
    DEF Restarts, mpVars, queueVars, loopVars, streamVars, readVars, history, AllInv, CallInv,
        OwnerInv, BirthInv, OrderInv, RestartInv, PausedInv, StickInv, StartedInv, Unless, Resuming,
        Taken, Waits, Ready, OnHold, HasLate, SeekingInv, EarlyInv, SeekInv, Early, AppBodies,
        LoopBodies
  <2> QED BY <2>1, <2>2, <2>3, MovesTo DEF Bodies, AppBodies, LoopBodies
<1>3. CASE k = 2
  <2>1. Head(todo) = On1("from_beginning") /\ Comes("end", 3, m)  BY <1>3 DEF Steps
  <2>2. FromBeginning(TRUE) /\ todo' = Tail(todo)  BY <2>1, FromBeginningOn, ActionIs
  <2>3. AllInv("end", 3)'
    BY <1>3, <2>2
    DEF FromBeginning, mpVars, queueVars, loopVars, streamVars, readVars, history, AllInv, CallInv,
        OwnerInv, BirthInv, OrderInv, RestartInv, PausedInv, StickInv, StartedInv, Unless, Resuming,
        Taken, Waits, Ready, OnHold, HasLate, SeekingInv, EarlyInv, SeekInv, Early, AppBodies,
        LoopBodies
  <2> QED BY <2>1, <2>2, <2>3, MovesTo DEF Bodies, AppBodies, LoopBodies
<1>4. CASE k = 3
  <2>1. Head(todo) = State("COMPLETED") /\ Comes("none", 1, m)  BY <1>4 DEF Steps
  <2>2. Becomes("COMPLETED") /\ todo' = Tail(todo)  BY <2>1, BecomesIs, ActionIs
  <2>3. AllInv("none", 1)'
    BY <1>4, <2>2
    DEF Becomes, mpVars, queueVars, loopVars, streamVars, readVars, history, AllInv, CallInv,
        OwnerInv, BirthInv, OrderInv, RestartInv, PausedInv, StickInv, StartedInv, Unless, Resuming,
        Taken, Waits, Ready, OnHold, HasLate, SeekingInv, EarlyInv, SeekInv, Early, AppBodies,
        LoopBodies
  <2> QED BY <2>1, <2>2, <2>3, MovesTo DEF Bodies, AppBodies, LoopBodies
<1> QED BY <1>1, <1>2, <1>3, <1>4

LEMMA DoesAnswered ==
    ASSUME TypeOK, LockedNext, todo # <<>>, NEW k, NEW m \in Positions,
           Steps("answered", k, m), AllInv("answered", k)
    PROVE  Moved
<1>1. k \in 1 .. 1  BY DEF Steps
<1>2. CASE k = 1
  <2>1. Head(todo) = Off1("mp_seek") /\ Comes("none", 1, m)  BY <1>2 DEF Steps
  <2>2. Seeks(FALSE) /\ todo' = Tail(todo)  BY <2>1, SeeksOff, ActionIs
  <2>3. AllInv("none", 1)'
    BY <1>2, <2>2
    DEF Seeks, mpVars, queueVars, loopVars, streamVars, readVars, history, AllInv, CallInv,
        OwnerInv, BirthInv, OrderInv, RestartInv, PausedInv, StickInv, StartedInv, Unless, Resuming,
        Taken, Waits, Ready, OnHold, HasLate, SeekingInv, EarlyInv, SeekInv, Early, AppBodies,
        LoopBodies
  <2> QED BY <2>1, <2>2, <2>3, MovesTo DEF Bodies, AppBodies, LoopBodies
<1> QED BY <1>1, <1>2

LEMMA DoesResume ==
    ASSUME TypeOK, LockedNext, todo # <<>>, NEW k, NEW m \in Positions,
           Steps("resume", k, m), AllInv("resume", k)
    PROVE  Moved
<1>1. k \in 1 .. 2  BY DEF Steps
<1>2. CASE k = 1
  <2>1. Head(todo) = Off1("pause") /\ Comes("resume", 2, m)  BY <1>2 DEF Steps
  <2>2. Pauses(FALSE) /\ todo' = Tail(todo)  BY <2>1, PausesOff, ActionIs
  <2>3. AllInv("resume", 2)'
    BY <1>2, <2>2
    DEF Pauses, mpVars, queueVars, loopVars, streamVars, readVars, history, AllInv, CallInv,
        OwnerInv, BirthInv, OrderInv, RestartInv, PausedInv, StickInv, StartedInv, Unless, Resuming,
        Taken, Waits, Ready, OnHold, HasLate, SeekingInv, EarlyInv, SeekInv, Early, AppBodies,
        LoopBodies
  <2> QED BY <2>1, <2>2, <2>3, MovesTo DEF Bodies, AppBodies, LoopBodies
<1>3. CASE k = 2
  <2>1. Head(todo) = State("STARTED") /\ Comes("none", 1, m)  BY <1>3 DEF Steps
  <2>2. Becomes("STARTED") /\ todo' = Tail(todo)  BY <2>1, BecomesIs, ActionIs
  <2>3. AllInv("none", 1)'
    BY <1>3, <2>2
    DEF Becomes, mpVars, queueVars, loopVars, streamVars, readVars, history, AllInv, CallInv,
        OwnerInv, BirthInv, OrderInv, RestartInv, PausedInv, StickInv, StartedInv, Unless, Resuming,
        Taken, Waits, Ready, OnHold, HasLate, SeekingInv, EarlyInv, SeekInv, Early, AppBodies,
        LoopBodies
  <2> QED BY <2>1, <2>2, <2>3, MovesTo DEF Bodies, AppBodies, LoopBodies
<1> QED BY <1>1, <1>2, <1>3

LEMMA DoesAgain ==
    ASSUME TypeOK, LockedNext, todo # <<>>, NEW k, NEW m \in Positions,
           Steps("again", k, m), AllInv("again", k)
    PROVE  Moved
<1>1. k \in 1 .. 4  BY DEF Steps
<1>2. CASE k = 1
  <2>1. Head(todo) = Off1("pause") /\ Comes("again", 2, m)  BY <1>2 DEF Steps
  <2>2. Pauses(FALSE) /\ todo' = Tail(todo)  BY <2>1, PausesOff, ActionIs
  <2>3. AllInv("again", 2)'
    BY <1>2, <2>2
    DEF Pauses, mpVars, queueVars, loopVars, streamVars, readVars, history, AllInv, CallInv,
        OwnerInv, BirthInv, OrderInv, RestartInv, PausedInv, StickInv, StartedInv, Unless, Resuming,
        Taken, Waits, Ready, OnHold, HasLate, SeekingInv, EarlyInv, SeekInv, Early, AppBodies,
        LoopBodies
  <2> QED BY <2>1, <2>2, <2>3, MovesTo DEF Bodies, AppBodies, LoopBodies
<1>3. CASE k = 2
  <2>1. Head(todo) = State("STARTED") /\ Comes("again", 3, m)  BY <1>3 DEF Steps
  <2>2. Becomes("STARTED") /\ todo' = Tail(todo)  BY <2>1, BecomesIs, ActionIs
  <2>3. AllInv("again", 3)'
    BY <1>3, <2>2
    DEF Becomes, mpVars, queueVars, loopVars, streamVars, readVars, history, AllInv, CallInv,
        OwnerInv, BirthInv, OrderInv, RestartInv, PausedInv, StickInv, StartedInv, Unless, Resuming,
        Taken, Waits, Ready, OnHold, HasLate, SeekingInv, EarlyInv, SeekInv, Early, AppBodies,
        LoopBodies
  <2> QED BY <2>1, <2>2, <2>3, MovesTo DEF Bodies, AppBodies, LoopBodies
<1>4. CASE k = 3
  <2>1. Head(todo) = Off1("restart") /\ Comes("again", 4, m)  BY <1>4 DEF Steps
  <2>2. Restarts(FALSE) /\ todo' = Tail(todo)  BY <2>1, RestartsOff, ActionIs
  <2>3. AllInv("again", 4)'
    BY <1>4, <2>2
    DEF Restarts, mpVars, queueVars, loopVars, streamVars, readVars, history, AllInv, CallInv,
        OwnerInv, BirthInv, OrderInv, RestartInv, PausedInv, StickInv, StartedInv, Unless, Resuming,
        Taken, Waits, Ready, OnHold, HasLate, SeekingInv, EarlyInv, SeekInv, Early, AppBodies,
        LoopBodies
  <2> QED BY <2>1, <2>2, <2>3, MovesTo DEF Bodies, AppBodies, LoopBodies
<1>5. CASE k = 4
  <2>1. Head(todo) = Off1("from_beginning") /\ Comes("none", 1, m)  BY <1>5 DEF Steps
  <2>2. FromBeginning(FALSE) /\ todo' = Tail(todo)  BY <2>1, FromBeginningOff, ActionIs
  <2>3. AllInv("none", 1)'
    BY <1>5, <2>2
    DEF FromBeginning, mpVars, queueVars, loopVars, streamVars, readVars, history, AllInv, CallInv,
        OwnerInv, BirthInv, OrderInv, RestartInv, PausedInv, StickInv, StartedInv, Unless, Resuming,
        Taken, Waits, Ready, OnHold, HasLate, SeekingInv, EarlyInv, SeekInv, Early, AppBodies,
        LoopBodies
  <2> QED BY <2>1, <2>2, <2>3, MovesTo DEF Bodies, AppBodies, LoopBodies
<1> QED BY <1>1, <1>2, <1>3, <1>4, <1>5

LEMMA DoesFrom ==
    ASSUME TypeOK, LockedNext, todo # <<>>, NEW k, NEW m \in Positions,
           Steps("from", k, m), AllInv("from", k)
    PROVE  Moved
<1>1. k \in 1 .. 6  BY DEF Steps
<1>2. CASE k = 1
  <2>1. Head(todo) = On1("auto_resume") /\ Comes("from", 2, m)  BY <1>2 DEF Steps
  <2>2. Arms /\ todo' = Tail(todo)  BY <2>1, ArmsIs, ActionIs
  <2>3. AllInv("from", 2)'
    BY <1>2, <2>2
    DEF Arms, mpVars, queueVars, loopVars, streamVars, readVars, history, AllInv, CallInv, OwnerInv,
        BirthInv, OrderInv, RestartInv, PausedInv, StickInv, StartedInv, Unless, Resuming, Taken,
        Waits, Ready, OnHold, HasLate, SeekingInv, EarlyInv, SeekInv, Early, AppBodies, LoopBodies
  <2> QED BY <2>1, <2>2, <2>3, MovesTo DEF Bodies, AppBodies, LoopBodies
<1>3. CASE k = 2
  <2>1. Head(todo) = On1("buffering") /\ Comes("from", 3, m)  BY <1>3 DEF Steps
  <2>2. Buffers /\ todo' = Tail(todo)  BY <2>1, BuffersIs, ActionIs
  <2>3. AllInv("from", 3)'
    BY <1>3, <2>2
    DEF Buffers, SwitchesKept, mpVars, queueVars, loopVars, streamVars, readVars, history, AllInv,
        CallInv, OwnerInv, BirthInv, OrderInv, RestartInv, PausedInv, StickInv, StartedInv, Unless,
        Resuming, Taken, Waits, Ready, OnHold, HasLate, SeekingInv, EarlyInv, SeekInv, Early,
        AppBodies, LoopBodies
  <2> QED BY <2>1, <2>2, <2>3, MovesTo DEF Bodies, AppBodies, LoopBodies
<1>4. CASE k = 3
  <2>1. Head(todo) = On1("stream_seek") /\ Comes("from", 4, m)  BY <1>4 DEF Steps
  <2>2. SeeksStream /\ todo' = Tail(todo)  BY <2>1, SeeksStreamIs, ActionIs DEF On1
  <2>3. AllInv("from", 4)'
    BY <1>4, <2>2
    DEF SeeksStream, mpVars, queueVars, loopVars, streamVars, readVars, history, AllInv, CallInv,
        OwnerInv, BirthInv, OrderInv, RestartInv, PausedInv, StickInv, StartedInv, Unless, Resuming,
        Taken, Waits, Ready, OnHold, HasLate, SeekingInv, EarlyInv, SeekInv, Early, AppBodies,
        LoopBodies
  <2> QED BY <2>1, <2>2, <2>3, MovesTo DEF Bodies, AppBodies, LoopBodies
<1>5. CASE k = 4
  <2>1. Head(todo) = State("STARTED") /\ Comes("from", 5, m)  BY <1>5 DEF Steps
  <2>2. Becomes("STARTED") /\ todo' = Tail(todo)  BY <2>1, BecomesIs, ActionIs
  <2>3. AllInv("from", 5)'
    BY <1>5, <2>2
    DEF Becomes, mpVars, queueVars, loopVars, streamVars, readVars, history, AllInv, CallInv,
        OwnerInv, BirthInv, OrderInv, RestartInv, PausedInv, StickInv, StartedInv, Unless, Resuming,
        Taken, Waits, Ready, OnHold, HasLate, SeekingInv, EarlyInv, SeekInv, Early, AppBodies,
        LoopBodies
  <2> QED BY <2>1, <2>2, <2>3, MovesTo DEF Bodies, AppBodies, LoopBodies
<1>6. CASE k = 5
  <2>1. Head(todo) = Off1("restart") /\ Comes("from", 6, m)  BY <1>6 DEF Steps
  <2>2. Restarts(FALSE) /\ todo' = Tail(todo)  BY <2>1, RestartsOff, ActionIs
  <2>3. AllInv("from", 6)'
    BY <1>6, <2>2
    DEF Restarts, mpVars, queueVars, loopVars, streamVars, readVars, history, AllInv, CallInv,
        OwnerInv, BirthInv, OrderInv, RestartInv, PausedInv, StickInv, StartedInv, Unless, Resuming,
        Taken, Waits, Ready, OnHold, HasLate, SeekingInv, EarlyInv, SeekInv, Early, AppBodies,
        LoopBodies
  <2> QED BY <2>1, <2>2, <2>3, MovesTo DEF Bodies, AppBodies, LoopBodies
<1>7. CASE k = 6
  <2>1. Head(todo) = Off1("from_beginning") /\ Comes("none", 1, m)  BY <1>7 DEF Steps
  <2>2. FromBeginning(FALSE) /\ todo' = Tail(todo)  BY <2>1, FromBeginningOff, ActionIs
  <2>3. AllInv("none", 1)'
    BY <1>7, <2>2
    DEF FromBeginning, mpVars, queueVars, loopVars, streamVars, readVars, history, AllInv, CallInv,
        OwnerInv, BirthInv, OrderInv, RestartInv, PausedInv, StickInv, StartedInv, Unless, Resuming,
        Taken, Waits, Ready, OnHold, HasLate, SeekingInv, EarlyInv, SeekInv, Early, AppBodies,
        LoopBodies
  <2> QED BY <2>1, <2>2, <2>3, MovesTo DEF Bodies, AppBodies, LoopBodies
<1> QED BY <1>1, <1>2, <1>3, <1>4, <1>5, <1>6, <1>7

LEMMA DoesHold ==
    ASSUME TypeOK, LockedNext, todo # <<>>, NEW k, NEW m \in Positions,
           Steps("hold", k, m), AllInv("hold", k)
    PROVE  Moved
<1>1. k \in 1 .. 2  BY DEF Steps
<1>2. CASE k = 1
  <2>1. Head(todo) = On1("pause") /\ Comes("hold", 2, m)  BY <1>2 DEF Steps
  <2>2. Pauses(TRUE) /\ todo' = Tail(todo)  BY <2>1, PausesOn, ActionIs
  <2>3. AllInv("hold", 2)'
    BY <1>2, <2>2
    DEF Pauses, mpVars, queueVars, loopVars, streamVars, readVars, history, AllInv, CallInv,
        OwnerInv, BirthInv, OrderInv, RestartInv, PausedInv, StickInv, StartedInv, Unless, Resuming,
        Taken, Waits, Ready, OnHold, HasLate, SeekingInv, EarlyInv, SeekInv, Early, AppBodies,
        LoopBodies
  <2> QED BY <2>1, <2>2, <2>3, MovesTo DEF Bodies, AppBodies, LoopBodies
<1>3. CASE k = 2
  <2>1. Head(todo) = State("PAUSED") /\ Comes("none", 1, m)  BY <1>3 DEF Steps
  <2>2. Becomes("PAUSED") /\ todo' = Tail(todo)  BY <2>1, BecomesIs, ActionIs
  <2>3. AllInv("none", 1)'
    BY <1>3, <2>2
    DEF Becomes, mpVars, queueVars, loopVars, streamVars, readVars, history, AllInv, CallInv,
        OwnerInv, BirthInv, OrderInv, RestartInv, PausedInv, StickInv, StartedInv, Unless, Resuming,
        Taken, Waits, Ready, OnHold, HasLate, SeekingInv, EarlyInv, SeekInv, Early, AppBodies,
        LoopBodies
  <2> QED BY <2>1, <2>2, <2>3, MovesTo DEF Bodies, AppBodies, LoopBodies
<1> QED BY <1>1, <1>2, <1>3

LEMMA DoesMove ==
    ASSUME TypeOK, LockedNext, todo # <<>>, NEW k, NEW m \in Positions,
           Steps("move", k, m), AllInv("move", k)
    PROVE  Moved
<1>1. k \in 1 .. 2  BY DEF Steps
<1>2. CASE k = 1
  <2>1. Head(todo) = Off1("from_beginning") /\ Comes("move", 2, m)  BY <1>2 DEF Steps
  <2>2. FromBeginning(FALSE) /\ todo' = Tail(todo)  BY <2>1, FromBeginningOff, ActionIs
  <2>3. AllInv("move", 2)'
    BY <1>2, <2>2
    DEF FromBeginning, mpVars, queueVars, loopVars, streamVars, readVars, history, AllInv, CallInv,
        OwnerInv, BirthInv, OrderInv, RestartInv, PausedInv, StickInv, StartedInv, Unless, Resuming,
        Taken, Waits, Ready, OnHold, HasLate, SeekingInv, EarlyInv, SeekInv, Early, AppBodies,
        LoopBodies
  <2> QED BY <2>1, <2>2, <2>3, MovesTo DEF Bodies, AppBodies, LoopBodies
<1>3. CASE k = 2
  <2>1. Head(todo) = I("stream_seek", "ON", m) /\ Comes("none", 1, m)  BY <1>3 DEF Steps
  <2>2. SeeksStream /\ todo' = Tail(todo)  BY <2>1, SeeksStreamIs, ActionIs
  <2>3. AllInv("none", 1)'
    BY <1>3, <2>2
    DEF SeeksStream, mpVars, queueVars, loopVars, streamVars, readVars, history, AllInv, CallInv,
        OwnerInv, BirthInv, OrderInv, RestartInv, PausedInv, StickInv, StartedInv, Unless, Resuming,
        Taken, Waits, Ready, OnHold, HasLate, SeekingInv, EarlyInv, SeekInv, Early, AppBodies,
        LoopBodies
  <2> QED BY <2>1, <2>2, <2>3, MovesTo DEF Bodies, AppBodies, LoopBodies
<1> QED BY <1>1, <1>2, <1>3

LEMMA DoesPast ==
    ASSUME TypeOK, LockedNext, todo # <<>>, NEW k, NEW m \in Positions,
           Steps("past", k, m), AllInv("past", k)
    PROVE  Moved
<1>1. k \in 1 .. 3  BY DEF Steps
<1>2. CASE k = 1
  <2>1. Head(todo) = Off1("from_beginning") /\ Comes("past", 2, m)  BY <1>2 DEF Steps
  <2>2. FromBeginning(FALSE) /\ todo' = Tail(todo)  BY <2>1, FromBeginningOff, ActionIs
  <2>3. AllInv("past", 2)'
    BY <1>2, <2>2
    DEF FromBeginning, mpVars, queueVars, loopVars, streamVars, readVars, history, AllInv, CallInv,
        OwnerInv, BirthInv, OrderInv, RestartInv, PausedInv, StickInv, StartedInv, Unless, Resuming,
        Taken, Waits, Ready, OnHold, HasLate, SeekingInv, EarlyInv, SeekInv, Early, AppBodies,
        LoopBodies
  <2> QED BY <2>1, <2>2, <2>3, MovesTo DEF Bodies, AppBodies, LoopBodies
<1>3. CASE k = 2
  <2>1. Head(todo) = On1("pause") /\ Comes("past", 3, m)  BY <1>3 DEF Steps
  <2>2. Pauses(TRUE) /\ todo' = Tail(todo)  BY <2>1, PausesOn, ActionIs
  <2>3. AllInv("past", 3)'
    BY <1>3, <2>2
    DEF Pauses, mpVars, queueVars, loopVars, streamVars, readVars, history, AllInv, CallInv,
        OwnerInv, BirthInv, OrderInv, RestartInv, PausedInv, StickInv, StartedInv, Unless, Resuming,
        Taken, Waits, Ready, OnHold, HasLate, SeekingInv, EarlyInv, SeekInv, Early, AppBodies,
        LoopBodies
  <2> QED BY <2>1, <2>2, <2>3, MovesTo DEF Bodies, AppBodies, LoopBodies
<1>4. CASE k = 3
  <2>1. Head(todo) = I("put", "COMPLETED", 0) /\ Comes("none", 1, m)  BY <1>4 DEF Steps
  <2>2. Puts("COMPLETED") /\ todo' = Tail(todo)
    BY <2>1, PutsIs, PlayerAssumption, ActionIs
    DEF Late
  <2>3. AllInv("none", 1)'
    BY <1>4, <2>2
    DEF Puts, Sends, Late, mpVars, queueVars, loopVars, streamVars, readVars, history, AllInv,
        CallInv, OwnerInv, BirthInv, OrderInv, RestartInv, PausedInv, StickInv, StartedInv, Unless,
        Resuming, Taken, Waits, Ready, OnHold, HasLate, SeekingInv, EarlyInv, SeekInv, Early,
        AppBodies, LoopBodies
  <2> QED BY <2>1, <2>2, <2>3, MovesTo DEF Bodies, AppBodies, LoopBodies
<1> QED BY <1>1, <1>2, <1>3, <1>4

-------------------------------------------------------------------------------
(* The bodies that are put together from pieces. *)

LEMMA JoinIs ==
    ASSUME NEW S, NEW s \in Seq(S), NEW t \in Seq(S), NEW u \in Seq(S),
           Len(u) = Len(s) + Len(t), \A i \in 1 .. Len(s) : u[i] = s[i],
           \A i \in 1 .. Len(t) : u[Len(s) + i] = t[i]
    PROVE  s \o t = u
<1> DEFINE c == s \o t
<1>1. /\ c \in Seq(S) /\ Len(c) = Len(s) + Len(t)
      /\ \A i \in 1 .. Len(s) + Len(t) : c[i] = IF i <= Len(s) THEN s[i] ELSE t[i - Len(s)]
  BY ConcatProperties
<1>2. Len(s) \in Nat /\ Len(t) \in Nat  OBVIOUS
<1> HIDE DEF c
<1>3. ASSUME NEW i \in 1 .. Len(c) PROVE c[i] = u[i]
  <2>1. CASE i <= Len(s)
    <3>1. i \in 1 .. Len(s)  BY <1>1, <1>2, <2>1
    <3>2. c[i] = s[i]  BY <1>1, <2>1
    <3> QED BY <3>1, <3>2
  <2>2. CASE ~(i <= Len(s))
    <3>1. i - Len(s) \in 1 .. Len(t) /\ Len(s) + (i - Len(s)) = i  BY <1>1, <1>2, <2>2
    <3>2. c[i] = t[i - Len(s)]  BY <1>1, <2>2
    <3>3. u[Len(s) + (i - Len(s))] = t[i - Len(s)]  BY <3>1
    <3> QED BY <3>1, <3>2, <3>3
  <2> QED BY <2>1, <2>2
<1>4. c = u  BY <1>1, <1>3, SeqEqual
<1> QED BY <1>4 DEF c

LEMMA Join11 ==
    ASSUME NEW a, NEW b
    PROVE  <<a>> \o <<b>> = <<a, b>>
<1> DEFINE S == {a, b}
           s == <<a>>
           t == <<b>>
           u == <<a, b>>
<1>1. s \in Seq(S) /\ t \in Seq(S) /\ u \in Seq(S) /\ Len(s) = 1 /\ Len(t) = 1 /\ Len(u) = 2
  OBVIOUS
<1>2. (\A i \in 1 .. 1 : u[i] = s[i]) /\ (\A i \in 1 .. 1 : u[1 + i] = t[i])
  OBVIOUS
<1> HIDE DEF s, t, u, S
<1>3. /\ Len(u) = Len(s) + Len(t)
      /\ (\A i \in 1 .. Len(s) : u[i] = s[i]) /\ (\A i \in 1 .. Len(t) : u[Len(s) + i] = t[i])
  BY <1>1, <1>2
<1>4. s \o t = u  BY <1>1, <1>3, JoinIs
<1> QED BY <1>4 DEF s, t, u

LEMMA Join12 ==
    ASSUME NEW a, NEW b, NEW c
    PROVE  <<a>> \o <<b, c>> = <<a, b, c>>
<1> DEFINE S == {a, b, c}
           s == <<a>>
           t == <<b, c>>
           u == <<a, b, c>>
<1>1. s \in Seq(S) /\ t \in Seq(S) /\ u \in Seq(S) /\ Len(s) = 1 /\ Len(t) = 2 /\ Len(u) = 3
  OBVIOUS
<1>2. (\A i \in 1 .. 1 : u[i] = s[i]) /\ (\A i \in 1 .. 2 : u[1 + i] = t[i])
  OBVIOUS
<1> HIDE DEF s, t, u, S
<1>3. /\ Len(u) = Len(s) + Len(t)
      /\ (\A i \in 1 .. Len(s) : u[i] = s[i]) /\ (\A i \in 1 .. Len(t) : u[Len(s) + i] = t[i])
  BY <1>1, <1>2
<1>4. s \o t = u  BY <1>1, <1>3, JoinIs
<1> QED BY <1>4 DEF s, t, u

LEMMA Join21 ==
    ASSUME NEW a, NEW b, NEW c
    PROVE  <<a, b>> \o <<c>> = <<a, b, c>>
<1> DEFINE S == {a, b, c}
           s == <<a, b>>
           t == <<c>>
           u == <<a, b, c>>
<1>1. s \in Seq(S) /\ t \in Seq(S) /\ u \in Seq(S) /\ Len(s) = 2 /\ Len(t) = 1 /\ Len(u) = 3
  OBVIOUS
<1>2. (\A i \in 1 .. 2 : u[i] = s[i]) /\ (\A i \in 1 .. 1 : u[2 + i] = t[i])
  OBVIOUS
<1> HIDE DEF s, t, u, S
<1>3. /\ Len(u) = Len(s) + Len(t)
      /\ (\A i \in 1 .. Len(s) : u[i] = s[i]) /\ (\A i \in 1 .. Len(t) : u[Len(s) + i] = t[i])
  BY <1>1, <1>2
<1>4. s \o t = u  BY <1>1, <1>3, JoinIs
<1> QED BY <1>4 DEF s, t, u

LEMMA Join22 ==
    ASSUME NEW a, NEW b, NEW c, NEW d
    PROVE  <<a, b>> \o <<c, d>> = <<a, b, c, d>>
<1> DEFINE S == {a, b, c, d}
           s == <<a, b>>
           t == <<c, d>>
           u == <<a, b, c, d>>
<1>1. s \in Seq(S) /\ t \in Seq(S) /\ u \in Seq(S) /\ Len(s) = 2 /\ Len(t) = 2 /\ Len(u) = 4
  OBVIOUS
<1>2. (\A i \in 1 .. 2 : u[i] = s[i]) /\ (\A i \in 1 .. 2 : u[2 + i] = t[i])
  OBVIOUS
<1> HIDE DEF s, t, u, S
<1>3. /\ Len(u) = Len(s) + Len(t)
      /\ (\A i \in 1 .. Len(s) : u[i] = s[i]) /\ (\A i \in 1 .. Len(t) : u[Len(s) + i] = t[i])
  BY <1>1, <1>2
<1>4. s \o t = u  BY <1>1, <1>3, JoinIs
<1> QED BY <1>4 DEF s, t, u

LEMMA Join31 ==
    ASSUME NEW a, NEW b, NEW c, NEW d
    PROVE  <<a, b, c>> \o <<d>> = <<a, b, c, d>>
<1> DEFINE S == {a, b, c, d}
           s == <<a, b, c>>
           t == <<d>>
           u == <<a, b, c, d>>
<1>1. s \in Seq(S) /\ t \in Seq(S) /\ u \in Seq(S) /\ Len(s) = 3 /\ Len(t) = 1 /\ Len(u) = 4
  OBVIOUS
<1>2. (\A i \in 1 .. 3 : u[i] = s[i]) /\ (\A i \in 1 .. 1 : u[3 + i] = t[i])
  OBVIOUS
<1> HIDE DEF s, t, u, S
<1>3. /\ Len(u) = Len(s) + Len(t)
      /\ (\A i \in 1 .. Len(s) : u[i] = s[i]) /\ (\A i \in 1 .. Len(t) : u[Len(s) + i] = t[i])
  BY <1>1, <1>2
<1>4. s \o t = u  BY <1>1, <1>3, JoinIs
<1> QED BY <1>4 DEF s, t, u

LEMMA Join42 ==
    ASSUME NEW a, NEW b, NEW c, NEW d, NEW e, NEW f
    PROVE  <<a, b, c, d>> \o <<e, f>> = <<a, b, c, d, e, f>>
<1> DEFINE S == {a, b, c, d, e, f}
           s == <<a, b, c, d>>
           t == <<e, f>>
           u == <<a, b, c, d, e, f>>
<1>1. s \in Seq(S) /\ t \in Seq(S) /\ u \in Seq(S) /\ Len(s) = 4 /\ Len(t) = 2 /\ Len(u) = 6
  OBVIOUS
<1>2. (\A i \in 1 .. 4 : u[i] = s[i]) /\ (\A i \in 1 .. 2 : u[4 + i] = t[i])
  OBVIOUS
<1> HIDE DEF s, t, u, S
<1>3. /\ Len(u) = Len(s) + Len(t)
      /\ (\A i \in 1 .. Len(s) : u[i] = s[i]) /\ (\A i \in 1 .. Len(t) : u[Len(s) + i] = t[i])
  BY <1>1, <1>2
<1>4. s \o t = u  BY <1>1, <1>3, JoinIs
<1> QED BY <1>4 DEF s, t, u

-------------------------------------------------------------------------------
(* The calls of the application and the message loop. *)

LEMMA WholeBody ==
    ASSUME NEW b \in AppBodies \cup LoopBodies, NEW m \in Positions
    PROVE  LeftOf(Body(b, m), b, 1, m)
<1>1. b \in Bodies /\ b # "none"  BY DEF Bodies, AppBodies, LoopBodies
<1>2. Len(Body(b, m)) \in Nat /\ Len(Body(b, m)) > 0  BY <1>1, BodyLength
<1> DEFINE l == Len(Body(b, m))
           rest == Body(b, m)
<1> HIDE DEF l, rest
<1>3. 1 \in 1 .. l /\ l = l + 1 - 1 /\ \A j \in 1 .. l : 1 + j - 1 = j  BY <1>2 DEF l
<1> QED BY <1>1, <1>3 DEF LeftOf, l

LEMMA AppBodiesAre ==
    ASSUME NEW m
    PROVE  /\ SetDataSourceBody = Body("set", m)
           /\ PrepareAsyncBody(TRUE) = Body("prepare", m)
           /\ PrepareAsyncBody(FALSE) = Body("refused", m)
           /\ StartBody = Body("start", m)
           /\ PauseBody = Body("pause", m)
           /\ SeekToBody(m) = Body("seek", m)
           /\ open => StopBody = Body("stop", m)
           /\ ~open => StopBody = Body("quit", m)
<1>1. \A b \in AppBodies : Body(b, m) = AppBody(b, m)  BY DEF Body
<1>2. open => StopBody = Body("stop", m)
  <2>1. Body("stop", m) = <<Remove("REQ_START"), Remove("REQ_PAUSE"), On1("abort_stream"),
                            On1("pause"), On1("queue_abort"), State("STOPPED")>>
    BY <1>1, AppBodyIs DEF AppBodies
  <2>2. open => StopBody = (<<Remove("REQ_START"), Remove("REQ_PAUSE")>>
                            \o <<On1("abort_stream"), On1("pause")>>)
                           \o <<On1("queue_abort"), State("STOPPED")>>
    BY DEF StopBody, Remove, On1, State
  <2> QED BY <2>1, <2>2, Join22, Join42
<1>3. ~open => StopBody = Body("quit", m)
  <2>1. Body("quit", m) = <<Remove("REQ_START"), Remove("REQ_PAUSE"), On1("queue_abort"),
                            State("STOPPED")>>
    BY <1>1, AppBodyIs DEF AppBodies
  <2>2. ~open => StopBody = (<<Remove("REQ_START"), Remove("REQ_PAUSE")>> \o <<>>)
                            \o <<On1("queue_abort"), State("STOPPED")>>
    BY DEF StopBody, Remove, On1, State
  <2> DEFINE s == <<Remove("REQ_START"), Remove("REQ_PAUSE")>>
  <2>3. s \in Seq({Remove("REQ_START"), Remove("REQ_PAUSE")})  OBVIOUS
  <2>4. s \o <<>> = s  BY <2>3, ConcatEmptySeq
  <2> QED BY <2>1, <2>2, <2>4, Join22
<1> QED
  BY <1>1, <1>2, <1>3, AppBodyIs
  DEF AppBodies, SetDataSourceBody, PrepareAsyncBody, StartBody, PauseBody, SeekToBody, State,
      Remove, On1

Called(b, wish) ==
    /\ mutex = "free" /\ mutex' = "app" /\ asked' = wish
    /\ \E m \in Positions : todo' = Body(b, m)
    /\ UNCHANGED <<mpVars, queueVars, loopVars, streamVars, play, readVars, overtaken>>

LEMMA CalledTo ==
    ASSUME NEW b \in AppBodies, NEW wish, Called(b, wish), AllInv(b, 1)'
    PROVE  Moved
<1>1. PICK m \in Positions : todo' = Body(b, m)  BY DEF Called
<1>2. LeftOf(todo', b, 1, m)  BY <1>1, WholeBody
<1> QED BY <1>2 DEF Moved, Bodies

LEMMA CallsSetDataSource ==
    ASSUME TypeOK, NEW b \in Bodies, NEW k \in 1 .. 6, AllInv(b, k), SetDataSource
    PROVE  Moved
<1>1. Called("set", asked) /\ mp_state = "IDLE"
  BY AppBodiesAre, PlayerAssumption DEF SetDataSource, Call, Called
<1>2. ASSUME Called("set", asked) PROVE Moved
  <2>1. AllInv("set", 1)'
    BY <1>1, <1>2
    DEF Called, mpVars, lockVars, queueVars, loopVars, streamVars, readVars, history, AllInv,
        CallInv, OwnerInv, BirthInv, OrderInv, RestartInv, PausedInv, StickInv, StartedInv, Unless,
        Resuming, Taken, Waits, Ready, OnHold, HasLate, SeekingInv, EarlyInv, SeekInv, Early,
        AppBodies, LoopBodies
  <2> QED BY <1>2, <2>1, CalledTo DEF AppBodies
<1> QED BY <1>1, <1>2

LEMMA CallsPrepareAsync ==
    ASSUME TypeOK, NEW b \in Bodies, NEW k \in 1 .. 6, AllInv(b, k), PrepareAsync
    PROVE  Moved
<1>1. (Called("prepare", asked) \/ Called("refused", asked)) /\ mp_state = "INITIALIZED"
  <2>1. PICK ok \in BOOLEAN : Call(PrepareAsyncBody(ok), asked)  BY DEF PrepareAsync
  <2>2. PrepareAsyncBody(ok) = Body("prepare", 0) \/ PrepareAsyncBody(ok) = Body("refused", 0)
    BY AppBodiesAre
  <2> QED BY <2>1, <2>2, PlayerAssumption DEF PrepareAsync, Call, Called
<1>2. ASSUME Called("prepare", asked) PROVE Moved
  <2>1. AllInv("prepare", 1)'
    BY <1>1, <1>2
    DEF Called, mpVars, lockVars, queueVars, loopVars, streamVars, readVars, history, AllInv,
        CallInv, OwnerInv, BirthInv, OrderInv, RestartInv, PausedInv, StickInv, StartedInv, Unless,
        Resuming, Taken, Waits, Ready, OnHold, HasLate, SeekingInv, EarlyInv, SeekInv, Early,
        AppBodies, LoopBodies
  <2> QED BY <1>2, <2>1, CalledTo DEF AppBodies
<1>3. ASSUME Called("refused", asked) PROVE Moved
  <2>1. AllInv("refused", 1)'
    BY <1>1, <1>3
    DEF Called, mpVars, lockVars, queueVars, loopVars, streamVars, readVars, history, AllInv,
        CallInv, OwnerInv, BirthInv, OrderInv, RestartInv, PausedInv, StickInv, StartedInv, Unless,
        Resuming, Taken, Waits, Ready, OnHold, HasLate, SeekingInv, EarlyInv, SeekInv, Early,
        AppBodies, LoopBodies
  <2> QED BY <1>3, <2>1, CalledTo DEF AppBodies
<1> QED BY <1>1, <1>2, <1>3

LEMMA CallsStart ==
    ASSUME TypeOK, NEW b \in Bodies, NEW k \in 1 .. 6, AllInv(b, k), Start
    PROVE  Moved
<1>1. Called("start", "start") /\ Ready
  BY AppBodiesAre, PlayerAssumption DEF Start, Call, Called
<1>2. ASSUME Called("start", "start") PROVE Moved
  <2>1. AllInv("start", 1)'
    BY <1>1, <1>2
    DEF Called, mpVars, lockVars, queueVars, loopVars, streamVars, readVars, history, AllInv,
        CallInv, OwnerInv, BirthInv, OrderInv, RestartInv, PausedInv, StickInv, StartedInv, Unless,
        Resuming, Taken, Waits, Ready, OnHold, HasLate, SeekingInv, EarlyInv, SeekInv, Early,
        AppBodies, LoopBodies
  <2> QED BY <1>2, <2>1, CalledTo DEF AppBodies
<1> QED BY <1>1, <1>2

LEMMA CallsPause ==
    ASSUME TypeOK, NEW b \in Bodies, NEW k \in 1 .. 6, AllInv(b, k), Pause
    PROVE  Moved
<1>1. Called("pause", "pause") /\ Ready
  BY AppBodiesAre, PlayerAssumption DEF Pause, Call, Called
<1>2. ASSUME Called("pause", "pause") PROVE Moved
  <2>1. AllInv("pause", 1)'
    BY <1>1, <1>2
    DEF Called, mpVars, lockVars, queueVars, loopVars, streamVars, readVars, history, AllInv,
        CallInv, OwnerInv, BirthInv, OrderInv, RestartInv, PausedInv, StickInv, StartedInv, Unless,
        Resuming, Taken, Waits, Ready, OnHold, HasLate, SeekingInv, EarlyInv, SeekInv, Early,
        AppBodies, LoopBodies
  <2> QED BY <1>2, <2>1, CalledTo DEF AppBodies
<1> QED BY <1>1, <1>2

LEMMA CallsSeekTo ==
    ASSUME TypeOK, NEW b \in Bodies, NEW k \in 1 .. 6, AllInv(b, k), SeekTo
    PROVE  Moved
<1>1. Called("seek", asked) /\ Ready
  <2>1. PICK m \in Positions : Call(SeekToBody(m), asked)  BY DEF SeekTo
  <2>2. SeekToBody(m) = Body("seek", m)  BY AppBodiesAre
  <2> QED BY <2>1, <2>2 DEF SeekTo, Call, Called
<1>2. ASSUME Called("seek", asked) PROVE Moved
  <2>1. AllInv("seek", 1)'
    BY <1>1, <1>2
    DEF Called, mpVars, lockVars, queueVars, loopVars, streamVars, readVars, history, AllInv,
        CallInv, OwnerInv, BirthInv, OrderInv, RestartInv, PausedInv, StickInv, StartedInv, Unless,
        Resuming, Taken, Waits, Ready, OnHold, HasLate, SeekingInv, EarlyInv, SeekInv, Early,
        AppBodies, LoopBodies
  <2> QED BY <1>2, <2>1, CalledTo DEF AppBodies
<1> QED BY <1>1, <1>2

LEMMA CallsStop ==
    ASSUME TypeOK, NEW b \in Bodies, NEW k \in 1 .. 6, AllInv(b, k), Stop
    PROVE  Moved
<1>1. (Called("stop", asked) \/ Called("quit", asked)) /\ mp_state \notin {"IDLE", "INITIALIZED", "ERROR"}
  <2>1. Call(StopBody, asked) /\ 0 \in Positions  BY PlayerAssumption DEF Stop
  <2>2. StopBody = Body("stop", 0) \/ StopBody = Body("quit", 0)  BY AppBodiesAre
  <2> QED BY <2>1, <2>2 DEF Stop, Call, Called
<1>2. ASSUME Called("stop", asked) PROVE Moved
  <2>1. AllInv("stop", 1)'
    BY <1>1, <1>2
    DEF Called, mpVars, lockVars, queueVars, loopVars, streamVars, readVars, history, AllInv,
        CallInv, OwnerInv, BirthInv, OrderInv, RestartInv, PausedInv, StickInv, StartedInv, Unless,
        Resuming, Taken, Waits, Ready, OnHold, HasLate, SeekingInv, EarlyInv, SeekInv, Early,
        AppBodies, LoopBodies
  <2> QED BY <1>2, <2>1, CalledTo DEF AppBodies
<1>3. ASSUME Called("quit", asked) PROVE Moved
  <2>1. AllInv("quit", 1)'
    BY <1>1, <1>3
    DEF Called, mpVars, lockVars, queueVars, loopVars, streamVars, readVars, history, AllInv,
        CallInv, OwnerInv, BirthInv, OrderInv, RestartInv, PausedInv, StickInv, StartedInv, Unless,
        Resuming, Taken, Waits, Ready, OnHold, HasLate, SeekingInv, EarlyInv, SeekInv, Early,
        AppBodies, LoopBodies
  <2> QED BY <1>3, <2>1, CalledTo DEF AppBodies
<1> QED BY <1>1, <1>2, <1>3

LEMMA LoopBodiesAre ==
    ASSUME NEW m \in Positions
    PROVE  /\ <<>> = Body("none", m)
           /\ <<State("PREPARED")>> \o <<>> = Body("ready", m)
           /\ <<State("PREPARED")>> \o <<State("PAUSED")>> = Body("readyHeld", m)
           /\ <<>> \o <<State("PAUSED")>> = Body("held", m)
           /\ CompletedBody = Body("end", m)
           /\ <<Off1("mp_seek")>> = Body("answered", m)
           /\ (<<Off1("pause")>> \o <<State("STARTED")>>) \o <<>> = Body("resume", m)
           /\ (<<Off1("pause")>> \o <<State("STARTED")>>)
              \o <<Off1("restart"), Off1("from_beginning")>> = Body("again", m)
           /\ (FFStartFrom(0) \o <<State("STARTED")>>)
              \o <<Off1("restart"), Off1("from_beginning")>> = Body("from", m)
           /\ <<On1("pause"), State("PAUSED")>> = Body("hold", m)
           /\ <<Off1("from_beginning")>> \o <<I("stream_seek", "ON", m)>> = Body("move", m)
           /\ <<Off1("from_beginning")>> \o <<On1("pause"), I("put", "COMPLETED", 0)>>
              = Body("past", m)
<1>1. \A b \in LoopBodies : Body(b, m) = LoopBody(b, m)  BY DEF Body, AppBodies, LoopBodies
<1>2. \A a : <<a>> \in Seq({a}) /\ <<a>> \o <<>> = <<a>> /\ <<>> \o <<a>> = <<a>>
  <2> TAKE a
  <2>1. <<a>> \in Seq({a})  OBVIOUS
  <2> QED BY <2>1, ConcatEmptySeq
<1>3. \A a, b : (<<a>> \o <<b>>) \o <<>> = <<a, b>>
  <2> TAKE a, b
  <2>1. <<a, b>> \in Seq({a, b})  OBVIOUS
  <2> QED BY <2>1, Join11, ConcatEmptySeq
<1>4. FFStartFrom(0) = <<On1("auto_resume"), On1("buffering"), On1("stream_seek")>>
  <2>1. ~(AccurateSeek /\ Duration > 0 /\ 0 >= Duration)  BY PlayerAssumption
  <2>2. FFSeekTo(0) = <<On1("stream_seek")>>  BY <2>1 DEF FFSeekTo, On1
  <2>3. FFStartFrom(0) = <<On1("auto_resume"), On1("buffering")>> \o <<On1("stream_seek")>>
    BY <2>2 DEF FFStartFrom, On1
  <2> QED BY <2>3, Join21
<1>5. CompletedBody = Body("end", m)
  BY <1>1, LoopBodyIs DEF CompletedBody, LoopBodies, On1, State
<1>6. /\ <<State("PREPARED")>> \o <<>> = Body("ready", m)
      /\ <<State("PREPARED")>> \o <<State("PAUSED")>> = Body("readyHeld", m)
      /\ <<>> \o <<State("PAUSED")>> = Body("held", m)
  BY <1>1, <1>2, LoopBodyIs, Join11 DEF LoopBodies
<1>7. /\ (<<Off1("pause")>> \o <<State("STARTED")>>) \o <<>> = Body("resume", m)
      /\ (<<Off1("pause")>> \o <<State("STARTED")>>)
         \o <<Off1("restart"), Off1("from_beginning")>> = Body("again", m)
  BY <1>1, <1>3, LoopBodyIs, Join11, Join22 DEF LoopBodies
<1>8. (FFStartFrom(0) \o <<State("STARTED")>>)
      \o <<Off1("restart"), Off1("from_beginning")>> = Body("from", m)
  <2> DEFINE s == FFStartFrom(0) \o <<State("STARTED")>>
  <2>1. s = <<On1("auto_resume"), On1("buffering"), On1("stream_seek"), State("STARTED")>>
    BY <1>4, Join31
  <2>2. Body("from", m) = <<On1("auto_resume"), On1("buffering"), On1("stream_seek"),
                            State("STARTED"), Off1("restart"), Off1("from_beginning")>>
    BY <1>1, LoopBodyIs DEF LoopBodies
  <2> HIDE DEF s
  <2>3. s \o <<Off1("restart"), Off1("from_beginning")>> = Body("from", m)
    BY <2>1, <2>2, Join42
  <2> QED BY <2>3 DEF s
<1>9. /\ <<Off1("from_beginning")>> \o <<I("stream_seek", "ON", m)>> = Body("move", m)
      /\ <<Off1("from_beginning")>> \o <<On1("pause"), I("put", "COMPLETED", 0)>>
         = Body("past", m)
  BY <1>1, LoopBodyIs, Join11, Join12 DEF LoopBodies
<1>10. /\ <<Off1("mp_seek")>> = Body("answered", m)
       /\ <<On1("pause"), State("PAUSED")>> = Body("hold", m)
  BY <1>1, LoopBodyIs DEF LoopBodies
<1> QED BY <1>5, <1>6, <1>7, <1>8, <1>9, <1>10, NoneIs

\* The body that a message is handled by.
BodyFor(what, m) ==
    CASE what = "PREPARED"      -> IF mp_state = "ASYNC_PREPARING"
                                   THEN IF StartOnPrepared THEN "ready" ELSE "readyHeld"
                                   ELSE IF StartOnPrepared THEN "none" ELSE "held"
      [] what = "COMPLETED"     -> "end"
      [] what = "SEEK_COMPLETE" -> "answered"
      [] what = "REQ_START"     -> IF ~Ready THEN "none"
                                   ELSE IF ~restart THEN "resume"
                                   ELSE IF restart_from_beginning THEN "from" ELSE "again"
      [] what = "REQ_PAUSE"     -> IF Ready THEN "hold" ELSE "none"
      [] what = "REQ_SEEK"      -> IF ~Ready THEN "none"
                                   ELSE IF AccurateSeek /\ Duration > 0 /\ m >= Duration
                                        THEN "past" ELSE "move"

LEMMA HandlerIs ==
    ASSUME TypeOK, loop_msg.what \in Late \cup {"PREPARED"}
    PROVE  /\ loop_msg.arg \in Positions
           /\ Handler(loop_msg) = Body(BodyFor(loop_msg.what, loop_msg.arg), loop_msg.arg)
<1> DEFINE m == loop_msg.arg
<1>1. m \in Positions  BY DEF TypeOK, Messages
<1> HIDE DEF m
<1>2. CASE loop_msg.what = "PREPARED"
  <2>1. Handler(loop_msg) = PreparedBody  BY <1>2 DEF Handler
  <2>2. BodyFor(loop_msg.what, m) = IF mp_state = "ASYNC_PREPARING"
                                    THEN IF StartOnPrepared THEN "ready" ELSE "readyHeld"
                                    ELSE IF StartOnPrepared THEN "none" ELSE "held"
    BY <1>2 DEF BodyFor
  <2>3. <<>> \o <<>> = <<>>
    <3>1. <<>> \in Seq({0})  BY EmptySeq
    <3> QED BY <3>1, ConcatEmptySeq
  <2> QED BY <1>1, <2>1, <2>2, <2>3, LoopBodiesAre DEF PreparedBody, State, m
<1>3. CASE loop_msg.what = "COMPLETED"
  BY <1>1, <1>3, LoopBodiesAre DEF Handler, BodyFor, m
<1>4. CASE loop_msg.what = "SEEK_COMPLETE"
  BY <1>1, <1>4, LoopBodiesAre DEF Handler, BodyFor, Off1, m
<1>5. CASE loop_msg.what = "REQ_START"
  <2>1. Handler(loop_msg) = ReqStartBody  BY <1>5 DEF Handler
  <2>2. BodyFor(loop_msg.what, m) = IF ~Ready THEN "none"
                                    ELSE IF ~restart THEN "resume"
                                    ELSE IF restart_from_beginning THEN "from" ELSE "again"
    BY <1>5 DEF BodyFor
  <2>3. CASE ~Ready  BY <1>1, <2>1, <2>2, <2>3, LoopBodiesAre DEF ReqStartBody, m
  <2>4. CASE Ready /\ ~restart
    <3>1. ReqStartBody = (<<Off1("pause")>> \o <<State("STARTED")>>) \o <<>>
      BY <2>4 DEF ReqStartBody, Off1, State
    <3> QED BY <1>1, <2>1, <2>2, <2>4, <3>1, LoopBodiesAre DEF m
  <2>5. CASE Ready /\ restart /\ restart_from_beginning
    <3>1. ReqStartBody = (FFStartFrom(0) \o <<State("STARTED")>>)
                         \o <<Off1("restart"), Off1("from_beginning")>>
      BY <2>5 DEF ReqStartBody, Off1, State
    <3> QED BY <1>1, <2>1, <2>2, <2>5, <3>1, LoopBodiesAre DEF m
  <2>6. CASE Ready /\ restart /\ ~restart_from_beginning
    <3>1. ReqStartBody = (<<Off1("pause")>> \o <<State("STARTED")>>)
                         \o <<Off1("restart"), Off1("from_beginning")>>
      BY <2>6 DEF ReqStartBody, Off1, State
    <3> QED BY <1>1, <2>1, <2>2, <2>6, <3>1, LoopBodiesAre DEF m
  <2> QED BY <2>3, <2>4, <2>5, <2>6
<1>6. CASE loop_msg.what = "REQ_PAUSE"
  <2>1. Handler(loop_msg) = ReqPauseBody  BY <1>6 DEF Handler
  <2>2. BodyFor(loop_msg.what, m) = IF Ready THEN "hold" ELSE "none"  BY <1>6 DEF BodyFor
  <2> QED BY <1>1, <2>1, <2>2, LoopBodiesAre DEF ReqPauseBody, On1, State, m
<1>7. CASE loop_msg.what = "REQ_SEEK"
  <2>1. Handler(loop_msg) = ReqSeekBody(m)  BY <1>7 DEF Handler, m
  <2>2. BodyFor(loop_msg.what, m) = IF ~Ready THEN "none"
                                    ELSE IF AccurateSeek /\ Duration > 0 /\ m >= Duration
                                         THEN "past" ELSE "move"
    BY <1>7 DEF BodyFor
  <2>3. CASE ~Ready  BY <1>1, <2>1, <2>2, <2>3, LoopBodiesAre DEF ReqSeekBody, m
  <2>4. CASE Ready /\ AccurateSeek /\ Duration > 0 /\ m >= Duration
    <3>1. ReqSeekBody(m) = <<Off1("from_beginning")>> \o <<On1("pause"), I("put", "COMPLETED", 0)>>
      BY <2>4 DEF ReqSeekBody, FFSeekTo, Off1, On1
    <3> QED BY <1>1, <2>1, <2>2, <2>4, <3>1, LoopBodiesAre DEF m
  <2>5. CASE Ready /\ ~(AccurateSeek /\ Duration > 0 /\ m >= Duration)
    <3>1. ReqSeekBody(m) = <<Off1("from_beginning")>> \o <<I("stream_seek", "ON", m)>>
      BY <2>5 DEF ReqSeekBody, FFSeekTo, Off1
    <3> QED BY <1>1, <2>1, <2>2, <2>5, <3>1, LoopBodiesAre DEF m
  <2> QED BY <2>3, <2>4, <2>5
<1> QED BY <1>1, <1>2, <1>3, <1>4, <1>5, <1>6, <1>7 DEF Late, m

Locked(b, m) ==
    /\ loop_pc = "handle" /\ mutex = "free"
    /\ mutex' = "loop" /\ todo' = Body(b, m) /\ loop_pc' = "locked"
    /\ UNCHANGED <<mpVars, queueVars, loop_msg, streamVars, play, readVars, history>>

LEMMA LockedTo ==
    ASSUME NEW b \in LoopBodies \cup {"none"}, NEW m \in Positions, Locked(b, m), AllInv(b, 1)'
    PROVE  Moved
<1>1. CASE b = "none"
  <2>1. Len(todo') = 0  BY <1>1, NoneIs DEF Locked
  <2>2. LeftOf(todo', "none", 1, m)  BY <2>1, NothingLeft
  <2> QED BY <1>1, <2>2 DEF Moved, Bodies
<1>2. CASE b # "none"
  <2>1. LeftOf(todo', b, 1, m)  BY <1>2, WholeBody DEF Locked
  <2> QED BY <2>1 DEF Moved, Bodies
<1> QED BY <1>1, <1>2

LEMMA HandlesMessage ==
    ASSUME TypeOK, NEW b \in Bodies, NEW k \in 1 .. 6, AllInv(b, k), LoopHandle
    PROVE  Moved
<1> DEFINE what == loop_msg.what
           m == loop_msg.arg
           c == BodyFor(what, m)
<1>1. what \in Late \cup {"PREPARED"}
  BY DEF AllInv, CallInv, OwnerInv, Taken, LoopHandle
<1>2. m \in Positions /\ Handler(loop_msg) = Body(c, m)  BY <1>1, HandlerIs
<1>3. Locked(c, m)  BY <1>2 DEF LoopHandle, Locked
<1> HIDE DEF m
<1>4. CASE what = "PREPARED"
  <2>1. CASE mp_state = "ASYNC_PREPARING" /\ StartOnPrepared
    <3>1. c = "ready"  BY <1>4, <2>1 DEF BodyFor
    <3>2. AllInv("ready", 1)'
      BY <1>3, <1>4, <2>1, <3>1
      DEF Locked, mpVars, lockVars, queueVars, loopVars, streamVars, readVars, history, AllInv,
          CallInv, OwnerInv, BirthInv, OrderInv, RestartInv, PausedInv, StickInv, StartedInv,
          Unless, Resuming, Taken, Waits, Ready, OnHold, HasLate, SeekingInv, EarlyInv, SeekInv,
          Early, AppBodies, LoopBodies, Late
    <3> QED BY <1>2, <1>3, <3>1, <3>2, LockedTo DEF LoopBodies
  <2>2. CASE mp_state = "ASYNC_PREPARING" /\ ~StartOnPrepared
    <3>1. c = "readyHeld"  BY <1>4, <2>2 DEF BodyFor
    <3>2. AllInv("readyHeld", 1)'
      BY <1>3, <1>4, <2>2, <3>1
      DEF Locked, mpVars, lockVars, queueVars, loopVars, streamVars, readVars, history, AllInv,
          CallInv, OwnerInv, BirthInv, OrderInv, RestartInv, PausedInv, StickInv, StartedInv,
          Unless, Resuming, Taken, Waits, Ready, OnHold, HasLate, SeekingInv, EarlyInv, SeekInv,
          Early, AppBodies, LoopBodies, Late
    <3> QED BY <1>2, <1>3, <3>1, <3>2, LockedTo DEF LoopBodies
  <2>3. CASE mp_state # "ASYNC_PREPARING" /\ StartOnPrepared
    <3>1. c = "none"  BY <1>4, <2>3 DEF BodyFor
    <3>2. AllInv("none", 1)'
      BY <1>3, <1>4, <2>3, <3>1
      DEF Locked, mpVars, lockVars, queueVars, loopVars, streamVars, readVars, history, AllInv,
          CallInv, OwnerInv, BirthInv, OrderInv, RestartInv, PausedInv, StickInv, StartedInv,
          Unless, Resuming, Taken, Waits, Ready, OnHold, HasLate, SeekingInv, EarlyInv, SeekInv,
          Early, AppBodies, LoopBodies, Late
    <3> QED BY <1>2, <1>3, <3>1, <3>2, LockedTo DEF LoopBodies
  <2>4. CASE mp_state # "ASYNC_PREPARING" /\ ~StartOnPrepared
    <3>1. c = "held"  BY <1>4, <2>4 DEF BodyFor
    <3>2. AllInv("held", 1)'
      BY <1>3, <1>4, <2>4, <3>1
      DEF Locked, mpVars, lockVars, queueVars, loopVars, streamVars, readVars, history, AllInv,
          CallInv, OwnerInv, BirthInv, OrderInv, RestartInv, PausedInv, StickInv, StartedInv,
          Unless, Resuming, Taken, Waits, Ready, OnHold, HasLate, SeekingInv, EarlyInv, SeekInv,
          Early, AppBodies, LoopBodies, Late
    <3> QED BY <1>2, <1>3, <3>1, <3>2, LockedTo DEF LoopBodies
  <2> QED BY <2>1, <2>2, <2>3, <2>4
<1>5. CASE what = "COMPLETED"
  <2>1. c = "end"  BY <1>5 DEF BodyFor
  <2>2. AllInv("end", 1)'
    BY <1>3, <1>5, <2>1
    DEF Locked, mpVars, lockVars, queueVars, loopVars, streamVars, readVars, history, AllInv,
        CallInv, OwnerInv, BirthInv, OrderInv, RestartInv, PausedInv, StickInv, StartedInv, Unless,
        Resuming, Taken, Waits, Ready, OnHold, HasLate, SeekingInv, EarlyInv, SeekInv, Early,
        AppBodies, LoopBodies, Late
  <2> QED BY <1>2, <1>3, <2>1, <2>2, LockedTo DEF LoopBodies
<1>6. CASE what = "SEEK_COMPLETE"
  <2>1. c = "answered"  BY <1>6 DEF BodyFor
  <2>2. AllInv("answered", 1)'
    BY <1>3, <1>6, <2>1
    DEF Locked, mpVars, lockVars, queueVars, loopVars, streamVars, readVars, history, AllInv,
        CallInv, OwnerInv, BirthInv, OrderInv, RestartInv, PausedInv, StickInv, StartedInv, Unless,
        Resuming, Taken, Waits, Ready, OnHold, HasLate, SeekingInv, EarlyInv, SeekInv, Early,
        AppBodies, LoopBodies, Late
  <2> QED BY <1>2, <1>3, <2>1, <2>2, LockedTo DEF LoopBodies
<1>7. CASE what = "REQ_START"
  <2>1. CASE ~Ready
    <3>1. c = "none"  BY <1>7, <2>1 DEF BodyFor
    <3>2. AllInv("none", 1)'
      BY <1>3, <1>7, <2>1, <3>1
      DEF Locked, mpVars, lockVars, queueVars, loopVars, streamVars, readVars, history, AllInv,
          CallInv, OwnerInv, BirthInv, OrderInv, RestartInv, PausedInv, StickInv, StartedInv,
          Unless, Resuming, Taken, Waits, Ready, OnHold, HasLate, SeekingInv, EarlyInv, SeekInv,
          Early, AppBodies, LoopBodies, Late
    <3> QED BY <1>2, <1>3, <3>1, <3>2, LockedTo DEF LoopBodies
  <2>2. CASE Ready /\ ~restart
    <3>1. c = "resume"  BY <1>7, <2>2 DEF BodyFor
    <3>2. AllInv("resume", 1)'
      BY <1>3, <1>7, <2>2, <3>1
      DEF Locked, mpVars, lockVars, queueVars, loopVars, streamVars, readVars, history, AllInv,
          CallInv, OwnerInv, BirthInv, OrderInv, RestartInv, PausedInv, StickInv, StartedInv,
          Unless, Resuming, Taken, Waits, Ready, OnHold, HasLate, SeekingInv, EarlyInv, SeekInv,
          Early, AppBodies, LoopBodies, Late
    <3> QED BY <1>2, <1>3, <3>1, <3>2, LockedTo DEF LoopBodies
  <2>3. CASE Ready /\ restart /\ restart_from_beginning
    <3>1. c = "from"  BY <1>7, <2>3 DEF BodyFor
    <3>2. AllInv("from", 1)'
      BY <1>3, <1>7, <2>3, <3>1
      DEF Locked, mpVars, lockVars, queueVars, loopVars, streamVars, readVars, history, AllInv,
          CallInv, OwnerInv, BirthInv, OrderInv, RestartInv, PausedInv, StickInv, StartedInv,
          Unless, Resuming, Taken, Waits, Ready, OnHold, HasLate, SeekingInv, EarlyInv, SeekInv,
          Early, AppBodies, LoopBodies, Late
    <3> QED BY <1>2, <1>3, <3>1, <3>2, LockedTo DEF LoopBodies
  <2>4. CASE Ready /\ restart /\ ~restart_from_beginning
    <3>1. c = "again"  BY <1>7, <2>4 DEF BodyFor
    <3>2. AllInv("again", 1)'
      BY <1>3, <1>7, <2>4, <3>1
      DEF Locked, mpVars, lockVars, queueVars, loopVars, streamVars, readVars, history, AllInv,
          CallInv, OwnerInv, BirthInv, OrderInv, RestartInv, PausedInv, StickInv, StartedInv,
          Unless, Resuming, Taken, Waits, Ready, OnHold, HasLate, SeekingInv, EarlyInv, SeekInv,
          Early, AppBodies, LoopBodies, Late
    <3> QED BY <1>2, <1>3, <3>1, <3>2, LockedTo DEF LoopBodies
  <2> QED BY <2>1, <2>2, <2>3, <2>4
<1>8. CASE what = "REQ_PAUSE"
  <2>1. CASE ~Ready
    <3>1. c = "none"  BY <1>8, <2>1 DEF BodyFor
    <3>2. AllInv("none", 1)'
      BY <1>3, <1>8, <2>1, <3>1
      DEF Locked, mpVars, lockVars, queueVars, loopVars, streamVars, readVars, history, AllInv,
          CallInv, OwnerInv, BirthInv, OrderInv, RestartInv, PausedInv, StickInv, StartedInv,
          Unless, Resuming, Taken, Waits, Ready, OnHold, HasLate, SeekingInv, EarlyInv, SeekInv,
          Early, AppBodies, LoopBodies, Late
    <3> QED BY <1>2, <1>3, <3>1, <3>2, LockedTo DEF LoopBodies
  <2>2. CASE Ready
    <3>1. c = "hold"  BY <1>8, <2>2 DEF BodyFor
    <3>2. AllInv("hold", 1)'
      BY <1>3, <1>8, <2>2, <3>1
      DEF Locked, mpVars, lockVars, queueVars, loopVars, streamVars, readVars, history, AllInv,
          CallInv, OwnerInv, BirthInv, OrderInv, RestartInv, PausedInv, StickInv, StartedInv,
          Unless, Resuming, Taken, Waits, Ready, OnHold, HasLate, SeekingInv, EarlyInv, SeekInv,
          Early, AppBodies, LoopBodies, Late
    <3> QED BY <1>2, <1>3, <3>1, <3>2, LockedTo DEF LoopBodies
  <2> QED BY <2>1, <2>2
<1>9. CASE what = "REQ_SEEK"
  <2>1. CASE ~Ready
    <3>1. c = "none"  BY <1>9, <2>1 DEF BodyFor
    <3>2. AllInv("none", 1)'
      BY <1>3, <1>9, <2>1, <3>1
      DEF Locked, mpVars, lockVars, queueVars, loopVars, streamVars, readVars, history, AllInv,
          CallInv, OwnerInv, BirthInv, OrderInv, RestartInv, PausedInv, StickInv, StartedInv,
          Unless, Resuming, Taken, Waits, Ready, OnHold, HasLate, SeekingInv, EarlyInv, SeekInv,
          Early, AppBodies, LoopBodies, Late
    <3> QED BY <1>2, <1>3, <3>1, <3>2, LockedTo DEF LoopBodies
  <2>2. CASE Ready /\ AccurateSeek /\ Duration > 0 /\ m >= Duration
    <3>1. c = "past"  BY <1>9, <2>2 DEF BodyFor
    <3>2. ~SeeksInside
      BY <1>2, <2>2, PlayerAssumption DEF SeeksInside
    <3>3. AllInv("past", 1)'
      BY <1>3, <1>9, <2>2, <3>1, <3>2
      DEF Locked, mpVars, lockVars, queueVars, loopVars, streamVars, readVars, history, AllInv,
          CallInv, OwnerInv, BirthInv, OrderInv, RestartInv, PausedInv, StickInv, StartedInv,
          Unless, Resuming, Taken, Waits, Ready, OnHold, HasLate, SeekingInv, EarlyInv, SeekInv,
          Early, AppBodies, LoopBodies, Late
    <3> QED BY <1>2, <1>3, <3>1, <3>3, LockedTo DEF LoopBodies
  <2>3. CASE Ready /\ ~(AccurateSeek /\ Duration > 0 /\ m >= Duration)
    <3>1. c = "move"  BY <1>9, <2>3 DEF BodyFor
    <3>2. AllInv("move", 1)'
      BY <1>3, <1>9, <2>3, <3>1
      DEF Locked, mpVars, lockVars, queueVars, loopVars, streamVars, readVars, history, AllInv,
          CallInv, OwnerInv, BirthInv, OrderInv, RestartInv, PausedInv, StickInv, StartedInv,
          Unless, Resuming, Taken, Waits, Ready, OnHold, HasLate, SeekingInv, EarlyInv, SeekInv,
          Early, AppBodies, LoopBodies, Late
    <3> QED BY <1>2, <1>3, <3>1, <3>2, LockedTo DEF LoopBodies
  <2> QED BY <2>1, <2>2, <2>3
<1> QED BY <1>1, <1>4, <1>5, <1>6, <1>7, <1>8, <1>9 DEF Late

LEMMA GetsMessage ==
    ASSUME TypeOK, NEW b \in Bodies, NEW k \in 1 .. 6, AllInv(b, k), LoopGet
    PROVE  AllInv(b, k)'
<1>1. queue \in Seq(Messages) /\ queue # <<>> /\ queue' = Tail(queue) /\ loop_msg' = Head(queue)
  BY DEF TypeOK, LoopGet
<1>2. \A w : Has(queue, w) <=> loop_msg'.what = w \/ Has(queue', w)  BY <1>1, HasFirst
<1>3. PreparedFirst(queue) =>
         /\ PreparedFirst(queue')
         /\ loop_msg'.what \in Late \cup {"PREPARED"} => ~Has(queue', "PREPARED")
  BY <1>1, FirstTail
<1>4. loop_msg'.what \in Late \cup {"PREPARED", "FLUSH", "ERROR"}
  <2>1. loop_msg' \in Messages  BY <1>1, HeadTailProperties
  <2> QED BY <2>1 DEF Messages, Requests, Late
<1>5. /\ loop_pc = "get" /\ ~queue_abort
      /\ loop_pc' = IF loop_msg'.what \in {"FLUSH", "ERROR"} THEN "post" ELSE "handle"
      /\ UNCHANGED <<mpVars, lockVars, queue_abort, streamVars, play, readVars, history>>
  BY DEF LoopGet
<1> QED
  BY <1>2, <1>3, <1>4, <1>5
  DEF mpVars, lockVars, queueVars, loopVars, streamVars, readVars, history, AllInv, CallInv,
      OwnerInv, BirthInv, OrderInv, RestartInv, PausedInv, StickInv, StartedInv, Unless, Resuming,
      Taken, Waits, Ready, OnHold, HasLate, SeekingInv, EarlyInv, SeekInv, Early, AppBodies,
      LoopBodies, Late

LEMMA LoopEnds ==
    ASSUME TypeOK, NEW b \in Bodies, NEW k \in 1 .. 6, AllInv(b, k), LoopExit \/ LoopPost
    PROVE  AllInv(b, k)'
  BY DEF LoopExit, LoopPost, mpVars, lockVars, queueVars, loopVars, streamVars, readVars, history,
         AllInv, CallInv, OwnerInv, BirthInv, OrderInv, RestartInv, PausedInv, StickInv, StartedInv,
         Unless, Resuming, Taken, Waits, Ready, OnHold, HasLate, SeekingInv, EarlyInv, SeekInv,
         Early, AppBodies, LoopBodies, Late

LEMMA Unlocks ==
    ASSUME TypeOK, NEW b \in Bodies, NEW k \in 1 .. 6, AllInv(b, k), Unlock, b = "none"
    PROVE  AllInv(b, k)'
<1>1. mutex \in {"app", "loop"}  BY DEF TypeOK, Unlock
<1> QED
  BY <1>1
  DEF Unlock, mpVars, lockVars, queueVars, loopVars, streamVars, readVars, history, AllInv, CallInv,
      OwnerInv, BirthInv, OrderInv, RestartInv, PausedInv, StickInv, StartedInv, Unless, Resuming,
      Taken, Waits, Ready, OnHold, HasLate, SeekingInv, EarlyInv, SeekInv, Early, AppBodies,
      LoopBodies, Late

-------------------------------------------------------------------------------
(* Types. *)

\* A state is set to a state, and a request or COMPLETED is put.
LEMMA InstructionTyped ==
    ASSUME NEW b \in AppBodies \cup LoopBodies, NEW k, NEW m, Steps(b, k, m)
    PROVE  /\ Head(todo).op = "state" => Head(todo).what \in States
           /\ Head(todo).op = "put" => Head(todo).what \in Late
<1>1. CASE b = "set"
  <2>1. k \in 1 .. 1  BY <1>1 DEF Steps
  <2>2. Head(todo) \in {State("INITIALIZED")}
    BY <1>1, <2>1 DEF Steps
  <2> QED BY <2>2 DEF State, Remove, On1, Off1, I, States, Late
<1>2. CASE b = "prepare"
  <2>1. k \in 1 .. 4  BY <1>2 DEF Steps
  <2>2. Head(todo) \in {On1("queue_start"),
                        On1("spawn"),
                        On1("stream_open"),
                        State("ASYNC_PREPARING")}
    BY <1>2, <2>1 DEF Steps
  <2> QED BY <2>2 DEF State, Remove, On1, Off1, I, States, Late
<1>3. CASE b = "refused"
  <2>1. k \in 1 .. 4  BY <1>3 DEF Steps
  <2>2. Head(todo) \in {On1("queue_start"),
                        On1("spawn"),
                        State("ASYNC_PREPARING"),
                        State("ERROR")}
    BY <1>3, <2>1 DEF Steps
  <2> QED BY <2>2 DEF State, Remove, On1, Off1, I, States, Late
<1>4. CASE b = "start"
  <2>1. k \in 1 .. 3  BY <1>4 DEF Steps
  <2>2. Head(todo) \in {I("put", "REQ_START", 0),
                        Remove("REQ_PAUSE"),
                        Remove("REQ_START")}
    BY <1>4, <2>1 DEF Steps
  <2> QED BY <2>2 DEF State, Remove, On1, Off1, I, States, Late
<1>5. CASE b = "pause"
  <2>1. k \in 1 .. 3  BY <1>5 DEF Steps
  <2>2. Head(todo) \in {I("put", "REQ_PAUSE", 0),
                        Remove("REQ_PAUSE"),
                        Remove("REQ_START")}
    BY <1>5, <2>1 DEF Steps
  <2> QED BY <2>2 DEF State, Remove, On1, Off1, I, States, Late
<1>6. CASE b = "seek"
  <2>1. k \in 1 .. 3  BY <1>6 DEF Steps
  <2>2. Head(todo) \in {I("mp_seek", "ON", m),
                        I("put", "REQ_SEEK", m),
                        Remove("REQ_SEEK")}
    BY <1>6, <2>1 DEF Steps
  <2> QED BY <2>2 DEF State, Remove, On1, Off1, I, States, Late
<1>7. CASE b = "stop"
  <2>1. k \in 1 .. 6  BY <1>7 DEF Steps
  <2>2. Head(todo) \in {On1("abort_stream"),
                        On1("pause"),
                        On1("queue_abort"),
                        Remove("REQ_PAUSE"),
                        Remove("REQ_START"),
                        State("STOPPED")}
    BY <1>7, <2>1 DEF Steps
  <2> QED BY <2>2 DEF State, Remove, On1, Off1, I, States, Late
<1>8. CASE b = "quit"
  <2>1. k \in 1 .. 4  BY <1>8 DEF Steps
  <2>2. Head(todo) \in {On1("queue_abort"),
                        Remove("REQ_PAUSE"),
                        Remove("REQ_START"),
                        State("STOPPED")}
    BY <1>8, <2>1 DEF Steps
  <2> QED BY <2>2 DEF State, Remove, On1, Off1, I, States, Late
<1>9. CASE b = "ready"
  <2>1. k \in 1 .. 1  BY <1>9 DEF Steps
  <2>2. Head(todo) \in {State("PREPARED")}
    BY <1>9, <2>1 DEF Steps
  <2> QED BY <2>2 DEF State, Remove, On1, Off1, I, States, Late
<1>10. CASE b = "readyHeld"
  <2>1. k \in 1 .. 2  BY <1>10 DEF Steps
  <2>2. Head(todo) \in {State("PAUSED"),
                        State("PREPARED")}
    BY <1>10, <2>1 DEF Steps
  <2> QED BY <2>2 DEF State, Remove, On1, Off1, I, States, Late
<1>11. CASE b = "held"
  <2>1. k \in 1 .. 1  BY <1>11 DEF Steps
  <2>2. Head(todo) \in {State("PAUSED")}
    BY <1>11, <2>1 DEF Steps
  <2> QED BY <2>2 DEF State, Remove, On1, Off1, I, States, Late
<1>12. CASE b = "end"
  <2>1. k \in 1 .. 3  BY <1>12 DEF Steps
  <2>2. Head(todo) \in {On1("from_beginning"),
                        On1("restart"),
                        State("COMPLETED")}
    BY <1>12, <2>1 DEF Steps
  <2> QED BY <2>2 DEF State, Remove, On1, Off1, I, States, Late
<1>13. CASE b = "answered"
  <2>1. k \in 1 .. 1  BY <1>13 DEF Steps
  <2>2. Head(todo) \in {Off1("mp_seek")}
    BY <1>13, <2>1 DEF Steps
  <2> QED BY <2>2 DEF State, Remove, On1, Off1, I, States, Late
<1>14. CASE b = "resume"
  <2>1. k \in 1 .. 2  BY <1>14 DEF Steps
  <2>2. Head(todo) \in {Off1("pause"),
                        State("STARTED")}
    BY <1>14, <2>1 DEF Steps
  <2> QED BY <2>2 DEF State, Remove, On1, Off1, I, States, Late
<1>15. CASE b = "again"
  <2>1. k \in 1 .. 4  BY <1>15 DEF Steps
  <2>2. Head(todo) \in {Off1("from_beginning"),
                        Off1("pause"),
                        Off1("restart"),
                        State("STARTED")}
    BY <1>15, <2>1 DEF Steps
  <2> QED BY <2>2 DEF State, Remove, On1, Off1, I, States, Late
<1>16. CASE b = "from"
  <2>1. k \in 1 .. 6  BY <1>16 DEF Steps
  <2>2. Head(todo) \in {Off1("from_beginning"),
                        Off1("restart"),
                        On1("auto_resume"),
                        On1("buffering"),
                        On1("stream_seek"),
                        State("STARTED")}
    BY <1>16, <2>1 DEF Steps
  <2> QED BY <2>2 DEF State, Remove, On1, Off1, I, States, Late
<1>17. CASE b = "hold"
  <2>1. k \in 1 .. 2  BY <1>17 DEF Steps
  <2>2. Head(todo) \in {On1("pause"),
                        State("PAUSED")}
    BY <1>17, <2>1 DEF Steps
  <2> QED BY <2>2 DEF State, Remove, On1, Off1, I, States, Late
<1>18. CASE b = "move"
  <2>1. k \in 1 .. 2  BY <1>18 DEF Steps
  <2>2. Head(todo) \in {I("stream_seek", "ON", m),
                        Off1("from_beginning")}
    BY <1>18, <2>1 DEF Steps
  <2> QED BY <2>2 DEF State, Remove, On1, Off1, I, States, Late
<1>19. CASE b = "past"
  <2>1. k \in 1 .. 3  BY <1>19 DEF Steps
  <2>2. Head(todo) \in {I("put", "COMPLETED", 0),
                        Off1("from_beginning"),
                        On1("pause")}
    BY <1>19, <2>1 DEF Steps
  <2> QED BY <2>2 DEF State, Remove, On1, Off1, I, States, Late
<1> QED
  BY <1>1, <1>2, <1>3, <1>4, <1>5, <1>6, <1>7, <1>8, <1>9, <1>10, <1>11, <1>12, <1>13, <1>14, <1>15,
     <1>16, <1>17, <1>18, <1>19
  DEF AppBodies, LoopBodies

LEMMA BodyTyped ==
    ASSUME NEW b \in Bodies, NEW m \in Positions
    PROVE  Body(b, m) \in Seq(Instructions)
<1>1. 0 \in Positions  BY PlayerAssumption
<1>2. CASE b = "set"
  <2>1. Body(b, m) = <<State("INITIALIZED")>>
    BY <1>2, AppBodyIs DEF Body, AppBodies, LoopBodies
  <2>2. State("INITIALIZED") \in Instructions
    BY <1>1 DEF State, Remove, On1, Off1, I, Instructions, States, Requests
  <2> QED BY <2>1, <2>2
<1>3. CASE b = "prepare"
  <2>1. Body(b, m) = <<State("ASYNC_PREPARING"), On1("queue_start"), On1("spawn"), On1("stream_open")>>
    BY <1>3, AppBodyIs DEF Body, AppBodies, LoopBodies
  <2>2. /\ State("ASYNC_PREPARING") \in Instructions
        /\ On1("queue_start") \in Instructions
        /\ On1("spawn") \in Instructions
        /\ On1("stream_open") \in Instructions
    BY <1>1 DEF State, Remove, On1, Off1, I, Instructions, States, Requests
  <2> QED BY <2>1, <2>2
<1>4. CASE b = "refused"
  <2>1. Body(b, m) = <<State("ASYNC_PREPARING"), On1("queue_start"), On1("spawn"), State("ERROR")>>
    BY <1>4, AppBodyIs DEF Body, AppBodies, LoopBodies
  <2>2. /\ State("ASYNC_PREPARING") \in Instructions
        /\ On1("queue_start") \in Instructions
        /\ On1("spawn") \in Instructions
        /\ State("ERROR") \in Instructions
    BY <1>1 DEF State, Remove, On1, Off1, I, Instructions, States, Requests
  <2> QED BY <2>1, <2>2
<1>5. CASE b = "start"
  <2>1. Body(b, m) = <<Remove("REQ_START"), Remove("REQ_PAUSE"), I("put", "REQ_START", 0)>>
    BY <1>5, AppBodyIs DEF Body, AppBodies, LoopBodies
  <2>2. /\ Remove("REQ_START") \in Instructions
        /\ Remove("REQ_PAUSE") \in Instructions
        /\ I("put", "REQ_START", 0) \in Instructions
    BY <1>1 DEF State, Remove, On1, Off1, I, Instructions, States, Requests
  <2> QED BY <2>1, <2>2
<1>6. CASE b = "pause"
  <2>1. Body(b, m) = <<Remove("REQ_START"), Remove("REQ_PAUSE"), I("put", "REQ_PAUSE", 0)>>
    BY <1>6, AppBodyIs DEF Body, AppBodies, LoopBodies
  <2>2. /\ Remove("REQ_START") \in Instructions
        /\ Remove("REQ_PAUSE") \in Instructions
        /\ I("put", "REQ_PAUSE", 0) \in Instructions
    BY <1>1 DEF State, Remove, On1, Off1, I, Instructions, States, Requests
  <2> QED BY <2>1, <2>2
<1>7. CASE b = "seek"
  <2>1. Body(b, m) = <<I("mp_seek", "ON", m), Remove("REQ_SEEK"), I("put", "REQ_SEEK", m)>>
    BY <1>7, AppBodyIs DEF Body, AppBodies, LoopBodies
  <2>2. /\ I("mp_seek", "ON", m) \in Instructions
        /\ Remove("REQ_SEEK") \in Instructions
        /\ I("put", "REQ_SEEK", m) \in Instructions
    BY <1>1 DEF State, Remove, On1, Off1, I, Instructions, States, Requests
  <2> QED BY <2>1, <2>2
<1>8. CASE b = "stop"
  <2>1. Body(b, m) = <<Remove("REQ_START"), Remove("REQ_PAUSE"), On1("abort_stream"), On1("pause"),
                       On1("queue_abort"), State("STOPPED")>>
    BY <1>8, AppBodyIs DEF Body, AppBodies, LoopBodies
  <2>2. /\ Remove("REQ_START") \in Instructions
        /\ Remove("REQ_PAUSE") \in Instructions
        /\ On1("abort_stream") \in Instructions
        /\ On1("pause") \in Instructions
        /\ On1("queue_abort") \in Instructions
        /\ State("STOPPED") \in Instructions
    BY <1>1 DEF State, Remove, On1, Off1, I, Instructions, States, Requests
  <2> QED BY <2>1, <2>2
<1>9. CASE b = "quit"
  <2>1. Body(b, m) = <<Remove("REQ_START"), Remove("REQ_PAUSE"), On1("queue_abort"), State("STOPPED")>>
    BY <1>9, AppBodyIs DEF Body, AppBodies, LoopBodies
  <2>2. /\ Remove("REQ_START") \in Instructions
        /\ Remove("REQ_PAUSE") \in Instructions
        /\ On1("queue_abort") \in Instructions
        /\ State("STOPPED") \in Instructions
    BY <1>1 DEF State, Remove, On1, Off1, I, Instructions, States, Requests
  <2> QED BY <2>1, <2>2
<1>10. CASE b = "ready"
  <2>1. Body(b, m) = <<State("PREPARED")>>
    BY <1>10, LoopBodyIs DEF Body, AppBodies, LoopBodies
  <2>2. State("PREPARED") \in Instructions
    BY <1>1 DEF State, Remove, On1, Off1, I, Instructions, States, Requests
  <2> QED BY <2>1, <2>2
<1>11. CASE b = "readyHeld"
  <2>1. Body(b, m) = <<State("PREPARED"), State("PAUSED")>>
    BY <1>11, LoopBodyIs DEF Body, AppBodies, LoopBodies
  <2>2. /\ State("PREPARED") \in Instructions
        /\ State("PAUSED") \in Instructions
    BY <1>1 DEF State, Remove, On1, Off1, I, Instructions, States, Requests
  <2> QED BY <2>1, <2>2
<1>12. CASE b = "held"
  <2>1. Body(b, m) = <<State("PAUSED")>>
    BY <1>12, LoopBodyIs DEF Body, AppBodies, LoopBodies
  <2>2. State("PAUSED") \in Instructions
    BY <1>1 DEF State, Remove, On1, Off1, I, Instructions, States, Requests
  <2> QED BY <2>1, <2>2
<1>13. CASE b = "end"
  <2>1. Body(b, m) = <<On1("restart"), On1("from_beginning"), State("COMPLETED")>>
    BY <1>13, LoopBodyIs DEF Body, AppBodies, LoopBodies
  <2>2. /\ On1("restart") \in Instructions
        /\ On1("from_beginning") \in Instructions
        /\ State("COMPLETED") \in Instructions
    BY <1>1 DEF State, Remove, On1, Off1, I, Instructions, States, Requests
  <2> QED BY <2>1, <2>2
<1>14. CASE b = "answered"
  <2>1. Body(b, m) = <<Off1("mp_seek")>>
    BY <1>14, LoopBodyIs DEF Body, AppBodies, LoopBodies
  <2>2. Off1("mp_seek") \in Instructions
    BY <1>1 DEF State, Remove, On1, Off1, I, Instructions, States, Requests
  <2> QED BY <2>1, <2>2
<1>15. CASE b = "resume"
  <2>1. Body(b, m) = <<Off1("pause"), State("STARTED")>>
    BY <1>15, LoopBodyIs DEF Body, AppBodies, LoopBodies
  <2>2. /\ Off1("pause") \in Instructions
        /\ State("STARTED") \in Instructions
    BY <1>1 DEF State, Remove, On1, Off1, I, Instructions, States, Requests
  <2> QED BY <2>1, <2>2
<1>16. CASE b = "again"
  <2>1. Body(b, m) = <<Off1("pause"), State("STARTED"), Off1("restart"), Off1("from_beginning")>>
    BY <1>16, LoopBodyIs DEF Body, AppBodies, LoopBodies
  <2>2. /\ Off1("pause") \in Instructions
        /\ State("STARTED") \in Instructions
        /\ Off1("restart") \in Instructions
        /\ Off1("from_beginning") \in Instructions
    BY <1>1 DEF State, Remove, On1, Off1, I, Instructions, States, Requests
  <2> QED BY <2>1, <2>2
<1>17. CASE b = "from"
  <2>1. Body(b, m) = <<On1("auto_resume"), On1("buffering"), On1("stream_seek"), State("STARTED"),
                       Off1("restart"), Off1("from_beginning")>>
    BY <1>17, LoopBodyIs DEF Body, AppBodies, LoopBodies
  <2>2. /\ On1("auto_resume") \in Instructions
        /\ On1("buffering") \in Instructions
        /\ On1("stream_seek") \in Instructions
        /\ State("STARTED") \in Instructions
        /\ Off1("restart") \in Instructions
        /\ Off1("from_beginning") \in Instructions
    BY <1>1 DEF State, Remove, On1, Off1, I, Instructions, States, Requests
  <2> QED BY <2>1, <2>2
<1>18. CASE b = "hold"
  <2>1. Body(b, m) = <<On1("pause"), State("PAUSED")>>
    BY <1>18, LoopBodyIs DEF Body, AppBodies, LoopBodies
  <2>2. /\ On1("pause") \in Instructions
        /\ State("PAUSED") \in Instructions
    BY <1>1 DEF State, Remove, On1, Off1, I, Instructions, States, Requests
  <2> QED BY <2>1, <2>2
<1>19. CASE b = "move"
  <2>1. Body(b, m) = <<Off1("from_beginning"), I("stream_seek", "ON", m)>>
    BY <1>19, LoopBodyIs DEF Body, AppBodies, LoopBodies
  <2>2. /\ Off1("from_beginning") \in Instructions
        /\ I("stream_seek", "ON", m) \in Instructions
    BY <1>1 DEF State, Remove, On1, Off1, I, Instructions, States, Requests
  <2> QED BY <2>1, <2>2
<1>20. CASE b = "past"
  <2>1. Body(b, m) = <<Off1("from_beginning"), On1("pause"), I("put", "COMPLETED", 0)>>
    BY <1>20, LoopBodyIs DEF Body, AppBodies, LoopBodies
  <2>2. /\ Off1("from_beginning") \in Instructions
        /\ On1("pause") \in Instructions
        /\ I("put", "COMPLETED", 0) \in Instructions
    BY <1>1 DEF State, Remove, On1, Off1, I, Instructions, States, Requests
  <2> QED BY <2>1, <2>2
<1>21. CASE b = "none"
  BY <1>21, NoneIs, <<>> \in Seq(Instructions)
<1> QED
  BY <1>2, <1>3, <1>4, <1>5, <1>6, <1>7, <1>8, <1>9, <1>10, <1>11, <1>12, <1>13, <1>14, <1>15,
     <1>16, <1>17, <1>18, <1>19, <1>20, <1>21
  DEF Bodies, AppBodies, LoopBodies

LEMMA LockedTyped ==
    ASSUME TypeOK, LockedNext, NEW b \in Bodies, NEW k, NEW m, LeftOf(todo, b, k, m)
    PROVE  TypeOK'
<1>1. CASE todo = <<>>
  <2>1. Unlock
    BY <1>1
    DEF LockedNext, ChangeState, SetRestart, SetSeek, MsgQueueRemove, MsgQueuePut, MsgQueueStart,
        MsgQueueAbort, SpawnMsgLoop, StreamOpen, AbortStream, PressSwitch, StreamSeek, Next1, Takes
  <2> QED BY <2>1 DEF Unlock, TypeOK, mpVars, queueVars, streamVars, readVars, history
<1>2. CASE todo # <<>>
  <2>1. /\ Head(todo).op = "state" => Head(todo).what \in States
        /\ Head(todo).op = "put" => Head(todo).what \in Late
    BY <1>2, StepsAre, InstructionTyped
  <2>2. Head(todo) \in Instructions /\ Tail(todo) \in Seq(Instructions)
    BY <1>2, HeadTailProperties DEF TypeOK
  <2>3. todo' = Tail(todo) /\ Head(todo).arg \in Positions  BY <1>2, <2>2, ActionIs DEF Instructions
  <2> USE <1>2, <2>1, <2>2, <2>3
  <2> USE DEF Next1, Takes, mpVars, queueVars, loopVars, streamVars, readVars
  <2>4. CASE ChangeState
    <3>1. /\ Head(todo).op = "state" /\ mp_state' = Head(todo).what
          /\ UNCHANGED <<restart, restart_from_beginning, mp_seek_req, mp_seek_msec, mutex,
                         queueVars, loopVars, streamVars, play, readVars, calls, asked, overtaken>>
      BY <2>4 DEF ChangeState
    <3>2. mp_state' \in States  BY <3>1
    <3> QED BY <3>1, <3>2 DEF TypeOK
  <2>5. CASE SetRestart
    <3>1. On \in BOOLEAN  BY DEF On
    <3>2. restart' \in BOOLEAN /\ restart_from_beginning' \in BOOLEAN
      BY <2>5, <3>1 DEF SetRestart, TypeOK
    <3>3. UNCHANGED <<mp_state, mp_seek_req, mp_seek_msec, queueVars, loopVars, streamVars, play, readVars,
                      mutex, calls, asked, overtaken>>
      BY <2>5 DEF SetRestart
    <3> QED BY <3>2, <3>3 DEF TypeOK
  <2>6. CASE SetSeek
    <3>1. On \in BOOLEAN  BY DEF On
    <3>2. mp_seek_req' \in BOOLEAN /\ mp_seek_msec' \in Positions
      BY <2>6, <3>1 DEF SetSeek
    <3>3. UNCHANGED <<mp_state, restart, restart_from_beginning, queueVars, loopVars, streamVars,
                      play, readVars, mutex, calls, asked, overtaken>>
      BY <2>6 DEF SetSeek
    <3> QED BY <3>2, <3>3 DEF TypeOK
  <2>7. CASE MsgQueueRemove
    <3>1. queue' \in Seq(Messages)  BY <2>7, WithoutKeeps DEF MsgQueueRemove, TypeOK
    <3>2. UNCHANGED <<mpVars, loopVars, streamVars, play, readVars, mutex, calls, asked, overtaken>>
          /\ queue_abort' \in BOOLEAN
      BY <2>7 DEF MsgQueueRemove, TypeOK
    <3> QED BY <3>1, <3>2 DEF TypeOK
  <2>8. CASE MsgQueuePut
    <3>0. Head(todo).op = "put" /\ queue' = Put(Msg(Head(todo).what, Head(todo).arg))
      BY <2>8 DEF MsgQueuePut
    <3>1. queue' \in Seq(Messages)  BY <3>0, Sent DEF Late
    <3>2. UNCHANGED <<mpVars, loopVars, streamVars, play, readVars, mutex, calls, asked, overtaken>>
          /\ queue_abort' \in BOOLEAN
      BY <2>8 DEF MsgQueuePut, TypeOK
    <3> QED BY <3>1, <3>2 DEF TypeOK
  <2>9. CASE MsgQueueStart
    <3>0. Msg("FLUSH", 0) \in Messages  BY MessageIs, PlayerAssumption
    <3>1. queue' \in Seq(Messages)  BY <2>9, <3>0 DEF MsgQueueStart, TypeOK
    <3>2. UNCHANGED <<mpVars, loopVars, streamVars, play, readVars, mutex, calls, asked, overtaken>>
          /\ queue_abort' \in BOOLEAN
      BY <2>9 DEF MsgQueueStart, TypeOK
    <3> QED BY <3>1, <3>2 DEF TypeOK
  <2>10. CASE MsgQueueAbort  BY <2>10 DEF MsgQueueAbort, TypeOK
  <2>11. CASE SpawnMsgLoop  BY <2>11 DEF SpawnMsgLoop, TypeOK
  <2>12. CASE StreamOpen  BY <2>12 DEF StreamOpen, TypeOK
  <2>13. CASE AbortStream  BY <2>13 DEF AbortStream, TypeOK
  <2>14. CASE PressSwitch
    <3>1. play' \in Switches
      <4>1. On \in BOOLEAN /\ play \in Switches  BY DEF On, TypeOK
      <4>2. \/ play' = TogglePause(play, On) \/ play' = [play EXCEPT !.auto_resume = TRUE]
            \/ play' = ToggleBuffering(play, On, PacketBuffering)
        BY <2>14 DEF PressSwitch
      <4>3. ASSUME play' = TogglePause(play, On) PROVE play' \in Switches
        BY <4>1, <4>3, TogglePauseIs
      <4>4. ASSUME play' = [play EXCEPT !.auto_resume = TRUE] PROVE play' \in Switches
        BY <4>1, <4>4, ArmedIs
      <4>5. ASSUME play' = ToggleBuffering(play, On, PacketBuffering) PROVE play' \in Switches
        BY <4>1, <4>5, ToggleBufferingIs
      <4> QED BY <4>2, <4>3, <4>4, <4>5
    <3>2. UNCHANGED <<mpVars, queueVars, loopVars, streamVars, readVars, mutex, calls, asked>>
          /\ overtaken' \in BOOLEAN
      BY <2>14 DEF PressSwitch, TypeOK
    <3> QED BY <3>1, <3>2 DEF TypeOK
  <2>15. CASE StreamSeek  BY <2>15 DEF StreamSeek, TypeOK, RequestSeek
  <2> QED
    BY <2>4, <2>5, <2>6, <2>7, <2>8, <2>9, <2>10, <2>11, <2>12, <2>13, <2>14, <2>15
    DEF LockedNext, Unlock
<1> QED BY <1>1, <1>2

LEMMA AppTyped ==
    ASSUME TypeOK, AppNext
    PROVE  TypeOK'
<1>1. \E body \in Seq(Instructions), wish \in {asked, "start", "pause"} : Call(body, wish)
  <2>1. /\ SetDataSourceBody \in Seq(Instructions)
        /\ PrepareAsyncBody(TRUE) \in Seq(Instructions) /\ PrepareAsyncBody(FALSE) \in Seq(Instructions)
        /\ StartBody \in Seq(Instructions) /\ PauseBody \in Seq(Instructions)
        /\ StopBody \in Seq(Instructions)
    BY AppBodiesAre, BodyTyped, PlayerAssumption DEF Bodies, AppBodies
  <2>2. \A m \in Positions : SeekToBody(m) \in Seq(Instructions)
    BY AppBodiesAre, BodyTyped DEF Bodies, AppBodies
  <2> QED BY <2>1, <2>2 DEF AppNext, SetDataSource, PrepareAsync, Start, Pause, SeekTo, Stop
<1>2. PICK body \in Seq(Instructions), wish \in {asked, "start", "pause"} : Call(body, wish)
  BY <1>1
<1>3. calls + 1 \in 0 .. MaxCalls  BY <1>2, PlayerAssumption DEF Call, TypeOK
<1> QED BY <1>2, <1>3 DEF Call, TypeOK, mpVars, queueVars, loopVars, streamVars, readVars

LEMMA LoopTyped ==
    ASSUME TypeOK, LoopNext, NEW b \in Bodies, OwnerInv(b)
    PROVE  TypeOK'
<1> USE DEF mpVars, lockVars, queueVars, loopVars, streamVars, readVars, history
<1>1. CASE LoopGet
  <2>1. queue \in Seq(Messages) /\ queue # <<>> /\ queue' = Tail(queue) /\ loop_msg' = Head(queue)
    BY <1>1 DEF TypeOK, LoopGet
  <2>2. queue' \in Seq(Messages) /\ loop_msg' \in Messages  BY <2>1, HeadTailProperties
  <2> QED BY <1>1, <2>2 DEF LoopGet, TypeOK
<1>2. CASE LoopExit  BY <1>2 DEF LoopExit, TypeOK
<1>3. CASE LoopHandle
  <2>1. loop_msg.what \in Late \cup {"PREPARED"}  BY <1>3 DEF LoopHandle, OwnerInv, Taken
  <2>2. loop_msg.arg \in Positions
        /\ Handler(loop_msg) = Body(BodyFor(loop_msg.what, loop_msg.arg), loop_msg.arg)
    BY <2>1, HandlerIs
  <2>3. BodyFor(loop_msg.what, loop_msg.arg) \in Bodies
    BY <2>1 DEF BodyFor, Late, Bodies, AppBodies, LoopBodies
  <2>4. Handler(loop_msg) \in Seq(Instructions)  BY <2>2, <2>3, BodyTyped
  <2> QED BY <1>3, <2>4 DEF LoopHandle, TypeOK
<1>4. CASE LoopPost  BY <1>4 DEF LoopPost, TypeOK
<1> QED BY <1>1, <1>2, <1>3, <1>4 DEF LoopNext

LEMMA ReadTyped ==
    ASSUME TypeOK, ReadNext \/ SinkNext
    PROVE  TypeOK'
<1>1. play \in Switches /\ 0 \in Positions /\ read_target \in Positions
  BY PlayerAssumption DEF TypeOK
<1> USE DEF ReadStep, ReadGoes, ReadLocals, mpVars, lockVars, queueVars, loopVars, streamVars,
            readVars, history
<1>2. CASE ReadOpenFailed  BY <1>1, <1>2 DEF ReadOpenFailed, TypeOK
<1>3. CASE ReadPrepared
  <2>1. [play EXCEPT !.aout_paused = FALSE] \in Switches
    BY <1>1, OpenedIs
  <2>2. play' \in Switches
    BY <1>1, <1>3, <2>1, TogglePauseIs DEF ReadPrepared
  <2>3. queue' \in Seq(Messages)
    BY <1>1, <1>3, Sent DEF ReadPrepared, Notify, Late, TypeOK
  <2>4. ReadStep("open", IF StartOnPrepared THEN "resume" ELSE "wait_start") /\ prepared' \in BOOLEAN
       /\ UNCHANGED <<is_seek_req, is_seek_pos, read_target, completed, loop_count, eof, drained>>
    BY <1>3 DEF ReadPrepared
  <2> QED BY <2>1, <2>2, <2>3, <2>4 DEF TypeOK
<1>4. CASE ReadWaitStart  BY <1>1, <1>4 DEF ReadWaitStart, TypeOK
<1>5. CASE ReadResume
  <2>1. queue' \in Seq(Messages)
    BY <1>1, <1>5, Sent DEF ReadResume, Notify, Late, TypeOK
  <2> QED BY <1>5, <2>1 DEF ReadResume, TypeOK
<1>6. CASE ReadResumed
  <2>1. play' \in Switches
    BY <1>1, <1>6, ArmedIs DEF ReadResumed
  <2> QED BY <1>6, <2>1 DEF ReadResumed, TypeOK
<1>7. CASE ReadAbort  BY <1>1, <1>7 DEF ReadAbort, TypeOK
<1>8. CASE ReadNoSeek  BY <1>1, <1>8 DEF ReadNoSeek, TypeOK
<1>9. CASE ReadSeekBegin
  <2>1. play' \in Switches
    BY <1>1, <1>9, ToggleBufferingIs DEF ReadSeekBegin
  <2>2. ReadStep("loop", "seeking") /\ read_target' = is_seek_pos
       /\ UNCHANGED <<queue, is_seek_req, is_seek_pos, completed, prepared, loop_count, eof, drained>>
    BY <1>9 DEF ReadSeekBegin
  <2> QED BY <2>1, <2>2 DEF TypeOK
<1>10. CASE ReadSeekDone
  <2>1. PICK ok \in BOOLEAN : drained' = (drained /\ ~ok)  BY <1>10 DEF ReadSeekDone
  <2>2. (drained /\ ~ok) \in BOOLEAN  OBVIOUS
  <2>3. drained' \in BOOLEAN  BY <2>1, <2>2
  <2>4. /\ ReadStep("seeking", "seek_resume")
        /\ is_seek_req' \in BOOLEAN /\ eof' \in BOOLEAN /\ completed' \in BOOLEAN
        /\ UNCHANGED <<queue, is_seek_pos, play, read_target, prepared, loop_count>>
    BY <1>10 DEF ReadSeekDone
  <2> QED BY <2>3, <2>4 DEF TypeOK
<1>11. CASE ReadSeekResume
  <2>1. play' \in Switches
    BY <1>1, <1>11, ResumeOrStepIs, PlayerAssumption DEF ReadSeekResume
  <2>2. ReadStep("seek_resume", "seek_notify") /\ UNCHANGED <<queue, ReadLocals>>
    BY <1>11 DEF ReadSeekResume
  <2> QED BY <2>1, <2>2 DEF TypeOK
<1>12. CASE ReadSeekNotify
  <2>1. queue' \in Seq(Messages)
    BY <1>1, <1>12, Sent DEF ReadSeekNotify, Notify, Late, TypeOK
  <2> QED BY <1>12, <2>1 DEF ReadSeekNotify, TypeOK
<1>13. CASE ReadSeekBuffer
  <2>1. play' \in Switches
    BY <1>1, <1>13, ToggleBufferingIs DEF ReadSeekBuffer
  <2>2. ReadStep("seek_buffer", "body") /\ UNCHANGED <<queue, ReadLocals>>
    BY <1>13 DEF ReadSeekBuffer
  <2> QED BY <2>1, <2>2 DEF TypeOK
<1>14. CASE ReadPacket
  <2>1. play' = ToggleBuffering(play, FALSE, PacketBuffering) \/ play' = play
    BY <1>14 DEF ReadPacket
  <2>2. ASSUME play' = ToggleBuffering(play, FALSE, PacketBuffering) PROVE play' \in Switches
    BY <1>1, <2>2, ToggleBufferingIs
  <2>3. play' \in Switches
    BY <1>1, <2>1, <2>2
  <2>4. ReadStep("body", "loop") /\ ~eof' /\ eof' \in BOOLEAN
       /\ UNCHANGED <<queue, is_seek_req, is_seek_pos, read_target, completed, prepared, loop_count, drained>>
    BY <1>14 DEF ReadPacket
  <2> QED BY <2>1, <2>2, <2>3, <2>4 DEF TypeOK
<1>15. CASE ReadEof
  <2>1. play' \in Switches
    BY <1>1, <1>15, ToggleBufferingIs DEF ReadEof
  <2>2. ReadStep("body", "loop") /\ eof' \in BOOLEAN
       /\ UNCHANGED <<queue, is_seek_req, is_seek_pos, read_target, completed, prepared, loop_count, drained>>
    BY <1>15 DEF ReadEof
  <2> QED BY <2>1, <2>2 DEF TypeOK
<1>16. CASE ReadLoopSeek  BY <1>1, <1>16 DEF ReadLoopSeek, TypeOK, RequestSeek
<1>17. CASE ReadEnded
  <2>1. play' \in Switches
    BY <1>1, <1>17, ArmedIs DEF ReadEnded
  <2> QED BY <1>17, <2>1 DEF ReadEnded, TypeOK
<1>18. CASE ReadEndBuffering
  <2>1. play' \in Switches
    BY <1>1, <1>18, ToggleBufferingIs DEF ReadEndBuffering
  <2>2. ReadStep("ending", "end_pause") /\ UNCHANGED <<queue, ReadLocals>>
    BY <1>18 DEF ReadEndBuffering
  <2> QED BY <2>1, <2>2 DEF TypeOK
<1>19. CASE ReadEndPause
  <2>1. play' \in Switches
    BY <1>1, <1>19, TogglePauseIs DEF ReadEndPause
  <2>2. ReadStep("end_pause", "end_notify") /\ UNCHANGED <<queue, ReadLocals>>
    BY <1>19 DEF ReadEndPause
  <2> QED BY <2>1, <2>2 DEF TypeOK
<1>20. CASE ReadEndNotify
  <2>1. queue' \in Seq(Messages)
    BY <1>1, <1>20, Sent DEF ReadEndNotify, Notify, Late, TypeOK
  <2> QED BY <1>20, <2>1 DEF ReadEndNotify, TypeOK
<1>21. CASE ReadEndedWait  BY <1>1, <1>21 DEF ReadEndedWait, TypeOK
<1>22. CASE ReadExit
  <2>1. queue' \in Seq(Messages)
    BY <1>1, <1>22, Sent DEF ReadExit, Notify, Late, TypeOK
  <2> QED BY <1>22, <2>1 DEF ReadExit, TypeOK
<1>23. CASE DecoderStarves
  <2>1. play' \in Switches
    BY <1>1, <1>23, ToggleBufferingIs DEF DecoderStarves
  <2>2. UNCHANGED <<mpVars, lockVars, queueVars, loopVars, streamVars, readVars, history>>
    BY <1>23 DEF DecoderStarves
  <2> QED BY <2>1, <2>2 DEF TypeOK
<1>24. CASE PlayOut  BY <1>1, <1>24 DEF PlayOut, TypeOK
<1>25. CASE RefreshFrameShown
  <2>1. play' \in Switches
    BY <1>1, <1>25, FrameShownIs DEF RefreshFrameShown
  <2>2. UNCHANGED <<mpVars, lockVars, queueVars, loopVars, streamVars, readVars, history>>
    BY <1>25 DEF RefreshFrameShown
  <2> QED BY <2>1, <2>2 DEF TypeOK
<1> QED
  BY <1>2, <1>3, <1>4, <1>5, <1>6, <1>7, <1>8, <1>9, <1>10, <1>11, <1>12, <1>13, <1>14, <1>15,
     <1>16, <1>17, <1>18, <1>19, <1>20, <1>21, <1>22, <1>23, <1>24, <1>25
  DEF ReadNext, SinkNext

-------------------------------------------------------------------------------
(* Every step keeps the invariant. *)
LEMMA LockedKeeps ==
    ASSUME TypeOK, LockedNext, NEW b \in Bodies, NEW k \in 1 .. 6, NEW m \in Positions,
           LeftOf(todo, b, k, m), AllInv(b, k)
    PROVE  Moved
<1>1. CASE todo = <<>>
  <2>1. Unlock
    BY <1>1
    DEF LockedNext, ChangeState, SetRestart, SetSeek, MsgQueueRemove, MsgQueuePut, MsgQueueStart,
        MsgQueueAbort, SpawnMsgLoop, StreamOpen, AbortStream, PressSwitch, StreamSeek, Next1, Takes
  <2>2. b = "none"  BY <1>1, DoneIs
  <2>3. AllInv(b, k)'  BY <2>1, <2>2, Unlocks
  <2>4. todo' = todo  BY <2>1 DEF Unlock
  <2> QED BY <2>3, <2>4 DEF Moved
<1>2. CASE todo # <<>>
  <2>1. b \in AppBodies \cup LoopBodies /\ Steps(b, k, m)  BY <1>2, StepsAre
  <2>2. CASE b \in AppBodies
    BY <1>2, <2>1, <2>2, DoesSet, DoesPrepare, DoesRefused, DoesStart, DoesPause, DoesSeek,
       DoesStop, DoesQuit
    DEF AppBodies
  <2>3. CASE b \in LoopBodies
    BY <1>2, <2>1, <2>3, DoesReady, DoesReadyHeld, DoesHeld, DoesEnd, DoesAnswered, DoesResume,
       DoesAgain, DoesFrom, DoesHold, DoesMove, DoesPast
    DEF LoopBodies
  <2> QED BY <2>1, <2>2, <2>3
<1> QED BY <1>1, <1>2

\* The threads that do not take mp->mutex leave the body under it alone.
LEMMA OthersKeep ==
    ASSUME TypeOK, ReadNext \/ SinkNext, NEW b \in Bodies, NEW k \in 1 .. 6, AllInv(b, k)
    PROVE  AllInv(b, k)'
  BY KeepsOpenFailed, KeepsPrepared, KeepsWaitStart, KeepsResume, KeepsResumed, KeepsAbort,
     KeepsNoSeek, KeepsSeekBegin, KeepsSeekDone, KeepsSeekResume, KeepsSeekNotify, KeepsSeekBuffer,
     KeepsPacket, KeepsEof, KeepsLoopSeek, KeepsEnded, KeepsEndBuffering, KeepsEndPause,
     KeepsEndNotify, KeepsEndedWait, KeepsExit, KeepsStarves, KeepsPlayOut, KeepsFrameShown
  DEF ReadNext, SinkNext

LEMMA OthersLeave ==
    ASSUME ReadNext \/ SinkNext
    PROVE  todo' = todo
<1>1. CASE ReadNext
  BY <1>1
  DEF ReadNext, ReadOpenFailed, ReadPrepared, ReadWaitStart, ReadResume, ReadResumed, ReadAbort,
      ReadNoSeek, ReadSeekBegin, ReadSeekDone, ReadSeekResume, ReadSeekNotify, ReadSeekBuffer,
      ReadPacket, ReadEof, ReadLoopSeek, ReadEnded, ReadEndBuffering, ReadEndPause, ReadEndNotify,
      ReadEndedWait, ReadExit, ReadStep, ReadGoes, lockVars
<1>2. CASE SinkNext
  BY <1>2 DEF SinkNext, DecoderStarves, PlayOut, RefreshFrameShown, lockVars
<1> QED BY <1>1, <1>2

InBody(b, k, m) == LeftOf(todo, b, k, m) /\ AllInv(b, k)
IInv == TypeOK /\ \E b \in Bodies, k \in 1 .. 6, m \in Positions : InBody(b, k, m)

LEMMA InitKeeps == Init => IInv
<1> SUFFICES ASSUME Init PROVE IInv  OBVIOUS
<1>1. play \in Switches /\ ~play.auto_resume /\ (play.pause_req <=> ~StartOnPrepared)
  BY PlayerAssumption DEF Init, InitialSwitches, Switches
<1>2. loop_msg \in Messages
  BY MessageIs, PlayerAssumption DEF Init
<1>3. TypeOK
  <2>1. queue \in Seq(Messages) /\ todo \in Seq(Instructions)  BY DEF Init
  <2>2. /\ restart \in BOOLEAN /\ restart_from_beginning \in BOOLEAN /\ mp_seek_req \in BOOLEAN
        /\ queue_abort \in BOOLEAN /\ open \in BOOLEAN /\ abort_request \in BOOLEAN
        /\ is_seek_req \in BOOLEAN /\ completed \in BOOLEAN /\ prepared \in BOOLEAN
        /\ eof \in BOOLEAN /\ drained \in BOOLEAN /\ overtaken \in BOOLEAN
    BY DEF Init
  <2>3. /\ mp_state \in States /\ mp_seek_msec \in Positions
        /\ mutex \in {"free", "app", "loop"}
        /\ loop_pc \in {"none", "get", "handle", "locked", "post", "exited"}
        /\ is_seek_pos \in Positions /\ read_target \in Positions /\ loop_count \in Nat
        /\ calls \in 0 .. MaxCalls /\ asked \in {"none", "start", "pause", "failed"}
    BY PlayerAssumption DEF Init, States
  <2>4. read_pc = "none"  BY DEF Init
  <2> QED BY <1>1, <1>2, <2>1, <2>2, <2>3, <2>4 DEF TypeOK
<1>4. LeftOf(todo, "none", 1, 0)
  BY NothingLeft, PlayerAssumption DEF Init
<1>5. (\A what : ~Has(queue, what)) /\ PreparedFirst(queue)
  BY HasNone, FirstNone DEF Init
<1>6. AllInv("none", 1)
  BY <1>1, <1>5
  DEF Init, AllInv, CallInv, OwnerInv, BirthInv, OrderInv, RestartInv, PausedInv, StickInv,
      StartedInv, SeekingInv, EarlyInv, SeekInv, Bodies, AppBodies, LoopBodies, Taken, Waits,
      HasLate, Ready, Resuming, OnHold, Early
<1>7. "none" \in Bodies /\ 1 \in 1 .. 6 /\ 0 \in Positions  BY PlayerAssumption DEF Bodies
<1> QED BY <1>3, <1>4, <1>6, <1>7 DEF IInv, InBody

LEMMA StepKeeps == IInv /\ [Next]_vars => IInv'
<1> SUFFICES ASSUME IInv, [Next]_vars PROVE IInv'  OBVIOUS
<1>1. PICK b \in Bodies, k \in 1 .. 6, m \in Positions : InBody(b, k, m)  BY DEF IInv
<1>2. TypeOK /\ LeftOf(todo, b, k, m) /\ AllInv(b, k)  BY <1>1 DEF IInv, InBody
<1>3. ASSUME Moved, TypeOK' PROVE IInv'
  BY <1>3 DEF Moved, IInv, InBody
<1>4. ASSUME todo' = todo, AllInv(b, k)', TypeOK' PROVE IInv'
  <2>1. LeftOf(todo', b, k, m)  BY <1>2, <1>4
  <2> QED BY <1>4, <2>1 DEF IInv, InBody
<1>5. OwnerInv(b)  BY <1>2 DEF AllInv, CallInv
<1>6. CASE AppNext
  <2>1. Moved
    BY <1>2, <1>6, CallsSetDataSource, CallsPrepareAsync, CallsStart, CallsPause, CallsSeekTo,
       CallsStop
    DEF AppNext
  <2> QED BY <1>2, <1>3, <1>6, <2>1, AppTyped
<1>7. CASE LockedNext
  BY <1>2, <1>3, <1>7, LockedKeeps, LockedTyped
<1>8. CASE LoopNext
  <2>1. TypeOK'  BY <1>2, <1>5, <1>8, LoopTyped
  <2>2. CASE LoopHandle  BY <1>2, <1>3, <2>1, <2>2, HandlesMessage
  <2>3. CASE LoopGet
    <3>1. todo' = todo  BY <2>3 DEF LoopGet, lockVars
    <3> QED BY <1>2, <1>4, <2>1, <2>3, <3>1, GetsMessage
  <2>4. CASE LoopExit \/ LoopPost
    <3>1. todo' = todo  BY <2>4 DEF LoopExit, LoopPost, lockVars
    <3> QED BY <1>2, <1>4, <2>1, <2>4, <3>1, LoopEnds
  <2> QED BY <1>8, <2>2, <2>3, <2>4 DEF LoopNext
<1>9. CASE ReadNext \/ SinkNext
  BY <1>2, <1>4, <1>9, ReadTyped, OthersKeep, OthersLeave
<1>10. CASE UNCHANGED vars
  <2>1. todo' = todo  BY <1>10 DEF vars, lockVars
  <2>2. TypeOK'
    BY <1>2, <1>10
    DEF TypeOK, vars, mpVars, lockVars, queueVars, loopVars, streamVars, readVars, history
  <2>3. AllInv(b, k)'
    BY <1>2, <1>10
    DEF vars, mpVars, lockVars, queueVars, loopVars, streamVars, readVars, history, AllInv, CallInv,
        OwnerInv, BirthInv, OrderInv, RestartInv, PausedInv, StickInv, StartedInv, SeekingInv,
        EarlyInv, SeekInv, Taken, Waits, HasLate, Ready, Resuming, OnHold, Early, Unless
  <2> QED BY <1>4, <2>1, <2>2, <2>3
<1> QED BY <1>6, <1>7, <1>8, <1>9, <1>10 DEF Next

(***************************************************************************)
(* In every state the player is in the middle of one of its bodies, at an  *)
(* instruction that the state of the player, the message loop, the queue   *)
(* and read_thread fit: the inductive invariant of ijkplayer.c.            *)
(***************************************************************************)
THEOREM CallInvHolds == Spec => []IInv
<1>1. Init => IInv  BY InitKeeps
<1>2. IInv /\ [Next]_vars => IInv'  BY StepKeeps
<1> QED BY <1>1, <1>2, PTL DEF Spec

\* Every variable of ijkplayer.c, of the message loop and of read_thread has its type.
THEOREM PlayerTypeCorrect == Spec => []TypeOK
<1>1. IInv => TypeOK  BY DEF IInv
<1> QED BY <1>1, CallInvHolds, PTL

-------------------------------------------------------------------------------
(* What the invariant says when nobody holds mp->mutex and nothing is on   *)
(* its way.                                                                *)
LEMMA FreeIs ==
    ASSUME IInv, mutex = "free"
    PROVE  \E k \in 1 .. 6 : AllInv("none", k) /\ loop_pc # "locked"
  BY DEF IInv, InBody, AllInv, CallInv, OwnerInv

LEMMA SettledIs ==
    ASSUME Settled
    PROVE  /\ mutex = "free" /\ ~queue_abort /\ ~is_seek_req
           /\ read_pc \in {"wait_start", "loop", "body", "ended"}
           /\ \A w \in Requests \cup {"PREPARED", "COMPLETED"} : ~Has(queue, w) /\ ~Waits(w)
  BY DEF Settled, InFlight, Queued, Has, Waits

(***************************************************************************)
(* Whatever the constants: a player that says PAUSED is held, a start is   *)
(* not undone by an earlier pause, and a restart is armed by the end of    *)
(* playback alone.  A player that says STARTED plays, but after the one    *)
(* race in which read_thread clears the auto_resume of a start that came   *)
(* after the one it has answered (ff_ffplay.c:3337-3339).                  *)
(***************************************************************************)
THEOREM CallsAreKept ==
    Spec => [](PausedHolds /\ StartSticks /\ RestartArmed /\ (StartedPlays \/ overtaken))
<1>1. IInv => PausedHolds /\ StartSticks /\ (StartedPlays \/ overtaken)
  <2> SUFFICES ASSUME IInv, Settled
               PROVE  /\ mp_state = "PAUSED" => play.pause_req
                      /\ asked = "start" => mp_state \in {"STARTED", "COMPLETED"}
                      /\ mp_state = "STARTED" => ~play.pause_req \/ asked = "failed" \/ overtaken
    BY DEF PausedHolds, StartSticks, StartedPlays
  <2>1. PICK k \in 1 .. 6 : AllInv("none", k) /\ loop_pc # "locked"  BY FreeIs, SettledIs
  <2>2. CallInv("none", k)  BY <2>1 DEF AllInv
  <2>3. PausedInv("none", k) /\ StickInv("none", k) /\ StartedInv("none", k)  BY <2>2 DEF CallInv
  <2> QED BY <2>3, SettledIs DEF PausedInv, StickInv, StartedInv, Unless, OnHold, Resuming, Requests
<1>2. IInv => RestartArmed
  <2> SUFFICES ASSUME IInv, mutex = "free"
               PROVE  /\ restart_from_beginning => restart
                      /\ mp_state = "COMPLETED" => restart
                      /\ mp_state \in {"PREPARED", "STARTED"} => ~restart
    BY DEF RestartArmed
  <2>1. PICK k \in 1 .. 6 : AllInv("none", k)  BY FreeIs
  <2> QED BY <2>1 DEF AllInv, CallInv, RestartInv
<1> QED BY <1>1, <1>2, CallInvHolds, PTL

(***************************************************************************)
(* The state a player reports, the switches it plays by and the last call  *)
(* of the application agree once nothing is on its way between them, in a  *)
(* player whose seeks stay inside the stream (every seek of a player that  *)
(* does not seek accurately, or does not know its duration, does).         *)
(***************************************************************************)
THEOREM LastCallHoldsTrue ==
    ASSUME SeeksInside
    PROVE  Spec => []LastCallHolds
<1>1. IInv => ~overtaken
  BY DEF IInv, InBody, AllInv, SeekingInv, EarlyInv
<1>2. ~overtaken /\ PausedHolds /\ StartSticks /\ RestartArmed /\ (StartedPlays \/ overtaken)
      => LastCallHolds
  BY DEF LastCallHolds
<1> QED BY <1>1, <1>2, CallInvHolds, CallsAreKept, PTL

(***************************************************************************)
(* While ijkmp_get_current_position answers with the target of a seek,     *)
(* that seek or its answer is on its way, in a player whose seeks stay     *)
(* inside the stream: the reported position does not freeze.               *)
(***************************************************************************)
THEOREM SeekTrackedTrue ==
    ASSUME SeeksInside
    PROVE  Spec => []SeekTracked
<1>1. IInv => SeekTracked
  <2> SUFFICES ASSUME IInv, mutex = "free", ~queue_abort, mp_seek_req
               PROVE  \/ is_seek_req \/ read_pc \in {"seek_resume", "seek_notify"}
                      \/ InFlight({"REQ_SEEK", "SEEK_COMPLETE"})
    BY DEF SeekTracked
  <2>1. PICK k \in 1 .. 6 : AllInv("none", k)  BY FreeIs
  <2>2. SeekInv("none", k)  BY <2>1 DEF AllInv, SeekingInv
  <2>3. \/ is_seek_req \/ read_pc \in {"seek_resume", "seek_notify"}
        \/ Has(queue, "REQ_SEEK") \/ Has(queue, "SEEK_COMPLETE")
        \/ Waits("REQ_SEEK") \/ Waits("SEEK_COMPLETE")
    BY <2>2 DEF SeekInv
  <2> QED BY <2>3 DEF InFlight, Queued, Has, Waits
<1> QED BY <1>1, CallInvHolds, PTL
===============================================================================
