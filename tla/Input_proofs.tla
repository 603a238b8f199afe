----------------------------- MODULE Input_proofs -----------------------------
(***************************************************************************)
(* Proofs about the input side: AsyncBuffer, for every size of the         *)
(* resource, of the ring, of a copy and of a short seek - what the reader  *)
(* is told is true -, and UrlHook, for any resource, number of attempts    *)
(* and connections.                                                        *)
(***************************************************************************)
EXTENDS AsyncBuffer, UrlHook, SequenceTheorems, TLAPS

-----------------------------------------------------------------------------
(***************************************************************************)
(* AsyncBuffer: the inductive invariant.                                   *)
(***************************************************************************)
\* The position behind the last byte in the ring.
RingEnd == Base - readPos + Len(ring)

\* What stopped the inner resource was no error.
NoError(err) == err \in {"none", "eof"}

\* What the background thread is at: what it copied fits what it wants, and an
\* empty copy without an error is the end of the resource.
BackInv ==
    /\ back \in [pc : {"top", "copy", "tell", "gone"}, want : Nat, copied : Seq(Nat)]
    /\ back.pc = "copy" => Len(back.copied) <= back.want
    /\ back.pc # "copy" => back.copied = << >>
    /\ back.pc \in {"copy", "tell"} =>
          /\ ~eofReached
          /\ back.want = 0 /\ NoError(innerError) => inner = Size

\* A call has no result yet; a seek is asked for by the call that waits for it.
SeekInv ==
    /\ call.op \in {"read", "seek"} => result = "none"
    /\ seeking.pos \in 0 .. Size
    /\ MustAbort \/ (seeking.request => call.op = "seek" /\ ~seeking.completed)

\* The bytes on their way to the ring continue it, and an end is one.
WindowInv ==
    \/ MustAbort
    \/ /\ \A i \in 1 .. Len(ring) : ring[i] = Base - readPos + i - 1
       /\ \A i \in 1 .. Len(back.copied) : back.copied[i] = RingEnd + i - 1
       /\ ~eofReached \/ NoError(ioError) => inner = RingEnd + Len(back.copied)
       /\ eofReached /\ NoError(ioError) => inner = Size

AsyncInv == AsyncTypeOK /\ BackInv /\ SeekInv /\ WindowInv /\ EofIsTrue

-----------------------------------------------------------------------------
(***************************************************************************)
(* What the steps need to know of sequences.                               *)
(***************************************************************************)
\* A sequence without its first d elements.
LEMMA DropProperties ==
    ASSUME NEW s \in Seq(Nat), NEW d \in 0 .. Len(s),
           NEW t, t = SubSeq(s, d + 1, Len(s))
    PROVE  /\ t \in Seq(Nat) /\ Len(t) = Len(s) - d
           /\ \A i \in 1 .. Len(t) : i + d \in 1 .. Len(s) /\ t[i] = s[i + d]
  <1>1. Len(s) \in Nat /\ d \in Nat /\ d + 1 \in Int
    OBVIOUS
  <1>2. \A i \in d + 1 .. Len(s) : s[i] \in Nat
    BY <1>1, ElementOfSeq
  <1>3. /\ t \in Seq(Nat)
        /\ Len(t) = IF d + 1 <= Len(s) THEN Len(s) - (d + 1) + 1 ELSE 0
        /\ \A i \in 1 .. Len(s) - (d + 1) + 1 : t[i] = s[d + 1 + i - 1]
    BY <1>1, <1>2, SubSeqProperties
  <1>4. Len(t) = Len(s) - d
    BY <1>1, <1>3
  <1>5. ASSUME NEW i \in 1 .. Len(t)
        PROVE  i + d \in 1 .. Len(s) /\ t[i] = s[i + d]
    <2>1. i \in 1 .. Len(s) - (d + 1) + 1 /\ d + 1 + i - 1 = i + d
      BY <1>1, <1>4
    <2>2. t[i] = s[d + 1 + i - 1]
      BY <1>3, <2>1
    <2>3. i + d \in 1 .. Len(s)
      BY <1>1, <1>4
    <2>4. QED  BY <2>1, <2>2, <2>3
  <1>6. QED  BY <1>3, <1>4, <1>5

\* Taking n bytes drops some read ones, and leaves the readable ones but n.
LEMMA TakeProperties ==
    ASSUME AsyncTypeOK, NEW n \in 0 .. Readable, TakeFromRing(n)
    PROVE  /\ ring' \in Seq(Nat) /\ readPos' \in 0 .. Len(ring') /\ readPos' <= Backwards
           /\ \E d \in 0 .. Len(ring) :
                 /\ Len(ring') = Len(ring) - d /\ readPos' = readPos + n - d
                 /\ \A i \in 1 .. Len(ring') :
                       i + d \in 1 .. Len(ring) /\ ring'[i] = ring[i + d]
  <1> DEFINE gone == IF readPos + n > Backwards THEN readPos + n - Backwards ELSE 0
  <1>1. /\ Backwards \in Nat /\ ring \in Seq(Nat) /\ Len(ring) \in Nat
        /\ readPos \in 0 .. Len(ring) /\ n \in 0 .. Len(ring) - readPos
    BY AsyncAssumption DEF AsyncTypeOK, Readable
  <1>2. /\ gone \in 0 .. Len(ring)
        /\ readPos + n - gone \in 0 .. Len(ring) - gone
        /\ readPos + n - gone <= Backwards
    BY <1>1
  <1>3. ring' = SubSeq(ring, gone + 1, Len(ring)) /\ readPos' = readPos + n - gone
    BY <1>1 DEF TakeFromRing
  <1> HIDE DEF gone
  <1>4. /\ ring' \in Seq(Nat) /\ Len(ring') = Len(ring) - gone
        /\ \A i \in 1 .. Len(ring') :
              i + gone \in 1 .. Len(ring) /\ ring'[i] = ring[i + gone]
    BY <1>1, <1>2, <1>3, DropProperties
  <1>5. readPos' \in 0 .. Len(ring') /\ readPos' <= Backwards
    BY <1>2, <1>3, <1>4
  <1>6. QED  BY <1>2, <1>3, <1>4, <1>5

\* What one read of the inner resource adds.
LEMMA ReadProperties ==
    ASSUME NEW m \in Nat, NEW n \in Nat, NEW s \in Seq(Nat),
           NEW t, t = s \o [i \in 1 .. n |-> m + i - 1]
    PROVE  /\ t \in Seq(Nat) /\ Len(t) = Len(s) + n
           /\ \A i \in 1 .. Len(t) : t[i] = IF i <= Len(s) THEN s[i] ELSE m + (i - Len(s)) - 1
  <1> DEFINE new == [i \in 1 .. n |-> m + i - 1]
  <1>1. new \in Seq(Nat) /\ Len(new) = n
    OBVIOUS
  <1>2. \A i \in 1 .. n : new[i] = m + i - 1
    OBVIOUS
  <1> HIDE DEF new
  <1>3. /\ s \o new \in Seq(Nat)
        /\ Len(s \o new) = Len(s) + Len(new)
        /\ \A i \in 1 .. Len(s) + Len(new) :
              (s \o new)[i] = IF i <= Len(s) THEN s[i] ELSE new[i - Len(s)]
    BY <1>1, ConcatProperties
  <1>4. t = s \o new
    BY DEF new
  <1>5. Len(s) \in Nat
    OBVIOUS
  <1>6. ASSUME NEW i \in 1 .. Len(t)
        PROVE  t[i] = IF i <= Len(s) THEN s[i] ELSE m + (i - Len(s)) - 1
    <2>1. ~(i <= Len(s)) => i - Len(s) \in 1 .. n
      BY <1>1, <1>3, <1>4, <1>5
    <2>2. QED  BY <1>1, <1>2, <1>3, <1>4, <1>5, <2>1
  <1>7. QED  BY <1>1, <1>3, <1>4, <1>6

-----------------------------------------------------------------------------
(***************************************************************************)
(* The types, the background thread's record, calls and seeks.             *)
(***************************************************************************)
ControlInv == AsyncTypeOK /\ BackInv /\ SeekInv

LEMMA ControlInit == AsyncInit => ControlInv
  <1> SUFFICES ASSUME AsyncInit PROVE ControlInv
    OBVIOUS
  <1>1. << >> \in Seq(Nat) /\ Len(<< >>) = 0
    OBVIOUS
  <1>2. AsyncTypeOK
    <2>1. /\ ring \in Seq(Nat) /\ readPos \in 0 .. Len(ring) /\ readPos <= Backwards
          /\ back.copied \in Seq(Nat) /\ back.want \in Nat
          /\ back.pc \in {"top", "copy", "tell", "gone"}
          /\ Len(ring) + (IF back.pc = "copy" THEN back.want ELSE 0) <= Capacity
          /\ inner \in 0 .. Size /\ logicalPos \in Nat /\ asyncCalls \in Nat
      BY <1>1, AsyncAssumption DEF AsyncInit, Capacity
    <2>2. /\ seeking \in [request : BOOLEAN, pos : Nat, completed : BOOLEAN,
                          ret : Nat \cup {Failed}]
          /\ call \in [op : {"none", "read", "seek", "close"}, left : Nat, got : Nat,
                       whole : BOOLEAN]
      BY DEF AsyncInit, Idle, NotSeeking
    <2>3. QED  BY <2>1, <2>2 DEF AsyncInit, AsyncTypeOK
  <1>3. BackInv
    BY <1>1 DEF AsyncInit, BackInv
  <1>4. SeekInv
    BY AsyncAssumption DEF AsyncInit, SeekInv, NotSeeking, Idle
  <1>5. QED  BY <1>2, <1>3, <1>4 DEF ControlInv

LEMMA BackControl == ControlInv /\ Back => ControlInv'
  <1> SUFFICES ASSUME ControlInv, Back PROVE ControlInv'
    OBVIOUS
  <1> USE DEF ControlInv
  <1>0. /\ Forwards \in Nat /\ Backwards \in Nat /\ Size \in Nat /\ Chunk \in Nat
        /\ << >> \in Seq(Nat) /\ Len(<< >>) = 0
    BY AsyncAssumption
  <1>1. CASE BackExits
    <2>1. AsyncTypeOK'
      BY <1>0, <1>1 DEF BackExits, AsyncTypeOK, BackInv, BackReady, CheckInterrupt, MustAbort,
                        Signal, fifo, source, reader, Capacity
    <2>2. BackInv'
      BY <1>0, <1>1 DEF BackExits, BackInv, BackReady, source, NoError
    <2>3. SeekInv'
      BY <1>1 DEF BackExits, SeekInv, CheckInterrupt, MustAbort, reader
    <2>4. QED  BY <2>1, <2>2, <2>3
  <1>2. CASE BackSeeks
    <2>1. PICK ret \in {seeking.pos} \cup (IF InnerMayFail THEN {Failed} ELSE {}) :
            /\ IF ret = Failed THEN inner' \in 0 .. Size ELSE inner' = ret
            /\ eofReached' = (ret = Failed)
            /\ ioError' = IF ret = Failed THEN "io" ELSE "none"
            /\ seeking' = [seeking EXCEPT !.request = FALSE, !.completed = TRUE, !.ret = ret]
      BY <1>2 DEF BackSeeks
    <2>2. ret \in 0 .. Size \cup {Failed} /\ inner' \in 0 .. Size
      BY <1>0, <2>1 DEF SeekInv, Failed
    <2>3. /\ ring' = << >> /\ readPos' = 0 /\ back.pc = "top" /\ asleep' = asleep \ {"reader"}
          /\ UNCHANGED <<innerError, logicalPos, abort, interrupted, back, call, result, asyncCalls>>
      BY <1>2 DEF BackSeeks, BackReady, RingReset, Signal, stop, reader
    <2>4. seeking' \in [request : BOOLEAN, pos : Nat, completed : BOOLEAN, ret : Nat \cup {Failed}]
      BY <1>0, <2>1, <2>2 DEF AsyncTypeOK
    <2>5. eofReached' \in BOOLEAN /\ ioError' \in {"none", "eof", "io", "exit"}
      BY <2>1
    <2>6. Len(ring') + (IF back'.pc = "copy" THEN back'.want ELSE 0) <= Capacity
      BY <1>0, <2>3 DEF Capacity
    <2>7. AsyncTypeOK'
      BY <1>0, <2>2, <2>3, <2>4, <2>5, <2>6 DEF AsyncTypeOK
    <2>8. BackInv'
      BY <1>2 DEF BackSeeks, BackReady, BackInv
    <2>9. SeekInv'
      BY <1>2, <2>1 DEF BackSeeks, SeekInv, AsyncTypeOK, reader, stop, MustAbort
    <2>10. QED  BY <2>7, <2>8, <2>9
  <1>3. CASE BackSleeps
    <2>1. AsyncTypeOK'
      BY <1>0, <1>3 DEF BackSleeps, AsyncTypeOK, SignalAndWait, stream, fifo, source, end,
                        stop, reader, Capacity
    <2>2. BackInv' /\ SeekInv'
      BY <1>3 DEF BackSleeps, BackInv, SeekInv, NoError, MustAbort, stream, fifo, source, end,
                  stop, reader
    <2>3. QED  BY <2>1, <2>2
  <1>4. CASE BackCopies
    <2>1. /\ Space = Forwards + Backwards - Len(ring) /\ Len(ring) \in Nat
          /\ Smaller(Chunk, Space) \in 1 .. Space
      BY <1>0, <1>4, AsyncAssumption DEF BackCopies, Space, Capacity, Smaller, AsyncTypeOK
    <2>2. AsyncTypeOK'
      BY <1>0, <1>4, <2>1 DEF BackCopies, AsyncTypeOK, stream, fifo, source, end, stop, reader,
                              Capacity
    <2>3. BackInv'
      BY <1>0, <1>4, <2>1 DEF BackCopies, BackInv, stream, end, source
    <2>4. SeekInv'
      BY <1>4 DEF BackCopies, SeekInv, MustAbort, stream, stop, reader
    <2>5. QED  BY <2>2, <2>3, <2>4
  <1>5. CASE InnerRead
    <2>1. PICK n \in 1 .. back.want - Len(back.copied) :
            /\ inner + n <= Size
            /\ back' = [back EXCEPT !.copied = @ \o [i \in 1 .. n |-> inner + i - 1]]
            /\ inner' = inner + n
      BY <1>5 DEF InnerRead
    <2>2. n \in Nat /\ inner \in Nat /\ back.copied \in Seq(Nat) /\ back.want \in Nat
      BY <2>1, <1>0 DEF AsyncTypeOK
    <2>3. back'.copied = back.copied \o [i \in 1 .. n |-> inner + i - 1]
      BY <2>1 DEF BackInv
    <2>4. back'.copied \in Seq(Nat) /\ Len(back'.copied) = Len(back.copied) + n
      BY <2>2, <2>3, ReadProperties
    <2>5. /\ back' = [back EXCEPT !.copied = back'.copied]
          /\ back'.pc = "copy" /\ back'.want = back.want
      BY <1>5, <2>1 DEF InnerRead, BackInv
    <2>6. UNCHANGED <<ring, readPos, logicalPos, eofReached, ioError, seeking, abort,
                interrupted, call, result, asyncCalls, asleep>>
      BY <1>5 DEF InnerRead, fifo, end, stop, reader
    <2>7. inner' \in 0 .. Size /\ innerError' = "none"
      BY <1>0, <1>5, <2>1, <2>2 DEF InnerRead
    <2>8. Len(ring') + (IF back'.pc = "copy" THEN back'.want ELSE 0) <= Capacity
      BY <1>5, <2>5, <2>6 DEF InnerRead, AsyncTypeOK
    <2>9. AsyncTypeOK'
      BY <2>2, <2>4, <2>5, <2>6, <2>7, <2>8 DEF AsyncTypeOK
    <2>10. back' \in [pc : {"top", "copy", "tell", "gone"}, want : Nat, copied : Seq(Nat)]
      BY <2>4, <2>5 DEF BackInv
    <2>11. Len(back'.copied) <= back'.want /\ back'.want # 0 /\ ~eofReached'
      BY <1>5, <2>1, <2>2, <2>4, <2>5 DEF InnerRead, BackInv, end
    <2>12. BackInv'
      BY <2>5, <2>10, <2>11 DEF BackInv
    <2>13. SeekInv'
      BY <1>5 DEF InnerRead, SeekInv, MustAbort, stop, reader
    <2>14. QED  BY <2>9, <2>12, <2>13
  <1>6. CASE InnerStops
    <2>1. /\ back' = [back EXCEPT !.want = Len(back.copied)] /\ back.copied \in Seq(Nat)
          /\ Len(back.copied) \in Nat /\ Len(back.copied) < back.want /\ back.want \in Nat
          /\ back.pc = "copy" /\ UNCHANGED <<ring, readPos, inner, logicalPos, eofReached,
                ioError, seeking, interrupted, call, result, asyncCalls, asleep>>
      BY <1>6 DEF InnerStops, BackInv, fifo, end, reader
    <2>2. /\ innerError' \in {"none", "eof", "io", "exit"}
          /\ abort' \in BOOLEAN /\ (MustAbort => MustAbort')
      BY <1>6 DEF InnerStops, AsyncTypeOK, CheckInterrupt, MustAbort
    <2>3. /\ back'.copied = back.copied /\ back'.want = Len(back.copied) /\ back'.pc = "copy"
      BY <2>1 DEF BackInv
    <2>4. Len(ring') + (IF back'.pc = "copy" THEN back'.want ELSE 0) <= Capacity
      <3>1. ring \in Seq(Nat) /\ Len(ring) + back.want <= Capacity
        BY <1>0, <2>1 DEF AsyncTypeOK
      <3>2. Len(ring) \in Nat /\ Capacity \in Nat
        BY <1>0, <3>1 DEF Capacity
      <3>3. Len(ring) + Len(back.copied) <= Capacity
        BY <2>1, <3>1, <3>2
      <3>4. QED  BY <2>1, <2>3, <3>3
    <2>5. AsyncTypeOK'
      <3>1. back'.copied \in Seq(Nat) /\ back'.want \in Nat /\ back'.pc = "copy"
        BY <2>1, <2>3
      <3>2. QED  BY <2>1, <2>2, <2>4, <3>1 DEF AsyncTypeOK
    <2>6. NoError(innerError') => inner = Size
      BY <1>6 DEF InnerStops, NoError
    <2>7. BackInv'
      BY <2>1, <2>6 DEF BackInv, NoError
    <2>8. SeekInv'
      BY <2>1, <2>2 DEF SeekInv
    <2>9. QED  BY <2>5, <2>7, <2>8
  <1>7. CASE BackWrites
    <2>1. /\ back.copied \in Seq(Nat) /\ ring \in Seq(Nat) /\ ring' = ring \o back.copied
          /\ back' = [pc |-> "tell", want |-> Len(back.copied), copied |-> << >>]
          /\ Len(back.copied) = back.want /\ back.pc = "copy"
          /\ UNCHANGED <<readPos, inner, innerError, logicalPos, eofReached, ioError,
                seeking, abort, interrupted, call, result, asyncCalls, asleep>>
      BY <1>7 DEF BackWrites, AsyncTypeOK, source, end, stop, reader
    <2>2. ring' \in Seq(Nat) /\ Len(ring') = Len(ring) + back.want
      BY <2>1, ConcatProperties
    <2>3. AsyncTypeOK'
      BY <1>0, <2>1, <2>2 DEF AsyncTypeOK, Capacity
    <2>4. BackInv'
      BY <1>0, <2>1 DEF BackInv, NoError
    <2>5. SeekInv'
      BY <2>1 DEF SeekInv, MustAbort
    <2>6. QED  BY <2>3, <2>4, <2>5
  <1>8. CASE BackTells
    <2>1. AsyncTypeOK'
      BY <1>0, <1>8 DEF BackTells, AsyncTypeOK, BackInv, Signal, fifo, source, stop, reader,
                        Capacity
    <2>2. BackInv'
      BY <1>8 DEF BackTells, BackInv
    <2>3. SeekInv'
      BY <1>8 DEF BackTells, SeekInv, MustAbort, stop, reader
    <2>4. QED  BY <2>1, <2>2, <2>3
  <1>9. QED  BY <1>1, <1>2, <1>3, <1>4, <1>5, <1>6, <1>7, <1>8 DEF Back

\* The steps of the reader that leave the stream and the background thread alone.
LEMMA ReaderControl == ControlInv /\ Reader => ControlInv'
  <1> SUFFICES ASSUME ControlInv, Reader PROVE ControlInv'
    OBVIOUS
  <1> USE DEF ControlInv
  <1>1. CASE ReadIsInterrupted \/ ReadEnds \/ ReadWaits \/ SeekIsInterrupted \/ SeekWaits
             \/ CloseEnds
    <2>1. /\ UNCHANGED <<ring, readPos, inner, innerError, logicalPos, eofReached, ioError,
                         seeking, interrupted, back, asyncCalls>>
          /\ abort' \in BOOLEAN /\ (MustAbort => MustAbort')
      BY <1>1 DEF ReadIsInterrupted, ReadEnds, ReadWaits, SeekIsInterrupted, SeekWaits, CloseEnds,
                  stream, fifo, source, end, stop, reader, CheckInterrupt, MustAbort, AsyncTypeOK
    <2>2. /\ \/ UNCHANGED <<call, result>>
             \/ call' = Idle /\ result' \in {"ok", "eof", "io", "exit", "closed"}
          /\ asleep' \subseteq {"reader", "back"}
      BY <1>1 DEF ReadIsInterrupted, ReadEnds, ReadWaits, SeekIsInterrupted, SeekWaits, CloseEnds,
                  reader, Returns, Signal, SignalAndWait, AsyncTypeOK
    <2>3. Idle \in [op : {"none", "read", "seek", "close"}, left : Nat, got : Nat, whole : BOOLEAN]
          /\ Idle.op = "none"
      BY DEF Idle
    <2>4. AsyncTypeOK'
      BY <2>1, <2>2, <2>3 DEF AsyncTypeOK, Capacity
    <2>5. BackInv'
      BY <2>1 DEF BackInv, NoError
    <2>6. SeekInv'
      <3>1. CASE UNCHANGED <<call, result>>
        BY <2>1, <3>1 DEF SeekInv
      <3>2. CASE call' = Idle
        <4>1. MustAbort \/ ~seeking.request
          BY <1>1, <3>2, <2>3 DEF SeekInv, ReadIsInterrupted, ReadEnds, ReadWaits, SeekIsInterrupted,
                       SeekWaits, CloseEnds, ReaderReady, reader
        <4>2. QED  BY <2>1, <2>3, <3>2, <4>1 DEF SeekInv
      <3>3. QED  BY <2>2, <3>1, <3>2
    <2>7. QED  BY <2>4, <2>5, <2>6
  <1>2. CASE ReadTakes
    <2> DEFINE n == Smaller(call.left, Readable)
    <2>0. Readable \in Nat /\ call.left \in Nat
      BY DEF AsyncTypeOK, Readable
    <2>1. n \in 0 .. Readable /\ call.left - n \in Nat /\ n \in Nat
      BY <2>0 DEF Smaller
    <2>2. /\ TakeFromRing(n) /\ logicalPos' = logicalPos + n
          /\ UNCHANGED <<inner, innerError, eofReached, ioError, seeking, abort, interrupted,
                         back, asyncCalls>>
          /\ call.op = "read"
          /\ \/ call' = Idle /\ result' = "ok" /\ asleep' = asleep \ {"back"}
             \/ /\ call' = [call EXCEPT !.left = @ - n, !.got = @ + n]
                /\ asleep' = (asleep \ {"back"}) \cup {"reader"} /\ UNCHANGED result
      BY <1>2 DEF ReadTakes, ReaderReady, Returns, Signal, SignalAndWait, source, end, stop
    <2> HIDE DEF n
    <2>3. /\ ring' \in Seq(Nat) /\ readPos' \in 0 .. Len(ring') /\ readPos' <= Backwards
          /\ \E d \in 0 .. Len(ring) : Len(ring') = Len(ring) - d
      BY <2>1, <2>2, TakeProperties
    <2>4. Len(ring') + (IF back'.pc = "copy" THEN back'.want ELSE 0) <= Capacity
      <3>1. /\ Len(ring) \in Nat /\ Len(ring') \in Nat /\ Len(ring') <= Len(ring)
            /\ Capacity \in Nat /\ back.want \in Nat
        BY <2>3, AsyncAssumption DEF AsyncTypeOK, Capacity
      <3>2. Len(ring) + (IF back.pc = "copy" THEN back.want ELSE 0) <= Capacity
        BY DEF AsyncTypeOK
      <3>3. QED  BY <2>2, <3>1, <3>2
    <2>5. /\ call' \in [op : {"none", "read", "seek", "close"}, left : Nat, got : Nat,
                        whole : BOOLEAN]
          /\ call'.op \in {"none", "read"} /\ (call'.op = "read" => result' = "none")
      <3>1. call \in [op : {"none", "read", "seek", "close"}, left : Nat, got : Nat,
                      whole : BOOLEAN]
        BY DEF AsyncTypeOK
      <3>2. CASE call' = Idle
        BY <3>2 DEF Idle
      <3>3. CASE call' = [call EXCEPT !.left = @ - n, !.got = @ + n] /\ UNCHANGED result
        <4>1. call.got + n \in Nat
          BY <2>1, <3>1
        <4>2. QED  BY <2>1, <2>2, <3>1, <3>3, <4>1 DEF SeekInv
      <3>4. QED  BY <2>2, <3>2, <3>3
    <2>6. asleep' \subseteq {"reader", "back"} /\ logicalPos' \in Nat
          /\ result' \in {"none", "ok", "eof", "io", "exit", "invalid", "closed"}
      <3>1. asleep' \subseteq {"reader", "back"}
        BY <2>2 DEF AsyncTypeOK
      <3>2. logicalPos' \in Nat
        BY <2>1, <2>2 DEF AsyncTypeOK
      <3>3. result' \in {"none", "ok", "eof", "io", "exit", "invalid", "closed"}
        BY <2>2 DEF AsyncTypeOK
      <3>4. QED  BY <3>1, <3>2, <3>3
    <2>7. AsyncTypeOK'
      BY <2>2, <2>3, <2>4, <2>5, <2>6 DEF AsyncTypeOK
    <2>8. BackInv'
      BY <2>2 DEF BackInv, NoError
    <2>9. SeekInv'
      BY <2>2, <2>5 DEF SeekInv, MustAbort
    <2>10. QED  BY <2>7, <2>8, <2>9
  <1>3. CASE SeekEnds
    <2>1. /\ UNCHANGED <<ring, readPos, inner, innerError, eofReached, ioError,
                         seeking, abort, interrupted, back, asyncCalls, asleep>>
          /\ call' = Idle /\ result' \in {"ok", "io"} /\ logicalPos' \in Nat
          /\ seeking.completed /\ call.op = "seek"
      BY <1>3 DEF SeekEnds, ReaderReady, Returns, AsyncTypeOK, fifo, source, end, stop
    <2>2. /\ Idle \in [op : {"none", "read", "seek", "close"}, left : Nat, got : Nat, whole : BOOLEAN]
          /\ Idle.op = "none"
      BY DEF Idle
    <2>3. AsyncTypeOK'
      BY <2>1, <2>2 DEF AsyncTypeOK, Capacity
    <2>4. BackInv'
      BY <2>1 DEF BackInv, NoError
    <2>5. SeekInv'
      BY <2>1, <2>2 DEF SeekInv, MustAbort
    <2>6. QED  BY <2>3, <2>4, <2>5
  <1>4. QED  BY <1>1, <1>2, <1>3 DEF Reader

\* The calls that begin, the ones that are over at once, closing and being interrupted.
Begins ==
    \/ \E n \in 1 .. Size : Read(n)
    \/ \E pos \in 0 .. Size + 1 :
          \/ SeekStays(pos) \/ SeekForwards(pos) \/ SeekBackwards(pos)
          \/ SeekRefused(pos) \/ SeekAsks(pos)
    \/ Close \/ Interrupt

\* What all of them leave alone, and what a call that begins looks like.
LEMMA BeginsFootprint ==
    ASSUME ControlInv, Begins
    PROVE  /\ UNCHANGED <<ring, inner, innerError, eofReached, ioError, back>>
           /\ abort' \in BOOLEAN /\ interrupted' \in BOOLEAN /\ (MustAbort => MustAbort')
           /\ asleep' \subseteq {"reader", "back"} /\ asyncCalls' \in Nat
           /\ \/ UNCHANGED <<call, result>>
              \/ /\ call.op = "none"
                 /\ call' \in [op : {"none", "read", "seek", "close"}, left : Nat, got : Nat,
                               whole : BOOLEAN]
                 /\ result' \in {"none", "ok", "invalid"} \/ result' = result
                 /\ call'.op \in {"read", "seek"} => result' = "none"
           /\ \/ /\ UNCHANGED <<readPos, logicalPos, seeking>>
                 /\ UNCHANGED call \/ call'.op # "seek"
              \/ /\ UNCHANGED seeking /\ call.op = "none" /\ call'.op = "none" /\ result' = "ok"
                 /\ readPos' \in 0 .. readPos /\ logicalPos' \in Nat
                 /\ logicalPos' - readPos' = logicalPos - readPos
              \/ /\ UNCHANGED <<readPos, logicalPos>> /\ call.op = "none" /\ call'.op = "seek"
                 /\ \E pos \in 0 .. Size :
                       seeking' = [request |-> TRUE, pos |-> pos, completed |-> FALSE, ret |-> 0]
  <1>0. /\ AsyncTypeOK /\ Size \in Nat /\ MaxAsyncCalls \in Nat
        /\ Idle = [op |-> "none", left |-> 0, got |-> 0, whole |-> FALSE]
    BY AsyncAssumption DEF ControlInv, Idle
  <1> USE DEF stream, fifo, source, end, stop, reader, StartCall, MustAbort
  <1>1. CASE \E n \in 1 .. Size : Read(n)
    BY <1>0, <1>1 DEF Read, AsyncTypeOK
  <1>2. CASE \E pos \in 0 .. Size + 1 : SeekStays(pos)
    BY <1>0, <1>2 DEF SeekStays, AsyncTypeOK
  <1>3. CASE \E pos \in 0 .. Size + 1 : SeekForwards(pos)
    BY <1>0, <1>3 DEF SeekForwards, AsyncTypeOK
  <1>4. CASE \E pos \in 0 .. Size + 1 : SeekBackwards(pos)
    <2>1. PICK pos \in 0 .. Size + 1 : SeekBackwards(pos)
      BY <1>4
    <2>2. /\ logicalPos' = pos /\ readPos' = readPos + (pos - logicalPos)
          /\ pos < logicalPos /\ pos >= logicalPos - readPos
      BY <2>1 DEF SeekBackwards, InWindow
    <2>3. /\ readPos' \in 0 .. readPos /\ logicalPos' \in Nat
          /\ logicalPos' - readPos' = logicalPos - readPos
      BY <1>0, <2>1, <2>2 DEF AsyncTypeOK
    <2>4. /\ UNCHANGED <<ring, inner, innerError, eofReached, ioError, back, seeking, abort,
                         interrupted, asleep>>
          /\ call.op = "none" /\ call' = Idle /\ result' = "ok"
          /\ asyncCalls' = asyncCalls + 1
      BY <2>1 DEF SeekBackwards
    <2>5. /\ Idle \in [op : {"none", "read", "seek", "close"}, left : Nat, got : Nat,
                       whole : BOOLEAN]
          /\ Idle.op = "none" /\ asyncCalls' \in Nat
      BY <1>0, <2>4 DEF AsyncTypeOK
    <2>6. abort' \in BOOLEAN /\ interrupted' \in BOOLEAN /\ asleep' \subseteq {"reader", "back"}
      BY <1>0, <2>4 DEF AsyncTypeOK
    <2>7. QED  BY <1>4, <2>3, <2>4, <2>5, <2>6
  <1>5. CASE \E pos \in 0 .. Size + 1 : SeekRefused(pos)
    BY <1>0, <1>5 DEF SeekRefused, AsyncTypeOK
  <1>6. CASE \E pos \in 0 .. Size + 1 : SeekAsks(pos)
    <2>1. PICK pos \in 0 .. Size + 1 : SeekAsks(pos)
      BY <1>6
    <2>2. /\ pos \in 0 .. Size
          /\ seeking' = [request |-> TRUE, pos |-> pos, completed |-> FALSE, ret |-> 0]
      BY <1>0, <2>1 DEF SeekAsks
    <2>3. /\ UNCHANGED <<ring, readPos, logicalPos, inner, innerError, eofReached, ioError, back,
                         abort, interrupted, asleep>>
          /\ call.op = "none" /\ result' = "none" /\ asyncCalls' = asyncCalls + 1
          /\ call' = [op |-> "seek", left |-> 0, got |-> 0, whole |-> FALSE]
      BY <1>0, <2>1 DEF SeekAsks
    <2>4. /\ abort' \in BOOLEAN /\ interrupted' \in BOOLEAN /\ asleep' \subseteq {"reader", "back"}
          /\ asyncCalls' \in Nat
      BY <1>0, <2>3 DEF AsyncTypeOK
    <2>5. QED  BY <2>2, <2>3, <2>4
  <1>7. CASE Close
    BY <1>0, <1>7 DEF Close, AsyncTypeOK, Signal
  <1>8. CASE Interrupt
    BY <1>0, <1>8 DEF Interrupt, AsyncTypeOK
  <1>9. QED  BY <1>1, <1>2, <1>3, <1>4, <1>5, <1>6, <1>7, <1>8 DEF Begins

LEMMA BeginsControl == ControlInv /\ Begins => ControlInv'
  <1> SUFFICES ASSUME ControlInv, Begins PROVE ControlInv'
    OBVIOUS
  <1>0. AsyncTypeOK /\ BackInv /\ SeekInv /\ Size \in Nat
    BY AsyncAssumption DEF ControlInv
  <1>1. /\ UNCHANGED <<ring, inner, innerError, eofReached, ioError, back>>
        /\ abort' \in BOOLEAN /\ interrupted' \in BOOLEAN /\ (MustAbort => MustAbort')
        /\ asleep' \subseteq {"reader", "back"} /\ asyncCalls' \in Nat
    BY BeginsFootprint
  <1>2. /\ call' \in [op : {"none", "read", "seek", "close"}, left : Nat, got : Nat,
                      whole : BOOLEAN]
        /\ result' \in {"none", "ok", "eof", "io", "exit", "invalid", "closed"}
        /\ call'.op \in {"read", "seek"} => result' = "none"
    BY <1>0, BeginsFootprint DEF AsyncTypeOK, SeekInv
  <1>3. /\ readPos' \in 0 .. readPos /\ logicalPos' \in Nat
        /\ seeking' \in [request : BOOLEAN, pos : Nat, completed : BOOLEAN,
                         ret : Nat \cup {Failed}]
        /\ seeking'.pos \in 0 .. Size
    <2>1. /\ readPos \in Nat /\ logicalPos \in Nat /\ seeking.pos \in 0 .. Size
          /\ seeking \in [request : BOOLEAN, pos : Nat, completed : BOOLEAN,
                          ret : Nat \cup {Failed}]
      BY <1>0 DEF AsyncTypeOK, SeekInv
    <2>2. \/ UNCHANGED <<readPos, logicalPos>>
          \/ readPos' \in 0 .. readPos /\ logicalPos' \in Nat
      BY BeginsFootprint
    <2>3. \/ UNCHANGED seeking
          \/ \E pos \in 0 .. Size :
                seeking' = [request |-> TRUE, pos |-> pos, completed |-> FALSE, ret |-> 0]
      BY BeginsFootprint
    <2>4. readPos' \in 0 .. readPos /\ logicalPos' \in Nat
      BY <2>1, <2>2
    <2>5. CASE UNCHANGED seeking
      BY <2>1, <2>4, <2>5
    <2>6. CASE \E pos \in 0 .. Size :
                  seeking' = [request |-> TRUE, pos |-> pos, completed |-> FALSE, ret |-> 0]
      BY <1>0, <2>4, <2>6
    <2>7. QED  BY <2>3, <2>5, <2>6
  <1>4. Len(ring) + (IF back.pc = "copy" THEN back.want ELSE 0) <= Capacity
    BY <1>0 DEF AsyncTypeOK
  <1>5. readPos' \in 0 .. Len(ring) /\ readPos' <= Backwards
    BY <1>0, <1>3, AsyncAssumption DEF AsyncTypeOK
  <1>6. AsyncTypeOK'
    BY <1>0, <1>1, <1>2, <1>3, <1>4, <1>5 DEF AsyncTypeOK, Capacity
  <1>7. BackInv'
    BY <1>0, <1>1 DEF BackInv, NoError
  <1>8. MustAbort' \/ (seeking'.request => call'.op = "seek" /\ ~seeking'.completed)
    BY <1>0, BeginsFootprint DEF SeekInv
  <1>9. SeekInv'
    BY <1>2, <1>3, <1>8 DEF SeekInv
  <1>10. QED  BY <1>6, <1>7, <1>9 DEF ControlInv

-----------------------------------------------------------------------------
(***************************************************************************)
(* The window, and the end.                                                *)
(***************************************************************************)
LEMMA BaseIsNat == ControlInv => Base \in Nat /\ RingEnd \in Int /\ Len(ring) \in Nat
                                 /\ readPos \in Nat /\ inner \in Nat
  <1> SUFFICES ASSUME ControlInv PROVE Base \in Nat /\ RingEnd \in Int /\ Len(ring) \in Nat
                                       /\ readPos \in Nat /\ inner \in Nat
    OBVIOUS
  <1>1. Len(ring) \in Nat /\ readPos \in Nat /\ inner \in Nat
    BY AsyncAssumption DEF ControlInv, AsyncTypeOK
  <1>2. Base \in Nat
    BY DEF ControlInv, AsyncTypeOK, Base
  <1>3. QED  BY <1>1, <1>2 DEF RingEnd

\* A step that moves no byte and no end keeps the window.
LEMMA WindowKept ==
    ASSUME ControlInv, ControlInv', WindowInv, MustAbort => MustAbort',
           Base' - readPos' = Base - readPos, back'.copied = back.copied,
           UNCHANGED <<ring, inner, eofReached, ioError>>
    PROVE  WindowInv'
  <1>1. CASE MustAbort
    BY <1>1 DEF WindowInv
  <1>2. CASE ~MustAbort
    <2>1. RingEnd' = RingEnd
      BY DEF RingEnd
    <2>2. QED  BY <1>2, <2>1 DEF WindowInv, NoError
  <1>3. QED  BY <1>1, <1>2

LEMMA BackWindow == ControlInv /\ WindowInv /\ Back => WindowInv'
  <1> SUFFICES ASSUME ControlInv, WindowInv, Back PROVE WindowInv'
    OBVIOUS
  <1>0. /\ AsyncTypeOK /\ BackInv /\ SeekInv /\ ControlInv'
        /\ Base \in Nat /\ RingEnd \in Int /\ Len(ring) \in Nat /\ readPos \in Nat /\ inner \in Nat
        /\ << >> \in Seq(Nat) /\ Len(<< >>) = 0
    BY BackControl, BaseIsNat DEF ControlInv
  <1>1. CASE BackExits
    BY <1>1 DEF BackExits, CheckInterrupt, MustAbort, WindowInv
  <1>2. CASE BackSeeks
    <2>1. PICK ret \in {seeking.pos} \cup (IF InnerMayFail THEN {Failed} ELSE {}) :
            /\ IF ret = Failed THEN inner' \in 0 .. Size ELSE inner' = ret
            /\ eofReached' = (ret = Failed)
            /\ ioError' = IF ret = Failed THEN "io" ELSE "none"
            /\ seeking' = [seeking EXCEPT !.request = FALSE, !.completed = TRUE, !.ret = ret]
      BY <1>2 DEF BackSeeks
    <2>2. /\ ring' = << >> /\ readPos' = 0 /\ back' = back /\ back.copied = << >>
          /\ call' = call /\ call.op = "seek"
      BY <1>0, <1>2 DEF BackSeeks, BackReady, BackInv, SeekInv, RingReset, reader
    <2>3. CASE ret = Failed
      <3>1. eofReached' /\ ~NoError(ioError')
        BY <2>1, <2>3 DEF NoError
      <3>2. 1 .. Len(ring') = {} /\ 1 .. Len(back'.copied) = {}
        BY <1>0, <2>2
      <3>3. QED  BY <3>1, <3>2 DEF WindowInv, NoError
    <2>4. CASE ret # Failed
      <3>1. seeking'.completed /\ seeking'.ret = ret
        BY <1>0, <2>1 DEF AsyncTypeOK
      <3>2. Base' = ret
        BY <2>2, <2>4, <3>1 DEF Base
      <3>3. ret = seeking.pos /\ seeking.pos \in Nat
        BY <1>0, <2>1, <2>4, AsyncAssumption DEF SeekInv
      <3>4. ~eofReached'
        BY <2>1, <2>4
      <3>5. ret \in Nat /\ inner' = ret /\ ~eofReached'
        BY <2>1, <2>4, <3>3, <3>4
      <3>6. RingEnd' = ret
        BY <1>0, <2>2, <3>2, <3>5 DEF RingEnd
      <3>7. QED  BY <1>0, <2>2, <3>5, <3>6 DEF WindowInv
    <2>5. QED  BY <2>3, <2>4
  <1>3. CASE BackSleeps
    <2>1. UNCHANGED <<ring, readPos, inner, logicalPos, eofReached, ioError, seeking, abort,
                      interrupted, back, call>>
      BY <1>3 DEF BackSleeps, stream, fifo, source, end, stop, reader
    <2>2. QED  BY <1>0, <2>1, WindowKept DEF Base, MustAbort
  <1>4. CASE BackCopies
    <2>1. /\ UNCHANGED <<ring, readPos, inner, logicalPos, eofReached, ioError, seeking, abort,
                         interrupted, call>>
          /\ back'.copied = back.copied
      BY <1>0, <1>4 DEF BackCopies, BackReady, BackInv, stream, fifo, source, end, stop, reader
    <2>2. QED  BY <1>0, <2>1, WindowKept DEF Base, MustAbort
  <1>5. CASE InnerRead
    <2>1. PICK n \in 1 .. back.want - Len(back.copied) :
            /\ back' = [back EXCEPT !.copied = @ \o [i \in 1 .. n |-> inner + i - 1]]
            /\ inner' = inner + n
      BY <1>5 DEF InnerRead
    <2>2. /\ n \in Nat /\ back.copied \in Seq(Nat) /\ Len(back.copied) \in Nat
          /\ ~eofReached
          /\ back'.copied = back.copied \o [i \in 1 .. n |-> inner + i - 1]
      <3>1. back \in [pc : {"top", "copy", "tell", "gone"}, want : Nat, copied : Seq(Nat)]
        BY <1>0 DEF BackInv
      <3>2. back.copied \in Seq(Nat)
        BY <3>1
      <3>3. Len(back.copied) \in Nat /\ back.want \in Nat
        BY <3>1, <3>2
      <3>4. n \in Nat
        BY <3>3
      <3>5. back.pc = "copy"
        BY <1>5 DEF InnerRead
      <3>6. ~eofReached
        BY <1>0, <3>5 DEF BackInv
      <3>7. back'.copied = back.copied \o [i \in 1 .. n |-> inner + i - 1]
        BY <2>1, <3>1
      <3>8. QED  BY <3>2, <3>3, <3>4, <3>6, <3>7
    <2>3. /\ Len(back'.copied) = Len(back.copied) + n
          /\ \A i \in 1 .. Len(back'.copied) :
                back'.copied[i] = IF i <= Len(back.copied) THEN back.copied[i]
                                  ELSE inner + (i - Len(back.copied)) - 1
      <3> DEFINE old == back.copied
                 new == back'.copied
      <3>1. n \in Nat /\ inner \in Nat /\ old \in Seq(Nat)
        BY <1>0, <2>2
      <3>2. new = old \o [i \in 1 .. n |-> inner + i - 1]
        BY <2>2
      <3> HIDE DEF old, new
      <3>3. /\ Len(new) = Len(old) + n
            /\ \A i \in 1 .. Len(new) :
                  new[i] = IF i <= Len(old) THEN old[i] ELSE inner + (i - Len(old)) - 1
        BY <3>1, <3>2, ReadProperties
      <3>4. QED  BY <3>3 DEF old, new
    <2>4. UNCHANGED <<ring, readPos, logicalPos, eofReached, ioError, seeking, abort,
                      interrupted, call>>
      BY <1>5 DEF InnerRead, fifo, end, stop, reader
    <2>5. RingEnd' = RingEnd /\ Base' = Base /\ MustAbort' = MustAbort
      BY <2>4 DEF RingEnd, Base, MustAbort
    <2>6. CASE ~MustAbort
      <3>1. inner = RingEnd + Len(back.copied)
        BY <2>2, <2>6 DEF WindowInv
      <3>2. inner' = RingEnd' + Len(back'.copied)
        BY <1>0, <2>1, <2>2, <2>3, <2>5, <3>1
      <3>3. \A i \in 1 .. Len(back'.copied) : back'.copied[i] = RingEnd' + i - 1
        BY <1>0, <2>2, <2>3, <2>5, <2>6, <3>1 DEF WindowInv
      <3>4. \A i \in 1 .. Len(ring') : ring'[i] = Base' - readPos' + i - 1
        BY <2>4, <2>5, <2>6 DEF WindowInv
      <3>5. QED  BY <2>2, <2>4, <3>2, <3>3, <3>4 DEF WindowInv
    <2>7. QED  BY <2>5, <2>6 DEF WindowInv
  <1>6. CASE InnerStops
    <2>1. UNCHANGED <<ring, readPos, inner, logicalPos, eofReached, ioError, seeking,
                      interrupted, call>>
      BY <1>6 DEF InnerStops, fifo, end, reader
    <2>2. back'.copied = back.copied
      BY <1>0, <1>6 DEF InnerStops, BackInv
    <2>3. MustAbort => MustAbort'
      BY <1>6 DEF InnerStops, CheckInterrupt, MustAbort
    <2>4. Base' - readPos' = Base - readPos
      BY <2>1 DEF Base
    <2>5. QED  BY <1>0, <2>1, <2>2, <2>3, <2>4, WindowKept
  <1>7. CASE BackWrites
    <2>1. /\ back.copied \in Seq(Nat) /\ Len(back.copied) \in Nat /\ ring \in Seq(Nat)
          /\ ring' = ring \o back.copied /\ back'.copied = << >> /\ ~eofReached
          /\ UNCHANGED <<readPos, inner, logicalPos, eofReached, ioError, seeking, abort,
                         interrupted, call>>
      BY <1>0, <1>7 DEF BackWrites, BackInv, AsyncTypeOK, source, end, stop, reader
    <2>2. /\ Len(ring') = Len(ring) + Len(back.copied)
          /\ \A i \in 1 .. Len(ring) + Len(back.copied) :
                ring'[i] = IF i <= Len(ring) THEN ring[i] ELSE back.copied[i - Len(ring)]
      BY <2>1, ConcatProperties
    <2>3. Base' = Base /\ MustAbort' = MustAbort
      BY <2>1 DEF Base, MustAbort
    <2>4. RingEnd' = RingEnd + Len(back.copied)
      <3>1. RingEnd' = Base - readPos + Len(ring') /\ RingEnd = Base - readPos + Len(ring)
        BY <2>1, <2>3 DEF RingEnd
      <3>2. Len(ring') = Len(ring) + Len(back.copied)
        BY <2>2
      <3>3. Len(ring) \in Nat /\ Len(back.copied) \in Nat /\ Base - readPos \in Int
        BY <1>0, <2>1
      <3>4. QED  BY <3>1, <3>2, <3>3
    <2>5. CASE ~MustAbort
      <3>1. ASSUME NEW i \in 1 .. Len(ring')
            PROVE  ring'[i] = Base' - readPos' + i - 1
        <4>1. CASE i <= Len(ring)
          BY <1>0, <2>1, <2>2, <2>3, <2>5, <4>1 DEF WindowInv
        <4>2. CASE ~(i <= Len(ring))
          <5>1. i - Len(ring) \in 1 .. Len(back.copied)
            BY <1>0, <2>1, <2>2, <4>2
          <5>2. back.copied[i - Len(ring)] = RingEnd + (i - Len(ring)) - 1
            BY <2>5, <5>1 DEF WindowInv
          <5>3. QED  BY <1>0, <2>1, <2>2, <2>3, <4>2, <5>2 DEF RingEnd
        <4>3. QED  BY <4>1, <4>2
      <3>2. inner' = RingEnd' + Len(back'.copied)
        BY <1>0, <2>1, <2>4, <2>5 DEF WindowInv
      <3>3. QED  BY <1>0, <2>1, <3>1, <3>2 DEF WindowInv
    <2>6. QED  BY <2>3, <2>5 DEF WindowInv
  <1>8. CASE BackTells
    <2>1. /\ UNCHANGED <<ring, readPos, inner, logicalPos, seeking, abort, interrupted, call>>
          /\ back'.copied = << >> /\ back.copied = << >> /\ ~eofReached
          /\ eofReached' = (back.want = 0)
          /\ ioError' = IF back.want = 0 /\ innerError # "none" THEN innerError ELSE ioError
          /\ back.want = 0 /\ NoError(innerError) => inner = Size
      BY <1>0, <1>8 DEF BackTells, BackInv, fifo, source, stop, reader
    <2>2. RingEnd' = RingEnd /\ Base' = Base /\ MustAbort' = MustAbort
      BY <2>1 DEF RingEnd, Base, MustAbort
    <2>3. eofReached' /\ NoError(ioError') => inner' = Size
      BY <2>1 DEF NoError
    <2>4. CASE ~MustAbort
      <3>1. inner' = RingEnd' + Len(back'.copied)
        BY <1>0, <2>1, <2>2, <2>4 DEF WindowInv
      <3>2. QED  BY <1>0, <2>1, <2>2, <2>3, <2>4, <3>1 DEF WindowInv
    <2>5. QED  BY <2>2, <2>4 DEF WindowInv
  <1>9. QED  BY <1>1, <1>2, <1>3, <1>4, <1>5, <1>6, <1>7, <1>8 DEF Back

LEMMA ReaderWindow == ControlInv /\ WindowInv /\ Reader => WindowInv'
  <1> SUFFICES ASSUME ControlInv, WindowInv, Reader PROVE WindowInv'
    OBVIOUS
  <1>0. /\ AsyncTypeOK /\ BackInv /\ SeekInv /\ ControlInv'
        /\ Base \in Nat /\ RingEnd \in Int /\ Len(ring) \in Nat /\ readPos \in Nat /\ inner \in Nat
    BY ReaderControl, BaseIsNat DEF ControlInv
  <1>1. CASE ReadIsInterrupted \/ SeekIsInterrupted
    BY <1>1 DEF ReadIsInterrupted, SeekIsInterrupted, CheckInterrupt, MustAbort, WindowInv
  <1>2. CASE ReadEnds \/ ReadWaits \/ SeekWaits \/ CloseEnds
    <2>1. UNCHANGED <<ring, readPos, inner, logicalPos, eofReached, ioError, seeking, abort,
                      interrupted, back>>
      BY <1>2 DEF ReadEnds, ReadWaits, SeekWaits, CloseEnds, stream, fifo, source, end, stop
    <2>2. call' = call \/ (call.op \in {"read", "close"} /\ call'.op = "none")
      BY <1>2 DEF ReadEnds, ReadWaits, SeekWaits, CloseEnds, ReaderReady, Returns, Idle, reader
    <2>3. Base' = Base
      BY <2>1, <2>2 DEF Base
    <2>4. Base' - readPos' = Base - readPos /\ (MustAbort => MustAbort')
      BY <2>1, <2>3 DEF MustAbort
    <2>5. QED  BY <1>0, <2>1, <2>4, WindowKept
  <1>3. CASE SeekEnds
    <2>1. /\ UNCHANGED <<ring, readPos, inner, eofReached, ioError, seeking, abort, interrupted,
                         back>>
          /\ call.op = "seek" /\ call'.op = "none" /\ seeking.completed
          /\ logicalPos' = IF seeking.ret # Failed THEN seeking.ret ELSE logicalPos
      BY <1>3 DEF SeekEnds, ReaderReady, Returns, Idle, fifo, source, end, stop
    <2>2. Base' = Base
      BY <2>1 DEF Base
    <2>3. Base' - readPos' = Base - readPos /\ (MustAbort => MustAbort')
      BY <2>1, <2>2 DEF MustAbort
    <2>4. QED  BY <1>0, <2>1, <2>3, WindowKept
  <1>4. CASE ReadTakes
    <2> DEFINE n == Smaller(call.left, Readable)
    <2>1. n \in 0 .. Readable
      <3>1. Readable \in Nat /\ call.left \in Nat
        BY <1>0 DEF AsyncTypeOK, Readable
      <3>2. QED  BY <3>1 DEF Smaller
    <2>2. /\ TakeFromRing(n) /\ logicalPos' = logicalPos + n /\ ~MustAbort
          /\ UNCHANGED <<inner, eofReached, ioError, back>>
          /\ call.op = "read"
          /\ call' = Idle \/ call' = [call EXCEPT !.left = @ - n, !.got = @ + n]
      BY <1>4 DEF ReadTakes, ReaderReady, Returns, source, end
    <2>3. n \in Nat
      BY <1>0, <2>1 DEF Readable
    <2>4. call'.op \in {"none", "read"}
      <3>1. call \in [op : {"none", "read", "seek", "close"}, left : Nat, got : Nat,
                      whole : BOOLEAN]
        BY <1>0 DEF AsyncTypeOK
      <3>2. CASE call' = Idle
        BY <3>2 DEF Idle
      <3>3. CASE call' = [call EXCEPT !.left = @ - n, !.got = @ + n]
        BY <2>2, <3>1, <3>3
      <3>4. QED  BY <2>2, <3>2, <3>3
    <2> HIDE DEF n
    <2>5. PICK d \in 0 .. Len(ring) :
            /\ Len(ring') = Len(ring) - d /\ readPos' = readPos + n - d
            /\ \A i \in 1 .. Len(ring') : i + d \in 1 .. Len(ring) /\ ring'[i] = ring[i + d]
      BY <1>0, <2>1, <2>2, TakeProperties
    <2>6. Base = logicalPos /\ Base' = logicalPos'
      BY <2>2, <2>4 DEF Base
    <2>7. d \in Nat /\ Len(ring) \in Nat /\ readPos \in Nat /\ logicalPos \in Nat
      BY <1>0, <2>5, <2>6
    <2>8. Base' - readPos' = Base - readPos + d
      BY <2>2, <2>3, <2>5, <2>6, <2>7
    <2>9. RingEnd' = RingEnd
      <3>1. RingEnd = Base - readPos + Len(ring) /\ RingEnd' = Base' - readPos' + Len(ring')
        BY DEF RingEnd
      <3>2. Base - readPos \in Int
        BY <1>0
      <3>3. QED  BY <2>5, <2>7, <2>8, <3>1, <3>2
    <2>10. ASSUME NEW i \in 1 .. Len(ring')
          PROVE  ring'[i] = Base' - readPos' + i - 1
      <3>1. i \in Int /\ Base - readPos \in Int
        BY <1>0
      <3>2. ring'[i] = Base - readPos + (i + d) - 1
        BY <2>2, <2>5 DEF WindowInv
      <3>3. QED  BY <2>7, <2>8, <3>1, <3>2
    <2>11. QED  BY <2>2, <2>9, <2>10 DEF WindowInv, NoError
  <1>5. QED  BY <1>1, <1>2, <1>3, <1>4 DEF Reader

LEMMA BeginsWindow == ControlInv /\ WindowInv /\ Begins => WindowInv'
  <1> SUFFICES ASSUME ControlInv, WindowInv, Begins PROVE WindowInv'
    OBVIOUS
  <1>0. /\ ControlInv' /\ Base \in Nat /\ readPos \in Nat
        /\ call.op \in {"none", "read", "seek", "close"}
    BY BeginsControl, BaseIsNat DEF ControlInv, AsyncTypeOK
  <1>1. UNCHANGED <<ring, inner, eofReached, ioError, back>> /\ (MustAbort => MustAbort')
    BY BeginsFootprint
  <1>2. Base' - readPos' = Base - readPos
    <2>1. CASE UNCHANGED <<readPos, logicalPos, seeking, call>>
      BY <2>1 DEF Base
    <2>2. CASE UNCHANGED <<readPos, logicalPos, seeking>> /\ call.op = "none" /\ call'.op # "seek"
      BY <2>2 DEF Base
    <2>3. CASE call.op = "none" /\ call'.op = "none" /\ logicalPos' - readPos' = logicalPos - readPos
      BY <2>3 DEF Base
    <2>4. CASE /\ UNCHANGED <<readPos, logicalPos>> /\ call.op = "none"
               /\ call'.op = "seek" /\ ~seeking'.completed
      BY <2>4 DEF Base
    <2>5. \/ UNCHANGED call
          \/ call.op = "none"
      BY BeginsFootprint
    <2>6. \/ UNCHANGED <<readPos, logicalPos, seeking>> /\ (UNCHANGED call \/ call'.op # "seek")
          \/ /\ call.op = "none" /\ call'.op = "none"
             /\ logicalPos' - readPos' = logicalPos - readPos
          \/ /\ UNCHANGED <<readPos, logicalPos>> /\ call.op = "none"
             /\ call'.op = "seek" /\ ~seeking'.completed
      BY BeginsFootprint
    <2>7. QED  BY <2>1, <2>2, <2>3, <2>4, <2>5, <2>6
  <1>3. QED  BY <1>0, <1>1, <1>2, WindowKept

\* A read says "end" only at it: nothing is left in the ring, and the ring ends
\* where the inner resource does.
LEMMA EofStep ==
    ASSUME AsyncInv, Back \/ Reader \/ Begins PROVE EofIsTrue'
  <1>0. ControlInv /\ WindowInv /\ EofIsTrue /\ AsyncTypeOK /\ BackInv /\ SeekInv
    BY DEF AsyncInv, ControlInv
  <1>1. CASE Back
    <2>1. UNCHANGED <<result, logicalPos>>
      BY <1>1 DEF Back, BackExits, BackSeeks, BackSleeps, BackCopies, InnerRead, InnerStops,
                  BackWrites, BackTells, stream, reader
    <2>2. QED  BY <1>0, <2>1 DEF EofIsTrue
  <1>2. CASE ReadIsInterrupted \/ ReadTakes \/ ReadWaits \/ SeekIsInterrupted \/ SeekEnds
             \/ SeekWaits \/ CloseEnds
    BY <1>0, <1>2 DEF ReadIsInterrupted, ReadTakes, ReadWaits, SeekIsInterrupted, SeekEnds,
                      SeekWaits, CloseEnds, ReaderReady, Returns, EofIsTrue, SeekInv, reader
  <1>3. CASE ReadEnds
    <2>1. /\ Readable = 0 /\ eofReached /\ ~MustAbort /\ call.op = "read"
          /\ logicalPos' = logicalPos
          /\ result' = IF call.got > 0 \/ call.whole THEN "ok"
                       ELSE IF ioError # "none" THEN ioError ELSE "eof"
      BY <1>3 DEF ReadEnds, ReaderReady, Returns, stream
    <2>2. CASE result' = "eof"
      <3>1. NoError(ioError)
        BY <2>1, <2>2 DEF NoError
      <3>2. back.copied = << >>
        BY <1>0, <2>1 DEF BackInv
      <3>3. inner = Size /\ inner = RingEnd + Len(back.copied)
        BY <1>0, <2>1, <3>1 DEF WindowInv
      <3>4. Base = logicalPos
        BY <2>1 DEF Base
      <3>5. /\ Len(ring) - readPos = 0 /\ Len(ring) \in Nat /\ readPos \in Nat
            /\ logicalPos \in Nat /\ Size \in Nat /\ Len(back.copied) = 0
        BY <1>0, <2>1, <3>2, BaseIsNat, AsyncAssumption DEF Readable, AsyncTypeOK
      <3>6. RingEnd = logicalPos - readPos + Len(ring)
        BY <3>4 DEF RingEnd
      <3>7. logicalPos = Size
        BY <3>3, <3>5, <3>6
      <3>8. QED  BY <2>1, <3>5, <3>7 DEF EofIsTrue
    <2>3. QED  BY <2>2 DEF EofIsTrue
  <1>4. CASE Begins
    <2>1. \/ result' \in {"none", "ok", "invalid"}
          \/ result' = result /\ logicalPos' = logicalPos
      BY <1>0, <1>4, BeginsFootprint
    <2>2. QED  BY <1>0, <2>1 DEF EofIsTrue
  <1>5. QED  BY <1>1, <1>2, <1>3, <1>4 DEF Reader

-----------------------------------------------------------------------------
LEMMA AsyncInvInit == AsyncInit => AsyncInv
  <1> SUFFICES ASSUME AsyncInit PROVE AsyncInv
    OBVIOUS
  <1>1. ControlInv
    BY ControlInit
  <1>2. /\ ring = << >> /\ back.copied = << >> /\ inner = 0 /\ readPos = 0 /\ ~eofReached
        /\ logicalPos = 0 /\ call.op = "none" /\ result = "none"
    BY DEF AsyncInit, Idle
  <1>3. RingEnd = 0 /\ Len(back.copied) = 0
    BY <1>2 DEF RingEnd, Base
  <1>4. WindowInv /\ EofIsTrue
    BY <1>2, <1>3 DEF WindowInv, EofIsTrue
  <1>5. QED  BY <1>1, <1>4 DEF AsyncInv, ControlInv

LEMMA AsyncInvStep == AsyncInv /\ [AsyncNext]_asyncVars => AsyncInv'
  <1> SUFFICES ASSUME AsyncInv, [AsyncNext]_asyncVars PROVE AsyncInv'
    OBVIOUS
  <1>0. ControlInv /\ WindowInv
    BY DEF AsyncInv, ControlInv
  <1>1. CASE AsyncNext
    <2>1. Back \/ Reader \/ Begins
      BY <1>1 DEF AsyncNext, Begins
    <2>2. ControlInv'
      BY <1>0, <2>1, BackControl, ReaderControl, BeginsControl
    <2>3. WindowInv'
      BY <1>0, <2>1, BackWindow, ReaderWindow, BeginsWindow
    <2>4. EofIsTrue'
      BY <2>1, EofStep
    <2>5. QED  BY <2>2, <2>3, <2>4 DEF AsyncInv, ControlInv
  <1>2. CASE UNCHANGED asyncVars
    BY <1>2 DEF AsyncInv, asyncVars, stream, fifo, source, end, stop, reader, AsyncTypeOK, Capacity,
                BackInv, SeekInv, WindowInv, EofIsTrue, RingEnd, Base, NoError, MustAbort
  <1>3. QED  BY <1>1, <1>2

\* The types, and that what is copied and what is kept fit into the ring, whatever
\* its size and the size of a copy (ijkasync.c:123-156, 445).
THEOREM AsyncTypeCorrect == AsyncSpec => []AsyncTypeOK
  <1>1. AsyncInv => AsyncTypeOK
    BY DEF AsyncInv
  <1>2. QED  BY <1>1, AsyncInvInit, AsyncInvStep, PTL DEF AsyncSpec

\* For every ring, resource and number of calls: until it is aborted the ring holds
\* the bytes of the reader's position, after any seeks and failures, and a read that
\* reports the end is at it (ijkasync.c:123-156, 416-421, 445).
THEOREM ReadAheadIsTrue == AsyncSpec => []AsyncReadsTrue
  <1>1. AsyncInv => AsyncReadsTrue
    BY DEF AsyncInv, WindowInv, AsyncReadsTrue, RingIsWindow
  <1>2. QED  BY <1>1, AsyncInvInit, AsyncInvStep, PTL DEF AsyncSpec

-----------------------------------------------------------------------------
(***************************************************************************)
(* UrlHook: the inductive invariant.                                       *)
(***************************************************************************)
Errors == {"ok", "io", "exit", "eof"}

HookTypeOK ==
    /\ kind \in {"tcp", "http", "ijkio", "live", "source"} /\ streamed \in BOOLEAN
    /\ connection \in [open : BOOLEAN, at : Nat]
    /\ hook \in [pos : Nat, size : Nat, error : Errors, retry : Nat, handled : BOOLEAN, changed : BOOLEAN]
    /\ request \in [op : {"none", "open", "read", "seek"}, pc : {"idle", "ask", "connect", "read", "seek"},
                    ret : {"ok"}, target : Nat, again : BOOLEAN]
    /\ answer \in Errors \cup {"end", "bytes", "again"}
    /\ interruption \in BOOLEAN /\ abortRequest \in BOOLEAN /\ activeReconnect \in BOOLEAN
    /\ believed \in Nat /\ misled \in BOOLEAN /\ told \in [from : Nat, wanted : Nat]
    /\ live \in [gen : Nat, shown : Nat, before : Nat, discontinuity : BOOLEAN, flagged : BOOLEAN]

\* The connection stands at the position of the hook, and this is where the caller takes it
\* to be, unless a seek that failed was answered with 0.
PlaceInv ==
    /\ kind # "source" => connection.at = hook.pos
    /\ ~misled => believed = hook.pos
    /\ kind = "source" => ~misled
    /\ HookReadsTrue

\* A connection is opened once, and knows its size from then on.
OpenInv ==
    /\ request.op = "open" => ~connection.open
    /\ request.op \in {"read", "seek"} => connection.open
    /\ request.op = "none" => request.pc = "idle"
    /\ kind = "source" => request.op = "none"
    /\ request.pc = "read" => request.op = "read"
    /\ request.pc = "seek" => request.op = "seek"
    /\ ~connection.open => hook.pos = 0 /\ believed = 0 /\ ~misled
    /\ Loops /\ connection.open /\ ~streamed => hook.size = HookSize

\* An end that is remembered is one, and so is the one that was told.
EndInv ==
    /\ hook.error = "eof" /\ Loops => hook.pos = HookSize \/ misled
    /\ HookEndIsTrue

\* A new connection is opened, and is not yet the one shown, only with the flag raised.
LiveInv ==
    /\ kind = "live" =>
         /\ request.op # "seek"
         /\ request.op = "read" /\ request.pc = "ask" => request.again
         /\ request.op = "read" /\ request.pc = "connect" => live.discontinuity
         /\ ~connection.open => live.shown = 0
         /\ live.shown # 0 /\ live.shown # live.gen => live.discontinuity
    /\ LiveJumpsFlagged

HookInv == HookTypeOK /\ PlaceInv /\ OpenInv /\ EndInv /\ LiveInv
Hooks    == [pos : Nat, size : Nat, error : Errors, retry : Nat, handled : BOOLEAN, changed : BOOLEAN]
CallSet == [op : {"none", "open", "read", "seek"}, pc : {"idle", "ask", "connect", "read", "seek"},
             ret : {"ok"}, target : Nat, again : BOOLEAN]

LEMMA HookInitInv == HookInit => HookInv
<1> SUFFICES ASSUME HookInit PROVE HookInv  OBVIOUS
<1> USE DEF HookInit
<1>1. HookTypeOK
  <2>1. kind \in {"tcp", "http", "ijkio", "live", "source"} /\ streamed \in BOOLEAN  BY HookAssumption
  <2>2. hook \in Hooks  BY DEF Hooks, Errors
  <2>3. request \in CallSet  BY DEF CallSet, NoRequest
  <2>4. live \in [gen : Nat, shown : Nat, before : Nat, discontinuity : BOOLEAN, flagged : BOOLEAN]  OBVIOUS
  <2>5. connection \in [open : BOOLEAN, at : Nat] /\ told \in [from : Nat, wanted : Nat]  OBVIOUS
  <2>6. answer \in Errors \cup {"end", "bytes", "again"}  BY DEF Errors
  <2>7. QED  BY <2>1, <2>2, <2>3, <2>4, <2>5, <2>6 DEF HookTypeOK, Hooks, CallSet
<1>2. PlaceInv  BY DEF PlaceInv, HookReadsTrue
<1>3. OpenInv   BY DEF OpenInv, NoRequest
<1>4. EndInv    BY DEF EndInv, HookEndIsTrue
<1>5. LiveInv   BY DEF LiveInv, LiveJumpsFlagged, NoRequest
<1>6. QED  BY <1>1, <1>2, <1>3, <1>4, <1>5 DEF HookInv

\* What the type says of the fields.
LEMMA HookFields ==
    ASSUME HookTypeOK
    PROVE  /\ hook = [pos |-> hook.pos, size |-> hook.size, error |-> hook.error, retry |-> hook.retry,
                      handled |-> hook.handled, changed |-> hook.changed]
           /\ hook.pos \in Nat /\ hook.size \in Nat /\ hook.error \in Errors /\ hook.retry \in Nat
           /\ hook.handled \in BOOLEAN /\ hook.changed \in BOOLEAN
           /\ request = [op |-> request.op, pc |-> request.pc, ret |-> request.ret, target |-> request.target,
                         again |-> request.again]
           /\ request.op \in {"none", "open", "read", "seek"}
           /\ request.pc \in {"idle", "ask", "connect", "read", "seek"} /\ request.ret = "ok"
           /\ request.target \in Nat /\ request.again \in BOOLEAN
           /\ connection = [open |-> connection.open, at |-> connection.at]
           /\ connection.open \in BOOLEAN /\ connection.at \in Nat
           /\ live = [gen |-> live.gen, shown |-> live.shown, before |-> live.before,
                      discontinuity |-> live.discontinuity, flagged |-> live.flagged]
           /\ live.gen \in Nat /\ live.shown \in Nat /\ live.before \in Nat
           /\ live.discontinuity \in BOOLEAN /\ live.flagged \in BOOLEAN
           /\ HookSize \in Nat /\ believed \in Nat /\ misled \in BOOLEAN
BY HookAssumption DEF HookTypeOK

\* A hook and a request, as the fields the invariants are about: what is true of them now,
\* and what a step makes of them.
HookIs(pos, size, error) ==
    /\ hook' \in Hooks /\ hook'.pos = pos /\ hook'.size = size /\ hook'.error = error
RequestIs(op, pc, again) ==
    request' \in CallSet /\ request'.op = op /\ request'.pc = pc /\ request'.again = again

LEMMA AskAgainIs ==
    ASSUME HookTypeOK, NEW h \in Hooks, AskAgain(h)
    PROVE  /\ HookIs(h.pos, h.size, h.error) /\ hook'.handled = h.handled
           /\ RequestIs(request.op, "ask", TRUE) /\ answer' = answer
<1>1. HookIs(h.pos, h.size, h.error) /\ hook'.handled = h.handled
  BY DEF AskAgain, HookIs, Hooks
<1>2. RequestIs(request.op, "ask", TRUE) /\ answer' = answer
  BY HookFields DEF AskAgain, RequestIs, CallSet
<1>3. QED  BY <1>1, <1>2

LEMMA AnswerWithIs ==
    ASSUME NEW ret, AnswerWith(ret)
    PROVE  RequestIs("none", "idle", FALSE) /\ answer' = ret
BY DEF AnswerWith, RequestIs, CallSet, NoRequest

LEMMA OpenIsAnsweredIs ==
    ASSUME HookTypeOK, NEW h \in Hooks, NEW ret, OpenIsAnswered(ret, h)
    PROVE  /\ HookIs(h.pos, h.size, h.error) /\ hook'.handled = h.handled
           /\ \/ ret \in {"io", "eof"} /\ RequestIs(request.op, "ask", TRUE) /\ answer' = answer
              \/ RequestIs("none", "idle", FALSE) /\ answer' = ret
<1>1. CASE AskAgain(h) /\ ret \in {"io", "eof"}  BY <1>1, AskAgainIs
<1>2. CASE AnswerWith(ret) /\ hook' = h  BY <1>2, AnswerWithIs DEF HookIs
<1>3. QED  BY <1>1, <1>2 DEF OpenIsAnswered

LEMMA ReadIsAnsweredIs ==
    ASSUME HookTypeOK, NEW h \in Hooks, NEW ret \in Errors \cup {"end", "bytes"}, ReadIsAnswered(ret, h)
    PROVE  \/ /\ ret \in {"io", "eof"} /\ HookIs(h.pos, h.size, h.error)
              /\ RequestIs(request.op, "ask", TRUE) /\ answer' = answer
           \/ /\ RequestIs("none", "idle", FALSE) /\ answer' = ret
              /\ HookIs(h.pos, h.size, IF ret = "bytes" THEN h.error ELSE Kept(ret))
<1>1. CASE AskAgain(h) /\ ret \in {"io", "eof"}  BY <1>1, AskAgainIs
<1>2. CASE AnswerWith(ret) /\ hook' = IF ret = "bytes" THEN h ELSE [h EXCEPT !.error = Kept(ret)]
  <2>1. Kept(ret) \in Errors \/ ret = "bytes"  BY DEF Kept, Errors
  <2>2. HookIs(h.pos, h.size, IF ret = "bytes" THEN h.error ELSE Kept(ret))
    BY <1>2, <2>1 DEF HookIs, Hooks
  <2>3. QED  BY <1>2, <2>2, AnswerWithIs
<1>3. QED  BY <1>1, <1>2 DEF ReadIsAnswered

\* A seek is answered: it has arrived; it failed and is known to have; or it failed and is
\* taken to have arrived.
LEMMA SeekIsAnsweredIs ==
    ASSUME HookTypeOK, NEW h \in Hooks, NEW ret \in Errors, SeekIsAnswered(ret, h)
    PROVE  \/ /\ ret = "ok" /\ HookIs(h.pos, h.size, "ok") /\ RequestIs("none", "idle", FALSE) /\ answer' = "ok"
              /\ believed' = request.target /\ misled' = FALSE /\ told' = [from |-> 0, wanted |-> 0]
           \/ /\ ret # "ok" /\ HookIs(h.pos, h.size, "ok") /\ RequestIs("none", "idle", FALSE)
              /\ answer' \in {"io", "exit"}
              /\ UNCHANGED caller
           \/ /\ ret # "ok" /\ HookIs(h.pos, h.size, h.error) /\ RequestIs("none", "idle", FALSE) /\ answer' = "ok"
              /\ believed' = request.target /\ misled' = TRUE /\ told' = [from |-> 0, wanted |-> 0]
           \/ /\ ret = "io" /\ HookIs(h.pos, h.size, h.error) /\ RequestIs(request.op, "ask", TRUE) /\ answer' = answer
              /\ UNCHANGED caller
<1>a. HookIs(h.pos, h.size, "ok") \/ hook' # [h EXCEPT !.error = "ok"]
  BY DEF HookIs, Hooks, Errors
<1>1. CASE ret = "ok"
  <2>1. hook' = [h EXCEPT !.error = "ok"] /\ Arrives("ok", FALSE)  BY <1>1 DEF SeekIsAnswered
  <2>2. AnswerWith("ok") /\ believed' = request.target /\ misled' = FALSE /\ told' = [from |-> 0, wanted |-> 0]
    BY <2>1 DEF Arrives, Failures
  <2>3. QED  BY <1>1, <1>a, <2>1, <2>2, AnswerWithIs
<1>2. CASE ret # "ok" /\ Aborted
  <2>1. hook' = [h EXCEPT !.error = "ok"] /\ Arrives(ret, FALSE)  BY <1>2 DEF SeekIsAnswered
  <2>2. AnswerWith(IF ret = "eof" THEN "io" ELSE ret) /\ UNCHANGED caller
    BY <1>2, <2>1 DEF Arrives, Failures, Errors
  <2>3. RequestIs("none", "idle", FALSE) /\ answer' \in {"io", "exit"}
    BY <1>2, <2>2, AnswerWithIs DEF Errors
  <2>4. QED  BY <1>a, <1>2, <2>1, <2>2, <2>3
<1>3. CASE ret \in {"exit", "eof"} /\ ~Aborted
  <2>1. hook' = h /\ Arrives("ok", TRUE)  BY <1>3 DEF SeekIsAnswered
  <2>2. AnswerWith("ok") /\ believed' = request.target /\ misled' = TRUE /\ told' = [from |-> 0, wanted |-> 0]
    BY <2>1 DEF Arrives, Failures
  <2>3. HookIs(h.pos, h.size, h.error)  BY <2>1 DEF HookIs
  <2>4. QED  BY <1>3, <2>2, <2>3, AnswerWithIs
<1>4. CASE ret = "io" /\ ~Aborted
  <2>1. AskAgain(h) /\ UNCHANGED caller  BY <1>4 DEF SeekIsAnswered
  <2>2. QED  BY <1>4, <2>1, AskAgainIs
<1>5. QED  BY <1>1, <1>2, <1>3, <1>4 DEF Errors

-----------------------------------------------------------------------------
(* The steps.  TypeRest: all that is not the hook, the request and the answer. *)

Connections == [open : BOOLEAN, at : Nat]
AnswerSet   == Errors \cup {"end", "bytes", "again"}
FlagsTyped  == /\ interruption \in BOOLEAN /\ abortRequest \in BOOLEAN /\ activeReconnect \in BOOLEAN
CallerTyped == believed \in Nat /\ misled \in BOOLEAN /\ told \in [from : Nat, wanted : Nat]
StableTyped == /\ kind \in {"tcp", "http", "ijkio", "live", "source"} /\ streamed \in BOOLEAN
               /\ live \in [gen : Nat, shown : Nat, before : Nat, discontinuity : BOOLEAN, flagged : BOOLEAN]

LEMMA TypeParts ==
    HookTypeOK <=> /\ StableTyped /\ CallerTyped /\ FlagsTyped /\ hook \in Hooks /\ request \in CallSet
                   /\ connection \in Connections /\ answer \in AnswerSet
BY DEF HookTypeOK, StableTyped, CallerTyped, FlagsTyped, Hooks, CallSet, Connections, AnswerSet

\* A step of a protocol that is not live leaves what the live hook has.
LEMMA LiveStays ==
    ASSUME LiveInv, kind # "live", kind' = kind, live' = live
    PROVE  LiveInv'
BY DEF LiveInv, LiveJumpsFlagged

\* The call is in progress, and the position is what it was.
LEMMA InProgress ==
    ASSUME HookInv, kind \notin {"live", "source"}, kind' = kind, streamed' = streamed, live' = live,
           UNCHANGED caller, FlagsTyped', connection' = connection, answer' \in AnswerSet,
           NEW op \in {"open", "read", "seek"}, NEW pc, NEW again, RequestIs(op, pc, again),
           pc = "read" => op = "read", pc = "seek" => op = "seek",
           op = "open" <=> ~connection.open,
           NEW size, NEW error, HookIs(hook.pos, size, error), size = hook.size \/ size = (IF streamed THEN 0 ELSE HookSize),
           error = "eof" /\ Loops => hook.pos = HookSize \/ misled
    PROVE  HookInv'
<1> USE DEF HookInv
<1>0. HookTypeOK /\ UNCHANGED <<believed, misled, told>>  BY DEF caller
<1>1. HookTypeOK'
  <2>1. StableTyped' /\ CallerTyped'  BY <1>0, TypeParts DEF StableTyped, CallerTyped
  <2>2. hook' \in Hooks /\ request' \in CallSet  BY DEF HookIs, RequestIs
  <2>3. connection' \in Connections  BY <1>0, TypeParts
  <2>4. QED  BY <2>1, <2>2, <2>3, TypeParts, FlagsTyped'
     DEF HookTypeOK, StableTyped, CallerTyped, FlagsTyped, Hooks, CallSet, Connections, AnswerSet
<1>2. PlaceInv'  BY <1>0 DEF PlaceInv, HookReadsTrue, HookIs
<1>3. OpenInv'   BY <1>0 DEF OpenInv, HookIs, RequestIs, Loops
<1>4. EndInv'    BY <1>0 DEF EndInv, HookEndIsTrue, HookIs, RequestIs, Loops
<1>5. LiveInv'   BY LiveStays
<1>6. QED  BY <1>1, <1>2, <1>3, <1>4, <1>5

\* The call has ended, and the position is what it was.
LEMMA CallEnds ==
    ASSUME HookInv, kind \notin {"live", "source"}, kind' = kind, streamed' = streamed, live' = live,
           UNCHANGED caller, FlagsTyped', answer' \in AnswerSet, RequestIs("none", "idle", FALSE),
           connection' \in Connections, connection'.at = connection.at,
           \/ connection'.open = connection.open /\ hook'.size = hook.size
           \/ connection'.open = TRUE /\ hook'.size = (IF streamed THEN 0 ELSE HookSize),
           NEW error, HookIs(hook.pos, hook'.size, error),
           error = "eof" /\ Loops => hook.pos = HookSize \/ misled,
           HookEndIsTrue'
    PROVE  HookInv'
<1> USE DEF HookInv
<1>0. HookTypeOK /\ UNCHANGED <<believed, misled, told>>  BY DEF caller
<1>1. HookTypeOK'
  <2>1. StableTyped' /\ CallerTyped'  BY <1>0, TypeParts DEF StableTyped, CallerTyped
  <2>2. hook' \in Hooks /\ request' \in CallSet  BY DEF HookIs, RequestIs
  <2>4. QED  BY <2>1, <2>2, TypeParts, FlagsTyped'
     DEF HookTypeOK, StableTyped, CallerTyped, FlagsTyped, Hooks, CallSet, Connections, AnswerSet
<1>2. PlaceInv'  BY <1>0 DEF PlaceInv, HookReadsTrue, HookIs
<1>3. OpenInv'   BY <1>0 DEF OpenInv, HookIs, RequestIs, Loops
<1>4. EndInv'
  <2>1. hook'.error = "eof" /\ Loops' => hook'.pos = HookSize \/ misled'
    BY <1>0 DEF EndInv, HookIs, Loops
  <2>2. QED  BY <2>1 DEF EndInv
<1>5. LiveInv'   BY LiveStays
<1>6. QED  BY <1>1, <1>2, <1>3, <1>4, <1>5

\* A seek has ended, as far as the caller knows at its target.
LEMMA HookSeekEnds ==
    ASSUME HookInv, kind \notin {"live", "source"}, kind' = kind, streamed' = streamed, live' = live,
           FlagsTyped', connection' \in Connections, connection'.open = TRUE, connection.open = TRUE,
           answer' = "ok", RequestIs("none", "idle", FALSE),
           NEW pos \in Nat, NEW size, NEW error \in Errors, HookIs(pos, size, error),
           size = hook.size \/ size = (IF streamed THEN 0 ELSE HookSize),
           connection'.at = pos, believed' \in Nat, told' = [from |-> 0, wanted |-> 0],
           \/ misled' = FALSE /\ believed' = pos /\ error = "ok"
           \/ misled' = TRUE
    PROVE  HookInv'
<1> USE DEF HookInv
<1>1. HookTypeOK'
  <2>1. StableTyped' /\ CallerTyped'  BY TypeParts DEF StableTyped, CallerTyped
  <2>2. hook' \in Hooks /\ request' \in CallSet /\ answer' \in AnswerSet  BY DEF HookIs, RequestIs, AnswerSet, Errors
  <2>4. QED  BY <2>1, <2>2, TypeParts, FlagsTyped'
     DEF HookTypeOK, StableTyped, CallerTyped, FlagsTyped, Hooks, CallSet, Connections, AnswerSet
<1>2. PlaceInv'  BY DEF PlaceInv, HookReadsTrue, HookIs
<1>3. OpenInv'   BY DEF OpenInv, HookIs, RequestIs, Loops
<1>4. EndInv'
  <2>1. hook'.error = error  BY DEF HookIs
  <2>2. hook'.error = "eof" /\ Loops' => hook'.pos = HookSize \/ misled'  BY <2>1
  <2>3. HookEndIsTrue'  BY DEF HookEndIsTrue
  <2>4. QED  BY <2>2, <2>3 DEF EndInv
<1>5. LiveInv'   BY LiveStays
<1>6. QED  BY <1>1, <1>2, <1>3, <1>4, <1>5

LEMMA FlagsStay ==
    ASSUME HookTypeOK, interruption' = interruption, abortRequest' \in BOOLEAN, activeReconnect' \in BOOLEAN
    PROVE  FlagsTyped'
BY DEF HookTypeOK, FlagsTyped

LEMMA HookOpenKeeps == ASSUME HookInv, HookOpen PROVE HookInv'
<1>0. /\ HookTypeOK /\ OpenInv /\ EndInv  BY DEF HookInv
<1> USE HookFields
<1>1. /\ kind \notin {"live", "source"} /\ UNCHANGED caller /\ UNCHANGED <<kind, streamed, live, connection, answer>>
      /\ FlagsTyped' /\ ~connection.open
  BY <1>0 DEF HookOpen, HookIdle, outside, Requests, FlagsTyped, HookTypeOK
<1>2. HookIs(hook.pos, hook.size, hook.error)  BY <1>0 DEF HookOpen, HookIs, Hooks
<1>3. PICK pc \in {"connect", "ask"} : RequestIs("open", pc, FALSE)
  BY <1>0 DEF HookOpen, Requests, NoRequest, RequestIs, CallSet
<1>4. hook.error = "eof" /\ Loops => hook.pos = HookSize \/ misled  BY <1>0 DEF EndInv
<1>5. answer' \in AnswerSet  BY <1>0, <1>1, TypeParts
<1>6. QED  BY <1>1, <1>2, <1>3, <1>4, <1>5, InProgress

LEMMA HookReadKeeps == ASSUME HookInv, HookRead PROVE HookInv'
<1>0. /\ HookTypeOK /\ OpenInv /\ EndInv  BY DEF HookInv
<1> USE HookFields
<1>1. /\ kind \notin {"live", "source"} /\ UNCHANGED caller /\ UNCHANGED <<kind, streamed, live, connection>>
      /\ UNCHANGED <<abortRequest, activeReconnect>>
      /\ FlagsTyped' /\ connection.open
  BY <1>0 DEF HookRead, HookIdle, outside, FlagsTyped, HookTypeOK
<1>2. hook.error = "eof" /\ Loops => hook.pos = HookSize \/ misled  BY <1>0 DEF EndInv
<1> DEFINE h == [hook EXCEPT !.retry = 0]
<1>3. h \in Hooks /\ h.pos = hook.pos /\ h.size = hook.size /\ h.error = hook.error  BY <1>0 DEF Hooks
<1> HIDE DEF h
<1>4. CASE ~activeReconnect \/ Unfinished(h)
  <2>1. HookIs(hook.pos, hook.size, hook.error)
    <3>1. hook' = h \/ hook' = [h EXCEPT !.retry = 1]  BY <1>4 DEF HookRead, h
    <3>2. QED  BY <1>3, <3>1 DEF HookIs, Hooks
  <2>2. answer' = answer /\ \E pc \in {"read", "ask"}, again \in BOOLEAN : RequestIs("read", pc, again)
    <3>1. CASE ~activeReconnect
      <4>1. Requests("read", "read", 0)  BY <3>1 DEF HookRead
      <4>2. RequestIs("read", "read", FALSE) /\ answer' = answer
        BY <4>1 DEF Requests, NoRequest, RequestIs, CallSet
      <4>3. QED  BY <4>2
    <3>2. CASE activeReconnect
      <4>1. /\ request' = [NoRequest EXCEPT !.op = "read", !.pc = "ask", !.again = TRUE]
            /\ UNCHANGED answer
        BY <1>4, <3>2 DEF HookRead, h
      <4>2. RequestIs("read", "ask", TRUE) /\ answer' = answer
        BY <4>1 DEF NoRequest, RequestIs, CallSet
      <4>3. QED  BY <4>2
    <3>3. QED  BY <3>1, <3>2
  <2>3. PICK pc \in {"read", "ask"}, again \in BOOLEAN : RequestIs("read", pc, again)  BY <2>2
  <2>4. answer' \in AnswerSet  BY <1>0, <2>2, TypeParts
  <2>5. QED  BY <1>1, <1>2, <2>1, <2>3, <2>4, InProgress
<1>5. CASE activeReconnect /\ ~Unfinished(h)
  <2>1. AnswerWith("end") /\ hook' = [h EXCEPT !.error = "ok"]  BY <1>5 DEF HookRead, h
  <2>2. HookIs(hook.pos, hook.size, "ok") /\ hook'.size = hook.size  BY <1>3, <2>1 DEF HookIs, Hooks, Errors
  <2>3. RequestIs("none", "idle", FALSE) /\ answer' = "end"  BY <2>1, AnswerWithIs
  <2>4. HookEndIsTrue'  BY <1>1, <1>5 DEF HookEndIsTrue
  <2>5. connection' \in Connections /\ answer' \in AnswerSet  BY <1>0, <1>1, <2>3, TypeParts DEF AnswerSet
  <2>6. QED  BY <1>1, <2>2, <2>3, <2>4, <2>5, CallEnds
<1>6. QED  BY <1>4, <1>5

LEMMA HookSeekKeeps == ASSUME HookInv, HookSeek PROVE HookInv'
<1>0. /\ HookTypeOK /\ PlaceInv /\ OpenInv /\ EndInv /\ LiveInv  BY DEF HookInv
<1> USE HookFields
<1>1. /\ kind \notin {"live", "source"} /\ UNCHANGED <<kind, streamed, live, connection>>
      /\ FlagsTyped' /\ connection.open /\ request.op = "none"
  BY <1>0 DEF HookSeek, HookIdle, outside, FlagsTyped, HookTypeOK
<1>2. hook.error = "eof" /\ Loops => hook.pos = HookSize \/ misled  BY <1>0 DEF EndInv
<1>3. PICK target \in 0 .. HookSize :
       IF target = hook.pos \/ (kind = "http" /\ streamed)
       THEN /\ answer' = IF target = hook.pos THEN "ok" ELSE "io"
            /\ believed' = IF target = hook.pos THEN target ELSE believed
            /\ told' = [from |-> 0, wanted |-> 0]
            /\ UNCHANGED <<request, hook, misled>>
       ELSE /\ Requests("seek", "ask", target)
            /\ hook' = [hook EXCEPT !.retry = 0]
            /\ UNCHANGED caller
  BY DEF HookSeek
<1>4. target \in Nat  OBVIOUS
<1>5. CASE target = hook.pos \/ (kind = "http" /\ streamed)
  <2>1. /\ answer' \in {"ok", "io"} /\ believed' \in {hook.pos, believed} /\ told' = [from |-> 0, wanted |-> 0]
        /\ UNCHANGED <<request, hook, misled>>
    BY <1>3, <1>5
  <2>2. HookTypeOK'
    <3>1. CallerTyped'  BY <1>0, <2>1 DEF CallerTyped
    <3>2. StableTyped' /\ hook' \in Hooks /\ request' \in CallSet /\ connection' \in Connections
      BY <1>0, <1>1, <2>1, TypeParts DEF StableTyped
    <3>3. answer' \in AnswerSet  BY <2>1 DEF AnswerSet, Errors
    <3>4. QED  BY <1>1, <3>1, <3>2, <3>3
       DEF HookTypeOK, StableTyped, CallerTyped, FlagsTyped, Hooks, CallSet, Connections, AnswerSet
  <2>3. PlaceInv'  BY <1>0, <1>1, <2>1 DEF PlaceInv, HookReadsTrue
  <2>4. OpenInv'   BY <1>0, <1>1, <2>1 DEF OpenInv, Loops
  <2>5. EndInv'    BY <1>0, <1>1, <2>1 DEF EndInv, HookEndIsTrue, Loops
  <2>6. LiveInv'   BY <1>0, <1>1, LiveStays
  <2>7. QED  BY <2>2, <2>3, <2>4, <2>5, <2>6 DEF HookInv
<1>6. CASE ~ (target = hook.pos \/ (kind = "http" /\ streamed))
  <2>1. Requests("seek", "ask", target) /\ hook' = [hook EXCEPT !.retry = 0] /\ UNCHANGED caller  BY <1>3, <1>6
  <2>2. RequestIs("seek", "ask", FALSE) /\ answer' = answer
    BY <1>4, <2>1 DEF Requests, NoRequest, RequestIs, CallSet
  <2>3. HookIs(hook.pos, hook.size, hook.error)  BY <1>0, <2>1 DEF HookIs, Hooks
  <2>4. answer' \in AnswerSet  BY <1>0, <2>2, TypeParts
  <2>5. QED  BY <1>1, <1>2, <2>1, <2>2, <2>3, <2>4, InProgress
<1>7. QED  BY <1>5, <1>6

\* What the application answers is another hook at the same place.
LEMMA AnswersIs ==
    ASSUME HookTypeOK, NEW h \in Answers(hook)
    PROVE  h \in Hooks /\ h.pos = hook.pos /\ h.size = hook.size /\ h.error = hook.error
<1>1. TakesOn(hook) \subseteq BOOLEAN  BY DEF TakesOn
<1>2. PICK b \in TakesOn(hook), d \in BOOLEAN : h = Says(hook, b, d)  BY DEF Answers
<1>3. b \in BOOLEAN  BY <1>1
<1>4. hook \in Hooks  BY TypeParts
<1>5. QED  BY <1>2, <1>3, <1>4 DEF Hooks, Says

\* What is known at a step of a call in progress.
LEMMA AtStep ==
    ASSUME HookInv, NEW pc, HookAt(pc), pc # "idle"
    PROVE  /\ kind \notin {"live", "source"} /\ request.pc = pc /\ request.op \in {"open", "read", "seek"}
           /\ (request.op = "open" <=> ~connection.open)
           /\ (hook.error = "eof" /\ Loops => hook.pos = HookSize \/ misled)
           /\ connection.at = hook.pos
           /\ pc = "read" => request.op = "read"
           /\ pc = "seek" => request.op = "seek"
           /\ HookTypeOK /\ hook \in Hooks /\ connection \in Connections /\ answer \in AnswerSet
BY HookFields, TypeParts DEF HookInv, OpenInv, PlaceInv, EndInv, HookAt, At

LEMMA AskExitsKeeps == ASSUME HookInv, AskExits PROVE HookInv'
<1>0. HookAt("ask")  BY DEF AskExits
<1>a. /\ kind \notin {"live", "source"} /\ hook \in Hooks /\ connection \in Connections /\ HookTypeOK
      /\ (hook.error = "eof" /\ Loops => hook.pos = HookSize \/ misled)
  BY <1>0, AtStep
<1> USE HookFields
<1>1. /\ UNCHANGED caller /\ UNCHANGED <<kind, streamed, live, connection, interruption>>
      /\ abortRequest' \in BOOLEAN /\ activeReconnect' \in BOOLEAN
  BY <1>a DEF AskExits, outside, HookTypeOK
<1>2. FlagsTyped'  BY <1>a, <1>1, FlagsStay
<1>3. RequestIs("none", "idle", FALSE) /\ answer' = "exit"  BY AnswerWithIs DEF AskExits
<1>4. PICK error \in {hook.error, "exit"} : HookIs(hook.pos, hook.size, error)
  BY <1>a DEF AskExits, HookIs, Hooks, Errors
<1>5. HookEndIsTrue' /\ hook'.size = hook.size /\ answer' \in AnswerSet
  BY <1>3, <1>4 DEF HookEndIsTrue, HookIs, AnswerSet, Errors
<1>6. QED  BY <1>a, <1>1, <1>2, <1>3, <1>4, <1>5, CallEnds

LEMMA AskGoesOnKeeps == ASSUME HookInv, AskGoesOn PROVE HookInv'
<1>0. HookAt("ask")  BY DEF AskGoesOn
<1>a. /\ kind \notin {"live", "source"} /\ hook \in Hooks /\ connection \in Connections /\ HookTypeOK
      /\ (hook.error = "eof" /\ Loops => hook.pos = HookSize \/ misled)
      /\ request.op \in {"open", "read", "seek"} /\ (request.op = "open" <=> ~connection.open)
      /\ answer \in AnswerSet
  BY <1>0, AtStep
<1> USE HookFields
<1>1. /\ UNCHANGED caller /\ UNCHANGED <<kind, streamed, live, connection, interruption, abortRequest>>
      /\ abortRequest' \in BOOLEAN /\ activeReconnect' \in BOOLEAN
  BY <1>a DEF AskGoesOn, outside, HookTypeOK
<1>2. FlagsTyped'  BY <1>a, <1>1, FlagsStay
<1>3. PICK h \in Answers(hook) : /\ hook' = h
                                 /\ Goes(IF request.op = "seek" /\ ~h.changed THEN "seek" ELSE "connect")
  BY DEF AskGoesOn
<1>4. HookIs(hook.pos, hook.size, hook.error)  BY <1>a, <1>3, AnswersIs DEF HookIs
<1>5. PICK pc \in {"seek", "connect"} : Goes(pc) /\ (pc = "seek" => request.op = "seek")  BY <1>3
<1>6. RequestIs(request.op, pc, request.again) /\ answer' = answer
  BY <1>a, <1>5 DEF Goes, RequestIs, CallSet
<1>7. QED  BY <1>a, <1>1, <1>2, <1>4, <1>5, <1>6, InProgress

LEMMA AskRefusedKeeps == ASSUME HookInv, AskRefused PROVE HookInv'
<1>0. HookAt("ask")  BY DEF AskRefused
<1>a. /\ kind \notin {"live", "source"} /\ hook \in Hooks /\ connection \in Connections /\ HookTypeOK
      /\ (hook.error = "eof" /\ Loops => hook.pos = HookSize \/ misled)
      /\ request.op \in {"open", "read", "seek"} /\ (request.op = "open" <=> ~connection.open)
      /\ connection.at = hook.pos
  BY <1>0, AtStep
<1> USE HookFields
<1>1. /\ UNCHANGED <<kind, streamed, live, connection, interruption, abortRequest>>
      /\ abortRequest' \in BOOLEAN /\ activeReconnect' \in BOOLEAN
  BY <1>a DEF AskRefused, outside, HookTypeOK
<1>2. FlagsTyped'  BY <1>a, <1>1, FlagsStay
<1>3. PICK h \in Answers(hook) :
         ~h.handled /\ hook' = IF request.op = "read" THEN [h EXCEPT !.error = "ok"] ELSE h
  BY DEF AskRefused
<1>4. /\ HookIs(hook.pos, hook.size, IF request.op = "read" THEN "ok" ELSE hook.error)
      /\ hook'.handled = FALSE
  <2>1. h \in Hooks /\ h.pos = hook.pos /\ h.size = hook.size /\ h.error = hook.error  BY <1>a, AnswersIs
  <2>2. QED  BY <1>3, <2>1 DEF HookIs, Hooks, Errors
<1>5. HookEndIsTrue' /\ hook'.size = hook.size  BY <1>4 DEF HookEndIsTrue, HookIs
<1>6. CASE request.op \in {"open", "read"}
  <2>1. PICK ret \in {"io", "end"} : AnswerWith(ret) /\ UNCHANGED caller  BY <1>6 DEF AskRefused
  <2>2. RequestIs("none", "idle", FALSE) /\ answer' \in AnswerSet  BY <2>1, AnswerWithIs DEF AnswerSet, Errors
  <2>3. QED  BY <1>a, <1>1, <1>2, <1>4, <1>5, <2>1, <2>2, CallEnds
<1>7. CASE request.op = "seek"
  <2>1. Arrives("ok", TRUE)  BY <1>7 DEF AskRefused
  <2>2. /\ RequestIs("none", "idle", FALSE) /\ answer' = "ok" /\ believed' = request.target /\ misled' = TRUE
        /\ told' = [from |-> 0, wanted |-> 0]
    BY <2>1, AnswerWithIs DEF Arrives, Failures
  <2>3. HookIs(hook.pos, hook.size, hook.error) /\ connection' \in Connections /\ connection.open = TRUE
    BY <1>a, <1>1, <1>4, <1>7
  <2>4. believed' \in Nat /\ hook.error \in Errors /\ hook.pos \in Nat  BY <1>a, <2>2
  <2>5. QED  BY <1>a, <1>1, <1>2, <2>2, <2>3, <2>4, HookSeekEnds
<1>8. QED  BY <1>a, <1>6, <1>7

LEMMA FailsIs == \A ret \in Fails : ret \in {"io", "exit"}
BY DEF Fails

LEMMA ConnectedIs ==
    ASSUME HookTypeOK, NEW offset \in Nat
    PROVE  LET h == Connected(hook, offset)
           IN  h \in Hooks /\ h.pos = offset /\ h.size = (IF streamed THEN 0 ELSE HookSize) /\ h.error = "ok"
<1>1. hook \in Hooks /\ HookSize \in Nat /\ streamed \in BOOLEAN  BY HookFields, TypeParts DEF StableTyped
<1>2. QED  BY <1>1 DEF Connected, Hooks, Errors

LEMMA HookConnectKeeps == ASSUME HookInv, HookConnect PROVE HookInv'
<1>0. HookAt("connect")  BY DEF HookConnect
<1>a. /\ kind \notin {"live", "source"} /\ hook \in Hooks /\ connection \in Connections /\ HookTypeOK
      /\ request.op \in {"open", "read", "seek"} /\ (request.op = "open" <=> ~connection.open)
      /\ connection.at = hook.pos /\ answer \in AnswerSet
  BY <1>0, AtStep
<1> USE HookFields
<1>1. /\ UNCHANGED <<kind, streamed, live, interruption, abortRequest, activeReconnect>>
      /\ abortRequest' \in BOOLEAN /\ activeReconnect' \in BOOLEAN
      /\ connection' = [open |-> TRUE, at |-> Offset]
  BY <1>a DEF HookConnect, outside, HookTypeOK
<1>2. FlagsTyped'  BY <1>a, <1>1, FlagsStay
<1> DEFINE size == IF streamed THEN 0 ELSE HookSize
           h == Connected(hook, Offset)
<1>3. /\ request.op = "open" => Offset = 0
      /\ request.op = "read" => Offset = hook.pos
      /\ request.op = "seek" => Offset = request.target
  BY DEF Offset
<1>4. Offset \in Nat  BY <1>a, <1>3
<1>5. h \in Hooks /\ h.pos = Offset /\ h.size = size /\ h.error = "ok"  BY <1>a, <1>4, ConnectedIs
<1>6. connection' \in Connections  BY <1>1, <1>4 DEF Connections
<1> HIDE DEF h, size
<1>7. CASE request.op = "read"
  <2>1. hook' = h /\ Goes("read") /\ UNCHANGED caller  BY <1>7 DEF HookConnect, h
  <2>2. HookIs(hook.pos, size, "ok")  BY <1>3, <1>5, <1>7, <2>1 DEF HookIs
  <2>3. RequestIs("read", "read", request.again) /\ answer' = answer
    BY <1>a, <1>7, <2>1 DEF Goes, RequestIs, CallSet
  <2>4. connection' = connection  BY <1>a, <1>1, <1>3, <1>7
  <2>5. QED  BY <1>a, <1>1, <1>2, <1>7, <2>1, <2>2, <2>3, <2>4, InProgress DEF size
<1>8. CASE request.op = "open"
  <2>1. OpenIsAnswered("ok", h) /\ UNCHANGED caller  BY <1>8 DEF HookConnect, Answered, h
  <2>2. HookIs(h.pos, h.size, h.error) /\ RequestIs("none", "idle", FALSE) /\ answer' = "ok"
    BY <1>a, <1>5, <2>1, OpenIsAnsweredIs
  <2>3. hook.pos = 0  BY <1>a, <1>8 DEF HookInv, OpenInv
  <2>4. HookIs(hook.pos, hook'.size, "ok") /\ hook'.size = size  BY <1>3, <1>5, <1>8, <2>2, <2>3 DEF HookIs
  <2>5. connection'.at = connection.at /\ connection'.open = TRUE  BY <1>a, <1>1, <1>3, <1>8, <2>3
  <2>6. answer' \in AnswerSet /\ HookEndIsTrue'  BY <2>2 DEF AnswerSet, Errors, HookEndIsTrue
  <2>7. QED  BY <1>a, <1>1, <1>2, <1>6, <2>1, <2>2, <2>4, <2>5, <2>6, CallEnds DEF size
<1>9. CASE request.op = "seek"
  <2>1. SeekIsAnswered("ok", h)  BY <1>9 DEF HookConnect, Answered, h
  <2>2. /\ HookIs(h.pos, h.size, "ok") /\ RequestIs("none", "idle", FALSE) /\ answer' = "ok"
        /\ believed' = request.target /\ misled' = FALSE /\ told' = [from |-> 0, wanted |-> 0]
    BY <1>a, <1>5, <2>1, SeekIsAnsweredIs DEF Errors
  <2>3. HookIs(request.target, size, "ok")  BY <1>3, <1>5, <1>9, <2>2
  <2>4. connection'.at = request.target /\ connection'.open = TRUE /\ connection.open = TRUE
    BY <1>a, <1>1, <1>3, <1>9
  <2>5. believed' \in Nat /\ request.target \in Nat  BY <1>a, <2>2
  <2>6. "ok" \in Errors  BY DEF Errors
  <2>7. QED  BY <1>a, <1>1, <1>2, <1>6, <2>2, <2>3, <2>4, <2>5, <2>6, HookSeekEnds DEF size
<1>10. QED  BY <1>a, <1>7, <1>8, <1>9

\* A seek that a connection has failed to do.
LEMMA SeekFailed ==
    ASSUME HookInv, NEW pc, HookAt(pc), pc # "idle", request.op = "seek",
           NEW ret \in {"io", "exit", "eof"}, SeekIsAnswered(ret, [hook EXCEPT !.error = ret]),
           UNCHANGED <<connection, abortRequest, activeReconnect, outside>>
    PROVE  HookInv'
<1>a. /\ kind \notin {"live", "source"} /\ hook \in Hooks /\ connection \in Connections /\ HookTypeOK
      /\ connection.open = TRUE /\ connection.at = hook.pos /\ answer \in AnswerSet
  BY AtStep, HookFields
<1> USE HookFields
<1>1. /\ UNCHANGED <<kind, streamed, live, interruption, connection>>
      /\ abortRequest' \in BOOLEAN /\ activeReconnect' \in BOOLEAN
  BY <1>a DEF outside, HookTypeOK
<1>2. FlagsTyped'  BY <1>a, <1>1, FlagsStay
<1> DEFINE h == [hook EXCEPT !.error = ret]
<1>3. h \in Hooks /\ h.pos = hook.pos /\ h.size = hook.size /\ h.error = ret /\ ret \in Errors
  BY <1>a DEF Hooks, Errors
<1>4. SeekIsAnswered(ret, h)  OBVIOUS
<1> HIDE DEF h
<1>5. \/ /\ HookIs(h.pos, h.size, "ok") /\ RequestIs("none", "idle", FALSE) /\ answer' \in {"io", "exit"}
         /\ UNCHANGED caller
      \/ /\ HookIs(h.pos, h.size, h.error) /\ RequestIs("none", "idle", FALSE) /\ answer' = "ok"
         /\ believed' = request.target /\ misled' = TRUE /\ told' = [from |-> 0, wanted |-> 0]
      \/ /\ ret = "io" /\ HookIs(h.pos, h.size, h.error) /\ RequestIs(request.op, "ask", TRUE) /\ answer' = answer
         /\ UNCHANGED caller
  BY <1>a, <1>3, <1>4, SeekIsAnsweredIs
<1>6. CASE /\ HookIs(h.pos, h.size, "ok") /\ RequestIs("none", "idle", FALSE) /\ answer' \in {"io", "exit"}
           /\ UNCHANGED caller
  <2>1. HookIs(hook.pos, hook'.size, "ok") /\ hook'.size = hook.size  BY <1>3, <1>6 DEF HookIs
  <2>2. answer' \in AnswerSet /\ HookEndIsTrue'  BY <1>6 DEF AnswerSet, Errors, HookEndIsTrue
  <2>3. QED  BY <1>a, <1>1, <1>2, <1>6, <2>1, <2>2, CallEnds
<1>7. CASE /\ HookIs(h.pos, h.size, h.error) /\ RequestIs("none", "idle", FALSE) /\ answer' = "ok"
           /\ believed' = request.target /\ misled' = TRUE /\ told' = [from |-> 0, wanted |-> 0]
  <2>1. HookIs(hook.pos, hook.size, ret)  BY <1>3, <1>7
  <2>2. believed' \in Nat /\ hook.pos \in Nat /\ connection'.at = hook.pos /\ connection'.open = TRUE
    BY <1>a, <1>1, <1>7
  <2>3. QED  BY <1>a, <1>1, <1>2, <1>3, <1>7, <2>1, <2>2, HookSeekEnds
<1>8. CASE /\ ret = "io" /\ HookIs(h.pos, h.size, h.error) /\ RequestIs(request.op, "ask", TRUE) /\ answer' = answer
           /\ UNCHANGED caller
  <2>1. HookIs(hook.pos, hook.size, ret) /\ ret # "eof"  BY <1>3, <1>8
  <2>2. RequestIs("seek", "ask", TRUE)  BY <1>8
  <2>3. QED  BY <1>a, <1>1, <1>2, <1>8, <2>1, <2>2, InProgress
<1>9. QED  BY <1>5, <1>6, <1>7, <1>8

LEMMA SeekFailsKeeps == ASSUME HookInv, SeekFails PROVE HookInv'
<1>0. HookAt("seek")  BY DEF SeekFails
<1>1. request.op = "seek"  BY <1>0, AtStep
<1>2. PICK ret \in {"io", "exit", "eof"} : Answered(ret, [hook EXCEPT !.error = ret])
  BY FailsIs DEF SeekFails
<1>3. SeekIsAnswered(ret, [hook EXCEPT !.error = ret])  BY <1>1, <1>2 DEF Answered
<1>4. QED  BY <1>0, <1>1, <1>3, SeekFailed DEF SeekFails

LEMMA SeekInnerKeeps == ASSUME HookInv, SeekInner PROVE HookInv'
<1>0. HookAt("seek")  BY DEF SeekInner
<1>a. /\ kind \notin {"live", "source"} /\ hook \in Hooks /\ connection \in Connections /\ HookTypeOK
      /\ request.op = "seek" /\ connection.open = TRUE
  BY <1>0, AtStep, HookFields
<1> USE HookFields
<1>1. /\ UNCHANGED <<kind, streamed, live, interruption>>
      /\ abortRequest' \in BOOLEAN /\ activeReconnect' \in BOOLEAN
      /\ connection' = [connection EXCEPT !.at = request.target]
  BY <1>a DEF SeekInner, outside, HookTypeOK
<1>2. FlagsTyped'  BY <1>a, <1>1, FlagsStay
<1> DEFINE h == [hook EXCEPT !.pos = request.target]
<1>3. h \in Hooks /\ h.pos = request.target /\ h.size = hook.size /\ request.target \in Nat  BY <1>a DEF Hooks
<1>4. SeekIsAnswered("ok", h)  BY <1>a DEF SeekInner, Answered
<1> HIDE DEF h
<1>5. /\ HookIs(h.pos, h.size, "ok") /\ RequestIs("none", "idle", FALSE) /\ answer' = "ok"
      /\ believed' = request.target /\ misled' = FALSE /\ told' = [from |-> 0, wanted |-> 0]
  BY <1>a, <1>3, <1>4, SeekIsAnsweredIs DEF Errors
<1>6. HookIs(request.target, hook.size, "ok") /\ "ok" \in Errors /\ believed' \in Nat  BY <1>3, <1>5 DEF Errors
<1>7. connection' \in Connections /\ connection'.at = request.target /\ connection'.open = TRUE
  BY <1>a, <1>1, <1>3 DEF Connections
<1>8. QED  BY <1>a, <1>1, <1>2, <1>3, <1>5, <1>6, <1>7, HookSeekEnds

LEMMA ConnectFailsKeeps == ASSUME HookInv, ConnectFails PROVE HookInv'
<1>0. HookAt("connect")  BY DEF ConnectFails
<1>a. /\ kind \notin {"live", "source"} /\ hook \in Hooks /\ connection \in Connections /\ HookTypeOK
      /\ (hook.error = "eof" /\ Loops => hook.pos = HookSize \/ misled)
      /\ request.op \in {"open", "read", "seek"} /\ (request.op = "open" <=> ~connection.open)
      /\ connection.at = hook.pos /\ answer \in AnswerSet
  BY <1>0, AtStep
<1> USE HookFields
<1>1. /\ UNCHANGED <<kind, streamed, live, interruption, connection>>
      /\ abortRequest' \in BOOLEAN /\ activeReconnect' \in BOOLEAN
  BY <1>a DEF ConnectFails, outside, HookTypeOK
<1>2. FlagsTyped'  BY <1>a, <1>1, FlagsStay
<1>3. PICK ret \in {"io", "exit"} :
        Answered(ret, IF request.op = "seek" THEN [hook EXCEPT !.error = ret] ELSE hook)
  BY FailsIs DEF ConnectFails
<1>4. CASE request.op = "seek"
  <2>1. SeekIsAnswered(ret, [hook EXCEPT !.error = ret])  BY <1>3, <1>4 DEF Answered
  <2>2. QED  BY <1>0, <1>4, <2>1, SeekFailed DEF ConnectFails
<1>5. CASE request.op \in {"open", "read"}
  <2>0. UNCHANGED caller  BY <1>3, <1>5 DEF Answered
  <2>1. \/ HookIs(hook.pos, hook.size, hook.error) /\ RequestIs(request.op, "ask", TRUE) /\ answer' = answer
        \/ /\ RequestIs("none", "idle", FALSE) /\ answer' = ret
           /\ \E error \in {hook.error, "io", "exit"} : HookIs(hook.pos, hook.size, error)
    <3>1. CASE request.op = "open"
      <4>1. OpenIsAnswered(ret, hook)  BY <1>3, <3>1 DEF Answered
      <4>2. QED  BY <1>a, <4>1, OpenIsAnsweredIs
    <3>2. CASE request.op = "read"
      <4>1. ReadIsAnswered(ret, hook)  BY <1>3, <3>2 DEF Answered
      <4>2. Kept(ret) = ret /\ ret \in Errors \cup {"end", "bytes"}  BY DEF Kept, Errors
      <4>3. QED  BY <1>a, <4>1, <4>2, ReadIsAnsweredIs
    <3>3. QED  BY <1>5, <3>1, <3>2
  <2>2. CASE HookIs(hook.pos, hook.size, hook.error) /\ RequestIs(request.op, "ask", TRUE) /\ answer' = answer
    BY <1>a, <1>1, <1>2, <2>0, <2>2, InProgress
  <2>3. CASE /\ RequestIs("none", "idle", FALSE) /\ answer' = ret
             /\ \E error \in {hook.error, "io", "exit"} : HookIs(hook.pos, hook.size, error)
    <3>1. PICK error \in {hook.error, "io", "exit"} : HookIs(hook.pos, hook.size, error)  BY <2>3
    <3>2. hook'.size = hook.size /\ answer' \in AnswerSet /\ HookEndIsTrue'
      BY <2>3, <3>1 DEF HookIs, AnswerSet, Errors, HookEndIsTrue
    <3>3. QED  BY <1>a, <1>1, <1>2, <2>0, <2>3, <3>1, <3>2, CallEnds
  <2>4. QED  BY <2>1, <2>2, <2>3
<1>6. QED  BY <1>a, <1>4, <1>5

LEMMA ReadInnerKeeps == ASSUME HookInv, ReadInner PROVE HookInv'
<1>0. HookAt("read")  BY DEF ReadInner
<1>a. /\ kind \notin {"live", "source"} /\ hook \in Hooks /\ connection \in Connections /\ HookTypeOK
      /\ request.op = "read" /\ connection.open = TRUE /\ connection.at = hook.pos
  BY <1>0, AtStep, HookFields
<1>b. PlaceInv /\ OpenInv /\ EndInv /\ LiveInv  BY DEF HookInv
<1> USE HookFields
<1>1. /\ UNCHANGED <<kind, streamed, live, interruption, misled>>
      /\ abortRequest' \in BOOLEAN /\ activeReconnect' \in BOOLEAN /\ hook.error = "ok"
  BY <1>a DEF ReadInner, outside, HookTypeOK
<1>2. FlagsTyped'  BY <1>a, <1>1, FlagsStay
<1>3. PICK n \in 1 .. HookSize - connection.at :
        /\ told' = [from |-> connection.at, wanted |-> IF misled THEN connection.at ELSE believed]
        /\ believed' = told'.wanted + n
        /\ connection' = [connection EXCEPT !.at = @ + n]
        /\ ReadIsAnswered("bytes", [hook EXCEPT !.pos = @ + n])
  BY DEF ReadInner
<1>4. n \in Nat /\ hook.pos + n \in Nat /\ HookSize \in Nat  BY <1>a
<1> DEFINE h == [hook EXCEPT !.pos = @ + n]
<1>5. h \in Hooks /\ h.pos = hook.pos + n /\ h.size = hook.size /\ h.error = "ok"  BY <1>a, <1>1, <1>4 DEF Hooks
<1>6. ReadIsAnswered("bytes", h)  BY <1>3
<1> HIDE DEF h
<1>7. HookIs(hook.pos + n, hook.size, "ok") /\ RequestIs("none", "idle", FALSE) /\ answer' = "bytes"
  BY <1>a, <1>5, <1>6, ReadIsAnsweredIs
<1>8. ~misled => believed = hook.pos  BY <1>b DEF PlaceInv
<1>9. told' = [from |-> hook.pos, wanted |-> hook.pos] /\ believed' = hook.pos + n
  <2>1. told' = [from |-> hook.pos, wanted |-> IF misled THEN hook.pos ELSE believed]  BY <1>3, <1>a
  <2>2. (IF misled THEN hook.pos ELSE believed) = hook.pos  BY <1>8
  <2>3. told' = [from |-> hook.pos, wanted |-> hook.pos]  BY <2>1, <2>2
  <2>4. QED  BY <1>3, <2>3
<1>10. connection' \in Connections /\ connection'.at = hook.pos + n /\ connection'.open = TRUE
  BY <1>a, <1>3, <1>4 DEF Connections
<1>11. HookTypeOK'
  <2>1. StableTyped'  BY <1>a, <1>1, TypeParts DEF StableTyped
  <2>2. CallerTyped'  BY <1>a, <1>1, <1>4, <1>9 DEF CallerTyped
  <2>3. hook' \in Hooks /\ request' \in CallSet /\ answer' \in AnswerSet  BY <1>7 DEF HookIs, RequestIs, AnswerSet
  <2>4. QED  BY <1>2, <1>10, <2>1, <2>2, <2>3
     DEF HookTypeOK, StableTyped, CallerTyped, FlagsTyped, Hooks, CallSet, Connections, AnswerSet
<1>12. PlaceInv'  BY <1>a, <1>1, <1>7, <1>9, <1>10 DEF PlaceInv, HookReadsTrue, HookIs
<1>13. OpenInv'   BY <1>a, <1>b, <1>1, <1>7, <1>10 DEF OpenInv, HookIs, RequestIs, Loops
<1>14. EndInv'    BY <1>7 DEF EndInv, HookEndIsTrue, HookIs
<1>15. LiveInv'   BY <1>a, <1>b, <1>1, LiveStays
<1>16. QED  BY <1>11, <1>12, <1>13, <1>14, <1>15 DEF HookInv

LEMMA ReadFailsKeeps == ASSUME HookInv, ReadFails PROVE HookInv'
<1>0. HookAt("read")  BY DEF ReadFails
<1>a. /\ kind \notin {"live", "source"} /\ hook \in Hooks /\ connection \in Connections /\ HookTypeOK
      /\ request.op = "read" /\ connection.open = TRUE /\ connection.at = hook.pos /\ answer \in AnswerSet
      /\ (hook.error = "eof" /\ Loops => hook.pos = HookSize \/ misled)
  BY <1>0, AtStep, HookFields
<1> USE HookFields
<1>1. /\ UNCHANGED <<kind, streamed, live, interruption, connection>> /\ UNCHANGED caller /\ misled' = misled
      /\ abortRequest' \in BOOLEAN /\ activeReconnect' \in BOOLEAN
  BY <1>a DEF ReadFails, outside, caller, HookTypeOK
<1>2. FlagsTyped'  BY <1>a, <1>1, FlagsStay
<1>3. PICK ret \in IF hook.error # "ok" THEN {hook.error}
                   ELSE Fails \union (IF connection.at = HookSize THEN {"eof", "end"} ELSE {}) :
        ReadIsAnswered(ret, [hook EXCEPT !.error = Kept(ret)])
  BY DEF ReadFails
<1>4. /\ ret \in {"io", "exit", "eof", "end"}
      /\ ret \in {"eof", "end"} /\ Loops => hook.pos = HookSize \/ misled
  <2>1. CASE hook.error # "ok"
    <3>1. ret = hook.error  BY <1>3, <2>1
    <3>2. QED  BY <1>a, <2>1, <3>1 DEF Errors
  <2>2. CASE hook.error = "ok"
    <3>1. ret \in {"io", "exit"} \/ (connection.at = HookSize /\ ret \in {"eof", "end"})  BY <1>3, <2>2, FailsIs
    <3>2. QED  BY <1>a, <3>1
  <2>3. QED  BY <2>1, <2>2
<1> DEFINE h == [hook EXCEPT !.error = Kept(ret)]
<1>5. Kept(ret) \in Errors /\ (Kept(ret) = "eof" => ret = "eof")  BY <1>4 DEF Kept, Errors
<1>6. h \in Hooks /\ h.pos = hook.pos /\ h.size = hook.size /\ h.error = Kept(ret)  BY <1>a, <1>5 DEF Hooks
<1>7. ReadIsAnswered(ret, h) /\ ret \in Errors \cup {"end", "bytes"} /\ ret # "bytes"  BY <1>3, <1>4 DEF Errors
<1> HIDE DEF h
<1>8. /\ HookIs(hook.pos, hook.size, Kept(ret))
      /\ \/ RequestIs(request.op, "ask", TRUE) /\ answer' = answer
         \/ RequestIs("none", "idle", FALSE) /\ answer' = ret
  <2>1. \/ HookIs(h.pos, h.size, h.error) /\ RequestIs(request.op, "ask", TRUE) /\ answer' = answer
        \/ /\ RequestIs("none", "idle", FALSE) /\ answer' = ret
           /\ HookIs(h.pos, h.size, IF ret = "bytes" THEN h.error ELSE Kept(ret))
    BY <1>a, <1>6, <1>7, ReadIsAnsweredIs
  <2>2. QED  BY <2>1, <1>6, <1>7
<1>9. Kept(ret) = "eof" /\ Loops => hook.pos = HookSize \/ misled  BY <1>4, <1>5
<1>10. CASE RequestIs(request.op, "ask", TRUE) /\ answer' = answer
  BY <1>a, <1>1, <1>2, <1>8, <1>9, <1>10, InProgress
<1>11. CASE RequestIs("none", "idle", FALSE) /\ answer' = ret
  <2>1. hook'.size = hook.size /\ hook'.pos = hook.pos /\ answer' \in AnswerSet
    BY <1>4, <1>8, <1>11 DEF HookIs, AnswerSet, Errors
  <2>2. Loops /\ ~streamed => hook.size = HookSize  BY <1>a DEF HookInv, OpenInv
  <2>3. HookEndIsTrue'
    <3>1. Loops' = Loops  BY <1>1 DEF Loops
    <3>2. QED  BY <1>1, <1>4, <1>11, <2>1, <2>2, <3>1 DEF HookEndIsTrue
  <2>4. HookIs(hook.pos, hook'.size, Kept(ret))  BY <1>8, <2>1
  <2>5. QED  BY <1>a, <1>1, <1>2, <1>9, <1>11, <2>1, <2>3, <2>4, CallEnds
<1>12. QED  BY <1>8, <1>10, <1>11

LiveSet == [gen : Nat, shown : Nat, before : Nat, discontinuity : BOOLEAN, flagged : BOOLEAN]

\* A step of the live hook: it has no position.
LEMMA LiveKeeps ==
    ASSUME HookInv, kind = "live", kind' = kind, streamed' = streamed, UNCHANGED caller, FlagsTyped',
           live' \in LiveSet, answer' \in AnswerSet,
           connection' \in Connections, connection'.at = connection.at, connection.open => connection'.open,
           NEW error, HookIs(hook.pos, hook.size, error),
           NEW op \in {"none", "open", "read"}, NEW pc, NEW again, RequestIs(op, pc, again),
           op = "open" => ~connection'.open, op = "read" => connection'.open, op = "none" => pc = "idle",
           pc = "read" => op = "read", pc # "seek", LiveInv'
    PROVE  HookInv'
<1>0. /\ HookTypeOK /\ PlaceInv /\ OpenInv /\ EndInv /\ LiveInv /\ UNCHANGED <<believed, misled, told>>
  BY DEF HookInv, caller
<1>1. HookTypeOK'
  <2>1. StableTyped' /\ CallerTyped'  BY <1>0, TypeParts DEF StableTyped, CallerTyped, LiveSet
  <2>2. hook' \in Hooks /\ request' \in CallSet  BY DEF HookIs, RequestIs
  <2>3. QED  BY <2>1, <2>2 DEF HookTypeOK, StableTyped, CallerTyped, FlagsTyped, Hooks, CallSet, Connections, AnswerSet
<1>2. PlaceInv'  BY <1>0 DEF PlaceInv, HookReadsTrue, HookIs
<1>3. OpenInv'   BY <1>0, HookFields DEF OpenInv, HookIs, RequestIs, Loops
<1>4. EndInv'    BY DEF EndInv, HookEndIsTrue, Loops
<1>5. QED  BY <1>0, <1>1, <1>2, <1>3, <1>4 DEF HookInv

\* What is known of the live hook between its steps.
LEMMA LiveKnown ==
    ASSUME HookInv, kind = "live"
    PROVE  /\ HookTypeOK /\ hook \in Hooks /\ connection \in Connections /\ live \in LiveSet /\ answer \in AnswerSet
           /\ request.op \in {"none", "open", "read"} /\ (request.op = "open" => ~connection.open)
           /\ (request.op = "read" => connection.open) /\ (request.op = "none" => request.pc = "idle")
           /\ (request.pc = "read" => request.op = "read") /\ request.pc # "seek"
           /\ (request.op = "read" /\ request.pc = "ask" => request.again)
           /\ (request.op = "read" /\ request.pc = "connect" => live.discontinuity)
           /\ (~connection.open => live.shown = 0)
           /\ (live.shown # 0 /\ live.shown # live.gen => live.discontinuity)
           /\ LiveJumpsFlagged
BY HookFields, TypeParts DEF HookInv, OpenInv, LiveInv, StableTyped, LiveSet

LEMMA LiveEndsIs ==
    ASSUME HookInv, kind = "live", NEW ret \in {"io", "exit", "eof"}, LiveEnds(ret)
    PROVE  \/ HookIs(hook.pos, hook.size, hook.error) /\ RequestIs(request.op, "ask", TRUE) /\ answer' = answer
           \/ /\ RequestIs("none", "idle", FALSE) /\ answer' \in AnswerSet
              /\ \E error \in {hook.error, "exit"} : HookIs(hook.pos, hook.size, error)
<1>0. HookTypeOK /\ hook \in Hooks  BY LiveKnown
<1>1. CASE AskAgain(hook)  BY <1>0, <1>1, AskAgainIs
<1>2. CASE ret = "exit"
  <2>1. AnswerWith("exit") /\ hook' = [hook EXCEPT !.error = IF request.op = "read" THEN "exit" ELSE @]
    BY <1>2 DEF LiveEnds
  <2>2. RequestIs("none", "idle", FALSE) /\ answer' \in AnswerSet  BY <2>1, AnswerWithIs DEF AnswerSet, Errors
  <2>3. HookIs(hook.pos, hook.size, "exit") \/ HookIs(hook.pos, hook.size, hook.error)
    BY <1>0, <2>1 DEF HookIs, Hooks, Errors
  <2>4. QED  BY <2>2, <2>3
<1>3. QED  BY <1>1, <1>2 DEF LiveEnds

\* An attempt has failed: whatever the live hook has shown, it has it still.
LEMMA LiveFailed ==
    ASSUME HookInv, kind = "live", request.op # "none", NEW ret \in {"io", "exit", "eof"}, LiveEnds(ret),
           UNCHANGED <<live, liveRest>>
    PROVE  HookInv'
<1>0. /\ HookTypeOK /\ hook \in Hooks /\ connection \in Connections /\ live \in LiveSet /\ answer \in AnswerSet
      /\ request.op \in {"open", "read"} /\ (request.op = "open" => ~connection.open)
      /\ (request.op = "read" => connection.open) /\ LiveJumpsFlagged
      /\ (~connection.open => live.shown = 0)
      /\ (live.shown # 0 /\ live.shown # live.gen => live.discontinuity)
  BY LiveKnown
<1>1. /\ UNCHANGED <<kind, streamed, connection, live>> /\ UNCHANGED caller /\ connection' \in Connections
      /\ live' \in LiveSet /\ FlagsTyped'
  BY <1>0, TypeParts DEF liveRest, FlagsTyped
<1>2. CASE HookIs(hook.pos, hook.size, hook.error) /\ RequestIs(request.op, "ask", TRUE) /\ answer' = answer
  <2>1. LiveInv'  BY <1>0, <1>1, <1>2 DEF LiveInv, LiveJumpsFlagged, RequestIs
  <2>2. QED  BY <1>0, <1>1, <1>2, <2>1, LiveKeeps
<1>3. CASE /\ RequestIs("none", "idle", FALSE) /\ answer' \in AnswerSet
           /\ \E error \in {hook.error, "exit"} : HookIs(hook.pos, hook.size, error)
  <2>1. LiveInv'  BY <1>0, <1>1, <1>3 DEF LiveInv, LiveJumpsFlagged, RequestIs
  <2>2. PICK error \in {hook.error, "exit"} : HookIs(hook.pos, hook.size, error)  BY <1>3
  <2>3. QED  BY <1>0, <1>1, <1>3, <2>1, <2>2, LiveKeeps
<1>4. QED  BY <1>2, <1>3, LiveEndsIs

LEMMA LiveStep ==
    ASSUME HookInv, kind = "live",
           LiveReadHeader \/ LiveReadPacket \/ LiveAsk \/ OpenInner \/ OpenInnerFails \/ LiveFrame \/ LiveFrameFails
    PROVE  HookInv'
<1>0. /\ HookTypeOK /\ hook \in Hooks /\ connection \in Connections /\ live \in LiveSet /\ answer \in AnswerSet
      /\ request.op \in {"none", "open", "read"} /\ (request.op = "open" => ~connection.open)
      /\ (request.op = "read" => connection.open) /\ (request.op = "none" => request.pc = "idle")
      /\ (request.pc = "read" => request.op = "read")
      /\ LiveJumpsFlagged /\ request.again \in BOOLEAN
  BY LiveKnown, HookFields
<1>a. /\ (request.op = "read" /\ request.pc = "ask" => request.again)
      /\ (request.op = "read" /\ request.pc = "connect" => live.discontinuity)
      /\ (~connection.open => live.shown = 0)
      /\ (live.shown # 0 /\ live.shown # live.gen => live.discontinuity)
  BY LiveKnown
<1> USE HookFields
<1>b. HookIs(hook.pos, hook.size, hook.error) \/ hook' # hook  BY <1>0 DEF HookIs

<1>d. ASSUME UNCHANGED liveRest
      PROVE  /\ UNCHANGED <<kind, streamed, connection>> /\ UNCHANGED caller /\ connection' \in Connections
             /\ FlagsTyped'
  BY <1>0, <1>d, TypeParts DEF liveRest, FlagsTyped
<1>e. ASSUME NEW pc \in {"connect", "read"}, Goes(pc)
      PROVE  RequestIs(request.op, pc, request.again) /\ answer' = answer
  BY <1>0, <1>e DEF Goes, RequestIs, CallSet
<1>1. CASE LiveReadHeader
  <2>1. /\ ~connection.open /\ RequestIs("open", "ask", FALSE) /\ answer' = answer
        /\ HookIs(hook.pos, hook.size, hook.error) /\ UNCHANGED liveRest
        /\ live' = [live EXCEPT !.discontinuity = FALSE]
    <3>1. LiveCall("open", "ask")  BY <1>1 DEF LiveReadHeader
    <3>2. RequestIs("open", "ask", FALSE) /\ answer' = answer
      BY <3>1 DEF LiveCall, Requests, NoRequest, RequestIs, CallSet
    <3>3. HookIs(hook.pos, hook.size, hook.error)  BY <1>0, <3>1 DEF LiveCall, HookIs, Hooks
    <3>4. QED  BY <1>1, <3>2, <3>3 DEF LiveReadHeader
  <2>2. live' \in LiveSet /\ live'.shown = 0 /\ live'.before = live.before /\ live'.flagged = live.flagged
        /\ live'.shown = live.shown
    BY <1>0, <1>a, <2>1 DEF LiveSet
  <2>3. LiveInv'  BY <1>0, <2>1, <2>2 DEF LiveInv, LiveJumpsFlagged, RequestIs
  <2>4. QED  BY <1>0, <1>d, <2>1, <2>2, <2>3, LiveKeeps
<1>2. CASE LiveReadPacket
  <2>1. /\ connection.open /\ RequestIs("read", "read", FALSE) /\ answer' = answer
        /\ HookIs(hook.pos, hook.size, hook.error) /\ UNCHANGED <<live, liveRest>>
    <3>1. LiveCall("read", "read")  BY <1>2 DEF LiveReadPacket
    <3>2. RequestIs("read", "read", FALSE) /\ answer' = answer
      BY <3>1 DEF LiveCall, Requests, NoRequest, RequestIs, CallSet
    <3>3. HookIs(hook.pos, hook.size, hook.error)  BY <1>0, <3>1 DEF LiveCall, HookIs, Hooks
    <3>4. QED  BY <1>2, <3>2, <3>3 DEF LiveReadPacket
  <2>2. connection' = connection  BY <1>d, <2>1
  <2>3. LiveInv'  BY <1>0, <1>a, <2>1, <2>2 DEF LiveInv, LiveJumpsFlagged, RequestIs
  <2>4. QED  BY <1>0, <1>d, <2>1, <2>2, <2>3, LiveKeeps
<1>3. CASE LiveAsk
  <2>0. request.pc = "ask" /\ hook' = hook /\ UNCHANGED liveRest /\ connection' = connection
    BY <1>3, <1>d DEF LiveAsk, At
  <2>1. CASE AnswerWith("exit") /\ UNCHANGED live
    <3>1. RequestIs("none", "idle", FALSE) /\ answer' \in AnswerSet  BY <2>1, AnswerWithIs DEF AnswerSet, Errors
    <3>2. LiveInv'  BY <1>0, <1>a, <2>0, <2>1, <3>1 DEF LiveInv, LiveJumpsFlagged, RequestIs
    <3>3. live' \in LiveSet  BY <1>0, <2>1
    <3>4. QED  BY <1>0, <1>b, <1>d, <2>0, <3>1, <3>2, <3>3, LiveKeeps
  <2>2. CASE Goes("connect") /\ live' = [live EXCEPT !.discontinuity = @ \/ request.again]
    <3>1. RequestIs(request.op, "connect", request.again) /\ answer' = answer  BY <2>2, <1>e
    <3>2. live' \in LiveSet /\ live'.shown = live.shown /\ live'.before = live.before /\ live'.flagged = live.flagged
          /\ live'.gen = live.gen /\ (live'.discontinuity <=> live.discontinuity \/ request.again)
      BY <1>0, <2>2 DEF LiveSet
    <3>3. LiveInv'  BY <1>0, <1>a, <2>0, <3>1, <3>2 DEF LiveInv, LiveJumpsFlagged, RequestIs
    <3>4. request.op # "none"  BY <1>0, <2>0
    <3>5. QED  BY <1>0, <1>b, <1>d, <2>0, <3>1, <3>2, <3>3, <3>4, LiveKeeps
  <2>3. QED  BY <1>3, <2>1, <2>2 DEF LiveAsk
<1>4. CASE OpenInner
  <2>0. /\ request.pc = "connect" /\ hook' = hook /\ UNCHANGED <<kind, streamed>> /\ UNCHANGED caller
        /\ live' = [live EXCEPT !.gen = @ + 1] /\ connection' = [connection EXCEPT !.open = TRUE]
    BY <1>4 DEF OpenInner, At
  <2>1. FlagsTyped'  BY <1>0, <1>4, TypeParts DEF OpenInner, FlagsTyped
  <2>2. live' \in LiveSet /\ live'.shown = live.shown /\ live'.before = live.before /\ live'.flagged = live.flagged
        /\ live'.discontinuity = live.discontinuity
    BY <1>0, <2>0 DEF LiveSet
  <2>3. connection' \in Connections /\ connection'.at = connection.at /\ connection'.open = TRUE
    BY <1>0, <2>0 DEF Connections
  <2>4. CASE request.op = "open"
    <3>1. RequestIs("none", "idle", FALSE) /\ answer' \in AnswerSet
      BY <1>4, <2>4, AnswerWithIs DEF OpenInner, AnswerSet, Errors
    <3>2. live.shown = 0  BY <1>0, <1>a, <2>4
    <3>3. LiveInv'  BY <1>0, <2>0, <2>2, <2>3, <3>1, <3>2 DEF LiveInv, LiveJumpsFlagged, RequestIs
    <3>4. QED  BY <1>0, <1>b, <2>0, <2>1, <2>2, <2>3, <3>1, <3>3, LiveKeeps
  <2>5. CASE request.op = "read"
    <3>1. RequestIs("read", "read", request.again) /\ answer' = answer
      BY <1>4, <1>e, <2>5 DEF OpenInner
    <3>2. live.discontinuity  BY <1>a, <2>0, <2>5
    <3>3. LiveInv'  BY <1>0, <2>0, <2>2, <2>3, <3>1, <3>2 DEF LiveInv, LiveJumpsFlagged, RequestIs
    <3>4. QED  BY <1>0, <1>b, <2>0, <2>1, <2>2, <2>3, <3>1, <3>3, LiveKeeps
  <2>6. QED  BY <1>0, <2>0, <2>4, <2>5
<1>5. CASE OpenInnerFails
  <2>1. PICK ret \in {"io", "exit", "eof"} : LiveEnds(ret)  BY <1>5, FailsIs DEF OpenInnerFails
  <2>2. request.op # "none"  BY <1>0, <1>5 DEF OpenInnerFails, At
  <2>3. QED  BY <1>5, <2>1, <2>2, LiveFailed DEF OpenInnerFails
<1>6. CASE LiveFrame
  <2>1. /\ hook' = hook /\ UNCHANGED liveRest /\ connection' = connection
        /\ live' = [live EXCEPT !.shown = live.gen, !.before = live.shown,
                                !.flagged = live.discontinuity, !.discontinuity = FALSE]
        /\ AnswerWith("bytes") /\ connection.open
    BY <1>0, <1>6, <1>d DEF LiveFrame, At
  <2>2. RequestIs("none", "idle", FALSE) /\ answer' \in AnswerSet  BY <2>1, AnswerWithIs DEF AnswerSet, Errors
  <2>3. live' \in LiveSet /\ live'.shown = live.gen /\ live'.before = live.shown /\ live'.gen = live.gen
        /\ live'.flagged = live.discontinuity
    BY <1>0, <2>1 DEF LiveSet
  <2>4. LiveInv'  BY <1>0, <1>a, <2>1, <2>2, <2>3 DEF LiveInv, LiveJumpsFlagged, RequestIs
  <2>5. QED  BY <1>0, <1>b, <1>d, <2>1, <2>2, <2>3, <2>4, LiveKeeps
<1>7. CASE LiveFrameFails
  <2>1. PICK ret \in {"io", "exit", "eof"} : LiveEnds(ret)  BY <1>7, FailsIs DEF LiveFrameFails
  <2>2. request.op # "none"  BY <1>0, <1>7 DEF LiveFrameFails, At
  <2>3. QED  BY <1>7, <2>1, <2>2, LiveFailed DEF LiveFrameFails
<1>8. QED  BY <1>1, <1>2, <1>3, <1>4, <1>5, <1>6, <1>7

-----------------------------------------------------------------------------
\* The media data source: the hook has the position, and the caller is never misled.
LEMMA SourceStep ==
    ASSUME HookInv, kind = "source", SourceOpen \/ SourceRead \/ SourceSeek
    PROVE  HookInv'
<1>0. /\ HookTypeOK /\ PlaceInv /\ OpenInv /\ LiveInv /\ hook \in Hooks /\ connection \in Connections
      /\ believed = hook.pos /\ misled = FALSE
  BY HookFields, TypeParts DEF HookInv, PlaceInv
<1> USE HookFields
<1>1. UNCHANGED sourceRest /\ kind' = kind /\ live' = live /\ streamed' = streamed /\ request' = request
  BY DEF SourceOpen, SourceRead, SourceSeek, sourceRest, outside
<1>2. /\ connection' \in Connections /\ (connection.open => connection'.open)
  BY <1>0 DEF SourceOpen, SourceRead, SourceSeek, Connections
<1>3. /\ answer' \in AnswerSet
  BY DEF SourceOpen, SourceRead, SourceSeek, AnswerSet, Errors
<1>4. /\ hook' \in Hooks /\ believed' = hook'.pos /\ misled' = FALSE
      /\ told' \in [from : Nat, wanted : Nat] /\ told'.from = told'.wanted
      /\ (~connection'.open => hook'.pos = hook.pos)
  <2>1. CASE SourceOpen
    <3>1. hook' = [hook EXCEPT !.size = IF streamed THEN 0 ELSE HookSize] /\ UNCHANGED <<believed, misled, told>>
      BY <2>1 DEF SourceOpen, caller
    <3>2. QED  BY <1>0, <3>1 DEF Hooks, HookTypeOK, PlaceInv, HookReadsTrue
  <2>2. CASE SourceRead
    <3>1. CASE UNCHANGED <<hook, told, believed>>
      BY <1>0, <2>2, <3>1 DEF SourceRead, HookTypeOK, PlaceInv, HookReadsTrue
    <3>2. CASE \E n \in 1 .. HookSize - hook.pos :
                 /\ told' = [from |-> hook.pos, wanted |-> believed]
                 /\ believed' = believed + n
                 /\ hook' = [hook EXCEPT !.pos = @ + n]
      <4>1. PICK n \in 1 .. HookSize - hook.pos :
                 /\ told' = [from |-> hook.pos, wanted |-> believed]
                 /\ believed' = believed + n
                 /\ hook' = [hook EXCEPT !.pos = @ + n]
        BY <3>2
      <4>2. n \in Nat /\ hook.pos + n \in Nat  BY <1>0
      <4>3. hook' \in Hooks /\ hook'.pos = hook.pos + n  BY <1>0, <4>1, <4>2 DEF Hooks
      <4>4. told' = [from |-> hook.pos, wanted |-> hook.pos] /\ believed' = hook.pos + n  BY <1>0, <4>1
      <4>5. connection'.open = TRUE /\ misled' = misled  BY <1>0, <2>2 DEF SourceRead
      <4>6. QED  BY <1>0, <4>3, <4>4, <4>5
    <3>3. QED  BY <2>2, <3>1, <3>2 DEF SourceRead
  <2>3. CASE SourceSeek
    <3>1. told' = [from |-> 0, wanted |-> 0] /\ misled' = misled /\ connection' = connection /\ connection.open
      BY <2>3 DEF SourceSeek
    <3>2. CASE UNCHANGED <<hook, believed>>  BY <1>0, <3>1, <3>2
    <3>3. CASE \E target \in 0 .. HookSize : hook' = [hook EXCEPT !.pos = target] /\ believed' = target
      <4>1. PICK target \in 0 .. HookSize : hook' = [hook EXCEPT !.pos = target] /\ believed' = target  BY <3>3
      <4>2. hook' \in Hooks /\ hook'.pos = target  BY <1>0, <4>1 DEF Hooks
      <4>3. QED  BY <1>0, <3>1, <4>1, <4>2
    <3>4. QED  BY <2>3, <3>2, <3>3 DEF SourceSeek
  <2>4. QED  BY <2>1, <2>2, <2>3
<1>5. HookTypeOK'
  <2>1. StableTyped' /\ FlagsTyped'
    BY <1>0, <1>1, TypeParts DEF StableTyped, FlagsTyped, sourceRest, outside
  <2>2. CallerTyped'  BY <1>4 DEF CallerTyped, Hooks
  <2>3. request' \in CallSet  BY <1>0, <1>1, TypeParts
  <2>4. QED  BY <1>2, <1>3, <1>4, <2>1, <2>2, <2>3
     DEF HookTypeOK, StableTyped, CallerTyped, FlagsTyped, Hooks, CallSet, Connections, AnswerSet
<1>6. PlaceInv'  BY <1>1, <1>4 DEF PlaceInv, HookReadsTrue
<1>7. OpenInv'
  <2>1. request.op = "none" /\ request.pc = "idle"  BY <1>0 DEF OpenInv
  <2>2. connection.open \in BOOLEAN /\ connection'.open \in BOOLEAN  BY <1>0, <1>2 DEF Connections
  <2>3. ~connection'.open => hook'.pos = 0 /\ believed' = 0 /\ ~misled'
    BY <1>0, <1>2, <1>4, <2>2 DEF OpenInv
  <2>4. QED  BY <1>1, <2>1, <2>3 DEF OpenInv, Loops
<1>8. EndInv'    BY <1>1 DEF EndInv, HookEndIsTrue, Loops
<1>9. LiveInv'   BY <1>0, <1>1, LiveStays
<1>10. QED  BY <1>5, <1>6, <1>7, <1>8, <1>9 DEF HookInv

\* The player interrupts, or the manager pauses, resumes or has the connection renewed.
LEMMA OutsideStep ==
    ASSUME HookInv, InterruptRequest \/ HookPause \/ ImmediateReconnect
    PROVE  HookInv'
<1>0. /\ HookTypeOK /\ PlaceInv /\ OpenInv /\ EndInv /\ LiveInv  BY DEF HookInv
<1>1. /\ UNCHANGED <<kind, streamed, connection, hook, request, answer, believed, misled, told, live>>
      /\ activeReconnect => activeReconnect'
  BY DEF InterruptRequest, HookPause, ImmediateReconnect, outside, caller
<1>2. FlagsTyped'  BY <1>0 DEF InterruptRequest, HookPause, ImmediateReconnect, outside, HookTypeOK, FlagsTyped
<1>3. HookTypeOK'  BY <1>0, <1>1, <1>2 DEF HookTypeOK, FlagsTyped
<1>4. PlaceInv'  BY <1>0, <1>1 DEF PlaceInv, HookReadsTrue
<1>5. OpenInv'   BY <1>0, <1>1 DEF OpenInv, Loops
<1>6. EndInv'    BY <1>0, <1>1 DEF EndInv, HookEndIsTrue, Loops
<1>7. LiveInv'   BY <1>0, <1>1 DEF LiveInv, LiveJumpsFlagged
<1>8. QED  BY <1>3, <1>4, <1>5, <1>6, <1>7 DEF HookInv

LEMMA HookInvStep ==
    ASSUME HookInv, [HookNext]_hookVars
    PROVE  HookInv'
<1>1. CASE HookCall
  <2>1. CASE HookOpen \/ HookRead \/ HookSeek  BY <2>1, HookOpenKeeps, HookReadKeeps, HookSeekKeeps
  <2>2. CASE LiveReadHeader \/ LiveReadPacket
    <3>1. kind = "live"  BY <2>2 DEF LiveReadHeader, LiveReadPacket, LiveCall
    <3>2. QED  BY <2>2, <3>1, LiveStep
  <2>3. CASE SourceOpen \/ SourceRead \/ SourceSeek
    <3>1. kind = "source"  BY <2>3 DEF SourceOpen, SourceRead, SourceSeek
    <3>2. QED  BY <2>3, <3>1, SourceStep
  <2>4. QED  BY <1>1, <2>1, <2>2, <2>3 DEF HookCall
<1>2. CASE HookStep
  <2>1. CASE AskExits \/ AskGoesOn \/ AskRefused  BY <2>1, AskExitsKeeps, AskGoesOnKeeps, AskRefusedKeeps
  <2>2. CASE HookConnect \/ ConnectFails  BY <2>2, HookConnectKeeps, ConnectFailsKeeps
  <2>3. CASE ReadInner \/ ReadFails \/ SeekInner \/ SeekFails
    BY <2>3, ReadInnerKeeps, ReadFailsKeeps, SeekInnerKeeps, SeekFailsKeeps
  <2>4. CASE LiveAsk \/ OpenInner \/ OpenInnerFails \/ LiveFrame \/ LiveFrameFails
    <3>1. kind = "live"  BY <2>4 DEF LiveAsk, OpenInner, OpenInnerFails, LiveFrame, LiveFrameFails
    <3>2. QED  BY <2>4, <3>1, LiveStep
  <2>5. QED  BY <1>2, <2>1, <2>2, <2>3, <2>4 DEF HookStep
<1>3. CASE InterruptRequest \/ HookPause \/ ImmediateReconnect  BY <1>3, OutsideStep
<1>4. CASE UNCHANGED hookVars
  <2>1. UNCHANGED <<kind, streamed, connection, hook, request, answer, interruption, abortRequest,
                    activeReconnect, believed, misled, told, live>>
    BY <1>4 DEF hookVars
  <2>2. HookTypeOK'  BY <2>1 DEF HookInv, HookTypeOK
  <2>3. PlaceInv' /\ OpenInv'  BY <2>1 DEF HookInv, PlaceInv, HookReadsTrue, OpenInv, Loops
  <2>4. EndInv' /\ LiveInv'
    BY <2>1 DEF HookInv, EndInv, HookEndIsTrue, Loops, LiveInv, LiveJumpsFlagged
  <2>5. QED  BY <2>2, <2>3, <2>4 DEF HookInv
<1>5. QED  BY <1>1, <1>2, <1>3, <1>4 DEF HookNext

\* HookInv is an invariant of every protocol between a demuxer and its connection.
THEOREM HookInvHolds == HookSpec => []HookInv
<1>1. HookInit => HookInv  BY HookInitInv
<1>2. HookInv /\ [HookNext]_hookVars => HookInv'  BY HookInvStep
<1>3. QED  BY <1>1, <1>2, PTL DEF HookSpec

\* Over failed connections, reconnections, seeks and interruptions of ijkurlhook.c,
\* ijkiourlhook.c and ijkmediadatasource.c, the bytes a caller is given are those of the
\* position it takes itself to be at, an end of the stream is one, and the first packet of
\* every new connection of ijklivehook.c carries the flag of a discontinuity.
THEOREM HookTellsTrueHolds == HookSpec => []HookTellsTrue
<1>1. HookInv => HookTellsTrue
  BY DEF HookInv, PlaceInv, EndInv, LiveInv, HookTellsTrue
<1>2. QED  BY <1>1, HookInvHolds, PTL
===============================================================================
