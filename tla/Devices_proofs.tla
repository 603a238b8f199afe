---------------------------- MODULE Devices_proofs ----------------------------
(***************************************************************************)
(* Proofs about the devices: AudioOutput, for either output, any number of *)
(* buffers, openings and calls; VoutDisplay, for any frames, windows and   *)
(* number of turns; HwDecoder, for any buffers of the codec, any pictures  *)
(* in the queue, one thread or two, and any number of events.              *)
(***************************************************************************)
EXTENDS AudioOutput, VoutDisplay, HwDecoder, SequenceTheorems, TLAPS

-----------------------------------------------------------------------------
(***************************************************************************)
(* AudioOutput: the inductive invariant.                                   *)
(***************************************************************************)
AudioPlaces == {"begin", "loop", "lock", "waits", "callback", "peeks", "fill", "hold", "write", "ended"}
Pieces == [buffer : Nat, serial : Nat]

AudioTypeOK ==
    /\ flags \in [abort : BOOLEAN, pause : BOOLEAN, flush : BOOLEAN] /\ audioPc \in AudioPlaces
    /\ count \in Nat /\ nextBuffer \in 0 .. Buffers - 1 /\ hardware \in Seq(Pieces)
    /\ piece \in Nat /\ rest \in Nat /\ sampleFrame \in Nat /\ querySerial \in Nat
    /\ decSerial \in Nat /\ held \in BOOLEAN /\ device \in {"track", "opensl"}

\* The buffers of OpenSL ES go round; those the hardware has are the ones before the next, and
\* while the callback fills this one they are not all of them.
RingInv ==
    device = "opensl" /\ ~flags.abort =>
        /\ Len(hardware) <= Buffers
        /\ \A i \in 1 .. Len(hardware) :
              /\ hardware[i].buffer < Buffers
              /\ hardware[i].buffer \in {nextBuffer - (Len(hardware) + 1 - i),
                                         nextBuffer - (Len(hardware) + 1 - i) + Buffers}
        /\ audioPc \in {"lock", "waits"} => Len(hardware) <= count
        /\ audioPc \in {"callback", "peeks", "fill", "hold", "write"} => Len(hardware) < Buffers

\* Sound goes to the hardware in the order in which it was decoded.
UpTo(serial) == \A i \in 1 .. Len(hardware) : hardware[i].serial <= serial
SoundInv ==
    /\ \A i, j \in 1 .. Len(hardware) : i < j /\ hardware[j].serial # Silence =>
          hardware[i].serial <= hardware[j].serial
    /\ UpTo(querySerial) /\ piece <= querySerial /\ rest <= querySerial
    /\ piece # Silence => UpTo(piece)
    /\ rest # Silence => UpTo(rest) /\ piece <= rest

AudioInv == AudioTypeOK /\ RingInv /\ SoundInv

LEMMA AudioFields ==
    ASSUME AudioTypeOK
    PROVE  /\ flags.abort \in BOOLEAN /\ flags.pause \in BOOLEAN /\ flags.flush \in BOOLEAN
           /\ Len(hardware) \in Nat /\ Buffers \in Nat \ {0} /\ nextBuffer \in Nat /\ nextBuffer < Buffers
           /\ \A i \in 1 .. Len(hardware) : hardware[i].buffer \in Nat /\ hardware[i].serial \in Nat
<1>1. \A i \in 1 .. Len(hardware) : hardware[i] \in Pieces
  BY ElementOfSeq DEF AudioTypeOK
<1> QED BY <1>1, AudioAssumption DEF AudioTypeOK, Pieces

\* The flags, when one of them is put.
LEMMA FlagsTake ==
    ASSUME AudioTypeOK, NEW a \in BOOLEAN, NEW p \in BOOLEAN, NEW f \in BOOLEAN
    PROVE  /\ [flags EXCEPT !.flush = f] \in [abort : BOOLEAN, pause : BOOLEAN, flush : BOOLEAN]
           /\ [flags EXCEPT !.flush = f].abort = flags.abort
           /\ [flags EXCEPT !.pause = p] \in [abort : BOOLEAN, pause : BOOLEAN, flush : BOOLEAN]
           /\ [flags EXCEPT !.pause = p].abort = flags.abort
           /\ [flags EXCEPT !.abort = a] \in [abort : BOOLEAN, pause : BOOLEAN, flush : BOOLEAN]
           /\ [flags EXCEPT !.abort = a].abort = a
           /\ [flags EXCEPT !.abort = a, !.pause = p] \in [abort : BOOLEAN, pause : BOOLEAN, flush : BOOLEAN]
           /\ [flags EXCEPT !.abort = a, !.pause = p].abort = a
  BY DEF AudioTypeOK

\* Steps that leave the hardware alone, and let the thread through only past the test of it.
Waited ==
    \/ audioPc' = audioPc /\ count' = count
    \/ audioPc' \notin {"lock", "waits", "callback", "peeks", "fill", "hold", "write"}
    \/ audioPc' \in {"lock", "waits"} /\ (Len(hardware') <= count' \/ (audioPc \in {"lock", "waits"} /\ count' = count))
    \/ audioPc' \in {"callback", "peeks", "fill", "hold", "write"} /\ audioPc \in {"callback", "peeks", "fill", "hold", "write"}
    \/ audioPc' = "callback" /\ (device = "opensl" /\ ~flags'.abort => Len(hardware) < Buffers)

LEMMA RingStays ==
    ASSUME AudioTypeOK, RingInv, hardware' = hardware, nextBuffer' = nextBuffer, device' = device,
           device = "opensl" /\ ~flags'.abort => ~flags.abort /\ Waited
    PROVE  RingInv'
  BY DEF RingInv, Waited

LEMMA NoPieces == << >> \in Seq(Pieces)
  OBVIOUS

LEMMA RingEmpty ==
    ASSUME AudioTypeOK, hardware' = << >>, count' \in Nat
    PROVE  RingInv'
  BY AudioFields DEF RingInv

LEMMA SoundStays ==
    ASSUME AudioTypeOK, SoundInv, hardware' = hardware, querySerial' = querySerial,
           piece' \in {piece, Silence, rest}, rest' \in {rest, Silence}
    PROVE  SoundInv'
  BY AudioFields DEF SoundInv, UpTo, Silence, AudioTypeOK

LEMMA SoundEmpty ==
    ASSUME AudioTypeOK, SoundInv, hardware' = << >>, querySerial' = querySerial,
           piece' \in {piece, Silence}, rest' \in {rest, Silence}
    PROVE  SoundInv'
  BY DEF SoundInv, UpTo, Silence, AudioTypeOK

LEMMA AudioStarts == AudioInit => AudioInv
  BY AudioAssumption DEF AudioInit, AudioInv, AudioTypeOK, RingInv, SoundInv, UpTo, Quiet, AudioPlaces, Silence, Pieces

\* The first piece has been played.
LEMMA TailIs ==
    ASSUME NEW S, NEW s \in Seq(S), s # << >>
    PROVE  /\ Tail(s) \in Seq(S) /\ Len(Tail(s)) = Len(s) - 1 /\ Len(s) \in Nat \ {0}
           /\ \A i \in 1 .. Len(Tail(s)) : Tail(s)[i] = s[i + 1] /\ i + 1 \in 1 .. Len(s)
  OBVIOUS

LEMMA PlayedKeeps == ASSUME AudioInv, Played PROVE AudioInv'
<1>1. /\ AudioTypeOK /\ RingInv /\ SoundInv /\ hardware # << >> /\ hardware' = Tail(hardware)
      /\ UNCHANGED <<flags, audioPc, count, nextBuffer, piece, rest, sourceVars, held, device>>
  BY DEF AudioInv, Played, playerVars, settled
<1>2. /\ hardware' \in Seq(Pieces) /\ Len(hardware') = Len(hardware) - 1 /\ Len(hardware) \in Nat \ {0}
      /\ \A i \in 1 .. Len(hardware') : hardware'[i] = hardware[i + 1] /\ i + 1 \in 1 .. Len(hardware)
  BY <1>1, TailIs DEF AudioTypeOK
<1>3. AudioTypeOK'
  BY <1>1, <1>2 DEF AudioTypeOK, sourceVars
<1>4. RingInv'
  <2> SUFFICES ASSUME device = "opensl", ~flags.abort PROVE RingInv'
    BY <1>1 DEF RingInv
  <2>1. \A i \in 1 .. Len(hardware') :
           /\ hardware'[i].buffer < Buffers
           /\ hardware'[i].buffer \in {nextBuffer - (Len(hardware') + 1 - i),
                                       nextBuffer - (Len(hardware') + 1 - i) + Buffers}
    <3> SUFFICES ASSUME NEW i \in 1 .. Len(hardware')
                 PROVE  /\ hardware'[i].buffer < Buffers
                        /\ hardware'[i].buffer \in {nextBuffer - (Len(hardware') + 1 - i),
                                                    nextBuffer - (Len(hardware') + 1 - i) + Buffers}
      OBVIOUS
    <3> DEFINE l == Len(hardware)
               b == hardware[i + 1].buffer
    <3>1. b < Buffers /\ b \in {nextBuffer - (l + 1 - (i + 1)), nextBuffer - (l + 1 - (i + 1)) + Buffers}
      BY <1>1, <1>2 DEF RingInv
    <3>2. hardware'[i].buffer = b /\ Len(hardware') = l - 1 /\ l \in Nat /\ i \in Nat
      BY <1>2
    <3>3. nextBuffer \in Nat /\ Buffers \in Nat
      BY <1>1, AudioFields
    <3> HIDE DEF l, b
    <3>4. b \in {nextBuffer - (l - 1 + 1 - i), nextBuffer - (l - 1 + 1 - i) + Buffers}
      BY <3>1, <3>2, <3>3
    <3> QED BY <3>1, <3>2, <3>4
  <2>2. count \in Nat /\ Buffers \in Nat
    BY <1>1, AudioFields DEF AudioTypeOK
  <2> QED BY <1>1, <1>2, <2>1, <2>2 DEF RingInv
<1>5. SoundInv'
  <2>1. \A s : UpTo(s) => UpTo(s)'
    BY <1>2 DEF UpTo
  <2>2. \A i, j \in 1 .. Len(hardware') : i < j => i + 1 < j + 1
    BY <1>2
  <2> QED BY <1>1, <1>2, <2>1, <2>2 DEF SoundInv, sourceVars
<1> QED BY <1>3, <1>4, <1>5 DEF AudioInv

\* A piece is appended behind those of before.
LEMMA AppendIs ==
    ASSUME NEW S, NEW s \in Seq(S), NEW x \in S
    PROVE  /\ Append(s, x) \in Seq(S) /\ Len(Append(s, x)) = Len(s) + 1 /\ Len(s) \in Nat
           /\ Append(s, x)[Len(s) + 1] = x /\ \A i \in 1 .. Len(s) : Append(s, x)[i] = s[i]
           /\ \A i \in 1 .. Len(Append(s, x)) : i \in 1 .. Len(s) \/ i = Len(s) + 1
  OBVIOUS

LEMMA NextBuffer ==
    ASSUME NEW b \in Nat \ {0}, NEW n \in 0 .. b - 1
    PROVE  (n + 1) % b \in 0 .. b - 1 /\ (n + 1) % b \in {n + 1, n + 1 - b}
<1>1. CASE n + 1 < b
  BY <1>1
<1>2. CASE n + 1 = b
  BY <1>2
<1> QED BY <1>1, <1>2

LEMMA WriteKeeps == ASSUME AudioInv, Write PROVE AudioInv'
<1> DEFINE played == IF flags.flush THEN << >> ELSE hardware
           room   == Len(played) < Buffers
<1>1. /\ AudioTypeOK /\ RingInv /\ SoundInv /\ audioPc = "write" /\ audioPc' = "loop"
      /\ hardware' = IF room THEN Append(played, Piece(nextBuffer, piece)) ELSE played
      /\ flags' = [flags EXCEPT !.flush = FALSE] /\ nextBuffer' = (nextBuffer + 1) % Buffers /\ piece' = 0
      /\ UNCHANGED <<count, rest, sourceVars, held, device>>
  BY DEF AudioInv, Write, AudioGoes, AfterBuffer, playerVars, settled, Silence
<1>2. /\ Buffers \in Nat \ {0} /\ nextBuffer \in 0 .. Buffers - 1 /\ piece \in Nat /\ rest \in Nat
      /\ querySerial \in Nat /\ Len(hardware) \in Nat
  BY <1>1, AudioFields DEF AudioTypeOK
<1>3. nextBuffer' \in 0 .. Buffers - 1 /\ nextBuffer' \in {nextBuffer + 1, nextBuffer + 1 - Buffers}
  BY <1>1, <1>2, NextBuffer
<1>4. /\ played \in Seq(Pieces) /\ Len(played) \in Nat
      /\ played = << >> \/ played = hardware
  BY <1>1, AudioFields DEF AudioTypeOK
<1> DEFINE x == Piece(nextBuffer, piece)
<1>5. x \in Pieces /\ x.buffer = nextBuffer /\ x.serial = piece
  BY <1>2 DEF Piece, Pieces
<1> HIDE DEF played, x
<1>6. room => /\ hardware' \in Seq(Pieces) /\ Len(hardware') = Len(played) + 1
              /\ hardware'[Len(played) + 1] = x /\ \A i \in 1 .. Len(played) : hardware'[i] = played[i]
              /\ \A i \in 1 .. Len(hardware') : i \in 1 .. Len(played) \/ i = Len(played) + 1
  BY <1>1, <1>4, <1>5, AppendIs DEF x
<1>7. ~room => hardware' = played
  BY <1>1
<1>8. flags' \in [abort : BOOLEAN, pause : BOOLEAN, flush : BOOLEAN] /\ flags'.abort = flags.abort
  BY <1>1, FlagsTake
<1>9. AudioTypeOK'
  BY <1>1, <1>3, <1>4, <1>6, <1>7, <1>8 DEF AudioTypeOK, AudioPlaces, sourceVars
<1>10. RingInv'
  <2> SUFFICES ASSUME device = "opensl", ~flags.abort PROVE RingInv'
    BY <1>1, <1>8 DEF RingInv
  <2>1. Len(hardware) < Buffers
    BY <1>1 DEF RingInv
  <2>2. room
    BY <1>2, <1>4, <2>1
  <2>3. \A i \in 1 .. Len(played) :
           played[i].buffer \in {nextBuffer - (Len(played) + 1 - i), nextBuffer - (Len(played) + 1 - i) + Buffers}
           /\ played[i].buffer \in Nat /\ played[i].buffer < Buffers
    <3>1. \A i \in 1 .. Len(hardware) :
             hardware[i].buffer \in {nextBuffer - (Len(hardware) + 1 - i), nextBuffer - (Len(hardware) + 1 - i) + Buffers}
             /\ hardware[i].buffer \in Nat /\ hardware[i].buffer < Buffers
      BY <1>1, AudioFields DEF RingInv
    <3>2. CASE played = << >>
      BY <3>2
    <3>3. CASE played = hardware
      BY <3>1, <3>3
    <3> QED BY <1>4, <3>2, <3>3
  <2>4. \A i \in 1 .. Len(hardware') :
           /\ hardware'[i].buffer < Buffers
           /\ hardware'[i].buffer \in {nextBuffer' - (Len(hardware') + 1 - i), nextBuffer' - (Len(hardware') + 1 - i) + Buffers}
    <3> SUFFICES ASSUME NEW i \in 1 .. Len(hardware')
                 PROVE  /\ hardware'[i].buffer < Buffers
                        /\ hardware'[i].buffer \in {nextBuffer' - (Len(hardware') + 1 - i),
                                                    nextBuffer' - (Len(hardware') + 1 - i) + Buffers}
      OBVIOUS
    <3>1. CASE i \in 1 .. Len(played)
      <4> DEFINE b == hardware'[i].buffer
                 l == Len(played)
      <4>1. /\ b \in {nextBuffer - (l + 1 - i), nextBuffer - (l + 1 - i) + Buffers}
            /\ b \in Nat /\ b < Buffers /\ i \in 1 .. l /\ l \in Nat /\ l < Buffers
        BY <1>4, <1>6, <2>2, <2>3, <3>1
      <4>2. Len(hardware') = l + 1
        BY <1>6, <2>2
      <4> HIDE DEF b, l
      <4>3. b \in {nextBuffer' - (l + 1 + 1 - i), nextBuffer' - (l + 1 + 1 - i) + Buffers}
        <5>1. CASE nextBuffer' = nextBuffer + 1
          BY <1>2, <4>1, <5>1
        <5>2. CASE nextBuffer' = nextBuffer + 1 - Buffers /\ nextBuffer' >= 0
          BY <1>2, <4>1, <5>2
        <5>3. nextBuffer' >= 0
          BY <1>2, <1>3
        <5> QED BY <1>3, <5>1, <5>2, <5>3
      <4> QED BY <4>1, <4>2, <4>3 DEF b
    <3>2. CASE i = Len(played) + 1
      <4>1. hardware'[i].buffer = nextBuffer /\ Len(hardware') + 1 - i = 1
        BY <1>4, <1>5, <1>6, <2>2, <3>2
      <4>2. nextBuffer \in {nextBuffer' - 1, nextBuffer' - 1 + Buffers}
        <5>1. CASE nextBuffer' = nextBuffer + 1
          BY <1>2, <5>1
        <5>2. CASE nextBuffer' = nextBuffer + 1 - Buffers
          BY <1>2, <5>2
        <5> QED BY <1>3, <5>1, <5>2
      <4> DEFINE b == hardware'[i].buffer
                 k == Len(hardware') + 1 - i
      <4>3. b = nextBuffer /\ k = 1
        BY <4>1
      <4> HIDE DEF b, k
      <4>4. b < Buffers /\ b \in {nextBuffer' - k, nextBuffer' - k + Buffers}
        BY <1>2, <4>2, <4>3
      <4> QED BY <4>4 DEF b, k
    <3> QED BY <1>6, <2>2, <3>1, <3>2
  <2>5. Len(hardware') <= Buffers
    BY <1>2, <1>4, <1>6, <2>2
  <2> QED BY <1>1, <2>4, <2>5 DEF RingInv
<1>11. SoundInv'
  <2>0. \A i \in 1 .. Len(hardware) : hardware[i].serial \in Nat
    BY <1>1, AudioFields
  <2>1. /\ \A i, j \in 1 .. Len(played) : i < j /\ played[j].serial # 0 => played[i].serial <= played[j].serial
        /\ \A i \in 1 .. Len(played) : /\ played[i].serial <= querySerial
                                       /\ piece # 0 => played[i].serial <= piece
                                       /\ rest # 0 => played[i].serial <= rest
        /\ piece <= querySerial /\ rest <= querySerial /\ (piece # 0 /\ rest # 0 => piece <= rest)
    <3>1. CASE played = << >>
      BY <1>1, <3>1 DEF SoundInv, Silence
    <3>2. CASE played = hardware
      BY <1>1, <3>2 DEF SoundInv, UpTo, Silence
    <3> QED BY <1>4, <3>1, <3>2
  <2>2. CASE ~room
    <3>1. hardware' = played /\ piece' = 0 /\ rest' = rest /\ querySerial' = querySerial
      BY <1>1, <1>7, <2>2 DEF sourceVars
    <3> QED BY <1>2, <2>1, <3>1 DEF SoundInv, UpTo, Silence, sourceVars
  <2>3. CASE room
    <3>1. \A i \in 1 .. Len(hardware') : /\ hardware'[i].serial <= querySerial
                                         /\ rest # 0 => hardware'[i].serial <= rest
      BY <1>2, <1>5, <1>6, <2>1, <2>3
    <3>2. \A i, j \in 1 .. Len(hardware') :
             i < j /\ hardware'[j].serial # 0 => hardware'[i].serial <= hardware'[j].serial
      <4> SUFFICES ASSUME NEW i \in 1 .. Len(hardware'), NEW j \in 1 .. Len(hardware'), i < j,
                          hardware'[j].serial # 0
                   PROVE  hardware'[i].serial <= hardware'[j].serial
        OBVIOUS
      <4>1. i \in 1 .. Len(played)
        BY <1>4, <1>6, <2>3
      <4>2. CASE j \in 1 .. Len(played)
        BY <1>6, <2>1, <2>3, <4>1, <4>2
      <4>3. CASE j = Len(played) + 1
        BY <1>5, <1>6, <2>1, <2>3, <4>1, <4>3
      <4> QED BY <1>6, <2>3, <4>2, <4>3
    <3>3. piece' = 0 /\ rest' = rest /\ querySerial' = querySerial
      BY <1>1 DEF sourceVars
    <3> QED BY <1>2, <2>1, <3>1, <3>2, <3>3 DEF SoundInv, UpTo, Silence
  <2> QED BY <2>2, <2>3
<1> QED BY <1>9, <1>10, <1>11 DEF AudioInv

LEMMA ServedKeeps ==
    ASSUME AudioInv, Served, audioPc' = "callback", count' \in Nat,
           device = "opensl" /\ ~flags.abort => Len(hardware) < Buffers,
           UNCHANGED <<nextBuffer, piece, rest, sourceVars, playerVars>>
    PROVE  AudioInv'
<1>1. AudioTypeOK /\ RingInv /\ SoundInv /\ UNCHANGED <<sampleFrame, querySerial, decSerial, held, device>>
  BY DEF AudioInv, sourceVars, playerVars, settled
<1>2. flags' \in [abort : BOOLEAN, pause : BOOLEAN, flush : BOOLEAN] /\ flags'.abort = flags.abort
  BY <1>1, FlagsTake DEF Served
<1>3. (hardware' = << >> \/ hardware' = hardware) /\ hardware' \in Seq(Pieces)
  BY <1>1 DEF Served, AudioTypeOK
<1>4. AudioTypeOK'
  BY <1>1, <1>2, <1>3 DEF AudioTypeOK, AudioPlaces, sourceVars, playerVars
<1>5. RingInv'
  BY <1>1, <1>2, <1>3, RingStays, RingEmpty DEF Waited
<1>6. SoundInv'
  BY <1>1, <1>3, SoundStays, SoundEmpty
<1> QED BY <1>4, <1>5, <1>6 DEF AudioInv

LEMMA ThreadKeeps == ASSUME AudioInv, DeviceThread PROVE AudioInv'
<1>1. AudioTypeOK /\ RingInv /\ SoundInv /\ UNCHANGED <<device, querySerial, decSerial, held>>
  BY DEF AudioInv, DeviceThread, Begin, Loop, LockWaits, LockPasses, Looks, DecodeSilence, Peeks, PeekAborted, DecodeFrame,
     DecodeOldFrame, DecodeRest, Fill, Hold, Write, Decoded, sourceVars, playerVars, settled
<1>2. CASE Begin
  <2>1. UNCHANGED <<flags, count, nextBuffer, hardware, piece, rest, sampleFrame>> /\ audioPc' = "loop"
    BY <1>2 DEF Begin, AudioGoes, sourceVars
  <2> QED BY <1>1, <2>1, RingStays, SoundStays DEF AudioInv, AudioTypeOK, AudioPlaces, Waited
<1>3. CASE Loop
  <2>1. /\ UNCHANGED <<flags, nextBuffer, piece, rest, sampleFrame>> /\ audioPc' \in {"ended", "lock"}
        /\ count' = Len(hardware) /\ (hardware' = hardware \/ (hardware' = << >> /\ flags.abort))
    BY <1>3 DEF Loop, AudioGoes, sourceVars
  <2>2. AudioTypeOK'
    <3>1. hardware' \in Seq(Pieces) /\ count' \in Nat
      BY <1>1, <2>1, AudioFields, NoPieces DEF AudioTypeOK
    <3> QED BY <1>1, <2>1, <3>1 DEF AudioTypeOK, AudioPlaces
  <2>3. Len(hardware) <= count' \/ hardware' # hardware
    BY <1>1, <2>1, AudioFields
  <2>4. RingInv'
    BY <1>1, <2>1, <2>2, <2>3, RingStays, RingEmpty DEF Waited, AudioTypeOK
  <2>5. SoundInv'
    BY <1>1, <2>1, SoundStays, SoundEmpty
  <2> QED BY <2>2, <2>4, <2>5 DEF AudioInv
<1>4. CASE LockWaits
  <2>1. /\ UNCHANGED <<flags, count, nextBuffer, hardware, piece, rest, sampleFrame>>
        /\ audioPc = "lock" /\ audioPc' = "waits"
    BY <1>4 DEF LockWaits, AudioGoes, sourceVars
  <2> QED BY <1>1, <2>1, RingStays, SoundStays DEF AudioInv, AudioTypeOK, AudioPlaces, Waited
<1>5. CASE LockPasses
  <2>1. /\ Served /\ audioPc = "lock" /\ audioPc' = "callback" /\ count' = count
        /\ UNCHANGED <<nextBuffer, piece, rest, sourceVars, playerVars>>
        /\ device = "opensl" /\ ~flags.abort => ~(count >= Buffers)
    BY <1>5 DEF LockPasses, AudioGoes, MustWait, Full
  <2>2. device = "opensl" /\ ~flags.abort => Len(hardware) < Buffers
    BY <1>1, <2>1, AudioFields DEF RingInv, AudioTypeOK
  <2>3. count' \in Nat
    BY <1>1, <2>1 DEF AudioTypeOK
  <2> QED BY <2>1, <2>2, <2>3, ServedKeeps
<1>6. CASE Looks
  <2>1. count' = Len(hardware) /\ audioPc = "waits" /\ UNCHANGED <<nextBuffer, piece, rest, sourceVars, playerVars>>
    BY <1>6 DEF Looks
  <2>2. count' \in Nat /\ Len(hardware) \in Nat /\ Buffers \in Nat
    BY <1>1, <2>1, AudioFields
  <2>3. CASE ~flags.abort /\ (flags.pause \/ (device = "opensl" /\ Len(hardware) >= Buffers))
    <3>1. UNCHANGED <<audioPc, flags, hardware>>
      BY <1>6, <2>3 DEF Looks
    <3>2. AudioTypeOK'
      BY <1>1, <2>1, <2>2, <3>1 DEF AudioTypeOK, sourceVars
    <3>3. Len(hardware') <= count'
      BY <2>1, <2>2, <3>1
    <3>4. RingInv' /\ SoundInv'
      BY <1>1, <2>1, <3>1, <3>3, RingStays, SoundStays DEF Waited
    <3> QED BY <3>2, <3>4 DEF AudioInv
  <2>4. CASE ~(~flags.abort /\ (flags.pause \/ (device = "opensl" /\ Len(hardware) >= Buffers)))
    <3>1. Served /\ audioPc' = "callback"
      BY <1>6, <2>4 DEF Looks
    <3>2. device = "opensl" /\ ~flags.abort => Len(hardware) < Buffers
      BY <2>2, <2>4
    <3> QED BY <2>1, <2>2, <3>1, <3>2, ServedKeeps
  <2> QED BY <2>3, <2>4
<1>7. CASE DecodeSilence \/ PeekAborted \/ DecodeRest
  <2>1. /\ UNCHANGED <<flags, count, nextBuffer, hardware, piece, sampleFrame>> /\ rest' \in {rest, Silence}
        /\ audioPc \in {"callback", "peeks"} /\ audioPc' = "fill"
    BY <1>7 DEF DecodeSilence, PeekAborted, DecodeRest, Decoded, AudioGoes
  <2>2. AudioTypeOK'
    BY <1>1, <2>1 DEF AudioTypeOK, AudioPlaces, Silence
  <2>3. RingInv' /\ SoundInv'
    BY <1>1, <2>1, RingStays, SoundStays DEF Waited
  <2> QED BY <2>2, <2>3 DEF AudioInv
<1>8. CASE DecodeFrame
  <2>1. /\ UNCHANGED <<flags, count, nextBuffer, hardware, piece>> /\ rest' \in {querySerial, Silence}
        /\ audioPc = "peeks" /\ audioPc' = "fill" /\ sampleFrame' = Silence
    BY <1>8 DEF DecodeFrame, Decoded, AudioGoes
  <2>2. AudioTypeOK'
    BY <1>1, <2>1 DEF AudioTypeOK, AudioPlaces, Silence
  <2>3. RingInv'
    BY <1>1, <2>1, RingStays DEF Waited
  <2>4. SoundInv'
    BY <1>1, <2>1 DEF SoundInv, UpTo, Silence, AudioTypeOK
  <2> QED BY <2>2, <2>3, <2>4 DEF AudioInv
<1>9. CASE DecodeOldFrame
  <2>1. UNCHANGED <<flags, threadVars>> /\ sampleFrame' = Silence
    BY <1>9 DEF DecodeOldFrame
  <2>2. AudioTypeOK'
    BY <1>1, <2>1 DEF AudioTypeOK, Silence, threadVars
  <2>3. RingInv' /\ SoundInv'
    BY <1>1, <2>1, RingStays, SoundStays DEF Waited, threadVars
  <2> QED BY <2>2, <2>3 DEF AudioInv
<1>10. CASE Fill
  <2>1. /\ UNCHANGED <<count, nextBuffer, hardware, sampleFrame>> /\ audioPc = "fill" /\ audioPc' = "hold"
        /\ piece' \in {rest, Silence} /\ rest' \in {rest, Silence}
        /\ flags' \in {flags, [flags EXCEPT !.flush = TRUE]}
    BY <1>10 DEF Fill, AudioGoes, sourceVars
  <2>2. flags' \in [abort : BOOLEAN, pause : BOOLEAN, flush : BOOLEAN] /\ flags'.abort = flags.abort
    BY <1>1, <2>1, FlagsTake DEF AudioTypeOK
  <2>3. AudioTypeOK'
    BY <1>1, <2>1, <2>2 DEF AudioTypeOK, AudioPlaces, Silence
  <2>4. RingInv' /\ SoundInv'
    BY <1>1, <2>1, <2>2, RingStays, SoundStays DEF Waited
  <2> QED BY <2>3, <2>4 DEF AudioInv
<1>11. CASE Hold
  <2>1. /\ UNCHANGED <<flags, count, nextBuffer, hardware, piece, rest, sampleFrame>>
        /\ audioPc = "hold" /\ audioPc' = "write"
    BY <1>11 DEF Hold, AudioGoes, sourceVars
  <2> QED BY <1>1, <2>1, RingStays, SoundStays DEF AudioInv, AudioTypeOK, AudioPlaces, Waited
<1>12. CASE Peeks
  <2>1. /\ UNCHANGED <<flags, count, nextBuffer, hardware, piece, rest, sampleFrame>>
        /\ audioPc = "callback" /\ audioPc' = "peeks"
    BY <1>12 DEF Peeks, AudioGoes, sourceVars
  <2> QED BY <1>1, <2>1, RingStays, SoundStays DEF AudioInv, AudioTypeOK, AudioPlaces, Waited
<1> QED BY <1>2, <1>3, <1>4, <1>5, <1>6, <1>7, <1>8, <1>9, <1>10, <1>11, <1>12, WriteKeeps DEF DeviceThread

\* Steps of the player that at most put a flag.
LEMMA FlagKeeps ==
    ASSUME AudioInv, UNCHANGED <<device, audioPc, count, nextBuffer, piece, rest>>,
           hardware' = hardware \/ (hardware' = << >>), sampleFrame' \in Nat, querySerial' \in Nat,
           querySerial' >= querySerial, decSerial' \in Nat, held' \in BOOLEAN,
           flags' \in [abort : BOOLEAN, pause : BOOLEAN, flush : BOOLEAN], flags.abort => flags'.abort
    PROVE  AudioInv'
<1>1. AudioTypeOK /\ RingInv /\ SoundInv
  BY DEF AudioInv
<1>2. AudioTypeOK'
  <2>1. hardware' \in Seq(Pieces)
    BY <1>1, NoPieces DEF AudioTypeOK
  <2> QED BY <1>1, <2>1 DEF AudioTypeOK
<1>3. RingInv'
  BY <1>1, RingStays, RingEmpty DEF Waited, AudioTypeOK
<1>4. SoundInv'
  <2>1. \A i \in 1 .. Len(hardware) : hardware[i].serial \in Nat
    BY <1>1, AudioFields
  <2>2. querySerial \in Nat /\ piece \in Nat /\ rest \in Nat
    BY <1>1 DEF AudioTypeOK
  <2>3. piece <= querySerial' /\ rest <= querySerial'
    BY <1>1, <2>2 DEF SoundInv
  <2>4. \A i \in 1 .. Len(hardware) : hardware[i].serial <= querySerial'
    BY <1>1, <2>1, <2>2 DEF SoundInv, UpTo
  <2>5. CASE hardware' = << >>
    BY <1>1, <2>2, <2>3, <2>5 DEF SoundInv, UpTo
  <2>6. CASE hardware' = hardware
    BY <1>1, <2>3, <2>4, <2>6 DEF SoundInv, UpTo
  <2> QED BY <2>5, <2>6
<1> QED BY <1>2, <1>3, <1>4 DEF AudioInv

LEMMA AudioOpenKeeps == ASSUME AudioInv, AudioOpen PROVE AudioInv'
<1>1. /\ AudioTypeOK /\ SoundInv /\ UNCHANGED <<device, sampleFrame, querySerial, decSerial, held>>
      /\ flags' = [flags EXCEPT !.abort = FALSE, !.pause = TRUE] /\ audioPc' = "begin" /\ count' = 0
      /\ nextBuffer' = 0 /\ piece' = 0 /\ rest' = 0
      /\ hardware' = IF device = "track" THEN << >> ELSE [i \in 1 .. Buffers |-> Piece(i - 1, Silence)]
  BY DEF AudioInv, AudioOpen, AudioOpens, sourceVars, settled, Silence
<1>2. flags' \in [abort : BOOLEAN, pause : BOOLEAN, flush : BOOLEAN]
  BY <1>1, FlagsTake
<1>3. Buffers \in Nat \ {0}
  BY AudioAssumption
<1> DEFINE full == [i \in 1 .. Buffers |-> Piece(i - 1, Silence)]
<1>4. /\ \A i \in 1 .. Buffers : Piece(i - 1, Silence) \in Pieces /\ full[i].buffer = i - 1 /\ full[i].serial = 0
  BY <1>3 DEF Piece, Pieces, Silence
<1>5. full \in Seq(Pieces) /\ Len(full) = Buffers
  BY <1>3, <1>4
<1> HIDE DEF full
<1>6. hardware' = << >> \/ hardware' = full
  BY <1>1 DEF full
<1>7. AudioTypeOK'
  <2>1. hardware' \in Seq(Pieces)
    BY <1>5, <1>6, NoPieces
  <2> QED BY <1>1, <1>2, <1>3, <2>1 DEF AudioTypeOK, AudioPlaces
<1>8. RingInv'
  <2>1. CASE hardware' = << >>
    BY <1>1, <2>1, RingEmpty
  <2>2. CASE hardware' = full
    <3>1. \A i \in 1 .. Buffers : full[i].buffer < Buffers /\ full[i].buffer \in {0 - (Buffers + 1 - i), 0 - (Buffers + 1 - i) + Buffers}
      BY <1>3, <1>4
    <3> QED BY <1>1, <1>3, <1>5, <2>2, <3>1 DEF RingInv
  <2> QED BY <1>6, <2>1, <2>2
<1>9. SoundInv'
  <2>1. querySerial \in Nat
    BY <1>1 DEF AudioTypeOK
  <2> QED BY <1>1, <1>4, <1>5, <1>6, <2>1 DEF SoundInv, UpTo, Silence
<1> QED BY <1>7, <1>8, <1>9 DEF AudioInv

LEMMA AudioStep == AudioInv /\ [AudioNext]_audioVars => AudioInv'
<1> SUFFICES ASSUME AudioInv, [AudioNext]_audioVars PROVE AudioInv'
  OBVIOUS
<1>0. AudioTypeOK /\ RingInv /\ SoundInv
  BY DEF AudioInv
<1>1. CASE UNCHANGED audioVars
  BY <1>1 DEF AudioInv, AudioTypeOK, RingInv, SoundInv, UpTo, audioVars, threadVars, sourceVars, playerVars, settled
<1>2. CASE DecoderFlushed \/ DecoderQueues \/ PictureDecoded \/ AudioSeek \/ AudioEnd \/ DecoderAbort \/ AudioClosed
  <2>1. /\ UNCHANGED <<device, audioPc, count, nextBuffer, piece, rest, flags>>
        /\ hardware' = hardware \/ hardware' = << >>
        /\ querySerial' \in {querySerial, querySerial + 1}
        /\ sampleFrame' \in {sampleFrame, Silence, decSerial} /\ decSerial' \in {decSerial, querySerial}
        /\ held' = held
    BY <1>2 DEF DecoderFlushed, DecoderQueues, PictureDecoded, AudioSeek, AudioEnd, DecoderAbort, AudioClosed, AudioCall,
       threadVars, sourceVars, playerVars, settled
  <2> QED BY <1>0, <2>1, FlagKeeps DEF AudioTypeOK, Silence
<1>3. CASE AudioRefused \/ AudioOpened \/ AudioToggle \/ AudioClose
  <2>1. UNCHANGED <<device, audioPc, count, nextBuffer, piece, rest, hardware, querySerial, sampleFrame, decSerial>>
        /\ held' \in {held, ~held}
    BY <1>3 DEF AudioRefused, AudioOpens, AudioOpened, AudioToggle, AudioClose, AudioCall,
       threadVars, sourceVars, playerVars, settled
  <2>2. flags.abort \in BOOLEAN /\ held \in BOOLEAN /\ querySerial \in Nat
    BY <1>0, AudioFields DEF AudioTypeOK
  <2>3. \E b \in BOOLEAN : \/ flags' = [flags EXCEPT !.abort = b] /\ (flags.abort => b)
                          \/ flags' = [flags EXCEPT !.pause = b]
    <3>1. CASE AudioRefused
      <4>1. flags' = [flags EXCEPT !.abort = flags.abort \/ device = "opensl"]
        BY <3>1 DEF AudioRefused
      <4>2. (flags.abort \/ device = "opensl") \in BOOLEAN
        BY <2>2
      <4> QED BY <4>1, <4>2
    <3>2. CASE AudioOpened \/ AudioToggle \/ AudioClose
      BY <2>2, <3>2 DEF AudioOpened, AudioToggle, AudioClose
    <3> QED BY <1>3, <3>1, <3>2
  <2>4. flags' \in [abort : BOOLEAN, pause : BOOLEAN, flush : BOOLEAN] /\ (flags.abort => flags'.abort)
    <3> PICK b \in BOOLEAN : \/ flags' = [flags EXCEPT !.abort = b] /\ (flags.abort => b)
                            \/ flags' = [flags EXCEPT !.pause = b]
      BY <2>3
    <3>1. CASE flags' = [flags EXCEPT !.abort = b] /\ (flags.abort => b)
      BY <1>0, <3>1, FlagsTake
    <3>2. CASE flags' = [flags EXCEPT !.pause = b]
      BY <1>0, <3>2, FlagsTake
    <3> QED BY <3>1, <3>2
  <2>5. /\ hardware' = hardware /\ sampleFrame' \in Nat /\ querySerial' \in Nat /\ querySerial' >= querySerial
        /\ decSerial' \in Nat
    BY <1>0, <2>1, <2>2 DEF AudioTypeOK
  <2>6. held' \in BOOLEAN
    BY <2>1, <2>2
  <2> QED BY <2>1, <2>4, <2>5, <2>6, FlagKeeps
<1> QED BY <1>1, <1>2, <1>3, ThreadKeeps, PlayedKeeps, AudioOpenKeeps DEF AudioNext, AudioPlayer, AudioCalls

\* The inductive invariant of the audio output.
THEOREM AudioInvHolds == AudioSpec => []AudioInv
  BY AudioStarts, AudioStep, PTL DEF AudioSpec

\* The buffer the callback fills is not being played, and the sound in the hardware is in the
\* order of the seeks.
THEOREM BuffersInOrderHolds == AudioSpec => []BuffersInOrder
<1>1. AudioInv => BuffersInOrder
  <2> SUFFICES ASSUME AudioInv PROVE BuffersInOrder
    OBVIOUS
  <2>1. DOMAIN hardware = 1 .. Len(hardware) /\ Len(hardware) \in Nat /\ Buffers \in Nat \ {0}
    BY AudioFields DEF AudioInv, AudioTypeOK
  <2>2. ASSUME device = "opensl", ~flags.abort, audioPc \in {"callback", "peeks", "fill", "hold", "write"},
               NEW i \in 1 .. Len(hardware)
        PROVE  hardware[i].buffer # nextBuffer
    <3>1. /\ Len(hardware) < Buffers
          /\ hardware[i].buffer \in {nextBuffer - (Len(hardware) + 1 - i), nextBuffer - (Len(hardware) + 1 - i) + Buffers}
      BY <2>2 DEF AudioInv, RingInv
    <3>2. nextBuffer \in Nat
      BY AudioFields DEF AudioInv
    <3> QED BY <2>1, <3>1, <3>2
  <2> QED BY <2>1, <2>2 DEF BuffersInOrder, AudioInv, SoundInv
<1> QED BY <1>1, AudioInvHolds, PTL

-----------------------------------------------------------------------------
(***************************************************************************)
(* VoutDisplay: the inductive invariant.                                   *)
(***************************************************************************)
Formats == {"AMC", "YV12", "I420", "I444P10LE", "RV16", "RV24", "RV32"}

\* The crop is that of the first picture of the present width, whatever else came in between.
IsRenderer(r) ==
    /\ r = [format |-> r.format, frame |-> r.frame, cropped |-> r.cropped, first |-> r.first]
    /\ r.cropped = <<r.first, r.frame>>

IsSurface(e) ==
    /\ e \in [window : {e.window}, valid : BOOLEAN, width : {e.width}, renderer : {e.renderer}]
    /\ IsRenderer(e.renderer)

DisplayTypeOK ==
    /\ overlayFormat \in OverlayFormats /\ outWindow \in Windows \cup {NoWindow} /\ IsSurface(egl)
    /\ geometry = [w \in Windows |-> geometry[w]]
    /\ \A w \in Windows : geometry[w] = [format |-> geometry[w].format, width |-> geometry[w].width]
    /\ picture # NoPicture => picture.format \in Formats /\ picture.planes = PlanesOf(picture.format)

\* The way a picture takes depends on nothing but its format.
EglTakes(format)    == \/ format \in {"RV24", "I420", "I444P10LE"}
                       \/ format \in {"YV12", "RV16", "RV32"} /\ overlayFormat = "GLES2"
WindowTakes(format) == format \in {"YV12", "RV16", "RV32"} /\ overlayFormat # "GLES2"
RouteInv ==
    /\ drawn.by \in {"nobody", "egl", "window", "codec"}
    /\ drawn.by = "egl" => EglTakes(drawn.of.format)
    /\ drawn.by = "window" => WindowTakes(drawn.of.format)
    /\ drawn.by = "codec" => drawn.of.format = "AMC"

\* A display that does not fail leaves the window as the next one of the same picture needs it:
\* EGL's surface has the width of its window, and after the second display that of the picture.
RepairedInv ==
    /\ drawn.by # "nobody" => drawn.again \in {0, 1, 2}
    /\ drawn.by = "egl" /\ ~drawn.fault =>
          /\ egl.valid /\ egl.width = geometry[outWindow].width
          /\ drawn.again # 0 => egl.width = drawn.of.width
    /\ drawn.by = "window" /\ ~drawn.fault =>
          /\ outWindow \in Windows
          /\ geometry[outWindow].format = Hal[drawn.of.format]
          /\ geometry[outWindow].width = Align(drawn.of.width, 2)

DisplayInv == DisplayTypeOK /\ RouteInv /\ RepairedInv /\ PicturesDrawn

\* What is put into the record of the surface, and what it keeps.
Surfaces(S) == [window : S, valid : BOOLEAN, width : S, renderer : S]

LEMMA SurfaceAmong ==
    ASSUME NEW e, NEW S, IsSurface(e), {e.window, e.width, e.renderer} \subseteq S
    PROVE  e \in Surfaces(S)
  BY DEF IsSurface, Surfaces

LEMMA SurfaceIs ==
    ASSUME NEW e, NEW S, e \in Surfaces(S), IsRenderer(e.renderer)
    PROVE  IsSurface(e)
  BY DEF IsSurface, Surfaces

LEMMA TerminatedIs ==
    ASSUME IsSurface(egl)
    PROVE  /\ IsSurface(Terminated) /\ Terminated.valid = FALSE
           /\ Terminated.window = egl.window /\ Terminated.width = egl.width
<1> DEFINE S == {egl.window, egl.width, egl.renderer, NoRenderer}
           t == Terminated
<1>1. IsRenderer(NoRenderer)
  BY DEF IsRenderer, NoRenderer
<1>2. egl \in Surfaces(S) /\ NoRenderer \in S
  BY SurfaceAmong
<1>3. CASE egl.valid
  <2>1. t = [egl EXCEPT !.valid = FALSE, !.renderer = NoRenderer]
    BY <1>3 DEF Terminated
  <2> HIDE DEF t, S
  <2>2. t \in Surfaces(S) /\ t.valid = FALSE /\ t.window = egl.window /\ t.width = egl.width /\ t.renderer = NoRenderer
    BY <1>2, <2>1 DEF Surfaces
  <2>3. IsSurface(t)
    BY <1>1, <2>2, SurfaceIs
  <2> QED BY <2>2, <2>3 DEF t
<1>4. CASE ~egl.valid
  BY <1>4 DEF Terminated, IsSurface
<1> QED BY <1>3, <1>4

\* The four ways in which a surface changes.
Made(e, v, n)    == [e EXCEPT !.window = v, !.valid = TRUE, !.width = n]
Moved(e, v)      == [e EXCEPT !.window = v]
Fitted(e, r)     == [e EXCEPT !.renderer = r]
Swapped(e, r, n) == [e EXCEPT !.renderer = r, !.width = n]

LEMMA MadeIs ==
    ASSUME NEW t, NEW v, NEW n, IsSurface(t)
    PROVE  /\ IsSurface(Made(t, v, n)) /\ Made(t, v, n).window = v
           /\ Made(t, v, n).valid /\ Made(t, v, n).width = n
<1> DEFINE f == Made(t, v, n)
<1> DEFINE S == {t.window, t.width, t.renderer, v, n}
           a == [t EXCEPT !.window = v]
           b == [a EXCEPT !.valid = TRUE]
           c == [b EXCEPT !.width = n]
<1>1. f = c
  BY DEF Made
<1> HIDE DEF f
<1>2. t \in Surfaces(S) /\ v \in S /\ n \in S
  BY SurfaceAmong
<1> HIDE DEF S
<1>3. a \in Surfaces(S) /\ a.window = v /\ a.renderer = t.renderer
  BY <1>2 DEF Surfaces
<1> HIDE DEF a
<1>4. b \in Surfaces(S) /\ b.window = v /\ b.renderer = t.renderer /\ b.valid
  BY <1>3 DEF Surfaces
<1> HIDE DEF b
<1>5. c \in Surfaces(S) /\ c.window = v /\ c.renderer = t.renderer /\ c.valid /\ c.width = n
  BY <1>2, <1>4 DEF Surfaces
<1> HIDE DEF c
<1>6. IsRenderer(f.renderer)
  BY <1>1, <1>5 DEF IsSurface
<1>7. IsSurface(f) /\ f.window = v /\ f.valid /\ f.width = n
  BY <1>1, <1>5, <1>6, SurfaceIs
<1> QED BY <1>7 DEF f

LEMMA FittedIs ==
    ASSUME NEW e, NEW r, IsSurface(e), IsRenderer(r)
    PROVE  IsSurface(Fitted(e, r)) /\ Fitted(e, r).window = e.window
<1> DEFINE S == {e.window, e.width, e.renderer, r}
           f == Fitted(e, r)
<1>1. e \in Surfaces(S) /\ r \in S
  BY SurfaceAmong
<1> HIDE DEF S
<1>2. f \in Surfaces(S) /\ f.window = e.window /\ f.renderer = r
  BY <1>1 DEF Surfaces, Fitted
<1> QED BY <1>2, SurfaceIs

LEMMA SurfaceTakes ==
    ASSUME NEW e, NEW r, NEW n, NEW v, IsSurface(e), IsRenderer(r)
    PROVE  /\ IsSurface(Swapped(e, r, n)) /\ Swapped(e, r, n).window = e.window
           /\ Swapped(e, r, n).valid = e.valid /\ Swapped(e, r, n).width = n /\ Swapped(e, r, n).renderer = r
           /\ IsSurface(Moved(e, v)) /\ Moved(e, v).window = v /\ Moved(e, v).valid = e.valid
<1> DEFINE S == {e.window, e.width, e.renderer, r, n, v}
<1>1. e \in Surfaces(S) /\ r \in S /\ n \in S /\ v \in S
  BY SurfaceAmong
<1> HIDE DEF S
<1> DEFINE g == Swapped(e, r, n)
           h == Moved(e, v)
<1>3. g \in Surfaces(S) /\ g.window = e.window /\ g.valid = e.valid /\ g.width = n /\ g.renderer = r
  BY <1>1 DEF Surfaces, Swapped
<1>4. h \in Surfaces(S) /\ h.window = v /\ h.valid = e.valid /\ h.renderer = e.renderer
  BY <1>1 DEF Surfaces, Moved
<1>5. IsRenderer(e.renderer)
  BY DEF IsSurface
<1> QED BY <1>3, <1>4, <1>5, SurfaceIs

LEMMA CurrentIs ==
    ASSUME IsSurface(egl)
    PROVE  /\ IsSurface(Current) /\ Current.valid /\ Current.window = outWindow
           /\ IsCurrent => Current = egl
<1>1. CASE IsCurrent
  <2>1. Current = egl /\ egl.valid /\ egl.window = outWindow
    BY <1>1 DEF Current, IsCurrent, IsSurface
  <2> HIDE DEF Current
  <2> QED BY <2>1
<1>2. CASE ~IsCurrent
  <2> DEFINE t == Terminated
             n == geometry[outWindow].width
             c == Current
  <2>1. IsSurface(t)
    BY TerminatedIs
  <2>2. c = Made(t, outWindow, n)
    BY <1>2 DEF Current, Made
  <2> HIDE DEF t, n, c
  <2>3. IsSurface(c) /\ c.window = outWindow /\ c.valid
    BY <2>1, <2>2, MadeIs
  <2> QED BY <1>2, <2>3 DEF c
<1> QED BY <1>1, <1>2

LEMMA PreparedIs ==
    ASSUME IsSurface(egl)
    PROVE  IsRenderer(Prepared) /\ Prepared.format = picture.format
<1>1. CASE FormatFits
  BY <1>1, CurrentIs DEF Prepared, FormatFits, IsSurface
<1>2. CASE ~FormatFits
  <2>1. Prepared = [format |-> picture.format, frame |-> 0, cropped |-> <<0, 0>>, first |-> 0]
    BY <1>2 DEF Prepared, NewRenderer, NoRenderer
  <2> QED BY <2>1 DEF IsRenderer
<1> QED BY <1>1, <1>2

\* A texture that is cropped for the picture's width is cropped anew for another one only.
LEMMA RenderedIs ==
    ASSUME NEW r, NEW o, IsRenderer(r)
    PROVE  LET n == Rendered(r, o)
           IN  IsRenderer(n) /\ n.format = r.format /\ n.cropped = <<n.first, o.width>>
<1> DEFINE b == BufferWidth(o)
           w == o.width
<1>1. CASE r.frame # w
  <2>1. Rendered(r, o) = [r EXCEPT !.frame = w, !.first = b, !.cropped = <<b, w>>]
    BY <1>1 DEF Rendered
  <2> HIDE DEF b, w
  <2>2. Rendered(r, o) = [format |-> r.format, frame |-> w, cropped |-> <<b, w>>, first |-> b]
    BY <2>1 DEF IsRenderer
  <2> QED BY <2>2 DEF IsRenderer, w
<1>2. CASE r.frame = w
  <2>1. r.cropped[2] = w
    BY <1>2 DEF IsRenderer
  <2>2. Rendered(r, o) = [r EXCEPT !.frame = w, !.first = r.first, !.cropped = r.cropped]
    BY <1>2, <2>1 DEF Rendered
  <2> HIDE DEF b, w
  <2>3. Rendered(r, o) = [format |-> r.format, frame |-> w, cropped |-> r.cropped, first |-> r.first]
    BY <2>2 DEF IsRenderer
  <2> QED BY <1>2, <2>3 DEF IsRenderer, w
<1> QED BY <1>1, <1>2

\* The readers take the planes in the order in which they were filled in.
LEMMA ReadsAre == \A format \in Formats \ {"AMC"} : Reads(format) = PlanesOf(format)
  BY DEF Formats, Reads, PlanesOf, Rgb, YuvReads

\* The window's entry of the geometry, and no other, is put.
GeometryOK(g) ==
    /\ g = [w \in Windows |-> g[w]]
    /\ \A w \in Windows : g[w] = [format |-> g[w].format, width |-> g[w].width]

LEMMA GeometryTakes ==
    ASSUME NEW g, GeometryOK(g), outWindow \in Windows,
           NEW x, x = [format |-> x.format, width |-> x.width]
    PROVE  GeometryOK([g EXCEPT ![outWindow] = x]) /\ [g EXCEPT ![outWindow] = x][outWindow] = x
<1> DEFINE h == [g EXCEPT ![outWindow] = x]
<1>1. h = [w \in Windows |-> IF w = outWindow THEN x ELSE g[w]]
  BY DEF GeometryOK
<1> HIDE DEF h
<1>2. \A w \in Windows : h[w] = IF w = outWindow THEN x ELSE g[w]
  BY <1>1
<1>3. h = [w \in Windows |-> h[w]]
  BY <1>1
<1>4. \A w \in Windows : h[w] = [format |-> h[w].format, width |-> h[w].width]
  BY <1>2 DEF GeometryOK
<1>5. GeometryOK(h) /\ h[outWindow] = x
  BY <1>2, <1>3, <1>4 DEF GeometryOK
<1> QED BY <1>5 DEF h

LEMMA FieldTakes ==
    ASSUME NEW g, GeometryOK(g), outWindow \in Windows, NEW f, NEW n
    PROVE  GeometryOK([g EXCEPT ![outWindow].format = f]) /\ GeometryOK([g EXCEPT ![outWindow].width = n])
<1> DEFINE o == g[outWindow]
<1>1. o = [format |-> o.format, width |-> o.width]
  BY DEF GeometryOK
<1>2. /\ [g EXCEPT ![outWindow].format = f] = [g EXCEPT ![outWindow] = [o EXCEPT !.format = f]]
      /\ [g EXCEPT ![outWindow].width = n] = [g EXCEPT ![outWindow] = [o EXCEPT !.width = n]]
  OBVIOUS
<1> HIDE DEF o
<1> DEFINE a == [o EXCEPT !.format = f]
           b == [o EXCEPT !.width = n]
<1>3. a = [format |-> a.format, width |-> a.width] /\ b = [format |-> b.format, width |-> b.width]
  BY <1>1
<1> HIDE DEF a, b
<1>4. GeometryOK([g EXCEPT ![outWindow] = a]) /\ GeometryOK([g EXCEPT ![outWindow] = b])
  BY <1>3, GeometryTakes
<1> QED BY <1>2, <1>4 DEF a, b

LEMMA WidthTakes ==
    ASSUME NEW g, GeometryOK(g), outWindow \in Windows, NEW n
    PROVE  [g EXCEPT ![outWindow].width = n][outWindow].width = n
<1> DEFINE o == g[outWindow]
<1>1. o = [format |-> o.format, width |-> o.width]
  BY DEF GeometryOK
<1>2. [g EXCEPT ![outWindow].width = n] = [g EXCEPT ![outWindow] = [o EXCEPT !.width = n]]
  OBVIOUS
<1> HIDE DEF o
<1> DEFINE b == [o EXCEPT !.width = n]
<1>3. b = [format |-> b.format, width |-> b.width] /\ b.width = n
  BY <1>1
<1> HIDE DEF b
<1>4. [g EXCEPT ![outWindow] = b][outWindow] = b
  BY <1>3, GeometryTakes
<1> QED BY <1>2, <1>3, <1>4 DEF b

LEMMA VisualIs ==
    ASSUME GeometryOK(geometry), outWindow \in Windows
    PROVE  /\ GeometryOK(VisualSet) /\ GeometryOK(SizeSet)
           /\ SizeSet[outWindow].width = picture.width /\ (IsCurrent => VisualSet = geometry)
<1>1. GeometryOK(VisualSet)
  BY FieldTakes DEF VisualSet
<1>2. GeometryOK(SizeSet)
  BY <1>1, FieldTakes DEF SizeSet
<1>3. SizeSet[outWindow].width = picture.width
  BY <1>1, WidthTakes DEF SizeSet
<1>4. IsCurrent => VisualSet = geometry
  BY DEF VisualSet
<1> QED BY <1>1, <1>2, <1>3, <1>4

LEMMA DisplayStarts == VoutInit => DisplayInv
<1> SUFFICES ASSUME VoutInit PROVE DisplayInv
  OBVIOUS
<1>1. /\ overlayFormat \in OverlayFormats /\ outWindow = NoWindow /\ picture = NoPicture /\ drawn = NotDrawn
      /\ geometry \in [Windows -> [format : WindowFormats, width : {WindowWidth}]]
      /\ egl = [window |-> NoWindow, valid |-> FALSE, width |-> 0, renderer |-> NoRenderer]
  BY DEF VoutInit
<1>2. IsSurface(egl) /\ egl.valid = FALSE
  BY <1>1 DEF IsSurface, IsRenderer, NoRenderer
<1>3. /\ geometry = [w \in Windows |-> geometry[w]]
      /\ \A w \in Windows : geometry[w] = [format |-> geometry[w].format, width |-> geometry[w].width]
  BY <1>1
<1>4. drawn.by = "nobody"
  BY <1>1 DEF NotDrawn
<1> QED BY <1>1, <1>2, <1>3, <1>4 DEF DisplayInv, DisplayTypeOK, RouteInv, RepairedInv, PicturesDrawn

\* What every display starts from.
LEMMA ToDraw ==
    ASSUME DisplayInv, outWindow # NoWindow, picture # NoPicture
    PROVE  /\ outWindow \in Windows /\ IsSurface(egl) /\ GeometryOK(geometry)
           /\ picture.format \in Formats /\ picture.planes = PlanesOf(picture.format)
  BY DEF DisplayInv, DisplayTypeOK, GeometryOK

\* The count of the displays of the same picture.
LEMMA AgainIs ==
    ASSUME DisplayInv
    PROVE  /\ Again \in {0, 1, 2}
           /\ Again # 0 => drawn.by # "nobody" /\ drawn.of = picture /\ ~drawn.fault
           /\ Again = 2 => drawn.again # 0
  BY DEF Again, DisplayInv, RepairedInv

\* A display that fails.
LEMMA FaultKeeps ==
    ASSUME DisplayInv, NEW by, NotShown(by, TRUE),
           UNCHANGED <<overlayFormat, outWindow, picture>>, outWindow # NoWindow, picture # NoPicture,
           \/ by = "egl" /\ EglTakes(picture.format) /\ (egl'.valid => egl'.window = outWindow)
           \/ by = "window" /\ WindowTakes(picture.format) /\ ~egl'.valid,
           IsSurface(egl'), GeometryOK(geometry')
    PROVE  DisplayInv'
<1>1. /\ drawn'.by = by /\ drawn'.of = picture /\ drawn'.shown = FALSE /\ drawn'.fault = TRUE
      /\ drawn'.again \in {0, 1, 2}
  BY AgainIs DEF NotShown
<1>2. DisplayTypeOK'
  BY DEF DisplayTypeOK, GeometryOK, DisplayInv
<1>3. RouteInv' /\ RepairedInv'
  BY <1>1 DEF RouteInv, RepairedInv, EglTakes, WindowTakes
<1>4. PicturesDrawn'
  BY <1>1 DEF PicturesDrawn
<1> QED BY <1>2, <1>3, <1>4 DEF DisplayInv

\* A display that finds the window of another format or size, and repairs it.
LEMMA MisfitKeeps ==
    ASSUME DisplayInv, NotShown("window", FALSE),
           UNCHANGED <<overlayFormat, outWindow, picture>>, outWindow # NoWindow, picture # NoPicture,
           WindowTakes(picture.format), ~egl'.valid, Again = 0,
           geometry'[outWindow].format = Hal[picture.format],
           geometry'[outWindow].width = Align(picture.width, 2),
           IsSurface(egl'), GeometryOK(geometry')
    PROVE  DisplayInv'
<1>1. drawn'.by = "window" /\ drawn'.of = picture /\ drawn'.shown = FALSE /\ drawn'.fault = FALSE
  BY DEF NotShown
<1>2. drawn'.again = Again
  BY DEF NotShown
<1>3. drawn'.again = 0
  BY <1>2
<1>4. DisplayTypeOK'
  BY DEF DisplayTypeOK, GeometryOK, DisplayInv
<1>5. RouteInv' /\ RepairedInv'
  BY <1>1, <1>3, ToDraw DEF RouteInv, RepairedInv, EglTakes, WindowTakes
<1>6. PicturesDrawn'
  BY <1>1, <1>3 DEF PicturesDrawn
<1> QED BY <1>4, <1>5, <1>6 DEF DisplayInv

\* And one that shows the picture.
LEMMA ShownKeeps ==
    ASSUME DisplayInv, NEW by, NEW reads, NEW cropped, NEW width, Shown(by, reads, cropped, width),
           UNCHANGED <<overlayFormat, outWindow, picture>>, outWindow # NoWindow, picture # NoPicture,
           \/ /\ by = "egl" /\ EglTakes(picture.format) /\ reads = picture.planes
              /\ egl'.valid /\ egl'.window = outWindow /\ egl'.width = geometry'[outWindow].width
              /\ egl'.renderer.format = picture.format /\ cropped = <<egl'.renderer.first, picture.width>>
              /\ Again # 0 => egl'.width = picture.width
              /\ Again = 2 => width = picture.width
           \/ /\ by = "window" /\ WindowTakes(picture.format) /\ reads = picture.planes
              /\ ~egl'.valid /\ geometry'[outWindow].format = Hal[picture.format]
              /\ geometry'[outWindow].width = Align(picture.width, 2)
           \/ by = "codec" /\ picture.format = "AMC" /\ ~egl'.valid,
           IsSurface(egl'), GeometryOK(geometry')
    PROVE  DisplayInv'
<1>1. /\ drawn'.by = by /\ drawn'.of = picture /\ drawn'.shown = TRUE /\ drawn'.fault = FALSE
      /\ drawn'.reads = reads /\ drawn'.cropped = cropped /\ drawn'.width = width
      /\ by \in {"egl", "window", "codec"}
  BY DEF Shown
<1>2. drawn'.again = Again
  BY DEF Shown
<1>3. /\ drawn'.again \in {0, 1, 2}
      /\ by = "egl" => /\ drawn'.again # 0 => egl'.width = picture.width
                       /\ drawn'.again = 2 => width = picture.width
  BY <1>2, AgainIs
<1>4. DisplayTypeOK'
  BY DEF DisplayTypeOK, GeometryOK, DisplayInv
<1>5. RouteInv' /\ RepairedInv'
  BY <1>1, <1>3, ToDraw DEF RouteInv, RepairedInv, EglTakes, WindowTakes
<1>6. PicturesDrawn'
  BY <1>1, <1>3 DEF PicturesDrawn
<1> QED BY <1>4, <1>5, <1>6 DEF DisplayInv

\* The second display of a picture finds the surface of the first, as wide as its window; the
\* third finds it as wide as the picture.
LEMMA AgainOnEgl ==
    ASSUME DisplayInv, Again # 0, EglTakes(picture.format)
    PROVE  /\ IsCurrent /\ egl.width = geometry[outWindow].width
           /\ Again = 2 => egl.width = picture.width
<1>1. /\ drawn.by # "nobody" /\ drawn.of = picture /\ ~drawn.fault
      /\ Again = 2 => drawn.again # 0
  BY AgainIs
<1>2. drawn.by = "egl"
  BY <1>1 DEF DisplayInv, RouteInv, EglTakes, WindowTakes
<1> QED BY <1>1, <1>2 DEF DisplayInv, RepairedInv, PicturesDrawn, IsCurrent

\* And on the window, the geometry that the first one left.
LEMMA AgainOnWindow ==
    ASSUME DisplayInv, Again # 0, WindowTakes(picture.format)
    PROVE  /\ geometry[outWindow].format = Hal[picture.format]
           /\ geometry[outWindow].width = Align(picture.width, 2)
<1>1. drawn.by # "nobody" /\ drawn.of = picture /\ ~drawn.fault
  BY AgainIs
<1>2. drawn.by = "window"
  BY <1>1 DEF DisplayInv, RouteInv, EglTakes, WindowTakes
<1> QED BY <1>1, <1>2 DEF DisplayInv, RepairedInv

LEMMA ByEglKeeps ==
    ASSUME DisplayInv, ByEgl, UNCHANGED <<overlayFormat, outWindow, picture>>,
           outWindow # NoWindow, picture # NoPicture
    PROVE  DisplayInv'
<1>1. /\ outWindow \in Windows /\ IsSurface(egl) /\ GeometryOK(geometry)
      /\ picture.format \in Formats /\ picture.planes = PlanesOf(picture.format)
  BY ToDraw
<1>2. EglTakes(picture.format)
  BY DEF ByEgl, EglTakes
<1>3. /\ GeometryOK(VisualSet) /\ GeometryOK(SizeSet) /\ Sized \subseteq {VisualSet, SizeSet}
      /\ SizeSet[outWindow].width = picture.width /\ (IsCurrent => VisualSet = geometry)
  BY <1>1, VisualIs DEF Sized
<1>4. CASE CurrentFails
  <2>1. NotShown("egl", TRUE) /\ geometry' \in {geometry, VisualSet}
    BY <1>4 DEF CurrentFails
  <2>2. IsSurface(egl') /\ (egl'.valid => egl'.window = outWindow)
    <3>1. CASE IsCurrent
      BY <1>1, <1>4, <3>1 DEF CurrentFails, IsCurrent
    <3>2. CASE ~IsCurrent
      <4> DEFINE t == Terminated
      <4>1. egl' = Moved(t, outWindow)
        BY <1>4, <3>2 DEF CurrentFails, Moved
      <4>2. IsSurface(t) /\ ~t.valid
        BY <1>1, TerminatedIs
      <4> HIDE DEF t
      <4>3. IsRenderer(t.renderer)
        BY <4>2 DEF IsSurface
      <4>4. IsSurface(egl') /\ egl'.valid = t.valid
        BY <4>1, <4>2, <4>3, SurfaceTakes
      <4> QED BY <4>2, <4>4
    <3> QED BY <3>1, <3>2
  <2> QED BY <1>1, <1>2, <1>3, <2>1, <2>2, FaultKeeps
<1> DEFINE r == Rendered(Prepared, picture)
<1>5. IsRenderer(r) /\ r.format = picture.format /\ r.cropped = <<r.first, picture.width>>
  BY <1>1, PreparedIs, RenderedIs
<1> HIDE DEF r
<1>6. ASSUME NEW q, IsRenderer(q), NEW n,
             egl' = [Current EXCEPT !.renderer = q] \/ egl' = [Current EXCEPT !.renderer = q, !.width = n]
      PROVE  IsSurface(egl') /\ egl'.window = outWindow
  <2> DEFINE c == Current
  <2>1. IsSurface(c) /\ c.window = outWindow /\ (egl' = Fitted(c, q) \/ egl' = Swapped(c, q, n))
    BY <1>1, <1>6, CurrentIs DEF Fitted, Swapped
  <2> HIDE DEF c
  <2>2. /\ IsSurface(Fitted(c, q)) /\ Fitted(c, q).window = c.window
        /\ IsSurface(Swapped(c, q, n)) /\ Swapped(c, q, n).window = c.window
    BY <1>6, <2>1, FittedIs, SurfaceTakes
  <2> QED BY <2>1, <2>2
<1>7. CASE RendererFails \/ GeometryFails \/ SwapFails
  <2>1. NotShown("egl", TRUE) /\ GeometryOK(geometry')
    BY <1>3, <1>7 DEF RendererFails, GeometryFails, SwapFails
  <2>2. PICK q, n : /\ IsRenderer(q)
                    /\ \/ egl' = [Current EXCEPT !.renderer = q]
                       \/ egl' = [Current EXCEPT !.renderer = q, !.width = n]
    <3>1. CASE RendererFails
      <4>1. IsRenderer(NoRenderer)
        BY DEF IsRenderer, NoRenderer
      <4> QED BY <3>1, <4>1 DEF RendererFails
    <3>2. CASE GeometryFails
      BY <1>1, <3>2, PreparedIs DEF GeometryFails
    <3>3. CASE SwapFails
      BY <1>5, <3>3 DEF SwapFails, r
    <3> QED BY <1>7, <3>1, <3>2, <3>3
  <2>3. IsSurface(egl') /\ egl'.window = outWindow
    BY <1>6, <2>2
  <2> QED BY <1>2, <2>1, <2>3, FaultKeeps
<1>8. CASE Swaps
  <2> DEFINE width == geometry'[outWindow].width
  <2>1. PICK viewport \in AtOnceOrLater : Shown("egl", Reads(r.format), r.cropped, viewport)
    BY <1>8 DEF Swaps, r
  <2>2. egl' = [Current EXCEPT !.renderer = r, !.width = width] /\ geometry' \in Sized
    BY <1>8 DEF Swaps, r
  <2>3. GeometryOK(geometry')
    BY <1>3, <2>2
  <2>4. Again # 0 => width = picture.width
    <3> SUFFICES ASSUME Again # 0 PROVE width = picture.width
      OBVIOUS
    <3>1. IsCurrent /\ egl.width = geometry[outWindow].width
      BY <1>2, AgainOnEgl
    <3>2. Current = egl /\ VisualSet = geometry
      BY <1>1, <1>3, <3>1, CurrentIs
    <3>3. CASE SizeFits
      BY <1>3, <2>2, <3>1, <3>2, <3>3 DEF SizeFits, Sized
    <3>4. CASE ~SizeFits
      BY <1>3, <2>2, <3>4 DEF Sized
    <3> QED BY <3>3, <3>4
  <2>5. Again = 2 => viewport = picture.width
    BY <1>1, <1>2, <2>1, AgainOnEgl, CurrentIs DEF AtOnceOrLater
  <2> HIDE DEF width
  <2>6. /\ egl'.window = outWindow /\ egl'.valid /\ egl'.width = width
        /\ egl'.renderer = r /\ IsSurface(egl')
    <3> DEFINE c == Current
    <3>1. IsSurface(c) /\ c.window = outWindow /\ c.valid /\ egl' = Swapped(c, r, width)
      BY <1>1, <2>2, CurrentIs DEF Swapped
    <3> HIDE DEF c
    <3> QED BY <1>5, <3>1, SurfaceTakes
  <2>7. Reads(r.format) = picture.planes
    BY <1>1, <1>2, <1>5, ReadsAre DEF EglTakes
  <2>8. egl'.width = geometry'[outWindow].width
    BY <2>6 DEF width
  <2>9. Again # 0 => egl'.width = picture.width
    BY <2>4, <2>6
  <2> QED BY <1>2, <1>5, <2>1, <2>3, <2>5, <2>6, <2>7, <2>8, <2>9, ShownKeeps
<1> QED BY <1>4, <1>7, <1>8 DEF ByEgl

LEMMA ByWindowKeeps ==
    ASSUME DisplayInv, ByWindow, UNCHANGED <<overlayFormat, outWindow, picture>>,
           outWindow # NoWindow, picture # NoPicture
    PROVE  DisplayInv'
<1>1. /\ outWindow \in Windows /\ IsSurface(egl) /\ GeometryOK(geometry)
      /\ picture.format \in Formats /\ picture.planes = PlanesOf(picture.format)
  BY ToDraw
<1>2. WindowTakes(picture.format) /\ egl' = Terminated
  BY DEF ByWindow, WindowTakes
<1>3. IsSurface(egl') /\ ~egl'.valid
  BY <1>1, <1>2, TerminatedIs
<1> DEFINE wanted == [format |-> Hal[picture.format], width |-> Align(picture.width, 2)]
<1>4. Wanted = wanted
  BY DEF Wanted
<1> HIDE DEF wanted
<1>5. wanted.format = Hal[picture.format] /\ wanted.width = Align(picture.width, 2)
      /\ wanted = [format |-> wanted.format, width |-> wanted.width]
  BY DEF wanted
<1>6. \/ Offered = geometry[outWindow] /\ geometry[outWindow].format = Hal[picture.format]
      \/ Offered = wanted
  BY <1>4 DEF Offered
<1>7. Offered = [format |-> Offered.format, width |-> Offered.width] /\ Offered.format = Hal[picture.format]
  BY <1>1, <1>5, <1>6 DEF GeometryOK
<1>8. CASE WindowFails
  <2>1. NotShown("window", TRUE) /\ (geometry' = geometry \/ geometry' = [geometry EXCEPT ![outWindow] = Offered])
    BY <1>8 DEF WindowFails, SetGeometry
  <2>2. GeometryOK(geometry')
    BY <1>1, <1>7, <2>1, GeometryTakes
  <2> QED BY <1>2, <1>3, <2>1, <2>2, FaultKeeps
<1>9. CASE WindowMisfits
  <2>1. NotShown("window", FALSE) /\ geometry' = [geometry EXCEPT ![outWindow] = wanted]
    BY <1>4, <1>9 DEF WindowMisfits, SetGeometry
  <2>2. GeometryOK(geometry') /\ geometry'[outWindow] = wanted
    BY <1>1, <1>5, <2>1, GeometryTakes
  <2>3. Again = 0
    <3> SUFFICES ASSUME Again # 0 PROVE FALSE
      OBVIOUS
    <3>1. geometry[outWindow].format = Hal[picture.format] /\ geometry[outWindow].width = Align(picture.width, 2)
      BY <1>2, AgainOnWindow
    <3>2. Known
      BY <1>2, <3>1 DEF Known, Draws, Hal, WindowTakes
    <3>3. Offered.width = Wanted.width
      BY <1>4, <1>5, <3>1 DEF Offered
    <3> QED BY <1>9, <3>2, <3>3 DEF WindowMisfits
  <2> QED BY <1>2, <1>3, <1>5, <2>1, <2>2, <2>3, MisfitKeeps
<1>10. CASE WindowDraws
  <2>1. geometry' = [geometry EXCEPT ![outWindow] = Offered] /\ Offered.width = Align(picture.width, 2)
    BY <1>4, <1>5, <1>10 DEF WindowDraws, SetGeometry
  <2>2. GeometryOK(geometry') /\ geometry'[outWindow] = Offered
    BY <1>1, <1>7, <2>1, GeometryTakes
  <2>3. CASE Draws[geometry[outWindow].format] = picture.format
    <3>1. Shown("window", Reads(picture.format), << >>, Offered.width)
      BY <1>10, <2>3 DEF WindowDraws
    <3>2. Reads(picture.format) = picture.planes
      BY <1>1, <1>2, ReadsAre DEF WindowTakes
    <3> QED BY <1>2, <1>3, <1>7, <2>1, <2>2, <3>1, <3>2, ShownKeeps
  <2>4. CASE Draws[geometry[outWindow].format] # picture.format
    <3>1. NotShown("window", FALSE)
      BY <1>10, <2>4 DEF WindowDraws
    <3>2. Again = 0
      <4> SUFFICES ASSUME Again # 0 PROVE FALSE
        OBVIOUS
      <4>1. geometry[outWindow].format = Hal[picture.format]
        BY <1>2, AgainOnWindow
      <4> QED BY <1>2, <2>4, <4>1 DEF Draws, Hal, WindowTakes
    <3> QED BY <1>2, <1>3, <1>7, <2>1, <2>2, <3>1, <3>2, MisfitKeeps
  <2> QED BY <2>3, <2>4
<1> QED BY <1>8, <1>9, <1>10 DEF ByWindow

LEMMA DisplayStep == DisplayInv /\ [VoutNext]_voutVars => DisplayInv'
<1> SUFFICES ASSUME DisplayInv, [VoutNext]_voutVars PROVE DisplayInv'
  OBVIOUS
<1>0. DisplayTypeOK /\ RouteInv /\ RepairedInv /\ PicturesDrawn
  BY DEF DisplayInv
<1>1. CASE UNCHANGED voutVars
  BY <1>0, <1>1 DEF DisplayInv, DisplayTypeOK, RouteInv, RepairedInv, PicturesDrawn, EglTakes, WindowTakes, voutVars
<1>2. CASE DisplayOverlay
  <2>1. outWindow # NoWindow /\ picture # NoPicture /\ UNCHANGED <<overlayFormat, outWindow, picture>>
    BY <1>2 DEF DisplayOverlay
  <2>2. CASE ByCodec
    <3>1. Shown("codec", "codec", << >>, picture.width) /\ picture.format = "AMC" /\ geometry' = geometry /\ egl' = Terminated
      BY <2>2 DEF ByCodec
    <3>2. IsSurface(egl') /\ ~egl'.valid /\ GeometryOK(geometry')
      BY <2>1, <3>1, ToDraw, TerminatedIs
    <3> QED BY <2>1, <3>1, <3>2, ShownKeeps
  <2> QED BY <1>2, <2>1, <2>2, ByEglKeeps, ByWindowKeeps DEF DisplayOverlay
<1>3. CASE NextPicture
  <2>1. UNCHANGED <<overlayFormat, outWindow, geometry, egl, drawn>>
    BY <1>3 DEF NextPicture
  <2>2. PICK f \in SourceFrames : picture' = Overlay(f)
    BY <1>3 DEF NextPicture
  <2>3. picture'.format = FormatFor(f.pix) /\ picture'.planes = PlanesOf(FormatFor(f.pix))
    BY <2>2 DEF Overlay
  <2>4. FormatFor(f.pix) \in Formats
    <3>1. overlayFormat \in {"GLES2", "YV12", "I420", "RV16", "RV24", "RV32"}
      BY <1>0, VoutAssumption DEF DisplayTypeOK
    <3>2. f.pix \in {"yuv420p", "yuv444p10", "rgb", "codec"}
      BY VoutAssumption
    <3> QED BY <3>1, <3>2 DEF FormatFor, Formats
  <2> QED BY <1>0, <2>1, <2>3, <2>4 DEF DisplayInv, DisplayTypeOK, RouteInv, RepairedInv, PicturesDrawn, EglTakes, WindowTakes
<1>4. CASE SetNativeWindow
  <2>1. UNCHANGED <<overlayFormat, geometry, picture>> /\ drawn'.by = "nobody" /\ egl' = Terminated /\ outWindow' \in Windows \cup {NoWindow}
    BY <1>4 DEF SetNativeWindow, NotDrawn
  <2>2. IsSurface(egl') /\ ~egl'.valid
    BY <1>0, <2>1, TerminatedIs DEF DisplayTypeOK
  <2> QED BY <1>0, <2>1, <2>2 DEF DisplayInv, DisplayTypeOK, RouteInv, RepairedInv, PicturesDrawn
<1> QED BY <1>1, <1>2, <1>3, <1>4 DEF VoutNext

\* The inductive invariant of the display.
THEOREM DisplayInvHolds == VoutSpec => []DisplayInv
  BY DisplayStarts, DisplayStep, PTL DEF VoutSpec

\* A picture that is shown is shown as it was filled in, and a display repairs the window for the
\* next ones of the same picture, whatever failed before.
THEOREM PicturesDrawnHolds == VoutSpec => []PicturesDrawn
<1>1. DisplayInv => PicturesDrawn
  BY DEF DisplayInv
<1> QED BY <1>1, DisplayInvHolds, PTL
-----------------------------------------------------------------------------
(***************************************************************************)
(* HwDecoder: the inductive invariant.                                     *)
(***************************************************************************)
Codecs  == [dummy : BOOLEAN, serial : Nat, started : BOOLEAN, lent : SUBSET Outputs,
            inside : Int, fakes : Int, dummies : Int, abort : BOOLEAN, valid : BOOLEAN, refs : Int]
Handed  == [serial : Int, index : Int, fake : BOOLEAN]
FeedPlaces  == {"top", "get", "got", "lock", "check", "flush", "renew", "flushed", "surface", "lockAgain",
                "replace", "stop", "unhook", "create", "configure", "await", "input", "leave", "gone",
                "idle", "crashed"}
Feeds       == [pc : FeedPlaces, packet : {"none", "flush", "data", "resized"}]
DrainPlaces == {"top", "waits", "woken", "dequeue", "drained", "picture", "feeds", "join", "ending",
                "stop", "gone", "crashed"}

HwTypeOK ==
    /\ codecs \in Seq(Codecs) /\ serials \in Nat
    /\ acodec \in {None} \cup DOMAIN codecs /\ voutCodec \in {None} \cup DOMAIN codecs
    /\ pictures \in Seq(Handed) /\ frame \in Handed /\ kept \in Seq(Handed) /\ Len(kept) <= 1
    /\ feed \in Feeds
    /\ drain \in DrainPlaces /\ alone \in BOOLEAN /\ stopping \in BOOLEAN /\ orphaned \in BOOLEAN
    /\ needReconfigure \in BOOLEAN

\* The two threads never hold the codec at once: by the mutex, or because they take turns.
Section == {"check", "flush", "renew", "flushed", "replace", "stop", "unhook", "create", "configure"}
TurnsInv ==
    /\ IF alone THEN drain = "feeds" <=> feed.pc # "idle"
       ELSE /\ feed.pc \in Section => holder = "feed"
            /\ drain = "dequeue" => holder = "drain"
    /\ drain \in {"ending", "stop", "gone"} => feed.pc = IF alone THEN "idle" ELSE "gone"
    /\ drain \in {"join", "ending", "stop", "gone"} => stopping
    /\ drain \notin {"drained", "picture"} => frame = NoProxy

\* A surface that is set again, or not set at all, is marked before the window changes.
SurfaceInv == app.pc = "window" /\ app.surface = surface => orphaned

\* The node and the vout know one codec, unless it is being replaced; and they count.
CodecsInv ==
    /\ voutCodec # None => \/ voutCodec = acodec
                           \/ acodec = None /\ (feed.pc = "unhook" \/ drain = "gone")
    /\ feed.pc \in {"unhook", "create"} => acodec = None
    /\ feed.pc \in {"create", "configure"} => voutCodec = None
    /\ feed.pc \in {"flush", "renew", "stop", "configure"} \/ drain = "stop" => acodec # None
    /\ feed.pc = "configure" => ~Codec.started
    /\ acodec # None /\ voutCodec = acodec => Codec.started /\ Codec.refs = 2
    /\ acodec # None /\ voutCodec # acodec => Codec.refs = 1
    /\ voutCodec # None /\ voutCodec # acodec => codecs[voutCodec].refs = 1
    /\ acodec # None /\ voutCodec = None =>
          \/ needReconfigure \/ orphaned \/ stopping \/ ~Codec.started
          \/ feed.pc \in {"lockAgain", "replace", "stop"}
    /\ acodec # None =>
          /\ Codec.dummy => Codec.serial = 0 /\ Codec.lent = {} /\ Codec.inside = 0
          /\ ~Codec.dummy => 1 <= Codec.serial /\ Codec.serial <= serials
          /\ ~Codec.started => Codec.lent = {}

\* A proxy names a buffer of the codec that had that serial.
Names(p, s)  == p.index >= 0 /\ ~p.fake /\ p.serial = s
Unnamed(pics, fr, s) == (\A i \in 1 .. Len(pics) : ~Names(pics[i], s)) /\ ~Names(fr, s)
Unkept(kp, s) == \A i \in 1 .. Len(kp) : ~Names(kp[i], s)

SerialsInv ==
    /\ \A s \in Int : s > serials \/ s < 1 => Unnamed(pictures, frame, s) /\ Unkept(kept, s)
    /\ voutCodec # None /\ voutCodec # acodec =>
          Unnamed(pictures, frame, codecs[voutCodec].serial) /\ Unkept(kept, codecs[voutCodec].serial)
    /\ acodec # None /\ ~Codec.started =>
          Unnamed(pictures, frame, Codec.serial) /\ Unkept(kept, Codec.serial)
    /\ feed.pc \in {"flush", "renew", "stop"} \/ drain = "stop" =>
          Unnamed(pictures, frame, Codec.serial)
    /\ feed.pc = "renew" => Codec.lent = {}

\* Every proxy of the codec's serial names a buffer of its own that is lent ...
Owned(pics, fr, kp, s, lent) ==
    /\ \A i \in 1 .. Len(pics) : Names(pics[i], s) =>
          /\ pics[i].index \in lent
          /\ \A j \in 1 .. Len(pics) : Names(pics[j], s) /\ pics[j].index = pics[i].index => i = j
          /\ Names(fr, s) => fr.index # pics[i].index
          /\ \A j \in 1 .. Len(kp) : Names(kp[j], s) => kp[j].index # pics[i].index
    /\ Names(fr, s) => fr.index \in lent /\ \A j \in 1 .. Len(kp) : Names(kp[j], s) => kp[j].index # fr.index
    /\ \A j \in 1 .. Len(kp) : Names(kp[j], s) => kp[j].index \in lent

\* ... and every buffer that is lent has one.
InHand(pics, fr, kp, s, lent) ==
    \A b \in lent : \/ \E i \in 1 .. Len(pics) : Names(pics[i], s) /\ pics[i].index = b
                    \/ Names(fr, s) /\ fr.index = b
                    \/ \E j \in 1 .. Len(kp) : Names(kp[j], s) /\ kp[j].index = b

OwnedInv  == acodec # None /\ feed.pc # "renew" =>
    Owned(pictures, frame, kept, Codec.serial, Codec.lent)

MayLose == \/ stopping \/ orphaned \/ app.pc # "idle" \/ voutCodec # acodec
           \/ feed.pc \in {"flush", "lockAgain", "replace", "stop"}
InHandInv == acodec # None => MayLose \/ InHand(pictures, frame, kept, Codec.serial, Codec.lent)

HwInv == HwTypeOK /\ TurnsInv /\ SurfaceInv /\ CodecsInv /\ SerialsInv /\ OwnedInv /\ InHandInv

\* What a codec keeps when it is fed, faked or aborted.
Alike(c, d) ==
    /\ d \in Codecs
    /\ d.dummy = c.dummy /\ d.serial = c.serial /\ d.started = c.started /\ d.refs = c.refs
    /\ c.dummy => d.inside = c.inside

LEMMA CodecIs ==
    ASSUME HwTypeOK
    PROVE  /\ \A n \in DOMAIN codecs : codecs[n] \in Codecs /\ n # None
           /\ DOMAIN codecs = 1 .. Len(codecs) /\ Len(codecs) \in Nat
           /\ acodec # None => acodec \in DOMAIN codecs
           /\ voutCodec # None => voutCodec \in DOMAIN codecs
  BY DEF HwTypeOK, None

LEMMA FieldsOfCodec ==
    ASSUME NEW c \in Codecs
    PROVE  /\ c.dummy \in BOOLEAN /\ c.serial \in Nat /\ c.started \in BOOLEAN /\ c.lent \subseteq Outputs
           /\ c.inside \in Int /\ c.fakes \in Int /\ c.dummies \in Int
           /\ c.abort \in BOOLEAN /\ c.valid \in BOOLEAN /\ c.refs \in Int
  BY DEF Codecs

LEMMA FeedTyped == ASSUME HwTypeOK PROVE feed \in Feeds
  BY DEF HwTypeOK

LEMMA FeedIs ==
    ASSUME NEW x \in FeedPlaces, NEW y \in {"none", "flush", "data", "resized"}
    PROVE  [pc |-> x, packet |-> y] \in Feeds /\ [pc |-> x, packet |-> y].pc = x
  BY DEF Feeds

\* The codec puts another in its place.
LEMMA CodecPut ==
    ASSUME NEW cs \in Seq(Codecs), NEW n \in DOMAIN cs, NEW d \in Codecs
    PROVE  /\ [cs EXCEPT ![n] = d] \in Seq(Codecs) /\ DOMAIN [cs EXCEPT ![n] = d] = DOMAIN cs
           /\ [cs EXCEPT ![n] = d][n] = d
           /\ \A m \in DOMAIN cs : m # n => [cs EXCEPT ![n] = d][m] = cs[m]
  OBVIOUS

SameCodecs ==
    /\ codecs' \in Seq(Codecs) /\ DOMAIN codecs' = DOMAIN codecs
    /\ \A n \in DOMAIN codecs : Alike(codecs[n], codecs'[n])

LEMMA SameWhenPut ==
    ASSUME HwTypeOK, NEW n \in DOMAIN codecs, NEW d, Alike(codecs[n], d), codecs' = [codecs EXCEPT ![n] = d]
    PROVE  SameCodecs /\ codecs'[n] = d /\ \A m \in DOMAIN codecs : m # n => codecs'[m] = codecs[m]
<1>1. codecs \in Seq(Codecs) /\ d \in Codecs
  BY DEF HwTypeOK, Alike
<1>2. \A m \in DOMAIN codecs : Alike(codecs[m], codecs[m])
  BY CodecIs DEF Alike
<1> QED BY <1>1, <1>2, CodecPut DEF SameCodecs

LEMMA SameWhenUnchanged == ASSUME HwTypeOK, codecs' = codecs PROVE SameCodecs
  BY CodecIs DEF SameCodecs, Alike, HwTypeOK

\* A step that leaves the codecs with their serials and their places.
Steady ==
    /\ acodec' = acodec /\ voutCodec' = voutCodec /\ serials' = serials /\ SameCodecs
    /\ acodec # None => codecs'[acodec].lent \subseteq Codec.lent \/ (Codec.started /\ ~Codec.dummy)

\* Where the threads may go in such a step.
Moves ==
    /\ feed.pc = "unhook" <=> feed'.pc = "unhook"
    /\ feed'.pc \in {"create", "configure"} => voutCodec = None
    /\ feed'.pc = "create" => acodec = None
    /\ feed'.pc = "configure" => acodec # None /\ ~Codec.started
    /\ drain = "gone" => drain' = "gone"
    /\ feed'.pc \in {"flush", "renew", "stop"} \/ drain' = "stop" =>
          acodec # None /\ Unnamed(pictures', frame', Codec.serial)
    /\ feed'.pc = "renew" => codecs'[acodec].lent = {}
    /\ acodec # None /\ voutCodec = None =>
          \/ needReconfigure' \/ orphaned' \/ stopping' \/ ~Codec.started
          \/ feed'.pc \in {"lockAgain", "replace", "stop"}

\* No proxy gets a serial but that of the codec that lends a buffer.
NoNewNames ==
    \A s \in Int : Unnamed(pictures, frame, s) /\ Unkept(kept, s) =>
        \/ Unnamed(pictures', frame', s) /\ Unkept(kept', s)
        \/ acodec # None /\ Codec.started /\ ~Codec.dummy /\ s = Codec.serial

LEMMA SteadyKeeps ==
    ASSUME HwInv, HwTypeOK', TurnsInv', SurfaceInv', Steady, Moves, NoNewNames, OwnedInv', InHandInv'
    PROVE  HwInv'
<1>1. HwTypeOK /\ CodecsInv /\ SerialsInv
  BY DEF HwInv
<1>2. acodec # None => Alike(Codec, codecs'[acodec]) /\ Codec \in Codecs
  BY <1>1, CodecIs DEF Steady, SameCodecs, Codec
<1>3. voutCodec # None => Alike(codecs[voutCodec], codecs'[voutCodec]) /\ codecs[voutCodec] \in Codecs
  BY <1>1, CodecIs DEF Steady, SameCodecs
<1>4. acodec # None => /\ Codec'.dummy = Codec.dummy /\ Codec'.serial = Codec.serial
                       /\ Codec'.started = Codec.started /\ Codec'.refs = Codec.refs
                       /\ (Codec.dummy => Codec'.inside = Codec.inside)
                       /\ Codec'.lent = codecs'[acodec].lent
                       /\ Codec.dummy \in BOOLEAN /\ Codec.started \in BOOLEAN /\ Codec.serial \in Nat
  BY <1>2, FieldsOfCodec DEF Steady, Codec, Alike
<1>5. voutCodec # None => /\ codecs'[voutCodec'].serial = codecs[voutCodec].serial
                          /\ codecs'[voutCodec'].refs = codecs[voutCodec].refs
                          /\ codecs[voutCodec].serial \in Nat
  BY <1>3, FieldsOfCodec DEF Steady, Alike
<1>6. acodec' = acodec /\ voutCodec' = voutCodec /\ serials' = serials
  BY DEF Steady
<1>7. CodecsInv'
  <2>1. /\ voutCodec # None => \/ voutCodec = acodec
                               \/ acodec = None /\ (feed'.pc = "unhook" \/ drain' = "gone")
        /\ feed'.pc \in {"unhook", "create"} => acodec = None
        /\ feed'.pc \in {"create", "configure"} => voutCodec = None
        /\ feed'.pc \in {"flush", "renew", "stop", "configure"} \/ drain' = "stop" => acodec # None
    BY <1>1 DEF CodecsInv, Moves
  <2>2. /\ feed'.pc = "configure" => ~Codec'.started
        /\ acodec # None /\ voutCodec = acodec => Codec'.started /\ Codec'.refs = 2
        /\ acodec # None /\ voutCodec # acodec => Codec'.refs = 1
        /\ voutCodec # None /\ voutCodec # acodec => codecs'[voutCodec'].refs = 1
    BY <1>1, <1>4, <1>5 DEF CodecsInv, Moves
  <2>3. acodec # None /\ voutCodec = None =>
          \/ needReconfigure' \/ orphaned' \/ stopping' \/ ~Codec'.started
          \/ feed'.pc \in {"lockAgain", "replace", "stop"}
    BY <1>4 DEF Moves
  <2>4. acodec # None =>
          /\ Codec'.dummy => Codec'.serial = 0 /\ Codec'.lent = {} /\ Codec'.inside = 0
          /\ ~Codec'.dummy => 1 <= Codec'.serial /\ Codec'.serial <= serials
          /\ ~Codec'.started => Codec'.lent = {}
    BY <1>1, <1>4 DEF CodecsInv, Steady
  <2> QED BY <1>6, <2>1, <2>2, <2>3, <2>4 DEF CodecsInv
<1>8. SerialsInv'
  <2>0. serials \in Nat
    BY <1>1 DEF HwTypeOK
  <2>1. \A s \in Int : s > serials \/ s < 1 => Unnamed(pictures', frame', s) /\ Unkept(kept', s)
    <3> SUFFICES ASSUME NEW s \in Int, s > serials \/ s < 1
                 PROVE  Unnamed(pictures', frame', s) /\ Unkept(kept', s)
      OBVIOUS
    <3>1. Unnamed(pictures, frame, s) /\ Unkept(kept, s)
      BY <1>1 DEF SerialsInv
    <3>2. acodec # None /\ ~Codec.dummy => 1 <= Codec.serial /\ Codec.serial <= serials
      BY <1>1 DEF CodecsInv
    <3>3. acodec # None /\ ~Codec.dummy => s # Codec.serial
      BY <2>0, <3>2, <1>4
    <3> QED BY <3>1, <3>3 DEF NoNewNames
  <2>2. voutCodec # None /\ voutCodec # acodec =>
          /\ Unnamed(pictures', frame', codecs'[voutCodec'].serial)
          /\ Unkept(kept', codecs'[voutCodec'].serial)
    <3> SUFFICES ASSUME voutCodec # None, voutCodec # acodec
                 PROVE  /\ Unnamed(pictures', frame', codecs[voutCodec].serial)
                        /\ Unkept(kept', codecs[voutCodec].serial)
      BY <1>5
    <3>1. acodec = None
      BY <1>1 DEF CodecsInv
    <3>2. /\ Unnamed(pictures, frame, codecs[voutCodec].serial) /\ Unkept(kept, codecs[voutCodec].serial)
          /\ codecs[voutCodec].serial \in Int
      BY <1>1, <1>5 DEF SerialsInv
    <3> QED BY <3>1, <3>2 DEF NoNewNames
  <2>3. acodec # None /\ ~Codec'.started =>
          Unnamed(pictures', frame', Codec'.serial) /\ Unkept(kept', Codec'.serial)
    <3> SUFFICES ASSUME acodec # None, ~Codec.started
                 PROVE  Unnamed(pictures', frame', Codec.serial) /\ Unkept(kept', Codec.serial)
      BY <1>4
    <3>1. Unnamed(pictures, frame, Codec.serial) /\ Unkept(kept, Codec.serial) /\ Codec.serial \in Int
      BY <1>1, <1>4 DEF SerialsInv
    <3> QED BY <3>1 DEF NoNewNames
  <2>4. feed'.pc \in {"flush", "renew", "stop"} \/ drain' = "stop" =>
          Unnamed(pictures', frame', Codec'.serial)
    BY <1>4 DEF Moves
  <2>5. feed'.pc = "renew" => Codec'.lent = {}
    BY <1>4 DEF Moves
  <2> QED BY <1>6, <2>1, <2>2, <2>3, <2>4, <2>5 DEF SerialsInv
<1> QED BY <1>7, <1>8 DEF HwInv


LEMMA ReturnsIs ==
    ASSUME HwTypeOK, Returns
    PROVE  /\ feed' \in Feeds /\ drain' \in DrainPlaces
           /\ alone => feed'.pc = "idle" /\ drain' = "top"
           /\ ~alone => feed'.pc = "top" /\ drain' = drain
<1>1. CASE alone
  BY <1>1, FeedTyped DEF Returns, At, Feeds, FeedPlaces, DrainPlaces
<1>2. CASE ~alone
  BY <1>2, FeedTyped DEF Returns, At, Feeds, FeedPlaces, DrainPlaces, HwTypeOK
<1> QED BY <1>1, <1>2

LEMMA FailsIs ==
    ASSUME HwTypeOK, Fails
    PROVE  /\ feed' \in Feeds /\ drain' \in DrainPlaces
           /\ alone => feed'.pc = "idle" /\ drain' = "top"
           /\ ~alone => feed'.pc = "leave" /\ drain' = drain
<1>1. CASE alone
  BY <1>1, FeedTyped DEF Fails, At, Feeds, FeedPlaces, DrainPlaces
<1>2. CASE ~alone
  BY <1>2, FeedTyped DEF Fails, At, Feeds, FeedPlaces, DrainPlaces, HwTypeOK
<1> QED BY <1>1, <1>2

\* A step that leaves the buffers to those who have them, and the codecs nearly as they are.
QuietData ==
    /\ acodec' = acodec /\ voutCodec' = voutCodec /\ serials' = serials
    /\ SameCodecs /\ (acodec # None => codecs'[acodec].lent = Codec.lent)
    /\ pictures' = pictures /\ frame' = frame /\ kept' = kept /\ alone' = alone
    /\ feed' \in Feeds /\ drain' \in DrainPlaces
    /\ stopping' \in BOOLEAN /\ orphaned' \in BOOLEAN /\ needReconfigure' \in BOOLEAN

QuietMoves ==
    /\ \/ feed'.pc = feed.pc
       \/ feed.pc \notin {"renew", "unhook"}
          /\ feed'.pc \notin {"flush", "renew", "stop", "unhook", "create", "configure"}
    /\ drain' = drain \/ (drain # "gone" /\ drain' # "stop")
    /\ acodec # None /\ voutCodec = None =>
          \/ needReconfigure' \/ orphaned' \/ stopping' \/ ~Codec.started
          \/ feed'.pc \in {"lockAgain", "replace", "stop"}
    /\ acodec # None /\ MayLose => MayLose'

LEMMA QuietKeeps ==
    ASSUME HwInv, QuietData, QuietMoves, TurnsInv', SurfaceInv'
    PROVE  HwInv'
<1>1. HwTypeOK /\ CodecsInv /\ SerialsInv /\ OwnedInv /\ InHandInv
  BY DEF HwInv
<1>2. HwTypeOK'
  BY <1>1 DEF HwTypeOK, QuietData, SameCodecs, Feeds
<1>3. Steady /\ acodec' = acodec /\ voutCodec' = voutCodec /\ pictures' = pictures /\ frame' = frame /\ kept' = kept
  BY DEF Steady, QuietData
<1>4. acodec # None => Codec'.serial = Codec.serial /\ Codec'.lent = Codec.lent /\ codecs'[acodec].lent = Codec.lent
  BY <1>1, CodecIs DEF QuietData, SameCodecs, Alike, Codec
<1>5. Moves
  <2>1. /\ feed.pc = "unhook" <=> feed'.pc = "unhook"
        /\ feed'.pc \in {"flush", "renew", "stop", "unhook", "create", "configure"} => feed'.pc = feed.pc
    BY DEF QuietMoves
  <2>2. /\ feed'.pc \in {"create", "configure"} => voutCodec = None
        /\ feed'.pc = "create" => acodec = None
        /\ feed'.pc = "configure" => acodec # None /\ ~Codec.started
    BY <1>1, <2>1 DEF CodecsInv
  <2>3. drain' = "stop" => drain = "stop"
    BY DEF QuietMoves
  <2>4. feed'.pc \in {"flush", "renew", "stop"} \/ drain' = "stop" =>
          acodec # None /\ Unnamed(pictures', frame', Codec.serial)
    BY <1>1, <1>3, <2>1, <2>3 DEF CodecsInv, SerialsInv
  <2>5. feed'.pc = "renew" => codecs'[acodec].lent = {}
    BY <1>1, <1>4, <2>1 DEF SerialsInv, CodecsInv
  <2> QED BY <2>1, <2>2, <2>4, <2>5 DEF Moves, QuietMoves
<1>6. NoNewNames
  BY <1>3 DEF NoNewNames
<1>7. OwnedInv'
  BY <1>1, <1>3, <1>4 DEF OwnedInv, QuietMoves
<1>8. InHandInv'
  BY <1>1, <1>3, <1>4 DEF InHandInv, QuietMoves
<1> QED BY <1>2, <1>3, <1>5, <1>6, <1>7, <1>8, SteadyKeeps

\* The flags stay or are raised, and the feeding thread is not where it may lose buffers.
LEMMA MovesOn ==
    ASSUME HwInv, QuietData, app' = app,
           needReconfigure => needReconfigure', orphaned => orphaned', stopping => stopping',
           drain' = drain \/ (drain # "gone" /\ drain' # "stop"),
           \/ feed'.pc = feed.pc
           \/ feed.pc = "lockAgain" /\ feed'.pc = "replace"
           \/ feed.pc \notin {"flush", "renew", "stop", "unhook", "lockAgain", "replace"}
              /\ feed'.pc \notin {"flush", "renew", "stop", "unhook", "create", "configure"}
    PROVE  QuietMoves
<1>1. CodecsInv
  BY DEF HwInv
<1>2. acodec # None /\ voutCodec = None =>
          \/ needReconfigure' \/ orphaned' \/ stopping' \/ ~Codec.started
          \/ feed'.pc \in {"lockAgain", "replace", "stop"}
  BY <1>1 DEF CodecsInv
<1>3. acodec # None /\ MayLose => MayLose'
  BY DEF MayLose, QuietData
<1> QED BY <1>2, <1>3 DEF QuietMoves

LEMMA QuietCodecs ==
    ASSUME HwInv, codecVars' = codecVars, buffers' = buffers
    PROVE  /\ acodec' = acodec /\ voutCodec' = voutCodec /\ serials' = serials /\ codecs' = codecs
           /\ SameCodecs /\ (acodec # None => codecs'[acodec].lent = Codec.lent)
           /\ pictures' = pictures /\ frame' = frame /\ kept' = kept
  BY SameWhenUnchanged DEF codecVars, buffers, HwInv, Codec

\* What a step of a thread may do that only moves it.
Walks ==
    /\ codecVars' = codecVars /\ buffers' = buffers /\ alone' = alone /\ app' = app /\ surface' = surface
    /\ feed' \in Feeds /\ drain' \in DrainPlaces
    /\ needReconfigure' \in BOOLEAN /\ (needReconfigure => needReconfigure')
    /\ orphaned' \in BOOLEAN /\ (orphaned => orphaned')
    /\ stopping' \in BOOLEAN /\ (stopping => stopping')
    /\ drain' = drain \/ (drain # "gone" /\ drain' # "stop")
    /\ \/ feed'.pc = feed.pc
       \/ feed.pc = "lockAgain" /\ feed'.pc = "replace"
       \/ feed.pc \notin {"flush", "renew", "stop", "unhook", "lockAgain", "replace"}
          /\ feed'.pc \notin {"flush", "renew", "stop", "unhook", "create", "configure"}

LEMMA WalkKeeps == ASSUME HwInv, Walks, TurnsInv' PROVE HwInv'
<1>1. QuietData
  BY QuietCodecs DEF Walks, QuietData
<1>2. QuietMoves
  BY <1>1, MovesOn DEF Walks
<1>3. SurfaceInv'
  BY DEF Walks, HwInv, SurfaceInv
<1> QED BY <1>1, <1>2, <1>3, QuietKeeps

LEMMA HwTyped ==
    ASSUME HwInv
    PROVE  /\ HwTypeOK /\ TurnsInv /\ SurfaceInv /\ CodecsInv
           /\ feed \in Feeds /\ feed.pc \in FeedPlaces /\ drain \in DrainPlaces /\ alone \in BOOLEAN
           /\ stopping \in BOOLEAN /\ orphaned \in BOOLEAN /\ needReconfigure \in BOOLEAN
  BY DEF HwInv, HwTypeOK, Feeds

LEMMA KeepsIs ==
    ASSUME HwInv, Keeps
    PROVE  /\ feed' \in Feeds /\ feed'.pc \in {"get", "surface"}
           /\ needReconfigure' \in BOOLEAN /\ (needReconfigure => needReconfigure')
<1>1. CASE feed.packet = "flush" \/ flushQueued
  BY <1>1, HwTyped DEF Keeps, At, Feeds, FeedPlaces
<1>2. CASE ~(feed.packet = "flush" \/ flushQueued)
  <2>1. feed' = [pc |-> "surface", packet |-> "none"] /\ needReconfigure' = (needReconfigure \/ feed.packet = "resized")
    BY <1>2 DEF Keeps
  <2>2. needReconfigure' \in BOOLEAN /\ (needReconfigure => needReconfigure')
    BY <2>1, Zenon
  <2> QED BY <2>1, <2>2 DEF Feeds, FeedPlaces
<1> QED BY <1>1, <1>2

-----------------------------------------------------------------------------
(* The feeding thread's steps that only move it. *)

LEMMA FeedStopsKeeps == ASSUME HwInv, FeedStops PROVE HwInv'
<1>1. /\ codecVars' = codecVars /\ buffers' = buffers /\ feed.pc \in {"top", "get"} /\ stopping
      /\ UNCHANGED <<needReconfigure, app, surface, stopping, orphaned, alone, holder>>
  BY DEF FeedStops, surfaceVars, fixed
<1>2. /\ feed' \in Feeds /\ drain' \in DrainPlaces
      /\ alone => feed'.pc = "idle" /\ drain' = "top"
      /\ ~alone => feed'.pc \in {"top", "leave"} /\ drain' = drain
  BY HwTyped, ReturnsIs, FailsIs DEF FeedStops, At, Feeds, FeedPlaces
<1>3. Walks
  BY <1>1, <1>2, HwTyped DEF Walks, TurnsInv
<1>4. TurnsInv'
  BY <1>1, <1>2, HwTyped DEF TurnsInv, Section, buffers
<1> QED BY <1>3, <1>4, WalkKeeps


LEMMA FeedGetsKeeps == ASSUME HwInv, FeedGets PROVE HwInv'
<1>1. /\ codecVars' = codecVars /\ buffers' = buffers
      /\ feed.pc \in {"top", "get"} /\ UNCHANGED <<needReconfigure, app, surface, stopping, orphaned, alone, holder>>
  BY DEF FeedGets, surfaceVars, fixed
<1>2. /\ feed' \in Feeds /\ drain' \in DrainPlaces
      /\ feed'.pc = "got" /\ drain' = drain
  BY HwTyped, ReturnsIs, FailsIs DEF FeedGets, At, Feeds, FeedPlaces, DrainPlaces
<1>3. Walks
  BY <1>1, <1>2, HwTyped DEF Walks, TurnsInv
<1>4. TurnsInv'
  BY <1>1, <1>2, HwTyped DEF TurnsInv, Section, buffers
<1> QED BY <1>3, <1>4, WalkKeeps

LEMMA FeedResumesKeeps == ASSUME HwInv, FeedResumes PROVE HwInv'
<1>1. /\ codecVars' = codecVars /\ buffers' = buffers
      /\ feed.pc = "top" /\ UNCHANGED <<needReconfigure, app, surface, stopping, orphaned, alone, holder>>
  BY DEF FeedResumes, surfaceVars, fixed
<1>2. /\ feed' \in Feeds /\ drain' \in DrainPlaces
      /\ feed'.pc = "surface" /\ drain' = drain
  BY HwTyped, ReturnsIs, FailsIs DEF FeedResumes, At, Feeds, FeedPlaces, DrainPlaces
<1>3. Walks
  BY <1>1, <1>2, HwTyped DEF Walks, TurnsInv
<1>4. TurnsInv'
  BY <1>1, <1>2, HwTyped DEF TurnsInv, Section, buffers
<1> QED BY <1>3, <1>4, WalkKeeps

LEMMA FeedCannotFollowKeeps == ASSUME HwInv, FeedCannotFollow PROVE HwInv'
<1>1. /\ codecVars' = codecVars /\ buffers' = buffers
      /\ feed.pc = "got" /\ UNCHANGED <<needReconfigure, app, surface, stopping, orphaned, alone, holder>>
  BY DEF FeedCannotFollow, surfaceVars, fixed
<1>2. /\ feed' \in Feeds /\ drain' \in DrainPlaces
      /\ alone => feed'.pc = "idle" /\ drain' = "top"
      /\ ~alone => feed'.pc = "leave" /\ drain' = drain
  BY HwTyped, ReturnsIs, FailsIs DEF FeedCannotFollow, At, Feeds, FeedPlaces, DrainPlaces
<1>3. Walks
  BY <1>1, <1>2, HwTyped DEF Walks, TurnsInv
<1>4. TurnsInv'
  BY <1>1, <1>2, HwTyped DEF TurnsInv, Section, buffers
<1> QED BY <1>3, <1>4, WalkKeeps

LEMMA FeedKeepsKeeps == ASSUME HwInv, FeedKeeps PROVE HwInv'
<1>1. /\ codecVars' = codecVars /\ buffers' = buffers
      /\ feed.pc = "got"
      /\ UNCHANGED <<app, surface, stopping, orphaned, alone, holder>>
      /\ needReconfigure' \in BOOLEAN /\ (needReconfigure => needReconfigure')
  BY KeepsIs DEF FeedKeeps, surfaceVars, fixed
<1>2. /\ feed' \in Feeds /\ drain' \in DrainPlaces
      /\ feed'.pc \in {"get", "surface"} /\ drain' = drain
  BY HwTyped, KeepsIs DEF FeedKeeps, DrainPlaces
<1>3. Walks
  BY <1>1, <1>2, HwTyped DEF Walks, TurnsInv
<1>4. TurnsInv'
  BY <1>1, <1>2, HwTyped DEF TurnsInv, Section, buffers
<1> QED BY <1>3, <1>4, WalkKeeps

LEMMA FeedAsksToFlushKeeps == ASSUME HwInv, FeedAsksToFlush PROVE HwInv'
<1>1. /\ codecVars' = codecVars /\ buffers' = buffers
      /\ feed.pc = "got" /\ UNCHANGED <<needReconfigure, app, surface, stopping, orphaned, alone, holder>>
  BY DEF FeedAsksToFlush, surfaceVars, fixed
<1>2. /\ feed' \in Feeds /\ drain' \in DrainPlaces
      /\ feed'.pc = (IF alone THEN "check" ELSE "lock") /\ drain' = drain
  BY HwTyped, ReturnsIs, FailsIs DEF FeedAsksToFlush, At, Feeds, FeedPlaces, DrainPlaces
<1>3. Walks
  BY <1>1, <1>2, HwTyped DEF Walks, TurnsInv
<1>4. TurnsInv'
  BY <1>1, <1>2, HwTyped DEF TurnsInv, Section, buffers
<1> QED BY <1>3, <1>4, WalkKeeps

LEMMA FeedLocksKeeps == ASSUME HwInv, FeedLocks PROVE HwInv'
<1>1. /\ codecVars' = codecVars /\ buffers' = buffers
      /\ feed.pc \in {"lock", "lockAgain"} /\ holder = "none" /\ holder' = "feed"
      /\ UNCHANGED <<needReconfigure, app, surface, stopping, orphaned, alone>>
  BY DEF FeedLocks, surfaceVars, fixed
<1>2. /\ feed' \in Feeds /\ drain' \in DrainPlaces
      /\ feed'.pc = (IF feed.pc = "lock" THEN "check" ELSE "replace") /\ drain' = drain
  BY HwTyped, ReturnsIs, FailsIs DEF FeedLocks, At, Feeds, FeedPlaces, DrainPlaces
<1>3. Walks
  BY <1>1, <1>2, HwTyped DEF Walks, TurnsInv
<1>4. TurnsInv'
  BY <1>1, <1>2, HwTyped DEF TurnsInv, Section, buffers
<1> QED BY <1>3, <1>4, WalkKeeps

LEMMA FeedFlushedKeeps == ASSUME HwInv, FeedFlushed PROVE HwInv'
<1>1. /\ codecVars' = codecVars /\ buffers' = buffers
      /\ feed.pc = "flushed" /\ holder' = "none" /\ UNCHANGED <<app, surface, stopping, orphaned, alone>>
      /\ needReconfigure' \in BOOLEAN /\ (needReconfigure => needReconfigure')
  BY KeepsIs DEF FeedFlushed, surfaceVars, fixed
<1>2. /\ feed' \in Feeds /\ drain' \in DrainPlaces
      /\ feed'.pc \in {"get", "surface"} /\ drain' = (IF drain = "waits" THEN "woken" ELSE drain)
  BY HwTyped, KeepsIs DEF FeedFlushed, DrainPlaces, Wakes
<1>3. Walks
  BY <1>1, <1>2, HwTyped DEF Walks, TurnsInv
<1>4. TurnsInv'
  BY <1>1, <1>2, HwTyped DEF TurnsInv, Section, buffers
<1> QED BY <1>3, <1>4, WalkKeeps

LEMMA FeedAwaitsKeeps == ASSUME HwInv, FeedAwaits PROVE HwInv'
<1>1. /\ codecVars' = codecVars /\ buffers' = buffers
      /\ feed.pc = "await" /\ UNCHANGED <<needReconfigure, app, surface, stopping, orphaned, alone, holder>>
  BY DEF FeedAwaits, surfaceVars, fixed
<1>2. /\ feed' \in Feeds /\ drain' \in DrainPlaces
      /\ \/ feed'.pc = "input" /\ drain' = drain
         \/ alone /\ feed'.pc = "idle" /\ drain' = "top"
         \/ ~alone /\ feed'.pc = "top" /\ drain' = drain
  <2>1. CASE stopping \/ flushRequest
    <3>1. Returns
      BY <2>1, Zenon DEF FeedAwaits
    <3> QED BY <3>1, ReturnsIs, HwTyped
  <2>2. CASE ~(stopping \/ flushRequest)
    <3>1. At("input") /\ drain' = drain
      BY <2>2, Zenon DEF FeedAwaits
    <3> QED BY <3>1, HwTyped DEF At, Feeds, FeedPlaces
  <2> QED BY <2>1, <2>2
<1>3. Walks
  BY <1>1, <1>2, HwTyped DEF Walks, TurnsInv
<1>4. TurnsInv'
  BY <1>1, <1>2, HwTyped DEF TurnsInv, Section, buffers
<1> QED BY <1>3, <1>4, WalkKeeps

LEMMA FeedTimesOutKeeps == ASSUME HwInv, FeedTimesOut PROVE HwInv'
<1>1. /\ codecVars' = codecVars /\ buffers' = buffers
      /\ feed.pc = "input" /\ UNCHANGED <<needReconfigure, app, surface, stopping, orphaned, alone, holder>>
  BY DEF FeedTimesOut, surfaceVars, fixed, Usable
<1>2. /\ feed' \in Feeds /\ drain' \in DrainPlaces
      /\ alone => feed'.pc = "idle" /\ drain' = "top"
      /\ ~alone => feed'.pc = "top" /\ drain' = drain
  BY HwTyped, ReturnsIs, FailsIs DEF FeedTimesOut, At, Feeds, FeedPlaces, DrainPlaces
<1>3. Walks
  BY <1>1, <1>2, HwTyped DEF Walks, TurnsInv
<1>4. TurnsInv'
  BY <1>1, <1>2, HwTyped DEF TurnsInv, Section, buffers
<1> QED BY <1>3, <1>4, WalkKeeps

LEMMA FeedCrashesKeeps == ASSUME HwInv, FeedCrashes PROVE HwInv'
<1>1. /\ codecVars' = codecVars /\ buffers' = buffers
      /\ feed.pc \in {"input", "leave"} /\ UNCHANGED <<needReconfigure, app, surface, stopping, orphaned, alone, holder>>
  BY DEF FeedCrashes, surfaceVars, fixed
<1>2. /\ feed' \in Feeds /\ drain' \in DrainPlaces
      /\ feed'.pc = "crashed" /\ drain' = drain
  BY HwTyped, ReturnsIs, FailsIs DEF FeedCrashes, At, Feeds, FeedPlaces, DrainPlaces
<1>3. Walks
  BY <1>1, <1>2, HwTyped DEF Walks, TurnsInv
<1>4. TurnsInv'
  BY <1>1, <1>2, HwTyped DEF TurnsInv, Section, buffers
<1> QED BY <1>3, <1>4, WalkKeeps

LEMMA DrainLocksKeeps == ASSUME HwInv, DrainLocks PROVE HwInv'
<1>1. /\ codecVars' = codecVars /\ buffers' = buffers
      /\ drain = "top" /\ ~alone /\ feed' = feed /\ UNCHANGED <<needReconfigure, app, surface, stopping, orphaned, alone>>
      /\ drain' = "dequeue" => holder = "none" /\ holder' = "drain"
      /\ drain' # "dequeue" => holder' = holder
  BY DEF DrainLocks, surfaceVars, fixed
<1>2. /\ feed' \in Feeds /\ drain' \in DrainPlaces
      /\ drain' \in {"waits", "dequeue"}
  BY HwTyped, ReturnsIs, FailsIs DEF DrainLocks, At, Feeds, FeedPlaces, DrainPlaces
<1>3. Walks
  BY <1>1, <1>2, HwTyped DEF Walks, TurnsInv
<1>4. TurnsInv'
  BY <1>1, <1>2, HwTyped DEF TurnsInv, Section, buffers
<1> QED BY <1>3, <1>4, WalkKeeps

LEMMA DrainWakesKeeps == ASSUME HwInv, DrainWakes PROVE HwInv'
<1>1. /\ codecVars' = codecVars /\ buffers' = buffers
      /\ drain \in {"woken", "waits"} /\ holder = "none" /\ holder' = "drain"
      /\ feed' = feed /\ UNCHANGED <<needReconfigure, app, surface, stopping, orphaned, alone>>
  BY DEF DrainWakes, surfaceVars, fixed
<1>2. /\ feed' \in Feeds /\ drain' \in DrainPlaces
      /\ drain' = "dequeue"
  BY HwTyped, ReturnsIs, FailsIs DEF DrainWakes, At, Feeds, FeedPlaces, DrainPlaces
<1>3. Walks
  BY <1>1, <1>2, HwTyped DEF Walks, TurnsInv
<1>4. TurnsInv'
  BY <1>1, <1>2, HwTyped DEF TurnsInv, Section, buffers
<1> QED BY <1>3, <1>4, WalkKeeps

LEMMA LoopStartsKeeps == ASSUME HwInv, LoopStarts PROVE HwInv'
<1>1. /\ codecVars' = codecVars /\ buffers' = buffers
      /\ drain = "top" /\ alone /\ feed' = feed /\ UNCHANGED <<needReconfigure, app, surface, stopping, orphaned, alone, holder>>
  BY DEF LoopStarts, surfaceVars, fixed
<1>2. /\ feed' \in Feeds /\ drain' \in DrainPlaces
      /\ drain' = "dequeue"
  BY HwTyped, ReturnsIs, FailsIs DEF LoopStarts, At, Feeds, FeedPlaces, DrainPlaces
<1>3. Walks
  BY <1>1, <1>2, HwTyped DEF Walks, TurnsInv
<1>4. TurnsInv'
  BY <1>1, <1>2, HwTyped DEF TurnsInv, Section, buffers
<1> QED BY <1>3, <1>4, WalkKeeps

LEMMA DrainCrashesKeeps == ASSUME HwInv, DrainCrashes PROVE HwInv'
<1>1. /\ codecVars' = codecVars /\ buffers' = buffers
      /\ drain \in {"dequeue", "ending"} /\ feed' = feed /\ UNCHANGED <<needReconfigure, app, surface, stopping, orphaned, alone, holder>>
  BY DEF DrainCrashes, surfaceVars, fixed
<1>2. /\ feed' \in Feeds /\ drain' \in DrainPlaces
      /\ drain' = "crashed"
  BY HwTyped, ReturnsIs, FailsIs DEF DrainCrashes, At, Feeds, FeedPlaces, DrainPlaces
<1>3. Walks
  BY <1>1, <1>2, HwTyped DEF Walks, TurnsInv
<1>4. TurnsInv'
  BY <1>1, <1>2, HwTyped DEF TurnsInv, Section, buffers
<1> QED BY <1>3, <1>4, WalkKeeps

LEMMA DrainStopsKeeps == ASSUME HwInv, DrainStops PROVE HwInv'
<1>1. /\ codecVars' = codecVars /\ buffers' = buffers
      /\ drain = "top" /\ stopping /\ feed' = feed /\ UNCHANGED <<needReconfigure, app, surface, stopping, orphaned, alone, holder>>
  BY DEF DrainStops, surfaceVars, fixed
<1>2. /\ feed' \in Feeds /\ drain' \in DrainPlaces
      /\ drain' = IF alone THEN "ending" ELSE "join"
  BY HwTyped, ReturnsIs, FailsIs DEF DrainStops, At, Feeds, FeedPlaces, DrainPlaces
<1>3. Walks
  BY <1>1, <1>2, HwTyped DEF Walks, TurnsInv
<1>4. TurnsInv'
  BY <1>1, <1>2, HwTyped DEF TurnsInv, Section, buffers
<1> QED BY <1>3, <1>4, WalkKeeps

LEMMA DrainJoinsKeeps == ASSUME HwInv, DrainJoins PROVE HwInv'
<1>1. /\ codecVars' = codecVars /\ buffers' = buffers
      /\ drain = "join" /\ feed.pc = "gone" /\ feed' = feed /\ UNCHANGED <<needReconfigure, app, surface, stopping, orphaned, alone, holder>>
  BY DEF DrainJoins, surfaceVars, fixed
<1>2. /\ feed' \in Feeds /\ drain' \in DrainPlaces
      /\ drain' = "ending"
  BY HwTyped, ReturnsIs, FailsIs DEF DrainJoins, At, Feeds, FeedPlaces, DrainPlaces
<1>3. Walks
  BY <1>1, <1>2, HwTyped DEF Walks, TurnsInv
<1>4. TurnsInv'
  BY <1>1, <1>2, HwTyped DEF TurnsInv, Section, buffers
<1> QED BY <1>3, <1>4, WalkKeeps

LEMMA SeekFlushesKeeps == ASSUME HwInv, SeekFlushes PROVE HwInv'
<1>1. /\ codecVars' = codecVars /\ buffers' = buffers
      /\ UNCHANGED <<needReconfigure, app, surface, stopping, orphaned, alone, holder>>
      /\ feed' = feed /\ drain' = drain
  BY DEF SeekFlushes, surfaceVars, fixed, threads
<1>2. /\ feed' \in Feeds /\ drain' \in DrainPlaces
      /\ feed' = feed /\ drain' = drain
  BY <1>1, HwTyped
<1>3. Walks
  BY <1>1, <1>2, HwTyped DEF Walks, TurnsInv
<1>4. TurnsInv'
  BY <1>1, <1>2, HwTyped DEF TurnsInv, Section, buffers
<1> QED BY <1>3, <1>4, WalkKeeps

LEMMA SeekQueuesKeeps == ASSUME HwInv, SeekQueues PROVE HwInv'
<1>1. /\ codecVars' = codecVars /\ buffers' = buffers
      /\ UNCHANGED <<needReconfigure, app, surface, stopping, orphaned, alone, holder>>
      /\ feed' = feed /\ drain' = drain
  BY DEF SeekQueues, surfaceVars, fixed, threads
<1>2. /\ feed' \in Feeds /\ drain' \in DrainPlaces
      /\ feed' = feed /\ drain' = drain
  BY <1>1, HwTyped
<1>3. Walks
  BY <1>1, <1>2, HwTyped DEF Walks, TurnsInv
<1>4. TurnsInv'
  BY <1>1, <1>2, HwTyped DEF TurnsInv, Section, buffers
<1> QED BY <1>3, <1>4, WalkKeeps

LEMMA StopsKeeps == ASSUME HwInv, Stops PROVE HwInv'
<1>1. /\ codecVars' = codecVars /\ buffers' = buffers
      /\ stopping' /\ stopping' \in BOOLEAN /\ UNCHANGED <<needReconfigure, app, surface, orphaned, alone, holder>>
      /\ feed' = feed /\ drain' = drain
  BY DEF Stops, surfaceVars, fixed, threads
<1>2. /\ feed' \in Feeds /\ drain' \in DrainPlaces
      /\ feed' = feed /\ drain' = drain
  BY <1>1, HwTyped
<1>3. Walks
  BY <1>1, <1>2, HwTyped DEF Walks, TurnsInv
<1>4. TurnsInv'
  BY <1>1, <1>2, HwTyped DEF TurnsInv, Section, buffers
<1> QED BY <1>3, <1>4, WalkKeeps


\* The flag that asks for another codec is taken down, or the codec is given up.
LEMMA TakesDown ==
    ASSUME HwInv, codecVars' = codecVars, buffers' = buffers,
           UNCHANGED <<app, surface, stopping, alone>>,
           feed' \in Feeds, drain' \in DrainPlaces, drain' = drain \/ (drain # "gone" /\ drain' # "stop"),
           needReconfigure' \in BOOLEAN, orphaned' \in BOOLEAN, orphaned => orphaned',
           feed.pc \in {"surface", "create", "configure"},
           feed'.pc \notin {"flush", "renew", "stop", "unhook", "create", "configure"},
           \/ feed.pc = "surface" /\ feed'.pc \in {"lockAgain", "replace"}
           \/ feed.pc = "surface" /\ (needReconfigure /\ voutCodec # acodec => orphaned')
           \/ stopping \/ feed.pc \in {"create", "configure"},
           TurnsInv'
    PROVE  HwInv'
<1>1. QuietData
  BY QuietCodecs, HwTyped DEF QuietData
<1>2. /\ acodec # None /\ voutCodec = None =>
           needReconfigure \/ orphaned \/ stopping \/ ~Codec.started \/ feed.pc \in {"lockAgain", "replace", "stop"}
      /\ feed.pc = "create" => acodec = None
      /\ feed.pc = "configure" => acodec # None /\ voutCodec = None /\ ~Codec.started
  BY HwTyped DEF CodecsInv
<1>3. acodec # None /\ voutCodec = None =>
          \/ orphaned' \/ stopping' \/ ~Codec.started
          \/ feed'.pc \in {"lockAgain", "replace", "stop"}
  BY <1>2
<1>4. acodec # None /\ MayLose => MayLose'
  BY <1>1, <1>2 DEF MayLose, QuietData
<1>5. QuietMoves
  BY <1>3, <1>4 DEF QuietMoves
<1>6. SurfaceInv'
  BY HwTyped DEF SurfaceInv
<1> QED BY <1>1, <1>5, <1>6, QuietKeeps

LEMMA FeedReusesKeeps == ASSUME HwInv, FeedReuses PROVE HwInv'
<1>1. /\ codecVars' = codecVars /\ buffers' = buffers
      /\ UNCHANGED <<app, surface, stopping, alone>>
      /\ feed.pc = "surface" /\ holder' = holder
      /\ needReconfigure' = FALSE /\ orphaned' = (orphaned \/ (needReconfigure /\ voutCodec # acodec))
  BY HwTyped DEF FeedReuses, surfaceVars, fixed
<1>2. /\ feed' \in Feeds /\ drain' \in DrainPlaces
      /\ feed'.pc = "input" /\ drain' = drain
      /\ orphaned' \in BOOLEAN /\ (orphaned => orphaned') /\ (needReconfigure /\ voutCodec # acodec => orphaned')
  <2>1. orphaned' \in BOOLEAN /\ (orphaned => orphaned') /\ (needReconfigure /\ voutCodec # acodec => orphaned')
    BY <1>1, Zenon
  <2> QED BY <2>1, HwTyped DEF FeedReuses, At, Feeds, FeedPlaces
<1>3. TurnsInv'
  BY <1>1, <1>2, HwTyped DEF TurnsInv, Section, buffers
<1>4. drain' = drain \/ (drain # "gone" /\ drain' # "stop")
  BY <1>1, <1>2, HwTyped DEF TurnsInv
<1>5. /\ needReconfigure' \in BOOLEAN /\ orphaned' \in BOOLEAN /\ (orphaned => orphaned')
      /\ feed'.pc \notin {"flush", "renew", "stop", "unhook", "create", "configure"}
      /\ feed.pc \in {"surface", "create", "configure"}
  BY <1>1, <1>2, HwTyped
<1> QED BY <1>1, <1>2, <1>3, <1>4, <1>5, TakesDown

LEMMA FeedReconfiguresKeeps == ASSUME HwInv, FeedReconfigures PROVE HwInv'
<1>1. /\ codecVars' = codecVars /\ buffers' = buffers
      /\ UNCHANGED <<app, surface, stopping, alone>>
      /\ feed.pc = "surface" /\ holder' = holder
      /\ needReconfigure' = FALSE /\ orphaned' = orphaned
  BY HwTyped DEF FeedReconfigures, surfaceVars, fixed
<1>2. /\ feed' \in Feeds /\ drain' \in DrainPlaces
      /\ \/ stopping /\ alone /\ feed'.pc = "idle" /\ drain' = "top"
         \/ feed'.pc \in {"lockAgain", "replace"} /\ drain' = drain /\ (feed'.pc = "replace" <=> alone)
  <2>1. CASE alone /\ stopping
    <3>1. Returns
      BY <2>1 DEF FeedReconfigures
    <3> QED BY <2>1, <3>1, HwTyped, ReturnsIs
  <2>2. CASE ~(alone /\ stopping)
    BY <2>2, HwTyped DEF FeedReconfigures, At, Feeds, FeedPlaces
  <2> QED BY <2>1, <2>2
<1>3. TurnsInv'
  BY <1>1, <1>2, HwTyped DEF TurnsInv, Section, buffers
<1>4. drain' = drain \/ (drain # "gone" /\ drain' # "stop")
  BY <1>1, <1>2, HwTyped DEF TurnsInv
<1>5. /\ needReconfigure' \in BOOLEAN /\ orphaned' \in BOOLEAN /\ (orphaned => orphaned')
      /\ feed'.pc \notin {"flush", "renew", "stop", "unhook", "create", "configure"}
      /\ feed.pc \in {"surface", "create", "configure"}
  BY <1>1, <1>2, HwTyped
<1> QED BY <1>1, <1>2, <1>3, <1>4, <1>5, TakesDown

LEMMA FeedCannotRecreateKeeps == ASSUME HwInv, FeedCannotRecreate PROVE HwInv'
<1>1. /\ codecVars' = codecVars /\ buffers' = buffers
      /\ UNCHANGED <<app, surface, stopping, alone>>
      /\ feed.pc = "surface" /\ holder' = holder
      /\ needReconfigure' = FALSE /\ orphaned' = (orphaned \/ voutCodec # acodec)
  BY HwTyped DEF FeedCannotRecreate, surfaceVars, fixed
<1>2. /\ feed' \in Feeds /\ drain' \in DrainPlaces
      /\ orphaned' \in BOOLEAN /\ (orphaned => orphaned') /\ (needReconfigure /\ voutCodec # acodec => orphaned')
      /\ alone => feed'.pc = "idle" /\ drain' = "top"
      /\ ~alone => feed'.pc = "leave" /\ drain' = drain
  <2>1. orphaned' \in BOOLEAN /\ (orphaned => orphaned') /\ (needReconfigure /\ voutCodec # acodec => orphaned')
    BY <1>1, Zenon
  <2> QED BY <2>1, HwTyped, FailsIs DEF FeedCannotRecreate
<1>3. TurnsInv'
  BY <1>1, <1>2, HwTyped DEF TurnsInv, Section, buffers
<1>4. drain' = drain \/ (drain # "gone" /\ drain' # "stop")
  BY <1>1, <1>2, HwTyped DEF TurnsInv
<1>5. /\ needReconfigure' \in BOOLEAN /\ orphaned' \in BOOLEAN /\ (orphaned => orphaned')
      /\ feed'.pc \notin {"flush", "renew", "stop", "unhook", "create", "configure"}
      /\ feed.pc \in {"surface", "create", "configure"}
  BY <1>1, <1>2, HwTyped
<1> QED BY <1>1, <1>2, <1>3, <1>4, <1>5, TakesDown

LEMMA FeedCannotConfigureKeeps == ASSUME HwInv, FeedCannotConfigure PROVE HwInv'
<1>1. /\ codecVars' = codecVars /\ buffers' = buffers
      /\ UNCHANGED <<app, surface, stopping, alone>>
      /\ feed.pc \in {"create", "configure"} /\ holder' = "none"
      /\ needReconfigure' = needReconfigure /\ orphaned' = orphaned
  BY HwTyped DEF FeedCannotConfigure, surfaceVars, fixed
<1>2. /\ feed' \in Feeds /\ drain' \in DrainPlaces
      /\ alone => feed'.pc = "idle" /\ drain' = "top"
      /\ ~alone => feed'.pc = "top" /\ drain' = (IF drain = "waits" THEN "woken" ELSE drain)
  BY HwTyped, ReturnsIs, FailsIs DEF FeedCannotConfigure, At, Feeds, FeedPlaces, DrainPlaces, Wakes
<1>3. TurnsInv'
  BY <1>1, <1>2, HwTyped DEF TurnsInv, Section, buffers
<1>4. drain' = drain \/ (drain # "gone" /\ drain' # "stop")
  BY <1>1, <1>2, HwTyped DEF TurnsInv
<1>5. /\ needReconfigure' \in BOOLEAN /\ orphaned' \in BOOLEAN /\ (orphaned => orphaned')
      /\ feed'.pc \notin {"flush", "renew", "stop", "unhook", "create", "configure"}
      /\ feed.pc \in {"surface", "create", "configure"}
  BY <1>1, <1>2, HwTyped
<1> QED BY <1>1, <1>2, <1>3, <1>4, <1>5, TakesDown

-----------------------------------------------------------------------------
(* A codec is fed, fakes a frame or is aborted. *)

LEMMA FakeFlushedIs ==
    ASSUME NEW c \in Codecs
    PROVE  Alike(c, FakeFlushed(c)) /\ FakeFlushed(c).lent = c.lent
<1>1. [c EXCEPT !.fakes = 0] \in Codecs
  BY DEF Codecs
<1> QED BY <1>1 DEF FakeFlushed, Alike, Codecs

LEMMA FakeAbortedIs ==
    ASSUME NEW c \in Codecs
    PROVE  Alike(c, FakeAborted(c)) /\ FakeAborted(c).lent = c.lent
<1>1. [c EXCEPT !.abort = TRUE] \in Codecs
  BY DEF Codecs
<1> QED BY <1>1 DEF FakeAborted, Alike, Codecs

LEMMA ThrownIs ==
    ASSUME NEW c \in Codecs
    PROVE  Alike(c, [c EXCEPT !.valid = FALSE]) /\ [c EXCEPT !.valid = FALSE].lent = c.lent
<1>1. [c EXCEPT !.valid = FALSE] \in Codecs
  BY DEF Codecs
<1> QED BY <1>1 DEF Alike, Codecs

LEMMA FakeQueuedIs ==
    ASSUME NEW c \in Codecs
    PROVE  Alike(c, FakeQueued(c)) /\ FakeQueued(c).lent = c.lent
<1>1. [c EXCEPT !.fakes = @ + 1] \in Codecs
  BY DEF Codecs
<1> QED BY <1>1 DEF FakeQueued, Alike, Codecs

LEMMA AlikeAgain ==
    ASSUME NEW c, NEW d, NEW e, Alike(c, d), Alike(d, e)
    PROVE  Alike(c, e)
  BY DEF Alike

LEMMA EnteredIs ==
    ASSUME NEW c \in Codecs
    PROVE  Alike(c, Entered(c)) /\ Entered(c).lent = c.lent
<1> DEFINE f == FakeFlushed(c)
<1>1. Alike(c, f) /\ f.lent = c.lent /\ f \in Codecs
  BY FakeFlushedIs DEF Alike
<1>2. c.dummy \in BOOLEAN /\ (c.dummy <=> f.dummy) /\ f.dummies \in Int /\ f.inside \in Int
  BY <1>1, FieldsOfCodec DEF Alike
<1> HIDE DEF f
<1>3. [f EXCEPT !.dummies = @ + 1] \in Codecs /\ [f EXCEPT !.inside = @ + 1] \in Codecs
  BY <1>1 DEF Codecs
<1>4. /\ Alike(f, [f EXCEPT !.dummies = @ + 1]) /\ [f EXCEPT !.dummies = @ + 1].lent = f.lent
      /\ ~f.dummy => Alike(f, [f EXCEPT !.inside = @ + 1])
      /\ [f EXCEPT !.inside = @ + 1].lent = f.lent
  BY <1>1, <1>3 DEF Alike, Codecs
<1>5. Entered(c) = IF c.dummy THEN [f EXCEPT !.dummies = @ + 1] ELSE [f EXCEPT !.inside = @ + 1]
  BY DEF Entered, f
<1>6. CASE c.dummy
  BY <1>1, <1>4, <1>5, <1>6, AlikeAgain
<1>7. CASE ~c.dummy
  BY <1>1, <1>2, <1>4, <1>5, <1>7, AlikeAgain
<1> QED BY <1>6, <1>7

\* The step that puts such a codec in the place of acodec, and walks.
LEMMA PutKeeps ==
    ASSUME HwInv, acodec # None, NEW d, Alike(Codec, d), d.lent = Codec.lent,
           codecs' = [codecs EXCEPT ![acodec] = d], buffers' = buffers,
           UNCHANGED <<serials, acodec, voutCodec, app, surface, stopping, orphaned, needReconfigure, alone, holder>>,
           feed.pc \in {"input", "leave"}, feed' \in Feeds, drain' \in DrainPlaces,
           \/ alone /\ feed'.pc = "idle" /\ drain' = "top"
           \/ feed.pc = "input" /\ ~alone /\ feed'.pc \in {"top", "leave"} /\ drain' = drain
           \/ feed.pc = "leave" /\ feed'.pc = "gone" /\ drain' = drain
    PROVE  HwInv'
<1>1. acodec \in DOMAIN codecs /\ Alike(codecs[acodec], d) /\ HwTypeOK
  BY HwTyped, CodecIs DEF Codec
<1>2. SameCodecs /\ codecs'[acodec] = d
  BY <1>1, SameWhenPut
<1>3. QuietData
  BY <1>2, HwTyped DEF QuietData, buffers
<1>4. TurnsInv'
  BY HwTyped DEF TurnsInv, Section, buffers
<1>5. drain' = drain \/ (drain # "gone" /\ drain' # "stop")
  BY HwTyped DEF TurnsInv
<1>6. QuietMoves
  BY <1>3, <1>5, MovesOn
<1>7. SurfaceInv'
  BY HwTyped DEF SurfaceInv
<1> QED BY <1>3, <1>4, <1>6, <1>7, QuietKeeps

LEMMA FeedEntersKeeps == ASSUME HwInv, FeedEnters PROVE HwInv'
<1>1. /\ acodec # None /\ feed.pc = "input" /\ codecs' = [codecs EXCEPT ![acodec] = Entered(codecs[acodec])]
      /\ buffers' = buffers
      /\ UNCHANGED <<serials, acodec, voutCodec, app, surface, stopping, orphaned, alone, holder, needReconfigure>>
  BY DEF FeedEnters, Usable, surfaceVars, fixed, buffers
<1>2. Alike(Codec, Entered(codecs[acodec])) /\ Entered(codecs[acodec]).lent = Codec.lent
  BY <1>1, HwTyped, CodecIs, EnteredIs DEF Codec
<1>3. Returns
  BY DEF FeedEnters
<1> QED BY <1>1, <1>2, <1>3, HwTyped, ReturnsIs, PutKeeps

LEMMA FeedFakesKeeps == ASSUME HwInv, FeedFakes PROVE HwInv'
<1> DEFINE thrown == [codecs[acodec] EXCEPT !.valid = FALSE]
<1>1. /\ acodec # None /\ feed.pc = "input" /\ buffers' = buffers
      /\ UNCHANGED <<serials, acodec, voutCodec, app, surface, stopping, orphaned, alone, holder, needReconfigure>>
  BY DEF FeedFakes, Usable, surfaceVars, fixed, buffers
<1>2. Codec = codecs[acodec] /\ codecs[acodec] \in Codecs
  BY <1>1, HwTyped, CodecIs DEF Codec
<1>3. Alike(Codec, thrown) /\ thrown.lent = Codec.lent /\ thrown \in Codecs
  BY <1>2, ThrownIs DEF Alike
<1>4. Alike(Codec, FakeQueued(thrown)) /\ FakeQueued(thrown).lent = Codec.lent
  BY <1>3, FakeQueuedIs, AlikeAgain
<1>5. \/ codecs' = [codecs EXCEPT ![acodec] = FakeQueued(thrown)] /\ Returns
      \/ codecs' = [codecs EXCEPT ![acodec] = thrown] /\ Fails
  BY DEF FeedFakes, Codec
<1> HIDE DEF thrown
<1>6. CASE codecs' = [codecs EXCEPT ![acodec] = FakeQueued(thrown)] /\ Returns
  BY <1>1, <1>4, <1>6, HwTyped, ReturnsIs, PutKeeps
<1>7. CASE codecs' = [codecs EXCEPT ![acodec] = thrown] /\ Fails
  BY <1>1, <1>3, <1>7, HwTyped, FailsIs, PutKeeps
<1> QED BY <1>5, <1>6, <1>7

LEMMA FeedCannotEnterKeeps == ASSUME HwInv, FeedCannotEnter PROVE HwInv'
<1>1. /\ acodec # None /\ feed.pc = "input" /\ codecs' = [codecs EXCEPT ![acodec] = FakeFlushed(codecs[acodec])]
      /\ buffers' = buffers
      /\ UNCHANGED <<serials, acodec, voutCodec, app, surface, stopping, orphaned, alone, holder, needReconfigure>>
  BY DEF FeedCannotEnter, Usable, surfaceVars, fixed, buffers
<1>2. Alike(Codec, FakeFlushed(codecs[acodec])) /\ FakeFlushed(codecs[acodec]).lent = Codec.lent
  BY <1>1, HwTyped, CodecIs, FakeFlushedIs DEF Codec
<1>3. Fails
  BY DEF FeedCannotEnter
<1> QED BY <1>1, <1>2, <1>3, HwTyped, FailsIs, PutKeeps

LEMMA FeedLeavesKeeps == ASSUME HwInv, FeedLeaves PROVE HwInv'
<1>1. /\ acodec # None /\ feed.pc = "leave" /\ codecs' = [codecs EXCEPT ![acodec] = FakeAborted(codecs[acodec])]
      /\ buffers' = buffers /\ drain' = drain
      /\ UNCHANGED <<serials, acodec, voutCodec, app, surface, stopping, orphaned, alone, holder, needReconfigure>>
  BY DEF FeedLeaves, surfaceVars, fixed, buffers
<1>2. Alike(Codec, FakeAborted(codecs[acodec])) /\ FakeAborted(codecs[acodec]).lent = Codec.lent
  BY <1>1, HwTyped, CodecIs, FakeAbortedIs DEF Codec
<1>3. feed' \in Feeds /\ feed'.pc = "gone"
  BY HwTyped DEF FeedLeaves, At, Feeds, FeedPlaces
<1> QED BY <1>1, <1>2, <1>3, HwTyped, PutKeeps


-----------------------------------------------------------------------------
(* What becomes of the names when proxies are reset, moved and given back. *)

LEMMA NothingNamed ==
    ASSUME NEW s
    PROVE  ~Names(NoProxy, s) /\ ~Names(Invalid, s) /\ NoProxy \in Handed /\ Invalid \in Handed
  BY DEF Names, NoProxy, Invalid, Handed

LEMMA InvalidatedIs ==
    ASSUME HwTypeOK, InvalidateAll
    PROVE  /\ pictures' \in Seq(Handed) /\ Len(pictures') = Len(pictures) /\ frame' \in Handed
           /\ frame = NoProxy => frame' = NoProxy
           /\ \A s : Unnamed(pictures', frame', s)
<1>1. \A p \in Handed : ProxyReset(p) \in Handed /\ \A s : ~Names(ProxyReset(p), s)
  BY NothingNamed DEF ProxyReset
<1>2. Len(pictures) \in Nat /\ DOMAIN pictures = 1 .. Len(pictures) /\ \A i \in 1 .. Len(pictures) : pictures[i] \in Handed
  BY DEF HwTypeOK
<1>3. pictures' = [i \in 1 .. Len(pictures) |-> ProxyReset(pictures[i])] /\ frame' = ProxyReset(frame)
  BY <1>2 DEF InvalidateAll
<1>4. pictures' \in Seq(Handed) /\ Len(pictures') = Len(pictures)
  BY <1>1, <1>2, <1>3
<1>5. \A s : \A i \in 1 .. Len(pictures') : ~Names(pictures'[i], s)
  BY <1>1, <1>2, <1>3, <1>4
<1>6. frame \in Handed
  BY DEF HwTypeOK
<1> QED BY <1>1, <1>3, <1>4, <1>5, <1>6 DEF Unnamed, ProxyReset

LEMMA OwnedUnnamed ==
    ASSUME NEW pics, NEW fr, NEW kp, NEW s, NEW lent, Owned(pics, fr, kp, s, lent),
           NEW pics2, NEW fr2, Unnamed(pics2, fr2, s)
    PROVE  Owned(pics2, fr2, kp, s, lent)
  BY DEF Owned, Unnamed

LEMMA NoneLent ==
    ASSUME NEW pics, NEW fr, NEW kp, NEW s
    PROVE  InHand(pics, fr, kp, s, {})
  BY DEF InHand

\* The first picture leaves the queue, or is replaced.
LEMMA PicturesTail ==
    ASSUME NEW pics \in Seq(Handed), pics # << >>
    PROVE  /\ Tail(pics) \in Seq(Handed) /\ Len(pics) \in Nat \ {0} /\ Len(Tail(pics)) = Len(pics) - 1
           /\ \A i \in 1 .. Len(pics) - 1 : Tail(pics)[i] = pics[i + 1] /\ i + 1 \in 1 .. Len(pics)
           /\ Head(pics) = pics[1] /\ pics[1] \in Handed
           /\ \A i \in 1 .. Len(pics) : i # 1 => i - 1 \in 1 .. Len(pics) - 1 /\ i - 1 \in Nat /\ (i - 1) + 1 = i
  OBVIOUS

Freed(lent, p, s) == IF Names(p, s) THEN lent \ {p.index} ELSE lent

LEMMA DroppedIs ==
    ASSUME NEW pics \in Seq(Handed), pics # << >>, NEW fr, NEW kp, NEW s, NEW lent
    PROVE  /\ Unnamed(pics, fr, s) => Unnamed(Tail(pics), fr, s)
           /\ Owned(pics, fr, kp, s, lent) => Owned(Tail(pics), fr, kp, s, lent)
           /\ Owned(pics, fr, kp, s, lent) => Owned(Tail(pics), fr, kp, s, Freed(lent, Head(pics), s))
           /\ InHand(pics, fr, kp, s, lent) => InHand(Tail(pics), fr, kp, s, Freed(lent, Head(pics), s))
<1> DEFINE t == Tail(pics)
           n == Len(pics)
           p == pics[1]
<1>1. /\ n \in Nat \ {0} /\ Len(t) = n - 1 /\ Head(pics) = p /\ 1 \in 1 .. n
      /\ \A i \in 1 .. n - 1 : t[i] = pics[i + 1] /\ i + 1 \in 1 .. n
      /\ \A i \in 1 .. n : i # 1 => i - 1 \in 1 .. n - 1 /\ t[i - 1] = pics[i]
  BY PicturesTail
<1>2. Freed(lent, Head(pics), s) = IF Names(p, s) THEN lent \ {p.index} ELSE lent
  BY <1>1 DEF Freed
<1> HIDE DEF t, n
<1>3. \A i, j \in 1 .. n - 1 : i + 1 = j + 1 => i = j
  OBVIOUS
<1>4. \A i \in 1 .. n - 1 : i + 1 # 1
  BY <1>1
<1>5. Unnamed(pics, fr, s) => Unnamed(t, fr, s)
  BY <1>1 DEF Unnamed, n
<1>6. ASSUME Owned(pics, fr, kp, s, lent) PROVE Owned(t, fr, kp, s, lent)
  <2> SUFFICES ASSUME NEW i \in 1 .. n - 1, Names(t[i], s)
               PROVE  /\ t[i].index \in lent
                      /\ \A j \in 1 .. n - 1 : Names(t[j], s) /\ t[j].index = t[i].index => i = j
                      /\ Names(fr, s) => fr.index # t[i].index
                      /\ \A j \in 1 .. Len(kp) : Names(kp[j], s) => kp[j].index # t[i].index
    BY <1>1, <1>6 DEF Owned
  <2> DEFINE k == i + 1
  <2>1. k \in 1 .. n /\ t[i] = pics[k]
    BY <1>1
  <2> HIDE DEF k
  <2>2. /\ pics[k].index \in lent
        /\ \A j \in 1 .. n : Names(pics[j], s) /\ pics[j].index = pics[k].index => k = j
        /\ Names(fr, s) => fr.index # pics[k].index
        /\ \A j \in 1 .. Len(kp) : Names(kp[j], s) => kp[j].index # pics[k].index
    BY <1>6, <2>1 DEF Owned, n
  <2>3. ASSUME NEW j \in 1 .. n - 1, Names(t[j], s), t[j].index = t[i].index PROVE i = j
    <3>1. j + 1 \in 1 .. n /\ t[j] = pics[j + 1]
      BY <1>1
    <3>2. k = j + 1
      BY <2>1, <2>2, <2>3, <3>1
    <3> QED BY <1>3, <3>2 DEF k
  <2> QED BY <2>1, <2>2, <2>3
<1>7. ASSUME Owned(pics, fr, kp, s, lent), Names(p, s) PROVE Owned(t, fr, kp, s, lent \ {p.index})
  <2>1. \A i \in 1 .. n - 1 : Names(t[i], s) => t[i].index # p.index
    BY <1>1, <1>4, <1>7 DEF Owned, n
  <2>2. Names(fr, s) => fr.index # p.index
    BY <1>1, <1>7 DEF Owned, n
  <2>3. \A j \in 1 .. Len(kp) : Names(kp[j], s) => kp[j].index # p.index
    BY <1>1, <1>7 DEF Owned, n
  <2>4. Owned(t, fr, kp, s, lent)
    BY <1>6, <1>7
  <2> QED BY <1>1, <2>1, <2>2, <2>3, <2>4 DEF Owned
<1>8. ASSUME InHand(pics, fr, kp, s, lent) PROVE InHand(t, fr, kp, s, Freed(lent, Head(pics), s))
  <2> SUFFICES ASSUME NEW b \in Freed(lent, Head(pics), s)
               PROVE  \/ \E i \in 1 .. Len(t) : Names(t[i], s) /\ t[i].index = b
                      \/ Names(fr, s) /\ fr.index = b
                      \/ \E j \in 1 .. Len(kp) : Names(kp[j], s) /\ kp[j].index = b
    BY DEF InHand
  <2>1. b \in lent /\ ~(Names(p, s) /\ p.index = b)
    BY <1>2
  <2>2. CASE \E i \in 1 .. n : Names(pics[i], s) /\ pics[i].index = b
    <3>1. PICK i \in 1 .. n : Names(pics[i], s) /\ pics[i].index = b
      BY <2>2
    <3>2. i # 1
      BY <2>1, <3>1
    <3> QED BY <1>1, <3>1, <3>2
  <2> QED BY <1>8, <2>1, <2>2 DEF InHand, n
<1> QED BY <1>2, <1>5, <1>6, <1>7, <1>8 DEF t

LEMMA ShownIs ==
    ASSUME NEW pics \in Seq(Handed), pics # << >>, NEW fr, NEW kp, NEW s, NEW lent
    PROVE  /\ <<NoProxy>> \o Tail(pics) \in Seq(Handed)
           /\ Unnamed(pics, fr, s) => Unnamed(<<NoProxy>> \o Tail(pics), fr, s)
           /\ Owned(pics, fr, kp, s, lent) => Owned(<<NoProxy>> \o Tail(pics), fr, kp, s, lent)
           /\ Owned(pics, fr, kp, s, lent) =>
                 Owned(<<NoProxy>> \o Tail(pics), fr, kp, s, Freed(lent, Head(pics), s))
           /\ InHand(pics, fr, kp, s, lent) =>
                 InHand(<<NoProxy>> \o Tail(pics), fr, kp, s, Freed(lent, Head(pics), s))
<1> DEFINE t == <<NoProxy>> \o Tail(pics)
           n == Len(pics)
           p == pics[1]
<1>0. Tail(pics) \in Seq(Handed) /\ Len(Tail(pics)) = n - 1 /\ n \in Nat \ {0} /\ Head(pics) = p
      /\ \A i \in 1 .. n - 1 : Tail(pics)[i] = pics[i + 1]
  BY PicturesTail
<1>1. /\ t \in Seq(Handed) /\ Len(t) = n /\ 1 \in 1 .. n
      /\ t[1] = NoProxy /\ \A i \in 1 .. n : i # 1 => t[i] = pics[i]
  BY <1>0, NothingNamed
<1>2. Freed(lent, Head(pics), s) = IF Names(p, s) THEN lent \ {p.index} ELSE lent
  BY <1>0 DEF Freed
<1>3. ~Names(t[1], s)
  BY <1>1, NothingNamed
<1> HIDE DEF t, n
<1>4. \A i \in 1 .. n : Names(t[i], s) => i # 1 /\ t[i] = pics[i]
  BY <1>1, <1>3
<1>5. Unnamed(pics, fr, s) => Unnamed(t, fr, s)
  BY <1>1, <1>4 DEF Unnamed, n
<1>6. Owned(pics, fr, kp, s, lent) => Owned(t, fr, kp, s, lent)
  BY <1>1, <1>4 DEF Owned, n
<1>7. ASSUME Owned(pics, fr, kp, s, lent), Names(p, s) PROVE Owned(t, fr, kp, s, lent \ {p.index})
  <2>1. \A i \in 1 .. n : Names(t[i], s) => t[i].index # p.index
    BY <1>1, <1>4, <1>7 DEF Owned, n
  <2>2. Names(fr, s) => fr.index # p.index
    BY <1>1, <1>7 DEF Owned, n
  <2>3. \A j \in 1 .. Len(kp) : Names(kp[j], s) => kp[j].index # p.index
    BY <1>1, <1>7 DEF Owned, n
  <2>4. Owned(t, fr, kp, s, lent)
    BY <1>6, <1>7
  <2> QED BY <1>1, <2>1, <2>2, <2>3, <2>4 DEF Owned
<1>8. ASSUME InHand(pics, fr, kp, s, lent) PROVE InHand(t, fr, kp, s, Freed(lent, Head(pics), s))
  <2> SUFFICES ASSUME NEW b \in Freed(lent, Head(pics), s)
               PROVE  \/ \E i \in 1 .. Len(t) : Names(t[i], s) /\ t[i].index = b
                      \/ Names(fr, s) /\ fr.index = b
                      \/ \E j \in 1 .. Len(kp) : Names(kp[j], s) /\ kp[j].index = b
    BY DEF InHand
  <2>1. b \in lent /\ ~(Names(p, s) /\ p.index = b)
    BY <1>2
  <2>2. CASE \E i \in 1 .. n : Names(pics[i], s) /\ pics[i].index = b
    <3>1. PICK i \in 1 .. n : Names(pics[i], s) /\ pics[i].index = b
      BY <2>2
    <3>2. i # 1
      BY <2>1, <3>1
    <3> QED BY <1>1, <3>1, <3>2
  <2> QED BY <1>8, <2>1, <2>2 DEF InHand, n
<1> QED BY <1>1, <1>2, <1>5, <1>6, <1>7, <1>8 DEF t

\* The frame is given back.
LEMMA FrameFreedIs ==
    ASSUME NEW pics, NEW fr, NEW kp, NEW s, NEW lent
    PROVE  /\ Unnamed(pics, fr, s) => Unnamed(pics, NoProxy, s)
           /\ Owned(pics, fr, kp, s, lent) => Owned(pics, NoProxy, kp, s, lent)
           /\ Owned(pics, fr, kp, s, lent) => Owned(pics, NoProxy, kp, s, Freed(lent, fr, s))
           /\ InHand(pics, fr, kp, s, lent) => InHand(pics, NoProxy, kp, s, Freed(lent, fr, s))
<1>1. ~Names(NoProxy, s)
  BY NothingNamed
<1>2. Unnamed(pics, fr, s) => Unnamed(pics, NoProxy, s)
  BY <1>1 DEF Unnamed
<1>3. Owned(pics, fr, kp, s, lent) => Owned(pics, NoProxy, kp, s, lent)
  BY <1>1 DEF Owned
<1>4. Owned(pics, fr, kp, s, lent) => Owned(pics, NoProxy, kp, s, Freed(lent, fr, s))
  BY <1>1 DEF Owned, Freed
<1>5. InHand(pics, fr, kp, s, lent) => InHand(pics, NoProxy, kp, s, Freed(lent, fr, s))
  BY <1>1 DEF InHand, Freed
<1> QED BY <1>2, <1>3, <1>4, <1>5

\* The frame joins the pictures.
LEMMA QueuedIs ==
    ASSUME NEW pics \in Seq(Handed), NEW fr \in Handed, NEW kp, NEW s, NEW lent
    PROVE  /\ Append(pics, fr) \in Seq(Handed)
           /\ Unnamed(pics, fr, s) => Unnamed(Append(pics, fr), NoProxy, s)
           /\ Owned(pics, fr, kp, s, lent) => Owned(Append(pics, fr), NoProxy, kp, s, lent)
           /\ InHand(pics, fr, kp, s, lent) => InHand(Append(pics, fr), NoProxy, kp, s, lent)
<1> DEFINE t == Append(pics, fr)
           n == Len(pics)
<1>1. /\ t \in Seq(Handed) /\ n \in Nat /\ Len(t) = n + 1 /\ t[n + 1] = fr /\ n + 1 \in 1 .. n + 1
      /\ \A i \in 1 .. n : t[i] = pics[i] /\ i \in 1 .. n + 1
      /\ \A i \in 1 .. n + 1 : i \in 1 .. n \/ i = n + 1
  OBVIOUS
<1>2. ~Names(NoProxy, s)
  BY NothingNamed
<1> HIDE DEF t, n
<1>3. Unnamed(pics, fr, s) => Unnamed(t, NoProxy, s)
  BY <1>1, <1>2 DEF Unnamed, n
<1>4. ASSUME Owned(pics, fr, kp, s, lent) PROVE Owned(t, NoProxy, kp, s, lent)
  <2> SUFFICES ASSUME NEW i \in 1 .. n + 1, Names(t[i], s)
               PROVE  /\ t[i].index \in lent
                      /\ \A j \in 1 .. n + 1 : Names(t[j], s) /\ t[j].index = t[i].index => i = j
                      /\ \A j \in 1 .. Len(kp) : Names(kp[j], s) => kp[j].index # t[i].index
    BY <1>1, <1>2, <1>4 DEF Owned
  <2>1. CASE i \in 1 .. n
    BY <1>1, <1>4, <2>1 DEF Owned, n
  <2>2. CASE i = n + 1
    BY <1>1, <1>4, <2>2 DEF Owned, n
  <2> QED BY <1>1, <2>1, <2>2
<1>5. InHand(pics, fr, kp, s, lent) => InHand(t, NoProxy, kp, s, lent)
  BY <1>1 DEF InHand, n
<1> QED BY <1>1, <1>3, <1>4, <1>5 DEF t


-----------------------------------------------------------------------------
(* Buffers are given back, drawn, dropped and queued. *)

LEMMA ReleaseIs ==
    ASSUME HwInv, NEW p \in Handed, Release(p)
    PROVE  /\ SameCodecs
           /\ acodec # None /\ voutCodec = acodec => codecs'[acodec].lent = Freed(Codec.lent, p, Codec.serial)
           /\ acodec # None /\ voutCodec # acodec => codecs'[acodec].lent = Codec.lent
<1>1. HwTypeOK /\ CodecsInv
  BY DEF HwInv
<1>2. acodec # None /\ voutCodec # acodec => voutCodec = None
  BY <1>1 DEF CodecsInv
<1>3. p.index \in Int /\ p.fake \in BOOLEAN /\ p.serial \in Int
  BY DEF Handed
<1>4. CASE GivesBack(p)
  <2>1. /\ voutCodec # None /\ codecs[voutCodec].serial = p.serial /\ p.index >= 0 /\ ~p.fake
    BY <1>4 DEF GivesBack, SameSerial
  <2>2. voutCodec \in DOMAIN codecs /\ codecs[voutCodec] \in Codecs
    BY <1>1, <2>1, CodecIs
  <2> DEFINE c == codecs[voutCodec]
             d == [c EXCEPT !.lent = c.lent \ {p.index}]
  <2>3. d \in Codecs /\ d.lent = c.lent \ {p.index} /\ Alike(c, d)
    <3>1. d \in Codecs
      BY <2>2 DEF Codecs
    <3> QED BY <2>2, <3>1 DEF Alike, Codecs
  <2>4. codecs' = [codecs EXCEPT ![voutCodec] = d]
    BY <1>4 DEF Release
  <2>5. SameCodecs /\ codecs'[voutCodec] = d
    <3> HIDE DEF d
    <3> QED BY <1>1, <2>2, <2>3, <2>4, SameWhenPut
  <2>6. acodec # None /\ voutCodec = acodec => codecs'[acodec].lent = Freed(Codec.lent, p, Codec.serial)
    <3> HIDE DEF d
    <3> QED BY <2>1, <2>3, <2>5 DEF Freed, Names, Codec
  <2> QED BY <1>2, <2>1, <2>5, <2>6
<1>5. CASE ~GivesBack(p)
  <2>1. codecs' = codecs
    BY <1>5 DEF Release
  <2>2. acodec # None /\ voutCodec = acodec => ~Names(p, Codec.serial)
    BY <1>3, <1>5 DEF GivesBack, SameSerial, Names, Codec, NoProxy
  <2> QED BY <1>1, <2>1, <2>2, SameWhenUnchanged DEF Freed, Codec
<1> QED BY <1>4, <1>5

Handing ==
    /\ acodec' = acodec /\ voutCodec' = voutCodec /\ serials' = serials /\ kept' = kept /\ SameCodecs
    /\ UNCHANGED <<alone, app, surface, needReconfigure, orphaned, stopping>>
    /\ pictures' \in Seq(Handed) /\ frame' \in Handed /\ feed' \in Feeds /\ drain' \in DrainPlaces
    /\ feed'.pc = feed.pc \/ (feed.pc = "idle" /\ feed'.pc = "top")
    /\ drain' = drain \/ (drain # "gone" /\ drain' # "stop")
    /\ \A s \in Int : Unnamed(pictures, frame, s) => Unnamed(pictures', frame', s)
    /\ acodec # None =>
          /\ codecs'[acodec].lent \subseteq Codec.lent
          /\ Owned(pictures, frame, kept, Codec.serial, Codec.lent) =>
                Owned(pictures', frame', kept, Codec.serial, codecs'[acodec].lent)
          /\ voutCodec = acodec /\ InHand(pictures, frame, kept, Codec.serial, Codec.lent) =>
                InHand(pictures', frame', kept, Codec.serial, codecs'[acodec].lent)

LEMMA HandingKeeps == ASSUME HwInv, Handing, TurnsInv' PROVE HwInv'
<1>1. HwTypeOK /\ CodecsInv /\ SerialsInv /\ OwnedInv /\ InHandInv /\ SurfaceInv
  BY DEF HwInv
<1>2. HwTypeOK'
  BY <1>1 DEF HwTypeOK, Handing, SameCodecs
<1>3. Steady /\ SurfaceInv'
  BY <1>1 DEF Steady, Handing, SurfaceInv
<1>4. acodec # None => Codec'.serial = Codec.serial /\ Codec'.lent = codecs'[acodec].lent /\ Codec.serial \in Int
  BY <1>1, CodecIs, FieldsOfCodec DEF Handing, SameCodecs, Alike, Codec
<1>5. Moves
  <2>1. /\ feed.pc = "unhook" <=> feed'.pc = "unhook"
        /\ feed'.pc \in {"flush", "renew", "stop", "unhook", "create", "configure"} => feed'.pc = feed.pc
        /\ drain' = "stop" => drain = "stop"
        /\ drain = "gone" => drain' = "gone"
    BY DEF Handing
  <2>2. /\ feed'.pc \in {"create", "configure"} => voutCodec = None
        /\ feed'.pc = "create" => acodec = None
        /\ feed'.pc = "configure" => acodec # None /\ ~Codec.started
    BY <1>1, <2>1 DEF CodecsInv
  <2>3. feed'.pc \in {"flush", "renew", "stop"} \/ drain' = "stop" =>
          acodec # None /\ Unnamed(pictures', frame', Codec.serial)
    BY <1>1, <1>4, <2>1 DEF CodecsInv, SerialsInv, Handing
  <2>4. feed'.pc = "renew" => codecs'[acodec].lent = {}
    BY <1>1, <2>1, <2>3 DEF SerialsInv, Handing
  <2>5. acodec # None /\ voutCodec = None =>
          \/ needReconfigure' \/ orphaned' \/ stopping' \/ ~Codec.started
          \/ feed'.pc \in {"lockAgain", "replace", "stop"}
    BY <1>1 DEF CodecsInv, Handing
  <2> QED BY <2>1, <2>2, <2>3, <2>4, <2>5 DEF Moves
<1>6. NoNewNames
  BY DEF NoNewNames, Handing
<1>7. OwnedInv'
  BY <1>1, <1>4 DEF OwnedInv, Handing
<1>8. InHandInv'
  <2>1. acodec # None /\ MayLose => MayLose'
    BY DEF MayLose, Handing
  <2>2. acodec # None /\ ~MayLose => voutCodec = acodec
    BY DEF MayLose
  <2> QED BY <1>1, <1>4, <2>1, <2>2 DEF InHandInv, Handing
<1> QED BY <1>2, <1>3, <1>5, <1>6, <1>7, <1>8, SteadyKeeps

\* What the release of a proxy does to who owns what, when the proxy leaves its place.
LEMMA ReleasedOwns ==
    ASSUME HwInv, NEW p \in Handed, Release(p), NEW pics, NEW fr,
           \A s, lent : /\ Owned(pictures, frame, kept, s, lent) =>
                              Owned(pics, fr, kept, s, lent) /\ Owned(pics, fr, kept, s, Freed(lent, p, s))
                        /\ InHand(pictures, frame, kept, s, lent) => InHand(pics, fr, kept, s, Freed(lent, p, s))
    PROVE  acodec # None =>
          /\ codecs'[acodec].lent \subseteq Codec.lent
          /\ Owned(pictures, frame, kept, Codec.serial, Codec.lent) =>
                Owned(pics, fr, kept, Codec.serial, codecs'[acodec].lent)
          /\ voutCodec = acodec /\ InHand(pictures, frame, kept, Codec.serial, Codec.lent) =>
                InHand(pics, fr, kept, Codec.serial, codecs'[acodec].lent)
<1>1. CASE acodec # None /\ voutCodec = acodec
  <2>1. codecs'[acodec].lent = Freed(Codec.lent, p, Codec.serial)
    BY <1>1, ReleaseIs
  <2>2. Freed(Codec.lent, p, Codec.serial) \subseteq Codec.lent
    BY DEF Freed
  <2> QED BY <2>1, <2>2
<1>2. CASE acodec # None /\ voutCodec # acodec
  <2>1. codecs'[acodec].lent = Codec.lent
    BY <1>2, ReleaseIs
  <2> QED BY <1>2, <2>1
<1> QED BY <1>1, <1>2

LEMMA BuffersTyped ==
    ASSUME HwInv
    PROVE  /\ pictures \in Seq(Handed) /\ frame \in Handed /\ kept \in Seq(Handed) /\ Len(kept) \in {0, 1}
           /\ pictures # << >> => Head(pictures) \in Handed
<1>1. pictures \in Seq(Handed) /\ frame \in Handed /\ kept \in Seq(Handed) /\ Len(kept) <= 1
  BY DEF HwInv, HwTypeOK
<1>2. Len(kept) \in Nat
  BY <1>1
<1>3. \A n \in Nat : n <= 1 => n \in {0, 1}
  OBVIOUS
<1>4. Len(kept) \in {0, 1}
  BY <1>1, <1>2, <1>3
<1> QED BY <1>1, <1>4, PicturesTail

LEMMA DisplayShowsKeeps == ASSUME HwInv, DisplayShows PROVE HwInv'
<1>1. /\ pictures # << >> /\ Release(Head(pictures)) /\ pictures' = <<NoProxy>> \o Tail(pictures)
      /\ UNCHANGED <<serials, acodec, voutCodec, needReconfigure, app, surface, kept, frame, feed, drain,
                     holder, alone, orphaned, stopping>>
  BY DEF DisplayShows, surfaceVars, threads, fixed
<1>2. SameCodecs
  BY <1>1, BuffersTyped, ReleaseIs
<1>3. /\ pictures' \in Seq(Handed)
      /\ \A s, lent :
            /\ Unnamed(pictures, frame, s) => Unnamed(pictures', frame', s)
            /\ Owned(pictures, frame, kept, s, lent) =>
                  Owned(pictures', frame', kept, s, lent) /\ Owned(pictures', frame', kept, s, Freed(lent, Head(pictures), s))
            /\ InHand(pictures, frame, kept, s, lent) => InHand(pictures', frame', kept, s, Freed(lent, Head(pictures), s))
  BY <1>1, BuffersTyped, ShownIs
<1>4. acodec # None =>
          /\ codecs'[acodec].lent \subseteq Codec.lent
          /\ Owned(pictures, frame, kept, Codec.serial, Codec.lent) =>
                Owned(pictures', frame', kept, Codec.serial, codecs'[acodec].lent)
          /\ voutCodec = acodec /\ InHand(pictures, frame, kept, Codec.serial, Codec.lent) =>
                InHand(pictures', frame', kept, Codec.serial, codecs'[acodec].lent)
  BY <1>1, <1>3, BuffersTyped, ReleasedOwns
<1>5. TurnsInv'
  BY <1>1, HwTyped DEF TurnsInv, Section
<1>6. Handing
  BY <1>1, <1>2, <1>3, <1>4, BuffersTyped, HwTyped DEF Handing
<1> QED BY <1>5, <1>6, HandingKeeps

LEMMA DisplayDropsKeeps == ASSUME HwInv, DisplayDrops PROVE HwInv'
<1>1. /\ pictures # << >> /\ Release(Head(pictures)) /\ pictures' = Tail(pictures)
      /\ UNCHANGED <<serials, acodec, voutCodec, needReconfigure, app, surface, kept, frame, feed, drain,
                     holder, alone, orphaned, stopping>>
  BY DEF DisplayDrops, surfaceVars, threads, fixed
<1>2. SameCodecs
  BY <1>1, BuffersTyped, ReleaseIs
<1>3. /\ pictures' \in Seq(Handed)
      /\ \A s, lent :
            /\ Unnamed(pictures, frame, s) => Unnamed(pictures', frame', s)
            /\ Owned(pictures, frame, kept, s, lent) =>
                  Owned(pictures', frame', kept, s, lent) /\ Owned(pictures', frame', kept, s, Freed(lent, Head(pictures), s))
            /\ InHand(pictures, frame, kept, s, lent) => InHand(pictures', frame', kept, s, Freed(lent, Head(pictures), s))
  BY <1>1, BuffersTyped, DroppedIs, PicturesTail
<1>4. acodec # None =>
          /\ codecs'[acodec].lent \subseteq Codec.lent
          /\ Owned(pictures, frame, kept, Codec.serial, Codec.lent) =>
                Owned(pictures', frame', kept, Codec.serial, codecs'[acodec].lent)
          /\ voutCodec = acodec /\ InHand(pictures, frame, kept, Codec.serial, Codec.lent) =>
                InHand(pictures', frame', kept, Codec.serial, codecs'[acodec].lent)
  BY <1>1, <1>3, BuffersTyped, ReleasedOwns
<1>5. TurnsInv'
  BY <1>1, HwTyped DEF TurnsInv, Section
<1>6. Handing
  BY <1>1, <1>2, <1>3, <1>4, BuffersTyped, HwTyped DEF Handing
<1> QED BY <1>5, <1>6, HandingKeeps

\* The draining thread gives its frame back, and goes where it goes.
LEMMA FrameGivenKeeps ==
    ASSUME HwInv, Release(frame), frame' = NoProxy,
           UNCHANGED <<serials, acodec, voutCodec, needReconfigure, app, surface, kept, pictures, alone,
                       orphaned, stopping>>,
           feed' \in Feeds, drain' \in DrainPlaces,
           feed'.pc = feed.pc \/ (feed.pc = "idle" /\ feed'.pc = "top"),
           drain # "gone", drain' # "stop", TurnsInv'
    PROVE  HwInv'
<1>1. SameCodecs
  BY BuffersTyped, ReleaseIs
<1>2. /\ NoProxy \in Handed
      /\ \A s, lent :
            /\ Unnamed(pictures, frame, s) => Unnamed(pictures', frame', s)
            /\ Owned(pictures, frame, kept, s, lent) =>
                  Owned(pictures', frame', kept, s, lent) /\ Owned(pictures', frame', kept, s, Freed(lent, frame, s))
            /\ InHand(pictures, frame, kept, s, lent) => InHand(pictures', frame', kept, s, Freed(lent, frame, s))
  BY FrameFreedIs, NothingNamed
<1>3. acodec # None =>
          /\ codecs'[acodec].lent \subseteq Codec.lent
          /\ Owned(pictures, frame, kept, Codec.serial, Codec.lent) =>
                Owned(pictures', frame', kept, Codec.serial, codecs'[acodec].lent)
          /\ voutCodec = acodec /\ InHand(pictures, frame, kept, Codec.serial, Codec.lent) =>
                InHand(pictures', frame', kept, Codec.serial, codecs'[acodec].lent)
  BY <1>2, BuffersTyped, ReleasedOwns
<1>4. Handing
  BY <1>1, <1>2, <1>3, BuffersTyped DEF Handing
<1> QED BY <1>4, HandingKeeps

LEMMA AfterIs ==
    ASSUME HwInv, drain = "picture", After
    PROVE  /\ feed' \in Feeds /\ drain' \in DrainPlaces
           /\ feed'.pc = feed.pc \/ (feed.pc = "idle" /\ feed'.pc = "top")
           /\ alone => drain' = "feeds" /\ feed'.pc = "top"
           /\ ~alone => drain' = "top" /\ feed' = feed
<1>1. alone => feed.pc = "idle"
  BY HwTyped DEF TurnsInv
<1>2. CASE alone
  BY <1>1, <1>2, HwTyped DEF After, At, Feeds, FeedPlaces, DrainPlaces
<1>3. CASE ~alone
  BY <1>3, HwTyped DEF After, DrainPlaces
<1> QED BY <1>2, <1>3

LEMMA DrainDropsKeeps == ASSUME HwInv, DrainDrops PROVE HwInv'
<1>1. /\ drain = "picture" /\ Release(frame) /\ frame' = NoProxy /\ After
      /\ UNCHANGED <<serials, acodec, voutCodec, needReconfigure, app, surface, kept, pictures, alone,
                     orphaned, stopping, holder>>
  BY DEF DrainDrops, surfaceVars, fixed
<1>2. TurnsInv'
  BY <1>1, AfterIs, HwTyped DEF TurnsInv, Section
<1> QED BY <1>1, <1>2, AfterIs, FrameGivenKeeps

LEMMA DrainQueuesKeeps == ASSUME HwInv, DrainQueues PROVE HwInv'
<1>1. /\ drain = "picture" /\ pictures' = Append(pictures, frame) /\ frame' = NoProxy /\ After /\ codecs' = codecs
      /\ UNCHANGED <<serials, acodec, voutCodec, needReconfigure, app, surface, kept, alone,
                     orphaned, stopping, holder>>
  BY DEF DrainQueues, surfaceVars, fixed, codecVars
<1>2. TurnsInv'
  BY <1>1, AfterIs, HwTyped DEF TurnsInv, Section
<1>3. SameCodecs /\ (acodec # None => codecs'[acodec].lent = Codec.lent)
  BY <1>1, HwTyped, SameWhenUnchanged DEF Codec
<1>4. /\ NoProxy \in Handed /\ pictures' \in Seq(Handed)
      /\ \A s, lent :
            /\ Unnamed(pictures, frame, s) => Unnamed(pictures', frame', s)
            /\ Owned(pictures, frame, kept, s, lent) => Owned(pictures', frame', kept, s, lent)
            /\ InHand(pictures, frame, kept, s, lent) => InHand(pictures', frame', kept, s, lent)
  BY <1>1, QueuedIs, BuffersTyped, NothingNamed
<1>5. Handing
  BY <1>1, <1>3, <1>4, AfterIs DEF Handing
<1> QED BY <1>2, <1>5, HandingKeeps

LEMMA DrainGoesOnKeeps == ASSUME HwInv, DrainGoesOn PROVE HwInv'
<1>1. /\ drain = "drained" /\ ~alone /\ feed' = feed
      /\ UNCHANGED <<serials, acodec, voutCodec, needReconfigure, app, surface, kept, pictures, alone,
                     orphaned, stopping, holder>>
  BY DEF DrainGoesOn, surfaceVars, fixed
<1>2. CASE stopping
  <2>1. drain' = "join" /\ Release(frame) /\ frame' = NoProxy
    BY <1>2 DEF DrainGoesOn
  <2>2. TurnsInv'
    BY <1>1, <1>2, <2>1, HwTyped DEF TurnsInv, Section
  <2> QED BY <1>1, <2>1, <2>2, HwTyped, FrameGivenKeeps DEF DrainPlaces
<1>3. CASE ~stopping
  <2>1. codecs' = codecs /\ frame' = frame /\ drain' = IF frame # NoProxy THEN "picture" ELSE "top"
    BY <1>3 DEF DrainGoesOn
  <2>2. TurnsInv'
    BY <1>1, <1>3, <2>1, HwTyped DEF TurnsInv, Section
  <2>3. Walks
    BY <1>1, <2>1, HwTyped DEF Walks, codecVars, buffers, DrainPlaces
  <2> QED BY <2>2, <2>3, WalkKeeps
<1> QED BY <1>2, <1>3, HwTyped

LEMMA LoopGoesOnKeeps == ASSUME HwInv, LoopGoesOn PROVE HwInv'
<1>1. /\ drain = "drained" /\ alone
      /\ UNCHANGED <<serials, acodec, voutCodec, needReconfigure, app, surface, kept, pictures, alone,
                     orphaned, stopping, holder>>
  BY DEF LoopGoesOn, surfaceVars, fixed
<1>0. feed.pc = "idle"
  BY <1>1, HwTyped DEF TurnsInv
<1>2. CASE stopping
  <2>1. drain' = "feeds" /\ Release(frame) /\ frame' = NoProxy /\ feed' = [feed EXCEPT !.pc = "top"]
    BY <1>2 DEF LoopGoesOn, At
  <2>2. feed' \in Feeds /\ feed'.pc = "top"
    BY <2>1, HwTyped DEF Feeds, FeedPlaces
  <2>3. TurnsInv'
    BY <1>1, <1>2, <2>1, <2>2, HwTyped DEF TurnsInv, Section
  <2> QED BY <1>0, <1>1, <2>1, <2>2, <2>3, HwTyped, FrameGivenKeeps DEF DrainPlaces
<1>3. CASE ~stopping
  <2>1. codecs' = codecs /\ frame' = frame
    BY <1>3 DEF LoopGoesOn
  <2>2. \/ frame # NoProxy /\ drain' = "picture" /\ feed' = feed
        \/ frame = NoProxy /\ drain' = "feeds" /\ feed' = [feed EXCEPT !.pc = "top"]
    BY <1>3 DEF LoopGoesOn, At
  <2>3. \/ frame # NoProxy /\ drain' = "picture" /\ feed' \in Feeds /\ feed'.pc = feed.pc
        \/ frame = NoProxy /\ drain' = "feeds" /\ feed' \in Feeds /\ feed'.pc = "top"
    BY <2>2, HwTyped DEF Feeds, FeedPlaces
  <2>4. TurnsInv'
    BY <1>0, <1>1, <1>3, <2>1, <2>3, HwTyped DEF TurnsInv, Section
  <2>5. Walks
    BY <1>0, <1>1, <2>1, <2>3, HwTyped DEF Walks, codecVars, buffers, DrainPlaces
  <2> QED BY <2>4, <2>5, WalkKeeps
<1> QED BY <1>2, <1>3, HwTyped


-----------------------------------------------------------------------------
(* All proxies are invalidated: the flush, the codec that is replaced, the surface, the end. *)

\* A step that invalidates them, or leaves them, and leaves the codecs; kept is left or emptied.
Invalidates ==
    /\ codecVars' = codecVars /\ alone' = alone /\ kept' \in {kept, << >>}
    /\ InvalidateAll \/ (pictures' = pictures /\ frame' = frame)
    /\ feed' \in Feeds /\ drain' \in DrainPlaces
    /\ stopping' \in BOOLEAN /\ orphaned' \in BOOLEAN /\ needReconfigure' \in BOOLEAN
    /\ feed.pc = "renew" => feed'.pc = "renew"

LEMMA InvalidatesKeeps ==
    ASSUME HwInv, Invalidates, Moves, TurnsInv', SurfaceInv', acodec # None => MayLose'
    PROVE  HwInv'
<1>1. HwTypeOK /\ OwnedInv
  BY DEF HwInv
<1>2. /\ acodec' = acodec /\ voutCodec' = voutCodec /\ serials' = serials /\ codecs' = codecs
      /\ Steady /\ (acodec # None => Codec' = Codec)
  BY <1>1, SameWhenUnchanged DEF Invalidates, codecVars, Steady, Codec
<1>3. /\ pictures' \in Seq(Handed) /\ frame' \in Handed
      /\ \A s : Unnamed(pictures, frame, s) => Unnamed(pictures', frame', s)
      /\ \A s, lent : Owned(pictures, frame, kept, s, lent) => Owned(pictures', frame', kept, s, lent)
  <2>1. CASE InvalidateAll
    BY <1>1, <2>1, InvalidatedIs, OwnedUnnamed
  <2>2. CASE pictures' = pictures /\ frame' = frame
    BY <2>2, BuffersTyped
  <2> QED BY <2>1, <2>2 DEF Invalidates
<1>4. Len(<< >>) = 0 /\ << >> \in Seq(Handed)
  OBVIOUS
<1>5. /\ kept' \in Seq(Handed) /\ Len(kept') <= 1
      /\ \A s : Unkept(kept, s) => Unkept(kept', s)
      /\ \A s, lent, pics, fr : Owned(pics, fr, kept, s, lent) => Owned(pics, fr, kept', s, lent)
  <2>1. CASE kept' = kept
    BY <1>1, <2>1 DEF HwTypeOK
  <2>2. CASE kept' = << >>
    BY <1>4, <2>2 DEF Unkept, Owned
  <2> QED BY <2>1, <2>2 DEF Invalidates
<1>6. HwTypeOK'
  BY <1>1, <1>2, <1>3, <1>5 DEF HwTypeOK, Invalidates
<1>7. NoNewNames
  BY <1>3, <1>5 DEF NoNewNames
<1>8. OwnedInv'
  BY <1>1, <1>2, <1>3, <1>5 DEF OwnedInv, Invalidates
<1>9. InHandInv'
  BY <1>2 DEF InHandInv
<1> QED BY <1>2, <1>6, <1>7, <1>8, <1>9, SteadyKeeps

LEMMA StillUnhooked ==
    ASSUME HwInv, codecVars' = codecVars, needReconfigure => needReconfigure', orphaned => orphaned', stopping => stopping',
           feed'.pc \in {"lockAgain", "replace", "stop"} \/ feed.pc \notin {"lockAgain", "replace", "stop"}
    PROVE  acodec # None /\ voutCodec = None =>
              \/ needReconfigure' \/ orphaned' \/ stopping' \/ ~Codec.started
              \/ feed'.pc \in {"lockAgain", "replace", "stop"}
  BY HwTyped DEF CodecsInv

LEMMA FeedInvalidatesKeeps == ASSUME HwInv, FeedInvalidates PROVE HwInv'
<1>1. /\ feed.pc = "check" /\ codecVars' = codecVars /\ kept' = kept
      /\ UNCHANGED <<needReconfigure, app, surface, drain, holder, alone, orphaned, stopping>>
  BY DEF FeedInvalidates, surfaceVars, fixed
<1>2. \/ feed' = [feed EXCEPT !.pc = "flush"] /\ acodec # None /\ Codec.started /\ InvalidateAll
      \/ feed' = [feed EXCEPT !.pc = "crashed"] /\ pictures' = pictures /\ frame' = frame
      \/ feed' = [feed EXCEPT !.pc = "flushed"] /\ pictures' = pictures /\ frame' = frame
  BY DEF FeedInvalidates, At
<1>3. \/ feed'.pc = "flush" /\ feed' \in Feeds /\ acodec # None /\ Codec.started /\ InvalidateAll
      \/ feed'.pc \in {"crashed", "flushed"} /\ feed' \in Feeds /\ pictures' = pictures /\ frame' = frame
  BY <1>2, HwTyped DEF Feeds, FeedPlaces
<1>4. CASE feed'.pc = "flush" /\ feed' \in Feeds /\ acodec # None /\ Codec.started /\ InvalidateAll
  <2>1. Invalidates
    BY <1>1, <1>4, HwTyped DEF Invalidates
  <2>2. TurnsInv'
    BY <1>1, <1>4, HwTyped, InvalidatedIs DEF TurnsInv, Section
  <2>3. Codec.serial \in Int /\ SurfaceInv' /\ MayLose'
    BY <1>1, <1>4, HwTyped, CodecIs, FieldsOfCodec DEF Codec, SurfaceInv, MayLose
  <2>4. Unnamed(pictures', frame', Codec.serial)
    BY <1>4, HwTyped, InvalidatedIs
  <2>5. Moves
    BY <1>1, <1>4, <2>4, HwTyped, StillUnhooked DEF Moves, TurnsInv
  <2> QED BY <2>1, <2>2, <2>3, <2>5, InvalidatesKeeps
<1>5. CASE feed'.pc \in {"crashed", "flushed"} /\ feed' \in Feeds /\ pictures' = pictures /\ frame' = frame
  <2>1. Walks
    BY <1>1, <1>5, HwTyped DEF Walks, buffers
  <2>2. TurnsInv'
    BY <1>1, <1>5, HwTyped DEF TurnsInv, Section
  <2> QED BY <2>1, <2>2, WalkKeeps
<1> QED BY <1>3, <1>4, <1>5

LEMMA FeedRetiresKeeps == ASSUME HwInv, FeedRetires PROVE HwInv'
<1>1. /\ feed.pc = "replace" /\ codecVars' = codecVars /\ kept' = kept
      /\ feed' = [feed EXCEPT !.pc = IF acodec = None THEN "create" ELSE "stop"]
      /\ UNCHANGED <<needReconfigure, app, surface, drain, holder, alone, orphaned, stopping>>
  BY DEF FeedRetires, surfaceVars, fixed, At
<1>2. feed' \in Feeds /\ feed'.pc = IF acodec = None THEN "create" ELSE "stop"
  BY <1>1, HwTyped DEF Feeds, FeedPlaces
<1>3. \/ acodec # None /\ Codec.started /\ InvalidateAll
      \/ ~(acodec # None /\ Codec.started) /\ pictures' = pictures /\ frame' = frame
  BY Zenon DEF FeedRetires
<1>4. Invalidates
  BY <1>1, <1>2, <1>3, HwTyped DEF Invalidates
<1>5. TurnsInv'
  BY <1>1, <1>2, <1>3, HwTyped, InvalidatedIs DEF TurnsInv, Section
<1>6. SurfaceInv' /\ (acodec # None => MayLose')
  BY <1>1, <1>2, HwTyped DEF SurfaceInv, MayLose
<1>7. acodec # None => Unnamed(pictures', frame', Codec.serial)
  <2>1. acodec # None /\ ~Codec.started => Unnamed(pictures, frame, Codec.serial)
    BY DEF HwInv, SerialsInv
  <2> QED BY <1>3, <2>1, HwTyped, InvalidatedIs
<1>8. acodec = None => voutCodec = None
  BY <1>1, HwTyped DEF CodecsInv, TurnsInv
<1>9. drain # "stop" /\ drain # "gone"
  BY <1>1, HwTyped DEF TurnsInv
<1>10. Moves
  BY <1>1, <1>2, <1>7, <1>8, <1>9, StillUnhooked DEF Moves
<1> QED BY <1>4, <1>5, <1>6, <1>10, InvalidatesKeeps

LEMMA DrainEndsKeeps == ASSUME HwInv, DrainEnds PROVE HwInv'
<1>1. /\ drain = "ending" /\ acodec # None /\ codecVars' = codecVars /\ kept' = << >> /\ InvalidateAll
      /\ drain' = "stop"
      /\ UNCHANGED <<needReconfigure, app, surface, feed, holder, alone, orphaned, stopping>>
  BY DEF DrainEnds, surfaceVars, fixed
<1>2. stopping /\ feed.pc \in {"idle", "gone"} /\ frame = NoProxy
  BY <1>1, HwTyped DEF TurnsInv
<1>3. Invalidates
  BY <1>1, <1>2, HwTyped DEF Invalidates, DrainPlaces
<1>4. TurnsInv'
  BY <1>1, <1>2, HwTyped, InvalidatedIs DEF TurnsInv, Section
<1>5. SurfaceInv' /\ MayLose'
  BY <1>1, <1>2, HwTyped DEF SurfaceInv, MayLose
<1>6. Moves
  BY <1>1, <1>2, HwTyped, InvalidatedIs, StillUnhooked DEF Moves
<1> QED BY <1>3, <1>4, <1>5, <1>6, InvalidatesKeeps

LEMMA SetWindowKeeps == ASSUME HwInv, SetWindow PROVE HwInv'
<1>1. /\ codecVars' = codecVars /\ kept' = kept
      /\ UNCHANGED <<needReconfigure, surface, feed, drain, holder, alone, stopping>>
  BY DEF SetWindow, threads
<1>2. PICK s : /\ app' = [pc |-> "window", surface |-> s]
               /\ IF s # window \/ s = Nowhere THEN InvalidateAll ELSE UNCHANGED <<pictures, frame>>
               /\ orphaned' = (orphaned \/ s = surface)
  BY DEF SetWindow
<1>3. orphaned' \in BOOLEAN /\ (orphaned => orphaned') /\ (s = surface => orphaned')
  BY <1>2, Zenon
<1>4. app'.pc = "window" /\ app'.surface = s
  BY <1>2
<1>5. InvalidateAll \/ (pictures' = pictures /\ frame' = frame)
  BY <1>2
<1>6. Invalidates
  BY <1>1, <1>3, <1>5, HwTyped DEF Invalidates
<1>7. TurnsInv'
  BY <1>1, <1>5, HwTyped, InvalidatedIs DEF TurnsInv, Section
<1>8. SurfaceInv' /\ MayLose'
  BY <1>1, <1>3, <1>4 DEF SurfaceInv, MayLose
<1>9. \A t : Unnamed(pictures, frame, t) => Unnamed(pictures', frame', t)
  BY <1>5, HwTyped, InvalidatedIs
<1>10. Moves
  <2>1. CodecsInv /\ SerialsInv
    BY DEF HwInv
  <2>2. feed.pc \in {"flush", "renew", "stop"} \/ drain = "stop" => acodec # None /\ Unnamed(pictures', frame', Codec.serial)
    BY <1>9, <2>1 DEF CodecsInv, SerialsInv
  <2>3. feed.pc = "renew" => codecs'[acodec].lent = {}
    BY <1>1, <2>1, <2>2 DEF SerialsInv, codecVars, Codec
  <2> QED BY <1>1, <1>3, <2>1, <2>2, <2>3, StillUnhooked DEF Moves, CodecsInv
<1> QED BY <1>6, <1>7, <1>8, <1>10, InvalidatesKeeps

\* The flush: the codec has its buffers back.
LEMMA FlushedIs ==
    ASSUME NEW c \in Codecs, c.dummy => c.lent = {} /\ c.inside = 0
    PROVE  Alike(c, CodecFlushed(c)) /\ CodecFlushed(c).lent = {}
<1> DEFINE f == FakeFlushed(c)
<1>1. Alike(c, f) /\ f.lent = c.lent /\ f \in Codecs
  BY FakeFlushedIs DEF Alike
<1>2. CodecFlushed(c) = IF c.dummy THEN DummyFlushed(f) ELSE JavaFlushed(f)
  BY DEF CodecFlushed
<1> HIDE DEF f
<1>3. CASE c.dummy
  <2>1. [f EXCEPT !.dummies = 0] \in Codecs
    BY <1>1 DEF Codecs
  <2>2. Alike(f, [f EXCEPT !.dummies = 0]) /\ [f EXCEPT !.dummies = 0].lent = f.lent /\ Alike(f, f)
    BY <1>1, <2>1 DEF Alike, Codecs
  <2>3. DummyFlushed(f) \in {f, [f EXCEPT !.dummies = 0]}
    BY DEF DummyFlushed
  <2> QED BY <1>1, <1>2, <1>3, <2>2, <2>3, AlikeAgain
<1>4. CASE ~c.dummy
  <2> DEFINE g == [f EXCEPT !.lent = {}]
             h == [g EXCEPT !.inside = 0]
  <2>0. g \in Codecs
    BY <1>1 DEF Codecs
  <2>1. g \in Codecs /\ h \in Codecs
    <3> HIDE DEF g
    <3> QED BY <2>0 DEF Codecs
  <2>2. h.dummy = f.dummy /\ h.serial = f.serial /\ h.started = f.started /\ h.refs = f.refs /\ h.lent = {}
    BY <1>1 DEF Codecs
  <2>3. JavaFlushed(f) = h
    BY DEF JavaFlushed
  <2>4. Alike(c, h)
    BY <1>1, <1>4, <2>1, <2>2 DEF Alike
  <2> QED BY <1>2, <1>4, <2>2, <2>3, <2>4
<1> QED BY <1>3, <1>4, FieldsOfCodec

LEMMA FeedFlushesKeeps == ASSUME HwInv, FeedFlushes PROVE HwInv'
<1>1. /\ feed.pc = "flush" /\ buffers' = buffers /\ feed' = [feed EXCEPT !.pc = "renew"]
      /\ codecs' = [codecs EXCEPT ![acodec] = CodecFlushed(codecs[acodec])]
      /\ UNCHANGED <<serials, acodec, voutCodec, needReconfigure, app, surface, drain, holder, alone, orphaned, stopping>>
  BY DEF FeedFlushes, surfaceVars, fixed, At, Codec
<1>2. feed' \in Feeds /\ feed'.pc = "renew" /\ pictures' = pictures /\ frame' = frame /\ kept' = kept
  BY <1>1, HwTyped DEF Feeds, FeedPlaces, buffers
<1>3. HwTypeOK /\ CodecsInv /\ SerialsInv /\ TurnsInv /\ SurfaceInv
  BY DEF HwInv
<1>4. acodec # None /\ acodec \in DOMAIN codecs /\ Codec = codecs[acodec] /\ Codec \in Codecs
  BY <1>1, <1>3, CodecIs DEF CodecsInv, Codec
<1>5. Codec.dummy => Codec.lent = {} /\ Codec.inside = 0
  BY <1>3, <1>4 DEF CodecsInv
<1>6. Alike(codecs[acodec], CodecFlushed(codecs[acodec])) /\ CodecFlushed(codecs[acodec]).lent = {}
  BY <1>4, <1>5, FlushedIs
<1>7. SameCodecs /\ codecs'[acodec].lent = {} /\ Codec'.lent = {}
  BY <1>1, <1>3, <1>4, <1>6, SameWhenPut DEF Codec
<1>8. HwTypeOK'
  BY <1>1, <1>2, <1>3, <1>7 DEF HwTypeOK, SameCodecs
<1>9. TurnsInv' /\ SurfaceInv'
  BY <1>1, <1>2, <1>3 DEF TurnsInv, SurfaceInv, Section
<1>10. Steady /\ NoNewNames
  BY <1>1, <1>2, <1>7 DEF Steady, NoNewNames
<1>11. Moves
  <2>1. acodec # None /\ Unnamed(pictures', frame', Codec.serial)
    BY <1>1, <1>2, <1>3, <1>4 DEF SerialsInv
  <2>2. voutCodec = None =>
          \/ needReconfigure' \/ orphaned' \/ stopping' \/ ~Codec.started
    BY <1>1, <1>3, <1>4 DEF CodecsInv
  <2> QED BY <1>1, <1>2, <1>7, <2>1, <2>2 DEF Moves
<1>12. OwnedInv'
  BY <1>2 DEF OwnedInv
<1>13. InHandInv'
  BY <1>7, NoneLent DEF InHandInv
<1> QED BY <1>8, <1>9, <1>10, <1>11, <1>12, <1>13, SteadyKeeps


-----------------------------------------------------------------------------
(* A buffer is taken out of the codec. *)

\* The new proxy is kept, or it is the frame, or it is kept and the one that was kept is the frame.
LEMMA TakenOwns ==
    ASSUME NEW pics, NEW kp \in Seq(Handed), Len(kp) \in {0, 1}, NEW s, NEW lent, NEW new \in Handed, NEW lent2,
           Names(new, s) => new.index \notin lent /\ lent2 = lent \cup {new.index},
           ~Names(new, s) => lent2 = lent,
           Owned(pics, NoProxy, kp, s, lent)
    PROVE  /\ Owned(pics, new, kp, s, lent2)
           /\ kp = << >> => Owned(pics, NoProxy, <<new>>, s, lent2)
           /\ kp # << >> => Owned(pics, Head(kp), <<new>>, s, lent2)
           /\ InHand(pics, NoProxy, kp, s, lent) =>
                 /\ InHand(pics, new, kp, s, lent2)
                 /\ kp = << >> => InHand(pics, NoProxy, <<new>>, s, lent2)
                 /\ kp # << >> => InHand(pics, Head(kp), <<new>>, s, lent2)
<1>1. ~Names(NoProxy, s) /\ Len(<<new>>) = 1 /\ <<new>>[1] = new /\ 1 \in 1 .. 1 /\ \A j \in 1 .. 1 : j = 1
  BY NothingNamed
<1>2. /\ kp = << >> => Len(kp) = 0
      /\ kp # << >> => Len(kp) = 1 /\ Head(kp) = kp[1]
  OBVIOUS
<1> DEFINE ks == <<new>>
           h == Head(kp)
<1>3. Len(ks) = 1 /\ ks[1] = new
  BY <1>1
<1> HIDE DEF ks, h
<1>4. lent \subseteq lent2
  OBVIOUS
<1>5. Owned(pics, new, kp, s, lent2)
  BY <1>4 DEF Owned
<1>6. kp = << >> => Owned(pics, NoProxy, ks, s, lent2)
  BY <1>1, <1>3, <1>4 DEF Owned
<1>7. ASSUME kp # << >> PROVE Owned(pics, h, ks, s, lent2)
  <2>1. Len(kp) = 1 /\ h = kp[1] /\ 1 \in 1 .. Len(kp)
    BY <1>2, <1>7 DEF h
  <2> QED BY <1>1, <1>3, <1>4, <2>1 DEF Owned
<1>8. ASSUME InHand(pics, NoProxy, kp, s, lent)
      PROVE  /\ InHand(pics, new, kp, s, lent2)
             /\ kp = << >> => InHand(pics, NoProxy, ks, s, lent2)
             /\ kp # << >> => InHand(pics, h, ks, s, lent2)
  <2>1. \A b \in lent2 : b \in lent \/ (Names(new, s) /\ new.index = b)
    OBVIOUS
  <2>2. InHand(pics, new, kp, s, lent2)
    BY <1>1, <1>8, <2>1 DEF InHand
  <2>3. kp = << >> => InHand(pics, NoProxy, ks, s, lent2)
    BY <1>1, <1>2, <1>3, <1>8, <2>1 DEF InHand
  <2>4. ASSUME kp # << >> PROVE InHand(pics, h, ks, s, lent2)
    <3>1. Len(kp) = 1 /\ h = kp[1] /\ \A j \in 1 .. Len(kp) : j = 1
      BY <1>1, <1>2, <2>4 DEF h
    <3> QED BY <1>1, <1>3, <1>8, <2>1, <3>1 DEF InHand
  <2> QED BY <2>2, <2>3, <2>4
<1> QED BY <1>5, <1>6, <1>7, <1>8 DEF ks, h

LEMMA TakenIs ==
    ASSUME NEW c \in Codecs, NEW got, got.fake \in BOOLEAN, ~got.fake => ~c.dummy /\ got.index \in Outputs
    PROVE  /\ Alike(c, Taken(c, got))
           /\ got.fake => Taken(c, got).lent = c.lent
           /\ ~got.fake => Taken(c, got).lent = c.lent \cup {got.index}
<1>1. CASE got.fake
  <2>1. [c EXCEPT !.fakes = @ - 1] \in Codecs /\ [c EXCEPT !.dummies = @ - 1] \in Codecs
    BY DEF Codecs
  <2>2. Taken(c, got) \in {[c EXCEPT !.fakes = @ - 1], [c EXCEPT !.dummies = @ - 1]}
    BY <1>1 DEF Taken
  <2> QED BY <1>1, <2>1, <2>2 DEF Alike, Codecs
<1>2. CASE ~got.fake
  <2> DEFINE g == [c EXCEPT !.lent = c.lent \cup {got.index}]
             h == [g EXCEPT !.inside = c.inside - 1]
  <2>1. g \in Codecs /\ g.lent = c.lent \cup {got.index}
        /\ g.dummy = c.dummy /\ g.serial = c.serial /\ g.started = c.started /\ g.refs = c.refs
    BY <1>2 DEF Codecs
  <2>2. c.inside - 1 \in Int
    BY FieldsOfCodec
  <2>3. h \in Codecs /\ h.lent = c.lent \cup {got.index}
        /\ h.dummy = c.dummy /\ h.serial = c.serial /\ h.started = c.started /\ h.refs = c.refs
    <3> HIDE DEF g
    <3> QED BY <2>1, <2>2 DEF Codecs
  <2>4. Taken(c, got) = h
    BY <1>2 DEF Taken, Codecs
  <2> QED BY <1>2, <2>3, <2>4 DEF Alike
<1> QED BY <1>1, <1>2

\* The buffers the codec has to give.
LEMMA OutIs ==
    ASSUME HwInv, acodec # None, NEW got \in Out
    PROVE  /\ got.fake \in BOOLEAN /\ got.index \in Int
           /\ ~got.fake => Codec.started /\ ~Codec.dummy /\ got.index \in Outputs \ Codec.lent /\ got.index >= 0
<1>1. Codec.dummy => Codec.inside = 0
  BY HwTyped DEF CodecsInv
<1>2. \/ got = [index |-> 0, fake |-> TRUE]
      \/ Codec.started /\ Codec.inside > 0 /\ \E i \in Outputs \ Codec.lent : got = [index |-> i, fake |-> FALSE]
  BY DEF Out
<1>3. CASE got = [index |-> 0, fake |-> TRUE]
  BY <1>3
<1>4. CASE Codec.started /\ Codec.inside > 0 /\ \E i \in Outputs \ Codec.lent : got = [index |-> i, fake |-> FALSE]
  BY <1>1, <1>4, HwAssumption
<1> QED BY <1>2, <1>3, <1>4

LEMMA DequeuesKeeps ==
    ASSUME HwInv, Dequeues, alone \/ holder' = "none", alone => holder' = holder
    PROVE  HwInv'
<1>1. /\ drain = "dequeue" /\ acodec # None /\ drain' = "drained"
      /\ UNCHANGED <<serials, acodec, voutCodec, needReconfigure, app, surface, pictures, feed, alone, orphaned, stopping>>
  BY DEF Dequeues, surfaceVars, fixed
<1>2. HwTypeOK /\ CodecsInv /\ SerialsInv /\ TurnsInv /\ SurfaceInv /\ OwnedInv /\ InHandInv
  BY DEF HwInv
<1>3. frame = NoProxy /\ feed.pc \notin Section
  BY <1>1, <1>2, HwTyped DEF TurnsInv, Section
<1>4. /\ acodec \in DOMAIN codecs /\ Codec = codecs[acodec] /\ Codec \in Codecs /\ Codec.serial \in Int
      /\ voutCodec # None => voutCodec = acodec
  BY <1>1, <1>2, <1>3, CodecIs, FieldsOfCodec DEF Codec, CodecsInv
<1>5. TurnsInv' /\ SurfaceInv'
  BY <1>1, <1>2, <1>3, HwTyped DEF TurnsInv, SurfaceInv, Section
<1>6. ASSUME NEW got \in Out, Ordered(got) PROVE HwInv'
  <2> DEFINE new == Obtained(Codec.serial, got.index, got.fake)
             d == Taken(Codec, got)
             took == [codecs EXCEPT ![acodec] = d]
  <2>1. /\ got.fake \in BOOLEAN /\ got.index \in Int
        /\ ~got.fake => Codec.started /\ ~Codec.dummy /\ got.index \in Outputs \ Codec.lent /\ got.index >= 0
    BY <1>1, <1>6, OutIs
  <2>2. /\ Alike(Codec, d) /\ (got.fake => d.lent = Codec.lent)
        /\ ~got.fake => d.lent = Codec.lent \cup {got.index}
    BY <1>4, <2>1, TakenIs
  <2>3. /\ new \in Handed /\ new.index = got.index
        /\ \A s : Names(new, s) <=> ~got.fake /\ s = Codec.serial
    BY <1>4, <2>1 DEF Obtained, Handed, Names
  <2> DEFINE back == IF got.fake THEN took ELSE [took EXCEPT ![acodec] = [d EXCEPT !.lent = d.lent \ {got.index}]]
  <2>4. \/ /\ Len(kept) < KeptBack
           /\ kept' = Append(kept, new) /\ codecs' = took /\ frame' = frame
        \/ frame' = new /\ codecs' = took /\ kept' = kept
        \/ /\ KeptBack > 0 /\ Len(kept) = KeptBack
           /\ frame' = Head(kept) /\ kept' = <<new>> /\ codecs' = took
        \/ codecs' = back /\ kept' = kept /\ frame' = frame
    <3>1. took[acodec] = d
      BY <1>4
    <3> HIDE DEF d
    <3>2. [took EXCEPT ![acodec].lent = @ \ {got.index}] = [took EXCEPT ![acodec] = [d EXCEPT !.lent = d.lent \ {got.index}]]
      BY <3>1, <1>4
    <3> QED BY <1>4, <1>6, <3>2 DEF Ordered, d
  <2>5. [d EXCEPT !.lent = d.lent \ {got.index}] \in Codecs /\ Alike(Codec, [d EXCEPT !.lent = d.lent \ {got.index}])
        /\ (~got.fake => [d EXCEPT !.lent = d.lent \ {got.index}].lent = Codec.lent)
    <3>1. d \in Codecs
      BY <2>2 DEF Alike
    <3> HIDE DEF d
    <3>2. /\ [d EXCEPT !.lent = d.lent \ {got.index}] \in Codecs
          /\ [d EXCEPT !.lent = d.lent \ {got.index}].lent = d.lent \ {got.index}
          /\ Alike(d, [d EXCEPT !.lent = d.lent \ {got.index}])
      <4>1. [d EXCEPT !.lent = d.lent \ {got.index}] \in Codecs
        BY <3>1 DEF Codecs
      <4> QED BY <3>1, <4>1 DEF Alike, Codecs
    <3> QED BY <2>1, <2>2, <3>2, AlikeAgain
  <2> HIDE DEF new, d
  <2>6. /\ codecs' = took => SameCodecs /\ codecs'[acodec] = d
        /\ codecs' = back => SameCodecs /\ codecs'[acodec].lent = Codec.lent
    <3> DEFINE e == [d EXCEPT !.lent = d.lent \ {got.index}]
    <3>1. codecs' = took => SameCodecs /\ codecs'[acodec] = d
      BY <1>2, <1>4, <2>2, SameWhenPut
    <3>2. Alike(Codec, e) /\ (~got.fake => e.lent = Codec.lent)
      BY <2>5
    <3>3. [took EXCEPT ![acodec] = e] = [codecs EXCEPT ![acodec] = e]
      <4> HIDE DEF e
      <4> QED BY <1>4
    <3> HIDE DEF e
    <3>4. codecs' = [codecs EXCEPT ![acodec] = e] => SameCodecs /\ codecs'[acodec] = e
      BY <1>2, <1>4, <3>2, SameWhenPut
    <3>5. back = IF got.fake THEN took ELSE [codecs EXCEPT ![acodec] = e]
      BY <3>3 DEF e
    <3> HIDE DEF back, took
    <3> QED BY <2>1, <2>2, <3>1, <3>2, <3>4, <3>5
  <2> HIDE DEF took, back
  <2>7. /\ Len(kept) \in {0, 1} /\ kept \in Seq(Handed) /\ pictures \in Seq(Handed)
        /\ KeptBack \in {0, 1}
    BY BuffersTyped, HwAssumption
  <2>8. \/ /\ codecs' = took
           /\ \/ kept = << >> /\ kept' = <<new>> /\ frame' = NoProxy
              \/ frame' = new /\ kept' = kept
              \/ kept # << >> /\ frame' = Head(kept) /\ kept' = <<new>>
        \/ codecs' = back /\ kept' = kept /\ frame' = NoProxy
    <3>1. \A n \in {0, 1} : n < KeptBack => n = 0
      BY <2>7
    <3>2. Len(kept) < KeptBack => kept = << >> /\ Append(kept, new) = <<new>>
      <4>1. Len(kept) = 0 => kept = << >>
        BY <2>7
      <4>2. Append(<< >>, new) = <<new>>
        OBVIOUS
      <4> QED BY <2>7, <3>1, <4>1, <4>2
    <3>3. KeptBack > 0 /\ Len(kept) = KeptBack => kept # << >>
      BY <2>7
    <3> QED BY <1>3, <2>4, <3>2, <3>3
  <2>9. SameCodecs
    BY <2>6, <2>8
  <2>10. acodec # None => Codec'.serial = Codec.serial /\ Codec'.lent = codecs'[acodec].lent
    BY <1>1, <1>4, <2>9 DEF SameCodecs, Alike, Codec
  <2>11. <<new>> \in Seq(Handed) /\ Len(<<new>>) = 1 /\ (kept # << >> => Head(kept) \in Handed /\ Head(kept) = kept[1])
    BY <2>3, <2>7
  <2>12. HwTypeOK'
    <3>1. kept' \in Seq(Handed) /\ Len(kept') <= 1 /\ frame' \in Handed
      <4>1. Len(kept) <= 1
        BY <1>2 DEF HwTypeOK
      <4>2. Len(<<new>>) <= 1
        BY <2>11
      <4>3. kept' = kept \/ kept' = <<new>>
        BY <2>8
      <4>4. frame' \in {NoProxy, new} \/ (kept # << >> /\ frame' = Head(kept))
        BY <2>8
      <4> QED BY <2>3, <2>7, <2>11, <4>1, <4>2, <4>3, <4>4, NothingNamed
    <3> QED BY <1>1, <1>2, <2>9, <3>1 DEF HwTypeOK, SameCodecs, DrainPlaces
  <2>13. Steady
    BY <1>1, <2>1, <2>2, <2>6, <2>8, <2>9 DEF Steady
  <2>14. Moves
    <3>1. feed'.pc = feed.pc /\ feed.pc \notin {"flush", "renew", "stop", "unhook", "create", "configure"}
      BY <1>1, <1>3 DEF Section
    <3>2. voutCodec = None =>
          \/ needReconfigure' \/ orphaned' \/ stopping' \/ ~Codec.started
          \/ feed'.pc \in {"lockAgain", "replace", "stop"}
      BY <1>1, <1>2 DEF CodecsInv
    <3> QED BY <1>1, <3>1, <3>2 DEF Moves
  <2>15. NoNewNames
    <3> SUFFICES ASSUME NEW s \in Int, Unnamed(pictures, frame, s), Unkept(kept, s),
                        ~(Codec.started /\ ~Codec.dummy /\ s = Codec.serial)
                 PROVE  Unnamed(pictures, frame', s) /\ Unkept(kept', s)
      BY <1>1 DEF NoNewNames
    <3>1. ~Names(new, s) /\ ~Names(NoProxy, s)
      BY <2>1, <2>3, NothingNamed
    <3>2. Unkept(<<new>>, s)
      BY <3>1 DEF Unkept
    <3>3. kept # << >> => ~Names(Head(kept), s)
      BY <2>7, <2>11 DEF Unkept
    <3> QED BY <2>8, <3>1, <3>2, <3>3 DEF Unnamed
  <2>16. Owned(pictures, NoProxy, kept, Codec.serial, Codec.lent)
    BY <1>1, <1>2, <1>3 DEF OwnedInv, Section
  <2>17. /\ Names(new, Codec.serial) => new.index \notin Codec.lent /\ d.lent = Codec.lent \cup {new.index}
         /\ ~Names(new, Codec.serial) => d.lent = Codec.lent
    BY <2>1, <2>2, <2>3
  <2>23. LET lent2 == d.lent IN
           /\ Owned(pictures, new, kept, Codec.serial, lent2)
           /\ kept = << >> => Owned(pictures, NoProxy, <<new>>, Codec.serial, lent2)
           /\ kept # << >> => Owned(pictures, Head(kept), <<new>>, Codec.serial, lent2)
           /\ InHand(pictures, NoProxy, kept, Codec.serial, Codec.lent) =>
                 /\ InHand(pictures, new, kept, Codec.serial, lent2)
                 /\ kept = << >> => InHand(pictures, NoProxy, <<new>>, Codec.serial, lent2)
                 /\ kept # << >> => InHand(pictures, Head(kept), <<new>>, Codec.serial, lent2)
    BY <2>3, <2>7, <2>16, <2>17, TakenOwns
  <2>18. Owned(pictures, frame', kept', Codec.serial, codecs'[acodec].lent)
    BY <2>6, <2>8, <2>16, <2>23
  <2>19. OwnedInv'
    BY <1>1, <2>10, <2>18 DEF OwnedInv
  <2>20. MayLose => MayLose'
    BY <1>1 DEF MayLose
  <2>21. InHand(pictures, NoProxy, kept, Codec.serial, Codec.lent) =>
            InHand(pictures, frame', kept', Codec.serial, codecs'[acodec].lent)
    BY <2>6, <2>8, <2>23
  <2>22. InHandInv'
    BY <1>1, <1>2, <1>3, <2>10, <2>20, <2>21 DEF InHandInv
  <2> QED BY <1>5, <2>12, <2>13, <2>14, <2>15, <2>19, <2>22, SteadyKeeps
<1>7. ASSUME codecs' = codecs, kept' = kept, frame' = frame PROVE HwInv'
  <2>1. Walks
    BY <1>1, <1>3, <1>7, HwTyped DEF Walks, codecVars, buffers, DrainPlaces
  <2> QED BY <1>5, <2>1, WalkKeeps
<1> QED BY <1>6, <1>7 DEF Dequeues

LEMMA DrainDequeuesKeeps == ASSUME HwInv, DrainDequeues PROVE HwInv'
  BY DequeuesKeeps DEF DrainDequeues
LEMMA LoopDequeuesKeeps == ASSUME HwInv, LoopDequeues PROVE HwInv'
  BY DequeuesKeeps DEF LoopDequeues


-----------------------------------------------------------------------------
(* The codec gets another serial, is stopped, unhooked, created and configured. *)

LEMMA FreshOwned ==
    ASSUME NEW pics, NEW fr, NEW kp, NEW s, NEW lent, Unnamed(pics, fr, s), Unkept(kp, s)
    PROVE  Owned(pics, fr, kp, s, lent)
  BY DEF Owned, Unnamed, Unkept

LEMMA NotYetNamed ==
    ASSUME HwInv
    PROVE  /\ Unnamed(pictures, frame, serials + 1) /\ Unkept(kept, serials + 1)
           /\ Unnamed(pictures, frame, 0) /\ Unkept(kept, 0)
           /\ serials \in Nat /\ serials + 1 \in Nat
<1>1. serials \in Nat /\ SerialsInv
  BY DEF HwInv, HwTypeOK
<1>2. serials + 1 \in Int /\ serials + 1 > serials /\ 0 \in Int /\ 0 < 1
  BY <1>1
<1> QED BY <1>1, <1>2 DEF SerialsInv

LEMMA RenewedIs ==
    ASSUME NEW c \in Codecs, NEW s \in Nat
    PROVE  /\ [c EXCEPT !.serial = s] \in Codecs /\ [c EXCEPT !.serial = s].serial = s
           /\ [c EXCEPT !.serial = s].dummy = c.dummy /\ [c EXCEPT !.serial = s].started = c.started
           /\ [c EXCEPT !.serial = s].lent = c.lent /\ [c EXCEPT !.serial = s].refs = c.refs
           /\ [c EXCEPT !.serial = s].inside = c.inside
<1>1. [c EXCEPT !.serial = s] \in Codecs
  BY DEF Codecs
<1> QED BY <1>1 DEF Codecs

LEMMA FeedRenewsKeeps == ASSUME HwInv, FeedRenews PROVE HwInv'
<1>1. /\ feed.pc = "renew" /\ feed' = [feed EXCEPT !.pc = "flushed"]
      /\ UNCHANGED <<acodec, voutCodec, needReconfigure, app, surface, pictures, frame, kept, drain, holder,
                     alone, orphaned, stopping>>
  BY DEF FeedRenews, surfaceVars, fixed, buffers, At
<1>2. feed' \in Feeds /\ feed'.pc = "flushed"
  BY <1>1, HwTyped DEF Feeds, FeedPlaces
<1>3. HwTypeOK /\ CodecsInv /\ SerialsInv /\ TurnsInv /\ SurfaceInv
  BY DEF HwInv
<1>4. /\ acodec # None /\ acodec \in DOMAIN codecs /\ Codec = codecs[acodec] /\ Codec \in Codecs
      /\ voutCodec # None => voutCodec = acodec
      /\ drain \notin {"stop", "gone"}
  BY <1>1, <1>3, CodecIs DEF CodecsInv, Codec, TurnsInv
<1>5. Codec.lent = {}
  BY <1>1, <1>3 DEF SerialsInv
<1>6. TurnsInv' /\ SurfaceInv'
  BY <1>1, <1>2, <1>3, <1>4 DEF TurnsInv, SurfaceInv, Section
<1>7. /\ codecs' \in Seq(Codecs) /\ DOMAIN codecs' = DOMAIN codecs /\ serials' \in Nat /\ serials' >= serials
      /\ Codec' = codecs'[acodec] /\ Codec'.lent = {} /\ Codec'.dummy = Codec.dummy /\ Codec'.started = Codec.started
      /\ Codec'.refs = Codec.refs /\ Codec'.inside = Codec.inside
      /\ \/ Codec'.dummy /\ Codec'.serial = 0
         \/ ~Codec'.dummy /\ Codec'.serial = serials + 1 /\ serials' = serials + 1
  <2>1. CASE Codec.dummy
    <3>1. codecs' = codecs /\ serials' = serials
      BY <2>1 DEF FeedRenews
    <3>2. Codec' = codecs'[acodec] /\ Codec' = Codec
      BY <1>1, <3>1 DEF Codec
    <3>3. Codec.serial = 0
      BY <1>3, <1>4, <2>1 DEF CodecsInv
    <3>4. serials \in Nat /\ serials >= serials /\ codecs \in Seq(Codecs)
      BY <1>3 DEF HwTypeOK
    <3> QED BY <1>5, <2>1, <3>1, <3>2, <3>3, <3>4
  <2>2. CASE ~Codec.dummy
    <3> DEFINE d == [Codec EXCEPT !.serial = serials + 1]
    <3>1. /\ d \in Codecs /\ d.serial = serials + 1 /\ d.dummy = Codec.dummy /\ d.started = Codec.started
          /\ d.lent = Codec.lent /\ d.refs = Codec.refs /\ d.inside = Codec.inside
      BY <1>4, NotYetNamed, RenewedIs
    <3>2. codecs' = [codecs EXCEPT ![acodec] = d] /\ serials' = serials + 1
      BY <1>4, <2>2 DEF FeedRenews
    <3> HIDE DEF d
    <3>3. codecs' \in Seq(Codecs) /\ DOMAIN codecs' = DOMAIN codecs /\ codecs'[acodec] = d
      BY <1>3, <1>4, <3>1, <3>2, CodecPut DEF HwTypeOK
    <3>4. Codec' = d
      BY <1>1, <3>3 DEF Codec
    <3>5. serials' \in Nat /\ serials' >= serials
      BY <3>2, NotYetNamed
    <3> QED BY <1>1, <1>5, <2>2, <3>1, <3>2, <3>3, <3>4, <3>5
  <2> QED BY <2>1, <2>2
<1>8. HwTypeOK'
  BY <1>1, <1>2, <1>3, <1>7 DEF HwTypeOK
<1>9. CodecsInv'
  <2>1. /\ voutCodec # None => voutCodec = acodec
        /\ voutCodec = acodec => Codec'.started /\ Codec'.refs = 2
        /\ voutCodec # acodec => Codec'.refs = 1
    BY <1>3, <1>4, <1>7 DEF CodecsInv
  <2>2. voutCodec = None => needReconfigure \/ orphaned \/ stopping \/ ~Codec'.started
    BY <1>1, <1>3, <1>4, <1>7 DEF CodecsInv
  <2>3. /\ Codec'.dummy => Codec'.serial = 0 /\ Codec'.lent = {} /\ Codec'.inside = 0
        /\ ~Codec'.dummy => 1 <= Codec'.serial /\ Codec'.serial <= serials'
    BY <1>3, <1>4, <1>7, NotYetNamed DEF CodecsInv
  <2> QED BY <1>1, <1>2, <1>4, <1>7, <2>1, <2>2, <2>3 DEF CodecsInv
<1>10. Unnamed(pictures, frame, Codec'.serial) /\ Unkept(kept, Codec'.serial)
  BY <1>7, NotYetNamed
<1>11. SerialsInv'
  <2>1. \A s \in Int : s > serials' \/ s < 1 => Unnamed(pictures, frame, s) /\ Unkept(kept, s)
    <3>1. \A s \in Int : s > serials' => s > serials
      BY <1>7, NotYetNamed
    <3> QED BY <1>3, <3>1 DEF SerialsInv
  <2> QED BY <1>1, <1>2, <1>4, <1>10, <2>1 DEF SerialsInv
<1>12. OwnedInv'
  BY <1>1, <1>10, FreshOwned DEF OwnedInv
<1>13. InHandInv'
  BY <1>1, <1>7, NoneLent DEF InHandInv
<1> QED BY <1>6, <1>8, <1>9, <1>11, <1>12, <1>13 DEF HwInv

LEMMA RefsPut ==
    ASSUME NEW c \in Codecs, NEW k \in Int
    PROVE  /\ [c EXCEPT !.refs = k] \in Codecs /\ [c EXCEPT !.refs = k].refs = k
           /\ [c EXCEPT !.refs = k].lent = c.lent /\ [c EXCEPT !.refs = k].serial = c.serial
           /\ [c EXCEPT !.refs = k].started = c.started /\ [c EXCEPT !.refs = k].dummy = c.dummy
           /\ [c EXCEPT !.refs = k].inside = c.inside
<1>1. [c EXCEPT !.refs = k] \in Codecs
  BY DEF Codecs
<1> QED BY <1>1 DEF Codecs

LEMMA DeletedIs == Deleted \in Codecs
<1>1. NewCodec(TRUE, 0) \in Codecs
  BY DEF NewCodec, Codecs
<1>2. ASSUME NEW x \in Codecs PROVE [x EXCEPT !.refs = 0] \in Codecs
  BY DEF Codecs
<1> QED BY <1>1, <1>2 DEF Deleted

\* A reference is dropped: the codec is deleted, or has one less.
LEMMA UnreferencedIs ==
    ASSUME NEW cs \in Seq(Codecs), NEW n \in DOMAIN cs, n # None
    PROVE  /\ Unreferenced(cs, n) \in Seq(Codecs) /\ DOMAIN Unreferenced(cs, n) = DOMAIN cs
           /\ \A m \in DOMAIN cs : m # n => Unreferenced(cs, n)[m] = cs[m]
           /\ cs[n].refs = 2 =>
                 /\ Unreferenced(cs, n)[n].refs = 1 /\ Unreferenced(cs, n)[n].lent = cs[n].lent
                 /\ Unreferenced(cs, n)[n].serial = cs[n].serial /\ Unreferenced(cs, n)[n].started = cs[n].started
                 /\ Unreferenced(cs, n)[n].dummy = cs[n].dummy /\ Unreferenced(cs, n)[n].inside = cs[n].inside
<1> DEFINE c == cs[n]
           d == [c EXCEPT !.refs = c.refs - 1]
<1>1. c \in Codecs /\ c.refs - 1 \in Int /\ Deleted \in Codecs
  <2>3. c \in Codecs
    OBVIOUS
  <2> HIDE DEF c
  <2> QED BY <2>3, DeletedIs, FieldsOfCodec
<1>2. /\ d \in Codecs /\ d.refs = c.refs - 1 /\ d.lent = c.lent /\ d.serial = c.serial /\ d.started = c.started
      /\ d.dummy = c.dummy /\ d.inside = c.inside
  BY <1>1, RefsPut
<1>3. /\ c.refs = 1 => Unreferenced(cs, n) = [cs EXCEPT ![n] = Deleted]
      /\ c.refs # 1 => Unreferenced(cs, n) = [cs EXCEPT ![n] = d]
  BY DEF Unreferenced
<1> HIDE DEF d
<1>5. CASE c.refs = 1
  BY <1>1, <1>3, <1>5, CodecPut
<1>6. CASE c.refs # 1
  <2>1. /\ Unreferenced(cs, n) \in Seq(Codecs) /\ DOMAIN Unreferenced(cs, n) = DOMAIN cs
        /\ \A m \in DOMAIN cs : m # n => Unreferenced(cs, n)[m] = cs[m]
        /\ Unreferenced(cs, n)[n] = d
    BY <1>2, <1>3, <1>6, CodecPut
  <2>2. c.refs = 2 => c.refs - 1 = 1
    OBVIOUS
  <2> QED BY <1>2, <2>1, <2>2
<1> QED BY <1>5, <1>6

\* A codec that is stopped takes its buffers back, with a new serial unless it is a dummy.
LEMMA StoppedIs ==
    ASSUME NEW c \in Codecs, NEW s \in Nat
    PROVE  /\ CodecStopped(c, s) \in Codecs /\ CodecStopped(c, s).refs = c.refs
           /\ CodecStopped(c, s).serial = IF c.dummy THEN c.serial ELSE s
<1> DEFINE a == [c EXCEPT !.abort = TRUE]
           i == [a EXCEPT !.started = FALSE]
           l == [i EXCEPT !.lent = {}]
           k == [l EXCEPT !.inside = 0]
           r == [k EXCEPT !.serial = s]
<1>1. a \in Codecs /\ a.refs = c.refs /\ a.serial = c.serial /\ a.dummy = c.dummy
  <2>1. a \in Codecs
    BY DEF Codecs
  <2> QED BY <2>1 DEF Codecs
<1>2. CodecStopped(c, s) = IF c.dummy THEN i ELSE r
  BY DEF CodecStopped, FakeAborted, JavaStopped
<1> HIDE DEF a
<1>3. i \in Codecs /\ i.refs = c.refs /\ i.serial = c.serial /\ i.dummy = c.dummy
  <2>1. i \in Codecs
    BY <1>1 DEF Codecs
  <2> QED BY <1>1, <2>1 DEF Codecs
<1> HIDE DEF i
<1>4. l \in Codecs /\ l.refs = c.refs
  <2>1. l \in Codecs
    BY <1>3 DEF Codecs
  <2> QED BY <1>3, <2>1 DEF Codecs
<1> HIDE DEF l
<1>5. k \in Codecs /\ k.refs = c.refs
  <2>1. k \in Codecs
    BY <1>4 DEF Codecs
  <2> QED BY <1>4, <2>1 DEF Codecs
<1> HIDE DEF k
<1>6. r \in Codecs /\ r.refs = c.refs /\ r.serial = s
  <2>1. r \in Codecs
    BY <1>5 DEF Codecs
  <2> QED BY <1>5, <2>1 DEF Codecs
<1> HIDE DEF r
<1> QED BY <1>2, <1>3, <1>6, FieldsOfCodec

LEMMA StoppedKeeps ==
    ASSUME HwInv, acodec # None, acodec' = None, voutCodec' = voutCodec,
           pictures' = pictures, frame' = frame, kept' = kept,
           UNCHANGED <<needReconfigure, app, surface, alone, orphaned, stopping>>,
           NEW c \in Codecs, c.refs = Codec.refs, voutCodec = acodec => c.serial \in {0, serials + 1},
           codecs' = Unreferenced([codecs EXCEPT ![acodec] = c], acodec), serials' \in {serials, serials + 1},
           feed' \in Feeds, drain' \in DrainPlaces, drain' # "stop",
           feed'.pc = "unhook" \/ (feed'.pc \in {"idle", "gone"} /\ drain' = "gone"),
           TurnsInv'
    PROVE  HwInv'
<1>1. HwTypeOK /\ CodecsInv /\ SerialsInv /\ SurfaceInv
  BY DEF HwInv
<1>2. acodec \in DOMAIN codecs /\ codecs \in Seq(Codecs) /\ (voutCodec # None => voutCodec = acodec)
  BY <1>1, CodecIs DEF CodecsInv, HwTypeOK
<1> DEFINE cs == [codecs EXCEPT ![acodec] = c]
<1>3. cs \in Seq(Codecs) /\ DOMAIN cs = DOMAIN codecs /\ cs[acodec] = c
  BY <1>2, CodecPut
<1>4. /\ codecs' \in Seq(Codecs) /\ DOMAIN codecs' = DOMAIN codecs
      /\ c.refs = 2 => codecs'[acodec].refs = 1 /\ codecs'[acodec].serial = c.serial
  <2> HIDE DEF cs
  <2>1. codecs' = Unreferenced(cs, acodec)
    BY DEF cs
  <2> QED BY <1>2, <1>3, <2>1, UnreferencedIs
<1>5. voutCodec # None => /\ codecs'[voutCodec].refs = 1
                          /\ Unnamed(pictures, frame, codecs'[voutCodec].serial)
                          /\ Unkept(kept, codecs'[voutCodec].serial)
  BY <1>1, <1>2, <1>4, NotYetNamed DEF CodecsInv
<1>6. serials' \in Nat /\ \A s \in Int : s > serials' => s > serials
  BY NotYetNamed
<1>7. HwTypeOK'
  BY <1>1, <1>4, <1>6 DEF HwTypeOK
<1>8. CodecsInv'
  BY <1>5 DEF CodecsInv
<1>9. SerialsInv'
  <2>1. \A s \in Int : s > serials' \/ s < 1 => Unnamed(pictures, frame, s) /\ Unkept(kept, s)
    BY <1>1, <1>6 DEF SerialsInv
  <2> QED BY <1>5, <2>1 DEF SerialsInv
<1>10. SurfaceInv' /\ OwnedInv' /\ InHandInv'
  BY <1>1 DEF SurfaceInv, OwnedInv, InHandInv
<1> QED BY <1>7, <1>8, <1>9, <1>10 DEF HwInv

LEMMA FeedStopsCodecKeeps == ASSUME HwInv, FeedStopsCodec PROVE HwInv'
<1> DEFINE c == IF Codec.started THEN CodecStopped(Codec, serials + 1) ELSE Codec
<1>1. /\ feed.pc = "stop" /\ feed' = [feed EXCEPT !.pc = "unhook"] /\ acodec' = None
      /\ UNCHANGED <<voutCodec, needReconfigure, app, surface, pictures, frame, kept, drain, holder,
                     alone, orphaned, stopping>>
  BY DEF FeedStopsCodec, surfaceVars, fixed, buffers, At
<1>2. feed' \in Feeds /\ feed'.pc = "unhook"
  BY <1>1, HwTyped DEF Feeds, FeedPlaces
<1>3. CodecsInv /\ TurnsInv /\ HwTypeOK
  BY HwTyped
<1>4. acodec # None /\ acodec \in DOMAIN codecs /\ Codec = codecs[acodec] /\ Codec \in Codecs
  BY <1>1, <1>3, CodecIs DEF CodecsInv, Codec
<1>5. /\ c \in Codecs /\ c.refs = Codec.refs
      /\ voutCodec = acodec => c.serial \in {0, serials + 1}
  <2>1. voutCodec = acodec => Codec.started
    BY <1>3, <1>4 DEF CodecsInv
  <2>2. Codec.dummy => Codec.serial = 0
    BY <1>3, <1>4 DEF CodecsInv
  <2>3. /\ CodecStopped(Codec, serials + 1) \in Codecs /\ CodecStopped(Codec, serials + 1).refs = Codec.refs
        /\ CodecStopped(Codec, serials + 1).serial = IF Codec.dummy THEN Codec.serial ELSE serials + 1
    BY <1>4, NotYetNamed, StoppedIs
  <2> QED BY <1>4, <2>1, <2>2, <2>3
<1>6. codecs' = Unreferenced([codecs EXCEPT ![acodec] = c], acodec) /\ serials' \in {serials, serials + 1}
  <2>1. serials' \in {serials, serials + 1}
    BY DEF FeedStopsCodec
  <2>2. CASE Codec.started
    BY <1>4, <2>1, <2>2 DEF FeedStopsCodec
  <2>3. CASE ~Codec.started
    <3>1. codecs' = Unreferenced(codecs, acodec)
      BY <2>3 DEF FeedStopsCodec
    <3>2. [codecs EXCEPT ![acodec] = codecs[acodec]] = codecs
      BY <1>3, <1>4 DEF HwTypeOK
    <3> QED BY <1>4, <2>1, <2>3, <3>1, <3>2
  <2> QED BY <2>2, <2>3
<1>7. TurnsInv' /\ drain' # "stop"
  BY <1>1, <1>2, <1>3 DEF TurnsInv, Section
<1> HIDE DEF c
<1> QED BY <1>1, <1>2, <1>4, <1>5, <1>6, <1>7, HwTyped, StoppedKeeps

LEMMA DrainStopsCodecKeeps == ASSUME HwInv, DrainStopsCodec PROVE HwInv'
<1> DEFINE c == CodecStopped(Codec, serials + 1)
<1>1. /\ drain = "stop" /\ drain' = "gone" /\ acodec' = None /\ feed' = feed
      /\ codecs' = Unreferenced([codecs EXCEPT ![acodec] = CodecStopped(codecs[acodec], serials + 1)], acodec)
      /\ serials' \in {serials, serials + 1}
      /\ UNCHANGED <<voutCodec, needReconfigure, app, surface, pictures, frame, kept, holder,
                     alone, orphaned, stopping>>
  BY DEF DrainStopsCodec, surfaceVars, fixed, buffers
<1>2. CodecsInv /\ TurnsInv /\ HwTypeOK
  BY HwTyped
<1>3. acodec # None /\ acodec \in DOMAIN codecs /\ Codec = codecs[acodec] /\ Codec \in Codecs
  BY <1>1, <1>2, CodecIs DEF CodecsInv, Codec
<1>4. c \in Codecs /\ c.refs = Codec.refs /\ c.serial \in {0, serials + 1}
  <2>1. Codec.dummy => Codec.serial = 0
    BY <1>2, <1>3 DEF CodecsInv
  <2>2. c \in Codecs /\ c.refs = Codec.refs /\ c.serial = IF Codec.dummy THEN Codec.serial ELSE serials + 1
    BY <1>3, NotYetNamed, StoppedIs
  <2> QED BY <2>1, <2>2
<1>5. codecs' = Unreferenced([codecs EXCEPT ![acodec] = c], acodec)
  BY <1>1, <1>3
<1>6. TurnsInv' /\ feed'.pc \in {"idle", "gone"}
  BY <1>1, <1>2 DEF TurnsInv, Section
<1> HIDE DEF c
<1> QED BY <1>1, <1>3, <1>4, <1>5, <1>6, HwTyped, StoppedKeeps DEF DrainPlaces


\* The vout lets its codec go.
LEMMA UnhookedIs ==
    ASSUME HwInv, SetCodec(codecs, None), acodec' = acodec
    PROVE  /\ voutCodec' = None /\ codecs' \in Seq(Codecs) /\ DOMAIN codecs' = DOMAIN codecs
           /\ acodec # None => /\ Codec'.refs = 1 /\ Codec'.dummy = Codec.dummy /\ Codec'.serial = Codec.serial
                               /\ Codec'.started = Codec.started /\ Codec'.lent = Codec.lent
                               /\ Codec'.inside = Codec.inside
           /\ pictures' \in Seq(Handed) /\ frame' \in Handed
           /\ frame = NoProxy => frame' = NoProxy
           /\ \A s : Unnamed(pictures, frame, s) => Unnamed(pictures', frame', s)
           /\ \A s, lent : Owned(pictures, frame, kept, s, lent) => Owned(pictures', frame', kept, s, lent)
<1>1. HwTypeOK /\ CodecsInv
  BY DEF HwInv
<1>2. voutCodec' = None
  BY DEF SetCodec
<1>3. CASE voutCodec = None
  <2>1. codecs' = codecs /\ pictures' = pictures /\ frame' = frame
    BY <1>3 DEF SetCodec
  <2>2. acodec # None => Codec.refs = 1 /\ Codec' = Codec
    BY <1>1, <1>3, <2>1 DEF CodecsInv, Codec
  <2> QED BY <1>1, <1>2, <2>1, <2>2, BuffersTyped DEF HwTypeOK
<1>4. CASE voutCodec # None
  <2>1. InvalidateAll /\ codecs' = Unreferenced(codecs, voutCodec)
    BY <1>4 DEF SetCodec
  <2>2. voutCodec \in DOMAIN codecs /\ codecs \in Seq(Codecs)
    BY <1>1, <1>4, CodecIs DEF HwTypeOK
  <2>3. codecs' \in Seq(Codecs) /\ DOMAIN codecs' = DOMAIN codecs
    BY <1>4, <2>1, <2>2, UnreferencedIs
  <2>4. acodec # None => /\ Codec'.refs = 1 /\ Codec'.dummy = Codec.dummy /\ Codec'.serial = Codec.serial
                         /\ Codec'.started = Codec.started /\ Codec'.lent = Codec.lent
                         /\ Codec'.inside = Codec.inside
    <3> SUFFICES ASSUME acodec # None
                 PROVE  /\ codecs'[acodec].refs = 1 /\ codecs'[acodec].dummy = codecs[acodec].dummy
                        /\ codecs'[acodec].serial = codecs[acodec].serial
                        /\ codecs'[acodec].started = codecs[acodec].started
                        /\ codecs'[acodec].lent = codecs[acodec].lent
                        /\ codecs'[acodec].inside = codecs[acodec].inside
      BY DEF Codec
    <3>1. voutCodec = acodec /\ codecs[voutCodec].refs = 2
      BY <1>1, <1>4 DEF CodecsInv, Codec
    <3> QED BY <1>4, <2>1, <2>2, <3>1, UnreferencedIs
  <2> QED BY <1>1, <1>2, <2>1, <2>3, <2>4, InvalidatedIs, OwnedUnnamed
<1> QED BY <1>3, <1>4

LEMMA UnhooksKeeps ==
    ASSUME HwInv, SetCodec(codecs, None), acodec' = acodec, serials' = serials, kept' = kept,
           UNCHANGED <<alone, orphaned, stopping, drain>>,
           \/ /\ feed.pc = "unhook" /\ feed' \in Feeds /\ feed'.pc = "create"
              /\ needReconfigure' = needReconfigure
           \/ feed' = feed /\ needReconfigure' = TRUE,
           TurnsInv', SurfaceInv'
    PROVE  HwInv'
<1>1. HwTypeOK /\ CodecsInv /\ SerialsInv /\ TurnsInv /\ OwnedInv
  BY DEF HwInv
<1>2. /\ voutCodec' = None /\ codecs' \in Seq(Codecs) /\ DOMAIN codecs' = DOMAIN codecs
      /\ acodec # None => /\ Codec'.refs = 1 /\ Codec'.dummy = Codec.dummy /\ Codec'.serial = Codec.serial
                          /\ Codec'.started = Codec.started /\ Codec'.lent = Codec.lent
                          /\ Codec'.inside = Codec.inside
      /\ pictures' \in Seq(Handed) /\ frame' \in Handed
      /\ \A s : Unnamed(pictures, frame, s) => Unnamed(pictures', frame', s)
      /\ \A s, lent : Owned(pictures, frame, kept, s, lent) => Owned(pictures', frame', kept, s, lent)
  BY UnhookedIs
<1>3. feed' \in Feeds /\ needReconfigure' \in BOOLEAN
  BY HwTyped
<1>4. \/ feed.pc = "unhook" /\ feed'.pc = "create" /\ acodec = None
      \/ feed' = feed /\ needReconfigure'
  BY <1>1 DEF CodecsInv
<1>5. HwTypeOK'
  BY <1>1, <1>2, <1>3 DEF HwTypeOK
<1>6. CodecsInv'
  <2>1. acodec # None =>
          /\ Codec'.dummy => Codec'.serial = 0 /\ Codec'.lent = {} /\ Codec'.inside = 0
          /\ ~Codec'.dummy => 1 <= Codec'.serial /\ Codec'.serial <= serials
          /\ ~Codec'.started => Codec'.lent = {}
    BY <1>1, <1>2 DEF CodecsInv
  <2>2. /\ feed'.pc \in {"unhook", "create"} => acodec = None
        /\ feed'.pc \in {"flush", "renew", "stop", "configure"} \/ drain = "stop" => acodec # None
        /\ feed'.pc = "configure" => ~Codec'.started
    BY <1>1, <1>2, <1>4 DEF CodecsInv, TurnsInv
  <2>3. acodec # None => needReconfigure'
    BY <1>4
  <2> QED BY <1>2, <2>1, <2>2, <2>3 DEF CodecsInv
<1>7. SerialsInv'
  <2>1. \A s \in Int : s > serials \/ s < 1 => Unnamed(pictures', frame', s) /\ Unkept(kept, s)
    BY <1>1, <1>2 DEF SerialsInv
  <2>2. acodec # None /\ ~Codec'.started => Unnamed(pictures', frame', Codec'.serial) /\ Unkept(kept, Codec'.serial)
    BY <1>1, <1>2 DEF SerialsInv
  <2>3. feed'.pc \in {"flush", "renew", "stop"} \/ drain = "stop" => acodec # None /\ Unnamed(pictures', frame', Codec'.serial)
    BY <1>1, <1>2, <1>4 DEF SerialsInv, CodecsInv, TurnsInv
  <2>4. feed'.pc = "renew" => acodec # None /\ Codec'.lent = {}
    BY <1>1, <1>2, <1>4 DEF SerialsInv, CodecsInv
  <2> QED BY <1>2, <2>1, <2>2, <2>3, <2>4 DEF SerialsInv
<1>8. OwnedInv'
  BY <1>1, <1>2, <1>4 DEF OwnedInv
<1>9. InHandInv'
  BY <1>2 DEF InHandInv, MayLose
<1> QED BY <1>5, <1>6, <1>7, <1>8, <1>9 DEF HwInv

LEMMA FeedUnhooksKeeps == ASSUME HwInv, FeedUnhooks PROVE HwInv'
<1>1. /\ feed.pc = "unhook" /\ SetCodec(codecs, None) /\ feed' = [feed EXCEPT !.pc = "create"]
      /\ UNCHANGED <<serials, acodec, needReconfigure, app, surface, kept, drain, holder, alone, orphaned, stopping>>
  BY DEF FeedUnhooks, surfaceVars, fixed, At
<1>2. feed' \in Feeds /\ feed'.pc = "create"
  BY <1>1, HwTyped DEF Feeds, FeedPlaces
<1>3. TurnsInv' /\ SurfaceInv'
  BY <1>1, <1>2, HwTyped, UnhookedIs DEF TurnsInv, SurfaceInv, Section
<1> QED BY <1>1, <1>2, <1>3, UnhooksKeeps

LEMMA SetSurfaceKeeps == ASSUME HwInv, SetSurface PROVE HwInv'
<1>1. /\ app.pc = "window" /\ app'.pc = "idle" /\ surface' = app.surface
      /\ UNCHANGED <<serials, acodec, kept, feed, drain, holder, alone, orphaned, stopping>>
  BY DEF SetSurface, threads, fixed
<1>2. SurfaceInv'
  BY <1>1 DEF SurfaceInv
<1>3. CASE app.surface # surface
  <2>1. SetCodec(codecs, None) /\ needReconfigure' = TRUE
    BY <1>3 DEF SetSurface
  <2>2. TurnsInv'
    BY <1>1, <2>1, HwTyped, UnhookedIs DEF TurnsInv, Section
  <2> QED BY <1>1, <1>2, <2>1, <2>2, UnhooksKeeps
<1>4. CASE app.surface = surface
  <2>1. codecVars' = codecVars /\ buffers' = buffers /\ needReconfigure' = needReconfigure
    BY <1>1, <1>4 DEF SetSurface, codecVars, buffers
  <2>2. orphaned
    BY <1>1, <1>4, HwTyped DEF SurfaceInv
  <2>3. QuietData
    BY <1>1, <2>1, HwTyped, QuietCodecs DEF QuietData
  <2>4. QuietMoves
    BY <1>1, <2>2 DEF QuietMoves, MayLose
  <2>5. TurnsInv'
    BY <1>1, <2>1, HwTyped DEF TurnsInv, Section, buffers
  <2> QED BY <1>2, <2>3, <2>4, <2>5, QuietKeeps
<1> QED BY <1>3, <1>4


LEMMA NewCodecIs ==
    ASSUME NEW d \in BOOLEAN, NEW s \in Nat
    PROVE  /\ NewCodec(d, s) \in Codecs /\ NewCodec(d, s).dummy = d /\ NewCodec(d, s).serial = s
           /\ ~NewCodec(d, s).started /\ NewCodec(d, s).lent = {} /\ NewCodec(d, s).inside = 0
           /\ NewCodec(d, s).refs = 1
  BY DEF NewCodec, Codecs

LEMMA FeedCreatesKeeps == ASSUME HwInv, FeedCreates PROVE HwInv'
<1> DEFINE dummy == jsurface = Nowhere
           s == IF jsurface = Nowhere THEN 0 ELSE serials + 1
           c == NewCodec(jsurface = Nowhere, s)
           n == Len(codecs)
<1>1. /\ feed.pc = "create" /\ feed' = [feed EXCEPT !.pc = "configure"]
      /\ codecs' = Append(codecs, c) /\ acodec' = n + 1
      /\ serials' = IF jsurface = Nowhere THEN serials ELSE serials + 1
      /\ UNCHANGED <<voutCodec, needReconfigure, app, surface, pictures, frame, kept, drain, holder,
                     alone, orphaned, stopping>>
  BY DEF FeedCreates, surfaceVars, fixed, buffers, At
<1>2. feed' \in Feeds /\ feed'.pc = "configure"
  BY <1>1, HwTyped DEF Feeds, FeedPlaces
<1>3. HwTypeOK /\ CodecsInv /\ SerialsInv /\ TurnsInv /\ SurfaceInv
  BY DEF HwInv
<1>4. voutCodec = None /\ drain \notin {"stop", "gone"} /\ codecs \in Seq(Codecs) /\ n \in Nat
  BY <1>1, <1>3 DEF CodecsInv, TurnsInv, HwTypeOK
<1>5. /\ serials' \in Nat /\ serials' >= serials /\ s \in Nat /\ s <= serials'
      /\ jsurface # Nowhere => 1 <= s
      /\ Unnamed(pictures, frame, s) /\ Unkept(kept, s)
  <2>1. serials \in Nat /\ serials + 1 >= serials /\ serials + 1 >= 1 /\ serials >= 0
    BY NotYetNamed
  <2> QED BY <1>1, <2>1, NotYetNamed
<1>6. /\ c \in Codecs /\ (c.dummy <=> jsurface = Nowhere) /\ c.serial = s /\ ~c.started /\ c.lent = {} /\ c.inside = 0
      /\ c.refs = 1
  <2>1. (jsurface = Nowhere) \in BOOLEAN
    OBVIOUS
  <2> HIDE DEF s
  <2>2. /\ c \in Codecs /\ c.dummy = (jsurface = Nowhere) /\ c.serial = s /\ ~c.started /\ c.lent = {} /\ c.inside = 0
        /\ c.refs = 1
    BY <1>5, <2>1, NewCodecIs
  <2> QED BY <2>2
<1> HIDE DEF c, n
<1>7. codecs' \in Seq(Codecs) /\ DOMAIN codecs' = 1 .. n + 1 /\ codecs'[n + 1] = c /\ n + 1 \in 1 .. n + 1 /\ n + 1 # None
  BY <1>1, <1>4, <1>6 DEF n, None
<1>8. acodec' # None /\ Codec' = c /\ voutCodec' = None /\ acodec' \in DOMAIN codecs'
  BY <1>1, <1>4, <1>7 DEF Codec
<1>9. HwTypeOK'
  BY <1>1, <1>2, <1>3, <1>5, <1>7, <1>8 DEF HwTypeOK
<1>10. CodecsInv'
  <2>1. /\ c.dummy => c.serial = 0 /\ c.lent = {} /\ c.inside = 0
        /\ ~c.dummy => 1 <= c.serial /\ c.serial <= serials'
    BY <1>5, <1>6
  <2> QED BY <1>1, <1>2, <1>4, <1>6, <1>8, <2>1 DEF CodecsInv
<1>11. SerialsInv'
  <2>1. \A t \in Int : t > serials' \/ t < 1 => Unnamed(pictures, frame, t) /\ Unkept(kept, t)
    <3>1. \A t \in Int : t > serials' => t > serials
      BY <1>5, NotYetNamed
    <3> QED BY <1>3, <3>1 DEF SerialsInv
  <2> QED BY <1>1, <1>2, <1>4, <1>5, <1>6, <1>8, <2>1 DEF SerialsInv
<1>12. TurnsInv' /\ SurfaceInv'
  BY <1>1, <1>2, <1>3 DEF TurnsInv, SurfaceInv, Section
<1>13. OwnedInv' /\ InHandInv'
  BY <1>1, <1>5, <1>6, <1>8, FreshOwned DEF OwnedInv, InHandInv, MayLose
<1> QED BY <1>9, <1>10, <1>11, <1>12, <1>13 DEF HwInv

LEMMA ConfiguredIs ==
    ASSUME NEW c \in Codecs
    PROVE  /\ Configured(c) \in Codecs /\ Configured(c).started /\ Configured(c).dummy = c.dummy
           /\ Configured(c).serial = c.serial /\ Configured(c).lent = c.lent /\ Configured(c).inside = c.inside
           /\ Configured(c).refs = c.refs
<1> DEFINE g == [c EXCEPT !.valid = TRUE]
           h == [g EXCEPT !.started = TRUE]
<1>1. g \in Codecs
  BY DEF Codecs
<1>2. g.dummy = c.dummy /\ g.serial = c.serial /\ g.lent = c.lent /\ g.inside = c.inside /\ g.refs = c.refs
  BY DEF Codecs
<1>3. Configured(c) = h
  BY DEF Configured, Codecs
<1> HIDE DEF g
<1>4. h \in Codecs
  BY <1>1 DEF Codecs
<1>5. h.started /\ h.dummy = g.dummy /\ h.serial = g.serial /\ h.lent = g.lent /\ h.inside = g.inside /\ h.refs = g.refs
  BY <1>1 DEF Codecs
<1> QED BY <1>2, <1>3, <1>4, <1>5

LEMMA FeedConfiguresKeeps == ASSUME HwInv, FeedConfigures PROVE HwInv'
<1> DEFINE cs == [codecs EXCEPT ![acodec] = Configured(codecs[acodec])]
           d == [Configured(Codec) EXCEPT !.refs = 2]
<1>1. /\ feed.pc = "configure" /\ feed' = [feed EXCEPT !.pc = "await"]
      /\ SetCodec(cs, acodec) /\ Unlocks
      /\ UNCHANGED <<serials, acodec, needReconfigure, app, surface, kept, alone, orphaned, stopping>>
  BY DEF FeedConfigures, surfaceVars, fixed, At
<1>2. feed' \in Feeds /\ feed'.pc = "await"
  BY <1>1, HwTyped DEF Feeds, FeedPlaces
<1>3. HwTypeOK /\ CodecsInv /\ SerialsInv /\ TurnsInv /\ SurfaceInv
  BY DEF HwInv
<1>4. /\ voutCodec = None /\ acodec # None /\ acodec \in DOMAIN codecs /\ codecs \in Seq(Codecs)
      /\ Codec = codecs[acodec] /\ Codec \in Codecs /\ ~Codec.started /\ Codec.refs = 1 /\ Codec.lent = {}
  BY <1>1, <1>3, CodecIs DEF CodecsInv, HwTypeOK, Codec
<1>5. drain \notin {"stop", "gone"}
  BY <1>1, <1>3 DEF TurnsInv
<1>6. voutCodec' = acodec /\ InvalidateAll /\ codecs' = Referenced(cs, acodec)
  BY <1>1, <1>4 DEF SetCodec, Unreferenced
<1>7. /\ Configured(Codec) \in Codecs /\ Configured(Codec).started /\ Configured(Codec).dummy = Codec.dummy
      /\ Configured(Codec).serial = Codec.serial /\ Configured(Codec).lent = {}
      /\ Configured(Codec).inside = Codec.inside /\ Configured(Codec).refs = 1
  BY <1>4, ConfiguredIs
<1>8. /\ d \in Codecs /\ d.started /\ d.dummy = Codec.dummy /\ d.serial = Codec.serial /\ d.lent = {}
      /\ d.inside = Codec.inside /\ d.refs = 2
  BY <1>7, RefsPut
<1>9. codecs' = [codecs EXCEPT ![acodec] = d]
  <2> DEFINE k == Configured(codecs[acodec])
  <2>1. k.refs = 1 /\ k = Configured(Codec)
    BY <1>4, <1>7
  <2>2. cs = [codecs EXCEPT ![acodec] = k] /\ codecs' = [cs EXCEPT ![acodec].refs = @ + 1]
    BY <1>6 DEF Referenced
  <2> HIDE DEF k, cs
  <2>3. cs[acodec] = k
    BY <1>4, <2>2
  <2>4. codecs' = [cs EXCEPT ![acodec] = [k EXCEPT !.refs = 2]]
    <3>1. codecs' = [cs EXCEPT ![acodec] = [k EXCEPT !.refs = k.refs + 1]]
      BY <2>2, <2>3
    <3>2. k.refs + 1 = 2
      BY <2>1
    <3> QED BY <3>1, <3>2
  <2> QED BY <1>4, <2>1, <2>2, <2>4
<1> HIDE DEF cs, d
<1>10. codecs' \in Seq(Codecs) /\ DOMAIN codecs' = DOMAIN codecs /\ codecs'[acodec] = d
  BY <1>4, <1>8, <1>9, CodecPut
<1>11. Codec' = d /\ acodec' = acodec
  BY <1>1, <1>10 DEF Codec
<1>12. /\ pictures' \in Seq(Handed) /\ frame' \in Handed /\ (frame = NoProxy => frame' = NoProxy)
       /\ \A s : Unnamed(pictures', frame', s)
  BY <1>3, <1>6, InvalidatedIs
<1>13. /\ alone => drain' = drain /\ holder' = holder
       /\ ~alone => holder' = "none" /\ drain' = IF drain = "waits" THEN "woken" ELSE drain
  BY <1>1 DEF Unlocks, Wakes
<1>14. drain' \in DrainPlaces /\ drain' \notin {"stop", "gone"}
  BY <1>5, <1>13, HwTyped DEF DrainPlaces
<1>15. TurnsInv' /\ SurfaceInv'
  BY <1>1, <1>2, <1>3, <1>12, <1>13, HwTyped DEF TurnsInv, SurfaceInv, Section
<1>16. HwTypeOK'
  BY <1>1, <1>2, <1>3, <1>4, <1>6, <1>10, <1>12, <1>14 DEF HwTypeOK
<1>17. CodecsInv'
  BY <1>1, <1>2, <1>3, <1>4, <1>6, <1>8, <1>11, <1>14 DEF CodecsInv
<1>18. Unkept(kept, d.serial) /\ Unnamed(pictures', frame', d.serial)
  BY <1>3, <1>4, <1>8, <1>12 DEF SerialsInv
<1>19. SerialsInv'
  <2>1. \A s \in Int : s > serials \/ s < 1 => Unnamed(pictures', frame', s) /\ Unkept(kept, s)
    BY <1>3, <1>12 DEF SerialsInv
  <2> QED BY <1>1, <1>2, <1>6, <1>8, <1>11, <1>14, <2>1 DEF SerialsInv
<1>20. OwnedInv' /\ InHandInv'
  BY <1>1, <1>8, <1>11, <1>18, FreshOwned, NoneLent DEF OwnedInv, InHandInv
<1> QED BY <1>15, <1>16, <1>17, <1>19, <1>20 DEF HwInv


-----------------------------------------------------------------------------
(* The invariant holds, and tells who has the buffers. *)

LEMMA HwStarts == HwInit => HwInv
<1> SUFFICES ASSUME HwInit PROVE HwInv
  OBVIOUS
<1>1. PICK c \in {Opened, OpenedAhead} : codecs = Referenced(<<Configured(c)>>, 1)
  BY DEF HwInit
<1>2. c \in Codecs /\ c.refs = 1 /\ c.lent = {} /\ c.inside = 0
      /\ (c.dummy => c.serial = 0) /\ (~c.dummy => c.serial = 1)
  <2>1. (surface = Nowhere) \in BOOLEAN /\ (IF surface = Nowhere THEN 0 ELSE 1) \in Nat
    OBVIOUS
  <2>2. /\ Opened \in Codecs /\ Opened.dummy = (surface = Nowhere)
        /\ Opened.serial = (IF surface = Nowhere THEN 0 ELSE 1)
        /\ Opened.lent = {} /\ Opened.inside = 0 /\ Opened.refs = 1
    BY <2>1, NewCodecIs DEF Opened
  <2>3. /\ OpenedAhead \in Codecs /\ ~OpenedAhead.dummy /\ OpenedAhead.serial = 1
        /\ OpenedAhead.lent = {} /\ OpenedAhead.inside = 0 /\ OpenedAhead.refs = 1
    BY NewCodecIs DEF OpenedAhead
  <2> QED BY <2>2, <2>3
<1> DEFINE k == Configured(c)
           d == [k EXCEPT !.refs = 2]
<1>3. /\ k \in Codecs /\ k.started /\ k.refs = 1 /\ k.lent = {} /\ k.inside = 0
      /\ (k.dummy => k.serial = 0) /\ (~k.dummy => k.serial = 1)
  BY <1>2, ConfiguredIs
<1> HIDE DEF k
<1>4. /\ d \in Codecs /\ d.started /\ d.refs = 2 /\ d.lent = {} /\ d.inside = 0
      /\ (d.dummy => d.serial = 0) /\ (~d.dummy => d.serial = 1)
  BY <1>3, RefsPut
<1>5. codecs = [<<k>> EXCEPT ![1] = d]
  <2>1. codecs = [<<k>> EXCEPT ![1] = [k EXCEPT !.refs = k.refs + 1]]
    BY <1>1 DEF Referenced, k
  <2>2. k.refs + 1 = 2
    BY <1>3
  <2> QED BY <2>1, <2>2
<1> HIDE DEF d
<1>6. <<k>> \in Seq(Codecs) /\ DOMAIN <<k>> = {1}
  BY <1>3
<1>7. codecs \in Seq(Codecs) /\ DOMAIN codecs = {1} /\ codecs[1] = d
  BY <1>4, <1>5, <1>6, CodecPut
<1>8. /\ serials = 1 /\ acodec = 1 /\ voutCodec = 1 /\ needReconfigure = FALSE
      /\ kept = << >> /\ frame = NoProxy /\ pictures = << >> /\ alone \in Alone
      /\ feed = [NewPacket EXCEPT !.pc = IF alone THEN "idle" ELSE "top"] /\ drain = "top"
      /\ stopping = FALSE /\ app = [pc |-> "idle", surface |-> Nowhere] /\ orphaned = FALSE
  BY DEF HwInit
<1>9. alone \in BOOLEAN /\ feed \in Feeds /\ feed.pc = IF alone THEN "idle" ELSE "top"
  BY <1>8, HwAssumption DEF NewPacket, Feeds, FeedPlaces
<1>10. Codec = d /\ 1 # None
  BY <1>7, <1>8 DEF Codec, None
<1>11. << >> \in Seq(Handed) /\ Len(<< >>) = 0
  OBVIOUS
<1>12. HwTypeOK
  <2>1. /\ acodec \in {None} \cup DOMAIN codecs /\ voutCodec \in {None} \cup DOMAIN codecs
        /\ serials \in Nat
    BY <1>7, <1>8
  <2>2. pictures \in Seq(Handed) /\ kept \in Seq(Handed) /\ Len(kept) <= 1
    BY <1>8, <1>11
  <2>3. frame \in Handed
    BY <1>8 DEF NoProxy, Handed
  <2>4. drain \in DrainPlaces /\ stopping \in BOOLEAN /\ orphaned \in BOOLEAN /\ needReconfigure \in BOOLEAN
    BY <1>8 DEF DrainPlaces
  <2> QED BY <1>7, <1>9, <2>1, <2>2, <2>3, <2>4 DEF HwTypeOK
<1>13. TurnsInv /\ SurfaceInv
  BY <1>8, <1>9 DEF TurnsInv, SurfaceInv, Section
<1>14. CodecsInv
  <2>1. 1 <= serials
    BY <1>8
  <2> QED BY <1>4, <1>8, <1>9, <1>10, <2>1 DEF CodecsInv
<1>15. \A s : Unnamed(pictures, frame, s) /\ Unkept(kept, s)
  BY <1>8, <1>11, NothingNamed DEF Unnamed, Unkept
<1>16. SerialsInv
  BY <1>4, <1>8, <1>9, <1>10, <1>15 DEF SerialsInv
<1>17. OwnedInv /\ InHandInv
  BY <1>4, <1>10, <1>15, FreshOwned, NoneLent DEF OwnedInv, InHandInv
<1> QED BY <1>12, <1>13, <1>14, <1>16, <1>17 DEF HwInv

LEMMA FeedKeepsHw == ASSUME HwInv, Feed PROVE HwInv'
<1>1. FeedPacket => HwInv'
  BY FeedStopsKeeps, FeedGetsKeeps, FeedResumesKeeps, FeedKeepsKeeps, FeedCannotFollowKeeps, FeedAsksToFlushKeeps,
     FeedLocksKeeps, FeedInvalidatesKeeps, FeedFlushesKeeps, FeedRenewsKeeps, FeedFlushedKeeps DEF FeedPacket
<1>2. FeedSurface => HwInv'
  BY FeedReusesKeeps, FeedReconfiguresKeeps, FeedCannotRecreateKeeps, FeedRetiresKeeps, FeedStopsCodecKeeps,
     FeedUnhooksKeeps, FeedCreatesKeeps, FeedCannotConfigureKeeps, FeedConfiguresKeeps, FeedAwaitsKeeps
     DEF FeedSurface
<1>3. FeedInput => HwInv'
  BY FeedEntersKeeps, FeedTimesOutKeeps, FeedFakesKeeps, FeedCannotEnterKeeps, FeedCrashesKeeps, FeedLeavesKeeps
     DEF FeedInput
<1> QED BY <1>1, <1>2, <1>3 DEF Feed

LEMMA DrainKeepsHw == ASSUME HwInv, Drain PROVE HwInv'
<1>1. DrainOne => HwInv'
  BY DrainLocksKeeps, DrainWakesKeeps, LoopStartsKeeps, DrainDequeuesKeeps, LoopDequeuesKeeps, DrainCrashesKeeps,
     DrainGoesOnKeeps, LoopGoesOnKeeps DEF DrainOne
<1>2. DrainTwo => HwInv'
  BY DrainDropsKeeps, DrainQueuesKeeps, DrainStopsKeeps, DrainJoinsKeeps, DrainEndsKeeps, DrainStopsCodecKeeps
     DEF DrainTwo
<1> QED BY <1>1, <1>2 DEF Drain

LEMMA HwStep == HwInv /\ [HwNext]_hwVars => HwInv'
<1> SUFFICES ASSUME HwInv, [HwNext]_hwVars PROVE HwInv'
  OBVIOUS
<1>1. CASE Feed
  BY <1>1, FeedKeepsHw
<1>2. CASE Drain
  BY <1>2, DrainKeepsHw
<1>3. CASE Display
  BY <1>3, DisplayShowsKeeps, DisplayDropsKeeps DEF Display
<1>4. CASE App
  BY <1>4, SetWindowKeeps, SetSurfaceKeeps, SeekFlushesKeeps, SeekQueuesKeeps, StopsKeeps DEF App
<1>5. CASE UNCHANGED hwVars
  <2>1. codecVars' = codecVars /\ buffers' = buffers
        /\ UNCHANGED <<needReconfigure, app, surface, feed, drain, holder, alone, orphaned, stopping>>
    BY <1>5 DEF hwVars, surfaceVars, threads, fixed
  <2>2. Walks
    BY <2>1, HwTyped DEF Walks
  <2>3. TurnsInv'
    BY <2>1, HwTyped DEF TurnsInv, Section, buffers
  <2> QED BY <2>2, <2>3, WalkKeeps
<1> QED BY <1>1, <1>2, <1>3, <1>4, <1>5 DEF HwNext

\* The invariant of the decoder node: the threads take turns, the node and the vout count their
\* references to one codec, and each lent buffer is named by one proxy at most.
THEOREM HwInvHolds == HwSpec => []HwInv
<1>1. HwInit => HwInv
  BY HwStarts
<1>2. HwInv /\ [HwNext]_hwVars => HwInv'
  BY HwStep
<1> QED BY <1>1, <1>2, PTL DEF HwSpec

LEMMA JoinedAre ==
    ASSUME NEW S, NEW p \in Seq(S), NEW k \in Seq(S), NEW n \in Nat, NEW m \in {0, 1},
           Len(p) = n + 1, Len(k) = m
    PROVE  /\ DOMAIN p = 1 .. n + 1 /\ DOMAIN (p \o k) = 1 .. n + 1 + m
           /\ \A i \in 1 .. n + 1 : (p \o k)[i] = p[i]
           /\ m = 1 => (p \o k)[n + 2] = k[1]
<1> DEFINE q == p \o k
<1>1. /\ q \in Seq(S) /\ Len(q) = Len(p) + Len(k)
      /\ \A i \in 1 .. Len(p) : q[i] = p[i]
      /\ \A i \in 1 .. Len(k) : q[Len(p) + i] = k[i]
  OBVIOUS
<1>2. DOMAIN p = 1 .. Len(p) /\ DOMAIN q = 1 .. Len(q)
  BY <1>1
<1> HIDE DEF q
<1>3. Len(q) = n + 1 + m /\ DOMAIN p = 1 .. n + 1 /\ DOMAIN q = 1 .. n + 1 + m
  BY <1>1, <1>2
<1>4. \A i \in 1 .. n + 1 : q[i] = p[i]
  BY <1>1
<1>5. m = 1 => q[n + 2] = k[1]
  <2>1. m = 1 => 1 \in 1 .. Len(k) /\ Len(p) + 1 = n + 2
    OBVIOUS
  <2>2. 1 \in 1 .. Len(k) => q[Len(p) + 1] = k[1]
    BY <1>1
  <2> QED BY <2>1, <2>2
<1> QED BY <1>3, <1>4, <1>5 DEF q

\* Where a proxy is in AllHeld.
LEMMA HeldAre ==
    ASSUME HwInv
    PROVE  /\ DOMAIN Proxies = 1 .. Len(pictures) + 1 /\ DOMAIN AllHeld = 1 .. Len(pictures) + 1 + Len(kept)
           /\ \A i \in 1 .. Len(pictures) : AllHeld[i] = pictures[i]
           /\ AllHeld[Len(pictures) + 1] = frame
           /\ Len(kept) = 1 => AllHeld[Len(pictures) + 2] = kept[1]
           /\ Len(kept) \in {0, 1} /\ Len(pictures) \in Nat
<1>1. pictures \in Seq(Handed) /\ frame \in Handed /\ kept \in Seq(Handed) /\ Len(kept) \in {0, 1}
  BY BuffersTyped
<1>2. /\ Proxies \in Seq(Handed) /\ Len(Proxies) = Len(pictures) + 1 /\ Len(pictures) \in Nat
      /\ \A i \in 1 .. Len(pictures) : Proxies[i] = pictures[i]
      /\ Proxies[Len(pictures) + 1] = frame
  BY <1>1 DEF Proxies
<1> DEFINE n == Len(pictures)
           p == Proxies
<1>3. n \in Nat /\ p \in Seq(Handed) /\ Len(p) = n + 1 /\ AllHeld = p \o kept
  BY <1>2 DEF AllHeld
<1> HIDE DEF n, p
<1>4. /\ DOMAIN p = 1 .. n + 1 /\ DOMAIN (p \o kept) = 1 .. n + 1 + Len(kept)
      /\ \A i \in 1 .. n + 1 : (p \o kept)[i] = p[i]
      /\ Len(kept) = 1 => (p \o kept)[n + 2] = kept[1]
  BY <1>1, <1>3, JoinedAre
<1>5. \A i \in 1 .. n : i \in 1 .. n + 1
  BY <1>3
<1>6. n + 1 \in 1 .. n + 1
  BY <1>3
<1> QED BY <1>1, <1>2, <1>3, <1>4, <1>5, <1>6 DEF n, p


LEMMA BuffersAreOwned == HwInv => OwnBuffersOnly
<1> SUFFICES ASSUME HwInv, NEW i \in DOMAIN Proxies, GivesBack(AllHeld[i])
             PROVE  /\ AllHeld[i].index \in codecs[voutCodec].lent
                    /\ codecs[voutCodec].refs > 0
                    /\ \A j \in DOMAIN AllHeld :
                          GivesBack(AllHeld[j]) /\ AllHeld[j].index = AllHeld[i].index => i = j
  BY DEF OwnBuffersOnly
<1> DEFINE s == Codec.serial
           n == Len(pictures)
<1>1. /\ DOMAIN Proxies = 1 .. n + 1 /\ DOMAIN AllHeld = 1 .. n + 1 + Len(kept)
      /\ \A k \in 1 .. n : AllHeld[k] = pictures[k]
      /\ AllHeld[n + 1] = frame
      /\ Len(kept) = 1 => AllHeld[n + 2] = kept[1]
      /\ Len(kept) \in {0, 1} /\ n \in Nat
  BY HeldAre
<1>2. voutCodec # None /\ \A h : GivesBack(h) => Names(h, codecs[voutCodec].serial)
  BY DEF GivesBack, SameSerial, Names
<1>3. i \in 1 .. n \/ i = n + 1
  BY <1>1
<1>4. voutCodec = acodec
  <2>1. SUFFICES ASSUME voutCodec # acodec PROVE FALSE
    OBVIOUS
  <2>2. Unnamed(pictures, frame, codecs[voutCodec].serial)
    BY <1>2, <2>1 DEF HwInv, SerialsInv
  <2>3. CASE i \in 1 .. n
    BY <1>1, <1>2, <2>2, <2>3 DEF Unnamed
  <2>4. CASE i = n + 1
    BY <1>1, <1>2, <2>2, <2>4 DEF Unnamed
  <2> QED BY <1>3, <2>3, <2>4
<1>5. acodec # None /\ codecs[voutCodec] = Codec
  BY <1>2, <1>4 DEF Codec
<1>6. \A h : GivesBack(h) => Names(h, s)
  BY <1>2, <1>5
<1>7. feed.pc # "renew"
  <2>1. SUFFICES ASSUME feed.pc = "renew" PROVE FALSE
    OBVIOUS
  <2>2. Unnamed(pictures, frame, s)
    BY <2>1 DEF HwInv, SerialsInv
  <2>3. CASE i \in 1 .. n
    BY <1>1, <1>6, <2>2, <2>3 DEF Unnamed
  <2>4. CASE i = n + 1
    BY <1>1, <1>6, <2>2, <2>4 DEF Unnamed
  <2> QED BY <1>3, <2>3, <2>4
<1>8. Owned(pictures, frame, kept, s, Codec.lent)
  BY <1>5, <1>7 DEF HwInv, OwnedInv
<1>9. Codec.refs = 2
  BY <1>4, <1>5 DEF HwInv, CodecsInv
<1>10. codecs[voutCodec].refs > 0
  BY <1>5, <1>9
<1>11. AllHeld[i].index \in codecs[voutCodec].lent
  <2>1. CASE i \in 1 .. n
    BY <1>1, <1>5, <1>6, <1>8, <2>1 DEF Owned
  <2>2. CASE i = n + 1
    BY <1>1, <1>5, <1>6, <1>8, <2>2 DEF Owned
  <2> QED BY <1>3, <2>1, <2>2
<1>12. ASSUME NEW j \in DOMAIN AllHeld, GivesBack(AllHeld[j]), AllHeld[j].index = AllHeld[i].index
       PROVE  i = j
  <2> DEFINE m == Len(kept)
  <2>1. m \in {0, 1} /\ n \in Nat /\ j \in 1 .. n + 1 + m
    BY <1>1
  <2>2. j \in 1 .. n \/ j = n + 1 \/ (m = 1 /\ j = n + 2)
    <3> HIDE DEF m, n
    <3> QED BY <2>1
  <2>3. Names(AllHeld[i], s) /\ Names(AllHeld[j], s)
    BY <1>6, <1>12
  <2>4. m = 1 => 1 \in 1 .. m
    OBVIOUS
  <2>5. CASE i \in 1 .. n /\ j \in 1 .. n
    BY <1>1, <1>8, <1>12, <2>3, <2>5 DEF Owned
  <2>6. CASE i \in 1 .. n /\ j = n + 1
    BY <1>1, <1>8, <1>12, <2>3, <2>6 DEF Owned
  <2>7. CASE i = n + 1 /\ j \in 1 .. n
    BY <1>1, <1>8, <1>12, <2>3, <2>7 DEF Owned
  <2>8. CASE m = 1 /\ j = n + 2
    <3>1. AllHeld[j] = kept[1] /\ 1 \in 1 .. Len(kept)
      BY <1>1, <2>4, <2>8
    <3>2. CASE i \in 1 .. n
      BY <1>1, <1>8, <1>12, <2>3, <3>1, <3>2 DEF Owned
    <3>3. CASE i = n + 1
      BY <1>1, <1>8, <1>12, <2>3, <3>1, <3>3 DEF Owned
    <3> QED BY <1>3, <3>2, <3>3
  <2> QED BY <1>3, <2>2, <2>5, <2>6, <2>7, <2>8
<1> QED BY <1>10, <1>11, <1>12

LEMMA BuffersAreHeld == HwInv => BuffersHeld
<1> SUFFICES ASSUME HwInv, acodec # None, ~stopping, ~orphaned, ~needReconfigure, app.pc = "idle",
                    feed.pc \notin {"flush", "lockAgain", "replace", "stop"},
                    NEW b \in Codec.lent
             PROVE  \E k \in DOMAIN AllHeld : AllHeld[k] = Obtained(Codec.serial, b, FALSE)
  BY DEF BuffersHeld
<1> DEFINE s == Codec.serial
           n == Len(pictures)
           m == Len(kept)
<1>1. /\ DOMAIN AllHeld = 1 .. n + 1 + m
      /\ \A k \in 1 .. n : AllHeld[k] = pictures[k]
      /\ AllHeld[n + 1] = frame
      /\ m = 1 => AllHeld[n + 2] = kept[1]
      /\ m \in {0, 1} /\ n \in Nat
  BY HeldAre
<1>2. voutCodec = acodec
  <2>1. SUFFICES ASSUME voutCodec # acodec PROVE FALSE
    OBVIOUS
  <2>2. voutCodec = None
    BY <2>1 DEF HwInv, CodecsInv
  <2>3. ~Codec.started
    BY <2>2 DEF HwInv, CodecsInv
  <2>4. Codec.lent = {}
    BY <2>3 DEF HwInv, CodecsInv
  <2> QED BY <2>4
<1>3. InHand(pictures, frame, kept, s, Codec.lent)
  BY <1>2 DEF HwInv, InHandInv, MayLose
<1>4. \A h \in Handed : Names(h, s) /\ h.index = b => h = Obtained(s, b, FALSE)
  BY DEF Handed, Names, Obtained
<1>5. pictures \in Seq(Handed) /\ frame \in Handed /\ kept \in Seq(Handed)
  BY BuffersTyped
<1>6. (\A k \in 1 .. n : k \in DOMAIN AllHeld) /\ n + 1 \in DOMAIN AllHeld /\ (m = 1 => n + 2 \in DOMAIN AllHeld)
  <2> HIDE DEF n, m
  <2> QED BY <1>1
<1>7. CASE \E k \in 1 .. Len(pictures) : Names(pictures[k], s) /\ pictures[k].index = b
  <2>1. PICK k \in 1 .. n : Names(pictures[k], s) /\ pictures[k].index = b
    BY <1>7
  <2>2. pictures[k] \in Handed
    BY <1>5
  <2> QED BY <1>1, <1>4, <1>6, <2>1, <2>2
<1>8. CASE Names(frame, s) /\ frame.index = b
  BY <1>1, <1>4, <1>5, <1>6, <1>8
<1>9. CASE \E k \in 1 .. Len(kept) : Names(kept[k], s) /\ kept[k].index = b
  <2>1. PICK k \in 1 .. m : Names(kept[k], s) /\ kept[k].index = b
    BY <1>9
  <2>2. m = 1 /\ k = 1
    <3> HIDE DEF m
    <3> QED BY <1>1, <2>1
  <2>3. kept[k] \in Handed
    BY <1>5
  <2> QED BY <1>1, <1>4, <1>6, <2>1, <2>2, <2>3
<1> QED BY <1>3, <1>7, <1>8, <1>9 DEF InHand

\* A buffer is given back only to the codec that lent it and by one proxy, and none is lost
\* unless a new surface, a flush or the end takes them all back.
THEOREM BuffersAccountedHolds == HwSpec => []BuffersAccounted
<1>1. HwInv => BuffersAccounted
  BY BuffersAreOwned, BuffersAreHeld DEF BuffersAccounted
<1> QED BY <1>1, HwInvHolds, PTL
===============================================================================
