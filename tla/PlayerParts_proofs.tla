-------------------------- MODULE PlayerParts_proofs --------------------------
(***************************************************************************)
(* Proofs about the parts of the player that move on their own:            *)
(* AccurateSeek, for any streams, time stamps and number of seeks,         *)
(* MediaMeta, for any files, FrameImages, for any stream and requests, and *)
(* VideoRefresh, for any durations, thresholds, texts and disturbances.    *)
(***************************************************************************)
EXTENDS AccurateSeek, MediaMeta, FrameImages, VideoRefresh, SequenceTheorems, WellFoundedInduction, TLAPS

-----------------------------------------------------------------------------
(***************************************************************************)
(* AccurateSeek: the inductive invariant.                                  *)
(***************************************************************************)
Places == {"decode", "gate", "compares", "polls", "arrives", "settles", "waits", "woken", "checks",
           "fails", "waitsLost", "wokenLost", "ends"}

SeekTypeOK ==
    /\ streams \in SeekStreams /\ seekReq \in BOOLEAN /\ seekPos \in Pts
    /\ accurateReq \in [Decoders -> BOOLEAN] /\ reached \in [Decoders -> Int]
    /\ dropping \in [Decoders -> BOOLEAN] /\ startTime \in {"none", "running", "over"}
    /\ seekHolder \in Decoders \cup {Free} /\ decoder \in [Decoders -> Places]
    /\ decoded \in [Decoders -> [pts : Pts \cup {NoPts}, fresh : BOOLEAN]]
    /\ target \in [Decoders -> Pts] /\ ahead \in [Decoders -> Nat]
    /\ seekReader \in {"reads", "sought", "taken"} /\ seekAborted \in BOOLEAN
    /\ seekStopper \in {"idle", "aborted", "done"}
    /\ completions \in Nat /\ unsettled \subseteq {"given up", "before", "overtaken"}
    /\ tooEarly \in BOOLEAN /\ seeks \in Nat

\* The decoders have been asked for the seek that was made last, and no other is pending.
Asked == ~seekReq /\ seekReader = "reads" /\ ~seekAborted

\* Where a decoder has compared its frame with its target, the frame is not before
\* it; and the target is the seek's, for a frame that was decoded after the flush.
FrameOf(d) ==
    /\ decoder[d] = "decode" => ~decoded[d].fresh
    /\ d \notin streams => decoder[d] = "decode" /\ ~accurateReq[d]
    /\ seekReader # "reads" => ~decoded[d].fresh
    /\ decoded[d].fresh => decoded[d].pts < ahead[d]
    /\ decoder[d] \in {"arrives", "settles", "waits", "woken", "checks"} =>
          decoded[d].pts >= target[d]
    /\ (/\ decoder[d] \in {"polls", "arrives", "settles", "waits", "woken", "checks"}
        /\ decoded[d].fresh /\ ~seekReq) => target[d] = seekPos

FrameInv == \A d \in Decoders : FrameOf(d)

\* Nobody but the decoder itself takes its request back.
RequestOf(d) ==
    /\ decoder[d] \in {"compares", "polls", "arrives", "settles", "fails"} /\ ~seekAborted =>
          accurateReq[d]
    /\ decoder[d] \in {"waits", "woken", "checks"} /\ ~decoded[d].fresh /\ Asked =>
          accurateReq[d] \/ ~(unsettled \subseteq {"given up"})

RequestInv == (seekStopper # "idle" => seekAborted) /\ \A d \in Decoders : RequestOf(d)

\* A decoder without a request is past the target, unless it is about to renew it.
AtTarget(d) == decoded[d].pts >= seekPos \/ decoded[d].pts = NoPts

StartOf(d) ==
    /\ (/\ decoder[d] \in {"ends", "waitsLost", "wokenLost"}
        /\ decoded[d].fresh /\ ~seekReq /\ ~seekAborted) => AtTarget(d) \/ "given up" \in unsettled
    /\ d \in streams /\ ~accurateReq[d] /\ Asked /\ unsettled \subseteq {"overtaken"} =>
         \/ ahead[d] >= seekPos /\ (decoded[d].fresh => AtTarget(d))
         \/ decoder[d] = "checks" /\ target[d] # seekPos

StartInv == \A d \in Decoders : StartOf(d)

\* The end is reported by the last; a request that is set after that is renewed for
\* a seek that has not been handed over yet.
Unspoilt == unsettled \subseteq {"given up"} /\ ~seekAborted
Renews(d) == ~Asked /\ (decoder[d] \in {"decode", "gate"} \/ ~decoded[d].fresh)

CompletionInv ==
    /\ Unspoilt => completions <= 1
    /\ Unspoilt /\ completions = 1 => \A d \in Decoders : accurateReq[d] => Renews(d)
    /\ Asked /\ seeks > 0 => completions >= 1 \/ \E d \in Decoders : accurateReq[d]

SeekInv == SeekTypeOK /\ FrameInv /\ RequestInv /\ WaitedForIsDue /\ StartInv /\ CompletionInv /\ ~tooEarly

-----------------------------------------------------------------------------
(***************************************************************************)
(* Signals.                                                                *)
(***************************************************************************)
LEMMA OtherProperties ==
    ASSUME NEW d \in Decoders
    PROVE  /\ Other(d) \in Decoders /\ Other(d) # d /\ Other(Other(d)) = d
           /\ \A c \in Decoders : c = d \/ c = Other(d)
  BY DEF Decoders, Other

\* The place of a decoder after a signal.
Roused(place) == CASE place = "waits" -> "woken"
                   [] place = "waitsLost" -> "wokenLost"
                   [] OTHER -> place

LEMMA RousedProperties ==
    ASSUME NEW p \in Places
    PROVE  /\ Roused(p) \in Places \ {"waits", "waitsLost"}
           /\ p \notin {"waits", "waitsLost"} => Roused(p) = p
           /\ p = "waits" => Roused(p) = "woken"
           /\ p = "waitsLost" => Roused(p) = "wokenLost"
  BY DEF Roused, Places

LEMMA SignalledProperties ==
    ASSUME NEW where \in [Decoders -> Places], NEW d \in Decoders
    PROVE  /\ Signalled(where, d) = [where EXCEPT ![d] = Roused(where[d])]
           /\ Signalled(where, d) \in [Decoders -> Places]
  <1>1. Roused(where[d]) \in Places /\ where[d] \in Places
    BY RousedProperties
  <1>2. Signalled(where, d) = [where EXCEPT ![d] = Roused(where[d])]
    BY DEF Signalled, Roused
  <1>3. QED  BY <1>1, <1>2

LEMMA BothProperties ==
    ASSUME SeekTypeOK
    PROVE  BothSignalled = [d \in Decoders |-> Roused(decoder[d])]
  <1>1. decoder \in [Decoders -> Places] /\ "audio" \in Decoders /\ "video" \in Decoders
    BY DEF SeekTypeOK, Decoders
  <1> DEFINE first == Signalled(decoder, "audio")
  <1>2. first = [decoder EXCEPT !["audio"] = Roused(decoder["audio"])] /\ first \in [Decoders -> Places]
    BY <1>1, SignalledProperties
  <1>3. Signalled(first, "video") = [first EXCEPT !["video"] = Roused(first["video"])]
    BY <1>1, <1>2, SignalledProperties
  <1>4. QED  BY <1>1, <1>2, <1>3 DEF BothSignalled, Decoders

LEMMA BothType ==
    ASSUME SeekTypeOK
    PROVE  BothSignalled \in [Decoders -> Places]
  <1>1. \A d \in Decoders : Roused(decoder[d]) \in Places
    BY RousedProperties DEF SeekTypeOK
  <1>2. QED  BY <1>1, BothProperties

\* What a decoder that takes its request back changes.
LEMMA TakeBackProperties ==
    ASSUME SeekTypeOK, NEW d \in Decoders, NEW waits \in BOOLEAN,
           NEW waiting \in Places, NEW going \in Places, TakeBack(d, waits, waiting, going)
    PROVE  /\ decoder' \in [Decoders -> Places]
           /\ waits => decoder'[d] = waiting
           /\ ~waits => decoder'[d] = going
           /\ decoder'[Other(d)] = Roused(decoder[Other(d)])
           /\ accurateReq' \in [Decoders -> BOOLEAN]
           /\ accurateReq'[d] = FALSE /\ accurateReq'[Other(d)] = accurateReq[Other(d)]
           /\ completions' = IF waits THEN completions ELSE completions + 1
  <1> DEFINE where == [decoder EXCEPT ![d] = IF waits THEN waiting ELSE going]
  <1>1. Other(d) \in Decoders /\ Other(d) # d
    BY OtherProperties
  <1>2. where \in [Decoders -> Places]
    BY DEF SeekTypeOK
  <1>3. where[d] = (IF waits THEN waiting ELSE going) /\ where[Other(d)] = decoder[Other(d)]
    BY <1>1 DEF SeekTypeOK
  <1>4. decoder' = Signalled(where, Other(d))
    BY DEF TakeBack
  <1> HIDE DEF where
  <1>5. decoder' = [where EXCEPT ![Other(d)] = Roused(where[Other(d)])] /\ decoder' \in [Decoders -> Places]
    BY <1>1, <1>2, <1>4, SignalledProperties
  <1>6. decoder'[d] = (IF waits THEN waiting ELSE going) /\ decoder'[Other(d)] = Roused(decoder[Other(d)])
    BY <1>1, <1>2, <1>3, <1>5
  <1>7. /\ accurateReq' \in [Decoders -> BOOLEAN]
        /\ accurateReq'[d] = FALSE /\ accurateReq'[Other(d)] = accurateReq[Other(d)]
        /\ completions' = IF waits THEN completions ELSE completions + 1
    BY <1>1 DEF TakeBack, SeekTypeOK
  <1>8. QED  BY <1>5, <1>6, <1>7

-----------------------------------------------------------------------------
(***************************************************************************)
(* The type invariant.                                                     *)
(***************************************************************************)
LEMMA SeekTypeInit == SeekInit => SeekTypeOK
  <1> SUFFICES ASSUME SeekInit PROVE SeekTypeOK
    OBVIOUS
  <1>1. 0 \in Pts /\ 0 \in Int
    BY SeekAssumption DEF Pts
  <1>2. decoded \in [Decoders -> [pts : Pts \cup {NoPts}, fresh : BOOLEAN]]
    BY <1>1 DEF SeekInit, NoFrame
  <1>3. QED  BY <1>1, <1>2 DEF SeekInit, SeekTypeOK, Places, Free

\* A frame that was kept or dropped.
LEMMA NextFrameType ==
    ASSUME SeekTypeOK, NEW d \in Decoders, NextFrame(d)
    PROVE  /\ decoder' \in [Decoders -> Places]
           /\ decoded' \in [Decoders -> [pts : Pts \cup {NoPts}, fresh : BOOLEAN]]
           /\ target' \in [Decoders -> Pts]
           /\ decoder'[d] = "decode" /\ decoded'[d] = NoFrame /\ target'[d] = 0
           /\ decoder'[Other(d)] = decoder[Other(d)] /\ decoded'[Other(d)] = decoded[Other(d)]
           /\ target'[Other(d)] = target[Other(d)]
  <1>1. Other(d) \in Decoders /\ Other(d) # d
    BY OtherProperties
  <1>2. NoFrame \in [pts : Pts \cup {NoPts}, fresh : BOOLEAN] /\ 0 \in Pts /\ "decode" \in Places
    BY SeekAssumption DEF NoFrame, Pts, Places
  <1>3. decoder' = [decoder EXCEPT ![d] = "decode"] /\ decoded' = [decoded EXCEPT ![d] = NoFrame]
        /\ target' = [target EXCEPT ![d] = 0]
    BY DEF NextFrame, Goes
  <1>4. QED  BY <1>1, <1>2, <1>3 DEF SeekTypeOK

LEMMA GoesType ==
    ASSUME SeekTypeOK, NEW d \in Decoders, NEW p \in Places, Goes(d, p)
    PROVE  /\ decoder' \in [Decoders -> Places] /\ decoder'[d] = p
           /\ decoder'[Other(d)] = decoder[Other(d)]
  <1>1. decoder \in [Decoders -> Places] /\ decoder' = [decoder EXCEPT ![d] = p]
    BY DEF Goes, SeekTypeOK
  <1>2. Other(d) \in Decoders /\ Other(d) # d
    BY OtherProperties
  <1>3. QED  BY <1>1, <1>2

LEMMA PtsAreNumbers == Pts \subseteq Nat /\ Pts \subseteq Int /\ NoPts \in Int /\ NoPts \notin Pts
  BY SeekAssumption DEF Pts, NoPts

\* The frame, and what has been asked of it.
DecodedType == decoded \in [Decoders -> [pts : Pts \cup {NoPts}, fresh : BOOLEAN]]

LEMMA DecoderTypeStep ==
    ASSUME SeekTypeOK, NEW d \in Decoders, DecoderNext(d)
    PROVE  SeekTypeOK'
  <1>0. /\ decoder \in [Decoders -> Places] /\ DecodedType /\ seekPos \in Pts
        /\ ahead[d] \in Nat /\ Other(d) \in Decoders
    BY OtherProperties DEF SeekTypeOK, DecodedType
  <1>1. CASE GetFrame(d)
    <2>1. PICK pts \in {ahead[d]} \cup (IF d \in Unstamped THEN {NoPts} ELSE {}) :
             decoded' = [decoded EXCEPT ![d] = [pts |-> pts, fresh |-> TRUE]]
      BY <1>1 DEF GetFrame
    <2>2. pts \in Pts \cup {NoPts}
      BY <1>0, <1>1, <2>1, SeekAssumption DEF GetFrame, Pts
    <2>3. DecodedType'
      BY <1>0, <2>1, <2>2 DEF DecodedType
    <2>4. decoder' \in [Decoders -> Places]
      BY <1>1, GoesType DEF GetFrame, Places
    <2>5. ahead' \in [Decoders -> Nat]
      <3>1. ahead \in [Decoders -> Nat] /\ ahead' = [ahead EXCEPT ![d] = @ + 1]
        BY <1>1 DEF GetFrame, SeekTypeOK
      <3>2. ahead[d] + 1 \in Nat
        BY <1>0
      <3>3. QED  BY <3>1, <3>2
    <2>6. QED  BY <1>1, <2>3, <2>4, <2>5 DEF GetFrame, SeekTypeOK, DecodedType, accurateVars, historyVars, readerVars
  <1>2. CASE Gate(d)
    <2>1. tooEarly' \in BOOLEAN
      BY <1>2 DEF Gate, KeepFrame, SeekTypeOK
    <2>2. decoder' \in [Decoders -> Places] /\ DecodedType' /\ target' \in [Decoders -> Pts]
      <3>1. CASE KeepFrame(d)
        BY <3>1, NextFrameType DEF KeepFrame, DecodedType
      <3>2. CASE UNCHANGED <<decoded, target>> /\ \E p \in {"fails", "compares"} : Goes(d, p)
        BY <1>0, <3>2, GoesType DEF DecodedType, SeekTypeOK, Places
      <3>3. QED  BY <1>2, <3>1, <3>2 DEF Gate
    <2>3. QED  BY <1>2, <2>1, <2>2 DEF Gate, SeekTypeOK, DecodedType, accurateVars, readerVars
  <1>3. CASE Compares(d)
    <2>1. decoder' \in [Decoders -> Places]
      BY <1>3, GoesType DEF Compares, Places
    <2>2. reached' \in [Decoders -> Int]
      <3>1. decoded[d].pts \in Int
        BY <1>0, SeekAssumption DEF DecodedType, Pts, NoPts
      <3>2. QED  BY <1>3, <3>1 DEF Compares, SeekTypeOK
    <2>3. target' \in [Decoders -> Pts]
      BY <1>0, <1>3 DEF Compares, SeekTypeOK
    <2>4. dropping' \in [Decoders -> BOOLEAN] /\ startTime' \in {"none", "running", "over"}
      BY <1>3 DEF Compares, StartClock, SeekTypeOK
    <2>5. QED  BY <1>3, <2>1, <2>2, <2>3, <2>4 DEF Compares, SeekTypeOK, historyVars, readerVars
  <1>4. CASE Judge(d)
    <2>1. decoder' \in [Decoders -> Places] /\ DecodedType' /\ target' \in [Decoders -> Pts]
      <3>1. CASE NextFrame(d)
        BY <3>1, NextFrameType DEF DecodedType
      <3>2. CASE Goes(d, "fails") /\ UNCHANGED <<decoded, target>>
        BY <1>0, <3>2, GoesType DEF DecodedType, SeekTypeOK, Places
      <3>3. QED  BY <1>4, <3>1, <3>2 DEF Judge
    <2>2. QED  BY <1>4, <2>1 DEF Judge, SeekTypeOK, DecodedType, accurateVars, historyVars, readerVars
  <1>5. CASE Arrives(d)
    <2>1. decoder' \in [Decoders -> Places]
      BY <1>5, GoesType DEF Arrives, Places
    <2>2. dropping' \in [Decoders -> BOOLEAN]
      BY <1>5 DEF Arrives, SeekTypeOK
    <2>3. QED  BY <1>5, <2>1, <2>2 DEF Arrives, SeekTypeOK, historyVars, readerVars
  <1>6. CASE Settle(d)
    <2> DEFINE w == target[d] = seekPos /\ accurateReq[Other(d)] /\ ~seekAborted
    <2>1. TakeBack(d, w, "waits", "checks") /\ w \in BOOLEAN /\ seekHolder' \in Decoders \cup {Free}
          /\ unsettled' \subseteq {"given up", "before", "overtaken"}
      BY <1>6 DEF Settle, Before, SeekTypeOK
    <2> HIDE DEF w
    <2>2. "waits" \in Places /\ "checks" \in Places /\ completions \in Nat
      BY DEF Places, SeekTypeOK
    <2>3. /\ decoder' \in [Decoders -> Places] /\ accurateReq' \in [Decoders -> BOOLEAN]
          /\ completions' = IF w THEN completions ELSE completions + 1
      BY <2>1, <2>2, TakeBackProperties
    <2>4. completions' \in Nat
      BY <2>2, <2>3
    <2>5. QED  BY <1>6, <2>1, <2>3, <2>4 DEF Settle, SeekTypeOK, readerVars
  <1>7. CASE Wake(d)
    <2>1. decoder' \in [Decoders -> Places] /\ seekHolder' \in Decoders \cup {Free}
      BY <1>7, GoesType DEF Wake, Lock, Places
    <2>2. QED  BY <1>7, <2>1 DEF Wake, SeekTypeOK, historyVars, readerVars
  <1>8. CASE Check(d)
    <2>1. /\ decoder' \in [Decoders -> Places] /\ DecodedType' /\ target' \in [Decoders -> Pts]
          /\ accurateReq' \in [Decoders -> BOOLEAN]
      <3>1. CASE accurateReq' = [accurateReq EXCEPT ![d] = TRUE] /\ NextFrame(d)
        BY <3>1, NextFrameType DEF DecodedType, SeekTypeOK
      <3>2. CASE Goes(d, "ends") /\ UNCHANGED <<accurateReq, decoded, target>>
        BY <1>0, <3>2, GoesType DEF DecodedType, SeekTypeOK, Places
      <3>3. QED  BY <1>8, <3>1, <3>2 DEF Check
    <2>2. QED  BY <1>8, <2>1 DEF Check, SeekTypeOK, DecodedType, historyVars, readerVars
  <1>9. CASE Fail(d)
    <2> DEFINE w == accurateReq[Other(d)] /\ ~seekAborted
    <2>1. TakeBack(d, w, "waitsLost", "ends") /\ w \in BOOLEAN
          /\ unsettled' \subseteq {"given up", "before", "overtaken"}
          /\ dropping' \in [Decoders -> BOOLEAN]
      BY <1>9 DEF Fail, Before, SeekTypeOK
    <2> HIDE DEF w
    <2>2. "waitsLost" \in Places /\ "ends" \in Places /\ completions \in Nat
      BY DEF Places, SeekTypeOK
    <2>3. /\ decoder' \in [Decoders -> Places] /\ accurateReq' \in [Decoders -> BOOLEAN]
          /\ completions' = IF w THEN completions ELSE completions + 1
      BY <2>1, <2>2, TakeBackProperties
    <2>4. completions' \in Nat
      BY <2>2, <2>3
    <2>5. QED  BY <1>9, <2>1, <2>3, <2>4 DEF Fail, SeekTypeOK, readerVars
  <1>10. CASE WakeLost(d)
    <2>1. decoder' \in [Decoders -> Places]
      BY <1>10, GoesType DEF WakeLost, Places
    <2>2. QED  BY <1>10, <2>1 DEF WakeLost, SeekTypeOK, accurateVars, historyVars, readerVars
  <1>11. CASE End(d)
    <2>1. decoder' \in [Decoders -> Places] /\ DecodedType' /\ target' \in [Decoders -> Pts]
      BY <1>11, NextFrameType DEF End, KeepFrame, DecodedType
    <2>2. reached' \in [Decoders -> Int] /\ startTime' = "none"
      <3>1. /\ reached \in [Decoders -> Int] /\ startTime' = "none"
            /\ reached' = [reached EXCEPT ![d] = 0] \/ reached' = reached
        BY <1>11 DEF End, SeekTypeOK
      <3>2. QED  BY <3>1
    <2>3. tooEarly' \in BOOLEAN
      BY <1>11 DEF End, KeepFrame, SeekTypeOK
    <2>4. QED  BY <1>11, <2>1, <2>2, <2>3 DEF End, SeekTypeOK, DecodedType, readerVars
  <1>12. QED
    BY <1>1, <1>2, <1>3, <1>4, <1>5, <1>6, <1>7, <1>8, <1>9, <1>10, <1>11 DEF DecoderNext

LEMMA SeekTypeStep == SeekTypeOK /\ [SeekNext]_seekVars => SeekTypeOK'
  <1> SUFFICES ASSUME SeekTypeOK, [SeekNext]_seekVars PROVE SeekTypeOK'
    OBVIOUS
  <1>1. CASE \E d \in Decoders : DecoderNext(d)
    BY <1>1, DecoderTypeStep
  <1>2. CASE TimePasses
    BY <1>2 DEF TimePasses, SeekTypeOK, decoderVars, historyVars, readerVars
  <1>3. CASE SeekAsked
    <2>1. seeks \in Nat /\ seeks' = seeks + 1
      BY <1>3 DEF SeekAsked, SeekTypeOK
    <2>2. seekPos' \in Pts /\ seekReq' \in BOOLEAN /\ seeks' \in Nat
      BY <1>3, <2>1 DEF SeekAsked
    <2>3. QED  BY <1>3, <2>2 DEF SeekAsked, SeekTypeOK, accurateVars, decoderVars, historyVars
  <1>4. CASE SeekFile
    <2>1. ahead' \in [Decoders -> Nat]
      <3>1. CASE \E key \in 0 .. seekPos : ahead' = [d \in Decoders |-> key]
        <4>1. PICK key \in 0 .. seekPos : ahead' = [d \in Decoders |-> key]
          BY <3>1
        <4>2. key \in Nat
          OBVIOUS
        <4>3. QED  BY <4>1, <4>2
      <3>2. QED  BY <1>4, <3>1 DEF SeekFile, SeekTypeOK
    <2>2. DecodedType'
      BY <1>4 DEF SeekFile, SeekTypeOK, DecodedType
    <2>3. QED  BY <1>4, <2>1, <2>2 DEF SeekFile, SeekTypeOK, DecodedType, accurateVars, historyVars
  <1>5. CASE SeekReqTaken
    BY <1>5 DEF SeekReqTaken, SeekTypeOK, decoderVars, historyVars
  <1>6. CASE AskDecoders
    <2>1. decoder' \in [Decoders -> Places]
      BY <1>6, BothType DEF AskDecoders
    <2>2. accurateReq' \in [Decoders -> BOOLEAN]
      BY <1>6 DEF AskDecoders, SeekTypeOK
    <2>3. QED  BY <1>6, <2>1, <2>2 DEF AskDecoders, SeekTypeOK
  <1>7. CASE StopAborts
    BY <1>7 DEF StopAborts, SeekTypeOK, accurateVars, decoderVars, historyVars
  <1>8. CASE StopWakes
    <2>1. decoder' \in [Decoders -> Places]
      BY <1>8, BothType DEF StopWakes
    <2>2. accurateReq' \in [Decoders -> BOOLEAN]
      BY <1>8 DEF StopWakes
    <2>3. QED  BY <1>8, <2>1, <2>2 DEF StopWakes, SeekTypeOK, historyVars
  <1>9. CASE UNCHANGED seekVars
    BY <1>9 DEF seekVars, accurateVars, decoderVars, historyVars, readerVars, SeekTypeOK
  <1>10. QED
    BY <1>1, <1>2, <1>3, <1>4, <1>5, <1>6, <1>7, <1>8, <1>9 DEF SeekNext, ReaderSeeks

-----------------------------------------------------------------------------
(***************************************************************************)
(* What a step of one decoder leaves alone: the reading thread, and of the *)
(* other decoder everything but its sleep.                                 *)
(***************************************************************************)
LEMMA OtherKept ==
    ASSUME SeekTypeOK, NEW d \in Decoders, DecoderNext(d), NEW e, e = Other(d)
    PROVE  /\ UNCHANGED <<streams, seekReq, seekPos, seekReader, seekAborted, seekStopper, seeks>>
           /\ decoded'[e] = decoded[e] /\ target'[e] = target[e] /\ ahead'[e] = ahead[e]
           /\ accurateReq'[e] = accurateReq[e]
           /\ decoder'[e] = decoder[e] \/ decoder'[e] = Roused(decoder[e])
           /\ accurateReq[d] /\ ~accurateReq'[d] => decoder'[e] = Roused(decoder[e])
           /\ unsettled \subseteq unsettled'
  <1>0. /\ e \in Decoders /\ e # d /\ decoder \in [Decoders -> Places]
        /\ accurateReq \in [Decoders -> BOOLEAN] /\ target \in [Decoders -> Pts]
        /\ ahead \in [Decoders -> Nat]
        /\ decoded \in [Decoders -> [pts : Pts \cup {NoPts}, fresh : BOOLEAN]]
    BY OtherProperties DEF SeekTypeOK
  <1>1. CASE GetFrame(d)
    BY <1>0, <1>1 DEF GetFrame, Goes, accurateVars, historyVars, readerVars
  <1>2. CASE Gate(d)
    BY <1>0, <1>2 DEF Gate, KeepFrame, NextFrame, Goes, accurateVars, readerVars
  <1>3. CASE Compares(d)
    BY <1>0, <1>3 DEF Compares, Goes, historyVars, readerVars
  <1>4. CASE Judge(d)
    BY <1>0, <1>4 DEF Judge, NextFrame, Goes, accurateVars, historyVars, readerVars
  <1>5. CASE Arrives(d)
    BY <1>0, <1>5 DEF Arrives, Goes, historyVars, readerVars
  <1>6. CASE Settle(d)
    <2> DEFINE w == target[d] = seekPos /\ accurateReq[Other(d)] /\ ~seekAborted
    <2>1. TakeBack(d, w, "waits", "checks") /\ w \in BOOLEAN /\ "waits" \in Places /\ "checks" \in Places
      BY <1>6 DEF Settle, Places
    <2> HIDE DEF w
    <2>2. accurateReq'[e] = accurateReq[e] /\ decoder'[e] = Roused(decoder[e])
      BY <2>1, TakeBackProperties
    <2>3. QED  BY <1>6, <2>2 DEF Settle, readerVars
  <1>7. CASE Wake(d)
    BY <1>0, <1>7 DEF Wake, Goes, historyVars, readerVars
  <1>8. CASE Check(d)
    BY <1>0, <1>8 DEF Check, NextFrame, Goes, historyVars, readerVars
  <1>9. CASE Fail(d)
    <2> DEFINE w == accurateReq[Other(d)] /\ ~seekAborted
    <2>1. TakeBack(d, w, "waitsLost", "ends") /\ w \in BOOLEAN /\ "waitsLost" \in Places /\ "ends" \in Places
      BY <1>0, <1>9 DEF Fail, Places
    <2> HIDE DEF w
    <2>2. accurateReq'[e] = accurateReq[e] /\ decoder'[e] = Roused(decoder[e])
      BY <2>1, TakeBackProperties
    <2>3. QED  BY <1>9, <2>2 DEF Fail, readerVars
  <1>10. CASE WakeLost(d)
    BY <1>0, <1>10 DEF WakeLost, Goes, accurateVars, historyVars, readerVars
  <1>11. CASE End(d)
    BY <1>0, <1>11 DEF End, KeepFrame, NextFrame, Goes, readerVars
  <1>12. QED
    BY <1>1, <1>2, <1>3, <1>4, <1>5, <1>6, <1>7, <1>8, <1>9, <1>10, <1>11 DEF DecoderNext

-----------------------------------------------------------------------------
(***************************************************************************)
(* A decoder that waits for the other one waits for a request that is set. *)
(***************************************************************************)
LEMMA WaitedStep == SeekTypeOK /\ WaitedForIsDue /\ [SeekNext]_seekVars => WaitedForIsDue'
  <1> SUFFICES ASSUME SeekTypeOK, WaitedForIsDue, [SeekNext]_seekVars PROVE WaitedForIsDue'
    OBVIOUS
  <1>0. /\ decoder \in [Decoders -> Places] /\ accurateReq \in [Decoders -> BOOLEAN]
        /\ \A c \in Decoders : Other(c) \in Decoders
    BY OtherProperties DEF SeekTypeOK
  <1>1. ASSUME NEW d \in Decoders, DecoderNext(d) PROVE WaitedForIsDue'
    <2> DEFINE e == Other(d)
    <2>1. /\ e \in Decoders /\ e # d /\ Other(e) = d /\ decoder[e] \in Places /\ decoder[d] \in Places
          /\ \A c \in Decoders : c = d \/ c = e
      BY <1>0, OtherProperties
    <2>2. /\ accurateReq'[e] = accurateReq[e]
          /\ decoder'[e] = decoder[e] \/ decoder'[e] = Roused(decoder[e])
          /\ accurateReq[d] /\ ~accurateReq'[d] => decoder'[e] = Roused(decoder[e])
      BY <1>1, OtherKept
    <2>3. decoder'[e] \in {"waits", "waitsLost"} => accurateReq'[d]
      BY <2>1, <2>2, RousedProperties DEF WaitedForIsDue
    <2>4. decoder'[d] \in {"waits", "waitsLost"} => accurateReq'[e]
      <3>1. CASE Settle(d)
        <4> DEFINE w == target[d] = seekPos /\ accurateReq[Other(d)] /\ ~seekAborted
        <4>1. TakeBack(d, w, "waits", "checks") /\ w \in BOOLEAN /\ "waits" \in Places /\ "checks" \in Places
          BY <3>1 DEF Settle, Places
        <4> HIDE DEF w
        <4>2. ~w => decoder'[d] = "checks"
          BY <4>1, TakeBackProperties
        <4>3. QED  BY <2>2, <4>2 DEF w
      <3>2. CASE Fail(d)
        <4> DEFINE w == accurateReq[Other(d)] /\ ~seekAborted
        <4>1. TakeBack(d, w, "waitsLost", "ends") /\ w \in BOOLEAN /\ "waitsLost" \in Places /\ "ends" \in Places
          BY <1>0, <3>2 DEF Fail, Places
        <4> HIDE DEF w
        <4>2. ~w => decoder'[d] = "ends"
          BY <4>1, TakeBackProperties
        <4>3. QED  BY <2>2, <4>2 DEF w
      <3>3. CASE GetFrame(d) \/ Gate(d) \/ Compares(d) \/ Judge(d) \/ Arrives(d)
        BY <1>0, <3>3 DEF GetFrame, Gate, Compares, Judge, Arrives, KeepFrame, NextFrame, Goes
      <3>4. CASE Wake(d) \/ Check(d) \/ WakeLost(d) \/ End(d)
        BY <1>0, <3>4 DEF Wake, Check, WakeLost, End, KeepFrame, NextFrame, Goes
      <3>5. QED  BY <1>1, <3>1, <3>2, <3>3, <3>4 DEF DecoderNext
    <2>5. QED  BY <2>1, <2>3, <2>4 DEF WaitedForIsDue
  <1>2. CASE TimePasses \/ SeekAsked \/ SeekFile \/ SeekReqTaken \/ StopAborts
    BY <1>2 DEF TimePasses, SeekAsked, SeekFile, SeekReqTaken, StopAborts, WaitedForIsDue,
       accurateVars, decoderVars
  <1>3. CASE AskDecoders \/ StopWakes
    <2>1. decoder' = [d \in Decoders |-> Roused(decoder[d])]
      BY <1>3, BothProperties DEF AskDecoders, StopWakes
    <2>2. \A d \in Decoders : decoder'[d] \notin {"waits", "waitsLost"}
      BY <1>0, <2>1, RousedProperties
    <2>3. QED  BY <2>2 DEF WaitedForIsDue
  <1>4. CASE UNCHANGED seekVars
    BY <1>4 DEF seekVars, accurateVars, decoderVars, WaitedForIsDue
  <1>5. QED  BY <1>1, <1>2, <1>3, <1>4 DEF SeekNext, ReaderSeeks

-----------------------------------------------------------------------------
(***************************************************************************)
(* What a decoder's frame has to do with its target.                       *)
(***************************************************************************)
LEMMA FrameDecoderStep ==
    ASSUME SeekTypeOK, FrameInv, NEW d \in Decoders, DecoderNext(d)
    PROVE  FrameInv'
  <1> DEFINE e == Other(d)
  <1>0. /\ decoder \in [Decoders -> Places] /\ accurateReq \in [Decoders -> BOOLEAN]
        /\ target \in [Decoders -> Pts] /\ ahead \in [Decoders -> Nat]
        /\ decoded \in [Decoders -> [pts : Pts \cup {NoPts}, fresh : BOOLEAN]]
        /\ seekPos \in Pts /\ Pts \subseteq Int /\ NoPts \in Int
    BY PtsAreNumbers DEF SeekTypeOK
  <1>1. /\ e \in Decoders /\ e # d /\ decoder[e] \in Places /\ decoder[d] \in Places
        /\ \A c \in Decoders : c = d \/ c = e
    BY <1>0, OtherProperties
  <1>2. /\ UNCHANGED <<streams, seekReq, seekPos, seekReader>>
        /\ decoded'[e] = decoded[e] /\ target'[e] = target[e] /\ ahead'[e] = ahead[e]
        /\ accurateReq'[e] = accurateReq[e]
        /\ decoder'[e] = decoder[e] \/ decoder'[e] = Roused(decoder[e])
    BY OtherKept
  <1>3. FrameOf(e)'
    <2>1. CASE decoder'[e] = decoder[e]
      BY <1>1, <1>2, <2>1 DEF FrameInv, FrameOf
    <2>2. CASE decoder'[e] = Roused(decoder[e])
      <3>1. \/ decoder'[e] = decoder[e]
            \/ decoder[e] = "waits" /\ decoder'[e] = "woken"
            \/ decoder[e] = "waitsLost" /\ decoder'[e] = "wokenLost"
        BY <1>1, <2>2, RousedProperties
      <3>2. QED  BY <1>1, <1>2, <3>1 DEF FrameInv, FrameOf
    <2>3. QED  BY <1>2, <2>1, <2>2
  <1>4. FrameOf(d)'
    <2>0. FrameOf(d)
      BY DEF FrameInv
    <2>1. CASE GetFrame(d)
      <3>1. PICK pts \in {ahead[d]} \cup (IF d \in Unstamped THEN {NoPts} ELSE {}) :
               decoded' = [decoded EXCEPT ![d] = [pts |-> pts, fresh |-> TRUE]]
        BY <2>1 DEF GetFrame
      <3>2. /\ decoded'[d].pts = pts /\ decoder'[d] = "gate" /\ ahead'[d] = ahead[d] + 1
            /\ d \in streams /\ seekReader = "reads"
        BY <1>0, <2>1, <3>1 DEF GetFrame, Goes
      <3>3. ahead[d] \in Nat /\ NoPts = -1
        BY <1>0 DEF NoPts
      <3>4. pts < ahead[d] + 1
        BY <3>3
      <3>5. QED  BY <1>2, <3>2, <3>4 DEF FrameOf
    <2>2. CASE NextFrame(d) /\ (d \in streams \/ UNCHANGED accurateReq)
      <3>1. decoder'[d] = "decode" /\ decoded'[d] = NoFrame
        BY <2>2, NextFrameType
      <3>2. QED  BY <1>2, <2>0, <2>2, <3>1 DEF FrameOf, NoFrame
    <2>3. CASE Gate(d)
      <3>1. CASE KeepFrame(d)
        BY <2>2, <2>3, <3>1 DEF KeepFrame, Gate, accurateVars
      <3>2. CASE UNCHANGED decoded /\ \E p \in {"fails", "compares"} : Goes(d, p)
        <4>1. decoder'[d] \in {"fails", "compares"}
          BY <3>2, GoesType DEF Places
        <4>2. QED  BY <1>2, <2>0, <2>3, <3>2, <4>1 DEF Gate, accurateVars, FrameOf
      <3>3. QED  BY <2>3, <3>1, <3>2 DEF Gate
    <2>4. CASE Compares(d)
      <3>1. target'[d] = seekPos /\ UNCHANGED <<decoded, ahead, accurateReq>> /\ decoder[d] = "compares"
        BY <1>0, <2>4 DEF Compares
      <3>2. CASE TooFar(d)
        <4>1. decoder'[d] = "polls"
          BY <2>4, <3>2, GoesType DEF Compares, Places
        <4>2. QED  BY <1>2, <2>0, <3>1, <4>1 DEF FrameOf
      <3>3. CASE ~TooFar(d)
        <4>1. decoder'[d] = "arrives"
          BY <2>4, <3>3, GoesType DEF Compares, Places
        <4>2. decoded[d].pts \in Int /\ seekPos \in Int
          BY <1>0
        <4>3. decoded[d].pts >= seekPos
          BY <3>3, <4>2 DEF TooFar
        <4>4. QED  BY <1>2, <2>0, <3>1, <4>1, <4>3 DEF FrameOf
      <3>4. QED  BY <3>2, <3>3
    <2>5. CASE Judge(d)
      <3>1. CASE NextFrame(d)
        BY <2>2, <2>5, <3>1 DEF Judge, accurateVars
      <3>2. CASE Goes(d, "fails") /\ UNCHANGED <<decoded, target>>
        <4>1. decoder'[d] = "fails"
          BY <3>2, GoesType DEF Places
        <4>2. QED  BY <1>2, <2>0, <2>5, <3>2, <4>1 DEF Judge, accurateVars, FrameOf
      <3>3. QED  BY <2>5, <3>1, <3>2 DEF Judge
    <2>6. CASE Arrives(d)
      <3>1. /\ UNCHANGED <<decoded, target, ahead, accurateReq>> /\ decoder[d] = "arrives"
            /\ decoder'[d] \in {"settles", "ends"}
        BY <2>6, GoesType DEF Arrives, Places
      <3>2. QED  BY <1>2, <2>0, <3>1 DEF FrameOf
    <2>7. CASE Settle(d) \/ Fail(d)
      <3>1. CASE Settle(d)
        <4> DEFINE w == target[d] = seekPos /\ accurateReq[Other(d)] /\ ~seekAborted
        <4>1. /\ TakeBack(d, w, "waits", "checks") /\ w \in BOOLEAN
              /\ "waits" \in Places /\ "checks" \in Places
              /\ UNCHANGED <<decoded, target, ahead>> /\ decoder[d] = "settles"
          BY <3>1 DEF Settle, Places
        <4> HIDE DEF w
        <4>2. decoder'[d] \in {"waits", "checks"} /\ accurateReq'[d] = FALSE
          BY <4>1, TakeBackProperties
        <4>3. QED  BY <1>2, <2>0, <4>1, <4>2 DEF FrameOf
      <3>2. CASE Fail(d)
        <4> DEFINE w == accurateReq[Other(d)] /\ ~seekAborted
        <4>1. /\ TakeBack(d, w, "waitsLost", "ends") /\ w \in BOOLEAN
              /\ "waitsLost" \in Places /\ "ends" \in Places
              /\ UNCHANGED <<decoded, target, ahead>> /\ decoder[d] = "fails"
          BY <1>0, <3>2 DEF Fail, Places
        <4> HIDE DEF w
        <4>2. decoder'[d] \in {"waitsLost", "ends"} /\ accurateReq'[d] = FALSE
          BY <4>1, TakeBackProperties
        <4>3. QED  BY <1>2, <2>0, <4>1, <4>2 DEF FrameOf
      <3>3. QED  BY <2>7, <3>1, <3>2
    <2>8. CASE Wake(d) \/ WakeLost(d)
      <3>1. /\ UNCHANGED <<decoded, target, ahead, accurateReq>>
            /\ \/ decoder[d] \in {"waits", "woken"} /\ decoder'[d] = "checks"
               \/ decoder[d] \in {"waitsLost", "wokenLost"} /\ decoder'[d] = "ends"
        BY <2>8, GoesType DEF Wake, WakeLost, accurateVars, Places
      <3>2. QED  BY <1>2, <2>0, <3>1 DEF FrameOf
    <2>9. CASE Check(d)
      <3>0. d \in streams
        BY <2>0, <2>9 DEF Check, FrameOf
      <3>1. CASE NextFrame(d)
        BY <2>2, <3>0, <3>1
      <3>2. CASE Goes(d, "ends") /\ UNCHANGED <<accurateReq, decoded, target>>
        <4>1. decoder'[d] = "ends"
          BY <3>2, GoesType DEF Places
        <4>2. QED  BY <1>2, <2>0, <2>9, <3>2, <4>1 DEF Check, FrameOf
      <3>3. QED  BY <2>9, <3>1, <3>2 DEF Check
    <2>10. CASE End(d)
      BY <2>2, <2>10 DEF End, KeepFrame
    <2>11. QED
      BY <2>1, <2>3, <2>4, <2>5, <2>6, <2>7, <2>8, <2>9, <2>10 DEF DecoderNext
  <1>5. QED  BY <1>1, <1>3, <1>4 DEF FrameInv

LEMMA FrameStep == SeekTypeOK /\ FrameInv /\ [SeekNext]_seekVars => FrameInv'
  <1> SUFFICES ASSUME SeekTypeOK, FrameInv, [SeekNext]_seekVars PROVE FrameInv'
    OBVIOUS
  <1>0. decoder \in [Decoders -> Places]
        /\ decoded \in [Decoders -> [pts : Pts \cup {NoPts}, fresh : BOOLEAN]]
    BY DEF SeekTypeOK
  <1>1. CASE \E d \in Decoders : DecoderNext(d)
    BY <1>1, FrameDecoderStep
  <1>2. CASE TimePasses \/ StopAborts \/ UNCHANGED seekVars
    BY <1>2 DEF TimePasses, StopAborts, seekVars, accurateVars, decoderVars, readerVars,
       historyVars, FrameInv, FrameOf
  <1>3. CASE SeekAsked
    BY <1>3 DEF SeekAsked, accurateVars, decoderVars, FrameInv, FrameOf
  <1>4. CASE SeekFile
    <2>1. \A d \in Decoders : decoded'[d].fresh = FALSE /\ decoded'[d].pts = decoded[d].pts
      BY <1>0, <1>4 DEF SeekFile
    <2>2. UNCHANGED <<decoder, target, accurateReq, streams>>
      BY <1>4 DEF SeekFile, accurateVars
    <2>3. QED  BY <2>1, <2>2 DEF FrameInv, FrameOf
  <1>5. CASE SeekReqTaken
    BY <1>5 DEF SeekReqTaken, decoderVars, FrameInv, FrameOf
  <1>6. CASE AskDecoders \/ StopWakes
    <2>1. /\ decoder' = [d \in Decoders |-> Roused(decoder[d])]
          /\ UNCHANGED <<decoded, target, ahead, streams, seekReq, seekPos>>
          /\ seekReader' = seekReader \/ seekReader' = "reads"
          /\ \A d \in Decoders : accurateReq'[d] => accurateReq[d] \/ d \in streams
      BY <1>6, BothProperties DEF AskDecoders, StopWakes
    <2>2. ASSUME NEW d \in Decoders PROVE FrameOf(d)'
      <3>1. \/ decoder'[d] = decoder[d]
            \/ decoder[d] = "waits" /\ decoder'[d] = "woken"
            \/ decoder[d] = "waitsLost" /\ decoder'[d] = "wokenLost"
        BY <1>0, <2>1, RousedProperties
      <3>2. QED  BY <2>1, <3>1 DEF FrameInv, FrameOf
    <2>3. QED  BY <2>2 DEF FrameInv
  <1>7. QED  BY <1>1, <1>2, <1>3, <1>4, <1>5, <1>6 DEF SeekNext, ReaderSeeks

-----------------------------------------------------------------------------
(***************************************************************************)
(* What a decoder does with its request and its frame, for the invariants  *)
(* that follow: the transitions of a decoder, its places named.            *)
(***************************************************************************)
Taken(d, w) ==
    /\ w \in BOOLEAN /\ accurateReq'[d] = FALSE
    /\ UNCHANGED <<decoded, target, ahead>>
    /\ completions' = IF w THEN completions ELSE completions + 1

LEMMA SettleFacts ==
    ASSUME SeekTypeOK, NEW d \in Decoders, Settle(d),
           NEW w, w = (target[d] = seekPos /\ accurateReq[Other(d)] /\ ~seekAborted)
    PROVE  /\ Taken(d, w) /\ decoder[d] = "settles"
           /\ w => decoder'[d] = "waits"
           /\ ~w => decoder'[d] = "checks"
           /\ unsettled' = unsettled \cup Before(d) /\ UNCHANGED tooEarly
  <1>1. /\ TakeBack(d, w, "waits", "checks") /\ w \in BOOLEAN
        /\ "waits" \in Places /\ "checks" \in Places
    BY DEF Settle, Places
  <1>2. /\ w => decoder'[d] = "waits"
        /\ ~w => decoder'[d] = "checks"
        /\ accurateReq'[d] = FALSE
        /\ completions' = IF w THEN completions ELSE completions + 1
    BY <1>1, TakeBackProperties
  <1>3. QED  BY <1>1, <1>2 DEF Settle, Taken

LEMMA FailFacts ==
    ASSUME SeekTypeOK, NEW d \in Decoders, Fail(d),
           NEW w, w = (accurateReq[Other(d)] /\ ~seekAborted)
    PROVE  /\ Taken(d, w) /\ decoder[d] = "fails"
           /\ w => decoder'[d] = "waitsLost"
           /\ ~w => decoder'[d] = "ends"
           /\ unsettled' = unsettled \cup Before(d) \cup {"given up"} /\ UNCHANGED tooEarly
  <1>1. /\ TakeBack(d, w, "waitsLost", "ends") /\ w \in BOOLEAN
        /\ "waitsLost" \in Places /\ "ends" \in Places
    BY OtherProperties DEF Fail, Places, SeekTypeOK
  <1>2. /\ w => decoder'[d] = "waitsLost"
        /\ ~w => decoder'[d] = "ends"
        /\ accurateReq'[d] = FALSE
        /\ completions' = IF w THEN completions ELSE completions + 1
    BY <1>1, TakeBackProperties
  <1>3. QED  BY <1>1, <1>2 DEF Fail, Taken

\* The frame is kept or dropped, its request as it was.
Leaves(d) ==
    /\ decoder[d] \in {"gate", "polls", "ends"} /\ decoder'[d] = "decode" /\ decoded'[d] = NoFrame
    /\ UNCHANGED <<ahead, accurateReq, unsettled, completions>>

\* It stays, and the decoder goes on to another place.
Passes(d, from, to) ==
    /\ decoder[d] = from /\ decoder'[d] = to
    /\ UNCHANGED <<decoded, ahead, accurateReq, unsettled, completions>>

LEMMA Transitions ==
    ASSUME SeekTypeOK, NEW d \in Decoders, DecoderNext(d)
    PROVE  \/ GetFrame(d)
           \/ Leaves(d)
           \/ Passes(d, "gate", "compares") /\ accurateReq[d] /\ ~seekReq
           \/ Passes(d, "gate", "fails") /\ accurateReq[d] /\ ~seekReq
           \/ Passes(d, "compares", "polls") \/ Passes(d, "compares", "arrives")
           \/ Passes(d, "polls", "fails")
           \/ Passes(d, "arrives", "settles")
           \/ Passes(d, "arrives", "ends") /\ target[d] # seekPos
           \/ Settle(d) \/ Fail(d)
           \/ \E p \in {"waits", "woken"} : Passes(d, p, "checks") /\ UNCHANGED target
           \/ Passes(d, "checks", "ends") /\ ~Overtaken(d)
           \/ /\ decoder[d] = "checks" /\ Overtaken(d)
              /\ accurateReq'[d] = TRUE /\ decoder'[d] = "decode" /\ decoded'[d] = NoFrame
              /\ UNCHANGED <<ahead, unsettled, completions>>
           \/ \E p \in {"waitsLost", "wokenLost"} : Passes(d, p, "ends")
  <1>0. accurateReq \in [Decoders -> BOOLEAN]
    BY DEF SeekTypeOK
  <1> USE NextFrameType, GoesType DEF Places
  <1>1. CASE GetFrame(d) \/ Settle(d) \/ Fail(d)
    BY <1>1
  <1>2. CASE Gate(d)
    BY <1>2 DEF Gate, KeepFrame, Leaves, Passes, accurateVars
  <1>3. CASE Compares(d)
    BY <1>3 DEF Compares, Passes, historyVars
  <1>4. CASE Judge(d)
    BY <1>4 DEF Judge, Leaves, Passes, accurateVars, historyVars
  <1>5. CASE Arrives(d)
    BY <1>5 DEF Arrives, Passes, historyVars
  <1>6. CASE Wake(d)
    BY <1>6 DEF Wake, Passes, historyVars
  <1>7. CASE Check(d)
    BY <1>0, <1>7 DEF Check, Passes, historyVars
  <1>8. CASE WakeLost(d)
    BY <1>8 DEF WakeLost, Passes, accurateVars, historyVars
  <1>9. CASE End(d)
    BY <1>9 DEF End, KeepFrame, Leaves
  <1>10. QED
    BY <1>1, <1>2, <1>3, <1>4, <1>5, <1>6, <1>7, <1>8, <1>9 DEF DecoderNext

-----------------------------------------------------------------------------
(***************************************************************************)
(* Requests.                                                               *)
(***************************************************************************)
\* What is typed, for the steps below.
LEMMA SeekTypes ==
    ASSUME SeekTypeOK, NEW d \in Decoders
    PROVE  /\ decoder[d] \in Places /\ accurateReq[d] \in BOOLEAN /\ target[d] \in Int
           /\ ahead[d] \in Int /\ seekPos \in Int /\ decoded[d].pts \in Int
           /\ decoded[d].fresh \in BOOLEAN
  <1>1. /\ decoder \in [Decoders -> Places] /\ accurateReq \in [Decoders -> BOOLEAN]
        /\ target \in [Decoders -> Pts] /\ ahead \in [Decoders -> Nat] /\ seekPos \in Pts
        /\ decoded \in [Decoders -> [pts : Pts \cup {NoPts}, fresh : BOOLEAN]]
    BY DEF SeekTypeOK
  <1>2. decoded[d] \in [pts : Pts \cup {NoPts}, fresh : BOOLEAN]
    BY <1>1
  <1>3. target[d] \in Int /\ seekPos \in Int
    BY <1>1, PtsAreNumbers
  <1>4. decoded[d].pts \in Int /\ decoded[d].fresh \in BOOLEAN
    BY <1>2, PtsAreNumbers
  <1>5. ahead[d] \in Int /\ decoder[d] \in Places /\ accurateReq[d] \in BOOLEAN
    BY <1>1
  <1>6. QED  BY <1>3, <1>4, <1>5

\* The places after both decoders were signalled.
LEMMA RousedAll ==
    ASSUME SeekTypeOK, AskDecoders \/ StopWakes, NEW d \in Decoders
    PROVE  \/ decoder'[d] = decoder[d] /\ decoder[d] \notin {"waits", "waitsLost"}
           \/ decoder[d] = "waits" /\ decoder'[d] = "woken"
           \/ decoder[d] = "waitsLost" /\ decoder'[d] = "wokenLost"
  <1>1. decoder'[d] = Roused(decoder[d])
    BY BothProperties DEF AskDecoders, StopWakes
  <1>2. QED  BY <1>1, SeekTypes, RousedProperties

LEMMA RousedOther ==
    ASSUME SeekTypeOK, NEW d \in Decoders, DecoderNext(d), NEW e, e = Other(d)
    PROVE  \/ decoder'[e] = decoder[e]
           \/ decoder[e] = "waits" /\ decoder'[e] = "woken"
           \/ decoder[e] = "waitsLost" /\ decoder'[e] = "wokenLost"
  <1>1. e \in Decoders /\ decoder[e] \in Places
    BY OtherProperties, SeekTypes
  <1>2. decoder'[e] = decoder[e] \/ decoder'[e] = Roused(decoder[e])
    BY OtherKept
  <1>3. QED  BY <1>1, <1>2, RousedProperties

LEMMA RequestStep ==
    SeekTypeOK /\ FrameInv /\ RequestInv /\ [SeekNext]_seekVars => RequestInv'
  <1> SUFFICES ASSUME SeekTypeOK, FrameInv, RequestInv, [SeekNext]_seekVars PROVE RequestInv'
    OBVIOUS
  <1>1. ASSUME NEW d \in Decoders, DecoderNext(d) PROVE RequestInv'
    <2> DEFINE e == Other(d)
    <2>1. e \in Decoders /\ \A c \in Decoders : c = d \/ c = e
      BY OtherProperties
    <2>2. /\ UNCHANGED <<seekReq, seekPos, seekReader, seekAborted, seekStopper>>
          /\ decoded'[e] = decoded[e] /\ accurateReq'[e] = accurateReq[e]
          /\ unsettled \subseteq unsettled'
      BY <1>1, OtherKept
    <2>3. Asked' = Asked
      BY <2>2 DEF Asked
    <2>4. RequestOf(e)'
      <3>1. RequestOf(e)
        BY <2>1 DEF RequestInv
      <3>2. \/ decoder'[e] = decoder[e]
            \/ decoder[e] = "waits" /\ decoder'[e] = "woken"
            \/ decoder[e] = "waitsLost" /\ decoder'[e] = "wokenLost"
        BY <1>1, RousedOther
      <3>3. QED  BY <2>2, <2>3, <3>1, <3>2 DEF RequestOf
    <2>5. RequestOf(d)'
      <3>0. RequestOf(d)
        BY DEF RequestInv
      <3>1. CASE GetFrame(d)
        BY <3>1, GoesType DEF GetFrame, RequestOf, Places
      <3>2. CASE Leaves(d)
        BY <3>2 DEF Leaves, RequestOf
      <3>3. CASE Settle(d)
        <4> DEFINE w == target[d] = seekPos /\ accurateReq[Other(d)] /\ ~seekAborted
        <4>1. /\ Taken(d, w) /\ decoder'[d] \in {"waits", "checks"}
              /\ unsettled' = unsettled \cup Before(d)
          BY <3>3, SettleFacts
        <4>2. ~decoded[d].fresh => "overtaken" \in Before(d) \/ "before" \in Before(d)
          BY DEF Before
        <4>3. QED  BY <4>1, <4>2 DEF RequestOf, Taken
      <3>4. CASE Fail(d)
        <4> DEFINE w == accurateReq[Other(d)] /\ ~seekAborted
        <4>1. decoder'[d] \in {"waitsLost", "ends"}
          BY <3>4, FailFacts
        <4>2. QED  BY <4>1 DEF RequestOf
      <3>5. CASE /\ decoder[d] = "checks" /\ Overtaken(d)
                 /\ accurateReq'[d] = TRUE /\ decoder'[d] = "decode" /\ decoded'[d] = NoFrame
        BY <3>5 DEF RequestOf
      <3>6. CASE \/ Passes(d, "gate", "compares") /\ accurateReq[d]
                 \/ Passes(d, "gate", "fails") /\ accurateReq[d]
                 \/ Passes(d, "compares", "polls") \/ Passes(d, "compares", "arrives")
                 \/ Passes(d, "polls", "fails")
                 \/ Passes(d, "arrives", "settles") \/ Passes(d, "arrives", "ends")
        BY <2>2, <2>3, <3>0, <3>6 DEF RequestOf, Passes
      <3>7. CASE \/ \E p \in {"waits", "woken"} : Passes(d, p, "checks")
                 \/ Passes(d, "checks", "ends")
                 \/ \E p \in {"waitsLost", "wokenLost"} : Passes(d, p, "ends")
        BY <2>2, <2>3, <3>0, <3>7 DEF RequestOf, Passes
      <3>8. QED  BY <1>1, <3>1, <3>2, <3>3, <3>4, <3>5, <3>6, <3>7, Transitions
    <2>6. QED  BY <2>1, <2>2, <2>4, <2>5 DEF RequestInv
  <1>2. CASE TimePasses \/ UNCHANGED seekVars
    <2>1. UNCHANGED <<decoder, accurateReq, decoded, unsettled, seekReq, seekReader, seekAborted,
                      seekStopper>>
      BY <1>2 DEF TimePasses, seekVars, accurateVars, decoderVars, readerVars, historyVars
    <2>2. QED  BY <2>1 DEF RequestInv, RequestOf, Asked
  <1>3. CASE SeekAsked
    <2>1. ~Asked' /\ UNCHANGED <<decoder, accurateReq, seekAborted, seekStopper>>
      BY <1>3 DEF SeekAsked, accurateVars, decoderVars, Asked
    <2>2. QED  BY <2>1 DEF RequestInv, RequestOf
  <1>4. CASE SeekFile \/ SeekReqTaken
    <2>1. ~Asked' /\ UNCHANGED <<decoder, accurateReq, seekAborted, seekStopper>>
      BY <1>4 DEF SeekFile, SeekReqTaken, accurateVars, decoderVars, Asked
    <2>2. QED  BY <2>1 DEF RequestInv, RequestOf
  <1>5. CASE AskDecoders
    <2>1. ASSUME NEW d \in Decoders PROVE RequestOf(d)'
      <3>1. decoder'[d] = "decode" \/ accurateReq'[d]
        BY <1>5, RousedAll DEF AskDecoders, FrameInv, FrameOf
      <3>2. QED  BY <3>1 DEF RequestOf
    <2>2. QED  BY <1>5, <2>1 DEF RequestInv, AskDecoders
  <1>6. CASE StopAborts \/ StopWakes
    BY <1>6 DEF StopAborts, StopWakes, RequestInv, RequestOf, Asked
  <1>7. QED  BY <1>1, <1>2, <1>3, <1>4, <1>5, <1>6 DEF SeekNext, ReaderSeeks

-----------------------------------------------------------------------------
(***************************************************************************)
(* The first frame that is kept.                                           *)
(***************************************************************************)
LEMMA StartStep ==
    SeekTypeOK /\ FrameInv /\ RequestInv /\ StartInv /\ [SeekNext]_seekVars => StartInv'
  <1> SUFFICES ASSUME SeekTypeOK, FrameInv, RequestInv, StartInv, [SeekNext]_seekVars PROVE StartInv'
    OBVIOUS
  <1>1. ASSUME NEW d \in Decoders, DecoderNext(d) PROVE StartInv'
    <2> DEFINE e == Other(d)
    <2>1. e \in Decoders /\ \A c \in Decoders : c = d \/ c = e
      BY OtherProperties
    <2>2. /\ UNCHANGED <<streams, seekReq, seekPos, seekReader, seekAborted>>
          /\ decoded'[e] = decoded[e] /\ target'[e] = target[e] /\ ahead'[e] = ahead[e]
          /\ accurateReq'[e] = accurateReq[e] /\ unsettled \subseteq unsettled'
      BY <1>1, OtherKept
    <2>3. Asked' = Asked
      BY <2>2 DEF Asked
    <2>4. StartOf(e)'
      <3>1. StartOf(e) /\ AtTarget(e)' = AtTarget(e)
        BY <2>1, <2>2 DEF StartInv, AtTarget
      <3>2. \/ decoder'[e] = decoder[e]
            \/ decoder[e] = "waits" /\ decoder'[e] = "woken"
            \/ decoder[e] = "waitsLost" /\ decoder'[e] = "wokenLost"
        BY <1>1, RousedOther
      <3>3. QED  BY <2>2, <2>3, <3>1, <3>2 DEF StartOf
    <2>5. StartOf(d)'
      <3>0. /\ StartOf(d) /\ FrameOf(d)
            /\ ahead[d] \in Int /\ seekPos \in Int /\ decoded[d].pts \in Int /\ target[d] \in Int
        BY SeekTypes DEF StartInv, FrameInv
      <3>1. CASE GetFrame(d)
        <4>1. PICK pts \in {ahead[d]} \cup (IF d \in Unstamped THEN {NoPts} ELSE {}) :
                 decoded' = [decoded EXCEPT ![d] = [pts |-> pts, fresh |-> TRUE]]
          BY <3>1 DEF GetFrame
        <4>2. decoded'[d].pts = pts /\ ahead'[d] = ahead[d] + 1
          BY <3>1, <4>1 DEF GetFrame, SeekTypeOK
        <4>3. decoder[d] = "decode" /\ decoder'[d] = "gate" /\ UNCHANGED <<accurateReq, unsettled>>
          BY <3>1, GoesType DEF GetFrame, Places, accurateVars, historyVars
        <4>4. ahead[d] >= seekPos => ahead'[d] >= seekPos /\ AtTarget(d)'
          BY <2>2, <3>0, <4>1, <4>2 DEF AtTarget
        <4>5. QED  BY <2>2, <2>3, <3>0, <4>3, <4>4 DEF StartOf
      <3>2. CASE Leaves(d)
        <4>1. ~decoded'[d].fresh
          BY <3>2 DEF Leaves, NoFrame
        <4>2. /\ decoder[d] \in {"gate", "polls", "ends"} /\ decoder'[d] = "decode"
              /\ UNCHANGED <<ahead, accurateReq, unsettled>>
          BY <3>2 DEF Leaves
        <4>3. QED  BY <2>2, <2>3, <3>0, <4>1, <4>2 DEF StartOf
      <3>3. CASE Settle(d)
        <4> DEFINE w == target[d] = seekPos /\ accurateReq[Other(d)] /\ ~seekAborted
        <4>1. /\ Taken(d, w) /\ decoder'[d] \in {"waits", "checks"} /\ decoder[d] = "settles"
              /\ ~w => decoder'[d] = "checks"
              /\ unsettled' = unsettled \cup Before(d)
          BY <3>3, SettleFacts
        <4>2. CASE target[d] # seekPos
          BY <2>2, <4>1, <4>2 DEF StartOf, Taken
        <4>3. CASE target[d] = seekPos /\ ~decoded[d].fresh
          <5>1. "before" \in unsettled'
            BY <4>1, <4>3 DEF Before
          <5>2. QED  BY <4>1, <5>1 DEF StartOf
        <4>4. CASE target[d] = seekPos /\ decoded[d].fresh
          <5>1. decoded[d].pts >= seekPos /\ ahead[d] >= seekPos
            BY <3>0, <4>1, <4>4 DEF FrameOf
          <5>2. AtTarget(d)' /\ ahead'[d] >= seekPos'
            BY <2>2, <4>1, <5>1 DEF AtTarget, Taken
          <5>3. QED  BY <4>1, <5>2 DEF StartOf
        <4>5. QED  BY <4>2, <4>3, <4>4
      <3>4. CASE Fail(d)
        <4>1. "given up" \in unsettled'
          BY <3>4, FailFacts
        <4>2. QED  BY <4>1 DEF StartOf
      <3>5. CASE /\ decoder[d] = "checks" /\ Overtaken(d)
                 /\ accurateReq'[d] = TRUE /\ decoder'[d] = "decode" /\ decoded'[d] = NoFrame
        BY <3>5 DEF StartOf
      <3>6. CASE \/ Passes(d, "gate", "compares") \/ Passes(d, "gate", "fails")
                 \/ Passes(d, "compares", "polls") \/ Passes(d, "compares", "arrives")
                 \/ Passes(d, "polls", "fails") \/ Passes(d, "arrives", "settles")
                 \/ \E p \in {"waits", "woken"} : Passes(d, p, "checks")
                 \/ \E p \in {"waitsLost", "wokenLost"} : Passes(d, p, "ends")
        <4>1. AtTarget(d)' = AtTarget(d)
          BY <2>2, <3>6 DEF AtTarget, Passes
        <4>2. QED  BY <2>2, <2>3, <3>0, <3>6, <4>1 DEF StartOf, Passes
      <3>7. CASE Passes(d, "arrives", "ends") /\ target[d] # seekPos
        <4>1. AtTarget(d)' = AtTarget(d)
          BY <2>2, <3>7 DEF AtTarget, Passes
        <4>2. ~(decoded[d].fresh /\ ~seekReq)
          BY <3>0, <3>7 DEF FrameOf, Passes
        <4>3. QED  BY <2>2, <2>3, <3>0, <3>7, <4>1, <4>2 DEF StartOf, Passes
      <3>8. CASE Passes(d, "checks", "ends") /\ ~Overtaken(d)
        <4>1. AtTarget(d)' = AtTarget(d)
          BY <2>2, <3>8 DEF AtTarget, Passes
        <4>2. ~seekAborted => target[d] = seekPos /\ AtTarget(d)
          BY <3>0, <3>8 DEF FrameOf, Passes, Overtaken, AtTarget
        <4>3. QED  BY <2>2, <2>3, <3>0, <3>8, <4>1, <4>2 DEF StartOf, Passes, Asked
      <3>9. QED  BY <1>1, <3>1, <3>2, <3>3, <3>4, <3>5, <3>6, <3>7, <3>8, Transitions
    <2>6. QED  BY <2>1, <2>4, <2>5 DEF StartInv
  <1>2. CASE TimePasses \/ UNCHANGED seekVars
    <2>1. UNCHANGED <<decoder, accurateReq, decoded, target, ahead, unsettled, streams, seekReq, seekPos,
                      seekReader, seekAborted>>
      BY <1>2 DEF TimePasses, seekVars, accurateVars, decoderVars, readerVars, historyVars
    <2>2. QED  BY <2>1 DEF StartInv, StartOf, Asked, AtTarget
  <1>3. CASE SeekAsked
    <2>1. seekReq'
      BY <1>3 DEF SeekAsked
    <2>2. QED  BY <2>1 DEF StartInv, StartOf, Asked
  <1>4. CASE SeekFile \/ SeekReqTaken
    <2>1. ~Asked' /\ \A d \in Decoders : ~decoded'[d].fresh
      <3>1. ~Asked'
        BY <1>4 DEF SeekFile, SeekReqTaken, Asked
      <3>2. ASSUME NEW d \in Decoders, SeekFile PROVE ~decoded'[d].fresh
        BY <3>2 DEF SeekFile, SeekTypeOK
      <3>3. ASSUME NEW d \in Decoders, SeekReqTaken PROVE ~decoded'[d].fresh
        BY <3>3 DEF SeekReqTaken, decoderVars, FrameInv, FrameOf
      <3>4. QED  BY <1>4, <3>1, <3>2, <3>3
    <2>2. QED  BY <2>1 DEF StartInv, StartOf
  <1>5. CASE AskDecoders
    <2>1. \A d \in Decoders : ~decoded'[d].fresh /\ (d \in streams' => accurateReq'[d])
      BY <1>5 DEF AskDecoders, FrameInv, FrameOf
    <2>2. QED  BY <2>1 DEF StartInv, StartOf
  <1>6. CASE StopAborts \/ StopWakes
    <2>1. seekAborted'
      BY <1>6 DEF StopAborts, StopWakes, RequestInv
    <2>2. QED  BY <2>1 DEF StartInv, StartOf, Asked
  <1>7. QED  BY <1>1, <1>2, <1>3, <1>4, <1>5, <1>6 DEF SeekNext, ReaderSeeks

LEMMA EarlyStep ==
    SeekTypeOK /\ FrameInv /\ StartInv /\ ~tooEarly /\ [SeekNext]_seekVars => ~tooEarly'
  <1> SUFFICES ASSUME SeekTypeOK, FrameInv, StartInv, ~tooEarly, [SeekNext]_seekVars PROVE ~tooEarly'
    OBVIOUS
  <1>1. ASSUME NEW d \in Decoders, DecoderNext(d) PROVE ~tooEarly'
    <2>0. /\ StartOf(d) /\ FrameOf(d) /\ decoded[d].pts \in Int /\ seekPos \in Int
          /\ AtTarget(d) => decoded[d].pts \notin 0 .. seekPos - 1
      BY SeekTypes DEF StartInv, FrameInv, AtTarget, NoPts
    <2>1. CASE KeepFrame(d) /\ decoder[d] = "gate" /\ (~accurateReq[d] \/ seekReq)
      <3>1. d \in streams
        BY <2>0, <2>1 DEF FrameOf
      <3>2. decoded[d].fresh /\ Asked /\ unsettled \subseteq {"overtaken"} => AtTarget(d)
        BY <2>0, <2>1, <3>1 DEF StartOf, Asked
      <3>3. QED  BY <2>0, <2>1, <3>2 DEF KeepFrame, Asked
    <2>2. CASE KeepFrame(d) /\ decoder[d] = "ends"
      <3>1. decoded[d].fresh /\ Asked /\ unsettled \subseteq {"overtaken"} => AtTarget(d)
        BY <2>0, <2>2 DEF StartOf, Asked
      <3>2. QED  BY <2>0, <2>2, <3>1 DEF KeepFrame, Asked
    <2>3. CASE UNCHANGED tooEarly
      BY <2>3
    <2>4. QED
      BY <1>1, <2>1, <2>2, <2>3 DEF DecoderNext, GetFrame, Gate, Compares, Judge, Arrives, Settle,
         Wake, Check, Fail, WakeLost, End, historyVars
  <1>2. CASE TimePasses \/ SeekAsked \/ ReaderSeeks \/ StopAborts \/ StopWakes \/ UNCHANGED seekVars
    BY <1>2 DEF TimePasses, SeekAsked, ReaderSeeks, SeekFile, SeekReqTaken, AskDecoders, StopAborts,
       StopWakes, seekVars, historyVars
  <1>3. QED  BY <1>1, <1>2 DEF SeekNext

-----------------------------------------------------------------------------
(***************************************************************************)
(* The end that is reported.                                               *)
(***************************************************************************)

\* A decoder takes its request back, for a frame that was decoded after the flush or not.
LEMMA TakenCompletes ==
    ASSUME SeekTypeOK, CompletionInv, RequestInv, NEW d \in Decoders, NEW w, Taken(d, w),
           decoder[d] \in {"settles", "fails"},
           unsettled \cup Before(d) \subseteq unsettled',
           w => accurateReq[Other(d)],
           ~w /\ target[d] = seekPos /\ ~seekAborted => ~accurateReq[Other(d)],
           DecoderNext(d)
    PROVE  CompletionInv'
  <1> DEFINE e == Other(d)
  <1>0. /\ completions \in Nat /\ e \in Decoders /\ \A c \in Decoders : c = d \/ c = e
        /\ accurateReq'[d] = FALSE /\ completions' = IF w THEN completions ELSE completions + 1
        /\ w \in BOOLEAN
    BY OtherProperties DEF SeekTypeOK, Taken
  <1>1. UNCHANGED <<seekReq, seekReader, seekAborted, seekPos, seeks>> /\ accurateReq'[e] = accurateReq[e]
    BY OtherKept
  <1>2. CASE Unspoilt'
    <2>1. decoded[d].fresh /\ target[d] = seekPos /\ Unspoilt
      BY <1>1, <1>2 DEF Unspoilt, Before
    <2>2. accurateReq[d] /\ ~Renews(d)
      BY <2>1 DEF RequestInv, RequestOf, Renews, Unspoilt
    <2>3. completions = 0
      BY <1>0, <2>1, <2>2 DEF CompletionInv
    <2>4. CASE w
      BY <1>0, <1>1, <2>3, <2>4 DEF CompletionInv
    <2>5. CASE ~w
      <3>1. ~accurateReq[e]
        BY <2>1, <2>5 DEF Unspoilt
      <3>2. completions' = completions + 1
        BY <1>0, <2>5
      <3>3. completions' = 1
        BY <2>3, <3>2
      <3>4. \A c \in Decoders : ~accurateReq'[c]
        BY <1>0, <1>1, <3>1
      <3>5. QED  BY <3>3, <3>4 DEF CompletionInv
    <2>6. QED  BY <1>0, <2>4, <2>5
  <1>3. CASE ~Unspoilt'
    <2>1. w => accurateReq'[e]
      BY <1>1
    <2>2. ~w => completions' >= 1
      BY <1>0
    <2>3. QED  BY <1>0, <1>3, <2>1, <2>2 DEF CompletionInv
  <1>4. QED  BY <1>2, <1>3

LEMMA CompletionStep ==
    SeekTypeOK /\ FrameInv /\ RequestInv /\ CompletionInv /\ [SeekNext]_seekVars => CompletionInv'
  <1> SUFFICES ASSUME SeekTypeOK, FrameInv, RequestInv, CompletionInv, [SeekNext]_seekVars
               PROVE  CompletionInv'
    OBVIOUS
  <1>0. completions \in Nat
    BY DEF SeekTypeOK
  <1>1. ASSUME NEW d \in Decoders, DecoderNext(d) PROVE CompletionInv'
    <2> DEFINE e == Other(d)
    <2>1. e \in Decoders /\ \A c \in Decoders : c = d \/ c = e
      BY OtherProperties
    <2>2. /\ UNCHANGED <<seekReq, seekPos, seekReader, seekAborted, seeks>>
          /\ decoded'[e] = decoded[e] /\ accurateReq'[e] = accurateReq[e]
      BY <1>1, OtherKept
    <2>3. Asked' = Asked
      BY <2>2 DEF Asked
    <2>4. Renews(e) => Renews(e)'
      <3>1. \/ decoder'[e] = decoder[e]
            \/ decoder[e] = "waits" /\ decoder'[e] = "woken"
            \/ decoder[e] = "waitsLost" /\ decoder'[e] = "wokenLost"
        BY <1>1, RousedOther
      <3>2. QED  BY <2>2, <2>3, <3>1 DEF Renews
    <2>5. FrameOf(d) /\ RequestOf(d)
      BY DEF FrameInv, RequestInv
    <2>6. CASE /\ UNCHANGED <<accurateReq, unsettled, completions>>
               /\ Unspoilt /\ Renews(d) /\ accurateReq[d] => Renews(d)'
      <3>1. Unspoilt' = Unspoilt
        BY <2>2, <2>6 DEF Unspoilt
      <3>2. Unspoilt /\ completions = 1 => \A c \in Decoders : accurateReq'[c] => Renews(c)'
        BY <2>1, <2>4, <2>6 DEF CompletionInv
      <3>3. Asked' /\ seeks' > 0 => completions' >= 1 \/ \E c \in Decoders : accurateReq'[c]
        BY <2>2, <2>3, <2>6 DEF CompletionInv
      <3>4. QED  BY <2>6, <3>1, <3>2, <3>3 DEF CompletionInv
    <2>7. CASE GetFrame(d)
      <3>1. decoder'[d] = "gate" /\ UNCHANGED <<accurateReq, unsettled, completions>>
        BY <2>7, GoesType DEF GetFrame, Places, accurateVars, historyVars
      <3>2. QED  BY <2>3, <2>6, <3>1 DEF Renews
    <2>8. CASE Leaves(d)
      BY <2>3, <2>6, <2>8 DEF Leaves, Renews
    <2>9. CASE Settle(d)
      <3> DEFINE w == target[d] = seekPos /\ accurateReq[Other(d)] /\ ~seekAborted
      <3>1. /\ Taken(d, w) /\ decoder[d] = "settles"
            /\ unsettled' = unsettled \cup Before(d)
        BY <2>9, SettleFacts
      <3>2. w => accurateReq[Other(d)]
        OBVIOUS
      <3>3. ~w /\ target[d] = seekPos /\ ~seekAborted => ~accurateReq[Other(d)]
        OBVIOUS
      <3> HIDE DEF w
      <3>4. QED  BY <1>1, <3>1, <3>2, <3>3, TakenCompletes
    <2>10. CASE Fail(d)
      <3> DEFINE w == accurateReq[Other(d)] /\ ~seekAborted
      <3>1. /\ Taken(d, w) /\ decoder[d] = "fails"
            /\ unsettled' = unsettled \cup Before(d) \cup {"given up"}
        BY <2>10, FailFacts
      <3>2. w => accurateReq[Other(d)]
        OBVIOUS
      <3>3. ~w /\ target[d] = seekPos /\ ~seekAborted => ~accurateReq[Other(d)]
        OBVIOUS
      <3> HIDE DEF w
      <3>4. QED  BY <1>1, <3>1, <3>2, <3>3, TakenCompletes
    <2>11. CASE /\ decoder[d] = "checks" /\ Overtaken(d)
                /\ accurateReq'[d] = TRUE /\ decoder'[d] = "decode" /\ decoded'[d] = NoFrame
                /\ UNCHANGED <<ahead, unsettled, completions>>
      <3>1. Unspoilt' = Unspoilt
        BY <2>2, <2>11 DEF Unspoilt
      <3>2. ASSUME Unspoilt, completions = 1 PROVE ~Asked
        <4>1. SUFFICES ASSUME Asked PROVE FALSE
          OBVIOUS
        <4>2. ~decoded[d].fresh
          BY <2>5, <2>11, <4>1 DEF FrameOf, Overtaken, Asked
        <4>3. accurateReq[d]
          BY <2>5, <2>11, <3>2, <4>1, <4>2 DEF RequestOf, Unspoilt
        <4>4. Renews(d)
          BY <3>2, <4>3 DEF CompletionInv
        <4>5. QED  BY <4>1, <4>4 DEF Renews
      <3>3. Unspoilt /\ completions = 1 => \A c \in Decoders : accurateReq'[c] => Renews(c)'
        <4>1. Unspoilt /\ completions = 1 => Renews(d)'
          BY <2>3, <2>11, <3>2 DEF Renews
        <4>2. Unspoilt /\ completions = 1 /\ accurateReq[e] => Renews(e)
          BY <2>1 DEF CompletionInv
        <4>3. QED  BY <2>1, <2>2, <2>4, <4>1, <4>2
      <3>4. QED  BY <2>2, <2>11, <3>1, <3>3 DEF CompletionInv
    <2>12. CASE \/ Passes(d, "gate", "compares") /\ ~seekReq
                \/ Passes(d, "gate", "fails") /\ ~seekReq
      <3>1. Unspoilt /\ Renews(d) => ~decoded[d].fresh
        BY <2>5, <2>12 DEF Renews, Unspoilt, Asked, FrameOf
      <3>2. QED  BY <2>3, <2>6, <2>12, <3>1 DEF Passes, Renews
    <2>13. CASE \/ Passes(d, "compares", "polls") \/ Passes(d, "compares", "arrives")
                \/ Passes(d, "polls", "fails") \/ Passes(d, "arrives", "settles")
                \/ Passes(d, "arrives", "ends") \/ Passes(d, "checks", "ends")
                \/ \E p \in {"waits", "woken"} : Passes(d, p, "checks")
                \/ \E p \in {"waitsLost", "wokenLost"} : Passes(d, p, "ends")
      BY <2>3, <2>6, <2>13 DEF Passes, Renews
    <2>14. QED
      BY <1>1, <2>7, <2>8, <2>9, <2>10, <2>11, <2>12, <2>13, Transitions
  <1>2. CASE TimePasses \/ UNCHANGED seekVars
    <2>1. UNCHANGED <<decoder, accurateReq, decoded, unsettled, completions, seekReq, seekReader,
                      seekAborted, seeks>>
      BY <1>2 DEF TimePasses, seekVars, accurateVars, decoderVars, readerVars, historyVars
    <2>2. Asked' = Asked /\ Unspoilt' = Unspoilt /\ \A d \in Decoders : Renews(d)' = Renews(d)
      BY <2>1 DEF Asked, Unspoilt, Renews
    <2>3. UNCHANGED <<accurateReq, completions, seeks>>
      BY <2>1
    <2>4. QED  BY <2>2, <2>3 DEF CompletionInv
  <1>3. CASE SeekAsked \/ SeekFile \/ SeekReqTaken
    <2>1. ~Asked' /\ UNCHANGED <<decoder, accurateReq, unsettled, completions, seekAborted>>
      BY <1>3 DEF SeekAsked, SeekFile, SeekReqTaken, accurateVars, decoderVars, historyVars, Asked
    <2>2. \A d \in Decoders : decoded'[d].fresh => decoded[d].fresh
      <3>1. ASSUME SeekFile PROVE \A d \in Decoders : ~decoded'[d].fresh
        BY <3>1 DEF SeekFile, SeekTypeOK
      <3>2. CASE UNCHANGED decoded
        BY <3>2
      <3>3. QED  BY <1>3, <3>1, <3>2 DEF SeekAsked, SeekReqTaken, decoderVars
    <2>3. Unspoilt' = Unspoilt /\ \A d \in Decoders : Renews(d) => Renews(d)'
      BY <2>1, <2>2 DEF Unspoilt, Renews
    <2>4. QED  BY <2>1, <2>3 DEF CompletionInv
  <1>4. CASE AskDecoders
    <2>1. completions' = 0 /\ \A d \in streams : accurateReq'[d]
      BY <1>4, SeekAssumption DEF AskDecoders, SeekTypeOK
    <2>2. \E d \in Decoders : d \in streams
      BY SeekAssumption DEF SeekTypeOK
    <2>3. streams' = streams
      BY <1>4 DEF AskDecoders
    <2>4. \E d \in Decoders : accurateReq'[d]
      BY <2>1, <2>2
    <2>5. completions' <= 1 /\ completions' # 1
      BY <2>1
    <2>6. QED  BY <2>4, <2>5 DEF CompletionInv
  <1>5. CASE StopAborts \/ StopWakes
    <2>1. seekAborted'
      BY <1>5 DEF StopAborts, StopWakes, RequestInv
    <2>2. ~Asked' /\ ~Unspoilt'
      BY <2>1 DEF Asked, Unspoilt
    <2>3. QED  BY <2>2 DEF CompletionInv
  <1>6. QED  BY <1>1, <1>2, <1>3, <1>4, <1>5 DEF SeekNext, ReaderSeeks

-----------------------------------------------------------------------------
(***************************************************************************)
(* The theorems.                                                           *)
(***************************************************************************)
LEMMA SeekInvInit == SeekInit => SeekInv
  <1> SUFFICES ASSUME SeekInit PROVE SeekInv
    OBVIOUS
  <1>1. SeekTypeOK
    BY SeekTypeInit
  <1>2. FrameInv /\ RequestInv /\ WaitedForIsDue
    BY DEF SeekInit, FrameInv, FrameOf, RequestInv, RequestOf, WaitedForIsDue, NoFrame
  <1>3. \A d \in Decoders : ahead[d] >= seekPos /\ ~decoded[d].fresh /\ decoder[d] = "decode"
    BY DEF SeekInit, NoFrame
  <1>4. StartInv
    BY <1>3 DEF StartInv, StartOf
  <1>5. CompletionInv /\ ~tooEarly
    BY DEF SeekInit, CompletionInv
  <1>6. QED  BY <1>1, <1>2, <1>4, <1>5 DEF SeekInv

LEMMA SeekInvStep == SeekInv /\ [SeekNext]_seekVars => SeekInv'
  BY SeekTypeStep, FrameStep, RequestStep, WaitedStep, StartStep, CompletionStep, EarlyStep DEF SeekInv

THEOREM SeekInvHolds == SeekSpec => []SeekInv
  BY SeekInvInit, SeekInvStep, PTL DEF SeekSpec

\* Every accurate seek is reported, and no more than once.
THEOREM SeekReportedOnce == SeekSpec => []CompletionOnce
  <1>1. SeekInv => CompletionOnce
    <2> SUFFICES ASSUME SeekInv PROVE CompletionOnce
      OBVIOUS
    <2>1. completions \in Nat /\ CompletionInv
      BY DEF SeekInv, SeekTypeOK
    <2>2. Unspoilt => completions <= 1
      BY <2>1 DEF CompletionInv
    <2>3. Asked /\ seeks > 0 /\ (\A d \in Decoders : ~accurateReq[d]) => completions >= 1
      BY <2>1 DEF CompletionInv
    <2>4. QED  BY <2>2, <2>3 DEF CompletionOnce, Unspoilt, Asked
  <1>2. QED  BY <1>1, SeekInvHolds, PTL

\* The first frame kept after an accurate seek is at its target.
THEOREM SeekStartsExactly == SeekSpec => []ExactStart
  <1>1. SeekInv => ExactStart
    BY DEF SeekInv, ExactStart
  <1>2. QED  BY <1>1, SeekInvHolds, PTL

\* A decoder that waits for the other one waits for a request that is still set.
THEOREM SeekWaitsForSomething == SeekSpec => []WaitedForIsDue
  <1>1. SeekInv => WaitedForIsDue
    BY DEF SeekInv
  <1>2. QED  BY <1>1, SeekInvHolds, PTL

-----------------------------------------------------------------------------
(***************************************************************************)
(* MediaMeta: the inductive invariant.                                     *)
(***************************************************************************)
Kinds == {"video", "audio", "timedtext", "unknown"}
AllFacts == {Facts[i] : i \in DOMAIN Facts}
ChosenKinds == UNION {[D -> Nat] : D \in SUBSET Kinds}

MetaTypeOK ==
    /\ file \in Seq(Kinds) /\ delayed \in BOOLEAN /\ lost \in BOOLEAN
    /\ meta \in [facts : SUBSET AllFacts, chosen : ChosenKinds, children : Seq(Kinds), capacity : Nat,
                 moving : {"nothing", "dict", "list"}]
    /\ writer \in [pc : {"opened", "facts", "streams", "choose", "prepared", "done"}, at : Nat \ {0}]
    /\ bundle \in [pc : {"none", "facts", "chosen", "count", "children", "returned", "refused"},
                   prepared : BOOLEAN, facts : SUBSET AllFacts, chosen : ChosenKinds, count : Nat,
                   children : Seq(Kinds), torn : BOOLEAN]

\* A part is on the move only while the writer is at work on it.
WriterInv ==
    /\ At("facts") => writer.at <= 5
    /\ At("streams") => writer.at <= Len(file) + 1
    /\ At("choose") => writer.at <= 4
    /\ meta.moving = "dict" => (At("facts") /\ writer.at <= 4) \/ (At("choose") /\ writer.at <= 3)
    /\ meta.moving = "list" => At("streams") /\ writer.at <= Len(file)
    /\ At("done") => delayed

\* How much is filled in.
Appended == CASE At("streams") -> writer.at - 1
              [] At("done") \/ (~delayed /\ (At("choose") \/ At("prepared"))) -> Len(file)
              [] OTHER -> 0

Found(k) == (\E i \in DOMAIN file : file[i] = k) => k \in DOMAIN meta.chosen

FilledInv ==
    /\ ~lost => Len(meta.children) = Appended /\ \A i \in 1 .. Len(meta.children) : meta.children[i] = file[i]
    /\ At("facts") => \A i \in 1 .. writer.at - 1 : Facts[i] \in meta.facts
    /\ At("streams") \/ (~delayed /\ (At("choose") \/ At("prepared"))) => meta.facts = AllFacts
    /\ \A k \in DOMAIN meta.chosen : meta.chosen[k] + 1 \in DOMAIN file /\ file[meta.chosen[k] + 1] = k
    /\ At("choose") => \A j \in 1 .. writer.at - 1 : Found(Chosen[j])
    /\ At("prepared") => \A j \in 1 .. 3 : Found(Chosen[j])

\* The copy that is being made.
BundleInv ==
    /\ bundle.prepared /\ ~delayed =>
         /\ At("prepared") /\ ~bundle.torn
         /\ bundle.pc \in {"chosen", "count", "children", "returned"} => bundle.facts = AllFacts
         /\ bundle.pc \in {"count", "children", "returned"} => bundle.chosen = meta.chosen
         /\ bundle.pc \in {"children", "returned"} => bundle.count = Len(meta.children)
    /\ bundle.pc \in {"children", "returned"} =>
         bundle.count <= Len(meta.children) /\ Len(bundle.children) <= bundle.count
    /\ bundle.pc = "returned" => Len(bundle.children) = bundle.count
    /\ bundle.pc \notin {"children", "returned"} => bundle.children = <<>>
    /\ ~lost => \A i \in 1 .. Len(bundle.children) : bundle.children[i] = file[i]

MetaInv == MetaTypeOK /\ WriterInv /\ FilledInv /\ BundleInv
LEMMA FactsFacts ==
    /\ Len(Facts) = 4 /\ DOMAIN Facts = 1 .. 4 /\ \A i \in 1 .. 4 : Facts[i] \in AllFacts
    /\ \A S : (\A i \in 1 .. 4 : Facts[i] \in S) => AllFacts \subseteq S
<1>1. Len(Facts) = 4 /\ DOMAIN Facts = 1 .. 4  BY DEF Facts
<1>2. \A i \in 1 .. 4 : Facts[i] \in AllFacts  BY <1>1 DEF AllFacts
<1>3. \A S : (\A i \in 1 .. 4 : Facts[i] \in S) => AllFacts \subseteq S  BY <1>1 DEF AllFacts
<1>4. QED  BY <1>1, <1>2, <1>3

LEMMA ChosenFacts ==
    /\ Len(Chosen) = 3 /\ \A i \in 1 .. 3 : Chosen[i] \in Kinds
    /\ \A k \in {"video", "audio", "timedtext"} : \E i \in 1 .. 3 : Chosen[i] = k
<1>1. Len(Chosen) = 3 /\ Chosen[1] = "video" /\ Chosen[2] = "audio" /\ Chosen[3] = "timedtext"
  BY DEF Chosen
<1>2. \A i \in 1 .. 3 : i = 1 \/ i = 2 \/ i = 3  OBVIOUS
<1>3. \A i \in 1 .. 3 : Chosen[i] \in Kinds  BY <1>1, <1>2 DEF Kinds
<1>4. 1 \in 1 .. 3 /\ 2 \in 1 .. 3 /\ 3 \in 1 .. 3  OBVIOUS
<1>5. \A k \in {"video", "audio", "timedtext"} : \E i \in 1 .. 3 : Chosen[i] = k
  BY <1>1, <1>4
<1>6. QED  BY <1>1, <1>3, <1>5

\* The choice c, and k chosen to be n.
With(c, k, n) == [x \in DOMAIN c \cup {k} |-> IF x = k THEN n ELSE c[x]]

LEMMA ChoiceFacts ==
    /\ [k \in {} |-> 0] \in ChosenKinds
    /\ \A c \in ChosenKinds : DOMAIN c \subseteq Kinds /\ \A k \in DOMAIN c : c[k] \in Nat
    /\ \A c \in ChosenKinds, k \in Kinds, n \in Nat : With(c, k, n) \in ChosenKinds
<1>1. [k \in {} |-> 0] \in ChosenKinds
  <2>1. [k \in {} |-> 0] \in [{} -> Nat]  OBVIOUS
  <2>2. QED  BY <2>1 DEF ChosenKinds
<1>2. ASSUME NEW c \in ChosenKinds
      PROVE  DOMAIN c \subseteq Kinds /\ c \in [DOMAIN c -> Nat]
  BY DEF ChosenKinds
<1>3. ASSUME NEW c \in ChosenKinds, NEW k \in Kinds, NEW n \in Nat
      PROVE  With(c, k, n) \in ChosenKinds
  <2>1. DOMAIN c \subseteq Kinds /\ c \in [DOMAIN c -> Nat]  BY <1>2
  <2>2. With(c, k, n) \in [DOMAIN c \cup {k} -> Nat]  BY <2>1 DEF With
  <2>3. (DOMAIN c \cup {k}) \in SUBSET Kinds  BY <2>1
  <2>4. QED  BY <2>2, <2>3 DEF ChosenKinds
<1>4. QED  BY <1>1, <1>2, <1>3

LEMMA MetaInitInv == MetaInit => MetaInv
<1> SUFFICES ASSUME MetaInit PROVE MetaInv  OBVIOUS
<1> USE DEF MetaInit
<1>1. file \in Seq(Kinds)  BY MediaMetaAssumption DEF Kinds
<1>2. <<>> \in Seq(Kinds) /\ Len(<<>>) = 0  OBVIOUS
<1>3. [k \in {} |-> 0] \in ChosenKinds  BY ChoiceFacts
<1>4. MetaTypeOK
  <2> DEFINE none == [k \in {} |-> 0]
  <2>1. /\ meta = [facts |-> {}, chosen |-> none, children |-> <<>>, capacity |-> 0, moving |-> "nothing"]
        /\ bundle = [pc |-> "none", prepared |-> FALSE, facts |-> {}, chosen |-> none,
                     count |-> 0, children |-> <<>>, torn |-> FALSE]
        /\ writer = [pc |-> "opened", at |-> 1]
    BY DEF Create, NoBundle
  <2>2. none \in ChosenKinds /\ <<>> \in Seq(Kinds)  BY <1>2, <1>3
  <2> HIDE DEF none
  <2>3. meta \in [facts : SUBSET AllFacts, chosen : ChosenKinds, children : Seq(Kinds), capacity : Nat,
                  moving : {"nothing", "dict", "list"}]
    BY <2>1, <2>2
  <2>4. bundle \in [pc : {"none", "facts", "chosen", "count", "children", "returned", "refused"},
                    prepared : BOOLEAN, facts : SUBSET AllFacts, chosen : ChosenKinds, count : Nat,
                    children : Seq(Kinds), torn : BOOLEAN]
    BY <2>1, <2>2
  <2>5. writer \in [pc : {"opened", "facts", "streams", "choose", "prepared", "done"}, at : Nat \ {0}]
    BY <2>1
  <2>6. delayed \in BOOLEAN /\ lost \in BOOLEAN  OBVIOUS
  <2> HIDE DEF MetaInit
  <2>7. QED  BY <1>1, <2>3, <2>4, <2>5, <2>6 DEF MetaTypeOK
<1>5. WriterInv  BY DEF WriterInv, At, Create
<1>6. FilledInv
  <2>1. meta.children = <<>> /\ meta.chosen = [k \in {} |-> 0] /\ DOMAIN meta.chosen = {}  BY DEF Create
  <2>2. Appended = 0  BY DEF Appended, At
  <2>3. QED  BY <2>1, <2>2, <1>2 DEF FilledInv, At
<1>7. BundleInv
  <2>1. bundle.pc = "none" /\ bundle.prepared = FALSE /\ bundle.children = <<>>  BY DEF NoBundle
  <2>2. QED  BY <2>1, <1>2 DEF BundleInv
<1>8. QED  BY <1>4, <1>5, <1>6, <1>7 DEF MetaInv

\* What the type says of the parts.
LEMMA MetaParts ==
    ASSUME MetaTypeOK
    PROVE  /\ meta = [facts |-> meta.facts, chosen |-> meta.chosen, children |-> meta.children,
                      capacity |-> meta.capacity, moving |-> meta.moving]
           /\ meta.facts \subseteq AllFacts /\ meta.chosen \in ChosenKinds /\ meta.children \in Seq(Kinds)
           /\ meta.capacity \in Nat /\ meta.moving \in {"nothing", "dict", "list"}
           /\ writer.pc \in {"opened", "facts", "streams", "choose", "prepared", "done"}
           /\ writer.at \in Nat \ {0} /\ file \in Seq(Kinds) /\ delayed \in BOOLEAN /\ lost \in BOOLEAN
           /\ Len(file) \in Nat /\ Len(meta.children) \in Nat /\ Len(bundle.children) \in Nat
           /\ bundle.pc \in {"none", "facts", "chosen", "count", "children", "returned", "refused"}
           /\ bundle.prepared \in BOOLEAN /\ bundle.facts \subseteq AllFacts
           /\ bundle.chosen \in ChosenKinds /\ bundle.count \in Nat /\ bundle.children \in Seq(Kinds)
           /\ bundle.torn \in BOOLEAN
<1>1. file \in Seq(Kinds) /\ meta.children \in Seq(Kinds) /\ bundle.children \in Seq(Kinds)  BY DEF MetaTypeOK
<1>2. Len(file) \in Nat /\ Len(meta.children) \in Nat /\ Len(bundle.children) \in Nat  BY <1>1
<1>3. meta = [facts |-> meta.facts, chosen |-> meta.chosen, children |-> meta.children,
              capacity |-> meta.capacity, moving |-> meta.moving]  BY DEF MetaTypeOK
<1>4. QED  BY <1>1, <1>2, <1>3 DEF MetaTypeOK

\* A step of read_thread is one of these: it goes to another place with the meta data as
\* they are, begins to move a part, sets a fact, loses or appends a stream, or chooses.
GoesOnTo(pc) == writer' = [pc |-> pc, at |-> 1] /\ meta' = meta /\ lost' = lost
NextAt == writer' = [pc |-> writer.pc, at |-> writer.at + 1]
MetaWith(f, c, ch, cap, m) == meta' = [facts |-> f, chosen |-> c, children |-> ch, capacity |-> cap, moving |-> m]

WriterSteps ==
    \/ GoesOnTo("choose") /\ At("opened") /\ delayed
    \/ GoesOnTo("facts") /\ At("opened") /\ ~delayed
    \/ GoesOnTo("facts") /\ At("prepared") /\ delayed
    \/ GoesOnTo("streams") /\ At("facts") /\ writer.at > 4
    \/ GoesOnTo("done") /\ At("streams") /\ writer.at > Len(file) /\ delayed
    \/ GoesOnTo("choose") /\ At("streams") /\ writer.at > Len(file) /\ ~delayed
    \/ GoesOnTo("prepared") /\ At("choose") /\ writer.at > 3
    \/ /\ \/ At("facts") /\ writer.at <= 4
          \/ At("choose") /\ writer.at <= 3
       /\ meta.moving = "nothing"
       /\ MetaWith(meta.facts, meta.chosen, meta.children, meta.capacity, "dict")
       /\ writer' = writer /\ lost' = lost
    \/ /\ At("facts") /\ meta.moving = "dict" /\ NextAt /\ lost' = lost
       /\ MetaWith(meta.facts \cup {Facts[writer.at]}, meta.chosen, meta.children, meta.capacity, "nothing")
    \/ /\ At("streams") /\ writer.at <= Len(file) /\ NextAt /\ lost' = TRUE /\ meta' = meta
       /\ meta.moving = "nothing"
    \/ /\ At("streams") /\ writer.at <= Len(file) /\ meta.moving = "nothing"
       /\ MetaWith(meta.facts, meta.chosen, meta.children, 2 * meta.capacity, "list")
       /\ writer' = writer /\ lost' = lost
    \/ /\ At("streams") /\ writer.at <= Len(file) /\ NextAt /\ lost' = lost
       /\ \E cap \in Nat : MetaWith(meta.facts, meta.chosen, Append(meta.children, file[writer.at]), cap, "nothing")
    \/ /\ At("choose") /\ meta.moving = "dict" /\ NextAt /\ lost' = lost
       /\ \/ \E i \in DOMAIN file :
                file[i] = Chosen[writer.at]
                /\ MetaWith(meta.facts, With(meta.chosen, Chosen[writer.at], i - 1), meta.children,
                            meta.capacity, "nothing")
          \/ /\ \A i \in DOMAIN file : file[i] # Chosen[writer.at]
             /\ MetaWith(meta.facts, meta.chosen, meta.children, meta.capacity, "nothing")

LEMMA WriterMoves ==
    ASSUME MetaTypeOK, ReadThread
    PROVE  WriterSteps /\ file' = file /\ delayed' = delayed /\ bundle' = bundle
<1> USE MetaParts
<1>0. /\ meta.capacity \in Nat /\ InitCapacity \in Nat
      /\ writer = [pc |-> writer.pc, at |-> writer.at]
  BY MediaMetaAssumption DEF MetaTypeOK
<1>a. ASSUME NEW m PROVE Moves(m) = [facts |-> meta.facts, chosen |-> meta.chosen, children |-> meta.children,
                                     capacity |-> meta.capacity, moving |-> m]
  BY DEF Moves, MetaTypeOK
<1>1. CASE Opened     BY <1>1 DEF Opened, WriterSteps, GoesOnTo, At
<1>2. CASE DictMoves  BY <1>2, <1>a, FactsFacts, ChosenFacts DEF DictMoves, WriterSteps, MetaWith, At
<1>3. CASE SetFact
  <2>1. NextAt  BY <1>3, <1>0 DEF SetFact, NextAt
  <2>2. MetaWith(meta.facts \cup {Facts[writer.at]}, meta.chosen, meta.children, meta.capacity, "nothing")
    BY <1>3, <1>a DEF SetFact, MetaWith
  <2>3. QED  BY <1>3, <2>1, <2>2 DEF SetFact, WriterSteps
<1>4. CASE FactsSet   BY <1>4, FactsFacts DEF FactsSet, WriterSteps, GoesOnTo
<1>5. CASE CreateFails
  <2>1. NextAt  BY <1>5, <1>0 DEF CreateFails, NextAt
  <2>2. QED  BY <1>5, <2>1 DEF CreateFails, WriterSteps
<1>6. CASE ListMoves
  <2>1. MetaWith(meta.facts, meta.chosen, meta.children, 2 * meta.capacity, "list")
    BY <1>6, <1>a DEF ListMoves, MetaWith
  <2>2. QED  BY <1>6, <2>1 DEF ListMoves, WriterSteps
<1>7. CASE AppendChild
  <2>1. NextAt  BY <1>7, <1>0 DEF AppendChild, NextAt
  <2> DEFINE cap == IF meta.capacity = 0 THEN InitCapacity ELSE meta.capacity
  <2>2. cap \in Nat  BY <1>0
  <2>3. MetaWith(meta.facts, meta.chosen, Append(meta.children, file[writer.at]), cap, "nothing")
    BY <1>7, <1>a DEF AppendChild, Append1, MetaWith
  <2>4. QED  BY <1>7, <2>1, <2>2, <2>3 DEF AppendChild, WriterSteps
<1>8. CASE StreamsAppended  BY <1>8 DEF StreamsAppended, WriterSteps, GoesOnTo, At
<1>9. CASE Choose
  <2> DEFINE kind == Chosen[writer.at]
             some == {i \in DOMAIN file : file[i] = kind}
  <2>1. NextAt  BY <1>9, <1>0 DEF Choose, NextAt
  <2>2. CASE some = {} /\ meta' = Moves("nothing")
    <3>1. \A i \in DOMAIN file : file[i] # kind  BY <2>2
    <3>2. MetaWith(meta.facts, meta.chosen, meta.children, meta.capacity, "nothing")
      BY <2>2, <1>a DEF MetaWith
    <3>3. QED  BY <1>9, <2>1, <3>1, <3>2 DEF Choose, WriterSteps
  <2>3. ASSUME NEW i \in some,
               meta' = [Moves("nothing") EXCEPT !.chosen = [k \in DOMAIN @ \cup {kind} |->
                                                               IF k = kind THEN i - 1 ELSE @[k]]]
        PROVE  WriterSteps /\ file' = file /\ delayed' = delayed /\ bundle' = bundle
    <3>1. MetaWith(meta.facts, With(meta.chosen, kind, i - 1), meta.children, meta.capacity, "nothing")
      BY <2>3, <1>a DEF MetaWith, With
    <3>2. QED  BY <1>9, <2>1, <2>3, <3>1 DEF Choose, WriterSteps
  <2>4. QED  BY <1>9, <2>2, <2>3 DEF Choose
<1>10. CASE Prepared  BY <1>10, ChosenFacts DEF Prepared, WriterSteps, GoesOnTo
<1>11. CASE Rendered  BY <1>11 DEF Rendered, WriterSteps, GoesOnTo
<1>12. QED  BY <1>1, <1>2, <1>3, <1>4, <1>5, <1>6, <1>7, <1>8, <1>9, <1>10, <1>11 DEF ReadThread

LEMMA MetaTypeStep ==
    ASSUME MetaTypeOK, WriterInv, BundleInv, MetaNext
    PROVE  MetaTypeOK'
<1> USE MetaParts
<1>1. CASE ReadThread
  <2>0. WriterSteps /\ file' = file /\ delayed' = delayed /\ bundle' = bundle  BY <1>1, WriterMoves
  <2>a. /\ file' \in Seq(Kinds) /\ delayed' \in BOOLEAN
        /\ bundle' \in [pc : {"none", "facts", "chosen", "count", "children", "returned", "refused"},
                        prepared : BOOLEAN, facts : SUBSET AllFacts, chosen : ChosenKinds, count : Nat,
                        children : Seq(Kinds), torn : BOOLEAN]
    BY <2>0 DEF MetaTypeOK
  <2>1. lost' \in BOOLEAN
    <3>1. lost' = lost \/ lost' = TRUE  BY <2>0 DEF WriterSteps, GoesOnTo
    <3>2. QED  BY <3>1
  <2>2. writer' \in [pc : {"opened", "facts", "streams", "choose", "prepared", "done"}, at : Nat \ {0}]
    <3>1. \/ writer' = writer
          \/ NextAt
          \/ \E pc \in {"facts", "streams", "choose", "prepared", "done"} : writer' = [pc |-> pc, at |-> 1]
      BY <2>0 DEF WriterSteps, GoesOnTo
    <3>2. CASE writer' = writer  BY <3>2 DEF MetaTypeOK
    <3>3. CASE NextAt
      <4>1. writer.at + 1 \in Nat \ {0}  OBVIOUS
      <4>2. QED  BY <3>3, <4>1 DEF NextAt
    <3>4. QED  BY <3>1, <3>2, <3>3

  <2>4. meta' = meta \/ \E f \in SUBSET AllFacts, c \in ChosenKinds, ch \in Seq(Kinds), cap \in Nat,
                           m \in {"nothing", "dict", "list"} : MetaWith(f, c, ch, cap, m)
    <3>1. CASE \E m \in {"dict"} : MetaWith(meta.facts, meta.chosen, meta.children, meta.capacity, m)
      BY <3>1
    <3>2. CASE /\ At("facts") /\ meta.moving = "dict"
               /\ MetaWith(meta.facts \cup {Facts[writer.at]}, meta.chosen, meta.children, meta.capacity, "nothing")
      <4>1. writer.at \in 1 .. 4  BY <3>2 DEF WriterInv, At
      <4>2. (meta.facts \cup {Facts[writer.at]}) \in SUBSET AllFacts  BY <4>1, FactsFacts
      <4>3. QED  BY <3>2, <4>2
    <3>3. CASE MetaWith(meta.facts, meta.chosen, meta.children, 2 * meta.capacity, "list")
      <4>1. 2 * meta.capacity \in Nat  OBVIOUS
      <4>2. QED  BY <3>3, <4>1
    <3>4. CASE /\ writer.at <= Len(file)
               /\ \E cap \in Nat : MetaWith(meta.facts, meta.chosen, Append(meta.children, file[writer.at]), cap, "nothing")
      <4>1. writer.at \in 1 .. Len(file)  BY <3>4
      <4>2. file[writer.at] \in Kinds  BY <4>1
      <4>3. Append(meta.children, file[writer.at]) \in Seq(Kinds)  BY <4>2
      <4>4. QED  BY <3>4, <4>3
    <3>5. CASE /\ At("choose") /\ meta.moving = "dict"
               /\ \E i \in DOMAIN file :
                     MetaWith(meta.facts, With(meta.chosen, Chosen[writer.at], i - 1), meta.children,
                              meta.capacity, "nothing")
      <4>1. PICK i \in DOMAIN file : MetaWith(meta.facts, With(meta.chosen, Chosen[writer.at], i - 1),
                                              meta.children, meta.capacity, "nothing")
        BY <3>5
      <4>0. writer.at <= 3  BY <3>5 DEF WriterInv, At
      <4>2. writer.at \in 1 .. 3  BY <4>0
      <4>3. i - 1 \in Nat /\ Chosen[writer.at] \in Kinds  BY <4>2, ChosenFacts
      <4>4. With(meta.chosen, Chosen[writer.at], i - 1) \in ChosenKinds  BY <4>3, ChoiceFacts
      <4>5. QED  BY <4>1, <4>4
    <3>6. CASE MetaWith(meta.facts, meta.chosen, meta.children, meta.capacity, "nothing")  BY <3>6
    <3>7. QED  BY <2>0, <3>1, <3>2, <3>3, <3>4, <3>5, <3>6 DEF WriterSteps, GoesOnTo
  <2>5. meta' \in [facts : SUBSET AllFacts, chosen : ChosenKinds, children : Seq(Kinds), capacity : Nat,
                   moving : {"nothing", "dict", "list"}]
    <3>0. meta \in [facts : SUBSET AllFacts, chosen : ChosenKinds, children : Seq(Kinds), capacity : Nat,
                    moving : {"nothing", "dict", "list"}]
      BY DEF MetaTypeOK
    <3>1. CASE meta' = meta
      <4> HIDE MetaParts
      <4>1. QED  BY <3>0, <3>1
    <3>2. CASE meta' # meta
      <4>1. PICK f \in SUBSET AllFacts, c \in ChosenKinds, ch \in Seq(Kinds), cap \in Nat,
                 m \in {"nothing", "dict", "list"} : MetaWith(f, c, ch, cap, m)
        BY <2>4, <3>2
      <4> HIDE MetaParts
      <4>2. QED  BY <4>1 DEF MetaWith
    <3>3. QED  BY <3>1, <3>2
  <2>6. QED  BY <2>a, <2>1, <2>2, <2>5 DEF MetaTypeOK
<1>2. CASE MetaApp
  <2> DEFINE B == [pc : {"none", "facts", "chosen", "count", "children", "returned", "refused"},
                   prepared : BOOLEAN, facts : SUBSET AllFacts, chosen : ChosenKinds, count : Nat,
                   children : Seq(Kinds), torn : BOOLEAN]
  <2>1. bundle \in B /\ NoBundle \in B
    <3>1. [k \in {} |-> 0] \in ChosenKinds  BY ChoiceFacts
    <3> DEFINE none == [k \in {} |-> 0]
    <3> HIDE DEF none
    <3>2. NoBundle = [pc |-> "none", prepared |-> FALSE, facts |-> {}, chosen |-> none,
                      count |-> 0, children |-> <<>>, torn |-> FALSE]
      BY DEF NoBundle, none
    <3>3. NoBundle \in B  BY <3>1, <3>2 DEF none
    <3>4. QED  BY <3>3 DEF MetaTypeOK
  <2>2. CASE GetMediaMeta
    <3>1. At("prepared") \in BOOLEAN  BY DEF At
    <3>2. bundle' \in B  BY <2>1, <2>2, <3>1 DEF GetMediaMeta
    <3>3. QED  BY <2>2, <3>2 DEF GetMediaMeta, MetaTypeOK
  <2>a. ASSUME NEW part PROVE Torn(part) \in BOOLEAN  BY DEF Torn
  <2>3. CASE FillFacts
    <3>1. bundle' \in B  BY <2>1, <2>3, <2>a DEF FillFacts
    <3>2. QED  BY <2>3, <3>1 DEF FillFacts, MetaTypeOK
  <2>4. CASE FillChosen
    <3>1. bundle' \in B  BY <2>1, <2>4, <2>a DEF FillChosen
    <3>2. QED  BY <2>4, <3>1 DEF FillChosen, MetaTypeOK
  <2>5. CASE ChildrenCount
    <3>1. bundle' \in B  BY <2>1, <2>5 DEF ChildrenCount
    <3>2. QED  BY <2>5, <3>1 DEF ChildrenCount, MetaTypeOK
  <2>6. CASE FillChild
    <3> DEFINE n == Len(bundle.children) + 1
               more == Append(bundle.children, meta.children[n])
    <3>1. n \in 1 .. Len(meta.children)  BY <2>6 DEF FillChild, BundleInv
    <3>2. meta.children[n] \in Kinds  BY <3>1
    <3>3. more \in Seq(Kinds)  BY <3>2
    <3>4. bundle' = [bundle EXCEPT !.children = more, !.torn = Torn("list")]  BY <2>6 DEF FillChild
    <3> HIDE DEF n, more
    <3>5. bundle' \in B  BY <2>1, <2>a, <3>3, <3>4
    <3>6. QED  BY <2>6, <3>5 DEF FillChild, MetaTypeOK
  <2>7. CASE Returned
    <3>1. CASE bundle' = [bundle EXCEPT !.pc = "returned"]
      <4>1. bundle' \in B  BY <2>1, <3>1
      <4>2. QED  BY <2>7, <4>1 DEF Returned, MetaTypeOK
    <3>2. CASE bundle' = [NoBundle EXCEPT !.pc = "refused"]
      <4>1. bundle' \in B  BY <2>1, <3>2
      <4>2. QED  BY <2>7, <4>1 DEF Returned, MetaTypeOK
    <3>3. QED  BY <2>7, <3>1, <3>2 DEF Returned
  <2>8. QED  BY <1>2, <2>2, <2>3, <2>4, <2>5, <2>6, <2>7 DEF MetaApp
<1>3. QED  BY <1>1, <1>2 DEF MetaNext

LEMMA MetaWriterStep ==
    ASSUME MetaTypeOK, WriterInv, MetaNext
    PROVE  WriterInv'
<1> USE MetaParts
<1>1. CASE ReadThread
  <2>0. WriterSteps /\ file' = file /\ delayed' = delayed  BY <1>1, WriterMoves
  <2>1. CASE \E pc \in {"facts", "streams", "choose", "prepared", "done"} :
               GoesOnTo(pc) /\ (pc = "done" => delayed) /\ meta.moving = "nothing"
    <3>1. PICK pc \in {"facts", "streams", "choose", "prepared", "done"} :
               GoesOnTo(pc) /\ (pc = "done" => delayed) /\ meta.moving = "nothing"
      BY <2>1
    <3>2. writer'.pc = pc /\ writer'.at = 1 /\ meta'.moving = "nothing" /\ delayed' = delayed /\ file' = file
      BY <2>0, <3>1 DEF GoesOnTo
    <3>3. QED  BY <3>1, <3>2 DEF WriterInv, At
  <2>2. CASE \E pc \in {"facts", "streams", "choose", "prepared", "done"} : GoesOnTo(pc)
    <3>1. meta.moving = "nothing" /\ (GoesOnTo("done") => delayed)
      BY <2>0, <2>2 DEF WriterSteps, GoesOnTo, WriterInv, At, NextAt, MetaWith
    <3>2. QED  BY <2>1, <2>2, <3>1
  <2>3. CASE writer' = writer
    <3>1. /\ meta'.moving = "dict" => (At("facts") /\ writer.at <= 4) \/ (At("choose") /\ writer.at <= 3)
          /\ meta'.moving = "list" => At("streams") /\ writer.at <= Len(file)
      BY <2>0, <2>3 DEF WriterSteps, WriterInv, GoesOnTo, NextAt, MetaWith, At
    <3>2. QED  BY <2>0, <2>3, <3>1 DEF WriterInv, At
  <2>4. CASE NextAt
    <3>1. writer'.pc = writer.pc /\ writer'.at = writer.at + 1  BY <2>4 DEF NextAt
    <3>2. \/ At("facts") /\ writer.at <= 4
          \/ At("streams") /\ writer.at <= Len(file)
          \/ At("choose") /\ writer.at <= 3
      BY <2>0, <3>1 DEF WriterSteps, WriterInv, GoesOnTo, At
    <3>3. meta'.moving = "nothing"
      BY <2>0, <3>1 DEF WriterSteps, WriterInv, GoesOnTo, MetaWith, At
    <3>4. QED  BY <2>0, <3>1, <3>2, <3>3 DEF WriterInv, At
  <2>5. QED  BY <2>0, <2>2, <2>3, <2>4 DEF WriterSteps
<1>2. CASE MetaApp
  <2>1. UNCHANGED <<file, delayed, meta, writer>>
    BY <1>2 DEF MetaApp, GetMediaMeta, FillFacts, FillChosen, ChildrenCount, FillChild, Returned
  <2>2. QED  BY <2>1 DEF WriterInv, At
<1>3. QED  BY <1>1, <1>2 DEF MetaNext

LEMMA AppendedIs ==
    ASSUME MetaTypeOK
    PROVE  /\ At("streams") => Appended = writer.at - 1
           /\ At("done") => Appended = Len(file)
           /\ ~delayed /\ (At("choose") \/ At("prepared")) => Appended = Len(file)
           /\ At("opened") \/ At("facts") => Appended = 0
           /\ delayed /\ (At("choose") \/ At("prepared")) => Appended = 0
<1>1. At("streams") => Appended = writer.at - 1  BY DEF Appended, At
<1>2. At("done") => Appended = Len(file)  BY DEF Appended, At
<1>3. ~delayed /\ (At("choose") \/ At("prepared")) => Appended = Len(file)  BY DEF Appended, At
<1>4. At("opened") \/ At("facts") => Appended = 0  BY DEF Appended, At
<1>5. delayed /\ (At("choose") \/ At("prepared")) => Appended = 0  BY DEF Appended, At
<1>6. QED  BY <1>1, <1>2, <1>3, <1>4, <1>5

\* FilledInv, a part at a time.
Children == ~lost => Len(meta.children) = Appended
                     /\ \A i \in 1 .. Len(meta.children) : meta.children[i] = file[i]
FactsIn  == /\ At("facts") => \A i \in 1 .. writer.at - 1 : Facts[i] \in meta.facts
            /\ At("streams") \/ (~delayed /\ (At("choose") \/ At("prepared"))) => meta.facts = AllFacts
Leads    == \A k \in DOMAIN meta.chosen : meta.chosen[k] + 1 \in DOMAIN file /\ file[meta.chosen[k] + 1] = k
ChosenIn == /\ At("choose") => \A j \in 1 .. writer.at - 1 : Found(Chosen[j])
            /\ At("prepared") => \A j \in 1 .. 3 : Found(Chosen[j])

LEMMA FilledParts == FilledInv <=> Children /\ FactsIn /\ Leads /\ ChosenIn
BY DEF FilledInv, Children, FactsIn, Leads, ChosenIn

\* What only read_thread writes stays as it is while the application copies.
LEMMA AppWritesBundle ==
    MetaApp => UNCHANGED <<file, delayed, meta, writer, lost>>
BY DEF MetaApp, GetMediaMeta, FillFacts, FillChosen, ChildrenCount, FillChild, Returned

LEMMA ChildrenStep ==
    ASSUME MetaTypeOK, MetaTypeOK', WriterInv, Children, ReadThread
    PROVE  Children'
<1> USE MetaParts
<1>0. WriterSteps /\ file' = file /\ delayed' = delayed  BY WriterMoves
<1>1. SUFFICES ASSUME ~lost'
               PROVE  /\ Len(meta'.children) = Appended'
                      /\ \A i \in 1 .. Len(meta'.children) : meta'.children[i] = file[i]
  BY <1>0 DEF Children
<1>2. ~lost /\ lost' = lost  BY <1>0, <1>1 DEF WriterSteps, GoesOnTo
<1>3. Len(meta.children) = Appended /\ \A i \in 1 .. Len(meta.children) : meta.children[i] = file[i]
  BY <1>2 DEF Children
<1>4. CASE /\ At("streams") /\ writer.at <= Len(file) /\ NextAt
           /\ \E cap \in Nat : MetaWith(meta.facts, meta.chosen, Append(meta.children, file[writer.at]), cap, "nothing")
  <2>1. meta'.children = Append(meta.children, file[writer.at])  BY <1>4 DEF MetaWith
  <2>2. Appended = writer.at - 1 /\ Len(meta.children) = writer.at - 1  BY <1>3, <1>4, AppendedIs
  <2>3. writer'.pc = "streams" /\ writer'.at = writer.at + 1  BY <1>4 DEF NextAt, At
  <2>4. Appended' = writer.at  BY <2>3 DEF Appended, At
  <2>5. writer.at \in 1 .. Len(file)  BY <1>4
  <2>6. file[writer.at] \in Kinds  BY <2>5
  <2>7. Len(meta'.children) = writer.at  BY <2>1, <2>2, <2>6
  <2>8. ASSUME NEW i \in 1 .. writer.at  PROVE meta'.children[i] = file[i]
    <3>1. CASE i = writer.at  BY <2>1, <2>2, <2>6, <3>1
    <3>2. CASE i # writer.at
      <4>1. i \in 1 .. Len(meta.children)  BY <2>2, <3>2
      <4>2. meta'.children[i] = meta.children[i]  BY <2>1, <2>6, <4>1
      <4>3. QED  BY <1>3, <4>1, <4>2
    <3>3. QED  BY <3>1, <3>2
  <2>9. QED  BY <2>4, <2>7, <2>8
<1>5. ASSUME meta'.children = meta.children, Appended' = Appended
      PROVE  /\ Len(meta'.children) = Appended'
             /\ \A i \in 1 .. Len(meta'.children) : meta'.children[i] = file[i]
  BY <1>3, <1>5
<1>6. CASE ~ (/\ At("streams") /\ writer.at <= Len(file) /\ NextAt
              /\ \E cap \in Nat : MetaWith(meta.facts, meta.chosen, Append(meta.children, file[writer.at]), cap, "nothing"))
  <2>1. meta'.children = meta.children
    BY <1>0, <1>2, <1>1, <1>6 DEF WriterSteps, GoesOnTo, MetaWith
  <2>2. CASE writer' = writer  BY <1>0, <1>5, <2>1, <2>2 DEF Appended, At
  <2>3. CASE NextAt
    <3>1. ~ At("streams")  BY <1>0, <1>1, <1>2, <1>6, <2>3 DEF WriterSteps, GoesOnTo, At, NextAt
    <3>2. writer'.pc = writer.pc  BY <2>3 DEF NextAt
    <3>3. Appended' = Appended  BY <1>0, <3>1, <3>2 DEF Appended, At
    <3>4. QED  BY <1>5, <2>1, <3>3
  <2>4. CASE \E pc \in {"facts", "streams", "choose", "prepared", "done"} : GoesOnTo(pc)
    <3>1. Appended' = Appended
      <4>1. CASE GoesOnTo("choose") /\ At("opened") /\ delayed  BY <1>0, <4>1 DEF Appended, At, GoesOnTo
      <4>2. CASE GoesOnTo("facts") /\ At("opened")  BY <1>0, <4>2 DEF Appended, At, GoesOnTo
      <4>3. CASE GoesOnTo("facts") /\ At("prepared") /\ delayed  BY <1>0, <4>3 DEF Appended, At, GoesOnTo
      <4>4. CASE GoesOnTo("streams") /\ At("facts")  BY <1>0, <4>4 DEF Appended, At, GoesOnTo
      <4>5. CASE GoesOnTo("done") /\ At("streams") /\ writer.at > Len(file)
        <5>1. writer.at = Len(file) + 1  BY <4>5 DEF WriterInv
        <5>2. QED  BY <1>0, <4>5, <5>1 DEF Appended, At, GoesOnTo
      <4>6. CASE GoesOnTo("choose") /\ At("streams") /\ writer.at > Len(file) /\ ~delayed
        <5>1. writer.at = Len(file) + 1  BY <4>6 DEF WriterInv
        <5>2. QED  BY <1>0, <4>6, <5>1 DEF Appended, At, GoesOnTo
      <4>7. CASE GoesOnTo("prepared") /\ At("choose")  BY <1>0, <4>7 DEF Appended, At, GoesOnTo
      <4>8. QED
        <5>1. writer'.at = 1 /\ meta' = meta  BY <2>4 DEF GoesOnTo
        <5>2. CASE NextAt
          <6>1. writer'.at = writer.at + 1  BY <5>2 DEF NextAt
          <6>2. QED  BY <5>1, <6>1
        <5>3. CASE writer' = writer /\ meta.moving = "nothing" /\ \E m \in {"dict", "list"} : meta'.moving = m
          BY <5>1, <5>3
        <5>4. CASE writer' = writer /\ meta'.moving # meta.moving  BY <5>1, <5>4
        <5>5. QED  BY <1>0, <4>1, <4>2, <4>3, <4>4, <4>5, <4>6, <4>7, <5>2, <5>4 DEF WriterSteps, MetaWith
    <3>2. QED  BY <1>5, <2>1, <3>1
  <2>5. QED  BY <1>0, <2>2, <2>3, <2>4 DEF WriterSteps
<1>7. QED  BY <1>4, <1>6

LEMMA FactsInStep ==
    ASSUME MetaTypeOK, MetaTypeOK', WriterInv, FactsIn, ReadThread
    PROVE  FactsIn'
<1> USE MetaParts
<1>0. WriterSteps /\ file' = file /\ delayed' = delayed  BY WriterMoves
<1>1. CASE \E pc \in {"facts", "streams", "choose", "prepared", "done"} : GoesOnTo(pc)
  <2>1. writer'.at = 1 /\ meta' = meta  BY <1>1 DEF GoesOnTo
  <2>2. writer'.pc = "facts" => FactsIn'  BY <2>1 DEF FactsIn, At
  <2>3. CASE GoesOnTo("streams") /\ At("facts") /\ writer.at > 4
    <3>1. \A i \in 1 .. 4 : Facts[i] \in meta.facts  BY <2>3 DEF FactsIn
    <3>2. meta.facts = AllFacts  BY <3>1, FactsFacts
    <3>3. QED  BY <2>1, <2>3, <3>2 DEF FactsIn, At, GoesOnTo
  <2>4. CASE GoesOnTo("choose") /\ delayed  BY <1>0, <2>1, <2>4 DEF FactsIn, At, GoesOnTo
  <2>5. CASE GoesOnTo("done")  BY <1>0, <2>1, <2>5 DEF FactsIn, At, GoesOnTo
  <2>6. CASE (GoesOnTo("choose") /\ At("streams")) \/ (GoesOnTo("prepared") /\ At("choose"))
    BY <1>0, <2>1, <2>6 DEF FactsIn, At, GoesOnTo
  <2>7. CASE writer' = writer /\ meta'.moving # meta.moving  BY <2>1, <2>7
  <2>8. CASE NextAt  BY <2>1, <2>8 DEF NextAt
  <2>9. GoesOnTo("facts") => writer'.pc = "facts"  BY DEF GoesOnTo
  <2>10. QED  BY <1>0, <2>2, <2>3, <2>4, <2>5, <2>6, <2>7, <2>8, <2>9 DEF WriterSteps, MetaWith
<1>2. CASE At("facts") /\ NextAt
           /\ MetaWith(meta.facts \cup {Facts[writer.at]}, meta.chosen, meta.children, meta.capacity, "nothing")
  <2>1. writer'.pc = "facts" /\ writer'.at = writer.at + 1 /\ meta'.facts = meta.facts \cup {Facts[writer.at]}
    BY <1>2 DEF NextAt, MetaWith, At
  <2>2. \A i \in 1 .. writer.at : Facts[i] \in meta'.facts
    <3>1. \A i \in 1 .. writer.at : i \in 1 .. writer.at - 1 \/ i = writer.at  OBVIOUS
    <3>2. QED  BY <1>2, <2>1, <3>1 DEF FactsIn
  <2>3. writer'.at - 1 = writer.at  BY <2>1
  <2>4. \A i \in 1 .. writer'.at - 1 : Facts[i] \in meta'.facts  BY <2>2, <2>3
  <2>5. QED  BY <2>1, <2>4 DEF FactsIn, At
<1>3. CASE meta'.facts = meta.facts /\ (writer' = writer \/ (NextAt /\ ~ At("facts")))
  <2>1. writer'.pc = writer.pc  BY <1>3 DEF NextAt
  <2>2. QED  BY <1>0, <1>3, <2>1 DEF FactsIn, At
<1>4. QED  BY <1>0, <1>1, <1>2, <1>3 DEF WriterSteps, MetaWith, At

LEMMA LeadsStep ==
    ASSUME MetaTypeOK, MetaTypeOK', WriterInv, Leads, ReadThread
    PROVE  Leads'
<1> USE MetaParts
<1>0. WriterSteps /\ file' = file  BY WriterMoves
<1>1. CASE meta'.chosen = meta.chosen  BY <1>0, <1>1 DEF Leads
<1>2. CASE \E i \in DOMAIN file : file[i] = Chosen[writer.at] /\ meta'.chosen = With(meta.chosen, Chosen[writer.at], i - 1)
  <2>1. PICK i \in DOMAIN file :
               file[i] = Chosen[writer.at] /\ meta'.chosen = With(meta.chosen, Chosen[writer.at], i - 1)
    BY <1>2
  <2>2. i - 1 + 1 = i  OBVIOUS
  <2>3. DOMAIN meta'.chosen = DOMAIN meta.chosen \cup {Chosen[writer.at]}  BY <2>1 DEF With
  <2>4. ASSUME NEW k \in DOMAIN meta'.chosen
        PROVE  meta'.chosen[k] + 1 \in DOMAIN file /\ file[meta'.chosen[k] + 1] = k
    <3>1. CASE k = Chosen[writer.at]
      <4>1. meta'.chosen[k] = i - 1  BY <2>1, <2>3, <3>1 DEF With
      <4>2. QED  BY <2>1, <2>2, <3>1, <4>1
    <3>2. CASE k # Chosen[writer.at]
      <4>1. k \in DOMAIN meta.chosen /\ meta'.chosen[k] = meta.chosen[k]  BY <2>1, <2>3, <3>2 DEF With
      <4>2. QED  BY <4>1 DEF Leads
    <3>3. QED  BY <3>1, <3>2
  <2>5. QED  BY <1>0, <2>4 DEF Leads
<1>3. QED  BY <1>0, <1>1, <1>2 DEF WriterSteps, GoesOnTo, MetaWith

LEMMA ChosenInStep ==
    ASSUME MetaTypeOK, MetaTypeOK', WriterInv, ChosenIn, ReadThread
    PROVE  ChosenIn'
<1> USE MetaParts
<1>0. WriterSteps /\ file' = file  BY WriterMoves
<1>a. DOMAIN meta.chosen \subseteq DOMAIN meta'.chosen
  BY <1>0 DEF WriterSteps, GoesOnTo, MetaWith, With
<1>b. ASSUME NEW k, Found(k) PROVE Found(k)'
  BY <1>0, <1>a, <1>b DEF Found
<1>1. CASE \E pc \in {"facts", "streams", "choose", "prepared", "done"} : GoesOnTo(pc)
  <2>1. writer'.at = 1 /\ meta' = meta  BY <1>1 DEF GoesOnTo
  <2>2. CASE GoesOnTo("prepared") /\ At("choose") /\ writer.at > 3
    <3>1. \A j \in 1 .. 3 : Found(Chosen[j])  BY <2>2 DEF ChosenIn
    <3>2. \A j \in 1 .. 3 : Found(Chosen[j])'  BY <1>b, <3>1
    <3>3. QED  BY <2>1, <2>2, <3>2 DEF ChosenIn, At, GoesOnTo
  <2>3. CASE ~ At("prepared")'  BY <2>1, <2>3 DEF ChosenIn
  <2>4. CASE writer' = writer /\ meta'.moving # meta.moving  BY <2>1, <2>4
  <2>5. CASE NextAt  BY <2>1, <2>5 DEF NextAt
  <2>6. QED  BY <1>0, <2>2, <2>3, <2>4, <2>5 DEF WriterSteps, GoesOnTo, At, MetaWith
<1>2. CASE writer' = writer
  <2>1. At("choose") => \A j \in 1 .. writer.at - 1 : Found(Chosen[j])'  BY <1>b DEF ChosenIn
  <2>2. At("prepared") => \A j \in 1 .. 3 : Found(Chosen[j])'  BY <1>b DEF ChosenIn
  <2>3. QED  BY <1>2, <2>1, <2>2 DEF ChosenIn, At
<1>3. CASE NextAt /\ ~ At("choose")
  <2>1. writer'.pc = writer.pc /\ ~ At("prepared")
    BY <1>0, <1>3 DEF NextAt, WriterSteps, GoesOnTo, At
  <2>2. QED  BY <1>3, <2>1 DEF ChosenIn, At
<1>4. CASE NextAt /\ At("choose")
  <2>0. writer'.pc = "choose" /\ writer'.at = writer.at + 1  BY <1>4 DEF NextAt, At
  <2>1. \A j \in 1 .. writer.at - 1 : Found(Chosen[j])'  BY <1>4, <1>b DEF ChosenIn
  <2>2. ASSUME NEW j \in 1 .. writer.at, j = writer.at  PROVE Found(Chosen[j])'
    <3>1. \/ \E i \in DOMAIN file :
                 file[i] = Chosen[j]
                 /\ MetaWith(meta.facts, With(meta.chosen, Chosen[j], i - 1), meta.children,
                             meta.capacity, "nothing")
          \/ \A i \in DOMAIN file : file[i] # Chosen[j]
      BY <1>0, <1>4, <2>0, <2>2 DEF WriterSteps, GoesOnTo, At
    <3>2. CASE \A i \in DOMAIN file : file[i] # Chosen[j]
      BY <1>0, <3>2 DEF Found
    <3>3. CASE \E i \in DOMAIN file : meta'.chosen = With(meta.chosen, Chosen[j], i - 1)
      BY <3>3 DEF Found, With
    <3>4. QED  BY <3>1, <3>2, <3>3 DEF MetaWith
  <2>3. \A j \in 1 .. writer.at : j \in 1 .. writer.at - 1 \/ j = writer.at  OBVIOUS
  <2>4. \A j \in 1 .. writer.at : Found(Chosen[j])'  BY <2>1, <2>2, <2>3
  <2>5. writer'.at - 1 = writer.at  BY <2>0
  <2>6. QED  BY <2>0, <2>4, <2>5 DEF ChosenIn, At
<1>5. QED  BY <1>0, <1>1, <1>2, <1>3, <1>4 DEF WriterSteps

\* BundleInv, a part at a time.
CopyWhole == bundle.prepared /\ ~delayed =>
                 /\ At("prepared") /\ ~bundle.torn
                 /\ bundle.pc \in {"chosen", "count", "children", "returned"} => bundle.facts = AllFacts
                 /\ bundle.pc \in {"count", "children", "returned"} => bundle.chosen = meta.chosen
                 /\ bundle.pc \in {"children", "returned"} => bundle.count = Len(meta.children)
CopyCount == /\ bundle.pc \in {"children", "returned"} =>
                  bundle.count <= Len(meta.children) /\ Len(bundle.children) <= bundle.count
             /\ bundle.pc = "returned" => Len(bundle.children) = bundle.count
             /\ bundle.pc \notin {"children", "returned"} => bundle.children = <<>>
CopyTrue  == ~lost => \A i \in 1 .. Len(bundle.children) : bundle.children[i] = file[i]

LEMMA BundleParts == BundleInv <=> CopyWhole /\ CopyCount /\ CopyTrue
BY DEF BundleInv, CopyWhole, CopyCount, CopyTrue

LEMMA BundleStepWriter ==
    ASSUME MetaTypeOK, WriterInv, BundleInv, ReadThread
    PROVE  BundleInv'
<1> USE MetaParts
<1>0. WriterSteps /\ file' = file /\ delayed' = delayed /\ bundle' = bundle  BY WriterMoves
<1>1. ~ (At("prepared") /\ ~delayed)
  BY <1>0 DEF WriterSteps, GoesOnTo, At, WriterInv
<1>2. Len(meta.children) <= Len(meta'.children)
  <2>1. CASE meta'.children = meta.children  BY <2>1
  <2>2. CASE writer.at <= Len(file) /\ meta'.children = Append(meta.children, file[writer.at])
    <3>1. writer.at \in 1 .. Len(file)  BY <2>2
    <3>2. file[writer.at] \in Kinds  BY <3>1
    <3>3. Len(meta'.children) = Len(meta.children) + 1  BY <2>2, <3>2
    <3>4. QED  BY <3>3
  <2>3. QED  BY <1>0, <2>1, <2>2 DEF WriterSteps, GoesOnTo, MetaWith
<1>3. lost' = lost \/ lost' = TRUE  BY <1>0 DEF WriterSteps, GoesOnTo
<1>4. CopyWhole'  BY <1>0, <1>1, BundleParts DEF CopyWhole
<1>5. CopyCount'
  <2>1. Len(meta'.children) \in Nat
    <3>1. CASE meta'.children = meta.children  BY <3>1
    <3>2. CASE writer.at <= Len(file) /\ meta'.children = Append(meta.children, file[writer.at])
      <4>1. writer.at \in 1 .. Len(file)  BY <3>2
      <4>2. file[writer.at] \in Kinds  BY <4>1
      <4>3. QED  BY <3>2, <4>2
    <3>3. QED  BY <1>0, <3>1, <3>2 DEF WriterSteps, GoesOnTo, MetaWith
  <2>2. CopyCount  BY BundleParts
  <2>3. QED  BY <1>0, <1>2, <2>1, <2>2 DEF CopyCount
<1>6. CopyTrue'  BY <1>0, <1>3, BundleParts DEF CopyTrue
<1>7. QED
  <2>1. BundleInv' <=> (CopyWhole /\ CopyCount /\ CopyTrue)'
    BY DEF BundleInv, CopyWhole, CopyCount, CopyTrue
  <2>2. QED  BY <1>4, <1>5, <1>6, <2>1

LEMMA BundleStepApp ==
    ASSUME MetaTypeOK, WriterInv, FilledInv, BundleInv, MetaApp
    PROVE  BundleInv'
<1> USE MetaParts
<1>0. UNCHANGED <<file, delayed, meta, writer, lost>>  BY AppWritesBundle
<1>1. CopyWhole /\ CopyCount /\ CopyTrue  BY BundleParts
<1>2. At("prepared") => meta.moving = "nothing"  BY DEF WriterInv, At
<1>3. At("prepared") /\ ~delayed => meta.facts = AllFacts  BY FilledParts DEF FactsIn
<1>a. /\ bundle = [pc |-> bundle.pc, prepared |-> bundle.prepared, facts |-> bundle.facts,
                   chosen |-> bundle.chosen, count |-> bundle.count, children |-> bundle.children,
                   torn |-> bundle.torn]
  BY DEF MetaTypeOK
<1>b. BundleInv' <=> (CopyWhole /\ CopyCount /\ CopyTrue)'
  BY DEF BundleInv, CopyWhole, CopyCount, CopyTrue
<1>c. /\ NoBundle.children = <<>> /\ NoBundle.prepared = FALSE /\ NoBundle.torn = FALSE
      /\ Len(<<>>) = 0
  BY DEF NoBundle
<1>4. CASE GetMediaMeta
  <2>1. /\ bundle'.pc = "facts" /\ bundle'.prepared = At("prepared") /\ bundle'.torn = FALSE
        /\ bundle'.children = <<>>
    BY <1>4 DEF GetMediaMeta, NoBundle
  <2>2. CopyWhole'  BY <1>0, <2>1 DEF CopyWhole, At
  <2>3. CopyCount'  BY <1>0, <2>1 DEF CopyCount
  <2>4. CopyTrue'   BY <1>0, <1>c, <2>1 DEF CopyTrue
  <2>5. QED  BY <1>b, <2>2, <2>3, <2>4
<1>5. CASE FillFacts
  <2>1. /\ bundle.pc = "facts" /\ bundle'.pc = "chosen" /\ bundle'.prepared = bundle.prepared
        /\ bundle'.facts = meta.facts /\ bundle'.torn = Torn("dict") /\ bundle'.children = bundle.children
    BY <1>5, <1>a DEF FillFacts
  <2>2. CopyWhole'  BY <1>0, <1>1, <1>2, <1>3, <2>1 DEF CopyWhole, Torn, At
  <2>3. CopyCount'  BY <1>0, <1>1, <2>1 DEF CopyCount
  <2>4. CopyTrue'   BY <1>0, <1>1, <2>1 DEF CopyTrue
  <2>5. QED  BY <1>b, <2>2, <2>3, <2>4
<1>6. CASE FillChosen
  <2>1. /\ bundle.pc = "chosen" /\ bundle'.pc = "count" /\ bundle'.prepared = bundle.prepared
        /\ bundle'.facts = bundle.facts /\ bundle'.chosen = meta.chosen /\ bundle'.torn = Torn("dict")
        /\ bundle'.children = bundle.children
    BY <1>6, <1>a DEF FillChosen
  <2>2. CopyWhole'  BY <1>0, <1>1, <1>2, <2>1 DEF CopyWhole, Torn, At
  <2>3. CopyCount'  BY <1>0, <1>1, <2>1 DEF CopyCount
  <2>4. CopyTrue'   BY <1>0, <1>1, <2>1 DEF CopyTrue
  <2>5. QED  BY <1>b, <2>2, <2>3, <2>4
<1>7. CASE ChildrenCount
  <2>1. /\ bundle.pc = "count" /\ bundle'.pc = "children" /\ bundle'.prepared = bundle.prepared
        /\ bundle'.facts = bundle.facts /\ bundle'.chosen = bundle.chosen /\ bundle'.torn = bundle.torn
        /\ bundle'.count = Len(meta.children) /\ bundle'.children = bundle.children
    BY <1>7, <1>a DEF ChildrenCount
  <2>2. CopyWhole'  BY <1>0, <1>1, <2>1 DEF CopyWhole, At
  <2>3. CopyCount'
    <3>1. bundle.children = <<>>  BY <1>1, <2>1 DEF CopyCount
    <3>2. QED  BY <1>0, <1>c, <2>1, <3>1 DEF CopyCount
  <2>4. CopyTrue'   BY <1>0, <1>1, <2>1 DEF CopyTrue
  <2>5. QED  BY <1>b, <2>2, <2>3, <2>4
<1>8. CASE FillChild
  <2> DEFINE n == Len(bundle.children) + 1
  <2>1. /\ bundle.pc = "children" /\ bundle'.pc = "children" /\ bundle'.prepared = bundle.prepared
        /\ bundle'.facts = bundle.facts /\ bundle'.chosen = bundle.chosen /\ bundle'.torn = Torn("list")
        /\ bundle'.count = bundle.count /\ bundle'.children = Append(bundle.children, meta.children[n])
        /\ Len(bundle.children) < bundle.count
    BY <1>8, <1>a DEF FillChild
  <2>a. n \in 1 .. Len(meta.children)  BY <1>1, <2>1 DEF CopyCount
  <2>b. meta.children[n] \in Kinds  BY <2>a
  <2>c. Len(bundle'.children) = n /\ bundle'.children[n] = meta.children[n]
        /\ \A i \in 1 .. n - 1 : bundle'.children[i] = bundle.children[i]
    BY <2>1, <2>b
  <2>2. CopyWhole'  BY <1>0, <1>1, <1>2, <2>1 DEF CopyWhole, Torn, At
  <2>3. CopyCount'  BY <1>0, <1>1, <2>1, <2>c DEF CopyCount
  <2>4. CopyTrue'
    <3>1. ~lost => meta.children[n] = file[n]  BY <2>a, FilledParts DEF Children
    <3>2. ~lost => \A i \in 1 .. n - 1 : bundle.children[i] = file[i]  BY <1>1 DEF CopyTrue
    <3>3. \A i \in 1 .. n : i = n \/ i \in 1 .. n - 1  OBVIOUS
    <3>4. ~lost => \A i \in 1 .. n : bundle'.children[i] = file[i]  BY <2>c, <3>1, <3>2, <3>3
    <3>5. QED  BY <1>0, <2>c, <3>4 DEF CopyTrue
  <2>5. QED  BY <1>b, <2>2, <2>3, <2>4
<1>9. CASE Returned
  <2>1. CASE bundle.pc = "children" /\ Len(bundle.children) = bundle.count
             /\ bundle' = [bundle EXCEPT !.pc = "returned"]
    <3>1. /\ bundle'.pc = "returned" /\ bundle'.prepared = bundle.prepared
          /\ bundle'.facts = bundle.facts /\ bundle'.chosen = bundle.chosen /\ bundle'.torn = bundle.torn
          /\ bundle'.count = bundle.count /\ bundle'.children = bundle.children
      BY <2>1, <1>a
    <3>2. CopyWhole'  BY <1>0, <1>1, <2>1, <3>1 DEF CopyWhole, At
    <3>3. CopyCount'  BY <1>0, <1>1, <2>1, <3>1 DEF CopyCount
    <3>4. CopyTrue'   BY <1>0, <1>1, <3>1 DEF CopyTrue
    <3>5. QED  BY <1>b, <3>2, <3>3, <3>4
  <2>2. CASE bundle' = [NoBundle EXCEPT !.pc = "refused"]
    <3>1. bundle'.pc = "refused" /\ bundle'.prepared = FALSE /\ bundle'.children = <<>>
      BY <2>2 DEF NoBundle
    <3>2. CopyWhole'  BY <3>1 DEF CopyWhole
    <3>3. CopyCount'  BY <3>1 DEF CopyCount
    <3>4. CopyTrue'   BY <1>c, <3>1 DEF CopyTrue
    <3>5. QED  BY <1>b, <3>2, <3>3, <3>4
  <2>3. QED  BY <1>9, <2>1, <2>2 DEF Returned
<1>10. QED  BY <1>4, <1>5, <1>6, <1>7, <1>8, <1>9 DEF MetaApp

LEMMA MetaInvStep ==
    ASSUME MetaInv, [MetaNext]_metaVars
    PROVE  MetaInv'
<1>0. MetaTypeOK /\ WriterInv /\ FilledInv /\ BundleInv  BY DEF MetaInv
<1>1. CASE ReadThread
  <2>1. MetaNext  BY <1>1 DEF MetaNext
  <2>2. MetaTypeOK' /\ WriterInv'  BY <1>0, <2>1, MetaTypeStep, MetaWriterStep
  <2>3. Children' /\ FactsIn' /\ Leads' /\ ChosenIn'
    BY <1>0, <1>1, <2>2, FilledParts, ChildrenStep, FactsInStep, LeadsStep, ChosenInStep
  <2>4. FilledInv'  BY <2>3 DEF FilledInv, Children, FactsIn, Leads, ChosenIn
  <2>5. BundleInv'  BY <1>0, <1>1, BundleStepWriter
  <2>6. QED  BY <2>2, <2>4, <2>5 DEF MetaInv
<1>2. CASE MetaApp
  <2>1. MetaNext  BY <1>2 DEF MetaNext
  <2>2. MetaTypeOK' /\ WriterInv'  BY <1>0, <2>1, MetaTypeStep, MetaWriterStep
  <2>3. FilledInv'
    <3>1. UNCHANGED <<file, delayed, meta, writer, lost>>  BY <1>2, AppWritesBundle
    <3>2. QED  BY <1>0, <3>1 DEF FilledInv, Appended, Found, At
  <2>4. BundleInv'  BY <1>0, <1>2, BundleStepApp
  <2>5. QED  BY <2>2, <2>3, <2>4 DEF MetaInv
<1>3. CASE UNCHANGED metaVars
  <2>1. UNCHANGED <<file, delayed, meta, writer, bundle, lost>>  BY <1>3 DEF metaVars
  <2>2. QED  BY <1>0, <2>1 DEF MetaInv, MetaTypeOK, WriterInv, FilledInv, BundleInv, Appended, Found, At
<1>4. QED  BY <1>1, <1>2, <1>3 DEF MetaNext

\* MetaInv is an invariant: what ijkmeta_set_avformat_context_l has filled in, and what
\* fillMetaInternal has copied of it, correspond to the file at every step.
THEOREM MetaInvHolds == MetaSpec => []MetaInv
<1>1. MetaInit => MetaInv  BY MetaInitInv
<1>2. MetaInv /\ [MetaNext]_metaVars => MetaInv'  BY MetaInvStep
<1>3. QED  BY <1>1, <1>2, PTL DEF MetaSpec

LEMMA WholeFromInv == MetaInv => MetaIsWhole
<1> SUFFICES ASSUME MetaInv, bundle.pc = "returned", ~lost
             PROVE  /\ ~ bundle.torn => bundle.children = SubSeq(file, 1, bundle.count)
                    /\ bundle.prepared /\ ~ delayed =>
                          /\ ~ bundle.torn
                          /\ bundle.facts = {Facts[i] : i \in DOMAIN Facts}
                          /\ bundle.count = Len(file)
                          /\ \A k \in {"video", "audio", "timedtext"} :
                                 (\E i \in DOMAIN file : file[i] = k) => k \in DOMAIN bundle.chosen /\ Parsed(k)
  BY DEF MetaIsWhole
<1>0. MetaTypeOK  BY DEF MetaInv
<1> USE <1>0, MetaParts
<1>1. /\ WriterInv /\ Children /\ FactsIn /\ Leads /\ ChosenIn
      /\ CopyWhole /\ CopyCount /\ CopyTrue
  BY FilledParts, BundleParts DEF MetaInv
<1>2. /\ bundle.count = Len(bundle.children) /\ bundle.count <= Len(meta.children)
      /\ \A i \in 1 .. bundle.count : bundle.children[i] = file[i]
  BY <1>1 DEF CopyCount, CopyTrue
<1>3. Len(meta.children) = Appended  BY <1>1 DEF Children
<1>4. Appended <= Len(file)  BY <1>1, AppendedIs DEF WriterInv, At
<1>5. bundle.children = SubSeq(file, 1, bundle.count)
  <2> DEFINE part == SubSeq(file, 1, bundle.count)
  <2>1. bundle.count \in 0 .. Len(file)  BY <1>2, <1>3, <1>4
  <2>2. part \in Seq(Kinds) /\ Len(part) = bundle.count /\ \A i \in 1 .. bundle.count : part[i] = file[i]
    BY <2>1
  <2>3. \A i \in 1 .. Len(part) : bundle.children[i] = part[i]  BY <1>2, <2>2
  <2> HIDE DEF part
  <2>4. bundle.children = part
    <3>1. bundle.children \in Seq(Kinds) /\ part \in Seq(Kinds) /\ Len(bundle.children) = Len(part)
      BY <1>2, <2>2
    <3> HIDE <1>0, MetaParts
    <3>2. QED  BY <2>3, <3>1, SeqEqual
  <2>5. QED  BY <2>4 DEF part
<1>6. ASSUME bundle.prepared, ~delayed
      PROVE  /\ ~ bundle.torn /\ bundle.facts = {Facts[i] : i \in DOMAIN Facts}
             /\ bundle.count = Len(file)
             /\ \A k \in {"video", "audio", "timedtext"} :
                    (\E i \in DOMAIN file : file[i] = k) => k \in DOMAIN bundle.chosen /\ Parsed(k)
  <2>1. /\ At("prepared") /\ ~bundle.torn /\ bundle.facts = AllFacts /\ bundle.chosen = meta.chosen
        /\ bundle.count = Len(meta.children)
    BY <1>1, <1>6 DEF CopyWhole
  <2>2. bundle.count = Len(file)  BY <1>3, <1>6, <2>1, AppendedIs
  <2>3. ASSUME NEW k \in {"video", "audio", "timedtext"}, \E i \in DOMAIN file : file[i] = k
        PROVE  k \in DOMAIN bundle.chosen /\ Parsed(k)
    <3>1. PICK j \in 1 .. 3 : Chosen[j] = k  BY ChosenFacts
    <3>2. k \in DOMAIN meta.chosen  BY <1>1, <2>1, <2>3, <3>1 DEF ChosenIn, Found
    <3>3. meta.chosen[k] + 1 \in DOMAIN file /\ file[meta.chosen[k] + 1] = k  BY <1>1, <3>2 DEF Leads
    <3>4. DOMAIN file = 1 .. Len(file) /\ DOMAIN bundle.children = 1 .. Len(bundle.children)  OBVIOUS
    <3>5. QED  BY <1>2, <2>1, <2>2, <3>2, <3>3, <3>4 DEF Parsed
  <2>4. QED  BY <2>1, <2>2, <2>3 DEF AllFacts
<1>7. QED  BY <1>5, <1>6

\* A bundle that is returned is a part of the file from its beginning and, when it was
\* asked for after PREPARED, all of it, with its indices leading where they should.
THEOREM MetaIsWholeHolds == MetaSpec => []MetaIsWhole
<1>1. MetaInv => MetaIsWhole  BY WholeFromInv
<1>2. QED  BY <1>1, MetaInvHolds, PTL


-----------------------------------------------------------------------------
(***************************************************************************)
(* FrameImages: the inductive invariant, up to a second request.           *)
(***************************************************************************)
ImagePlaces == {"decodes", "checks", "converts", "judges", "ended", "crashed", "aborted", "closed"}
ImageThreads ==
    [pc : ImagePlaces,
     pts : Int, dst_pts : Int, last_dst_pts : Int, tries : Int, ret : Int, converted : Nat]
ImageTypeOK ==
    /\ info = [there |-> info.there, start |-> info.start, end |-> info.end, num |-> info.num,
               count |-> info.count, size |-> info.size]
    /\ info.there \in BOOLEAN /\ {info.start, info.end, info.num, info.count} \subseteq Int
    /\ thread \in ImageThreads
    /\ state = [images |-> state.images, failures |-> state.failures] /\ state.failures \in Nat
    /\ state.images \in Seq({state.images[i] : i \in 1 .. Len(state.images)})
    /\ \A i \in 1 .. Len(state.images) : state.images[i].pts \in Int

\* Before a valid request nothing is converted.
Unasked ==
    /\ info.num = 0 /\ info.count = 0 /\ info.size = NoSize /\ asking = NobodyAsks
    /\ requests = 0 => ~ info.there /\ state.failures = 0
    /\ thread.pc \in {"decodes", "checks", "aborted"} /\ thread.dst_pts < 0 /\ thread.converted = 0
    /\ state.images = <<>> /\ scaler = NoSize /\ ~ missed

\* Once the stream is closed there is no request.
Closed == requests = 1 /\ ~ info.there /\ thread.pc = "closed" /\ asking = NobodyAsks

RequestWritten ==
    /\ requests = 1 /\ info.there /\ info.num > 0 /\ info.start >= 0 /\ info.end >= info.start
    /\ \/ asking = NobodyAsks
       \/ /\ asking.pc \in {"count", "size"}
          /\ asking = [pc |-> asking.pc, num |-> info.num, size |-> asking.size]
    /\ info.count >= 0
    /\ IF asking.pc = "count" THEN info.count = 0 /\ thread.pc \in {"decodes", "checks", "aborted"}
                                   /\ thread.converted = 0
                              ELSE Len(state.images) + info.count = info.num
    /\ asking.pc # "none" => info.size = NoSize

\* The thread has converted so many pictures, and where it is on its way to the next.
GoalInv ==
    /\ thread.pc # "closed" /\ ~ missed
    /\ Len(state.images) <= thread.converted
    /\ info.num = 1 => thread.converted <= 1
    /\ thread.pc \in {"decodes", "checks"} =>
          IF thread.converted = 0 THEN thread.dst_pts < 0 ELSE thread.dst_pts = Due(thread.converted)
    /\ thread.pc = "judges" /\ thread.ret = 0 => thread.converted > 0 /\ thread.dst_pts = Due(thread.converted)
    /\ thread.pc = "judges" /\ thread.ret # 0 => info.count > 0
    /\ thread.pc = "converts" =>
          /\ info.count > 0 /\ thread.dst_pts = Due(thread.converted + 1)
          /\ thread.pts >= thread.dst_pts
          /\ info.num = 1 => thread.converted = 0
    /\ state.failures = IF thread.pc = "ended" /\ Len(state.images) # info.num THEN 1 ELSE 0

MadeInv ==
    /\ \A i \in 1 .. Len(state.images) :
          LET image == state.images[i]
          IN  /\ image.pts >= Due(i) /\ (image.last <=> i = info.num) /\ image.pts <= thread.pts
              /\ thread.pc \in {"checks", "converts"} => image.pts < thread.pts
              /\ i > 1 => state.images[i - 1].pts < image.pts

ScalerInv ==
    /\ asking.pc # "none" => scaler = NoSize /\ state.images = <<>>
    /\ scaler = NoSize /\ state.images # <<>> => info.size = NoSize
    /\ scaler # NoSize /\ Fit(scaler) = scaler =>
          info.size = scaler /\ \A i \in 1 .. Len(state.images) : state.images[i].size = scaler

Serving == RequestWritten /\ GoalInv /\ MadeInv /\ ScalerInv
ImagesInv == requests \in Nat /\ (requests <= 1 => ImageTypeOK /\ (Unasked \/ Closed \/ Serving))

LEMMA ImageFields ==
    ASSUME ImageTypeOK
    PROVE  /\ thread.pc \in {"decodes", "checks", "converts", "judges", "ended", "crashed", "aborted", "closed"}
           /\ thread.pts \in Int /\ thread.dst_pts \in Int /\ thread.last_dst_pts \in Int
           /\ thread.tries \in Int /\ thread.ret \in Int /\ thread.converted \in Nat
           /\ info.there \in BOOLEAN /\ info.start \in Int /\ info.end \in Int /\ info.num \in Int
           /\ info.count \in Int /\ state.failures \in Nat /\ Len(state.images) \in Nat
           /\ \A i \in 1 .. Len(state.images) : state.images[i].pts \in Int
  BY DEF ImageTypeOK, ImageThreads, ImagePlaces

\* The places of the images are in order, and in the file's time.
LEMMA DueGrows ==
    ASSUME info.start \in Nat, info.end \in Int, info.num \in Int, info.end >= info.start, info.num > 1,
           NEW j \in Nat \ {0}, NEW k \in Nat \ {0}, j <= k
    PROVE  /\ Due(j) \in Nat /\ Due(j) <= Due(k)
           /\ Due(k) + (info.end - info.start) \div (info.num - 1) = Due(k + 1)
<1> DEFINE step == (info.end - info.start) \div (info.num - 1)
<1>1. step \in Nat
  OBVIOUS
<1>2. \A n \in Nat \ {0} : Due(n) = info.start + (n - 1) * step
  BY <1>1 DEF Due
<1> HIDE DEF step
<1>3. \A m, n \in Nat : m <= n => m * step \in Nat /\ m * step <= n * step
  BY <1>1
<1>4. (j - 1) * step \in Nat /\ (j - 1) * step <= (k - 1) * step
  BY <1>3
<1>5. (k + 1 - 1) * step = (k - 1) * step + step /\ (k - 1) * step \in Nat
  BY <1>1, <1>3
<1>6. Due(j) \in Nat /\ Due(j) <= Due(k)
  BY <1>2, <1>4, <1>5
<1>7. Due(k) + step = Due(k + 1)
  BY <1>1, <1>2, <1>5
<1> QED BY <1>6, <1>7 DEF step

LEMMA DueStays ==
    ASSUME info'.start = info.start, info'.end = info.end, info'.num = info.num
    PROVE  \A k : Due(k)' = Due(k)
  BY DEF Due

LEMMA ImagesStart == ImagesInit => ImagesInv
<1> SUFFICES ASSUME ImagesInit PROVE ImagesInv
  OBVIOUS
<1>1. ImageTypeOK
  BY DEF ImagesInit, ImageTypeOK, ImageThreads, ImagePlaces, NoInfo
<1>2. Unasked
  BY DEF ImagesInit, Unasked, NoInfo
<1> QED BY <1>1, <1>2 DEF ImagesInv, ImagesInit

LEMMA AskKeeps == ASSUME ImagesInv, NEW r \in ImageRequests, Ask(r) PROVE ImagesInv'
<1>0. requests \in Nat /\ requests' = requests + 1
  BY DEF ImagesInv, Ask
<1>1. CASE requests # 0
  BY <1>0, <1>1 DEF ImagesInv
<1>2. CASE requests = 0
  <2>1. ImageTypeOK /\ Unasked
    BY <1>2 DEF ImagesInv, Closed, Serving, RequestWritten
  <2>2. /\ requests' = 1 /\ thread' = thread /\ scaler' = scaler /\ missed' = missed /\ ~ info.there
        /\ state.failures = 0 /\ info.count = 0 /\ info.size = NoSize /\ info.num = 0
    BY <1>2, <2>1 DEF Ask, Unasked
  <2>3. CASE UNCHANGED <<info, asking>> /\ Fails
    <3>1. ImageTypeOK'
      BY <2>1, <2>2, <2>3 DEF ImageTypeOK, Fails
    <3>2. Unasked'
      BY <2>1, <2>2, <2>3 DEF Unasked, Fails, ImageTypeOK
    <3> QED BY <3>1, <3>2, <1>0 DEF ImagesInv
  <2>4. CASE Fails /\ info' = [info EXCEPT !.there = TRUE, !.count = 0] /\ UNCHANGED asking
    <3>0. /\ info'.start = info.start /\ info'.end = info.end /\ info'.num = 0 /\ info'.count = 0
          /\ info'.size = NoSize /\ info'.there = TRUE
          /\ info' = [there |-> info'.there, start |-> info'.start, end |-> info'.end, num |-> info'.num,
                      count |-> info'.count, size |-> info'.size]
      BY <2>1, <2>2, <2>4 DEF ImageTypeOK
    <3>1. ImageTypeOK'
      BY <2>1, <2>2, <2>4, <3>0 DEF ImageTypeOK, Fails
    <3>2. Unasked'
      BY <2>1, <2>2, <2>4, <3>0 DEF Unasked, Fails, ImageTypeOK
    <3> QED BY <3>1, <3>2, <1>0 DEF ImagesInv
  <2>5. CASE /\ Valid(r)
             /\ info' = [info EXCEPT !.there = TRUE, !.start = r.start, !.end = r.end, !.num = r.num]
             /\ asking' = [pc |-> "count", num |-> r.num, size |-> r.size]
             /\ UNCHANGED state
    <3>0. r.start \in Int /\ r.end \in Int /\ r.num \in Int /\ r.start >= 0 /\ r.num > 0 /\ r.end >= r.start
      BY <2>5, FrameImagesAssumption DEF Valid
    <3>1. /\ info'.start = r.start /\ info'.end = r.end /\ info'.num = r.num /\ info'.count = 0
          /\ info'.size = NoSize /\ info'.there = TRUE
          /\ info' = [there |-> info'.there, start |-> info'.start, end |-> info'.end, num |-> info'.num,
                      count |-> info'.count, size |-> info'.size]
      BY <2>1, <2>2, <2>5 DEF ImageTypeOK
    <3>2. ImageTypeOK'
      BY <2>1, <2>2, <2>5, <3>0, <3>1 DEF ImageTypeOK
    <3>3. RequestWritten'
      BY <2>1, <2>2, <2>5, <3>0, <3>1 DEF RequestWritten, Unasked, NobodyAsks
    <3>4. GoalInv' /\ MadeInv' /\ ScalerInv'
      BY <2>1, <2>2, <2>5, <3>0, <3>1 DEF GoalInv, MadeInv, ScalerInv, Unasked
    <3> QED BY <3>2, <3>3, <3>4, <1>0 DEF ImagesInv, Serving
  <2> QED BY <2>2, <2>3, <2>4, <2>5 DEF Ask
<1> QED BY <1>1, <1>2

LEMMA AskCountKeeps == ASSUME ImagesInv, requests <= 1, AskCount PROVE ImagesInv'
<1>1. ImageTypeOK /\ Serving /\ requests' = requests
  BY DEF ImagesInv, AskCount, Unasked, Closed, NobodyAsks
<1>2. /\ asking = [pc |-> "count", num |-> info.num, size |-> asking.size] /\ asking.pc = "count"
      /\ info.count = 0 /\ Len(state.images) <= thread.converted /\ thread.converted = 0 /\ info.num > 0
      /\ thread.pc \in {"decodes", "checks", "aborted"}
  BY <1>1 DEF Serving, RequestWritten, GoalInv, AskCount, NobodyAsks
<1>3. /\ info' = [info EXCEPT !.count = info.num] /\ asking' = [asking EXCEPT !.pc = "size"]
      /\ UNCHANGED <<shape, thread, scaler, state, requests, missed>>
  BY <1>2 DEF AskCount
<1>4. /\ info'.start = info.start /\ info'.end = info.end /\ info'.num = info.num /\ info'.count = info.num
      /\ info'.size = info.size /\ info'.there = info.there
      /\ info' = [there |-> info'.there, start |-> info'.start, end |-> info'.end, num |-> info'.num,
                  count |-> info'.count, size |-> info'.size]
  BY <1>1, <1>3 DEF ImageTypeOK
<1>5. asking' = [pc |-> "size", num |-> info.num, size |-> asking.size]
  BY <1>2, <1>3
<1>6. ImageTypeOK'
  BY <1>1, <1>3, <1>4 DEF ImageTypeOK
<1>7. Len(state.images) = 0
  BY <1>1, <1>2, ImageFields
<1>8. RequestWritten'
  BY <1>1, <1>2, <1>3, <1>4, <1>5, <1>7, ImageFields DEF Serving, RequestWritten
<1>9. \A k : Due(k)' = Due(k)
  BY <1>4, DueStays
<1>10. GoalInv'
  BY <1>1, <1>2, <1>3, <1>4, <1>9 DEF Serving, GoalInv
<1>11. MadeInv'
  BY <1>3, <1>7 DEF MadeInv
<1>12. Fit(scaler)' = Fit(scaler)
  BY <1>3 DEF Fit
<1>13. ScalerInv'
  BY <1>1, <1>2, <1>3, <1>4, <1>5, <1>12 DEF Serving, ScalerInv
<1> QED BY <1>1, <1>6, <1>8, <1>10, <1>11, <1>13 DEF ImagesInv, Serving

LEMMA AskSizeKeeps == ASSUME ImagesInv, requests <= 1, AskSize PROVE ImagesInv'
<1>1. ImageTypeOK /\ Serving /\ requests' = requests
  BY DEF ImagesInv, AskSize, Unasked, Closed, NobodyAsks
<1>2. asking.pc = "size" /\ scaler = NoSize /\ state.images = <<>>
  BY <1>1 DEF AskSize, Serving, ScalerInv
<1>3. /\ info' = [info EXCEPT !.size = asking.size] /\ asking' = NobodyAsks
      /\ UNCHANGED <<shape, thread, scaler, state, requests, missed>>
  BY DEF AskSize
<1>4. /\ info'.start = info.start /\ info'.end = info.end /\ info'.num = info.num /\ info'.count = info.count
      /\ info'.there = info.there
      /\ info' = [there |-> info'.there, start |-> info'.start, end |-> info'.end, num |-> info'.num,
                  count |-> info'.count, size |-> info'.size]
  BY <1>1, <1>3 DEF ImageTypeOK
<1>5. ImageTypeOK'
  BY <1>1, <1>3, <1>4 DEF ImageTypeOK
<1>6. RequestWritten'
  BY <1>1, <1>2, <1>3, <1>4 DEF Serving, RequestWritten, NobodyAsks
<1>7. \A k : Due(k)' = Due(k)
  BY <1>4, DueStays
<1>8. GoalInv'
  BY <1>1, <1>2, <1>3, <1>4, <1>7 DEF Serving, GoalInv
<1>9. MadeInv' /\ ScalerInv'
  BY <1>2, <1>3 DEF MadeInv, ScalerInv, NobodyAsks
<1> QED BY <1>1, <1>5, <1>6, <1>8, <1>9 DEF ImagesInv, Serving

\* What the thread leaves alone while it decodes.
LEMMA RequestStays ==
    ASSUME RequestWritten, UNCHANGED <<info, asking, requests>>, state'.images = state.images,
           asking.pc = "count" => thread'.pc \in {"decodes", "checks", "aborted"} /\ thread'.converted = 0
    PROVE  RequestWritten'
  BY DEF RequestWritten

LEMMA ScalerStays ==
    ASSUME ScalerInv, UNCHANGED <<info, asking, scaler, shape>>, state'.images = state.images
    PROVE  ScalerInv'
<1>1. Fit(scaler)' = Fit(scaler)
  BY DEF Fit
<1> QED BY <1>1 DEF ScalerInv

LEMMA GetImageFrameKeeps == ASSUME ImagesInv, requests <= 1, GetImageFrame PROVE ImagesInv'
<1>1. ImageTypeOK /\ (Unasked \/ Serving) /\ requests' = requests
  BY DEF ImagesInv, GetImageFrame, Closed, InThread
<1>2. PICK pts \in thread.pts + 1 .. LastPicture : thread' = [thread EXCEPT !.pc = "checks", !.pts = pts]
  BY DEF GetImageFrame
<1>3. pts \in Int /\ pts > thread.pts
  BY <1>1, <1>2, ImageFields, FrameImagesAssumption
<1>4. /\ thread' \in ImageThreads /\ thread'.pc = "checks" /\ thread'.pts = pts
      /\ thread'.dst_pts = thread.dst_pts /\ thread'.converted = thread.converted /\ thread.pc = "decodes"
      /\ UNCHANGED <<shape, info, asking, scaler, state, requests, missed>>
  BY <1>1, <1>2, <1>3 DEF ImageTypeOK, ImageThreads, ImagePlaces, GetImageFrame, InThread
<1>5. ImageTypeOK'
  BY <1>1, <1>4 DEF ImageTypeOK
<1>6. CASE Unasked
  <2>1. Unasked'
    BY <1>4, <1>6 DEF Unasked
  <2> QED BY <2>1, <1>1, <1>5 DEF ImagesInv
<1>7. CASE Serving
  <2>1. RequestWritten' /\ ScalerInv'
    BY <1>4, <1>7, RequestStays, ScalerStays DEF Serving, RequestWritten
  <2>2. \A k : Due(k)' = Due(k)
    BY <1>4, DueStays
  <2>3. GoalInv'
    BY <1>4, <1>7, <2>2 DEF Serving, GoalInv
  <2>4. MadeInv'
    <3>1. \A i \in 1 .. Len(state.images) : state.images[i].pts <= thread.pts
      BY <1>7 DEF Serving, MadeInv
    <3>2. \A i \in 1 .. Len(state.images) : state.images[i].pts \in Int /\ thread.pts \in Int
      BY <1>1, ImageFields
    <3>3. \A i \in 1 .. Len(state.images) : state.images[i].pts < pts /\ state.images[i].pts <= pts
      BY <1>3, <3>1, <3>2
    <3> QED BY <1>4, <1>7, <2>2, <3>3 DEF Serving, MadeInv
  <2> QED BY <2>1, <2>3, <2>4, <1>1, <1>5 DEF ImagesInv, Serving
<1> QED BY <1>1, <1>6, <1>7

LEMMA CheckFrameKeeps == ASSUME ImagesInv, requests <= 1, CheckFrame PROVE ImagesInv'
<1>1. ImageTypeOK /\ (Unasked \/ Serving) /\ requests' = requests
  BY DEF ImagesInv, CheckFrame, Closed, InThread
<1>2. thread.pc = "checks" /\ UNCHANGED <<shape, info, asking, scaler, state, requests>>
  BY DEF CheckFrame, InThread
<1> DEFINE first == thread.dst_pts < 0
           next  == IF first THEN info.start
                    ELSE thread.dst_pts + (info.end - info.start) \div (info.num - 1)
           late  == /\ thread'.pc = "decodes" /\ info.count > 0
                    /\ thread.pts >= Due(thread.converted + 1)
<1>3. /\ thread' = IF info.count <= 0 THEN [thread EXCEPT !.pc = "decodes"]
                   ELSE IF ~ first /\ info.num = 1 THEN [thread EXCEPT !.pc = "crashed"]
                   ELSE IF thread.pts >= next
                   THEN [thread EXCEPT !.pc = "converts", !.last_dst_pts = thread.dst_pts, !.dst_pts = next]
                   ELSE [thread EXCEPT !.pc = "decodes", !.last_dst_pts = thread.dst_pts]
      /\ missed' = (missed \/ late)
  BY DEF CheckFrame
<1>4. \A k : Due(k)' = Due(k)
  BY <1>2, DueStays
<1>5. CASE info.count <= 0
  <2>1. thread' = [thread EXCEPT !.pc = "decodes"]
    BY <1>3, <1>5
  <2>2. /\ thread' \in ImageThreads /\ thread'.pc = "decodes" /\ thread'.pts = thread.pts
        /\ thread'.dst_pts = thread.dst_pts /\ thread'.converted = thread.converted
    BY <1>1, <2>1 DEF ImageTypeOK, ImageThreads, ImagePlaces
  <2>3. ~ missed => ~ missed'
    <3>1. ~ late
      BY <1>1, <1>5, ImageFields
    <3> HIDE DEF late, next, first
    <3> QED BY <1>3, <3>1, Zenon
  <2>4. ImageTypeOK'
    BY <1>1, <1>2, <2>2 DEF ImageTypeOK
  <2>5. CASE Unasked
    <3>1. Unasked'
      BY <1>2, <2>2, <2>3, <2>5 DEF Unasked
    <3> QED BY <3>1, <1>1, <2>4 DEF ImagesInv
  <2>6. CASE Serving
    <3>1. RequestWritten' /\ ScalerInv'
      BY <1>2, <2>2, <2>6, RequestStays, ScalerStays DEF Serving, RequestWritten
    <3>2. GoalInv'
      BY <1>2, <1>4, <2>2, <2>3, <2>6 DEF Serving, GoalInv
    <3>3. MadeInv'
      <4>1. \A i \in 1 .. Len(state.images) : state.images[i].pts <= thread.pts
        BY <2>6 DEF Serving, MadeInv
      <4> QED BY <1>2, <1>4, <2>2, <2>6, <4>1 DEF Serving, MadeInv
    <3> QED BY <3>1, <3>2, <3>3, <1>1, <2>4 DEF ImagesInv, Serving
  <2> QED BY <1>1, <2>5, <2>6
<1>6. CASE info.count > 0
  <2>0. Serving /\ asking.pc # "count"
    BY <1>1, <1>6 DEF Unasked, Serving, RequestWritten
  <2>1. /\ info.start \in Nat /\ info.end \in Int /\ info.num \in Int /\ info.end >= info.start /\ info.num > 0
        /\ thread.dst_pts \in Int /\ thread.converted \in Nat /\ thread.pts \in Int /\ info.count \in Int
        /\ ~ (info.count <= 0)
    BY <1>1, <1>6, <2>0, ImageFields DEF Serving, RequestWritten
  <2>2. first <=> thread.converted = 0
    <3>1. CASE thread.converted = 0
      BY <1>2, <2>0, <3>1 DEF Serving, GoalInv
    <3>2. CASE thread.converted # 0
      <4>1. thread.dst_pts = Due(thread.converted)
        BY <1>2, <2>0, <3>2 DEF Serving, GoalInv
      <4>2. Due(thread.converted) \in Nat
        <5>1. CASE info.num = 1 /\ thread.converted = 1
          BY <2>1, <5>1 DEF Due
        <5>2. CASE info.num > 1
          BY <2>1, <3>2, <5>2, DueGrows
        <5>3. info.num = 1 => thread.converted <= 1
          BY <2>0 DEF Serving, GoalInv
        <5>4. info.num = 1 \/ info.num > 1
          BY <2>1
        <5> QED BY <2>1, <3>2, <5>1, <5>2, <5>3, <5>4
      <4> QED BY <4>1, <4>2, <3>2, <2>1
    <3> QED BY <3>1, <3>2
  <2>3. first \/ info.num > 1 => next = Due(thread.converted + 1) /\ next \in Int
    <3>1. CASE first
      BY <2>1, <2>2, <3>1 DEF Due
    <3>2. CASE ~ first /\ info.num > 1
      <4>1. thread.converted \in Nat \ {0} /\ thread.dst_pts = Due(thread.converted)
        BY <1>2, <2>0, <2>1, <2>2, <3>2 DEF Serving, GoalInv
      <4>2. /\ Due(thread.converted) \in Nat
            /\ Due(thread.converted) + (info.end - info.start) \div (info.num - 1) = Due(thread.converted + 1)
        BY <2>1, <3>2, <4>1, DueGrows
      <4>3. (info.end - info.start) \div (info.num - 1) \in Int
        BY <2>1, <3>2
      <4> QED BY <3>2, <4>1, <4>2, <4>3
    <3> QED BY <3>1, <3>2
  <2> HIDE DEF next, first
  <2>4. CASE ~ first /\ info.num = 1
    <3>1. thread' = [thread EXCEPT !.pc = "crashed"]
      BY <1>3, <2>1, <2>4
    <3>2. /\ thread' \in ImageThreads /\ thread'.pc = "crashed" /\ thread'.pts = thread.pts
          /\ thread'.converted = thread.converted
      BY <1>1, <3>1 DEF ImageTypeOK, ImageThreads, ImagePlaces
    <3>3. ~ missed => ~ missed'
      <4>1. ~ late
        BY <3>2
      <4> HIDE DEF late
      <4> QED BY <1>3, <4>1, Zenon
    <3>4. ImageTypeOK'
      BY <1>1, <1>2, <3>2 DEF ImageTypeOK
    <3>5. RequestWritten' /\ ScalerInv'
      BY <1>2, <2>0, RequestStays, ScalerStays DEF Serving
    <3>6. GoalInv'
      BY <1>2, <2>0, <3>2, <3>3 DEF Serving, GoalInv
    <3>7. MadeInv'
      BY <1>2, <1>4, <2>0, <3>2 DEF Serving, MadeInv
    <3> QED BY <3>4, <3>5, <3>6, <3>7, <1>1 DEF ImagesInv, Serving
  <2>5. CASE (first \/ info.num > 1) /\ thread.pts >= next
    <3>1. thread' = [thread EXCEPT !.pc = "converts", !.last_dst_pts = thread.dst_pts, !.dst_pts = next]
      BY <1>3, <2>1, <2>5
    <3>2. /\ thread' \in ImageThreads /\ thread'.pc = "converts" /\ thread'.pts = thread.pts
          /\ thread'.converted = thread.converted /\ thread'.dst_pts = next
      BY <1>1, <2>3, <2>5, <3>1 DEF ImageTypeOK, ImageThreads, ImagePlaces
    <3>3. ~ missed => ~ missed'
      <4>1. ~ late
        BY <3>2
      <4> HIDE DEF late
      <4> QED BY <1>3, <4>1, Zenon
    <3>4. ImageTypeOK'
      BY <1>1, <1>2, <3>2 DEF ImageTypeOK
    <3>5. RequestWritten' /\ ScalerInv'
      BY <1>2, <2>0, RequestStays, ScalerStays DEF Serving
    <3>6. GoalInv'
      BY <1>2, <1>4, <2>0, <2>1, <2>2, <2>3, <2>5, <3>2, <3>3 DEF Serving, GoalInv
    <3>7. MadeInv'
      BY <1>2, <1>4, <2>0, <3>2 DEF Serving, MadeInv
    <3> QED BY <3>4, <3>5, <3>6, <3>7, <1>1 DEF ImagesInv, Serving
  <2>6. CASE (first \/ info.num > 1) /\ ~ (thread.pts >= next)
    <3>1. thread' = [thread EXCEPT !.pc = "decodes", !.last_dst_pts = thread.dst_pts]
      BY <1>3, <2>1, <2>6
    <3>2. /\ thread' \in ImageThreads /\ thread'.pc = "decodes" /\ thread'.pts = thread.pts
          /\ thread'.converted = thread.converted /\ thread'.dst_pts = thread.dst_pts
      BY <1>1, <3>1 DEF ImageTypeOK, ImageThreads, ImagePlaces
    <3>3. ~ missed => ~ missed'
      <4>1. ~ late
        BY <2>1, <2>3, <2>6
      <4> HIDE DEF late
      <4> QED BY <1>3, <4>1, Zenon
    <3>4. ImageTypeOK'
      BY <1>1, <1>2, <3>2 DEF ImageTypeOK
    <3>5. RequestWritten' /\ ScalerInv'
      BY <1>2, <2>0, RequestStays, ScalerStays DEF Serving
    <3>6. GoalInv'
      BY <1>2, <1>4, <2>0, <3>2, <3>3 DEF Serving, GoalInv
    <3>7. MadeInv'
      BY <1>2, <1>4, <2>0, <3>2 DEF Serving, MadeInv
    <3> QED BY <3>4, <3>5, <3>6, <3>7, <1>1 DEF ImagesInv, Serving
  <2> QED BY <2>1, <2>4, <2>5, <2>6
<1> QED BY <1>1, <1>5, <1>6, ImageFields

\* A picture is appended to the images.
LEMMA AppendImage ==
    ASSUME NEW s, s \in Seq({s[i] : i \in 1 .. Len(s)}), NEW x
    PROVE  /\ Len(Append(s, x)) = Len(s) + 1 /\ Append(s, x)[Len(s) + 1] = x
           /\ \A i \in 1 .. Len(s) : Append(s, x)[i] = s[i]
           /\ Append(s, x) \in Seq({Append(s, x)[i] : i \in 1 .. Len(Append(s, x))})
<1> DEFINE S == {s[i] : i \in 1 .. Len(s)} \cup {x}
           t == Append(s, x)
<1>1. s \in Seq(S) /\ Len(s) \in Nat
  OBVIOUS
<1> HIDE DEF S
<1>2. x \in S
  BY DEF S
<1>3. t \in Seq(S) /\ Len(t) = Len(s) + 1 /\ t[Len(s) + 1] = x /\ \A i \in 1 .. Len(s) : t[i] = s[i]
  BY <1>1, <1>2
<1> HIDE DEF t
<1>4. t \in Seq({t[i] : i \in 1 .. Len(t)})
  <2>1. t \in [1 .. Len(t) -> S] /\ Len(t) \in Nat
    BY <1>3
  <2>2. t \in [1 .. Len(t) -> {t[i] : i \in 1 .. Len(t)}]
    BY <2>1
  <2> QED BY <2>1, <2>2
<1> QED BY <1>3, <1>4 DEF t

\* What a conversion makes of the thread's locals.
ThreadIs(pc, ret, converted) ==
    /\ thread' \in ImageThreads /\ thread'.pts = thread.pts /\ thread'.dst_pts = thread.dst_pts
    /\ thread'.pc = pc /\ thread'.ret = ret /\ thread'.converted = converted

LEMMA ThreadTakes ==
    ASSUME NEW t \in ImageThreads, NEW p \in ImagePlaces, NEW r \in Int, NEW n \in Int, NEW c \in Nat
    PROVE  /\ [t EXCEPT !.pc = p, !.ret = r, !.converted = c] \in ImageThreads
           /\ [t EXCEPT !.ret = r, !.tries = n, !.pc = p] \in ImageThreads
           /\ [t EXCEPT !.tries = n, !.pc = p] \in ImageThreads
<1>1. \A u \in ImageThreads : /\ [u EXCEPT !.pc = p] \in ImageThreads /\ [u EXCEPT !.ret = r] \in ImageThreads
                              /\ [u EXCEPT !.tries = n] \in ImageThreads
                              /\ [u EXCEPT !.converted = c] \in ImageThreads
  BY DEF ImageThreads
<1> DEFINE t1 == [t EXCEPT !.pc = p]
           t2 == [t1 EXCEPT !.ret = r]
           t3 == [t2 EXCEPT !.converted = c]
           t4 == [t EXCEPT !.ret = r]
           t5 == [t4 EXCEPT !.tries = n]
           t6 == [t EXCEPT !.tries = n]
<1>2. t1 \in ImageThreads /\ t4 \in ImageThreads /\ t6 \in ImageThreads
  BY <1>1
<1>3. t2 \in ImageThreads /\ t5 \in ImageThreads /\ [t6 EXCEPT !.pc = p] \in ImageThreads
  <2> HIDE DEF t1, t4, t6
  <2> QED BY <1>1, <1>2
<1>4. t3 \in ImageThreads /\ [t5 EXCEPT !.pc = p] \in ImageThreads
  <2> HIDE DEF t2, t5
  <2> QED BY <1>1, <1>3
<1> QED BY <1>3, <1>4

LEMMA DoneIs ==
    ASSUME ImageTypeOK, Done(0)
    PROVE  ThreadIs("judges", 0, thread.converted + 1)
<1> DEFINE c == thread.converted + 1
<1>1. thread' = [thread EXCEPT !.pc = "judges", !.ret = 0, !.converted = c]
  BY DEF Done
<1>2. thread \in ImageThreads /\ c \in Nat /\ "judges" \in ImagePlaces /\ 0 \in Int
  BY DEF ImageTypeOK, ImageThreads, ImagePlaces
<1> HIDE DEF c
<1>3. thread'.pts = thread.pts /\ thread'.dst_pts = thread.dst_pts
      /\ thread'.pc = "judges" /\ thread'.ret = 0 /\ thread'.converted = c
  BY <1>1, <1>2 DEF ImageThreads
<1>4. thread' \in ImageThreads
  BY <1>1, <1>2, ThreadTakes
<1> QED BY <1>3, <1>4 DEF ThreadIs, c

LEMMA FailsOnceIs ==
    ASSUME ImageTypeOK, FailsOnce
    PROVE  ThreadIs("judges", -1, thread.converted) \/ ThreadIs(thread.pc, -1, thread.converted)
<1> DEFINE t == thread.tries + 1
           p == IF t < MaxTries THEN thread.pc ELSE "judges"
<1>1. thread' = [thread EXCEPT !.ret = -1, !.tries = t, !.pc = p]
  BY DEF FailsOnce
<1>2. thread \in ImageThreads /\ t \in Int /\ p \in {"judges", thread.pc} /\ p \in ImagePlaces /\ -1 \in Int
  BY DEF ImageTypeOK, ImageThreads, ImagePlaces
<1> HIDE DEF t, p
<1>3. thread'.pts = thread.pts /\ thread'.dst_pts = thread.dst_pts
      /\ thread'.pc = p /\ thread'.ret = -1 /\ thread'.converted = thread.converted
  BY <1>1, <1>2 DEF ImageThreads
<1>4. thread' \in ImageThreads
  BY <1>1, <1>2, ThreadTakes
<1> QED BY <1>2, <1>3, <1>4 DEF ThreadIs

LEMMA JudgedIs ==
    ASSUME ImageTypeOK, JudgeImage
    PROVE  ThreadIs(IF thread.ret # 0 \/ info.count <= 0 THEN "ended" ELSE "decodes", thread.ret, thread.converted)
<1> DEFINE p == IF thread.ret # 0 \/ info.count <= 0 THEN "ended" ELSE "decodes"
<1>1. thread' = [thread EXCEPT !.tries = 0, !.pc = p]
  BY DEF JudgeImage
<1>2. thread \in ImageThreads /\ p \in ImagePlaces /\ 0 \in Int
  BY DEF ImageTypeOK, ImagePlaces
<1> HIDE DEF p
<1>3. thread'.pts = thread.pts /\ thread'.dst_pts = thread.dst_pts
      /\ thread'.pc = p /\ thread'.ret = thread.ret /\ thread'.converted = thread.converted
  BY <1>1, <1>2 DEF ImageThreads
<1>4. thread' \in ImageThreads
  BY <1>1, <1>2, ThreadTakes
<1> QED BY <1>3, <1>4 DEF ThreadIs, p

\* A conversion that does not end the thread's attempt, or makes no image.
LEMMA NoImageKeeps ==
    ASSUME ImageTypeOK, Serving, thread.pc = "converts", UNCHANGED <<asking, requests, missed, shape, state>>,
           NEW size, info' = [info EXCEPT !.size = size], Done(0) \/ FailsOnce,
           asking = NobodyAsks \/ size = info.size, ScalerInv'
    PROVE  ImageTypeOK' /\ Serving'
<1>1. /\ info'.start = info.start /\ info'.end = info.end /\ info'.num = info.num /\ info'.count = info.count
      /\ info'.there = info.there /\ info'.size = size
      /\ info' = [there |-> info'.there, start |-> info'.start, end |-> info'.end, num |-> info'.num,
                  count |-> info'.count, size |-> info'.size]
  BY DEF ImageTypeOK
<1>2. \A k : Due(k)' = Due(k)
  BY <1>1, DueStays
<1>3. /\ thread' \in ImageThreads /\ thread'.pts = thread.pts /\ thread'.dst_pts = thread.dst_pts
      /\ \/ thread'.pc = "judges" /\ thread'.ret = 0 /\ thread'.converted = thread.converted + 1
         \/ thread'.pc = "judges" /\ thread'.ret # 0 /\ thread'.converted = thread.converted
         \/ thread'.pc = "converts" /\ thread'.converted = thread.converted
  BY DoneIs, FailsOnceIs DEF ThreadIs
<1>4. ImageTypeOK'
  BY <1>1, <1>3 DEF ImageTypeOK
<1>5. RequestWritten'
  BY <1>1 DEF Serving, RequestWritten, NobodyAsks
<1>6. thread.converted \in Nat /\ Len(state.images) \in Nat
  BY ImageFields
<1>7. GoalInv'
  BY <1>1, <1>2, <1>3, <1>6 DEF Serving, GoalInv
<1>8. MadeInv'
  <2>1. \A i \in 1 .. Len(state.images) : state.images[i].pts < thread.pts
    BY DEF Serving, MadeInv
  <2> QED BY <1>1, <1>2, <1>3, <2>1 DEF Serving, MadeInv
<1> QED BY <1>4, <1>5, <1>7, <1>8 DEF Serving

LEMMA ImageKeeps ==
    ASSUME ImageTypeOK, Serving, thread.pc = "converts", UNCHANGED <<asking, requests, missed, shape>>, Image,
           asking = NobodyAsks,
           info'.size = scaler' \/ ~ (scaler' # NoSize /\ Fit(scaler') = scaler'),
           scaler' # NoSize /\ Fit(scaler') = scaler' =>
              \A i \in 1 .. Len(state.images) : state.images[i].size = scaler',
           scaler' = NoSize => info'.size = NoSize
    PROVE  ImageTypeOK' /\ Serving'
<1>0. /\ info' = [info EXCEPT !.size = Fit(info.size), !.count = info.count - 1] /\ Done(0)
      /\ state' = [state EXCEPT !.images = Append(state.images, [pts |-> thread.pts, size |-> info'.size,
                                                                 last |-> info'.count <= 0])]
  BY DEF Image
<1>1. /\ info'.start = info.start /\ info'.end = info.end /\ info'.num = info.num
      /\ info'.count = info.count - 1 /\ info'.there = info.there
      /\ info' = [there |-> info'.there, start |-> info'.start, end |-> info'.end, num |-> info'.num,
                  count |-> info'.count, size |-> info'.size]
  BY <1>0 DEF ImageTypeOK
<1>2. \A k : Due(k)' = Due(k)
  BY <1>1, DueStays
<1>3. /\ thread' \in ImageThreads /\ thread'.pts = thread.pts /\ thread'.dst_pts = thread.dst_pts
      /\ thread'.pc = "judges" /\ thread'.ret = 0 /\ thread'.converted = thread.converted + 1
  BY <1>0, DoneIs DEF ThreadIs
<1> DEFINE n     == Len(state.images)
           image == [pts |-> thread.pts, size |-> info'.size, last |-> info'.count <= 0]
<1>4. /\ state' = [images |-> state'.images, failures |-> state'.failures]
      /\ state'.failures = state.failures /\ state'.images = Append(state.images, image)
  BY <1>0 DEF ImageTypeOK
<1>5. state.images \in Seq({state.images[i] : i \in 1 .. Len(state.images)})
  BY DEF ImageTypeOK
<1>6. /\ Len(state'.images) = n + 1 /\ state'.images[n + 1] = image
      /\ \A i \in 1 .. n : state'.images[i] = state.images[i]
      /\ state'.images \in Seq({state'.images[i] : i \in 1 .. Len(state'.images)})
  <2> HIDE DEF image
  <2>1. \A t : t = Append(state.images, image) =>
          /\ Len(t) = Len(state.images) + 1 /\ t[Len(state.images) + 1] = image
          /\ \A i \in 1 .. Len(state.images) : t[i] = state.images[i]
          /\ t \in Seq({t[i] : i \in 1 .. Len(t)})
    BY <1>5, AppendImage
  <2> QED BY <1>4, <2>1
<1>7. /\ image.pts = thread.pts /\ image.size = info'.size /\ (image.last <=> info'.count <= 0)
  OBVIOUS
<1>8. /\ n \in Nat /\ thread.pts \in Int /\ info.count \in Int /\ thread.converted \in Nat /\ info.num \in Int
      /\ \A i \in 1 .. n : state.images[i].pts \in Int
  BY ImageFields
<1> HIDE DEF n, image
<1>9. /\ n + info.count = info.num /\ info.count > 0 /\ n <= thread.converted
      /\ thread.pts >= Due(thread.converted + 1)
  BY DEF Serving, RequestWritten, GoalInv, NobodyAsks, n
<1>10. \A i \in 1 .. n + 1 : i \in 1 .. n \/ i = n + 1
  BY <1>8
<1>11. ImageTypeOK'
  <2>1. \A i \in 1 .. Len(state'.images) : state'.images[i].pts \in Int
    BY <1>6, <1>7, <1>8, <1>10
  <2>2. {info.start, info.end, info.num, info.count - 1} \subseteq Int /\ info.there \in BOOLEAN
        /\ state.failures \in Nat
    BY ImageFields
  <2> QED BY <1>1, <1>3, <1>4, <1>6, <2>1, <2>2 DEF ImageTypeOK
<1>12. RequestWritten'
  <2>1. n + 1 + (info.count - 1) = info.num /\ info.count - 1 >= 0
    BY <1>8, <1>9
  <2>2. asking' = NobodyAsks /\ NobodyAsks.pc = "none"
    BY DEF NobodyAsks
  <2>3. requests = 1 /\ info.there /\ info.num > 0 /\ info.start >= 0 /\ info.end >= info.start
    BY DEF Serving, RequestWritten
  <2> QED BY <1>1, <1>6, <2>1, <2>2, <2>3 DEF RequestWritten
<1>13. GoalInv'
  <2>1. state.failures = 0 /\ ~ missed /\ (info.num = 1 => thread.converted = 0)
        /\ thread.dst_pts = Due(thread.converted + 1)
    BY DEF Serving, GoalInv
  <2> QED BY <1>1, <1>2, <1>3, <1>4, <1>6, <1>8, <1>9, <2>1 DEF GoalInv
<1>14. Due(n + 1) <= thread.pts
  <2>1. CASE info.num = 1
    <3>1. thread.converted = 0 /\ n = 0
      BY <1>8, <1>9, <2>1 DEF Serving, GoalInv
    <3> QED BY <1>8, <1>9, <3>1, ImageFields DEF Due
  <2>2. CASE info.num > 1
    <3>1. info.start \in Nat /\ info.end \in Int /\ info.end >= info.start
      BY ImageFields DEF Serving, RequestWritten
    <3>2. Due(n + 1) <= Due(thread.converted + 1) /\ Due(n + 1) \in Nat /\ Due(thread.converted + 1) \in Nat
      <4> DEFINE j == n + 1
                 k == thread.converted + 1
      <4>1. j \in Nat \ {0} /\ k \in Nat \ {0} /\ j <= k /\ k <= k
        BY <1>8, <1>9
      <4> HIDE DEF j, k
      <4>2. Due(j) <= Due(k) /\ Due(j) \in Nat /\ Due(k) \in Nat
        BY <1>8, <2>2, <3>1, <4>1, DueGrows
      <4> QED BY <4>2 DEF j, k
    <3> QED BY <1>8, <1>9, <3>2
  <2> QED BY <1>8, <2>1, <2>2 DEF Serving, RequestWritten
<1>15. \A i \in 1 .. n : /\ state.images[i].pts >= Due(i) /\ (state.images[i].last <=> i = info.num)
                         /\ state.images[i].pts < thread.pts
                         /\ i > 1 => state.images[i - 1].pts < state.images[i].pts
  BY DEF Serving, MadeInv, n
<1>16. MadeInv'
  <2>1. \A i \in 1 .. n + 1 :
           /\ state'.images[i].pts >= Due(i) /\ (state'.images[i].last <=> i = info.num)
           /\ state'.images[i].pts <= thread.pts
    <3>1. image.last <=> n + 1 = info.num
      BY <1>1, <1>7, <1>8, <1>9
    <3>2. image.pts >= Due(n + 1) /\ image.pts <= thread.pts
      BY <1>7, <1>8, <1>14
    <3>3. \A i \in 1 .. n : state.images[i].pts <= thread.pts
      BY <1>8, <1>15
    <3> QED BY <1>6, <1>10, <1>15, <3>1, <3>2, <3>3
  <2>2. \A i \in 1 .. n + 1 : i > 1 => state'.images[i - 1].pts < state'.images[i].pts
    <3> SUFFICES ASSUME NEW i \in 1 .. n + 1, i > 1 PROVE state'.images[i - 1].pts < state'.images[i].pts
      OBVIOUS
    <3>1. i - 1 \in 1 .. n /\ state'.images[i - 1] = state.images[i - 1]
      BY <1>6, <1>8
    <3>2. CASE i \in 1 .. n
      BY <1>6, <1>15, <3>1, <3>2
    <3>3. CASE i = n + 1
      BY <1>6, <1>7, <1>15, <3>1, <3>3
    <3> QED BY <1>10, <3>2, <3>3
  <2> QED BY <1>1, <1>2, <1>3, <1>6, <2>1, <2>2 DEF MadeInv
<1>17. ScalerInv'
  <2>1. \A s : Fit(s)' = Fit(s)
    BY DEF Fit
  <2>2. asking'.pc = "none"
    BY DEF NobodyAsks
  <2>3. scaler' # NoSize /\ Fit(scaler') = scaler' =>
          /\ info'.size = scaler'
          /\ \A i \in 1 .. n + 1 : state'.images[i].size = scaler'
    BY <1>6, <1>7, <1>10 DEF n
  <2> QED BY <1>6, <2>1, <2>2, <2>3 DEF ScalerInv
<1> QED BY <1>11, <1>12, <1>13, <1>16, <1>17 DEF Serving

LEMMA ConvertKeeps == ASSUME ImagesInv, requests <= 1, Convert PROVE ImagesInv'
<1>1. ImageTypeOK /\ Serving /\ requests' = requests /\ thread.pc = "converts"
      /\ UNCHANGED <<shape, asking, requests, missed>>
  BY DEF ImagesInv, Convert, InThread, Closed, Unasked
<1>3. CASE info.size = NoSize
  <2>1. FailsOnce /\ UNCHANGED <<info, scaler, state>>
    BY <1>3 DEF Convert
  <2>2. ScalerInv'
    BY <1>1, <2>1, ScalerStays DEF Serving
  <2>3. info' = [info EXCEPT !.size = info.size]
    BY <1>1, <2>1 DEF ImageTypeOK
  <2> QED BY <1>1, <2>1, <2>2, <2>3, NoImageKeeps DEF ImagesInv
<1>4. CASE info.size # NoSize
  <2>1. scaler' = IF scaler = NoSize THEN Fit(info.size) ELSE scaler
    BY <1>4 DEF Convert
  <2>2. asking = NobodyAsks
    BY <1>1, <1>4 DEF Serving, RequestWritten
  <2>3. /\ scaler # NoSize /\ Fit(scaler) = scaler =>
              info.size = scaler /\ \A i \in 1 .. Len(state.images) : state.images[i].size = scaler
        /\ scaler = NoSize => state.images = <<>>
    BY <1>1, <1>4 DEF Serving, ScalerInv
  <2>4. scaler' # NoSize /\ Fit(scaler') = scaler' =>
          Fit(info.size) = scaler' /\ \A i \in 1 .. Len(state.images) : state.images[i].size = scaler'
    BY <2>1, <2>3
  <2>5. scaler' = NoSize => Fit(info.size) = NoSize /\ state.images = <<>>
    BY <2>1, <2>3
  <2>6. CASE Image
    <3>1. info'.size = Fit(info.size)
      BY <1>1, <2>6 DEF Image, ImageTypeOK
    <3> QED BY <1>1, <2>2, <2>4, <2>5, <2>6, <3>1, ImageKeeps DEF ImagesInv
  <2>7. CASE (Done(0) \/ FailsOnce) /\ info' = [info EXCEPT !.size = Fit(info.size)] /\ UNCHANGED state
    <3>1. info'.size = Fit(info.size)
      BY <1>1, <2>7 DEF ImageTypeOK
    <3>2. ScalerInv'
      <4>1. \A s : Fit(s)' = Fit(s)
        BY <1>1 DEF Fit
      <4> QED BY <1>1, <2>2, <2>4, <2>5, <2>7, <3>1, <4>1 DEF ScalerInv, NobodyAsks
    <3>3. state' = state
      BY <2>7
    <3> QED BY <1>1, <2>2, <2>7, <3>2, <3>3, NoImageKeeps DEF ImagesInv
  <2> QED BY <1>4, <2>6, <2>7 DEF Convert
<1> QED BY <1>3, <1>4

LEMMA JudgeImageKeeps == ASSUME ImagesInv, requests <= 1, JudgeImage PROVE ImagesInv'
<1>1. ImageTypeOK /\ Serving /\ requests' = requests /\ thread.pc = "judges"
      /\ UNCHANGED <<shape, info, asking, scaler, requests, missed>>
  BY DEF ImagesInv, JudgeImage, InThread, Closed, Unasked
<1>2. /\ thread' \in ImageThreads /\ thread'.pts = thread.pts /\ thread'.dst_pts = thread.dst_pts
      /\ thread'.converted = thread.converted
      /\ thread'.pc = IF thread.ret # 0 \/ info.count <= 0 THEN "ended" ELSE "decodes"
  BY <1>1, JudgedIs DEF ThreadIs
<1>3. /\ state'.images = state.images /\ state'.failures = IF thread.ret # 0 THEN state.failures + 1 ELSE state.failures
      /\ state' = [images |-> state'.images, failures |-> state'.failures]
  BY <1>1 DEF JudgeImage, Fails, ImageTypeOK
<1>4. ImageTypeOK'
  BY <1>1, <1>2, <1>3, ImageFields DEF ImageTypeOK
<1>5. \A k : Due(k)' = Due(k)
  BY <1>1, DueStays
<1>6. asking.pc # "count" /\ Len(state.images) + info.count = info.num /\ info.count >= 0
  BY <1>1 DEF Serving, RequestWritten
<1>7. RequestWritten' /\ ScalerInv'
  BY <1>1, <1>3, <1>6, RequestStays, ScalerStays DEF Serving
<1>8. GoalInv'
  <2>1. Len(state.images) \in Nat /\ info.count \in Int /\ info.num \in Int /\ thread.ret \in Int
    BY <1>1, ImageFields
  <2> QED BY <1>1, <1>2, <1>3, <1>5, <1>6, <2>1 DEF Serving, GoalInv
<1>9. MadeInv'
  BY <1>1, <1>2, <1>3, <1>5 DEF Serving, MadeInv
<1> QED BY <1>1, <1>4, <1>7, <1>8, <1>9 DEF ImagesInv, Serving

LEMMA AbortedKeeps == ASSUME ImagesInv, requests <= 1, Aborted PROVE ImagesInv'
<1>1. ImageTypeOK /\ (Unasked \/ Serving) /\ thread.pc = "decodes"
      /\ UNCHANGED <<shape, info, asking, scaler, state, requests, missed>>
  BY DEF ImagesInv, Aborted, InThread, Closed
<1>2. /\ thread' \in ImageThreads /\ thread'.pts = thread.pts /\ thread'.dst_pts = thread.dst_pts
      /\ thread'.converted = thread.converted /\ thread'.pc = "aborted"
  BY <1>1 DEF Aborted, ImageTypeOK, ImageThreads, ImagePlaces
<1>3. ImageTypeOK'
  BY <1>1, <1>2 DEF ImageTypeOK
<1>4. CASE Unasked
  <2>1. Unasked'
    BY <1>1, <1>2, <1>4 DEF Unasked
  <2> QED BY <2>1, <1>1, <1>3 DEF ImagesInv
<1>5. CASE Serving
  <2>1. RequestWritten' /\ ScalerInv'
    BY <1>1, <1>2, <1>5, RequestStays, ScalerStays DEF Serving, RequestWritten
  <2>2. \A k : Due(k)' = Due(k)
    BY <1>1, DueStays
  <2>3. GoalInv' /\ MadeInv'
    BY <1>1, <1>2, <1>5, <2>2 DEF Serving, GoalInv, MadeInv
  <2> QED BY <2>1, <2>3, <1>1, <1>3 DEF ImagesInv, Serving
<1> QED BY <1>1, <1>4, <1>5

LEMMA StreamCloseKeeps == ASSUME ImagesInv, requests <= 1, StreamClose PROVE ImagesInv'
<1>1. ImageTypeOK /\ requests = 1 /\ asking.pc = "none" /\ info.there
  BY DEF ImagesInv, StreamClose, Unasked, Closed, Serving, RequestWritten
<1>2. asking = NobodyAsks
  BY <1>1 DEF ImagesInv, Unasked, Closed, Serving, RequestWritten
<1>3. /\ thread' \in ImageThreads /\ thread'.pc = "closed" /\ info' = NoInfo
      /\ UNCHANGED <<asking, state, requests>>
  BY <1>1 DEF StreamClose, ImageTypeOK, ImageThreads, ImagePlaces
<1>4. ImageTypeOK' /\ Closed'
  BY <1>1, <1>2, <1>3 DEF ImageTypeOK, Closed, NoInfo
<1> QED BY <1>1, <1>3, <1>4 DEF ImagesInv

LEMMA ImagesStep == ImagesInv /\ [ImagesNext]_imageVars => ImagesInv'
<1> SUFFICES ASSUME ImagesInv, [ImagesNext]_imageVars PROVE ImagesInv'
  OBVIOUS
<1>1. CASE requests <= 1
  <2>1. CASE UNCHANGED imageVars
    BY <2>1 DEF imageVars, ImagesInv, ImageTypeOK, Unasked, Closed, Serving, RequestWritten, GoalInv, MadeInv,
       ScalerInv, Due, Fit
  <2>2. CASE ImagesNext
    BY <1>1, <2>2, GetImageFrameKeeps, CheckFrameKeeps, ConvertKeeps, JudgeImageKeeps, AbortedKeeps,
       AskKeeps, AskCountKeeps, AskSizeKeeps, StreamCloseKeeps DEF ImagesNext, VideoThread
  <2> QED BY <2>1, <2>2
<1>2. CASE ~ (requests <= 1)
  <2>1. requests \in Nat
    BY DEF ImagesInv
  <2>2. requests' = requests \/ requests' = requests + 1
    BY DEF ImagesNext, VideoThread, imageVars, GetImageFrame, CheckFrame, Convert, JudgeImage, Aborted, Ask,
       AskCount, AskSize, StreamClose
  <2> QED BY <1>2, <2>1, <2>2 DEF ImagesInv
<1> QED BY <1>1, <1>2

THEOREM ImagesInvHolds == ImagesSpec => []ImagesInv
<1>1. ImagesInv /\ [ImagesNext]_imageVars => ImagesInv'
  BY ImagesStep
<1> QED BY <1>1, ImagesStart, PTL DEF ImagesSpec

\* Of a request that is alone the images are those that were asked for.
THEOREM ImagesAsAskedHolds == ImagesSpec => []ImagesAsAsked
<1>1. ImagesInv => ImagesAsAsked
  <2> SUFFICES ASSUME ImagesInv, requests = 1, info.num > 0, info.there PROVE ImagesAsAsked
    BY DEF ImagesAsAsked
  <2>1. ImageTypeOK /\ Serving
    BY DEF ImagesInv, Unasked, Closed
  <2>2. /\ Len(state.images) \in Nat /\ info.count \in Int /\ info.num \in Int
    BY <2>1, ImageFields
  <2>3. Len(state.images) <= info.num /\ ~ missed
    BY <2>1, <2>2 DEF Serving, RequestWritten, GoalInv
  <2>4. asking.pc # "count" => Len(state.images) + info.count = info.num
    BY <2>1 DEF Serving, RequestWritten
  <2>5. \A i \in 1 .. Len(state.images) :
           /\ state.images[i].pts >= Due(i) /\ (state.images[i].last <=> i = info.num)
           /\ i > 1 => state.images[i - 1].pts < state.images[i].pts
    BY <2>1 DEF Serving, MadeInv
  <2>6. thread.pc = "ended" => IF Len(state.images) = info.num THEN state.failures = 0 ELSE state.failures = 1
    BY <2>1 DEF Serving, GoalInv
  <2>7. scaler # NoSize /\ Fit(scaler) = scaler => \A i \in 1 .. Len(state.images) : state.images[i].size = scaler
    BY <2>1 DEF Serving, ScalerInv
  <2> QED BY <2>3, <2>4, <2>5, <2>6, <2>7 DEF ImagesAsAsked
<1> QED BY <1>1, ImagesInvHolds, PTL

-----------------------------------------------------------------------------
(***************************************************************************)
(* VideoRefresh: the inductive invariant.                                  *)
(***************************************************************************)
Shots   == [pts : Nat, serial : Nat]
Clips   == [pts : Nat \cup {NAN}, serial : Int, last_updated : Nat]
Budgets == [master : {"audio", "video", "external"}, framedrop : BOOLEAN,
            late : Nat, togglings : Nat, jumps : Nat, texts : Nat]
Lines   == [n : 1 .. Len(Texts), serial : Nat, uploaded : BOOLEAN]
Sounds  == [pc : {"idle", "fills"}, clock : Nat \cup {NAN}, serial : Nat, at : Nat, wait : 0 .. Period]

RefreshTypeOK ==
    /\ time \in Nat /\ scenario \in Budgets /\ clock \in [Clocks -> Clips]
    /\ serial \in Nat /\ seek_pos \in Nat /\ switches \in Switches /\ frame_timer \in Int
    /\ pictures \in Seq(Shots) /\ shown \in Shots /\ refresh \in {"idle", "shows", "displays"}
    /\ upcoming \in [pts : Nat, sound : Nat, text : Nat] /\ upcoming.text <= Len(Texts)
    /\ sound \in Sounds /\ texts \in Seq(Lines) /\ text \in 0 .. Len(Texts)
    /\ since \in [calm : Nat, moved : Nat, slipped : BOOLEAN] /\ since.calm <= CalmTime

\* Pictures come in the order of the seeks, a frame apart, from where the seek went.
Follows(a, b) ==
    /\ a.serial <= b.serial /\ b.serial <= serial
    /\ a.serial = b.serial => b.pts = a.pts + FrameTime
    /\ a.serial # b.serial /\ b.serial = serial => b.pts = seek_pos
Next1 == [pts |-> upcoming.pts, serial |-> serial]
PicturesInv ==
    /\ \A i \in 1 .. Len(pictures) : Follows(IF i = 1 THEN shown ELSE pictures[i - 1], pictures[i])
    /\ Follows(IF pictures = << >> THEN shown ELSE pictures[Len(pictures)], Next1)
    /\ refresh = "shows" => pictures # << >>
    /\ serial >= 1

\* A step is taken in a pause, up to the first picture after the seek; else the switches agree.
SwitchesInv ==
    /\ ~ switches.buffering_on /\ (switches.auto_resume => ~ switches.pause_req)
    /\ switches.step => /\ switches.pause_req /\ ~ switches.paused /\ switches.aout_paused
                        /\ (shown.serial = serial => refresh = "displays")
    /\ ~ switches.step => /\ switches.paused = switches.pause_req
                          /\ switches.aout_paused = switches.pause_req

\* The picture clock has the time of the picture that was shown, or of a resumption
\* while that picture was being displayed.
InTime == \A c \in Clocks : clock[c].last_updated <= time
VidInv ==
    /\ clock["vid"].serial <= serial /\ (clock["vid"].serial = serial <=> shown.serial = serial)
    /\ shown.serial = serial => clock["vid"].pts # NAN /\ shown.pts <= clock["vid"].pts
    /\ shown.serial = serial /\ switches.step => shown.pts = clock["vid"].pts

\* The clock of sound has the time of the buffer before the last one that was begun.
SoundInv ==
    /\ clock["aud"].serial <= serial
    /\ clock["aud"].serial = serial =>
          /\ clock["aud"].pts # NAN
          /\ clock["aud"].pts = upcoming.sound - (IF sound.pc = "fills" THEN 2 * Period ELSE Period)
    /\ sound.serial <= serial /\ sound.at <= time
    /\ sound.pc = "fills" => sound.clock # NAN /\ sound.clock >= Period
    /\ sound.pc = "fills" /\ sound.serial = serial => sound.clock = upcoming.sound
    /\ scenario.master # "audio" => sound.pc = "idle"

ExtInv == scenario.master = "external" /\ shown.serial = serial => clock["ext"].pts # NAN

\* The timer is not ahead of the picture.
TimerInv ==
    /\ refresh # "shows" /\ shown.serial = serial =>
          shown.pts - frame_timer >= clock["vid"].pts - clock["vid"].last_updated
    /\ refresh = "shows" /\ Picture.serial = serial => frame_timer <= time

ClocksInv == InTime /\ VidInv /\ SoundInv /\ ExtInv /\ TimerInv

\* What the texts know of the picture they are for.
TextsInv ==
    /\ \A i \in 2 .. Len(texts) : ~ texts[i].uploaded
    /\ \A i \in 1 .. Len(texts) : texts[i].serial <= serial
    /\ text # NoText => texts # << >> /\ Head(texts).uploaded /\ Head(texts).n = text
    /\ texts # << >> /\ Head(texts).uploaded => text = Head(texts).n
    /\ text # NoText /\ ~ since.slipped =>
          /\ Head(texts).serial <= shown.serial
          /\ Head(texts).serial = serial => Texts[text].start <= shown.pts
          /\ refresh = "displays" => /\ Head(texts).serial = shown.serial
                                     /\ Texts[text].start <= shown.pts /\ shown.pts <= Texts[text].end

\* In a pause the position moves by what is in hand, and by nothing else.
MovedInv ==
    /\ since.moved <= 1
    /\ ~ switches.paused => since.moved = 0
    /\ sound.pc = "fills" => since.moved = 0
    /\ scenario.master # "audio" /\ refresh = "shows" => since.moved = 0

\* A player that runs calmly: everything it has in hand is of the last seek ...
Calm == since.calm >= 1 /\ ~ switches.paused
AudioOffset == clock["aud"].pts - clock["aud"].last_updated
NextOffset  == upcoming.sound - time - sound.wait
CalmInv == Calm =>
    /\ shown.serial = serial /\ (pictures # << >> => Picture.serial = serial)
    /\ ~ switches.step
    /\ scenario.master = "audio" =>
          /\ clock["aud"].serial = serial
          /\ sound.pc = "fills" => sound.serial = serial /\ sound.at = time /\ sound.wait = Period
          /\ \/ AudioOffset = NextOffset
             \/ sound.pc = "idle" /\ since.calm + sound.wait <= Period
             \/ sound.pc = "fills" /\ since.calm <= Period

\* ... and the next picture is not further off than its duration.
VideoInv == Calm /\ scenario.master = "video" =>
    time <= clock["vid"].last_updated + FrameTime

HeldInv == RefreshTypeOK /\ PicturesInv /\ SwitchesInv /\ ClocksInv /\ TextsInv /\ MovedInv /\ CalmInv /\ VideoInv

-----------------------------------------------------------------------------
(***************************************************************************)
(* How far the picture may be from the clock.  The offset of a clock is    *)
(* what it reads when it runs, less the time.                              *)
(***************************************************************************)
Slack   == ThresholdMax + 2 * FrameTime
Drift   == scenario.late + Slack * scenario.togglings
\* Of a distance D the disturbances that have been have made use of so much.
Room(D) == D - Drift

Stands(at) == IF switches.paused THEN time ELSE at
Picked     == clock["vid"].pts - Stands(clock["vid"].last_updated)
\* The master's offset, for sound from when its next buffer begins.
Master == IF scenario.master = "audio" THEN NextOffset
          ELSE clock["ext"].pts - Stands(clock["ext"].last_updated)
Timed == scenario.master = "audio" \/ (scenario.master = "external" /\ clock["ext"].pts # NAN)
Lesser(a, b) == IF a < b THEN a ELSE b
Fresh    == shown.serial = serial
Deciding == refresh = "shows" /\ Fresh

RoomInv(D) == Room(D) >= Period + 2 * Slack

AboveInv(D) == Timed =>
    /\ ~ Fresh => seek_pos - time + Slack - Master <= Room(D)
    /\ Fresh /\ ~ Deciding /\ (switches.paused \/ switches.step) => Picked + Slack - Master <= Room(D)
    /\ Fresh /\ ~ Deciding =>
          Lesser(shown.pts - frame_timer, Picked + Slack) - Master <= Room(D)
    /\ Deciding /\ switches.paused => Picture.pts - time + Slack - Master <= Room(D)
    /\ Deciding =>
          Lesser(Picture.pts - frame_timer, Picture.pts - time + Slack) - Master <= Room(D)

BelowInv(D) == Timed =>
    /\ ~ Fresh => seek_pos - time - Master - FrameTime >= - Room(D)
    /\ Fresh /\ switches.step => shown.pts - time - Master >= - Room(D)
    /\ Fresh => shown.pts + FrameTime - time - Master >= - Room(D)
    /\ Fresh => Picked - Master >= - Room(D)

\* The clock of sound that is played is not far from what the next buffer makes it.
HeardInv(D) == scenario.master = "audio" =>
    /\ clock["aud"].serial = serial =>
          clock["aud"].pts - (IF switches.aout_paused THEN time ELSE clock["aud"].last_updated) - Master
            <= Room(D) - 2 * Slack
    /\ sound.pc = "fills" /\ sound.serial = serial =>
          time + sound.wait - sound.at - Period <= Room(D) - 2 * Slack

DriftInv(D) == RoomInv(D) /\ AboveInv(D) /\ BelowInv(D) /\ HeardInv(D)

\* When it has been calm for more than a buffer the pictures come on time, and each
\* brings the picture nearer to the clock until it is near.
Near == FrameTime + ThresholdMin
Settled == since.calm > Period /\ ~ switches.paused /\ scenario.master # "video"
\* How long a picture is shown that is so far from the clock.
Aim(diff) ==
    IF diff >= NoSync \/ -diff >= NoSync THEN FrameTime
    ELSE IF diff <= - SyncThreshold(FrameTime) THEN (IF FrameTime + diff >= 0 THEN FrameTime + diff ELSE 0)
    ELSE IF diff < SyncThreshold(FrameTime) THEN FrameTime
    ELSE IF FrameTime > FrameDup THEN FrameTime + diff ELSE 2 * FrameTime
Ahead(D) == 3 * D + 3 * FrameTime + Period + 1
NearInv(D) == Settled =>
    /\ refresh = "shows" =>
          LET w == Picture.pts - frame_timer - Master
          IN  frame_timer = time /\ (w <= Near \/ 2 * w + since.calm <= Ahead(D))
    /\ refresh # "shows" =>
          LET w == shown.pts - frame_timer - Master
          IN  /\ time <= frame_timer + Aim(Picked - Master)
              /\ \/ w <= Near
                 \/ 2 * w - (time - frame_timer) + since.calm
                      + (IF frame_timer < clock["vid"].last_updated THEN FrameTime ELSE 0) <= Ahead(D)

\* The disturbances there may be are few for NoSync, and calm is long enough to make up for them.
LongCalm(D) ==
    /\ \A s \in Scenarios : Period + 2 * Slack + s.late + Slack * s.togglings <= D
    /\ D < NoSync
    /\ Ahead(D) <= CalmTime

-----------------------------------------------------------------------------
(* What the operators return. *)

LEMMA LeastOfTwo ==
    ASSUME NEW a \in Int, NEW b \in Int
    PROVE  Min({a, b}) = IF a <= b THEN a ELSE b
<1>1. \E x \in {a, b} : \A y \in {a, b} : x <= y
  <2>1. CASE a <= b BY <2>1
  <2>2. CASE ~ (a <= b) BY <2>2
  <2> QED BY <2>1, <2>2
<1>2. Min({a, b}) \in {a, b} /\ \A y \in {a, b} : Min({a, b}) <= y
  BY <1>1 DEF Min
<1> QED BY <1>2

LEMMA GreatestOfTwo ==
    ASSUME NEW a \in Int, NEW b \in Int
    PROVE  Max({a, b}) = IF a <= b THEN b ELSE a
<1>1. \E x \in {a, b} : \A y \in {a, b} : x >= y
  <2>1. CASE a <= b BY <2>1
  <2>2. CASE ~ (a <= b) BY <2>2
  <2> QED BY <2>1, <2>2
<1>2. Max({a, b}) \in {a, b} /\ \A y \in {a, b} : Max({a, b}) >= y
  BY <1>1 DEF Max
<1> QED BY <1>2

\* A set of naturals has a least member, and a greatest one if it has a bound.
LEMMA LeastIs ==
    ASSUME NEW S, S \subseteq Nat, S # {}
    PROVE  Min(S) \in S /\ \A y \in S : Min(S) <= y
<1>1. PICK x \in S : \A y \in S : ~ (<<y, x>> \in OpToRel(<, Nat))
  BY WFMin, NatLessThanWellFounded
<1>2. \A y \in S : x <= y
  <2> TAKE y \in S
  <2>1. <<y, x>> \in OpToRel(<, Nat) <=> y < x
    BY DEF OpToRel
  <2>2. ~ (y < x) /\ x \in Nat /\ y \in Nat
    BY <1>1, <2>1
  <2> QED BY <2>2
<1> QED BY <1>1, <1>2 DEF Min

LEMMA GreatestIs ==
    ASSUME NEW n \in Nat, NEW S, S \subseteq 0 .. n, S # {}
    PROVE  Max(S) \in S
<1> DEFINE R == {n - x : x \in S}
<1>0. \A x \in S : n - x \in Nat
  <2> TAKE x \in S
  <2>1. x \in 0 .. n
    OBVIOUS
  <2> QED BY <2>1
<1>1. R \subseteq Nat /\ R # {}
  BY <1>0, Zenon
<1>2. Min(R) \in R /\ \A y \in R : Min(R) <= y
  <2> HIDE DEF R
  <2> QED BY <1>1, LeastIs
<1>3. PICK x \in S : Min(R) = n - x
  BY <1>2
<1>4. \A y \in S : x >= y
  <2> TAKE y \in S
  <2>1. Min(R) <= n - y
    BY <1>2
  <2>2. x \in 0 .. n /\ y \in 0 .. n
    OBVIOUS
  <2> HIDE DEF R
  <2> QED BY <1>3, <2>1, <2>2
<1> HIDE DEF R
<1> QED BY <1>4 DEF Max

LEMMA ConstantFacts ==
    /\ FrameTime \in Nat /\ FrameTime > 0 /\ Period \in Nat /\ Period > 0
    /\ ThresholdMax \in Nat /\ ThresholdMax > 0 /\ CalmTime \in Nat /\ CalmTime > 0
    /\ MaxTime \in Nat /\ ThresholdMin \in Nat /\ FrameDup \in Nat /\ NoSync \in Nat
    /\ Scenarios \subseteq Budgets
    /\ Len(Texts) \in Nat /\ Texts \in [1 .. Len(Texts) -> [start : Nat, end : Nat]]
    /\ \A i \in 1 .. Len(Texts) : Texts[i].start \in Nat /\ Texts[i].end \in Nat
<1>1. \A x \in {FrameTime, Period, ThresholdMax, MaxTime, CalmTime} : x \in Nat /\ x # 0
  BY VideoRefreshAssumption
<1>2. \A x \in {ThresholdMin, FrameDup, NoSync} : x \in Nat
  BY VideoRefreshAssumption
<1>3. Texts \in Seq([start : Nat, end : Nat])
  BY VideoRefreshAssumption
<1>4. Len(Texts) \in Nat /\ Texts \in [1 .. Len(Texts) -> [start : Nat, end : Nat]]
  BY <1>3, LenProperties
<1>5. \A i \in 1 .. Len(Texts) : Texts[i].start \in Nat /\ Texts[i].end \in Nat
  BY <1>4
<1>6. Scenarios \subseteq Budgets
  BY VideoRefreshAssumption DEF Budgets
<1> QED BY <1>1, <1>2, <1>4, <1>5, <1>6

LEMMA FirstTextIs ==
    ASSUME NEW pts \in Nat
    PROVE  FirstText(pts) \in 0 .. Len(Texts)
<1> DEFINE S == {0} \cup {i \in DOMAIN Texts : Texts[i].end < pts}
<1>1. S \subseteq 0 .. Len(Texts) /\ S # {}
  BY ConstantFacts
<1>2. Max(S) \in S
  <2> HIDE DEF S
  <2> QED BY <1>1, GreatestIs, ConstantFacts
<1> QED BY <1>1, <1>2 DEF FirstText

\* The texts that are left begin with one that is not over.
LEMMA FirstLeftIs ==
    ASSUME RefreshTypeOK
    PROVE  /\ FirstLeft \in 1 .. Len(texts) + 1
           /\ FirstLeft <= Len(texts) => ~ Over(FirstLeft)
<1> DEFINE S == {Len(texts) + 1} \cup {i \in DOMAIN texts : ~ Over(i)}
<1>0. Len(texts) \in Nat /\ DOMAIN texts = 1 .. Len(texts)
  BY LenProperties DEF RefreshTypeOK
<1>1. S \subseteq 1 .. Len(texts) + 1 /\ S \subseteq Nat /\ S # {}
  BY <1>0
<1>2. Min(S) \in S
  <2> HIDE DEF S
  <2> QED BY <1>1, LeastIs
<1>3. FirstLeft = Min(S)
  BY DEF FirstLeft
<1> QED BY <1>0, <1>1, <1>2, <1>3

-----------------------------------------------------------------------------
(* The state, field by field. *)

LEMMA StateFields ==
    ASSUME RefreshTypeOK
    PROVE  /\ time \in Nat /\ serial \in Nat /\ seek_pos \in Nat /\ frame_timer \in Int
           /\ \A c \in Clocks : /\ clock[c].pts \in Nat \cup {NAN} /\ clock[c].serial \in Int
                                /\ clock[c].last_updated \in Nat
           /\ shown.pts \in Nat /\ shown.serial \in Nat
           /\ upcoming.pts \in Nat /\ upcoming.sound \in Nat /\ upcoming.text \in Nat
           /\ sound.clock \in Nat \cup {NAN} /\ sound.serial \in Nat /\ sound.at \in Nat
           /\ sound.wait \in Nat /\ sound.wait <= Period
           /\ scenario.late \in Nat /\ scenario.togglings \in Nat /\ scenario.jumps \in Nat
           /\ scenario.texts \in Nat /\ scenario.framedrop \in BOOLEAN
           /\ since.calm \in Nat /\ since.calm <= CalmTime /\ since.moved \in Nat
           /\ since.slipped \in BOOLEAN
<1>1. time \in Nat /\ serial \in Nat /\ seek_pos \in Nat /\ frame_timer \in Int
  BY DEF RefreshTypeOK
<1>2. \A c \in Clocks : /\ clock[c].pts \in Nat \cup {NAN} /\ clock[c].serial \in Int
                        /\ clock[c].last_updated \in Nat
  BY DEF RefreshTypeOK, Clips
<1>3. shown.pts \in Nat /\ shown.serial \in Nat
  BY DEF RefreshTypeOK, Shots
<1>4. upcoming.pts \in Nat /\ upcoming.sound \in Nat /\ upcoming.text \in Nat
  BY DEF RefreshTypeOK
<1>5. /\ sound.clock \in Nat \cup {NAN} /\ sound.serial \in Nat /\ sound.at \in Nat
      /\ sound.wait \in Nat /\ sound.wait <= Period
  BY ConstantFacts DEF RefreshTypeOK, Sounds
<1>6. /\ scenario.late \in Nat /\ scenario.togglings \in Nat /\ scenario.jumps \in Nat
      /\ scenario.texts \in Nat /\ scenario.framedrop \in BOOLEAN
  BY DEF RefreshTypeOK, Budgets
<1>7. /\ since.calm \in Nat /\ since.calm <= CalmTime /\ since.moved \in Nat
      /\ since.slipped \in BOOLEAN
  BY DEF RefreshTypeOK
<1> QED BY <1>1, <1>2, <1>3, <1>4, <1>5, <1>6, <1>7

LEMMA QueueFields ==
    ASSUME RefreshTypeOK
    PROVE  /\ Len(pictures) \in Nat /\ DOMAIN pictures = 1 .. Len(pictures)
           /\ \A i \in 1 .. Len(pictures) : pictures[i].pts \in Nat /\ pictures[i].serial \in Nat
           /\ pictures # << >> => /\ Len(pictures) >= 1 /\ Picture = pictures[1] /\ Picture \in Shots
                                  /\ Picture.pts \in Nat /\ Picture.serial \in Nat
           /\ pictures = << >> => Len(pictures) = 0
<1>1. Len(pictures) \in Nat /\ DOMAIN pictures = 1 .. Len(pictures)
      /\ \A i \in 1 .. Len(pictures) : pictures[i] \in Shots
  BY LenProperties, ElementOfSeq DEF RefreshTypeOK
<1>2. \A i \in 1 .. Len(pictures) : pictures[i].pts \in Nat /\ pictures[i].serial \in Nat
  BY <1>1 DEF Shots
<1>3. (pictures # << >> => Len(pictures) >= 1) /\ (pictures = << >> => Len(pictures) = 0)
  BY <1>1, EmptySeq DEF RefreshTypeOK
<1>4. pictures # << >> => Picture = pictures[1]
  BY HeadTailProperties DEF RefreshTypeOK, Picture
<1> QED BY <1>1, <1>2, <1>3, <1>4

LEMMA TextFields ==
    ASSUME RefreshTypeOK
    PROVE  /\ Len(texts) \in Nat /\ DOMAIN texts = 1 .. Len(texts)
           /\ \A i \in 1 .. Len(texts) : /\ texts[i] \in Lines /\ texts[i].n \in 1 .. Len(Texts)
                                         /\ texts[i].serial \in Nat /\ texts[i].uploaded \in BOOLEAN
           /\ texts # << >> => Len(texts) >= 1 /\ Head(texts) = texts[1]
           /\ texts = << >> => Len(texts) = 0
<1>1. Len(texts) \in Nat /\ DOMAIN texts = 1 .. Len(texts)
      /\ \A i \in 1 .. Len(texts) : texts[i] \in Lines
  BY LenProperties, ElementOfSeq DEF RefreshTypeOK
<1>2. \A i \in 1 .. Len(texts) : /\ texts[i].n \in 1 .. Len(Texts)
                                 /\ texts[i].serial \in Nat /\ texts[i].uploaded \in BOOLEAN
  BY <1>1 DEF Lines
<1>3. (texts # << >> => Len(texts) >= 1) /\ (texts = << >> => Len(texts) = 0)
  BY <1>1, EmptySeq DEF RefreshTypeOK
<1>4. texts # << >> => Head(texts) = texts[1]
  BY HeadTailProperties DEF RefreshTypeOK
<1> QED BY <1>1, <1>2, <1>3, <1>4

LEMMA SwitchFields ==
    ASSUME RefreshTypeOK
    PROVE  /\ switches.pause_req \in BOOLEAN /\ switches.buffering_on \in BOOLEAN
           /\ switches.step \in BOOLEAN /\ switches.paused \in BOOLEAN
           /\ switches.aout_paused \in BOOLEAN /\ switches.auto_resume \in BOOLEAN
           /\ switches = [pause_req |-> switches.pause_req, buffering_on |-> switches.buffering_on,
                          step |-> switches.step, paused |-> switches.paused,
                          aout_paused |-> switches.aout_paused, auto_resume |-> switches.auto_resume]
BY DEF RefreshTypeOK, Switches

\* Six switches, of which buffering_on is off.
Pressed(s, p, st, pa, ao, ar) ==
    /\ s \in Switches /\ ~ s.buffering_on
    /\ s.pause_req = p /\ s.step = st /\ s.paused = pa /\ s.aout_paused = ao /\ s.auto_resume = ar

LEMMA UpdatePauseIs ==
    ASSUME NEW s \in Switches, ~ s.buffering_on
    PROVE  LET u == StreamUpdatePause(s)
           IN  /\ s.pause_req /\ ~ s.step => Pressed(u, TRUE, FALSE, TRUE, TRUE, s.auto_resume)
               /\ ~ s.pause_req => Pressed(u, FALSE, s.step, FALSE, FALSE, s.auto_resume)
BY DEF Pressed, Switches, StreamUpdatePause, StreamTogglePause, Held

\* The switches after a pause, a resumption, a seek and a picture.
LEMMA ToggleIs ==
    ASSUME RefreshTypeOK, SwitchesInv, Toggle
    PROVE  /\ \/ /\ ~ switches.pause_req /\ ~ switches.step /\ ~ switches.paused /\ ~ switches.aout_paused
                 /\ Pressed(switches', TRUE, FALSE, TRUE, TRUE, FALSE)
                 /\ clock' = SetClocks({"ext"})
              \/ /\ switches.pause_req /\ switches.aout_paused
                 /\ Pressed(switches', FALSE, FALSE, FALSE, FALSE, TRUE)
                 /\ clock' = SetClocks(Clocks)
           /\ frame_timer' = frame_timer
<1> DEFINE on   == ~ switches.pause_req
           asks == [switches EXCEPT !.pause_req = on, !.auto_resume = ~ on]
           upd  == StreamUpdatePause(asks)
           new  == TogglePause(switches, on)
<1>0. switches \in Switches
  BY DEF RefreshTypeOK
<1>1. /\ asks \in Switches /\ ~ asks.buffering_on /\ asks.pause_req = on /\ asks.step = switches.step
      /\ asks.auto_resume = ~ on
  BY <1>0, SwitchFields DEF SwitchesInv, Switches
<1>2. new = [upd EXCEPT !.step = FALSE]
  BY DEF TogglePause
<1> HIDE DEF asks
<1>3. CASE ~ switches.pause_req
  <2>1. ~ switches.step /\ ~ switches.paused /\ ~ switches.aout_paused
    BY <1>3, SwitchFields DEF SwitchesInv
  <2>2. Pressed(upd, TRUE, FALSE, TRUE, TRUE, asks.auto_resume) /\ asks.auto_resume = FALSE
    BY <1>1, <1>3, <2>1, UpdatePauseIs
  <2> HIDE DEF upd
  <2>3. Pressed(new, TRUE, FALSE, TRUE, TRUE, FALSE)
    BY <1>2, <2>2 DEF Pressed, Switches
  <2>4. ~ Resumes(new)
    BY <2>3 DEF Resumes, Pressed
  <2> HIDE DEF new
  <2>5. SwitchTo(new)
    BY <1>3 DEF Toggle, new
  <2> QED BY <1>3, <2>1, <2>3, <2>4, <2>5 DEF SwitchTo
<1>4. CASE switches.pause_req
  <2>1. switches.aout_paused
    BY <1>4, SwitchFields DEF SwitchesInv
  <2>2. Pressed(upd, FALSE, asks.step, FALSE, FALSE, asks.auto_resume) /\ asks.auto_resume = TRUE
    BY <1>1, <1>4, UpdatePauseIs
  <2> HIDE DEF upd
  <2>3. Pressed(new, FALSE, FALSE, FALSE, FALSE, TRUE)
    BY <1>2, <2>2 DEF Pressed, Switches
  <2> HIDE DEF new
  <2>4. switches' = new /\ clock' = SetClocks(Clocks) /\ frame_timer' = frame_timer
    BY <1>4 DEF Toggle, new
  <2> QED BY <1>4, <2>1, <2>3, <2>4
<1> QED BY <1>3, <1>4, SwitchFields

LEMMA ResumeOrStepIs ==
    ASSUME RefreshTypeOK, SwitchesInv
    PROVE  LET new == ResumeOrStep(switches, FALSE)
           IN  /\ Pressed(new, switches.pause_req, switches.pause_req, FALSE, switches.aout_paused, FALSE)
               /\ switches.aout_paused = switches.pause_req
               /\ Resumes(new) <=> switches.paused
<1> DEFINE new == ResumeOrStep(switches, FALSE)
<1>0. switches.aout_paused = switches.pause_req
  BY SwitchFields DEF SwitchesInv
<1>a. switches \in Switches /\ ~ switches.buffering_on
  BY DEF RefreshTypeOK, SwitchesInv
<1>1. CASE switches.auto_resume
  <2> DEFINE asks == [switches EXCEPT !.pause_req = FALSE, !.auto_resume = FALSE,
                                      !.buffering_on = switches.buffering_on \/ FALSE]
             resumed == StreamUpdatePause(asks)
  <2>1. /\ ~ switches.pause_req /\ ~ switches.step /\ ~ switches.paused /\ ~ switches.aout_paused
    BY <1>1, SwitchFields DEF SwitchesInv
  <2>2. /\ asks \in Switches /\ ~ asks.buffering_on /\ ~ asks.pause_req /\ asks.step = FALSE
        /\ asks.auto_resume = FALSE
    BY <1>a, <2>1, SwitchFields DEF Switches
  <2>3. new = IF resumed.pause_req THEN StepToNextFrame(resumed) ELSE resumed
    BY <1>1 DEF ResumeOrStep
  <2> HIDE DEF asks
  <2>4. Pressed(resumed, FALSE, FALSE, FALSE, FALSE, FALSE)
    BY <2>2, UpdatePauseIs
  <2> HIDE DEF resumed, new
  <2>5. new = resumed
    BY <2>3, <2>4 DEF Pressed
  <2>6. Resumes(new) <=> switches.paused
    BY <2>1 DEF Resumes
  <2>7. Pressed(new, switches.pause_req, switches.pause_req, FALSE, switches.aout_paused, FALSE)
    BY <2>1, <2>4, <2>5, SwitchFields DEF Pressed
  <2> QED BY <1>0, <2>6, <2>7 DEF new
<1>2. CASE ~ switches.auto_resume /\ switches.pause_req
  <2> DEFINE stepping == [switches EXCEPT !.step = TRUE]
  <2>2. Pressed(stepping, TRUE, TRUE, switches.paused, switches.aout_paused, FALSE)
    BY <1>a, <1>2, SwitchFields DEF Pressed, Switches
  <2>3. new = IF switches.paused THEN StreamTogglePause(stepping, FALSE) ELSE stepping
    BY <1>2 DEF ResumeOrStep, StepToNextFrame
  <2> HIDE DEF stepping, new
  <2>4. StreamTogglePause(stepping, FALSE) = [stepping EXCEPT !.paused = FALSE]
    BY <2>2 DEF StreamTogglePause, Held, Pressed
  <2>5. Pressed([stepping EXCEPT !.paused = FALSE], TRUE, TRUE, FALSE, switches.aout_paused, FALSE)
    BY <2>2 DEF Pressed, Switches
  <2>6. Pressed(new, TRUE, TRUE, FALSE, switches.aout_paused, FALSE)
    <3>1. CASE switches.paused BY <3>1, <2>3, <2>4, <2>5
    <3>2. CASE ~ switches.paused BY <3>2, <2>2, <2>3, SwitchFields DEF Pressed
    <3> QED BY <3>1, <3>2
  <2>7. Resumes(new) <=> switches.paused
    BY <2>6, SwitchFields DEF Resumes, Pressed
  <2>8. Pressed(new, switches.pause_req, switches.pause_req, FALSE, switches.aout_paused, FALSE)
    BY <1>2, <2>6, SwitchFields DEF Pressed
  <2> QED BY <1>0, <2>7, <2>8 DEF new
<1>3. CASE ~ switches.auto_resume /\ ~ switches.pause_req
  <2>1. new = switches
    BY <1>3 DEF ResumeOrStep
  <2> HIDE DEF new
  <2>2. /\ ~ switches.step /\ ~ switches.paused /\ ~ switches.aout_paused
    BY <1>3, SwitchFields DEF SwitchesInv
  <2>3. Resumes(new) <=> switches.paused
    BY <2>2 DEF Resumes
  <2>4. Pressed(new, switches.pause_req, switches.pause_req, FALSE, switches.aout_paused, FALSE)
    BY <1>a, <1>3, <2>1, <2>2, SwitchFields DEF Pressed
  <2> QED BY <1>0, <2>3, <2>4 DEF new
<1> QED BY <1>1, <1>2, <1>3, SwitchFields

LEMMA ShownIs ==
    ASSUME RefreshTypeOK, SwitchesInv, RefreshDisplays
    PROVE  /\ Pressed(switches', switches.pause_req, FALSE, switches.pause_req,
                      switches.aout_paused, switches.auto_resume)
           /\ switches.step => clock' = SetClocks({"ext"}) /\ switches.pause_req /\ ~ switches.paused
           /\ ~ switches.step => clock' = clock /\ switches.paused = switches.pause_req
           /\ frame_timer' = frame_timer
<1> DEFINE done == [switches EXCEPT !.step = FALSE]
           new  == FrameShown(switches)
<1>0. switches \in Switches /\ ~ switches.buffering_on
  BY DEF RefreshTypeOK, SwitchesInv
<1>a. /\ done \in Switches /\ ~ done.buffering_on /\ done.step = FALSE
      /\ done.pause_req = switches.pause_req /\ done.auto_resume = switches.auto_resume
      /\ done.paused = switches.paused /\ done.aout_paused = switches.aout_paused
  BY <1>0 DEF Switches
<1>1. CASE switches.step
  <2>1. switches.pause_req /\ ~ switches.paused /\ switches.aout_paused
    BY <1>1 DEF SwitchesInv
  <2>2. new = StreamUpdatePause(done)
    BY <1>1, <2>1 DEF FrameShown
  <2> HIDE DEF done
  <2>3. Pressed(new, TRUE, FALSE, TRUE, TRUE, done.auto_resume)
    BY <1>a, <2>1, <2>2, UpdatePauseIs
  <2> HIDE DEF new
  <2>4. ~ Resumes(new) /\ SwitchTo(new)
    BY <1>1, <2>1, <2>3 DEF Resumes, RefreshDisplays, Pressed, new
  <2>5. switches' = new /\ clock' = SetClocks({"ext"}) /\ frame_timer' = frame_timer
    BY <2>4 DEF SwitchTo
  <2>6. Pressed(switches', switches.pause_req, FALSE, switches.pause_req,
                switches.aout_paused, switches.auto_resume)
    BY <1>a, <2>1, <2>3, <2>5, SwitchFields DEF Pressed
  <2> QED BY <1>1, <2>1, <2>5, <2>6
<1>2. CASE ~ switches.step
  <2>1. new = done
    BY <1>2 DEF FrameShown
  <2>2. switches' = new /\ clock' = clock /\ frame_timer' = frame_timer
    BY <1>2 DEF RefreshDisplays
  <2>3. switches.paused = switches.pause_req /\ switches.aout_paused = switches.pause_req
    BY <1>2 DEF SwitchesInv
  <2> HIDE DEF done, new
  <2>4. Pressed(switches', switches.pause_req, FALSE, switches.pause_req,
                switches.aout_paused, switches.auto_resume)
    BY <1>a, <2>1, <2>2, <2>3 DEF Pressed
  <2> QED BY <1>2, <2>2, <2>3, <2>4
<1> QED BY <1>1, <1>2, SwitchFields

\* What the clocks read.
LEMMA ReadsIs ==
    ASSUME RefreshTypeOK, InTime, NEW c \in Clocks
    PROVE  /\ GetClock(c) \in Nat \cup {NAN}
           /\ GetClock(c) # NAN <=> clock[c].pts # NAN /\ (c = "ext" \/ clock[c].serial = serial)
           /\ GetClock(c) # NAN => GetClock(c) = IF Stopped(c) THEN clock[c].pts
                                   ELSE clock[c].pts + time - clock[c].last_updated
           /\ GetClock(c) # NAN => GetClock(c) \in Nat
<1>1. clock[c].last_updated <= time
  BY DEF InTime
<1>2. clock[c].pts \in Nat \cup {NAN} /\ clock[c].last_updated \in Nat /\ time \in Nat
  BY StateFields
<1>3. clock[c].pts # NAN => clock[c].pts + time - clock[c].last_updated \in Nat
  BY <1>1, <1>2
<1> QED BY <1>2, <1>3 DEF GetClock, Reads, NAN

LEMMA SetClocksIs ==
    ASSUME RefreshTypeOK, InTime, NEW cs
    PROVE  /\ SetClocks(cs) \in [Clocks -> Clips]
           /\ \A c \in Clocks :
                 /\ c \notin cs => SetClocks(cs)[c] = clock[c]
                 /\ c \in cs => /\ SetClocks(cs)[c].pts = GetClock(c)
                                /\ SetClocks(cs)[c].serial = clock[c].serial
                                /\ SetClocks(cs)[c].last_updated = time
                 /\ SetClocks(cs)[c].last_updated <= time
<1>1. \A c \in Clocks : SetToItself(c) = [pts |-> GetClock(c), serial |-> clock[c].serial, last_updated |-> time]
  BY DEF SetToItself, ClockAt
<1>2. \A c \in Clocks : SetToItself(c) \in Clips /\ clock[c] \in Clips
  <2> TAKE c \in Clocks
  <2>1. GetClock(c) \in Nat \cup {NAN} /\ clock[c].serial \in Int /\ time \in Nat
    BY ReadsIs, StateFields
  <2> QED BY <1>1, <2>1 DEF Clips, RefreshTypeOK
<1>3. \A c \in Clocks : clock[c].last_updated <= time
  BY DEF InTime
<1>4. \A c \in Clocks : SetClocks(cs)[c] = IF c \in cs THEN SetToItself(c) ELSE clock[c]
  BY DEF SetClocks
<1>5. SetClocks(cs) \in [Clocks -> Clips]
  BY <1>2 DEF SetClocks
<1>6. time <= time
  BY StateFields
<1> QED BY <1>1, <1>3, <1>4, <1>5, <1>6

LEMMA SetAndSyncIs ==
    ASSUME RefreshTypeOK, InTime, NEW c \in {"vid", "aud"}, NEW pts \in Nat, NEW s \in Nat,
           NEW at \in Nat, at <= time
    PROVE  LET k     == SetAndSync(c, ClockAt(pts, s, at))
               value == IF Stopped(c) THEN pts ELSE pts + time - at
               ext   == GetClock("ext")
               apart == s = serial /\ (ext = NAN \/ ext - value > NoSync \/ value - ext > NoSync)
           IN  /\ k \in [Clocks -> Clips]
               /\ k[c].pts = pts /\ k[c].serial = s /\ k[c].last_updated = at
               /\ \A d \in {"vid", "aud"} \ {c} : k[d] = clock[d]
               /\ apart => k["ext"].pts = value /\ k["ext"].serial = s /\ k["ext"].last_updated = time
               /\ ~ apart => k["ext"] = clock["ext"]
               /\ \A d \in Clocks : k[d].last_updated <= time
<1> DEFINE new   == ClockAt(pts, s, at)
           ext   == GetClock("ext")
           read  == Reads(c, new)
           value == IF Stopped(c) THEN pts ELSE pts + time - at
           far   == ext = NAN \/ ext - value > NoSync \/ value - ext > NoSync
           apart == read # NAN /\ (ext = NAN \/ ext - read > NoSync \/ read - ext > NoSync)
           k     == SetAndSync(c, new)
<1>1. new = [pts |-> pts, serial |-> s, last_updated |-> at] /\ new \in Clips
  BY DEF ClockAt, Clips
<1>2. value \in Nat /\ c # "ext" /\ time \in Nat
  BY StateFields
<1>3. read = IF s = serial THEN value ELSE NAN
  BY <1>1, <1>2 DEF Reads, NAN
<1>4. s = serial => read = value /\ read # NAN
  BY <1>2, <1>3 DEF NAN
<1>5. apart <=> s = serial /\ far
  BY <1>3, <1>4
<1>6. k = [clock EXCEPT ![c] = new, !["ext"] = IF apart THEN ClockAt(read, new.serial, time) ELSE clock["ext"]]
  BY <1>2 DEF SetAndSync, RefreshTypeOK, Clocks
<1> HIDE DEF new, read, value, apart, k, far
<1> DEFINE last == IF apart THEN ClockAt(read, new.serial, time) ELSE clock["ext"]
<1>7. /\ apart => last = [pts |-> value, serial |-> s, last_updated |-> time]
      /\ ~ apart => last = clock["ext"]
  BY <1>1, <1>4, <1>5 DEF ClockAt
<1>8. last \in Clips /\ last.last_updated <= time
  <2>1. CASE apart
    BY <2>1, <1>2, <1>7 DEF Clips
  <2>2. CASE ~ apart
    BY <2>2, <1>7, StateFields DEF Clips, RefreshTypeOK, InTime, Clocks
  <2> QED BY <2>1, <2>2
<1> HIDE DEF last
<1>9. k = [clock EXCEPT ![c] = new, !["ext"] = last]
  BY <1>6 DEF last
<1>10. clock \in [Clocks -> Clips] /\ c \in Clocks /\ "ext" \in Clocks
  BY DEF RefreshTypeOK, Clocks
<1>11. /\ k \in [Clocks -> Clips] /\ k[c] = new /\ k["ext"] = last
       /\ \A d \in {"vid", "aud"} \ {c} : k[d] = clock[d]
  BY <1>1, <1>2, <1>8, <1>9, <1>10 DEF Clocks
<1>12. \A d \in Clocks : k[d].last_updated <= time
  <2> TAKE d \in Clocks
  <2>1. CASE d = c BY <2>1, <1>1, <1>11
  <2>2. CASE d = "ext" BY <2>2, <1>8, <1>11
  <2>3. CASE d # c /\ d # "ext"
    <3>1. d \in {"vid", "aud"} \ {c}
      BY <2>3 DEF Clocks
    <3> QED BY <3>1, <1>11 DEF InTime
  <2> QED BY <2>1, <2>2, <2>3
<1> DEFINE Apart == s = serial /\ far
<1>13. apart <=> Apart
  BY <1>5
<1>14. /\ k \in [Clocks -> Clips]
       /\ k[c].pts = pts /\ k[c].serial = s /\ k[c].last_updated = at
       /\ \A d \in {"vid", "aud"} \ {c} : k[d] = clock[d]
       /\ Apart => k["ext"].pts = value /\ k["ext"].serial = s /\ k["ext"].last_updated = time
       /\ ~ Apart => k["ext"] = clock["ext"]
       /\ \A d \in Clocks : k[d].last_updated <= time
  BY <1>1, <1>7, <1>11, <1>12, <1>13
<1> QED BY <1>14 DEF k, value, far, new

\* The threshold, and how long a picture is shown.
LEMMA ThresholdIs ==
    ASSUME NEW delay \in Nat
    PROVE  /\ SyncThreshold(delay) \in Nat /\ SyncThreshold(delay) >= ThresholdMin
           /\ SyncThreshold(delay) <= delay \/ SyncThreshold(delay) = ThresholdMin
           /\ SyncThreshold(delay) <= ThresholdMax \/ SyncThreshold(delay) = ThresholdMin
<1> DEFINE m == Min({ThresholdMax, delay})
<1>1. m = IF ThresholdMax <= delay THEN ThresholdMax ELSE delay
  BY ConstantFacts, LeastOfTwo
<1>2. m \in Nat
  BY <1>1, ConstantFacts
<1> HIDE DEF m
<1>3. Max({ThresholdMin, m}) = IF ThresholdMin <= m THEN m ELSE ThresholdMin
  BY <1>2, ConstantFacts, GreatestOfTwo
<1>4. SyncThreshold(delay) = Max({ThresholdMin, m})
  BY DEF SyncThreshold, m
<1> QED BY <1>1, <1>2, <1>3, <1>4, ConstantFacts

LEMMA TargetDelayIs ==
    ASSUME RefreshTypeOK, InTime, NEW delay \in Nat
    PROVE  LET vid  == GetClock("vid")
               main == GetClock(MasterClock)
               diff == vid - main
               goes == \/ scenario.master = "video" \/ NAN \in {vid, main}
                       \/ diff >= NoSync \/ -diff >= NoSync
           IN  /\ TargetDelay(delay) \in Nat
               /\ goes => TargetDelay(delay) = delay
               /\ ~ goes => /\ vid \in Nat /\ main \in Nat /\ scenario.master # "video"
                            /\ diff <= - SyncThreshold(delay) =>
                                  TargetDelay(delay) = IF delay + diff >= 0 THEN delay + diff ELSE 0
                            /\ - SyncThreshold(delay) < diff /\ diff < SyncThreshold(delay) =>
                                  TargetDelay(delay) = delay
                            /\ diff > - SyncThreshold(delay) /\ diff >= SyncThreshold(delay) =>
                                  TargetDelay(delay) = IF delay > FrameDup THEN delay + diff ELSE 2 * delay
<1> DEFINE vid  == GetClock("vid")
           main == GetClock(MasterClock)
           diff == vid - main
           thr  == SyncThreshold(delay)
           goes == \/ scenario.master = "video" \/ NAN \in {vid, main}
                   \/ diff >= NoSync \/ -diff >= NoSync
           to   == CASE goes -> delay
                   [] OTHER -> IF diff <= - thr THEN Max({0, delay + diff})
                               ELSE IF diff < thr THEN delay
                               ELSE IF delay > FrameDup THEN delay + diff ELSE 2 * delay
<1>1. MasterClock \in Clocks /\ "vid" \in Clocks
  BY DEF MasterClock, Clocks
<1>2. vid \in Nat \cup {NAN} /\ main \in Nat \cup {NAN}
  BY <1>1, ReadsIs
<1>3. thr \in Nat
  BY ThresholdIs
<1>4. TargetDelay(delay) = to
  BY DEF TargetDelay
<1>5. NoSync \in Nat /\ FrameDup \in Nat /\ NAN \in Int
  BY ConstantFacts DEF NAN
<1> HIDE DEF vid, main, thr
<1>6. CASE goes
  <2>1. to = delay BY <1>6
  <2> QED BY <1>4, <1>6, <2>1 DEF vid, main, thr
<1>7. CASE ~ goes
  <2>1. vid \in Nat /\ main \in Nat /\ scenario.master # "video"
    BY <1>2, <1>7
  <2>2. diff \in Int /\ delay + diff \in Int
    BY <2>1
  <2>3. Max({0, delay + diff}) = IF 0 <= delay + diff THEN delay + diff ELSE 0
    BY <2>2, GreatestOfTwo
  <2>4. to = IF diff <= - thr THEN Max({0, delay + diff})
             ELSE IF diff < thr THEN delay
             ELSE IF delay > FrameDup THEN delay + diff ELSE 2 * delay
    BY <1>7
  <2> HIDE DEF to, goes
  <2>5. /\ to \in Nat
        /\ diff <= - thr => to = IF delay + diff >= 0 THEN delay + diff ELSE 0
        /\ - thr < diff /\ diff < thr => to = delay
        /\ diff > - thr /\ diff >= thr => to = IF delay > FrameDup THEN delay + diff ELSE 2 * delay
    BY <1>3, <1>5, <2>2, <2>3, <2>4
  <2>6. TargetDelay(delay) = to
    BY <1>4 DEF goes, to
  <2> QED BY <1>7, <2>1, <2>5, <2>6 DEF vid, main, thr, goes
<1> QED BY <1>6, <1>7

LEMMA NewTimerIs ==
    ASSUME RefreshTypeOK
    PROVE  /\ NewTimer \in Int /\ NewTimer <= time
           /\ shown.serial # Picture.serial => NewTimer = time
           /\ shown.serial = Picture.serial =>
                 NewTimer = IF time <= frame_timer THEN time ELSE frame_timer
BY StateFields, LeastOfTwo DEF NewTimer

\* Of pictures of one serial the next one is a frame later.
LEMMA DelayIs ==
    ASSUME RefreshTypeOK, InTime, PicturesInv, pictures # << >>
    PROVE  /\ shown.serial # Picture.serial => VpDuration(shown, Picture) = 0
           /\ shown.serial = Picture.serial => /\ Picture.pts = shown.pts + FrameTime
                                               /\ VpDuration(shown, Picture) = FrameTime
           /\ VpDuration(shown, Picture) \in Nat /\ Delay \in Nat
           /\ shown.serial <= Picture.serial /\ Picture.serial <= serial
           /\ shown.serial # Picture.serial /\ Picture.serial = serial => Picture.pts = seek_pos
<1>1. /\ Len(pictures) >= 1 /\ Len(pictures) \in Nat /\ Picture = pictures[1]
      /\ Picture.pts \in Nat /\ Picture.serial \in Nat
  BY QueueFields
<1>2. Follows(shown, Picture)
  <2>1. 1 \in 1 .. Len(pictures)
    BY <1>1
  <2> QED BY <1>1, <2>1 DEF PicturesInv
<1>3. shown.pts \in Nat /\ FrameTime \in Nat /\ FrameTime > 0
  BY StateFields, ConstantFacts
<1>4. /\ shown.serial # Picture.serial => VpDuration(shown, Picture) = 0
      /\ shown.serial = Picture.serial => /\ Picture.pts = shown.pts + FrameTime
                                          /\ VpDuration(shown, Picture) = FrameTime
  BY <1>1, <1>2, <1>3 DEF VpDuration, Follows
<1>5. VpDuration(shown, Picture) \in Nat
  BY <1>3, <1>4
<1> QED BY <1>2, <1>4, <1>5, TargetDelayIs DEF Delay, Follows

\* What is remembered.
LEMMA RememberIs ==
    ASSUME RefreshTypeOK, Remember, time' \in {time, time + 1}
    PROVE  /\ since' \in [calm : Nat, moved : Nat, slipped : BOOLEAN] /\ since'.calm <= CalmTime
           /\ Disturbed => since'.calm = 0
           /\ ~ Disturbed /\ time' = time => since'.calm = since.calm
           /\ ~ Disturbed /\ time' # time =>
                 since'.calm = IF since.calm + 1 <= CalmTime THEN since.calm + 1 ELSE CalmTime
           /\ since'.moved = IF switches.paused /\ switches'.paused /\ serial' = serial
                             THEN since.moved + (IF Position' # Position THEN 1 ELSE 0) ELSE 0
           /\ since'.slipped = IF refresh = "displays" /\ refresh' = "idle"
                               THEN text' # NoText /\ (since.slipped \/ shown.serial # Head(texts).serial)
                               ELSE text' # NoText /\ since.slipped
<1> DEFINE c == IF Disturbed THEN 0
                ELSE IF time' # time THEN Min({since.calm + 1, CalmTime}) ELSE since.calm
           m == IF switches.paused /\ switches'.paused /\ serial' = serial
                THEN since.moved + (IF Position' # Position THEN 1 ELSE 0) ELSE 0
           s == IF refresh = "displays" /\ refresh' = "idle"
                THEN text' # NoText /\ (since.slipped \/ shown.serial # Head(texts).serial)
                ELSE text' # NoText /\ since.slipped
<1>1. since' = [calm |-> c, moved |-> m, slipped |-> s]
  BY DEF Remember
<1>2. since.calm \in Nat /\ since.calm <= CalmTime /\ since.moved \in Nat /\ CalmTime \in Nat
  BY StateFields, ConstantFacts
<1>3. Min({since.calm + 1, CalmTime}) = IF since.calm + 1 <= CalmTime THEN since.calm + 1 ELSE CalmTime
  BY <1>2, LeastOfTwo
<1>4. c \in Nat /\ c <= CalmTime
  BY <1>2, <1>3
<1>5. m \in Nat
  BY <1>2
<1>6. s \in BOOLEAN
  BY StateFields
<1>7. /\ Disturbed => c = 0
      /\ ~ Disturbed /\ time' = time => c = since.calm
      /\ ~ Disturbed /\ time' # time =>
            c = IF since.calm + 1 <= CalmTime THEN since.calm + 1 ELSE CalmTime
  BY <1>3
<1> HIDE DEF c, m, s
<1>8. since'.calm = c /\ since'.moved = m /\ since'.slipped = s
  BY <1>1
<1>9. since' \in [calm : Nat, moved : Nat, slipped : BOOLEAN]
  BY <1>1, <1>4, <1>5, <1>6
<1>10. /\ Disturbed => since'.calm = 0
       /\ ~ Disturbed /\ time' = time => since'.calm = since.calm
       /\ ~ Disturbed /\ time' # time =>
             since'.calm = IF since.calm + 1 <= CalmTime THEN since.calm + 1 ELSE CalmTime
  BY <1>7, <1>8
<1>11. since'.calm <= CalmTime
  BY <1>4, <1>8
<1> QED BY <1>8, <1>9, <1>10, <1>11 DEF m, s

LEMMA UndisturbedIs ==
    ASSUME RefreshTypeOK, scenario' \in Budgets, ~ Disturbed
    PROVE  /\ scenario'.late = scenario.late /\ scenario'.togglings = scenario.togglings
           /\ scenario'.jumps = scenario.jumps
           /\ GetClock("vid") # NAN /\ GetClock(MasterClock) # NAN
<1> DEFINE a == [scenario' EXCEPT !.texts = 0]
           b == [scenario EXCEPT !.texts = 0]
<1>1. a = b
  BY DEF Disturbed
<1>2. b.late = scenario.late /\ b.togglings = scenario.togglings /\ b.jumps = scenario.jumps
  BY DEF RefreshTypeOK, Budgets
<1>3. a.late = scenario'.late /\ a.togglings = scenario'.togglings /\ a.jumps = scenario'.jumps
  BY DEF Budgets
<1> HIDE DEF a, b
<1>4. /\ scenario'.late = scenario.late /\ scenario'.togglings = scenario.togglings
      /\ scenario'.jumps = scenario.jumps
  BY <1>1, <1>2, <1>3
<1>5. GetClock("vid") # NAN /\ GetClock(MasterClock) # NAN
  BY DEF Disturbed
<1> QED BY <1>4, <1>5

-----------------------------------------------------------------------------
(* The types hold. *)
LEMMA ClocksTell == ClocksInv => InTime
BY DEF ClocksInv

\* All but what is remembered.
StateOK ==
    /\ time \in Nat /\ scenario \in Budgets /\ clock \in [Clocks -> Clips]
    /\ serial \in Nat /\ seek_pos \in Nat /\ switches \in Switches /\ frame_timer \in Int
    /\ pictures \in Seq(Shots) /\ shown \in Shots /\ refresh \in {"idle", "shows", "displays"}
    /\ upcoming \in [pts : Nat, sound : Nat, text : Nat] /\ upcoming.text <= Len(Texts)
    /\ sound \in Sounds /\ texts \in Seq(Lines) /\ text \in 0 .. Len(Texts)

LEMMA SpendsOne ==
    ASSUME RefreshTypeOK, NEW n \in Nat
    PROVE  /\ [scenario EXCEPT !.togglings = n] \in Budgets /\ [scenario EXCEPT !.jumps = n] \in Budgets
           /\ [scenario EXCEPT !.texts = n] \in Budgets /\ [scenario EXCEPT !.late = n] \in Budgets
BY DEF RefreshTypeOK, Budgets

LEMMA TypeSwitches ==
    ASSUME RefreshTypeOK, SwitchesInv, InTime, Toggle \/ \E t \in {0, FrameTime} : Jump(t)
    PROVE  StateOK' /\ time' = time
<1>1. CASE Toggle
  <2>0. scenario.togglings - 1 \in Nat
    BY <1>1, StateFields DEF Toggle
  <2>1. scenario' \in Budgets
    <3> DEFINE n == scenario.togglings - 1
    <3>1. scenario' = [scenario EXCEPT !.togglings = n]
      BY <1>1 DEF Toggle
    <3> HIDE DEF n
    <3> QED BY <2>0, <3>1, SpendsOne DEF n
  <2>2. switches' \in Switches /\ (clock' = SetClocks({"ext"}) \/ clock' = SetClocks(Clocks))
        /\ frame_timer' = frame_timer
    BY <1>1, ToggleIs DEF Pressed
  <2>3. clock' \in [Clocks -> Clips] /\ frame_timer' \in Int
    BY <2>2, SetClocksIs, StateFields
  <2> QED BY <1>1, <2>1, <2>2, <2>3 DEF Toggle, RefreshTypeOK, StateOK
<1>2. ASSUME NEW t \in {0, FrameTime}, Jump(t) PROVE StateOK' /\ time' = time
  <2> DEFINE new == ResumeOrStep(switches, FALSE)
  <2>0. t \in Nat /\ time \in Nat
    BY ConstantFacts, StateFields
  <2>1. scenario' \in Budgets
    <3> DEFINE n == scenario.jumps - 1
    <3>0. n \in Nat
      BY <1>2, StateFields DEF Jump
    <3>1. scenario' = [scenario EXCEPT !.jumps = n]
      BY <1>2 DEF Jump
    <3> HIDE DEF n
    <3> QED BY <3>0, <3>1, SpendsOne
  <2>2. switches' = new /\ new \in Switches
    BY <1>2, ResumeOrStepIs DEF Jump, Pressed
  <2>3. upcoming' \in [pts : Nat, sound : Nat, text : Nat] /\ upcoming'.text <= Len(Texts)
    <3>1. FirstText(t) \in Nat /\ FirstText(t) <= Len(Texts)
      BY <2>0, FirstTextIs, ConstantFacts
    <3> QED BY <1>2, <2>0, <3>1 DEF Jump
  <2>4. clock' \in [Clocks -> Clips]
    <3>1. /\ ClockAt(t, 0, time) \in Clips
          /\ \A c \in Clocks : clock[c] \in Clips /\ ClockAt(NAN, clock[c].serial, time) \in Clips
      BY <2>0, StateFields DEF ClockAt, Clips, RefreshTypeOK
    <3>2. clock' = [c \in Clocks |-> CASE c = "ext" -> ClockAt(t, 0, time)
                                       [] c # "ext" /\ Resumes(new) -> ClockAt(NAN, clock[c].serial, time)
                                       [] OTHER -> clock[c]]
      BY <1>2 DEF Jump
    <3> HIDE DEF new
    <3> QED BY <3>1, <3>2
  <2>5. frame_timer' \in Int
    <3>1. clock["vid"].last_updated \in Nat /\ frame_timer \in Int
      BY StateFields DEF Clocks
    <3>2. frame_timer' = IF Resumes(new) THEN frame_timer + time - clock["vid"].last_updated ELSE frame_timer
      BY <1>2 DEF Jump
    <3> DEFINE l == clock["vid"].last_updated
    <3>3. frame_timer' = frame_timer + time - l \/ frame_timer' = frame_timer
      BY <3>2
    <3> HIDE DEF l
    <3>4. l \in Nat /\ frame_timer \in Int
      BY <3>1 DEF l
    <3> QED BY <2>0, <3>3, <3>4
  <2>6. serial' \in Nat /\ seek_pos' \in Nat
    BY <1>2, <2>0, StateFields DEF Jump
  <2> QED BY <1>2, <2>1, <2>2, <2>3, <2>4, <2>5, <2>6 DEF Jump, RefreshTypeOK, StateOK
<1> QED BY <1>1, <1>2

LEMMA TypeDecoders ==
    ASSUME RefreshTypeOK, ClocksInv, Decode \/ PushText \/ SoundBegins \/ SoundEnds
    PROVE  StateOK' /\ time' = time
<1>0. /\ upcoming \in [pts : Nat, sound : Nat, text : Nat] /\ FrameTime \in Nat /\ Period \in Nat
      /\ time \in Nat /\ serial \in Nat
  BY ConstantFacts DEF RefreshTypeOK
<1>1. CASE Decode
  <2>1. [pts |-> upcoming.pts, serial |-> serial] \in Shots
    BY <1>0 DEF Shots
  <2>2. pictures' \in Seq(Shots)
    BY <1>1, <2>1, AppendProperties DEF Decode, RefreshTypeOK
  <2>3. upcoming' \in [pts : Nat, sound : Nat, text : Nat] /\ upcoming'.text = upcoming.text
    BY <1>0, <1>1 DEF Decode
  <2> QED BY <1>1, <2>2, <2>3 DEF Decode, RefreshTypeOK, StateOK
<1>2. CASE PushText
  <2>1. upcoming.text + 1 \in 1 .. Len(Texts)
    <3>1. upcoming.text \in Nat /\ upcoming.text < Len(Texts) /\ Len(Texts) \in Nat
      BY <1>0, <1>2, ConstantFacts DEF PushText
    <3> QED BY <3>1
  <2>2. [n |-> upcoming.text + 1, serial |-> serial, uploaded |-> FALSE] \in Lines
    BY <1>0, <2>1 DEF Lines
  <2>3. texts' \in Seq(Lines)
    BY <1>2, <2>2, AppendProperties DEF PushText, RefreshTypeOK
  <2>4. upcoming' \in [pts : Nat, sound : Nat, text : Nat] /\ upcoming'.text <= Len(Texts)
    <3>1. upcoming' = [upcoming EXCEPT !.text = upcoming.text + 1] /\ upcoming.text + 1 \in Nat
          /\ upcoming.text + 1 <= Len(Texts)
      BY <1>2, <2>1, ConstantFacts DEF PushText
    <3> QED BY <1>0, <3>1
  <2>5. scenario' \in Budgets
    <3> DEFINE n == scenario.texts - 1
    <3>a. scenario.texts > 0
      BY <1>2 DEF PushText
    <3>b. scenario.texts \in Nat
      BY StateFields
    <3>0. n \in Nat
      BY <3>a, <3>b
    <3>1. scenario' = [scenario EXCEPT !.texts = n]
      BY <1>2 DEF PushText
    <3> HIDE DEF n
    <3> QED BY <3>0, <3>1, SpendsOne
  <2> QED BY <1>2, <2>3, <2>4, <2>5 DEF PushText, RefreshTypeOK, StateOK
<1>3. CASE SoundBegins
  <2>1. upcoming' \in [pts : Nat, sound : Nat, text : Nat] /\ upcoming'.text = upcoming.text
    BY <1>0, <1>3 DEF SoundBegins
  <2>2. sound' \in Sounds
    BY <1>0, <1>3 DEF SoundBegins, Sounds
  <2> QED BY <1>3, <2>1, <2>2 DEF SoundBegins, RefreshTypeOK, StateOK
<1>4. CASE SoundEnds
  <2>1. sound' \in Sounds
    BY <1>4 DEF SoundEnds, Sounds, RefreshTypeOK
  <2>2. sound.clock - Period \in Nat /\ sound.serial \in Nat /\ sound.at \in Nat /\ sound.at <= time
    BY <1>0, <1>4, StateFields DEF SoundEnds, ClocksInv, SoundInv
  <2>3. clock' \in [Clocks -> Clips]
    BY <1>4, <2>2, SetAndSyncIs, ClocksTell DEF SoundEnds
  <2> QED BY <1>4, <2>1, <2>3 DEF SoundEnds, RefreshTypeOK, StateOK
<1> QED BY <1>1, <1>2, <1>3, <1>4

LEMMA TypeRefresh ==
    ASSUME RefreshTypeOK, InTime, PicturesInv, SwitchesInv, RefreshThread
    PROVE  StateOK' /\ time' = time
<1>0. time \in Nat /\ serial \in Nat /\ frame_timer \in Int
  BY StateFields
<1>1. ASSUME pictures # << >> PROVE Tail(pictures) \in Seq(Shots) /\ Picture \in Shots
  BY <1>1, QueueFields, HeadTailProperties DEF RefreshTypeOK
<1>2. ASSUME pictures # << >> PROVE Delay \in Nat /\ NewTimer \in Int
  BY <1>2, DelayIs, NewTimerIs
<1>3. CASE RefreshSkipsOld
  <2>1. pictures # << >>
    BY <1>3 DEF RefreshSkipsOld, OldPicture, RefreshIdle
  <2> QED BY <1>1, <1>3, <2>1 DEF RefreshSkipsOld, TakePicture, RefreshTypeOK, StateOK
<1>4. CASE RefreshDecides
  <2>1. pictures # << >>
    BY <1>4 DEF RefreshDecides, PictureDue, RefreshIdle
  <2>2. frame_timer' \in Int
    BY <1>0, <1>2, <1>4, <2>1 DEF RefreshDecides
  <2> QED BY <1>4, <2>2 DEF RefreshDecides, RefreshTypeOK, StateOK
<1>5. CASE RefreshWaits
  <2>1. pictures # << >>
    BY <1>5 DEF RefreshWaits, RefreshIdle
  <2>2. frame_timer' \in Int
    BY <1>2, <1>5, <2>1 DEF RefreshWaits
  <2> QED BY <1>5, <2>2 DEF RefreshWaits, RefreshTypeOK, StateOK
<1>6. CASE RefreshShows
  <2>1. pictures # << >>
    BY <1>6 DEF RefreshShows, PicturesInv
  <2>2. Picture.pts \in Nat /\ Picture.serial \in Nat
    BY <2>1, QueueFields
  <2>3. clock' \in [Clocks -> Clips]
    <3> DEFINE p == Picture.pts
               n == Picture.serial
    <3>1. clock' = SetAndSync("vid", ClockAt(p, n, time))
      BY <1>6 DEF RefreshShows
    <3>2. p \in Nat /\ n \in Nat /\ time \in Nat /\ time <= time
      BY <1>0, <2>2
    <3> HIDE DEF p, n
    <3> QED BY <3>1, <3>2, SetAndSyncIs
  <2>4. texts' \in Seq(Lines)
    <3>1. FirstLeft \in 1 .. Len(texts) + 1 /\ Len(texts) \in Nat
      BY FirstLeftIs, TextFields
    <3>2. \A i \in FirstLeft .. Len(texts) : texts[i] \in Lines
      BY <3>1, TextFields
    <3>3. SubSeq(texts, FirstLeft, Len(texts)) \in Seq(Lines)
      BY <3>1, <3>2, SubSeqProperties DEF RefreshTypeOK
    <3> QED BY <1>6, <3>3 DEF RefreshShows, RefreshTypeOK
  <2>5. text' \in 0 .. Len(Texts) /\ refresh' \in {"idle", "shows", "displays"}
    BY <1>6, ConstantFacts DEF RefreshShows, RefreshTypeOK, NoText
  <2>6. pictures' \in Seq(Shots) /\ shown' \in Shots
    BY <1>1, <1>6, <2>1 DEF RefreshShows, TakePicture
  <2> QED BY <1>6, <2>3, <2>4, <2>5, <2>6 DEF RefreshShows, RefreshTypeOK, StateOK
<1>7. CASE RefreshDisplays
  <2>1. switches' \in Switches /\ clock' \in [Clocks -> Clips] /\ frame_timer' \in Int
    <3>1. switches' \in Switches /\ frame_timer' = frame_timer
          /\ (clock' = clock \/ clock' = SetClocks({"ext"}))
      BY <1>7, ShownIs DEF Pressed
    <3>2. clock \in [Clocks -> Clips]
      BY DEF RefreshTypeOK
    <3> QED BY <1>0, <3>1, <3>2, SetClocksIs
  <2>2. texts' \in Seq(Lines) /\ text' \in 0 .. Len(Texts)
    <3>1. CASE texts' = texts /\ text' = text
      BY <3>1 DEF RefreshTypeOK
    <3>2. CASE texts # << >> /\ texts' = [texts EXCEPT ![1].uploaded = TRUE] /\ text' = Head(texts).n
      <4>1. Len(texts) >= 1 /\ Len(texts) \in Nat /\ texts[1] \in Lines /\ Head(texts) = texts[1]
        BY <3>2, TextFields
      <4>2. [texts[1] EXCEPT !.uploaded = TRUE] \in Lines
        BY <4>1 DEF Lines
      <4>3. texts' = [texts EXCEPT ![1] = [texts[1] EXCEPT !.uploaded = TRUE]]
        BY <3>2
      <4>4. texts' \in Seq(Lines)
        BY <4>1, <4>2, <4>3, ExceptSeq DEF RefreshTypeOK
      <4>5. text' \in 1 .. Len(Texts)
        BY <3>2, <4>1 DEF Lines
      <4> QED BY <4>4, <4>5, ConstantFacts
    <3> QED BY <1>7, <3>1, <3>2 DEF RefreshDisplays
  <2>3. refresh' = "idle"
    BY <1>7 DEF RefreshDisplays
  <2> QED BY <1>7, <2>1, <2>2, <2>3 DEF RefreshDisplays, RefreshTypeOK, StateOK
<1> QED BY <1>3, <1>4, <1>5, <1>6, <1>7 DEF RefreshThread

LEMMA WaitLess ==
    ASSUME RefreshTypeOK
    PROVE  Max({0, sound.wait - 1}) = IF sound.wait = 0 THEN 0 ELSE sound.wait - 1
<1>1. sound.wait \in Nat
  BY StateFields
<1>2. Max({0, sound.wait - 1}) = IF 0 <= sound.wait - 1 THEN sound.wait - 1 ELSE 0
  BY <1>1, GreatestOfTwo
<1> QED BY <1>1, <1>2

LEMMA TickIs ==
    ASSUME RefreshTypeOK, Tick
    PROVE  /\ sound'.pc = sound.pc /\ sound'.clock = sound.clock /\ sound'.serial = sound.serial
           /\ sound'.at = sound.at /\ sound' \in Sounds
           /\ sound'.wait = IF switches.aout_paused \/ sound.wait = 0 THEN sound.wait ELSE sound.wait - 1
           /\ time' = time + 1 /\ scenario' \in Budgets
           /\ AllDone => scenario' = scenario
           /\ ~ AllDone => /\ scenario.late > 0 /\ scenario'.late = scenario.late - 1
                           /\ scenario'.togglings = scenario.togglings
                           /\ scenario'.master = scenario.master
           /\ scenario'.master = scenario.master
<1>1. sound \in Sounds /\ sound.wait \in Nat /\ sound.wait <= Period /\ Period \in Nat
  BY StateFields, ConstantFacts DEF RefreshTypeOK
<1>2. sound' = IF switches.aout_paused THEN sound ELSE [sound EXCEPT !.wait = Max({0, sound.wait - 1})]
  BY DEF Tick
<1> DEFINE Kept == /\ sound'.pc = sound.pc /\ sound'.clock = sound.clock
                   /\ sound'.serial = sound.serial /\ sound'.at = sound.at /\ sound' \in Sounds
           w    == IF sound.wait = 0 THEN 0 ELSE sound.wait - 1
<1>3. ASSUME switches.aout_paused PROVE Kept /\ sound'.wait = sound.wait
  BY <1>1, <1>2, <1>3
<1>4. w \in 0 .. Period
  BY <1>1
<1>5. ASSUME ~ switches.aout_paused PROVE Kept /\ sound'.wait = w
  <2>1. sound' = [sound EXCEPT !.wait = w]
    BY <1>2, <1>5, WaitLess
  <2> HIDE DEF w
  <2>2. sound'.wait = w /\ Kept
    BY <1>1, <1>4, <2>1 DEF Sounds
  <2> QED BY <2>2
<1>6. /\ sound'.pc = sound.pc /\ sound'.clock = sound.clock /\ sound'.serial = sound.serial
      /\ sound'.at = sound.at /\ sound' \in Sounds
      /\ sound'.wait = IF switches.aout_paused \/ sound.wait = 0 THEN sound.wait ELSE sound.wait - 1
  <2>1. CASE switches.aout_paused
    BY <1>3, <2>1
  <2>2. CASE ~ switches.aout_paused
    BY <1>1, <1>5, <2>2
  <2> QED BY <2>1, <2>2
<1>7. scenario \in Budgets /\ scenario.late \in Nat
  BY StateFields DEF RefreshTypeOK
<1>8. /\ AllDone => scenario' = scenario
      /\ ~ AllDone => scenario.late > 0 /\ scenario' = [scenario EXCEPT !.late = scenario.late - 1]
  BY DEF Tick
<1>9. /\ ~ AllDone => /\ scenario'.late = scenario.late - 1 /\ scenario'.togglings = scenario.togglings
                      /\ scenario'.master = scenario.master
      /\ scenario' \in Budgets
  BY <1>7, <1>8 DEF Budgets
<1> QED BY <1>6, <1>8, <1>9 DEF Tick

LEMMA RefreshTypeStep ==
    ASSUME RefreshTypeOK, ClocksInv, PicturesInv, SwitchesInv, RefreshNext
    PROVE  RefreshTypeOK' /\ time' \in {time, time + 1}
<1>1. StateOK' /\ time' \in {time, time + 1}
  <2>1. CASE Tick
    BY <2>1, TickIs DEF Tick, StateOK, RefreshTypeOK
  <2>2. CASE ~ Tick
    BY <2>2, TypeSwitches, TypeDecoders, TypeRefresh, ClocksTell DEF RefreshNext
  <2> QED BY <2>1, <2>2
<1>2. since' \in [calm : Nat, moved : Nat, slipped : BOOLEAN] /\ since'.calm <= CalmTime
  BY <1>1, RememberIs DEF RefreshNext
<1> QED BY <1>1, <1>2 DEF StateOK, RefreshTypeOK

-----------------------------------------------------------------------------
(* The pictures, the switches and the clocks. *)

LEMMA PicturesStep ==
    ASSUME RefreshTypeOK, PicturesInv, RefreshNext, RefreshTypeOK'
    PROVE  PicturesInv'
<1> DEFINE n == Len(pictures)
           Last == IF pictures = << >> THEN shown ELSE pictures[n]
<1>0. /\ n \in Nat /\ (pictures # << >> => n >= 1 /\ Picture = pictures[1]) /\ (pictures = << >> => n = 0)
      /\ upcoming.pts \in Nat /\ serial \in Nat /\ FrameTime \in Nat /\ shown.serial \in Nat
      /\ \A i \in 1 .. n : pictures[i].serial \in Nat
  BY QueueFields, StateFields, ConstantFacts
<1>a. /\ \A i \in 1 .. n : Follows(IF i = 1 THEN shown ELSE pictures[i - 1], pictures[i])
      /\ Follows(Last, Next1) /\ serial >= 1 /\ (refresh = "shows" => pictures # << >>)
  BY DEF PicturesInv
<1>b. pictures' \in Seq(Shots) /\ pictures \in Seq(Shots)
  BY DEF RefreshTypeOK
<1>1. CASE UNCHANGED <<pictures, shown, serial, seek_pos, upcoming.pts>>
           /\ (refresh' = "shows" => refresh = "shows" \/ pictures # << >>)
  BY <1>1, <1>a DEF PicturesInv, Follows, Next1
<1>2. CASE \E t \in {0, FrameTime} : Jump(t)
  <2>1. PICK t \in {0, FrameTime} : Jump(t)
    BY <1>2
  <2>2. /\ serial' = serial + 1 /\ seek_pos' = t /\ upcoming'.pts = t
        /\ pictures' = pictures /\ shown' = shown /\ refresh' = refresh
    BY <2>1 DEF Jump
  <2>3. \A a, b : Follows(a, b) /\ a.serial \in Nat /\ b.serial \in Nat =>
           /\ a.serial <= b.serial /\ b.serial <= serial' /\ b.serial # serial'
           /\ a.serial = b.serial => b.pts = a.pts + FrameTime
    BY <1>0, <2>2 DEF Follows
  <2>4. Last.serial \in Nat /\ Last.serial <= serial
    BY <1>0, <1>a DEF Follows, Next1
  <2>5. \A i \in 1 .. n : LET a == IF i = 1 THEN shown ELSE pictures[i - 1]
                          IN  Follows(a, pictures[i]) /\ a.serial \in Nat /\ pictures[i].serial \in Nat
    BY <1>0, <1>a
  <2>6. \A i \in 1 .. n : (Follows(IF i = 1 THEN shown ELSE pictures[i - 1], pictures[i]))'
    <3> TAKE i \in 1 .. n
    <3> DEFINE a == IF i = 1 THEN shown ELSE pictures[i - 1]
    <3>1. Follows(a, pictures[i]) /\ a.serial \in Nat /\ pictures[i].serial \in Nat
      BY <2>5
    <3>2. (IF i = 1 THEN shown' ELSE pictures'[i - 1]) = a /\ pictures'[i] = pictures[i]
      BY <2>2
    <3> HIDE DEF a
    <3>3. /\ a.serial <= pictures[i].serial /\ pictures[i].serial <= serial' /\ pictures[i].serial # serial'
          /\ a.serial = pictures[i].serial => pictures[i].pts = a.pts + FrameTime
      BY <2>3, <3>1
    <3> QED BY <3>2, <3>3 DEF Follows
  <2>7. Follows(Last, Next1)'
    BY <1>0, <2>2, <2>4 DEF Follows, Next1
  <2> QED BY <1>0, <1>a, <2>2, <2>6, <2>7 DEF PicturesInv
<1>3. CASE Decode
  <2>1. /\ pictures' = Append(pictures, Next1) /\ upcoming'.pts = upcoming.pts + FrameTime
        /\ serial' = serial /\ seek_pos' = seek_pos /\ shown' = shown /\ refresh' = refresh
    BY <1>3 DEF Decode, Next1, RefreshTypeOK
  <2>2. Next1 \in Shots
    BY <1>0 DEF Next1, Shots
  <2>3. /\ Len(pictures') = n + 1 /\ pictures' # << >> /\ pictures'[n + 1] = Next1
        /\ \A i \in 1 .. n : pictures'[i] = pictures[i]
    BY <1>b, <2>1, <2>2, AppendProperties
  <2>4. \A i \in 1 .. Len(pictures') : (Follows(IF i = 1 THEN shown ELSE pictures[i - 1], pictures[i]))'
    <3> TAKE i \in 1 .. Len(pictures')
    <3>1. CASE i = n + 1
      <4>1. (IF i = 1 THEN shown' ELSE pictures'[i - 1]) = Last
        BY <1>0, <2>1, <2>3, <3>1
      <4>2. pictures'[i] = Next1
        BY <2>3, <3>1
      <4> QED BY <1>a, <2>1, <4>1, <4>2 DEF Follows
    <3>2. CASE i # n + 1
      <4>1. i \in 1 .. n /\ (i # 1 => i - 1 \in 1 .. n)
        BY <1>0, <2>3, <3>2
      <4>2. (IF i = 1 THEN shown' ELSE pictures'[i - 1]) = IF i = 1 THEN shown ELSE pictures[i - 1]
        BY <2>1, <2>3, <4>1
      <4>3. pictures'[i] = pictures[i]
        BY <2>3, <4>1
      <4> QED BY <1>a, <2>1, <4>1, <4>2, <4>3 DEF Follows
    <3> QED BY <3>1, <3>2
  <2>5. Follows(Last, Next1)'
    BY <1>0, <2>1, <2>3 DEF Follows, Next1
  <2> QED BY <1>a, <2>1, <2>3, <2>4, <2>5 DEF PicturesInv
<1>4. CASE pictures # << >> /\ TakePicture /\ UNCHANGED <<serial, seek_pos, upcoming.pts>> /\ refresh' # "shows"
  <2>1. /\ Len(pictures') = n - 1 /\ \A i \in 1 .. n - 1 : pictures'[i] = pictures[i + 1]
        /\ shown' = pictures[1]
    BY <1>0, <1>4, <1>b, HeadTailProperties DEF TakePicture
  <2>2. \A i \in 1 .. Len(pictures') : (Follows(IF i = 1 THEN shown ELSE pictures[i - 1], pictures[i]))'
    <3> TAKE i \in 1 .. Len(pictures')
    <3>1. i + 1 \in 1 .. n /\ i + 1 # 1 /\ (i + 1) - 1 = i /\ i \in 1 .. n - 1 /\ (i # 1 => i - 1 \in 1 .. n - 1)
      BY <1>0, <2>1
    <3>2. (IF i = 1 THEN shown' ELSE pictures'[i - 1]) = pictures[i]
      <4>1. CASE i = 1 BY <4>1, <2>1
      <4>2. CASE i # 1 
        <5>1. pictures'[i - 1] = pictures[(i - 1) + 1] /\ (i - 1) + 1 = i
          BY <2>1, <3>1, <4>2
        <5> QED BY <4>2, <5>1
      <4> QED BY <4>1, <4>2
    <3>3. Follows(pictures[i], pictures[i + 1]) /\ pictures'[i] = pictures[i + 1]
      BY <1>a, <2>1, <3>1
    <3> QED BY <1>4, <3>2, <3>3 DEF Follows
  <2>3. (IF pictures' = << >> THEN shown' ELSE pictures'[n - 1]) = Last
    <3>1. CASE pictures' = << >>
      <4>1. n = 1
        BY <1>0, <1>4, <2>1, <3>1
      <4> QED BY <1>4, <2>1, <3>1, <4>1
    <3>2. CASE pictures' # << >>
      <4>1. n - 1 \in 1 .. n - 1
        BY <1>0, <1>b, <2>1, <3>2, EmptySeq
      <4>2. pictures'[n - 1] = pictures[(n - 1) + 1] /\ (n - 1) + 1 = n
        BY <1>0, <2>1, <4>1
      <4> QED BY <1>4, <3>2, <4>2
    <3> QED BY <3>1, <3>2
  <2>4. Follows(Last, Next1)'
    BY <1>4, <1>a, <2>1, <2>3 DEF Follows, Next1
  <2> QED BY <1>a, <1>4, <2>2, <2>4 DEF PicturesInv
<1>5. CASE Toggle \/ PushText \/ SoundBegins \/ SoundEnds \/ RefreshDecides \/ RefreshWaits \/ RefreshDisplays \/ Tick
  <2>1. upcoming \in [pts : Nat, sound : Nat, text : Nat]
    BY DEF RefreshTypeOK
  <2>2. UNCHANGED <<pictures, shown, serial, seek_pos, upcoming.pts>>
        /\ (refresh' = "shows" => refresh = "shows" \/ pictures # << >>)
    BY <1>5, <2>1 DEF Toggle, PushText, SoundBegins, SoundEnds, RefreshDecides, PictureDue, RefreshIdle,
        RefreshWaits, RefreshDisplays, Tick
  <2> QED BY <1>1, <2>2
<1>6. CASE RefreshSkipsOld \/ RefreshShows
  <2>1. pictures # << >> /\ TakePicture /\ UNCHANGED <<serial, seek_pos, upcoming.pts>> /\ refresh' # "shows"
    BY <1>6, <1>a DEF RefreshSkipsOld, RefreshShows, OldPicture, RefreshIdle
  <2> QED BY <1>4, <2>1
<1> QED BY <1>2, <1>3, <1>5, <1>6 DEF RefreshNext, RefreshThread

\* Of a queue the front keeps its place, and taking it makes it the picture that is shown.
LEMMA FrontIs ==
    ASSUME RefreshTypeOK, PicturesInv, RefreshTypeOK'
    PROVE  /\ pictures # << >> => /\ shown.serial <= Picture.serial /\ Picture.serial <= serial
                                  /\ shown.serial = Picture.serial => Picture.pts = shown.pts + FrameTime
                                  /\ shown.serial # Picture.serial /\ Picture.serial = serial =>
                                        Picture.pts = seek_pos
           /\ shown.serial <= serial
           /\ pictures # << >> /\ Decode => pictures' # << >> /\ Picture' = Picture
           /\ RefreshSkipsOld => /\ pictures # << >> /\ shown' = Picture /\ Picture.serial # serial
                                 /\ refresh = "idle" /\ ~ switches.paused
           /\ RefreshShows => pictures # << >> /\ shown' = Picture
<1>1. /\ Len(pictures) \in Nat /\ shown.serial \in Nat /\ serial \in Nat
      /\ \A i \in 1 .. Len(pictures) : pictures[i].serial \in Nat
      /\ pictures # << >> => Len(pictures) >= 1 /\ Picture = pictures[1] /\ Picture.serial \in Nat
  BY QueueFields, StateFields
<1>2. pictures # << >> => Follows(shown, Picture)
  BY <1>1 DEF PicturesInv
<1>3. shown.serial <= serial
  <2>1. CASE pictures = << >>
    BY <2>1 DEF PicturesInv, Follows, Next1
  <2>2. CASE pictures # << >>
    BY <2>2, <1>1, <1>2 DEF Follows
  <2> QED BY <2>1, <2>2
<1>4. pictures # << >> /\ Decode => pictures' # << >> /\ Picture' = Picture
  <2> SUFFICES ASSUME pictures # << >>, Decode PROVE pictures' # << >> /\ Picture' = Picture
    OBVIOUS
  <2>1. [pts |-> upcoming.pts, serial |-> serial] \in Shots
    BY StateFields DEF Shots
  <2>2. pictures' # << >> /\ pictures'[1] = pictures[1] /\ pictures' \in Seq(Shots)
    <3>1. pictures' = Append(pictures, [pts |-> upcoming.pts, serial |-> serial])
      BY DEF Decode
    <3>2. pictures \in Seq(Shots)
      BY DEF RefreshTypeOK
    <3>3. 1 \in 1 .. Len(pictures)
      BY <1>1
    <3> QED BY <2>1, <3>1, <3>2, <3>3, AppendProperties, EmptySeq
  <2>3. Head(pictures') = pictures'[1]
    BY <2>2, HeadTailProperties
  <2> QED BY <1>1, <2>2, <2>3 DEF Picture
<1>5. /\ RefreshSkipsOld => /\ pictures # << >> /\ shown' = Picture /\ Picture.serial # serial
                            /\ refresh = "idle" /\ ~ switches.paused
      /\ RefreshShows => pictures # << >> /\ shown' = Picture
  BY DEF RefreshSkipsOld, OldPicture, RefreshIdle, TakePicture, RefreshShows, PicturesInv
<1> QED BY <1>2, <1>3, <1>4, <1>5 DEF Follows

\* The front of the queue stays when nobody takes it.
LEMMA FrontStays ==
    ASSUME RefreshTypeOK, PicturesInv, RefreshTypeOK', RefreshNext,
           ~ RefreshSkipsOld, ~ RefreshShows
    PROVE  /\ pictures # << >> => pictures' # << >> /\ Picture' = Picture
           /\ shown' = shown
<1>1. CASE Decode
  BY <1>1, FrontIs DEF Decode
<1>2. CASE ~ Decode
  BY <1>2 DEF RefreshNext, RefreshThread, Toggle, Jump, PushText, SoundBegins, SoundEnds, RefreshDecides,
      RefreshWaits, RefreshDisplays, Tick, Picture
<1> QED BY <1>1, <1>2

LEMMA SwitchesStep ==
    ASSUME RefreshTypeOK, PicturesInv, SwitchesInv, ClocksInv, RefreshNext, RefreshTypeOK'
    PROVE  SwitchesInv'
<1>0. shown.serial <= serial /\ shown.serial \in Nat /\ serial \in Nat
  BY FrontIs, StateFields
<1>1. CASE Toggle
  <2>1. Pressed(switches', TRUE, FALSE, TRUE, TRUE, FALSE) \/ Pressed(switches', FALSE, FALSE, FALSE, FALSE, TRUE)
    BY <1>1, ToggleIs
  <2> QED BY <2>1 DEF Pressed, SwitchesInv
<1>2. CASE \E t \in {0, FrameTime} : Jump(t)
  <2>1. /\ Pressed(switches', switches.pause_req, switches.pause_req, FALSE, switches.aout_paused, FALSE)
        /\ switches.aout_paused = switches.pause_req
    BY <1>2, ResumeOrStepIs DEF Jump
  <2>2. shown' = shown /\ serial' = serial + 1
    BY <1>2 DEF Jump
  <2>3. shown'.serial # serial'
    BY <1>0, <2>2
  <2>4. switches'.pause_req = switches.pause_req /\ switches'.step = switches.pause_req
        /\ ~ switches'.paused /\ switches'.aout_paused = switches.pause_req
        /\ ~ switches'.auto_resume /\ ~ switches'.buffering_on
    BY <2>1, SwitchFields DEF Pressed
  <2>5. switches.pause_req \in BOOLEAN
    BY SwitchFields
  <2>6. switches'.paused = FALSE
    BY <2>1 DEF Pressed
  <2>7. CASE switches.pause_req
    BY <2>3, <2>4, <2>7 DEF SwitchesInv
  <2>8. CASE ~ switches.pause_req
    BY <2>3, <2>4, <2>5, <2>6, <2>8 DEF SwitchesInv
  <2> QED BY <2>7, <2>8
<1>3. CASE RefreshDisplays
  <2>1. Pressed(switches', switches.pause_req, FALSE, switches.pause_req, switches.aout_paused, switches.auto_resume)
    BY <1>3, ShownIs
  <2>2. switches.aout_paused = switches.pause_req
    BY SwitchFields DEF SwitchesInv
  <2> QED BY <2>1, <2>2 DEF Pressed, SwitchesInv
<1>4. CASE switches' = switches /\ (shown'.serial = serial' /\ switches.step => refresh' = "displays")
  BY <1>4 DEF SwitchesInv
<1>5. CASE RefreshSkipsOld
  BY <1>4, <1>5, FrontIs DEF RefreshSkipsOld
<1>6. CASE RefreshShows
  BY <1>4, <1>6 DEF RefreshShows, DropsPicture
<1>7. CASE RefreshDecides
  BY <1>4, <1>7 DEF RefreshDecides, PictureDue, RefreshIdle, SwitchesInv
<1>8. CASE Decode \/ PushText \/ SoundBegins \/ SoundEnds \/ RefreshWaits \/ Tick
  BY <1>4, <1>8 DEF Decode, PushText, SoundBegins, SoundEnds, RefreshWaits, Tick, SwitchesInv
<1> QED BY <1>1, <1>2, <1>3, <1>5, <1>6, <1>7, <1>8 DEF RefreshNext, RefreshThread

\* What becomes of the clocks.
LEMMA ClocksStay ==
    ASSUME RefreshTypeOK, Decode \/ PushText \/ SoundBegins \/ RefreshSkipsOld \/ RefreshDecides
                          \/ RefreshWaits \/ Tick
    PROVE  clock' = clock
BY DEF Decode, PushText, SoundBegins, RefreshSkipsOld, RefreshDecides, RefreshWaits, Tick

LEMMA ClocksAfterSwitches ==
    ASSUME RefreshTypeOK, SwitchesInv, InTime, Toggle \/ RefreshDisplays
    PROVE  /\ \A c \in {"vid", "aud"} : \/ clock'[c] = clock[c]
                                        \/ /\ Toggle /\ switches.pause_req /\ switches.aout_paused
                                           /\ clock'[c].pts = GetClock(c) /\ clock'[c].last_updated = time
                                           /\ clock'[c].serial = clock[c].serial
           /\ \/ clock'["ext"] = clock["ext"] /\ RefreshDisplays /\ ~ switches.step
              \/ /\ clock'["ext"].pts = GetClock("ext") /\ clock'["ext"].last_updated = time
                 /\ clock'["ext"].serial = clock["ext"].serial
           /\ \A c \in Clocks : clock'[c].last_updated <= time
           /\ time' = time /\ serial' = serial /\ shown' = shown /\ pictures' = pictures
           /\ frame_timer' = frame_timer /\ sound' = sound /\ upcoming' = upcoming /\ seek_pos' = seek_pos
           /\ scenario'.master = scenario.master
<1>0. scenario \in Budgets
  BY DEF RefreshTypeOK
<1>1. \/ clock' = clock /\ RefreshDisplays /\ ~ switches.step
      \/ clock' = SetClocks({"ext"})
      \/ clock' = SetClocks(Clocks) /\ Toggle /\ switches.pause_req /\ switches.aout_paused
  BY ToggleIs, ShownIs
<1>2. frame_timer' = frame_timer
  BY ToggleIs, ShownIs
<1>3. scenario'.master = scenario.master
  BY <1>0 DEF Toggle, RefreshDisplays, Budgets
<1>4. /\ time' = time /\ serial' = serial /\ shown' = shown /\ pictures' = pictures
      /\ sound' = sound /\ upcoming' = upcoming /\ seek_pos' = seek_pos
  BY DEF Toggle, RefreshDisplays
<1>5. /\ \A c \in {"vid", "aud"} : \/ clock'[c] = clock[c]
                                   \/ /\ Toggle /\ switches.pause_req /\ switches.aout_paused
                                      /\ clock'[c].pts = GetClock(c) /\ clock'[c].last_updated = time
                                      /\ clock'[c].serial = clock[c].serial
      /\ \/ clock'["ext"] = clock["ext"] /\ RefreshDisplays /\ ~ switches.step
         \/ /\ clock'["ext"].pts = GetClock("ext") /\ clock'["ext"].last_updated = time
            /\ clock'["ext"].serial = clock["ext"].serial
  BY <1>1, SetClocksIs DEF Clocks
<1>6. \A c \in Clocks : clock'[c].last_updated <= time
  BY <1>1, SetClocksIs DEF InTime
<1> QED BY <1>2, <1>3, <1>4, <1>5, <1>6

LEMMA ClocksAfterJump ==
    ASSUME RefreshTypeOK, SwitchesInv, InTime, NEW t \in {0, FrameTime}, Jump(t)
    PROVE  /\ clock'["ext"].pts = t /\ clock'["ext"].last_updated = time
           /\ \A c \in {"vid", "aud"} :
                 /\ clock'[c].serial = clock[c].serial /\ clock'[c].last_updated <= time
                 /\ ~ switches.paused => clock'[c] = clock[c]
           /\ \A c \in Clocks : clock'[c].last_updated <= time
           /\ time' = time /\ serial' = serial + 1 /\ shown' = shown /\ pictures' = pictures
           /\ sound' = sound /\ seek_pos' = t /\ upcoming'.pts = t /\ upcoming'.sound = t
           /\ scenario'.master = scenario.master /\ refresh' = refresh
           /\ ~ switches.paused => frame_timer' = frame_timer
<1> DEFINE new == ResumeOrStep(switches, FALSE)
<1>1. Resumes(new) <=> switches.paused
  BY ResumeOrStepIs
<1>2. /\ clock' = [c \in Clocks |-> CASE c = "ext" -> ClockAt(t, 0, time)
                                      [] c # "ext" /\ Resumes(new) -> ClockAt(NAN, clock[c].serial, time)
                                      [] OTHER -> clock[c]]
      /\ frame_timer' = IF Resumes(new) THEN frame_timer + time - clock["vid"].last_updated ELSE frame_timer
  BY DEF Jump
<1> HIDE DEF new
<1>3. time \in Nat /\ time <= time /\ \A c \in Clocks : clock[c].last_updated <= time
  BY StateFields DEF InTime
<1>4. clock'["ext"] = ClockAt(t, 0, time)
  BY <1>2 DEF Clocks
<1>5. clock'["ext"].pts = t /\ clock'["ext"].last_updated = time
  BY <1>4 DEF ClockAt
<1>6. \A c \in {"vid", "aud"} : clock'[c] = IF switches.paused THEN ClockAt(NAN, clock[c].serial, time) ELSE clock[c]
  BY <1>1, <1>2 DEF Clocks
<1>7. \A c \in {"vid", "aud"} : /\ clock'[c].serial = clock[c].serial /\ clock'[c].last_updated <= time
                                /\ ~ switches.paused => clock'[c] = clock[c]
  BY <1>3, <1>6 DEF ClockAt, Clocks
<1>8. \A c \in Clocks : clock'[c].last_updated <= time
  BY <1>3, <1>5, <1>7 DEF Clocks
<1>9. ~ switches.paused => frame_timer' = frame_timer
  BY <1>1, <1>2
<1>10. scenario'.master = scenario.master
  <2>1. scenario \in Budgets
    BY DEF RefreshTypeOK
  <2> QED BY <2>1 DEF Jump, Budgets
<1>11. /\ time' = time /\ serial' = serial + 1 /\ shown' = shown /\ pictures' = pictures
       /\ sound' = sound /\ seek_pos' = t /\ upcoming'.pts = t /\ upcoming'.sound = t /\ refresh' = refresh
  BY DEF Jump
<1> QED BY <1>5, <1>7, <1>8, <1>9, <1>10, <1>11

\* The end of a buffer and the show of a picture.
LEMMA ClocksAfterSound ==
    ASSUME RefreshTypeOK, InTime, SoundInv, SoundEnds
    PROVE  LET value == IF switches.aout_paused THEN sound.clock - Period
                        ELSE sound.clock - Period + time - sound.at
               ext   == GetClock("ext")
               apart == sound.serial = serial /\ (ext = NAN \/ ext - value > NoSync \/ value - ext > NoSync)
           IN  /\ clock'["aud"].pts = sound.clock - Period /\ clock'["aud"].serial = sound.serial
               /\ clock'["aud"].last_updated = sound.at /\ clock'["vid"] = clock["vid"]
               /\ apart => clock'["ext"].pts = value /\ clock'["ext"].last_updated = time
               /\ ~ apart => clock'["ext"] = clock["ext"]
               /\ \A c \in Clocks : clock'[c].last_updated <= time
               /\ sound.clock - Period \in Nat
<1>1. sound.clock - Period \in Nat /\ sound.serial \in Nat /\ sound.at \in Nat /\ sound.at <= time
  <2>1. sound.pc = "fills"
    BY DEF SoundEnds
  <2>2. sound.clock # NAN /\ sound.clock >= Period /\ sound.at <= time
    BY <2>1 DEF SoundInv
  <2>3. sound.clock \in Nat \cup {NAN} /\ sound.serial \in Nat /\ sound.at \in Nat
    BY StateFields
  <2>4. Period \in Nat
    BY ConstantFacts
  <2>5. sound.clock \in Nat
    BY <2>2, <2>3
  <2> HIDE DEF NAN
  <2> QED BY <2>2, <2>3, <2>4, <2>5
<1>2. clock' = SetAndSync("aud", ClockAt(sound.clock - Period, sound.serial, sound.at))
  BY DEF SoundEnds
<1> DEFINE p == sound.clock - Period
<1>3. p \in Nat /\ "vid" \in {"vid", "aud"} \ {"aud"} /\ (Stopped("aud") <=> switches.aout_paused)
  BY <1>1 DEF Stopped
<1> HIDE DEF p
<1>4. clock' = SetAndSync("aud", ClockAt(p, sound.serial, sound.at))
  BY <1>2 DEF p
<1> DEFINE n     == sound.serial
           at    == sound.at
           value == IF Stopped("aud") THEN p ELSE p + time - at
           ext   == GetClock("ext")
           apart == n = serial /\ (ext = NAN \/ ext - value > NoSync \/ value - ext > NoSync)
<1>5. clock' = SetAndSync("aud", ClockAt(p, n, at)) /\ n \in Nat /\ at \in Nat /\ at <= time
  BY <1>1, <1>4
<1> HIDE DEF n, at
<1>6. LET k == SetAndSync("aud", ClockAt(p, n, at))
      IN  /\ k["aud"].pts = p /\ k["aud"].serial = n /\ k["aud"].last_updated = at
          /\ \A d \in {"vid", "aud"} \ {"aud"} : k[d] = clock[d]
          /\ apart => k["ext"].pts = value /\ k["ext"].serial = n /\ k["ext"].last_updated = time
          /\ ~ apart => k["ext"] = clock["ext"]
          /\ \A d \in Clocks : k[d].last_updated <= time
  BY <1>3, <1>5, SetAndSyncIs
<1> HIDE DEF value, apart
<1>7. /\ clock'["aud"].pts = p /\ clock'["aud"].serial = n
      /\ clock'["aud"].last_updated = at /\ clock'["vid"] = clock["vid"]
      /\ apart => clock'["ext"].pts = value /\ clock'["ext"].last_updated = time
      /\ ~ apart => clock'["ext"] = clock["ext"]
      /\ \A c \in Clocks : clock'[c].last_updated <= time
  BY <1>3, <1>5, <1>6
<1>8. value = IF switches.aout_paused THEN p ELSE p + time - at
  BY <1>3 DEF value
<1> QED BY <1>1, <1>7, <1>8 DEF apart, p, n, at

LEMMA ClocksAfterPicture ==
    ASSUME RefreshTypeOK, InTime, PicturesInv, RefreshShows
    PROVE  LET value == Picture.pts
               ext   == GetClock("ext")
               apart == Picture.serial = serial /\ (ext = NAN \/ ext - value > NoSync \/ value - ext > NoSync)
           IN  /\ clock'["vid"].pts = Picture.pts /\ clock'["vid"].serial = Picture.serial
               /\ clock'["vid"].last_updated = time /\ clock'["aud"] = clock["aud"]
               /\ apart => clock'["ext"].pts = value /\ clock'["ext"].last_updated = time
               /\ ~ apart => clock'["ext"] = clock["ext"]
               /\ \A c \in Clocks : clock'[c].last_updated <= time
               /\ pictures # << >> /\ Picture.pts \in Nat /\ Picture.serial \in Nat
<1>1. pictures # << >>
  BY DEF RefreshShows, PicturesInv
<1>2. Picture.pts \in Nat /\ Picture.serial \in Nat /\ time \in Nat /\ time <= time
  BY <1>1, QueueFields, StateFields
<1>3. clock' = SetAndSync("vid", ClockAt(Picture.pts, Picture.serial, time))
  BY DEF RefreshShows
<1> DEFINE p == Picture.pts
           s == Picture.serial
           at == time
<1>4. p + time - at = p /\ at = time /\ p \in Nat /\ s \in Nat /\ "aud" \in {"vid", "aud"} \ {"vid"}
  BY <1>2
<1>5. clock' = SetAndSync("vid", ClockAt(p, s, at))
  BY <1>3
<1>a. p \in Nat /\ s \in Nat /\ at \in Nat /\ at <= time
  BY <1>2
<1> HIDE DEF p, s, at
<1> DEFINE v     == IF Stopped("vid") THEN p ELSE p + time - at
           ext   == GetClock("ext")
           apart == s = serial /\ (ext = NAN \/ ext - v > NoSync \/ v - ext > NoSync)
<1>6. LET k == SetAndSync("vid", ClockAt(p, s, at))
      IN  /\ k["vid"].pts = p /\ k["vid"].serial = s /\ k["vid"].last_updated = at
          /\ \A d \in {"vid", "aud"} \ {"vid"} : k[d] = clock[d]
          /\ apart => k["ext"].pts = v /\ k["ext"].serial = s /\ k["ext"].last_updated = time
          /\ ~ apart => k["ext"] = clock["ext"]
          /\ \A d \in Clocks : k[d].last_updated <= time
  BY <1>a, SetAndSyncIs
<1>7. v = p
  BY <1>4
<1> HIDE DEF v, apart
<1>8. /\ clock'["vid"].pts = p /\ clock'["vid"].serial = s
      /\ clock'["vid"].last_updated = time /\ clock'["aud"] = clock["aud"]
      /\ apart => clock'["ext"].pts = p /\ clock'["ext"].last_updated = time
      /\ ~ apart => clock'["ext"] = clock["ext"]
      /\ \A d \in Clocks : clock'[d].last_updated <= time
  BY <1>4, <1>5, <1>6, <1>7
<1>9. apart <=> s = serial /\ (ext = NAN \/ ext - p > NoSync \/ p - ext > NoSync)
  BY <1>7 DEF apart
<1> QED BY <1>1, <1>2, <1>8, <1>9 DEF p, s

LEMMA VidStep ==
    ASSUME RefreshTypeOK, PicturesInv, SwitchesInv, ClocksInv, RefreshNext, RefreshTypeOK'
    PROVE  VidInv'
<1>0. /\ shown.serial <= serial /\ shown.serial \in Nat /\ serial \in Nat /\ shown.pts \in Nat /\ time \in Nat
      /\ clock["vid"].serial \in Int /\ clock["vid"].pts \in Nat \cup {NAN}
      /\ clock["vid"].last_updated \in Nat /\ clock["vid"].last_updated <= time
  BY FrontIs, StateFields DEF Clocks, ClocksInv, InTime
<1>a. VidInv /\ InTime
  BY DEF ClocksInv
<1>1. CASE clock'["vid"] = clock["vid"] /\ shown' = shown /\ serial' = serial /\ switches'.step = switches.step
  BY <1>1, <1>a DEF VidInv
<1>2. CASE Toggle \/ RefreshDisplays
  <2>1. ~ switches'.step
    BY <1>2, ToggleIs, ShownIs DEF Pressed
  <2>2. shown' = shown /\ serial' = serial
    BY <1>2, <1>a, ClocksAfterSwitches
  <2>3. \/ clock'["vid"] = clock["vid"]
        \/ clock'["vid"].pts = GetClock("vid") /\ clock'["vid"].serial = clock["vid"].serial
    BY <1>2, <1>a, ClocksAfterSwitches
  <2>4. CASE clock'["vid"] = clock["vid"]
    BY <1>a, <2>1, <2>2, <2>4 DEF VidInv
  <2>5. CASE clock'["vid"].pts = GetClock("vid") /\ clock'["vid"].serial = clock["vid"].serial
    <3>1. ASSUME shown.serial = serial
          PROVE  GetClock("vid") # NAN /\ shown.pts <= GetClock("vid")
      <4>1. /\ GetClock("vid") # NAN
            /\ GetClock("vid") = IF Stopped("vid") THEN clock["vid"].pts
                                 ELSE clock["vid"].pts + time - clock["vid"].last_updated
        BY <1>a, <3>1, ReadsIs DEF VidInv, Clocks
      <4>2. clock["vid"].pts \in Nat /\ shown.pts <= clock["vid"].pts
        BY <1>0, <1>a, <3>1 DEF VidInv
      <4> QED BY <1>0, <4>1, <4>2
    <3> QED BY <1>a, <2>1, <2>2, <2>5, <3>1 DEF VidInv
  <2> QED BY <2>3, <2>4, <2>5
<1>3. CASE \E t \in {0, FrameTime} : Jump(t)
  <2>1. /\ clock'["vid"].serial = clock["vid"].serial /\ serial' = serial + 1 /\ shown' = shown
    BY <1>3, <1>a, ClocksAfterJump
  <2>2. clock["vid"].serial <= serial
    BY <1>a DEF VidInv
  <2>3. clock'["vid"].serial <= serial' /\ clock'["vid"].serial # serial' /\ shown'.serial # serial'
    BY <1>0, <2>1, <2>2
  <2> QED BY <2>3 DEF VidInv
<1>4. CASE SoundEnds
  <2>1. clock'["vid"] = clock["vid"]
    BY <1>4, ClocksAfterSound DEF ClocksInv
  <2> QED BY <1>1, <1>4, <2>1 DEF SoundEnds
<1>5. CASE RefreshShows
  <2>1. /\ clock'["vid"].pts = Picture.pts /\ clock'["vid"].serial = Picture.serial
        /\ Picture.pts \in Nat /\ Picture.serial \in Nat /\ pictures # << >>
    BY <1>5, <1>a, ClocksAfterPicture
  <2>2. shown' = Picture /\ serial' = serial
    BY <1>5, FrontIs DEF RefreshShows
  <2>3. Picture.serial <= serial
    BY <2>1, FrontIs
  <2> QED BY <2>1, <2>2, <2>3 DEF VidInv, NAN
<1>6. CASE RefreshSkipsOld
  <2>1. /\ pictures # << >> /\ shown' = Picture /\ Picture.serial # serial /\ serial' = serial /\ clock' = clock
        /\ shown.serial <= Picture.serial /\ Picture.serial <= serial
    BY <1>6, FrontIs DEF RefreshSkipsOld
  <2>2. Picture.serial \in Nat
    BY <2>1, QueueFields
  <2>3. shown.serial # serial
    BY <1>0, <2>1, <2>2
  <2> QED BY <1>a, <2>1, <2>3 DEF VidInv
<1>7. CASE Decode \/ PushText \/ SoundBegins \/ RefreshDecides \/ RefreshWaits \/ Tick
  BY <1>1, <1>7 DEF Decode, PushText, SoundBegins, RefreshDecides, RefreshWaits, Tick
<1> QED BY <1>2, <1>3, <1>4, <1>5, <1>6, <1>7 DEF RefreshNext, RefreshThread

LEMMA InTimeStep ==
    ASSUME RefreshTypeOK, PicturesInv, SwitchesInv, ClocksInv, RefreshNext, RefreshTypeOK'
    PROVE  InTime'
<1>a. InTime
  BY DEF ClocksInv
<1>0. time \in Nat /\ time' \in Nat /\ time <= time' /\ \A c \in Clocks : clock[c].last_updated \in Nat
  BY StateFields, RefreshTypeStep
<1>1. CASE clock' = clock
  BY <1>0, <1>1, <1>a DEF InTime
<1>2. CASE \A c \in Clocks : clock'[c].last_updated <= time
  <2>1. \A c \in Clocks : clock'[c].last_updated \in Nat
    BY DEF RefreshTypeOK, Clips
  <2> QED BY <1>0, <1>2, <2>1 DEF InTime
<1>3. CASE Toggle \/ RefreshDisplays
  BY <1>2, <1>3, <1>a, ClocksAfterSwitches
<1>4. CASE \E t \in {0, FrameTime} : Jump(t)
  BY <1>2, <1>4, <1>a, ClocksAfterJump
<1>5. CASE SoundEnds
  BY <1>2, <1>5, <1>a, ClocksAfterSound DEF ClocksInv
<1>6. CASE RefreshShows
  BY <1>2, <1>6, <1>a, ClocksAfterPicture
<1> QED BY <1>1, <1>3, <1>4, <1>5, <1>6, ClocksStay DEF RefreshNext, RefreshThread

\* Who touches the sound.
LEMMA SoundStays ==
    ASSUME RefreshTypeOK, SwitchesInv, InTime, RefreshNext,
           ~ SoundBegins, ~ SoundEnds, ~ Tick, ~ \E t \in {0, FrameTime} : Jump(t)
    PROVE  /\ sound' = sound /\ upcoming'.sound = upcoming.sound /\ serial' = serial
           /\ scenario'.master = scenario.master
           /\ \/ clock'["aud"] = clock["aud"]
              \/ /\ Toggle /\ switches.pause_req /\ switches.aout_paused
                 /\ clock'["aud"].pts = GetClock("aud") /\ clock'["aud"].last_updated = time
                 /\ clock'["aud"].serial = clock["aud"].serial
<1>0. upcoming \in [pts : Nat, sound : Nat, text : Nat] /\ scenario \in Budgets
  BY DEF RefreshTypeOK
<1>1. CASE Toggle \/ RefreshDisplays
  BY <1>1, ClocksAfterSwitches
<1>2. CASE RefreshShows
  <2>1. clock' = SetAndSync("vid", ClockAt(Picture.pts, Picture.serial, time))
    BY <1>2 DEF RefreshShows
  <2>2. clock'["aud"] = clock["aud"]
    BY <2>1 DEF SetAndSync, RefreshTypeOK, Clocks
  <2> QED BY <1>2, <2>2 DEF RefreshShows
<1>3. CASE Decode \/ PushText
  BY <1>0, <1>3 DEF Decode, PushText, Budgets
<1>4. CASE RefreshSkipsOld \/ RefreshDecides \/ RefreshWaits
  BY <1>4 DEF RefreshSkipsOld, RefreshDecides, RefreshWaits
<1> QED BY <1>1, <1>2, <1>3, <1>4 DEF RefreshNext, RefreshThread

LEMMA SoundStep ==
    ASSUME RefreshTypeOK, PicturesInv, SwitchesInv, ClocksInv, RefreshNext, RefreshTypeOK'
    PROVE  SoundInv'
<1>a. SoundInv /\ InTime
  BY DEF ClocksInv
<1>0. /\ serial \in Nat /\ time \in Nat /\ upcoming.sound \in Nat /\ Period \in Nat
      /\ sound.serial \in Nat /\ sound.at \in Nat /\ sound.clock \in Nat \cup {NAN}
      /\ clock["aud"].serial \in Int
  BY StateFields, ConstantFacts DEF Clocks
<1>1. CASE ~ SoundBegins /\ ~ SoundEnds /\ ~ Tick /\ ~ \E t \in {0, FrameTime} : Jump(t)
  <2>1. /\ sound' = sound /\ upcoming'.sound = upcoming.sound /\ serial' = serial /\ time' = time
        /\ scenario'.master = scenario.master
    BY <1>1, <1>a, SoundStays, TypeSwitches, TypeDecoders, TypeRefresh DEF RefreshNext
  <2>2. \/ clock'["aud"] = clock["aud"]
        \/ /\ switches.aout_paused /\ clock'["aud"].pts = GetClock("aud")
           /\ clock'["aud"].serial = clock["aud"].serial
    BY <1>1, <1>a, SoundStays
  <2>3. clock'["aud"].serial = clock["aud"].serial
        /\ (clock["aud"].serial = serial => clock'["aud"].pts = clock["aud"].pts)
    <3>1. ASSUME switches.aout_paused, clock["aud"].serial = serial
          PROVE  GetClock("aud") = clock["aud"].pts
      BY <3>1 DEF GetClock, Reads, Stopped, NAN
    <3> QED BY <2>2, <3>1
  <2> QED BY <1>a, <2>1, <2>3 DEF SoundInv
<1>2. CASE SoundBegins
  <2>1. /\ sound.pc = "idle" /\ scenario.master = "audio" /\ sound'.pc = "fills"
        /\ sound'.clock = upcoming.sound + Period /\ sound'.serial = serial /\ sound'.at = time
        /\ clock' = clock /\ serial' = serial /\ scenario' = scenario /\ time' = time
    BY <1>2 DEF SoundBegins, SoundDue
  <2>2. upcoming'.sound = upcoming.sound + Period
    BY <1>2 DEF SoundBegins, RefreshTypeOK
  <2>3. /\ clock["aud"].serial <= serial
        /\ clock["aud"].serial = serial =>
              clock["aud"].pts # NAN /\ clock["aud"].pts = upcoming.sound - Period
    BY <1>a, <2>1 DEF SoundInv
  <2>4. upcoming.sound - Period = upcoming'.sound - 2 * Period
        /\ sound'.clock # NAN /\ sound'.clock >= Period /\ sound'.clock = upcoming'.sound
    BY <1>0, <2>1, <2>2 DEF NAN
  <2> QED BY <1>0, <2>1, <2>3, <2>4 DEF SoundInv
<1>3. CASE SoundEnds
  <2>1. /\ clock'["aud"].pts = sound.clock - Period /\ clock'["aud"].serial = sound.serial
        /\ sound.clock - Period \in Nat /\ sound.clock - Period # NAN
    BY <1>3, <1>a, ClocksAfterSound DEF NAN
  <2>2. /\ sound'.pc = "idle" /\ sound'.serial = sound.serial /\ sound'.at = sound.at
        /\ sound.pc = "fills"
    BY <1>3 DEF SoundEnds, RefreshTypeOK, Sounds
  <2>3. serial' = serial /\ time' = time /\ upcoming' = upcoming /\ scenario' = scenario
    BY <1>3 DEF SoundEnds
  <2> QED BY <1>a, <2>1, <2>2, <2>3 DEF SoundInv
<1>4. CASE Tick
  <2>1. /\ sound'.pc = sound.pc /\ sound'.clock = sound.clock /\ sound'.serial = sound.serial
        /\ sound'.at = sound.at /\ time' = time + 1 /\ scenario'.master = scenario.master
    BY <1>4, TickIs
  <2>2. clock' = clock /\ serial' = serial /\ upcoming' = upcoming
    BY <1>4 DEF Tick
  <2>3. sound'.at <= time'
    BY <1>0, <1>a, <2>1 DEF SoundInv
  <2> QED BY <1>a, <2>1, <2>2, <2>3 DEF SoundInv
<1>5. CASE \E t \in {0, FrameTime} : Jump(t)
  <2>1. /\ clock'["aud"].serial = clock["aud"].serial /\ serial' = serial + 1 /\ sound' = sound
        /\ time' = time /\ scenario'.master = scenario.master
    BY <1>5, <1>a, ClocksAfterJump
  <2>2. clock["aud"].serial <= serial /\ sound.serial <= serial
    BY <1>a DEF SoundInv
  <2>3. /\ clock'["aud"].serial <= serial' /\ clock'["aud"].serial # serial'
        /\ sound'.serial <= serial' /\ sound'.serial # serial'
    BY <1>0, <2>1, <2>2
  <2> QED BY <1>a, <2>1, <2>3 DEF SoundInv
<1> QED BY <1>1, <1>2, <1>3, <1>4, <1>5

LEMMA ExtStep ==
    ASSUME RefreshTypeOK, PicturesInv, SwitchesInv, ClocksInv, RefreshNext, RefreshTypeOK'
    PROVE  ExtInv'
<1>a. ExtInv /\ InTime /\ VidInv /\ SoundInv
  BY DEF ClocksInv
<1>0. "ext" \in Clocks /\ shown.serial <= serial /\ shown.serial \in Nat /\ serial \in Nat /\ time \in Nat
  BY FrontIs, StateFields DEF Clocks
<1>b. (clock["ext"].pts # NAN <=> GetClock("ext") # NAN) /\ GetClock("ext") \in Nat \cup {NAN}
  BY <1>0, <1>a, ReadsIs
<1>1. CASE /\ shown'.serial = shown.serial /\ serial' = serial /\ scenario'.master = scenario.master
           /\ clock["ext"].pts # NAN => clock'["ext"].pts # NAN
  BY <1>1, <1>a DEF ExtInv
<1>2. CASE Toggle \/ RefreshDisplays
  <2>1. /\ shown' = shown /\ serial' = serial /\ scenario'.master = scenario.master
        /\ clock'["ext"] = clock["ext"] \/ clock'["ext"].pts = GetClock("ext")
    BY <1>2, <1>a, ClocksAfterSwitches
  <2> QED BY <1>1, <1>b, <2>1
<1>3. CASE \E t \in {0, FrameTime} : Jump(t)
  <2>1. serial' = serial + 1 /\ shown' = shown
    BY <1>3, <1>a, ClocksAfterJump
  <2>2. shown'.serial # serial'
    BY <1>0, <2>1
  <2> QED BY <2>2 DEF ExtInv
<1>4. CASE SoundEnds
  <2>1. scenario.master = "audio" /\ scenario' = scenario
    BY <1>4, <1>a DEF SoundEnds, SoundInv
  <2> QED BY <2>1 DEF ExtInv
<1>5. CASE RefreshShows
  <2>1. /\ Picture.serial = serial /\ GetClock("ext") = NAN => clock'["ext"].pts = Picture.pts
        /\ clock'["ext"] = clock["ext"] \/ clock'["ext"].pts = Picture.pts
        /\ Picture.pts \in Nat
    BY <1>5, <1>a, ClocksAfterPicture
  <2>2. shown' = Picture /\ serial' = serial
    BY <1>5, FrontIs DEF RefreshShows
  <2>3. Picture.serial = serial => clock'["ext"].pts # NAN
    BY <1>b, <2>1 DEF NAN
  <2> QED BY <2>2, <2>3 DEF ExtInv
<1>6. CASE RefreshSkipsOld
  <2>1. shown' = Picture /\ Picture.serial # serial /\ serial' = serial
    BY <1>6, FrontIs DEF RefreshSkipsOld
  <2> QED BY <2>1 DEF ExtInv
<1>7. CASE Decode \/ PushText \/ SoundBegins \/ RefreshDecides \/ RefreshWaits
  <2>1. scenario'.master = scenario.master
    BY <1>7 DEF Decode, PushText, SoundBegins, RefreshDecides, RefreshWaits, RefreshTypeOK, Budgets
  <2> QED BY <1>1, <1>7, <2>1 DEF Decode, PushText, SoundBegins, RefreshDecides, RefreshWaits
<1>8. CASE Tick
  <2>1. scenario'.master = scenario.master
    BY <1>8, TickIs
  <2> QED BY <1>1, <1>8, <2>1 DEF Tick
<1> QED BY <1>2, <1>3, <1>4, <1>5, <1>6, <1>7, <1>8 DEF RefreshNext, RefreshThread

LEMMA TimerStep ==
    ASSUME RefreshTypeOK, PicturesInv, SwitchesInv, ClocksInv, RefreshNext, RefreshTypeOK'
    PROVE  TimerInv'
<1>a. TimerInv /\ InTime /\ VidInv /\ SoundInv
  BY DEF ClocksInv
<1>0. /\ shown.serial <= serial /\ shown.serial \in Nat /\ serial \in Nat /\ time \in Nat
      /\ shown.pts \in Nat /\ frame_timer \in Int /\ ThresholdMax \in Nat
      /\ clock["vid"].pts \in Nat \cup {NAN} /\ clock["vid"].last_updated \in Nat
      /\ clock["vid"].last_updated <= time
  BY <1>a, FrontIs, StateFields, ConstantFacts DEF Clocks, InTime
<1>b. refresh = "shows" => pictures # << >>
  BY DEF PicturesInv
<1>1. CASE /\ shown' = shown /\ serial' = serial /\ frame_timer' = frame_timer /\ time <= time' /\ time' \in Nat
           /\ clock'["vid"] = clock["vid"]
           /\ refresh' = "shows" <=> refresh = "shows"
           /\ refresh = "shows" => Picture' = Picture
  BY <1>0, <1>1, <1>a DEF TimerInv
<1>2. CASE Toggle \/ RefreshDisplays
  <2>1. /\ shown' = shown /\ serial' = serial /\ pictures' = pictures
        /\ frame_timer' = frame_timer /\ time' = time
    BY <1>2, <1>a, ClocksAfterSwitches
  <2>2. refresh' = "shows" <=> refresh = "shows"
    BY <1>2 DEF Toggle, RefreshDisplays
  <2>3. \/ clock'["vid"] = clock["vid"]
        \/ clock'["vid"].pts = GetClock("vid") /\ clock'["vid"].last_updated = time
    BY <1>2, <1>a, ClocksAfterSwitches
  <2>4. CASE clock'["vid"] = clock["vid"]
    BY <1>0, <1>1, <2>1, <2>2, <2>4 DEF Picture
  <2>5. CASE clock'["vid"].pts = GetClock("vid") /\ clock'["vid"].last_updated = time
    <3>1. ASSUME refresh # "shows", shown.serial = serial
          PROVE  shown.pts - frame_timer >= GetClock("vid") - time
      <4>1. /\ GetClock("vid") = IF Stopped("vid") THEN clock["vid"].pts
                                 ELSE clock["vid"].pts + time - clock["vid"].last_updated
        BY <1>a, <3>1, ReadsIs DEF VidInv, Clocks
      <4>2. clock["vid"].pts \in Nat
            /\ shown.pts - frame_timer >= clock["vid"].pts - clock["vid"].last_updated
        BY <1>0, <1>a, <3>1 DEF VidInv, TimerInv
      <4> QED BY <1>0, <4>1, <4>2
    <3> QED BY <1>a, <2>1, <2>2, <2>5, <3>1 DEF TimerInv, Picture
  <2> QED BY <2>3, <2>4, <2>5
<1>3. CASE \E t \in {0, FrameTime} : Jump(t)
  <2>1. serial' = serial + 1 /\ shown' = shown /\ pictures' = pictures /\ refresh' = refresh
    BY <1>3, <1>a, ClocksAfterJump
  <2>2. shown'.serial # serial'
    BY <1>0, <2>1
  <2>3. refresh = "shows" => Picture' = Picture /\ Picture.serial # serial'
    <3>1. refresh = "shows" => Picture.serial <= serial /\ Picture.serial \in Nat
      BY <1>b, FrontIs, QueueFields
    <3> QED BY <1>0, <2>1, <3>1 DEF Picture
  <2> QED BY <2>1, <2>2, <2>3 DEF TimerInv
<1>4. CASE SoundEnds
  <2>1. clock'["vid"] = clock["vid"]
    BY <1>4, <1>a, ClocksAfterSound
  <2> QED BY <1>0, <1>1, <1>4, <2>1 DEF SoundEnds, Picture
<1>5. CASE RefreshShows
  <2>1. /\ clock'["vid"].pts = Picture.pts /\ clock'["vid"].last_updated = time
        /\ Picture.pts \in Nat
    BY <1>5, <1>a, ClocksAfterPicture
  <2>2. /\ shown' = Picture /\ serial' = serial /\ refresh' # "shows" /\ frame_timer' = frame_timer
        /\ refresh = "shows"
    BY <1>5, FrontIs DEF RefreshShows
  <2>3. Picture.serial = serial => frame_timer <= time
    BY <1>a, <2>2 DEF TimerInv
  <2> QED BY <1>0, <2>1, <2>2, <2>3 DEF TimerInv
<1>6. CASE RefreshSkipsOld
  <2>1. /\ shown' = Picture /\ Picture.serial # serial /\ serial' = serial /\ refresh = "idle"
        /\ refresh' = refresh
    BY <1>6, FrontIs DEF RefreshSkipsOld
  <2> QED BY <2>1 DEF TimerInv
<1>7. CASE RefreshDecides
  <2>1. /\ refresh' = "shows" /\ pictures' = pictures /\ time' = time /\ pictures # << >>
        /\ time >= NewTimer + Delay
        /\ frame_timer' = IF Delay > 0 /\ time - (NewTimer + Delay) > ThresholdMax THEN time ELSE NewTimer + Delay
    BY <1>7 DEF RefreshDecides, PictureDue, RefreshIdle
  <2>2. NewTimer \in Int /\ Delay \in Nat
    BY <1>a, <2>1, NewTimerIs, DelayIs
  <2>3. frame_timer' <= time
    BY <1>0, <2>1, <2>2
  <2> QED BY <2>1, <2>3 DEF TimerInv
<1>8. CASE RefreshWaits
  <2>1. /\ frame_timer' = NewTimer /\ refresh = "idle" /\ refresh' = refresh /\ pictures # << >>
        /\ Picture.serial = serial
        /\ shown' = shown /\ serial' = serial /\ clock' = clock
    BY <1>8 DEF RefreshWaits, RefreshIdle
  <2>2. shown.serial = serial => NewTimer <= frame_timer /\ NewTimer \in Int
    BY <1>0, <2>1, NewTimerIs
  <2>3. shown.serial = serial => /\ clock["vid"].pts \in Nat
                                 /\ shown.pts - frame_timer >= clock["vid"].pts - clock["vid"].last_updated
    BY <1>0, <1>a, <2>1 DEF TimerInv, VidInv
  <2>4. shown.serial = serial => shown.pts - NewTimer >= clock["vid"].pts - clock["vid"].last_updated
    BY <1>0, <2>2, <2>3
  <2> QED BY <2>1, <2>4 DEF TimerInv
<1>9. CASE (Decode \/ PushText \/ SoundBegins \/ Tick) /\ ~ RefreshSkipsOld /\ ~ RefreshShows
  <2>1. serial' = serial /\ frame_timer' = frame_timer /\ clock' = clock /\ refresh' = refresh
    BY <1>9 DEF Decode, PushText, SoundBegins, Tick
  <2>2. time <= time' /\ time' \in Nat
    BY <1>0, RefreshTypeStep
  <2> QED BY <1>1, <1>b, <1>9, <2>1, <2>2, FrontStays
<1> QED BY <1>2, <1>3, <1>4, <1>5, <1>6, <1>7, <1>8, <1>9 DEF RefreshNext, RefreshThread

LEMMA ClocksStep ==
    ASSUME RefreshTypeOK, PicturesInv, SwitchesInv, ClocksInv, RefreshNext, RefreshTypeOK'
    PROVE  ClocksInv'
BY VidStep, InTimeStep, SoundStep, ExtStep, TimerStep DEF ClocksInv

-----------------------------------------------------------------------------
(* The texts. *)

LEMMA TextsStep ==
    ASSUME RefreshTypeOK, PicturesInv, SwitchesInv, ClocksInv, TextsInv, RefreshNext, RefreshTypeOK'
    PROVE  TextsInv'
<1> DEFINE n == Len(texts)
           Mine(pts) == Texts[text].start <= pts
<1>0. /\ n \in Nat /\ (texts # << >> => n >= 1 /\ Head(texts) = texts[1]) /\ (texts = << >> => n = 0)
      /\ serial \in Nat /\ shown.serial \in Nat /\ shown.pts \in Nat /\ shown.serial <= serial
      /\ FrameTime \in Nat
      /\ \A i \in 1 .. n : /\ texts[i].n \in 1 .. Len(Texts) /\ texts[i].serial \in Nat
                           /\ texts[i].uploaded \in BOOLEAN /\ texts[i].serial <= serial
      /\ texts \in Seq(Lines)
  BY TextFields, StateFields, FrontIs, ConstantFacts DEF TextsInv, RefreshTypeOK
<1>t. \A i \in 1 .. Len(Texts) : Texts[i].start \in Nat /\ Texts[i].end \in Nat
  BY ConstantFacts
<1>s. since'.slipped = IF refresh = "displays" /\ refresh' = "idle"
                       THEN text' # NoText /\ (since.slipped \/ shown.serial # Head(texts).serial)
                       ELSE text' # NoText /\ since.slipped
  BY RememberIs, RefreshTypeStep DEF RefreshNext
<1>1. CASE /\ texts' = texts /\ text' = text /\ ~ (refresh = "displays" /\ refresh' = "idle")
           /\ refresh' = "displays" => refresh = "displays"
           /\ serial' = serial /\ shown' = shown
  BY <1>1, <1>s DEF TextsInv
<1>2. CASE \E t \in {0, FrameTime} : Jump(t)
  <2>1. /\ texts' = texts /\ text' = text /\ refresh' = refresh /\ serial' = serial + 1 /\ shown' = shown
    BY <1>2 DEF Jump
  <2>2. text # NoText => Head(texts).serial <= serial /\ Head(texts).serial # serial' /\ serial <= serial'
    <3>1. ASSUME text # NoText PROVE Head(texts).serial \in Nat /\ Head(texts).serial <= serial
      <4>1. texts # << >>
        BY <3>1 DEF TextsInv
      <4>2. 1 \in 1 .. n
        BY <1>0, <4>1
      <4> QED BY <1>0, <4>1, <4>2
    <3> QED BY <1>0, <2>1, <3>1
  <2>3. \A i \in 1 .. n : texts[i].serial <= serial'
    BY <1>0, <2>1
  <2>4. since'.slipped = (text # NoText /\ since.slipped)
    BY <1>s, <2>1
  <2> QED BY <2>1, <2>2, <2>3, <2>4 DEF TextsInv
<1>3. CASE PushText
  <2> DEFINE new == [n |-> upcoming.text + 1, serial |-> serial, uploaded |-> FALSE]
  <2>1. /\ texts' = Append(texts, new) /\ text' = text /\ refresh' = refresh /\ serial' = serial /\ shown' = shown
    BY <1>3 DEF PushText
  <2>2. new \in Lines
    <3>1. upcoming.text \in Nat /\ upcoming.text < Len(Texts) /\ Len(Texts) \in Nat
      BY <1>3, StateFields, ConstantFacts DEF PushText
    <3>2. upcoming.text + 1 \in 1 .. Len(Texts)
      BY <3>1
    <3> QED BY <1>0, <3>2 DEF Lines
  <2>3. ~ new.uploaded /\ new.serial = serial
    OBVIOUS
  <2> HIDE DEF new
  <2>4. /\ Len(texts') = n + 1 /\ texts' # << >> /\ texts'[n + 1] = new /\ texts' \in Seq(Lines)
        /\ \A i \in 1 .. n : texts'[i] = texts[i]
    BY <1>0, <2>1, <2>2, AppendProperties, EmptySeq
  <2>5. Head(texts') = texts'[1]
    BY <2>4, HeadTailProperties
  <2>6. \A i \in 1 .. n + 1 : i = n + 1 \/ i \in 1 .. n
    BY <1>0
  <2>7. /\ \A i \in 2 .. Len(texts') : ~ texts'[i].uploaded
        /\ \A i \in 1 .. Len(texts') : texts'[i].serial <= serial'
    <3>1. \A i \in 2 .. n : i \in 1 .. n
      BY <1>0
    <3>2. \A i \in 2 .. n + 1 : i = n + 1 \/ i \in 2 .. n
      BY <1>0
    <3>3. \A i \in 2 .. n : ~ texts[i].uploaded
      BY DEF TextsInv
    <3>4. \A i \in 2 .. Len(texts') : ~ texts'[i].uploaded
      BY <2>3, <2>4, <3>1, <3>2, <3>3
    <3>5. serial <= serial
      BY <1>0
    <3> QED BY <1>0, <2>1, <2>3, <2>4, <2>6, <3>4, <3>5
  <2>8. texts # << >> => Head(texts') = Head(texts)
    <3>1. texts # << >> => 1 \in 1 .. n
      BY <1>0
    <3> QED BY <1>0, <2>4, <2>5, <3>1
  <2>9. texts = << >> => ~ Head(texts').uploaded /\ text = NoText
    BY <1>0, <2>3, <2>4, <2>5 DEF TextsInv
  <2>10. since'.slipped = (text # NoText /\ since.slipped)
    BY <1>s, <2>1
  <2> QED BY <2>1, <2>4, <2>7, <2>8, <2>9, <2>10 DEF TextsInv
<1>4. CASE RefreshSkipsOld
  <2>1. /\ pictures # << >> /\ shown' = Picture /\ Picture.serial # serial
        /\ texts' = texts /\ text' = text /\ refresh' = refresh /\ serial' = serial /\ refresh = "idle"
        /\ shown.serial <= Picture.serial /\ Picture.serial <= serial
    BY <1>4, FrontIs DEF RefreshSkipsOld
  <2>2. Picture.serial \in Nat
    BY <2>1, QueueFields
  <2>3. since'.slipped = (text # NoText /\ since.slipped)
    BY <1>s, <2>1
  <2>4. ASSUME text # NoText, ~ since.slipped
        PROVE  Head(texts).serial <= Picture.serial /\ Head(texts).serial # serial
    <3>1. texts # << >> /\ Head(texts).serial <= shown.serial
      BY <2>4 DEF TextsInv
    <3>2. 1 \in 1 .. n
      BY <1>0, <3>1
    <3> QED BY <1>0, <2>1, <2>2, <3>1, <3>2
  <2> QED BY <2>1, <2>3, <2>4 DEF TextsInv
<1>5. CASE RefreshShows
  <2>1. /\ pictures # << >> /\ shown' = Picture /\ serial' = serial /\ refresh = "shows"
        /\ shown.serial <= Picture.serial /\ Picture.serial <= serial
        /\ shown.serial = Picture.serial => Picture.pts = shown.pts + FrameTime
    BY <1>5, FrontIs DEF RefreshShows
  <2>2. Picture.serial \in Nat /\ Picture.pts \in Nat
    BY <2>1, QueueFields
  <2>3. since'.slipped = (text' # NoText /\ since.slipped)
    BY <1>s, <2>1
  <2>4. ASSUME text # NoText, ~ since.slipped
        PROVE  /\ Head(texts).serial <= Picture.serial /\ texts # << >> /\ 1 \in 1 .. n
               /\ Head(texts).serial = serial => /\ Picture.serial = serial /\ shown.serial = serial
                                                 /\ Texts[text].start <= Picture.pts
    <3>1. /\ texts # << >> /\ Head(texts).serial <= shown.serial /\ Head(texts).n = text
          /\ Head(texts).serial = serial => Texts[text].start <= shown.pts
      BY <2>4 DEF TextsInv
    <3>2. 1 \in 1 .. n
      BY <1>0, <3>1
    <3>3. Head(texts).serial \in Nat /\ text \in 1 .. Len(Texts)
      BY <1>0, <3>1, <3>2
    <3>4. Texts[text].start \in Nat
      BY <1>t, <3>3
    <3> DEFINE h == Head(texts).serial
               p == Picture.serial
    <3>5. h \in Nat /\ p \in Nat /\ h <= shown.serial /\ shown.serial <= p /\ p <= serial
      BY <2>1, <2>2, <3>1, <3>3
    <3> HIDE DEF h, p
    <3>6. h <= p /\ (h = serial => p = serial /\ shown.serial = serial)
      BY <1>0, <3>5
    <3>7. ASSUME h = serial PROVE Texts[text].start <= Picture.pts
      <4>1. Picture.pts = shown.pts + FrameTime /\ Texts[text].start <= shown.pts
        BY <2>1, <3>1, <3>6, <3>7 DEF h, p
      <4> QED BY <1>0, <3>4, <4>1
    <3> QED BY <3>1, <3>2, <3>6, <3>7 DEF h, p
  <2>5. CASE DropsPicture /\ refresh' = "idle" /\ UNCHANGED <<texts, text>>
    BY <2>1, <2>3, <2>4, <2>5 DEF TextsInv
  <2>6. CASE /\ ~ DropsPicture /\ refresh' = "displays"
             /\ texts' = SubSeq(texts, FirstLeft, Len(texts))
             /\ text' = IF \E i \in 1 .. FirstLeft - 1 : texts[i].uploaded THEN NoText ELSE text
    <3> DEFINE f == FirstLeft
    <3>1. f \in 1 .. n + 1 /\ (f <= n => ~ Over(f))
      BY FirstLeftIs
    <3> HIDE DEF f
    <3>2. /\ Len(texts') = n + 1 - f /\ texts' \in Seq(Lines)
          /\ \A i \in 1 .. n + 1 - f : texts'[i] = texts[f + i - 1]
      <4>1. texts' = SubSeq(texts, f, n)
        BY <2>6 DEF f
      <4>2. f \in Nat /\ f >= 1 /\ f <= n + 1
        BY <1>0, <3>1
      <4>3. \A i \in f .. n : texts[i] \in Lines
        BY <1>0, <4>2, TextFields
      <4>4. /\ SubSeq(texts, f, n) \in Seq(Lines)
            /\ Len(SubSeq(texts, f, n)) = IF f <= n THEN n - f + 1 ELSE 0
            /\ \A i \in 1 .. n - f + 1 : SubSeq(texts, f, n)[i] = texts[f + i - 1]
        BY <1>0, <4>2, <4>3, SubSeqProperties
      <4>5. n - f + 1 = n + 1 - f /\ (~ (f <= n) => n + 1 - f = 0)
        BY <1>0, <4>2
      <4> QED BY <4>1, <4>4, <4>5
    <3>3. \A i \in 1 .. n + 1 - f : f + i - 1 \in 1 .. n /\ (i >= 2 => f + i - 1 \in 2 .. n)
      BY <1>0, <3>1
    <3>4. /\ \A i \in 2 .. Len(texts') : ~ texts'[i].uploaded
          /\ \A i \in 1 .. Len(texts') : texts'[i].serial <= serial'
      <4>1. \A i \in 2 .. n : ~ texts[i].uploaded
        BY DEF TextsInv
      <4>2. \A i \in 2 .. n + 1 - f : i \in 1 .. n + 1 - f /\ i >= 2
        BY <1>0, <3>1
      <4> QED BY <1>0, <2>1, <3>2, <3>3, <4>1, <4>2
    <3>5. texts' # << >> => /\ Len(texts') >= 1 /\ Head(texts') = texts[f] /\ f \in 1 .. n
      <4>1. ASSUME texts' # << >> PROVE Len(texts') >= 1 /\ Head(texts') = texts'[1]
        BY <3>2, <4>1, EmptySeq, HeadTailProperties
      <4>2. ASSUME texts' # << >> PROVE f \in 1 .. n /\ 1 \in 1 .. n + 1 - f /\ f + 1 - 1 = f
        BY <1>0, <3>1, <3>2, <4>1, <4>2
      <4>3. ASSUME texts' # << >> PROVE texts'[1] = texts[f]
        BY <3>2, <4>2, <4>3
      <4> QED BY <4>1, <4>2, <4>3
    <3>6. CASE f = 1
      <4>1. text' = text
        BY <2>6, <3>6 DEF f
      <4>2. texts # << >> => texts' # << >> /\ Head(texts') = Head(texts)
        <5>1. ASSUME texts # << >> PROVE Len(texts') = n /\ n >= 1 /\ 1 \in 1 .. n + 1 - f /\ f + 1 - 1 = 1
          BY <1>0, <3>2, <3>6, <5>1
        <5>2. ASSUME texts # << >> PROVE texts' # << >>
          BY <5>1, <5>2, EmptySeq
        <5> QED BY <1>0, <3>5, <3>6, <5>2
      <4>3. texts' # << >> => texts # << >>
        BY <1>0, <3>5
      <4>4. ASSUME text # NoText, ~ since.slipped
            PROVE  /\ Head(texts).serial = serial /\ Head(texts).n = text
                   /\ Picture.pts <= Texts[text].end
        <5>1. f <= n /\ texts[1] = Head(texts) /\ Head(texts).n = text /\ 1 \in 1 .. n
          BY <1>0, <2>4, <3>6, <4>4 DEF TextsInv
        <5>2. ~ Over(1)
          BY <3>1, <3>6, <5>1
        <5>3. texts[1].serial = serial /\ ~ (Picture.pts > Texts[texts[1].n].end)
          BY <5>2 DEF Over
        <5>4. Texts[texts[1].n].end \in Nat
          BY <1>0, <1>t, <5>1
        <5> QED BY <2>2, <5>1, <5>3, <5>4
      <4>5. serial <= serial
        BY <1>0
      <4> QED BY <2>1, <2>3, <2>4, <2>6, <3>4, <4>1, <4>2, <4>3, <4>4, <4>5 DEF TextsInv
    <3>7. CASE f # 1
      <4>1. texts # << >> /\ 1 \in 1 .. f - 1
        <5>1. n >= 1
          BY <1>0, <3>1, <3>7
        <5> QED BY <1>0, <3>1, <3>7, <5>1
      <4>2. text' = NoText
        <5>1. CASE text = NoText
          BY <2>6, <5>1
        <5>2. CASE text # NoText
          <6>1. texts[1].uploaded
            BY <1>0, <4>1, <5>2 DEF TextsInv
          <6> QED BY <2>6, <4>1, <6>1 DEF f
        <5> QED BY <5>1, <5>2
      <4>3. texts' # << >> => ~ Head(texts').uploaded
        <5>1. ASSUME texts' # << >> PROVE f \in 2 .. n /\ Head(texts') = texts[f]
          BY <1>0, <3>1, <3>5, <3>7, <5>1
        <5>2. \A i \in 2 .. n : ~ texts[i].uploaded
          BY DEF TextsInv
        <5> QED BY <5>1, <5>2
      <4> QED BY <3>4, <4>2, <4>3 DEF TextsInv
    <3> QED BY <3>6, <3>7
  <2> QED BY <1>5, <2>5, <2>6 DEF RefreshShows
<1>6. CASE RefreshDisplays
  <2> DEFINE due == texts # << >> /\ ~ Head(texts).uploaded /\ shown.pts >= Texts[Head(texts).n].start
  <2>1. /\ refresh = "displays" /\ refresh' = "idle" /\ shown' = shown /\ serial' = serial
        /\ texts' = IF due THEN [texts EXCEPT ![1].uploaded = TRUE] ELSE texts
        /\ text' = IF due THEN Head(texts).n ELSE text
    BY <1>6 DEF RefreshDisplays
  <2>2. since'.slipped = (text' # NoText /\ (since.slipped \/ shown.serial # Head(texts).serial))
    BY <1>s, <2>1
  <2> HIDE DEF due
  <2>3. CASE ~ due
    <3>1. texts' = texts /\ text' = text
      BY <2>1, <2>3
    <3> QED BY <2>1, <2>2, <3>1 DEF TextsInv
  <2>4. CASE due
    <3>1. /\ texts # << >> /\ ~ Head(texts).uploaded /\ shown.pts >= Texts[Head(texts).n].start
      BY <2>4 DEF due
    <3>2. n >= 1 /\ 1 \in 1 .. n /\ Head(texts) = texts[1] /\ DOMAIN texts = 1 .. n
      BY <1>0, <3>1, TextFields
    <3>3. texts' = [texts EXCEPT ![1] = [texts[1] EXCEPT !.uploaded = TRUE]] /\ text' = texts[1].n
      BY <2>1, <2>4, <3>2
    <3> DEFINE one == [texts[1] EXCEPT !.uploaded = TRUE]
    <3>4. one.uploaded /\ one.n = texts[1].n /\ one.serial = texts[1].serial /\ one \in Lines
      BY <3>2, TextFields DEF Lines
    <3> HIDE DEF one
    <3>5. /\ texts' \in Seq(Lines) /\ Len(texts') = n /\ texts'[1] = one
          /\ \A i \in 2 .. n : texts'[i] = texts[i]
      <4>1. texts' = [texts EXCEPT ![1] = one]
        BY <3>3 DEF one
      <4>2. \A i \in 2 .. n : i \in 1 .. n /\ i # 1
        BY <1>0
      <4>3. /\ texts' \in Seq(Lines) /\ Len(texts') = n
        BY <1>0, <3>2, <3>4, <4>1, ExceptSeq
      <4> QED BY <3>2, <4>1, <4>2, <4>3
    <3>6. texts' # << >> /\ Head(texts') = texts'[1]
      BY <3>2, <3>5, EmptySeq, HeadTailProperties
    <3>7. \A i \in 1 .. n : texts'[i].serial = texts[i].serial
      <4>1. \A i \in 1 .. n : i = 1 \/ i \in 2 .. n
        BY <1>0
      <4> QED BY <3>4, <3>5, <4>1
    <3>8. text' \in 1 .. Len(Texts) /\ text' # NoText
      BY <1>0, <3>2, <3>3 DEF NoText
    <3>9. /\ \A i \in 2 .. Len(texts') : ~ texts'[i].uploaded
          /\ \A i \in 1 .. Len(texts') : texts'[i].serial <= serial'
      BY <1>0, <2>1, <3>5, <3>7 DEF TextsInv
    <3>10. Texts[text'].start <= shown.pts
      BY <1>0, <1>t, <3>1, <3>2, <3>3, <3>8
    <3>11. ~ since'.slipped => shown.serial = Head(texts).serial
      BY <2>2, <3>8
    <3>12. /\ Head(texts').uploaded /\ Head(texts').n = text' /\ Head(texts').serial = Head(texts).serial
      BY <3>2, <3>3, <3>4, <3>5, <3>6
    <3>13. shown.serial <= shown.serial
      BY <1>0
    <3> QED BY <2>1, <3>6, <3>9, <3>10, <3>11, <3>12, <3>13 DEF TextsInv
  <2> QED BY <2>3, <2>4
<1>7. CASE Toggle \/ Decode \/ SoundBegins \/ SoundEnds \/ RefreshDecides \/ RefreshWaits \/ Tick
  BY <1>1, <1>7 DEF Toggle, Decode, SoundBegins, SoundEnds, RefreshDecides, RefreshWaits, Tick, PictureDue, RefreshIdle
<1> QED BY <1>2, <1>3, <1>4, <1>5, <1>6, <1>7 DEF RefreshNext, RefreshThread

-----------------------------------------------------------------------------
(* The position in a pause. *)

LEMMA MasterIs ==
    /\ MasterClock \in Clocks
    /\ scenario.master = "audio" => MasterClock = "aud"
    /\ scenario.master = "video" => MasterClock = "vid"
    /\ scenario.master \notin {"audio", "video"} => MasterClock = "ext"
BY DEF MasterClock, Clocks

LEMMA PositionStays ==
    ASSUME RefreshTypeOK, switches.paused, switches.aout_paused, switches'.paused, switches'.aout_paused,
           clock'[MasterClock] = clock[MasterClock], serial' = serial, seek_pos' = seek_pos,
           scenario'.master = scenario.master
    PROVE  Position' = Position
<1>1. MasterClock' = MasterClock
  BY DEF MasterClock
<1> DEFINE m == MasterClock
           old == Reads(m, clock[m])
           new == IF (m # "ext" /\ clock'[m].serial # serial') \/ clock'[m].pts = NAN THEN NAN
                  ELSE IF (IF m = "aud" THEN switches'.aout_paused ELSE switches'.paused) THEN clock'[m].pts
                  ELSE clock'[m].pts + time' - clock'[m].last_updated
<1>2. GetClock(m) = old /\ (GetClock(MasterClock))' = new
  BY <1>1 DEF GetClock, Reads, Stopped
<1>3. new = old
  BY DEF Reads, Stopped
<1> QED BY <1>2, <1>3 DEF Position

LEMMA MovedStep ==
    ASSUME RefreshTypeOK, PicturesInv, SwitchesInv, ClocksInv, MovedInv, RefreshNext, RefreshTypeOK'
    PROVE  MovedInv'
<1> DEFINE quiet == switches.paused /\ switches'.paused /\ serial' = serial
<1>0. /\ since'.moved = IF quiet THEN since.moved + (IF Position' # Position THEN 1 ELSE 0) ELSE 0
      /\ since.moved \in Nat /\ since.moved <= 1
  BY RememberIs, RefreshTypeStep, StateFields DEF RefreshNext, MovedInv
<1>a. InTime /\ SoundInv
  BY DEF ClocksInv
<1>1. CASE ~ quiet
  BY <1>0, <1>1 DEF MovedInv
<1>2. CASE quiet
  <2>0. /\ switches.pause_req /\ switches.aout_paused /\ ~ switches.step /\ switches'.paused /\ serial' = serial
        /\ switches.paused
    BY <1>2, SwitchFields DEF SwitchesInv
  <2>1. ~ Toggle
    BY <2>0, ToggleIs DEF Pressed
  <2>2. ~ \E t \in {0, FrameTime} : Jump(t)
    <3>1. \A t \in {0, FrameTime} : Jump(t) => serial' = serial + 1
      BY DEF Jump
    <3>2. serial \in Nat
      BY StateFields
    <3> QED BY <2>0, <3>1, <3>2
  <2>3. ~ SoundBegins /\ ~ RefreshDecides
    BY <2>0 DEF SoundBegins, SoundDue, RefreshDecides, PictureDue, RefreshIdle
  <2>4. CASE SoundEnds
    <3>1. /\ sound.pc = "fills" /\ sound'.pc = "idle" /\ scenario.master = "audio" /\ scenario' = scenario
      BY <1>a, <2>4 DEF SoundEnds, SoundInv, RefreshTypeOK, Sounds
    <3>2. since.moved = 0
      BY <3>1 DEF MovedInv
    <3>3. since'.moved <= 1
      BY <1>0, <3>2
    <3> QED BY <2>0, <3>1, <3>3 DEF MovedInv
  <2>5. CASE RefreshShows
    <3>1. /\ refresh = "shows" /\ refresh' # "shows" /\ scenario' = scenario /\ sound' = sound
          /\ seek_pos' = seek_pos /\ switches' = switches
      BY <2>5 DEF RefreshShows
    <3>2. CASE scenario.master = "audio"
      <4>1. clock'["aud"] = clock["aud"]
        BY <1>a, <2>5, ClocksAfterPicture
      <4>2. Position' = Position
        BY <2>0, <3>1, <3>2, <4>1, MasterIs, PositionStays
      <4>3. since'.moved = since.moved
        BY <1>0, <1>2, <4>2
      <4> QED BY <1>0, <2>0, <3>1, <4>3 DEF MovedInv
    <3>3. CASE scenario.master # "audio"
      <4>1. since.moved = 0 /\ sound.pc = "idle"
        BY <1>a, <3>1, <3>3 DEF MovedInv, SoundInv
      <4>2. since'.moved <= 1
        BY <1>0, <4>1
      <4> QED BY <2>0, <3>1, <4>1, <4>2 DEF MovedInv
    <3> QED BY <3>2, <3>3
  <2>6. CASE Decode \/ PushText \/ RefreshSkipsOld \/ RefreshWaits \/ RefreshDisplays \/ Tick
    <3>1. /\ sound'.pc = sound.pc /\ scenario'.master = scenario.master
          /\ refresh' = "shows" => refresh = "shows"
      <4>1. CASE Tick BY <4>1, TickIs DEF Tick
      <4>2. CASE Decode \/ PushText \/ RefreshSkipsOld \/ RefreshWaits \/ RefreshDisplays
        BY <4>2 DEF Decode, PushText, RefreshSkipsOld, RefreshWaits, RefreshDisplays, RefreshTypeOK, Budgets
      <4> QED BY <2>6, <4>1, <4>2
    <3>2. clock' = clock /\ seek_pos' = seek_pos /\ switches'.aout_paused = switches.aout_paused
      <4>1. CASE RefreshDisplays
        BY <2>0, <4>1, ShownIs DEF Pressed, RefreshDisplays
      <4>2. CASE Decode \/ PushText \/ RefreshSkipsOld \/ RefreshWaits \/ Tick
        BY <4>2 DEF Decode, PushText, RefreshSkipsOld, RefreshWaits, Tick
      <4> QED BY <2>6, <4>1, <4>2
    <3>3. Position' = Position
      BY <2>0, <3>1, <3>2, PositionStays
    <3>4. since'.moved = since.moved
      BY <1>0, <1>2, <3>3
    <3> QED BY <1>0, <2>0, <3>1, <3>4 DEF MovedInv
  <2> QED BY <2>1, <2>2, <2>3, <2>4, <2>5, <2>6 DEF RefreshNext, RefreshThread
<1> QED BY <1>1, <1>2

-----------------------------------------------------------------------------
(* The player that runs calmly. *)

\* It was calm before the step, or the step is the first tick of the calm.
LEMMA CalmBefore ==
    ASSUME RefreshTypeOK, PicturesInv, SwitchesInv, ClocksInv, RefreshNext, RefreshTypeOK', Calm'
    PROVE  /\ ~ Disturbed /\ ~ Toggle /\ ~ \E t \in {0, FrameTime} : Jump(t)
           /\ ~ switches.paused /\ (Tick => AllDone)
           /\ (Calm \/ Tick)
           /\ shown.serial = serial /\ serial' = serial /\ scenario'.master = scenario.master
           /\ scenario.master = "audio" => clock["aud"].serial = serial /\ clock["aud"].pts # NAN
           /\ since'.calm = IF Tick /\ since.calm + 1 <= CalmTime THEN since.calm + 1
                            ELSE IF Tick THEN CalmTime ELSE since.calm
<1>0. since'.calm >= 1 /\ ~ switches'.paused
  BY DEF Calm
<1>a. InTime /\ VidInv
  BY DEF ClocksInv
<1>1. ~ Disturbed
  BY <1>0, RememberIs, RefreshTypeStep DEF RefreshNext
<1>2. /\ scenario'.late = scenario.late /\ scenario'.togglings = scenario.togglings
      /\ scenario'.jumps = scenario.jumps
      /\ GetClock("vid") # NAN /\ GetClock(MasterClock) # NAN
  BY <1>1, UndisturbedIs DEF RefreshTypeOK
<1>3. scenario \in Budgets /\ scenario.late \in Nat /\ scenario.togglings \in Nat /\ scenario.jumps \in Nat
  BY StateFields DEF RefreshTypeOK
<1>4. ~ Toggle
  <2>1. Toggle => scenario'.togglings = scenario.togglings - 1
    BY <1>3 DEF Toggle, Budgets
  <2> QED BY <1>2, <1>3, <2>1
<1>5. ~ \E t \in {0, FrameTime} : Jump(t)
  <2>1. \A t \in {0, FrameTime} : Jump(t) => scenario'.jumps = scenario.jumps - 1
    BY <1>3 DEF Jump, Budgets
  <2> QED BY <1>2, <1>3, <2>1
<1>6. Tick => AllDone
  <2>1. Tick /\ ~ AllDone => scenario'.late = scenario.late - 1
    BY TickIs
  <2> QED BY <1>2, <1>3, <2>1
<1>7. ~ switches.paused
  <2>1. CASE RefreshDisplays
    <3>1. switches'.paused = switches.pause_req /\ (~ switches.step => switches.paused = switches.pause_req)
          /\ (switches.step => ~ switches.paused)
      BY <2>1, ShownIs DEF Pressed
    <3> QED BY <1>0, <3>1, SwitchFields
  <2>2. CASE ~ RefreshDisplays
    <3>1. switches' = switches
      BY <1>4, <1>5, <2>2 DEF RefreshNext, RefreshThread, Decode, PushText, SoundBegins, SoundEnds,
          RefreshSkipsOld, RefreshDecides, RefreshWaits, RefreshShows, Tick
    <3> QED BY <1>0, <3>1
  <2> QED BY <2>1, <2>2
<1>8. time \in Nat /\ (Tick => time' # time) /\ (~ Tick => time' = time)
  <2>1. time \in Nat
    BY StateFields
  <2>2. Tick => time' = time + 1
    BY DEF Tick
  <2>3. ~ Tick => time' = time
    BY <1>a, TypeSwitches, TypeDecoders, TypeRefresh DEF RefreshNext
  <2> QED BY <2>1, <2>2, <2>3
<1>9. /\ Tick => since'.calm = IF since.calm + 1 <= CalmTime THEN since.calm + 1 ELSE CalmTime
      /\ ~ Tick => since'.calm = since.calm
  BY <1>1, <1>8, RememberIs, RefreshTypeStep DEF RefreshNext
<1>10. Calm \/ Tick
  BY <1>0, <1>7, <1>9 DEF Calm
<1>11. shown.serial = serial
  BY <1>2, <1>a, ReadsIs DEF VidInv, Clocks
<1>12. scenario.master = "audio" => clock["aud"].serial = serial /\ clock["aud"].pts # NAN
  BY <1>2, <1>a, ReadsIs, MasterIs
<1>13. serial' = serial /\ scenario'.master = scenario.master
  <2>1. CASE Tick
    BY <2>1, TickIs DEF Tick
  <2>2. CASE RefreshDisplays
    BY <2>2 DEF RefreshDisplays
  <2>3. CASE ~ Tick /\ ~ RefreshDisplays
    BY <1>3, <1>4, <1>5, <2>3 DEF RefreshNext, RefreshThread, Decode, PushText, SoundBegins, SoundEnds,
        RefreshSkipsOld, RefreshDecides, RefreshWaits, RefreshShows, Budgets
  <2> QED BY <2>1, <2>2, <2>3
<1> QED BY <1>1, <1>4, <1>5, <1>6, <1>7, <1>9, <1>10, <1>11, <1>12, <1>13

LEMMA CalmShown ==
    ASSUME RefreshTypeOK, PicturesInv, SwitchesInv, ClocksInv, CalmInv, RefreshNext, RefreshTypeOK', Calm'
    PROVE  /\ ~ RefreshSkipsOld /\ ~ switches.step /\ ~ switches.aout_paused /\ ~ switches.pause_req
           /\ shown'.serial = serial' /\ (pictures' # << >> => Picture'.serial = serial')
           /\ ~ switches'.step
<1>0. /\ shown.serial = serial /\ serial' = serial /\ (Calm \/ Tick) /\ ~ switches.paused
      /\ ~ Toggle /\ ~ \E t \in {0, FrameTime} : Jump(t)
  BY CalmBefore
<1>1. ~ RefreshSkipsOld
  <2>1. Calm => (pictures # << >> => Picture.serial = serial)
    BY DEF CalmInv
  <2>2. RefreshSkipsOld /\ Tick => FALSE
    <3>1. time \in Nat
      BY StateFields
    <3>2. RefreshSkipsOld /\ Tick => time' = time /\ time' = time + 1
      BY DEF RefreshSkipsOld, Tick
    <3> QED BY <3>1, <3>2
  <2> QED BY <1>0, <2>1, <2>2, FrontIs
<1>2. ~ switches.step
  <2>1. CASE Calm
    BY <2>1 DEF CalmInv
  <2>2. CASE Tick
    <3>1. AllDone
      BY <2>2, CalmBefore
    <3> QED BY <1>0, <3>1 DEF SwitchesInv, AllDone
  <2> QED BY <1>0, <2>1, <2>2
<1>3. ~ switches.pause_req /\ ~ switches.aout_paused
  BY <1>0, <1>2, CalmBefore, SwitchFields DEF SwitchesInv
<1>4. shown'.serial = serial'
  <2>1. CASE RefreshShows
    <3>1. pictures # << >> /\ shown' = Picture
      BY <2>1, FrontIs
    <3>2. Picture.serial \in Nat /\ serial \in Nat
      BY <3>1, QueueFields, StateFields
    <3> QED BY <1>0, <3>1, <3>2, FrontIs
  <2>2. CASE ~ RefreshShows
    BY <1>0, <1>1, <2>2, FrontStays
  <2> QED BY <2>1, <2>2
<1>5. PicturesInv'
  BY PicturesStep
<1>6. pictures' # << >> => Picture'.serial = serial'
  <2> SUFFICES ASSUME pictures' # << >> PROVE Picture'.serial = serial'
    OBVIOUS
  <2>1. Len(pictures') >= 1 /\ Len(pictures') \in Nat /\ Picture' = pictures'[1]
    <3>1. pictures' \in Seq(Shots)
      BY DEF RefreshTypeOK
    <3> QED BY <3>1, EmptySeq, LenProperties, HeadTailProperties DEF Picture
  <2>2. (Follows(shown, pictures[1]))'
    <3>1. 1 \in 1 .. Len(pictures')
      BY <2>1
    <3> QED BY <1>5, <3>1 DEF PicturesInv
  <2>3. pictures'[1].serial \in Nat /\ serial' \in Nat
    <3>1. pictures'[1] \in Shots
      BY <2>1, ElementOfSeq DEF RefreshTypeOK
    <3> QED BY <3>1 DEF Shots, RefreshTypeOK
  <2> QED BY <1>4, <2>1, <2>2, <2>3 DEF Follows
<1>7. ~ switches'.step
  <2>1. CASE RefreshDisplays
    BY <2>1, ShownIs DEF Pressed
  <2>2. CASE ~ RefreshDisplays
    BY <1>0, <1>2, <2>2 DEF RefreshNext, RefreshThread, Decode, PushText, SoundBegins, SoundEnds,
        RefreshSkipsOld, RefreshDecides, RefreshWaits, RefreshShows, Tick
  <2> QED BY <2>1, <2>2
<1> QED BY <1>1, <1>2, <1>3, <1>4, <1>6, <1>7

\* The clock of sound: it stays on what the next buffer will make it, from the
\* buffer after the first tick of the calm on.
SoundsOn ==
    /\ clock["aud"].serial = serial
    /\ sound.pc = "fills" => sound.serial = serial /\ sound.at = time /\ sound.wait = Period
    /\ \/ AudioOffset = NextOffset
       \/ sound.pc = "idle" /\ since.calm + sound.wait <= Period
       \/ sound.pc = "fills" /\ since.calm <= Period

LEMMA CalmSound ==
    ASSUME RefreshTypeOK, PicturesInv, SwitchesInv, ClocksInv, CalmInv, RefreshNext, RefreshTypeOK', Calm',
           scenario.master = "audio"
    PROVE  SoundsOn'
<1>0. /\ (Calm \/ Tick) /\ serial' = serial /\ clock["aud"].serial = serial /\ clock["aud"].pts # NAN
      /\ ~ Toggle /\ ~ \E t \in {0, FrameTime} : Jump(t)
      /\ since'.calm = IF Tick /\ since.calm + 1 <= CalmTime THEN since.calm + 1
                       ELSE IF Tick THEN CalmTime ELSE since.calm
  BY CalmBefore
<1>a. ~ switches.aout_paused /\ InTime /\ SoundInv
  BY CalmShown DEF ClocksInv
<1>b. /\ time \in Nat /\ upcoming.sound \in Nat /\ sound.wait \in Nat /\ sound.wait <= Period /\ Period \in Nat
      /\ since.calm \in Nat /\ clock["aud"].pts \in Nat /\ clock["aud"].last_updated \in Nat
      /\ sound.at \in Nat /\ sound.clock \in Nat \cup {NAN} /\ CalmTime \in Nat /\ Period > 0
  BY <1>0, StateFields, ConstantFacts DEF Clocks
<1>c. Calm => SoundsOn
  BY DEF CalmInv, SoundsOn
<1>1. CASE SoundBegins
  <2>1. ~ Tick
    BY <1>1, <1>b DEF SoundBegins, Tick
  <2>2. /\ sound.pc = "idle" /\ sound.wait = 0 /\ sound'.pc = "fills" /\ sound'.serial = serial
        /\ sound'.at = time /\ sound'.wait = Period /\ clock' = clock /\ time' = time
        /\ since'.calm = since.calm
    BY <1>0, <1>1, <2>1 DEF SoundBegins, SoundDue
  <2>3. upcoming'.sound = upcoming.sound + Period
    BY <1>1 DEF SoundBegins, RefreshTypeOK
  <2>4. AudioOffset' = AudioOffset
    BY <2>2 DEF AudioOffset
  <2>5. NextOffset' = NextOffset
    BY <1>b, <2>2, <2>3 DEF NextOffset
  <2>6. AudioOffset = NextOffset \/ since.calm <= Period
    BY <1>0, <1>b, <1>c, <2>1, <2>2 DEF SoundsOn
  <2> QED BY <1>0, <2>2, <2>4, <2>5, <2>6 DEF SoundsOn
<1>2. CASE SoundEnds
  <2>1. ~ Tick
    BY <1>2, <1>b DEF SoundEnds, Tick
  <2>2. sound.pc = "fills" /\ sound.serial = serial /\ sound.at = time /\ sound.wait = Period
    BY <1>0, <1>2, <1>c, <2>1 DEF SoundEnds, SoundsOn
  <2>3. /\ clock'["aud"].pts = sound.clock - Period /\ clock'["aud"].serial = sound.serial
        /\ clock'["aud"].last_updated = sound.at
    BY <1>2, <1>a, ClocksAfterSound
  <2>4. /\ sound'.pc = "idle" /\ sound'.wait = sound.wait /\ time' = time /\ upcoming' = upcoming
    BY <1>2 DEF SoundEnds, RefreshTypeOK, Sounds
  <2>5. sound.clock = upcoming.sound
    BY <1>a, <2>2 DEF SoundInv
  <2>6. AudioOffset' = NextOffset'
    BY <1>b, <2>2, <2>3, <2>4, <2>5 DEF AudioOffset, NextOffset
  <2> QED BY <1>0, <2>2, <2>3, <2>4, <2>6 DEF SoundsOn
<1>3. CASE Tick
  <2>1. AllDone
    BY <1>3, CalmBefore
  <2>2. sound.pc = "idle" /\ sound.wait # 0
    BY <1>a, <2>1, CalmBefore DEF AllDone, SoundDue
  <2>3. /\ sound'.pc = "idle" /\ sound'.wait = sound.wait - 1 /\ time' = time + 1
        /\ clock' = clock /\ upcoming' = upcoming
    BY <1>3, <1>a, <2>2, TickIs DEF Tick
  <2>4. AudioOffset' = AudioOffset /\ NextOffset' = NextOffset
    BY <1>b, <2>3 DEF AudioOffset, NextOffset
  <2>5. since'.calm <= since.calm + 1
    BY <1>0, <1>3, <1>b
  <2>6. AudioOffset = NextOffset \/ since.calm + sound.wait <= Period
    <3>1. CASE Calm
      BY <1>c, <2>2, <3>1 DEF SoundsOn
    <3>2. CASE ~ Calm
      <4>1. since.calm = 0
        BY <1>b, <3>2, CalmBefore DEF Calm
      <4> QED BY <1>b, <4>1
    <3> QED BY <3>1, <3>2
  <2>7. since'.calm \in Nat
    BY StateFields DEF RefreshTypeOK
  <2>8. AudioOffset' = NextOffset' \/ since'.calm + sound'.wait <= Period
    BY <1>b, <2>2, <2>3, <2>4, <2>5, <2>6, <2>7
  <2> QED BY <1>0, <2>3, <2>8 DEF SoundsOn
<1>4. CASE ~ SoundBegins /\ ~ SoundEnds /\ ~ Tick
  <2>1. /\ sound' = sound /\ upcoming'.sound = upcoming.sound /\ clock'["aud"] = clock["aud"]
    BY <1>0, <1>4, <1>a, SoundStays
  <2>2. time' = time
    BY <1>4, <1>a, TypeSwitches, TypeDecoders, TypeRefresh DEF RefreshNext
  <2>3. since'.calm = since.calm /\ SoundsOn
    BY <1>0, <1>4, <1>c
  <2> QED BY <1>0, <2>1, <2>2, <2>3 DEF SoundsOn, AudioOffset, NextOffset
<1> QED BY <1>1, <1>2, <1>3, <1>4

LEMMA CalmStep ==
    ASSUME RefreshTypeOK, PicturesInv, SwitchesInv, ClocksInv, CalmInv, RefreshNext, RefreshTypeOK'
    PROVE  CalmInv'
<1>1. ASSUME Calm'
      PROVE  /\ shown'.serial = serial' /\ (pictures' # << >> => Picture'.serial = serial')
             /\ ~ switches'.step
  BY <1>1, CalmShown
<1>2. ASSUME Calm', scenario'.master = "audio" PROVE SoundsOn'
  BY <1>2, CalmSound, CalmBefore
<1> QED BY <1>1, <1>2 DEF CalmInv, SoundsOn

\* In the calm nothing is due when time goes on.
LEMMA CalmTick ==
    ASSUME RefreshTypeOK, PicturesInv, SwitchesInv, ClocksInv, CalmInv, RefreshNext, RefreshTypeOK', Calm', Tick
    PROVE  /\ pictures # << >> /\ Picture.serial = serial /\ shown.serial = serial
           /\ VpDuration(shown, Picture) = FrameTime
           /\ NewTimer = (IF time <= frame_timer THEN time ELSE frame_timer)
           /\ time < NewTimer + TargetDelay(FrameTime)
           /\ TargetDelay(FrameTime) \in Nat
           /\ refresh = "idle" /\ sound.pc = "idle"
<1>1. AllDone /\ ~ switches.paused /\ shown.serial = serial
  BY CalmBefore
<1>2. pictures # << >> /\ refresh = "idle" /\ sound.pc = "idle" /\ ~ OldPicture /\ ~ PictureDue
  <2>1. Len(pictures) = 3 /\ refresh = "idle" /\ sound.pc = "idle" /\ ~ OldPicture /\ ~ PictureDue
    BY <1>1 DEF AllDone, PictureQueueSize
  <2> QED BY <2>1, QueueFields
<1>3. RefreshIdle
  BY <1>1, <1>2 DEF RefreshIdle
<1>4. Picture.serial = serial /\ ~ (time >= NewTimer + Delay)
  BY <1>2, <1>3 DEF OldPicture, PictureDue
<1>5. VpDuration(shown, Picture) = FrameTime /\ Delay = TargetDelay(FrameTime) /\ Delay \in Nat
  BY <1>1, <1>2, <1>4, DelayIs DEF Delay, ClocksInv
<1>6. NewTimer = (IF time <= frame_timer THEN time ELSE frame_timer) /\ NewTimer \in Int /\ time \in Nat
  BY <1>1, <1>4, NewTimerIs, StateFields
<1> QED BY <1>1, <1>2, <1>4, <1>5, <1>6

LEMMA VideoStep ==
    ASSUME RefreshTypeOK, PicturesInv, SwitchesInv, ClocksInv, CalmInv, VideoInv, RefreshNext, RefreshTypeOK'
    PROVE  VideoInv'
<1> SUFFICES ASSUME Calm', scenario'.master = "video"
             PROVE  time' <= clock'["vid"].last_updated + FrameTime
  BY DEF VideoInv
<1>0. /\ scenario.master = "video" /\ (Calm \/ Tick) /\ ~ Toggle /\ ~ \E t \in {0, FrameTime} : Jump(t)
      /\ shown.serial = serial
  BY CalmBefore
<1>a. ~ switches.step /\ InTime /\ VidInv /\ TimerInv
  BY CalmShown DEF ClocksInv
<1>b. /\ time \in Nat /\ FrameTime \in Nat /\ clock["vid"].last_updated \in Nat /\ frame_timer \in Int
      /\ clock["vid"].pts \in Nat \cup {NAN} /\ shown.pts \in Nat /\ clock["vid"].last_updated <= time
  BY <1>a, StateFields, ConstantFacts DEF Clocks, InTime
<1>1. CASE Tick
  <2>1. /\ time < (IF time <= frame_timer THEN time ELSE frame_timer) + TargetDelay(FrameTime)
        /\ refresh = "idle"
    BY <1>1, CalmTick
  <2>2. TargetDelay(FrameTime) = FrameTime
    BY <1>0, <1>a, ConstantFacts, TargetDelayIs
  <2>3. clock["vid"].pts \in Nat /\ shown.pts <= clock["vid"].pts
        /\ shown.pts - frame_timer >= clock["vid"].pts - clock["vid"].last_updated
    BY <1>0, <1>a, <1>b, <2>1 DEF VidInv, TimerInv
  <2>4. frame_timer <= clock["vid"].last_updated
    BY <1>b, <2>3
  <2>5. time' = time + 1 /\ clock' = clock
    BY <1>1 DEF Tick
  <2> QED BY <1>b, <2>1, <2>2, <2>4, <2>5
<1>2. CASE RefreshShows
  <2>1. clock'["vid"].last_updated = time /\ time' = time
    BY <1>2, <1>a, ClocksAfterPicture DEF RefreshShows
  <2> QED BY <1>b, <2>1
<1>3. CASE ~ Tick /\ ~ RefreshShows
  <2>1. clock'["vid"] = clock["vid"]
    <3>1. CASE RefreshDisplays
      BY <1>a, <3>1, ShownIs
    <3>2. CASE SoundEnds
      BY <1>a, <3>2, ClocksAfterSound DEF ClocksInv
    <3>3. CASE ~ RefreshDisplays /\ ~ SoundEnds
      BY <1>0, <1>3, <3>3, ClocksStay DEF RefreshNext, RefreshThread
    <3> QED BY <3>1, <3>2, <3>3
  <2>2. time' = time
    BY <1>3, <1>a, TypeSwitches, TypeDecoders, TypeRefresh DEF RefreshNext
  <2> QED BY <1>0, <1>3, <2>1, <2>2 DEF VideoInv
<1> QED BY <1>1, <1>2, <1>3

-----------------------------------------------------------------------------
(* The invariant holds, and what follows from it. *)

LEMMA HeldInit ==
    ASSUME RefreshInit
    PROVE  HeldInv
<1>1. /\ time = 0 /\ serial = 1 /\ seek_pos = 0 /\ frame_timer = 0 /\ scenario \in Scenarios
      /\ clock = [c \in Clocks |-> ClockAt(NAN, -1, 0)]
      /\ pictures = << >> /\ shown = [pts |-> 0, serial |-> 0] /\ refresh = "idle"
      /\ upcoming = [pts |-> 0, sound |-> 0, text |-> 0]
      /\ sound = [pc |-> "idle", clock |-> NAN, serial |-> 0, at |-> 0, wait |-> 0]
      /\ texts = << >> /\ text = NoText
      /\ since = [calm |-> 0, moved |-> 0, slipped |-> FALSE]
  BY DEF RefreshInit
<1>2. Pressed(switches, FALSE, FALSE, FALSE, FALSE, FALSE)
  BY DEF RefreshInit, InitialSwitches, Pressed, Switches
<1>3. \A c \in Clocks : /\ clock[c] \in Clips /\ clock[c].pts = NAN /\ clock[c].serial = -1
                        /\ clock[c].last_updated = 0
  BY <1>1 DEF ClockAt, Clips
<1>4. RefreshTypeOK
  <2>1. time \in Nat /\ serial \in Nat /\ seek_pos \in Nat /\ frame_timer \in Int /\ scenario \in Budgets
    BY <1>1, ConstantFacts
  <2>2. clock \in [Clocks -> Clips]
    BY <1>1, <1>3
  <2>3. pictures \in Seq(Shots) /\ texts \in Seq(Lines)
    BY <1>1
  <2>4. shown \in Shots /\ upcoming \in [pts : Nat, sound : Nat, text : Nat] /\ upcoming.text <= Len(Texts)
    BY <1>1, ConstantFacts DEF Shots
  <2>5. sound \in Sounds
    BY <1>1, ConstantFacts DEF Sounds
  <2>6. text \in 0 .. Len(Texts)
    BY <1>1, ConstantFacts DEF NoText
  <2>7. since \in [calm : Nat, moved : Nat, slipped : BOOLEAN] /\ since.calm <= CalmTime
    BY <1>1, ConstantFacts
  <2>8. switches \in Switches /\ refresh \in {"idle", "shows", "displays"}
    BY <1>1, <1>2 DEF Pressed
  <2> QED BY <2>1, <2>2, <2>3, <2>4, <2>5, <2>6, <2>7, <2>8 DEF RefreshTypeOK
<1>5. PicturesInv
  <2>1. Len(pictures) = 0
    BY <1>1
  <2> QED BY <1>1, <2>1 DEF PicturesInv, Follows, Next1
<1>6. SwitchesInv
  BY <1>2 DEF Pressed, SwitchesInv
<1>7. ClocksInv
  <2>1. InTime /\ VidInv /\ ExtInv
    BY <1>1, <1>3, <1>2 DEF InTime, VidInv, ExtInv, Clocks
  <2>2. SoundInv
    BY <1>1, <1>3 DEF SoundInv, Clocks
  <2>3. TimerInv
    BY <1>1 DEF TimerInv
  <2> QED BY <2>1, <2>2, <2>3 DEF ClocksInv
<1>8. TextsInv
  <2>1. Len(texts) = 0
    BY <1>1
  <2> QED BY <1>1, <2>1 DEF TextsInv
<1>9. MovedInv /\ CalmInv /\ VideoInv
  BY <1>1 DEF MovedInv, CalmInv, VideoInv, Calm
<1> QED BY <1>4, <1>5, <1>6, <1>7, <1>8, <1>9 DEF HeldInv

LEMMA HeldStep ==
    ASSUME HeldInv, [RefreshNext]_refreshVars
    PROVE  HeldInv'
<1>1. CASE RefreshNext
  <2>1. /\ RefreshTypeOK /\ PicturesInv /\ SwitchesInv /\ ClocksInv /\ TextsInv /\ MovedInv /\ CalmInv
        /\ VideoInv
    BY DEF HeldInv
  <2>2. RefreshTypeOK'
    BY <1>1, <2>1, RefreshTypeStep
  <2>3. PicturesInv' /\ SwitchesInv' /\ ClocksInv' /\ TextsInv'
    BY <1>1, <2>1, <2>2, PicturesStep, SwitchesStep, ClocksStep, TextsStep
  <2>4. MovedInv' /\ CalmInv' /\ VideoInv'
    BY <1>1, <2>1, <2>2, MovedStep, CalmStep, VideoStep
  <2> QED BY <2>2, <2>3, <2>4 DEF HeldInv
<1>2. CASE UNCHANGED refreshVars
  <2>1. /\ time' = time /\ scenario' = scenario /\ clock' = clock /\ serial' = serial /\ seek_pos' = seek_pos
        /\ switches' = switches /\ frame_timer' = frame_timer /\ pictures' = pictures /\ shown' = shown
        /\ refresh' = refresh /\ upcoming' = upcoming /\ sound' = sound /\ texts' = texts /\ text' = text
        /\ since' = since
    BY <1>2 DEF refreshVars
  <2>2. RefreshTypeOK'
    BY <2>1 DEF HeldInv, RefreshTypeOK
  <2>3. PicturesInv' /\ SwitchesInv'
    BY <2>1 DEF HeldInv, PicturesInv, SwitchesInv, Follows, Next1
  <2>4. ClocksInv'
    BY <2>1 DEF HeldInv, ClocksInv, InTime, VidInv, SoundInv, ExtInv, TimerInv, Picture
  <2>5. TextsInv' /\ MovedInv'
    BY <2>1 DEF HeldInv, TextsInv, MovedInv
  <2>6. CalmInv' /\ VideoInv'
    BY <2>1 DEF HeldInv, CalmInv, VideoInv, Calm, AudioOffset, NextOffset, Picture
  <2> QED BY <2>2, <2>3, <2>4, <2>5, <2>6 DEF HeldInv
<1> QED BY <1>1, <1>2

THEOREM HeldInvHolds == RefreshSpec => []HeldInv
<1>1. RefreshInit => HeldInv
  BY HeldInit
<1>2. HeldInv /\ [RefreshNext]_refreshVars => HeldInv'
  BY HeldStep
<1> QED BY <1>1, <1>2, PTL DEF RefreshSpec

\* The text on the screen is that of the front of the queue, and belongs to the
\* picture that is displayed (video_refresh, video_image_display2).
THEOREM TextInTimeHolds == RefreshSpec => []TextInTime
<1>1. HeldInv => TextInTime
  BY DEF HeldInv, TextsInv, TextInTime
<1> QED BY <1>1, HeldInvHolds, PTL

\* What a pause does to the position.
LEMMA PauseTakesBack ==
    ASSUME HeldInv, RefreshNext, CalmTime > Period,
           since.calm = CalmTime, ~ switches.paused, switches'.paused
    PROVE  /\ Position' <= Position
           /\ Position - Position' < Max({Period, FrameTime}) + ThresholdMax
<1>1. /\ RefreshTypeOK /\ SwitchesInv /\ ClocksInv /\ CalmInv /\ VideoInv /\ InTime /\ SoundInv /\ VidInv
  BY DEF HeldInv, ClocksInv
<1>0. /\ Period \in Nat /\ FrameTime \in Nat /\ ThresholdMax \in Nat /\ ThresholdMax > 0 /\ CalmTime \in Nat
      /\ time \in Nat /\ seek_pos \in Nat /\ CalmTime > 0
  BY <1>1, ConstantFacts, StateFields
<1>2. Calm
  BY <1>0 DEF Calm
<1>3. /\ shown.serial = serial /\ ~ switches.step /\ ~ switches.pause_req /\ ~ switches.aout_paused
  BY <1>1, <1>2, SwitchFields DEF CalmInv, SwitchesInv
<1>4. Toggle
  <2>1. ~ RefreshDisplays
    BY <1>1, <1>3, ShownIs DEF Pressed
  <2>2. ~ \E t \in {0, FrameTime} : Jump(t)
    <3>1. \A t \in {0, FrameTime} : Jump(t) => switches' = ResumeOrStep(switches, FALSE)
      BY DEF Jump
    <3>2. ~ ResumeOrStep(switches, FALSE).paused
      BY <1>1, ResumeOrStepIs DEF Pressed
    <3> QED BY <3>1, <3>2
  <2> QED BY <2>1, <2>2 DEF RefreshNext, RefreshThread, Decode, PushText, SoundBegins, SoundEnds,
      RefreshSkipsOld, RefreshDecides, RefreshWaits, RefreshShows, Tick
<1>5. /\ Pressed(switches', TRUE, FALSE, TRUE, TRUE, FALSE) /\ clock' = SetClocks({"ext"})
      /\ time' = time /\ serial' = serial /\ seek_pos' = seek_pos /\ scenario'.master = scenario.master
  BY <1>1, <1>3, <1>4, ToggleIs, ClocksAfterSwitches
<1>6. /\ clock'["vid"] = clock["vid"] /\ clock'["aud"] = clock["aud"]
      /\ clock'["ext"].pts = GetClock("ext")
  BY <1>1, <1>5, SetClocksIs DEF Clocks
<1>7. \A n \in Nat : Max({0, n}) = n
  BY GreatestOfTwo
<1>8. /\ Max({Period, FrameTime}) \in Nat /\ Period <= Max({Period, FrameTime})
      /\ FrameTime <= Max({Period, FrameTime})
  BY <1>0, GreatestOfTwo
<1> DEFINE m   == MasterClock
           now == GetClock(m)
           k   == clock'[m]
           then == IF (m # "ext" /\ k.serial # serial) \/ k.pts = NAN THEN NAN ELSE k.pts
<1>9. (GetClock(MasterClock))' = then
  <2>1. MasterClock' = m
    BY <1>5 DEF MasterClock
  <2>2. switches'.paused /\ switches'.aout_paused
    BY <1>5 DEF Pressed
  <2> QED BY <1>5, <2>1, <2>2 DEF GetClock, Reads, Stopped
<1>10. /\ Position = Max({0, IF now = NAN THEN seek_pos ELSE now})
       /\ Position' = Max({0, IF then = NAN THEN seek_pos ELSE then})
  BY <1>5, <1>9 DEF Position
<1>11. /\ now \in Nat \cup {NAN}
       /\ now # NAN <=> clock[m].pts # NAN /\ (m = "ext" \/ clock[m].serial = serial)
       /\ now # NAN /\ m # "ext" => now = clock[m].pts + time - clock[m].last_updated
       /\ clock[m].pts \in Nat \cup {NAN} /\ clock[m].last_updated \in Nat /\ clock[m].last_updated <= time
  BY <1>1, <1>3, ReadsIs, MasterIs, StateFields DEF Stopped, InTime
<1>12. CASE scenario.master = "audio"
  <2>1. m = "aud" /\ clock["aud"].serial = serial /\ clock["aud"].pts # NAN
    BY <1>1, <1>2, <1>12, MasterIs DEF CalmInv, SoundInv
  <2>2. time - clock["aud"].last_updated <= Period
    <3>1. AudioOffset = NextOffset /\ (sound.pc = "fills" => sound.wait = Period)
      <4>1. sound.wait \in Nat
        BY <1>1, StateFields
      <4>2. /\ sound.pc = "fills" => sound.wait = Period
            /\ \/ AudioOffset = NextOffset
               \/ sound.pc = "idle" /\ since.calm + sound.wait <= Period
               \/ sound.pc = "fills" /\ since.calm <= Period
        BY <1>1, <1>2, <1>12 DEF CalmInv
      <4> QED BY <1>0, <4>1, <4>2
    <3>2. clock["aud"].pts = upcoming.sound - (IF sound.pc = "fills" THEN 2 * Period ELSE Period)
      BY <1>1, <2>1 DEF SoundInv
    <3>3. upcoming.sound \in Nat /\ sound.wait \in Nat /\ clock["aud"].last_updated \in Nat
      BY <1>1, StateFields DEF Clocks
    <3> QED BY <1>0, <3>1, <3>2, <3>3 DEF AudioOffset, NextOffset
  <2>3. now # NAN /\ now = clock["aud"].pts + time - clock["aud"].last_updated /\ clock["aud"].pts \in Nat
    BY <1>11, <2>1
  <2>4. then = clock["aud"].pts /\ then # NAN
    BY <1>6, <2>1
  <2>5. now \in Nat /\ then \in Nat
    BY <1>11, <2>3, <2>4
  <2> HIDE DEF now, then
  <2>6. Position = now /\ Position' = then
    BY <1>7, <1>10, <2>3, <2>4, <2>5
  <2>7. clock["aud"].last_updated \in Nat /\ clock["aud"].last_updated <= time
    BY <1>11, <2>1
  <2> QED BY <1>0, <1>8, <2>2, <2>3, <2>4, <2>5, <2>6, <2>7
<1>13. CASE scenario.master = "video"
  <2>1. m = "vid" /\ clock["vid"].serial = serial /\ clock["vid"].pts # NAN
    BY <1>1, <1>3, <1>13, MasterIs DEF VidInv
  <2>2. time <= clock["vid"].last_updated + FrameTime
    BY <1>1, <1>2, <1>13 DEF VideoInv
  <2>3. now # NAN /\ now = clock["vid"].pts + time - clock["vid"].last_updated /\ clock["vid"].pts \in Nat
    BY <1>11, <2>1
  <2>4. then = clock["vid"].pts /\ then # NAN
    BY <1>6, <2>1
  <2>5. now \in Nat /\ then \in Nat
    BY <1>11, <2>3, <2>4
  <2> HIDE DEF now, then
  <2>6. Position = now /\ Position' = then
    BY <1>7, <1>10, <2>3, <2>4, <2>5
  <2>7. clock["vid"].last_updated \in Nat /\ clock["vid"].last_updated <= time
    BY <1>11, <2>1
  <2> QED BY <1>0, <1>8, <2>2, <2>3, <2>4, <2>5, <2>6, <2>7
<1>14. CASE scenario.master \notin {"audio", "video"}
  <2>1. m = "ext"
    BY <1>14, MasterIs
  <2>2. then = now
    BY <1>6, <2>1
  <2> DEFINE p == IF now = NAN THEN seek_pos ELSE now
  <2>3. p \in Nat
    BY <1>0, <1>11
  <2>4. Position = Max({0, p}) /\ Position' = Max({0, p})
    BY <1>10, <2>2
  <2> HIDE DEF p
  <2>5. Position = p /\ Position' = p
    BY <1>7, <2>3, <2>4
  <2> QED BY <1>0, <1>8, <2>3, <2>5
<1> QED BY <1>12, <1>13, <1>14

\* While the player is paused the position is moved once at most, and a pause
\* takes a player that has run smoothly for longer than an audio buffer back by
\* less than what was brought out last (ffp_get_current_position_l, stream_toggle_pause_l).
THEOREM PositionHeldHolds ==
    ASSUME CalmTime > Period
    PROVE  RefreshSpec => PositionHeld
<1> DEFINE Step == /\ since'.moved <= 1
                   /\ (since.calm = CalmTime /\ ~ switches.paused /\ switches'.paused =>
                         /\ Position' <= Position
                         /\ Position - Position' < Max({Period, FrameTime}) + ThresholdMax)
<1>1. HeldInv /\ HeldInv' /\ [RefreshNext]_refreshVars => [Step]_refreshVars
  BY PauseTakesBack DEF HeldInv, MovedInv
<1> QED BY <1>1, HeldInvHolds, PTL DEF RefreshSpec, PositionHeld

-----------------------------------------------------------------------------
(* How far the picture is from the clock. *)

LEMMA SlackIs == Slack \in Nat /\ Slack = ThresholdMax + 2 * FrameTime /\ Slack > FrameTime
BY ConstantFacts DEF Slack

\* What the player has used of the room is what its disturbances cost.
LEMMA Multiples ==
    ASSUME NEW s \in Nat, NEW t \in Nat
    PROVE  s * t \in Nat /\ (t > 0 => s * (t - 1) = s * t - s)
OBVIOUS

LEMMA DriftIs ==
    ASSUME NEW b \in Budgets
    PROVE  b.late \in Nat /\ b.togglings \in Nat /\ b.late + Slack * b.togglings \in Nat
<1>1. b.late \in Nat /\ b.togglings \in Nat
  BY DEF Budgets
<1>2. Slack * b.togglings \in Nat
  BY <1>1, SlackIs, Multiples
<1> HIDE DEF Slack
<1> QED BY <1>1, <1>2

LEMMA OffsetFields ==
    ASSUME RefreshTypeOK, NEW D \in Nat
    PROVE  /\ Master \in Int /\ Picked \in Int /\ Room(D) \in Int
           /\ Stands(clock["vid"].last_updated) \in Nat
           /\ scenario.master # "audio" => Master = clock["ext"].pts - Stands(clock["ext"].last_updated)
           /\ scenario.master = "audio" => Master = NextOffset
           /\ time \in Nat /\ seek_pos \in Nat /\ shown.pts \in Nat /\ frame_timer \in Int
           /\ (refresh = "shows" /\ PicturesInv => Picture.pts \in Nat)
<1>1. /\ time \in Nat /\ seek_pos \in Nat /\ shown.pts \in Nat /\ frame_timer \in Int
      /\ \A c \in Clocks : clock[c].pts \in Int /\ clock[c].last_updated \in Nat
      /\ upcoming.sound \in Nat /\ sound.wait \in Nat /\ scenario \in Budgets
  <2>1. Nat \cup {NAN} \subseteq Int
    BY DEF NAN
  <2>2. scenario \in Budgets
    BY DEF RefreshTypeOK
  <2> QED BY <2>1, <2>2, StateFields
<1>2. \A c \in Clocks : Stands(clock[c].last_updated) \in Nat
  BY <1>1 DEF Stands
<1>3. Picked \in Int /\ NextOffset \in Int /\ clock["ext"].pts - Stands(clock["ext"].last_updated) \in Int
  BY <1>1, <1>2 DEF Picked, NextOffset, Clocks
<1>4. Room(D) \in Int
  BY <1>1, DriftIs DEF Room, Drift
<1>5. refresh = "shows" /\ PicturesInv => Picture.pts \in Nat
  BY QueueFields DEF PicturesInv
<1> QED BY <1>1, <1>2, <1>3, <1>4, <1>5 DEF Master, Clocks

LEMMA RoomStep ==
    ASSUME RefreshTypeOK, SwitchesInv, RefreshNext, NEW D \in Nat
    PROVE  /\ Toggle => Room(D)' = Room(D) + Slack
           /\ Tick /\ ~ AllDone => Room(D)' = Room(D) + 1
           /\ Tick /\ AllDone => Room(D)' = Room(D)
           /\ ~ Toggle /\ ~ Tick => Room(D)' = Room(D)
<1>1. scenario \in Budgets /\ scenario.late \in Nat /\ scenario.togglings \in Nat
  BY StateFields DEF RefreshTypeOK
<1> DEFINE l == scenario.late
           t == scenario.togglings
           u == Slack * t
<1>2. u \in Nat /\ (t > 0 => Slack * (t - 1) = u - Slack)
  BY <1>1, SlackIs, Multiples
<1>3. Room(D) = D - (l + u) /\ Room(D)' = D - (scenario'.late + Slack * scenario'.togglings)
  BY DEF Room, Drift, Slack
<1>4. Slack \in Nat
  BY SlackIs
<1>5. CASE Toggle
  <2>1. scenario'.late = l /\ scenario'.togglings = t - 1 /\ t > 0
    BY <1>1, <1>5 DEF Toggle, Budgets
  <2>2. ~ Tick
    <3>1. Toggle /\ Tick => time' = time /\ time' = time + 1
      BY DEF Toggle, Tick
    <3> QED BY <1>5, <3>1, StateFields
  <2>3. Room(D)' = D - (l + (u - Slack))
    BY <1>2, <1>3, <2>1
  <2> HIDE DEF l, u, Slack
  <2>4. l \in Nat
    BY <1>1 DEF l
  <2>5. Room(D)' = Room(D) + Slack
    BY <1>2, <1>3, <1>4, <2>3, <2>4
  <2> QED BY <1>5, <2>2, <2>5
<1>6. CASE Tick
  <2>1. /\ AllDone => scenario'.late = l /\ scenario'.togglings = t
        /\ ~ AllDone => scenario'.late = l - 1 /\ scenario'.togglings = t
    BY <1>6, TickIs
  <2>2. ~ Toggle
    <3>1. Toggle /\ Tick => time' = time /\ time' = time + 1
      BY DEF Toggle, Tick
    <3> QED BY <1>6, <3>1, StateFields
  <2>3. /\ AllDone => Room(D)' = D - (l + u)
        /\ ~ AllDone => Room(D)' = D - ((l - 1) + u)
    BY <1>3, <2>1
  <2> HIDE DEF l, u
  <2>4. l \in Nat
    BY <1>1 DEF l
  <2> QED BY <1>2, <1>3, <1>6, <2>2, <2>3, <2>4
<1>7. CASE ~ Toggle /\ ~ Tick
  <2>1. scenario'.late = l /\ scenario'.togglings = t
    BY <1>1, <1>7 DEF RefreshNext, Jump, Decode, PushText, SoundBegins, SoundEnds, RefreshThread, RefreshSkipsOld,
        RefreshDecides, RefreshWaits, RefreshShows, RefreshDisplays, Budgets
  <2> QED BY <1>3, <1>7, <2>1
<1> QED BY <1>5, <1>6, <1>7

\* How a step moves the offsets of the picture and of the master clock.
LEMMA OffsetsAfterTick ==
    ASSUME RefreshTypeOK, SwitchesInv, Tick
    PROVE  /\ Timed' <=> Timed
           /\ Master' = Master \/ Master' = Master - 1
           /\ switches.paused => Master' = Master - 1 /\ Picked' = Picked - 1
           /\ ~ switches.paused => Picked' = Picked
           /\ ~ switches.paused /\ ~ switches.aout_paused /\ AllDone => Master' = Master
<1>0. /\ time \in Nat /\ time' = time + 1 /\ upcoming.sound \in Nat /\ sound.wait \in Nat
      /\ \A c \in {"vid", "ext"} : clock[c].pts \in Int /\ clock[c].last_updated \in Nat
  <2>1. Nat \cup {NAN} \subseteq Int
    BY DEF NAN
  <2> QED BY <2>1, StateFields DEF Clocks, Tick
<1>1. /\ clock' = clock /\ switches' = switches /\ upcoming' = upcoming
      /\ scenario'.master = scenario.master
      /\ sound'.wait = IF switches.aout_paused \/ sound.wait = 0 THEN sound.wait ELSE sound.wait - 1
  BY TickIs DEF Tick
<1>2. Timed' <=> Timed
  BY <1>1 DEF Timed
<1>3. /\ switches.paused => Picked' = Picked - 1
      /\ ~ switches.paused => Picked' = Picked
  BY <1>0, <1>1 DEF Picked, Stands
<1>4. switches.paused => switches.aout_paused
  BY SwitchFields DEF SwitchesInv
<1>5. CASE scenario.master = "audio"
  <2>1. Master = upcoming.sound - time - sound.wait /\ Master' = upcoming.sound - time' - sound'.wait
    BY <1>1, <1>5 DEF Master, NextOffset
  <2>2. ~ switches.aout_paused /\ AllDone => sound.wait # 0
    BY <1>5 DEF AllDone, SoundDue
  <2>3. /\ switches.aout_paused => Master' = Master - 1
        /\ ~ switches.aout_paused /\ sound.wait # 0 => Master' = Master
        /\ sound.wait = 0 => Master' = Master - 1
    BY <1>0, <1>1, <2>1
  <2> QED BY <1>2, <1>3, <1>4, <2>2, <2>3
<1>6. CASE scenario.master # "audio"
  <2>1. /\ Master = clock["ext"].pts - (IF switches.paused THEN time ELSE clock["ext"].last_updated)
        /\ Master' = clock["ext"].pts - (IF switches.paused THEN time' ELSE clock["ext"].last_updated)
    BY <1>1, <1>6 DEF Master, Stands
  <2>2. /\ switches.paused => Master' = Master - 1
        /\ ~ switches.paused => Master' = Master
    BY <1>0, <2>1
  <2> QED BY <1>2, <1>3, <2>2
<1> QED BY <1>5, <1>6

\* The switches: what the clocks read does not change, but the picture may stop on its time.
LEMMA OffsetsAfterSwitches ==
    ASSUME RefreshTypeOK, SwitchesInv, ClocksInv, Toggle \/ RefreshDisplays
    PROVE  /\ Timed' <=> Timed
           /\ Timed => Master' = Master
           /\ \/ /\ Toggle /\ ~ switches.paused /\ ~ switches.step /\ switches'.paused /\ ~ switches'.step
                 /\ switches'.aout_paused
                 /\ Picked' = clock["vid"].pts - time
              \/ /\ Toggle /\ ~ switches'.paused /\ ~ switches'.step /\ ~ switches'.aout_paused
                 /\ switches.aout_paused /\ (Fresh => Picked' = Picked)
              \/ /\ RefreshDisplays /\ switches.step /\ ~ switches.paused /\ switches'.paused
                 /\ ~ switches'.step /\ switches'.aout_paused = switches.aout_paused
                 /\ Picked' = clock["vid"].pts - time
              \/ /\ RefreshDisplays /\ ~ switches.step /\ switches'.paused = switches.paused
                 /\ ~ switches'.step /\ switches'.aout_paused = switches.aout_paused /\ Picked' = Picked
<1>a. InTime /\ VidInv
  BY DEF ClocksInv
<1>0. /\ time \in Nat /\ time' = time /\ sound' = sound /\ upcoming' = upcoming
      /\ scenario'.master = scenario.master
      /\ \A c \in Clocks : clock[c].pts \in Int /\ clock[c].last_updated \in Nat
  <2>1. Nat \cup {NAN} \subseteq Int
    BY DEF NAN
  <2> QED BY <2>1, <1>a, ClocksAfterSwitches, StateFields
<1>1. /\ \/ clock'["ext"] = clock["ext"] /\ RefreshDisplays /\ ~ switches.step
         \/ clock'["ext"].pts = GetClock("ext") /\ clock'["ext"].last_updated = time
  BY <1>a, ClocksAfterSwitches
<1>2. /\ GetClock("ext") = NAN <=> clock["ext"].pts = NAN
      /\ GetClock("ext") # NAN => GetClock("ext") = IF switches.paused THEN clock["ext"].pts
                                  ELSE clock["ext"].pts + time - clock["ext"].last_updated
  BY <1>a, ReadsIs DEF Clocks, Stopped
<1>3. RefreshDisplays /\ ~ switches.step => switches'.paused = switches.paused
  BY ShownIs, SwitchFields DEF Pressed
<1>4. Timed' <=> Timed
  BY <1>0, <1>1, <1>2 DEF Timed
<1>5. Timed => Master' = Master
  <2>1. CASE scenario.master = "audio"
    BY <1>0, <2>1 DEF Master, NextOffset
  <2>2. ASSUME scenario.master # "audio", clock["ext"].pts # NAN PROVE Master' = Master
    <3>1. /\ Master = clock["ext"].pts - (IF switches.paused THEN time ELSE clock["ext"].last_updated)
          /\ Master' = clock'["ext"].pts - (IF switches'.paused THEN time ELSE clock'["ext"].last_updated)
      BY <1>0, <2>2 DEF Master, Stands
    <3>2. CASE clock'["ext"] = clock["ext"] /\ switches'.paused = switches.paused
      BY <3>1, <3>2
    <3>3. CASE clock'["ext"].pts = GetClock("ext") /\ clock'["ext"].last_updated = time
      <4>1. Master' = GetClock("ext") - time
        BY <3>1, <3>3
      <4> QED BY <1>0, <1>2, <2>2, <3>1, <4>1 DEF Clocks
    <3> QED BY <1>1, <1>3, <3>2, <3>3
  <2> QED BY <2>1, <2>2 DEF Timed
<1>6. Picked = clock["vid"].pts - (IF switches.paused THEN time ELSE clock["vid"].last_updated)
      /\ Picked' = clock'["vid"].pts - (IF switches'.paused THEN time ELSE clock'["vid"].last_updated)
  BY <1>0 DEF Picked, Stands
<1>7. CASE Toggle /\ ~ switches.pause_req
  <2>1. /\ ~ switches.step /\ ~ switches.paused /\ Pressed(switches', TRUE, FALSE, TRUE, TRUE, FALSE)
        /\ clock' = SetClocks({"ext"})
    BY <1>7, ToggleIs
  <2>2. clock'["vid"] = clock["vid"]
    BY <1>a, <2>1, SetClocksIs DEF Clocks
  <2> QED BY <1>4, <1>5, <1>6, <1>7, <2>1, <2>2 DEF Pressed
<1>8. CASE Toggle /\ switches.pause_req
  <2>1. /\ switches.aout_paused /\ Pressed(switches', FALSE, FALSE, FALSE, FALSE, TRUE)
        /\ clock' = SetClocks(Clocks)
    BY <1>8, ToggleIs
  <2>2. clock'["vid"].pts = GetClock("vid") /\ clock'["vid"].last_updated = time
    BY <1>a, <2>1, SetClocksIs DEF Clocks
  <2>3. ASSUME Fresh PROVE Picked' = Picked
    <3>1. GetClock("vid") = IF switches.paused THEN clock["vid"].pts
                            ELSE clock["vid"].pts + time - clock["vid"].last_updated
      BY <1>a, <2>3, ReadsIs DEF VidInv, Clocks, Stopped, Fresh
    <3>2. Picked' = GetClock("vid") - time
      BY <1>6, <2>1, <2>2 DEF Pressed
    <3> QED BY <1>0, <1>6, <3>1, <3>2 DEF Clocks
  <2> QED BY <1>4, <1>5, <1>8, <2>1, <2>3 DEF Pressed
<1>9. CASE RefreshDisplays
  <2>1. /\ Pressed(switches', switches.pause_req, FALSE, switches.pause_req,
                   switches.aout_paused, switches.auto_resume)
        /\ switches.step => clock' = SetClocks({"ext"}) /\ switches.pause_req /\ ~ switches.paused
        /\ ~ switches.step => clock' = clock /\ switches.paused = switches.pause_req
    BY <1>9, ShownIs
  <2>2. clock'["vid"] = clock["vid"]
    BY <1>a, <2>1, SetClocksIs DEF Clocks
  <2> QED BY <1>3, <1>4, <1>5, <1>6, <1>9, <2>1, <2>2, SwitchFields DEF Pressed
<1> QED BY <1>7, <1>8, <1>9

LEMMA OffsetsStay ==
    ASSUME RefreshTypeOK, ClocksInv,
           Decode \/ PushText \/ SoundBegins \/ SoundEnds \/ RefreshSkipsOld \/ RefreshDecides \/ RefreshWaits
    PROVE  /\ Timed' <=> Timed
           /\ Timed => Master' = Master
           /\ Picked' = Picked /\ time' = time /\ serial' = serial /\ switches' = switches
           /\ seek_pos' = seek_pos
<1>a. InTime /\ SoundInv
  BY DEF ClocksInv
<1>0. /\ time \in Nat /\ sound.wait \in Nat /\ upcoming.sound \in Nat /\ Period \in Nat
      /\ upcoming \in [pts : Nat, sound : Nat, text : Nat] /\ scenario \in Budgets /\ sound \in Sounds
  BY StateFields, ConstantFacts DEF RefreshTypeOK
<1>1. /\ time' = time /\ switches' = switches /\ scenario'.master = scenario.master /\ serial' = serial
      /\ seek_pos' = seek_pos
  BY <1>0 DEF Decode, PushText, SoundBegins, SoundEnds, RefreshSkipsOld, RefreshDecides, RefreshWaits, Budgets
<1>2. clock'["vid"] = clock["vid"]
  BY <1>a, ClocksStay, ClocksAfterSound
<1>3. Picked' = Picked
  BY <1>1, <1>2 DEF Picked, Stands
<1>4. CASE scenario.master = "audio"
  <2>1. NextOffset' = NextOffset
    <3>1. CASE SoundBegins
      <4>1. sound.wait = 0 /\ sound'.wait = Period
        BY <3>1 DEF SoundBegins, SoundDue
      <4>2. upcoming'.sound = upcoming.sound + Period
        BY <1>0, <3>1 DEF SoundBegins
      <4> QED BY <1>0, <1>1, <4>1, <4>2 DEF NextOffset
    <3>2. CASE ~ SoundBegins
      <4>1. sound'.wait = sound.wait /\ upcoming'.sound = upcoming.sound
        BY <1>0, <3>2 DEF Decode, PushText, SoundEnds, RefreshSkipsOld, RefreshDecides, RefreshWaits, Sounds
      <4> QED BY <1>1, <4>1 DEF NextOffset
    <3> QED BY <3>1, <3>2
  <2> QED BY <1>1, <1>3, <1>4, <2>1 DEF Timed, Master
<1>5. CASE scenario.master # "audio"
  <2>1. ~ SoundEnds
    BY <1>a, <1>5 DEF SoundInv, SoundEnds
  <2>2. clock' = clock
    BY <2>1, ClocksStay
  <2> QED BY <1>1, <1>3, <1>5, <2>2 DEF Timed, Master, Stands
<1> QED BY <1>4, <1>5

LEMMA OffsetsAfterPicture ==
    ASSUME RefreshTypeOK, PicturesInv, ClocksInv, RefreshShows
    PROVE  /\ Picked' = Picture.pts - time /\ time' = time /\ serial' = serial /\ switches' = switches
           /\ seek_pos' = seek_pos /\ frame_timer' = frame_timer
           /\ Picture.serial # serial => (Timed' <=> Timed) /\ (Timed => Master' = Master)
           /\ Timed' => (Timed /\ Master' = Master) \/ (Picture.serial = serial /\ Master' = Picked')
<1>a. InTime
  BY DEF ClocksInv
<1>0. /\ time' = time /\ serial' = serial /\ switches' = switches /\ scenario' = scenario /\ sound' = sound
      /\ upcoming' = upcoming /\ seek_pos' = seek_pos /\ frame_timer' = frame_timer
  BY DEF RefreshShows
<1>b. Picture.pts \in Nat /\ time \in Nat
  BY <1>a, ClocksAfterPicture, StateFields
<1>1. /\ clock'["vid"].pts = Picture.pts /\ clock'["vid"].last_updated = time
      /\ \/ clock'["ext"] = clock["ext"]
         \/ Picture.serial = serial /\ clock'["ext"].pts = Picture.pts /\ clock'["ext"].last_updated = time
  BY <1>a, ClocksAfterPicture
<1>2. Picked' = Picture.pts - time
  BY <1>0, <1>1 DEF Picked, Stands
<1>3. CASE scenario.master = "audio" \/ clock'["ext"] = clock["ext"]
  <2>1. (Timed' <=> Timed) /\ Master' = Master
    BY <1>0, <1>3 DEF Timed, Master, NextOffset, Stands
  <2> QED BY <1>0, <1>2, <2>1
<1>4. CASE /\ scenario.master # "audio" /\ Picture.serial = serial
           /\ clock'["ext"].pts = Picture.pts /\ clock'["ext"].last_updated = time
  <2>1. Master' = Picture.pts - time
    BY <1>0, <1>4 DEF Master, Stands
  <2> QED BY <1>0, <1>2, <1>4, <2>1
<1> QED BY <1>1, <1>3, <1>4

\* There is room for more: a disturbance gives some of it back.
LEMMA RoomInvStep ==
    ASSUME HeldInv, RefreshNext, NEW D \in Nat, RoomInv(D)
    PROVE  RoomInv(D)' /\ Room(D) <= Room(D)' /\ Room(D)' \in Int
<1>1. RefreshTypeOK /\ SwitchesInv
  BY DEF HeldInv
<1>2. Room(D) \in Int /\ Slack \in Nat /\ Period \in Nat
  BY <1>1, OffsetFields, SlackIs, ConstantFacts
<1>3. Room(D)' \in {Room(D), Room(D) + 1, Room(D) + Slack}
  BY <1>1, RoomStep
<1>4. Room(D) <= Room(D)' /\ Room(D)' \in Int
  BY <1>2, <1>3
<1>5. Room(D) >= Period + 2 * Slack
  BY DEF RoomInv
<1>6. Room(D)' >= Period + 2 * Slack
  BY <1>2, <1>4, <1>5
<1> QED BY <1>4, <1>6 DEF RoomInv, Slack

\* What is said of the clock of sound.
Heard == clock["aud"].pts - (IF switches.aout_paused THEN time ELSE clock["aud"].last_updated)
Kept  == time + sound.wait - sound.at - Period

LEMMA HeardStep ==
    ASSUME HeldInv, HeldInv', RefreshNext, NEW D \in Nat, RoomInv(D), HeardInv(D)
    PROVE  HeardInv(D)'
<1> DEFINE R == Room(D)
           Q == Room(D)'
           S == Slack
<1>a. /\ RefreshTypeOK /\ SwitchesInv /\ ClocksInv /\ PicturesInv /\ InTime /\ SoundInv /\ RefreshTypeOK'
  BY DEF HeldInv, ClocksInv
<1>0. /\ R \in Int /\ Q \in Int /\ R <= Q /\ S \in Nat /\ R >= Period + 2 * S /\ Period \in Nat
      /\ Master \in Int /\ time \in Nat /\ serial \in Nat
      /\ sound.wait \in Nat /\ sound.at \in Nat /\ sound.serial \in Nat /\ sound.clock \in Int
      /\ clock["aud"].pts \in Int /\ clock["aud"].last_updated \in Nat /\ clock["aud"].serial \in Int
      /\ clock["aud"].last_updated <= time /\ upcoming.sound \in Nat /\ sound.wait <= Period
  <2>1. Nat \cup {NAN} \subseteq Int
    BY DEF NAN
  <2>2. R \in Int /\ Q \in Int /\ R <= Q /\ Master \in Int /\ R >= Period + 2 * S
    BY <1>a, OffsetFields, RoomInvStep DEF RoomInv
  <2> QED BY <1>a, <2>1, <2>2, StateFields, SlackIs, ConstantFacts DEF Clocks, InTime
<1>e. /\ R \in Int /\ Q \in Int /\ R <= Q /\ S \in Nat /\ R >= Period + 2 * S /\ Period \in Nat
      /\ Master \in Int
  BY <1>0
<1>b. /\ Heard \in Int /\ Kept \in Int
  BY <1>0 DEF Heard, Kept
<1> SUFFICES ASSUME scenario'.master = "audio"
             PROVE  /\ clock'["aud"].serial = serial' => Heard' - Master' <= Q - 2 * S
                    /\ sound'.pc = "fills" /\ sound'.serial = serial' => Kept' <= Q - 2 * S
  BY DEF HeardInv, Heard, Kept, Slack
<1>c. scenario.master = "audio"
  <2>1. CASE Tick
    BY <1>a, <2>1, TickIs
  <2>2. CASE Toggle \/ RefreshDisplays
    BY <1>a, <2>2, ClocksAfterSwitches
  <2>3. CASE \E t \in {0, FrameTime} : Jump(t)
    BY <1>a, <2>3, ClocksAfterJump
  <2>4. CASE Decode \/ PushText \/ SoundBegins \/ SoundEnds \/ RefreshSkipsOld \/ RefreshDecides
             \/ RefreshWaits \/ RefreshShows
    BY <1>a, <2>4 DEF Decode, PushText, SoundBegins, SoundEnds, RefreshSkipsOld, RefreshDecides,
        RefreshWaits, RefreshShows, RefreshTypeOK, Budgets
  <2> QED BY <2>1, <2>2, <2>3, <2>4 DEF RefreshNext, RefreshThread
<1>d. /\ clock["aud"].serial = serial => Heard - Master <= R - 2 * S
      /\ sound.pc = "fills" /\ sound.serial = serial => Kept <= R - 2 * S
      /\ Timed
  BY <1>c DEF HeardInv, Heard, Kept, Timed
<1>1. CASE Tick
  <2>1. /\ Master' = Master \/ Master' = Master - 1
        /\ ~ switches.aout_paused /\ AllDone => Master' = Master
    BY <1>1, <1>a, OffsetsAfterTick, SwitchFields DEF SwitchesInv
  <2>2. /\ sound'.pc = sound.pc /\ sound'.at = sound.at /\ sound'.serial = sound.serial
        /\ sound'.wait = sound.wait \/ sound'.wait = sound.wait - 1
        /\ time' = time + 1
    BY <1>1, <1>a, TickIs
  <2>3. clock' = clock /\ serial' = serial /\ switches' = switches
    BY <1>1 DEF Tick
  <2>4. /\ AllDone => Q = R /\ sound.pc = "idle"
        /\ ~ AllDone => Q = R + 1
    BY <1>1, <1>a, RoomStep DEF AllDone
  <2>5. /\ switches.aout_paused => Heard' = Heard - 1
        /\ ~ switches.aout_paused => Heard' = Heard
        /\ Kept' = Kept + 1 \/ Kept' = Kept
    BY <1>0, <2>2, <2>3 DEF Heard, Kept
  <2> HIDE DEF R, Q, S
  <2>6. clock'["aud"].serial = serial' => Heard' - Master' <= Q - 2 * S
    BY <1>0, <1>b, <1>d, <2>1, <2>3, <2>4, <2>5
  <2>7. sound'.pc = "fills" /\ sound'.serial = serial' => Kept' <= Q - 2 * S
    BY <1>0, <1>b, <1>d, <2>2, <2>3, <2>4, <2>5
  <2> QED BY <2>6, <2>7
<1>2. CASE Toggle \/ RefreshDisplays
  <2>1. Master' = Master
    BY <1>2, <1>a, <1>d, OffsetsAfterSwitches
  <2>2. time' = time /\ serial' = serial /\ sound' = sound
    BY <1>2, <1>a, ClocksAfterSwitches
  <2>3. Kept' = Kept
    BY <2>2 DEF Kept
  <2>4. /\ \/ clock'["aud"] = clock["aud"]
           \/ /\ switches.aout_paused /\ clock'["aud"].pts = GetClock("aud")
              /\ clock'["aud"].last_updated = time /\ clock'["aud"].serial = clock["aud"].serial
    BY <1>2, <1>a, ClocksAfterSwitches
  <2>5. switches'.aout_paused = switches.aout_paused \/ switches.aout_paused \/ switches'.aout_paused
    BY SwitchFields, <1>a DEF RefreshTypeOK, Switches
  <2>6. ASSUME clock'["aud"].serial = serial' PROVE Heard' - Master' <= Q - 2 * S
    <3>1. clock["aud"].serial = serial /\ clock["aud"].pts # NAN
      BY <1>a, <2>2, <2>4, <2>6 DEF SoundInv
    <3>2. switches.aout_paused => GetClock("aud") = clock["aud"].pts
      BY <1>a, <3>1, ReadsIs DEF Clocks, Stopped
    <3>3. Heard' <= Heard
      <4>1. CASE clock'["aud"] = clock["aud"] /\ (switches.aout_paused => switches'.aout_paused)
        BY <1>0, <2>2, <4>1 DEF Heard
      <4>2. CASE clock'["aud"].pts = clock["aud"].pts /\ clock'["aud"].last_updated = time /\ switches.aout_paused
        BY <1>0, <2>2, <4>2 DEF Heard
      <4>3. CASE clock'["aud"] = clock["aud"] /\ switches.aout_paused /\ ~ switches'.aout_paused
        <5>1. Toggle /\ switches.pause_req
          BY <1>2, <1>a, <4>3, ToggleIs, ShownIs, SwitchFields DEF Pressed
        <5>2. clock' = SetClocks(Clocks)
          <6>1. switches.pause_req /\ Toggle => clock' = SetClocks(Clocks)
            BY <1>a, ToggleIs
          <6> QED BY <5>1, <6>1
        <5>3. clock'["aud"].pts = GetClock("aud") /\ clock'["aud"].last_updated = time
          BY <1>a, <5>2, SetClocksIs DEF Clocks
        <5> QED BY <3>2, <4>2, <4>3, <5>3
      <4> QED BY <2>4, <3>2, <4>1, <4>2, <4>3
    <3> HIDE DEF R, Q, S
    <3>4. Heard' \in Int
      <4>1. Nat \cup {NAN} \subseteq Int
        BY DEF NAN
      <4>2. clock'["aud"].pts \in Int /\ clock'["aud"].last_updated \in Nat
        BY <1>a, <4>1 DEF Clocks, RefreshTypeOK, Clips
      <4> QED BY <1>0, <2>2, <4>2 DEF Heard
    <3>5. Heard - Master <= R - 2 * S /\ Master' = Master
      BY <1>d, <2>1, <3>1
    <3> DEFINE h == Heard
               k == Heard'
               m == Master
    <3>6. /\ h - m <= R - 2 * S /\ k <= h /\ h \in Int /\ k \in Int /\ m \in Int
          /\ R \in Int /\ Q \in Int /\ S \in Int /\ R <= Q
      BY <1>0, <1>b, <3>3, <3>4, <3>5
    <3> HIDE DEF h, k, m
    <3>7. k - m <= Q - 2 * S
      BY <3>6
    <3> QED BY <3>5, <3>7 DEF k, m
  <2> HIDE DEF R, Q, S
  <2> QED BY <1>0, <1>b, <1>d, <2>2, <2>3, <2>6
<1>3. CASE \E t \in {0, FrameTime} : Jump(t)
  <2>1. /\ clock'["aud"].serial = clock["aud"].serial /\ serial' = serial + 1 /\ sound' = sound
    BY <1>3, <1>a, ClocksAfterJump
  <2>2. clock["aud"].serial <= serial /\ sound.serial <= serial
    BY <1>a DEF SoundInv
  <2>3. clock'["aud"].serial # serial' /\ sound'.serial # serial'
    BY <1>0, <2>1, <2>2
  <2> QED BY <2>3
<1>4. CASE SoundBegins
  <2>1. Master' = Master /\ time' = time /\ serial' = serial /\ switches' = switches
    BY <1>4, <1>a, <1>d, OffsetsStay
  <2>2. /\ sound'.wait = Period /\ sound'.at = time /\ clock' = clock
    BY <1>4 DEF SoundBegins
  <2>3. Heard' = Heard /\ Kept' = 0
    BY <1>0, <2>1, <2>2 DEF Heard, Kept
  <2> HIDE DEF R, Q, S
  <2>4. 0 <= Q - 2 * S
    BY <1>e
  <2>5. Heard - Master <= R - 2 * S => Heard - Master <= Q - 2 * S
    BY <1>b, <1>e
  <2> QED BY <1>d, <2>1, <2>2, <2>3, <2>4, <2>5
<1>5. CASE SoundEnds
  <2>1. Master' = Master /\ time' = time /\ serial' = serial /\ switches' = switches
    BY <1>5, <1>a, <1>d, OffsetsStay
  <2>2. /\ clock'["aud"].pts = sound.clock - Period /\ clock'["aud"].serial = sound.serial
        /\ clock'["aud"].last_updated = sound.at
    BY <1>5, <1>a, ClocksAfterSound
  <2>3. sound'.pc = "idle" /\ sound.pc = "fills"
    BY <1>5 DEF SoundEnds, RefreshTypeOK, Sounds
  <2>4. sound.serial = serial => sound.clock = upcoming.sound
    BY <1>a, <2>3 DEF SoundInv
  <2>5. Master = upcoming.sound - time - sound.wait
    BY <1>c DEF Master, NextOffset
  <2>6. ASSUME sound.serial = serial PROVE Heard' - Master' <= Q - 2 * S
    <3>1. Heard' - Master = IF switches.aout_paused THEN sound.wait - Period ELSE Kept
      BY <1>0, <2>1, <2>2, <2>4, <2>5, <2>6 DEF Heard, Kept
    <3>2. Kept <= R - 2 * S
      BY <1>d, <2>3, <2>6
    <3> HIDE DEF R, Q, S
    <3> QED BY <1>0, <1>b, <2>1, <3>1, <3>2
  <2> QED BY <2>1, <2>2, <2>3, <2>6
<1>6. CASE Decode \/ PushText \/ RefreshSkipsOld \/ RefreshDecides \/ RefreshWaits \/ RefreshShows
  <2>1. Master' = Master /\ time' = time /\ serial' = serial /\ switches' = switches
    <3>1. CASE RefreshShows
      <4>1. time' = time /\ serial' = serial /\ switches' = switches /\ upcoming' = upcoming
            /\ sound' = sound
        BY <3>1 DEF RefreshShows
      <4> QED BY <1>c, <4>1 DEF Master, NextOffset
    <3>2. CASE ~ RefreshShows
      BY <1>6, <1>a, <1>d, <3>2, OffsetsStay
    <3> QED BY <3>1, <3>2
  <2>2. clock'["aud"] = clock["aud"]
    BY <1>6, <1>a, ClocksStay, ClocksAfterPicture
  <2>3. sound' = sound
    BY <1>6 DEF Decode, PushText, RefreshSkipsOld, RefreshDecides, RefreshWaits, RefreshShows
  <2>4. Heard' = Heard /\ Kept' = Kept
    BY <2>1, <2>2, <2>3 DEF Heard, Kept
  <2> HIDE DEF R, Q, S
  <2>5. /\ Heard - Master <= R - 2 * S => Heard - Master <= Q - 2 * S
        /\ Kept <= R - 2 * S => Kept <= Q - 2 * S
    BY <1>b, <1>e
  <2> QED BY <1>d, <2>1, <2>2, <2>3, <2>4, <2>5
<1> QED BY <1>1, <1>2, <1>3, <1>4, <1>5, <1>6 DEF RefreshNext, RefreshThread

\* The numbers these distances are made of.
LEMMA DistancesAre ==
    ASSUME HeldInv, HeldInv', RefreshNext, NEW D \in Nat, RoomInv(D)
    PROVE  /\ Room(D) \in Int /\ Room(D)' \in Int /\ Room(D) <= Room(D)' /\ Room(D) >= Period + 2 * Slack
           /\ Slack \in Nat /\ Slack = ThresholdMax + 2 * FrameTime /\ Period \in Nat
           /\ FrameTime \in Nat /\ FrameTime > 0 /\ ThresholdMax \in Nat /\ ThresholdMax > 0
           /\ Master \in Int /\ Master' \in Int /\ Picked \in Int /\ Picked' \in Int
           /\ time \in Nat /\ seek_pos \in Nat /\ shown.pts \in Nat /\ frame_timer \in Int
           /\ seek_pos' \in Nat /\ shown'.pts \in Nat /\ frame_timer' \in Int
           /\ (refresh = "shows" => Picture.pts \in Nat)
           /\ clock["vid"].pts \in Int /\ clock["vid"].last_updated \in Nat
           /\ clock["vid"].last_updated <= time
<1>1. RefreshTypeOK /\ SwitchesInv /\ ClocksInv /\ PicturesInv /\ InTime /\ RefreshTypeOK'
  BY DEF HeldInv, ClocksInv
<1>2. Room(D) \in Int /\ Room(D)' \in Int /\ Room(D) <= Room(D)' /\ Room(D) >= Period + 2 * Slack
  BY <1>1, OffsetFields, RoomInvStep DEF RoomInv
<1>3. Nat \cup {NAN} \subseteq Int
  BY DEF NAN
<1>4. /\ time' \in Nat /\ seek_pos' \in Nat /\ shown'.pts \in Nat /\ frame_timer' \in Int
      /\ \A c \in Clocks : clock'[c].pts \in Int /\ clock'[c].last_updated \in Nat
      /\ upcoming'.sound \in Nat /\ sound'.wait \in Nat
  <2>1. /\ \A c \in Clocks : clock'[c] \in Clips
        /\ upcoming' \in [pts : Nat, sound : Nat, text : Nat] /\ sound' \in Sounds /\ shown' \in Shots
        /\ time' \in Nat /\ seek_pos' \in Nat /\ frame_timer' \in Int
    BY <1>1 DEF RefreshTypeOK
  <2>2. sound'.wait \in Nat
    BY <2>1, ConstantFacts DEF Sounds
  <2> QED BY <1>3, <2>1, <2>2 DEF Clips, Shots
<1>5. Master' \in Int /\ Picked' \in Int
  BY <1>4 DEF Master, Picked, NextOffset, Stands, Clocks
<1>6. Master \in Int /\ Picked \in Int
  BY <1>1, OffsetFields
<1>7. /\ time \in Nat /\ seek_pos \in Nat /\ shown.pts \in Nat /\ frame_timer \in Int
      /\ (refresh = "shows" => Picture.pts \in Nat)
      /\ clock["vid"].pts \in Int /\ clock["vid"].last_updated \in Nat /\ clock["vid"].last_updated <= time
  BY <1>1, <1>3, OffsetFields, StateFields DEF Clocks, InTime
<1> QED BY <1>2, <1>4, <1>5, <1>6, <1>7, SlackIs, ConstantFacts

\* A picture that was decided on while the one on the screen is of the last seek.
LEMMA DecidingIs ==
    ASSUME HeldInv, Deciding
    PROVE  /\ pictures # << >> /\ Picture.serial = serial /\ Picture.pts = shown.pts + FrameTime
           /\ Picture.pts \in Nat /\ frame_timer <= time /\ ~ switches.step
<1>1. /\ RefreshTypeOK /\ SwitchesInv /\ PicturesInv /\ InTime /\ TimerInv
  BY DEF HeldInv, ClocksInv
<1>2. refresh = "shows" /\ shown.serial = serial /\ pictures # << >>
  BY <1>1 DEF Deciding, Fresh, PicturesInv
<1>3. shown.serial <= Picture.serial /\ Picture.serial <= serial
      /\ (shown.serial = Picture.serial => Picture.pts = shown.pts + FrameTime)
  BY <1>1, <1>2, DelayIs
<1>4. Picture.serial \in Nat /\ serial \in Nat /\ Picture.pts \in Nat
  BY <1>1, <1>2, QueueFields, StateFields
<1>5. Picture.serial = serial
  BY <1>2, <1>3, <1>4
<1>6. frame_timer <= time
  BY <1>1, <1>2, <1>5 DEF TimerInv
<1>7. ~ switches.step
  BY <1>1, <1>2 DEF SwitchesInv
<1> QED BY <1>2, <1>3, <1>4, <1>5, <1>6, <1>7

LEMMA AboveTick ==
    ASSUME HeldInv, HeldInv', RefreshNext, NEW D \in Nat, RoomInv(D), AboveInv(D), Tick
    PROVE  AboveInv(D)'
<1> DEFINE R == Room(D)
           Q == Room(D)'
           S == Slack
           M == Master
           N == Master'
           P == Picked
           O == Picked'
           x == shown.pts - frame_timer
           y == Picture.pts - frame_timer
<1>a. /\ RefreshTypeOK /\ SwitchesInv /\ ClocksInv /\ PicturesInv
  BY DEF HeldInv
<1>0. /\ R \in Int /\ Q \in Int /\ R <= Q /\ S \in Nat /\ M \in Int /\ N \in Int /\ P \in Int /\ O \in Int
      /\ time \in Nat /\ seek_pos \in Nat /\ x \in Int
      /\ (refresh = "shows" => Picture.pts \in Nat /\ y \in Int)
  BY DistancesAre
<1>1. /\ Timed' <=> Timed
      /\ N = M \/ N = M - 1
      /\ switches.paused => N = M - 1 /\ O = P - 1
      /\ ~ switches.paused => O = P
      /\ ~ switches.paused /\ ~ switches.aout_paused /\ AllDone => N = M
  BY <1>a, OffsetsAfterTick
<1>2. /\ AllDone => Q = R
      /\ ~ AllDone => Q = R + 1
  BY <1>a, RoomStep
<1>3. /\ serial' = serial /\ shown' = shown /\ refresh' = refresh /\ pictures' = pictures
      /\ switches' = switches /\ frame_timer' = frame_timer /\ seek_pos' = seek_pos /\ time' = time + 1
  BY DEF Tick
<1>4. Picture' = Picture /\ (Fresh' <=> Fresh) /\ (Deciding' <=> Deciding)
  BY <1>3 DEF Picture, Fresh, Deciding
<1>5. /\ Fresh /\ ~ Deciding => refresh # "shows"
      /\ Deciding => refresh = "shows" /\ Fresh /\ ~ AllDone
      /\ Fresh /\ switches.step => ~ AllDone
      /\ ~ switches.step => switches.aout_paused = switches.paused
  BY <1>a DEF Deciding, Fresh, AllDone, SwitchesInv
<1> SUFFICES ASSUME Timed'
    PROVE /\ ~ Fresh => seek_pos - (time + 1) + S - N <= Q
          /\ Fresh /\ ~ Deciding /\ (switches.paused \/ switches.step) => O + S - N <= Q
          /\ Fresh /\ ~ Deciding => Lesser(x, O + S) - N <= Q
          /\ Deciding /\ switches.paused => Picture.pts - (time + 1) + S - N <= Q
          /\ Deciding => Lesser(y, Picture.pts - (time + 1) + S) - N <= Q
  BY <1>3, <1>4 DEF AboveInv, Lesser, Slack
<1>6. /\ ~ Fresh => seek_pos - time + S - M <= R
      /\ Fresh /\ ~ Deciding /\ (switches.paused \/ switches.step) => P + S - M <= R
      /\ Fresh /\ ~ Deciding => Lesser(x, P + S) - M <= R
      /\ Deciding /\ switches.paused => Picture.pts - time + S - M <= R
      /\ Deciding => Lesser(y, Picture.pts - time + S) - M <= R
  BY <1>1 DEF AboveInv
<1> HIDE DEF R, Q, S, M, N, P, O, x, y
<1>7. ~ Fresh => seek_pos - (time + 1) + S - N <= Q
  BY <1>0, <1>1, <1>2, <1>6
<1>8. Fresh /\ ~ Deciding /\ (switches.paused \/ switches.step) => O + S - N <= Q
  BY <1>0, <1>1, <1>2, <1>5, <1>6
<1>9. Fresh /\ ~ Deciding => Lesser(x, O + S) - N <= Q
  <2>1. CASE switches.paused \/ switches.step
    BY <1>0, <1>8, <2>1 DEF Lesser
  <2>2. CASE ~ switches.paused /\ ~ switches.step
    BY <1>0, <1>1, <1>2, <1>5, <1>6, <2>2 DEF Lesser
  <2> QED BY <2>1, <2>2
<1>10. Deciding /\ switches.paused => Picture.pts - (time + 1) + S - N <= Q
  BY <1>0, <1>1, <1>2, <1>5, <1>6
<1>11. Deciding => Lesser(y, Picture.pts - (time + 1) + S) - N <= Q
  BY <1>0, <1>1, <1>2, <1>5, <1>6 DEF Lesser
<1> QED BY <1>7, <1>8, <1>9, <1>10, <1>11

LEMMA AboveSwitches ==
    ASSUME HeldInv, HeldInv', RefreshNext, NEW D \in Nat, RoomInv(D), AboveInv(D), Toggle \/ RefreshDisplays
    PROVE  AboveInv(D)'
<1> DEFINE R == Room(D)
           Q == Room(D)'
           S == Slack
           M == Master
           P == Picked
           O == Picked'
           x == shown.pts - frame_timer
           y == Picture.pts - frame_timer
           v == clock["vid"].pts
           l == clock["vid"].last_updated
<1>a. /\ RefreshTypeOK /\ SwitchesInv /\ ClocksInv /\ PicturesInv /\ InTime /\ VidInv /\ TimerInv
  BY DEF HeldInv, ClocksInv
<1>0. /\ R \in Int /\ Q \in Int /\ R <= Q /\ S \in Nat /\ M \in Int /\ P \in Int /\ O \in Int
      /\ time \in Nat /\ seek_pos \in Nat /\ x \in Int /\ v \in Int /\ l \in Nat /\ l <= time
      /\ (refresh = "shows" => Picture.pts \in Nat /\ y \in Int)
      /\ frame_timer \in Int
  BY DistancesAre
<1>1. /\ Timed' <=> Timed
      /\ Timed => Master' = M
      /\ \/ Toggle /\ ~ switches.paused /\ ~ switches.step /\ O = v - time
         \/ Toggle /\ ~ switches'.paused /\ ~ switches'.step /\ (Fresh => O = P)
         \/ RefreshDisplays /\ switches.step /\ ~ switches.paused /\ O = v - time
         \/ RefreshDisplays /\ ~ switches.step /\ switches'.paused = switches.paused /\ O = P
      /\ ~ switches'.step
  BY <1>a, OffsetsAfterSwitches
<1>2. Toggle => Q = R + S
  BY <1>a, RoomStep
<1>3. /\ serial' = serial /\ shown' = shown /\ pictures' = pictures /\ frame_timer' = frame_timer
      /\ seek_pos' = seek_pos /\ time' = time
  BY <1>a, ClocksAfterSwitches
<1>4. Picture' = Picture /\ (Fresh' <=> Fresh) /\ (Deciding' <=> Deciding)
  BY <1>3 DEF Picture, Fresh, Deciding, Toggle, RefreshDisplays
<1>5. /\ Fresh /\ ~ Deciding => refresh # "shows" /\ x >= v - l
      /\ Deciding => refresh = "shows" /\ Fresh /\ ~ RefreshDisplays
      /\ P = v - (IF switches.paused THEN time ELSE l)
  BY <1>a DEF Deciding, Fresh, RefreshDisplays, TimerInv, Picked, Stands
<1>b. Deciding => frame_timer <= time /\ Picture.pts \in Nat
  BY DecidingIs
<1> SUFFICES ASSUME Timed'
    PROVE /\ ~ Fresh => seek_pos - time + S - M <= Q
          /\ Fresh /\ ~ Deciding /\ switches'.paused => O + S - M <= Q
          /\ Fresh /\ ~ Deciding => Lesser(x, O + S) - M <= Q
          /\ Deciding /\ switches'.paused => Picture.pts - time + S - M <= Q
          /\ Deciding => Lesser(y, Picture.pts - time + S) - M <= Q
  BY <1>1, <1>3, <1>4 DEF AboveInv, Lesser, Slack
<1>6. /\ ~ Fresh => seek_pos - time + S - M <= R
      /\ Fresh /\ ~ Deciding /\ (switches.paused \/ switches.step) => P + S - M <= R
      /\ Fresh /\ ~ Deciding => Lesser(x, P + S) - M <= R
      /\ Deciding /\ switches.paused => Picture.pts - time + S - M <= R
      /\ Deciding => Lesser(y, Picture.pts - time + S) - M <= R
  BY <1>1 DEF AboveInv
<1>y. Deciding => y >= Picture.pts - time
  BY <1>0, <1>5, <1>b
<1> HIDE DEF R, Q, S, M, P, O, x, y, v, l
<1>7. ~ Fresh => seek_pos - time + S - M <= Q
  BY <1>0, <1>6
<1>8. Fresh /\ ~ Deciding /\ switches'.paused => O + S - M <= Q
  <2>1. CASE Toggle /\ ~ switches.paused /\ ~ switches.step /\ O = v - time
    BY <1>0, <1>2, <1>5, <1>6, <2>1 DEF Lesser
  <2>2. CASE RefreshDisplays /\ switches.step /\ ~ switches.paused /\ O = v - time
    BY <1>0, <1>5, <1>6, <2>2
  <2>3. CASE RefreshDisplays /\ ~ switches.step /\ switches'.paused = switches.paused /\ O = P
    BY <1>0, <1>6, <2>3
  <2> QED BY <1>1, <2>1, <2>2, <2>3
<1>9. Fresh /\ ~ Deciding => Lesser(x, O + S) - M <= Q
  <2>1. Fresh => O <= P
    BY <1>0, <1>1, <1>5
  <2> QED BY <1>0, <1>6, <2>1 DEF Lesser
<1>10. Deciding /\ switches'.paused => Picture.pts - time + S - M <= Q
  <2>1. CASE Toggle /\ ~ switches'.paused
    BY <2>1
  <2>2. CASE Toggle
    BY <1>0, <1>2, <1>5, <1>6, <1>b, <1>y, <2>2 DEF Lesser
  <2>3. CASE RefreshDisplays
    BY <1>5, <2>3
  <2> QED BY <2>2, <2>3
<1>11. Deciding => Lesser(y, Picture.pts - time + S) - M <= Q
  BY <1>0, <1>5, <1>6, <1>b DEF Lesser
<1> QED BY <1>7, <1>8, <1>9, <1>10, <1>11

\* How long the picture on the screen is shown, by the offset H that the master
\* clock of a player that runs has.
ShownFor(H) ==
    \/ TargetDelay(FrameTime) = FrameTime
    \/ /\ Picked - H <= - SyncThreshold(FrameTime)
       /\ TargetDelay(FrameTime) = IF FrameTime + (Picked - H) >= 0 THEN FrameTime + (Picked - H) ELSE 0
    \/ /\ Picked - H >= SyncThreshold(FrameTime)
       /\ TargetDelay(FrameTime) = IF FrameTime > FrameDup THEN FrameTime + (Picked - H) ELSE 2 * FrameTime

LEMMA ShownForIs ==
    ASSUME HeldInv, NEW D \in Nat, RoomInv(D), HeardInv(D), Timed, Fresh, ~ switches.paused, ~ switches.step
    PROVE  \E H \in Int : /\ ShownFor(H) /\ H - Master <= Room(D) - 2 * Slack
                          /\ sound.pc = "idle" => H - Master >= - Period
<1>a. /\ RefreshTypeOK /\ SwitchesInv /\ ClocksInv /\ InTime /\ VidInv /\ SoundInv
      /\ ~ switches.aout_paused
  BY SwitchFields DEF HeldInv, ClocksInv, SwitchesInv
<1> DEFINE H == IF scenario.master = "audio" THEN Heard ELSE Master
           T == TargetDelay(FrameTime)
           diff == GetClock("vid") - GetClock(MasterClock)
           thr == SyncThreshold(FrameTime)
<1>0. /\ Room(D) \in Int /\ Room(D) >= Period + 2 * Slack /\ Slack \in Nat /\ Period \in Nat
      /\ FrameTime \in Nat /\ Master \in Int /\ Picked \in Int /\ time \in Nat
      /\ \A c \in Clocks : clock[c].pts \in Int /\ clock[c].last_updated \in Nat
                           /\ clock[c].last_updated <= time
      /\ upcoming.sound \in Nat /\ sound.wait \in Nat
  <2>1. Nat \cup {NAN} \subseteq Int
    BY DEF NAN
  <2> QED BY <1>a, <2>1, StateFields, ConstantFacts, OffsetFields, SlackIs DEF RoomInv, InTime
<1>1. H \in Int
  BY <1>0 DEF Heard, Clocks
<1>2. GetClock("vid") = Picked + time /\ GetClock("vid") # NAN
  <2>1. GetClock("vid") # NAN /\ GetClock("vid") = clock["vid"].pts + time - clock["vid"].last_updated
    BY <1>a, ReadsIs DEF VidInv, Fresh, Clocks, Stopped
  <2>2. Picked = clock["vid"].pts - clock["vid"].last_updated
    BY DEF Picked, Stands
  <2> QED BY <1>0, <2>1, <2>2 DEF Clocks
<1>3. GetClock(MasterClock) # NAN => GetClock(MasterClock) = H + time
  <2>1. CASE scenario.master = "audio"
    <3>1. MasterClock = "aud" /\ H = clock["aud"].pts - clock["aud"].last_updated
      BY <1>a, <2>1, MasterIs DEF Heard
    <3>2. GetClock("aud") # NAN => GetClock("aud") = clock["aud"].pts + time - clock["aud"].last_updated
      BY <1>a, ReadsIs DEF Clocks, Stopped
    <3> QED BY <1>0, <3>1, <3>2 DEF Clocks
  <2>2. CASE scenario.master # "audio"
    <3>1. MasterClock = "ext" /\ H = clock["ext"].pts - clock["ext"].last_updated
      BY <2>2, MasterIs DEF Timed, Master, Stands
    <3>2. GetClock("ext") # NAN => GetClock("ext") = clock["ext"].pts + time - clock["ext"].last_updated
      BY <1>a, ReadsIs DEF Clocks, Stopped
    <3> QED BY <1>0, <3>1, <3>2 DEF Clocks
  <2> QED BY <2>1, <2>2
<1>4. ShownFor(H)
  <2>1. thr \in Nat
    BY <1>0, ThresholdIs
  <2>2. \/ T = FrameTime
        \/ /\ GetClock(MasterClock) # NAN
           /\ diff <= - thr => T = IF FrameTime + diff >= 0 THEN FrameTime + diff ELSE 0
           /\ - thr < diff /\ diff < thr => T = FrameTime
           /\ diff > - thr /\ diff >= thr =>
                 T = IF FrameTime > FrameDup THEN FrameTime + diff ELSE 2 * FrameTime
    BY <1>0, <1>a, TargetDelayIs
  <2>3. GetClock(MasterClock) # NAN => diff = Picked - H
    <3>1. GetClock(MasterClock) # NAN => diff = (Picked + time) - (H + time)
      BY <1>2, <1>3
    <3> HIDE DEF diff, H
    <3> QED BY <1>0, <1>1, <3>1
  <2> HIDE DEF diff, H, T, thr
  <2> DEFINE e == Picked - H
  <2>4. \/ T = FrameTime
        \/ e <= - thr /\ T = IF FrameTime + e >= 0 THEN FrameTime + e ELSE 0
        \/ e >= thr /\ T = IF FrameTime > FrameDup THEN FrameTime + e ELSE 2 * FrameTime
    <3>1. e \in Int
      BY <1>0, <1>1
    <3> HIDE DEF e
    <3>2. GetClock(MasterClock) # NAN => diff = e
      BY <2>3 DEF e
    <3> QED BY <2>1, <2>2, <3>1, <3>2
  <2> QED BY <2>4 DEF ShownFor, T, thr
<1>5. /\ H - Master <= Room(D) - 2 * Slack \/ ShownFor(Master)
      /\ sound.pc = "idle" => H - Master >= - Period \/ ShownFor(Master)
  <2>1. CASE scenario.master # "audio"
    BY <1>0, <2>1
  <2>2. CASE scenario.master = "audio" /\ clock["aud"].serial = serial
    <3>1. Heard - Master <= Room(D) - 2 * Slack
      BY <2>2 DEF HeardInv, Heard, Slack
    <3>2. sound.pc = "idle" => clock["aud"].pts = upcoming.sound - Period
      BY <1>a, <2>2 DEF SoundInv
    <3>3. Master = upcoming.sound - time - sound.wait
      BY <2>2 DEF Master, NextOffset
    <3>4. Heard = clock["aud"].pts - clock["aud"].last_updated
      BY <1>a DEF Heard
    <3>5. sound.pc = "idle" => Heard - Master >= - Period
      BY <1>0, <3>2, <3>3, <3>4 DEF Clocks
    <3> QED BY <2>2, <3>1, <3>5
  <2>3. CASE scenario.master = "audio" /\ clock["aud"].serial # serial
    <3>1. GetClock(MasterClock) = NAN
      BY <1>a, <2>3, ReadsIs, MasterIs
    <3>2. T = FrameTime
      BY <1>0, <1>a, <3>1, TargetDelayIs
    <3> QED BY <3>2 DEF ShownFor
  <2> QED BY <2>1, <2>2, <2>3
<1>6. /\ Master - Master <= Room(D) - 2 * Slack /\ Master - Master >= - Period
  BY <1>0
<1> HIDE DEF H
<1>7. CASE ShownFor(Master)
  BY <1>0, <1>6, <1>7
<1>8. CASE ~ ShownFor(Master)
  BY <1>1, <1>4, <1>5, <1>8
<1> QED BY <1>7, <1>8

\* The timer of a picture of the last seek is not ahead of the time.
LEMMA TimerIs ==
    ASSUME HeldInv, Fresh, refresh # "shows"
    PROVE  /\ frame_timer <= clock["vid"].last_updated /\ frame_timer <= time
           /\ shown.pts <= clock["vid"].pts
           /\ shown.pts - frame_timer >= clock["vid"].pts - clock["vid"].last_updated
<1>1. /\ RefreshTypeOK /\ InTime /\ VidInv /\ TimerInv
  BY DEF HeldInv, ClocksInv
<1>2. /\ clock["vid"].pts \in Int /\ clock["vid"].last_updated \in Nat /\ clock["vid"].last_updated <= time
      /\ time \in Nat /\ frame_timer \in Int /\ shown.pts \in Nat
  <2>1. Nat \cup {NAN} \subseteq Int
    BY DEF NAN
  <2> QED BY <1>1, <2>1, StateFields DEF InTime, Clocks
<1>3. shown.pts <= clock["vid"].pts
      /\ shown.pts - frame_timer >= clock["vid"].pts - clock["vid"].last_updated
  BY <1>1 DEF VidInv, TimerInv, Fresh
<1> QED BY <1>2, <1>3

\* When a picture comes up while the one on the screen is of the last seek.
LEMMA DecideIs ==
    ASSUME HeldInv, RefreshIdle, Picture.serial = serial, Fresh
    PROVE  /\ NewTimer = frame_timer /\ Delay = TargetDelay(FrameTime) /\ Delay \in Nat
           /\ Picture.pts = shown.pts + FrameTime /\ ~ switches.step /\ ~ switches.paused /\ pictures # << >>
           /\ VpDuration(shown, Picture) = FrameTime
<1>1. /\ RefreshTypeOK /\ SwitchesInv /\ PicturesInv /\ InTime
  BY DEF HeldInv, ClocksInv
<1>2. refresh = "idle" /\ pictures # << >> /\ ~ switches.paused /\ shown.serial = serial
  BY DEF RefreshIdle, Fresh
<1>3. Picture.pts = shown.pts + FrameTime /\ VpDuration(shown, Picture) = FrameTime /\ Delay \in Nat
  BY <1>1, <1>2, DelayIs
<1>4. frame_timer <= time /\ frame_timer \in Int /\ time \in Nat
  BY <1>1, <1>2, TimerIs, StateFields
<1>5. NewTimer = IF time <= frame_timer THEN time ELSE frame_timer
  BY <1>1, <1>2, NewTimerIs
<1>6. NewTimer = frame_timer
  BY <1>4, <1>5
<1>7. ~ switches.step
  BY <1>1, <1>2 DEF SwitchesInv
<1> QED BY <1>2, <1>3, <1>6, <1>7 DEF Delay

LEMMA AboveDecides ==
    ASSUME HeldInv, HeldInv', RefreshNext, NEW D \in Nat, RoomInv(D), AboveInv(D), HeardInv(D), RefreshDecides
    PROVE  AboveInv(D)'
<1> DEFINE R == Room(D)
           S == Slack
           M == Master
           P == Picked
           X == shown.pts - frame_timer
           F == frame_timer'
           T == TargetDelay(FrameTime)
<1>a. /\ RefreshTypeOK /\ SwitchesInv /\ ClocksInv /\ PicturesInv
  BY DEF HeldInv, ClocksInv
<1>0. /\ R \in Int /\ S \in Nat /\ M \in Int /\ P \in Int /\ R >= Period + 2 * S
      /\ time \in Nat /\ shown.pts \in Nat /\ frame_timer \in Int /\ F \in Int
      /\ S = ThresholdMax + 2 * FrameTime /\ FrameTime \in Nat /\ ThresholdMax \in Nat
      /\ clock["vid"].pts \in Int /\ clock["vid"].last_updated \in Nat /\ clock["vid"].last_updated <= time
      /\ Period \in Nat
  BY DistancesAre
<1>1. /\ Timed' <=> Timed
      /\ Timed => Master' = M
      /\ Picked' = P /\ time' = time /\ serial' = serial /\ switches' = switches /\ seek_pos' = seek_pos
  BY <1>a, OffsetsStay
<1>2. Room(D)' = R
  <2>1. ~ Toggle /\ ~ Tick
    <3>1. RefreshDecides => refresh' # refresh
      BY DEF RefreshDecides, PictureDue, RefreshIdle
    <3> QED BY <3>1 DEF Toggle, Tick
  <2> QED BY <1>a, <2>1, RoomStep
<1>3. /\ shown' = shown /\ pictures' = pictures /\ refresh' = "shows" /\ RefreshIdle
      /\ Picture.serial = serial /\ time >= NewTimer + Delay
      /\ F = IF Delay > 0 /\ time - (NewTimer + Delay) > ThresholdMax THEN time ELSE NewTimer + Delay
  BY DEF RefreshDecides, PictureDue
<1>4. Picture' = Picture /\ (Fresh' <=> Fresh) /\ (Deciding' <=> Fresh) /\ ~ Deciding /\ ~ switches.paused
  BY <1>1, <1>3 DEF Picture, Fresh, Deciding, RefreshIdle
<1> SUFFICES ASSUME Timed'
    PROVE /\ ~ Fresh => seek_pos - time + S - M <= R
          /\ Fresh => Lesser(Picture.pts - F, Picture.pts - time + S) - M <= R
  BY <1>1, <1>2, <1>3, <1>4 DEF AboveInv, Lesser, Slack
<1>5. ~ Fresh => seek_pos - time + S - M <= R
  BY <1>1 DEF AboveInv
<1>6. ASSUME Fresh PROVE Lesser(Picture.pts - F, Picture.pts - time + S) - M <= R
  <2>1. /\ NewTimer = frame_timer /\ Delay = T /\ T \in Nat /\ Picture.pts = shown.pts + FrameTime
        /\ ~ switches.step /\ ~ switches.paused
    BY <1>3, <1>6, DecideIs
  <2>2. /\ shown.pts <= clock["vid"].pts /\ shown.pts - frame_timer >= clock["vid"].pts - clock["vid"].last_updated
        /\ P = clock["vid"].pts - clock["vid"].last_updated
    BY <1>3, <1>4, <1>6, TimerIs DEF RefreshIdle, Picked, Stands
  <2>3. X \in Int /\ X >= P /\ shown.pts <= P + time
    BY <1>0, <2>2
  <2>4. Lesser(X, P + S) - M <= R
    BY <1>1, <1>4, <1>6 DEF AboveInv
  <2>5. PICK H \in Int : ShownFor(H) /\ H - M <= R - 2 * S
    BY <1>1, <1>6, <2>1, ShownForIs
  <2>6. T < FrameTime => P - M <= R - 2 * S
    <3>1. SyncThreshold(FrameTime) \in Nat
      BY <1>0, ThresholdIs
    <3>2. \/ T = FrameTime
          \/ P - H <= - SyncThreshold(FrameTime)
          \/ P - H >= SyncThreshold(FrameTime) /\ (T = FrameTime + (P - H) \/ T = 2 * FrameTime)
      BY <2>5 DEF ShownFor
    <3> HIDE DEF R, S, M, P, T
    <3> QED BY <1>0, <2>1, <2>5, <3>1, <3>2
  <2>7. /\ time >= frame_timer + T
        /\ F = IF T > 0 /\ time - (frame_timer + T) > ThresholdMax THEN time ELSE frame_timer + T
    BY <1>3, <2>1
  <2>8. (Picture.pts - F) = (shown.pts - F) + FrameTime /\ F <= time /\ shown.pts - frame_timer = X
    BY <1>0, <2>1, <2>7
  <2> HIDE DEF R, S, M, P, X, F, T
  <2>9. CASE T >= FrameTime /\ X - M <= R
    <3>1. F >= frame_timer + FrameTime
      BY <1>0, <2>1, <2>7, <2>9
    <3>2. Picture.pts - F <= X
      BY <1>0, <2>1, <2>3, <2>8, <3>1
    <3> QED BY <1>0, <2>1, <2>3, <2>9, <3>2 DEF Lesser
  <2>10. CASE P - M + S <= R /\ T > 0
    <3>1. F >= time - ThresholdMax
      BY <1>0, <2>1, <2>7, <2>10
    <3>2. Picture.pts - F <= P + S
      BY <1>0, <2>1, <2>3, <3>1
    <3> QED BY <1>0, <2>1, <2>10, <3>2 DEF Lesser
  <2>11. CASE P - M <= R - 2 * S
    <3>1. Picture.pts - time + S <= P + 2 * S
      BY <1>0, <2>1, <2>3
    <3> QED BY <1>0, <2>1, <2>11, <3>1 DEF Lesser
  <2>12. T >= FrameTime => T > 0
    BY <1>0, <2>1, ConstantFacts
  <2>13. X - M <= R \/ P - M + S <= R
    BY <1>0, <2>3, <2>4 DEF Lesser
  <2> QED BY <1>0, <2>1, <2>6, <2>9, <2>10, <2>11, <2>12, <2>13
<1> QED BY <1>5, <1>6

LEMMA AboveShows ==
    ASSUME HeldInv, HeldInv', RefreshNext, NEW D \in Nat, RoomInv(D), AboveInv(D), RefreshShows
    PROVE  AboveInv(D)'
<1> DEFINE R == Room(D)
           S == Slack
           M == Master
           N == Master'
           O == Picked'
           y == Picture.pts - frame_timer
<1>a. /\ RefreshTypeOK /\ SwitchesInv /\ ClocksInv /\ PicturesInv /\ RefreshTypeOK'
  BY DEF HeldInv, ClocksInv
<1>0. /\ R \in Int /\ S \in Nat /\ M \in Int /\ N \in Int /\ O \in Int /\ R >= Period + 2 * S /\ Period \in Nat
      /\ time \in Nat /\ frame_timer \in Int /\ seek_pos \in Nat
      /\ Picture.pts \in Nat /\ refresh = "shows"
  BY DistancesAre DEF RefreshShows
<1>1. /\ O = Picture.pts - time /\ time' = time /\ serial' = serial /\ switches' = switches
      /\ seek_pos' = seek_pos /\ frame_timer' = frame_timer
      /\ Picture.serial # serial => (Timed' <=> Timed) /\ (Timed => N = M)
      /\ Timed' => (Timed /\ N = M) \/ (Picture.serial = serial /\ N = O)
  BY <1>a, OffsetsAfterPicture
<1>2. Room(D)' = R
  <2>1. ~ Toggle /\ ~ Tick
    <3>1. RefreshShows => refresh' # refresh
      BY DEF RefreshShows
    <3> QED BY <3>1 DEF Toggle, Tick
  <2> QED BY <1>a, <2>1, RoomStep
<1>3. /\ shown' = Picture /\ refresh' # "shows" /\ pictures # << >>
  BY <1>a, FrontIs DEF RefreshShows
<1>4. (Fresh' <=> Picture.serial = serial) /\ ~ Deciding'
  BY <1>1, <1>3 DEF Fresh, Deciding
<1>5. /\ Fresh => Deciding /\ Picture.serial = serial /\ ~ switches.step
      /\ ~ Fresh /\ Picture.serial = serial => Picture.pts = seek_pos
  <2>1. Fresh => Deciding
    BY <1>0 DEF Fresh, Deciding
  <2>2. Fresh => Picture.serial = serial /\ ~ switches.step
    BY <2>1, DecidingIs
  <2>3. ~ Fresh /\ Picture.serial = serial => Picture.pts = seek_pos
    BY <1>a, <1>3, FrontIs DEF Fresh
  <2> QED BY <2>1, <2>2, <2>3
<1> SUFFICES ASSUME Timed'
    PROVE /\ Picture.serial # serial => seek_pos - time + S - N <= R
          /\ Picture.serial = serial /\ (switches.paused \/ switches.step) => O + S - N <= R
          /\ Picture.serial = serial => Lesser(y, O + S) - N <= R
  BY <1>1, <1>2, <1>3, <1>4 DEF AboveInv, Lesser, Slack
<1>6. Timed =>
      /\ ~ Fresh => seek_pos - time + S - M <= R
      /\ Deciding /\ switches.paused => Picture.pts - time + S - M <= R
      /\ Deciding => Lesser(y, Picture.pts - time + S) - M <= R
  BY DEF AboveInv
<1>7. y \in Int
  BY <1>0
<1> HIDE DEF R, S, M, N, O, y
<1>8. CASE Timed /\ N = M
  <2>1. Picture.serial # serial => seek_pos - time + S - N <= R
    BY <1>5, <1>6, <1>8
  <2>2. Picture.serial = serial /\ (switches.paused \/ switches.step) => O + S - N <= R
    BY <1>0, <1>1, <1>5, <1>6, <1>8
  <2>3. Picture.serial = serial => Lesser(y, O + S) - N <= R
    BY <1>0, <1>1, <1>5, <1>6, <1>7, <1>8 DEF Lesser
  <2> QED BY <2>1, <2>2, <2>3
<1>9. CASE Picture.serial = serial /\ N = O
  <2>1. O + S - N = S /\ S <= R
    BY <1>0, <1>9
  <2>2. Lesser(y, O + S) <= O + S
    BY <1>0, <1>7 DEF Lesser
  <2>3. Lesser(y, O + S) \in Int
    BY <1>0, <1>7 DEF Lesser
  <2> QED BY <1>0, <1>9, <2>1, <2>2, <2>3
<1> QED BY <1>1, <1>8, <1>9

LEMMA JumpIs ==
    ASSUME HeldInv, NEW D \in Nat, RefreshNext, NEW t \in {0, FrameTime}, Jump(t)
    PROVE  /\ ~ Fresh' /\ seek_pos' = t /\ time' = time /\ t \in Nat
           /\ Master' = (IF scenario'.master = "audio" THEN t - time - sound.wait ELSE t - time)
           /\ sound.wait \in Nat /\ sound.wait <= Period
           /\ Room(D)' = Room(D)
<1>a. /\ RefreshTypeOK /\ SwitchesInv /\ InTime /\ PicturesInv
  BY DEF HeldInv, ClocksInv
<1>0. /\ shown.serial <= serial /\ shown.serial \in Nat /\ serial \in Nat
  <2>1. CASE pictures = << >>
    BY <1>a, <2>1, StateFields DEF PicturesInv, Follows, Next1
  <2>2. CASE pictures # << >>
    <3>1. shown.serial <= Picture.serial /\ Picture.serial <= serial /\ Picture.serial \in Nat
      BY <1>a, <2>2, DelayIs, QueueFields
    <3> QED BY <1>a, <3>1, StateFields
  <2> QED BY <2>1, <2>2
<1>1. /\ clock'["ext"].pts = t /\ clock'["ext"].last_updated = time /\ time' = time /\ serial' = serial + 1
      /\ shown' = shown /\ sound' = sound /\ seek_pos' = t /\ upcoming'.sound = t
      /\ scenario'.master = scenario.master
  BY <1>a, ClocksAfterJump
<1>2. ~ Fresh'
  BY <1>0, <1>1 DEF Fresh
<1>3. Master' = IF scenario'.master = "audio" THEN t - time - sound.wait ELSE t - time
  BY <1>1 DEF Master, NextOffset, Stands
<1>4. Room(D)' = Room(D)
  <2>1. ~ Toggle /\ ~ Tick
    <3>1. serial' # serial
      BY <1>0, <1>1
    <3> QED BY <3>1 DEF Toggle, Tick
  <2> QED BY <1>a, <2>1, RoomStep
<1>5. t \in Nat
  BY ConstantFacts
<1>6. sound.wait \in Nat /\ sound.wait <= Period
  BY <1>a, StateFields
<1> QED BY <1>1, <1>2, <1>3, <1>4, <1>5, <1>6

\* The other steps leave the distances as they are.
LEMMA DistancesStay ==
    ASSUME HeldInv, HeldInv', RefreshNext, NEW D \in Nat,
           Decode \/ PushText \/ SoundBegins \/ SoundEnds \/ RefreshSkipsOld \/ RefreshWaits
    PROVE  /\ Room(D)' = Room(D) /\ (Timed' <=> Timed) /\ (Timed => Master' = Master)
           /\ Picked' = Picked /\ time' = time /\ serial' = serial /\ switches' = switches
           /\ seek_pos' = seek_pos
           /\ Fresh' <=> Fresh
           /\ Fresh => shown' = shown /\ frame_timer' = frame_timer
           /\ Deciding' <=> Deciding
           /\ Deciding => Picture' = Picture
           /\ refresh' = refresh
<1>a. /\ RefreshTypeOK /\ SwitchesInv /\ ClocksInv /\ PicturesInv /\ RefreshTypeOK'
  BY DEF HeldInv, ClocksInv
<1>1. /\ Timed' <=> Timed
      /\ Timed => Master' = Master
      /\ Picked' = Picked /\ time' = time /\ serial' = serial /\ switches' = switches /\ seek_pos' = seek_pos
  BY <1>a, OffsetsStay
<1>2. refresh' = refresh
  BY DEF Decode, PushText, SoundBegins, SoundEnds, RefreshSkipsOld, RefreshWaits
<1>3. Room(D)' = Room(D)
  <2>1. ~ Tick
    BY <1>1, <1>a, StateFields DEF Tick
  <2>2. ~ Toggle
    <3>1. ASSUME Toggle PROVE FALSE
      <4>1. switches'.pause_req # switches.pause_req
        BY <1>a, <3>1, ToggleIs DEF Pressed
      <4> QED BY <1>1, <4>1
    <3> QED BY <3>1
  <2> QED BY <1>a, <2>1, <2>2, RoomStep
<1>4. CASE RefreshSkipsOld
  <2>1. /\ pictures # << >> /\ shown' = Picture /\ Picture.serial # serial /\ refresh = "idle"
        /\ shown.serial <= Picture.serial /\ Picture.serial <= serial
    BY <1>4, <1>a, FrontIs
  <2>2. Picture.serial \in Nat /\ shown.serial \in Nat /\ serial \in Nat
    BY <1>a, <2>1, QueueFields, StateFields
  <2>3. ~ Fresh /\ ~ Fresh'
    BY <1>1, <2>1, <2>2 DEF Fresh
  <2> QED BY <1>1, <1>2, <1>3, <2>3 DEF Deciding
<1>5. CASE RefreshWaits
  <2>1. shown' = shown /\ pictures' = pictures
    BY <1>5 DEF RefreshWaits
  <2>2. ~ Fresh
    <3>1. RefreshIdle /\ Picture.serial = serial /\ NewTimer # frame_timer
      BY <1>5 DEF RefreshWaits
    <3> QED BY <3>1, DecideIs
  <2> QED BY <1>1, <1>2, <1>3, <2>1, <2>2 DEF Deciding, Fresh
<1>6. CASE Decode \/ PushText \/ SoundBegins \/ SoundEnds
  <2>1. frame_timer' = frame_timer /\ shown' = shown
    BY <1>6 DEF Decode, PushText, SoundBegins, SoundEnds
  <2>2. Deciding => pictures # << >>
    BY <1>a DEF Deciding, PicturesInv
  <2>3. Deciding => Picture' = Picture
    <3>1. CASE Decode
      BY <1>a, <2>2, <3>1, FrontIs
    <3>2. CASE PushText \/ SoundBegins \/ SoundEnds
      BY <3>2 DEF PushText, SoundBegins, SoundEnds, Picture
    <3> QED BY <1>6, <3>1, <3>2
  <2> QED BY <1>1, <1>2, <1>3, <2>1, <2>3 DEF Fresh, Deciding
<1> QED BY <1>4, <1>5, <1>6

LEMMA AboveStep ==
    ASSUME HeldInv, HeldInv', RefreshNext, NEW D \in Nat, RoomInv(D), AboveInv(D), HeardInv(D)
    PROVE  AboveInv(D)'
<1>1. CASE \E t \in {0, FrameTime} : Jump(t)
  <2> PICK t \in {0, FrameTime} : Jump(t)
    BY <1>1
  <2>1. /\ ~ Fresh' /\ seek_pos' = t /\ time' = time /\ t \in Nat /\ Room(D)' = Room(D)
        /\ Master' = (IF scenario'.master = "audio" THEN t - time - sound.wait ELSE t - time)
        /\ sound.wait \in Nat /\ sound.wait <= Period
    BY JumpIs
  <2>2. Room(D) \in Int /\ Room(D) >= Period + 2 * Slack /\ Slack \in Nat /\ Period \in Nat /\ time \in Nat
    BY DistancesAre
  <2>3. seek_pos' - time' + Slack - Master' <= Room(D)'
    <3> HIDE DEF Slack
    <3>1. seek_pos' - time' + Slack - Master' = Slack + (IF scenario'.master = "audio" THEN sound.wait ELSE 0)
      BY <2>1, <2>2
    <3> QED BY <2>1, <2>2, <3>1
  <2> QED BY <2>1, <2>3 DEF AboveInv, Deciding, Fresh, Slack
<1>2. CASE Decode \/ PushText \/ SoundBegins \/ SoundEnds \/ RefreshSkipsOld \/ RefreshWaits
  <2>1. /\ Room(D)' = Room(D) /\ (Timed' <=> Timed) /\ (Timed => Master' = Master)
        /\ Picked' = Picked /\ time' = time /\ serial' = serial /\ switches' = switches
        /\ seek_pos' = seek_pos
        /\ Fresh' <=> Fresh
        /\ Fresh => shown' = shown /\ frame_timer' = frame_timer
        /\ Deciding' <=> Deciding
        /\ Deciding => Picture' = Picture
    BY <1>2, DistancesStay
  <2>2. Deciding => Fresh
    BY DEF Deciding
  <2> QED BY <2>1, <2>2 DEF AboveInv, Lesser, Slack
<1> QED BY <1>1, <1>2, AboveTick, AboveSwitches, AboveDecides, AboveShows DEF RefreshNext, RefreshThread

\* When all is done in a player that runs, the picture on the screen is of the last
\* seek, and it is not yet time for the next one.
LEMMA AllDoneIs ==
    ASSUME HeldInv, AllDone, ~ switches.paused
    PROVE  /\ RefreshIdle /\ Picture.serial = serial /\ Fresh /\ ~ switches.step
           /\ time < frame_timer + TargetDelay(FrameTime) /\ TargetDelay(FrameTime) \in Nat
<1>1. /\ RefreshTypeOK /\ SwitchesInv /\ PicturesInv /\ InTime /\ VidInv
  BY DEF HeldInv, ClocksInv
<1>2. refresh = "idle" /\ ~ OldPicture /\ ~ PictureDue /\ pictures # << >>
  <2>1. Len(pictures) = 3 /\ refresh = "idle" /\ ~ OldPicture /\ ~ PictureDue
    BY DEF AllDone, PictureQueueSize
  <2> QED BY <1>1, <2>1, QueueFields
<1>3. RefreshIdle /\ Picture.serial = serial /\ ~ (time >= NewTimer + Delay)
  BY <1>2 DEF RefreshIdle, OldPicture, PictureDue
<1>4. time \in Nat /\ frame_timer \in Int
  BY <1>1, StateFields
<1>5. Fresh
  <2>1. ASSUME ~ Fresh PROVE FALSE
    <3>1. NewTimer = time /\ VpDuration(shown, Picture) = 0
      BY <1>1, <1>2, <1>3, <2>1, NewTimerIs, DelayIs DEF Fresh
    <3>2. GetClock("vid") = NAN
      BY <1>1, <2>1, ReadsIs DEF VidInv, Fresh, Clocks
    <3>3. Delay = 0
      BY <1>1, <3>1, <3>2, TargetDelayIs DEF Delay
    <3> QED BY <1>3, <1>4, <3>1, <3>3
  <2> QED BY <2>1
<1>6. NewTimer = frame_timer /\ Delay = TargetDelay(FrameTime) /\ Delay \in Nat /\ ~ switches.step
  BY <1>3, <1>5, DecideIs
<1> QED BY <1>3, <1>4, <1>5, <1>6

LEMMA BelowTick ==
    ASSUME HeldInv, HeldInv', RefreshNext, NEW D \in Nat, RoomInv(D), BelowInv(D), HeardInv(D), Tick
    PROVE  BelowInv(D)'
<1> DEFINE R == Room(D)
           Q == Room(D)'
           M == Master
           N == Master'
           P == Picked
           O == Picked'
<1>a. /\ RefreshTypeOK /\ SwitchesInv /\ ClocksInv /\ PicturesInv
  BY DEF HeldInv
<1>0. /\ R \in Int /\ Q \in Int /\ R <= Q /\ M \in Int /\ N \in Int /\ P \in Int /\ O \in Int
      /\ time \in Nat /\ seek_pos \in Nat /\ shown.pts \in Nat /\ FrameTime \in Nat /\ frame_timer \in Int
      /\ R >= Period + 2 * Slack /\ Slack \in Nat /\ Slack = ThresholdMax + 2 * FrameTime
      /\ ThresholdMax \in Nat /\ Period \in Nat
      /\ clock["vid"].pts \in Int /\ clock["vid"].last_updated \in Nat /\ clock["vid"].last_updated <= time
  BY DistancesAre
<1>1. /\ Timed' <=> Timed
      /\ N = M \/ N = M - 1
      /\ switches.paused => N = M - 1 /\ O = P - 1
      /\ ~ switches.paused => O = P
      /\ ~ switches.paused /\ ~ switches.aout_paused /\ AllDone => N = M
  BY <1>a, OffsetsAfterTick
<1>2. /\ AllDone => Q = R
      /\ ~ AllDone => Q = R + 1
  BY <1>a, RoomStep
<1>3. /\ serial' = serial /\ shown' = shown /\ switches' = switches /\ seek_pos' = seek_pos /\ time' = time + 1
  BY DEF Tick
<1>4. Fresh' <=> Fresh
  BY <1>3 DEF Fresh
<1>5. AllDone /\ ~ switches.paused => Fresh /\ ~ switches.step
  BY AllDoneIs
<1> SUFFICES ASSUME Timed'
    PROVE /\ ~ Fresh => seek_pos - (time + 1) - N - FrameTime >= - Q
          /\ Fresh /\ switches.step => shown.pts - (time + 1) - N >= - Q
          /\ Fresh => shown.pts + FrameTime - (time + 1) - N >= - Q
          /\ Fresh => O - N >= - Q
  BY <1>3, <1>4 DEF BelowInv
<1>6. /\ ~ Fresh => seek_pos - time - M - FrameTime >= - R
      /\ Fresh /\ switches.step => shown.pts - time - M >= - R
      /\ Fresh => shown.pts + FrameTime - time - M >= - R
      /\ Fresh => P - M >= - R
  BY <1>1 DEF BelowInv
<1>7. ASSUME Fresh, AllDone, ~ switches.paused
      PROVE  shown.pts + FrameTime - (time + 1) - N >= - Q
  <2> DEFINE T == TargetDelay(FrameTime)
  <2>1. /\ refresh = "idle" /\ ~ switches.step /\ time < frame_timer + T /\ T \in Nat /\ sound.pc = "idle"
        /\ ~ switches.aout_paused
    BY <1>7, <1>a, AllDoneIs, SwitchFields DEF RefreshIdle, SwitchesInv, AllDone
  <2>2. /\ shown.pts - frame_timer >= clock["vid"].pts - clock["vid"].last_updated
        /\ P = clock["vid"].pts - clock["vid"].last_updated
    BY <1>7, <2>1, TimerIs DEF Picked, Stands
  <2>3. PICK H \in Int : ShownFor(H) /\ H - M >= - Period
    BY <1>1, <1>7, <2>1, ShownForIs
  <2>4. SyncThreshold(FrameTime) \in Nat
    BY <1>0, ThresholdIs
  <2>5. \/ T = FrameTime
        \/ T = FrameTime + (P - H) \/ T = 0
        \/ P - H >= SyncThreshold(FrameTime) /\ T = 2 * FrameTime
    BY <2>3 DEF ShownFor
  <2>6. N = M /\ Q = R
    BY <1>1, <1>2, <1>7, <2>1
  <2>7. shown.pts - frame_timer >= P
    BY <2>2
  <2> HIDE DEF R, Q, M, N, P, O, T, Slack
  <2>8. shown.pts + FrameTime - (time + 1) - M >= P - M + FrameTime - T
    BY <1>0, <2>1, <2>7
  <2>9. P - M + FrameTime - T >= - R
    BY <1>0, <1>6, <1>7, <2>1, <2>3, <2>4, <2>5
  <2> QED BY <1>0, <2>1, <2>6, <2>8, <2>9
<1> HIDE DEF R, Q, M, N, P, O
<1>8. ~ Fresh => seek_pos - (time + 1) - N - FrameTime >= - Q
  BY <1>0, <1>1, <1>2, <1>5, <1>6
<1>9. Fresh /\ switches.step => shown.pts - (time + 1) - N >= - Q
  BY <1>0, <1>1, <1>2, <1>5, <1>6
<1>10. Fresh => shown.pts + FrameTime - (time + 1) - N >= - Q
  BY <1>0, <1>1, <1>2, <1>6, <1>7
<1>11. Fresh => O - N >= - Q
  BY <1>0, <1>1, <1>2, <1>6
<1> QED BY <1>8, <1>9, <1>10, <1>11

LEMMA BelowSwitches ==
    ASSUME HeldInv, HeldInv', RefreshNext, NEW D \in Nat, RoomInv(D), BelowInv(D), Toggle \/ RefreshDisplays
    PROVE  BelowInv(D)'
<1> DEFINE R == Room(D)
           Q == Room(D)'
           S == Slack
           M == Master
           P == Picked
           O == Picked'
           v == clock["vid"].pts
<1>a. /\ RefreshTypeOK /\ SwitchesInv /\ ClocksInv /\ PicturesInv /\ InTime /\ VidInv
  BY DEF HeldInv, ClocksInv
<1>0. /\ R \in Int /\ Q \in Int /\ R <= Q /\ S \in Nat /\ M \in Int /\ P \in Int /\ O \in Int
      /\ time \in Nat /\ seek_pos \in Nat /\ v \in Int /\ shown.pts \in Nat
      /\ FrameTime \in Nat /\ S >= FrameTime
  BY DistancesAre
<1>1. /\ Timed' <=> Timed
      /\ Timed => Master' = M
      /\ \/ Toggle /\ O = v - time
         \/ Toggle /\ (Fresh => O = P)
         \/ RefreshDisplays /\ switches.step /\ O = v - time
         \/ RefreshDisplays /\ O = P
      /\ ~ switches'.step
  BY <1>a, OffsetsAfterSwitches
<1>2. Toggle => Q = R + S
  BY <1>a, RoomStep
<1>3. /\ serial' = serial /\ shown' = shown /\ seek_pos' = seek_pos /\ time' = time
  BY <1>a, ClocksAfterSwitches
<1>4. (Fresh' <=> Fresh) /\ (Fresh => shown.pts <= v) /\ (Fresh /\ switches.step => shown.pts = v)
  BY <1>3, <1>a DEF Fresh, VidInv
<1> SUFFICES ASSUME Timed'
    PROVE /\ ~ Fresh => seek_pos - time - M - FrameTime >= - Q
          /\ Fresh => shown.pts + FrameTime - time - M >= - Q
          /\ Fresh => O - M >= - Q
  BY <1>1, <1>3, <1>4 DEF BelowInv
<1>6. /\ ~ Fresh => seek_pos - time - M - FrameTime >= - R
      /\ Fresh /\ switches.step => shown.pts - time - M >= - R
      /\ Fresh => shown.pts + FrameTime - time - M >= - R
      /\ Fresh => P - M >= - R
  BY <1>1 DEF BelowInv
<1> HIDE DEF R, Q, S, M, P, O, v
<1>7. ~ Fresh => seek_pos - time - M - FrameTime >= - Q
  BY <1>0, <1>6
<1>8. Fresh => shown.pts + FrameTime - time - M >= - Q
  BY <1>0, <1>6
<1>9. Fresh => O - M >= - Q
  BY <1>0, <1>1, <1>2, <1>4, <1>6
<1> QED BY <1>7, <1>8, <1>9

LEMMA BelowShows ==
    ASSUME HeldInv, HeldInv', RefreshNext, NEW D \in Nat, RoomInv(D), BelowInv(D), RefreshShows
    PROVE  BelowInv(D)'
<1> DEFINE R == Room(D)
           M == Master
           N == Master'
           O == Picked'
<1>a. /\ RefreshTypeOK /\ SwitchesInv /\ ClocksInv /\ PicturesInv /\ RefreshTypeOK'
  BY DEF HeldInv, ClocksInv
<1>0. /\ R \in Int /\ M \in Int /\ N \in Int /\ O \in Int /\ R >= Period + 2 * Slack /\ Period \in Nat
      /\ Slack \in Nat /\ FrameTime \in Nat
      /\ time \in Nat /\ seek_pos \in Nat /\ shown.pts \in Nat
      /\ Picture.pts \in Nat /\ refresh = "shows"
  BY DistancesAre DEF RefreshShows
<1>1. /\ O = Picture.pts - time /\ time' = time /\ serial' = serial /\ switches' = switches
      /\ seek_pos' = seek_pos
      /\ Picture.serial # serial => (Timed' <=> Timed) /\ (Timed => N = M)
      /\ Timed' => (Timed /\ N = M) \/ (Picture.serial = serial /\ N = O)
  BY <1>a, OffsetsAfterPicture
<1>2. Room(D)' = R
  <2>1. ~ Toggle /\ ~ Tick
    <3>1. RefreshShows => refresh' # refresh
      BY DEF RefreshShows
    <3> QED BY <3>1 DEF Toggle, Tick
  <2> QED BY <1>a, <2>1, RoomStep
<1>3. /\ shown' = Picture /\ pictures # << >>
  BY <1>a, FrontIs DEF RefreshShows
<1>4. Fresh' <=> Picture.serial = serial
  BY <1>1, <1>3 DEF Fresh
<1>5. /\ Fresh => Picture.serial = serial /\ Picture.pts = shown.pts + FrameTime /\ ~ switches.step
      /\ ~ Fresh /\ Picture.serial = serial => Picture.pts = seek_pos
  <2>1. Fresh => Deciding
    BY <1>0 DEF Fresh, Deciding
  <2>2. Fresh => Picture.serial = serial /\ Picture.pts = shown.pts + FrameTime /\ ~ switches.step
    BY <2>1, DecidingIs
  <2>3. ~ Fresh /\ Picture.serial = serial => Picture.pts = seek_pos
    BY <1>a, <1>3, FrontIs DEF Fresh
  <2> QED BY <2>2, <2>3
<1> SUFFICES ASSUME Timed'
    PROVE /\ Picture.serial # serial => seek_pos - time - N - FrameTime >= - R
          /\ Picture.serial = serial => O - N >= - R /\ Picture.pts + FrameTime - time - N >= - R
  BY <1>1, <1>2, <1>3, <1>4 DEF BelowInv
<1>6. Timed =>
      /\ ~ Fresh => seek_pos - time - M - FrameTime >= - R
      /\ Fresh => shown.pts + FrameTime - time - M >= - R
  BY DEF BelowInv
<1> HIDE DEF R, M, N, O, Slack
<1>7. Picture.pts + FrameTime - time - N = O + FrameTime - N
  BY <1>0, <1>1
<1>8. CASE Timed /\ N = M
  <2>1. Picture.serial # serial => seek_pos - time - N - FrameTime >= - R
    BY <1>5, <1>6, <1>8
  <2>2. Picture.serial = serial => O - N >= - R
    BY <1>0, <1>1, <1>5, <1>6, <1>8
  <2>3. O - N >= - R => O + FrameTime - N >= - R
    BY <1>0
  <2> QED BY <1>7, <2>1, <2>2, <2>3
<1>9. CASE Picture.serial = serial /\ N = O
  <2>1. O - N >= - R /\ O + FrameTime - N >= - R
    BY <1>0, <1>9
  <2> QED BY <1>7, <1>9, <2>1
<1> QED BY <1>1, <1>8, <1>9

LEMMA BelowStep ==
    ASSUME HeldInv, HeldInv', RefreshNext, NEW D \in Nat, RoomInv(D), BelowInv(D), HeardInv(D)
    PROVE  BelowInv(D)'
<1>1. CASE \E t \in {0, FrameTime} : Jump(t)
  <2> PICK t \in {0, FrameTime} : Jump(t)
    BY <1>1
  <2>1. /\ ~ Fresh' /\ seek_pos' = t /\ time' = time /\ t \in Nat /\ Room(D)' = Room(D)
        /\ Master' = (IF scenario'.master = "audio" THEN t - time - sound.wait ELSE t - time)
        /\ sound.wait \in Nat /\ sound.wait <= Period
    BY JumpIs
  <2>2. /\ Room(D) \in Int /\ Room(D) >= Period + 2 * Slack /\ Slack \in Nat /\ Period \in Nat /\ time \in Nat
        /\ FrameTime \in Nat /\ Slack >= FrameTime
    BY DistancesAre, SlackIs
  <2>3. seek_pos' - time' - Master' - FrameTime >= - Room(D)'
    <3> HIDE DEF Slack
    <3>1. seek_pos' - time' - Master' - FrameTime
            = (IF scenario'.master = "audio" THEN sound.wait ELSE 0) - FrameTime
      BY <2>1, <2>2
    <3> QED BY <2>1, <2>2, <3>1
  <2> QED BY <2>1, <2>3 DEF BelowInv
<1>2. CASE Decode \/ PushText \/ SoundBegins \/ SoundEnds \/ RefreshSkipsOld \/ RefreshWaits
  <2>1. /\ Room(D)' = Room(D) /\ (Timed' <=> Timed) /\ (Timed => Master' = Master)
        /\ Picked' = Picked /\ time' = time /\ serial' = serial /\ switches' = switches
        /\ seek_pos' = seek_pos
        /\ Fresh' <=> Fresh
        /\ Fresh => shown' = shown
    BY <1>2, DistancesStay
  <2> QED BY <2>1 DEF BelowInv
<1>3. CASE RefreshDecides
  <2>1. RefreshTypeOK /\ SwitchesInv /\ ClocksInv
    BY DEF HeldInv
  <2>2. /\ Timed' <=> Timed
        /\ Timed => Master' = Master
        /\ Picked' = Picked /\ time' = time /\ serial' = serial /\ switches' = switches /\ seek_pos' = seek_pos
    BY <1>3, <2>1, OffsetsStay
  <2>3. shown' = shown /\ refresh' # refresh
    BY <1>3 DEF RefreshDecides, PictureDue, RefreshIdle
  <2>4. Room(D)' = Room(D)
    <3>1. ~ Toggle /\ ~ Tick
      BY <2>3 DEF Toggle, Tick
    <3> QED BY <2>1, <3>1, RoomStep
  <2> QED BY <2>2, <2>3, <2>4 DEF BelowInv, Fresh
<1> QED BY <1>1, <1>2, <1>3, BelowTick, BelowSwitches, BelowShows DEF RefreshNext, RefreshThread

-----------------------------------------------------------------------------
(* How near the picture comes. *)

LEMMA ThresholdBelow == SyncThreshold(FrameTime) \in Nat /\ SyncThreshold(FrameTime) <= Near /\ Near \in Nat
                        /\ Near >= FrameTime
<1> DEFINE thr == SyncThreshold(FrameTime)
<1>1. FrameTime \in Nat /\ ThresholdMin \in Nat
  BY ConstantFacts
<1>2. thr \in Nat /\ (thr <= FrameTime \/ thr = ThresholdMin)
  BY <1>1, ThresholdIs
<1> HIDE DEF thr
<1>3. thr <= Near /\ Near \in Nat /\ Near >= FrameTime
  BY <1>1, <1>2 DEF Near
<1> QED BY <1>2, <1>3 DEF thr

LEMMA AimBounds ==
    ASSUME NEW d \in Int
    PROVE  /\ Aim(d) \in Nat /\ (Aim(d) <= 2 * FrameTime \/ Aim(d) <= FrameTime + d)
           /\ Aim(d) < FrameTime =>
                 d <= 0 /\ Aim(d) = IF FrameTime + d >= 0 THEN FrameTime + d ELSE 0
           /\ d > Near /\ d < NoSync => Aim(d) >= 2 * FrameTime
           /\ d < - Near /\ - d < NoSync => Aim(d) = 0
           /\ d > Near => Aim(d) <= 2 * d
<1> DEFINE thr == SyncThreshold(FrameTime)
           near == Near
           a == Aim(d)
<1>1. /\ FrameTime \in Nat /\ FrameTime > 0 /\ NoSync \in Nat /\ FrameDup \in Nat
      /\ thr \in Nat /\ thr <= near /\ near \in Nat /\ near >= FrameTime
  BY ConstantFacts, ThresholdBelow
<1>2. a = IF d >= NoSync \/ -d >= NoSync THEN FrameTime
          ELSE IF d <= - thr THEN (IF FrameTime + d >= 0 THEN FrameTime + d ELSE 0)
          ELSE IF d < thr THEN FrameTime
          ELSE IF FrameTime > FrameDup THEN FrameTime + d ELSE 2 * FrameTime
  BY DEF Aim
<1> HIDE DEF thr, near, a
<1>3. a \in Nat /\ (a <= 2 * FrameTime \/ a <= FrameTime + d)
  BY <1>1, <1>2
<1>4. a < FrameTime => d <= 0 /\ a = IF FrameTime + d >= 0 THEN FrameTime + d ELSE 0
  BY <1>1, <1>2
<1>5. d > near /\ d < NoSync => a >= 2 * FrameTime
  BY <1>1, <1>2
<1>6. d < - near /\ - d < NoSync => a = 0
  BY <1>1, <1>2
<1>7. d > near => a <= 2 * d
  BY <1>1, <1>2
<1> QED BY <1>3, <1>4, <1>5, <1>6, <1>7 DEF a, near

\* A player that has been calm for longer than a buffer knows how far it is.
LEMMA AimIs ==
    ASSUME HeldInv, Calm, since.calm > Period \/ (since.calm = Period /\ AllDone), scenario.master # "video"
    PROVE  /\ Timed /\ Fresh /\ ~ switches.step
           /\ GetClock("vid") - GetClock(MasterClock) = Picked - Master
           /\ TargetDelay(FrameTime) = Aim(Picked - Master)
<1>a. /\ RefreshTypeOK /\ SwitchesInv /\ CalmInv /\ InTime /\ VidInv /\ SoundInv /\ ExtInv /\ ~ switches.paused
  BY DEF HeldInv, ClocksInv, Calm
<1>b. /\ shown.serial = serial /\ ~ switches.step /\ ~ switches.aout_paused
  BY <1>a, SwitchFields DEF CalmInv, SwitchesInv
<1>0. /\ Period \in Nat /\ FrameTime \in Nat /\ Master \in Int /\ Picked \in Int /\ time \in Nat
      /\ \A c \in Clocks : clock[c].pts \in Int /\ clock[c].last_updated \in Nat
      /\ sound.wait \in Nat /\ NoSync \in Nat /\ FrameDup \in Nat
  <2>1. Nat \cup {NAN} \subseteq Int
    BY DEF NAN
  <2> QED BY <1>a, <2>1, StateFields, ConstantFacts, OffsetFields
<1>1. GetClock("vid") = Picked + time /\ GetClock("vid") # NAN
  <2>1. GetClock("vid") # NAN /\ GetClock("vid") = clock["vid"].pts + time - clock["vid"].last_updated
    BY <1>a, <1>b, ReadsIs DEF VidInv, Clocks, Stopped
  <2>2. Picked = clock["vid"].pts - clock["vid"].last_updated
    BY <1>a DEF Picked, Stands
  <2> QED BY <1>0, <2>1, <2>2 DEF Clocks
<1>2. GetClock(MasterClock) # NAN /\ GetClock(MasterClock) = Master + time /\ Timed
  <2>1. CASE scenario.master = "audio"
    <3>1. AudioOffset = NextOffset
      <4>1. /\ \/ AudioOffset = NextOffset
               \/ sound.pc = "idle" /\ since.calm + sound.wait <= Period
               \/ sound.pc = "fills" /\ since.calm <= Period
        BY <1>a, <2>1 DEF CalmInv
      <4>2. AllDone => sound.pc = "idle" /\ sound.wait # 0
        BY <1>b, <2>1 DEF AllDone, SoundDue
      <4>3. since.calm \in Nat /\ sound.wait \in Nat /\ Period \in Nat
        BY <1>a, StateFields, ConstantFacts
      <4>4. ~ (sound.pc = "idle" /\ since.calm + sound.wait <= Period)
        BY <4>2, <4>3
      <4>5. ~ (sound.pc = "fills" /\ since.calm <= Period)
        BY <4>2, <4>3
      <4> QED BY <4>1, <4>4, <4>5
    <3>2. clock["aud"].serial = serial /\ clock["aud"].pts # NAN /\ MasterClock = "aud"
      BY <1>a, <2>1, MasterIs DEF CalmInv, SoundInv
    <3>3. GetClock("aud") # NAN /\ GetClock("aud") = clock["aud"].pts + time - clock["aud"].last_updated
      BY <1>a, <1>b, <3>2, ReadsIs DEF Clocks, Stopped
    <3>4. Master = clock["aud"].pts - clock["aud"].last_updated
      BY <2>1, <3>1 DEF Master, AudioOffset
    <3> QED BY <1>0, <2>1, <3>2, <3>3, <3>4 DEF Clocks, Timed
  <2>2. CASE scenario.master # "audio"
    <3>1. scenario.master = "external" /\ MasterClock = "ext"
      BY <1>a, <2>2, MasterIs DEF RefreshTypeOK, Budgets
    <3>2. clock["ext"].pts # NAN
      BY <1>a, <1>b, <3>1 DEF ExtInv
    <3>3. GetClock("ext") # NAN /\ GetClock("ext") = clock["ext"].pts + time - clock["ext"].last_updated
      BY <1>a, <3>2, ReadsIs DEF Clocks, Stopped
    <3>4. Master = clock["ext"].pts - clock["ext"].last_updated
      BY <1>a, <2>2 DEF Master, Stands
    <3> QED BY <1>0, <3>1, <3>2, <3>3, <3>4 DEF Clocks, Timed
  <2> QED BY <2>1, <2>2
<1> DEFINE diff == GetClock("vid") - GetClock(MasterClock)
           T == TargetDelay(FrameTime)
           thr == SyncThreshold(FrameTime)
           d == Picked - Master
<1>3. diff = d /\ d \in Int
  <2>1. diff = (Picked + time) - (Master + time)
    BY <1>1, <1>2
  <2> HIDE DEF diff
  <2> QED BY <1>0, <2>1
<1>4. /\ (diff >= NoSync \/ -diff >= NoSync) => T = FrameTime
      /\ ~ (diff >= NoSync \/ -diff >= NoSync) =>
           /\ diff <= - thr => T = IF FrameTime + diff >= 0 THEN FrameTime + diff ELSE 0
           /\ - thr < diff /\ diff < thr => T = FrameTime
           /\ diff > - thr /\ diff >= thr => T = IF FrameTime > FrameDup THEN FrameTime + diff ELSE 2 * FrameTime
  <2>1. NAN \notin {GetClock("vid"), GetClock(MasterClock)}
    BY <1>1, <1>2
  <2> QED BY <1>0, <1>a, <2>1, TargetDelayIs
<1>5. thr \in Nat
  BY <1>0, ThresholdIs
<1>6. Aim(d) = IF d >= NoSync \/ -d >= NoSync THEN FrameTime
               ELSE IF d <= - thr THEN (IF FrameTime + d >= 0 THEN FrameTime + d ELSE 0)
               ELSE IF d < thr THEN FrameTime
               ELSE IF FrameTime > FrameDup THEN FrameTime + d ELSE 2 * FrameTime
  BY DEF Aim
<1> HIDE DEF diff, T, thr, d
<1>7. T = Aim(d)
  BY <1>0, <1>3, <1>4, <1>5, <1>6
<1> QED BY <1>2, <1>3, <1>7, <1>b DEF T, d, diff, Fresh

\* What is known of a player that stays calm for longer than a buffer.
LEMMA SettledBefore ==
    ASSUME HeldInv, HeldInv', RefreshNext, NEW D \in Nat, Settled'
    PROVE  /\ Settled \/ (Tick /\ since.calm = Period)
           /\ Calm /\ since.calm >= Period /\ (Tick => AllDone) /\ scenario.master # "video"
           /\ ~ Toggle /\ ~ \E t \in {0, FrameTime} : Jump(t)
           /\ ~ RefreshSkipsOld /\ ~ RefreshWaits /\ ~ switches.step /\ ~ switches.paused
           /\ Timed /\ Fresh /\ Fresh' /\ Timed'
           /\ since'.calm \in Nat /\ since.calm \in Nat
           /\ Tick => since'.calm <= since.calm + 1
           /\ ~ Tick => since'.calm = since.calm
           /\ Room(D)' = Room(D)
<1>a. /\ RefreshTypeOK /\ PicturesInv /\ SwitchesInv /\ ClocksInv /\ CalmInv /\ RefreshTypeOK'
      /\ InTime /\ SoundInv /\ ExtInv
  BY DEF HeldInv, ClocksInv
<1>0. /\ since.calm \in Nat /\ since'.calm \in Nat /\ Period \in Nat /\ Period > 0 /\ CalmTime \in Nat
      /\ since'.calm <= CalmTime /\ scenario \in Budgets /\ scenario' \in Budgets
  BY <1>a, StateFields, ConstantFacts DEF RefreshTypeOK
<1>1. since'.calm > Period /\ ~ switches'.paused /\ scenario'.master # "video" /\ Calm'
  BY <1>0 DEF Settled, Calm
<1>2. /\ ~ Toggle /\ ~ \E t \in {0, FrameTime} : Jump(t)
      /\ ~ switches.paused /\ (Tick => AllDone)
      /\ shown.serial = serial /\ serial' = serial /\ scenario'.master = scenario.master
      /\ scenario.master = "audio" => clock["aud"].serial = serial /\ clock["aud"].pts # NAN
      /\ since'.calm = IF Tick /\ since.calm + 1 <= CalmTime THEN since.calm + 1
                       ELSE IF Tick THEN CalmTime ELSE since.calm
  BY <1>a, <1>1, CalmBefore
<1>3. /\ ~ RefreshSkipsOld /\ ~ switches.step /\ shown'.serial = serial'
  BY <1>a, <1>1, CalmShown
<1>4. /\ Tick => since'.calm <= since.calm + 1
      /\ ~ Tick => since'.calm = since.calm
      /\ since.calm > Period \/ (Tick /\ since.calm = Period)
  <2> DEFINE c == since.calm
             e == since'.calm
  <2>1. c \in Nat /\ e \in Nat /\ e <= CalmTime /\ e > Period /\ Period \in Nat /\ CalmTime \in Nat
    BY <1>0, <1>1
  <2>2. e = IF Tick /\ c + 1 <= CalmTime THEN c + 1 ELSE IF Tick THEN CalmTime ELSE c
    BY <1>2
  <2> HIDE DEF c, e
  <2>3. /\ Tick => e <= c + 1
        /\ ~ Tick => e = c
    BY <2>1, <2>2
  <2>4. c > Period \/ (Tick /\ c = Period)
    BY <2>1, <2>3
  <2> QED BY <2>3, <2>4 DEF c, e
<1>5. Calm /\ since.calm >= Period
  BY <1>0, <1>2, <1>4 DEF Calm
<1>6. Settled \/ (Tick /\ since.calm = Period)
  BY <1>1, <1>2, <1>4 DEF Settled
<1>7. Timed /\ Timed'
  <2>1. scenario.master = "audio" \/ scenario.master = "external"
    BY <1>0, <1>1, <1>2 DEF Budgets
  <2>2. scenario.master = "external" => clock["ext"].pts # NAN /\ clock'["ext"].pts # NAN
    <3>1. ExtInv'
      BY DEF HeldInv, ClocksInv
    <3> QED BY <1>a, <1>2, <1>3, <3>1 DEF ExtInv
  <2> QED BY <1>2, <2>1, <2>2 DEF Timed
<1>8. ~ RefreshWaits
  <2>1. RefreshWaits => RefreshIdle /\ Picture.serial = serial /\ NewTimer # frame_timer
    BY DEF RefreshWaits
  <2> QED BY <1>2, <2>1, DecideIs DEF Fresh
<1>9. Room(D)' = Room(D)
  BY <1>a, <1>2, RoomStep
<1> QED BY <1>0, <1>1, <1>2, <1>3, <1>4, <1>5, <1>6, <1>7, <1>8, <1>9 DEF Fresh

\* The offset of the picture on the screen from the clock, by the timer.
Off == shown.pts - frame_timer - Master

LEMMA NearTick ==
    ASSUME HeldInv, HeldInv', RefreshNext, NEW D \in Nat, DriftInv(D), NearInv(D), Room(D) <= D, Settled', Tick
    PROVE  NearInv(D)'
<1> DEFINE R == Room(D)
           S == Slack
           M == Master
           d == Picked - Master
           w == Off
           T == Aim(Picked - Master)
           l == clock["vid"].last_updated
           c == since.calm
           e == since'.calm
           extra == IF frame_timer < l THEN FrameTime ELSE 0
           n == Near
           limit == Ahead(D)
<1>a. /\ RefreshTypeOK /\ PicturesInv /\ SwitchesInv
  BY DEF HeldInv
<1>b. RoomInv(D) /\ AboveInv(D)
  BY DEF DriftInv
<1>0. /\ R \in Int /\ R >= Period + 2 * S /\ S \in Nat /\ Period \in Nat /\ FrameTime \in Nat
      /\ M \in Int /\ Picked \in Int /\ time \in Nat /\ frame_timer \in Int /\ l \in Nat /\ l <= time
      /\ shown.pts \in Nat /\ clock["vid"].pts \in Int
  BY <1>b, DistancesAre
<1>1. d \in Int /\ w \in Int /\ R <= D
  BY <1>0 DEF Off
<1>2. /\ Settled \/ c = Period
      /\ Calm /\ c >= Period /\ AllDone /\ scenario.master # "video"
      /\ ~ switches.step /\ ~ switches.paused /\ Timed /\ Fresh
      /\ e \in Nat /\ c \in Nat /\ e <= c + 1
  BY SettledBefore
<1>3. /\ time < frame_timer + T /\ T \in Nat /\ (T <= 2 * FrameTime \/ T <= FrameTime + d) /\ refresh = "idle"
  <2>1. TargetDelay(FrameTime) = T
    BY <1>0, <1>2, AimIs
  <2>2. time < frame_timer + TargetDelay(FrameTime) /\ refresh = "idle"
    BY <1>2, AllDoneIs DEF RefreshIdle
  <2> QED BY <1>1, <2>1, <2>2, AimBounds
<1>4. w <= d + (l - frame_timer) /\ frame_timer <= time
  <2>1. shown.pts <= clock["vid"].pts /\ frame_timer <= time /\ Picked = clock["vid"].pts - l
    BY <1>2, <1>3, TimerIs DEF Picked, Stands
  <2> QED BY <1>0, <2>1 DEF Off
<1>5. Lesser(shown.pts - frame_timer, Picked + S) - M <= R
  <2>1. ~ Deciding
    BY <1>3 DEF Deciding
  <2> QED BY <1>2, <1>b, <2>1 DEF AboveInv
<1>6. w <= R \/ d + S <= R
  BY <1>0, <1>1, <1>5 DEF Lesser, Off
<1>7. /\ time' = time + 1 /\ frame_timer' = frame_timer /\ clock' = clock /\ shown' = shown /\ refresh' = "idle"
      /\ Master' = M /\ Picked' = Picked
  <2>1. ~ switches.aout_paused
    BY <1>2, <1>a, SwitchFields DEF SwitchesInv
  <2>2. Master' = M /\ Picked' = Picked
    BY <1>2, <1>a, <2>1, OffsetsAfterTick
  <2> QED BY <1>3, <2>2 DEF Tick
<1>8. Settled => w <= n \/ 2 * w - (time - frame_timer) + c + extra <= limit
  BY <1>3 DEF NearInv, Off
<1>9. extra \in Nat /\ extra <= FrameTime /\ n \in Int /\ limit = 3 * D + 3 * FrameTime + Period + 1
  BY <1>0, ThresholdBelow DEF Ahead
<1>f. Aim(Picked - Master)' = T
  <2>1. (Picked - Master)' = Picked - Master
    BY <1>7
  <2> QED BY <2>1 DEF Aim, SyncThreshold
<1>g. /\ Off' = w /\ Near' = n /\ Ahead(D)' = limit /\ refresh' # "shows"
      /\ (IF frame_timer < clock["vid"].last_updated THEN FrameTime ELSE 0)' = extra
  BY <1>7 DEF Off, Near, Ahead
<1>i. since'.calm = e
  OBVIOUS
<1> HIDE DEF R, S, M, d, w, T, l, c, e, extra, n, limit, Off, Slack
<1>10. time + 1 <= frame_timer + T
  BY <1>0, <1>3
<1>11. Settled => (w <= n \/ 2 * w - (time + 1 - frame_timer) + e + extra <= limit)
  <2> SUFFICES ASSUME Settled PROVE w <= n \/ 2 * w - (time + 1 - frame_timer) + e + extra <= limit
    OBVIOUS
  <2>1. w <= n \/ 2 * w - (time + 1 - frame_timer) + e + extra <= limit
    BY <1>0, <1>1, <1>2, <1>8, <1>9
  <2> QED BY <2>1
<1>12. c = Period => (w <= n \/ 2 * w - (time + 1 - frame_timer) + e + extra <= limit)
  <2> SUFFICES ASSUME c = Period PROVE w <= n \/ 2 * w - (time + 1 - frame_timer) + e + extra <= limit
    OBVIOUS
  <2> DEFINE g == time - frame_timer
  <2>1. g \in Int /\ g >= 0 /\ g < T /\ l - frame_timer <= g /\ time + 1 - frame_timer = g + 1
    BY <1>0, <1>3, <1>4
  <2> HIDE DEF g
  <2>2. R >= 0
    BY <1>0
  <2>3. 2 * w - (g + 1) <= 3 * D + 2 * FrameTime
    <3>1. CASE w <= R
      BY <1>0, <1>1, <2>1, <2>2, <3>1
    <3>2. CASE d + S <= R
      <4>1. w <= d + g
        BY <1>0, <1>1, <1>4, <2>1
      <4>2. d <= D /\ D >= 0
        BY <1>0, <1>1, <3>2
      <4>3. 2 * w - (g + 1) <= 2 * d + g
        BY <1>1, <2>1, <4>1
      <4>4. g <= 2 * FrameTime \/ g <= FrameTime + d
        BY <1>0, <1>1, <1>3, <2>1
      <4> QED BY <1>0, <1>1, <2>1, <4>2, <4>3, <4>4
    <3> QED BY <1>6, <3>1, <3>2
  <2>4. 2 * w - (g + 1) + e + extra <= limit
    BY <1>0, <1>1, <1>2, <1>9, <2>1, <2>3
  <2> QED BY <2>1, <2>4
<1>13. time' <= frame_timer' + Aim(Picked - Master)'
  BY <1>7, <1>f, <1>10
<1>14. w <= n \/ 2 * w - (time + 1 - frame_timer) + e + extra <= limit
  BY <1>2, <1>11, <1>12
<1>15. Off' <= Near' \/ 2 * Off' - (time' - frame_timer') + since'.calm
          + (IF frame_timer < clock["vid"].last_updated THEN FrameTime ELSE 0)' <= Ahead(D)'
  <2>1. time' - frame_timer' = time + 1 - frame_timer
    BY <1>0, <1>7
  <2> DEFINE x == Off'
             y == (IF frame_timer < clock["vid"].last_updated THEN FrameTime ELSE 0)'
             p == Near'
             q == Ahead(D)'
             f == since'.calm
             g == time' - frame_timer'
  <2>2. x = w /\ y = extra /\ p = n /\ q = limit /\ f = e
    BY <1>g, <1>i
  <2> HIDE DEF x, y, p, q, f, g
  <2>3. x <= p \/ 2 * x - g + f + y <= q
    BY <1>14, <2>1, <2>2 DEF g
  <2> QED BY <2>3 DEF x, y, p, q, f, g
<1> QED BY <1>7, <1>13, <1>15 DEF NearInv, Off

LEMMA NearDecides ==
    ASSUME HeldInv, HeldInv', RefreshNext, NEW D \in Nat, DriftInv(D), NearInv(D), Room(D) <= D, D < NoSync,
           Settled', RefreshDecides
    PROVE  NearInv(D)'
<1> DEFINE R == Room(D)
           S == Slack
           M == Master
           d == Picked - Master
           w == Off
           T == Aim(Picked - Master)
           l == clock["vid"].last_updated
           c == since.calm
           extra == IF frame_timer < l THEN FrameTime ELSE 0
           n == Near
           limit == Ahead(D)
           W == Picture.pts - time - Master
<1>a. /\ RefreshTypeOK /\ PicturesInv /\ SwitchesInv /\ ClocksInv
  BY DEF HeldInv
<1>b. RoomInv(D) /\ AboveInv(D)
  BY DEF DriftInv
<1>0. /\ R \in Int /\ R >= Period + 2 * S /\ S \in Nat /\ Period \in Nat /\ FrameTime \in Nat /\ ThresholdMax \in Nat
      /\ M \in Int /\ Picked \in Int /\ time \in Nat /\ frame_timer \in Int /\ l \in Nat /\ l <= time
      /\ shown.pts \in Nat /\ clock["vid"].pts \in Int /\ NoSync \in Nat
  BY <1>b, DistancesAre, ConstantFacts
<1>1. d \in Int /\ w \in Int /\ R <= D
  BY <1>0 DEF Off
<1>c. ~ Tick
  <2>1. refresh' # refresh
    BY DEF RefreshDecides, PictureDue, RefreshIdle
  <2> QED BY <2>1 DEF Tick
<1>2. /\ Settled /\ Calm /\ scenario.master # "video" /\ since.calm > Period
      /\ ~ switches.step /\ ~ switches.paused /\ Timed /\ Fresh
      /\ c \in Nat /\ since'.calm = c
  BY <1>c, SettledBefore DEF Settled
<1>3. /\ RefreshIdle /\ Picture.serial = serial /\ time >= NewTimer + Delay /\ refresh = "idle"
      /\ frame_timer' = IF Delay > 0 /\ time - (NewTimer + Delay) > ThresholdMax THEN time ELSE NewTimer + Delay
      /\ pictures' = pictures /\ refresh' = "shows" /\ time' = time
  BY DEF RefreshDecides, PictureDue, RefreshIdle
<1>4. /\ NewTimer = frame_timer /\ Delay = T /\ Picture.pts = shown.pts + FrameTime
  <2>1. TargetDelay(FrameTime) = T
    BY <1>2, AimIs
  <2> QED BY <1>2, <1>3, <2>1, DecideIs
<1>5. /\ T \in Nat
      /\ T < FrameTime => d <= 0 /\ T = IF FrameTime + d >= 0 THEN FrameTime + d ELSE 0
      /\ d > n /\ d < NoSync => T >= 2 * FrameTime
  BY <1>1, AimBounds
<1>6. /\ time <= frame_timer + T
      /\ w <= n \/ 2 * w - (time - frame_timer) + c + extra <= limit
  BY <1>2, <1>3 DEF NearInv, Off
<1>7. /\ w <= d + (l - frame_timer) /\ frame_timer <= l /\ (frame_timer = l => w = d)
  <2>1. /\ shown.pts <= clock["vid"].pts /\ frame_timer <= l /\ Picked = clock["vid"].pts - l
        /\ shown.pts - frame_timer >= clock["vid"].pts - l
    BY <1>2, <1>3, TimerIs DEF Picked, Stands
  <2>2. w <= d + (l - frame_timer)
    BY <1>0, <2>1 DEF Off
  <2>3. frame_timer = l => w >= d
    BY <1>0, <2>1 DEF Off
  <2> HIDE DEF w, d, l
  <2> QED BY <1>0, <1>1, <2>1, <2>2, <2>3
<1>8. w <= R \/ d + S <= R
  <2>1. Lesser(shown.pts - frame_timer, Picked + S) - M <= R
    <3>1. ~ Deciding
      BY <1>3 DEF Deciding
    <3> QED BY <1>2, <1>b, <3>1 DEF AboveInv
  <2> QED BY <1>0, <1>1, <2>1 DEF Lesser, Off
<1>9. extra \in Nat /\ (frame_timer < l => extra = FrameTime) /\ n \in Nat /\ n >= FrameTime /\ limit \in Int
  BY <1>0, ThresholdBelow DEF Ahead
<1>10. time = frame_timer + T /\ frame_timer' = time
  <2>1. time = frame_timer + T
    BY <1>0, <1>3, <1>4, <1>5, <1>6
  <2>2. ~ (time - (frame_timer + T) > ThresholdMax)
    BY <1>0, <2>1
  <2> QED BY <1>3, <1>4, <2>1, <2>2
<1>11. W = w + FrameTime - T /\ W \in Int
  BY <1>0, <1>4, <1>5, <1>10 DEF Off
<1>12. Picture' = Picture /\ Master' = Master
  <2>1. Picture' = Picture
    BY <1>3 DEF Picture
  <2> QED BY <1>2, <1>a, <2>1, OffsetsStay
<1> SUFFICES W <= n \/ 2 * W + c <= limit
  BY <1>2, <1>3, <1>10, <1>12 DEF NearInv, Near, Ahead
<1> HIDE DEF R, S, M, d, w, T, l, c, extra, n, limit, W, Off, Slack
<1>13. CASE T < FrameTime
  <2>1. W <= d + (l - frame_timer) + FrameTime - T
    BY <1>0, <1>1, <1>5, <1>7, <1>11
  <2>2. l - frame_timer <= T
    BY <1>0, <1>5, <1>10
  <2>3. W <= FrameTime
    <3>1. CASE FrameTime + d >= 0
      <4>1. T = FrameTime + d
        BY <1>5, <1>13, <3>1
      <4> QED BY <1>0, <1>1, <1>5, <1>11, <1>13, <2>1, <2>2, <4>1
    <3>2. CASE ~ (FrameTime + d >= 0)
      <4>1. T = 0
        BY <1>5, <1>13, <3>2
      <4> QED BY <1>0, <1>1, <1>5, <1>11, <2>1, <2>2, <3>2, <4>1
    <3> QED BY <3>1, <3>2
  <2> QED BY <1>0, <1>9, <1>11, <2>3
<1>14. CASE T >= FrameTime /\ w <= n
  BY <1>0, <1>1, <1>5, <1>9, <1>11, <1>14
<1>15. CASE T >= FrameTime /\ w > n
  <2>1. 2 * w - T + c + extra <= limit
    BY <1>0, <1>1, <1>5, <1>6, <1>9, <1>10, <1>15
  <2>2. 2 * FrameTime - T <= extra
    <3>1. CASE frame_timer < l
      BY <1>0, <1>5, <1>9, <1>15, <3>1
    <3>2. CASE frame_timer = l
      <4>1. d > n
        BY <1>7, <1>15, <3>2
      <4>2. d <= R
        BY <1>0, <1>1, <1>7, <1>8, <3>2
      <4>3. d < NoSync
        BY <1>0, <1>1, <4>2
      <4>4. T >= 2 * FrameTime
        BY <1>5, <4>1, <4>3
      <4> QED BY <1>0, <1>5, <1>9, <4>4
    <3> QED BY <1>0, <1>7, <3>1, <3>2
  <2>3. 2 * W + c = 2 * w + 2 * FrameTime - 2 * T + c
    BY <1>0, <1>1, <1>2, <1>5, <1>11
  <2>4. 2 * W + c <= limit
    BY <1>0, <1>1, <1>2, <1>5, <1>9, <2>1, <2>2, <2>3
  <2> QED BY <2>4
<1> QED BY <1>0, <1>1, <1>5, <1>9, <1>13, <1>14, <1>15

LEMMA NearShows ==
    ASSUME HeldInv, HeldInv', RefreshNext, NEW D \in Nat, DriftInv(D), NearInv(D), Room(D) <= D, Settled', RefreshShows
    PROVE  NearInv(D)'
<1> DEFINE W == Picture.pts - frame_timer - Master
           O == Picked'
           N == Master'
           M == Master
           c == since.calm
           limit == Ahead(D)
           n == Near
<1>a. /\ RefreshTypeOK /\ PicturesInv /\ ClocksInv
  BY DEF HeldInv
<1>0. /\ M \in Int /\ N \in Int /\ O \in Int /\ time \in Nat /\ frame_timer \in Int /\ Picture.pts \in Nat
      /\ refresh = "shows"
  BY DistancesAre DEF DriftInv, RefreshShows
<1>1. /\ Settled /\ since.calm \in Nat /\ since'.calm = c /\ Timed /\ Timed' /\ Fresh
  <2>1. ~ Tick
    BY DEF RefreshShows, Tick
  <2> QED BY <2>1, SettledBefore
<1>2. /\ frame_timer = time /\ (W <= n \/ 2 * W + c <= limit) /\ W \in Int
  BY <1>0, <1>1 DEF NearInv
<1>3. Picture.serial = serial /\ Picture.pts = shown.pts + FrameTime
  <2>1. Deciding
    BY <1>0, <1>1 DEF Deciding
  <2> QED BY <2>1, DecidingIs
<1>4. /\ O = Picture.pts - time /\ time' = time /\ frame_timer' = frame_timer /\ (N = M \/ N = O)
  BY <1>a, <1>1, OffsetsAfterPicture
<1>5. shown' = Picture /\ refresh' # "shows" /\ clock'["vid"].last_updated = time
  <2>1. shown' = Picture /\ refresh' # "shows"
    BY DEF RefreshShows, TakePicture
  <2>2. clock'["vid"].last_updated = time
    BY <1>a, ClocksAfterPicture DEF ClocksInv
  <2> QED BY <2>1, <2>2
<1>6. Aim(O - N) \in Nat /\ limit \in Int /\ n \in Nat
  <2>1. O - N \in Int
    BY <1>0
  <2>2. limit \in Int
    BY ConstantFacts DEF Ahead
  <2> QED BY <2>1, <2>2, AimBounds, ThresholdBelow
<1>7. /\ Aim(Picked - Master)' = Aim(O - N) /\ Near' = n /\ Ahead(D)' = limit
      /\ Off' = Picture.pts - frame_timer - N
      /\ (IF frame_timer < clock["vid"].last_updated THEN FrameTime ELSE 0)' = 0
  <2>1. Off' = Picture.pts - frame_timer - N
    BY <1>4, <1>5 DEF Off
  <2>2. (IF frame_timer < clock["vid"].last_updated THEN FrameTime ELSE 0)' = 0
    BY <1>0, <1>2, <1>4, <1>5
  <2>3. Aim(Picked - Master)' = Aim(O - N)
    BY DEF Aim, SyncThreshold
  <2> QED BY <2>1, <2>2, <2>3 DEF Near, Ahead
<1> DEFINE v == Picture.pts - frame_timer - N
           T == Aim(O - N)
<1>8. v \in Int /\ (v = W \/ v <= n)
  BY <1>0, <1>2, <1>4, <1>6
<1> HIDE DEF W, O, N, M, c, limit, n, v, T
<1>9. time <= frame_timer + T
  BY <1>0, <1>2, <1>6 DEF T
<1>10. v <= n \/ 2 * v - (time - frame_timer) + c + 0 <= limit
  BY <1>0, <1>1, <1>2, <1>6, <1>8 DEF c
<1>11. time' <= frame_timer' + Aim(Picked - Master)'
  BY <1>4, <1>7, <1>9 DEF T
<1>12. Off' <= Near' \/ 2 * Off' - (time' - frame_timer') + since'.calm
          + (IF frame_timer < clock["vid"].last_updated THEN FrameTime ELSE 0)' <= Ahead(D)'
  BY <1>1, <1>4, <1>7, <1>10 DEF v
<1> QED BY <1>5, <1>11, <1>12 DEF NearInv, Off

LEMMA NearStep ==
    ASSUME HeldInv, HeldInv', RefreshNext, NEW D \in Nat, DriftInv(D), NearInv(D), Room(D) <= D, D < NoSync
    PROVE  NearInv(D)'
<1> SUFFICES ASSUME Settled' PROVE NearInv(D)'
  BY DEF NearInv
<1>1. CASE Tick
  BY <1>1, NearTick
<1>2. CASE RefreshDecides
  BY <1>2, NearDecides
<1>3. CASE RefreshShows
  BY <1>3, NearShows
<1>4. CASE Decode \/ PushText \/ SoundBegins \/ SoundEnds \/ RefreshDisplays
  <2>a. /\ RefreshTypeOK /\ SwitchesInv /\ ClocksInv /\ PicturesInv
    BY DEF HeldInv
  <2>0. ~ Tick
    <3>1. time' = time /\ time \in Nat
      BY <1>4, <2>a, StateFields DEF Decode, PushText, SoundBegins, SoundEnds, RefreshDisplays
    <3> QED BY <3>1 DEF Tick
  <2>1. /\ Settled /\ since'.calm = since.calm /\ Timed /\ Fresh /\ ~ switches.step /\ ~ switches.paused
        /\ ~ Toggle
    BY <2>0, SettledBefore
  <2>2. /\ Master' = Master /\ Picked' = Picked /\ time' = time /\ shown' = shown /\ frame_timer' = frame_timer
        /\ (refresh' = "shows" <=> refresh = "shows")
        /\ (refresh = "shows" => Picture' = Picture)
    <3>1. CASE Decode \/ PushText \/ SoundBegins \/ SoundEnds
      <4>1. Deciding <=> refresh = "shows"
        BY <2>1 DEF Deciding
      <4> QED BY <2>1, <3>1, <4>1, DistancesStay
    <3>2. CASE RefreshDisplays
      <4>1. Master' = Master /\ Picked' = Picked
        BY <2>a, <2>1, <3>2, OffsetsAfterSwitches
      <4>2. /\ time' = time /\ shown' = shown /\ frame_timer' = frame_timer /\ refresh # "shows"
            /\ refresh' # "shows"
        BY <2>1, <3>2 DEF RefreshDisplays
      <4> QED BY <4>1, <4>2
    <3> QED BY <1>4, <3>1, <3>2
  <2>3. clock'["vid"].last_updated = clock["vid"].last_updated
    <3>1. CASE Decode \/ PushText \/ SoundBegins
      BY <3>1 DEF Decode, PushText, SoundBegins
    <3>2. CASE SoundEnds
      BY <2>a, <3>2, ClocksAfterSound DEF ClocksInv
    <3>3. CASE RefreshDisplays
      BY <2>1, <3>3 DEF RefreshDisplays
    <3> QED BY <1>4, <3>1, <3>2, <3>3
  <2>4. Aim(Picked - Master)' = Aim(Picked - Master)
    <3>1. (Picked - Master)' = Picked - Master
      BY <2>2
    <3> QED BY <3>1 DEF Aim, SyncThreshold
  <2>5. Off' = Off /\ Near' = Near /\ Ahead(D)' = Ahead(D)
    BY <2>2 DEF Off, Near, Ahead
  <2>6. CASE refresh = "shows"
    BY <2>1, <2>2, <2>5, <2>6 DEF NearInv
  <2>7. CASE refresh # "shows"
    <3>1. /\ time' <= frame_timer' + Aim(Picked - Master)'
          /\ \/ Off' <= Near'
             \/ 2 * Off' - (time' - frame_timer') + since'.calm
                 + (IF frame_timer' < clock'["vid"].last_updated THEN FrameTime ELSE 0) <= Ahead(D)'
      BY <2>1, <2>2, <2>3, <2>4, <2>5, <2>7 DEF NearInv, Off
    <3> QED BY <2>2, <2>7, <3>1 DEF NearInv, Off
  <2> QED BY <2>6, <2>7
<1>5. ~ Toggle /\ ~ (\E t \in {0, FrameTime} : Jump(t)) /\ ~ RefreshSkipsOld /\ ~ RefreshWaits
  BY SettledBefore
<1> QED BY <1>1, <1>2, <1>3, <1>4, <1>5 DEF RefreshNext, RefreshThread

LEMMA DriftInit ==
    ASSUME RefreshInit, NEW D \in Nat, LongCalm(D)
    PROVE  DriftInv(D) /\ NearInv(D)
<1>1. /\ time = 0 /\ serial = 1 /\ seek_pos = 0 /\ scenario \in Scenarios
      /\ clock = [c \in Clocks |-> ClockAt(NAN, -1, 0)]
      /\ shown = [pts |-> 0, serial |-> 0] /\ refresh = "idle"
      /\ upcoming = [pts |-> 0, sound |-> 0, text |-> 0]
      /\ sound = [pc |-> "idle", clock |-> NAN, serial |-> 0, at |-> 0, wait |-> 0]
      /\ since = [calm |-> 0, moved |-> 0, slipped |-> FALSE]
  BY DEF RefreshInit
<1>2. /\ Period \in Nat /\ FrameTime \in Nat /\ Slack \in Nat /\ Slack > FrameTime
      /\ scenario.late + Slack * scenario.togglings \in Nat
      /\ scenario.late \in Nat /\ Slack * scenario.togglings \in Nat
  <2>1. scenario \in Budgets
    BY <1>1, ConstantFacts
  <2>2. Slack * scenario.togglings \in Nat
    BY <2>1, SlackIs, DriftIs, Multiples
  <2> QED BY <2>1, <2>2, ConstantFacts, SlackIs, DriftIs
<1>3. Period + 2 * Slack + scenario.late + Slack * scenario.togglings <= D
  BY <1>1 DEF LongCalm
<1>4. Room(D) \in Int /\ Room(D) >= Period + 2 * Slack
  <2> DEFINE u == Slack * scenario.togglings
             l == scenario.late
  <2>1. Room(D) = D - (l + u)
    BY DEF Room, Drift, Slack
  <2>2. /\ Period + 2 * Slack + l + u <= D /\ l \in Nat /\ u \in Nat
    BY <1>2, <1>3
  <2> HIDE DEF u, l, Slack
  <2> QED BY <1>2, <2>1, <2>2
<1>5. ~ Fresh /\ ~ Deciding
  BY <1>1 DEF Fresh, Deciding
<1>6. Timed => Master = 0
  <2>1. clock["ext"].pts = NAN
    BY <1>1 DEF Clocks, ClockAt
  <2>2. NextOffset = 0
    BY <1>1 DEF NextOffset
  <2> QED BY <2>1, <2>2 DEF Timed, Master
<1> HIDE DEF Slack, Room
<1>7. AboveInv(D)
  <2>1. Timed => seek_pos - time + Slack - Master <= Room(D)
    BY <1>1, <1>2, <1>4, <1>6
  <2> QED BY <1>5, <2>1 DEF AboveInv
<1>8. BelowInv(D)
  <2>1. Timed => seek_pos - time - Master - FrameTime >= - Room(D)
    BY <1>1, <1>2, <1>4, <1>6
  <2> QED BY <1>5, <2>1 DEF BelowInv
<1>9. HeardInv(D)
  <2>1. clock["aud"].serial # serial /\ sound.pc = "idle"
    BY <1>1 DEF Clocks, ClockAt
  <2> QED BY <2>1 DEF HeardInv
<1>10. ~ Settled
  BY <1>1, <1>2 DEF Settled
<1> QED BY <1>4, <1>7, <1>8, <1>9, <1>10 DEF DriftInv, RoomInv, NearInv

LEMMA RoomBelow ==
    ASSUME RefreshTypeOK, NEW D \in Nat
    PROVE  Room(D) <= D
<1>1. scenario \in Budgets
  BY DEF RefreshTypeOK
<1>2. Drift \in Nat
  BY <1>1, DriftIs DEF Drift
<1> QED BY <1>2 DEF Room

LEMMA DriftStep ==
    ASSUME HeldInv, HeldInv', RefreshNext, NEW D \in Nat, D < NoSync, DriftInv(D), NearInv(D)
    PROVE  DriftInv(D)' /\ NearInv(D)'
<1>1. RoomInv(D) /\ AboveInv(D) /\ BelowInv(D) /\ HeardInv(D)
  BY DEF DriftInv
<1>2. RoomInv(D)' /\ AboveInv(D)' /\ BelowInv(D)' /\ HeardInv(D)'
  BY <1>1, RoomInvStep, AboveStep, BelowStep, HeardStep
<1>3. Room(D) <= D
  BY RoomBelow DEF HeldInv
<1> QED BY <1>2, <1>3, NearStep DEF DriftInv

\* Where the player has been calm for so long the picture is near the clock.
LEMMA NearIsInStep ==
    ASSUME HeldInv, NEW D \in Nat, LongCalm(D), DriftInv(D), NearInv(D)
    PROVE  InStep
<1> DEFINE diff == GetClock("vid") - GetClock(MasterClock)
           n == Near
<1> SUFFICES ASSUME since.calm = CalmTime, ~ switches.paused, AllDone
             PROVE  - n <= diff /\ diff <= n
  BY DEF InStep, Near
<1>a. /\ RefreshTypeOK /\ InTime /\ CalmTime \in Nat /\ CalmTime > 0 /\ Period \in Nat
      /\ NoSync \in Nat /\ D < NoSync /\ FrameTime \in Nat
  BY ConstantFacts DEF HeldInv, ClocksInv, LongCalm
<1>n. n \in Nat
  BY ThresholdBelow
<1>1. CASE scenario.master = "video"
  <2>1. GetClock("vid") \in Int /\ MasterClock = "vid"
    <3>1. Nat \cup {NAN} \subseteq Int
      BY DEF NAN
    <3> QED BY <1>a, <1>1, <3>1, ReadsIs, MasterIs DEF Clocks
  <2>2. diff = 0
    BY <2>1
  <2> QED BY <1>n, <2>2
<1>2. CASE scenario.master # "video"
  <2> DEFINE d == Picked - Master
             w == Off
             T == Aim(Picked - Master)
             g == time - frame_timer
             extra == IF frame_timer < clock["vid"].last_updated THEN FrameTime ELSE 0
  <2>1. CalmTime > Period /\ CalmTime >= Ahead(D) /\ Ahead(D) \in Int
    <3>1. Ahead(D) \in Int /\ Ahead(D) > Period
      BY <1>a DEF Ahead
    <3> QED BY <1>a, <3>1 DEF LongCalm
  <2>2. Calm /\ Settled
    BY <1>2, <1>a, <2>1 DEF Calm, Settled
  <2>3. Timed /\ Fresh /\ diff = d /\ TargetDelay(FrameTime) = T
    BY <1>2, <2>1, <2>2, AimIs
  <2>4. refresh = "idle" /\ time < frame_timer + T
    BY <2>3, AllDoneIs DEF RefreshIdle
  <2>5. /\ d \in Int /\ w \in Int /\ g \in Int /\ Room(D) \in Int /\ extra \in Nat
        /\ time \in Nat /\ frame_timer \in Int
    <3>1. /\ Master \in Int /\ Picked \in Int /\ Room(D) \in Int /\ time \in Nat
          /\ shown.pts \in Nat /\ frame_timer \in Int
      BY <1>a, OffsetFields
    <3> QED BY <1>a, <3>1 DEF Off
  <2>6. /\ T \in Nat
        /\ d < - n /\ - d < NoSync => T = 0
        /\ d > n => T <= 2 * d
    BY <2>5, AimBounds
  <2>7. w >= d /\ frame_timer <= time
    <3>1. /\ Master \in Int /\ Picked \in Int /\ shown.pts \in Nat /\ frame_timer \in Int
      BY <1>a, OffsetFields
    <3>2. shown.pts - frame_timer >= clock["vid"].pts - clock["vid"].last_updated /\ frame_timer <= time
      BY <2>3, <2>4, TimerIs
    <3>3. shown.pts - frame_timer >= Picked
      BY <3>2 DEF Picked, Stands
    <3> QED BY <3>1, <3>2, <3>3 DEF Off
  <2>8. w <= n \/ 2 * w - g + CalmTime + extra <= Ahead(D)
    BY <2>2, <2>4 DEF NearInv, Off
  <2>9. d >= - Room(D) /\ Room(D) <= D
    BY <2>3, RoomBelow DEF DriftInv, BelowInv, HeldInv
  <2> HIDE DEF diff, n, d, w, T, extra
  <2>10. d <= n
    <3> SUFFICES ASSUME d > n PROVE FALSE
      BY <1>n, <2>5
    <3>1. T <= 2 * d
      BY <2>6
    <3>2. g < T
      BY <2>4, <2>5, <2>6
    <3> HIDE DEF g
    <3>3. 2 * w <= g
      BY <1>a, <1>n, <2>1, <2>5, <2>7, <2>8
    <3> QED BY <2>5, <2>6, <2>7, <3>1, <3>2, <3>3
  <2>11. - n <= d
    <3> SUFFICES ASSUME d < - n PROVE FALSE
      BY <1>n, <2>5
    <3>1. - d < NoSync
      BY <1>a, <2>5, <2>9
    <3> QED BY <2>4, <2>5, <2>6, <2>7, <3>1
  <2> QED BY <2>3, <2>10, <2>11
<1> QED BY <1>1, <1>2

\* When nothing disturbs the threads for a while, the picture is as close to the
\* master clock as the thresholds want it (compute_target_delay, video_refresh):
\* if the late ticks and the pauses there may be leave it within NoSync, the
\* distance is made up for, half a tick with every tick.
THEOREM InStepHolds ==
    ASSUME NEW D \in Nat, LongCalm(D)
    PROVE  RefreshSpec => []InStep
<1>1. RefreshInit => DriftInv(D) /\ NearInv(D)
  BY DriftInit
<1>2. HeldInv /\ HeldInv' /\ DriftInv(D) /\ NearInv(D) /\ [RefreshNext]_refreshVars
        => DriftInv(D)' /\ NearInv(D)'
  <2> SUFFICES ASSUME HeldInv, HeldInv', DriftInv(D), NearInv(D), [RefreshNext]_refreshVars
               PROVE  DriftInv(D)' /\ NearInv(D)'
    OBVIOUS
  <2>1. CASE RefreshNext
    <3>1. D < NoSync
      BY DEF LongCalm
    <3> QED BY <2>1, <3>1, DriftStep
  <2>2. CASE UNCHANGED refreshVars
    <3>1. DriftInv(D)' = DriftInv(D)
      BY <2>2 DEF refreshVars, DriftInv, RoomInv, AboveInv, BelowInv, HeardInv, Room, Drift, Slack, Master, Picked,
          Stands, Timed, Fresh, Deciding, Lesser, NextOffset, Picture
    <3>2. NearInv(D)' = NearInv(D)
      BY <2>2 DEF refreshVars, NearInv, Settled, Near, Ahead, Aim, SyncThreshold, Master, Picked,
          Stands, NextOffset, Picture
    <3> QED BY <3>1, <3>2
  <2> QED BY <2>1, <2>2
<1>3. HeldInv /\ DriftInv(D) /\ NearInv(D) => InStep
  BY NearIsInStep
<1> QED BY <1>1, <1>2, <1>3, HeldInvHolds, PTL DEF RefreshSpec

\* The picture and the text on the screen follow the master clock, on the same
\* condition.
THEOREM ScreenFollowsClockHolds ==
    ASSUME NEW D \in Nat, LongCalm(D)
    PROVE  RefreshSpec => []ScreenFollowsClock
<1>1. InStep /\ TextInTime => ScreenFollowsClock
  BY DEF ScreenFollowsClock
<1>2. RefreshSpec => []InStep
  BY InStepHolds
<1> QED BY <1>1, <1>2, TextInTimeHolds, PTL
===============================================================================
