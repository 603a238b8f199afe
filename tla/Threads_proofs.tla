--------------------------- MODULE Threads_proofs ---------------------------
(***************************************************************************)
(* Proofs about the two structures that hold what threads hand over:       *)
(* FrameQueue, for rings of every size, and then ThreadPool, for any       *)
(* number of workers, size of the ring and number of tasks.                *)
(***************************************************************************)
EXTENDS FrameQueue, ThreadPool, SequenceTheorems, FiniteSetTheorems, TLAPS

-----------------------------------------------------------------------------
(***************************************************************************)
(* The frame queue.                                                        *)
(*                                                                         *)
(* The indices are positions on a ring, so everything is said in offsets   *)
(* from rindex: Slot(0) is the oldest slot, the slots in use are those at  *)
(* the offsets below Occupied, and windex is the slot at offset Occupied.  *)
(* Size lags behind the indices while a push or a next is under way.       *)
(***************************************************************************)

Occupied == size - (IF reader = "shrink" THEN 1 ELSE 0)
                 + (IF writer = "grow" THEN 1 ELSE 0)

\* The two ends of the ring and the count agree.
RingInv ==
    /\ Occupied \in 0 .. MaxSize
    /\ windex = Slot(Occupied)
    /\ rindex_shown <= size

\* A thread past the wait in peek_writable or peek_readable has what it
\* waited for: only the other thread could take it away, and never does.
WriterInv ==
    /\ writer = "peeked" => size < MaxSize \/ abort_request
    /\ writer \in {"fill", "push", "grow"} => size < MaxSize

ReaderInv ==
    /\ reader = "peeked" => Remaining > 0 \/ abort_request
    /\ reader \in {"look", "advance", "shrink"} => Remaining > 0
    /\ reader \in {"advance", "shrink"} => (KeepLast => rindex_shown = 1)

CloserInv == abort_request <=> closer # "open"

\* The slots in use hold consecutive frames; the last of them is pushed, or
\* is about to be counted.
ContentInv ==
    /\ \A i \in Dropped .. Occupied - 1 :
          queue[Slot(i)] = taken + i + 1 - rindex_shown - Dropped
    /\ writer = "push" => queue[windex] = pushed + 1
    /\ pushed = taken + size - Leaving - rindex_shown

IndexInv == TypeOK /\ RingInv /\ WriterInv /\ ReaderInv /\ CloserInv
IInv == IndexInv /\ ContentInv /\ NoLostWakeup

-----------------------------------------------------------------------------
(***************************************************************************)
(* Arithmetic on the ring.                                                 *)
(***************************************************************************)
\* The slot i places after slot r, without the modulus.
LEMMA SlotValue ==
    ASSUME NEW r \in Slots, NEW i \in 0 .. MaxSize
    PROVE  /\ (r + i) % MaxSize = IF r + i < MaxSize THEN r + i ELSE r + i - MaxSize
           /\ (r + i) % MaxSize \in Slots
  <1>1. MaxSize \in Nat \ {0} /\ r \in 0 .. MaxSize - 1
    BY QueueAssumption DEF Slots
  <1>2. SUFFICES ASSUME NEW a \in 0 .. 2 * MaxSize - 1, a = r + i
                 PROVE  a % MaxSize = IF a < MaxSize THEN a ELSE a - MaxSize
    BY <1>1 DEF Slots
  <1>3. QED  BY <1>1

\* Advancing an index by one, as push and next do, is one place on the ring.
LEMMA AfterSlot ==
    ASSUME NEW r \in Slots, NEW i \in 0 .. MaxSize - 1
    PROVE  /\ After((r + i) % MaxSize) = (r + (i + 1)) % MaxSize
           /\ After(r) \in Slots
           /\ (After(r) + i) % MaxSize = (r + (i + 1)) % MaxSize
  <1>1. MaxSize \in Nat \ {0} /\ i \in 0 .. MaxSize /\ i + 1 \in 0 .. MaxSize
    BY QueueAssumption
  <1>2. After(r) \in Slots
    BY <1>1 DEF After, Slots
  <1>3. (r + i) % MaxSize = IF r + i < MaxSize THEN r + i ELSE r + i - MaxSize
    BY <1>1, SlotValue
  <1>4. (r + (i + 1)) % MaxSize = IF r + (i + 1) < MaxSize THEN r + (i + 1)
                                                           ELSE r + (i + 1) - MaxSize
    BY <1>1, SlotValue
  <1>5. (After(r) + i) % MaxSize = IF After(r) + i < MaxSize THEN After(r) + i
                                                             ELSE After(r) + i - MaxSize
    BY <1>1, <1>2, SlotValue
  <1>6. QED  BY <1>1, <1>2, <1>3, <1>4, <1>5 DEF After, Slots

\* Different offsets below MaxSize are different slots.
LEMMA SlotInjective ==
    ASSUME NEW r \in Slots, NEW i \in 0 .. MaxSize - 1, NEW j \in 0 .. MaxSize - 1,
           (r + i) % MaxSize = (r + j) % MaxSize
    PROVE  i = j
  <1>1. MaxSize \in Nat \ {0} /\ i \in 0 .. MaxSize /\ j \in 0 .. MaxSize
    BY QueueAssumption
  <1>2. /\ (r + i) % MaxSize = IF r + i < MaxSize THEN r + i ELSE r + i - MaxSize
        /\ (r + j) % MaxSize = IF r + j < MaxSize THEN r + j ELSE r + j - MaxSize
    BY <1>1, SlotValue
  <1>3. QED  BY <1>1, <1>2 DEF Slots

-----------------------------------------------------------------------------
(***************************************************************************)
(* The indices.                                                            *)
(***************************************************************************)
LEMMA IndexInit == Init => IndexInv
  <1> SUFFICES ASSUME Init PROVE IndexInv
    OBVIOUS
  <1>1. TypeOK
    <2>1. queue \in [Slots -> Nat]
      BY DEF Init, None
    <2>2. rindex \in Slots /\ windex \in Slots /\ size \in 0 .. MaxSize
      BY QueueAssumption DEF Init, Slots
    <2>3. rindex_shown \in 0 .. (IF KeepLast THEN 1 ELSE 0)
      BY QueueAssumption DEF Init
    <2>4. QED  BY <2>1, <2>2, <2>3 DEF Init, TypeOK
  <1>2. RingInv
    <2>1. 0 % MaxSize = 0
      BY SlotValue, QueueAssumption DEF Slots
    <2>2. QED  BY <2>1, QueueAssumption DEF Init, RingInv, Occupied, Slot
  <1>3. WriterInv /\ ReaderInv /\ CloserInv
    BY DEF Init, WriterInv, ReaderInv, CloserInv
  <1>4. QED  BY <1>1, <1>2, <1>3 DEF IndexInv

LEMMA IndexStep == IndexInv /\ [Next]_vars => IndexInv'
  <1> SUFFICES ASSUME IndexInv, [Next]_vars PROVE IndexInv'
    OBVIOUS
  <1> USE QueueAssumption DEF IndexInv
  <1>1. CASE Decode \/ DecodeAborted \/ PeekWritable \/ WritableOrNull
    BY <1>1 DEF Decode, DecodeAborted, PeekWritable, WritableOrNull, Full, ring,
                TypeOK, RingInv, Occupied, Slot, WriterInv, ReaderInv, Remaining, CloserInv
  <1>2. CASE Fill \/ FillFails
    BY <1>2 DEF Fill, FillFails, ring,
                TypeOK, RingInv, Occupied, Slot, WriterInv, ReaderInv, Remaining, CloserInv
  <1>3. CASE Push
    <2>1. windex' = Slot(Occupied + 1) /\ windex' \in Slots
      <3>1. rindex \in Slots /\ Occupied \in 0 .. MaxSize - 1
        BY <1>3 DEF Push, TypeOK, RingInv, WriterInv, Occupied
      <3>2. QED  BY <1>3, <3>1, AfterSlot DEF Push, RingInv, TypeOK, Slot
    <2>2. Occupied' = Occupied + 1 /\ Occupied' \in 0 .. MaxSize
      BY <1>3 DEF Push, TypeOK, RingInv, WriterInv, Occupied
    <2>3. QED
      BY <1>3, <2>1, <2>2 DEF Push, TypeOK, RingInv, Slot, WriterInv, ReaderInv,
                              Remaining, CloserInv
  <1>4. CASE Grow
    BY <1>4 DEF Grow, WakeReader, TypeOK, RingInv, Occupied, Slot, WriterInv, ReaderInv,
                Remaining, CloserInv
  <1>5. CASE Poll \/ LookAgain \/ CallPeekReadable \/ PeekReadable \/ ReadableOrNull
    BY <1>5 DEF Poll, LookAgain, CallPeekReadable, PeekReadable, ReadableOrNull, ring,
                TypeOK, RingInv, Occupied, Slot, WriterInv, ReaderInv, Remaining, CloserInv
  <1>6. CASE NextShows
    BY <1>6 DEF NextShows, TypeOK, RingInv, Occupied, Slot, WriterInv, ReaderInv,
                Remaining, CloserInv
  <1>7. CASE NextUnref
    BY <1>7 DEF NextUnref, TypeOK, RingInv, Occupied, Slot, WriterInv, ReaderInv,
                Remaining, CloserInv, None
  <1>8. CASE NextAdvance
    <2>1. Occupied' = Occupied - 1 /\ Occupied' \in 0 .. MaxSize - 1
      BY <1>8 DEF NextAdvance, TypeOK, RingInv, ReaderInv, Remaining, Occupied
    <2>2. rindex' \in Slots /\ Slot(Occupied)' = Slot(Occupied)
      <3>1. rindex \in Slots /\ rindex' = After(rindex) /\ Occupied = Occupied' + 1
        BY <1>8, <2>1 DEF NextAdvance, TypeOK, RingInv
      <3>2. QED  BY <2>1, <3>1, AfterSlot DEF Slot
    <2>3. QED
      BY <1>8, <2>1, <2>2 DEF NextAdvance, TypeOK, RingInv, WriterInv, ReaderInv,
                              Remaining, CloserInv
  <1>9. CASE NextShrink
    BY <1>9 DEF NextShrink, WakeWriter, TypeOK, RingInv, Occupied, Slot, WriterInv,
                ReaderInv, Remaining, CloserInv
  <1>10. CASE CloserNext
    <2>1. CASE PacketQueueAbort
      BY <2>1 DEF PacketQueueAbort, ring, TypeOK, RingInv, Occupied, Slot, WriterInv,
                  ReaderInv, Remaining, CloserInv
    <2>2. CASE FrameQueueSignal
      <3>1. TypeOK' /\ RingInv'
        BY <2>2 DEF FrameQueueSignal, WakeWriter, WakeReader, ring, TypeOK, RingInv,
                    Occupied, Slot
      <3>2. WriterInv' /\ ReaderInv'
        BY <2>2 DEF FrameQueueSignal, WakeWriter, WakeReader, ring, WriterInv, ReaderInv,
                    Remaining
      <3>3. CloserInv'
        BY <2>2 DEF FrameQueueSignal, CloserInv
      <3>4. QED  BY <3>1, <3>2, <3>3
    <2>3. CASE JoinDecoder
      BY <2>3 DEF JoinDecoder, ring, TypeOK, RingInv, Occupied, Slot, WriterInv,
                  ReaderInv, Remaining, CloserInv
    <2>4. QED  BY <1>10, <2>1, <2>2, <2>3 DEF CloserNext
  <1>11. CASE UNCHANGED vars
    BY <1>11 DEF vars, ring, TypeOK, RingInv, Occupied, Slot, WriterInv, ReaderInv,
                 Remaining, CloserInv
  <1>12. QED
    BY <1>1, <1>2, <1>3, <1>4, <1>5, <1>6, <1>7, <1>8, <1>9, <1>10, <1>11
       DEF Next, WriterNext, ReaderNext, FrameQueueNext

\* Every reachable state has its variables in range and its indices agreeing.
LEMMA IndexCorrect == Spec => []IndexInv
  <1>1. QED  BY IndexInit, IndexStep, PTL DEF Spec

\* The queue's variables stay in their ranges: both indices on the ring, the
\* count between zero and the number of slots.
THEOREM TypeCorrect == Spec => []TypeOK
  <1>1. IndexInv => TypeOK
    BY DEF IndexInv
  <1>2. QED  BY <1>1, IndexCorrect, PTL

\* The decoder never writes into a slot the reader is using: windex is at
\* offset Occupied, which is below MaxSize while the writer has a slot, and
\* everything the reader uses is at a smaller offset.
THEOREM DataRaceFree == Spec => []NoDataRaces
  <1>1. ASSUME IndexInv, writer \in {"fill", "push"} PROVE windex \notin InUse
    <2>1. Occupied \in 0 .. MaxSize - 1 /\ windex = Slot(Occupied) /\ rindex \in Slots
      BY <1>1, QueueAssumption DEF IndexInv, TypeOK, RingInv, WriterInv, Occupied
    <2>2. ASSUME NEW j \in {0, 1, 2},
                 \/ reader = "idle" /\ j < rindex_shown
                 \/ reader = "look" /\ j < size /\ j <= rindex_shown + 1
                 \/ reader = "advance" /\ j \in 1 .. rindex_shown
                 \/ reader = "shrink" /\ j < rindex_shown
          PROVE  Slot(j) # windex
      <3>1. j \in 0 .. MaxSize - 1 /\ j < Occupied
        BY <1>1, <2>1, <2>2, QueueAssumption
           DEF IndexInv, TypeOK, RingInv, ReaderInv, Remaining, Occupied
      <3>2. QED  BY <2>1, <3>1, SlotInjective DEF Slot
    <2>3. QED  BY <2>2 DEF InUse
  <1>2. IndexInv => NoDataRaces
    BY <1>1 DEF NoDataRaces
  <1>3. QED  BY <1>2, IndexCorrect, PTL

-----------------------------------------------------------------------------
(***************************************************************************)
(* The condition variable.                                                 *)
(***************************************************************************)
\* With a slot to spare beyond the kept frame, a queue cannot be full for
\* the writer and empty for the reader at once.
LEMMA NotBoth == IndexInv /\ NoLostWakeup => NotBothWaiting
  <1>1. ASSUME TypeOK, NoLostWakeup, writer = "waiting", reader = "waiting" PROVE FALSE
    <2>1. size >= MaxSize /\ size - rindex_shown <= 0
      BY <1>1 DEF NoLostWakeup, Full, Remaining
    <2>2. /\ size \in Nat /\ rindex_shown \in {0, 1}
          /\ ~KeepLast => rindex_shown = 0
      BY <1>1, QueueAssumption DEF TypeOK
    <2>3. QED  BY <2>1, <2>2, QueueAssumption
  <1>2. QED  BY <1>1 DEF NotBothWaiting, IndexInv

LEMMA WakeupInit == Init => NoLostWakeup
  BY DEF Init, NoLostWakeup

LEMMA WakeupStep == IndexInv /\ NoLostWakeup /\ [Next]_vars => NoLostWakeup'
  <1> SUFFICES ASSUME IndexInv, NoLostWakeup, [Next]_vars PROVE NoLostWakeup'
    OBVIOUS
  <1> USE DEF NoLostWakeup, Full, Remaining
  <1>0. TypeOK /\ CloserInv /\ NotBothWaiting
    BY NotBoth DEF IndexInv
  <1>1. CASE Decode \/ DecodeAborted \/ PeekWritable \/ WritableOrNull \/ Fill \/ FillFails \/ Push
    BY <1>1 DEF Decode, DecodeAborted, PeekWritable, WritableOrNull, Fill, FillFails, Push, ring
  <1>2. CASE Grow
    BY <1>2 DEF Grow, WakeReader
  <1>3. CASE Poll \/ LookAgain \/ CallPeekReadable \/ PeekReadable \/ ReadableOrNull
    BY <1>3 DEF Poll, LookAgain, CallPeekReadable, PeekReadable, ReadableOrNull, ring
  <1>4. CASE NextShows \/ NextUnref \/ NextAdvance
    BY <1>4 DEF NextShows, NextUnref, NextAdvance
  <1>5. CASE NextShrink
    BY <1>5 DEF NextShrink, WakeWriter
  <1>6. CASE PacketQueueAbort \/ JoinDecoder
    BY <1>0, <1>6 DEF PacketQueueAbort, JoinDecoder, CloserInv, ring
  <1>7. CASE FrameQueueSignal
    BY <1>0, <1>7 DEF FrameQueueSignal, WakeWriter, WakeReader, NotBothWaiting, ring
  <1>8. CASE UNCHANGED vars
    BY <1>8 DEF vars, ring
  <1>9. QED
    BY <1>1, <1>2, <1>3, <1>4, <1>5, <1>6, <1>7, <1>8
       DEF Next, WriterNext, ReaderNext, FrameQueueNext, CloserNext

\* One condition variable and one wakeup at a time are enough for two threads
\* and a closer: nobody sleeps whose condition has come true, unless the
\* closer is about to signal.
THEOREM WakeupsArrive == Spec => []NoLostWakeup
  <1>1. Init => IndexInv /\ NoLostWakeup
    BY IndexInit, WakeupInit
  <1>2. IndexInv /\ NoLostWakeup /\ [Next]_vars => (IndexInv /\ NoLostWakeup)'
    BY IndexStep, WakeupStep
  <1>3. QED  BY <1>1, <1>2, PTL DEF Spec

\* The writer and the reader never sleep at the same time.
THEOREM NeverBothWaiting == Spec => []NotBothWaiting
  <1>1. QED  BY NotBoth, IndexCorrect, WakeupsArrive, PTL

-----------------------------------------------------------------------------
(***************************************************************************)
(* The contents of the slots.                                              *)
(***************************************************************************)
LEMMA ContentInit == Init => ContentInv
  <1> SUFFICES ASSUME Init PROVE ContentInv
    OBVIOUS
  <1>1. Dropped = 0 /\ Leaving = 0 /\ Occupied = 0
    BY DEF Init, Dropped, Leaving, Occupied
  <1>2. 0 .. Occupied - 1 = {}
    BY <1>1
  <1>3. pushed = taken + size - 0 - rindex_shown
    BY DEF Init
  <1>4. QED  BY <1>1, <1>2, <1>3 DEF Init, ContentInv

\* A slot in use is neither the one the writer fills nor, past offset 0, the
\* one next drops.
LEMMA SlotsApart ==
    ASSUME IndexInv, NEW i \in 0 .. Occupied - 1
    PROVE  /\ Slot(i) \in Slots
           /\ writer \in {"fill", "push"} => Slot(i) # windex
           /\ i > 0 => Slot(i) # rindex
           /\ rindex = Slot(0)
  <1>1. /\ rindex \in Slots /\ i \in 0 .. MaxSize - 1 /\ 0 \in 0 .. MaxSize - 1
        /\ windex = Slot(Occupied)
        /\ writer \in {"fill", "push"} => Occupied \in 0 .. MaxSize - 1
    BY QueueAssumption DEF IndexInv, TypeOK, RingInv, WriterInv, Occupied
  <1>2. Slot(i) \in Slots
    BY <1>1, SlotValue, QueueAssumption DEF Slot
  <1>3. ASSUME writer \in {"fill", "push"} PROVE Slot(i) # windex
    <2>1. Occupied \in 0 .. MaxSize - 1 /\ Occupied # i
      BY <1>1, <1>3
    <2>2. QED  BY <1>1, <2>1, SlotInjective DEF Slot
  <1>4. rindex = Slot(0)
    <2>1. 0 \in 0 .. MaxSize
      BY QueueAssumption
    <2>2. (rindex + 0) % MaxSize = IF rindex + 0 < MaxSize THEN rindex + 0
                                                           ELSE rindex + 0 - MaxSize
      BY <1>1, <2>1, SlotValue
    <2>3. QED  BY <1>1, <2>2, QueueAssumption DEF Slot, Slots
  <1>5. ASSUME i > 0 PROVE Slot(i) # rindex
    BY <1>1, <1>4, <1>5, SlotInjective DEF Slot
  <1>6. QED  BY <1>2, <1>3, <1>4, <1>5

LEMMA ContentStep == IndexInv /\ ContentInv /\ [Next]_vars => ContentInv'
  <1> SUFFICES ASSUME IndexInv, ContentInv, [Next]_vars PROVE ContentInv'
    OBVIOUS
  <1>0. /\ size \in Nat /\ taken \in Nat /\ pushed \in Nat /\ rindex_shown \in {0, 1}
        /\ Occupied \in Nat /\ queue \in [Slots -> Nat] /\ windex \in Slots /\ rindex \in Slots
    BY QueueAssumption DEF IndexInv, TypeOK, RingInv
  <1>1. CASE Decode \/ DecodeAborted \/ PeekWritable \/ WritableOrNull \/ FillFails
    BY <1>1 DEF Decode, DecodeAborted, PeekWritable, WritableOrNull, FillFails, ring,
                ContentInv, Occupied, Dropped, Leaving, Slot
  <1>2. CASE Fill
    <2>1. /\ UNCHANGED <<Occupied, Dropped, Leaving, rindex_shown, taken, pushed, size, windex>>
          /\ \A i : Slot(i)' = Slot(i)
      BY <1>2 DEF Fill, Occupied, Dropped, Leaving, Slot
    <2>2. ASSUME NEW i \in Dropped .. Occupied - 1 PROVE queue'[Slot(i)] = queue[Slot(i)]
      <3>1. i \in 0 .. Occupied - 1
        BY <1>0, <2>2 DEF Dropped
      <3>2. Slot(i) \in Slots /\ Slot(i) # windex
        BY <1>2, <3>1, SlotsApart DEF Fill
      <3>3. QED  BY <1>0, <1>2, <3>2 DEF Fill
    <2>3. queue'[windex] = pushed + 1
      BY <1>0, <1>2 DEF Fill
    <2>4. QED  BY <2>1, <2>2, <2>3 DEF ContentInv
  <1>3. CASE Push
    <2>1. Occupied' = Occupied + 1 /\ queue[Slot(Occupied)] = pushed + 1
      BY <1>0, <1>3 DEF Push, Occupied, ContentInv, IndexInv, RingInv
    <2>2. pushed + 1 = taken + Occupied + 1 - rindex_shown - Dropped
      BY <1>0, <1>3 DEF Push, ContentInv, Occupied, Dropped, Leaving
    <2>3. /\ UNCHANGED <<queue, Dropped, Leaving, rindex_shown, taken, pushed, size>>
          /\ \A i : Slot(i)' = Slot(i)
          /\ writer' # "push"
      BY <1>3 DEF Push, Dropped, Leaving, Slot
    <2>4. \A i \in Dropped .. Occupied :
             queue[Slot(i)] = taken + i + 1 - rindex_shown - Dropped
      <3>1. SUFFICES ASSUME NEW i \in Dropped .. Occupied
                     PROVE  queue[Slot(i)] = taken + i + 1 - rindex_shown - Dropped
        OBVIOUS
      <3>2. CASE i = Occupied
        BY <3>2, <2>1, <2>2
      <3>3. CASE i # Occupied
        BY <1>0, <3>1, <3>3 DEF ContentInv, Dropped
      <3>4. QED  BY <3>2, <3>3
    <2>5. Dropped .. Occupied' - 1 = Dropped .. Occupied
      BY <1>0, <2>1 DEF Dropped
    <2>6. QED  BY <2>3, <2>4, <2>5 DEF ContentInv
  <1>4. CASE Grow
    <2>1. /\ Occupied' = Occupied /\ size' = size + 1 /\ pushed' = pushed + 1
          /\ UNCHANGED <<queue, Dropped, Leaving, rindex_shown, taken>>
          /\ \A i : Slot(i)' = Slot(i)
          /\ writer' # "push"
      BY <1>0, <1>4 DEF Grow, WakeReader, Occupied, Dropped, Leaving, Slot
    <2>2. pushed' = taken' + size' - Leaving' - rindex_shown'
      BY <1>0, <2>1 DEF ContentInv, Leaving
    <2>3. QED  BY <2>1, <2>2 DEF ContentInv
  <1>5. CASE Poll \/ LookAgain \/ CallPeekReadable \/ PeekReadable \/ ReadableOrNull
    BY <1>5 DEF Poll, LookAgain, CallPeekReadable, PeekReadable, ReadableOrNull, ring,
                ContentInv, Occupied, Dropped, Leaving, Slot
  <1>6. CASE NextShows
    BY <1>0, <1>6 DEF NextShows, ContentInv, Occupied, Dropped, Leaving, Slot
  <1>7. CASE NextUnref
    <2>1. /\ Dropped = 0 /\ Dropped' = 1 /\ Leaving = 0 /\ Leaving' = 1 /\ Occupied > 0
          /\ taken' = taken + 1
          /\ UNCHANGED <<Occupied, rindex_shown, pushed, size, windex, writer>>
          /\ \A i : Slot(i)' = Slot(i)
      BY <1>0, <1>7 DEF NextUnref, Occupied, Dropped, Leaving, Slot, IndexInv, RingInv,
                        ReaderInv, Remaining
    <2>2. ASSUME NEW i \in 1 .. Occupied - 1
          PROVE  queue'[Slot(i)] = taken' + i + 1 - rindex_shown - 1
      <3>1. i \in 0 .. Occupied - 1 /\ Slot(i) \in Slots /\ Slot(i) # rindex
        BY <1>0, <2>2, SlotsApart
      <3>2. queue'[Slot(i)] = queue[Slot(i)]
        BY <1>0, <1>7, <3>1 DEF NextUnref
      <3>3. queue[Slot(i)] = taken + i + 1 - rindex_shown - 0
        BY <2>1, <3>1 DEF ContentInv
      <3>4. QED  BY <1>0, <2>1, <3>2, <3>3
    <2>3. writer = "push" => queue'[windex] = queue[windex]
      <3>1. 0 \in 0 .. Occupied - 1
        BY <1>0, <2>1
      <3>2. writer = "push" => windex # rindex
        BY <3>1, SlotsApart
      <3>3. QED  BY <1>0, <1>7, <3>2 DEF NextUnref
    <2>4. pushed' = taken' + size' - Leaving' - rindex_shown'
      BY <1>0, <2>1 DEF ContentInv
    <2>5. QED  BY <2>1, <2>2, <2>3, <2>4 DEF ContentInv
  <1>8. CASE NextAdvance
    <2>1. /\ Dropped = 1 /\ Dropped' = 0 /\ Leaving' = Leaving /\ Occupied' = Occupied - 1
          /\ UNCHANGED <<queue, rindex_shown, pushed, size, windex, writer, taken>>
      BY <1>0, <1>8 DEF NextAdvance, Occupied, Dropped, Leaving
    <2>2. ASSUME NEW i \in 0 .. Occupied' - 1
          PROVE  queue[Slot(i)'] = taken + i + 1 - rindex_shown - 0
      <3>1. i \in 0 .. MaxSize - 1 /\ i + 1 \in 1 .. Occupied - 1
        BY <1>0, <2>1, <2>2, QueueAssumption DEF IndexInv, RingInv
      <3>2. Slot(i)' = Slot(i + 1)
        BY <1>0, <1>8, <3>1, AfterSlot DEF NextAdvance, Slot
      <3>3. queue[Slot(i + 1)] = taken + (i + 1) + 1 - rindex_shown - 1
        BY <2>1, <3>1 DEF ContentInv
      <3>4. QED  BY <1>0, <3>1, <3>2, <3>3
    <2>3. QED  BY <2>1, <2>2 DEF ContentInv
  <1>9. CASE NextShrink
    <2>1. /\ Occupied' = Occupied /\ size' = size - 1 /\ Leaving = 1 /\ Leaving' = 0
          /\ writer' = "push" => writer = "push"
          /\ UNCHANGED <<queue, Dropped, rindex_shown, taken, pushed, windex>>
          /\ \A i : Slot(i)' = Slot(i)
      BY <1>0, <1>9 DEF NextShrink, WakeWriter, Occupied, Dropped, Leaving, Slot
    <2>2. pushed' = taken' + size' - Leaving' - rindex_shown'
      BY <1>0, <2>1 DEF ContentInv
    <2>3. QED  BY <2>1, <2>2 DEF ContentInv
  <1>10. CASE CloserNext
    <2>1. /\ UNCHANGED <<ring, Occupied, Dropped, Leaving, taken, pushed>>
          /\ \A i : Slot(i)' = Slot(i)
          /\ writer' = "push" => writer = "push"
      BY <1>10 DEF CloserNext, PacketQueueAbort, FrameQueueSignal, JoinDecoder, WakeWriter,
                   WakeReader, ring, Occupied, Dropped, Leaving, Slot
    <2>2. QED  BY <2>1 DEF ring, ContentInv
  <1>11. CASE UNCHANGED vars
    BY <1>11 DEF vars, ring, ContentInv, Occupied, Dropped, Leaving, Slot
  <1>12. QED
    BY <1>1, <1>2, <1>3, <1>4, <1>5, <1>6, <1>7, <1>8, <1>9, <1>10, <1>11
       DEF Next, WriterNext, ReaderNext, FrameQueueNext

LEMMA ContentCorrect == Spec => [](IndexInv /\ ContentInv)
  <1>1. Init => IndexInv /\ ContentInv
    BY IndexInit, ContentInit
  <1>2. IndexInv /\ ContentInv /\ [Next]_vars => (IndexInv /\ ContentInv)'
    BY IndexStep, ContentStep
  <1>3. QED  BY <1>1, <1>2, PTL DEF Spec

\* Frames come out in the order they went in: the frame the reader looks at
\* is the successor of the one it took last.
THEOREM FramesComeInOrder == Spec => []FramesInOrder
  <1>1. ASSUME IndexInv, ContentInv, reader = "look"
        PROVE  queue[Slot(rindex_shown)] = taken + 1
    <2>1. /\ Dropped = 0 /\ rindex_shown \in 0 .. Occupied - 1
          /\ taken \in Nat /\ rindex_shown \in Nat
      BY <1>1, QueueAssumption
         DEF IndexInv, TypeOK, RingInv, ReaderInv, Remaining, Occupied, Dropped
    <2>2. queue[Slot(rindex_shown)] = taken + rindex_shown + 1 - rindex_shown - 0
      BY <1>1, <2>1 DEF ContentInv
    <2>3. QED  BY <2>1, <2>2
  <1>2. IndexInv /\ ContentInv => FramesInOrder
    BY <1>1 DEF FramesInOrder
  <1>3. QED  BY <1>2, ContentCorrect, PTL

\* The frame taken last stays in its slot until the next one is taken.
THEOREM LastFrameStays == Spec => []LastFrameIntact
  <1>1. ASSUME IndexInv, ContentInv, reader \in {"idle", "look"}, rindex_shown = 1
        PROVE  queue[rindex] = taken
    <2>1. /\ Dropped = 0 /\ 0 \in 0 .. Occupied - 1 /\ taken \in Nat
      BY <1>1, QueueAssumption DEF IndexInv, TypeOK, RingInv, Occupied, Dropped
    <2>2. queue[Slot(0)] = taken + 0 + 1 - 1 - 0
      BY <1>1, <2>1 DEF ContentInv
    <2>3. rindex = Slot(0)
      BY <1>1, <2>1, SlotsApart
    <2>4. QED  BY <2>1, <2>2, <2>3
  <1>2. IndexInv /\ ContentInv => LastFrameIntact
    BY <1>1 DEF LastFrameIntact
  <1>3. QED  BY <1>2, ContentCorrect, PTL

-----------------------------------------------------------------------------
(***************************************************************************)
(* The ring implements the queue that keeps its last frame.                *)
(***************************************************************************)
\* The frame the decoder works on is one of MaxFrames; a shown frame exists.
BoundInv ==
    /\ writer \in {"peek", "waiting", "peeked", "fill", "push", "grow"} => pushed < MaxFrames
    /\ rindex_shown = 1 => taken > 0

LEMMA BoundInit == Init => BoundInv
  BY DEF Init, BoundInv

LEMMA BoundStep == TypeOK /\ BoundInv /\ [Next]_vars => BoundInv'
  <1> SUFFICES ASSUME TypeOK, BoundInv, [Next]_vars PROVE BoundInv'
    OBVIOUS
  <1>0. pushed \in Nat /\ taken \in Nat /\ MaxFrames \in Nat
    BY QueueAssumption DEF TypeOK
  <1>1. CASE WriterNext
    BY <1>0, <1>1 DEF WriterNext, Decode, DecodeAborted, PeekWritable, WritableOrNull, Fill,
                      FillFails, Push, Grow, BoundInv, ring
  <1>2. CASE ReaderNext
    BY <1>0, <1>2 DEF ReaderNext, Poll, LookAgain, CallPeekReadable, PeekReadable,
                      ReadableOrNull, FrameQueueNext, NextShows, NextUnref, NextAdvance,
                      NextShrink, WakeWriter, BoundInv, ring
  <1>3. CASE CloserNext
    BY <1>3 DEF CloserNext, PacketQueueAbort, FrameQueueSignal, JoinDecoder, WakeWriter,
                WakeReader, BoundInv, ring
  <1>4. CASE UNCHANGED vars
    BY <1>4 DEF vars, ring, BoundInv
  <1>5. QED  BY <1>1, <1>2, <1>3, <1>4 DEF Next

\* The state of the abstract queue, as the refinement reads it off the slots
\* and as the numbers of frames pushed and taken say it is.
ReadySlots  == [i \in 1 .. size - Leaving - rindex_shown |->
                  queue[Slot(Dropped + rindex_shown + i - 1)]]
LastSlot    == IF rindex_shown = 1 THEN queue[Slot(Dropped)] ELSE None
ReadyFrames == [i \in 1 .. pushed - taken |-> taken + i]
LastFrame   == IF rindex_shown = 1 THEN taken ELSE None

LEMMA SlotsHoldFrames ==
    IndexInv /\ ContentInv => ReadySlots = ReadyFrames /\ LastSlot = LastFrame
  <1> SUFFICES ASSUME IndexInv, ContentInv
               PROVE  ReadySlots = ReadyFrames /\ LastSlot = LastFrame
    OBVIOUS
  <1>1. /\ size \in Nat /\ taken \in Nat /\ pushed \in Nat /\ rindex_shown \in {0, 1}
        /\ Dropped \in {0, 1} /\ Leaving \in {0, 1} /\ Occupied \in Nat
        /\ size - Leaving + Dropped <= Occupied
        /\ rindex_shown = 1 => Dropped < Occupied
    BY QueueAssumption DEF IndexInv, TypeOK, RingInv, ReaderInv, Remaining, Occupied,
                           Dropped, Leaving
  <1>2. size - Leaving - rindex_shown = pushed - taken
    BY <1>1 DEF ContentInv
  <1>3. ASSUME NEW i \in 1 .. pushed - taken
        PROVE  queue[Slot(Dropped + rindex_shown + i - 1)] = taken + i
    <2>1. Dropped + rindex_shown + i - 1 \in Dropped .. Occupied - 1
      BY <1>1, <1>2, <1>3
    <2>2. queue[Slot(Dropped + rindex_shown + i - 1)]
            = taken + (Dropped + rindex_shown + i - 1) + 1 - rindex_shown - Dropped
      BY <2>1 DEF ContentInv
    <2>3. QED  BY <1>1, <1>3, <2>2
  <1>4. ASSUME rindex_shown = 1 PROVE queue[Slot(Dropped)] = taken
    <2>1. Dropped \in Dropped .. Occupied - 1
      BY <1>1, <1>4
    <2>2. queue[Slot(Dropped)] = taken + Dropped + 1 - 1 - Dropped
      BY <1>4, <2>1 DEF ContentInv
    <2>3. QED  BY <1>1, <2>2
  <1>5. QED  BY <1>2, <1>3, <1>4 DEF ReadySlots, ReadyFrames, LastSlot, LastFrame

\* What each step does to the two counters.
LEMMA CounterStep ==
    IndexInv /\ BoundInv /\ [Next]_vars =>
        \/ UNCHANGED <<pushed, taken, rindex_shown>>
        \/ /\ pushed' = pushed + 1 /\ pushed' \in 1 .. MaxFrames
           /\ UNCHANGED <<taken, rindex_shown>>
           /\ size - Leaving < MaxSize
        \/ /\ taken' = taken + 1 /\ UNCHANGED pushed
           /\ Leaving = 0 /\ size - rindex_shown > 0
           /\ rindex_shown' = IF KeepLast THEN 1 ELSE 0
  <1> SUFFICES ASSUME IndexInv, BoundInv, [Next]_vars,
                      ~UNCHANGED <<pushed, taken, rindex_shown>>
               PROVE  \/ /\ pushed' = pushed + 1 /\ pushed' \in 1 .. MaxFrames
                         /\ UNCHANGED <<taken, rindex_shown>>
                         /\ size - Leaving < MaxSize
                      \/ /\ taken' = taken + 1 /\ UNCHANGED pushed
                         /\ Leaving = 0 /\ size - rindex_shown > 0
                         /\ rindex_shown' = IF KeepLast THEN 1 ELSE 0
    OBVIOUS
  <1>0. /\ pushed \in Nat /\ size \in Nat /\ MaxFrames \in Nat /\ MaxSize \in Nat
        /\ rindex_shown \in {0, 1} /\ (~KeepLast => rindex_shown = 0)
    BY QueueAssumption DEF IndexInv, TypeOK
  <1>1. Grow \/ NextShows \/ NextUnref
    BY DEF Next, WriterNext, ReaderNext, FrameQueueNext, CloserNext, vars, ring, Decode,
           DecodeAborted, PeekWritable, WritableOrNull, Fill, FillFails, Push, Poll,
           LookAgain, CallPeekReadable, PeekReadable, ReadableOrNull, NextAdvance,
           NextShrink, PacketQueueAbort, FrameQueueSignal, JoinDecoder
  <1>2. CASE Grow
    BY <1>0, <1>2 DEF Grow, IndexInv, WriterInv, BoundInv, Leaving
  <1>3. CASE NextShows \/ NextUnref
    BY <1>0, <1>3 DEF NextShows, NextUnref, IndexInv, ReaderInv, Remaining, Leaving
  <1>4. QED  BY <1>1, <1>2, <1>3

LEMMA FifoInit == Init => Fifo!Init
  <1> SUFFICES ASSUME Init PROVE ReadySlots = << >> /\ LastSlot = None
    BY DEF Fifo!Init, Fifo!None, None, ReadySlots, LastSlot
  <1>1. 1 .. size - Leaving - rindex_shown = {}
    BY DEF Init, Leaving
  <1>2. QED  BY <1>1 DEF Init, ReadySlots, LastSlot

LEMMA FifoStep ==
    ASSUME IndexInv, ContentInv, BoundInv, [Next]_vars,
           (ReadySlots = ReadyFrames /\ LastSlot = LastFrame)'
    PROVE  [Fifo!Next]_(Fifo!vars)
  <1>0. /\ ReadySlots = ReadyFrames /\ LastSlot = LastFrame
        /\ ReadySlots' = ReadyFrames' /\ LastSlot' = LastFrame'
    BY SlotsHoldFrames
  <1>1. /\ pushed \in Nat /\ taken \in Nat /\ size \in Nat /\ rindex_shown \in {0, 1}
        /\ Leaving \in {0, 1} /\ pushed - taken = size - Leaving - rindex_shown
        /\ pushed - taken >= 0
    <2>1. /\ pushed \in Nat /\ taken \in Nat /\ size \in Nat /\ rindex_shown \in {0, 1}
          /\ Leaving \in {0, 1}
      BY QueueAssumption DEF IndexInv, TypeOK, Leaving
    <2>2. size - Leaving - rindex_shown >= 0
      BY <2>1 DEF IndexInv, RingInv, ReaderInv, Remaining, Leaving
    <2>3. QED  BY <2>1, <2>2 DEF ContentInv
  <1>2. ReadyFrames \in Seq(Nat) /\ Len(ReadyFrames) = pushed - taken
    BY <1>1 DEF ReadyFrames
  <1>3. CASE UNCHANGED <<pushed, taken, rindex_shown>>
    <2>1. UNCHANGED <<ReadyFrames, LastFrame>>
      BY <1>3 DEF ReadyFrames, LastFrame
    <2>2. QED  BY <1>0, <2>1 DEF Fifo!vars, ReadySlots, LastSlot
  <1>4. CASE /\ pushed' = pushed + 1 /\ pushed' \in 1 .. MaxFrames
             /\ UNCHANGED <<taken, rindex_shown>>
             /\ size - Leaving < MaxSize
    <2>1. ReadyFrames' = Append(ReadyFrames, pushed')
      BY <1>1, <1>2, <1>4 DEF ReadyFrames
    <2>2. LastFrame' = LastFrame
      BY <1>4 DEF LastFrame
    <2>3. Len(ReadyFrames) + (IF LastFrame = 0 THEN 0 ELSE 1) < MaxSize
      BY <1>1, <1>2, <1>4, QueueAssumption DEF LastFrame, None
    <2>4. Fifo!Put(pushed')
      BY <1>0, <2>1, <2>2, <2>3 DEF Fifo!Put, Fifo!Held, Fifo!None, ReadySlots, LastSlot
    <2>5. QED  BY <1>4, <2>4 DEF Fifo!Next
  <1>5. CASE /\ taken' = taken + 1 /\ UNCHANGED pushed
             /\ Leaving = 0 /\ size - rindex_shown > 0
             /\ rindex_shown' = IF KeepLast THEN 1 ELSE 0
    <2>1. pushed - taken > 0
      BY <1>1, <1>5
    <2>2. ReadyFrames # << >> /\ Head(ReadyFrames) = taken + 1
      BY <1>1, <1>2, <2>1 DEF ReadyFrames
    <2>3. ReadyFrames' = Tail(ReadyFrames)
      <3>1. /\ Tail(ReadyFrames) \in Seq(Nat) /\ Len(Tail(ReadyFrames)) = pushed - taken - 1
            /\ \A i \in 1 .. pushed - taken - 1 : Tail(ReadyFrames)[i] = ReadyFrames[i + 1]
        BY <1>1, <1>2, <2>2, HeadTailProperties
      <3>2. /\ ReadyFrames' \in Seq(Nat) /\ Len(ReadyFrames') = pushed - taken - 1
            /\ \A i \in 1 .. pushed - taken - 1 : ReadyFrames'[i] = taken + 1 + i
        BY <1>1, <1>5, <2>1 DEF ReadyFrames
      <3>3. \A i \in 1 .. pushed - taken - 1 : ReadyFrames[i + 1] = taken + 1 + i
        BY <1>1, <2>1 DEF ReadyFrames
      <3>4. QED  BY <3>1, <3>2, <3>3, SeqEqual
    <2>4. LastFrame' = IF KeepLast THEN Head(ReadyFrames) ELSE 0
      BY <1>5, <2>2, QueueAssumption DEF LastFrame, None
    <2>5. Fifo!Take
      BY <1>0, <2>2, <2>3, <2>4 DEF Fifo!Take, Fifo!None, ReadySlots, LastSlot
    <2>6. QED  BY <2>5 DEF Fifo!Next
  <1>6. QED  BY <1>3, <1>4, <1>5, CounterStep

\* Whatever the three threads do, what the ring holds changes only as the
\* bounded queue that keeps its last frame allows.
THEOREM ImplementsKeptFifo == Spec => IsKeptFifo
  <1>1. Init => IndexInv /\ ContentInv /\ BoundInv
    BY IndexInit, ContentInit, BoundInit
  <1>2. IndexInv /\ ContentInv /\ BoundInv /\ [Next]_vars
          => (IndexInv /\ ContentInv /\ BoundInv)'
    BY IndexStep, ContentStep, BoundStep DEF IndexInv
  <1>3. IndexInv /\ ContentInv /\ BoundInv /\ [Next]_vars
        /\ (ReadySlots = ReadyFrames /\ LastSlot = LastFrame)'
          => [Fifo!Next]_(Fifo!vars)
    BY FifoStep
  <1>4. QED  BY <1>1, <1>2, <1>3, FifoInit, SlotsHoldFrames, PTL DEF Spec, IsKeptFifo, Fifo!Spec

\* No frame is lost, duplicated or changed while somebody uses it: the three
\* facts about the contents of the ring in one.
THEOREM FramesAreKept == Spec => []FramesKept
  <1>1. FramesKept <=> NoDataRaces /\ LastFrameIntact /\ FramesInOrder
    BY DEF FramesKept
  <1>2. QED  BY <1>1, DataRaceFree, LastFrameStays, FramesComeInOrder, PTL

\* Nobody sleeps in the queue while there is something for him to do.
THEOREM SleepersAreWoken == Spec => []Woken
  <1>1. Woken <=> NotBothWaiting /\ NoLostWakeup
    BY DEF Woken
  <1>2. QED  BY <1>1, NeverBothWaiting, WakeupsArrive, PTL

-----------------------------------------------------------------------------
(***************************************************************************)
(* The thread pool.                                                        *)
(***************************************************************************)

-----------------------------------------------------------------------------
(***************************************************************************)
(* The type invariant.                                                     *)
(***************************************************************************)
\* The sizes the ring may get: no smaller than it is, no larger than allowed.
LEMMA NewSizesBound ==
    ASSUME PoolTypeOK, NEW newSize \in NewSizes
    PROVE  newSize \in queue_size .. MaxQueue /\ newSize \in 1 .. MaxQueue
  <1>1. queue_size \in 1 .. MaxQueue /\ MaxQueue \in Nat
    BY PoolAssumption DEF PoolTypeOK
  <1>2. QED  BY <1>1 DEF NewSizes

LEMMA TypeInit == PoolInit => PoolTypeOK
  <1> SUFFICES ASSUME PoolInit PROVE PoolTypeOK
    OBVIOUS
  <1>1. /\ task_queue \in [0 .. MaxQueue - 1 -> 0 .. MaxTasks]
        /\ started \in Seq(0 .. MaxTasks) /\ added \in 0 .. MaxTasks
    BY PoolAssumption DEF PoolInit, NoTask
  <1>2. /\ queue_size \in 1 .. MaxQueue
        /\ queue_head \in 0 .. queue_size - 1 /\ queue_tail \in 0 .. queue_size - 1
        /\ pending_count \in 0 .. queue_size
    BY PoolAssumption DEF PoolInit
  <1>3. /\ shutdown \in {"no", "immediate", "leisurely"}
        /\ worker \in [Workers -> {"none", "ready", "waiting", "running", "exited"}]
        /\ caller \in {"create", "use", "join", "freed"}
    BY DEF PoolInit
  <1>4. torn \in BOOLEAN
    BY DEF PoolInit
  <1>5. QED  BY <1>1, <1>2, <1>3, <1>4 DEF PoolTypeOK

\* A remainder is a slot.
LEMMA RemainderIsSlot ==
    ASSUME NEW a \in Nat, NEW b \in Nat \ {0}
    PROVE  a % b \in 0 .. b - 1
  OBVIOUS

LEMMA TypeStep == PoolTypeOK /\ [PoolNext]_poolVars => PoolTypeOK'
  <1> SUFFICES ASSUME PoolTypeOK, [PoolNext]_poolVars PROVE PoolTypeOK'
    OBVIOUS
  <1> USE DEF PoolTypeOK
  <1>0. MaxQueue \in Nat /\ MaxTasks \in Nat
    BY PoolAssumption
  <1>1. CASE Add
    <2>1. PICK newSize \in NewSizes : Enqueue(newSize)
      BY <1>1 DEF Add
    <2>2. newSize \in queue_size .. MaxQueue /\ newSize \in 1 .. MaxQueue
      BY <2>1, NewSizesBound
    <2>3. queue_tail + 1 \in Nat /\ newSize \in Nat \ {0}
      BY <2>2
    <2>4. (queue_tail + 1) % newSize \in 0 .. newSize - 1
      BY <2>3, RemainderIsSlot
    <2>5. pending_count # queue_size /\ added < MaxTasks
      BY <1>1 DEF Add, RingFull
    <2>6. /\ task_queue' \in [0 .. MaxQueue - 1 -> 0 .. MaxTasks]
          /\ added' \in 0 .. MaxTasks
      <3>1. added + 1 \in 0 .. MaxTasks
        BY <2>5, <1>0
      <3>2. task_queue' = task_queue \/ task_queue' = [task_queue EXCEPT ![queue_tail] = added + 1]
        BY <2>1 DEF Enqueue
      <3>3. added' = added \/ added' = added + 1
        BY <2>1 DEF Enqueue
      <3>4. QED  BY <3>1, <3>2, <3>3
    <2>7. /\ queue_size' \in 1 .. MaxQueue
          /\ queue_head' \in 0 .. queue_size' - 1 /\ queue_tail' \in 0 .. queue_size' - 1
          /\ pending_count' \in 0 .. queue_size'
      <3>1. queue_size' = newSize /\ queue_head' = queue_head
        BY <2>1 DEF Enqueue
      <3>2. queue_tail' \in {queue_tail, (queue_tail + 1) % newSize}
            /\ pending_count' \in {pending_count, pending_count + 1}
        BY <2>1 DEF Enqueue
      <3>3. QED  BY <3>1, <3>2, <2>2, <2>4, <2>5
    <2>8. worker' \in [Workers -> {"none", "ready", "waiting", "running", "exited"}]
      BY <1>1 DEF Add, Signal
    <2>9. UNCHANGED <<shutdown, caller, started>>
      BY <1>1 DEF Add
    <2>10. torn' \in BOOLEAN
      BY <2>1 DEF Enqueue
    <2>11. QED  BY <2>6, <2>7, <2>8, <2>9, <2>10
  <1>2. ASSUME NEW w \in Workers, Take(w) PROVE PoolTypeOK'
    <2>1. (queue_head + 1) % queue_size \in 0 .. queue_size - 1
      <3>1. queue_head + 1 \in Nat /\ queue_size \in Nat \ {0}
        BY <1>0
      <3>2. QED  BY <3>1, RemainderIsSlot
    <2>2. task_queue[queue_head] \in 0 .. MaxTasks
      BY <1>0
    <2>3. started' \in Seq(0 .. MaxTasks)
      BY <1>2, <2>2 DEF Take
    <2>4. queue_head' \in 0 .. queue_size' - 1 /\ pending_count' \in 0 .. queue_size'
      BY <1>2, <2>1 DEF Take
    <2>5. worker' \in [Workers -> {"none", "ready", "waiting", "running", "exited"}]
      BY <1>2 DEF Take
    <2>6. QED  BY <1>2, <2>3, <2>4, <2>5 DEF Take
  <1>3. ASSUME NEW w \in Workers, Sleep(w) \/ Exit(w) \/ Finish(w) PROVE PoolTypeOK'
    BY <1>3 DEF Sleep, Exit, Finish, ringVars
  <1>4. CASE CreateWorker
    BY <1>4 DEF CreateWorker, ringVars
  <1>5. CASE CreateFails
    BY <1>5 DEF CreateFails, Broadcast, ringVars
  <1>6. CASE Destroy
    BY <1>6 DEF Destroy, Broadcast, ringVars
  <1>7. CASE Free
    BY <1>7 DEF Free, ringVars
  <1>8. CASE UNCHANGED poolVars
    BY <1>8 DEF poolVars, ringVars
  <1>9. QED
    BY <1>1, <1>2, <1>3, <1>4, <1>5, <1>6, <1>7, <1>8 DEF PoolNext, WorkerNext

\* Both indices of the ring stay on it and the count stays within its size,
\* whatever it grows to.
THEOREM PoolTypeCorrect == PoolSpec => []PoolTypeOK
  <1>1. QED  BY TypeInit, TypeStep, PTL DEF PoolSpec

-----------------------------------------------------------------------------
(***************************************************************************)
(* No worker sleeps through a task.                                        *)
(***************************************************************************)
LEMMA WorkerSets ==
    ASSUME NEW S \in SUBSET Workers
    PROVE  IsFiniteSet(S) /\ Cardinality(S) \in Nat
  <1>1. IsFiniteSet(Workers)
    BY PoolAssumption, FS_Interval DEF Workers
  <1>2. IsFiniteSet(S)
    BY <1>1, FS_Subset
  <1>3. QED  BY <1>2, FS_CardinalityType

\* One worker more, or one less, is awake.
LEMMA OneMoreAwake ==
    ASSUME NEW S \in SUBSET Workers, NEW w \in Workers \ S
    PROVE  Cardinality(S \cup {w}) = Cardinality(S) + 1
  BY WorkerSets, FS_AddElement

LEMMA OneLessAwake ==
    ASSUME NEW S \in SUBSET Workers, NEW w \in S
    PROVE  Cardinality(S \ {w}) = Cardinality(S) - 1
  BY WorkerSets, FS_RemoveElement

\* With a shutdown nobody sleeps: the broadcast woke all, and no one lies down.
AwakeInv == EnoughAwake /\ (shutdown # "no" => Waiting = {})

LEMMA AwakeInit == PoolInit => AwakeInv
  BY DEF PoolInit, AwakeInv, EnoughAwake, Waiting

LEMMA AwakeStep == PoolTypeOK /\ AwakeInv /\ [PoolNext]_poolVars => AwakeInv'
  <1> SUFFICES ASSUME PoolTypeOK, AwakeInv, [PoolNext]_poolVars PROVE AwakeInv'
    OBVIOUS
  <1>0. /\ worker \in [Workers -> {"none", "ready", "waiting", "running", "exited"}]
        /\ pending_count \in Nat /\ shutdown \in {"no", "immediate", "leisurely"}
        /\ Awake \in SUBSET Workers /\ Cardinality(Awake) \in Nat
        /\ Waiting # {} => Cardinality(Awake) >= pending_count
        /\ shutdown # "no" => Waiting = {}
    <2>1. Awake \in SUBSET Workers
      BY DEF Awake
    <2>2. QED
      BY <2>1, WorkerSets DEF PoolTypeOK, AwakeInv, EnoughAwake
  <1>1. CASE CreateWorker
    <2>1. PICK w \in Workers : worker[w] = "none" /\ worker' = [worker EXCEPT ![w] = "ready"]
      BY <1>1 DEF CreateWorker
    <2>2. Awake' = Awake \cup {w} /\ w \notin Awake /\ Waiting' = Waiting
      BY <2>1, <1>0 DEF Awake, Waiting
    <2>3. Cardinality(Awake') = Cardinality(Awake) + 1
      BY <2>2, <1>0, OneMoreAwake
    <2>4. UNCHANGED <<pending_count, shutdown>>
      BY <1>1 DEF CreateWorker, ringVars
    <2>5. QED  BY <2>2, <2>3, <2>4, <1>0 DEF AwakeInv, EnoughAwake
  <1>2. CASE CreateFails \/ Destroy
    <2>1. Waiting' = {}
      BY <1>2, <1>0 DEF CreateFails, Destroy, Broadcast, Waiting
    <2>2. QED  BY <2>1 DEF AwakeInv, EnoughAwake
  <1>3. CASE Add
    <2>1. PICK newSize \in NewSizes : Enqueue(newSize)
      BY <1>3 DEF Add
    <2>2. shutdown' = shutdown
      BY <1>3 DEF Add
    <2>3. CASE shutdown # "no"
      <3>1. UNCHANGED <<worker, pending_count>>
        BY <1>3, <2>1, <2>3 DEF Add, Enqueue
      <3>2. Waiting' = {}
        BY <3>1, <2>3, <1>0 DEF Waiting
      <3>3. QED  BY <3>2 DEF AwakeInv, EnoughAwake
    <2>4. CASE shutdown = "no" /\ Waiting = {}
      <3>1. worker' = worker
        BY <1>3, <2>4 DEF Add, Signal
      <3>2. Waiting' = {}
        BY <3>1, <2>4 DEF Waiting
      <3>3. QED  BY <3>2 DEF AwakeInv, EnoughAwake
    <2>5. CASE shutdown = "no" /\ Waiting # {}
      <3>1. PICK w \in Waiting : worker' = [worker EXCEPT ![w] = "ready"]
        BY <1>3, <2>5 DEF Add, Signal
      <3>2. w \in Workers /\ worker[w] = "waiting"
        BY <3>1 DEF Waiting
      <3>3. Awake' = Awake \cup {w} /\ w \notin Awake
        BY <3>1, <3>2, <1>0 DEF Awake
      <3>4. Cardinality(Awake') = Cardinality(Awake) + 1
        BY <3>2, <3>3, <1>0, OneMoreAwake
      <3>5. pending_count' = pending_count + 1
        BY <2>1, <2>5 DEF Enqueue
      <3>6. Cardinality(Awake') >= pending_count'
        BY <3>4, <3>5, <2>5, <1>0
      <3>7. QED  BY <3>6, <2>2, <2>5 DEF AwakeInv, EnoughAwake
    <2>6. QED  BY <2>3, <2>4, <2>5
  <1>4. ASSUME NEW w \in Workers, Sleep(w) PROVE AwakeInv'
    <2>1. pending_count' = 0 /\ shutdown' = "no"
      BY <1>4 DEF Sleep, ringVars
    <2>2. Awake' \in SUBSET Workers
      BY DEF Awake
    <2>3. Cardinality(Awake') \in Nat
      BY <2>2, WorkerSets
    <2>4. QED  BY <2>1, <2>3 DEF AwakeInv, EnoughAwake
  <1>5. ASSUME NEW w \in Workers, Exit(w) PROVE AwakeInv'
    <2>1. shutdown # "no" /\ worker' = [worker EXCEPT ![w] = "exited"]
      BY <1>5 DEF Exit, MustExit
    <2>2. Waiting' = {}
      BY <2>1, <1>0 DEF Waiting
    <2>3. QED  BY <2>2 DEF AwakeInv, EnoughAwake
  <1>6. ASSUME NEW w \in Workers, Take(w) PROVE AwakeInv'
    <2>1. /\ worker[w] = "ready" /\ worker' = [worker EXCEPT ![w] = "running"]
          /\ pending_count' = pending_count - 1 /\ shutdown' = shutdown
      BY <1>6 DEF Take
    <2>2. Awake' = Awake \ {w} /\ w \in Awake /\ Waiting' = Waiting
      BY <2>1, <1>0 DEF Awake, Waiting
    <2>3. Cardinality(Awake') = Cardinality(Awake) - 1
      BY <2>2, <1>0, OneLessAwake
    <2>4. QED  BY <2>1, <2>2, <2>3, <1>0 DEF AwakeInv, EnoughAwake
  <1>7. ASSUME NEW w \in Workers, Finish(w) PROVE AwakeInv'
    <2>1. /\ worker[w] = "running" /\ worker' = [worker EXCEPT ![w] = "ready"]
          /\ UNCHANGED <<pending_count, shutdown>>
      BY <1>7 DEF Finish, ringVars
    <2>2. Awake' = Awake \cup {w} /\ w \notin Awake /\ Waiting' = Waiting
      BY <2>1, <1>0 DEF Awake, Waiting
    <2>3. Cardinality(Awake') = Cardinality(Awake) + 1
      BY <2>2, <1>0, OneMoreAwake
    <2>4. QED  BY <2>1, <2>2, <2>3, <1>0 DEF AwakeInv, EnoughAwake
  <1>8. CASE Free \/ UNCHANGED poolVars
    <2>1. UNCHANGED <<worker, pending_count, shutdown>>
      BY <1>8 DEF Free, poolVars, ringVars
    <2>2. Awake' = Awake /\ Waiting' = Waiting
      BY <2>1 DEF Awake, Waiting
    <2>3. QED  BY <2>1, <2>2, <1>0 DEF AwakeInv, EnoughAwake
  <1>9. QED
    BY <1>1, <1>2, <1>3, <1>4, <1>5, <1>6, <1>7, <1>8 DEF PoolNext, WorkerNext

\* While a worker sleeps there are as many workers awake as tasks pending,
\* for any number of workers: one signal for each task is enough.
THEOREM NoTaskSleptThrough == PoolSpec => []EnoughAwake
  <1>1. PoolInit => PoolTypeOK /\ AwakeInv
    BY TypeInit, AwakeInit
  <1>2. PoolTypeOK /\ AwakeInv /\ [PoolNext]_poolVars => (PoolTypeOK /\ AwakeInv)'
    BY TypeStep, AwakeStep
  <1>3. AwakeInv => EnoughAwake
    BY DEF AwakeInv
  <1>4. QED  BY <1>1, <1>2, <1>3, PTL DEF PoolSpec

-----------------------------------------------------------------------------
(***************************************************************************)
(* A leisurely shutdown drops nothing.                                     *)
(***************************************************************************)
\* Every task that was accepted is in the ring or has been started.
CountInv == added = Len(started) + pending_count

\* The workers and the user of the pool: no worker leaves a pool that still
\* has work, unless the shutdown is immediate.
ExitInv ==
    /\ \A w \in Workers : worker[w] = "exited" => MustExit
    /\ caller = "use" \/ shutdown # "no" => \A w \in Workers : worker[w] # "none"
    /\ caller \in {"create", "use"} => shutdown = "no"
    /\ caller = "freed" => \A w \in Workers : worker[w] \in {"none", "exited"}

LEMMA CountInit == PoolInit => CountInv
  BY DEF PoolInit, CountInv

LEMMA CountStep == PoolTypeOK /\ CountInv /\ [PoolNext]_poolVars => CountInv'
  <1> SUFFICES ASSUME PoolTypeOK, CountInv, [PoolNext]_poolVars PROVE CountInv'
    OBVIOUS
  <1>0. /\ started \in Seq(0 .. MaxTasks) /\ Len(started) \in Nat
        /\ pending_count \in Nat /\ added \in Nat /\ added = Len(started) + pending_count
    BY DEF PoolTypeOK, CountInv
  <1>1. CASE Add
    <2>1. started' = started
          /\ \/ UNCHANGED <<pending_count, added>>
             \/ pending_count' = pending_count + 1 /\ added' = added + 1
      BY <1>1 DEF Add, Enqueue
    <2>2. QED  BY <2>1, <1>0 DEF CountInv
  <1>2. ASSUME NEW w \in Workers, Take(w) PROVE CountInv'
    <2>1. /\ started' = Append(started, task_queue[queue_head]) /\ pending_count > 0
          /\ pending_count' = pending_count - 1 /\ added' = added
      BY <1>2 DEF Take
    <2>2. Len(started') = Len(started) + 1
      BY <2>1, <1>0
    <2>3. QED  BY <2>1, <2>2, <1>0 DEF CountInv
  <1>3. ASSUME UNCHANGED <<ringVars, added, started>> PROVE CountInv'
    BY <1>3, <1>0 DEF CountInv, ringVars
  <1>4. PoolNext => \/ Add \/ \E w \in Workers : Take(w)
                \/ UNCHANGED <<ringVars, added, started>>
    BY DEF PoolNext, WorkerNext, CreateWorker, CreateFails, Destroy, Free, Sleep, Exit, Finish
  <1>5. QED  BY <1>1, <1>2, <1>3, <1>4 DEF poolVars

LEMMA ExitInit == PoolInit => ExitInv
  BY DEF PoolInit, ExitInv

LEMMA ExitStep == PoolTypeOK /\ ExitInv /\ [PoolNext]_poolVars => ExitInv'
  <1> SUFFICES ASSUME PoolTypeOK, ExitInv, [PoolNext]_poolVars PROVE ExitInv'
    OBVIOUS
  <1>0. /\ worker \in [Workers -> {"none", "ready", "waiting", "running", "exited"}]
        /\ pending_count \in Nat
    BY DEF PoolTypeOK
  <1> USE DEF ExitInv, MustExit
  <1>1. CASE CreateWorker
    <2>1. PICK w \in Workers :
             /\ \A v \in 1 .. w - 1 : worker[v] # "none"
             /\ worker' = [worker EXCEPT ![w] = "ready"]
             /\ caller' = IF w = ThreadCount THEN "use" ELSE "create"
      BY <1>1 DEF CreateWorker
    <2>2. caller = "create" /\ shutdown = "no" /\ shutdown' = "no"
      BY <1>1 DEF CreateWorker
    <2>3. \A v \in Workers : worker'[v] # "exited"
      BY <2>1, <2>2, <1>0
    <2>4. w = ThreadCount => \A v \in Workers : worker'[v] # "none"
      BY <2>1, <1>0, PoolAssumption DEF Workers
    <2>5. QED  BY <2>1, <2>2, <2>3, <2>4
  <1>2. CASE CreateFails \/ Destroy
    <2>1. \A w \in Workers : worker'[w] = (IF worker[w] = "waiting" THEN "ready" ELSE worker[w])
      BY <1>2 DEF CreateFails, Destroy, Broadcast, Waiting
    <2>2. caller \in {"create", "use"} /\ caller' = "join" /\ shutdown = "no"
      BY <1>2 DEF CreateFails, Destroy
    <2>3. \A w \in Workers : worker'[w] # "exited"
      BY <2>1, <2>2
    <2>4. shutdown' # "no" => caller = "use"
      BY <1>2, <2>2 DEF CreateFails, Destroy
    <2>5. QED  BY <2>1, <2>2, <2>3, <2>4
  <1>3. CASE Add
    <2>1. caller = "use" /\ shutdown = "no" /\ UNCHANGED <<shutdown, caller>>
      BY <1>3 DEF Add
    <2>2. \A w \in Workers : worker'[w] = worker[w] \/ worker'[w] = "ready"
      BY <1>3, <1>0 DEF Add, Signal
    <2>3. QED  BY <2>1, <2>2
  <1>4. ASSUME NEW w \in Workers, Take(w) PROVE ExitInv'
    <2>1. /\ ~MustExit /\ worker[w] = "ready" /\ worker' = [worker EXCEPT ![w] = "running"]
          /\ UNCHANGED <<shutdown, caller>>
      BY <1>4 DEF Take
    <2>2. \A v \in Workers : worker'[v] # "exited"
      BY <2>1, <1>0
    <2>3. QED  BY <2>1, <2>2, <1>0
  <1>5. ASSUME NEW w \in Workers, Sleep(w) \/ Exit(w) \/ Finish(w) PROVE ExitInv'
    <2>1. UNCHANGED <<pending_count, shutdown, caller>>
      BY <1>5 DEF Sleep, Exit, Finish, ringVars
    <2>2. /\ worker[w] \in {"ready", "running"}
          /\ \E s \in {"waiting", "exited", "ready"} : worker' = [worker EXCEPT ![w] = s]
          /\ worker'[w] = "exited" => MustExit
      BY <1>5, <1>0 DEF Sleep, Exit, Finish
    <2>3. QED  BY <2>1, <2>2, <1>0
  <1>6. CASE Free
    BY <1>6 DEF Free, ringVars
  <1>7. CASE UNCHANGED poolVars
    BY <1>7 DEF poolVars, ringVars
  <1>8. QED
    BY <1>1, <1>2, <1>3, <1>4, <1>5, <1>6, <1>7 DEF PoolNext, WorkerNext

\* A pool shut down leisurely is freed only after every task it accepted was
\* started, for any number of workers and tasks and whatever the ring grew to.
THEOREM LeisurelyShutdownDropsNone == PoolSpec => []LeisurelyDropsNone
  <1>1. PoolInit => PoolTypeOK /\ CountInv /\ ExitInv
    BY TypeInit, CountInit, ExitInit
  <1>2. PoolTypeOK /\ CountInv /\ ExitInv /\ [PoolNext]_poolVars => (PoolTypeOK /\ CountInv /\ ExitInv)'
    BY TypeStep, CountStep, ExitStep
  <1>3. PoolTypeOK /\ CountInv /\ ExitInv => LeisurelyDropsNone
    <2>1. SUFFICES ASSUME PoolTypeOK, CountInv, ExitInv, caller = "freed", shutdown = "leisurely"
                   PROVE  Len(started) = added
      BY DEF LeisurelyDropsNone
    <2>2. 1 \in Workers
      BY PoolAssumption DEF Workers
    <2>3. worker[1] = "exited" /\ pending_count = 0
      BY <2>1, <2>2 DEF ExitInv, MustExit
    <2>4. QED  BY <2>1, <2>3 DEF CountInv, PoolTypeOK
  <1>4. QED  BY <1>1, <1>2, <1>3, PTL DEF PoolSpec

-----------------------------------------------------------------------------
(***************************************************************************)
(* The ring of the pool.  queue_head is where the first pending task is,   *)
(* and queue_tail where the next one goes.  A growth keeps both and moves  *)
(* no task, so that this stays true of a ring that does not go round: one  *)
(* whose first pending task is in slot 0.                                  *)
(***************************************************************************)
TaskRingInv ==
    ~torn => /\ queue_tail = (queue_head + pending_count) % queue_size
             /\ RingHoldsPending
             /\ TasksInOrder

\* The slot at a distance from another, up to once round a ring of n slots.
LEMMA SlotAt ==
    ASSUME NEW n \in Nat \ {0}, NEW h \in 0 .. n - 1, NEW i \in 0 .. n
    PROVE  /\ (h + i) % n = IF h + i < n THEN h + i ELSE h + i - n
           /\ (h + i) % n \in 0 .. n - 1
  <1>1. SUFFICES ASSUME NEW a \in 0 .. 2 * n - 1, a = h + i
                 PROVE  a % n = IF a < n THEN a ELSE a - n
    OBVIOUS
  <1>2. QED  BY <1>1

\* Advancing the head, or the tail, by one is one place on the ring.
LEMMA NextSlot ==
    ASSUME NEW n \in Nat \ {0}, NEW h \in 0 .. n - 1, NEW i \in 0 .. n - 1
    PROVE  /\ (((h + i) % n) + 1) % n = (h + (i + 1)) % n
           /\ (h + 1) % n \in 0 .. n - 1
           /\ (((h + 1) % n) + i) % n = (h + (i + 1)) % n
  <1>1. i \in 0 .. n /\ i + 1 \in 0 .. n /\ 1 \in 0 .. n
    OBVIOUS
  <1>2. /\ (h + 1) % n = (IF h + 1 < n THEN h + 1 ELSE h + 1 - n)
        /\ (h + 1) % n \in 0 .. n - 1
    BY <1>1, SlotAt
  <1>3. /\ (h + i) % n = (IF h + i < n THEN h + i ELSE h + i - n)
        /\ (h + i) % n \in 0 .. n - 1
    BY <1>1, SlotAt
  <1>4. (h + (i + 1)) % n = IF h + (i + 1) < n THEN h + (i + 1) ELSE h + (i + 1) - n
    BY <1>1, SlotAt
  <1>5. (((h + i) % n) + 1) % n = (h + (i + 1)) % n
    <2> DEFINE t == (h + i) % n
    <2>1. (t + 1) % n = IF t + 1 < n THEN t + 1 ELSE t + 1 - n
      BY <1>1, <1>3, SlotAt
    <2>2. QED  BY <2>1, <1>1, <1>3, <1>4
  <1>6. (((h + 1) % n) + i) % n = (h + (i + 1)) % n
    <2> DEFINE m == (h + 1) % n
    <2>1. (m + i) % n = IF m + i < n THEN m + i ELSE m + i - n
      BY <1>1, <1>2, SlotAt
    <2>2. QED  BY <2>1, <1>1, <1>2, <1>4
  <1>7. QED  BY <1>2, <1>5, <1>6

\* Different distances below n are different slots.
LEMMA SlotsDiffer ==
    ASSUME NEW n \in Nat \ {0}, NEW h \in 0 .. n - 1, NEW i \in 0 .. n - 1, NEW j \in 0 .. i - 1
    PROVE  (h + i) % n # (h + j) % n
  <1>1. i \in 0 .. n /\ j \in 0 .. n
    OBVIOUS
  <1>2. /\ (h + i) % n = IF h + i < n THEN h + i ELSE h + i - n
        /\ (h + j) % n = IF h + j < n THEN h + j ELSE h + j - n
    BY <1>1, SlotAt
  <1>3. QED  BY <1>1, <1>2

LEMMA TaskRingInit == PoolInit => TaskRingInv
  <1> SUFFICES ASSUME PoolInit PROVE TaskRingInv
    OBVIOUS
  <1>1. queue_tail = 0 /\ queue_head = 0 /\ pending_count = 0 /\ started = << >>
        /\ queue_size = InitialSize /\ InitialSize \in Nat \ {0}
    BY PoolAssumption DEF PoolInit
  <1>2. (0 + 0) % InitialSize = 0
    <2>1. 0 \in 0 .. InitialSize - 1 /\ 0 \in 0 .. InitialSize
      BY <1>1
    <2>2. (0 + 0) % InitialSize = IF 0 + 0 < InitialSize THEN 0 + 0 ELSE 0 + 0 - InitialSize
      BY <1>1, <2>1, SlotAt
    <2>3. QED  BY <1>1, <2>2
  <1>3. queue_tail = (queue_head + pending_count) % queue_size
    BY <1>1, <1>2
  <1>4. 0 .. pending_count - 1 = {} /\ 1 .. Len(started) = {}
    BY <1>1
  <1>5. RingHoldsPending /\ TasksInOrder
    BY <1>4 DEF RingHoldsPending, TasksInOrder
  <1>6. QED  BY <1>3, <1>5 DEF TaskRingInv

\* Where the pending tasks are, and the one that is added, in a ring that may have grown.
LEMMA SlotsKept ==
    ASSUME NEW n \in Nat \ {0}, NEW m \in Nat, n <= m, NEW h \in 0 .. n - 1, NEW p \in 0 .. n - 1,
           m # n => h = 0 /\ p = n - 1
    PROVE  /\ (((h + p) % n) + 1) % m = (h + (p + 1)) % m
           /\ (h + p) % m = (h + p) % n
           /\ \A i \in 0 .. p - 1 : (h + i) % m = (h + i) % n /\ (h + i) % n # (h + p) % n
  <1>1. \A i \in 0 .. p - 1 : (h + i) % n # (h + p) % n
    BY SlotsDiffer
  <1>2. CASE m = n
    <2>1. (((h + p) % n) + 1) % n = (h + (p + 1)) % n
      BY NextSlot
    <2>2. QED  BY <1>1, <1>2, <2>1
  <1>3. CASE m # n
    <2>1. h = 0 /\ p = n - 1 /\ m \in Nat \ {0} /\ n < m
      BY <1>3
    <2>2. ASSUME NEW i \in 0 .. p PROVE (h + i) % m = i /\ (h + i) % n = i
      <3>1. i \in 0 .. n /\ i \in 0 .. m /\ 0 \in 0 .. n - 1 /\ 0 \in 0 .. m - 1 /\ 0 + i = i /\ i < n /\ i < m
        BY <2>1
      <3>2. (0 + i) % n = i
        <4>1. (0 + i) % n = IF 0 + i < n THEN 0 + i ELSE 0 + i - n
          BY <3>1, SlotAt
        <4>2. QED  BY <3>1, <4>1
      <3>3. (0 + i) % m = i
        <4>1. (0 + i) % m = IF 0 + i < m THEN 0 + i ELSE 0 + i - m
          BY <2>1, <3>1, SlotAt
        <4>2. QED  BY <3>1, <4>1
      <3>4. QED  BY <2>1, <3>2, <3>3
    <2>3. p \in 0 .. p /\ \A i \in 0 .. p - 1 : i \in 0 .. p
      BY <2>1
    <2>4. (h + p) % m = p /\ (h + p) % n = p /\ p + 1 = h + (p + 1)
      BY <2>1, <2>2, <2>3
    <2>5. \A i \in 0 .. p - 1 : (h + i) % m = (h + i) % n
      BY <2>2, <2>3
    <2>6. QED  BY <1>1, <2>4, <2>5
  <1>4. QED  BY <1>2, <1>3

LEMMA TaskRingStep ==
    PoolTypeOK /\ CountInv /\ TaskRingInv /\ [PoolNext]_poolVars => TaskRingInv'
  <1> SUFFICES ASSUME PoolTypeOK, CountInv, TaskRingInv, [PoolNext]_poolVars PROVE TaskRingInv'
    OBVIOUS
  <1>7. SUFFICES ASSUME ~torn, ~torn' PROVE TaskRingInv'
    <2>1. torn => torn'
      BY DEF PoolNext, WorkerNext, CreateWorker, CreateFails, Destroy, Free, Sleep, Exit, Finish, Take, Add, Enqueue,
         poolVars, ringVars
    <2>2. QED  BY <2>1 DEF TaskRingInv
  <1> DEFINE n == queue_size
  <1>0. /\ n \in Nat \ {0} /\ n <= MaxQueue /\ MaxQueue \in Nat
        /\ queue_head \in 0 .. n - 1 /\ queue_tail \in 0 .. n - 1
        /\ pending_count \in 0 .. n /\ added = Len(started) + pending_count
        /\ started \in Seq(0 .. MaxTasks) /\ Len(started) \in Nat
        /\ task_queue \in [0 .. MaxQueue - 1 -> 0 .. MaxTasks]
        /\ queue_tail = (queue_head + pending_count) % n
    BY <1>7, PoolAssumption DEF PoolTypeOK, CountInv, TaskRingInv
  <1>1. /\ \A i \in 0 .. pending_count - 1 :
              task_queue[(queue_head + i) % n] = Len(started) + i + 1
        /\ \A i \in 1 .. Len(started) : started[i] = i
    BY <1>0, <1>7 DEF TaskRingInv, RingHoldsPending, TasksInOrder
  <1>2. ASSUME UNCHANGED <<ringVars, started>> PROVE TaskRingInv'
    BY <1>2 DEF TaskRingInv, RingHoldsPending, TasksInOrder, ringVars
  <1>3. CASE Add
    <2>1. pending_count \in 0 .. n - 1
      BY <1>3, <1>0 DEF Add, RingFull
    <2>2. PICK slots \in NewSizes : Enqueue(slots)
      BY <1>3 DEF Add
    <2>3. slots \in n .. MaxQueue /\ queue_size' = slots /\ started' = started
      BY <1>3, <2>2, NewSizesBound DEF Add, Enqueue
    <2>4. slots # n => queue_head = 0 /\ pending_count = n - 1
      <3>1. slots # n => pending_count = n - 1
        BY <2>2 DEF NewSizes
      <3>2. slots # n => queue_head = 0
        BY <1>7, <2>2 DEF Enqueue
      <3>3. QED  BY <3>1, <3>2
    <2>5. slots \in Nat /\ n <= slots /\ slots <= MaxQueue
      BY <2>3, <1>0
    <2> HIDE DEF n
    <2>6. /\ (queue_tail + 1) % slots = (queue_head + (pending_count + 1)) % slots
          /\ (queue_head + pending_count) % slots = queue_tail
          /\ \A i \in 0 .. pending_count - 1 :
                (queue_head + i) % slots = (queue_head + i) % n /\ (queue_head + i) % n # queue_tail
      <3> DEFINE h == queue_head
                 p == pending_count
      <3>1. /\ n \in Nat \ {0} /\ slots \in Nat /\ n <= slots /\ h \in 0 .. n - 1 /\ p \in 0 .. n - 1
            /\ slots # n => h = 0 /\ p = n - 1
        BY <1>0, <2>1, <2>4, <2>5
      <3>2. queue_tail = (h + p) % n
        BY <1>0
      <3> HIDE DEF h, p
      <3>3. /\ (((h + p) % n) + 1) % slots = (h + (p + 1)) % slots
            /\ (h + p) % slots = (h + p) % n
            /\ \A i \in 0 .. p - 1 : (h + i) % slots = (h + i) % n /\ (h + i) % n # (h + p) % n
        <4>1. n \in Nat \ {0}
          BY <3>1
        <4>2. slots \in Nat
          BY <3>1
        <4>3. n <= slots
          BY <3>1
        <4>4. h \in 0 .. n - 1
          BY <3>1
        <4>5. p \in 0 .. n - 1
          BY <3>1
        <4>6. slots # n => h = 0 /\ p = n - 1
          BY <3>1
        <4> HIDE <3>1
        <4>7. QED  BY <4>1, <4>2, <4>3, <4>4, <4>5, <4>6, SlotsKept, ZenonT(60)
      <3>4. QED  BY <3>2, <3>3 DEF h, p
    <2>7. CASE shutdown # "no"
      <3>1. UNCHANGED <<task_queue, queue_head, queue_tail, pending_count>>
        BY <2>2, <2>7 DEF Enqueue
      <3>2. queue_tail' = (queue_head' + pending_count') % queue_size'
        BY <2>3, <2>6, <3>1
      <3>3. \A i \in 0 .. pending_count' - 1 : task_queue'[(queue_head' + i) % queue_size'] = Len(started') + i + 1
        BY <1>1, <2>3, <2>6, <3>1
      <3>4. RingHoldsPending' /\ TasksInOrder'
        BY <1>1, <2>3, <3>3 DEF RingHoldsPending, TasksInOrder
      <3>5. QED  BY <3>2, <3>4 DEF TaskRingInv
    <2>8. CASE shutdown = "no"
      <3>1. /\ queue_head' = queue_head /\ task_queue' = [task_queue EXCEPT ![queue_tail] = added + 1]
            /\ queue_tail' = (queue_tail + 1) % slots /\ pending_count' = pending_count + 1
        BY <2>2, <2>8 DEF Enqueue
      <3>2. queue_tail' = (queue_head' + pending_count') % queue_size'
        BY <2>3, <2>6, <3>1
      <3>3. ASSUME NEW i \in 0 .. pending_count
            PROVE  task_queue'[(queue_head + i) % slots] = Len(started) + i + 1
        <4>1. CASE i = pending_count
          <5>1. queue_tail \in 0 .. MaxQueue - 1
            BY <1>0
          <5>2. task_queue'[queue_tail] = added + 1
            BY <1>0, <3>1, <5>1
          <5>3. QED  BY <1>0, <2>6, <4>1, <5>2
        <4>2. CASE i # pending_count
          <5>1. i \in 0 .. pending_count - 1 /\ i \in 0 .. n
            BY <4>2, <1>0
          <5>2. (queue_head + i) % n \in 0 .. MaxQueue - 1
            <6>1. (queue_head + i) % n \in 0 .. n - 1
              BY <5>1, <1>0, SlotAt
            <6>2. QED  BY <6>1, <1>0
          <5>3. task_queue'[(queue_head + i) % n] = task_queue[(queue_head + i) % n]
            BY <1>0, <2>6, <3>1, <5>1, <5>2
          <5>4. QED  BY <1>1, <2>6, <5>1, <5>3
        <4>3. QED  BY <4>1, <4>2
      <3>4. 0 .. pending_count' - 1 = 0 .. pending_count
        BY <3>1, <1>0
      <3>5. RingHoldsPending' /\ TasksInOrder'
        BY <1>1, <2>3, <3>1, <3>3, <3>4 DEF RingHoldsPending, TasksInOrder
      <3>6. QED  BY <3>2, <3>5 DEF TaskRingInv
    <2>9. QED  BY <2>7, <2>8
  <1>4. ASSUME NEW w \in Workers, Take(w) PROVE TaskRingInv'
    <2>1. /\ started' = Append(started, task_queue[queue_head])
          /\ queue_head' = (queue_head + 1) % n
          /\ pending_count' = pending_count - 1 /\ pending_count > 0
          /\ UNCHANGED <<task_queue, queue_size, queue_tail>>
      BY <1>4, <1>0 DEF Take
    <2>2. task_queue[queue_head] = Len(started) + 1
      <3>1. 0 \in 0 .. pending_count - 1 /\ 0 \in 0 .. n
        BY <2>1, <1>0
      <3>2. (queue_head + 0) % n = queue_head
        <4>1. (queue_head + 0) % n
                 = IF queue_head + 0 < n THEN queue_head + 0 ELSE queue_head + 0 - n
          BY <3>1, <1>0, SlotAt
        <4>2. QED  BY <4>1, <1>0
      <3>3. task_queue[(queue_head + 0) % n] = Len(started) + 0 + 1
        BY <3>1, <1>1
      <3>4. task_queue[queue_head] = Len(started) + 0 + 1
        BY <3>2, <3>3
      <3>5. QED  BY <3>4, <1>0
    <2>3. Len(started') = Len(started) + 1 /\ TasksInOrder'
      <3>1. /\ Len(started') = Len(started) + 1
            /\ \A i \in 1 .. Len(started) : started'[i] = started[i]
            /\ started'[Len(started) + 1] = Len(started) + 1
        BY <2>1, <2>2, <1>0
      <3>2. Len(started) \in Nat
        BY <1>0
      <3>3. ASSUME NEW i \in 1 .. Len(started')
            PROVE  started'[i] = i
        <4>1. i \in 1 .. Len(started) \/ i = Len(started) + 1
          BY <3>1, <3>2
        <4>2. CASE i \in 1 .. Len(started)
          BY <4>2, <3>1, <1>1 DEF TasksInOrder
        <4>3. CASE i = Len(started) + 1
          BY <4>3, <3>1
        <4>4. QED  BY <4>1, <4>2, <4>3
      <3>4. QED  BY <3>1, <3>3 DEF TasksInOrder
    <2>4. ASSUME NEW i \in 0 .. pending_count - 1
          PROVE  (queue_head' + i) % n = (queue_head + (i + 1)) % n
      <3>1. i \in 0 .. n - 1
        BY <1>0
      <3>2. QED  BY <3>1, <2>1, <1>0, NextSlot
    <2>5. queue_tail' = (queue_head' + pending_count') % n
      <3>1. pending_count - 1 \in 0 .. pending_count - 1 /\ (pending_count - 1) + 1 = pending_count
        BY <2>1, <1>0
      <3>2. (queue_head' + (pending_count - 1)) % n
               = (queue_head + ((pending_count - 1) + 1)) % n
        BY <3>1, <2>4
      <3>3. QED  BY <3>1, <3>2, <2>1, <1>0
    <2>6. ASSUME NEW i \in 0 .. pending_count' - 1
          PROVE  task_queue'[(queue_head' + i) % n] = Len(started') + i + 1
      <3>1. i \in 0 .. pending_count - 1 /\ i + 1 \in 0 .. pending_count - 1
        BY <2>1, <1>0
      <3>2. task_queue[(queue_head + (i + 1)) % n] = Len(started) + (i + 1) + 1
        BY <3>1, <1>1
      <3>3. (queue_head' + i) % n = (queue_head + (i + 1)) % n
        BY <3>1, <2>4
      <3>4. task_queue' = task_queue
        BY <2>1
      <3>5. QED  BY <3>1, <3>2, <3>3, <3>4, <2>3, <1>0
    <2>7. RingHoldsPending'
      BY <2>1, <2>6, <1>0 DEF RingHoldsPending
    <2>8. QED  BY <2>1, <2>3, <2>5, <2>7, <1>0 DEF TaskRingInv
  <1>5. PoolNext => \/ Add \/ \E w \in Workers : Take(w)
                \/ UNCHANGED <<ringVars, started>>
    BY DEF PoolNext, WorkerNext, CreateWorker, CreateFails, Destroy, Free, Sleep, Exit, Finish
  <1>6. QED  BY <1>2, <1>3, <1>4, <1>5 DEF poolVars

\* The tasks of a pool are started in the order they were added, each once, for any
\* number of workers racing for them and a ring of any size that grows as often as it
\* likes, until a growth finds it gone round its end (which ijk_threadpool_add does not
\* see to: run pool_grow).
THEOREM TasksStartInOrder == PoolSpec => []TasksInOrder
  <1>1. PoolInit => PoolTypeOK /\ CountInv /\ TaskRingInv
    BY TypeInit, CountInit, TaskRingInit
  <1>2. PoolTypeOK /\ CountInv /\ TaskRingInv /\ [PoolNext]_poolVars => (PoolTypeOK /\ CountInv /\ TaskRingInv)'
    BY TypeStep, CountStep, TaskRingStep
  <1>3. TaskRingInv => TasksInOrder
    BY DEF TaskRingInv, TasksInOrder
  <1>4. QED  BY <1>1, <1>2, <1>3, PTL DEF PoolSpec

\* Every task that was accepted is served: no worker sleeps it through while the
\* pool is in use, and a leisurely shutdown leaves none behind.
THEOREM TasksAreServed == PoolSpec => []TasksServed
  <1>1. TasksServed <=> EnoughAwake /\ LeisurelyDropsNone
    BY DEF TasksServed
  <1>2. QED  BY <1>1, NoTaskSleptThrough, LeisurelyShutdownDropsNone, PTL

=============================================================================
