----------------------------- MODULE PacketQueue -----------------------------
(***************************************************************************)
(* The packet queue of ff_ffplay.c between the read thread and a decoder,  *)
(* as functions on one record.  Each function is one section under the     *)
(* queue's mutex.  The serial counts the flush packets that were put: it   *)
(* is how a decoder tells packets from before a seek from those after it.  *)
(***************************************************************************)
EXTENDS Integers, Sequences

\* A packet: its serial, and what is in it - a flush packet, a null packet
\* that ends the stream, or the data read at some position of the input.
FlushPkt == -1
NullPkt  == -2

\* packet_queue_init leaves the queue aborted until packet_queue_start.
ClosedQueue == [pkts |-> << >>, serial |-> 0, abort_request |-> TRUE]

PutPrivate(q, data) ==
    LET serial == IF data = FlushPkt THEN q.serial + 1 ELSE q.serial
    IN  IF q.abort_request
        THEN q
        ELSE [q EXCEPT !.serial = serial,
                       !.pkts = Append(@, [data |-> data, serial |-> serial])]

QueueFlush(q) == [q EXCEPT !.pkts = << >>]
QueueStart(q) == PutPrivate([q EXCEPT !.abort_request = FALSE], FlushPkt)
QueueAbort(q) == [q EXCEPT !.abort_request = TRUE]

Gettable(q)   == ~q.abort_request /\ q.pkts # << >>
QueueGot(q)   == Head(q.pkts)
QueueGet(q)   == [q EXCEPT !.pkts = Tail(@)]
=============================================================================
