------------------------------ MODULE KeptFifo ------------------------------
(***************************************************************************)
(* What a frame queue of ff_ffplay.c promises to the decoder that fills it *)
(* and to the thread that shows or plays its frames: frames come out in    *)
(* the order they went in, none is lost or repeated, no more than Capacity *)
(* are held, and the queues opened with keep_last hold on to the frame     *)
(* taken last until the next one is taken.                                 *)
(***************************************************************************)
EXTENDS Naturals, Sequences

CONSTANTS Frames,     \* what may be put in; None is not one of them
          Capacity, KeepLast

VARIABLES ready,    \* frames put in and not yet taken, oldest first
          last      \* the frame taken last and still held, or None

vars == <<ready, last>>

None == 0

Held == Len(ready) + (IF last = None THEN 0 ELSE 1)

Init == ready = << >> /\ last = None

Put(frame) ==
    /\ Held < Capacity
    /\ ready' = Append(ready, frame)
    /\ UNCHANGED last

Take ==
    /\ ready # << >>
    /\ last' = IF KeepLast THEN Head(ready) ELSE None
    /\ ready' = Tail(ready)

Next == Take \/ \E frame \in Frames : Put(frame)

Spec == Init /\ [][Next]_vars
=============================================================================
