----------------------------- MODULE MCPlayback -----------------------------
(***************************************************************************)
(* One video stream for TLC: a few packets, a frame queue of two slots and *)
(* one or two seeks into the input while it is read, decoded and shown.    *)
(***************************************************************************)
EXTENDS Playback
=============================================================================
