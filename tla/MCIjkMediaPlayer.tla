--------------------------- MODULE MCIjkMediaPlayer ---------------------------
(* Instances of IjkMediaPlayer for TLC. *)
EXTENDS IjkMediaPlayer

StartPosition == {0}                \* every seek goes to the start
StartAndEnd == {0, 1}               \* 1 is the end of the stream when Duration = 1
===============================================================================
