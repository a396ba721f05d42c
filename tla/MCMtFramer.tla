----------------------------- MODULE MCMtFramer ------------------------------
(***************************************************************************)
(* Finite instances of MtFramer for TLC.                                   *)
(***************************************************************************)
EXTENDS MtFramer

\* No limit is near: every shape of file, with lines of two bytes of any kind
\* and of three bytes of any two kinds of text.
Shapes ==
  {[limit |-> 20, width |-> 2, texts |-> {"D", "S", "w"}, interrupts |-> 0]}
  \cup [limit : {20}, width : {3}, interrupts : {0},
        texts : {{"D", "S"}, {"D", "w"}, {"S", "w"}}]

\* Lines and messages at the limit and past it, and bytes that are no text.
Limits == [limit |-> 3, width |-> 4, texts |-> {"t", "x"}, interrupts |-> 1]

FramesSettings == Shapes \cup {Limits}
=============================================================================
