------------------------------- MODULE MCScan -------------------------------
(***************************************************************************)
(* Finite instances of Scan for TLC.                                       *)
(***************************************************************************)
EXTENDS Scan

CONSTANT none  \* `threads` not given

File(rows, end) == [rows |-> rows, end |-> end]

\* Files of every ending: no rows, one short batch, exactly one batch, two
\* batches and a rest (VectorSize = 2): nine batches in three files are more than
\* the channel and two threads hold together.
MixedKinds ==
  {File(0, "ok"), File(2, "ok"), File(5, "ok"), File(0, "refused"),
   File(1, "bad"), File(2, "panic")}

DefaultOrOne == {none, 0}
=============================================================================
