---------------------------- MODULE TextContract ----------------------------
(***************************************************************************)
(* What a byte source promises the reader above it (src/encoding.rs,       *)
(* ADR 0010), whatever way its file's bytes arrive: the reader is handed   *)
(* the file's text from the start, piece by piece, it is told the text     *)
(* has ended only when all of it was handed over and every byte of the     *)
(* file was text, and it is told of an error only when some byte was not.  *)
(***************************************************************************)
EXTENDS Integers, Sequences

CONSTANT Text(_, _)   \* the text of a file up to its first byte that is none
CONSTANT Sound(_, _)  \* every byte of the file is text

VARIABLES
  file,      \* the bytes
  declares,  \* what the file declares to be its encoding
  handed,    \* the text handed over so far
  told       \* what the reader was last told: "nothing", "text", "end", "error"

vars == <<file, declares, handed, told>>

Init == handed = <<>> /\ told = "nothing"

Hand ==
  /\ handed' # handed
  /\ \E n \in 1 .. Len(Text(file, declares)) :
       handed' = SubSeq(Text(file, declares), 1, n)
  /\ Len(handed') > Len(handed)
  /\ told' = "text"

End ==
  /\ Sound(file, declares) /\ handed = Text(file, declares)
  /\ told' = "end" /\ UNCHANGED handed

Fail ==
  /\ ~Sound(file, declares)
  /\ told' = "error" /\ UNCHANGED handed

Next == (Hand \/ End \/ Fail) /\ UNCHANGED <<file, declares>>

Spec == Init /\ [][Next]_vars
=============================================================================
