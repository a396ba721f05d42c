------------------------------- MODULE MtFile -------------------------------
(***************************************************************************)
(* A SWIFT MT file as a bank writes it, byte by byte, handed over through  *)
(* a buffer that holds as many bytes as the last read happened to give.    *)
(* It is the environment of MtFramer.                                      *)
(*                                                                         *)
(* The file is any sequence of messages with blocks (from `{1:` on) and of *)
(* bare statements (from a `:20:` line on), with the line ends, the        *)
(* separators and the glue real files have.  The writer knows where its    *)
(* messages begin and end, which is what the framer has to find out.       *)
(*                                                                         *)
(* A byte is one of                                                        *)
(*   "H" `{1:`   "T" `:20:`   "D" `-`   "S" `$`   "w" a blank, a control   *)
(*   "t" other text   "x" not UTF-8   "bom"   "lf"   "cr"                  *)
(***************************************************************************)
EXTENDS Integers, Sequences, SequencesExt

CONSTANTS
  Null,
  BufBytes,  \* the largest read
  MaxLines,  \* lines of a file
  Settings   \* the readers, and the files they are given:
             \*   limit       MAX_MESSAGE_BYTES
             \*   width       the most bytes of a line
             \*   texts       the bytes of text, `{1:` and `:20:` aside
             \*   interrupts  how often a read is interrupted by a signal

ASSUME FileAssumption ==
  /\ {BufBytes, MaxLines} \subseteq Nat \ {0}
  /\ \A s \in Settings :
       /\ {s.limit, s.width} \subseteq Nat \ {0} /\ s.interrupts \in Nat
       /\ s.texts \subseteq {"D", "S", "w", "t", "x"}

Texts == {"D", "S", "w", "t", "x", "T", "H"}

\* A message: the line it begins on, and its text line by line.
Messages == [line : Nat, lines : Seq(Seq(Texts))]

\* What is missing is no message and no line.
ASSUME NullAssumption == Null \notin Messages /\ Null \notin Seq(Texts)

VARIABLES
  setting, \* the one of Settings at hand
  mode,    \* what the writer is in: "none", "blocks" or "bare"
  open,    \* the message it is writing [line, lines], or Null
  here,    \* what the current line holds so far of it
  width,   \* how many bytes the current line has so far
  lineNo,  \* the number of the current line
  due,     \* the messages written and not yet handed over by the framer
  sound,   \* all of the file is UTF-8, and no line or message is too long
  buf,     \* the bytes in the reader's buffer
  filled,  \* the last read is over: buf is what it gave, nothing at the end
  lastCr,  \* the last byte was a CR
  ended    \* the file ends here

fileVars == <<setting, mode, open, here, width, lineNo, due, sound, buf,
              filled, lastCr, ended>>

\* line_body: a line without blanks and controls around it.
Trim(s) ==
  LET kept == {i \in DOMAIN s : s[i] # "w"}
  IN  IF kept = {} THEN <<>> ELSE SubSeq(s, Min(kept), Max(kept))

\* The bytes of a message, each line with its end.
Size(lines) == FoldLeft(LAMBDA n, l : n + Len(l) + 1, 0, lines)

FileInit ==
  /\ setting \in Settings
  /\ mode = "none" /\ open = Null /\ here = <<>> /\ lineNo = 1
  /\ due = <<>> /\ sound = TRUE
  /\ buf \in {<<>>, <<"bom">>} /\ width = Len(buf)
  /\ filled = FALSE /\ lastCr = FALSE /\ ended = FALSE

Begun == [line |-> lineNo, lines |-> <<>>]

\* The open message with what the current line holds.
WithHere == [open EXCEPT !.lines = IF here = <<>> THEN @ ELSE Append(@, here)]

\* The byte is on the current line: is anything too long by now?
Longer ==
  /\ width < setting.width /\ width' = width + 1
  /\ sound' = (/\ sound
               /\ here'[Len(here')] # "x"
               /\ width' <= setting.limit
               /\ \/ open' = Null
                  \/ Size(open'.lines) + Len(here') <= setting.limit)
  /\ lastCr' = FALSE

Put(byte) ==
  /\ ~filled /\ ~ended /\ Len(buf) < BufBytes
  /\ buf' = Append(buf, byte)
  /\ UNCHANGED <<filled, ended>>

\* Any text; `:20:` inside a line or inside block 4 is text.
WriteText(byte) ==
  /\ Put(byte)
  /\ byte \in setting.texts \/ (byte = "T" /\ (here # <<>> \/ mode = "blocks"))
  /\ here' = Append(here, byte)
  /\ UNCHANGED <<mode, open, lineNo, due>>
  /\ Longer

\* A message with blocks: on a line of its own, or glued to the one before.
WriteBlock ==
  /\ Put("H")
  /\ mode = "blocks" \/ (mode = "none" /\ Trim(here) = <<>>)
  /\ mode' = "blocks" /\ open' = Begun
  /\ due' = IF mode = "blocks" THEN Append(due, WithHere) ELSE due
  /\ here' = IF mode = "blocks" THEN <<"H">> ELSE Append(here, "H")
  /\ UNCHANGED lineNo
  /\ Longer

\* A bare statement; the next one may follow without a terminator between.
WriteReference ==
  /\ Put("T")
  /\ mode # "blocks" /\ here = <<>>
  /\ mode' = "bare" /\ open' = Begun
  /\ due' = IF mode = "bare" THEN Append(due, open) ELSE due
  /\ here' = <<"T">>
  /\ UNCHANGED lineNo
  /\ Longer

\* The current line ends the message it stands in, and belongs to neither it
\* nor the next.
Terminates ==
  Trim(here) = <<"S">> \/ (mode = "bare" /\ Trim(here) = <<"D">>)

\* LF, CR, or CR LF; the LF of a pair ends nothing more.
WriteLineEnd(byte) ==
  /\ Put(byte)
  /\ lastCr' = (byte = "cr")
  /\ IF byte = "lf" /\ lastCr
     THEN UNCHANGED <<mode, open, here, width, lineNo, due, sound>>
     ELSE /\ lineNo < MaxLines /\ lineNo' = lineNo + 1
          /\ here' = <<>> /\ width' = 0
          /\ mode' = IF Terminates THEN "none" ELSE mode
          /\ due' = IF Terminates /\ open # Null THEN Append(due, open) ELSE due
          /\ open' = IF open = Null \/ Terminates THEN Null
                     ELSE [open EXCEPT !.lines = Append(@, here)]
          /\ sound' = (/\ sound
                       /\ \/ open' = Null
                          \/ Size(open'.lines) - 1 <= setting.limit)

\* The end of the file ends the line and the message.
WriteEnd ==
  /\ ~filled /\ ~ended
  /\ ended' = TRUE /\ mode' = "none" /\ open' = Null
  /\ due' = IF open = Null THEN due
            ELSE Append(due, IF Terminates THEN open ELSE WithHere)
  /\ UNCHANGED <<here, width, lineNo, sound, buf, filled, lastCr>>

\* A read gives what was written since the last one, or the end.
Fill ==
  /\ ~filled /\ (buf # <<>> \/ ended)
  /\ filled' = TRUE
  /\ UNCHANGED <<mode, open, here, width, lineNo, due, sound, buf, lastCr, ended>>

Write ==
  \/ \E byte \in setting.texts \union {"T"} : WriteText(byte)
  \/ WriteBlock \/ WriteReference
  \/ \E byte \in {"lf", "cr"} : WriteLineEnd(byte)
  \/ WriteEnd

\* The reader takes n bytes out of the buffer; an empty one is filled anew.
Consumes(n) ==
  /\ buf' = SubSeq(buf, n + 1, Len(buf))
  /\ filled' = (n < Len(buf))
=============================================================================
