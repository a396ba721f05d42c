------------------------------ MODULE MtFramer ------------------------------
(***************************************************************************)
(* MtReader (src/mt.rs): one SWIFT MT message at a time out of a file that *)
(* may hold many.  take_line assembles a line across the fills of the      *)
(* buffer; next_message decides, line by line, where a message ends.       *)
(***************************************************************************)
EXTENDS MtFile

VARIABLES
  pc,          \* "idle", "take", "fill", "lf", "frame", "ended" or "failed"
  line,        \* the line take_line is assembling
  seen,        \* it has seen a byte of it
  pending,     \* the tail of a line that begins the next message, or Null
  msg,         \* the lines of the message under construction
  has_block1, has_field20,
  taken,       \* lines read out of the file
  began,       \* the line the message under construction began at
  returned,    \* the message the last call returned, or Null
  wanted,      \* the one the writer wrote there, or Null
  interrupts

framerVars == <<pc, line, seen, pending, msg, has_block1, has_field20, taken,
                began, returned, wanted, interrupts>>
vars == <<fileVars, framerVars>>
written == <<setting, mode, open, here, width, lineNo, sound, lastCr, ended>>
framed == <<msg, has_block1, has_field20, began>>
answer == <<returned, wanted>>

Init ==
  /\ FileInit
  /\ pc = "idle" /\ line = <<>> /\ seen = FALSE /\ pending = Null
  /\ msg = <<>> /\ has_block1 = FALSE /\ has_field20 = FALSE
  /\ taken = 0 /\ began = 1
  /\ returned = Null /\ wanted = Null
  /\ interrupts = 0

\* A reader calls next_message.
Call ==
  /\ pc = "idle"
  /\ pc' = "take"
  /\ msg' = <<>> /\ has_block1' = FALSE /\ has_field20' = FALSE
  /\ returned' = Null /\ wanted' = Null
  /\ UNCHANGED <<fileVars, line, seen, pending, taken, began, interrupts>>

-----------------------------------------------------------------------------
(* take_line.                                                              *)

TakePending ==
  /\ pc = "take" /\ pending # Null
  /\ line' = pending /\ pending' = Null
  /\ pc' = "frame"
  /\ UNCHANGED <<fileVars, seen, framed, taken, answer, interrupts>>

TakeLine ==
  /\ pc = "take" /\ pending = Null
  /\ line' = <<>> /\ seen' = FALSE
  /\ pc' = "fill"
  /\ UNCHANGED <<fileVars, pending, framed, taken, answer, interrupts>>

\* A read the line needs is under way.
Waiting ==
  /\ pc \in {"fill", "lf"} /\ ~filled
  /\ Write \/ Fill
  /\ UNCHANGED <<setting, framerVars>>

\* The first terminator in the buffer, 0 for none.
Terminator ==
  LET ends == {i \in DOMAIN buf : buf[i] \in {"lf", "cr"}}
  IN  IF ends = {} THEN 0 ELSE Min(ends)

Piece == IF Terminator = 0 THEN buf ELSE SubSeq(buf, 1, Terminator - 1)

\* Mutant: bytes that are not UTF-8 are replaced.
LineTakenLossy(bytes) ==
  /\ taken' = taken + 1
  /\ pc' = "frame"
  /\ line' = IF taken = 0 /\ bytes # <<>> /\ bytes[1] = "bom"
             THEN Tail(bytes) ELSE bytes

\* The line with all its bytes, as text: it must be UTF-8, and the first of the
\* file may open with a byte order mark.
LineTaken(bytes) ==
  /\ taken' = taken + 1
  /\ IF \E i \in DOMAIN bytes : bytes[i] = "x"
     THEN pc' = "failed" /\ line' = bytes
     ELSE /\ pc' = "frame"
          /\ line' = IF taken = 0 /\ bytes # <<>> /\ bytes[1] = "bom"
                     THEN Tail(bytes) ELSE bytes

\* Mutant: a line is not measured while it accumulates.
TooLongNever == FALSE

TooLong == Len(line) + Len(Piece) > setting.limit

LineGoesOn ==
  /\ pc = "fill" /\ buf # <<>> /\ filled /\ ~TooLong /\ Terminator = 0
  /\ line' = line \o Piece /\ seen' = TRUE
  /\ Consumes(Len(buf))
  /\ UNCHANGED <<written, due, pc, pending, framed, taken, answer, interrupts>>

LineEnds ==
  /\ pc = "fill" /\ buf # <<>> /\ filled /\ ~TooLong /\ Terminator # 0
  /\ seen' = TRUE
  /\ Consumes(Terminator)
  /\ IF buf[Terminator] = "cr"
     THEN pc' = "lf" /\ line' = line \o Piece /\ UNCHANGED taken
     ELSE LineTaken(line \o Piece)
  /\ UNCHANGED <<written, due, pending, framed, answer, interrupts>>

LineTooLong ==
  /\ pc = "fill" /\ buf # <<>> /\ filled /\ TooLong
  /\ pc' = "failed"
  /\ UNCHANGED <<fileVars, line, seen, pending, framed, taken, answer,
                 interrupts>>

\* After a CR: the LF that may follow is part of the same line end.
SkipLf ==
  /\ pc = "lf" /\ filled
  /\ IF buf # <<>> /\ buf[1] = "lf" THEN Consumes(1) ELSE UNCHANGED <<buf, filled>>
  /\ LineTaken(line)
  /\ UNCHANGED <<written, due, seen, pending, framed, answer, interrupts>>

\* The read that looks for it is interrupted: the line is complete as it is.
SkipInterrupted ==
  /\ pc = "lf" /\ ~filled /\ buf = <<>> /\ interrupts < setting.interrupts
  /\ interrupts' = interrupts + 1
  /\ LineTaken(line)
  /\ UNCHANGED <<fileVars, seen, pending, framed, answer>>

\* The end of the file ends the line that was begun.
LastLine ==
  /\ pc = "fill" /\ buf = <<>> /\ filled /\ seen
  /\ LineTaken(line)
  /\ UNCHANGED <<fileVars, seen, pending, framed, answer, interrupts>>

-----------------------------------------------------------------------------
(* next_message: what one line does.                                       *)

HasText(m) == \E i \in DOMAIN m : Trim(m[i]) # <<>>

Returns(m) ==
  /\ pc' = "idle"
  /\ returned' = [line |-> began', lines |-> m]
  /\ wanted' = IF due = <<>> THEN Null ELSE due[1]
  /\ due' = IF due = <<>> THEN due ELSE Tail(due)

\* The message is over: it is returned if there is any, else the search goes on.
EndsMessage ==
  /\ UNCHANGED began
  /\ IF HasText(msg) THEN Returns(msg)
     ELSE pc' = "take" /\ UNCHANGED <<due, answer>>
  /\ UNCHANGED <<msg, has_block1, has_field20, pending>>

\* Where the next message begins in the line, 0 for nowhere: at the first `{1:`
\* that is not this message's own.
Blocks == {i \in DOMAIN line : line[i] = "H"}

Boundary ==
  LET others == IF has_block1 \/ Blocks = {} THEN Blocks
                ELSE Blocks \ {Min(Blocks)}
  IN  IF others = {} THEN 0 ELSE Min(others)

IsReference == line # <<>> /\ line[1] = "T"
IsSeparator == Trim(line) = <<"S">>
NextReference == ~has_block1 /\ has_field20 /\ IsReference
Preamble == msg = <<>> /\ Blocks = {} /\ ~IsReference
BareEnd == ~has_block1 /\ Trim(line) = <<"D">>

\* The first text of a message says where it began.
Begins == began' = IF msg = <<>> THEN taken ELSE began

FrameSeparator == IsSeparator /\ EndsMessage

\* Mutant: the tail of the line is dropped with the line.
FrameBoundaryDropsTail ==
  /\ ~IsSeparator /\ Boundary # 0
  /\ IF Boundary > 1
     THEN Begins /\ msg' = Append(msg, SubSeq(line, 1, Boundary - 1))
     ELSE UNCHANGED <<began, msg>>
  /\ UNCHANGED pending
  /\ Returns(msg')
  /\ UNCHANGED <<has_block1, has_field20>>

FrameBoundary ==
  /\ ~IsSeparator /\ Boundary # 0
  /\ IF Boundary > 1
     THEN Begins /\ msg' = Append(msg, SubSeq(line, 1, Boundary - 1))
     ELSE UNCHANGED <<began, msg>>
  /\ pending' = SubSeq(line, Boundary, Len(line))
  /\ Returns(msg')
  /\ UNCHANGED <<has_block1, has_field20>>

FrameReference ==
  /\ ~IsSeparator /\ Boundary = 0 /\ NextReference
  /\ UNCHANGED <<began, msg, has_block1, has_field20>>
  /\ pending' = line
  /\ Returns(msg)

\* What is before the first message belongs to none.
FramePreamble ==
  /\ ~IsSeparator /\ Boundary = 0 /\ ~NextReference /\ Preamble
  /\ pc' = "take"
  /\ UNCHANGED <<framed, pending, due, answer>>

\* A statement without blocks ends at its own terminator.
FrameBareEnd ==
  /\ ~IsSeparator /\ Boundary = 0 /\ ~NextReference /\ ~Preamble /\ BareEnd
  /\ EndsMessage

Belongs ==
  /\ ~IsSeparator /\ Boundary = 0 /\ ~NextReference /\ ~Preamble /\ ~BareEnd

FrameTooLong ==
  /\ Belongs
  /\ Size(msg) + Len(line) > setting.limit
  /\ pc' = "failed"
  /\ UNCHANGED <<framed, pending, due, answer>>

FrameLine ==
  /\ Belongs
  /\ Size(msg) + Len(line) <= setting.limit
  /\ has_block1' = (has_block1 \/ Blocks # {})
  /\ has_field20' = (has_field20 \/ IsReference)
  /\ Begins
  /\ msg' = Append(msg, line)
  /\ pc' = "take"
  /\ UNCHANGED <<pending, due, answer>>

Frame ==
  /\ pc = "frame"
  /\ \/ FrameSeparator \/ FrameBoundary \/ FrameReference \/ FramePreamble
     \/ FrameBareEnd \/ FrameTooLong \/ FrameLine
  /\ UNCHANGED <<written, buf, filled, line, seen, taken, interrupts>>

\* The file is over: the message begun in it is the last one, whole or not.
FileEnds ==
  /\ pc = "fill" /\ buf = <<>> /\ filled /\ ~seen
  /\ UNCHANGED began
  /\ IF HasText(msg) THEN Returns(msg)
     ELSE pc' = "ended" /\ UNCHANGED <<due, answer>>
  /\ UNCHANGED <<written, buf, filled, line, seen, pending, msg, has_block1,
                 has_field20, taken, interrupts>>

\* The scan of this file is over.
Over == pc \in {"ended", "failed"} /\ UNCHANGED vars

Next ==
  \/ Call \/ TakePending \/ TakeLine \/ Waiting
  \/ LineGoesOn \/ LineEnds \/ LineTooLong \/ SkipLf \/ SkipInterrupted
  \/ LastLine \/ Frame \/ FileEnds \/ Over

Spec == Init /\ [][Next]_vars

-----------------------------------------------------------------------------
(* Properties.                                                             *)

\* Whatever the line ends, separators and glue, and wherever the reads cut the
\* file, next_message returns the messages of the file, each with its text and
\* the line it begins on, in order, and ends only when it has returned them all
\* (mt.rs, MtReader).  A read that is interrupted is left out: see README.
FramedAsWritten ==
  interrupts = 0 =>
    /\ returned = wanted
    /\ pc = "ended" => due = <<>> /\ open = Null

\* A file is refused only for bytes that are not UTF-8, or for a line or a
\* message that is too long, and what is returned is UTF-8.
RefusedForCause ==
  /\ pc = "failed" /\ interrupts = 0 => ~sound
  /\ returned # Null =>
       \A i \in DOMAIN returned.lines :
         \A j \in DOMAIN returned.lines[i] : returned.lines[i][j] # "x"

\* The message returned was cut where the next one begins, inside a line.
CutInALine == pc = "idle" /\ pending # Null /\ pending[1] = "H"

\* No line passes the ceiling, neither the one being assembled nor the one put
\* aside.  A message passes it by no more than its last line end, with one
\* exception: the text in front of a `{1:` is added to the message it ends
\* without a look at the ceiling, so that message and what is put aside come to
\* no more than twice the ceiling and two line ends (MtReader::limit, "The
\* ceiling on one assembled message"; the exception is a finding, see README).
Bounded ==
  /\ pc \in {"fill", "lf", "frame"} => Len(line) <= setting.limit
  /\ pending # Null => Len(pending) <= setting.limit
  /\ IF CutInALine THEN Size(msg) + Len(pending) <= 2 * setting.limit + 2
     ELSE Size(msg) <= setting.limit + 1
=============================================================================
