----------------------------- MODULE MtMessages ------------------------------
(***************************************************************************)
(* What the readers of SWIFT MT files share (src/mt940.rs, src/mt942.rs,   *)
(* src/mt101.rs, src/mt103.rs, src/mt104.rs, src/mt202.rs): messages come  *)
(* one at a time out of MtReader, and each reader answers for those that   *)
(* are its own.  A message is a record [type, block1, body]: what block 2  *)
(* says it is (or Null), whether it has a block 1, and what is in block 4. *)
(***************************************************************************)
EXTENDS Integers, Sequences, SequencesExt

CONSTANTS
  Null,
  Corpora  \* a sequence of [mt |-> reader, files |-> some files it is given]

VARIABLES
  mt,           \* the reader: the number of its messages
  file,         \* the messages next_message will return
  at_message,   \* the message taken last
  saw_my_type,
  row,          \* the row the last step completed, or Null
  result        \* "reading", "ended" or "failed"

given == <<mt, file>>
messagesVars == <<given, at_message, saw_my_type, row, result>>

MessagesInit ==
  /\ \E k \in DOMAIN Corpora : mt = Corpora[k].mt /\ file \in Corpora[k].files
  /\ at_message = 0 /\ saw_my_type = FALSE
  /\ row = Null /\ result = "reading"

\* claims: the type says it, or the mandatory field of a body without blocks.
Claims(m, mandatory) ==
  CASE m.type # Null -> m.type = mt
    [] m.block1      -> FALSE
    [] OTHER         -> mandatory

\* The message next_message returns.
Message == file[at_message + 1]

Taking ==
  /\ result = "reading" /\ at_message < Len(file)
  /\ at_message' = at_message + 1

PassesOver == row' = Null /\ UNCHANGED <<given, saw_my_type, result>>

\* next_message has no more: a file without a message of this type is the wrong
\* file.
NoMore ==
  /\ result = "reading" /\ at_message = Len(file)
  /\ result' = IF saw_my_type THEN "ended" ELSE "failed"
  /\ row' = Null
  /\ UNCHANGED <<given, at_message, saw_my_type>>
=============================================================================
