----------------------------- MODULE DecodedInput ----------------------------
(***************************************************************************)
(* One file as a byte source (src/lib.rs Input, src/encoding.rs): the      *)
(* guard reads a bounded prefix, settles which encoding the file declares, *)
(* decodes the prefix and puts it back; every later read hands the prefix  *)
(* out first and then what the Transcoder decodes from short raw reads, or *)
(* the raw bytes when the file is UTF-8.                                   *)
(*                                                                         *)
(* The declared encoding is abstracted to four kinds of byte: "s" is a     *)
(* character of its own, "l" begins one that "t" completes, and "x" is no  *)
(* character.  In UTF-8 a one-byte character takes one unit and a two-byte *)
(* one takes three.                                                        *)
(***************************************************************************)
EXTENDS Integers, Sequences, SequencesExt

CONSTANTS
  MaxBytes,      \* length of the files considered
  PrefixBytes,   \* PREFIX_BYTES
  StagingBytes,  \* STAGING_BYTES, the size of both staging buffers
  BufBytes       \* the largest buffer a caller reads into

ASSUME InputAssumption ==
  /\ {MaxBytes, PrefixBytes, BufBytes} \subseteq Nat \ {0}
  /\ StagingBytes \in Nat /\ StagingBytes >= 3  \* the widest character

VARIABLES
  file,      \* the bytes of the file
  declares,  \* "utf8", "known" (an encoding that is not UTF-8) or "unknown"
  keeps,     \* the guard is the sniffer's, which keeps a failure
  at,        \* how many bytes of the file were read
  guard,     \* "opening", "passed", "refused", or "failed" (Input.failed)
  replay,    \* the prefix put back and not yet read
  lead,      \* the decoder holds the first byte of a character
  raw,       \* raw[raw_at..raw_end]
  out,       \* out[out_at..out_end]
  eof, done, failed,  \* Transcoder
  want,      \* the size of the read under way, 0 when there is none
  handed, told        \* what the reader got: see TextContract

vars == <<file, declares, keeps, at, guard, replay, lead, raw, out, eof, done,
          failed, want, handed, told>>
inputs == <<file, declares, keeps>>
decoder == <<lead, raw, out, eof, done, failed>>

Kinds == {"s", "l", "t", "x"}

\* The UTF-8 units of the character a byte completes.
Units(b) == CASE b = "s" -> <<"s">> [] b = "t" -> <<"lt1", "lt2", "lt3">>
              [] OTHER -> <<>>

-----------------------------------------------------------------------------
(* What a file says, read as a whole.                                      *)

\* Byte i is part of a character.
IsText(f, i) ==
  CASE f[i] = "s" -> TRUE
    [] f[i] = "l" -> i < Len(f) /\ f[i + 1] = "t"
    [] f[i] = "t" -> i > 1 /\ f[i - 1] = "l"
    [] OTHER      -> FALSE

\* A UTF-8 file is passed on as it is: quick-xml judges its text.
Sound(f, d) ==
  CASE d = "utf8"  -> TRUE
    [] d = "known" -> \A i \in DOMAIN f : IsText(f, i)
    [] OTHER       -> FALSE

Text(f, d) ==
  CASE d = "utf8"  -> f
    [] d = "known" ->
         LET good == {n \in 0 .. Len(f) : \A i \in 1 .. n : IsText(f, i)}
             last == CHOOSE n \in good : \A m \in good : m <= n
         IN  FlattenSeq([i \in 1 .. last |-> Units(f[i])])
    [] OTHER       -> <<>>

Contract == INSTANCE TextContract

-----------------------------------------------------------------------------
(* The decoder.                                                            *)

\* A step of the decoder: what it has done so far is d, a record [lead, text,
\* left, stop] whose stop is "none" while it goes on.
Takes(d, b, open) ==
  [d EXCEPT !.lead = open, !.text = @ \o Units(b),
            !.left = SubSeq(@, 2, Len(@))]
Stops(d, why) == [d EXCEPT !.stop = why]

DecodeByte(d, b, room) ==
  IF d.stop # "none" THEN d
  ELSE CASE b = (IF d.lead THEN "t" ELSE "s") ->
              IF Len(d.text \o Units(b)) <= room THEN Takes(d, b, FALSE)
              ELSE Stops(d, "full")
         [] b = "l" /\ ~d.lead -> Takes(d, b, TRUE)
         [] OTHER -> Stops(d, "malformed")

\* decode_to_utf8_without_replacement: the bytes into at most room units.  A
\* character still open when the last bytes are in is malformed.
Decode(bytes, open, room, last) ==
  LET d == FoldLeft(LAMBDA acc, b : DecodeByte(acc, b, room),
                    [lead |-> open, text |-> <<>>, left |-> bytes,
                     stop |-> "none"],
                    bytes)
  IN  IF d.stop = "none" /\ last /\ d.lead THEN [d EXCEPT !.stop = "malformed"]
      ELSE IF d.stop = "none" THEN [d EXCEPT !.stop = "empty"] ELSE d

-----------------------------------------------------------------------------
Init ==
  /\ file \in UNION {[1 .. n -> Kinds] : n \in 0 .. MaxBytes}
  /\ declares \in {"utf8", "known", "unknown"}
  /\ keeps \in BOOLEAN
  /\ at = 0
  /\ guard = "opening"
  /\ replay = <<>>
  /\ lead = FALSE /\ raw = <<>> /\ out = <<>>
  /\ eof = FALSE /\ done = FALSE /\ failed = FALSE
  /\ want = 0
  /\ handed = <<>> /\ told = "nothing"

\* The prefix: PrefixBytes of the file, or all of a shorter one.
Prefix == SubSeq(file, 1, IF Len(file) < PrefixBytes THEN Len(file)
                          ELSE PrefixBytes)

\* What the decoder makes of the prefix; its buffer is sized so that it fits.
Decoded == Decode(Prefix, FALSE, 2 * PrefixBytes, FALSE)

Refused ==
  declares = "unknown" \/ (declares = "known" /\ Decoded.stop = "malformed")

\* Mutant: the decoder starts again after the prefix.
SettleDropsLead ==
  /\ guard = "opening" /\ ~Refused
  /\ guard' = "passed"
  /\ at' = Len(Prefix)
  /\ replay' = IF declares = "known" THEN Decoded.text ELSE Prefix
  /\ UNCHANGED <<inputs, lead, raw, out, eof, done, failed, want, handed, told>>

\* settle_encoding, and a guard that finds nothing else to refuse.
Settle ==
  /\ guard = "opening" /\ ~Refused
  /\ guard' = "passed"
  /\ at' = Len(Prefix)
  /\ IF declares = "known"
     THEN replay' = Decoded.text /\ lead' = Decoded.lead
     ELSE replay' = Prefix /\ UNCHANGED lead
  /\ UNCHANGED <<inputs, raw, out, eof, done, failed, want, handed, told>>

\* The guard's error ends the scan; the sniffer's guard keeps it for the first
\* read instead.
SettleFails ==
  /\ guard = "opening" /\ Refused
  /\ at' = Len(Prefix)
  /\ IF keeps THEN guard' = "failed" /\ UNCHANGED told
     ELSE guard' = "refused" /\ told' = "error"
  /\ UNCHANGED <<inputs, replay, decoder, want, handed>>

-----------------------------------------------------------------------------
(* Input::read.                                                            *)

MinOf(a, b) == IF a <= b THEN a ELSE b
First(s, n) == SubSeq(s, 1, MinOf(n, Len(s)))
From(s, n)  == SubSeq(s, n + 1, Len(s))

Idle == guard \in {"passed", "failed"} /\ want = 0

\* The first n units of what is ready go to the caller.
Hand(n, ready) == handed' = handed \o First(ready, n) /\ told' = "text"

ReadFails ==
  /\ Idle /\ guard = "failed"
  /\ told' = "error"
  /\ UNCHANGED <<inputs, at, guard, replay, decoder, want, handed>>

ReadReplay(n) ==
  /\ Idle /\ guard = "passed" /\ replay # <<>>
  /\ Hand(n, replay)
  /\ replay' = From(replay, n)
  /\ UNCHANGED <<inputs, at, guard, decoder, want>>

\* A read of the file gives at least one byte until the end, and no more than
\* is asked for.
Short(n) == {k \in 0 .. MinOf(n, Len(file) - at) : k = 0 => at = Len(file)}

ReadBytes(n) ==
  /\ Idle /\ guard = "passed" /\ replay = <<>> /\ declares = "utf8"
  /\ \E k \in Short(n) :
       /\ at' = at + k
       /\ handed' = handed \o SubSeq(file, at + 1, at + k)
       /\ told' = IF k = 0 THEN "end" ELSE "text"
  /\ UNCHANGED <<inputs, guard, replay, decoder, want>>

ReadOut(n) ==
  /\ Idle /\ guard = "passed" /\ replay = <<>> /\ declares = "known"
  /\ out # <<>>
  /\ Hand(n, out)
  /\ out' = From(out, n)
  /\ UNCHANGED <<inputs, at, guard, replay, lead, raw, eof, done, failed, want>>

\* Nothing is decoded and waiting: refill.
ReadRefills(n) ==
  /\ Idle /\ guard = "passed" /\ replay = <<>> /\ declares = "known"
  /\ out = <<>> /\ ~failed
  /\ want' = n
  /\ UNCHANGED <<inputs, at, guard, replay, decoder, handed, told>>

\* The decoder has failed before, and says so again.
ReadMalformed ==
  /\ Idle /\ guard = "passed" /\ replay = <<>> /\ declares = "known"
  /\ out = <<>> /\ failed
  /\ told' = "error"
  /\ UNCHANGED <<inputs, at, guard, replay, decoder, want, handed>>

-----------------------------------------------------------------------------
(* refill, one turn of its loop at a time.                                 *)

\* What the decoder makes of the bytes in hand, the last of the file if last.
\* Text, a failure, or the end answers the read; anything else turns again.
Turn(bytes, last) ==
  LET d == Decode(bytes, lead, StagingBytes, last)
  IN  /\ lead' = d.lead /\ raw' = d.left
      /\ failed' = (d.stop = "malformed")
      /\ done' = (last /\ d.stop = "empty")
      /\ want' = IF d.text # <<>> \/ done' \/ failed' THEN 0 ELSE want
      /\ IF failed' THEN told' = "error" /\ out' = d.text /\ UNCHANGED handed
         ELSE IF d.text # <<>> THEN Hand(want, d.text) /\ out' = From(d.text, want)
         ELSE /\ told' = IF done' THEN "end" ELSE told
              /\ UNCHANGED <<out, handed>>

\* Mutant: the decoder is never told that the file is over.
RefillWithoutEnd ==
  /\ want # 0 /\ ~done
  /\ IF raw = <<>> /\ ~eof
     THEN \E k \in Short(StagingBytes) :
            /\ at' = at + k
            /\ eof' = FALSE
            /\ Turn(SubSeq(file, at + 1, at + k), FALSE)
     ELSE UNCHANGED <<at, eof>> /\ Turn(raw, eof)
  /\ UNCHANGED <<inputs, guard, replay>>

\* A raw read when the last one is used up, then the decoder.
Refill ==
  /\ want # 0 /\ ~done
  /\ IF raw = <<>> /\ ~eof
     THEN \E k \in Short(StagingBytes) :
            /\ at' = at + k
            /\ eof' = (k = 0)
            /\ Turn(SubSeq(file, at + 1, at + k), k = 0)
     ELSE UNCHANGED <<at, eof>> /\ Turn(raw, eof)
  /\ UNCHANGED <<inputs, guard, replay>>

\* The decoder has flushed its last character.
RefillOver ==
  /\ want # 0 /\ done
  /\ told' = "end" /\ want' = 0
  /\ UNCHANGED <<inputs, at, guard, replay, decoder, handed>>

Read ==
  \/ ReadFails \/ ReadMalformed
  \/ \E n \in 1 .. BufBytes :
       ReadReplay(n) \/ ReadBytes(n) \/ ReadOut(n) \/ ReadRefills(n)

\* A refused file is not read.
Over == guard = "refused" /\ UNCHANGED vars

Next == Settle \/ SettleFails \/ Read \/ Refill \/ RefillOver \/ Over

Spec == Init /\ [][Next]_vars

\* A read that was called runs to its return.
FairSpec == Spec /\ WF_vars(Refill \/ RefillOver)

-----------------------------------------------------------------------------
(* Properties.                                                             *)

\* However the file's bytes arrive, wherever a character is cut - by the prefix,
\* by a raw read, by a caller's short buffer - the reader gets the text of the
\* whole file, never a false end of it, and an error only for a file that is not
\* what it declares (encoding.rs refill, read; lib.rs Input).
Implements == Contract!Spec

\* A read comes back: a raw read that ends inside a character is read on from,
\* and the loop ends when the file does.
ReadsReturn == want # 0 ~> want = 0
=============================================================================
