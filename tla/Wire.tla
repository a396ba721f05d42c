-------------------------------- MODULE Wire --------------------------------
(***************************************************************************)
(* What every XML reader of the repository shares (src/wire.rs): matching  *)
(* a path tail, and consuming the subtree of one element event by event,   *)
(* either recorded (record_subtree) or dropped (skip_subtree).             *)
(*                                                                         *)
(* An event is a record [tag, name, ident, value, sound]:                  *)
(*   "start", "empty", "end"  a tag, its local name, and the message       *)
(*                            identifier its namespaces carry (or Null)    *)
(*   "text"                   value: what the text says; sound: whether it *)
(*                            can be unescaped and is valid UTF-8          *)
(*   "eof"                    the end of the input, wherever it comes      *)
(***************************************************************************)
EXTENDS Integers, Sequences

CONSTANTS
  Null,      \* Rust's None, SQL's NULL
  SubtreeCap \* MAX_SUBTREE_BYTES, in events

ASSUME WireAssumption == SubtreeCap \in Nat \ {0}

\* The path ends with the tail.
EndsWith(path, tail) ==
  /\ Len(path) >= Len(tail)
  /\ SubSeq(path, Len(path) - Len(tail) + 1, Len(path)) = tail

\* The names below position d of the path are exactly tail.
Under(path, d, tail) == SubSeq(path, d + 1, Len(path)) = tail

\* The subtree whose start tag was just read.  A kept one has its text and its
\* size watched, a skipped one neither.
Subtree(name, keep) ==
  [name |-> name, keep |-> keep, depth |-> 1, size |-> 1, sound |-> TRUE]

\* The event that closes the subtree: its name may nest inside itself.
Closes(sub, e) == e.tag = "end" /\ e.name = sub.name /\ sub.depth = 1

\* What makes the subtree an error at this event: it was already over the cap,
\* or the input ends inside it.
Breaks(sub, e) == (sub.keep /\ sub.size > SubtreeCap) \/ e.tag = "eof"

\* One more event of the subtree.
Consume(sub, e) ==
  [sub EXCEPT
     !.depth = CASE e.tag = "start" /\ e.name = sub.name -> @ + 1
                 [] e.tag = "end" /\ e.name = sub.name   -> @ - 1
                 [] OTHER                                -> @,
     !.size  = IF sub.keep THEN @ + 1 ELSE @,
     !.sound = @ /\ (sub.keep /\ e.tag = "text" => e.sound)]

\* Mutant: the end of the input is the end of the document.
CutShortNever(path, e) == FALSE

\* next_event: an end of input inside an element is refused.
CutShort(path, e) == e.tag = "eof" /\ path # <<>>
=============================================================================
