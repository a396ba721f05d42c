---------------------------- MODULE GroupDocument ----------------------------
(***************************************************************************)
(* A file of messages, element by element, as GroupReader meets it: an     *)
(* envelope of messages of the reader's family and of others, whose blocks *)
(* have the same names.  It also says, from the structure alone, what      *)
(* covers each place of the file (said) and which row it is due (due).     *)
(*                                                                         *)
(* A block says its texts first, then come its heads and the other blocks  *)
(* and records in it, as in every schema of these messages.                *)
(***************************************************************************)
EXTENDS GroupReader

CONSTANTS
  MaxMessages, \* messages in a file
  MaxOpens,    \* messages and blocks in a file
  MaxTexts,    \* texts of one block
  Irregular    \* whether a group may state a case of its own

VARIABLES
  layout,   \* where the messages keep what they say (MCGroupRows)
  open,     \* the open elements: [block, tag, no], outermost first
  message,  \* the message that is open: "none", "own" or "foreign"
  messages, \* messages so far
  opens,    \* messages and blocks so far
  stage,    \* how far the innermost block is: "leaves", "heads" or "body"
  said,     \* [field -> what covers the place, in the order it was said]
  asked,    \* a record of this message was due a row
  due,      \* the row the last event was due, or Null
  sound,    \* nothing so far was unreadable
  met,      \* a message of the family was opened
  gave      \* a row was due

where == <<layout, open, message, messages, opens>>
documentVars == <<where, stage, said, asked, due, sound, met, gave>>

\* What a map says of b, nothing if it does not mention it.
Of(map, b) == IF b \in DOMAIN map THEN map[b] ELSE {}

-----------------------------------------------------------------------------
(* What covers a place, in the layout l.                                 *)

Within(l, b) == Of(l.within, b)
After(l, b)  == Of(l.after, b)

\* The block that says a field; the message, if no block does.
HomeOf(l, f) ==
  LET homes == {b \in DOMAIN l.under : f \in Within(l, b) \cup After(l, b)}
  IN  IF homes = {} THEN "Message" ELSE CHOOSE b \in homes : TRUE

\* The block throughout which holds what is said of a field.
ScopeOf(l, f) ==
  LET home == HomeOf(l, f)
  IN  IF f \in After(l, home) THEN l.under[home] ELSE home

Depth(l, b) == CASE b = "Message" -> 1
                 [] b # "Message" /\ l.under[b] = "Message" -> 2
                 [] OTHER -> 3

Children(l, b) == {c \in DOMAIN l.under : l.under[c] = b}

\* The fields a block says.
Home(b) == {f \in topic : HomeOf(layout, f) = b}

\* What ends with a block: what it said for its inside, and what its heads said
\* for what followed them.
Closing(b) == {f \in topic : ScopeOf(layout, f) = b}

Unsaid(fields) == [f \in topic |-> IF f \in fields THEN <<>> ELSE said[f]]

Sets(f)  == Of(family.set, f)
Fills(f) == Of(family.fill, f)

\* What a field is, all said: every text of a list; else the preferred form, or
\* the first of the others.
Meant(f) ==
  LET preferred == {i \in DOMAIN said[f] : said[f][i].how = "set"}
  IN  CASE f \in family.lists \/ said[f] = <<>> -> said[f]
        [] OTHER -> <<said[f][IF preferred = {} THEN 1 ELSE Min(preferred)]>>

-----------------------------------------------------------------------------
(* The row a place is due: what a record says for itself, or else what the *)
(* innermost block says that says anything, always as a whole.             *)

\* How deep in the message the place is where a source of a bundle holds.
Reach(l, source) ==
  Max({Depth(l, ScopeOf(l, source[k])) : k \in DOMAIN source})

DueBundle(b, own) ==
  LET columns == DOMAIN b.sources[1]
      says(i) == \E k \in columns : said[b.sources[i][k]] # <<>>
      reach(i) == Reach(layout, b.sources[i])
      sayers == {i \in DOMAIN b.sources : says(i)}
  IN  [k \in columns |->
         IF DOMAIN own \cap columns # {}
         THEN IF k \in DOMAIN own THEN <<own[k]>> ELSE <<>>
         ELSE IF sayers = {} THEN <<>>
         ELSE Meant(b.sources[CHOOSE i \in sayers :
                                \A j \in sayers : reach(i) >= reach(j)][k])]

DueRow(level, own) ==
  [level |-> level, bundles |-> {DueBundle(b, own) : b \in Bundles(level)}]

-----------------------------------------------------------------------------
\* The columns the topic is about.
Columns ==
  UNION {DOMAIN b.sources[1] :
           b \in UNION {Bundles(level) : level \in DOMAIN family.rows}}

Event(tag, name) ==
  [tag |-> tag, name |-> name, at |-> <<>>, value |-> Null, own |-> NoneOwn,
   sound |-> TRUE]

Says(f, no, n, how) == [of |-> f, in |-> no, n |-> n, how |-> how]

Innermost == open[Len(open)]

\* A block has said what it must.
LeavesDone ==
  \A f \in Home(Innermost.block) :
    /\ f \in layout.required => said[f] # <<>>
    /\ f \in DOMAIN layout.needs /\ said[f] # <<>> =>
         \E g \in layout.needs[f] \cap topic : said[g] # <<>>

Reading == result = "reading"

DocumentInit(schema) ==
  /\ layout = schema
  /\ open = <<>> /\ message = "none" /\ messages = 0 /\ opens = 0
  /\ stage = "body" /\ said = [f \in topic |-> <<>>]
  /\ asked = FALSE /\ due = Null /\ sound = TRUE /\ met = FALSE /\ gave = FALSE

EnvelopeOpens ==
  /\ Reading /\ open = <<>> /\ messages = 0
  /\ open' = <<[block |-> "Envelope", tag |-> "Envelope", no |-> 0]>>
  /\ due' = Null
  /\ UNCHANGED <<layout, message, messages, opens, stage, said, asked, sound,
                 met, gave>>
  /\ Reads(Event("open", "Envelope"))

\* Messages of the family come under each of its names.
MessageOpens ==
  /\ Reading /\ Len(open) = 1 /\ messages < MaxMessages /\ opens < MaxOpens
  /\ \E kind \in {"own", "foreign"} :
       LET tags == family.containers
           tag  == IF kind = "foreign" THEN "OtherMsg"
                   ELSE tags[(messages % Len(tags)) + 1]
       IN  /\ message' = kind
           /\ met' = (met \/ kind = "own")
           /\ open' = Append(open, [block |-> "Message", tag |-> tag,
                                    no |-> opens + 1])
           /\ Reads(Event("open", tag))
  /\ messages' = messages + 1 /\ opens' = opens + 1
  /\ stage' = "leaves" /\ asked' = FALSE /\ due' = Null
  /\ UNCHANGED <<layout, said, sound, gave>>

BlockOpens ==
  /\ Reading /\ message # "none" /\ opens < MaxOpens /\ LeavesDone
  /\ \E b \in Children(layout, Innermost.block) :
       /\ b \in layout.heads =>
            \/ stage = "leaves"
            \/ stage = "heads" /\ b \in layout.many
       /\ open' = Append(open, [block |-> b, tag |-> b, no |-> opens + 1])
       /\ said' = IF message = "own" THEN Unsaid(After(layout, b)) ELSE said
       /\ Reads(Event("open", b))
  /\ opens' = opens + 1 /\ stage' = "leaves" /\ due' = Null
  /\ UNCHANGED <<layout, message, messages, asked, sound, met, gave>>

\* A text of the block, at a place its reader knows.  One that is not of a list
\* is said once in each form; where no form is preferred, as of a reason code,
\* it may be said again.
Saying(f, how, ok) ==
  LET value == Says(f, Innermost.no, Len(said[f]) + 1, how)
  IN  /\ IF f \in family.lists \/ Sets(f) = {}
         THEN Len(said[f]) < 2
         ELSE \A i \in DOMAIN said[f] : said[f][i].how # how
      /\ \E t \in IF how = "set" THEN Sets(f) ELSE Fills(f) :
           Reads([Event("leaf", "") EXCEPT
                    !.at = IF t[1] = Innermost.tag THEN Tail(t) ELSE t,
                    !.value = value, !.sound = ok])
      /\ said' = [said EXCEPT ![f] = Append(@, value)]
      /\ sound' = (sound /\ ok)

\* A text of the innermost block, while its reader has room for one.
TextSaid ==
  /\ Reading /\ message = "own" /\ stage = "leaves"
  /\ MapThenSumSet(LAMBDA f : Len(said[f]), Home(Innermost.block)) < MaxTexts
  /\ \E f \in Home(Innermost.block), how \in {"set", "fill"}, ok \in BOOLEAN :
       Saying(f, how, ok)
  /\ due' = Null
  /\ UNCHANGED <<where, stage, asked, met, gave>>

\* A text of another message, anywhere; or a case that is the group's own.
TextStrays ==
  /\ Reading /\ stage = "leaves"
  /\ \E f \in topic, how \in {"set", "fill"} :
       /\ \/ message = "foreign"
          \/ /\ Irregular /\ message = "own"
             /\ Innermost.block \in DOMAIN layout.strays
             /\ f \in layout.strays[Innermost.block]
       /\ \E t \in IF how = "set" THEN Sets(f) ELSE Fills(f) :
            Reads([Event("leaf", "") EXCEPT
                     !.at = t, !.value = Says(f, Innermost.no, 0, how)])
  /\ stage' = IF message = "own" THEN stage ELSE "body"
  /\ due' = Null
  /\ UNCHANGED <<where, said, asked, sound, met, gave>>

\* Nothing, or one column.
Statable == {{}} \cup {{k} : k \in layout.own \cap Columns}

\* A record with what it states for itself, and one that cannot be read.
RecordMet ==
  /\ Reading /\ message = "own" /\ LeavesDone
  /\ Innermost.block \in layout.records
  /\ \E name \in family.records, stated \in Statable, ok \in BOOLEAN :
       LET own == [k \in stated |-> Says(k, 0, 1, "set")]
       IN  /\ due' = IF ok THEN DueRow("TRANSACTION", own) ELSE Null
           /\ sound' = (sound /\ ok) /\ gave' = (gave \/ ok)
           /\ Reads([Event("record", name) EXCEPT !.own = own, !.sound = ok])
  /\ asked' = TRUE /\ stage' = "body"
  /\ UNCHANGED <<where, said, met>>

\* A detail of a case, once.
DetailMet ==
  /\ Reading /\ message = "own" /\ Innermost.block = "Message"
  /\ \E name \in DOMAIN family.details, ok \in BOOLEAN :
       LET f == family.details[name]
           value == Says(f, Innermost.no, 1, "set")
       IN  /\ f \in topic /\ said[f] = <<>>
           /\ said' = [said EXCEPT ![f] = <<value>>]
           /\ sound' = (sound /\ ok)
           /\ Reads([Event("record", name) EXCEPT
                       !.value = value, !.sound = ok])
  /\ due' = Null
  /\ UNCHANGED <<where, stage, asked, met, gave>>

\* An element of the same name in another message, with a text in it.
RecordElsewhere ==
  /\ Reading /\ message = "foreign" /\ stage = "leaves"
  /\ \E name \in family.records \cup DOMAIN family.details, f \in topic :
       \E t \in Sets(f) \cup Fills(f) :
         Reads([Event("record", name) EXCEPT
                  !.at = t, !.value = Says(f, Innermost.no, 0, "set")])
  /\ due' = Null /\ stage' = "body"
  /\ UNCHANGED <<where, said, asked, sound, met, gave>>

\* The level of the row the end of the innermost block is due, or Null.
EndDue ==
  LET b == Innermost.block
  IN  IF /\ message = "own" /\ b \in DOMAIN layout.gives
         /\ layout.gives[b] = "GROUP" /\ b = "Message" => ~asked
      THEN layout.gives[b] ELSE Null

\* The innermost element closes; ok is FALSE when an amount of the row it is due
\* cannot be read.
ElementEnds ==
  /\ Reading /\ open # <<>> /\ (message # "none" => LeavesDone)
  /\ \E ok \in BOOLEAN :
       /\ ~ok => EndDue # Null /\ Innermost.block \in layout.amounts
       /\ due' = IF EndDue # Null /\ ok THEN DueRow(EndDue, NoneOwn) ELSE Null
       /\ gave' = (gave \/ (EndDue # Null /\ ok))
       /\ sound' = (sound /\ ok)
       /\ Reads([Event("close", Innermost.tag) EXCEPT !.sound = ok])
  /\ open' = SubSeq(open, 1, Len(open) - 1)
  /\ message' = IF Len(open) = 2 THEN "none" ELSE message
  /\ said' = IF message # "own" THEN said
             ELSE IF Innermost.block = "Message" THEN [f \in topic |-> <<>>]
             ELSE Unsaid(Closing(Innermost.block))
  /\ stage' = IF Innermost.block \in layout.heads THEN "heads" ELSE "body"
  /\ UNCHANGED <<layout, messages, opens, asked, met>>

\* The input ends, wherever it is.
InputEnds ==
  /\ Reading
  /\ due' = Null
  /\ UNCHANGED <<where, stage, said, asked, sound, met, gave>>
  /\ Reads(Event("eof", ""))
=============================================================================
