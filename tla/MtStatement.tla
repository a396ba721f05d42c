----------------------------- MODULE MtStatement -----------------------------
(***************************************************************************)
(* The two statement readers over framed MT messages (src/mt940.rs,        *)
(* src/mt942.rs) and the two walks over a statement's body they rest on    *)
(* (src/mt.rs): without_entries collects the fields of the statement and   *)
(* counts its entries, EntryCursor then finds the entries one region at a  *)
(* time.  Nothing but the rule they share makes the two agree.             *)
(*                                                                         *)
(* A body is a sequence of lines, each one of                              *)
(*   "60" "62" "34F" "90" "86"   a field with that number                  *)
(*   "61" "61x"                  a statement line; one that cannot be read *)
(*   "60x" "34Fx"                one of those that cannot be read          *)
(*   "more" "blank" "end"        a continuation, an empty line, `-` or `-}` *)
(* and the text of a line is its number.                                   *)
(***************************************************************************)
EXTENDS MtMessages

VARIABLE open  \* Statement / Report: [body, fields, at, region, emitted]

Statements == {"940", "942"}

-----------------------------------------------------------------------------
(* Lines and fields.                                                       *)

Tag(kind) ==
  CASE kind = "61x" -> "61"
    [] kind = "60x" -> "60"
    [] kind = "34Fx" -> "34F"
    [] kind \in {"more", "blank", "end"} -> Null
    [] OTHER -> kind

\* Mutant: a narrative is a field wherever it stands.
ClassifyNoNarrative(kind, entry, inside) ==
  CASE kind = "end"      -> "terminator"
    [] Tag(kind) = entry -> "entry"
    [] Tag(kind) # Null  -> "field"
    [] kind = "blank"    -> "blank"
    [] OTHER             -> "continuation"

\* What a line is to a body walk.
Classify(kind, entry, inside) ==
  CASE kind = "end"                -> "terminator"
    [] Tag(kind) = entry           -> "entry"
    [] Tag(kind) = "86" /\ inside  -> "narrative"
    [] Tag(kind) # Null            -> "field"
    [] kind = "blank"              -> "blank"
    [] OTHER                       -> "continuation"

\* The next line belongs to the field above it.
Extend(fields, i) ==
  IF fields = <<>> THEN fields
  ELSE [fields EXCEPT ![Len(fields)].text = Append(@, i)]

\* without_entries: what line i of the body adds to the walk.
WalkLine(walk, kind, entry, i) ==
  LET what == IF walk.over THEN "nothing"
              ELSE Classify(kind, entry, walk.inside)
  IN  CASE what = "terminator" -> [walk EXCEPT !.over = TRUE]
        [] what = "entry" -> [walk EXCEPT !.inside = TRUE, !.entries = @ + 1]
        [] what = "field" ->
             [walk EXCEPT !.inside = FALSE,
                          !.fields = Append(@, [kind |-> kind, text |-> <<i>>])]
        [] what = "continuation" /\ ~walk.inside ->
             [walk EXCEPT !.fields = Extend(@, i)]
        [] OTHER -> walk

\* The fields of lines from..to of a body outside its entries, and how many
\* entries there are.
WithoutEntries(body, from, to, entry) ==
  FoldLeft(LAMBDA walk, i : WalkLine(walk, body[i], entry, i),
           [fields |-> <<>>, entries |-> 0, inside |-> FALSE, over |-> FALSE],
           [k \in 1 .. to - from + 1 |-> from + k - 1])

Statement(body) == WithoutEntries(body, 1, Len(body), "61")

\* parse: with no tag for its entries, every field is one of the body.
Parse(body, from, to) == WithoutEntries(body, from, to, "").fields

Take(s, n) == SubSeq(s, 1, Min({n, Len(s)}))

Has(fields, tag) == \E k \in DOMAIN fields : Tag(fields[k].kind) = tag

\* The text of every `:86:` from the k-th field on, joined.
Narrative(fields, k) ==
  FlattenSeq([j \in DOMAIN fields |->
     IF j >= k /\ fields[j].kind = "86" THEN fields[j].text ELSE <<>>])

\* Mutant: the first total ends the entries.
ClosingFirst(fields) ==
  LET closes == {k \in DOMAIN fields :
                   fields[k].kind = (IF mt = "940" THEN "62" ELSE "90")}
  IN  IF closes = {} THEN Len(fields) ELSE Min(closes)

\* Where the narratives of the statement begin: after the first closing balance,
\* or after the last of the entry totals.
Closing(fields) ==
  LET closes == {k \in DOMAIN fields :
                   fields[k].kind = (IF mt = "940" THEN "62" ELSE "90")}
  IN  CASE closes = {}  -> Len(fields)
        [] mt = "940"   -> Min(closes)
        [] OTHER        -> Max(closes)

StatementNarrative(fields) == Narrative(fields, Closing(fields) + 1)

-----------------------------------------------------------------------------
(* The readers.                                                            *)

TakingStatement == mt \in Statements /\ open = Null /\ Taking

Fields == Statement(Message.body).fields
Entries == Statement(Message.body).entries

Claimed == Claims(Message, Has(Fields, IF mt = "940" THEN "60" ELSE "34F"))

\* base_row parses the first opening balance, ctx_from_message the first two
\* floor limits; one that cannot be read is an error and never a NULL.
Unreadable(fields) ==
  LET tag    == IF mt = "940" THEN "60" ELSE "34F"
      found  == SelectSeq(fields, LAMBDA f : Tag(f.kind) = tag)
      parsed == Take(found, IF mt = "940" THEN 1 ELSE 2)
  IN  \E k \in DOMAIN parsed : parsed[k].kind \in {"60x", "34Fx"}

Skip ==
  /\ TakingStatement /\ ~Claimed
  /\ PassesOver /\ UNCHANGED open

BadStatement ==
  /\ TakingStatement /\ Claimed /\ Unreadable(Fields)
  /\ saw_my_type' = TRUE /\ row' = Null /\ result' = "failed"
  /\ UNCHANGED <<given, open>>

\* A row: which line its entry is, and what is written under it.
Row(index, entry, region, narrative, fields) ==
  [index |-> index, entry |-> entry, region |-> region,
   narrative |-> narrative, statement_narrative |-> StatementNarrative(fields)]

\* A statement without entries is one row of read_mt940 and none of read_mt942.
WithoutRows ==
  /\ TakingStatement /\ Claimed /\ ~Unreadable(Fields) /\ Entries = 0
  /\ saw_my_type' = TRUE
  /\ row' = IF mt = "940" THEN Row(Null, Null, {}, <<>>, Fields) ELSE Null
  /\ UNCHANGED <<given, open, result>>

OpenStatement ==
  /\ TakingStatement /\ Claimed /\ ~Unreadable(Fields) /\ Entries > 0
  /\ saw_my_type' = TRUE /\ row' = Null
  /\ open' = [body |-> Message.body, fields |-> Fields,
              at |-> 1, region |-> Null, emitted |-> 0]
  /\ UNCHANGED <<given, result>>

-----------------------------------------------------------------------------
(* EntryCursor::next_site, line by line, and the row of a region.          *)

Walking == result = "reading" /\ open # Null

\* What the line under the cursor is; the end of the body is a terminator.
Here ==
  IF open.at > Len(open.body) THEN "terminator"
  ELSE Classify(open.body[open.at], "61", open.region # Null)

\* row_from_entry: the region from the line that opened it to line `to`.
Emits(to, cursor) ==
  LET fields == Parse(open.body, open.region, to)
      entry  == CHOOSE k \in DOMAIN fields : Tag(fields[k].kind) = "61"
  IN  IF fields[entry].kind = "61x"
      THEN result' = "failed" /\ row' = Null /\ open' = cursor
      ELSE /\ row' = Row(open.emitted + 1, open.region, open.region .. to,
                         Narrative(fields, 1), open.fields)
           /\ open' = [cursor EXCEPT !.emitted = @ + 1]
           /\ UNCHANGED result

\* The body is over, or its terminator ends it: the open region is the last.
SiteAtEnd ==
  /\ Walking /\ Here = "terminator" /\ open.region # Null
  /\ Emits(open.at - 1,
           [open EXCEPT !.region = Null, !.at = Len(open.body) + 1])
  /\ UNCHANGED <<given, at_message, saw_my_type>>

StatementOver ==
  /\ Walking /\ Here = "terminator" /\ open.region = Null
  /\ open' = Null /\ row' = Null
  /\ UNCHANGED <<given, at_message, saw_my_type, result>>

\* An entry closes the region above it and opens its own.
SiteAtEntry ==
  /\ Walking /\ Here = "entry" /\ open.region # Null
  /\ Emits(open.at - 1, [open EXCEPT !.region = open.at, !.at = @ + 1])
  /\ UNCHANGED <<given, at_message, saw_my_type>>

SiteOpens ==
  /\ Walking /\ Here = "entry" /\ open.region = Null
  /\ open' = [open EXCEPT !.region = open.at, !.at = @ + 1]
  /\ row' = Null
  /\ UNCHANGED <<given, at_message, saw_my_type, result>>

\* A field of the statement closes the region above it.
SiteAtField ==
  /\ Walking /\ Here = "field" /\ open.region # Null
  /\ Emits(open.at - 1, [open EXCEPT !.region = Null, !.at = @ + 1])
  /\ UNCHANGED <<given, at_message, saw_my_type>>

LineGoesBy ==
  /\ Walking
  /\ \/ Here \in {"narrative", "blank", "continuation"}
     \/ Here = "field" /\ open.region = Null
  /\ open' = [open EXCEPT !.at = @ + 1]
  /\ row' = Null
  /\ UNCHANGED <<given, at_message, saw_my_type, result>>

StatementNext ==
  \/ Skip \/ BadStatement \/ WithoutRows \/ OpenStatement
  \/ SiteAtEnd \/ StatementOver \/ SiteAtEntry \/ SiteOpens \/ SiteAtField
  \/ LineGoesBy

-----------------------------------------------------------------------------
(* What a body says, read off its lines.                                   *)

Body == file[at_message].body

\* The lines in front of the terminator.
Lines ==
  LET ends == {i \in DOMAIN Body : Body[i] = "end"}
  IN  IF ends = {} THEN DOMAIN Body ELSE 1 .. Min(ends) - 1

\* The line the field that line i belongs to begins on, 0 for none.
FieldOf(i) ==
  LET starts == {j \in 1 .. i : Tag(Body[j]) # Null}
  IN  IF starts = {} THEN 0 ELSE Max(starts)

\* The entry that line i belongs to: the last statement line above it, if only
\* narratives are between; 0 for none.
EntryOf(i) ==
  LET fields == {j \in 1 .. i : Tag(Body[j]) \notin {Null, "86"}}
  IN  IF fields # {} /\ Tag(Body[Max(fields)]) = "61" THEN Max(fields) ELSE 0

EntryLines == {i \in Lines : Tag(Body[i]) = "61"}

\* Line i is text of an `:86:`.
Told(i) ==
  /\ Body[i] # "blank"
  /\ FieldOf(i) # 0 /\ Body[FieldOf(i)] = "86"

\* The lines of a set in order.
InOrder(S) == SetToSortSeq(S, <)

-----------------------------------------------------------------------------
(* Properties.                                                             *)

\* The row's entry, its lines and the narratives under it.
RowIsItsEntry ==
  mt \in Statements /\ row # Null /\ row.entry # Null =>
    /\ row.entry = InOrder(EntryLines)[row.index]
    /\ row.region = {i \in Lines : EntryOf(i) = row.entry}
    /\ row.narrative = InOrder({i \in row.region : Told(i)})

\* The k-th row of a statement is its k-th entry, with exactly the lines of that
\* entry and the narratives written under it; and the statement is over when each
\* entry the first walk counted was a row: the two walks agree on which lines are
\* entries (mt.rs classify).
RowsAreTheEntries ==
  [][/\ RowIsItsEntry'
     /\ open # Null /\ open' = Null =>
          open.emitted = Cardinality(EntryLines)]_<<messagesVars, open, row>>

\* The narrative of a statement is what is written outside its entries, after
\* the closing balance (read_mt940) or the entry totals (read_mt942).
NarrativesKeepTheirPlace ==
  mt \in Statements /\ row # Null =>
    LET closes == {i \in Lines : Body[i] = IF mt = "940" THEN "62" ELSE "90"}
        after  == IF mt = "940" THEN Min(closes) ELSE Max(closes)
    IN  row.statement_narrative =
          IF closes = {} THEN <<>>
          ELSE InOrder({i \in Lines : i > after /\ EntryOf(i) = 0 /\ Told(i)})
=============================================================================
