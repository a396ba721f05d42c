----------------------------- MODULE GroupReader -----------------------------
(***************************************************************************)
(* The streaming reader of a payment, status, mandate or case message      *)
(* (src/pain*.rs, pacs*.rs and the case messages of src/camt*.rs).  All of *)
(* them are one machine: a path of open elements, the depth of the family's *)
(* own container, a context filled from the path tails of what stands above *)
(* the records, and a row at a record or where a block closes.  What        *)
(* distinguishes a family is its table, the value of family (GroupTable).  *)
(*                                                                         *)
(* An event is a record:                                                   *)
(*   "open", "close"  a tag and its local name; a close is unsound when an *)
(*                    amount of the row it would give cannot be read       *)
(*   "leaf"           a text at the path `at` below the open element,      *)
(*                    saying `value`                                       *)
(*   "record"         a whole record element: own says what it states for  *)
(*                    itself, value what a detail says, at where value     *)
(*                    stands in it                                         *)
(*   "eof"            the end of the input, wherever it comes              *)
(* sound is FALSE when the text, or the record, cannot be read.            *)
(***************************************************************************)
EXTENDS Wire, Functions, FiniteSetsExt

VARIABLES
  family,   \* the table of this reader
  topic,    \* the fields of its context that are watched
  path,     \* open elements, records excluded
  depth,    \* in_*: the depth of the innermost open container, or Null
  ctx,      \* [field -> the values captured, none or one or a list]
  saw,      \* saw_*: what the end of the input asks for
  emitted,  \* tx_emitted: a record of this container gave a row
  row,      \* the row the last event completed, or Null
  result    \* "reading", "ended" or "failed"

readerVars == <<family, topic, path, depth, ctx, saw, emitted, row, result>>

\* The fields a bundle may be taken from.
FieldsOf(b) ==
  UNION {{b.sources[i][k] : k \in DOMAIN b.sources[i]} : i \in DOMAIN b.sources}

\* The sets of fields some column of a row depends on, watched one at a time.
Topics(rows) ==
  UNION {{FieldsOf(b) : b \in rows[level]} : level \in DOMAIN rows}

IsContainer(name) == name \in Range(family.containers)

-----------------------------------------------------------------------------
(* Rows.                                                                   *)

\* What the row of a level is made of, as far as the topic goes.
Bundles(level) ==
  {b \in family.rows[level] :
     \A i \in DOMAIN b.sources : Range(b.sources[i]) \subseteq topic}

\* The sources of a bundle that state it in c.
Stating(b, c) ==
  {i \in DOMAIN b.sources : \E k \in b.by : c[b.sources[i][k]] # <<>>}

\* Mutant: every column is inherited for itself.
ValueByColumn(b, own, c) ==
  [k \in DOMAIN b.sources[1] |->
     LET says == {i \in DOMAIN b.sources : c[b.sources[i][k]] # <<>>}
     IN  CASE k \in DOMAIN own -> <<own[k]>>
           [] says = {} -> <<>>
           [] OTHER -> c[b.sources[Min(says)][k]]]

\* A record's own statement wins; else the first source that states anything;
\* a bundle is taken from one of them as a whole.
Value(b, own, c) ==
  [k \in DOMAIN b.sources[1] |->
     IF b.own /\ DOMAIN own \intersect DOMAIN b.sources[1] # {}
     THEN IF k \in DOMAIN own THEN <<own[k]>> ELSE <<>>
     ELSE LET i == IF Stating(b, c) = {} THEN Len(b.sources)
                   ELSE Min(Stating(b, c))
          IN  c[b.sources[i][k]]]

Row(level, own, c) ==
  [level |-> level, bundles |-> {Value(b, own, c) : b \in Bundles(level)}]

NoneOwn == [k \in {} |-> Null]

-----------------------------------------------------------------------------
Blank == [f \in topic |-> <<>>]

Without(fields) == [f \in topic |-> IF f \in fields THEN <<>> ELSE ctx[f]]

ReaderInit(table) ==
  /\ family = table
  /\ topic \in Topics(table.rows)
  /\ path = <<>> /\ depth = Null /\ ctx = Blank
  /\ saw = FALSE /\ emitted = FALSE
  /\ row = Null /\ result = "reading"

\* Mutant: the context of the message before is kept.
ContainerOpensKeeping(e) ==
  /\ e.tag = "open" /\ IsContainer(e.name)
  /\ depth' = Len(path) /\ emitted' = FALSE
  /\ saw' = (saw \/ family.sawAt = "open")
  /\ path' = Append(path, e.name)
  /\ row' = Null /\ UNCHANGED <<ctx, result>>

\* The family's container: nothing is carried over from the message before.
ContainerOpens(e) ==
  /\ e.tag = "open" /\ IsContainer(e.name)
  /\ depth' = Len(path) /\ ctx' = Blank /\ emitted' = FALSE
  /\ saw' = (saw \/ family.sawAt = "open")
  /\ path' = Append(path, e.name)
  /\ row' = Null /\ UNCHANGED result

\* A block that starts some fields over, in most readers wherever it stands.
StartsOver(name) ==
  name \in DOMAIN family.starts /\ (family.gated => depth # Null)

ElementOpens(e) ==
  /\ e.tag = "open" /\ ~IsContainer(e.name)
  /\ ctx' = IF StartsOver(e.name) THEN Without(family.starts[e.name]) ELSE ctx
  /\ path' = Append(path, e.name)
  /\ row' = Null /\ UNCHANGED <<depth, saw, emitted, result>>

\* Mutant: a block gives its row whatever message it belongs to.
GivesRowAnywhere(name) ==
  /\ name \in DOMAIN family.ends
  /\ family.ends[name].always \/ ~emitted

\* The block's end gives a row: only inside the container, and the pacs.028
\* request only if none of its transactions gave one.
GivesRow(name) ==
  /\ name \in DOMAIN family.ends /\ depth # Null
  /\ family.ends[name].always \/ ~emitted

\* The row of a block that cannot be built.
RowFails(e) == GivesRow(e.name) /\ family.ends[e.name].fallible /\ ~e.sound

ElementCloses(e) ==
  /\ e.tag = "close" /\ ~RowFails(e)
  /\ path' = SubSeq(path, 1, Len(path) - 1)
  /\ depth' = IF depth = Len(path) - 1 THEN Null ELSE depth
  /\ IF GivesRow(e.name)
     THEN /\ row' = Row(family.ends[e.name].level, NoneOwn, ctx)
          /\ ctx' = Without(family.ends[e.name].clears)
          /\ saw' = \/ saw
                     \/ family.sawAt \in {"row", family.ends[e.name].level}
     ELSE row' = Null /\ UNCHANGED <<ctx, saw>>
  /\ UNCHANGED <<emitted, result>>

\* capture: a text at the end of a path p.
Captures(p, value) ==
  ctx' = [f \in topic |->
            CASE /\ f \in DOMAIN family.set
                 /\ \E t \in family.set[f] : EndsWith(p, t) ->
                   IF f \in family.lists THEN Append(ctx[f], value) ELSE <<value>>
              [] /\ f \in DOMAIN family.fill /\ ctx[f] = <<>>
                 /\ \E t \in family.fill[f] : EndsWith(p, t) -> <<value>>
              [] OTHER -> ctx[f]]

LeafCaptured(e) ==
  /\ e.tag = "leaf" /\ e.sound
  /\ Captures(path \o e.at, e.value)
  /\ row' = Null /\ UNCHANGED <<path, depth, saw, emitted, result>>

\* A record of the family: a row, with what it inherits.
RecordRead(e) ==
  /\ e.tag = "record" /\ e.sound
  /\ depth # Null /\ e.name \in family.records
  /\ row' = Row("TRANSACTION", e.own, ctx)
  /\ emitted' = TRUE
  /\ saw' = (saw \/ family.sawAt = "row")
  /\ UNCHANGED <<path, depth, ctx, result>>

\* A detail of a case message: kept for the row of the message.
DetailRead(e) ==
  /\ e.tag = "record" /\ e.sound
  /\ depth # Null /\ e.name \in DOMAIN family.details
  /\ ctx' = [f \in topic |-> IF f = family.details[e.name] THEN <<e.value>>
                             ELSE ctx[f]]
  /\ row' = Null
  /\ UNCHANGED <<path, depth, saw, emitted, result>>

\* Outside the container it is an element like any other.
RecordPassesBy(e) ==
  /\ e.tag = "record" /\ depth = Null
  /\ Captures(path \o <<e.name>> \o e.at, e.value)
  /\ row' = Null /\ UNCHANGED <<path, depth, saw, emitted, result>>

\* Mutant: a file in which nothing of the family was seen is an empty one.
FileEndsUnseen(e) ==
  /\ e.tag = "eof" /\ ~CutShort(path, e)
  /\ result' = "ended" /\ row' = Null
  /\ UNCHANGED <<path, depth, ctx, saw, emitted>>

FileEnds(e) ==
  /\ e.tag = "eof" /\ ~CutShort(path, e) /\ saw
  /\ result' = "ended" /\ row' = Null
  /\ UNCHANGED <<path, depth, ctx, saw, emitted>>

FileFails(e) ==
  /\ \/ e.tag = "leaf" /\ ~e.sound
     \/ e.tag = "record" /\ ~e.sound /\ depth # Null
     \/ e.tag = "close" /\ RowFails(e)
     \/ e.tag = "eof" /\ (CutShort(path, e) \/ ~saw)
  /\ result' = "failed" /\ row' = Null
  /\ UNCHANGED <<path, depth, ctx, saw, emitted>>

\* next_row, one event of the file.
Reads(e) ==
  /\ result = "reading"
  /\ \/ ContainerOpens(e) \/ ElementOpens(e) \/ ElementCloses(e)
     \/ LeafCaptured(e) \/ RecordRead(e) \/ DetailRead(e) \/ RecordPassesBy(e)
     \/ FileEnds(e) \/ FileFails(e)
  /\ UNCHANGED <<family, topic>>
=============================================================================
