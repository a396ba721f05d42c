------------------------------ MODULE MtPayments -----------------------------
(***************************************************************************)
(* The four payment readers over framed MT messages (src/mt101.rs,         *)
(* src/mt103.rs, src/mt104.rs, src/mt202.rs).  A body is its fields in the *)
(* order they were written, and which sequence a field belongs to is for   *)
(* the reader to find out: by an exact `:21:` (MT101, MT104), by what only *)
(* the batch total of an MT104 has, by the `:50a:` of an MT202COV.         *)
(*                                                                         *)
(* A field is a record:                                                    *)
(*   tag     as written, "50F"; number, its first two characters           *)
(*   says    what its value states, of a party: {"id", "account"} or less  *)
(*   sound   its amount can be read                                        *)
(*   of      the sequence its writer put it in, which no reader sees: 0    *)
(*           for the header (or sequence A), k for the k-th transaction,   *)
(*           -1 for the settlement (or sequence B)                         *)
(* A value is the position of its field; a party that states neither an    *)
(* identifier nor an account is no value (its option letter is left out).  *)
(***************************************************************************)
EXTENDS MtMessages

VARIABLE queue  \* the rows of the message being read

-----------------------------------------------------------------------------
(* Fields (src/mt.rs).                                                     *)

\* matches_key: a two-character key is a number, a longer one the whole tag.
Matches(field, key) == key \in {field.tag, field.number}

Matching(body, span, key) == {i \in span : Matches(body[i], key)}

\* find_in, for the first of the keys that is there: its first field, or 0.
FindIn(body, span, keys) ==
  LET there == {k \in DOMAIN keys : Matching(body, span, keys[k]) # {}}
  IN  IF there = {} THEN 0 ELSE Min(Matching(body, span, keys[Min(there)]))

\* Mutant: the sequence opens on any field with that number.
SequencesByNumber(body) ==
  LET starts == SetToSortSeq({i \in DOMAIN body : body[i].number = "21"}, <)
      end(n) == IF n = Len(starts) THEN Len(body) ELSE starts[n + 1] - 1
  IN  [n \in DOMAIN starts |-> starts[n] .. end(n)]

\* Where each transaction sits: from one exact `:21:` to the next.
SequencesOf(body) ==
  LET starts == SetToSortSeq({i \in DOMAIN body : body[i].tag = "21"}, <)
      end(n) == IF n = Len(starts) THEN Len(body) ELSE starts[n + 1] - 1
  IN  [n \in DOMAIN starts |-> starts[n] .. end(n)]

\* Mutant: only a `:19:` opens the settlement.
SettlementByTotal(body, tail) ==
  {i \in tail : \E j \in tail : body[j].tag = "19" /\ j <= i}

\* The settlement in the last transaction's span: from its first `:19:` or its
\* second `:32B:` on.
Settlement(body, tail) ==
  LET amounts == Matching(body, tail, "32B")
      opens   == {i \in tail : body[i].tag = "19"}
                 \cup {i \in amounts : \E j \in amounts : j < i}
  IN  {i \in tail : \E j \in opens : j <= i}

-----------------------------------------------------------------------------
(* Columns.  A column is a record: keys, the tags it is read from, the     *)
(* first that is there; from, the span it is read in; and takes:           *)
(*   "first", "last", "all"   which of the fields with those tags          *)
(*   "amount"                 the first, which must be readable            *)
(*   "lastAmount"             the last, which must be readable             *)
(*   "id"                     the identifier of a party                    *)
(*   "party"                  identifier, account and option as a whole    *)

LOCAL Column(from, takes, keys) ==
  [from |-> from, takes |-> takes, keys |-> keys]

LOCAL One(from, takes, numbers) ==
  [n \in numbers |-> Column(from, takes, <<n>>)]

\* The customer is looked for by option letter.
Mt101Columns ==
  One("head", "first", {"20", "21R", "28D", "30", "25"})
  @@ One("head", "id", {"51A"})
  @@ [instructing |-> Column("either", "id", <<"50C", "50L">>),
      ordering |-> Column("either", "party", <<"50F", "50G", "50H">>)]
  @@ One("either", "party", {"52"})
  @@ One("tx", "first", {"21", "21F", "36", "70", "71A", "25A", "77B"})
  @@ One("tx", "all", {"23E"})
  @@ One("tx", "amount", {"33B", "32B"})
  @@ One("tx", "id", {"56"})
  @@ One("tx", "party", {"57", "59"})

Mt104Columns ==
  One("head", "first", {"20", "21R", "30", "72"})
  @@ One("head", "id", {"51A"})
  @@ [instructing |-> Column("either", "id", <<"50C", "50L">>),
      creditor |-> Column("either", "party", <<"50A", "50K">>),
      settlement_amount |-> Column("tail", "amount", <<"32B">>),
      sum_senders_charges |-> Column("tail", "first", <<"71F">>),
      sum_receivers_charges |-> Column("tail", "first", <<"71G">>)]
  @@ One("either", "party", {"52"})
  @@ One("either", "first", {"21E", "26T", "71A", "77B"})
  @@ One("tx", "first", {"21", "21C", "21D", "36", "70", "71F", "71G"})
  @@ One("tx", "all", {"23E"})
  @@ One("tx", "amount", {"33B", "32B"})
  @@ One("tx", "party", {"57", "59"})
  @@ One("tail", "amount", {"19"})
  @@ One("tail", "id", {"53"})

Mt103Columns ==
  One("head", "first", {"20", "23B", "26T", "36", "70", "71A", "72", "77B"})
  @@ One("head", "all", {"13C", "23E"})
  @@ One("head", "amount", {"32A", "33B", "71G"})
  @@ One("head", "lastAmount", {"71F"})
  @@ One("head", "id", {"51A", "54", "55", "56"})
  @@ One("head", "party", {"50", "52", "53", "57", "59"})

\* Sequence B is read under names of its own.
Mt202Columns ==
  One("head", "first", {"20", "21", "72"})
  @@ One("head", "all", {"13C"})
  @@ One("head", "amount", {"32A"})
  @@ One("head", "id", {"54", "56"})
  @@ One("head", "party", {"52", "53", "57", "58"})
  @@ One("tail", "party", {"50", "59"})
  @@ One("tail", "first", {"70"})
  @@ One("tail", "amount", {"33B"})
  @@ [cov_52 |-> Column("tail", "id", <<"52">>),
      cov_56 |-> Column("tail", "id", <<"56">>),
      cov_57 |-> Column("tail", "id", <<"57">>),
      cov_72 |-> Column("tail", "first", <<"72">>)]

Columns ==
  "101" :> Mt101Columns @@ "103" :> Mt103Columns
  @@ "104" :> Mt104Columns @@ "202" :> Mt202Columns

Payments == DOMAIN Columns

-----------------------------------------------------------------------------
(* The rows of a message.                                                  *)

\* The spans of a body: its header, its transactions, and what follows them.
Spans(body) ==
  LET all    == DOMAIN body
      found  == IF mt \in {"101", "104"} THEN SequencesOf(body) ELSE <<>>
      n      == Len(found)
      settle == IF mt = "104" /\ n > 0 THEN Settlement(body, found[n]) ELSE {}
      cov    == {i \in all : /\ mt = "202"
                             /\ \E j \in Matching(body, all, "50") : j <= i}
      head   == IF n > 0 THEN 1 .. Min(found[1]) - 1 ELSE all \ cov
  IN  [head |-> head, tail |-> settle \cup cov,
       txs |-> [k \in DOMAIN found |->
                  IF k = n THEN found[k] \ settle ELSE found[k]]]

\* What a column is in a span: the fields it is made of.
Read(body, span, column) ==
  LET matching == Matching(body, span, column.keys[1])
      i == FindIn(body, span, column.keys)
  IN  CASE column.takes = "all" -> SetToSortSeq(matching, <)
        [] i = 0 -> <<>>
        [] column.takes = "lastAmount" -> <<Max(matching)>>
        [] column.takes = "id" /\ "id" \notin body[i].says -> <<>>
        [] column.takes = "party" /\ body[i].says = {} -> <<>>
        [] OTHER -> <<i>>

\* What the transaction says, or the header's when it says nothing.
Effective(body, head, tx, column) ==
  IF Read(body, tx, column) # <<>> THEN Read(body, tx, column)
  ELSE Read(body, head, column)

\* The row of transaction k over its span; k is 0 for the row of a message
\* without any.
RowOf(body, spans, k, tx) ==
  [tx |-> k,
   columns |-> [c \in DOMAIN Columns[mt] |->
     LET column == Columns[mt][c]
     IN  CASE column.from = "head" -> Read(body, spans.head, column)
           [] column.from = "tail" -> Read(body, spans.tail, column)
           [] column.from = "tx"   -> Read(body, tx, column)
           [] OTHER -> Effective(body, spans.head, tx, column)]]

\* rows_from_message: one for each transaction, or one of the header alone.
RowsOf(body) ==
  LET spans == Spans(body)
  IN  IF spans.txs = <<>> THEN <<RowOf(body, spans, 0, {})>>
      ELSE [k \in DOMAIN spans.txs |-> RowOf(body, spans, k, spans.txs[k])]

IsAmount(column) == column.takes \in {"amount", "lastAmount"}

\* An amount of some row cannot be read: none of them is given.
UnreadableAmount(body) ==
  \E r \in Range(RowsOf(body)) : \E c \in DOMAIN r.columns :
    /\ IsAmount(Columns[mt][c])
    /\ \E i \in Range(r.columns[c]) : ~body[i].sound

-----------------------------------------------------------------------------
(* The readers.                                                            *)

\* The field a body without blocks is claimed by, if there is one.
Mandatory(body) ==
  CASE mt = "103" -> FindIn(body, DOMAIN body, <<"23B">>) # 0
    [] mt = "202" -> FindIn(body, DOMAIN body, <<"58">>) # 0
    [] OTHER      -> FALSE

TakingPayment == mt \in Payments /\ queue = <<>> /\ Taking

PaymentClaimed == Claims(Message, Mandatory(Message.body))

SkipPayment ==
  /\ TakingPayment /\ ~PaymentClaimed
  /\ PassesOver /\ UNCHANGED queue

BadPayment ==
  /\ TakingPayment /\ PaymentClaimed /\ UnreadableAmount(Message.body)
  /\ saw_my_type' = TRUE /\ row' = Null /\ result' = "failed"
  /\ UNCHANGED <<given, queue>>

\* The rows are queued, but for the one an MT103 or MT202 is.
OpenPayment ==
  /\ TakingPayment /\ PaymentClaimed /\ ~UnreadableAmount(Message.body)
  /\ saw_my_type' = TRUE
  /\ IF mt \in {"101", "104"}
     THEN queue' = RowsOf(Message.body) /\ row' = Null
     ELSE row' = RowsOf(Message.body)[1] /\ UNCHANGED queue
  /\ UNCHANGED <<given, result>>

QueuedRow ==
  /\ mt \in Payments /\ result = "reading" /\ queue # <<>>
  /\ row' = Head(queue) /\ queue' = Tail(queue)
  /\ UNCHANGED <<given, at_message, saw_my_type, result>>

PaymentNext == SkipPayment \/ BadPayment \/ OpenPayment \/ QueuedRow

-----------------------------------------------------------------------------
(* What the writer of a body says, by the sequence of each field.          *)

Written == file[at_message].body

Transactions(body) == {body[i].of : i \in DOMAIN body} \ {0, -1}

\* What a column says of sequence `part`, with what it is made of.
Stated(body, part, column) ==
  LET tagged == {i \in DOMAIN body :
                   /\ body[i].of = part
                   /\ \E key \in Range(column.keys) : Matches(body[i], key)}
      says(i) == CASE column.takes = "id"    -> "id" \in body[i].says
                   [] column.takes = "party" -> body[i].says # {}
                   [] OTHER                  -> TRUE
      told == SetToSortSeq({i \in tagged : says(i)}, <)
  IN  CASE told = <<>> \/ column.takes = "all" -> told
        [] column.takes = "lastAmount" -> <<told[Len(told)]>>
        [] OTHER -> <<told[1]>>

\* What a column is due in the row of transaction k.
DueColumn(body, k, column) ==
  CASE column.from = "head" -> Stated(body, 0, column)
    [] column.from = "tail" -> Stated(body, -1, column)
    [] column.from = "tx" /\ k = 0 -> <<>>
    [] k # 0 /\ Stated(body, k, column) # <<>> -> Stated(body, k, column)
    [] column.from = "either" -> Stated(body, 0, column)
    [] OTHER -> <<>>

-----------------------------------------------------------------------------
(* Properties.                                                             *)

\* Every column of a payment row is what its own sequence states: a tag that
\* occurs in two sequences, a near-namesake of the boundary, or a batch total
\* behind the last transaction is never another sequence's column, and what a
\* transaction leaves unsaid is its header's (mt.rs sequences, mt104.rs
\* settlement_start, mt202.rs b_start).
ColumnsKeepToTheirSequence ==
  mt \in Payments /\ row # Null =>
    \A c \in DOMAIN row.columns :
      row.columns[c] = DueColumn(Written, row.tx, Columns[mt][c])

\* The rows of a message are its transactions, each once and in their order; a
\* batch that states none is one row of its header.  What is still queued behind
\* a row is what comes after it.
RowsAreTheTransactions ==
  mt \in Payments /\ (row # Null \/ queue # <<>>) =>
    LET left == (IF row = Null THEN <<>> ELSE <<row>>) \o queue
        n    == Cardinality(Transactions(Written))
        last == IF mt \in {"101", "104"} THEN n ELSE 0
    IN  /\ left[Len(left)].tx = last
        /\ \A j \in DOMAIN left : left[j].tx = last - Len(left) + j
        /\ row = Null => Len(left) = IF n = 0 THEN 1 ELSE n
=============================================================================
