----------------------- MODULE StatementRecordStream ------------------------
(***************************************************************************)
(* The strict camt walk the supplementary readers share (src/camt.rs): a   *)
(* record is a direct child of a statement.  grain says which record this  *)
(* scan hands out: "Ntry", "Bal", or "Statement" for one record per        *)
(* statement, handed out when it closes.                                   *)
(* A message element is known here by its container name; that the         *)
(* earliest editions spell it as the identifier (statement_family) is left *)
(* out.                                                                    *)
(***************************************************************************)
EXTENDS Wire

VARIABLES
  grain,            \* what this scan hands out
  path,             \* open elements, records excluded
  ctx,              \* StatementContext: [Fields -> what the file states]
  message_depth, statement_depth,
  family, envelope_family, header_family,
  saw_statement,
  statement_index, record_index,
  subtree,          \* the record being read or skipped, or Null
  record,           \* the record the last event completed, or Null
  result            \* "reading", "ended" or "failed"

message == <<message_depth, family, envelope_family, header_family>>
statement == <<statement_depth, saw_statement, statement_index>>

-----------------------------------------------------------------------------
(* The grains.                                                             *)

StatementRows == grain = "Statement"
Tag     == IF StatementRows THEN Null ELSE grain
Skipped == CASE grain = "Ntry" -> "Bal" [] grain = "Bal" -> "Ntry"
             [] OTHER -> Null
EmptyIsRecord == grain = "Bal"

(* The families and their containers.                                      *)

Families == {"camt.052", "camt.053", "camt.054"}
IsStatement(name) == name \in {"Rpt", "Stmt", "Ntfctn"}
KnownFamily(ident) == IF ident \in Families THEN ident ELSE Null

StatementFamily(name) ==
  CASE name = "BkToCstmrAcctRpt"      -> "camt.052"
    [] name = "BkToCstmrStmt"         -> "camt.053"
    [] name = "BkToCstmrDbtCdtNtfctn" -> "camt.054"
    [] OTHER                          -> Null

(* What a leaf below the statement, or above it, is captured as.           *)

StatementLeaves ==
  [statement_id             |-> {<<"Id">>},
   account_currency         |-> {<<"Acct", "Ccy">>},
   account_iban             |-> {<<"Acct", "Id", "IBAN">>},
   electronic_sequence      |-> {<<"ElctrncSeqNb">>},
   legal_sequence           |-> {<<"LglSeqNb">>},
   statement_created        |-> {<<"CreDtTm">>},
   from_date                |-> {<<"FrToDt", "FrDtTm">>},
   to_date                  |-> {<<"FrToDt", "ToDtTm">>},
   copy_duplicate           |-> {<<"CpyDplctInd">>},
   page_number              |-> {<<"StmtPgntn", "PgNb">>},
   last_page                |-> {<<"StmtPgntn", "LastPgInd">>},
   account_owner_name       |-> {<<"Acct", "Ownr", "Nm">>},
   account_servicer_bic     |-> {<<"Acct", "Svcr", "FinInstnId", "BICFI">>,
                                 <<"Acct", "Svcr", "FinInstnId", "BIC">>},
   summary_entries          |-> {<<"TxsSummry", "TtlNtries", "NbOfNtries">>},
   summary_sum              |-> {<<"TxsSummry", "TtlNtries", "Sum">>},
   summary_net_amount       |->
     {<<"TxsSummry", "TtlNtries", "TtlNetNtry", "Amt">>},
   summary_net_credit_debit |->
     {<<"TxsSummry", "TtlNtries", "TtlNetNtry", "CdtDbtInd">>},
   summary_credit_entries   |-> {<<"TxsSummry", "TtlCdtNtries", "NbOfNtries">>},
   summary_credit_sum       |-> {<<"TxsSummry", "TtlCdtNtries", "Sum">>},
   summary_debit_entries    |-> {<<"TxsSummry", "TtlDbtNtries", "NbOfNtries">>},
   summary_debit_sum        |-> {<<"TxsSummry", "TtlDbtNtries", "Sum">>}]

OtherAccount == <<"Acct", "Id", "Othr", "Id">>

MessageLeaves ==
  [msg_id            |-> <<"GrpHdr", "MsgId">>,
   message_created   |-> <<"GrpHdr", "CreDtTm">>,
   message_page      |-> <<"GrpHdr", "MsgPgntn", "PgNb">>,
   message_last_page |-> <<"GrpHdr", "MsgPgntn", "LastPgInd">>]

MessageFields   == DOMAIN MessageLeaves
StatementFields == DOMAIN StatementLeaves
Counts          == {"entry_count", "balance_count"}
Fields == MessageFields \union StatementFields \union Counts
            \union {"statement_kind", "statement_index"}

-----------------------------------------------------------------------------
Nothing == [f \in Fields |-> IF f \in Counts \union {"statement_index"}
                             THEN 0 ELSE Null]

ResetMessage(c) ==
  [f \in Fields |-> IF f \in MessageFields THEN Null ELSE c[f]]

RecordInit ==
  /\ grain \in {"Ntry", "Bal", "Statement"}
  /\ path = <<>> /\ ctx = Nothing
  /\ message_depth = Null /\ statement_depth = Null
  /\ family = Null /\ envelope_family = Null /\ header_family = Null
  /\ saw_statement = FALSE
  /\ statement_index = 0 /\ record_index = 0
  /\ subtree = Null /\ record = Null /\ result = "reading"

AtRecord == statement_depth # Null /\ Len(path) = statement_depth + 1

\* The record a scan returns: its index and the statement around it.
Handed(index, c) == [index |-> index, ctx |-> c]

RecordFails ==
  /\ result' = "failed" /\ record' = Null
  /\ UNCHANGED <<path, ctx, message, statement, record_index, subtree>>

\* The record of this grain, recorded; on the statement grain every entry and
\* balance of the statement, skipped.
IsRecord(name) == name = Tag /\ AtRecord

IsCounted(name) == StatementRows /\ AtRecord /\ name \in {"Ntry", "Bal"}

\* Mutant: a skipped record is one wherever its name appears, and so is a
\* record.
RecordOpensAnywhere(e) ==
  /\ e.tag = "start"
  /\ e.name = Tag \/ IsCounted(e.name) \/ e.name = Skipped
  /\ subtree' = Subtree(e.name, e.name = Tag)
  /\ record' = Null
  /\ UNCHANGED <<path, ctx, message, statement, record_index, result>>

RecordOpens(e) ==
  /\ e.tag = "start"
  /\ IsRecord(e.name) \/ IsCounted(e.name) \/ e.name = Skipped
  /\ subtree' = Subtree(e.name, IsRecord(e.name))
  /\ record' = Null
  /\ UNCHANGED <<path, ctx, message, statement, record_index, result>>

Counted(name) == IF name = "Ntry" THEN "entry_count" ELSE "balance_count"

RecordCloses(e) ==
  /\ Closes(subtree, e) /\ subtree.sound
  /\ subtree' = Null
  /\ record_index' = IF subtree.keep THEN record_index + 1 ELSE record_index
  /\ record' = IF subtree.keep THEN Handed(record_index', ctx) ELSE Null
  /\ ctx' = IF IsCounted(subtree.name)
            THEN [ctx EXCEPT ![Counted(subtree.name)] = @ + 1] ELSE ctx
  /\ UNCHANGED <<path, message, statement, result>>

RecordGoesOn(e) ==
  /\ ~Closes(subtree, e)
  /\ subtree' = Consume(subtree, e)
  /\ record' = Null
  /\ UNCHANGED <<path, ctx, message, statement, record_index, result>>

RecordBreaks(e) ==
  /\ Breaks(subtree, e) \/ (Closes(subtree, e) /\ ~subtree.sound)
  /\ RecordFails

-----------------------------------------------------------------------------
(* Any other tag.                                                          *)

\* Mutant: a header inherits what it does not state.
OpensHeaderKeeping(name, c) == c

\* A group header above a statement starts the message's fields over.
OpensHeader(name, c) ==
  IF name = "GrpHdr" /\ statement_depth = Null THEN ResetMessage(c) ELSE c

\* The family of the message this tag opens, Null for none.
OpensFamily(e) ==
  IF message_depth # Null THEN Null
  ELSE IF e.name = "Document"
  THEN KnownFamily(CASE e.ident # Null           -> e.ident
                     [] envelope_family # Null   -> envelope_family
                     [] OTHER                    -> header_family)
  ELSE StatementFamily(e.name)

\* The context of a statement that opens: the message's fields and no others.
ContextOf(e, c) ==
  [f \in Fields |->
     CASE f \in MessageFields     -> c[f]
       [] f = "statement_kind"    -> e.name
       [] f = "statement_index"   -> statement_index + 1
       [] OTHER                   -> Nothing[f]]

ElementStarts(e) ==
  /\ e.tag = "start"
  /\ ~(IsRecord(e.name) \/ IsCounted(e.name) \/ e.name = Skipped)
  /\ path' = Append(path, e.name)
  /\ LET opened == OpensFamily(e)
         opens  == statement_depth = Null /\ IsStatement(e.name)
         header == OpensHeader(e.name, ctx)
         around == IF opened # Null THEN ResetMessage(header) ELSE header
     IN  /\ family' = IF opened # Null THEN opened ELSE family
         /\ message_depth' = IF opened # Null THEN Len(path) ELSE message_depth
         /\ envelope_family' = IF envelope_family = Null /\ opened = Null
                               THEN e.ident ELSE envelope_family
         /\ saw_statement' = (saw_statement \/ opens)
         /\ statement_depth' = IF opens THEN Len(path) ELSE statement_depth
         /\ statement_index' = IF opens THEN statement_index + 1
                               ELSE statement_index
         /\ record_index' = IF opens THEN 0 ELSE record_index
         /\ ctx' = IF opens THEN ContextOf(e, around) ELSE around
  /\ record' = Null
  /\ UNCHANGED <<header_family, subtree, result>>

\* A self-closing element opens nothing.  A <Bal/> is a record of the balance
\* grain and counted by the statement grain; an <Ntry/> is neither.
EmptyRead(e) ==
  /\ e.tag = "empty"
  /\ LET handed  == EmptyIsRecord /\ e.name = Tag /\ AtRecord
         counted == StatementRows /\ e.name = "Bal" /\ AtRecord
     IN  /\ record_index' = IF handed THEN record_index + 1 ELSE record_index
         /\ record' = IF handed THEN Handed(record_index', ctx) ELSE Null
         /\ ctx' = IF counted THEN [ctx EXCEPT !.balance_count = @ + 1]
                   ELSE OpensHeader(e.name, ctx)
         /\ envelope_family' =
              IF handed \/ counted \/ envelope_family # Null
              THEN envelope_family ELSE e.ident
  /\ UNCHANGED <<path, message_depth, family, header_family, statement,
                 subtree, result>>

ElementEnds(e) ==
  /\ e.tag = "end"
  /\ path' = SubSeq(path, 1, Len(path) - 1)
  /\ LET closes  == statement_depth = Len(path) - 1
         message_closes == message_depth = Len(path) - 1
     IN  /\ statement_depth' = IF closes THEN Null ELSE statement_depth
         /\ message_depth' = IF message_closes THEN Null ELSE message_depth
         /\ family' = IF message_closes THEN Null ELSE family
         /\ ctx' = IF message_closes THEN ResetMessage(ctx) ELSE ctx
         /\ record' = IF closes /\ StatementRows
                      THEN Handed(statement_index, ctx') ELSE Null
  /\ UNCHANGED <<envelope_family, header_family, saw_statement,
                 statement_index, record_index, subtree, result>>

\* capture, inside a statement: the leaves at their exact paths.
CapturesInStatement(value) ==
  /\ ctx' =
       [f \in Fields |->
          IF \/ /\ f \in StatementFields
                /\ \E tail \in StatementLeaves[f] :
                     Under(path, statement_depth + 1, tail)
             \/ /\ f = "account_iban" /\ ctx[f] = Null
                /\ Under(path, statement_depth + 1, OtherAccount)
          THEN value ELSE ctx[f]]
  /\ UNCHANGED header_family

\* capture, above any statement: the group header, and the envelope's header.
CapturesAbove(value) ==
  /\ ctx' =
       [f \in Fields |->
          IF f \in MessageFields /\ EndsWith(path, MessageLeaves[f])
          THEN value ELSE ctx[f]]
  /\ header_family' =
       IF header_family = Null /\ EndsWith(path, <<"AppHdr", "MsgDefIdr">>)
       THEN value ELSE header_family

TextCaptured(e) ==
  /\ e.tag = "text" /\ e.sound
  /\ IF statement_depth # Null THEN CapturesInStatement(e.value)
     ELSE CapturesAbove(e.value)
  /\ record' = Null
  /\ UNCHANGED <<path, message_depth, family, envelope_family, statement,
                 record_index, subtree, result>>

FileEnds(e) ==
  /\ e.tag = "eof" /\ ~CutShort(path, e) /\ saw_statement
  /\ result' = "ended" /\ record' = Null
  /\ UNCHANGED <<path, ctx, message, statement, record_index, subtree>>

FileFails(e) ==
  /\ \/ e.tag = "text" /\ ~e.sound
     \/ e.tag = "eof" /\ (CutShort(path, e) \/ ~saw_statement)
  /\ RecordFails

\* One event of the file.
RecordReads(e) ==
  /\ UNCHANGED grain
  /\ \/ /\ result = "reading" /\ subtree = Null
        /\ \/ RecordOpens(e) \/ ElementStarts(e) \/ EmptyRead(e)
           \/ ElementEnds(e) \/ TextCaptured(e) \/ FileEnds(e) \/ FileFails(e)
     \/ /\ result = "reading" /\ subtree # Null
        /\ \/ ~Breaks(subtree, e) /\ (RecordCloses(e) \/ RecordGoesOn(e))
           \/ RecordBreaks(e)
     \/ /\ result # "reading" /\ record' = Null
        /\ UNCHANGED <<path, ctx, message, statement, record_index, subtree,
                       result>>
=============================================================================
