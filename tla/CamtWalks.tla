------------------------------ MODULE CamtWalks ------------------------------
(***************************************************************************)
(* The two camt walks over one file.  read_iso20022 reads it through       *)
(* EntryStream, a supplementary reader through StatementRecordStream at    *)
(* its grain; each opens the file for itself, and the rows are joined on   *)
(* statement_index and entry_index afterwards.  Feeding both the same      *)
(* events side by side compares what they say about every element.         *)
(***************************************************************************)
EXTENDS CamtDocument

CONSTANT Grains  \* [layout -> the readers that read it besides]

VARIABLES
  \* EntryStream
  loosePath, msg_id, account_iban, statement_id, saw_container,
  container_kind, container_depth, looseIndex, entry_index, looseSubtree,
  row, looseResult,
  \* StatementRecordStream
  grain,
  strictPath, ctx, message_depth, statement_depth, family, envelope_family,
  header_family, saw_statement, strictIndex, record_index, strictSubtree,
  record, strictResult

Loose == INSTANCE EntryStream WITH
  path <- loosePath, statement_index <- looseIndex, subtree <- looseSubtree,
  result <- looseResult

Strict == INSTANCE StatementRecordStream WITH
  path <- strictPath, statement_index <- strictIndex,
  subtree <- strictSubtree, result <- strictResult

looseVars == <<loosePath, msg_id, account_iban, statement_id, saw_container,
               container_kind, container_depth, looseIndex, entry_index,
               looseSubtree, row, looseResult>>
strictVars == <<grain, strictPath, ctx, message_depth, statement_depth, family,
                envelope_family, header_family, saw_statement, strictIndex,
                record_index, strictSubtree, record, strictResult>>
vars == <<docVars, looseVars, strictVars>>

\* What the two walks hold: texts, counts and names; a subtree, a row, a record.
Values   == Nat \union Idents \union Statements \union {Null}
Subtrees == [name : {"Ntry", "Bal"}, keep : BOOLEAN, depth : Nat, size : Nat,
             sound : BOOLEAN]
Rows     == [msg_id : Values, account_iban : Values, statement_id : Values,
             statement_kind : Values, statement_index : Values,
             entry_index : Values]
Records  == [index : Nat, ctx : [Strict!Fields -> Values]]

\* None is no value.
ASSUME NullAssumption ==
  /\ Null \notin Nat /\ Null \notin Subtrees
  /\ Null \notin Rows /\ Null \notin Records

Init ==
  /\ DocumentInit /\ Loose!EntryInit /\ Strict!RecordInit
  /\ grain \in Grains[layout]

Reading == looseResult = "reading" \/ strictResult = "reading"

\* The parser hands over one event and both walks act on it.
Read ==
  /\ Reading
  /\ DocumentNext
  /\ Loose!EntryReads(event')
  /\ Strict!RecordReads(event')

\* Both scans are over.
Over == ~Reading /\ UNCHANGED vars

Next == Read \/ Over

Spec == Init /\ [][Next]_vars

-----------------------------------------------------------------------------
(* Properties.                                                             *)

\* A row of read_iso20022 that carries join keys, and the record with them.
ScopedRow == row # Null /\ row.entry_index # Null

SameStatement(r, c) ==
  /\ r.statement_kind = c.statement_kind
  /\ r.statement_index = c.statement_index
  /\ r.statement_id = c.statement_id
  /\ r.account_iban = c.account_iban

\* An entry the strict walk hands out is exactly an entry whose scope columns
\* are not NULL in read_iso20022, under the same keys and the same statement
\* (ADR 0004, stream.rs, camt.rs).
JoinKeysAgree ==
  grain = "Ntry" /\ looseResult = "reading" /\ strictResult = "reading" =>
    /\ ScopedRow <=> record # Null
    /\ ScopedRow => /\ row.entry_index = record.index
                    /\ SameStatement(row, record.ctx)

\* The keys of a row are its place in the document: which statement, and which
\* of the entries that open directly inside it.  So are those of a record, and the
\* counts of a statement's row are how many entries and balances it holds.
KeysAreThePlace ==
  /\ row # Null =>
       IF InStatement
       THEN row.statement_index = stated.statements
            /\ row.entry_index = stated.entries
       ELSE row.statement_index = Null /\ row.entry_index = Null
  /\ record # Null =>
       /\ record.ctx.statement_index = stated.statements
       /\ record.index = CASE grain = "Ntry" -> stated.entries
                           [] grain = "Bal"  -> stated.balances
                           [] OTHER          -> stated.statements
       /\ grain = "Statement" =>
            /\ record.ctx.entry_count = stated.entries
            /\ record.ctx.balance_count = stated.balances

\* A row of read_iso20022 names an account and a statement only if its own
\* statement did: nothing of an earlier statement, nothing after </Stmt>.  A record
\* repeats what its own statement and the latest group header state, and nothing
\* of the ones before.  Not the message id of read_iso20022, which EntryStream never
\* clears: that is MessagesAgree.
ContextIsTheirOwn ==
  /\ row # Null =>
       \A v \in {row.account_iban, row.statement_id} :
         v = Null \/ (Scope # 0 /\ v = stated.statements)
  /\ record # Null =>
       /\ \A f \in Strict!StatementFields :
            record.ctx[f] \in {Null, record.ctx.statement_index}
       /\ \A f \in Strict!MessageFields : record.ctx[f] \in {Null, stated.headers}

\* A scan that ends without an error read a complete document with a statement
\* in it, and every scan ends: a cut-off file is never a short result (ADR 0003).
\* Reading the entries, the strict walk judges no more of a file than the loose
\* one: where it fails, read_iso20022 fails too, at once or when the entry it is
\* recording ends.
EndsForCause ==
  /\ \A r \in {looseResult, strictResult} :
       r = "ended" => opened = <<>> /\ stated.statements > 0
  /\ event.tag = "eof" => looseResult # "reading" /\ strictResult # "reading"
  /\ grain = "Ntry" /\ strictResult = "failed" =>
       looseResult = "failed" \/ (looseSubtree # Null /\ ~looseSubtree.sound)

\* camt.rs: both walks assign the message id by the same rule, "so the two
\* functions cannot disagree about which message an entry belongs to".
MessagesAgree ==
  grain = "Ntry" /\ ScopedRow /\ record # Null => row.msg_id = record.ctx.msg_id
=============================================================================
