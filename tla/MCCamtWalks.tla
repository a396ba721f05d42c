---------------------------- MODULE MCCamtWalks -----------------------------
(***************************************************************************)
(* Vocabularies for CamtWalks.  No element that opens a statement or a     *)
(* group header sits inside an entry or a balance: see the README.         *)
(***************************************************************************)
EXTENDS CamtWalks, TLC

CONSTANT null

\* Statements, their account and their entries, out-of-place entries, a
\* statement inside a statement, an entry inside an entry.
EntryChildren ==
  "/"        :> {"Document"} @@
  "Document" :> {"Stmt", "Ntry"} @@
  "Stmt"     :> {"Id", "Acct", "Ntry", "Wrap"} @@
  "Wrap"     :> {"Rpt", "Ntry"} @@
  "Rpt"      :> {"Ntry"} @@
  "Acct"     :> {"Id"} @@
  "Id"       :> {"IBAN", "Othr"} @@
  "IBAN"     :> {} @@
  "Othr"     :> {"Id"} @@
  "Ntry"     :> {"Ntry"}

EntryLeaves == {"Id", "IBAN", "Ntry"}

\* Entries and balances of a statement, in place and out of place.
CountChildren ==
  "/"        :> {"Document"} @@
  "Document" :> {"Stmt", "Ntry", "Bal"} @@
  "Stmt"     :> {"Ntry", "Bal", "Wrap"} @@
  "Wrap"     :> {"Rpt", "Ntry", "Bal"} @@
  "Rpt"      :> {"Ntry", "Bal"} @@
  "Ntry"     :> {"Ntry", "Bal"} @@
  "Bal"      :> {}

CountLeaves == {"Ntry", "Bal"}

\* Messages and the envelope around them: who identifies a message, and where
\* one ends.
MessageChildren ==
  "/"             :> {"Envelope", "Document"} @@
  "Envelope"      :> {"AppHdr", "Document"} @@
  "AppHdr"        :> {"MsgDefIdr"} @@
  "MsgDefIdr"     :> {} @@
  "Document"      :> {"GrpHdr", "BkToCstmrStmt", "Stmt"} @@
  "BkToCstmrStmt" :> {"GrpHdr", "Stmt"} @@
  "GrpHdr"        :> {"MsgId", "CreDtTm"} @@
  "MsgId"         :> {} @@
  "CreDtTm"       :> {} @@
  "Stmt"          :> {"CreDtTm", "Ntry"} @@
  "Ntry"          :> {}

MessageLeaves == {"MsgDefIdr", "MsgId", "CreDtTm"}

\* One document with two messages, each with a header of its own.
TwoMessageChildren ==
  "/"             :> {"Document"} @@
  "Document"      :> {"BkToCstmrStmt"} @@
  "BkToCstmrStmt" :> {"GrpHdr", "Stmt"} @@
  "GrpHdr"        :> {"MsgId"} @@
  "MsgId"         :> {} @@
  "Stmt"          :> {"Ntry"} @@
  "Ntry"          :> {}

Vocabulary(children, leaves, carriers) ==
  [children |-> children, leaves |-> leaves, carriers |-> carriers]

AllLayouts ==
  "entries"  :> Vocabulary(EntryChildren, EntryLeaves, {}) @@
  "counts"   :> Vocabulary(CountChildren, CountLeaves, {}) @@
  "messages" :> Vocabulary(MessageChildren, MessageLeaves,
                           {"Envelope", "Document"})

AllGrains ==
  "entries" :> {"Ntry"} @@ "counts" :> {"Bal", "Statement"} @@
  "messages" :> {"Statement"}

TwoMessages ==
  "messages" :> Vocabulary(TwoMessageChildren, MessageLeaves, {})

EntriesOnly == "messages" :> {"Ntry"}

SomeIdents == {"camt.053", "pain.001"}
=============================================================================
