---------------------------- MODULE MtInventory -----------------------------
(***************************************************************************)
(* The two functions that say of an MT file what is in it before any reader *)
(* does: sniff_iso20022 names a reader and counts its rows (sniff_mt,      *)
(* src/sniff.rs), audit_addresses lists the parties (MtAddressStream,      *)
(* src/addresses.rs).  Both walk the messages on their own; here they are  *)
(* put beside the readers, each over its own files: the statement readers  *)
(* keep the statement they are walking, the payment readers the rows they  *)
(* have not given yet.                                                     *)
(***************************************************************************)
EXTENDS MtStatement, MtPayments

VARIABLE counted  \* the rows the reader has given

vars == <<messagesVars, open, queue>>

Init == MessagesInit /\ open = Null /\ queue = <<>>

\* A file that ended or failed is not read on.
Over == result # "reading" /\ UNCHANGED vars

Next ==
  \/ StatementNext /\ UNCHANGED queue
  \/ PaymentNext /\ UNCHANGED open
  \/ open = Null /\ queue = <<>> /\ NoMore /\ UNCHANGED <<open, queue>>
  \/ Over

-----------------------------------------------------------------------------
(* Which message it is (src/mt.rs).                                        *)

\* The field a message without blocks is claimed by.
MandatoryField == "940" :> "60" @@ "942" :> "34F" @@ "103" :> "23B" @@ "202" :> "58"

Finds(body, key) ==
  IF mt \in Statements THEN Has(Statement(body).fields, key)
  ELSE FindIn(body, DOMAIN body, <<key>>) # 0

\* claims, for any number.
ClaimedBy(m, number) ==
  CASE m.type # Null -> m.type = number
    [] m.block1      -> FALSE
    [] OTHER -> number \in DOMAIN MandatoryField /\ Finds(m.body, MandatoryField[number])

\* message_number: block 2, or the first of these that claims it.
MessageNumber(m) ==
  LET bare == SelectSeq(<<"940", "942", "103", "202">>,
                        LAMBDA number : ClaimedBy(m, number))
  IN  IF m.type # Null THEN m.type ELSE IF bare = <<>> THEN Null ELSE bare[1]

-----------------------------------------------------------------------------
(* sniff_mt: the messages one by one.                                      *)

\* reader_of, for an `mt.` family.
MtRead == Statements \union Payments

\* What a claimed message adds to the count.
Records(m, number) ==
  CASE number = "940" -> Max({Statement(m.body).entries, 1})
    [] number = "942" -> Statement(m.body).entries
    [] number \in {"101", "104"} ->
         Max({Cardinality({i \in DOMAIN m.body : m.body[i].tag = "21"}), 1})
    [] OTHER -> 1

\* Mutant: what was counted under a type without a reader is kept.
SniffedKeeping(seen, m) ==
  LET found == MessageNumber(m)
      names == found # Null /\ (seen.kind = Null \/
                                (seen.kind \notin MtRead /\ found \in MtRead))
      kind  == IF names THEN found ELSE seen.kind
  IN  [kind |-> kind,
       records |-> IF kind # Null /\ ClaimedBy(m, kind)
                   THEN seen.records + Records(m, kind) ELSE seen.records]

\* A message names the file if none has, or none that a reader exists for; the
\* count then starts over.
Sniffed(seen, m) ==
  LET found == MessageNumber(m)
      names == found # Null /\ (seen.kind = Null \/
                                (seen.kind \notin MtRead /\ found \in MtRead))
      kind  == IF names THEN found ELSE seen.kind
      sofar == IF names THEN 0 ELSE seen.records
  IN  [kind |-> kind,
       records |-> IF kind # Null /\ ClaimedBy(m, kind)
                   THEN sofar + Records(m, kind) ELSE sofar]

\* The row of the file; a type nobody reads has no count, and no type at all is
\* an error.
SniffMt ==
  LET seen == FoldLeft(Sniffed, [kind |-> Null, records |-> 0], file)
  IN  [reader  |-> IF seen.kind \in MtRead THEN seen.kind ELSE Null,
       records |-> IF seen.kind \in MtRead THEN seen.records ELSE Null,
       error   |-> seen.kind = Null]

-----------------------------------------------------------------------------
(* MtAddressStream: the party fields of a message.                         *)

\* Mutant: the direction of the message does not matter.
MtRoleOneWay(number, field) ==
  CASE field.tag \in {"50C", "50L"} -> "InstructingParty"
    [] field.number = "50" -> "OrderingCustomer"
    [] field.number = "51" -> "SendingInstitution"
    [] field.number = "52" -> "OrderingInstitution"
    [] field.number = "53" -> "SendersCorrespondent"
    [] field.number = "54" -> "ReceiversCorrespondent"
    [] field.number = "55" -> "ThirdReimbursementInstitution"
    [] field.number = "56" -> "IntermediaryInstitution"
    [] field.number = "57" -> "AccountWithInstitution"
    [] field.number = "58" -> "BeneficiaryInstitution"
    [] field.number = "59" -> "Beneficiary"
    [] OTHER -> Null

\* mt_role: fields 50 to 59; a direct debit runs the other way.
MtRole(number, field) ==
  LET debit == number \in {"104", "107"}
  IN  CASE field.tag \in {"50C", "50L"} -> "InstructingParty"
        [] debit /\ field.number = "50" -> "Creditor"
        [] debit /\ field.number = "52" -> "CreditorBank"
        [] debit /\ field.number = "57" -> "DebtorBank"
        [] debit /\ field.number = "59" -> "Debtor"
        [] field.number = "50" -> "OrderingCustomer"
        [] field.number = "51" -> "SendingInstitution"
        [] field.number = "52" -> "OrderingInstitution"
        [] field.number = "53" -> "SendersCorrespondent"
        [] field.number = "54" -> "ReceiversCorrespondent"
        [] field.number = "55" -> "ThirdReimbursementInstitution"
        [] field.number = "56" -> "IntermediaryInstitution"
        [] field.number = "57" -> "AccountWithInstitution"
        [] field.number = "58" -> "BeneficiaryInstitution"
        [] field.number = "59" -> "Beneficiary"
        [] OTHER -> Null

\* load: a repeated tag says which occurrence it is.
AuditOf(m) ==
  LET role(i)  == MtRole(MessageNumber(m), m.body[i])
      parties  == SetToSortSeq({i \in DOMAIN m.body : role(i) # Null}, <)
      count(i) == Cardinality({j \in 1 .. i : m.body[j].tag = m.body[i].tag})
  IN  [n \in DOMAIN parties |->
         [field |-> parties[n], role |-> role(parties[n]),
          party_path |-> <<m.body[parties[n]].tag, count(parties[n])>>]]

-----------------------------------------------------------------------------
CountedInit == Init /\ counted = 0

CountedNext ==
  Next /\ counted' = IF row' = Null THEN counted ELSE counted + 1

CountedSpec == CountedInit /\ [][CountedNext]_<<vars, counted>>

-----------------------------------------------------------------------------
(* The party columns by name, as the readers declare them (Mt101Row to     *)
(* Mt202Row), for the columns MtPayments calls by number.                  *)

Route ==
  "51A" :> "SendingInstitution" @@ "52" :> "OrderingInstitution"
  @@ "53" :> "SendersCorrespondent" @@ "54" :> "ReceiversCorrespondent"
  @@ "55" :> "ThirdReimbursementInstitution" @@ "56" :> "IntermediaryInstitution"
  @@ "57" :> "AccountWithInstitution" @@ "58" :> "BeneficiaryInstitution"
  @@ "59" :> "Beneficiary" @@ "50" :> "OrderingCustomer"
  @@ "instructing" :> "InstructingParty"

ColumnNames ==
  CASE mt = "101" -> "ordering" :> "OrderingCustomer"
                     @@ "52" :> "AccountServicingInstitution" @@ Route
    [] mt = "104" -> "creditor" :> "Creditor" @@ "52" :> "CreditorBank"
                     @@ "57" :> "DebtorBank" @@ "59" :> "Debtor" @@ Route
    [] mt = "202" -> "cov_52" :> "OrderingInstitution"
                     @@ "cov_56" :> "IntermediaryInstitution"
                     @@ "cov_57" :> "AccountWithInstitution" @@ Route
    [] OTHER -> Route

-----------------------------------------------------------------------------
(* Properties.                                                             *)

\* The reader a file is said to be for reads it, and gives as many rows as the
\* file is said to hold, over messages of other types, bare ones and ACKs
\* (sniff.rs sniff_mt against the four next_row of the readers).
InventoryCountsTheRows ==
  SniffMt.reader = mt =>
    /\ result = "ended" => counted = SniffMt.records
    /\ result = "failed" => saw_my_type
    /\ counted <= SniffMt.records

\* A party a reader puts in a column is one row of the audit, under a path no
\* other party of the message has and the role the column is named for.  The
\* one exception is the AccountServicingInstitution of an MT101, which the
\* audit calls by what its field is in the other types.
AuditNamesTheColumns ==
  mt \in Payments /\ row # Null =>
    LET audit == AuditOf(file[at_message])
    IN  /\ \A a, b \in DOMAIN audit :
             audit[a].party_path = audit[b].party_path => a = b
        /\ \A c \in DOMAIN row.columns \cap DOMAIN ColumnNames :
             \A i \in Range(row.columns[c]) :
               \E a \in DOMAIN audit :
                 /\ audit[a].field = i
                 /\ \/ audit[a].role = ColumnNames[c]
                    \/ ColumnNames[c] = "AccountServicingInstitution"
=============================================================================
