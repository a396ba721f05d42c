----------------------------- MODULE CaseFamilies -----------------------------
(***************************************************************************)
(* The camt messages around a payment: the cancellation requests camt.055  *)
(* and camt.056 and their resolution camt.029, the investigation messages  *)
(* camt.027, .028, .030, .031, .036, .037 and .087, one row per message,   *)
(* and the notification to receive, camt.057.                              *)
(***************************************************************************)
EXTENDS GroupTable

LOCAL Original == {"orgnl_msg_id", "orgnl_msg_nm_id"}

LOCAL OriginalOf(tail) ==
  "orgnl_msg_id" :> {tail \o <<"OrgnlMsgId">>}
  @@ "orgnl_msg_nm_id" :> {tail \o <<"OrgnlMsgNmId">>}

\* What the group of a cancellation request states.
LOCAL GroupSet ==
  "grp_cxl_id" :> {<<"OrgnlGrpInfAndCxl", "GrpCxlId">>}
  @@ "group_cancellation" :> {<<"OrgnlGrpInfAndCxl", "GrpCxl">>}
  @@ "number_of_txs" :> {<<"OrgnlGrpInfAndCxl", "NbOfTxs">>}
  @@ OriginalOf(<<"OrgnlGrpInfAndCxl">>)

LOCAL ReasonSet(block, reason) ==
  reason.code :> {}
  @@ reason.info :> {<<block, "CxlRsnInf", "AddtlInf">>}
  @@ reason.originator :> {<<block, "CxlRsnInf", "Orgtr", "Nm">>}

LOCAL ReasonFill(block, reason) ==
  reason.code :> Cdly(<<block, "CxlRsnInf", "Rsn">>)

LOCAL GroupFields ==
  DOMAIN GroupSet \cup {Group.code, Group.info, Group.originator}

\* row_from_group.
LOCAL GroupRow ==
  Carried(Assignment \cup DOMAIN GroupSet) \cup Inherited(<<Group>>, FALSE)

Camt056 ==
  [Plain EXCEPT
     !.containers = <<"FIToFIPmtCxlReq", "camt.056.001.01">>,
     !.records = {"TxInf"},
     !.set = AssignmentSet @@ CaseSet @@ GroupSet
             @@ ReasonSet("OrgnlGrpInfAndCxl", Group),
     !.fill = AssignmentFill @@ CaseFill
              @@ ReasonFill("OrgnlGrpInfAndCxl", Group),
     !.lists = {Group.info},
     !.starts = "Undrlyg" :> GroupFields,
     !.ends = "OrgnlGrpInfAndCxl" :> RowOf("GROUP", {})]

Camt056Group == GroupRow

Camt056Row ==
  Carried(Assignment) \cup OwnElse({"case_id"} \cup Original)
  \cup Inherited(<<Group>>, TRUE)

LOCAL PaymentSet ==
  "pmt.id" :> {<<"OrgnlPmtInfAndCxl", "OrgnlPmtInfId">>}
  @@ "pmt.cancellation_id" :> {<<"OrgnlPmtInfAndCxl", "PmtInfCxlId">>}
  @@ "pmt.orgnl_msg_id" :> {<<"OrgnlPmtInfAndCxl", "OrgnlGrpInf", "OrgnlMsgId">>}
  @@ "pmt.orgnl_msg_nm_id" :>
       {<<"OrgnlPmtInfAndCxl", "OrgnlGrpInf", "OrgnlMsgNmId">>}
  @@ ReasonSet("OrgnlPmtInfAndCxl", Payment)

\* Three scopes: the underlying message, its group block, its payment groups.
Camt055 ==
  [Plain EXCEPT
     !.containers = <<"CstmrPmtCxlReq", "camt.055.001.01">>,
     !.records = {"TxInf"},
     !.set = AssignmentSet @@ GroupSet @@ ReasonSet("OrgnlGrpInfAndCxl", Group)
             @@ PaymentSet,
     !.fill = AssignmentFill @@ ReasonFill("OrgnlGrpInfAndCxl", Group)
              @@ ReasonFill("OrgnlPmtInfAndCxl", Payment),
     !.lists = {Group.info, Payment.info},
     !.starts = "Undrlyg" :> GroupFields \cup DOMAIN PaymentSet
                @@ "OrgnlPmtInfAndCxl" :> DOMAIN PaymentSet,
     !.ends = "OrgnlGrpInfAndCxl" :> RowOf("GROUP", {})
              @@ "OrgnlPmtInfAndCxl" :> RowOf("PAYMENT_INFO", DOMAIN PaymentSet)]

LOCAL OriginalOfPayment ==
  Nearest("orgnl_msg_id", "pmt.orgnl_msg_id", "orgnl_msg_id")
  \cup Nearest("orgnl_msg_nm_id", "pmt.orgnl_msg_nm_id", "orgnl_msg_nm_id")

Camt055Group == GroupRow

Camt055Payment ==
  Carried(Assignment \cup {"pmt.id", "pmt.cancellation_id"})
  \cup OriginalOfPayment \cup Inherited(<<Payment>>, FALSE)

Camt055Row ==
  Carried(Assignment \cup {"pmt.id"})
  \cup OriginalOfPayment \cup Inherited(<<Payment, Group>>, TRUE)

\* The answer: one row for the message itself, when it closes.
Camt029 ==
  LET containers == <<"RsltnOfInvstgtn", "camt.029.001.01">> IN
  [Plain EXCEPT
     !.containers = containers,
     !.records = {"TxInfAndSts"},
     !.set = AssignmentSet
             @@ "case_id" :> {<<"RslvdCase", "Id">>}
             @@ "confirmation" :> {<<"Sts", "Conf">>}
             @@ OriginalOf(<<"OrgnlGrpInfAndSts">>),
     !.fill = AssignmentFill,
     !.starts = "CxlDtls" :> Original,
     !.ends = "OrgnlGrpInfAndSts" :> RowOf("GROUP", {})
              @@ [c \in {containers[i] : i \in DOMAIN containers} |->
                    RowOf("RESOLUTION", {})],
     !.sawAt = "RESOLUTION"]

Camt029Group == Carried(Assignment \cup Original)
Camt029Resolution == Carried(Assignment \cup {"case_id", "confirmation"})
Camt029Row == Carried(Assignment) \cup OwnElse({"case_id"} \cup Original)

-----------------------------------------------------------------------------
(* The investigations: one row, from the assignment, the case and what the *)
(* message holds besides.                                                  *)

LOCAL Investigation(containers, details, set, fill, fallible) ==
  [Plain EXCEPT
     !.containers = containers,
     !.details = details,
     !.set = AssignmentSet @@ CaseSet @@ set,
     !.fill = AssignmentFill @@ CaseFill @@ fill,
     !.ends = [c \in {containers[i] : i \in DOMAIN containers} |->
                 [RowOf("CASE", {}) EXCEPT !.fallible = fallible]]]

Camt027 ==
  Investigation(<<"ClmNonRct", "camt.027.001.01">>,
                "Undrlyg" :> "undrlyg", <<>>, <<>>, TRUE)
Camt027Row == Carried(Assignment \cup Case \cup {"undrlyg"})

Camt028 ==
  Investigation(<<"AddtlPmtInf", "camt.028.001.01">>,
                "Undrlyg" :> "undrlyg" @@ "Inf" :> "inf", <<>>, <<>>, TRUE)
Camt028Row == Carried(Assignment \cup Case \cup {"undrlyg", "inf"})

Camt030 ==
  Investigation(
    <<"NtfctnOfCaseAssgnmt", "camt.030.001.01">>, <<>>,
    "hdr.id" :> {<<"Hdr", "Id">>} @@ "hdr.created" :> {<<"Hdr", "CreDtTm">>}
    @@ "hdr.from" :> PartySet("Fr") @@ "hdr.to" :> PartySet("To")
    @@ "justification" :> {<<"Ntfctn", "Justfn">>},
    "hdr.from" :> OrgIds("Fr") @@ "hdr.to" :> OrgIds("To"), FALSE)
Camt030Row ==
  Carried(Assignment \cup Case
          \cup {"hdr.id", "hdr.created", "hdr.from", "hdr.to", "justification"})

Camt031 ==
  Investigation(<<"RjctInvstgtn", "camt.031.001.01">>, <<>>,
                "rejection_reason" :> {<<"Justfn", "RjctnRsn">>}, <<>>, FALSE)
Camt031Row == Carried(Assignment \cup Case \cup {"rejection_reason"})

Camt036 ==
  Investigation(<<"DbtAuthstnRspn", "camt.036.001.01">>, <<>>,
                "debit_authorised" :> {<<"Conf", "DbtAuthstn">>}, <<>>, FALSE)
Camt036Row == Carried(Assignment \cup Case \cup {"debit_authorised"})

Camt037 ==
  Investigation(<<"DbtAuthstnReq", "camt.037.001.01">>,
                "Undrlyg" :> "undrlyg" @@ "Dtl" :> "dtl", <<>>, <<>>, TRUE)
Camt037Row == Carried(Assignment \cup Case \cup {"undrlyg", "dtl"})

Camt087 ==
  Investigation(<<"ReqToModfyPmt", "camt.087.001.01">>,
                "Undrlyg" :> "undrlyg" @@ "Mod" :> "modification", <<>>, <<>>, TRUE)
Camt087Row == Carried(Assignment \cup Case \cup {"undrlyg", "modification"})

-----------------------------------------------------------------------------
(* The notification to receive, one row per item.                          *)

Camt057 ==
  [Plain EXCEPT
     !.containers = <<"NtfctnToRcv", "camt.057.001.01">>,
     !.records = {"Itm"},
     !.set = "msg_id" :> {<<"GrpHdr", "MsgId">>}
             @@ "notification_id" :> {<<"Ntfctn", "Id">>}
             @@ "account" :> Iban("Acct"),
     !.fill = "account" :> Other("Acct"),
     !.starts = "Ntfctn" :> {"notification_id", "account"}]

Camt057Row == Carried({"msg_id", "notification_id", "account"})

-----------------------------------------------------------------------------
LOCAL PerMessage(table, row) == [table EXCEPT !.rows = "CASE" :> row]

CaseFamily ==
  "camt.056" :> [Camt056 EXCEPT !.rows =
                   "GROUP" :> Camt056Group @@ "TRANSACTION" :> Camt056Row]
  @@ "camt.055" :> [Camt055 EXCEPT !.rows =
                   "GROUP" :> Camt055Group @@ "PAYMENT_INFO" :> Camt055Payment
                   @@ "TRANSACTION" :> Camt055Row]
  @@ "camt.029" :> [Camt029 EXCEPT !.rows =
                   "GROUP" :> Camt029Group @@ "RESOLUTION" :> Camt029Resolution
                   @@ "TRANSACTION" :> Camt029Row]
  @@ "camt.027" :> PerMessage(Camt027, Camt027Row)
  @@ "camt.028" :> PerMessage(Camt028, Camt028Row)
  @@ "camt.030" :> PerMessage(Camt030, Camt030Row)
  @@ "camt.031" :> PerMessage(Camt031, Camt031Row)
  @@ "camt.036" :> PerMessage(Camt036, Camt036Row)
  @@ "camt.037" :> PerMessage(Camt037, Camt037Row)
  @@ "camt.087" :> PerMessage(Camt087, Camt087Row)
  @@ "camt.057" :> [Camt057 EXCEPT !.rows = "TRANSACTION" :> Camt057Row]
=============================================================================
