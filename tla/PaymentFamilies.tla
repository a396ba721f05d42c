---------------------------- MODULE PaymentFamilies ----------------------------
(***************************************************************************)
(* The families whose rows are payments or mandates, one per record:       *)
(* initiations (pain.001, pain.008, pain.013), interbank payments          *)
(* (pacs.003, pacs.008, pacs.009, pacs.010), reversals and returns         *)
(* (pacs.007, pacs.004) and the mandate messages (pain.009 to pain.012);   *)
(* and the reports on payments, whose blocks give rows of their own.       *)
(***************************************************************************)
EXTENDS GroupTable

LOCAL MsgId == "msg_id" :> {<<"GrpHdr", "MsgId">>}

\* What a payment group shares among the initiations.
LOCAL PaymentGroup ==
  MsgId
  @@ "initiating_party" :> {<<"GrpHdr", "InitgPty", "Nm">>}
  @@ "payment_info_id" :> {<<"PmtInf", "PmtInfId">>}
  @@ "payment_method" :> {<<"PmtInf", "PmtMtd">>}
  @@ "group_chrg_br" :> {<<"PmtInf", "ChrgBr">>}

\* Everything the header does not say starts over with a payment group.
LOCAL PerGroup(set) == DOMAIN set \ {"msg_id", "initiating_party"}

LOCAL Debtor ==
  "debtor_name" :> Named(<<"Dbtr">>) @@ "debtor_account" :> Iban("DbtrAcct")
  @@ "debtor_agent_bic" :> Bic(<<"DbtrAgt">>)

Pain001Set ==
  PaymentGroup @@ Debtor @@ "requested_execution_date" :> Date("ReqdExctnDt")

Pain001 ==
  [Plain EXCEPT
     !.containers = <<"CstmrCdtTrfInitn", "pain.001.001.02">>,
     !.records = {"CdtTrfTxInf"},
     !.set = Pain001Set,
     !.fill = "debtor_account" :> Other("DbtrAcct")
              @@ "debtor_agent_bic" :> Member(<<"DbtrAgt">>),
     !.starts = "PmtInf" :> PerGroup(Pain001Set)]

Pain001Row ==
  Carried(DOMAIN Pain001Set \ {"group_chrg_br"}) \cup OwnElse({"group_chrg_br"})

Pain008Set ==
  PaymentGroup
  @@ "sequence_type" :> {<<"PmtInf", "PmtTpInf", "SeqTp">>}
  @@ "requested_collection_date" :> Date("ReqdColltnDt")
  @@ "creditor_name" :> Named(<<"Cdtr">>)
  @@ "creditor_account" :> Iban("CdtrAcct")
  @@ "creditor_agent_bic" :> Bic(<<"CdtrAgt">>)
  @@ "creditor_scheme_id" :> {<<"CdtrSchmeId", "Id", "PrvtId", "Othr", "Id">>}

Pain008 ==
  [Plain EXCEPT
     !.containers = <<"CstmrDrctDbtInitn", "pain.008.001.01">>,
     !.records = {"DrctDbtTxInf"},
     !.set = Pain008Set,
     !.fill = "creditor_account" :> Other("CdtrAcct")
              @@ "creditor_agent_bic" :> Member(<<"CdtrAgt">>),
     !.starts = "PmtInf" :> PerGroup(Pain008Set)]

Pain008Row ==
  Carried(DOMAIN Pain008Set \ {"sequence_type", "group_chrg_br"})
  \cup OwnElse({"sequence_type", "group_chrg_br"})

Pain013Set == Pain001Set @@ "expiry_date" :> Date("XpryDt")

Pain013 ==
  [Plain EXCEPT
     !.containers = <<"CdtrPmtActvtnReq", "pain.013.001.01">>,
     !.records = {"CdtTrfTx"},
     !.set = Pain013Set,
     !.fill = "debtor_account" :> Other("DbtrAcct")
              @@ "debtor_agent_bic" :>
                   Member(<<"DbtrAgt">>) \cup {<<"DbtrAgt", "FinInstnId", "Nm">>},
     !.starts = "PmtInf" :> PerGroup(Pain013Set)]

Pain013Row ==
  Carried(DOMAIN Pain013Set \ {"requested_execution_date", "group_chrg_br"})
  \cup OwnElse({"requested_execution_date", "group_chrg_br"})

-----------------------------------------------------------------------------
(* Interbank payments: a header and its transactions.                      *)

LOCAL SettledOn == "group_sttlm_dt" :> {<<"GrpHdr", "IntrBkSttlmDt">>}

Pacs003 ==
  [Plain EXCEPT
     !.containers = <<"FIToFICstmrDrctDbt", "pacs.003.001.01">>,
     !.records = {"DrctDbtTxInf"},
     !.set = MsgId @@ SettledOn
             @@ "group_seq_tp" :> {<<"GrpHdr", "PmtTpInf", "SeqTp">>}]

Pacs003Row == Carried({"msg_id"}) \cup OwnElse({"group_sttlm_dt", "group_seq_tp"})

Pacs008 ==
  [Plain EXCEPT
     !.containers = <<"FIToFICstmrCdtTrf", "pacs.008.001.01">>,
     !.records = {"CdtTrfTxInf"},
     !.set = MsgId @@ SettledOn]

Pacs008Row == Carried({"msg_id"}) \cup OwnElse({"group_sttlm_dt"})

Pacs009 ==
  [Plain EXCEPT
     !.containers = <<"FICdtTrf", "FinInstnCdtTrf", "FinInstToFinInstCdtTrf",
                      "pacs.009.001.01">>,
     !.records = {"CdtTrfTxInf"},
     !.set = MsgId @@ SettledOn]

Pacs009Row == Carried({"msg_id"}) \cup OwnElse({"group_sttlm_dt"})

Pacs010Set ==
  MsgId
  @@ "credit_instruction_id" :> {<<"CdtInstr", "CdtId">>}
  @@ "instructing_agent_bic" :> Bic(<<"InstgAgt">>)
  @@ "instructed_agent_bic" :> Bic(<<"InstdAgt">>)
  @@ "creditor_agent_bic" :> Bic(<<"CdtrAgt">>)
  @@ "creditor_fi" :> Bic(<<"Cdtr">>)
  @@ "creditor_account" :> Iban("CdtrAcct")

Pacs010 ==
  [Plain EXCEPT
     !.containers = <<"FIDrctDbt", "pacs.010.001.01">>,
     !.records = {"DrctDbtTxInf"},
     !.set = Pacs010Set,
     !.fill = "instructing_agent_bic" :> Member(<<"InstgAgt">>)
              @@ "instructed_agent_bic" :> Member(<<"InstdAgt">>)
              @@ "creditor_agent_bic" :> Member(<<"CdtrAgt">>)
              @@ "creditor_fi" :>
                   Member(<<"Cdtr">>) \cup {<<"Cdtr", "FinInstnId", "Nm">>}
              @@ "creditor_account" :> Other("CdtrAcct"),
     !.starts = "CdtInstr" :> DOMAIN Pacs010Set \ {"msg_id"}]

Pacs010Row == Carried(DOMAIN Pacs010Set)

-----------------------------------------------------------------------------
(* Returns and reversals: a reason for the whole message, inherited whole. *)

LOCAL Original == {"orgnl_msg_id", "orgnl_msg_nm_id"}

LOCAL Undone(reasons, reason, info, orgtr) ==
  [Plain EXCEPT
     !.records = {"TxInf"},
     !.set = MsgId
             @@ "sttlm_dt" :> {<<"GrpHdr", "IntrBkSttlmDt">>}
             @@ "orgnl_msg_id" :> {<<"OrgnlGrpInf", "OrgnlMsgId">>}
             @@ "orgnl_msg_nm_id" :> {<<"OrgnlGrpInf", "OrgnlMsgNmId">>}
             @@ Group.code :> {}
             @@ Group.info :> {<<reasons, "AddtlInf">>, <<reasons, info>>}
             @@ Group.originator :> {<<reasons, o, "Nm">> : o \in {"Orgtr", orgtr}},
     !.fill = Group.code :> UNION {Cdly(<<reasons, r>>) : r \in {"Rsn", reason}},
     !.lists = {Group.info}]

Pacs004 ==
  [Undone("RtrRsnInf", "RtrRsn", "AddtlRtrRsnInf", "RtrOrgtr") EXCEPT
     !.containers = <<"PmtRtr", "pacs.004.001.01">>]

Pacs004Row ==
  Carried({"msg_id"}) \cup OwnElse(Original \cup {"sttlm_dt"})
  \cup Inherited(<<Group>>, TRUE)

Pacs007 ==
  [Undone("RvslRsnInf", "RvslRsn", "AddtlRvslRsnInf", "RvslOrgtr") EXCEPT
     !.containers = <<"FIToFIPmtRvsl", "pacs.007.001.01">>]

Pacs007Row ==
  Carried({"msg_id"}) \cup OwnElse(Original \cup {"sttlm_dt"})
  \cup Inherited(<<Group>>, TRUE)

-----------------------------------------------------------------------------
(* Mandates: a header and its records.                                     *)

LOCAL Mandates(container, edition, record) ==
  [Plain EXCEPT
     !.containers = <<container, edition>>, !.records = {record},
     !.set = HeaderSet, !.fill = HeaderFill]

Pain009 == Mandates("MndtInitnReq", "pain.009.001.01", "Mndt")
Pain010 == Mandates("MndtAmdmntReq", "pain.010.001.01", "UndrlygAmdmntDtls")
Pain011 == Mandates("MndtCxlReq", "pain.011.001.01", "UndrlygCxlDtls")
Pain012 == Mandates("MndtAccptncRpt", "pain.012.001.01", "UndrlygAccptncDtls")

\* The initiation has no column for the agents.
Pain009Row ==
  Carried(Header \ {"instructing_agent_bic", "instructed_agent_bic"})
Pain010Row == Carried(Header)
Pain011Row == Carried(Header)
Pain012Row == Carried(Header)

-----------------------------------------------------------------------------
LOCAL PerRecord(table, row) == [table EXCEPT !.rows = "TRANSACTION" :> row]

PaymentFamily ==
  "pain.001" :> PerRecord(Pain001, Pain001Row)
  @@ "pain.008" :> PerRecord(Pain008, Pain008Row)
  @@ "pain.013" :> PerRecord(Pain013, Pain013Row)
  @@ "pacs.003" :> PerRecord(Pacs003, Pacs003Row)
  @@ "pacs.008" :> PerRecord(Pacs008, Pacs008Row)
  @@ "pacs.009" :> PerRecord(Pacs009, Pacs009Row)
  @@ "pacs.010" :> PerRecord(Pacs010, Pacs010Row)
  @@ "pacs.004" :> PerRecord(Pacs004, Pacs004Row)
  @@ "pacs.007" :> PerRecord(Pacs007, Pacs007Row)
  @@ "pain.009" :> PerRecord(Pain009, Pain009Row)
  @@ "pain.010" :> PerRecord(Pain010, Pain010Row)
  @@ "pain.011" :> PerRecord(Pain011, Pain011Row)
  @@ "pain.012" :> PerRecord(Pain012, Pain012Row)
-----------------------------------------------------------------------------
(* The families that answer for earlier payments, or ask about them: the   *)
(* status reports pacs.002, pain.002 and pain.014, and the status request  *)
(* pacs.028.  A report gives a row for each block that states a status,    *)
(* the group's or a payment group's, and one for each transaction.         *)

LOCAL OriginalOf(block) ==
  "orgnl_msg_id" :> {<<block, "OrgnlMsgId">>}
  @@ "orgnl_msg_nm_id" :> {<<block, "OrgnlMsgNmId">>}

\* The agents of the header, by BIC or else by another identifier.
LOCAL AgentSet ==
  "instg_bic" :> Bic(<<"GrpHdr", "InstgAgt">>)
  @@ "instd_bic" :> Bic(<<"GrpHdr", "InstdAgt">>)

LOCAL AgentFill ==
  [f \in {"instg_bic", "instd_bic"} |->
     LET role == <<"GrpHdr", IF f = "instg_bic" THEN "InstgAgt" ELSE "InstdAgt">>
     IN  Member(role) \cup {role \o <<"FinInstnId", "Othr", "Id">>}]

LOCAL Agents == {"instg_bic", "instd_bic"}

Pacs002Set ==
  MsgId @@ AgentSet @@ OriginalOf("OrgnlGrpInfAndSts")
  @@ "grp.status" :> {<<"OrgnlGrpInfAndSts", "GrpSts">>}
  @@ Group.code :> {}
  @@ Group.info :> {<<"OrgnlGrpInfAndSts", "StsRsnInf", "AddtlInf">>}
  @@ Group.originator :> {<<"OrgnlGrpInfAndSts", "StsRsnInf", "Orgtr", "Nm">>}

\* A block answers about its own original message: it starts the status and the
\* reason over, and keeps the reason for the transactions after it.
Pacs002 ==
  [Plain EXCEPT
     !.containers = <<"FIToFIPmtStsRpt", "pacs.002.001.01">>,
     !.records = {"TxInfAndSts"},
     !.set = Pacs002Set,
     !.fill = AgentFill
              @@ Group.code :> Cdly(<<"OrgnlGrpInfAndSts", "StsRsnInf", "Rsn">>),
     !.lists = {Group.info},
     !.gated = TRUE,
     !.starts = "OrgnlGrpInfAndSts" :>
                  {"grp.status", Group.code, Group.info, Group.originator},
     !.ends = "OrgnlGrpInfAndSts" :> RowOf("GROUP", {})]

Pacs002Group ==
  Carried({"msg_id", "grp.status"} \cup Agents \cup Original)
  \cup Inherited(<<Group>>, FALSE)

Pacs002Row ==
  Carried({"msg_id"}) \cup OwnElse(Agents \cup Original)
  \cup Inherited(<<Group>>, TRUE)

\* A request gives one row itself when none of its transactions gave any.
Pacs028 ==
  LET containers == <<"FIToFIPmtStsReq", "pacs.028.001.01">> IN
  [Plain EXCEPT
     !.containers = containers,
     !.records = {"TxInf"},
     !.set = MsgId @@ AgentSet @@ OriginalOf("OrgnlGrpInf"),
     !.fill = AgentFill,
     !.ends = [c \in {containers[i] : i \in DOMAIN containers} |->
                 [RowOf("GROUP", {}) EXCEPT !.always = FALSE]]]

Pacs028Group == Carried({"msg_id"} \cup Agents \cup Original)

Pacs028Row == Carried({"msg_id"} \cup Agents) \cup OwnElse(Original)

-----------------------------------------------------------------------------
(* pain.002 and pain.014: a status at two levels, each with its reason.  The *)
(* code finds a reason leaf by its last two names and the parent of its      *)
(* StsRsnInf (reason_leaf): these are the paths the schema has them at.      *)

LOCAL StatusSet(block, reason) ==
  reason.code :> {}
  @@ reason.info :> {<<block, "StsRsnInf", "AddtlInf">>}
  @@ reason.originator :>
       {<<block, "StsRsnInf", o, "Nm">> : o \in {"Orgtr", "StsOrgtr"}}

LOCAL StatusFill(block, reason) ==
  reason.code :>
    UNION {Cdly(<<block, "StsRsnInf", r>>) : r \in {"Rsn", "StsRsn"}}

LOCAL GroupStatus ==
  "grp.status" :> {<<"OrgnlGrpInfAndSts", "GrpSts">>}
  @@ "grp.number_of_txs" :> {<<"OrgnlGrpInfAndSts", "OrgnlNbOfTxs">>}
  @@ "grp.control_sum" :> {<<"OrgnlGrpInfAndSts", "OrgnlCtrlSum">>}
  @@ StatusSet("OrgnlGrpInfAndSts", Group)

LOCAL PaymentStatus ==
  "pmt.id" :> {<<"OrgnlPmtInfAndSts", "OrgnlPmtInfId">>}
  @@ "pmt.status" :> {<<"OrgnlPmtInfAndSts", "PmtInfSts">>}
  @@ "pmt.number_of_txs" :> {<<"OrgnlPmtInfAndSts", "OrgnlNbOfTxs">>}
  @@ "pmt.control_sum" :> {<<"OrgnlPmtInfAndSts", "OrgnlCtrlSum">>}
  @@ StatusSet("OrgnlPmtInfAndSts", Payment)

\* Both blocks are cleared when they have given their row, a payment group's
\* when it opens too.
LOCAL Report ==
  [Plain EXCEPT
     !.records = {"TxInfAndSts"},
     !.set = MsgId @@ "initiating_party" :> {<<"GrpHdr", "InitgPty", "Nm">>}
             @@ OriginalOf("OrgnlGrpInfAndSts") @@ GroupStatus @@ PaymentStatus,
     !.fill = StatusFill("OrgnlGrpInfAndSts", Group)
              @@ StatusFill("OrgnlPmtInfAndSts", Payment),
     !.lists = {Group.info, Payment.info},
     !.gated = TRUE,
     !.starts = "OrgnlPmtInfAndSts" :> DOMAIN PaymentStatus,
     !.ends =
       "OrgnlGrpInfAndSts" :>
          [RowOf("GROUP", DOMAIN GroupStatus) EXCEPT !.fallible = TRUE]
       @@ "OrgnlPmtInfAndSts" :>
          [RowOf("PAYMENT_INFO", DOMAIN PaymentStatus) EXCEPT !.fallible = TRUE],
     !.sawAt = "row"]

LOCAL ReportHeader == Carried({"msg_id", "initiating_party"} \cup Original)

\* row_from_status, for the group and for a payment group.
LOCAL ReportRow(status, reason) ==
  ReportHeader
  \cup Carried(DOMAIN status \ {reason.code, reason.info, reason.originator})
  \cup Inherited(<<reason>>, FALSE)

LOCAL ReportTransaction ==
  ReportHeader \cup Carried({"pmt.id"}) \cup Inherited(<<Payment>>, TRUE)

Pain002 ==
  [Report EXCEPT !.containers = <<"CstmrPmtStsRpt", "pain.002.001.02">>]
Pain002Group == ReportRow(GroupStatus, Group)
Pain002Payment == ReportRow(PaymentStatus, Payment)
Pain002Row == ReportTransaction

Pain014 ==
  [Report EXCEPT !.containers = <<"CdtrPmtActvtnReqStsRpt", "pain.014.001.01">>]
Pain014Group == ReportRow(GroupStatus, Group)
Pain014Payment == ReportRow(PaymentStatus, Payment)
Pain014Row == ReportTransaction

-----------------------------------------------------------------------------
StatusFamily ==
  "pacs.002" :> [Pacs002 EXCEPT !.rows =
                   "GROUP" :> Pacs002Group @@ "TRANSACTION" :> Pacs002Row]
  @@ "pacs.028" :> [Pacs028 EXCEPT !.rows =
                   "GROUP" :> Pacs028Group @@ "TRANSACTION" :> Pacs028Row]
  @@ "pain.002" :> [Pain002 EXCEPT !.rows =
                   "GROUP" :> Pain002Group @@ "PAYMENT_INFO" :> Pain002Payment
                   @@ "TRANSACTION" :> Pain002Row]
  @@ "pain.014" :> [Pain014 EXCEPT !.rows =
                   "GROUP" :> Pain014Group @@ "PAYMENT_INFO" :> Pain014Payment
                   @@ "TRANSACTION" :> Pain014Row]
=============================================================================
