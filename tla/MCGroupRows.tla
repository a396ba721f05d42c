----------------------------- MODULE MCGroupRows -----------------------------
(***************************************************************************)
(* GroupRows for every family of the repository, and where the messages of *)
(* each family keep what they say, as their schemas have it.  A layout is  *)
(* a record:                                                               *)
(*   under     [block -> the block it stands in]                           *)
(*   heads     blocks that precede the others of their parent              *)
(*   many      heads that may be repeated                                  *)
(*   within    [block -> the fields that hold inside it]                   *)
(*   after     [head -> the fields that hold for what follows it, too]     *)
(*   required  fields every instance of their block states                 *)
(*   needs     [field -> fields one of which is stated with it]            *)
(*   records   the blocks that hold records                                *)
(*   own       the columns a record may state for itself                   *)
(*   gives     [block -> the level of the row its end is due]              *)
(*   amounts   the blocks whose row has an amount                          *)
(*   strays    [block -> fields the block may state of its own, irregular] *)
(* A field in no block is the message's.                                   *)
(***************************************************************************)
EXTENDS GroupRows, PaymentFamilies, CaseFamilies

\* Every family of messages the reader GroupReader reads.
Families == PaymentFamily @@ StatusFamily @@ CaseFamily

Flat ==
  [under |-> <<>>, heads |-> {}, many |-> {}, within |-> <<>>, after |-> <<>>,
   required |-> {}, needs |-> <<>>, strays |-> <<>>,
   amounts |-> {}, records |-> {"Message"}, own |-> {}, gives |-> <<>>]

\* Records in one kind of block, which says everything but common.
Blocks(name, block, common) ==
  [Flat EXCEPT
     !.under = block :> "Message", !.records = {block},
     !.within = block :> DOMAIN Families[name].set \ common]

LOCAL ReasonColumns == DOMAIN Group
LOCAL OriginalIds == {"orgnl_msg_id", "orgnl_msg_nm_id"}

LOCAL Investigated ==
  [Flat EXCEPT !.records = {}, !.gives = "Message" :> "CASE"]

LOCAL ReportLayout ==
  [Flat EXCEPT
     !.under = "OrgnlGrpInfAndSts" :> "Message"
               @@ "OrgnlPmtInfAndSts" :> "Message",
     !.heads = {"OrgnlGrpInfAndSts"},
     !.within = "OrgnlGrpInfAndSts" :> {"grp.status", "grp.number_of_txs",
                   "grp.control_sum", Group.code, Group.info, Group.originator}
                @@ "OrgnlPmtInfAndSts" :> {"pmt.id", "pmt.status",
                   "pmt.number_of_txs", "pmt.control_sum",
                   Payment.code, Payment.info, Payment.originator},
     !.after = "OrgnlGrpInfAndSts" :> OriginalIds,
     !.required = OriginalIds,
     !.amounts = {"OrgnlGrpInfAndSts", "OrgnlPmtInfAndSts"},
     !.records = {"Message", "OrgnlPmtInfAndSts"},
     !.own = ReasonColumns,
     !.gives = "OrgnlGrpInfAndSts" :> "GROUP"
               @@ "OrgnlPmtInfAndSts" :> "PAYMENT_INFO"]

LOCAL CancellationGroup ==
  {"grp_cxl_id", "group_cancellation", "number_of_txs",
   Group.code, Group.info, Group.originator} \cup OriginalIds

LOCAL Cancellation ==
  [Flat EXCEPT
     !.under = "Undrlyg" :> "Message" @@ "OrgnlGrpInfAndCxl" :> "Undrlyg",
     !.heads = {"OrgnlGrpInfAndCxl"},
     !.after = "OrgnlGrpInfAndCxl" :> CancellationGroup,
     !.records = {"Undrlyg"},
     !.own = ReasonColumns,
     !.gives = "OrgnlGrpInfAndCxl" :> "GROUP"]

Layouts ==
  "pain.001" :> [Blocks("pain.001", "PmtInf", {"msg_id", "initiating_party"})
                 EXCEPT !.own = {"group_chrg_br"}]
  @@ "pain.008" :> [Blocks("pain.008", "PmtInf", {"msg_id", "initiating_party"})
                 EXCEPT !.own = {"group_chrg_br", "sequence_type"}]
  @@ "pain.013" :> [Blocks("pain.013", "PmtInf", {"msg_id", "initiating_party"})
                 EXCEPT !.own = {"group_chrg_br", "requested_execution_date"}]
  @@ "pacs.003" :> [Flat EXCEPT !.own = {"group_sttlm_dt", "group_seq_tp"}]
  @@ "pacs.008" :> [Flat EXCEPT !.own = {"group_sttlm_dt"}]
  @@ "pacs.009" :> [Flat EXCEPT !.own = {"group_sttlm_dt"}]
  @@ "pacs.010" :> Blocks("pacs.010", "CdtInstr", {"msg_id"})
  @@ "pacs.004" :> [Flat EXCEPT
                 !.own = OriginalIds \cup {"sttlm_dt"} \cup ReasonColumns]
  @@ "pacs.007" :> [Flat EXCEPT
                 !.own = OriginalIds \cup {"sttlm_dt"} \cup ReasonColumns]
  @@ [name \in {"pain.009", "pain.010", "pain.011", "pain.012"} |-> Flat]
  @@ "pacs.028" :> [Flat EXCEPT
                 !.own = OriginalIds, !.gives = "Message" :> "GROUP"]
  @@ "pacs.002" :> [Flat EXCEPT
                 !.under = "OrgnlGrpInfAndSts" :> "Message",
                 !.heads = {"OrgnlGrpInfAndSts"},
                 !.many = {"OrgnlGrpInfAndSts"},
                 !.after = "OrgnlGrpInfAndSts" :>
                   {"grp.status", Group.code, Group.info, Group.originator}
                   \cup OriginalIds,
                 !.required = OriginalIds,
                 !.own = {"instg_bic", "instd_bic"} \cup OriginalIds
                         \cup ReasonColumns,
                 !.gives = "OrgnlGrpInfAndSts" :> "GROUP"]
  @@ "pain.002" :> ReportLayout
  @@ "pain.014" :> ReportLayout
  @@ "camt.056" :> [Cancellation EXCEPT
                 !.own = @ \cup {"case_id"} \cup OriginalIds,
                 !.strays = "OrgnlGrpInfAndCxl" :> {"case_id"}]
  @@ "camt.055" :> [Cancellation EXCEPT
                 !.under = @ @@ "OrgnlPmtInfAndCxl" :> "Undrlyg",
                 !.within = "OrgnlPmtInfAndCxl" :> {"pmt.id",
                   "pmt.cancellation_id", "pmt.orgnl_msg_id",
                   "pmt.orgnl_msg_nm_id",
                   Payment.code, Payment.info, Payment.originator},
                 !.needs = Payment.originator :> {Payment.code, Payment.info},
                 !.records = {"Undrlyg", "OrgnlPmtInfAndCxl"},
                 !.gives = @ @@ "OrgnlPmtInfAndCxl" :> "PAYMENT_INFO"]
  @@ "camt.029" :> [Flat EXCEPT
                 !.under = "CxlDtls" :> "Message"
                           @@ "OrgnlGrpInfAndSts" :> "CxlDtls",
                 !.heads = {"OrgnlGrpInfAndSts"},
                 !.after = "OrgnlGrpInfAndSts" :> OriginalIds,
                 !.records = {"CxlDtls"},
                 !.own = {"case_id"} \cup OriginalIds,
                 !.strays = "OrgnlGrpInfAndSts" :> {"case_id"},
                 !.gives = "OrgnlGrpInfAndSts" :> "GROUP"
                           @@ "Message" :> "RESOLUTION"]
  @@ [name \in {"camt.030", "camt.031", "camt.036"} |-> Investigated]
  @@ [name \in {"camt.027", "camt.028", "camt.037", "camt.087"} |->
                 [Investigated EXCEPT !.amounts = {"Message"}]]
  @@ "camt.057" :> Blocks("camt.057", "Ntfctn", {"msg_id"})

=============================================================================
