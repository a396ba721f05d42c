------------------------------ MODULE Identity ------------------------------
(***************************************************************************)
(* What the sniffer and the address audit both know of ISO 20022           *)
(* (src/sniff.rs): the elements that are records, the family a container   *)
(* announces, the reader of a family, and where a message names itself.    *)
(*                                                                         *)
(* A message identifier stands for its family, the first eight characters, *)
(* and a container name for itself without its version suffix.             *)
(***************************************************************************)
EXTENDS Wire

Some(v, otherwise) == IF v # Null THEN v ELSE otherwise

\* The value of the first of some options that there is.
FirstOf(options) ==
  LET some == {i \in DOMAIN options : options[i] # Null}
  IN  IF some = {} THEN Null
      ELSE options[CHOOSE i \in some : \A j \in some : i <= j]

RecordElems ==
  {"Ntry", "CdtTrfTxInf", "CdtTrfTx", "DrctDbtTxInf", "TxInf", "TxInfAndSts",
   "Mndt", "UndrlygAmdmntDtls", "UndrlygCxlDtls", "UndrlygAccptncDtls", "Itm"}

Announced ==
  [Rcpt |-> "camt.025", AcctRptgReq |-> "camt.060",
   ChqPresntmntNtfctn |-> "camt.107", ChqCxlOrStopReq |-> "camt.108",
   ChqCxlOrStopRpt |-> "camt.109", ClmNonRct |-> "camt.027",
   AddtlPmtInf |-> "camt.028", RsltnOfInvstgtn |-> "camt.029",
   NtfctnOfCaseAssgnmt |-> "camt.030", RjctInvstgtn |-> "camt.031",
   DbtAuthstnRspn |-> "camt.036", DbtAuthstnReq |-> "camt.037",
   BkToCstmrAcctRpt |-> "camt.052", BkToCstmrStmt |-> "camt.053",
   BkToCstmrDbtCdtNtfctn |-> "camt.054", CstmrPmtCxlReq |-> "camt.055",
   FIToFIPmtCxlReq |-> "camt.056", NtfctnToRcv |-> "camt.057",
   ReqToModfyPmt |-> "camt.087", FIToFIPmtStsRpt |-> "pacs.002",
   FIToFICstmrDrctDbt |-> "pacs.003", PmtRtr |-> "pacs.004",
   FIToFIPmtRvsl |-> "pacs.007", FIToFICstmrCdtTrf |-> "pacs.008",
   FICdtTrf |-> "pacs.009", FinInstnCdtTrf |-> "pacs.009",
   FinInstToFinInstCdtTrf |-> "pacs.009", FIDrctDbt |-> "pacs.010",
   FIToFIPmtStsReq |-> "pacs.028", CstmrCdtTrfInitn |-> "pain.001",
   CstmrPmtStsRpt |-> "pain.002", CstmrDrctDbtInitn |-> "pain.008",
   MndtInitnReq |-> "pain.009", MndtAmdmntReq |-> "pain.010",
   MndtCxlReq |-> "pain.011", MndtAccptncRpt |-> "pain.012",
   CdtrPmtActvtnReq |-> "pain.013", CdtrPmtActvtnReqStsRpt |-> "pain.014"]

FamilyOfContainer(name) ==
  IF name \in DOMAIN Announced THEN Announced[name] ELSE Null

Unread == {"camt.025", "camt.060", "camt.107", "camt.108", "camt.109"}
Families == {Announced[name] : name \in DOMAIN Announced}
StatementMessages == {"camt.052", "camt.053", "camt.054"}
MtRead == {"mt.101", "mt.103", "mt.104", "mt.202", "mt.940", "mt.942"}

\* A reader is named for its family, but for the one of the statements.
ReaderOf(family) ==
  CASE family \in StatementMessages -> "iso20022"
    [] family \in (Families \ (StatementMessages \cup Unread)) \cup MtRead -> family
    [] OTHER -> Null

RecordElemOf(family) ==
  CASE family \in StatementMessages -> "Ntry"
    [] family \in {"pacs.008", "pacs.009", "pain.001"} -> "CdtTrfTxInf"
    [] family \in {"pacs.003", "pain.008", "pacs.010"} -> "DrctDbtTxInf"
    [] family \in {"pacs.004", "pacs.007", "camt.055", "camt.056", "pacs.028"}
         -> "TxInf"
    [] family \in {"pacs.002", "pain.002", "pain.014", "camt.029"}
         -> "TxInfAndSts"
    [] family = "pain.009" -> "Mndt"
    [] family = "pain.010" -> "UndrlygAmdmntDtls"
    [] family = "pain.011" -> "UndrlygCxlDtls"
    [] family = "pain.012" -> "UndrlygAccptncDtls"
    [] family = "pain.013" -> "CdtTrfTx"
    [] family = "camt.057" -> "Itm"
    [] OTHER -> Null

IsMessageId(path) ==
  \E tail \in {<<"GrpHdr", "MsgId">>, <<"Assgnmt", "Id">>, <<"MsgHdr", "MsgId">>} :
    EndsWith(path, tail)

IsMessageDefinition(path) == EndsWith(path, <<"AppHdr", "MsgDefIdr">>)

\* What a MsgDefIdr names: a text that is an identifier, and nothing else.
MessageDefinition(text) == IF text \in Families THEN text ELSE Null
=============================================================================
