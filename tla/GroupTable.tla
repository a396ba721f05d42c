------------------------------ MODULE GroupTable ------------------------------
(***************************************************************************)
(* What one family of messages tells the streaming reader GroupReader, and *)
(* the parts several families share.  A family is a record:                *)
(*   containers  the names of its message element                          *)
(*   records     the elements it reads whole, one row each                 *)
(*   details     elements it reads whole for the row of the message:       *)
(*               [element -> field of the context]                         *)
(*   set, fill   the path tails that set a field of the context, and those *)
(*               that only fill a gap (get_or_insert_with)                 *)
(*   lists       the fields that collect every text                        *)
(*   starts      [element -> the fields its start tag resets]              *)
(*   gated       starts only counts inside the container                   *)
(*   ends        [element -> the row its end tag gives]                    *)
(*   rows        [level -> the bundles of columns of its rows]             *)
(*   sawAt       what the end of the input asks for: "open", a container;  *)
(*               "row", any row; or a row of that level                    *)
(***************************************************************************)
EXTENDS Integers, Sequences, TLC

Plain ==
  [containers |-> <<>>, records |-> {}, details |-> <<>>,
   set |-> <<>>, fill |-> <<>>, lists |-> {},
   starts |-> <<>>, gated |-> FALSE, ends |-> <<>>, rows |-> <<>>,
   sawAt |-> "open"]

-----------------------------------------------------------------------------
(* A bundle is a set of columns taken together from one source, each source  *)
(* naming the field of every column.  A record may state the bundle itself   *)
(* where own holds; a source is taken when a column of by is stated there,   *)
(* the last one when none is.                                                *)

\* The columns a row copies from the context.
Carried(columns) ==
  {[sources |-> <<[k \in {f} |-> f]>>, own |-> FALSE, by |-> {f}] : f \in columns}

\* The columns a record may state for itself.
OwnElse(columns) == {[b EXCEPT !.own = TRUE] : b \in Carried(columns)}

\* One column, from the payment group or else from the group.
Nearest(column, pmt, grp) ==
  {[sources |-> <<[k \in {column} |-> pmt], [k \in {column} |-> grp]>>,
    own |-> FALSE, by |-> {column}]}

\* The reason block of a scope.
Reason(code, info, originator) ==
  [code |-> code, info |-> info, originator |-> originator]

Group   == Reason("grp.reason_code", "grp.reason_info", "grp.reason_originator")
Payment == Reason("pmt.reason_code", "pmt.reason_info", "pmt.reason_originator")

Inherited(blocks, own) ==
  {[sources |-> blocks, own |-> own, by |-> {"code", "info"}]}

\* The row given at the end of a block, and the fields reset with it; unless
\* always, only when no record of the message gave one.  A fallible row reads an
\* amount, which may be none.
RowOf(level, clears) ==
  [level |-> level, clears |-> clears, always |-> TRUE, fallible |-> FALSE]

-----------------------------------------------------------------------------
(* Path tails.                                                             *)

\* An agent is named by its BIC, under either spelling.
Bic(tail) == {tail \o <<"FinInstnId", b>> : b \in {"BICFI", "BIC"}}

Member(tail) == {tail \o <<"FinInstnId", "ClrSysMmbId", "MmbId">>}

Named(tail) == {tail \o <<"Nm">>, tail \o <<"Pty", "Nm">>}

Iban(account)  == {<<account, "Id", "IBAN">>}
Other(account) == {<<account, "Id", "Othr", "Id">>}

\* A choice of a party or an agent, in the case messages.
PartySet(role) == Bic(<<role, "Agt">>) \cup {<<role, "Pty", "Nm">>}

OrgIds(role) ==
  {<<role, "Pty", "Id", "OrgId", b>> : b \in {"AnyBIC", "BICOrBEI"}}

PartyFill(role) == Member(<<role, "Agt">>) \cup OrgIds(role)

\* A date, inline or wrapped.
Date(element) ==
  {<<"PmtInf", element>>, <<element, "Dt">>, <<element, "DtTm">>}

\* The reasons of a scope: code or proprietary, free text, originator.
Cdly(tail) == {tail \o <<c>> : c \in {"Cd", "Prtry"}}

-----------------------------------------------------------------------------
(* capture_assignment and capture_case.                                    *)

AssignmentSet ==
  "id" :> {<<"Assgnmt", "Id">>} @@ "created" :> {<<"Assgnmt", "CreDtTm">>}
  @@ "assigner" :> PartySet("Assgnr") \cup {<<"Assgnmt", "Assgnr">>}
  @@ "assignee" :> PartySet("Assgne") \cup {<<"Assgnmt", "Assgne">>}

AssignmentFill ==
  "assigner" :> PartyFill("Assgnr") @@ "assignee" :> PartyFill("Assgne")

Assignment == DOMAIN AssignmentSet

CaseSet ==
  "case_id" :> {<<"Case", "Id">>}
  @@ "creator" :> PartySet("Cretr") \cup {<<"Case", "Cretr">>}

CaseFill == "creator" :> PartyFill("Cretr")

Case == DOMAIN CaseSet

-----------------------------------------------------------------------------
(* capture_group_header, of the mandate messages.                          *)

HeaderSet ==
  "msg_id" :> {<<"GrpHdr", "MsgId">>} @@ "created" :> {<<"GrpHdr", "CreDtTm">>}
  @@ "initiating_party" :> {<<"InitgPty", "Nm">>}
  @@ "instructing_agent_bic" :> Bic(<<"InstgAgt">>)
  @@ "instructed_agent_bic" :> Bic(<<"InstdAgt">>)

HeaderFill ==
  "instructing_agent_bic" :> Member(<<"InstgAgt">>)
  @@ "instructed_agent_bic" :> Member(<<"InstdAgt">>)

Header == DOMAIN HeaderSet
=============================================================================
