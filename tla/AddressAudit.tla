---------------------------- MODULE AddressAudit ----------------------------
(***************************************************************************)
(* audit_addresses (src/addresses.rs): one row per party of a message,     *)
(* with the message and the record it belongs to and the shape of its      *)
(* postal address.  This is the walk of an XML file, AddressStream, and    *)
(* the classification it shares with the walk of an MT file.               *)
(*                                                                         *)
(* The text of an address line is its length.                              *)
(***************************************************************************)
EXTENDS Sniffer, SequencesExt

CONSTANT LineChars \* HYBRID_LINE_CHARS

HybridLines == 2

Roles == {"InitgPty", "Dbtr", "Cdtr", "UltmtDbtr", "UltmtCdtr", "Pyer", "Pyee",
          "InstgAgt", "InstdAgt", "DbtrAgt", "CdtrAgt", "DrwrAgt", "IntrmyAgt1",
          "IntrmyAgt2", "IntrmyAgt3", "PrvsInstgAgt1", "PrvsInstgAgt2",
          "PrvsInstgAgt3", "FwdgAgt"}

AddressElems ==
  {"CareOf", "Dept", "SubDept", "StrtNm", "BldgNb", "BldgNm", "Flr", "UnitNb",
   "PstBx", "Room", "PstCd", "TwnNm", "TwnLctnNm", "DstrctNm", "CtrySubDvsn",
   "Ctry"}

OutOfScope ==
  {"admi.024", "camt.025", "camt.052", "camt.053", "camt.054", "camt.060"}

-----------------------------------------------------------------------------
(* The classification of a party: [town, country: whether it states them,  *)
(* structured: populated elements of the address, lines: their lengths].   *)

Longest(party) == FoldLeft(LAMBDA n, l : IF l > n THEN l ELSE n, 0, party.lines)

Format(party) ==
  CASE party.lines = <<>> /\ party.structured = 0 -> "NONE"
    [] party.lines = <<>> /\ party.structured # 0 -> "STRUCTURED"
    [] party.lines # <<>> /\ party.town /\ party.country -> "HYBRID"
    [] party.lines # <<>> /\ ~(party.town /\ party.country) -> "UNSTRUCTURED"

\* Mutant: the lines are not counted when the address has a town and a country.
FaultsOfUnstructured(party) ==
  IF Format(party) = "NONE" THEN {}
  ELSE {f \in {"no town", "no country", "lines", "long"} :
          CASE f = "no town" -> ~party.town
            [] f = "no country" -> ~party.country
            [] f = "lines" ->
                 Len(party.lines) > HybridLines /\ Format(party) # "HYBRID"
            [] f = "long" -> Longest(party) > LineChars}

\* What the rule would refuse of it, if anything.
Faults(party) ==
  IF Format(party) = "NONE" THEN {}
  ELSE {f \in {"no town", "no country", "lines", "long"} :
          CASE f = "no town" -> ~party.town
            [] f = "no country" -> ~party.country
            [] f = "lines" -> Len(party.lines) > HybridLines
            [] f = "long" -> Longest(party) > LineChars}

\* row: a party as it is handed out.
AuditRow(party, family, id) ==
  [family |-> family, id |-> id, index |-> party.index, at |-> party.at,
   format |-> Format(party), lines |-> Len(party.lines),
   structured |-> party.structured,
   finding |-> IF family \in OutOfScope THEN {} ELSE Faults(party)]

-----------------------------------------------------------------------------
(* AddressStream.                                                          *)

VARIABLES
  audit, \* what the walk remembers
  given  \* the row the last event gave, or Null

AuditInit ==
  /\ audit =
       [family    |-> Null,  \* of the message being walked
        document  |-> Null,  \* what the <Document> around it bound
        envelope  |-> Null,  \* what an element above bound
        header    |-> Null,  \* what an AppHdr/MsgDefIdr named
        id        |-> Null,
        depth     |-> Null,  \* of the message, once its container is open
        docDepth  |-> Null,
        awaiting  |-> FALSE,
        found     |-> FALSE, \* identified: a message is in the file
        index     |-> 0,     \* records so far
        record    |-> Null,  \* depth of the record the walk is in
        open      |-> Null,  \* the party the walk is in
        done      |-> "reading"]
  /\ given = Null

\* begin_message: identity and numbering start over.
Begins(a, depth, family) ==
  [a EXCEPT !.depth = depth, !.family = family, !.id = Null, !.index = 0,
            !.record = Null]

\* An unknown first child of a Document that something named: the Document is
\* the message, and nothing in it opens another.
FirstChild(a, name) ==
  LET named == {a.document, a.header, a.envelope} # {Null}
      claims == named /\ FamilyOfContainer(name) = Null /\ a.depth = Null
  IN  IF ~a.awaiting THEN a
      ELSE [a EXCEPT !.awaiting = FALSE,
                     !.depth = IF claims THEN a.docDepth ELSE @]

DocumentOpens(a, ident) ==
  Begins([a EXCEPT !.found = TRUE, !.awaiting = TRUE, !.document = ident,
                   !.docDepth = Len(path)],
         Null, FirstOf(<<ident, a.header, a.envelope>>))

\* The outermost container is the message.
ContainerOpens(a, name) ==
  Begins([a EXCEPT !.found = TRUE], Len(path),
         FirstOf(<<a.document, a.header, FamilyOfContainer(name)>>))

\* Mutant: a container inside a message opens one, too.
OpensMessageAnywhere(a, name, push) ==
  push /\ a.open = Null /\ FamilyOfContainer(name) # Null

OpensMessage(a, name, push) ==
  push /\ a.open = Null /\ a.depth = Null /\ FamilyOfContainer(name) # Null

\* A namespace above every message is where each of them starts from.
Binds(a, name, ident) ==
  IF ident = Null THEN a
  ELSE [a EXCEPT
          !.found = TRUE,
          !.envelope = IF name # "Document" /\ a.depth = Null /\ @ = Null
                       THEN ident ELSE @,
          !.family = Some(@, ident)]

\* Inside the open party's PstlAdr.
InAddress(a) ==
  a.open # Null /\
    "PstlAdr" \in Range(SubSeq(path, a.open.depth + 1, Len(path)))

\* An address line is one as an element, blank and self-closing ones too.
LineOpens(a, name) ==
  IF name = "AdrLine" /\ InAddress(a)
  THEN [a EXCEPT !.open.lines = Append(@, 0)] ELSE a

RecordOpens(a, name) ==
  IF name \in RecordElems
  THEN [a EXCEPT !.index = @ + 1, !.record = Len(path)] ELSE a

\* party_path: the elements from the record on.
PartyPath(a, name) ==
  (IF a.record = Null THEN <<>> ELSE SubSeq(path, a.record + 1, Len(path)))
  \o <<name>>

PartyOpens(a, name) ==
  IF name \notin Roles THEN a
  ELSE [a EXCEPT !.open =
          [depth |-> Len(path), at |-> PartyPath(a, name),
           index |-> IF a.record = Null THEN Null ELSE a.index,
           town |-> FALSE, country |-> FALSE, structured |-> 0, lines |-> <<>>]]

\* element: one start or self-closing tag.
AuditElement(e) ==
  LET push == e.tag = "start"
      first == FirstChild(audit, e.name)
      begun == CASE e.name = "Document" -> DocumentOpens(first, e.ident)
                 [] OpensMessage(first, e.name, push) ->
                      ContainerOpens(first, e.name)
                 [] OTHER -> first
      bound == Binds(begun, e.name, e.ident)
  IN  audit' = CASE bound.open # Null -> LineOpens(bound, e.name)
                 [] bound.open = Null /\ push ->
                      PartyOpens(RecordOpens(bound, e.name), e.name)
                 [] OTHER -> bound

\* The end tag of the record the walk is in, or of one around it.
LeavesRecord(a, len) == a.record # Null /\ len <= a.record

\* An end tag: it may end the party, the record and the message.
AuditCloses ==
  LET len == Len(path) - 1
      a == audit
      party == a.open # Null /\ a.open.depth = len
  IN  /\ given' = IF party THEN AuditRow(a.open, a.family, a.id) ELSE Null
      /\ audit' = [a EXCEPT
           !.open   = IF party THEN Null ELSE @,
           !.record = IF LeavesRecord(a, len) THEN Null ELSE @,
           !.depth  = IF @ = len THEN Null ELSE @]

\* capture, outside a party: the identity of the message.
CaptureIdentity(a, e) ==
  [a EXCEPT
     !.id = IF @ = Null /\ IsMessageId(path) THEN e.value ELSE @,
     !.header = IF @ = Null /\ IsMessageDefinition(path)
                THEN MessageDefinition(e.value) ELSE @]

\* capture, inside one: what its address states.  The texts of a line that is
\* split are put together; those of another element count one by one.
CaptureParty(a, e) ==
  LET leaf == Last(path)
  IN  CASE ~InAddress(a) -> a
        [] InAddress(a) /\ leaf = "AdrLine" ->
             [a EXCEPT !.open.lines[Len(a.open.lines)] = @ + e.value]
        [] InAddress(a) /\ leaf \in AddressElems ->
             [a EXCEPT !.open.structured = @ + 1,
                       !.open.town = @ \/ leaf = "TwnNm",
                       !.open.country = @ \/ leaf = "Ctry"]
        [] OTHER -> a

AuditText(e) ==
  audit' = CASE ~e.sound -> [audit EXCEPT !.done = "failed"]
             [] e.sound /\ path = <<>> -> audit
             [] e.sound /\ path # <<>> /\ audit.open = Null ->
                  CaptureIdentity(audit, e)
             [] OTHER -> CaptureParty(audit, e)

\* A file without a message is an error, not a file without parties.
AuditEnds(e) ==
  audit' = [audit EXCEPT
              !.done = IF CutShort(path, e) \/ ~audit.found THEN "failed"
                       ELSE "ended"]

AuditStep(e) ==
  IF audit.done # "reading" THEN UNCHANGED <<audit, given>>
  ELSE CASE e.tag = "eof"  -> AuditEnds(e) /\ given' = Null
         [] e.tag = "end"  -> AuditCloses
         [] e.tag = "text" -> AuditText(e) /\ given' = Null
         [] OTHER          -> AuditElement(e) /\ given' = Null
=============================================================================
