------------------------------ MODULE Inventory ------------------------------
(***************************************************************************)
(* The sniffer and the address audit over every small XML file: one bare   *)
(* Document, or an envelope of Documents or of bare containers, with       *)
(* headers and namespaces that name the messages or do not.  The file also *)
(* says, from its structure alone, which message a party belongs to (own)  *)
(* and the row the party is due (due).                                     *)
(*                                                                         *)
(* Names may contradict each other: the namespace of the envelope, that of *)
(* the Document, what the header says, and the container.  Nothing of the  *)
(* file settles then which name is right; own and due take them in the     *)
(* order the sniffer's documentation gives.                                *)
(***************************************************************************)
EXTENDS AddressAudit

(* A file rich in "all" is any file.  The others bound what a run combines:  *)
(* one rich in "names" has a single party in a message, no records, and the  *)
(* id in front; one rich in "contents" has no headers, and its names agree;  *)
(* one rich in "addresses" is a Document of a named family that its container *)
(* agrees with, and has one record and party.                                *)
CONSTANTS
  Riches,      \* what the files are rich in
  Containers,  \* the messages of the files
  MaxMessages, \* messages in a file
  MaxRecords,  \* records of a message
  MaxParties,  \* parties of a message
  MaxLeaves,   \* elements and texts of an address
  Note         \* a text that is no identifier

VARIABLES
  rich,  \* what this one is rich in
  past,  \* the file so far
  own,   \* the message the cursor is in, or the next one
  party, \* what the address of the open party states
  due    \* the row the last event is due, or Null

Wrapper == "NtlWrppr" \* a national element no table knows
Leaves == {"MsgDefIdr", "MsgId", "AdrLine", "TwnNm", "Ctry"}

\* The elements of the files.
Elements ==
  DOMAIN Announced \cup RecordElems \cup Leaves
  \cup {"BizMsgEnvlp", "AppHdr", "Document", Wrapper, "GrpHdr", "Mndt", "Rcpt",
        "Dbtr", "PstlAdr", "CtctDtls"}

\* A party the audit is in.
Parties ==
  [depth : Nat, at : Seq(Elements), index : Nat \cup {Null}, town : BOOLEAN,
   country : BOOLEAN, structured : Nat, lines : Seq(Nat)]

\* A row the audit gives, and one that is due.
GivenRows ==
  [family : Families \cup {Null}, id : Nat \cup {Null}, index : Nat \cup {Null},
   at : Seq(Elements), format : {"NONE", "STRUCTURED", "HYBRID", "UNSTRUCTURED"},
   lines : Nat, structured : Nat,
   finding : SUBSET {"no town", "no country", "lines", "long"}]

DueRows ==
  [family : Families \cup {Null}, id : Nat \cup {Null}, index : Nat \cup {Null},
   at : Seq(Elements), lines : Nat, accepted : BOOLEAN]

ASSUME NullAssumption ==
  /\ Null \notin Nat /\ Null \notin Elements /\ Null \notin Families
  /\ Null \notin Parties /\ Null \notin GivenRows /\ Null \notin DueRows
  /\ Null \notin {"envelope", "documents", "bare"}

\* Rcpt is a message, and here it is a block of a record; none of the containers is
\* named after its identifier.
ASSUME FileAssumption ==
  /\ Containers \subseteq DOMAIN Announced \ {"Rcpt"}
  /\ Containers \cap Families = {}
  /\ Note \notin Families \cup {Null}
  /\ LineChars \in Nat

fileVars == <<path, rich, past, own, party, due>>
vars == <<fileVars, sniffed, audit, given>>

Event(tag, name) ==
  [tag |-> tag, name |-> name, ident |-> Null, value |-> Null, sound |-> TRUE]

Text(value) == [Event("text", Null) EXCEPT !.value = value]

NoMessage ==
  [depth |-> Null, family |-> Null,
   container |-> Null, \* what its container announces, if that is the message
   id |-> Null, records |-> 0, parties |-> 0, record |-> Null,
   amended |-> FALSE] \* a record holds one that is another family's

NoAddress ==
  [lines |-> <<>>, town |-> FALSE, country |-> FALSE, leaves |-> 0]

Init ==
  /\ rich \in Riches
  /\ past = [messages |-> 0, families |-> {}, records |-> 0,
             plain    |-> TRUE,   \* every message has the family of its container
             hidden   |-> FALSE,  \* the first Document holds none, or in a wrapper
             form     |-> Null,   \* what the envelope holds, or the file
             envelope |-> Null,   \* the namespace of the envelope
             binding  |-> Null,   \* the namespace of the Document
             child    |-> Null,   \* the first child of the Document
             empty    |-> TRUE,   \* the Document holds no message so far
             header   |-> Null,   \* what the header of the message says
             heard    |-> Null,   \* what the first header to name a family names
             free     |-> TRUE]   \* a header may come
  /\ path = <<>> /\ own = NoMessage /\ party = NoAddress /\ due = Null
  /\ SniffInit /\ AuditInit

-----------------------------------------------------------------------------
Reading == ~sniffed.done
Here == IF path = <<>> THEN Null ELSE Last(path)
Idents == {Announced[c] : c \in Containers}
InMessage == own.depth # Null
InParty == \E i \in DOMAIN path : path[i] \in Roles

\* The walks read an event.
Reads(e) == Reading /\ SniffStep(e) /\ AuditStep(e)

Opens(name, ident) ==
  /\ Reads([Event("start", name) EXCEPT !.ident = ident])
  /\ path' = Append(path, name)
  /\ due' = Null

Says(text) == Reads(text) /\ due' = Null /\ UNCHANGED path

-----------------------------------------------------------------------------
(* The frame: envelope, headers, Documents, containers.                    *)

EnvelopeStarts ==
  /\ path = <<>> /\ past.form = Null /\ rich # "addresses"
  /\ \E ident \in {Null} \cup Idents :
       /\ Opens("BizMsgEnvlp", ident)
       /\ past' = [past EXCEPT !.form = "envelope", !.envelope = ident]
  /\ UNCHANGED <<rich, own, party>>

HeaderStarts ==
  /\ Here = "BizMsgEnvlp" /\ past.free /\ past.messages < MaxMessages /\ rich # "contents"
  /\ Opens("AppHdr", Null)
  /\ past' = [past EXCEPT !.free = FALSE]
  /\ UNCHANGED <<rich, own, party>>

DefinitionStarts ==
  /\ Here = "AppHdr" /\ past.header = Null
  /\ Opens("MsgDefIdr", Null)
  /\ UNCHANGED <<rich, past, own, party>>

\* The header names a family, or holds a note.
DefinitionSaid ==
  /\ Here = "MsgDefIdr" /\ past.header = Null
  /\ \E text \in Idents \cup {Note} :
       /\ Says(Text(text))
       /\ past' = [past EXCEPT !.header = text,
                               !.heard = Some(@, MessageDefinition(text))]
  /\ UNCHANGED <<rich, own, party>>

\* The names that a file says of one message: they contradict each other only in one
\* that is rich in names, or in all.
MayBeSaid(names) ==
  rich \in {"names", "all"} \/ Cardinality(names \ {Null}) <= 1

DocumentStarts ==
  /\ \/ path = <<>> /\ past.form = Null
     \/ Here = "BizMsgEnvlp" /\ past.form \in {"envelope", "documents"}
  /\ past.messages < MaxMessages /\ (past.messages = 0 => ~past.hidden)
  /\ \E ident \in {Null} \cup Idents :
       /\ MayBeSaid({ident, past.envelope})
       /\ rich = "addresses" => ident # Null
       /\ Opens("Document", ident)
       /\ past' = [past EXCEPT !.form = "documents", !.binding = ident,
                               !.child = Null, !.empty = TRUE]
  /\ UNCHANGED <<rich, own, party>>

\* What names a message but its container, in the order in which
\* the sniffer's documentation resolves it.
Named ==
  FirstOf(<<past.binding, past.envelope,
            IF past.header = Null THEN Null ELSE MessageDefinition(past.header)>>)

Starts(family, depth, container) ==
  [NoMessage EXCEPT !.depth = depth, !.family = family, !.container = container]

Holds(family, plain) ==
  [past EXCEPT !.messages = @ + 1, !.families = @ \cup {family}, !.empty = FALSE,
               !.plain = @ /\ plain]

\* The outermost container is the message.
MessageStarts ==
  /\ ~InMessage /\ past.messages < MaxMessages
  /\ \/ Here = "Document" /\ past.child # Wrapper
     \/ Here = Wrapper /\ ~past.hidden
     \/ Here = "BizMsgEnvlp" /\ past.form \in {"envelope", "bare"}
  /\ \E c \in Containers :
       LET family == Some(Named, Announced[c])
       IN  /\ MayBeSaid({past.binding, past.envelope, Announced[c]})
           /\ Opens(c, Null)
           /\ own' = Starts(family, Len(path), Announced[c])
           /\ past' = [Holds(family, family = Announced[c]) EXCEPT
                         !.hidden = @ \/ Here = Wrapper,
                         !.child = IF Here = "Document" THEN c ELSE @,
                         !.form = IF Here = "BizMsgEnvlp" THEN "bare" ELSE @]
  /\ UNCHANGED <<rich, party>>

\* First in its Document, an element no table knows: the Document is the
\* message if anything names it.
WrapperStarts ==
  /\ Here = "Document" /\ past.child = Null /\ rich # "addresses"
  /\ Opens(Wrapper, Null)
  /\ IF Named = Null
     THEN past' = [past EXCEPT !.child = Wrapper] /\ UNCHANGED own
     ELSE /\ own' = Starts(Named, Len(path) - 1, Null)
          /\ past' = [Holds(Named, FALSE) EXCEPT !.child = Wrapper]
  /\ UNCHANGED <<rich, party>>

-----------------------------------------------------------------------------
(* The content of a message.                                               *)

InContent == InMessage /\ Here \in Containers \cup {Wrapper}

\* How many records or parties a message of this file has.
AtMost(bound) == IF rich \in {"contents", "all"} THEN bound ELSE 1

IdFirst == rich = "names" => own.id # Null

GroupHeaderStarts ==
  /\ InContent /\ own.id = Null /\ own.records = 0 /\ own.parties = 0
  /\ rich # "addresses"
  /\ Opens("GrpHdr", Null)
  /\ UNCHANGED <<rich, past, own, party>>

MessageIdStarts ==
  /\ Here = "GrpHdr" /\ own.id = Null
  /\ Opens("MsgId", Null)
  /\ UNCHANGED <<rich, past, own, party>>

\* An id of its own.
MessageIdSaid ==
  /\ Here = "MsgId" /\ own.id = Null
  /\ Says(Text(past.messages))
  /\ own' = [own EXCEPT !.id = past.messages]
  /\ UNCHANGED <<rich, past, party>>

\* The element that is a record of the message.
RecordName ==
  LET elem == RecordElemOf(IF Here = Wrapper THEN own.family ELSE Announced[Here])
  IN  IF elem = Null THEN "TxInf" ELSE elem

RecordStarts ==
  /\ InContent
  /\ own.records < AtMost(MaxRecords) /\ rich # "names"
  /\ own' = [own EXCEPT !.records = @ + 1, !.record = Len(path)]
  /\ past' = [past EXCEPT !.records = @ + 1]
  /\ Opens(RecordName, Null)
  /\ UNCHANGED <<rich, party>>

\* A record with nothing in it is none.
RecordIsEmpty ==
  /\ InContent /\ rich \in {"contents", "all"}
  /\ Reads(Event("empty", RecordName)) /\ due' = Null
  /\ UNCHANGED <<path, rich, past, own, party>>

\* In a record: an element that elsewhere is a message; or the mandate that an
\* amendment is about, once in a message.
BlockStarts ==
  /\ Here \in RecordElems \ {"Mndt"} /\ rich # "addresses"
  /\ \E name \in {"Mndt", "Rcpt"} :
       /\ name = "Mndt" => Here = "UndrlygAmdmntDtls" /\ ~own.amended
       /\ Opens(name, Null)
       /\ own' = [own EXCEPT !.amended = @ \/ name = "Mndt"]
  /\ UNCHANGED <<rich, past, party>>

PartyStarts ==
  /\ InContent \/ own.record # Null
  /\ ~InParty /\ own.parties < AtMost(MaxParties) /\ IdFirst
  /\ Opens("Dbtr", Null)
  /\ own' = [own EXCEPT !.parties = @ + 1]
  /\ UNCHANGED <<rich, past, party>>

-----------------------------------------------------------------------------
(* The address of a party.                                                 *)

\* Also one that is no postal address.
AddressStarts ==
  /\ Here = "Dbtr" /\ rich \in {"addresses", "all"}
  /\ \E name \in {"PstlAdr", "CtctDtls"} : Opens(name, Null)
  /\ UNCHANGED <<rich, past, own, party>>

LeafStarts ==
  /\ Here \in {"PstlAdr", "CtctDtls"} /\ party.leaves < MaxLeaves
  /\ \E name \in {"AdrLine", "TwnNm", "Ctry"} :
       /\ name = "AdrLine" => Here = "PstlAdr"
       /\ Opens(name, Null)
       /\ party' = [party EXCEPT !.leaves = @ + 1,
             !.lines = IF name = "AdrLine" THEN Append(@, 0) ELSE @]
  /\ UNCHANGED <<rich, past, own>>

LineIsEmpty ==
  /\ Here = "PstlAdr" /\ party.leaves < MaxLeaves
  /\ Reads(Event("empty", "AdrLine")) /\ due' = Null
  /\ party' = [party EXCEPT !.leaves = @ + 1, !.lines = Append(@, 0)]
  /\ UNCHANGED <<path, rich, past, own>>

\* A text, or a part of one: a comment or a CDATA section splits it.
LeafSaid ==
  /\ Here \in {"AdrLine", "TwnNm", "Ctry"} /\ party.leaves < MaxLeaves
  /\ \E n \in {1, LineChars} :
       /\ n = 1 \/ Here = "AdrLine"
       /\ Says(Text(n))
       /\ party' =
            [party EXCEPT
               !.leaves = @ + 1,
               !.lines = IF Here = "AdrLine"
                         THEN [party.lines EXCEPT ![Len(party.lines)] = @ + n]
                         ELSE @,
               !.town = @ \/ EndsWith(path, <<"PstlAdr", "TwnNm">>),
               !.country = @ \/ EndsWith(path, <<"PstlAdr", "Ctry">>)]
  /\ UNCHANGED <<rich, past, own>>

-----------------------------------------------------------------------------
(* The end of an element, and of the input.                                *)

\* The rule as the documentation of the audit states it: a town and a country in
\* elements of their own, and at most two lines of at most 70 characters.
Accepted(p) ==
  \/ p.lines = <<>> /\ ~p.town /\ ~p.country
  \/ /\ p.town /\ p.country
     /\ Len(p.lines) <= 2 /\ \A i \in DOMAIN p.lines : p.lines[i] <= LineChars

\* The row of the party that ends.
DueRow ==
  [family |-> own.family, id |-> own.id,
   index |-> IF own.record = Null THEN Null ELSE own.records,
   at |-> IF own.record = Null THEN <<"Dbtr">>
          ELSE SubSeq(path, own.record + 1, Len(path)),
   lines |-> Len(party.lines),
   accepted |-> own.family \in OutOfScope \/ Accepted(party)]

\* A Document without a message is alone in its file.
ElementEnds ==
  /\ path # <<>>
  /\ Here = "Document" /\ past.empty => past.messages = 0
  /\ Reads(Event("end", Here))
  /\ path' = Front(path)
  /\ due' = IF Here = "Dbtr" THEN DueRow ELSE Null
  /\ party' = IF Here = "Dbtr" THEN NoAddress ELSE party
  /\ own' = IF own.depth = Len(path) - 1 THEN NoMessage
            ELSE [own EXCEPT !.record = IF @ = Len(path) - 1 THEN Null ELSE @]
  /\ past' = IF Here = "Document" \/ (Here \in Containers /\ past.form = "bare")
             THEN [past EXCEPT !.binding = Null, !.child = Null, !.header = Null,
                               !.free = TRUE, !.hidden = @ \/ past.empty]
             ELSE past
  /\ UNCHANGED rich

\* A text that cannot be unescaped or is not UTF-8.
TextIsUnsound ==
  /\ Here \in Leaves
  /\ Reads([Text(1) EXCEPT !.sound = FALSE])
  /\ due' = Null
  /\ UNCHANGED <<path, rich, past, own, party>>

InputEnds ==
  /\ Reads(Event("eof", Null))
  /\ due' = Null
  /\ UNCHANGED <<path, rich, past, own, party>>

Over == ~Reading /\ UNCHANGED vars

Next ==
  \/ EnvelopeStarts \/ HeaderStarts \/ DefinitionStarts \/ DefinitionSaid
  \/ DocumentStarts \/ MessageStarts \/ WrapperStarts
  \/ GroupHeaderStarts \/ MessageIdStarts \/ MessageIdSaid
  \/ RecordStarts \/ RecordIsEmpty \/ BlockStarts \/ PartyStarts
  \/ AddressStarts \/ LeafStarts \/ LineIsEmpty \/ LeafSaid
  \/ ElementEnds \/ TextIsUnsound \/ InputEnds \/ Over

Spec == Init /\ [][Next]_vars

-----------------------------------------------------------------------------
\* The first header that named a family, be it in front of this message or of an
\* earlier one, named another than this one goes by, and no Document binds one.
FirstHeaderNames == past.binding = Null /\ past.heard # Null /\ past.heard # Named

\* The envelope binds a namespace, its Document none, no header has named a family,
\* and the message is a container.
EnvelopeIsPassedOver ==
  /\ past.binding = Null /\ past.heard = Null
  /\ past.envelope # Null /\ own.container # Null

\* What the audit calls the message, its family by its own names being this one.
Called(family) ==
  CASE FirstHeaderNames -> past.heard
    [] EnvelopeIsPassedOver -> own.container
    [] OTHER -> family

(* A party is one row, given at its end, with the id of its own message, the *)
(* number of its own record of it, and the way from that record: nothing of  *)
(* the message before, whatever closed or did not close in between.  The     *)
(* family is the one the message's own Document, envelope, header or         *)
(* container name, in this order, with two exceptions (addresses.rs): the    *)
(* first header that named a family names every message whose Document binds *)
(* none, also one in an envelope, or with a header, that names another; and  *)
(* the namespace of an envelope is passed over for a container.  In a record *)
(* of an amendment the mandate is a record as well: a party in it has the    *)
(* next number and the way from there, and one behind it has no number.      *)
PartiesAreTheMessages ==
  /\ given # Null <=> due # Null
  /\ given # Null => /\ given.id = due.id
                     /\ given.family = Called(due.family)
                     /\ IF own.amended /\ due.index # Null
                        THEN /\ given.index \in {Null, due.index + 1}
                             /\ IsSuffix(given.at, due.at)
                        ELSE given.index = due.index /\ given.at = due.at

\* The file was read to its end, its first Document or container is a message,
\* and no header is left without one.
Whole ==
  /\ sniffed.done /\ ~sniffed.broke
  /\ past.messages > 0 /\ ~past.hidden /\ past.header = Null

(* sniff.rs, of RECORD_ELEMS: "`addresses` numbers a party's transaction with *)
(* the same list, so a record index and a record count cannot disagree about  *)
(* what a record is".  The audit numbers the records of a message, and the    *)
(* sniffer counts those of the one message of a file; of a file that cannot   *)
(* be read to its end it counts none, and of a family that has no records it  *)
(* tells none.  Except in an amendment (pain.010): of its records and the     *)
(* mandate in each, the sniffer counts the ones and the audit numbers both.   *)
NumberedAsCounted ==
  /\ Reading /\ InMessage =>
       audit.index = own.records + IF own.amended THEN 1 ELSE 0
  /\ Whole /\ past.messages = 1 /\ past.plain =>
       \A f \in past.families :
         SniffRecords = IF RecordElemOf(f) = Null THEN Null ELSE past.records
  /\ sniffed.broke => SniffRecords = Null

(* The sniffer names a family of the file, the one of its message if there   *)
(* is one message, whichever of namespace, header and container names it and *)
(* also where they contradict each other; of several messages it may be one  *)
(* that only the first header to name a family names.  And no file it finds  *)
(* a message in is refused by the audit.                                     *)
NamedForWhatItIs ==
  /\ Whole => /\ ~SniffError
              /\ \/ SniffFamily \in past.families
                 \/ past.messages > 1 /\ SniffFamily = past.heard
  /\ sniffed.done /\ ~SniffError => audit.done = "ended"

(* An address raises a finding exactly when the rule would refuse it, counted *)
(* in the lines and characters on the wire, also where a text is split.       *)
FindingsAreTheRule ==
  given # Null /\ due # Null /\ given.family = due.family =>
    /\ given.lines = due.lines
    /\ given.finding = {} <=> due.accepted
=============================================================================
