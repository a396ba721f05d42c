------------------------------ MODULE Sniffer ------------------------------
(***************************************************************************)
(* sniff_iso20022 over one XML file (src/sniff.rs, SniffStream::sniff):    *)
(* the whole file is walked, and what it was found to be is one row.  The  *)
(* path is the names of the open elements, and moves with the events.      *)
(***************************************************************************)
EXTENDS Identity

VARIABLES
  path,   \* names of the open elements, outermost first
  sniffed \* what the sniffer has found so far

SniffInit ==
  sniffed =
    [namespace |-> Null,  \* the one of the Document, or of what is around it
     ancestor  |-> Null,  \* the first one declared on an envelope
     document  |-> FALSE, \* a <Document> was met
     container |-> Null,  \* a known container outside any <Document>
     within    |-> FALSE, \* the cursor has entered message content
     awaiting  |-> FALSE, \* the next element is the first child of <Document>
     child     |-> Null,
     header    |-> Null,  \* the first AppHdr/MsgDefIdr
     id        |-> Null,
     counts    |-> [name \in RecordElems |-> 0],
     broke     |-> FALSE, \* the file was not read to its end
     done      |-> FALSE]

\* Mutant: self-closing records count.
CountedEmpty(e) ==
  IF e.name \in RecordElems
  THEN [sniffed.counts EXCEPT ![e.name] = @ + 1] ELSE sniffed.counts

\* A record is a start tag: a self-closing one is no row of any reader.
Counted(e) ==
  IF e.tag = "start" /\ e.name \in RecordElems
  THEN [sniffed.counts EXCEPT ![e.name] = @ + 1] ELSE sniffed.counts

Counting(e) ==
  [sniffed EXCEPT !.counts = Counted(e), !.awaiting = FALSE,
                  !.child  = IF sniffed.awaiting THEN e.name ELSE @]

\* The first Document: its own namespace wins over any around it.
SniffsDocument(e) ==
  sniffed' = [Counting(e) EXCEPT
                !.document = TRUE, !.within = TRUE, !.awaiting = TRUE,
                !.namespace = Some(e.ident, sniffed.ancestor),
                !.ancestor  = IF e.ident = Null THEN Null ELSE @]

SniffsElement(e) ==
  LET s == sniffed
      opens == ~s.document /\ s.container = Null /\ FamilyOfContainer(e.name) # Null
  IN  sniffed' = [Counting(e) EXCEPT
                    !.ancestor = IF s.namespace = Null /\ @ = Null THEN e.ident
                                 ELSE @,
                    !.container = IF opens THEN e.name ELSE @,
                    !.within = @ \/ opens]

\* Every text is unescaped, also where no identity is waited for.
SniffsText(e) ==
  LET s == sniffed
  IN  IF ~e.sound THEN sniffed' = [s EXCEPT !.broke = TRUE, !.done = TRUE]
      ELSE sniffed' =
        [s EXCEPT
           !.id = IF s.within /\ @ = Null /\ IsMessageId(path) THEN e.value
                  ELSE @,
           !.header = IF @ = Null /\ IsMessageDefinition(path)
                      THEN MessageDefinition(e.value) ELSE @]

SniffEnds(e) ==
  sniffed' = [sniffed EXCEPT !.done = TRUE, !.broke = CutShort(path, e)]

SniffStep(e) ==
  IF sniffed.done THEN UNCHANGED sniffed
  ELSE CASE e.tag = "eof"  -> SniffEnds(e)
         [] e.tag = "end"  -> UNCHANGED sniffed
         [] e.tag = "text" -> SniffsText(e)
         [] OTHER -> IF e.name = "Document" /\ ~sniffed.document
                     THEN SniffsDocument(e) ELSE SniffsElement(e)

-----------------------------------------------------------------------------
(* The row, once the file is walked.                                       *)

\* What announces the message: the first child of the Document, or the bare
\* container.
Announce == IF sniffed.document THEN sniffed.child ELSE sniffed.container

SniffNamespace ==
  IF sniffed.document THEN sniffed.namespace ELSE sniffed.ancestor

\* The earliest editions name the container after the identifier.
NamedByItself(name) == IF name \in Families THEN name ELSE Null

\* Mutant: the header wins over the namespace.
SniffFamilyHeaderFirst ==
  FirstOf(<<sniffed.header, SniffNamespace, NamedByItself(Announce),
            FamilyOfContainer(Announce)>>)

\* The namespace, else the header, else what announces the message.
SniffFamily ==
  FirstOf(<<SniffNamespace, sniffed.header, NamedByItself(Announce),
            FamilyOfContainer(Announce)>>)

\* The records of its family; of a file that broke, none are told.
SniffRecords ==
  LET elem == RecordElemOf(SniffFamily)
  IN  IF sniffed.broke \/ elem = Null THEN Null ELSE sniffed.counts[elem]

\* Why the file is no message: nothing in it is one, or nothing names it.
SniffError ==
  \/ sniffed.broke
  \/ ~sniffed.document /\ sniffed.container = Null /\ SniffRecords \in {Null, 0}
  \/ SniffFamily = Null
=============================================================================
