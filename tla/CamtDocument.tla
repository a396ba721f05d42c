---------------------------- MODULE CamtDocument ----------------------------
(***************************************************************************)
(* The XML file behind a camt.052/053/054 scan, as the parser hands it     *)
(* over: any well-formed document over a small vocabulary, cut off         *)
(* anywhere, event by event.  It is the environment of the two walks.      *)
(*                                                                         *)
(* The module also keeps what the document states, read off the element    *)
(* structure and off nothing the walks keep: how many group headers and    *)
(* statements opened so far, and which child of its statement the latest   *)
(* entry and balance are.  Every text says which header or statement it    *)
(* belongs to, so a value that ends up on the wrong row shows.             *)
(***************************************************************************)
EXTENDS Wire

CONSTANTS
  Layouts,  \* [layout -> a vocabulary]:
            \*   children  [name -> names of elements it may hold], root "/"
            \*   leaves    names that hold text
            \*   carriers  names that may declare a namespace
  Idents,   \* the message identifiers considered
  MaxDepth, MaxStatements, MaxHeaders, MaxRecords  \* bounds on a document

Statements == {"Stmt", "Ntfctn", "Rpt"}

\* What the schemas of camt.052, 053 and 054 rule out.  Outside of every
\* statement, entries aside, there is no account (names s).
Unenclosed(children, s) ==
  /\ "/" \in s
  /\ \A n \in s \ {"Ntry"} : children[n] \ Statements \subseteq s
  /\ "Acct" \notin s

\* Inside of an entry or a balance there is no statement and no group header.
Recorded(children, s) ==
  /\ {"Ntry", "Bal"} \intersect DOMAIN children \subseteq s
  /\ \A n \in s : children[n] \subseteq s
  /\ s \intersect (Statements \union {"GrpHdr"}) = {}

\* Further inside of a statement than its children, entries aside, there is no
\* account, and no statement that states an identifier of its own.
Nested(children, s) ==
  /\ \A c \in Statements \intersect DOMAIN children :
       \A n \in children[c] \ {"Ntry"} : children[n] \subseteq s
  /\ \A n \in s \ {"Ntry"} : children[n] \subseteq s
  /\ "Acct" \notin s
  /\ \A c \in Statements \intersect s : "Id" \notin children[c]

ASSUME SchemaAssumption ==
  \A l \in DOMAIN Layouts :
    LET children == Layouts[l].children
        names    == DOMAIN children
    IN  /\ children \in [names -> SUBSET names]
        /\ "/" \in names /\ Null \notin names
        /\ \E s \in SUBSET names : Unenclosed(children, s)
        /\ \E s \in SUBSET names : Recorded(children, s)
        /\ \E s \in SUBSET names : Nested(children, s)
        /\ \A c \in Statements \intersect names :
             children[c] \intersect Statements = {}

VARIABLES
  layout,  \* the vocabulary of this document
  opened,  \* the open elements, root first
  event,   \* the event the parser just handed over
  stated   \* counts: headers, statements, and entries and balances of the
           \* current statement

docVars == <<layout, opened, event, stated>>

Children == Layouts[layout].children
Leaves   == Layouts[layout].leaves
Carriers == Layouts[layout].carriers

Event(tag, name) ==
  [tag |-> tag, name |-> name, ident |-> Null, value |-> Null, sound |-> TRUE]

Top == IF opened = <<>> THEN "/" ELSE opened[Len(opened)]

\* The position of the statement the open elements are in, 0 for none: the
\* outermost one counts.
Scope ==
  IF \E i \in DOMAIN opened : opened[i] \in Statements
  THEN CHOOSE i \in DOMAIN opened :
         /\ opened[i] \in Statements
         /\ \A j \in DOMAIN opened : opened[j] \in Statements => i <= j
  ELSE 0

\* A new tag would be a direct child of a statement.
InStatement == Scope # 0 /\ Scope = Len(opened)

\* The root is closed, or there is none yet.
RootOver == opened = <<>> /\ event.tag # "begin"

DocumentInit ==
  /\ layout \in DOMAIN Layouts
  /\ opened = <<>>
  /\ event = Event("begin", "/")
  /\ stated = [headers |-> 0, statements |-> 0, entries |-> 0, balances |-> 0]

\* What a tag adds to the counts.  Only an element that opens is a statement or
\* an entry; a balance and a header may also close themselves.
Counted(name, opens) ==
  IF opens /\ name \in Statements /\ Scope = 0
  THEN [stated EXCEPT !.statements = @ + 1, !.entries = 0, !.balances = 0]
  ELSE [stated EXCEPT
          !.headers  = IF name = "GrpHdr" /\ Scope = 0 THEN @ + 1 ELSE @,
          !.entries  = IF opens /\ name = "Ntry" /\ InStatement THEN @ + 1
                       ELSE @,
          !.balances = IF name = "Bal" /\ InStatement THEN @ + 1 ELSE @]

Bounded ==
  /\ stated'.statements <= MaxStatements
  /\ stated'.headers <= MaxHeaders
  /\ stated'.entries <= MaxRecords
  /\ stated'.balances <= MaxRecords

StartTag ==
  /\ event.tag # "eof" /\ ~RootOver /\ Len(opened) < MaxDepth
  /\ \E name \in Children[Top], ident \in Idents \union {Null} :
       /\ ident # Null => name \in Carriers
       /\ event' = [Event("start", name) EXCEPT !.ident = ident]
       /\ opened' = Append(opened, name)
       /\ stated' = Counted(name, TRUE)
  /\ Bounded

EmptyTag ==
  /\ event.tag # "eof" /\ ~RootOver
  /\ \E name \in Children[Top] :
       /\ event' = Event("empty", name)
       /\ stated' = Counted(name, FALSE)
  /\ Bounded
  /\ UNCHANGED opened

EndTag ==
  /\ event.tag # "eof" /\ opened # <<>>
  /\ event' = Event("end", Top)
  /\ opened' = SubSeq(opened, 1, Len(opened) - 1)
  /\ UNCHANGED stated

\* The statement or the header a text belongs to, by its ordinal; above the
\* statements, the text of MsgDefIdr is an identifier.
Says ==
  IF Scope # 0 THEN {stated.statements}
  ELSE IF Top = "MsgDefIdr" THEN Idents
  ELSE {stated.headers}

TextOf ==
  /\ event.tag # "eof" /\ Top \in Leaves
  /\ \E value \in Says, sound \in BOOLEAN :
       event' = [Event("text", Top) EXCEPT !.value = value, !.sound = sound]
  /\ UNCHANGED <<opened, stated>>

\* The input ends: after the root, inside it (a cut-off download), or before it.
EndOfInput ==
  /\ event.tag # "eof"
  /\ event' = Event("eof", "/")
  /\ UNCHANGED <<opened, stated>>

DocumentNext ==
  /\ StartTag \/ EmptyTag \/ EndTag \/ TextOf \/ EndOfInput
  /\ UNCHANGED layout
=============================================================================
