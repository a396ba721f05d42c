---------------------------- MODULE EntryStream -----------------------------
(***************************************************************************)
(* The loose camt walk behind read_iso20022 (src/stream.rs): an <Ntry>     *)
(* becomes a row wherever it appears.                                      *)
(***************************************************************************)
EXTENDS Wire

VARIABLES
  path,            \* open elements, entries excluded
  msg_id, account_iban, statement_id,
  saw_container,
  container_kind, container_depth,
  statement_index, entry_index,
  subtree,         \* the <Ntry> being recorded, or Null
  row,             \* the row the last event completed, or Null
  result           \* "reading", "ended" or "failed"

context == <<msg_id, account_iban, statement_id>>
scope == <<saw_container, container_kind, container_depth, statement_index>>

EntryInit ==
  /\ path = <<>>
  /\ msg_id = Null /\ account_iban = Null /\ statement_id = Null
  /\ saw_container = FALSE
  /\ container_kind = Null /\ container_depth = Null
  /\ statement_index = 0 /\ entry_index = 0
  /\ subtree = Null /\ row = Null /\ result = "reading"

IsContainer(name) == name \in {"Stmt", "Ntfctn", "Rpt"}

\* An entry here would be a direct child of the active container.
Scoped == container_depth # Null /\ Len(path) = container_depth + 1

EntryFails ==
  /\ result' = "failed" /\ row' = Null
  /\ UNCHANGED <<path, context, scope, entry_index, subtree>>

\* The start of an entry: read_entry numbers it if it is scoped.
EntryOpens(e) ==
  /\ e.tag = "start" /\ e.name = "Ntry"
  /\ subtree' = Subtree("Ntry", TRUE)
  /\ entry_index' = IF Scoped THEN entry_index + 1 ELSE entry_index
  /\ row' = Null
  /\ UNCHANGED <<path, context, scope, result>>

\* The rest of read_entry: the subtree ends and deserializes, or the scan ends.
EntryRow ==
  [msg_id          |-> msg_id,
   account_iban    |-> account_iban,
   statement_id    |-> statement_id,
   statement_kind  |-> IF Scoped THEN container_kind ELSE Null,
   statement_index |-> IF Scoped THEN statement_index ELSE Null,
   entry_index     |-> IF Scoped THEN entry_index ELSE Null]

EntryGoesOn(e) ==
  /\ ~Breaks(subtree, e)
  /\ IF Closes(subtree, e)
     THEN subtree.sound /\ subtree' = Null /\ row' = EntryRow
     ELSE subtree' = Consume(subtree, e) /\ row' = Null
  /\ UNCHANGED <<path, context, scope, entry_index, result>>

EntryBreaks(e) ==
  /\ Breaks(subtree, e) \/ (Closes(subtree, e) /\ ~subtree.sound)
  /\ EntryFails

\* Any other start tag: a container opens unless one is active.
ElementOpens(e) ==
  /\ e.tag = "start" /\ e.name # "Ntry"
  /\ path' = Append(path, e.name)
  /\ IF IsContainer(e.name) /\ container_depth = Null
     THEN /\ saw_container' = TRUE
          /\ statement_id' = Null /\ account_iban' = Null
          /\ container_kind' = e.name /\ container_depth' = Len(path)
          /\ statement_index' = statement_index + 1
          /\ entry_index' = 0
     ELSE UNCHANGED <<scope, entry_index, statement_id, account_iban>>
  /\ row' = Null
  /\ UNCHANGED <<msg_id, subtree, result>>

Pop == SubSeq(path, 1, Len(path) - 1)

\* Mutant: a container, once seen, stays the active one.
ElementClosesLatched(e) ==
  /\ e.tag = "end"
  /\ path' = Pop
  /\ row' = Null
  /\ UNCHANGED <<context, scope, entry_index, subtree, result>>

ElementCloses(e) ==
  /\ e.tag = "end"
  /\ path' = Pop
  /\ IF container_depth = Len(path) - 1
     THEN /\ container_depth' = Null /\ container_kind' = Null
          /\ statement_id' = Null /\ account_iban' = Null
     ELSE UNCHANGED <<container_depth, container_kind, statement_id,
                      account_iban>>
  /\ row' = Null
  /\ UNCHANGED <<msg_id, saw_container, statement_index, entry_index,
                 subtree, result>>

\* capture: the three context leaves, by path tail.
Captures(value) ==
  LET header == EndsWith(path, <<"GrpHdr", "MsgId">>)
      id     == \E c \in {"Stmt", "Ntfctn", "Rpt"} : EndsWith(path, <<c, "Id">>)
      iban   == EndsWith(path, <<"Acct", "Id", "IBAN">>)
      other  == EndsWith(path, <<"Acct", "Id", "Othr", "Id">>)
  IN  /\ msg_id' = IF header THEN value ELSE msg_id
      /\ statement_id' = IF id THEN value ELSE statement_id
      /\ account_iban' =
           IF iban \/ (other /\ account_iban = Null) THEN value
           ELSE account_iban

TextRead(e) ==
  /\ e.tag = "text" /\ e.sound
  /\ Captures(e.value)
  /\ row' = Null
  /\ UNCHANGED <<path, scope, entry_index, subtree, result>>

\* A self-closing element is no event this walk acts on.
Ignored(e) ==
  /\ e.tag = "empty"
  /\ row' = Null
  /\ UNCHANGED <<path, context, scope, entry_index, subtree, result>>

\* The end of the document; a file without a container is the wrong file.
DocumentEnds(e) ==
  /\ e.tag = "eof" /\ ~CutShort(path, e) /\ saw_container
  /\ result' = "ended" /\ row' = Null
  /\ UNCHANGED <<path, context, scope, entry_index, subtree>>

\* Text that cannot be read, an end inside an element, no container at all.
WalkFails(e) ==
  /\ \/ e.tag = "text" /\ ~e.sound
     \/ e.tag = "eof" /\ (CutShort(path, e) \/ ~saw_container)
  /\ EntryFails

\* One event of the file.
EntryReads(e) ==
  \/ /\ result = "reading" /\ subtree = Null
     /\ \/ EntryOpens(e) \/ ElementOpens(e) \/ ElementCloses(e)
        \/ TextRead(e) \/ Ignored(e) \/ DocumentEnds(e) \/ WalkFails(e)
  \/ /\ result = "reading" /\ subtree # Null
     /\ EntryGoesOn(e) \/ EntryBreaks(e)
  \/ result # "reading" /\ row' = Null
     /\ UNCHANGED <<path, context, scope, entry_index, subtree, result>>
=============================================================================
