------------------------------- MODULE Opening -------------------------------
(***************************************************************************)
(* A call of one of the functions, from its path argument to its rows or   *)
(* its error (src/lib.rs): which files it reads, whether a file is let     *)
(* through to the reader, and what an error says about it.  Files may      *)
(* disappear in between.  The caller may sniff a folder and hand the files *)
(* of one reader to it, as docs/adr/0011-a-path-can-be-a-list.md has it.   *)
(*                                                                         *)
(* Files are read one at a time here; see Scan for how they are scheduled, *)
(* and the readers' modules for what they make of one.                     *)
(***************************************************************************)
EXTENDS FileShape

CONSTANTS
  Names,   \* the paths there are, in the order a glob lists them
  Glob(_), \* the names a pattern matches, or Null if it is no pattern
  Remote,  \* the arguments that name a URI
  NoPaths, \* the arguments that are no VARCHAR, NULL among them
  Sessions \* calls and the disks they meet

VARIABLES
  disk,    \* what each name is: [kind, content]
  call,    \* [fname, args]
  pc,      \* what the call does next
  files,   \* what it reads, in order
  at,      \* which of them it is at
  source,  \* the content of the file it reads
  rows,    \* the rows it gave: [file, row]
  opens,   \* how often it opened each name
  outcome, \* how it ended: [cause, file, hint, undeclared]
  inbox    \* whether the call reads what an earlier one of the sniffer listed

vars == <<disk, call, pc, files, at, source, rows, opens, outcome, inbox>>

(* A content: form, the format it is written in; head, its prefix; family,  *)
(* what names it within the prefix, and late, further down; messages, the   *)
(* families of its messages; harm, what is wrong with it as text or as XML; *)
(* bad, the functions that meet a value in it they cannot read; declares,   *)
(* whether it states an encoding.                                           *)

Named == Families \cup MtRead \cup {Null}

\* The functions beside the sniffer are called for what they read.
CamtDetails == {"camt_balances", "camt_transactions"}
ReaderFor(fname) == IF fname \in CamtDetails THEN "iso20022" ELSE fname

\* The functions that make something of the values of a message.
ValueReaders == {ReaderOf(f) : f \in Named \ {Null}} \cup CamtDetails

Contents ==
  [form : Kinds \cup {"MT", "XML", "not XML", "MT behind markup"}, head : Seq(Nat),
   family : Named, late : Named, messages : SUBSET (Families \cup MtRead),
   harm : {Null, "malformed", "encoding", "utf8"}, bad : SUBSET ValueReaders,
   declares : BOOLEAN]

\* What names statements is one of them; what names a document is of ISO 20022,
\* as its messages are, but it may be a namespace and none of them.
NamedForItsForm(c) ==
  /\ c.form = "MT" =>
       c.messages \subseteq MtRead /\ {c.family, c.late} \subseteq c.messages \cup {Null}
  /\ c.form = "XML" =>
       c.messages \subseteq Families /\ {c.family, c.late} \subseteq Families \cup {Null}

\* What a name may be: nothing, or something with a content unless a folder.
IsEntry(e) ==
  /\ DOMAIN e = {"kind", "content", "movable"}
  /\ e.kind \in {"none", "file", "pipe", "folder"} /\ e.movable \in BOOLEAN
  /\ e.kind \in {"file", "pipe"} => e.content \in Contents /\ NamedForItsForm(e.content)

ASSUME OpeningAssumption ==
  /\ Null \notin STRING /\ Null \notin Seq(STRING)
  /\ Names \in Seq(STRING) /\ IsInjective(Names)
  /\ Range(Names) \cap (Remote \cup NoPaths) = {}
  /\ \A s \in Sessions :
       /\ DOMAIN s.disk = Range(Names) /\ \A n \in Range(Names) : IsEntry(s.disk[n])
       /\ s.call \in [fname : STRING, args : Seq(STRING)]

Started(d, c) ==
  /\ disk = d /\ call = c /\ pc = "bind" /\ files = <<>> /\ at = 1
  /\ source = Null /\ rows = <<>> /\ outcome = Null
  /\ opens = [n \in Range(Names) |-> 0]

Init == inbox = FALSE /\ \E s \in Sessions : Started(s.disk, s.call)

File == files[at]

Ends(cause, file) ==
  [cause |-> cause, file |-> file, hint |-> Null, undeclared |-> FALSE]

-----------------------------------------------------------------------------
(* bind: the files of the call.                                            *)

Kind(n) == IF n \in Range(Names) THEN disk[n].kind ELSE "none"
Openable(n) == Kind(n) \in {"file", "pipe"}

\* What a pattern matches, in the order of a glob.
Matches(p) ==
  FoldLeft(LAMBDA found, n :
             IF Glob(p) # Null /\ n \in Glob(p) /\ Openable(n) THEN Append(found, n)
             ELSE found,
           <<>>, Names)

\* A glob, else the name itself; Null if there is nothing to read.
ResolveFiles(p) ==
  CASE p \in Remote \/ Kind(p) = "folder" -> Null
    [] p \notin Remote /\ Kind(p) # "folder" /\ Matches(p) # <<>> -> Matches(p)
    [] p \notin Remote /\ Matches(p) = <<>> /\ Openable(p) -> <<p>>
    [] OTHER -> Null

\* Mutant: nothing is looked for among the files of earlier patterns.
ResolvePathsAll(args) == FlattenSeq([i \in DOMAIN args |-> ResolveFiles(args[i])])

\* Every pattern in turn; a file that is there already keeps its first place.
ResolvePaths(args) ==
  FoldLeft(LAMBDA found, n : IF n \in Range(found) THEN found ELSE Append(found, n),
           <<>>, FlattenSeq([i \in DOMAIN args |-> ResolveFiles(args[i])]))

PathsAreRefused(args) == args = <<>> \/ Range(args) \cap NoPaths # {}

BindFails ==
  /\ pc = "bind"
  /\ \/ PathsAreRefused(call.args)
     \/ \E i \in DOMAIN call.args : ResolveFiles(call.args[i]) = Null
  /\ pc' = "over" /\ outcome' = Ends("bind", Null)
  /\ UNCHANGED <<disk, call, files, at, source, rows, opens, inbox>>

Bind ==
  /\ pc = "bind" /\ ~PathsAreRefused(call.args)
  /\ \A i \in DOMAIN call.args : ResolveFiles(call.args[i]) # Null
  /\ files' = ResolvePaths(call.args)
  /\ pc' = "open"
  /\ UNCHANGED <<disk, call, at, source, rows, opens, outcome, inbox>>

-----------------------------------------------------------------------------
(* One file after the other.                                               *)

Opened(n) == [opens EXCEPT ![n] = @ + 1]

Fails(cause, next) ==
  /\ outcome' = Ends(cause, File) /\ pc' = next
  /\ UNCHANGED <<disk, call, files, at, rows, inbox>>

OpenSource ==
  /\ pc = "open" /\ at <= Len(files)
  /\ IF Openable(File)
     THEN /\ source' = disk[File].content /\ opens' = Opened(File)
          /\ pc' = "guard"
          /\ UNCHANGED <<disk, call, files, at, rows, outcome, inbox>>
     ELSE Fails("open", "hint") /\ UNCHANGED <<source, opens>>

Unless(admitted, shape) == IF shape \in admitted THEN Null ELSE shape

\* What the guard of a function says of a content, or Null.
Guard(fname, c) ==
  CASE fname = "sniff_iso20022" -> Null
    [] fname # "sniff_iso20022" /\ c.harm = "encoding" -> "encoding"
    [] OTHER -> Unless(Admits(fname), ShapeOf(c.head))

GuardPasses ==
  /\ pc = "guard" /\ Guard(call.fname, source) = Null
  /\ pc' = "read"
  /\ UNCHANGED <<disk, call, files, at, source, rows, opens, outcome, inbox>>

GuardRefuses ==
  /\ pc = "guard"
  /\ \E shape \in {Guard(call.fname, source)} \ {Null} : Fails(shape, "hint")
  /\ UNCHANGED <<source, opens>>

\* What names a content to a sniffer that is given it, or its prefix only.
SniffedFamily(c, whole) ==
  IF c.harm # "encoding" /\ ShapeOf(c.head) = c.form /\ c.form \in {"MT", "XML"}
  THEN Some(c.family, IF whole THEN c.late ELSE Null) ELSE Null

RowOf(family, harm) ==
  [family |-> family, error |-> harm # Null \/ family = Null,
   reader |-> IF family = Null THEN Null ELSE ReaderOf(family)]

\* Mutant: the walk ends once the file is named.
SniffRowOnceNamed(c) == RowOf(SniffedFamily(c, TRUE), Null)

\* The row of the sniffer: whatever is wrong with the file is said in it.
SniffRow(c) == RowOf(SniffedFamily(c, TRUE), c.harm)

\* Whether the function reads any of the messages.
IsFor(fname, c) ==
  IF fname = "audit_addresses" THEN SniffedFamily(c, TRUE) # Null
  ELSE \E f \in c.messages : ReaderOf(f) = ReaderFor(fname)

\* What a reader may say of a content its guard let through: the sniffer reads
\* no values, and a reader those of its own messages.
ReadErrors(fname, c) ==
  {IF fname \in MtRead THEN "malformed" ELSE h : h \in {c.harm} \ {Null}}
  \cup {cause \in {"value"} : IsFor(fname, c) /\ fname \in c.bad}
  \cup {cause \in {"no message"} : c.harm = Null /\ ~IsFor(fname, c)}

NextRow ==
  /\ pc = "read"
  /\ call.fname = "sniff_iso20022" \/ ReadErrors(call.fname, source) = {}
  /\ rows' = Append(rows,
       [file |-> File,
        row |-> IF call.fname = "sniff_iso20022" THEN SniffRow(source) ELSE Null])
  /\ at' = at + 1 /\ pc' = "open"
  /\ UNCHANGED <<disk, call, files, source, opens, outcome, inbox>>

ReadFails ==
  /\ pc = "read"
  /\ call.fname # "sniff_iso20022"
  /\ \E cause \in ReadErrors(call.fname, source) : Fails(cause, "locate")
  /\ UNCHANGED <<source, opens>>

-----------------------------------------------------------------------------
(* What an error says beside its cause.                                    *)

\* A pipe is not opened to explain an error: that waits for another writer.
IsRegular(n) == Kind(n) = "file"

\* Mutant: whatever can be opened is.
LocatedAnywhere ==
  /\ pc = "locate" /\ pc' = "hint"
  /\ IF outcome.cause = "utf8" /\ Openable(File)
     THEN /\ opens' = Opened(File)
          /\ outcome' = [outcome EXCEPT !.undeclared = ~disk[File].content.declares]
     ELSE UNCHANGED <<opens, outcome>>
  /\ UNCHANGED <<disk, call, files, at, source, rows, inbox>>

\* located: bytes that are no UTF-8 in a file that declares nothing.
Located ==
  /\ pc = "locate" /\ pc' = "hint"
  /\ IF outcome.cause = "utf8" /\ IsRegular(File)
     THEN /\ opens' = Opened(File)
          /\ outcome' = [outcome EXCEPT !.undeclared = ~disk[File].content.declares]
     ELSE UNCHANGED <<opens, outcome>>
  /\ UNCHANGED <<disk, call, files, at, source, rows, inbox>>

CanHint(fname) == fname \notin {"sniff_iso20022", "audit_addresses"}

\* Mutant: a detail reader is not the reader of its file.
IsWrongReaderByName(fname, reader) == CanHint(fname) /\ fname # reader

IsWrongReader(fname, reader) == CanHint(fname) /\ ReaderFor(fname) # reader

\* The function that reads the file, when it is another.
Hint(fname, family) ==
  LET reader == IF family = Null THEN Null ELSE ReaderOf(family)
  IN  IF reader # Null /\ IsWrongReader(fname, reader) THEN reader ELSE Null

ScanError ==
  LET looks == CanHint(call.fname) /\ IsRegular(File)
  IN  /\ pc = "hint" /\ pc' = "over"
      /\ IF looks
         THEN /\ opens' = Opened(File)
              /\ outcome' = [outcome EXCEPT !.hint =
                   Hint(call.fname, SniffedFamily(disk[File].content, FALSE))]
         ELSE UNCHANGED <<opens, outcome>>
      /\ UNCHANGED <<disk, call, files, at, source, rows, inbox>>

AllRead ==
  /\ pc = "open" /\ at > Len(files)
  /\ pc' = "over" /\ outcome' = Ends("none", Null)
  /\ UNCHANGED <<disk, call, files, at, source, rows, opens, inbox>>

-----------------------------------------------------------------------------
(* The files, and the caller.                                              *)

\* A file is moved away: the one that is open can still be read.
Vanish ==
  /\ pc # "over"
  /\ \E n \in Range(Names) :
       /\ Kind(n) = "file" /\ disk[n].movable
       /\ disk' = [disk EXCEPT ![n].kind = "none"]
  /\ UNCHANGED <<call, pc, files, at, source, rows, opens, outcome, inbox>>

\* SET VARIABLE files = (SELECT list(source_file) FROM sniff_iso20022(...)
\*   WHERE reader = ... AND error IS NULL)
Listed(reader) ==
  FoldLeft(LAMBDA listed, r :
             IF r.row.reader = reader /\ ~r.row.error THEN Append(listed, r.file)
             ELSE listed,
           <<>>, rows)

Recipe ==
  /\ pc = "over" /\ call.fname = "sniff_iso20022" /\ outcome.cause = "none"
  /\ \E reader \in {rows[i].row.reader : i \in DOMAIN rows} \ {Null} :
       /\ Listed(reader) # <<>>
       /\ call' = [fname |-> reader, args |-> Listed(reader)]
  /\ pc' = "bind" /\ files' = <<>> /\ at' = 1 /\ source' = Null /\ rows' = <<>>
  /\ opens' = [n \in Range(Names) |-> 0] /\ outcome' = Null
  /\ inbox' = TRUE /\ UNCHANGED disk

Over == pc = "over" /\ UNCHANGED vars

Next ==
  \/ BindFails \/ Bind \/ OpenSource \/ GuardPasses \/ GuardRefuses
  \/ NextRow \/ ReadFails \/ Located \/ ScanError \/ AllRead
  \/ Vanish \/ Recipe \/ Over

Spec == Init /\ [][Next]_vars

-----------------------------------------------------------------------------
(* A container gives no row of any reader and none of the sniffer that names *)
(* it a message, however its length is cut and however much a message        *)
(* in it or around it looks like one; and no message is refused, by a        *)
(* function that reads it, for a shape it has not (container.rs, sniff.rs).  *)
RefusedForItsForm ==
  /\ source # Null /\ pc = "read" /\ source.form \in Kinds =>
       call.fname = "sniff_iso20022" /\ SniffRow(source).error
  /\ outcome # Null /\ outcome.cause \in Kinds => source.form = outcome.cause
  /\ outcome # Null /\ outcome.cause \in {"MT", "XML", "not XML"} =>
       ~IsFor(call.fname, source) \/ source.form = "MT behind markup"

\* What a pattern reaches: a glob that matches nothing stands for a name.
Reached(p) ==
  LET matches == {n \in Range(Names) : Glob(p) # Null /\ n \in Glob(p) /\ Openable(n)}
  IN  IF matches # {} THEN matches ELSE {n \in {p} : Openable(n)}

BindsTheMatches ==
  LET items == Range(call.args)
      first(n) == Min({i \in DOMAIN call.args : n \in Reached(call.args[i])})
      place(n) == CHOOSE k \in DOMAIN Names : Names[k] = n
      before(m, n) == \/ first(m) < first(n)
                      \/ first(m) = first(n) /\ place(m) < place(n)
  IN  IF \/ items = {} \/ items \cap (NoPaths \cup Remote) # {}
         \/ \E p \in items : Kind(p) = "folder" \/ Reached(p) = {}
      THEN pc' = "over"
      ELSE /\ pc' = "open"
           /\ Range(files') = UNION {Reached(p) : p \in items}
           /\ \A i, j \in DOMAIN files' : i < j => before(files'[i], files'[j])

(* The files of a call are those its patterns reach, each once, in the order *)
(* of the arguments and then of the names; and it is refused exactly when an *)
(* argument is no path, is a URI or a folder, or reaches nothing             *)
(* (resolve_paths: "reading it twice would double a SUM").                   *)
FilesAreTheMatches == [][pc = "bind" /\ pc' # pc => BindsTheMatches]_vars

(* A pipe is opened once, to be read, and never again to say what was wrong  *)
(* with it: opening it waits for another writer (lib.rs, is_regular_file).   *)
PipesAreOpenedOnce ==
  \A n \in Range(Names) : Kind(n) = "pipe" => opens[n] <= 1

\* What names the file.
NameOf(c) == Some(c.family, c.late)

\* All of the file is for the reader of what names it.
ForOneReader(c) == \A f \in c.messages : ReaderOf(f) = ReaderOf(NameOf(c))

(* An error that names a function names one whose guard lets the file        *)
(* through and that reads it, if what names the file is one of its messages; *)
(* and never one the caller had as good as called: the function that failed  *)
(* does not read the file, unless the file holds messages for several        *)
(* readers.  One that says a file declares nothing is right about it         *)
(* (sniff.rs, reader_for: "a hint is only worth giving when it is right").   *)
(* Both exceptions are findings, see README.                                 *)
HintIsRight ==
  outcome # Null =>
    /\ outcome.hint # Null =>
         LET c == disk[outcome.file].content
         IN  /\ Guard(outcome.hint, c) = Null
             /\ NameOf(c) \in c.messages => IsFor(outcome.hint, c)
             /\ ForOneReader(c) => ~IsFor(call.fname, c)
    /\ outcome.undeclared => ~disk[outcome.file].content.declares

\* The call reads what the sniffer listed, and all of it is still there.
FromInbox == inbox /\ \A p \in Range(call.args) : Openable(p)

\* What a reader may say of a file that the sniffer found nothing wrong with.
Unforeseen(fname, cause, c) ==
  \/ cause = "value" /\ fname \in c.bad
  \/ cause = "no message" /\ NameOf(c) \notin c.messages

(* The sniffer stops at no file it can open, and gives one row for each.     *)
(* And the recipe of docs/adr/0011: the reader it names for a file without   *)
(* an error is let through to it and reads it to its end, if the file is     *)
(* still there and no name is a pattern for another, but for what the        *)
(* sniffer does not look at: a value that is malformed, and whether what     *)
(* names a document is one of its messages.  All three exceptions are        *)
(* findings, see README.                                                     *)
SniffedAreRead ==
  /\ outcome # Null /\ call.fname = "sniff_iso20022" =>
       /\ outcome.cause \in {"none", "bind", "open"}
       /\ outcome.cause = "none" => [i \in DOMAIN rows |-> rows[i].file] = files
  /\ /\ outcome # Null /\ FromInbox
     /\ \A p \in Range(call.args) : Glob(p) \in {Null, {p}}
     => \/ outcome.cause = "none"
        \/ Unforeseen(call.fname, outcome.cause, disk[outcome.file].content)

(* "The sniffer is the filter: `reader` says which function a file belongs   *)
(* to": the recipe reads the files the sniffer listed, all of them and no    *)
(* other.                                                                    *)
InboxIsRead ==
  FromInbox /\ pc \notin {"bind", "over"} =>
    Range(files) = Range(call.args)
=============================================================================
