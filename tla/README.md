# Specification of quackiso

quackiso is a DuckDB extension, written in Rust, that reads ISO 20022 XML
(camt, pain, pacs) and SWIFT MT files as tables. Every table function streams:
a file is opened, decoded, recognised, walked event by event, and its rows are
handed over in batches of one DuckDB vector, from one thread or from many. This
directory holds TLA+ modules for the parts of that pipeline that keep state,
TLC configurations that check them on small instances, and TLAPS proofs of some
of their properties for every value of the constants.

Paths of code below are relative to the repository (`src/lib.rs` is the crate's
file `src/lib.rs`; `PROJECT.json` writes it `src/src/lib.rs`).

## The system

| component | code | state it keeps | operations | what makes it correct |
|---|---|---|---|---|
| path arguments, file list | `lib.rs` `paths_of`, `resolve_paths`, `resolve_files` | none after bind | expand globs and lists, drop duplicates | every file that was meant once, in the order of the arguments; nothing that matches is an error |
| scan | `lib.rs` "shared scan machinery", "parallel scan" | `Scan`, `ScanState`, shared counter, bounded channel, worker threads | `next_batch`, `pull_batch`, `spawn_workers`, `effective_threads` | the query gets every row of every file once, in file order within a file, or an error; memory follows the threads; every thread ends |
| byte source | `lib.rs` `Input`, `encoding.rs` | replayed prefix, `Transcoder` | `settle_encoding`, `Input::read`, `Transcoder::read`, `refill` | the reader gets exactly the file's text, or an error |
| file shape | `sniff.rs` `shape_of`, guards and errors in `lib.rs` | nothing beyond the prefix | `guard_xml_prefix`, `guard_message_prefix`, `guard_container_only`, `located`, `scan_error` | a file of another format is refused before its first row, one of this format never; what the error says of the file is true |
| transport containers | `container.rs` | none | `detect` on the prefix | a ZIP, TAR, PKCS#7, OpenPGP or EBICS file is named as such, and no message is taken for one |
| sniffer | `sniff.rs` | what named the file, records counted | `sniff`, `sniff_mt` | the reader it names reads the file and gives as many rows as it says |
| camt walk of `read_iso20022` | `stream.rs` `EntryStream` | path, context leaves, active container, two counters | `next_entry`, `read_entry`, `capture` | a row states its own statement, account and keys; a cut-off file is an error |
| camt record walk | `camt.rs` `StatementRecordStream` | path, `StatementContext`, message and statement depth, three family sources, two counters | `next_record` at one of three grains | the same, and the keys equal those of `read_iso20022` |
| XML plumbing | `wire.rs` | none | `next_event`, `record_subtree`, `skip_subtree` | the input never ends inside an element unnoticed; one record has a bounded size |
| camt detail readers | `camt_*.rs`, `model.rs` | one record and a cursor into it | `next_row`: a record to rows | each transaction, amount and text of the file is one row, numbered by its place; the entry row says no more than they do |
| payment, status, mandate, case readers | `pain*.rs`, `pacs*.rs`, `camt027.rs` to `camt087.rs` | path, depth of the open message, a context of leaves for each scope, what was seen | `next_row`, `capture`, the rows at a record and at the end of a block | a row states its own message, group and payment group; a reason is inherited whole; a bad file is an error |
| SWIFT MT framer | `mt.rs` | buffered bytes, boundary state | next message, fields, entries of a statement | one message per frame; bounded memory |
| SWIFT MT statement readers | `mt940.rs`, `mt942.rs` | the open statement and its cursor | `next_row`: entries to rows | each entry one row, with its own narratives |
| SWIFT MT payment readers | `mt101.rs`, `mt103.rs`, `mt104.rs`, `mt202.rs` | a queue of rows of one message | `next_row`: transactions to rows | a row states its own transaction, and the header for what it leaves unsaid |
| address audit | `addresses.rs` | message, record and party it is in, the open address | `next_row` over XML and MT; classify postal addresses | a party is a row of its own message and record, faulted exactly when the rule would refuse it |
| amounts, timestamps | `decimal.rs`, `temporal.rs` | none | parse to DECIMAL, DATE and TIMESTAMP | the exact value, NULL or an error, never another value |

How they interact. DuckDB calls a table function's `bind` once (paths, `threads`
and the rest are fixed there), `init` once, and `func` until it returns an
empty chunk. The first `func` chooses between `pull_batch` and worker threads;
both open a file through `open_source`, which reads a prefix, settles its
encoding, lets the guard look at it and gives the reader an `Input`. The
reader's `next_row` is the only call the scan makes from then on. Two functions
over the same file (a join of entries with their transactions, say) are two
independent scans with two different walks: what relates their rows is only that
both number the same elements alike. ADR 0011 has the caller sniff a folder and
hand the files of one reader to it as a list: there the rows of one call are the
arguments of the next.

What is hard about it, by component (each is a hazard in `PROJECT.json` with its
line):

- scan: claims, sends, failures and the end of the query interleave; a panic, a
  bad file, an empty file, a full channel and a LIMIT each have to end in the
  right way;
- byte source: a character may be cut by the prefix, by a raw read, by the
  staging buffer and by the caller's buffer;
- camt walks: context that outlives the element it came from; two walks that
  have to count alike; elements in unusual places; files cut off anywhere;
- MT framer: boundaries glued to one line, line ends cut by a fill, two walks of
  one statement that have to agree;
- message readers: scopes inside scopes, several messages with the same element
  names in one envelope, identifiers of first and second choice in any order;
- sniffer and audit: two more walks that have to agree with each other, and with
  the readers, on what is a message, a record and a party;
- opening a file: patterns and names in one list, a file that goes away between
  bind and read, a pipe that can be opened only once, binary that looks like text;
- conversions: digits, scales and years at their limits.

## The modules

| module | models | checked by |
|---|---|---|
| `ScanContract` | what a scan promises the query (abstract) | `Scan` refines it |
| `Scan` | `lib.rs` 966-1150: sequential and parallel scan | `MCScan` |
| `ScanProofs` | theorems about `Scan`; `Scan` implements `ScanContract` | `tlapm` |
| `Wire` | `wire.rs`: events, subtrees, the end of the input | through `CamtWalks` |
| `CamtDocument` | the XML file (environment) | through `CamtWalks` |
| `EntryStream` | `stream.rs` | through `CamtWalks` |
| `StatementRecordStream` | `camt.rs` | through `CamtWalks` |
| `CamtWalks` | both walks over the same file | `MCCamtWalks`, two configurations |
| `CamtProofs` | theorems about `CamtWalks` | `tlapm` |
| `TextContract` | what a byte source promises its reader (abstract) | `DecodedInput` refines it |
| `DecodedInput` | `encoding.rs`, `Input` | itself |
| `FoldLemmas` | lemmas: induction over numbers and sequences, folds | `tlapm` |
| `DecodedInputProofs` | `DecodedInput` implements `TextContract` | `tlapm` |
| `MtFile` | the MT file and the buffered source under it (environment) | through `MtFramer` |
| `MtFramer` | `mt.rs` 53-259: `MtReader` | `MCMtFramer` |
| `MtFramerProofs` | theorems about `MtFramer` | `tlapm` |
| `MtMessages` | what the readers of MT files share: whose a message is, the wrong file | through `MtInventory` |
| `MtStatement` | `mt.rs` 405-739: the two walks of a statement body; `mt940.rs`, `mt942.rs`: `next_row` | through `MtInventory` |
| `MtPayments` | `mt.rs`: lookup of fields, `sequences`; `mt101.rs`, `mt103.rs`, `mt104.rs`, `mt202.rs`: `next_row` and the columns | through `MtInventory` |
| `MtInventory` | each MT reader over its own files, and `sniff_mt` and the audit of the same file beside it | `MCMtReaders` |
| `GroupTable` | what a family tells the reader; `wire.rs` `capture_assignment`, `capture_case`; `pain009.rs` `capture_group_header` | through `GroupRows` |
| `PaymentFamilies` | pain.001, 008, 013, 009 to 012; pacs.003, 004, 007 to 010; pacs.002, pacs.028, pain.002, pain.014 | through `GroupRows` |
| `CaseFamilies` | camt.027 to 031, 036, 037, 055 to 057, 087 | through `GroupRows` |
| `GroupReader` | `next_row`, `pop` and `capture` of all of them | through `GroupRows` |
| `GroupDocument` | the file (environment) | through `GroupRows` |
| `GroupRows` | a reader over a file | `MCGroupRows`, two configurations |
| `GroupProofs` | theorems about `GroupRows` | `tlapm` |
| `MCGroupRows` | the families together; where each message keeps what it says (its schema) | itself |
| `Identity` | `sniff.rs`: containers, families, readers and record elements | through `Sniffer`, `FileShape` |
| `Sniffer` | `sniff.rs`: `SniffStream::sniff` over an XML file | through `Inventory` |
| `AddressAudit` | `addresses.rs`: `AddressStream`, the classification and the findings | through `Inventory` |
| `Inventory` | both over the same file (environment) | itself |
| `InventoryProofs` | theorems about `Inventory` | `tlapm` |
| `Decimal` | `decimal.rs`: `scaled`; the operator an amount is exact by | through `EntryRows` |
| `StatementLine` | `mt.rs` `statement_line`, dates of `mt.rs` and `temporal.rs` | through `EntryRows` |
| `EntryDetail` | `model.rs`: what is in an entry; the row constructors of `camt_*.rs` | through `EntryRows` |
| `EntryRows` | `next_row` of the six camt readers, the cursors of `model.rs`; a `:61:` line as a row | `MCEntryRows` |
| `FileShape` | `container.rs` `detect`, `sniff.rs` `shape_of`, what the guards admit | through `Opening` |
| `Opening` | `lib.rs`: bind of the paths, guards, and what an error says | `MCOpening`, two configurations |
| `OpeningProofs` | theorems about `Opening` | `tlapm` |

Operators whose comment begins with `Mutant:` are the ways the code could
plausibly be wrong; they are used by no specification, and exist so that every
property can be shown to fail for one of them.

### Scan

A file is abstracted to how many rows its reader yields and how the reading ends
(`ok`, `refused` by its guard or the file system, `bad` row, `panic`); a batch is
an interval of consecutive rows of one file. `StartSequential` and
`StartParallel` are the two ways out of `Scan::Pending`. `OpenNext` to
`ReturnBatch` are the steps of one `pull_batch`; nothing runs beside them, and
they are separate actions only to have one guard each. A worker thread is a
program counter: `claim` (the `fetch_add`), `open`, `rows`, the three sends, and
`gone`. `Receive*` and `Disconnected` are `func` on the receiving side;
`StopQuery` and `DropReceiver` are DuckDB ending the query and freeing its init
data. An error on the sequential path loses the rows already pulled for that
chunk, as in the code.

### Camt walks

`CamtDocument` hands over one XML event per step: any nesting the vocabulary
`Children` allows, text that may not be readable, and an end of input anywhere.
It also keeps the counts (`stated`) that the element structure alone gives,
against which the walks' counters are judged. Each walk is a module with one
action per branch of the loop in `next_entry` and `next_record`; recording or
skipping a subtree goes event by event, because the file may end, or be wrong,
inside it. `CamtWalks` runs both walks on the same events. A walk that has failed
or ended ignores what follows.

What is abstracted: the text of a leaf is the ordinal of the header or statement
that states it, so text on the wrong row shows; `sound` stands for every reason
why text or a record cannot be used (bad UTF-8, an unknown entity, a record that
does not deserialize); the namespaces of a tag are the message identifier they
resolve to; the text of a leaf arrives in one piece. A vocabulary keeps to what
the schemas of camt.052, 053 and 054 rule out (`SchemaAssumption`, which TLC
evaluates on the instances): there is no account above the statements; no
statement and no group header inside an entry or a balance (both walks would
swallow it as part of the record); below a statement's own children no account
and no statement with an identifier of its own, entries aside; and no statement
directly in a statement.

### Byte source

A byte is one of four kinds: `s` is a character, `l` and `t` the two halves of
one, `x` neither. A one-byte character decodes to one UTF-8 unit and a two-byte
one to three (as in GBK or Shift_JIS), so the decoder can fill the staging buffer
before it has used up its input. `Settle` and `SettleFails` are
`settle_encoding` on the prefix together with the guard that keeps or raises its
error. `Read*` are the branches of `Input::read` and `Transcoder::read`, `Refill`
one turn of `refill`'s loop. The decoder itself (the `encoding_rs` crate) is
external and modelled from how it is called: what it consumed, what it wrote, and
why it stopped.

### SWIFT MT

`MtFramer` works on bytes, since what can go wrong is where a line or a message
is cut. The bytes are named for what the framer does with them: `H` is `{1:` and
`T` is `:20:` at the start of a line, `D` is `-`, `S` is a separator line's `$`,
`w` is what `line_body` trims (blanks and control characters), `x` is not UTF-8,
`t` any other text, and `cr`, `lf`, `bom` are themselves. `take_line` is the
actions `TakePending` to `LastLine`, one per branch of its loop, with the read it
waits for as `Waiting`; `next_message` is `Frame*`, one per branch of its chain
of conditions, in its order, and `FileEnds`.

`MtFile` is the bank that writes the file, one byte ahead of the reader, and the
source that cuts the bytes into reads. The writer knows what it means: which
message a byte belongs to and where a message ends (`due`), so the framer's
answer is compared with what was written and not with a second copy of its rules.
The writer puts no message with blocks directly after a bare statement that
nothing terminates, and nothing but `w` in front of the `{1:` that opens one: the
formats do not allow either, and the code then reads the one as part of the other.

`MtStatement` starts from framed messages. A line of a body is its kind: the tag
of a field, or a statement line or a balance that cannot be parsed (`61x`, `60x`,
`34Fx`), a continuation, an empty line, the terminator. `:90D:` and `:90C:` are one
kind; a closing balance or a `:13D:` that cannot be parsed ends the scan as an
opening one does and has no kind of its own. `Statement` and `Parse` are the walk
of `Fields` (a fold over the lines), `SiteAt*` the cursor, which looks at one line
per step and keeps its open region over the rows it returns.

`MtPayments` starts from the fields of a body. A field is its tag, what its value
states (of a party: an identifier, an account, both or neither; of an amount:
whether it can be read) and, unseen by the readers, the sequence its writer put
it in. The readers find the sequences themselves: `SequencesOf` by an exact
`:21:`, `Settlement` by the first `:19:` or the second `:32B:` of the last
transaction of an MT104, the cover of an MT202 by its `:50a:`. What
`rows_from_message` does column by column in each file is here a table of
columns: the tags, the span they are looked for in, and whether the first, the
last or all count; "either" is a transaction's own field or else the header's.
A value in a row is the position of its field, so that
`ColumnsKeepToTheirSequence` can compare where it was found with where it was
written. The option letter of a party that states nothing is left out.

### Payment, status, mandate and case messages

Twenty-eight readers are written out one by one in the code and share one loop:
elements go on a path, the family's own container is remembered by its depth,
leaves are captured by the tail of their path, a record element inside the
container is read whole and gives a row, and in some families so does the end of
a block. `GroupReader` is that loop. What a reader does of its own is its entry
of `Families`: which containers and records it knows, which tail sets or fills
which field, which element starts which fields over, which end gives a row, and
from which fields each column of each row comes. An entry is the reader's
`next_row` and `capture`, its row the reader's `row_from_*`. A column the record
alone decides does not appear: the rows of the model have the columns that come
from the context, and of a record only whether it states such a column itself.

`GroupDocument` writes the file: an envelope, messages of the family and others
whose blocks have the same names, blocks and records in them, texts at any place
the reader knows, unreadable texts, records and amounts, and an end anywhere.
`MCGroupRows` says, independently of the reader's resets, in which block each
field stands and how far what it says holds: inside the block, or - for a header
of the block around it - for all that follows it there. From that alone the row a
place is due is computed (`said`, `due`), and compared with the row the reader
gives.

A text is the number of the block that says it, with its place in it. One group
of fields a column depends on (`topic`) is watched at a time; no text belongs to
two fields (`TailsAreApart`, evaluated by TLC), so the others cannot touch it.

That a table of the code answers to the layout of its messages is `Fits`, in seven
parts: blocks stand in the message or in one that does (`TreeFits`); a field is
said by one block (`HomesFit`); the end tags that give rows are those the layout
has rows for (`EndsFit`); a block that opens finds what it says blank or must say
it, and resets nothing that holds around it (`ScopesFit`); a row is made of fields
that hold where it is due, or that are cleared when they no longer do (`RowsFit`);
the sources of a bundle go from the inside out, and one that says anything says a
column the reader looks for (`BundlesFit`); what must be said has one form, and
what a field needs is said beside it (`FieldsFit`). TLC evaluates it for all the
families (`LayoutsFit`).

Texts of a block precede the blocks in it, as in the schemas; a record states at
most one of the watched columns; a self-closing record, which the readers pass by,
is not written. A payment group of a camt.055 states an originator of the
cancellation only with a code or a text: `camt055.rs` 160 passes over a reason
that has neither.

### Sniffer and address audit

`Inventory` writes an XML file and hands each event to both walks: one bare
Document, or an envelope of Documents or of bare containers, headers and
namespaces that name the messages or do not, records, parties, and addresses in
pieces. What the file means it says itself: which message the cursor is in
(`own`), and what row the party that ends is due (`due`), both from the nesting
alone. `Sniffer` and `AddressAudit` are one operator per branch of their loops;
the tables they share are `Identity`.

A file is `rich` in one thing at a time, which keeps a run small. Rich in names, it
has namespaces and headers wherever they may be, which may contradict each other, and
one party in a message, in no record and behind its id; rich in contents, it has no
headers but several records and parties, with an id or without; rich in addresses, it
is one Document with one party. Rich in "all" it has none of these bounds: no run goes
through that, but the theorems of `InventoryProofs` are about any `Riches`.

The text of an address line is its length. What a namespace, a header or a
container names is a family. Where the four names of a message (its Document's, its
envelope's, its header's, its container's) contradict each other, the file alone does
not say which is right, and `own` and `due` take them in the order `sniff.rs` 624-628
documents. Where the audit prefers another, `Called` says which and when
(`FirstHeaderNames`, `EnvelopeIsPassedOver`); both are findings.
A comment or a CDATA section splits a text: lines are put together from the
pieces, as in the code.

`MtInventory` puts the same two functions beside the reader it steps through
an MT file: `SniffMt` is a fold over the messages, `AuditOf` the
fields the audit lists with the role `mt_role` gives them, and the columns the
readers put those fields in come from `MtPayments`.

### Rows of an entry, and statement lines

`EntryRows` starts where the walks end: with a record. A scan is its reader, its
file, the entry its cursor is in and where in it (`open`), and the rows handed
out; a step is one turn of `TxCursor`, `AmountCursor` or `RemittanceCursor`. What
a row says is in `EntryDetail`, from a record of the amounts, parties and texts
an entry states; columns that copy one element are left out. `LineRow` is the row
of a `:61:`, whose characters are numbers: a digit itself, and one number for
each character the slicing tells apart.

An amount is its digits (`Decimal`); 128-bit overflow is not modelled apart,
because what overflows is larger than the largest column value and the code
refuses both.

### Opening a file

`FileShape` is what the first bytes say. A prefix is a sequence of symbols:
numbers below 256 are bytes, where lengths, tags and versions are computed from
them, and larger ones are words nothing looks into (`{1:`, an armor line, the
name of an attribute). The TAR header has the fields of the real one in a block
of 21 bytes.

`Opening` is one call: `Bind` is `paths_of`, `resolve_paths` and
`resolve_files`, `OpenSource` to `AllRead` the turns of `pull_batch`, `Located`
and `ScanError` the two explanations an error gets, each of which opens the file
again. A file is its kind (file, pipe, folder) and its content: the form it is
written in, its prefix, what names its family within the prefix and after it, the
families of the messages in it (several in an envelope, and what names it need be
none of them), what is wrong with its bytes (`harm`), the functions that meet a value
they refuse in it (`bad`: a malformed amount, a record that cannot be deserialized),
and whether it declares an encoding. `ReadErrors` are the errors a reader may meet in
it, by `harm` and `bad`; the sniffer sees the first kind only. `Vanish` deletes a file
that may go away; `Recipe` is the caller of ADR 0011, who sniffs and calls again.
Files are read one at a time: how they are scheduled is `Scan`, and what becomes
of their events the readers' modules.

## What the runs check

| run | question | bounds | states |
|---|---|---|---|
| `scan_mixed` | does either path lose, repeat, reorder or invent rows, end short, or hold more than the threads allow? does every query end and every thread exit? | 3 files of every ending, vectors of 2 rows, `threads` NULL and 0 on two processors | 612,000 |
| `camt_walks` | do the two walks agree on entries, keys, account and failure? is every record numbered by its place, and does it state only its own message and statement? is a cut-off file noticed? | three vocabularies: entries and accounts; entries and balances; messages in envelopes. Depth 6, 2 statements, 2 headers, 2 entries and balances each, subtrees of 3 events | 990,000 |
| `camt_msgid` | do the walks agree on the message? (no: finding) | 2 headers in a document | |
| `input_reads` | is the text exactly the file's, however its bytes arrive, and does every read return? | 6 bytes, prefix 2, staging 3, caller's buffer 2 | 170,000 |
| `mt_frames` | are the messages returned those written, wherever reads cut the file? is a file refused only for cause, and is memory bounded? | 3 lines, reads of up to 2 bytes; no limit near and lines of 2 bytes of any kind or 3 of any two kinds of text, or lines of 4, a limit of 3 and one interrupted read | 5.2 million |
| `mt_rows` | is each entry one row, with its own narratives? is each transaction one row, and does each column come from its own sequence? does the sniffer name the reader and count its rows, and does the audit list each party under the name of its column? | statement bodies of up to 5 lines; files of two messages of up to 2 and 1 lines; payment messages of up to two transactions, with every header, settlement and cover that tells the columns apart; two of them, foreign, bare or an ACK | 548,000 |
| `group_rows` | does every reader give the rows its file is due, with what covers their place and whole reasons, and fail where the file is bad? | every family and topic; 2 messages, 5 messages and blocks in all, 2 texts in a block | 358,000 |
| `group_case` | is the case of a row never that of another group? (no: finding) | the same, and a group may state a case | |
| `inventory` | is each party a row of its own message and record, faulted exactly when the rule refuses it? do sniffer and audit count alike, and is a file named for what is in it? | a credit transfer, an amendment, a statement; 2 messages: with names in every place, also contradicting, and a party each; or without headers, 2 records and 2 parties each; addresses of up to 7 elements and texts | 1.88 million |
| `entry_rows` | is everything in a record a row of its reader, once and in order, with exact amounts? does the entry row claim no more than the detail rows show? are statement lines cut where they were joined? | every shape of two blocks of two transactions, two texts and two structured blocks; both sides with every combination of names and accounts; amounts around a scale of 2 and a width of 4; lines around year ends, leap days and the pivot | 174,000 |
| `opening` | are the files read those that were meant, is each let through or refused for its form, is a pipe opened once, and is what an error says true? does the recipe of ADR 0011 read what it lists? | one file of every form, also with messages for several readers and values a reader refuses, and every function; any two of ten arguments on a disk of six names, one of which may go away and one may be of another family | 181,000 |
| `opening_inbox` | is every file the sniffer listed read by its reader? (no: finding) | the same | |

Why the bounds suffice. The scan distinguishes a file with no row, with fewer
rows than a vector, with exactly one vector and with more; three files give every
order of an empty, a good and a failing one, and two threads give the races for
the counter and for the channel, whose capacity of four the three-batch files
fill. Two statements are the fewest that can show text or a count surviving from
one to the next, two entries the fewest that show a wrong number; depth six
reaches an entry inside a wrapper inside a statement with a nested container.
Six bytes with a prefix of two and staging of three pass every buffer limit, and
every character can lie across every one of them.
Three lines hold a message, its separator and the next one, or two bare
statements and a terminator; three bytes hold a glued `{1:` with text on both
sides; a read of two bytes can end between CR and LF or before either. Five lines
of a body are an opening field, an entry, its narrative, what closes it and a
narrative after that, in every other order too.
Two transactions are the fewest where one is not the last, which alone the
settlement is cut from, and where a column could be its neighbour's.
Two messages show what one leaves to the next, or another message to this one;
five blocks are two messages with a block each and a third inside, or one message
with two groups and their payment groups; two texts are a code with an
explanation, one field said in both forms, or one said again.
Two messages with two records and parties each show an identity or a count that
survives, and a name that survives needs no second record; seven parts of an address
are three lines, two of them split, or two lines with a town and a country and one
text too many. Two blocks of two transactions are the fewest where a cursor crosses
from a transaction to the next, from a block to the next and past an empty one; four
digits with two of them after the point have numbers on both sides of either limit.
Each container is there as its writer makes it, cut off at each field, and with each
field changed; each is also there inside a message. Two arguments overlap, repeat,
or fail after one that resolved; what a name holds varies where they reach it.

Deadlock is checked in every run: a system that is over stutters in an explicit
`Over` action, so a state without a successor is a real one.

### Fairness

`scan_mixed` assumes weak fairness of each worker thread (the operating system
schedules it), of the receiving side (DuckDB calls `func` until the scan ends)
and of `DropReceiver` (DuckDB frees the init data of a query that is over).
Stopping a query is never required. `input_reads` assumes that a `read` that was
called is run to its return. The other systems need no fairness: their only
progress property, that a walk is over when its input is, is an invariant
(`EndsForCause`, `EndsAsItShould`).

### Findings

- `camt_msgid`: `camt.rs` says that both walks assign the message id by the same
  rule and so cannot disagree. `EntryStream` never clears `msg_id` on a second
  `<GrpHdr>`; `StatementRecordStream` does.
- `group_case`: `camt056.rs` says that a transaction which names no case belongs to
  the one beside the assignment, and ADR 0006 calls that the fallback. The tail
  `Case/Id` also matches the case inside `<OrgnlGrpInfAndCxl>`, which replaces the
  message's and outlives its `<Undrlyg>`; camt.029 does the same with
  `RslvdCase/Id`. `group_rows` keeps such texts out (`Irregular`).
- `opening_inbox`: `lib.rs` says of the names in a list that a name a bank wrote is
  not a pattern. That holds for names `glob` refuses. A file `a[1].xml` that the
  sniffer listed is a pattern for `a1.xml`; with both in the folder, the first is
  left out of the result without an error.

Six are places where the code does less than its comments or an ADR claim, and the
property of a passing run says exactly what it does instead: outside the named
exception the claim holds.

- `mt_frames`, `Bounded`: `mt.rs` calls its limit the ceiling on one assembled message
  and peak memory one message. The branch that finds the next `{1:` glued to a line
  (`mt.rs` 126-135) adds the text in front of it without comparing: such a message
  (`CutInALine`), with the tail put aside, comes to twice the limit and two line ends.
- `opening`, `HintIsRight`: ADR 0011 exempts from the hint a file "read by the function
  that failed". An envelope may hold messages for several readers
  (`testdata/pacs028_envelope_two_messages.xml`): the sniffer names one of them, and
  `read_camt056` failing on its own record is told to use `read_pacs028`. An envelope
  named for none of its messages gets a hint to a function that reads nothing in it.
- `opening`, `SniffedAreRead`: ADR 0011 says that the sniffer's `error` tells which
  files cannot be read. It parses no amount and no record, so a file it lists without
  an error can abort the call of its reader (`Unforeseen`).
- `inventory`, `PartiesAreTheMessages`: `sniff.rs` says that a namespace wins a
  conflict with a header. In the audit the first header of the file that named a family
  beats the namespace of an envelope, the container, and the header of every later
  message, where the Document binds nothing (`FirstHeaderNames`).
- the same: `addresses.rs` 464 says that every message inside an envelope starts from
  the envelope's namespace. A bare container starts from its own name
  (`EnvelopeIsPassedOver`); the sniffer names the same file for the envelope.
- `inventory`, `NumberedAsCounted`: `sniff.rs` 86 says that a record index and a record
  count cannot disagree, because they use one list. Of an amendment (pain.010) the
  sniffer counts the `UndrlygAmdmntDtls`, and the audit numbers the `Mndt` in each as
  well: the first mandate is record 2, and a party after it is in no record.

Smaller ones, met while modelling, have no run:

- `spawn_workers`' comment (`lib.rs` 1038) says that after a LIMIT or a cancel the
  threads exit instead of parsing the rest. A thread learns of it from a failing
  `send`, and a file without rows sends nothing, so threads go on through any
  number of such files.
- `Transcoder::failed` (`encoding.rs` 132) promises that a read after the error
  says so again. If the failing `refill` decoded text in front of the malformed
  sequence, the next read hands that text out first.
- `mt.rs` 174 says that CR LF ends one line. If the read that looks for the LF is
  interrupted by a signal, the LF ends an empty line of its own. `FramedAsWritten`
  and `RefusedForCause` are stated for reads that are not interrupted there.
- `camt055.rs` promises the reason of the payment group before that of the group,
  and passes over one that names only an originator.
- A comment inside `<TwnNm>` makes two populated elements of it for the audit, which
  changes no finding. A self-closing container is a message to the sniffer and
  none to the audit; so is a Document that only its envelope names.
- The AccountServicingInstitution column of an MT101 is field 52 of its
  transaction, which the audit calls the ordering institution, as in the other
  types; `AuditNamesTheColumns` names that one exception.
- A `:61:` without a debit or credit mark and with a point in its amount has the
  point for a mark; one without an amount takes the first digit of its references.

## What is proved

`ScanProofs`, from `ScanAssumption` alone (at least one file, a vector of at
least one row, files of natural length, at least one processor, requests that are
integers or absent):

- `TypeCorrect`: `Spec => []TypeOK`. `TypeOK` is inductive.
- `OneReader`: `Spec => []OneReaderPerFile`. Inductive with `ClaimInv`, which adds
  that the file a working thread holds is below the counter, so that the next
  claim is new.
- `BatchesFit`: `Spec => []BatchFits`. Inductive with `RoomInv`: a thread in
  `rows` has less than a vector in its batch, one that is about to send has
  between one and a whole vector.

- `MemoryFollowsThreads`: `Spec => []BatchesInFlight`. A started thread is one of
  the first `Threads`, and the channel holds at most `Capacity` messages
  (`FlightInv`); the rest is counting.

- `ScanImplements`: `Spec => Implements`, the refinement of `ScanContract`: the
  query gets every row of every file once, in the order of its file, or the error
  of a file that has one, and never a short result. The contract's step
  `Deliver` asks that a chunk continues what was delivered, which no single
  variable of `Scan` says; the inductive invariant therefore says where every row
  is. In a parallel scan (`FlowInv`): each message continues its file from the
  latest message of the same file before it, or from the query (`MessageInv`);
  the batch in a thread's hands continues what the thread has sent (`BatchInv`);
  a file nobody has opened has nothing anywhere (`UntouchedInv`); every claimed
  file is in the hands of a thread, wholly handed over, or has its error in the
  channel (`Accounted`); and a thread leaves only when the files are used up or
  such an error is there (`GoneInv`), which is why an empty channel without
  threads is the end of all rows. In a sequential scan (`HandInv`, `CursorInv`):
  the rows in hand name files in order and continue them, and the cursor divides
  the files into read, being read and untouched.

`CamtProofs`, from `SchemaAssumption` and `NullAssumption` (a missing value is no
value), for every vocabulary, document, depth, bound and grain:

- `KeysHold`: `Spec => []KeysAreThePlace`; `OwnHolds`: `Spec =>
  []ContextIsTheirOwn` (which says nothing of read_iso20022's message id: see
  `camt_msgid`); `JoinKeysHold`: `Spec => []JoinKeysAgree`; `EndsHold`:
  `Spec => []EndsForCause`. All four from `InvHolds`: `Spec => []IInv`. The walks
  keep a path that leaves records out, a depth, and counters, never the document;
  the invariant says what these amount to. `DocumentInv`: every open element is
  one the schema allows there. `LoosePlace` and `StrictPlace`: the path is the
  open elements, or, within a record, all but what the record holds, with as many
  elements of the record's name open as the subtree's depth says; the container
  depth is the position of the outermost statement. `LooseCounts` and
  `StrictCounts`: the counters are what the document states, less the record that
  is still being read. `LooseOwn` and `StrictOwn`: what the context holds was said
  by the current statement or header. `RowInv` and `RecordInv`: a row holds what
  the walk holds. `Together`: while both read, they are inside the same entry or
  both outside one, and know the same of their statement.

`DecodedInputProofs`, from `InputAssumption` alone (the sizes are natural and not
zero, and a staging buffer holds the widest character):

- `InputImplements`: `Spec => Implements`, the refinement of `TextContract`. From
  `InvHolds`: `Spec => []IInv`. `TextInv` says where the text of the file is: what
  was handed over, what was put back and what waits in `out` are, put together,
  the text of exactly the bytes the decoder has taken (`Consumed`, what was read
  less what is still raw), and the decoder holds the first byte of a character
  exactly when the last of those opens one. Nothing less is inductive: a character
  may be cut by the prefix, by a raw read, and its units by the caller's buffer.
  `Judged`: the guard refuses only what is no text. `PlainInv`: a file in UTF-8 is
  handed over as it is. Under it, `DecodeLeaves` is about the decoder alone: a
  fold over any bytes stops at their end, at a full buffer, or where a byte is no
  text, and has then said what the bytes before say; `PrefixDecoded` adds that the
  buffer for the prefix is never full, since no character takes more than twice
  its bytes.

`MtFramerProofs`, from `FileAssumption` (the ceilings and the reads are natural and
not zero, text is made of the bytes listed) and `NullAssumption` of `MtFile` (what is
missing is no message and no line), for every file, ceiling and size of a read:

- `BoundHolds`: `Spec => []Bounded`. What is appended was measured against what the
  message held before, so a message keeps to the ceiling but for its last line end;
  the text before a glued `{1:` is not measured, but is part of a line that was, and
  the rest of that line is what is put aside.
- `FramedHolds`: `Spec => []FramedAsWritten`, and `CauseHolds`: `Spec =>
  []RefusedForCause`. Both from `InvHolds`: `Spec => []IInv`. The framer keeps a
  line and a message; the writer alone knows what the file holds, and is up to a
  buffer ahead. So the writer is taken as a value (`States`), and a byte takes it
  from one to the next (`ByteTo`, and `Reach` over many). `Place` says where the
  framer stands: there is a state of the writer, at the start of a line, with
  exactly `msg` behind it, from which the line so far and then the buffer lead to
  where the writer is now, or was when it ended the file. Each of the framer's
  states has its own form of this: a line half read, a line complete whose LF may
  be still ahead, a line to be judged, a tail that opens the next message, nothing
  left. Nothing less is inductive: the byte that decides whose a line is may come
  reads later. A message that is handed over is then the first that is due, since
  what the writer closes on the way is what the framer closes when it gets there.
  As in the property, reads that are interrupted are left out, but for `Bounded`.

`OpeningProofs`, from `OpeningAssumption` (the names are strings, each listed once,
and no URI and no NULL among them; what a name holds is a content, in which a
statement is named for a family of MT and a document for one of ISO 20022), for every
set of names, every meaning of a pattern, every disk and every call:

- `MatchesHold`: `Spec => FilesAreTheMatches`. `FilesOfOne`: an argument gives what it
  reaches, in the order of the names; `FilesOfAll`: the arguments together give
  that, each file at the first argument that reaches it. The code says neither; it
  folds over the names and then over what the arguments gave.
- `PipesHold`: `Spec => []PipesAreOpenedOnce`, `HintHolds`: `Spec => []HintIsRight`,
  and `SniffedHold`: `Spec => []SniffedAreRead`. All three from `InvHolds`:
  `Spec => []Inv`. `OpenedOnce`: a pipe that was opened is one of the files up to
  the one at hand, and no file is there twice. `Rowed`: the rows are those of the
  files before, each made of what that file held. `Ended`: what an error says is
  right about the file it names, and stays right when files go away, since none
  changes what it holds. `SniffedWhole`, `FromListed` and `InboxRead` carry the
  recipe of ADR 0011 over its two calls: the sniffer ends early only where it
  cannot open a file, what is listed has a reader and no error, and a listed file
  that is still there is bound, let through and read. `ListedIsRead` is the reason:
  what the sniffer names in the prefix or after it, the guard of its reader admits.

  Both properties hold for every content, those with several readers, a misleading
  name or a malformed value included, because they state their exceptions: that a
  name is no pattern for another (the finding of `opening_inbox`: it may bring in a
  file the sniffer never listed, whose reader is another one), that what names a file
  is one of its messages, and what the sniffer does not look at.

`GroupProofs`, from `LayoutsFit` (each table fits its layout, above),
`TailsAreApart` and `NullIsNothing` (a missing row is no number) of `GroupRows`, for
every table, layout, number of messages, blocks and texts:

- `EndsHold`: `Spec => EndsAsItShould`, from `PlaceInv`: the family and layout go
  together (`Chosen`), the open elements are an envelope, a message and blocks of
  the layout each in the one before (`Nested`), the reader's path is their tags, its
  depth is there exactly in a message of the family, and it knows whether a row was
  due (`InStep`), and what it remembers for the end of the input is what was met
  (`Seen`).
- `RowsHold`: `Spec => []RowsAreDue`, `ColumnsHold`: `Spec => []ColumnsInScope`,
  `ReasonsHold`: `Spec => []ReasonsAreWhole`, each where `~Irregular`: no group states
  a case of its own, without which `ColumnsInScope` is false (the finding of
  `group_case`). All three from `ContentHolds`: `Spec => []ContentInv`. The reader
  never knows what covers a place; it has a field, overwritten by a text, blanked
  by a start tag in some families, by an end tag in others, by the container in
  all. `SaidInv` says what covers one: only what a block that is open said, and of
  one block only. `KeptInv` relates the two: a field is `Meant` while the block is
  open in which it holds; but a field its block must state keeps the value of the
  block before until it is said (`Awaited`), and elsewhere a field that an end tag
  clears is blank. Of any other field whose block is over, the reader may hold what
  is stale; no row that is due there is made of it (`RowsFit`). `RowInv` is the
  properties. `Captured` says that `capture` gives a text to the field it is meant
  for and to no other; `SaidGoesIn`, `KeptGoesIn`, `SaidGoesOut` and `KeptGoesOut`
  what a start and an end tag leave; `BundleIsDue` that the first source the reader
  finds stated is the innermost that states anything, columns and all.

`InventoryProofs`, from `NullAssumption` (what is missing is no number, name, family,
party or row) and `FileAssumption` (the containers of the files are listed ones, none
of them also a block of a record, and what names a family is no note) of `Inventory`,
for every container, file, number of messages, records, parties and texts, and
whatever the files are rich in (`Riches = {"all"}` bounds nothing else):

- `AddressesAreRead`: `Spec => []AddressInv`, and from it `FindingsFollowTheRule`:
  `Spec => []FindingsAreTheRule`. The audit never sees a party as a whole: it keeps
  a depth, counts, and the lengths of the lines, from one event to the next. `Nested`
  says where an element may stand, by a rank that grows inwards, so that a name is
  open once only; `OpenInv` that the audit has a party open exactly while a `Dbtr`
  is, at its depth; `PartyInv` that what it has counted is what the address states
  so far, a line in pieces included. The row at the end of a party (`EndsWell`) is
  then made of the address as it stands, which `FaultsTell` compares with the rule,
  format by format; and there is one exactly when one is due. `AuditElementIs` and
  the lemmas after it (`ChildFields`, `BegunFields`, `BoundFields`) say field by
  field what the audit makes of a tag.
- `PartiesGoWithTheirMessages`: `Spec => []PartiesAreTheMessages`, from `AddressInv`
  and `IdentityInv`. The property compares a row with the message the cursor of the
  file is in; the audit has no cursor, only depths and names it took along the way,
  so the invariant relates the two memories part by part. `FileInv` and `OwnInv` are
  about the file alone: what its header, envelope and Document have said so far, and
  that the message the cursor is in is an open container or a Document of unknown
  content; `WithinInv` that a record is open only while the
  cursor is in one. `NamedInv` says that what the audit knows of names is what the file
  has said. `DepthInv` says where the audit takes itself to be: at the message of the
  cursor, or in none, with two exceptions that had to be found. After a Document
  without a message nothing follows (`Lost`); and a Document nothing names but the
  header of an earlier message is taken for the message itself (`Claimed`), as long
  as its container has not opened, and for good if it holds none. `WhoseInv` is the
  property for the names, with both exceptions (`Called`), `RecordInv` says that the
  audit counts and places records as the file does, and one more, from there, once a
  mandate amends one (`LaterIsSuffix`: the way from the mandate is the end of the way
  from its record), and `PlaceInv` that a party keeps the
  number and the place it opened at until it ends, which is what a row is made of.
  `ContainerHeard` and `WrapperHeard` are the steps at which a message is recognised,
  `FrameHeard`, `DocumentHeard` and `DefinitionHeard` those that name one,
  `EndsMessage` and `EndsOutside` those that leave one or stay outside.
- `FilesAreNamed` and `RecordsAreCounted`: `Spec => []NamedForWhatItIs` and
  `Spec => []NumberedAsCounted`, from `TellInv`. The sniffer is the third memory of
  the file, and takes things up wherever it meets them. `FoundInv` says that the
  header, the Document and the container it has met are the file's, and that the
  audit has found a message once there is one. `SpaceInv` is about the file before
  its first message: the sniffer knows the namespace that is bound around it, and
  waits for the first child of its Document. `FirstInv` says that what it would go
  by is a family of the file, which fails for a while where a header names a family
  before its message has come (`Pending`). `CountInv` says that as long as the file
  has one message named by its container (`Sole`), no record stands in it under
  another name than its family's and the sniffer's count of that name is the file's;
  that the audit's number is, too, `RecordInv` has. `WholeIsNamed` reads the name of
  a file that was read to its end off `FirstInv`.

The text of a file is a `FlattenSeq`, and the decoder and the arguments of a call are
`FoldLeft`s, so these proofs need induction over sequences. `FoldLemmas` has it
without an operator as a parameter: `UpTo` is induction along a set of numbers (from
`Least`, the well-foundedness of the naturals), `FoldExists` says that the recursive
function behind a fold exists and `FoldRuns` that a fold goes through its sequence
from the left, `FlattenSteps` and `FlattenLast` go through a `FlattenSeq` one sequence
at a time, and `FlattenPlaces` says where its elements come from. `PickedInOrder` and
`OnceFolded` are about the two folds of `Opening`: one that picks, and one that
drops what is there already; `GreatestFolded` is about the fold that keeps the longest
line.

Only model-checked: liveness (out of the prover's reach), and everything about the
rows and columns of the MT readers and the rows of an entry. What
`EntryRows` says goes through recursive operators, which the prover
does not take. `RefusedForItsForm` speaks of contents as their writers make them: of
any bytes whatever it does not hold, since a form is not a function of them.
`MessagesAgree`, `InboxIsRead` and `CaseIsNoOtherGroups` do not hold: see the
findings.

## What is not modelled

The names by which the earliest editions spelled a camt message (`camt.rs` 77-83:
the element that is the identifier) are left out of `StatementRecordStream`. Gzip
(`flate2`) sits under `at` in `DecodedInput` and is taken to deliver its
bytes. Which label or byte order mark names which encoding is left out. Columns
that copy one element of a record, column writing, DuckDB itself, the catalog,
the WebAssembly entry point, tests, generators and scripts are not modelled. Of
the MT formats the parties' lines and the slicing of blocks 1 to 5 are left out:
`MtStatement` and `MtPayments` start from a block 4. An MT file that is cut off
is not told from one that ends (no format says how long it is), so no property
speaks of it. Timestamps (`ts_micros`) and the dashed form of a date are left out.
A leaf whose text arrives in several pieces keeps, in the readers, its last piece
(`wire.rs` 78); only the address lines of the audit are modelled with pieces.
In a DOCTYPE the internal subset of `FileShape` holds no quoted brackets.

## Plan

1. Proofs: of `MtPayments` that a column keeps to its sequence.
2. A leaf whose text arrives in several pieces (a comment or a CDATA section in
   it), in every XML reader.
3. `MtBlocks`: `block_span` and what is sliced out of a party field.
4. The table of encoding labels and byte order marks; timestamps.
