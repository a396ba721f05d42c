----------------------------- MODULE EntryRows ------------------------------
(***************************************************************************)
(* What becomes of a record: the six readers of a camt file, read_iso20022 *)
(* and read_camt_statements, _balances, _transactions, _amount_details and *)
(* _remittance (src/camt_*.rs and the cursors of src/model.rs), and the    *)
(* `:61:` lines of read_mt940 and read_mt942.  A scan holds one record and *)
(* a cursor into it, and hands out a row at a time; a step is one turn of  *)
(* a cursor's loop.                                                        *)
(*                                                                         *)
(* The records of a file are those the walks of CamtWalks and MtStatement  *)
(* hand out, and on a file that is not sound the walk fails after them.    *)
(***************************************************************************)
EXTENDS EntryDetail, StatementLine

CONSTANT Files(_) \* the files a reader may be given: [records, sound]

\* The readers with one row for each record.
WholeReaders == {"entries", "statements", "balances", "lines"}

Readers == WholeReaders \union {"transactions", "amounts", "remittance"}

VARIABLES
  reader, file,
  taken,  \* records taken from the walk
  open,   \* the entry the cursor is in, or Null
  given,  \* the rows handed out
  result  \* "reading", "ended" or "failed"

vars == <<reader, file, taken, open, given, result>>

Init ==
  /\ reader \in Readers
  /\ file \in Files(reader)
  /\ taken = 0 /\ open = Null /\ given = <<>> /\ result = "reading"

-----------------------------------------------------------------------------
Record == file.records[taken]

\* A row is handed out, or the scan fails on an amount in it.
Hands(row) ==
  IF Refused \in Range(row.money)
  THEN result' = "failed" /\ UNCHANGED given
  ELSE given' = Append(given, row) /\ UNCHANGED result

HandsNothing == UNCHANGED <<given, result>>

Cursor ==
  [details |-> 1,     \* TxCursor: the next transaction
   tx      |-> 1,
   own     |-> reader = "amounts", \* in the entry's own amounts
   at      |-> Null,  \* the transaction the cursor is in
   block   |-> 1,     \* the next amount block
   slot    |-> FirstSlot,
   emitted |-> 0]     \* leaves of this transaction so far

\* row_from_entry of an MT reader: a line that cannot be sliced is an error.
LineRow(rec) ==
  LET line == StatementLine(rec.body.text)
  IN  [statement |-> rec.statement, entry |-> rec.index, line |-> line,
       money |-> <<IF line = Refused THEN Refused ELSE line.amount>>]

\* The row of a whole record.
WholeRow(rec) ==
  CASE reader = "entries"    -> EntryRow(rec)
    [] reader = "statements" -> StatementRow(rec)
    [] reader = "balances"   -> BalanceRow(rec)
    [] reader = "lines"      -> LineRow(rec)

ReadsRecord ==
  /\ reader \in WholeReaders
  /\ taken < Len(file.records)
  /\ taken' = taken + 1
  /\ Hands(WholeRow(file.records[taken']))
  /\ UNCHANGED open

OpensEntry ==
  /\ reader \notin WholeReaders
  /\ open = Null /\ taken < Len(file.records)
  /\ taken' = taken + 1 /\ open' = Cursor
  /\ HandsNothing

WalkEnds ==
  /\ open = Null /\ taken = Len(file.records)
  /\ result' = IF file.sound THEN "ended" ELSE "failed"
  /\ UNCHANGED <<taken, open, given>>

-----------------------------------------------------------------------------
(* AmountCursor: the entry's own blocks, then each transaction's.          *)

OwnBlock == Block(Record.body.amounts, open.block)

GivesOwnBlock ==
  /\ open.own /\ OwnBlock # Null
  /\ open' = [open EXCEPT !.block = @ + 1]
  /\ Hands(AmountRow(Record, Null, Null, open.block, OwnBlock))

OwnBlocksEnd ==
  /\ open.own /\ OwnBlock = Null
  /\ open' = [open EXCEPT !.own = FALSE, !.block = 1]
  /\ HandsNothing

Tx == Record.body.details[open.at[1]].txs[open.at[2]]

TxBlock ==
  IF reader # "amounts" \/ open.at = Null THEN Null
  ELSE Block(Tx.amounts, open.block)

GivesTxBlock ==
  /\ ~open.own /\ TxBlock # Null
  /\ open' = [open EXCEPT !.block = @ + 1]
  /\ Hands(AmountRow(Record, open.at[1], open.at[2], open.block, TxBlock))

-----------------------------------------------------------------------------
(* RemittanceCursor: one look of the slot, which finds a leaf or none.     *)

Look ==
  IF reader # "remittance" \/ open.at = Null THEN Null
  ELSE LeafStep(Tx.rmt, open.slot)

LooksAtSlot ==
  /\ Look # Null
  /\ LET found == Look.leaf # Null
     IN  /\ open' = [open EXCEPT !.slot = Look.slot,
                                 !.emitted = IF found THEN @ + 1 ELSE @]
         /\ IF found
            THEN Hands(RemittanceRow(Record, open.at[1], open.at[2],
                                     open'.emitted, Look.leaf))
            ELSE HandsNothing

-----------------------------------------------------------------------------
(* TxCursor.  The transaction it is in has no more to give.                *)

Spent == ~open.own /\ TxBlock = Null /\ Look = Null

Details == Record.body.details

HasTx ==
  open.details <= Len(Details) /\ open.tx <= Len(Details[open.details].txs)

\* Mutant: the blocks of a transaction go on from where the last one's ended.
EntersTxKeeping ==
  open' = [open EXCEPT !.tx = @ + 1, !.at = <<open.details, open.tx>>,
                       !.slot = FirstSlot, !.emitted = 0]

\* A transaction is taken and whatever is in it starts over.
EntersTx ==
  open' = [open EXCEPT !.tx = @ + 1, !.at = <<open.details, open.tx>>,
                       !.block = 1, !.slot = FirstSlot, !.emitted = 0]

TakesTx ==
  /\ Spent /\ HasTx
  /\ EntersTx
  /\ IF reader = "transactions"
     THEN Hands(TransactionRow(Record, open.details, open.tx))
     ELSE HandsNothing

PassesDetails ==
  /\ Spent /\ ~HasTx /\ open.details <= Len(Details)
  /\ open' = [open EXCEPT !.details = @ + 1, !.tx = 1]
  /\ HandsNothing

EntryEnds ==
  /\ Spent /\ open.details > Len(Details)
  /\ open' = Null /\ HandsNothing

WalksEntry ==
  /\ open # Null
  /\ \/ GivesOwnBlock \/ OwnBlocksEnd \/ GivesTxBlock \/ LooksAtSlot
     \/ TakesTx \/ PassesDetails \/ EntryEnds
  /\ UNCHANGED taken

Over == result # "reading" /\ UNCHANGED <<taken, open, given, result>>

Next ==
  /\ \/ result = "reading" /\ (ReadsRecord \/ OpensEntry \/ WalkEnds \/ WalksEntry)
     \/ Over
  /\ UNCHANGED <<reader, file>>

Spec == Init /\ [][Next]_vars

-----------------------------------------------------------------------------
(* What each reader promises of a file, from the file alone: the places a  *)
(* row is due at, in the order of the file, and the amounts it states.     *)

TxPlaces(entry) ==
  FlattenSeq([d \in 1 .. Len(entry.details) |->
    [t \in 1 .. Len(entry.details[d].txs) |-> <<d, t>>]])

TxAt(entry, place) == entry.details[place[1]].txs[place[2]]

Stating(amounts) ==
  IF amounts = Null THEN <<>>
  ELSE SelectSeq([n \in 1 .. Len(FixedKinds) |-> amounts.fixed[FixedKinds[n]]],
                 LAMBDA amt : amt # Null) \o amounts.proprietary

\* The remittance of a transaction, with the number of its Strd.
Remittances(rmt) ==
  LET texts(s) == rmt.strd[s].documents \o <<rmt.strd[s].reference>>
                    \o rmt.strd[s].addtl
  IN  IF rmt = Null THEN <<>>
      ELSE SelectSeq(
             [n \in 1 .. Len(rmt.ustrd) |-> <<Null, rmt.ustrd[n]>>]
               \o FlattenSeq([s \in 1 .. Len(rmt.strd) |->
                    [n \in 1 .. Len(texts(s)) |-> <<s, texts(s)[n]>>]]),
             LAMBDA leaf : ~IsBlank(leaf[2]))

Due(place, amts) == [place |-> place, amts |-> amts]

DueOfTx(entry, place) ==
  LET tx == TxAt(entry, place)
      amounts == Stating(tx.amounts)
      leaves == Remittances(tx.rmt)
  IN  CASE reader = "transactions" ->
             <<Due(place, <<entry.amt, tx.amt, entry.details[place[1]].batch>>
                            \o Stated(tx.charges))>>
        [] reader = "amounts" ->
             [n \in 1 .. Len(amounts) |-> Due(place \o <<n>>, <<amounts[n]>>)]
        [] reader = "remittance" ->
             [n \in 1 .. Len(leaves) |-> Due(place \o <<n, leaves[n]>>, <<>>)]

DueOfEntry(entry) ==
  LET own == IF reader = "amounts" THEN Stating(entry.amounts) ELSE <<>>
      places == TxPlaces(entry)
  IN  [n \in 1 .. Len(own) |-> Due(<<Null, Null, n>>, <<own[n]>>)]
        \o FlattenSeq([n \in 1 .. Len(places) |-> DueOfTx(entry, places[n])])

\* The amount of a written line, or none where it lacks a part.
WireAmount(written) ==
  LET commas == {n \in DOMAIN written.amount : written.amount[n] = Comma}
      at == IF commas = {} THEN Len(written.amount) + 1
            ELSE CHOOSE n \in commas : \A m \in commas : n <= m
      whole == /\ written.value # Null
               /\ written.mark \notin {<<>>, <<LetterR>>, <<LetterE>>}
               /\ Foreign \notin Range(written.mark \o written.code)
  IN  [negative |-> FALSE,
       int  |-> IF whole THEN SubSeq(written.amount, 1, at - 1) ELSE <<>>,
       frac |-> IF whole THEN SubSeq(written.amount, at + 1, Len(written.amount))
                ELSE <<>>]

DueOfRecord(rec) ==
  CASE reader = "statements" ->
         <<Due(<<>>, <<rec.body.sequence, rec.body.entries, rec.body.sum>>)>>
    [] reader \in {"entries", "balances"} -> <<Due(<<>>, <<rec.body.amt>>)>>
    [] reader = "lines" -> <<Due(<<>>, <<WireAmount(rec.body.written)>>)>>
    [] OTHER -> DueOfEntry(rec.body)

DueRows ==
  FlattenSeq([r \in 1 .. Len(file.records) |->
    LET due == DueOfRecord(file.records[r])
    IN  [n \in 1 .. Len(due) |->
           [due[n] EXCEPT !.place = <<r>> \o @]]])

\* Where a row says it comes from.
PlaceOf(row) ==
  LET at(r) == row.statement = file.records[r].statement /\
               ("entry" \in DOMAIN row => row.entry = file.records[r].index)
      record == CHOOSE r \in 1 .. Len(file.records) : at(r)
  IN  <<record>> \o
      CASE reader = "transactions" -> <<row.details, row.tx>>
        [] reader = "amounts"    -> <<row.details, row.tx, row.index>>
        [] reader = "remittance" ->
             <<row.details, row.tx, row.index,
               <<row.leaf.ordinal, row.leaf.text>>>>
        [] OTHER -> <<>>

\* Every transaction, amount and remittance of the file is a row of its
\* reader, once, in the order of the file and numbered within what it is in:
\* blocks, transactions and leaves that carry nothing cost no row, and none
\* is lost at the edge of a block, a transaction or an entry.
RowsAreTheContents ==
  LET due == DueRows
  IN  /\ Len(given) <= Len(due)
      /\ \A n \in DOMAIN given : PlaceOf(given[n]) = due[n].place
      /\ result = "ended" => Len(given) = Len(due)

\* The amount is n/10^Scale of a currency unit, exactly.
Denotes(amt, n) ==
  LET digits == amt.int \o amt.frac
      magnitude == IF n < 0 THEN -n ELSE n
  IN  /\ digits # <<>> /\ \A c \in Range(digits) : IsDigit(c)
      /\ magnitude * 10 ^ Len(amt.frac) = Value(digits) * 10 ^ Scale
      /\ n # 0 => (n < 0 <=> amt.negative)

\* There is such an n that the column holds.
Legible(amt) ==
  amt # Null =>
    LET digits == amt.int \o amt.frac
    IN  /\ digits # <<>> /\ \A c \in Range(digits) : IsDigit(c)
        /\ (Value(digits) * 10 ^ Scale) % 10 ^ Len(amt.frac) = 0
        /\ (Value(digits) * 10 ^ Scale) \div 10 ^ Len(amt.frac) < 10 ^ Width

\* A count of a statement header is a whole number, the rest are amounts.
Readable(due) ==
  IF reader = "statements"
  THEN (\A n \in 1 .. 2 : Whole(due.amts[n]) # Refused) /\ Legible(due.amts[3])
  ELSE \A n \in DOMAIN due.amts : Legible(due.amts[n])

\* An amount that reaches a row is the one on the wire, to the last digit, or
\* Null where there is none; the scan fails on the first row with an amount it
\* cannot hold exactly, on no other, and on a file that is not sound.
AmountsAreExact ==
  LET due == DueRows
  IN  /\ reader # "statements" =>
           \A n \in DOMAIN given : \A m \in DOMAIN due[n].amts :
             LET amt == due[n].amts[m]
             IN  IF amt = Null THEN given[n].money[m] = Null
                 ELSE Denotes(amt, given[n].money[m])
      /\ result = "failed" =>
           IF Len(given) < Len(due) THEN ~Readable(due[Len(given) + 1])
           ELSE ~file.sound

\* The counts in the row of an entry are those of the rows the readers below
\* it give, and its remittance is what the one row says.
CountsAreRows ==
  result = "ended" /\ reader \in {"transactions", "remittance"} =>
    \A r \in DOMAIN file.records :
      LET entry == EntryRow(file.records[r])
          rows  == SelectSeq(given, LAMBDA row : PlaceOf(row)[1] = r)
      IN  IF reader = "transactions"
          THEN /\ entry.transactions = Len(rows)
               /\ entry.leaves = FoldLeft(LAMBDA n, row : n + row.leaves, 0, rows)
          ELSE /\ entry.leaves = Len(rows)
               /\ entry.remittance # Null =>
                    Len(rows) = 1 /\ entry.remittance = rows[1].leaf.text

\* What an entry says of a counterparty and a reference is said by its only
\* transaction; the name and the account are of one side, and that is the far
\* side of the flow unless the message says nothing of it.
ConvenienceIsNoGuess ==
  reader = "entries" =>
    \A n \in DOMAIN given :
      LET row    == given[n]
          entry  == file.records[n].body
          sole   == TxAt(entry, TxPlaces(entry)[1])
          dir    == IF sole.dir # Null THEN sole.dir ELSE entry.dir
          far    == IF dir = "CRDT" THEN "debtor" ELSE "creditor"
          names(s)    == {sole.parties[s].name, sole.parties[s].ultimate}
          accounts(s) == IF sole.parties[s].account = Null THEN {Null}
                         ELSE {sole.parties[s].account.iban,
                               sole.parties[s].account.other}
          silent(s)   == names(s) \union accounts(s) = {Null}
      IN  /\ {row.e2e, row.name, row.account, row.remittance} # {Null} =>
               Len(TxPlaces(entry)) = 1
          /\ {row.name, row.account} # {Null} =>
               \E s \in {"debtor", "creditor"} :
                 /\ row.name = Null \/ row.name \in names(s)
                 /\ row.account = Null \/ row.account \in accounts(s)
                 /\ s = far \/ silent(far)

\* The calendar, by counting: days since the first of 1970.
Dated(y, m, d) ==
  LET leaps(from, to) == Cardinality({n \in from .. to : IsLeap(n)})
  IN  IF ~Valid(y, m, d) THEN Null
      ELSE 365 * (y - 1970) + leaps(1970, y - 1) - leaps(y, 1969)
           + FoldLeft(LAMBDA sum, n : sum + LengthOf(y, n), 0,
                      [n \in 1 .. m - 1 |-> n]) + d - 1

\* The subfields of a line are cut where they were joined, though nothing is
\* written between them.  The day of the entry is the written one; where the
\* calendar has that day within five weeks of the value date, across the end
\* of a year too, it is that one, and an impossible date is Null.
LinesAreSliced ==
  reader = "lines" =>
    \A n \in DOMAIN given :
      LET line == given[n].line
          wr   == file.records[n].body.written
          days == Dated(wr.value.y, wr.value.m, wr.value.d)
          years == {y \in wr.value.y - 1 .. wr.value.y + 1 :
                      Dated(y, wr.entry.m, wr.entry.d) # Null}
          those == {Dated(y, wr.entry.m, wr.entry.d) : y \in years}
          near  == {e \in those : e - days \in -35 .. 35}
      IN  /\ \A part \in {"mark", "funds", "code", "customer", "bank"} :
               line[part] = wr[part]
          /\ line.value = days
          /\ IF wr.entry = Null \/ days = Null THEN line.entry = Null
             ELSE IF those = {} THEN line.entry = Null
             ELSE line.entry \in IF near = {} THEN those ELSE near
=============================================================================
