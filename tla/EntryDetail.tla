---------------------------- MODULE EntryDetail -----------------------------
(***************************************************************************)
(* What is inside one entry of a statement, and what each camt reader      *)
(* makes of it (src/model.rs and the row constructors of                   *)
(* src/camt_*.rs).  A row carries, beside its columns, the amounts it read *)
(* in money: one that is Refused fails the scan.                           *)
(*                                                                         *)
(* An entry is [amt, dir, amounts, details]; details is a sequence of      *)
(* [batch, txs], and a transaction [amt, dir, e2e, parties, amounts, rmt,  *)
(* charges].  An element the file does not state is Null.                  *)
(***************************************************************************)
EXTENDS Decimal

\* money: absent is Null, present is exact or Refused, also when blank.
Money(amt) == IF amt = Null THEN Null ELSE Scaled(amt)

IsBlank(text) == text \in {Null, ""}

-----------------------------------------------------------------------------
(* AmtDtls: up to four fixed slots, then any number of proprietary ones.   *)

FixedKinds == <<"INSTRUCTED", "TRANSACTION", "COUNTER_VALUE",
                "ANNOUNCED_POSTING">>

\* block: the one numbered at (from 1) of those the file states, or Null.  An
\* absent slot takes no number.
Block(amounts, at) ==
  LET present == SelectSeq(FixedKinds, LAMBDA k : amounts.fixed[k] # Null)
  IN  CASE amounts = Null -> Null
        [] amounts # Null /\ at <= Len(present) ->
             [kind |-> present[at], amt |-> amounts.fixed[present[at]]]
        [] OTHER ->
             IF at - Len(present) <= Len(amounts.proprietary)
             THEN [kind |-> "PROPRIETARY",
                   amt  |-> amounts.proprietary[at - Len(present)]]
             ELSE Null

-----------------------------------------------------------------------------
(* RmtInf, walked by a LeafSlot.                                           *)

Unstructured(at) == [in |-> "Ustrd", at |-> at]

\* In Strd number at: its documents, its reference, its additional texts.
Structured(at, documents, reference, addtl) ==
  [in |-> "Strd", at |-> at, documents |-> documents, reference |-> reference,
   addtl |-> addtl]

FirstSlot == Unstructured(1)

\* A blank leaf is an element on the wire and no remittance.
Leaf(slot, ordinal, text) ==
  IF IsBlank(text) THEN Null
  ELSE [slot |-> slot, ordinal |-> ordinal, text |-> text]

Step(slot, leaf) == [slot |-> slot, leaf |-> leaf]

StructuredStep(strd, s) ==
  CASE s.documents <= Len(strd.documents) ->
         Step(Structured(s.at, s.documents + 1, s.reference, s.addtl),
              Leaf("REFERRED_DOCUMENT", s.at, strd.documents[s.documents]))
    [] s.documents > Len(strd.documents) /\ s.reference ->
         Step(Structured(s.at, s.documents, FALSE, 1),
              Leaf("CREDITOR_REFERENCE", s.at, strd.reference))
    [] OTHER ->
         IF s.addtl <= Len(strd.addtl)
         THEN Step(Structured(s.at, s.documents, FALSE, s.addtl + 1),
                   Leaf("ADDITIONAL", s.at, strd.addtl[s.addtl]))
         ELSE Step(Structured(s.at + 1, 1, TRUE, 1), Null)

\* next, one look: the slot after it and the leaf it found, or Null when the
\* transaction has no more.
LeafStep(rmt, s) ==
  CASE rmt = Null -> Null
    [] rmt # Null /\ s.in = "Ustrd" ->
         IF s.at <= Len(rmt.ustrd)
         THEN Step(Unstructured(s.at + 1),
                   Leaf("UNSTRUCTURED", Null, rmt.ustrd[s.at]))
         ELSE Step(Structured(1, 1, TRUE, 1), Null)
    [] OTHER -> IF s.at <= Len(rmt.strd)
                THEN StructuredStep(rmt.strd[s.at], s) ELSE Null

\* leaves: every leaf from this slot on.
RECURSIVE LeavesFrom(_, _)
LeavesFrom(rmt, s) ==
  LET step == LeafStep(rmt, s)
  IN  IF step = Null THEN <<>>
      ELSE (IF step.leaf = Null THEN <<>> ELSE <<step.leaf>>)
             \o LeavesFrom(rmt, step.slot)

Leaves(tx) == LeavesFrom(tx.rmt, FirstSlot)

-----------------------------------------------------------------------------
(* The counterparty of a transaction: [name, account].                     *)

AccountValue(acct) ==
  IF acct = Null THEN Null ELSE IF acct.iban # Null THEN acct.iban ELSE acct.other

Nobody == [name |-> Null, account |-> Null]

\* One side of the flow: the ultimate party stands in for its name.
Side(parties, side) ==
  [name    |-> IF parties[side].name # Null THEN parties[side].name
               ELSE parties[side].ultimate,
   account |-> AccountValue(parties[side].account)]

\* Mutant: the name and the account are looked for one by one.
CounterpartyFieldwise(dir, parties) ==
  LET first == IF dir = "CRDT" THEN "debtor" ELSE "creditor"
      second == IF dir = "CRDT" THEN "creditor" ELSE "debtor"
  IN  IF parties = Null THEN Nobody
      ELSE [f \in {"name", "account"} |->
              IF Side(parties, first)[f] # Null THEN Side(parties, first)[f]
              ELSE Side(parties, second)[f]]

\* The other side of the flow, or this one when that says nothing at all.
Counterparty(dir, parties) ==
  LET first == IF dir = "CRDT" THEN "debtor" ELSE "creditor"
      second == IF dir = "CRDT" THEN "creditor" ELSE "debtor"
  IN  CASE parties = Null -> Nobody
        [] parties # Null /\ Side(parties, first) # Nobody -> Side(parties, first)
        [] OTHER -> Side(parties, second)

-----------------------------------------------------------------------------
(* The rows.  A record is where in the file it stands, and its body.       *)

\* Mutant: only the transactions of the last details block are counted.
TransactionsOfLastBlock(entry) ==
  IF entry.details = <<>> THEN <<>> ELSE Last(entry.details).txs

Transactions(entry) ==
  FlattenSeq([d \in 1 .. Len(entry.details) |-> entry.details[d].txs])

RemittanceCount(entry) ==
  FoldLeft(LAMBDA n, tx : n + Len(Leaves(tx)), 0, Transactions(entry))

\* row_from_entry: what one transaction says is the entry's only when it has
\* no other, and so is its remittance when there is one leaf of it.
EntryRow(rec) ==
  LET txs   == Transactions(rec.body)
      sole  == IF Len(txs) = 1 THEN txs[1] ELSE Null
      dir   == IF sole # Null /\ sole.dir # Null THEN sole.dir ELSE rec.body.dir
      party == IF sole = Null THEN Nobody ELSE Counterparty(dir, sole.parties)
  IN  [statement |-> rec.statement, entry |-> rec.index,
       money   |-> <<Money(rec.body.amt)>>,
       transactions |-> Len(txs), leaves |-> RemittanceCount(rec.body),
       e2e     |-> IF sole = Null THEN Null ELSE sole.e2e,
       name    |-> party.name, account |-> party.account,
       remittance |-> IF sole # Null /\ Len(Leaves(sole)) = 1
                      THEN Leaves(sole)[1].text ELSE Null]

Stated(charges) == SelectSeq(charges, LAMBDA c : c # Null)

\* Every charge that is stated is parsed, a sole one is the column.
ChargesRead(tx) ==
  LET stated == Stated(tx.charges)
      all    == [n \in 1 .. Len(stated) |-> Scaled(stated[n])]
  IN  [sole |-> IF Len(all) = 1 THEN all[1] ELSE Null, all |-> all]

TransactionRow(rec, d, t) ==
  LET tx == rec.body.details[d].txs[t]
  IN  [statement |-> rec.statement, entry |-> rec.index, details |-> d, tx |-> t,
       money   |-> <<Money(rec.body.amt), Money(tx.amt),
                     Money(rec.body.details[d].batch)>> \o ChargesRead(tx).all,
       charges |-> ChargesRead(tx).sole,
       e2e     |-> tx.e2e,
       leaves  |-> Len(Leaves(tx))]

AmountRow(rec, d, t, index, block) ==
  [statement |-> rec.statement, entry |-> rec.index, details |-> d, tx |-> t,
   kind |-> block.kind, index |-> index, money |-> <<Money(block.amt)>>]

\* The one row that reads no amount.
RemittanceRow(rec, d, t, index, leaf) ==
  [statement |-> rec.statement, entry |-> rec.index, details |-> d, tx |-> t,
   index |-> index, leaf |-> leaf, money |-> <<>>]

\* A code of the published list, or the bank's own: [value, scheme].
CodeOrProprietary(c) ==
  CASE c = Null -> Null
    [] c # Null /\ ~IsBlank(c.cd) -> [value |-> c.cd, scheme |-> "CODE"]
    [] OTHER -> IF IsBlank(c.prtry) THEN Null
                ELSE [value |-> c.prtry, scheme |-> "PROPRIETARY"]

BalanceRow(rec) ==
  [statement |-> rec.statement, entry |-> rec.index,
   kind |-> CodeOrProprietary(rec.body.tp), money |-> <<Money(rec.body.amt)>>]

\* whole: a count the wire states must be a whole number.
Whole(text) ==
  CASE text = Null -> Null
    [] text # Null /\ text.int # <<>> /\ text.frac = <<>>
         /\ \A n \in 1 .. Len(text.int) : IsDigit(text.int[n]) ->
         IF text.negative THEN -Value(text.int) ELSE Value(text.int)
    [] OTHER -> Refused

StatementRow(rec) ==
  [statement |-> rec.statement,
   money |-> <<Whole(rec.body.sequence), Whole(rec.body.entries),
               Money(rec.body.sum)>>]
=============================================================================
