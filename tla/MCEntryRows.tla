---------------------------- MODULE MCEntryRows -----------------------------
(***************************************************************************)
(* Small files for EntryRows.  Each reader is given the files that differ  *)
(* in what it reads, the rest of them plain.                               *)
(***************************************************************************)
EXTENDS EntryRows

Number(negative, int, frac) ==
  [negative |-> negative, int |-> int, frac |-> frac]

One   == Number(FALSE, <<1>>, <<>>)
Wrong == Number(FALSE, <<1, -1>>, <<>>)

\* Around the scale (2), the width (4), the sign and the blanks.
Numbers ==
  [negative : BOOLEAN, int : {<<>>, <<0>>, <<0, 7>>, <<9, 9>>, <<1, 0, 0>>},
   frac : {<<>>, <<0>>, <<5>>, <<9, 9>>, <<9, 9, 0>>, <<0, 0, 1>>}]
  \union {Wrong, Number(TRUE, <<1>>, <<5, -1>>)}

SeqsUpTo(S, n) == UNION {[1 .. k -> S] : k \in 0 .. n}

Amounts(stated, proprietary) ==
  [fixed |-> [k \in Range(FixedKinds) |-> IF k \in stated THEN One ELSE Null],
   proprietary |-> proprietary]

SomeAmounts ==
  {Null, Amounts({}, <<>>), Amounts({"TRANSACTION"}, <<>>),
   Amounts({"INSTRUCTED", "ANNOUNCED_POSTING"}, <<One, One>>),
   Amounts({"COUNTER_VALUE"}, <<Wrong>>)}

Strds ==
  [documents : {<<>>, <<Null, "d">>, <<"d", "e">>}, reference : {Null, "r"},
   addtl : {<<>>, <<"x", "">>}]

Remittance(ustrd, strd) == [ustrd |-> ustrd, strd |-> strd]

SomeRemittances ==
  {Null, Remittance(<<>>, <<>>), Remittance(<<"a", "">>, <<>>),
   Remittance(<<"", "b">>, <<[documents |-> <<>>, reference |-> "r",
                              addtl |-> <<>>]>>)}

AllRemittances ==
  [ustrd : {<<>>, <<"a">>, <<"", "b">>}, strd : SeqsUpTo(Strds, 2)]

PlainTx ==
  [amt |-> Null, dir |-> Null, e2e |-> Null, parties |-> Null,
   amounts |-> Null, rmt |-> Null, charges |-> <<>>]

PlainEntry == [amt |-> One, dir |-> "DBIT", amounts |-> Null, details |-> <<>>]

\* At most two blocks of at most two of these transactions.
Detailed(txs, batches) ==
  SeqsUpTo([batch : batches, txs : SeqsUpTo(txs, 2)], 2)

Within(details) == {[PlainEntry EXCEPT !.details = d] : d \in details}

Sole(tx) == <<[batch |-> Null, txs |-> <<tx>>]>>

\* Each side of them has names and accounts of its own.
SideOf(side) ==
  LET own(x) == IF x = Null THEN Null ELSE <<side, x>>
  IN  {[name |-> own(n), ultimate |-> own(u),
        account |-> IF i = Null /\ o = Null THEN Null
                    ELSE [iban |-> own(i), other |-> own(o)]] :
         n \in {Null, "name"}, u \in {Null, "ultimate"}, i \in {Null, "iban"},
         o \in {Null, "other"}}

Parties == [debtor : SideOf("debtor"), creditor : SideOf("creditor")]

Directions == {Null, "CRDT", "DBIT"}

EntryBodies ==
  {[PlainEntry EXCEPT !.dir = d, !.details = Sole(
      [PlainTx EXCEPT !.dir = t, !.parties = p, !.e2e = "e2e"])] :
     d \in Directions, t \in Directions, p \in {Null} \union Parties}
  \union Within(Detailed({[PlainTx EXCEPT !.rmt = r, !.e2e = "e2e"] :
                            r \in SomeRemittances}, {Null}))

TransactionBodies ==
  Within(Detailed({PlainTx, [PlainTx EXCEPT !.amt = One],
                   [PlainTx EXCEPT !.rmt = Remittance(<<"a", "b">>, <<>>)],
                   [PlainTx EXCEPT !.charges = <<Null, One>>],
                   [PlainTx EXCEPT !.charges = <<One, Wrong>>]},
                  {Null, One, Wrong}))

AmountBodies ==
  {[PlainEntry EXCEPT !.amounts = a, !.details = d] :
     a \in SomeAmounts,
     d \in Detailed({[PlainTx EXCEPT !.amounts = a] : a \in SomeAmounts}, {Null})}

RemittanceBodies ==
  Within({Sole([PlainTx EXCEPT !.rmt = r]) : r \in AllRemittances}
         \union Detailed({[PlainTx EXCEPT !.rmt = r] : r \in SomeRemittances},
                         {Null}))

BalanceBodies ==
  [tp : {Null} \union [cd : {Null, "", "OPBD"}, prtry : {Null, "", "own"}],
   amt : {Null} \union Numbers]

Texts == {Null, One, Wrong, Blank, Number(FALSE, <<1>>, <<5>>)}

StatementBodies == [sequence : Texts, entries : Texts, sum : Texts]

\* A `:61:` as its parts, and as the characters in a row.
TwoDigits(n) == <<(n % 100) \div 10, n % 10>>

Written(w) ==
  (IF w.value = Null THEN <<>>
   ELSE TwoDigits(w.value.y) \o TwoDigits(w.value.m) \o TwoDigits(w.value.d))
  \o (IF w.entry = Null THEN [n \in 1 .. w.pad |-> Space]
      ELSE TwoDigits(w.entry.m) \o TwoDigits(w.entry.d))
  \o w.mark \o (IF w.funds = Null THEN <<>> ELSE <<w.funds>>)
  \o w.amount \o w.code
  \o (IF w.customer = Null THEN <<>> ELSE w.customer)
  \o (IF w.bank = Null THEN <<>> ELSE <<Slash, Slash>> \o w.bank)

Line(w) == [written |-> w, text |-> Written(w)]

PlainLine ==
  [value |-> [y |-> 2024, m |-> 1, d |-> 2], entry |-> Null, pad |-> 0,
   mark |-> <<LetterD>>, funds |-> Null, amount |-> <<1, Comma>>,
   code |-> <<LetterN, LetterN, LetterR, LetterC>>, customer |-> <<LetterC>>,
   bank |-> Null]

\* Around the ends of a year, of February and of the century's window.
DatedLines ==
  {[PlainLine EXCEPT !.value = [y |-> y, m |-> v[1], d |-> v[2]],
                     !.entry = [m |-> m, d |-> d]] :
     y \in {1969, 1999, 2000, 2023, 2024, 2068},
     v \in {<<1, 1>>, <<1, 31>>, <<2, 28>>, <<2, 29>>, <<3, 1>>, <<7, 1>>,
           <<12, 5>>, <<12, 31>>, <<13, 1>>},
     m \in 0 .. 13, d \in {1, 2, 28, 29, 31}}

AmountTexts ==
  {<<>>, <<Comma>>, <<9, Comma>>, <<Comma, 5>>, <<9, 9, Comma, 9, 9>>, <<7>>,
   <<1, 0, 0, Comma, 0>>, <<1, Comma, 5, Comma>>, <<1, Point, 5>>,
   <<1, Comma, 0, 0, 1>>, <<1, Comma, 5, 0, 0>>}

SlicedLines ==
  {[PlainLine EXCEPT !.entry = e, !.pad = pad, !.mark = mark, !.funds = f,
                     !.amount = amt, !.customer = c, !.bank = b] :
     e \in {Null, [m |-> 12, d |-> 31]}, pad \in {0, 4},
     mark \in {<<>>, <<LetterC>>, <<LetterR>>, <<LetterR, LetterD>>,
              <<LetterE, LetterC>>, <<Foreign>>},
     f \in {Null, LetterR}, amt \in AmountTexts,
     c \in {<<LetterC>>, <<LetterN, Slash, LetterR>>, <<Foreign>>},
     b \in {Null, <<LetterD>>, <<LetterD, Slash, Slash, LetterC>>}}

LineBodies ==
  {Line(w) : w \in {w \in DatedLines \union SlicedLines :
                     /\ w.mark = <<LetterR>> => w.funds = Null
                     /\ w.mark = <<>> => w.funds = Null /\ Point \notin Range(w.amount)}}
  \union {Line([PlainLine EXCEPT !.value = Null]),
          Line([PlainLine EXCEPT !.code = <<LetterN, LetterN, Foreign, 1>>])}

Bodies(r) ==
  CASE r = "entries"      -> EntryBodies
    [] r = "transactions" -> TransactionBodies
    [] r = "amounts"      -> AmountBodies
    [] r = "remittance"   -> RemittanceBodies
    [] r = "balances"     -> BalanceBodies
    [] r = "statements"   -> StatementBodies
    [] r = "lines"        -> LineBodies

PlainBody(r) ==
  CASE r = "balances"   -> [tp |-> Null, amt |-> One]
    [] r = "statements" -> [sequence |-> Null, entries |-> Null, sum |-> Null]
    [] r = "lines"      -> Line(PlainLine)
    [] OTHER -> [PlainEntry EXCEPT !.details = Sole(PlainTx)]

At(statement, body) == [statement |-> statement, index |-> 1, body |-> body]

\* The record of interest, and a plain one of the next statement.
SmallFiles(r) ==
  [records : {<<>>} \union {<<At(1, b), At(2, PlainBody(r))>> : b \in Bodies(r)},
   sound : {TRUE}]
  \union {[records |-> <<At(1, PlainBody(r))>>, sound |-> FALSE]}
=============================================================================
