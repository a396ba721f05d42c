--------------------------- MODULE StatementLine ----------------------------
(***************************************************************************)
(* The `:61:` line of an MT940 or MT942 (src/mt.rs, statement_line), whose *)
(* subfields have no separators, with its dates (date2, entry_date and     *)
(* src/temporal.rs) and its amount.  A line is a sequence of characters: a *)
(* digit as itself, any other as one of the numbers below.                 *)
(***************************************************************************)
EXTENDS Decimal

Comma == 10
Point == 11
Space == 12
Slash == 13
LetterC == 20
LetterD == 21
LetterR == 22
LetterE == 23
LetterN == 24
Foreign == 30 \* a character that is not ASCII

Numeric == 0 .. 10

\* How many characters from position i on are in S.
Run(text, i, S) ==
  LET ends == {n \in i .. Len(text) : text[n] \notin S}
  IN  IF ends = {} THEN Len(text) + 1 - i
      ELSE (CHOOSE n \in ends : \A m \in ends : n <= m) - i

AllDigits(text) == \A n \in DOMAIN text : IsDigit(text[n])

-----------------------------------------------------------------------------
(* Dates.                                                                  *)

YearPivot == 69

IsLeap(y) == y % 4 = 0 /\ (y % 100 # 0 \/ y % 400 = 0)

LengthOf(y, m) ==
  IF m = 2 /\ IsLeap(y) THEN 29
  ELSE <<31, 28, 31, 30, 31, 30, 31, 31, 30, 31, 30, 31>>[m]

Valid(y, m, d) == m \in 1 .. 12 /\ d \in 1 .. LengthOf(y, m)

\* days_from_civil: the year begins in March, the era is 400 of them.
DaysFromCivil(y, m, d) ==
  LET year == IF m <= 2 THEN y - 1 ELSE y
      era  == year \div 400
      yoe  == year - era * 400
      doy  == (153 * ((m + 9) % 12) + 2) \div 5 + d - 1
      doe  == yoe * 365 + yoe \div 4 - yoe \div 100 + doy
  IN  era * 146097 + doe - 719468

\* date_days: an impossible date is Null, never another date.
DateDays(y, m, d) == IF Valid(y, m, d) THEN DaysFromCivil(y, m, d) ELSE Null

\* date2_full: YYMMDD as [days, year].
Date2(text) ==
  LET yy   == text[1] * 10 + text[2]
      year == IF yy < YearPivot THEN 2000 + yy ELSE 1900 + yy
      days == DateDays(year, text[3] * 10 + text[4], text[5] * 10 + text[6])
  IN  IF ~AllDigits(text) \/ days = Null THEN Null
      ELSE [days |-> days, year |-> year]

\* Mutant: the year of the value date is the year of the entry.
EntryDateSameYear(text, value) ==
  LET candidate(year) == DateDays(year, text[1] * 10 + text[2],
                                  text[3] * 10 + text[4])
  IN  IF AllDigits(text) THEN candidate(value.year) ELSE Null

\* entry_date: MMDD in the year of the value date, or else in one next to it;
\* 330 days off or more, it is of the neighbouring year.
EntryDate(text, value) ==
  LET candidate(year) == DateDays(year, text[1] * 10 + text[2],
                                  text[3] * 10 + text[4])
      tried == SelectSeq(<<value.year, value.year - 1, value.year + 1>>,
                         LAMBDA year : candidate(year) # Null)
      days  == candidate(tried[1])
      off   == days - value.days
      neighbour == candidate(IF off > 0 THEN value.year - 1 ELSE value.year + 1)
  IN  CASE ~AllDigits(text) -> Null
        [] AllDigits(text) /\ tried = <<>> -> Null
        [] OTHER -> IF off \in -329 .. 329 \/ neighbour = Null THEN days
                    ELSE neighbour

-----------------------------------------------------------------------------
(* amount: a comma before the fraction, which may be empty.                *)

MtAmount(text) ==
  LET commas == {n \in DOMAIN text : text[n] = Comma}
      at     == CHOOSE n \in commas : TRUE
  IN  CASE commas = {} -> Scaled([negative |-> FALSE, int |-> text, frac |-> <<>>])
        [] Cardinality(commas) = 1 ->
             Scaled([negative |-> FALSE, int |-> SubSeq(text, 1, at - 1),
                     frac |-> SubSeq(text, at + 1, Len(text))])
        [] OTHER -> Refused

-----------------------------------------------------------------------------
(* statement_line: the row of a line, or Refused.  Each boundary is where  *)
(* the characters change from digits and commas to others.                 *)

Skipping(text, i) == i + Run(text, i, {Space})

\* An R or an E opens a mark of two characters.
MarkLength(mark) ==
  IF mark # <<>> /\ mark[1] \in {LetterR, LetterE} THEN 2 ELSE 1

\* some_text: no text of spaces, and none around it.
SomeText(ref) ==
  LET told == {n \in DOMAIN ref : ref[n] # Space}
      end  == CHOOSE n \in told : \A m \in told : m <= n
  IN  IF told = {} THEN Null ELSE SubSeq(ref, Skipping(ref, 1), end)

\* The first double slash is between the two references.
References(text) ==
  LET at == {n \in 1 .. Len(text) - 1 : text[n] = Slash /\ text[n + 1] = Slash}
      first == CHOOSE n \in at : \A m \in at : n <= m
  IN  IF at = {} THEN [customer |-> SomeText(text), bank |-> Null]
      ELSE [customer |-> SomeText(SubSeq(text, 1, first - 1)),
            bank |-> SomeText(SubSeq(text, first + 2, Len(text)))]

\* How many characters the dates take.
DatesIn(text) ==
  LET run == Run(text, 1, Numeric) IN IF run > 10 THEN 10 ELSE run

StatementLine(text) ==
  LET dates  == DatesIn(text)
      value  == Date2(SubSeq(text, 1, 6))
      from   == Skipping(text, dates + 1)
      to     == from + Run(text, from, 11 .. 30)
      mark   == SubSeq(text, from, to - 1)
      len    == MarkLength(mark)
      end    == to + Run(text, to, Numeric)
      amount == MtAmount(SubSeq(text, to, end - 1))
      rest   == SubSeq(text, end, Len(text))
      coded  == Len(rest) >= 4
      code   == SubSeq(rest, 1, IF coded THEN 4 ELSE Len(rest))
      refs   == References(IF coded THEN SubSeq(rest, 5, Len(rest)) ELSE <<>>)
  IN  IF \/ dates < 6
         \/ Foreign \in Range(mark) \/ Len(mark) < len
         \/ end = to \/ (end <= Len(text) /\ text[end] = Point)
         \/ amount = Refused
         \/ Foreign \in Range(code)
      THEN Refused
      ELSE [value  |-> IF value = Null THEN Null ELSE value.days,
            entry  |-> IF dates < 10 \/ value = Null THEN Null
                       ELSE EntryDate(SubSeq(text, 7, 10), value),
            mark   |-> SubSeq(mark, 1, len),
            funds  |-> IF Len(mark) > len THEN mark[len + 1] ELSE Null,
            amount |-> amount,
            code   |-> IF coded THEN code ELSE Null,
            customer |-> refs.customer, bank |-> refs.bank]
=============================================================================
