------------------------------ MODULE Decimal -------------------------------
(***************************************************************************)
(* An amount on the wire as an integer scaled by 10^Scale                  *)
(* (src/decimal.rs), the representation of the column, or a refusal: an    *)
(* amount is exact or it is an error.                                      *)
(*                                                                         *)
(* A text is [negative, int, frac]: the characters before and after the    *)
(* first point, a digit as itself and any other character as -1.  Blank is *)
(* a text of white space.  The code multiplies with overflow checks in 128 *)
(* bits; what overflows there is larger than MaxScaled, so that the one    *)
(* comparison below has the outcome of them all.                           *)
(***************************************************************************)
EXTENDS Integers, Sequences, SequencesExt

CONSTANTS
  Null,   \* Rust's None, SQL's NULL
  Scale,  \* SCALE
  Width,  \* WIDTH
  Refused \* Err

ASSUME DecimalAssumption ==
  Scale \in Nat /\ Width \in Nat \ {0} /\ Scale < Width

Blank == [negative |-> FALSE, int |-> <<>>, frac |-> <<>>]

MaxScaled == 10 ^ Width - 1

IsDigit(c) == c \in 0 .. 9

Value(digits) == FoldLeft(LAMBDA v, d : v * 10 + d, 0, digits)

\* Trailing zeros carry no value.
Significant(frac) ==
  LET kept == {n \in 1 .. Len(frac) : frac[n] # 0}
  IN  IF kept = {} THEN <<>> ELSE SubSeq(frac, 1, CHOOSE n \in kept :
                                                    \A m \in kept : m <= n)

\* Mutant: the fraction is not aligned to the scale.
ScaledUnaligned(text) ==
  LET frac == Significant(text.frac)
      value == Value(text.int \o frac)
  IN  IF \/ text.int \o text.frac = <<>> \/ Len(frac) > Scale
         \/ \E n \in 1 .. Len(text.int \o frac) : ~IsDigit((text.int \o frac)[n])
         \/ value > MaxScaled
      THEN Refused ELSE IF text.negative THEN -value ELSE value

Scaled(text) ==
  LET frac   == Significant(text.frac)
      digits == text.int \o frac
      value  == Value(digits) * 10 ^ (Scale - Len(frac))
  IN  CASE text.int \o text.frac = <<>> -> Refused
        [] Len(frac) > Scale -> Refused
        [] \E n \in 1 .. Len(digits) : ~IsDigit(digits[n]) -> Refused
        [] value > MaxScaled -> Refused
        [] OTHER -> IF text.negative THEN -value ELSE value
=============================================================================
