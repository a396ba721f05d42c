------------------------- MODULE DecodedInputProofs -------------------------
(***************************************************************************)
(* DecodedInput implements TextContract, for every file, every declared    *)
(* encoding, every size of the prefix, of the staging buffer and of the    *)
(* caller's buffer, and however short the reads of the file are.  The      *)
(* decoder is a fold over the bytes it is given; the invariant says that   *)
(* what was handed over, with what is ready to be, is the text of the      *)
(* bytes it has taken.                                                     *)
(***************************************************************************)
EXTENDS DecodedInput, FoldLemmas

-----------------------------------------------------------------------------
(* What the first k bytes of a file f say.                                 *)

Unit  == Kinds \union {"lt1", "lt2", "lt3"}
Files == Seq(Kinds)

\* Their text.
Upto(f, k) == FlattenSeq([i \in 1 .. k |-> Units(f[i])])

\* They are characters, the last of which may still be open.
Legal(f, k) ==
  \A i \in 1 .. k :
    \/ f[i] = "s"
    \/ f[i] = "l" /\ (i < k => f[i + 1] = "t")
    \/ f[i] = "t" /\ i > 1 /\ f[i - 1] = "l"
Opens(f, k) == k > 0 /\ f[k] = "l"

\* The bytes of f from c up to m have been decoded to text.
Says(f, c, m, text) ==
  /\ text \in Seq(Unit)
  /\ Upto(f, m) = Upto(f, c) \o text

-----------------------------------------------------------------------------
(* The invariant.                                                          *)

\* How many bytes the decoder has taken.
Consumed == at - Len(raw)

Types ==
  /\ file \in Files /\ at \in 0 .. Len(file)
  /\ declares \in {"utf8", "known", "unknown"}
  /\ guard \in {"opening", "passed", "refused", "failed"}
  /\ raw \in Files /\ replay \in Seq(Unit) /\ out \in Seq(Unit)
  /\ handed \in Seq(Unit)
  /\ lead \in BOOLEAN /\ eof \in BOOLEAN /\ done \in BOOLEAN /\ failed \in BOOLEAN
  /\ want \in Nat

\* Nothing is read before the guard is done.
Opening ==
  guard = "opening" =>
    /\ at = 0 /\ want = 0 /\ ~lead /\ ~eof /\ ~done /\ ~failed
    /\ raw = <<>> /\ replay = <<>> /\ out = <<>> /\ handed = <<>>

\* What the guard let through can be decoded; what it did not is no text.
Judged ==
  /\ guard = "passed" => declares # "unknown"
  /\ guard \in {"failed", "refused"} => ~Sound(file, declares) /\ want = 0

\* A file that needs no decoder is handed over as it is.
PlainInv ==
  guard = "passed" /\ declares = "utf8" =>
    want = 0 /\ out = <<>> /\ handed \o replay = SubSeq(file, 1, at)

\* What was handed over, and what is ready to be, is the text of the bytes the
\* decoder has taken; it holds the rest of what was read.
TextInv ==
  guard = "passed" /\ declares = "known" =>
    /\ Len(raw) <= at /\ raw = SubSeq(file, Consumed + 1, at)
    /\ Legal(file, Consumed) /\ (lead <=> Opens(file, Consumed))
    /\ (handed \o replay) \o out = Upto(file, Consumed)
    /\ replay # <<>> => out = <<>>
    /\ want # 0 => replay = <<>> /\ out = <<>> /\ ~failed
    /\ eof => at = Len(file)
    /\ done => Consumed = Len(file) /\ ~lead
    /\ failed => ~Sound(file, declares)

IInv == Types /\ Opening /\ Judged /\ PlainInv /\ TextInv

-----------------------------------------------------------------------------
(* Sequences.                                                              *)

\* A sequence is what it begins with and the rest.
LEMMA FirstAndFrom ==
  ASSUME NEW S, NEW s \in Seq(S), NEW n \in Nat
  PROVE  /\ First(s, n) \in Seq(S) /\ From(s, n) \in Seq(S)
         /\ s = First(s, n) \o From(s, n)
         /\ n # 0 /\ s # <<>> => First(s, n) # <<>>
<1>1. Len(s) \in Nat /\ \A i \in 1 .. Len(s) : s[i] \in S
  OBVIOUS
<1> DEFINE m == MinOf(n, Len(s))
<1>2. m \in 0 .. Len(s) /\ (n <= Len(s) => m = n) /\ (n > Len(s) => m = Len(s))
  BY <1>1 DEF MinOf
<1> HIDE DEF m
<1>3. /\ SubSeq(s, 1, m) \in Seq(S) /\ Len(SubSeq(s, 1, m)) = m
      /\ \A i \in 1 .. m : SubSeq(s, 1, m)[i] = s[i]
  <2>1. \A i \in 1 .. m : s[i] \in S
    BY <1>1, <1>2
  <2>2. /\ SubSeq(s, 1, m) \in Seq(S)
        /\ Len(SubSeq(s, 1, m)) = IF 1 <= m THEN m - 1 + 1 ELSE 0
        /\ \A i \in 1 .. m - 1 + 1 : SubSeq(s, 1, m)[i] = s[1 + i - 1]
    BY <1>2, <2>1, SubSeqProperties
  <2>3. Len(SubSeq(s, 1, m)) = m
    BY <1>2, <2>2
  <2>4. ASSUME NEW i \in 1 .. m PROVE SubSeq(s, 1, m)[i] = s[i]
    <3>1. i \in 1 .. m - 1 + 1 /\ 1 + i - 1 = i
      BY <1>2
    <3> QED
      BY <2>2, <3>1
  <2> QED
    BY <2>2, <2>3, <2>4
<1>4. /\ From(s, n) \in Seq(S)
      /\ Len(From(s, n)) = Len(s) - m
      /\ \A i \in 1 .. Len(s) - m : From(s, n)[i] = s[m + i]
  <2>1. \A i \in n + 1 .. Len(s) : s[i] \in S
    BY <1>1
  <2>2. /\ From(s, n) \in Seq(S)
        /\ Len(From(s, n)) = IF n + 1 <= Len(s) THEN Len(s) - (n + 1) + 1 ELSE 0
        /\ \A i \in 1 .. Len(s) - (n + 1) + 1 : From(s, n)[i] = s[(n + 1) + i - 1]
    BY <1>1, <2>1, SubSeqProperties DEF From
  <2>3. Len(From(s, n)) = Len(s) - m
    <3> DEFINE l == Len(s)
               r == Len(From(s, n))
    <3>1. /\ l \in Nat /\ m \in 0 .. l /\ (n <= l => m = n) /\ (n > l => m = l)
          /\ r = IF n + 1 <= l THEN l - (n + 1) + 1 ELSE 0
      BY <1>1, <1>2, <2>2
    <3> HIDE DEF l, r
    <3>2. r = l - m
      BY <3>1
    <3> QED
      BY <3>2 DEF l, r
  <2>4. ASSUME NEW i \in 1 .. Len(s) - m PROVE From(s, n)[i] = s[m + i]
    <3>1. m = n /\ i \in 1 .. Len(s) - (n + 1) + 1 /\ (n + 1) + i - 1 = m + i
      BY <1>1, <1>2
    <3> QED
      BY <2>2, <3>1
  <2> QED
    BY <2>2, <2>3, <2>4
<1>5. s = SubSeq(s, 1, m) \o From(s, n)
  <2> DEFINE a == SubSeq(s, 1, m)
             b == From(s, n)
  <2>1. /\ a \o b \in Seq(S) /\ Len(a \o b) = Len(a) + Len(b)
        /\ \A i \in 1 .. Len(a) + Len(b) :
             (a \o b)[i] = IF i <= Len(a) THEN a[i] ELSE b[i - Len(a)]
    BY <1>3, <1>4, ConcatProperties
  <2>2. Len(a) = m /\ Len(b) = Len(s) - m
    BY <1>3, <1>4
  <2>3. \A i \in 1 .. m : a[i] = s[i]
    BY <1>3
  <2>4. \A i \in 1 .. Len(s) - m : b[i] = s[m + i]
    BY <1>4
  <2> HIDE DEF a, b
  <2>5. ASSUME NEW i \in 1 .. Len(s) PROVE s[i] = (a \o b)[i]
    <3>1. (a \o b)[i] = IF i <= m THEN a[i] ELSE b[i - m]
      BY <1>1, <1>2, <2>1, <2>2
    <3>2. CASE i <= m
      BY <2>3, <3>1, <3>2
    <3>3. CASE i > m
      <4>1. i - m \in 1 .. Len(s) - m /\ m + (i - m) = i
        BY <1>1, <1>2, <3>3
      <4> QED
        BY <1>2, <2>4, <3>1, <3>3, <4>1
    <3>4. i <= m \/ i > m
      BY <1>1, <1>2
    <3> QED
      BY <3>2, <3>3, <3>4
  <2>6. Len(a \o b) = Len(s)
    BY <1>1, <1>2, <2>1, <2>2
  <2> QED
    BY <2>1, <2>5, <2>6, SeqEqual DEF a, b
<1>6. n # 0 /\ s # <<>> => m # 0
  BY <1>1, <1>2
<1>7. m # 0 => SubSeq(s, 1, m) # <<>>
  BY <1>2, <1>3
<1> QED
  BY <1>3, <1>4, <1>5, <1>6, <1>7 DEF m, First

\* What a concatenation begins with.
LEMMA ConcatBegins ==
  ASSUME NEW S, NEW s \in Seq(S), NEW t \in Seq(S)
  PROVE  SubSeq(s \o t, 1, Len(s)) = s /\ Len(s) <= Len(s \o t)
<1> DEFINE u == s \o t
<1>1. /\ u \in Seq(S) /\ Len(u) = Len(s) + Len(t)
      /\ \A i \in 1 .. Len(s) : u[i] = s[i]
      /\ Len(s) \in Nat /\ Len(t) \in Nat
  BY ConcatProperties
<1> HIDE DEF u
<1>2. \A i \in 1 .. Len(s) : u[i] \in S
  BY <1>1
<1>3. /\ SubSeq(u, 1, Len(s)) \in Seq(S)
      /\ Len(SubSeq(u, 1, Len(s))) = IF 1 <= Len(s) THEN Len(s) - 1 + 1 ELSE 0
      /\ \A i \in 1 .. Len(s) - 1 + 1 : SubSeq(u, 1, Len(s))[i] = u[1 + i - 1]
  BY <1>1, <1>2, SubSeqProperties
<1>4. Len(SubSeq(u, 1, Len(s))) = Len(s)
  BY <1>1, <1>3
<1>5. ASSUME NEW i \in 1 .. Len(s) PROVE SubSeq(u, 1, Len(s))[i] = s[i]
  <2>1. i \in 1 .. Len(s) - 1 + 1 /\ 1 + i - 1 = i
    BY <1>1
  <2> QED
    BY <1>1, <1>3, <2>1
<1>6. SubSeq(u, 1, Len(s)) = s
  BY <1>3, <1>4, <1>5, SeqEqual
<1> QED
  BY <1>1, <1>6 DEF u

-----------------------------------------------------------------------------
(* The text of the first bytes.                                            *)

\* A byte is decoded to units.
LEMMA UnitsType == \A b : Units(b) \in Seq(Unit) /\ Len(Units(b)) \in 0 .. 3
<1> SUFFICES ASSUME NEW b
             PROVE  Units(b) \in Seq(Unit) /\ Len(Units(b)) \in 0 .. 3
  OBVIOUS
<1>1. {"s", "lt1", "lt2", "lt3"} \subseteq Unit
  BY DEF Unit, Kinds
<1> DEFINE Fine(u) == u \in Seq(Unit) /\ Len(u) \in 0 .. 3
<1>2. Fine(<<>>) /\ Fine(<<"s">>) /\ Fine(<<"lt1", "lt2", "lt3">>)
  BY <1>1
<1>3. \/ Units(b) = <<>> \/ Units(b) = <<"s">>
      \/ Units(b) = <<"lt1", "lt2", "lt3">>
  BY DEF Units
<1> HIDE DEF Fine
<1>4. Fine(Units(b))
  BY <1>2, <1>3
<1> QED
  BY <1>4 DEF Fine

\* Text is put together in any order.
LEMMA UnitsAssociate ==
  \A p, q, r \in Seq(Unit) : (p \o q) \o r = p \o (q \o r)
BY ConcatAssociative, SMTT(20)

\* Two texts put together, for proofs in which only that they associate counts.
Put(p, q) == p \o q

Written == Seq(Unit)

\* Four texts put together, however they are bracketed.
LEMMA FourPuts ==
  ASSUME NEW p \in Written, NEW q \in Written, NEW r \in Written,
         NEW s \in Written
  PROVE  Put(Put(Put(p, q), r), s) = Put(p, Put(q, Put(r, s)))
<1>1. \A a, b, c \in Written : Put(Put(a, b), c) = Put(a, Put(b, c))
  BY UnitsAssociate, Zenon DEF Put, Written
<1>2. Put(p, q) \in Written /\ Put(r, s) \in Written
  BY ConcatProperties DEF Put, Written
<1> QED
  BY <1>1, <1>2

\* One byte more says what it completes.
LEMMA UptoStep ==
  ASSUME NEW f \in Files, NEW k \in Nat
  PROVE  /\ Upto(f, k) \in Seq(Unit) /\ Upto(f, 0) = <<>>
         /\ Upto(f, k + 1) = Upto(f, k) \o Units(f[k + 1])
<1> DEFINE ss == [i \in 1 .. k + 1 |-> Units(f[i])]
<1>1. ss \in [1 .. k + 1 -> Seq(Unit)]
  BY UnitsType
<1>2. ss[k + 1] = Units(f[k + 1])
  OBVIOUS
<1>3. [i \in 1 .. k |-> ss[i]] = [i \in 1 .. k |-> Units(f[i])]
  OBVIOUS
<1>4. ss = [i \in 1 .. k + 1 |-> Units(f[i])]
  OBVIOUS
<1> HIDE DEF ss
<1>5. /\ FlattenSeq([i \in 1 .. k |-> ss[i]]) \in Seq(Unit)
      /\ FlattenSeq(ss) = FlattenSeq([i \in 1 .. k |-> ss[i]]) \o ss[k + 1]
  BY <1>1, FlattenLast
<1>6. Upto(f, 0) = <<>>
  <2>1. [i \in 1 .. 0 |-> Units(f[i])] = <<>>
    OBVIOUS
  <2> QED
    BY <2>1 DEF Upto, FlattenSeq
<1> QED
  BY <1>2, <1>3, <1>4, <1>5, <1>6 DEF Upto

\* What fewer bytes say is how more of them begin.
LEMMA UptoBegins ==
  ASSUME NEW f \in Files, NEW j \in Nat, NEW n \in Nat
  PROVE  \E rest \in Seq(Unit) : Upto(f, j + n) = Upto(f, j) \o rest
<1> DEFINE T == {k \in Nat : \E rest \in Seq(Unit) :
                               Upto(f, j + k) = Upto(f, j) \o rest}
<1>1. 0 \in T
  <2>1. Upto(f, j) \in Seq(Unit) /\ <<>> \in Seq(Unit) /\ j + 0 = j
    BY UptoStep
  <2>2. Upto(f, j + 0) = Upto(f, j) \o <<>>
    BY <2>1, ConcatEmptySeq
  <2> QED
    BY <2>1, <2>2
<1>2. ASSUME NEW k \in 0 .. n - 1, k \in T
      PROVE  k + 1 \in T
  <2>1. PICK rest \in Seq(Unit) : Upto(f, j + k) = Upto(f, j) \o rest
    BY <1>2
  <2>2. j + k \in Nat /\ (j + k) + 1 = j + (k + 1) /\ k + 1 \in Nat
    BY <1>2
  <2> DEFINE u == Units(f[(j + k) + 1])
  <2>3. u \in Seq(Unit)
    BY UnitsType
  <2> HIDE DEF u
  <2>4. Upto(f, (j + k) + 1) = Upto(f, j + k) \o u
    BY <2>2, UptoStep DEF u
  <2>5. (Upto(f, j) \o rest) \o u = Upto(f, j) \o (rest \o u)
    <3>1. Upto(f, j) \in Seq(Unit)
      BY UptoStep
    <3> QED
      BY <2>3, <3>1, ConcatAssociative
  <2>6. rest \o u \in Seq(Unit)
    BY <2>3, ConcatProperties
  <2>7. Upto(f, j + (k + 1)) = Upto(f, j) \o (rest \o u)
    BY <2>1, <2>2, <2>4, <2>5
  <2> QED
    BY <2>2, <2>6, <2>7
<1> HIDE DEF T
<1>3. n \in T
  <2>1. \A k \in 0 .. n : k \in T
    BY <1>1, <1>2, UpTo
  <2> QED
    BY <2>1
<1> QED
  BY <1>3 DEF T

-----------------------------------------------------------------------------
(* Characters.                                                             *)

\* Byte k + 1 goes on from the first k.
GoesOn(f, k) ==
  \/ f[k + 1] = (IF Opens(f, k) THEN "t" ELSE "s")
  \/ f[k + 1] = "l" /\ ~Opens(f, k)

\* A byte the decoder may take leaves what it took legal; one it may not take
\* is part of no character, or leaves the one before without its end.
LEMMA LegalStep ==
  ASSUME NEW f \in Files, NEW k \in Nat, k < Len(f), Legal(f, k)
  PROVE  /\ GoesOn(f, k) => Legal(f, k + 1)
         /\ Opens(f, k + 1) <=> f[k + 1] = "l"
         /\ ~GoesOn(f, k) => \E i \in 1 .. Len(f) : ~IsText(f, i)
<1>1. /\ Len(f) \in Nat /\ f[k + 1] \in Kinds
      /\ k + 1 \in 1 .. Len(f) /\ (k > 0 => k \in 1 .. Len(f))
  BY DEF Files
<1>2. ASSUME GoesOn(f, k)
      PROVE  Legal(f, k + 1)
  <2> SUFFICES ASSUME NEW i \in 1 .. k + 1
               PROVE  \/ f[i] = "s"
                      \/ f[i] = "l" /\ (i < k + 1 => f[i + 1] = "t")
                      \/ f[i] = "t" /\ i > 1 /\ f[i - 1] = "l"
    BY DEF Legal
  <2>1. CASE i = k + 1
    BY <1>2, <2>1 DEF Opens, GoesOn
  <2>2. CASE i = k
    <3>1. k \in 1 .. k /\ k + 1 > k
      BY <2>2
    <3> QED
      BY <1>2, <2>2, <3>1 DEF Opens, Legal, GoesOn
  <2>3. CASE i < k
    <3>1. i \in 1 .. k
      BY <2>3
    <3> QED
      BY <2>3, <3>1 DEF Legal
  <2> QED
    BY <2>1, <2>2, <2>3
<1>3. Opens(f, k + 1) <=> f[k + 1] = "l"
  BY DEF Opens
<1>4. ASSUME ~GoesOn(f, k)
      PROVE  \E i \in 1 .. Len(f) : ~IsText(f, i)
  <2>1. CASE Opens(f, k)
    <3>1. k \in 1 .. Len(f) /\ f[k] = "l" /\ f[k + 1] # "t"
      BY <1>1, <1>4, <2>1 DEF Opens, GoesOn
    <3>2. ~IsText(f, k)
      BY <3>1 DEF IsText
    <3> QED
      BY <3>1, <3>2
  <2>2. CASE ~Opens(f, k)
    <3>1. f[k + 1] \in {"t", "x"}
      BY <1>1, <1>4, <2>2 DEF Kinds, GoesOn
    <3>2. k + 1 > 1 => f[(k + 1) - 1] # "l"
      BY <2>2 DEF Opens
    <3>3. ~IsText(f, k + 1)
      BY <3>1, <3>2 DEF IsText
    <3> QED
      BY <1>1, <3>3
  <2> QED
    BY <2>1, <2>2
<1> QED
  BY <1>2, <1>3, <1>4

\* All that is legal is text, but for a character still open.
LEMMA LegalIsText ==
  ASSUME NEW f \in Files, NEW k \in 0 .. Len(f), Legal(f, k),
         NEW i \in 1 .. k, i < k \/ ~Opens(f, k)
  PROVE  IsText(f, i)
<1>1. Len(f) \in Nat
  BY DEF Files
<1>2. CASE f[i] = "s"
  BY <1>2 DEF IsText
<1>3. CASE f[i] = "l" /\ (i < k => f[i + 1] = "t")
  <2>1. i # k
    BY <1>3 DEF Opens
  <2> QED
    BY <1>1, <1>3, <2>1 DEF IsText
<1>4. CASE f[i] = "t" /\ i > 1 /\ f[i - 1] = "l"
  BY <1>4 DEF IsText
<1> QED
  BY <1>2, <1>3, <1>4 DEF Legal

\* A character that is open has said nothing yet.
LEMMA UptoOpen ==
  ASSUME NEW f \in Files, NEW k \in Nat, Opens(f, k)
  PROVE  k - 1 \in Nat /\ Upto(f, k) = Upto(f, k - 1)
<1>1. k - 1 \in Nat /\ (k - 1) + 1 = k
  BY DEF Opens
<1>2. Upto(f, k) = Upto(f, k - 1) \o Units(f[k])
  BY <1>1, UptoStep
<1>3. Units(f[k]) = <<>>
  BY DEF Opens, Units
<1>4. Upto(f, k - 1) \in Seq(Unit)
  BY <1>1, UptoStep
<1> QED
  BY <1>1, <1>2, <1>3, <1>4, ConcatEmptySeq

\* The text of a file begins with that of the bytes taken.
LEMMA TextBegins ==
  ASSUME NEW f \in Files, NEW c \in 0 .. Len(f), Legal(f, c)
  PROVE  \E rest \in Seq(Unit) : Text(f, "known") = Upto(f, c) \o rest
<1> DEFINE good == {n \in 0 .. Len(f) : \A i \in 1 .. n : IsText(f, i)}
           last == CHOOSE n \in good : \A m \in good : m <= n
           j    == IF Opens(f, c) THEN c - 1 ELSE c
<1>1. Len(f) \in Nat /\ c \in Nat
  BY DEF Files
<1>2. j \in 0 .. c /\ j \in Nat
  BY <1>1, UptoOpen DEF Opens
<1>3. j \in good
  <2>1. \A i \in 1 .. j : i \in 1 .. c /\ (i < c \/ ~Opens(f, c))
    BY <1>1, <1>2
  <2>2. \A i \in 1 .. j : IsText(f, i)
    BY <2>1, LegalIsText
  <2>3. j \in 0 .. Len(f)
    BY <1>1, <1>2
  <2> QED
    BY <2>2, <2>3
<1>4. Max(good) \in good /\ \A m \in good : Max(good) >= m
  <2>1. good \in SUBSET (0 .. Len(f)) /\ good # {}
    BY <1>3
  <2> HIDE DEF good
  <2> QED
    BY <1>1, <2>1, Greatest
<1>5. last \in good /\ \A m \in good : m <= last
  <2>1. good \subseteq Nat
    OBVIOUS
  <2> HIDE DEF good
  <2>2. \E n \in good : \A m \in good : m <= n
    <3>1. \A m \in good : m <= Max(good)
      BY <1>4, <2>1
    <3> QED
      BY <1>4, <3>1
  <2> QED
    BY <2>2
<1>6. Text(f, "known") = Upto(f, last)
  BY DEF Text, Upto
<1>7. last \in Nat /\ last - j \in Nat
  <2>1. last \in 0 .. Len(f)
    BY <1>5
  <2>2. j <= last
    BY <1>3, <1>5
  <2> HIDE DEF last, j
  <2> QED
    BY <1>1, <1>2, <2>1, <2>2
<1>8. Upto(f, c) = Upto(f, j)
  BY <1>1, UptoOpen
<1> HIDE DEF good, last, j
<1>9. j + (last - j) = last
  BY <1>2, <1>7
<1>10. \E rest \in Seq(Unit) : Upto(f, j + (last - j)) = Upto(f, j) \o rest
  BY <1>2, <1>7, UptoBegins
<1> QED
  BY <1>6, <1>8, <1>9, <1>10

\* A file that is legal to its end is text, and says what was decoded.
LEMMA TextIsAll ==
  ASSUME NEW f \in Files, Legal(f, Len(f)), ~Opens(f, Len(f))
  PROVE  Sound(f, "known") /\ Text(f, "known") = Upto(f, Len(f))
<1>1. Len(f) \in Nat /\ DOMAIN f = 1 .. Len(f)
  BY DEF Files
<1>2. \A i \in 1 .. Len(f) : IsText(f, i)
  BY <1>1, LegalIsText
<1> DEFINE good == {n \in 0 .. Len(f) : \A i \in 1 .. n : IsText(f, i)}
           last == CHOOSE n \in good : \A m \in good : m <= n
<1>3. Len(f) \in good /\ \A m \in good : m <= Len(f) /\ m \in Nat
  BY <1>1, <1>2
<1>4. last = Len(f)
  <2> HIDE DEF good
  <2>1. \E n \in good : \A m \in good : m <= n
    BY <1>3
  <2>2. last \in good /\ \A m \in good : m <= last
    BY <2>1
  <2>3. last <= Len(f) /\ Len(f) <= last /\ last \in Nat
    BY <1>3, <2>2
  <2>4. \A a, b \in Nat : a <= b /\ b <= a => a = b
    OBVIOUS
  <2> HIDE DEF last
  <2> QED
    BY <1>1, <2>3, <2>4
<1>5. Text(f, "known") = Upto(f, last)
  BY DEF Text, Upto
<1> QED
  BY <1>1, <1>2, <1>4, <1>5 DEF Sound

-----------------------------------------------------------------------------
(* The decoder.                                                            *)

Decoders ==
  [lead : BOOLEAN, text : Seq(Unit), left : Files,
   stop : {"none", "full", "malformed"}]

\* What the decoder d has done of the bytes of f from c up to e, in at most room
\* units: it stands at m.
Stands(f, c, e, room, d, m) ==
  /\ d.left = SubSeq(f, m + 1, e)
  /\ Says(f, c, m, d.text)
  /\ Legal(f, m) /\ (d.lead <=> Opens(f, m))
  /\ Len(d.text) + (IF d.lead THEN 2 ELSE 0)
       <= 2 * (m - c) + (IF Opens(f, c) THEN 2 ELSE 0)
  /\ d.stop = "full" => m < e /\ 2 * ((m + 1) - c) + (IF Opens(f, c) THEN 2 ELSE 0) > room
  /\ d.stop = "malformed" => \E i \in 1 .. Len(f) : ~IsText(f, i)

\* One byte keeps the decoder a decoder.
LEMMA ByteType ==
  ASSUME NEW d \in Decoders, NEW b, NEW room
  PROVE  DecodeByte(d, b, room) \in Decoders
<1>1. d.text \o Units(b) \in Seq(Unit) /\ SubSeq(d.left, 2, Len(d.left)) \in Files
  <2>1. d.text \in Seq(Unit) /\ d.left \in Files
    BY DEF Decoders
  <2>2. Len(d.left) \in Int /\ \A i \in 2 .. Len(d.left) : d.left[i] \in Kinds
    BY <2>1 DEF Files
  <2> QED
    BY <2>1, <2>2, UnitsType, ConcatProperties, SubSeqProperties DEF Files
<1>2. \A open \in BOOLEAN : Takes(d, b, open) \in Decoders
  BY <1>1 DEF Takes, Decoders
<1>3. \A why \in {"full", "malformed"} : Stops(d, why) \in Decoders
  BY DEF Stops, Decoders
<1> QED
  BY <1>2, <1>3 DEF DecodeByte

\* One byte more: the decoder that still goes on is where it should be.
LEMMA ByteStep ==
  ASSUME NEW f \in Files, NEW c \in Nat, NEW e \in 0 .. Len(f), NEW room \in Nat,
         NEW d \in Decoders, NEW m \in Nat, c <= m, m < e,
         Stands(f, c, e, room, d, m), d.stop = "none",
         NEW g, g = DecodeByte(d, f[m + 1], room)
  PROVE  \/ Stands(f, c, e, room, g, m + 1) /\ g.stop = "none"
         \/ Stands(f, c, e, room, g, m) /\ g.stop # "none"
<1> DEFINE b == f[m + 1]
           fits == \/ b = (IF d.lead THEN "t" ELSE "s")
                   \/ b = "l" /\ ~d.lead
           t == d.text \o Units(b)
<1>1. /\ Len(f) \in Nat /\ e \in Nat /\ m < Len(f) /\ b \in Kinds
      /\ d.lead \in BOOLEAN /\ d.text \in Seq(Unit) /\ d.left \in Files
      /\ Legal(f, m) /\ (d.lead <=> Opens(f, m))
      /\ Len(d.text) \in Nat
  <2>1. d.lead \in BOOLEAN /\ d.text \in Seq(Unit) /\ d.left \in Files
    BY DEF Decoders
  <2>2. Len(f) \in Nat /\ m + 1 \in 1 .. Len(f)
    BY DEF Files
  <2>3. Len(d.text) \in Nat
    BY <2>1
  <2>4. f[m + 1] \in Kinds
    BY <2>2 DEF Files
  <2>5. Legal(f, m) /\ (d.lead <=> Opens(f, m))
    BY DEF Stands
  <2> QED
    BY <2>1, <2>2, <2>3, <2>4, <2>5
<1>2. /\ fits => Legal(f, m + 1)
      /\ Opens(f, m + 1) <=> b = "l"
      /\ ~fits => \E i \in 1 .. Len(f) : ~IsText(f, i)
  <2>1. m < Len(f) /\ Legal(f, m)
    BY <1>1
  <2>2. /\ GoesOn(f, m) => Legal(f, m + 1)
        /\ Opens(f, m + 1) <=> f[m + 1] = "l"
        /\ ~GoesOn(f, m) => \E i \in 1 .. Len(f) : ~IsText(f, i)
    BY <2>1, LegalStep
  <2>3. d.lead \in BOOLEAN /\ (d.lead <=> Opens(f, m))
    BY <1>1
  <2>4. fits <=> GoesOn(f, m)
    <3>1. CASE d.lead
      BY <2>3, <3>1 DEF GoesOn
    <3>2. CASE ~d.lead
      BY <2>3, <3>2 DEF GoesOn
    <3> QED
      BY <3>1, <3>2
  <2> HIDE DEF fits
  <2> QED
    BY <2>2, <2>4
<1>3. /\ t \in Seq(Unit) /\ Len(t) = Len(d.text) + Len(Units(b))
      /\ Len(Units(b)) = CASE b = "s" -> 1 [] b = "t" -> 3 [] OTHER -> 0
  <2>1. /\ Units(b) \in Seq(Unit)
    BY UnitsType
  <2>2. Len(Units(b)) = CASE b = "s" -> 1 [] b = "t" -> 3 [] OTHER -> 0
    BY DEF Units
  <2> QED
    BY <1>1, <2>1, <2>2, ConcatProperties
<1>4. Says(f, c, m + 1, t)
  <2>1. Upto(f, m + 1) = Upto(f, m) \o Units(b) /\ Upto(f, c) \in Seq(Unit)
    BY UptoStep
  <2>2. Upto(f, m) = Upto(f, c) \o d.text
    BY DEF Stands, Says
  <2>3. (Upto(f, c) \o d.text) \o Units(b) = Upto(f, c) \o t
    <3> DEFINE u == Units(b)
               p == Upto(f, c)
               q == d.text
    <3>1. u \in Seq(Unit) /\ p \in Seq(Unit) /\ q \in Seq(Unit)
      BY <1>1, <2>1, UnitsType
    <3> HIDE DEF u, p, q
    <3>2. (p \o q) \o u = p \o (q \o u)
      BY <3>1, UnitsAssociate
    <3> QED
      BY <3>2 DEF u, p, q
  <2> QED
    BY <1>3, <2>1, <2>2, <2>3 DEF Says
<1>5. SubSeq(d.left, 2, Len(d.left)) = SubSeq(f, (m + 1) + 1, e)
  <2>1. d.left = SubSeq(f, m + 1, e)
    BY DEF Stands
  <2>2. m + 1 \in 1 .. Len(f) /\ e \in m + 1 .. Len(f)
    <3> DEFINE l == Len(f)
    <3>1. l \in Nat /\ e \in 0 .. l
      BY <1>1
    <3> HIDE DEF l
    <3>2. m + 1 \in 1 .. l /\ e \in m + 1 .. l
      BY <3>1
    <3> QED
      BY <3>2 DEF l
  <2>3. Tail(SubSeq(f, m + 1, e)) = SubSeq(f, (m + 1) + 1, e)
    BY <2>2, HeadTailOfSubSeq DEF Files
  <2>4. d.left # <<>>
    <3>1. \A i \in m + 1 .. e : f[i] \in Kinds
      <4>1. \A i \in 1 .. Len(f) : f[i] \in Kinds
        BY DEF Files
      <4>2. \A i \in m + 1 .. e : i \in 1 .. Len(f)
        BY <1>1, <2>2
      <4> QED
        BY <4>1, <4>2
    <3>2. Len(SubSeq(f, m + 1, e)) = IF m + 1 <= e THEN e - (m + 1) + 1 ELSE 0
      <4>1. m + 1 \in Int /\ e \in Int
        OBVIOUS
      <4> QED
        BY <3>1, <4>1, SubSeqProperties
    <3>3. Len(SubSeq(f, m + 1, e)) = e - m /\ e - m # 0
      BY <3>2
    <3>4. Len(<<>>) = 0
      OBVIOUS
    <3> QED
      BY <2>1, <3>3, <3>4
  <2>5. Tail(d.left) = SubSeq(d.left, 2, Len(d.left))
    BY <1>1, <2>4, TailIsSubSeq DEF Files
  <2> QED
    BY <2>1, <2>3, <2>5
<1> DEFINE more == 2 * ((m + 1) - c) + (IF Opens(f, c) THEN 2 ELSE 0)
<1>6. /\ Len(d.text) + (IF d.lead THEN 2 ELSE 0)
           <= (2 * ((m + 1) - c) + (IF Opens(f, c) THEN 2 ELSE 0)) - 2
      /\ 2 * ((m + 1) - c) + (IF Opens(f, c) THEN 2 ELSE 0) \in Nat
  <2>1. Len(d.text) + (IF d.lead THEN 2 ELSE 0)
          <= 2 * (m - c) + (IF Opens(f, c) THEN 2 ELSE 0)
    BY DEF Stands
  <2> DEFINE l == Len(d.text)
             x == IF d.lead THEN 2 ELSE 0
             y == IF Opens(f, c) THEN 2 ELSE 0
  <2>2. l \in Nat /\ x \in Nat /\ y \in Nat /\ l + x <= 2 * (m - c) + y
    BY <1>1, <2>1
  <2> HIDE DEF l, x, y
  <2>3. l + x <= (2 * ((m + 1) - c) + y) - 2 /\ 2 * ((m + 1) - c) + y \in Nat
    BY <2>2
  <2> QED
    BY <2>3 DEF l, x, y
<1>12. ASSUME fits
       PROVE  Len(t) \in Nat /\ Len(t) + (IF b = "l" THEN 2 ELSE 0) <= more
  <2> DEFINE l == Len(d.text)
             u == Len(Units(b))
  <2>1. /\ l \in Nat /\ more \in Nat
        /\ l + (IF d.lead THEN 2 ELSE 0) <= more - 2
    <3>1. l \in Nat
      BY <1>1
    <3>2. more \in Nat
      BY <1>6
    <3>3. l + (IF d.lead THEN 2 ELSE 0) <= more - 2
      BY <1>6
    <3> QED
      BY <3>1, <3>2, <3>3
  <2>2. Len(t) = l + u
    BY <1>3
  <2>3. u = CASE b = "s" -> 1 [] b = "t" -> 3 [] OTHER -> 0
    BY <1>3
  <2> HIDE DEF l, u, more
  <2>4. CASE b = "s"
    BY <2>1, <2>2, <2>3, <2>4
  <2>5. CASE b = "t"
    <3>1. d.lead
      BY <1>12, <2>5
    <3> QED
      BY <2>1, <2>2, <2>3, <2>5, <3>1
  <2>6. CASE b = "l"
    BY <2>1, <2>2, <2>3, <2>6
  <2> QED
    BY <1>12, <2>4, <2>5, <2>6
<1>7. ASSUME fits, g = Takes(d, b, b = "l")
      PROVE  Stands(f, c, e, room, g, m + 1) /\ g.stop = "none"
  <2>1. /\ g.lead = (b = "l") /\ g.text = t /\ g.stop = "none"
        /\ g.left = SubSeq(d.left, 2, Len(d.left))
    BY <1>7 DEF Takes, Decoders
  <2>3. Legal(f, m + 1) /\ (g.lead <=> Opens(f, m + 1))
    BY <1>2, <1>7, <2>1
  <2>4. g.left = SubSeq(f, (m + 1) + 1, e) /\ Says(f, c, m + 1, g.text)
    BY <1>4, <1>5, <2>1
  <2>5. Len(g.text) + (IF g.lead THEN 2 ELSE 0)
          <= 2 * ((m + 1) - c) + (IF Opens(f, c) THEN 2 ELSE 0)
    <3>1. (IF g.lead THEN 2 ELSE 0) = (IF b = "l" THEN 2 ELSE 0)
      BY <2>1
    <3>2. Len(g.text) = Len(t)
      BY <2>1
    <3>3. Len(t) + (IF b = "l" THEN 2 ELSE 0)
            <= 2 * ((m + 1) - c) + (IF Opens(f, c) THEN 2 ELSE 0)
      BY <1>7, <1>12
    <3> HIDE DEF b, t
    <3> QED
      BY <3>1, <3>2, <3>3
  <2>6. g.stop # "full" /\ g.stop # "malformed"
    BY <2>1
  <2> HIDE DEF t, b, fits, more
  <2> QED
    BY <2>1, <2>3, <2>4, <2>5, <2>6 DEF Stands
<1>8. ASSUME NEW why \in {"full", "malformed"}, g = Stops(d, why),
             why = "full" => more > room,
             why = "malformed" => ~fits
      PROVE  Stands(f, c, e, room, g, m) /\ g.stop # "none"
  <2>1. /\ g.lead = d.lead /\ g.text = d.text /\ g.left = d.left
        /\ g.stop = why
    BY <1>8 DEF Stops, Decoders
  <2> QED
    BY <1>2, <1>8, <2>1 DEF Stands
<1>9. CASE b = (IF d.lead THEN "t" ELSE "s")
  <2>1. CASE Len(t) <= room
    <3>1. g = Takes(d, b, FALSE) /\ b # "l"
      BY <1>9, <2>1 DEF DecodeByte
    <3>2. (b = "l") = FALSE
      BY <3>1
    <3> QED
      BY <1>7, <1>9, <3>1, <3>2
  <2>2. CASE ~(Len(t) <= room)
    <3>1. g = Stops(d, "full")
      BY <1>9, <2>2 DEF DecodeByte
    <3>2. Len(t) \in Nat /\ Len(t) <= more
      <4>1. b # "l"
        BY <1>9
      <4> QED
        <5>1. fits
          BY <1>9
        <5>2. (IF b = "l" THEN 2 ELSE 0) = 0
          BY <4>1
        <5>3. Len(t) \in Nat /\ Len(t) + (IF b = "l" THEN 2 ELSE 0) <= more
          BY <1>12, <5>1
        <5> HIDE DEF t, more, b
        <5> QED
          BY <1>6, <5>2, <5>3
    <3> HIDE DEF t
    <3>4. more > room
      BY <1>6, <2>2, <3>2
    <3> QED
      BY <1>8, <3>1, <3>4
  <2> QED
    BY <2>1, <2>2
<1>10. CASE b # (IF d.lead THEN "t" ELSE "s") /\ b = "l" /\ ~d.lead
  <2>1. g = Takes(d, b, TRUE)
    BY <1>10 DEF DecodeByte
  <2>2. (b = "l") = TRUE
    BY <1>10
  <2> QED
    BY <1>7, <1>10, <2>1, <2>2
<1>11. CASE ~fits
  <2>1. g = Stops(d, "malformed")
    BY <1>11 DEF DecodeByte
  <2> QED
    BY <1>8, <1>11, <2>1
<1> QED
  BY <1>9, <1>10, <1>11

\* The decoder before its first byte, and when its bytes are used up.
Starting(bytes, open) ==
  [lead |-> open, text |-> <<>>, left |-> bytes, stop |-> "none"]
Ended(d, last) ==
  IF d.stop = "none" /\ last /\ d.lead THEN [d EXCEPT !.stop = "malformed"]
  ELSE IF d.stop = "none" THEN [d EXCEPT !.stop = "empty"] ELSE d

\* r goes through one decoder for each byte.
Runs(r, bytes, open, room) ==
  /\ r \in [0 .. Len(bytes) -> Decoders]
  /\ r[0] = Starting(bytes, open)
  /\ \A k \in 1 .. Len(bytes) : r[k] = DecodeByte(r[k - 1], bytes[k], room)

\* Decoding goes through such a run.
LEMMA DecodeRuns ==
  ASSUME NEW bytes \in Files, NEW open \in BOOLEAN, NEW room, NEW last
  PROVE  \E r : /\ Runs(r, bytes, open, room)
                /\ Decode(bytes, open, room, last) = Ended(r[Len(bytes)], last)
<1> DEFINE n == Len(bytes)
           base == Starting(bytes, open)
           Is(g) == g = [s \in SUBSET (1 .. n) |->
                           IF s = {} THEN base
                           ELSE DecodeByte(g[s \ {Max(s)}], bytes[Max(s)], room)]
           h == CHOOSE g : Is(g)
<1>1. n \in Nat /\ DOMAIN bytes = 1 .. n
  BY DEF Files
<1>2. base \in Decoders
  <2>1. <<>> \in Seq(Unit)
    OBVIOUS
  <2> QED
    BY <2>1 DEF Starting, Decoders
<1>3. Decode(bytes, open, room, last) = Ended(h[1 .. n], last)
  BY <1>1 DEF Decode, FoldLeft, MapThenFoldSet, Ended, Starting
<1> HIDE DEF n, base
<1>4. \E g : Is(g)
  <2> DEFINE G == [k \in 1 .. n |-> [v \in Decoders |-> DecodeByte(v, bytes[k], room)]]
  <2>1. G \in [1 .. n -> [Decoders -> Decoders]]
    BY ByteType
  <2> HIDE DEF G
  <2>2. PICK g : IsFold(g, n, Decoders, base, G)
    BY <1>1, <1>2, <2>1, FoldExists
  <2>3. ASSUME NEW s \in SUBSET (1 .. n), s # {}
        PROVE  G[Max(s)][g[s \ {Max(s)}]] = DecodeByte(g[s \ {Max(s)}], bytes[Max(s)], room)
    <3>1. s \in SUBSET (0 .. n)
      OBVIOUS
    <3>2. Max(s) \in 1 .. n
      BY <1>1, <2>3, <3>1, Greatest
    <3>3. s \ {Max(s)} \in SUBSET (1 .. n)
      OBVIOUS
    <3>4. g[s \ {Max(s)}] \in Decoders
      BY <2>2, <3>3 DEF IsFold
    <3> QED
      BY <3>2, <3>4 DEF G
  <2>4. Is(g)
    BY <2>2, <2>3 DEF IsFold
  <2> QED
    BY <2>4
<1>5. Is(h)
  BY <1>4
<1>6. h[1 .. 0] = base
  <2>1. 1 .. 0 = {} /\ {} \in SUBSET (1 .. n)
    BY FoldSets
  <2>2. h[{}] = base
    <3> HIDE DEF h
    <3> QED
      BY <1>5, <2>1
  <2> QED
    BY <2>1, <2>2
<1>7. \A k \in 1 .. n : h[1 .. k] = DecodeByte(h[1 .. k - 1], bytes[k], room)
  <2> TAKE k \in 1 .. n
  <2>1. k \in Nat /\ k # 0
    OBVIOUS
  <2>2. 1 .. k # {} /\ Max(1 .. k) = k /\ (1 .. k) \ {k} = 1 .. k - 1
    BY <2>1, FoldSets
  <2>3. 1 .. k \in SUBSET (1 .. n)
    BY <1>1
  <2> DEFINE s == 1 .. k
  <2> HIDE DEF s, h
  <2>4. s \in SUBSET (1 .. n) /\ s # {}
    BY <2>2, <2>3 DEF s
  <2>5. h[s] = DecodeByte(h[s \ {Max(s)}], bytes[Max(s)], room)
    BY <1>5, <2>4
  <2>6. Max(s) = k /\ s \ {k} = 1 .. k - 1
    BY <2>2 DEF s
  <2>7. h[s] = DecodeByte(h[1 .. k - 1], bytes[k], room)
    BY <2>5, <2>6
  <2> QED
    BY <2>7 DEF s
<1> HIDE DEF h
<1> DEFINE r == [k \in 0 .. n |-> h[1 .. k]]
           T == {k \in Nat : h[1 .. k] \in Decoders}
<1>8. \A k \in 0 .. n : k \in T
  <2>1. 0 \in T
    BY <1>2, <1>6
  <2>2. ASSUME NEW k \in 0 .. n - 1, k \in T
        PROVE  k + 1 \in T
    <3>1. k + 1 \in 1 .. n /\ (k + 1) - 1 = k /\ k + 1 \in Nat
      BY <1>1
    <3>2. h[1 .. k] \in Decoders
      BY <2>2
    <3>3. h[1 .. k + 1] = DecodeByte(h[1 .. (k + 1) - 1], bytes[k + 1], room)
      BY <1>7, <3>1
    <3>4. DecodeByte(h[1 .. k], bytes[k + 1], room) \in Decoders
      BY <3>2, ByteType
    <3> QED
      BY <3>1, <3>3, <3>4
  <2> HIDE DEF T
  <2> QED
    BY <1>1, <2>1, <2>2, UpTo
<1>9. r \in [0 .. n -> Decoders]
  BY <1>8
<1>10. r[0] = base /\ r[n] = h[1 .. n]
  BY <1>1, <1>6
<1>11. \A k \in 1 .. n : r[k] = DecodeByte(r[k - 1], bytes[k], room)
  <2> TAKE k \in 1 .. n
  <2>1. k \in 0 .. n /\ k - 1 \in 0 .. n
    BY <1>1
  <2>2. r[k] = h[1 .. k] /\ r[k - 1] = h[1 .. k - 1]
    BY <2>1
  <2> HIDE DEF r
  <2> QED
    BY <1>7, <2>2
<1> HIDE DEF r
<1>12. Runs(r, bytes, open, room)
  BY <1>9, <1>10, <1>11 DEF Runs, n, base
<1>13. Decode(bytes, open, room, last) = Ended(r[Len(bytes)], last)
  BY <1>3, <1>10 DEF n
<1> QED
  BY <1>12, <1>13

\* What the bytes of f from c up to e are: those after c.
LEMMA BytesOf ==
  ASSUME NEW f \in Files, NEW e \in 0 .. Len(f), NEW c \in 0 .. e
  PROVE  /\ SubSeq(f, c + 1, e) \in Files
         /\ Len(SubSeq(f, c + 1, e)) = e - c
         /\ \A k \in 1 .. e - c : SubSeq(f, c + 1, e)[k] = f[c + k]
<1>1. Len(f) \in Nat /\ e \in Nat /\ c \in Nat /\ c <= e
  BY DEF Files
<1>2. \A i \in c + 1 .. e : f[i] \in Kinds
  BY <1>1 DEF Files
<1>3. /\ SubSeq(f, c + 1, e) \in Seq(Kinds)
      /\ Len(SubSeq(f, c + 1, e)) = IF c + 1 <= e THEN e - (c + 1) + 1 ELSE 0
      /\ \A k \in 1 .. e - (c + 1) + 1 :
           SubSeq(f, c + 1, e)[k] = f[(c + 1) + k - 1]
  BY <1>1, <1>2, SubSeqProperties
<1>4. Len(SubSeq(f, c + 1, e)) = e - c
  BY <1>1, <1>3
<1>5. ASSUME NEW k \in 1 .. e - c PROVE SubSeq(f, c + 1, e)[k] = f[c + k]
  <2>1. k \in 1 .. e - (c + 1) + 1 /\ (c + 1) + k - 1 = c + k
    BY <1>1
  <2> QED
    BY <1>3, <2>1
<1> QED
  BY <1>3, <1>4, <1>5 DEF Files

\* What the decoder leaves of the bytes of f from c up to e, the last of them if
\* last, in at most room units: it stands at m.
Leaves(f, c, e, room, last, d, m) ==
  /\ d.lead \in BOOLEAN /\ d.left = SubSeq(f, m + 1, e)
  /\ Says(f, c, m, d.text)
  /\ Legal(f, m) /\ (d.lead <=> Opens(f, m))
  /\ d.stop \in {"empty", "full", "malformed"}
  /\ d.stop = "empty" => m = e /\ (last => ~d.lead)
  /\ d.stop = "full" => m < e /\ 2 * ((m + 1) - c) + (IF Opens(f, c) THEN 2 ELSE 0) > room
  /\ d.stop = "malformed" => \E i \in 1 .. Len(f) : ~IsText(f, i)

\* The decoder says what the bytes say, and stops where it may.
LEMMA DecodeLeaves ==
  ASSUME NEW f \in Files, NEW e \in 0 .. Len(f), NEW c \in 0 .. e, Legal(f, c),
         NEW open \in BOOLEAN, open <=> Opens(f, c),
         NEW room \in Nat, NEW last \in BOOLEAN, last => e = Len(f)
  PROVE  \E m \in c .. e :
           Leaves(f, c, e, room, last,
                  Decode(SubSeq(f, c + 1, e), open, room, last), m)
<1> DEFINE bytes == SubSeq(f, c + 1, e)
           n == e - c
<1>1. /\ bytes \in Files /\ Len(bytes) = n
      /\ \A k \in 1 .. n : bytes[k] = f[c + k]
  BY BytesOf
<1>2. Len(f) \in Nat /\ e \in Nat /\ c \in Nat /\ n \in Nat /\ c + n = e
  BY DEF Files
<1> HIDE DEF bytes, n
<1>3. PICK r \in [0 .. n -> Decoders] :
        /\ r[0] = Starting(bytes, open)
        /\ \A k \in 1 .. n : r[k] = DecodeByte(r[k - 1], bytes[k], room)
        /\ Decode(bytes, open, room, last) = Ended(r[n], last)
  <2>1. PICK r : /\ Runs(r, bytes, open, room)
                 /\ Decode(bytes, open, room, last) = Ended(r[Len(bytes)], last)
    BY <1>1, DecodeRuns
  <2>2. r \in [0 .. n -> Decoders] /\ r[0] = Starting(bytes, open)
    BY <1>1, <2>1 DEF Runs
  <2>3. \A k \in 1 .. n : r[k] = DecodeByte(r[k - 1], bytes[k], room)
    BY <1>1, <2>1 DEF Runs
  <2>4. Decode(bytes, open, room, last) = Ended(r[n], last)
    BY <1>1, <2>1
  <2> QED
    BY <2>2, <2>3, <2>4
<1> DEFINE At(k, m) == /\ Stands(f, c, e, room, r[k], m)
                       /\ r[k].stop = "none" => m = c + k
           T == {k \in Nat : \E m \in c .. e : At(k, m)}
<1>4. 0 \in T
  <2>1. /\ r[0].lead = open /\ r[0].text = <<>> /\ r[0].left = bytes
        /\ r[0].stop = "none"
    BY <1>3 DEF Starting
  <2>2. Says(f, c, c, <<>>)
    <3>1. Upto(f, c) \in Seq(Unit) /\ <<>> \in Seq(Unit)
      BY <1>2, UptoStep
    <3>2. Upto(f, c) \o <<>> = Upto(f, c)
      BY <3>1, ConcatEmptySeq
    <3> QED
      BY <3>1, <3>2 DEF Says
  <2>3. Len(r[0].text) + (IF r[0].lead THEN 2 ELSE 0)
          <= 2 * (c - c) + (IF Opens(f, c) THEN 2 ELSE 0)
    <3>1. Len(r[0].text) = 0 /\ c - c = 0
      BY <1>2, <2>1
    <3>2. (IF r[0].lead THEN 2 ELSE 0) = (IF Opens(f, c) THEN 2 ELSE 0)
      BY <2>1
    <3> QED
      BY <3>1, <3>2
  <2>4. r[0].left = SubSeq(f, c + 1, e) /\ (r[0].lead <=> Opens(f, c))
    BY <2>1 DEF bytes
  <2>5. r[0].stop # "full" /\ r[0].stop # "malformed"
    BY <2>1
  <2>6. Stands(f, c, e, room, r[0], c)
    BY <2>1, <2>2, <2>3, <2>4, <2>5 DEF Stands
  <2>7. c \in c .. e /\ c = c + 0
    BY <1>2
  <2> QED
    BY <2>6, <2>7
<1>5. ASSUME NEW k \in 0 .. n - 1, k \in T
      PROVE  k + 1 \in T
  <2>1. PICK m \in c .. e : At(k, m)
    BY <1>5
  <2>2. /\ k + 1 \in 1 .. n /\ (k + 1) - 1 = k /\ k \in 0 .. n /\ k + 1 \in Nat
        /\ m \in Nat /\ c <= m
    BY <1>2
  <2>3. r[k] \in Decoders /\ r[k + 1] = DecodeByte(r[k], f[c + (k + 1)], room)
    BY <1>1, <1>3, <2>2
  <2>4. CASE r[k].stop # "none"
    <3>1. r[k + 1] = r[k]
      BY <2>3, <2>4 DEF DecodeByte
    <3>2. At(k + 1, m)
      BY <2>1, <2>4, <3>1
    <3> HIDE DEF At
    <3> QED
      BY <2>2, <3>2
  <2>5. CASE r[k].stop = "none"
    <3>1. m = c + k /\ m < e /\ m + 1 = c + (k + 1) /\ m + 1 \in c .. e
      BY <1>2, <2>1, <2>2, <2>5
    <3>2. r[k + 1] = DecodeByte(r[k], f[m + 1], room)
      BY <2>3, <3>1
    <3>3. \/ Stands(f, c, e, room, r[k + 1], m + 1) /\ r[k + 1].stop = "none"
          \/ Stands(f, c, e, room, r[k + 1], m) /\ r[k + 1].stop # "none"
      <4> DEFINE d == r[k]
                 g == r[k + 1]
      <4>1. /\ d \in Decoders /\ d.stop = "none" /\ Stands(f, c, e, room, d, m)
            /\ g = DecodeByte(d, f[m + 1], room)
        BY <2>1, <2>3, <2>5, <3>2
      <4> HIDE DEF d, g
      <4>2. \/ Stands(f, c, e, room, g, m + 1) /\ g.stop = "none"
            \/ Stands(f, c, e, room, g, m) /\ g.stop # "none"
        BY <1>2, <2>2, <3>1, <4>1, ByteStep
      <4> QED
        BY <4>2 DEF g
    <3>4. At(k + 1, m + 1) \/ At(k + 1, m)
      BY <3>1, <3>3
    <3> HIDE DEF At
    <3> QED
      BY <2>2, <3>1, <3>4
  <2> QED
    BY <2>4, <2>5
<1>6. n \in T
  <2> HIDE DEF T
  <2>1. \A k \in 0 .. n : k \in T
    BY <1>2, <1>4, <1>5, UpTo
  <2> QED
    BY <1>2, <2>1
<1>7. PICK m \in c .. e : At(n, m)
  BY <1>6
<1> DEFINE d == r[n]
           g == Ended(d, last)
<1>8. /\ d \in Decoders /\ Stands(f, c, e, room, d, m)
      /\ d.stop = "none" => m = e
  BY <1>2, <1>3, <1>7
<1> HIDE DEF d
<1>9. /\ d.lead \in BOOLEAN /\ d.stop \in {"none", "full", "malformed"}
      /\ g.lead = d.lead /\ g.text = d.text /\ g.left = d.left
  BY <1>8 DEF Decoders, Ended
<1>10. /\ d.left = SubSeq(f, m + 1, e) /\ Says(f, c, m, d.text)
       /\ Legal(f, m) /\ (d.lead <=> Opens(f, m))
  BY <1>8 DEF Stands
<1>11. ASSUME d.stop = "none" /\ last /\ d.lead
       PROVE  Leaves(f, c, e, room, last, g, m)
  <2>1. g.stop = "malformed"
    BY <1>8, <1>11 DEF Decoders, Ended
  <2>2. m = Len(f) /\ m > 0 /\ f[m] = "l"
    BY <1>8, <1>10, <1>11 DEF Opens
  <2>3. ~IsText(f, m) /\ m \in 1 .. Len(f)
    BY <1>2, <2>2 DEF IsText
  <2> HIDE DEF g
  <2> QED
    BY <1>9, <1>10, <2>1, <2>3 DEF Leaves
<1>12. ASSUME d.stop = "none" /\ ~(last /\ d.lead)
       PROVE  Leaves(f, c, e, room, last, g, m)
  <2>1. g.stop = "empty"
    BY <1>8, <1>12 DEF Decoders, Ended
  <2> HIDE DEF g
  <2> QED
    BY <1>8, <1>9, <1>10, <1>12, <2>1 DEF Leaves
<1>13. ASSUME d.stop # "none"
       PROVE  Leaves(f, c, e, room, last, g, m)
  <2>1. g.stop = d.stop
    BY <1>13 DEF Ended
  <2> HIDE DEF g
  <2> QED
    BY <1>8, <1>9, <1>10, <1>13, <2>1 DEF Leaves, Stands
<1>14. Leaves(f, c, e, room, last, g, m)
  <2> HIDE DEF g
  <2> QED
    BY <1>11, <1>12, <1>13
<1>15. g = Decode(SubSeq(f, c + 1, e), open, room, last)
  BY <1>3 DEF d, bytes
<1> HIDE DEF g
<1> QED
  BY <1>14, <1>15

-----------------------------------------------------------------------------
(* The steps.                                                              *)

\* A step of the contract, or none.
Follows == Contract!Next \/ UNCHANGED Contract!vars

\* Text that goes on from what was handed over, and that the file's text goes on
\* from, may be handed over.
LEMMA MayHand ==
  ASSUME handed \in Seq(Unit), NEW x \in Seq(Unit), x # <<>>,
         NEW rest \in Seq(Unit), Text(file, declares) = (handed \o x) \o rest,
         handed' = handed \o x, told' = "text", UNCHANGED <<file, declares>>
  PROVE  Follows
<1> DEFINE t == Text(file, declares)
           h == handed \o x
<1>1. h \in Seq(Unit) /\ Len(h) = Len(handed) + Len(x)
  BY ConcatProperties
<1>2. Len(handed) \in Nat /\ Len(x) \in Nat /\ Len(x) # 0
  <2>1. Len(x) # 0
    BY EmptySeq
  <2> QED
    BY <2>1
<1>3. Len(h) > Len(handed) /\ Len(h) \in Nat /\ Len(h) # 0 /\ h # handed
  <2> DEFINE a == Len(handed)
             b == Len(x)
  <2>1. a \in Nat /\ b \in Nat /\ b # 0 /\ Len(h) = a + b
    BY <1>1, <1>2
  <2> HIDE DEF a, b, h
  <2>2. Len(h) > a /\ Len(h) \in Nat /\ Len(h) # 0 /\ Len(h) # a
    BY <2>1
  <2> QED
    BY <2>2 DEF a
<1>4. t = h \o rest
  OBVIOUS
<1> HIDE DEF t, h
<1>5. SubSeq(t, 1, Len(h)) = h /\ Len(h) <= Len(t)
  BY <1>1, <1>4, ConcatBegins
<1>6. t \in Seq(Unit) /\ Len(t) \in Nat
  BY <1>1, <1>4, ConcatProperties
<1>7. Len(h) \in 1 .. Len(t)
  BY <1>3, <1>5, <1>6
<1>8. handed' = h
  BY DEF h
<1>9. Contract!Hand
  BY <1>3, <1>5, <1>7, <1>8 DEF Contract!Hand, t
<1> QED
  BY <1>9 DEF Follows, Contract!Next

\* What was handed over and what is ready to be is how the file's text begins.
LEMMA TextGoesOn ==
  ASSUME IInv, guard = "passed"
  PROVE  \E rest \in Seq(Unit) :
           Text(file, declares) = ((handed \o replay) \o out) \o rest
<1>1. /\ file \in Files /\ at \in 0 .. Len(file) /\ Len(file) \in Nat
      /\ handed \in Seq(Unit) /\ replay \in Seq(Unit) /\ out \in Seq(Unit)
      /\ declares \in {"utf8", "known"}
  BY DEF IInv, Types, Judged, Files
<1>2. CASE declares = "utf8"
  <2>1. out = <<>> /\ handed \o replay = SubSeq(file, 1, at)
    BY <1>2 DEF IInv, PlainInv
  <2>2. file \in Seq(Unit)
    BY <1>1 DEF Files, Unit
  <2>3. First(file, at) = SubSeq(file, 1, at)
    BY <1>1 DEF First, MinOf
  <2>4. file = First(file, at) \o From(file, at) /\ From(file, at) \in Seq(Unit)
    BY <1>1, <2>2, FirstAndFrom
  <2>5. Text(file, declares) = file
    BY <1>2 DEF Text
  <2>6. (handed \o replay) \o out = handed \o replay
    <3>1. handed \o replay \in Seq(Unit)
      BY <1>1, ConcatProperties
    <3> QED
      BY <2>1, <3>1, ConcatEmptySeq
  <2> QED
    BY <2>1, <2>3, <2>4, <2>5, <2>6
<1>3. CASE declares = "known"
  <2>1. /\ Legal(file, Consumed)
        /\ (handed \o replay) \o out = Upto(file, Consumed)
        /\ Consumed \in 0 .. Len(file)
    <3>1. Len(raw) \in Nat /\ Len(raw) <= at
      BY <1>3 DEF IInv, TextInv, Types, Files
    <3>2. Consumed \in 0 .. Len(file)
      BY <1>1, <3>1 DEF Consumed
    <3> QED
      BY <1>3, <3>2 DEF IInv, TextInv
  <2> QED
    BY <1>1, <1>3, <2>1, TextBegins
<1> QED
  BY <1>1, <1>2, <1>3

\* At first the guard has read nothing.
LEMMA InitInv == Init => IInv /\ Contract!Init
<1> SUFFICES ASSUME Init
             PROVE  IInv /\ Contract!Init
  OBVIOUS
<1>1. file \in Files
  <2>1. PICK n \in 0 .. MaxBytes : file \in [1 .. n -> Kinds]
    BY DEF Init
  <2>2. n \in Nat
    BY InputAssumption
  <2> QED
    BY <2>1, <2>2 DEF Files
<1>2. Types
  <2>1. Len(file) \in Nat /\ <<>> \in Files /\ <<>> \in Seq(Unit)
    BY <1>1 DEF Files
  <2>2. at \in 0 .. Len(file) /\ want \in Nat
    BY <2>1 DEF Init
  <2>3. lead \in BOOLEAN /\ eof \in BOOLEAN /\ done \in BOOLEAN /\ failed \in BOOLEAN
    BY DEF Init
  <2>4. raw \in Files /\ replay \in Seq(Unit) /\ out \in Seq(Unit) /\ handed \in Seq(Unit)
    BY <2>1 DEF Init
  <2>5. /\ declares \in {"utf8", "known", "unknown"}
        /\ guard \in {"opening", "passed", "refused", "failed"}
    BY DEF Init
  <2> QED
    BY <1>1, <2>2, <2>3, <2>4, <2>5 DEF Types
<1>3. Opening /\ Judged /\ PlainInv /\ TextInv
  BY DEF Init, Opening, Judged, PlainInv, TextInv
<1> QED
  BY <1>2, <1>3 DEF IInv, Init, Contract!Init

\* The prefix is the file up to some byte.
LEMMA PrefixOf ==
  ASSUME file \in Files
  PROVE  \E e \in 0 .. Len(file) :
           /\ Prefix = SubSeq(file, 1, e) /\ Prefix \in Files /\ Len(Prefix) = e
           /\ e <= PrefixBytes
<1>1. Len(file) \in Nat /\ PrefixBytes \in Nat
  BY InputAssumption DEF Files
<1> DEFINE e == IF Len(file) < PrefixBytes THEN Len(file) ELSE PrefixBytes
<1>2. e \in 0 .. Len(file) /\ e <= PrefixBytes
  BY <1>1
<1>3. Prefix = SubSeq(file, 1, e)
  BY DEF Prefix
<1> HIDE DEF e
<1>4. 0 \in 0 .. e /\ 0 + 1 = 1 /\ e - 0 = e
  BY <1>1, <1>2
<1>5. SubSeq(file, 0 + 1, e) \in Files /\ Len(SubSeq(file, 0 + 1, e)) = e - 0
  BY <1>2, <1>4, BytesOf
<1> QED
  BY <1>2, <1>3, <1>4, <1>5

\* What the guard makes of the prefix of a file that is to be decoded: all of it
\* is decoded, unless some byte of the file is no text.
LEMMA PrefixDecoded ==
  ASSUME file \in Files
  PROVE  \/ /\ Decoded.stop = "malformed"
            /\ \E i \in 1 .. Len(file) : ~IsText(file, i)
         \/ /\ Decoded.stop # "malformed"
            /\ Decoded.lead \in BOOLEAN /\ Decoded.text \in Seq(Unit)
            /\ Decoded.text = Upto(file, Len(Prefix))
            /\ Legal(file, Len(Prefix))
            /\ Decoded.lead <=> Opens(file, Len(Prefix))
<1>1. PICK e \in 0 .. Len(file) :
        /\ Prefix = SubSeq(file, 1, e) /\ Len(Prefix) = e /\ e <= PrefixBytes
  BY PrefixOf
<1>2. Len(file) \in Nat /\ PrefixBytes \in Nat /\ e \in Nat /\ 0 \in 0 .. e
  BY InputAssumption DEF Files
<1>3. Legal(file, 0) /\ ~Opens(file, 0)
  BY DEF Legal, Opens
<1>4. 2 * PrefixBytes \in Nat
  BY <1>2
<1>5. FALSE \in BOOLEAN /\ (FALSE <=> Opens(file, 0))
  BY <1>3
<1> DEFINE room == 2 * PrefixBytes
<1>6. PICK m \in 0 .. e : Leaves(file, 0, e, room, FALSE, Decoded, m)
  <2>1. Decoded = Decode(SubSeq(file, 0 + 1, e), FALSE, room, FALSE)
    BY <1>1 DEF Decoded
  <2> HIDE DEF room
  <2>2. \E m \in 0 .. e :
          Leaves(file, 0, e, room, FALSE,
                 Decode(SubSeq(file, 0 + 1, e), FALSE, room, FALSE), m)
    BY <1>2, <1>3, <1>4, <1>5, DecodeLeaves DEF room
  <2> QED
    BY <2>1, <2>2
<1>7. Decoded.stop # "full"
  <2> SUFFICES ASSUME Decoded.stop = "full"
               PROVE  FALSE
    OBVIOUS
  <2>1. m < e /\ 2 * ((m + 1) - 0) + (IF Opens(file, 0) THEN 2 ELSE 0) > 2 * PrefixBytes
    BY <1>6 DEF Leaves
  <2>2. m \in Nat /\ 2 * ((m + 1) - 0) + 0 > 2 * PrefixBytes /\ m + 1 <= PrefixBytes
    BY <1>1, <1>2, <1>3, <2>1
  <2> QED
    BY <1>2, <2>2
<1>8. CASE Decoded.stop = "malformed"
  BY <1>6, <1>8 DEF Leaves
<1>9. CASE Decoded.stop = "empty"
  <2>1. /\ m = e /\ Decoded.lead \in BOOLEAN /\ Says(file, 0, m, Decoded.text)
        /\ Legal(file, m) /\ (Decoded.lead <=> Opens(file, m))
    BY <1>6, <1>9 DEF Leaves
  <2>2. Upto(file, 0) = <<>>
    BY UptoStep
  <2>3. Decoded.text \in Seq(Unit) /\ Upto(file, m) = <<>> \o Decoded.text
    BY <2>1, <2>2 DEF Says
  <2>4. Upto(file, m) = Decoded.text
    BY <2>3, ConcatEmptySeq
  <2> QED
    BY <1>1, <1>9, <2>1, <2>3, <2>4
<1> QED
  BY <1>6, <1>7, <1>8, <1>9 DEF Leaves

\* The guard lets the file pass.
LEMMA SettleStep ==
  ASSUME IInv, Settle
  PROVE  IInv' /\ Follows
<1>1. /\ file \in Files /\ Types /\ Opening /\ guard = "opening" /\ guard' = "passed"
      /\ ~Refused /\ at' = Len(Prefix) /\ UNCHANGED <<file, declares, handed, told>>
      /\ UNCHANGED <<raw, out, eof, done, failed, want>>
  BY DEF IInv, Types, Settle, inputs
<1>2. /\ at = 0 /\ want = 0 /\ ~lead /\ ~eof /\ ~done /\ ~failed
      /\ raw = <<>> /\ replay = <<>> /\ out = <<>> /\ handed = <<>>
  BY <1>1 DEF Opening
<1>3. PICK e \in 0 .. Len(file) :
        Prefix = SubSeq(file, 1, e) /\ Prefix \in Files /\ Len(Prefix) = e
  BY <1>1, PrefixOf
<1>4. Len(file) \in Nat /\ e \in Nat /\ Len(<<>>) = 0 /\ e - 0 = e
  BY <1>1 DEF Files
<1>5. Follows
  BY <1>1 DEF Follows, Contract!vars
<1>6. Opening' /\ Judged'
  BY <1>1 DEF Opening, Judged, Refused, IInv
<1>7. CASE declares = "utf8"
  <2>1. replay' = Prefix /\ lead' = lead
    BY <1>7 DEF Settle
  <2>2. replay' \in Seq(Unit)
    BY <1>3, <2>1 DEF Files, Unit
  <2>3. Types'
    BY <1>1, <1>3, <2>1, <2>2 DEF Types
  <2>4. PlainInv'
    <3>1. <<>> \o Prefix = Prefix
      BY <1>3, ConcatEmptySeq DEF Files
    <3> QED
      BY <1>1, <1>2, <1>3, <2>1, <3>1 DEF PlainInv
  <2>5. TextInv'
    BY <1>1, <1>7 DEF TextInv
  <2> QED
    BY <1>5, <1>6, <2>3, <2>4, <2>5 DEF IInv
<1>8. CASE declares = "known"
  <2>1. replay' = Decoded.text /\ lead' = Decoded.lead
    BY <1>8 DEF Settle
  <2>2. /\ Decoded.lead \in BOOLEAN /\ Decoded.text \in Seq(Unit)
        /\ Decoded.text = Upto(file, e) /\ Legal(file, e)
        /\ Decoded.lead <=> Opens(file, e)
    BY <1>1, <1>3, <1>8, PrefixDecoded DEF Refused
  <2>3. Types'
    BY <1>1, <1>3, <2>1, <2>2 DEF Types
  <2>4. PlainInv'
    BY <1>1, <1>8 DEF PlainInv
  <2>5. Consumed' = e /\ at' = e
    BY <1>1, <1>2, <1>3, <1>4 DEF Consumed
  <2>6. (handed' \o replay') \o out' = Upto(file, e)
    <3>1. <<>> \o Decoded.text = Decoded.text /\ Decoded.text \o <<>> = Decoded.text
      BY <2>2, ConcatEmptySeq
    <3> QED
      BY <1>1, <1>2, <2>1, <2>2, <3>1
  <2>7. raw' = SubSeq(file, e + 1, e) /\ Len(raw') <= e
    <3>1. e \in 0 .. e /\ e - e = 0
      BY <1>4
    <3>2. SubSeq(file, e + 1, e) \in Files /\ Len(SubSeq(file, e + 1, e)) = 0
      BY <1>1, <3>1, BytesOf
    <3>3. SubSeq(file, e + 1, e) = <<>>
      BY <3>2, EmptySeq DEF Files
    <3> QED
      BY <1>1, <1>2, <1>4, <3>3
  <2>8. TextInv'
    BY <1>1, <1>2, <2>1, <2>2, <2>5, <2>6, <2>7 DEF TextInv
  <2> QED
    BY <1>5, <1>6, <2>3, <2>4, <2>8 DEF IInv
<1> QED
  BY <1>1, <1>7, <1>8 DEF Types, Refused

\* The guard fails, and only for a file that is not what it declares.
LEMMA SettleFailsStep ==
  ASSUME IInv, SettleFails
  PROVE  IInv' /\ Follows
<1>1. /\ file \in Files /\ Types /\ Opening /\ guard = "opening"
      /\ guard' \in {"failed", "refused"} /\ Refused /\ at' = Len(Prefix)
      /\ UNCHANGED <<file, declares, handed, replay, lead, raw, out, eof, done,
                     failed, want>>
  BY DEF IInv, Types, SettleFails, inputs, decoder
<1>2. want = 0
  BY <1>1 DEF Opening
<1>3. PICK e \in 0 .. Len(file) : Len(Prefix) = e
  BY <1>1, PrefixOf
<1>4. ~Sound(file, declares)
  <2>1. CASE declares = "unknown"
    BY <2>1 DEF Sound
  <2>2. CASE declares = "known" /\ Decoded.stop = "malformed"
    <3>1. \E i \in 1 .. Len(file) : ~IsText(file, i)
      BY <1>1, <2>2, PrefixDecoded
    <3>2. DOMAIN file = 1 .. Len(file)
      BY <1>1 DEF Files
    <3> QED
      BY <2>2, <3>1, <3>2 DEF Sound
  <2> QED
    BY <1>1, <2>1, <2>2 DEF Refused
<1>5. Types'
  BY <1>1, <1>3 DEF Types
<1>6. Opening' /\ Judged' /\ PlainInv' /\ TextInv'
  BY <1>1, <1>2, <1>4 DEF Opening, Judged, PlainInv, TextInv
<1>7. Follows
  <2>1. CASE told' = told
    BY <1>1, <2>1 DEF Follows, Contract!vars
  <2>2. CASE told' = "error"
    BY <1>1, <1>4, <2>2 DEF Follows, Contract!Next, Contract!Fail
  <2> QED
    BY <2>1, <2>2 DEF SettleFails
<1> QED
  BY <1>5, <1>6, <1>7 DEF IInv

\* A failure the guard kept, or that the decoder met, is told.
LEMMA ErrorStep ==
  ASSUME IInv, ReadFails \/ ReadMalformed
  PROVE  IInv' /\ Follows
<1>1. /\ told' = "error"
      /\ UNCHANGED <<file, declares, at, guard, replay, lead, raw, out, eof, done,
                     failed, want, handed>>
  BY DEF ReadFails, ReadMalformed, inputs, decoder
<1>2. ~Sound(file, declares)
  BY DEF ReadFails, ReadMalformed, IInv, Judged, TextInv
<1>3. Follows
  BY <1>1, <1>2 DEF Follows, Contract!Next, Contract!Fail
<1>4. IInv'
  BY <1>1 DEF IInv, Types, Opening, Judged, PlainInv, TextInv, Consumed
<1> QED
  BY <1>3, <1>4

\* A read of what was put back.
LEMMA ReplayStep ==
  ASSUME IInv, NEW n \in 1 .. BufBytes, ReadReplay(n)
  PROVE  IInv' /\ Follows
<1> DEFINE x == First(replay, n)
           y == From(replay, n)
<1>1. /\ Types /\ guard = "passed" /\ want = 0 /\ replay # <<>>
      /\ handed' = handed \o x /\ told' = "text" /\ replay' = y
      /\ UNCHANGED <<file, declares, at, guard, lead, raw, out, eof, done, failed,
                     want>>
  BY DEF IInv, ReadReplay, Idle, Hand, inputs, decoder
<1>2. /\ handed \in Seq(Unit) /\ replay \in Seq(Unit) /\ out \in Seq(Unit)
      /\ n \in Nat /\ n # 0
  BY <1>1 DEF Types
<1>3. x \in Seq(Unit) /\ y \in Seq(Unit) /\ replay = x \o y /\ x # <<>>
  BY <1>1, <1>2, FirstAndFrom
<1> HIDE DEF x, y
<1>4. handed \o replay = (handed \o x) \o y /\ handed \o x \in Seq(Unit)
  <2>1. handed \o x \in Seq(Unit)
    BY <1>2, <1>3, ConcatProperties
  <2>2. (handed \o x) \o y = handed \o (x \o y)
    BY <1>2, <1>3, UnitsAssociate
  <2> QED
    BY <1>3, <2>1, <2>2
<1>5. Follows
  <2>1. PICK rest \in Seq(Unit) :
          Text(file, declares) = ((handed \o replay) \o out) \o rest
    BY <1>1, TextGoesOn
  <2>2. (((handed \o x) \o y) \o out) \o rest = (handed \o x) \o (y \o (out \o rest))
    <3> DEFINE h == handed \o x
    <3>1. h \in Seq(Unit)
      BY <1>4
    <3> HIDE DEF h
    <3>2. ((h \o y) \o out) \o rest = h \o (y \o (out \o rest))
      <4>1. h \in Written /\ y \in Written /\ out \in Written /\ rest \in Written
        BY <1>2, <1>3, <3>1 DEF Written
      <4>2. Put(Put(Put(h, y), out), rest) = Put(h, Put(y, Put(out, rest)))
        BY <4>1, FourPuts
      <4> QED
        BY <4>2, Zenon DEF Put
    <3> QED
      BY <3>2 DEF h
  <2>3. y \o (out \o rest) \in Seq(Unit)
    BY <1>2, <1>3, ConcatProperties
  <2>4. Text(file, declares) = (handed \o x) \o (y \o (out \o rest))
    BY <1>4, <2>1, <2>2
  <2> QED
    BY <1>1, <1>2, <1>3, <2>3, <2>4, MayHand
<1>6. handed' \o replay' = handed \o replay /\ handed' \in Seq(Unit)
  BY <1>1, <1>4
<1>7. Types'
  BY <1>1, <1>3, <1>6 DEF Types
<1>8. PlainInv'
  BY <1>1, <1>6 DEF IInv, PlainInv
<1>9. TextInv'
  BY <1>1, <1>6 DEF IInv, TextInv, Consumed
<1>10. Opening' /\ Judged'
  BY <1>1 DEF IInv, Opening, Judged
<1> QED
  BY <1>5, <1>7, <1>8, <1>9, <1>10 DEF IInv

\* A read of what was decoded.
LEMMA OutStep ==
  ASSUME IInv, NEW n \in 1 .. BufBytes, ReadOut(n)
  PROVE  IInv' /\ Follows
<1> DEFINE x == First(out, n)
           y == From(out, n)
<1>1. /\ Types /\ guard = "passed" /\ want = 0 /\ out # <<>> /\ replay = <<>>
      /\ declares = "known"
      /\ handed' = handed \o x /\ told' = "text" /\ out' = y
      /\ UNCHANGED <<file, declares, at, guard, replay, lead, raw, eof, done, failed,
                     want>>
  BY DEF IInv, ReadOut, Idle, Hand, inputs
<1>2. handed \in Seq(Unit) /\ out \in Seq(Unit) /\ n \in Nat /\ n # 0
  BY <1>1 DEF Types
<1>3. x \in Seq(Unit) /\ y \in Seq(Unit) /\ out = x \o y /\ x # <<>>
  BY <1>1, <1>2, FirstAndFrom
<1> HIDE DEF x, y
<1>4. handed \o out = (handed \o x) \o y /\ handed \o x \in Seq(Unit)
  BY <1>2, <1>3, UnitsAssociate, ConcatProperties
<1>5. handed \o replay = handed /\ (handed \o x) \o replay = handed \o x
  BY <1>1, <1>2, <1>4, ConcatEmptySeq
<1>6. Follows
  <2>1. PICK rest \in Seq(Unit) :
          Text(file, declares) = ((handed \o replay) \o out) \o rest
    BY <1>1, TextGoesOn
  <2>2. ((handed \o x) \o y) \o rest = (handed \o x) \o (y \o rest)
    BY <1>3, <1>4, UnitsAssociate
  <2>3. y \o rest \in Seq(Unit)
    BY <1>3, ConcatProperties
  <2>4. Text(file, declares) = (handed \o x) \o (y \o rest)
    BY <1>4, <1>5, <2>1, <2>2
  <2> QED
    BY <1>1, <1>2, <1>3, <2>3, <2>4, MayHand
<1>7. (handed' \o replay') \o out' = (handed \o replay) \o out
  BY <1>1, <1>4, <1>5
<1>8. Types'
  BY <1>1, <1>3, <1>4 DEF Types
<1>9. TextInv'
  BY <1>1, <1>7 DEF IInv, TextInv, Consumed
<1>10. Opening' /\ Judged' /\ PlainInv'
  BY <1>1 DEF IInv, Opening, Judged, PlainInv
<1> QED
  BY <1>6, <1>8, <1>9, <1>10 DEF IInv

\* A read of the file itself.
LEMMA BytesStep ==
  ASSUME IInv, NEW n \in 1 .. BufBytes, ReadBytes(n)
  PROVE  IInv' /\ Follows
<1>1. /\ Types /\ guard = "passed" /\ want = 0 /\ replay = <<>> /\ declares = "utf8"
      /\ out = <<>>
      /\ UNCHANGED <<file, declares, guard, replay, lead, raw, out, eof, done, failed,
                     want>>
  BY DEF IInv, ReadBytes, Idle, inputs, decoder, PlainInv
<1>2. PICK k \in Short(n) :
        /\ at' = at + k
        /\ handed' = handed \o SubSeq(file, at + 1, at + k)
        /\ told' = IF k = 0 THEN "end" ELSE "text"
  BY DEF ReadBytes
<1>3. /\ file \in Files /\ handed \in Seq(Unit) /\ at \in Nat /\ Len(file) \in Nat
      /\ at <= Len(file)
  BY <1>1 DEF Types, Files
<1>4. /\ k \in Nat /\ at + k \in 0 .. Len(file) /\ at \in 0 .. at + k
      /\ k = 0 => at = Len(file)
  <2>1. k \in 0 .. MinOf(n, Len(file) - at) /\ (k = 0 => at = Len(file))
    BY DEF Short
  <2>2. MinOf(n, Len(file) - at) <= Len(file) - at /\ MinOf(n, Len(file) - at) \in Int
    BY <1>3 DEF MinOf
  <2> DEFINE l == Len(file)
             q == MinOf(n, l - at)
  <2>3. l \in Nat /\ at \in Nat /\ at <= l /\ k \in 0 .. q /\ q <= l - at /\ q \in Int
    BY <1>3, <2>1, <2>2
  <2> HIDE DEF l, q
  <2>4. k \in Nat /\ at + k \in 0 .. l /\ at \in 0 .. at + k
    BY <2>3
  <2> QED
    BY <2>1, <2>4 DEF l
<1> DEFINE x == SubSeq(file, at + 1, at + k)
<1>5. x \in Files /\ Len(x) = k /\ x \in Seq(Unit)
  <2>1. x \in Files /\ Len(x) = (at + k) - at
    BY <1>3, <1>4, BytesOf
  <2> HIDE DEF x
  <2>2. (at + k) - at = k
    BY <1>3, <1>4
  <2> QED
    BY <2>1, <2>2 DEF Files, Unit
<1>6. handed = SubSeq(file, 1, at)
  <2>1. handed \o replay = SubSeq(file, 1, at)
    BY <1>1 DEF IInv, PlainInv
  <2>2. handed \o replay = handed
    BY <1>1, <1>3, ConcatEmptySeq
  <2> QED
    BY <2>1, <2>2
<1>7. handed \o x = SubSeq(file, 1, at + k)
  <2> DEFINE g == SubSeq(file, 1, at + k)
             h == First(g, at)
  <2>1. g \in Files /\ Len(g) = at + k /\ \A i \in 1 .. at + k : g[i] = file[i]
    <3>1. 0 \in 0 .. at + k /\ 0 + 1 = 1 /\ (at + k) - 0 = at + k
      BY <1>3, <1>4
    <3>2. \A i \in 1 .. at + k : 0 + i = i
      OBVIOUS
    <3>3. /\ SubSeq(file, 0 + 1, at + k) \in Files
          /\ Len(SubSeq(file, 0 + 1, at + k)) = (at + k) - 0
          /\ \A i \in 1 .. (at + k) - 0 : SubSeq(file, 0 + 1, at + k)[i] = file[0 + i]
      BY <1>3, <1>4, <3>1, BytesOf
    <3> QED
      BY <3>1, <3>2, <3>3
  <2>2. handed \in Files /\ Len(handed) = at /\ \A i \in 1 .. at : handed[i] = file[i]
    <3>1. 0 \in 0 .. at /\ 0 + 1 = 1 /\ at - 0 = at /\ at \in 0 .. Len(file)
      BY <1>3, <1>4
    <3>2. \A i \in 1 .. at : 0 + i = i
      OBVIOUS
    <3>3. /\ SubSeq(file, 0 + 1, at) \in Files
          /\ Len(SubSeq(file, 0 + 1, at)) = at - 0
          /\ \A i \in 1 .. at - 0 : SubSeq(file, 0 + 1, at)[i] = file[0 + i]
      BY <1>3, <3>1, BytesOf
    <3> QED
      BY <1>6, <3>1, <3>2, <3>3
  <2>3. \A i \in 1 .. k : x[i] = file[at + i]
    <3>1. \A i \in 1 .. (at + k) - at : x[i] = file[at + i]
      BY <1>3, <1>4, BytesOf
    <3>2. (at + k) - at = k
      BY <1>3, <1>4
    <3> QED
      BY <3>1, <3>2
  <2> HIDE DEF g, x
  <2>4. /\ handed \o x \in Seq(Kinds) /\ Len(handed \o x) = Len(handed) + Len(x)
        /\ \A i \in 1 .. Len(handed) + Len(x) :
             (handed \o x)[i] = IF i <= Len(handed) THEN handed[i]
                                ELSE x[i - Len(handed)]
    BY <1>5, <2>2, ConcatProperties DEF Files
  <2>5. Len(handed \o x) = Len(g)
    BY <1>5, <2>1, <2>2, <2>4
  <2>6. ASSUME NEW i \in 1 .. Len(g) PROVE g[i] = (handed \o x)[i]
    <3>1. i \in 1 .. at + k /\ g[i] = file[i]
      BY <2>1
    <3>2. (handed \o x)[i] = IF i <= at THEN handed[i] ELSE x[i - at]
      BY <1>5, <2>2, <2>4, <3>1
    <3>3. CASE i <= at
      <4>1. i \in 1 .. at
        BY <3>1, <3>3
      <4> QED
        BY <2>2, <3>1, <3>2, <3>3, <4>1
    <3>4. CASE ~(i <= at)
      <4>1. i - at \in 1 .. k /\ at + (i - at) = i
        BY <1>3, <1>4, <3>1, <3>4
      <4>2. x[i - at] = file[at + (i - at)]
        BY <2>3, <4>1
      <4> QED
        BY <3>1, <3>2, <3>4, <4>1, <4>2
    <3> QED
      BY <3>3, <3>4
  <2>7. g = handed \o x
    BY <2>1, <2>4, <2>5, <2>6, SeqEqual DEF Files
  <2> QED
    BY <2>7 DEF g
<1> HIDE DEF x
<1>8. handed' = handed \o x /\ handed \o x \in Seq(Unit)
  BY <1>2, <1>3, <1>5, ConcatProperties DEF x
<1>9. Types'
  BY <1>1, <1>2, <1>3, <1>4, <1>8 DEF Types
<1>10. PlainInv'
  <2>1. (handed \o x) \o <<>> = handed \o x
    BY <1>8, ConcatEmptySeq
  <2> QED
    BY <1>1, <1>2, <1>7, <1>8, <2>1 DEF PlainInv
<1>11. Opening' /\ Judged' /\ TextInv'
  BY <1>1 DEF IInv, Opening, Judged, TextInv
<1>12. Follows
  <2>1. Text(file, declares) = file /\ Sound(file, declares)
    BY <1>1 DEF Text, Sound
  <2>2. file \in Seq(Unit)
    BY <1>3 DEF Files, Unit
  <2>3. CASE k = 0
    <3>1. at + k = Len(file) /\ x = <<>> /\ told' = "end"
      BY <1>2, <1>3, <1>4, <1>5, <2>3, EmptySeq
    <3>2. handed' = handed
      BY <1>3, <1>8, <3>1, ConcatEmptySeq
    <3>3. SubSeq(file, 1, Len(file)) = file
      <4>1. First(file, Len(file)) = SubSeq(file, 1, Len(file))
        BY <1>3 DEF First, MinOf
      <4>2. file = First(file, Len(file)) \o From(file, Len(file))
        BY <1>3, <2>2, FirstAndFrom
      <4>3. From(file, Len(file)) = <<>>
        <5>1. Len(file) \in 0 .. Len(file) /\ Len(file) - Len(file) = 0
              /\ Len(file) \in 0 .. Len(file)
          BY <1>3
        <5>2. /\ SubSeq(file, Len(file) + 1, Len(file)) \in Files
              /\ Len(SubSeq(file, Len(file) + 1, Len(file))) = 0
          BY <1>3, <5>1, BytesOf
        <5> QED
          BY <5>2, EmptySeq DEF From, Files
      <4>4. SubSeq(file, 1, Len(file)) \in Seq(Unit)
        BY <1>3, <2>2, <4>1, FirstAndFrom
      <4> QED
        BY <4>1, <4>2, <4>3, <4>4, ConcatEmptySeq
    <3>4. handed = file
      BY <1>7, <1>8, <3>1, <3>2, <3>3
    <3> QED
      BY <1>1, <2>1, <3>1, <3>2, <3>4 DEF Follows, Contract!Next, Contract!End
  <2>4. CASE k # 0
    <3>1. x # <<>> /\ told' = "text"
      BY <1>2, <1>5, <2>4
    <3>2. First(file, at + k) = SubSeq(file, 1, at + k)
      BY <1>3, <1>4 DEF First, MinOf
    <3>3. /\ file = First(file, at + k) \o From(file, at + k)
          /\ From(file, at + k) \in Seq(Unit)
      <4>1. at + k \in Nat
        BY <1>3, <1>4
      <4> QED
        BY <2>2, <4>1, FirstAndFrom
    <3>4. Text(file, declares) = (handed \o x) \o From(file, at + k)
      BY <1>7, <2>1, <3>2, <3>3
    <3> QED
      BY <1>1, <1>3, <1>5, <1>8, <3>1, <3>3, <3>4, MayHand
  <2> QED
    BY <2>3, <2>4
<1> QED
  BY <1>9, <1>10, <1>11, <1>12 DEF IInv

\* A read that needs the decoder begins.
LEMMA RefillsStep ==
  ASSUME IInv, NEW n \in 1 .. BufBytes, ReadRefills(n)
  PROVE  IInv' /\ Follows
<1>1. /\ guard = "passed" /\ replay = <<>> /\ declares = "known" /\ out = <<>>
      /\ ~failed /\ want' = n
      /\ UNCHANGED <<file, declares, at, guard, replay, lead, raw, out, eof, done,
                     failed, handed, told>>
  BY DEF ReadRefills, Idle, inputs, decoder
<1>2. Follows
  BY <1>1 DEF Follows, Contract!vars
<1>3. IInv'
  BY <1>1 DEF IInv, Types, Opening, Judged, PlainInv, TextInv, Consumed
<1> QED
  BY <1>2, <1>3

\* A turn of the decoder over the bytes it still holds and those just read.
LEMMA TurnStep ==
  ASSUME IInv, want # 0, NEW e \in 0 .. Len(file), Consumed \in 0 .. e, at' = e,
         NEW last \in BOOLEAN, last => e = Len(file),
         eof' \in BOOLEAN, eof' => e = Len(file),
         Turn(SubSeq(file, Consumed + 1, e), last),
         UNCHANGED <<inputs, guard, replay>>
  PROVE  IInv' /\ Follows
<1>1. /\ Types /\ guard = "passed" /\ declares = "known"
      /\ UNCHANGED <<file, declares, guard, replay>>
  BY DEF IInv, Types, Opening, Judged, PlainInv, inputs
<1>2. /\ file \in Files /\ handed \in Seq(Unit) /\ want \in Nat /\ Len(file) \in Nat
      /\ lead \in BOOLEAN /\ Consumed \in Nat /\ e \in Nat /\ StagingBytes \in Nat
  BY <1>1, InputAssumption DEF Types, Files
<1>3. /\ replay = <<>> /\ out = <<>> /\ ~failed
      /\ Legal(file, Consumed) /\ (lead <=> Opens(file, Consumed))
      /\ (handed \o replay) \o out = Upto(file, Consumed)
  BY <1>1 DEF IInv, TextInv
<1>4. handed = Upto(file, Consumed) /\ handed \o <<>> = handed
  BY <1>2, <1>3, ConcatEmptySeq
<1> DEFINE c == Consumed
           d == Decode(SubSeq(file, c + 1, e), lead, StagingBytes, last)
<1>5. PICK m \in c .. e : Leaves(file, c, e, StagingBytes, last, d, m)
  <2> HIDE DEF c
  <2>1. c \in 0 .. e /\ Legal(file, c) /\ (lead <=> Opens(file, c))
    BY <1>3 DEF c
  <2> QED
    BY <1>2, <2>1, DecodeLeaves
<1>6. /\ lead' = d.lead /\ raw' = d.left
      /\ failed' = (d.stop = "malformed")
      /\ done' = (last /\ d.stop = "empty")
      /\ want' = IF d.text # <<>> \/ done' \/ failed' THEN 0 ELSE want
      /\ failed' => told' = "error" /\ out' = d.text /\ handed' = handed
      /\ ~failed' /\ d.text # <<>> =>
           /\ handed' = handed \o First(d.text, want) /\ told' = "text"
           /\ out' = From(d.text, want)
      /\ ~failed' /\ d.text = <<>> =>
           /\ told' = IF done' THEN "end" ELSE told
           /\ out' = out /\ handed' = handed
  BY DEF Turn, Hand
<1> HIDE DEF d
<1>7. /\ d.lead \in BOOLEAN /\ d.left = SubSeq(file, m + 1, e)
      /\ d.text \in Seq(Unit) /\ Upto(file, m) = handed \o d.text
      /\ Legal(file, m) /\ (d.lead <=> Opens(file, m))
  BY <1>4, <1>5 DEF Leaves, Says, c
<1>8. /\ d.stop = "empty" => m = e /\ (last => ~d.lead)
      /\ d.stop = "malformed" => ~Sound(file, declares)
  <2>1. d.stop = "malformed" => \E i \in 1 .. Len(file) : ~IsText(file, i)
    BY <1>5 DEF Leaves
  <2>2. DOMAIN file = 1 .. Len(file)
    BY <1>2 DEF Files
  <2> QED
    BY <1>1, <1>5, <2>1, <2>2 DEF Leaves, Sound
<1> HIDE DEF c
<1>9. m \in 0 .. e /\ m \in Nat /\ m \in 0 .. Len(file) /\ e - m \in Nat
  <2>1. c \in Nat /\ m \in c .. e
    BY <1>2, <1>5 DEF c
  <2> DEFINE l == Len(file)
  <2>2. l \in Nat /\ e \in 0 .. l
    BY <1>2
  <2> HIDE DEF l
  <2>3. m \in 0 .. e /\ m \in Nat /\ m \in 0 .. l /\ e - m \in Nat
    BY <2>1, <2>2
  <2> QED
    BY <2>3 DEF l
<1>10. raw' \in Files /\ Len(raw') = e - m /\ Len(raw') <= at' /\ Consumed' = m
  <2>1. raw' \in Files /\ Len(raw') = e - m
    BY <1>2, <1>6, <1>7, <1>9, BytesOf
  <2>2. Consumed' = e - (e - m)
    BY <2>1 DEF Consumed
  <2>3. e - (e - m) = m /\ e - m <= e
    BY <1>2, <1>9
  <2> QED
    BY <2>1, <2>2, <2>3
    \* What is handed over and kept is what was decoded.
<1>11. /\ handed' \in Seq(Unit) /\ out' \in Seq(Unit)
       /\ handed' \o out' = handed \o d.text
       /\ want' \in Nat /\ (want' # 0 => out' = <<>> /\ ~failed')
  <2>1. CASE failed'
    BY <1>2, <1>6, <1>7, <2>1
  <2>2. CASE ~failed' /\ d.text = <<>>
    BY <1>2, <1>3, <1>6, <1>7, <2>2
  <2>3. CASE ~failed' /\ d.text # <<>>
    <3> DEFINE x == First(d.text, want)
               y == From(d.text, want)
    <3>1. x \in Seq(Unit) /\ y \in Seq(Unit) /\ d.text = x \o y
      BY <1>2, <1>7, FirstAndFrom
    <3>2. handed' = handed \o x /\ out' = y /\ want' = 0
      BY <1>6, <2>3
    <3> HIDE DEF x, y
    <3>3. (handed \o x) \o y = handed \o (x \o y) /\ handed \o x \in Seq(Unit)
      BY <1>2, <3>1, UnitsAssociate, ConcatProperties
    <3> QED
      BY <3>1, <3>2, <3>3
  <2> QED
    BY <2>1, <2>2, <2>3
<1>12. (handed' \o replay') \o out' = Upto(file, m)
  <2>1. handed' \o <<>> = handed'
    BY <1>11, ConcatEmptySeq
  <2> QED
    BY <1>1, <1>3, <1>7, <1>11, <2>1
<1>13. Types'
  <2>1. lead' \in BOOLEAN /\ failed' \in BOOLEAN /\ done' \in BOOLEAN
    BY <1>6, <1>7
  <2> QED
    BY <1>1, <1>2, <1>10, <1>11, <2>1 DEF Types
<1>14. TextInv'
  <2>1. done' => m = Len(file) /\ ~lead'
    BY <1>6, <1>8
  <2>2. failed' => ~Sound(file, declares)
    BY <1>6, <1>8
  <2>3. Legal(file, m) /\ (lead' <=> Opens(file, m)) /\ raw' = SubSeq(file, m + 1, at')
    BY <1>6, <1>7
  <2>4. replay' = <<>>
    BY <1>1, <1>3
  <2> QED
    BY <1>1, <1>10, <1>11, <1>12, <2>1, <2>2, <2>3, <2>4 DEF TextInv
<1>15. Opening' /\ Judged' /\ PlainInv'
  BY <1>1 DEF Opening, Judged, PlainInv
<1>16. Follows
  <2>1. CASE failed'
    <3>1. ~Sound(file, declares) /\ told' = "error" /\ handed' = handed
      BY <1>6, <1>8, <2>1
    <3> QED
      BY <1>1, <3>1 DEF Follows, Contract!Next, Contract!Fail
  <2>2. CASE ~failed' /\ d.text = <<>> /\ ~done'
    <3>1. told' = told /\ handed' = handed
      BY <1>6, <2>2
    <3> QED
      BY <1>1, <3>1 DEF Follows, Contract!vars
  <2>3. CASE ~failed' /\ d.text = <<>> /\ done'
    <3>1. told' = "end" /\ handed' = handed /\ m = Len(file) /\ ~d.lead
      BY <1>6, <1>8, <2>3
    <3>2. Legal(file, Len(file)) /\ ~Opens(file, Len(file))
      BY <1>7, <3>1
    <3>3. Sound(file, "known") /\ Text(file, "known") = Upto(file, Len(file))
      BY <1>2, <3>2, TextIsAll
    <3>4. handed = Upto(file, Len(file))
      BY <1>2, <1>4, <1>7, <2>3, <3>1
    <3> QED
      BY <1>1, <3>1, <3>3, <3>4 DEF Follows, Contract!Next, Contract!End
  <2>4. CASE ~failed' /\ d.text # <<>>
    <3> DEFINE x == First(d.text, want)
               y == From(d.text, want)
    <3>1. x \in Seq(Unit) /\ y \in Seq(Unit) /\ d.text = x \o y /\ x # <<>>
      BY <1>2, <1>7, <2>4, FirstAndFrom
    <3>2. handed' = handed \o x /\ told' = "text"
      BY <1>6, <2>4
    <3> HIDE DEF x, y
    <3>3. PICK rest \in Seq(Unit) : Text(file, "known") = Upto(file, m) \o rest
      BY <1>2, <1>7, <1>9, TextBegins
    <3>4. /\ (handed \o x) \o y = handed \o (x \o y) /\ handed \o x \in Seq(Unit)
          /\ y \o rest \in Seq(Unit)
      BY <1>2, <3>1, UnitsAssociate, ConcatProperties
    <3>5. ((handed \o x) \o y) \o rest = (handed \o x) \o (y \o rest)
      BY <3>1, <3>4, UnitsAssociate
    <3>6. Text(file, declares) = (handed \o x) \o (y \o rest)
      BY <1>1, <1>7, <3>1, <3>3, <3>4, <3>5
    <3> QED
      BY <1>1, <1>2, <3>1, <3>2, <3>4, <3>6, MayHand
  <2> QED
    BY <2>1, <2>2, <2>3, <2>4
<1> QED
  BY <1>13, <1>14, <1>15, <1>16 DEF IInv

\* A turn of refill's loop.
LEMMA RefillStep ==
  ASSUME IInv, Refill
  PROVE  IInv' /\ Follows
<1>1. /\ Types /\ want # 0 /\ ~done /\ guard = "passed" /\ declares = "known"
      /\ UNCHANGED <<inputs, guard, replay>>
  BY DEF Refill, IInv, Types, Opening, Judged, PlainInv
<1>2. /\ file \in Files /\ Len(file) \in Nat /\ at \in 0 .. Len(file) /\ raw \in Files
      /\ eof \in BOOLEAN
  BY <1>1 DEF Types, Files
<1>3. /\ Len(raw) \in Nat /\ Len(raw) <= at /\ raw = SubSeq(file, Consumed + 1, at)
      /\ eof => at = Len(file)
  BY <1>1, <1>2 DEF IInv, TextInv, Files
<1>4. Consumed \in 0 .. at
  BY <1>2, <1>3 DEF Consumed
<1>5. CASE raw = <<>> /\ ~eof
  <2>1. PICK k \in Short(StagingBytes) :
          /\ at' = at + k /\ eof' = (k = 0)
          /\ Turn(SubSeq(file, at + 1, at + k), k = 0)
    BY <1>5 DEF Refill
  <2>2. Consumed = at
    <3>1. Len(raw) = 0
      BY <1>5
    <3> QED
      BY <1>2, <3>1 DEF Consumed
  <2>3. at + k \in 0 .. Len(file) /\ at \in 0 .. at + k /\ (k = 0 => at + k = Len(file))
    <3> DEFINE l == Len(file)
               q == MinOf(StagingBytes, l - at)
    <3>1. k \in 0 .. q /\ (k = 0 => at = l) /\ l \in Nat /\ at \in 0 .. l
      BY <1>2 DEF Short
    <3>2. q \in Int /\ q <= l - at
      BY <3>1, InputAssumption DEF MinOf
    <3> HIDE DEF l, q
    <3>3. at + k \in 0 .. l /\ at \in 0 .. at + k /\ (k = 0 => at + k = l)
      BY <3>1, <3>2
    <3> QED
      BY <3>3 DEF l
  <2> DEFINE e == at + k
             last == (k = 0)
  <2>4. /\ e \in 0 .. Len(file) /\ Consumed \in 0 .. e /\ at' = e
        /\ last \in BOOLEAN /\ (last => e = Len(file))
        /\ eof' \in BOOLEAN /\ (eof' => e = Len(file))
        /\ Turn(SubSeq(file, Consumed + 1, e), last)
    BY <2>1, <2>2, <2>3
  <2> HIDE DEF e, last
  <2> QED
    BY <1>1, <2>4, TurnStep
<1>6. CASE ~(raw = <<>> /\ ~eof)
  <2>1. at' = at /\ eof' = eof /\ Turn(raw, eof)
    BY <1>6 DEF Refill
  <2>2. Turn(SubSeq(file, Consumed + 1, at), eof)
    BY <1>3, <2>1
  <2> QED
    BY <1>1, <1>2, <1>3, <1>4, <2>1, <2>2, TurnStep
<1> QED
  BY <1>5, <1>6

\* The end that the decoder met before is told again.
LEMMA RefillOverStep ==
  ASSUME IInv, RefillOver
  PROVE  IInv' /\ Follows
<1>1. /\ want # 0 /\ done /\ told' = "end" /\ want' = 0
      /\ UNCHANGED <<file, declares, at, guard, replay, lead, raw, out, eof, done,
                     failed, handed>>
  BY DEF RefillOver, inputs, decoder
<1>2. Types /\ guard = "passed" /\ declares = "known"
  BY <1>1 DEF IInv, Types, Opening, Judged, PlainInv
<1>3. /\ replay = <<>> /\ out = <<>> /\ Consumed = Len(file) /\ ~lead
      /\ Legal(file, Consumed) /\ (lead <=> Opens(file, Consumed))
      /\ (handed \o replay) \o out = Upto(file, Consumed)
  BY <1>1, <1>2 DEF IInv, TextInv
<1>4. file \in Files /\ handed \in Seq(Unit)
  BY <1>2 DEF Types
<1>5. handed = Upto(file, Len(file))
  BY <1>3, <1>4, ConcatEmptySeq
<1>6. Legal(file, Len(file)) /\ ~Opens(file, Len(file))
  BY <1>3
<1>7. Sound(file, "known") /\ Text(file, "known") = Upto(file, Len(file))
  BY <1>4, <1>6, TextIsAll
<1>8. Follows
  BY <1>1, <1>2, <1>5, <1>7 DEF Follows, Contract!Next, Contract!End
<1>9. IInv'
  BY <1>1, <1>2 DEF IInv, Types, Opening, Judged, PlainInv, TextInv, Consumed
<1> QED
  BY <1>8, <1>9

\* Every step keeps the invariant, and is a step of the contract or none.
LEMMA EveryStep ==
  ASSUME IInv, [Next]_vars
  PROVE  IInv' /\ Follows
<1>1. CASE Settle
  BY <1>1, SettleStep
<1>2. CASE SettleFails
  BY <1>2, SettleFailsStep
<1>3. CASE Read
  <2>1. CASE ReadFails \/ ReadMalformed
    BY <2>1, ErrorStep
  <2>2. ASSUME NEW n \in 1 .. BufBytes,
               ReadReplay(n) \/ ReadBytes(n) \/ ReadOut(n) \/ ReadRefills(n)
        PROVE  IInv' /\ Follows
    BY <2>2, ReplayStep, BytesStep, OutStep, RefillsStep
  <2> QED
    BY <1>3, <2>1, <2>2 DEF Read
<1>4. CASE Refill
  BY <1>4, RefillStep
<1>5. CASE RefillOver
  BY <1>5, RefillOverStep
<1>6. CASE UNCHANGED vars
  <2>1. IInv'
    BY <1>6 DEF vars, IInv, Types, Opening, Judged, PlainInv, TextInv, Consumed
  <2>2. Follows
    BY <1>6 DEF vars, Follows, Contract!vars
  <2> QED
    BY <2>1, <2>2
<1> QED
  BY <1>1, <1>2, <1>3, <1>4, <1>5, <1>6 DEF Next, Over

-----------------------------------------------------------------------------
(* The theorems.                                                           *)

\* What was handed over, with what is ready to be, is the text of the bytes the
\* decoder has taken, and a failure or an end is there for a reason (encoding.rs
\* refill, read; lib.rs Input).
THEOREM InvHolds == Spec => []IInv
<1>1. Init => IInv
  BY InitInv
<1>2. IInv /\ [Next]_vars => IInv'
  BY EveryStep
<1> QED
  BY <1>1, <1>2, PTL DEF Spec

\* The byte source does what TextContract promises: however the file's bytes
\* arrive, and wherever a character is cut, the reader gets the text of the file
\* and nothing else, is told of its end only at its end, and of an error only
\* when the file is not what it declares (encoding.rs refill, read; lib.rs Input).
THEOREM InputImplements == Spec => Implements
<1>1. Init => Contract!Init
  BY InitInv
<1>2. IInv /\ [Next]_vars => [Contract!Next]_(Contract!vars)
  BY EveryStep DEF Follows
<1> QED
  BY <1>1, <1>2, InvHolds, PTL DEF Spec, Implements, Contract!Spec
=============================================================================
