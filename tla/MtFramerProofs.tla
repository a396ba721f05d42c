--------------------------- MODULE MtFramerProofs ----------------------------
(***************************************************************************)
(* What holds of MtFramer for every file, however its reads cut it.        *)
(***************************************************************************)
EXTENDS MtFramer, FoldLemmas

Bytes == Texts \cup {"bom", "lf", "cr"}

-----------------------------------------------------------------------------
(* Size.                                                                   *)

\* r[k] is the size of the first k lines of m.
Sizes(r, m) ==
  /\ r \in [0 .. Len(m) -> Nat] /\ r[0] = 0
  /\ \A k \in 1 .. Len(m) : r[k] = r[k - 1] + (Len(m[k]) + 1)

\* Size goes through the sizes of the first lines.
LEMMA SizeRuns ==
  ASSUME NEW S, NEW m \in Seq(Seq(S))
  PROVE  \E r : Sizes(r, m) /\ Size(m) = r[Len(m)]
<1> DEFINE n == Len(m)
           Is(g) == g = [s \in SUBSET (1 .. n) |->
                           IF s = {} THEN 0
                           ELSE g[s \ {Max(s)}] + Len(m[Max(s)]) + 1]
           h == CHOOSE g : Is(g)
<1>1. n \in Nat /\ DOMAIN m = 1 .. n /\ \A k \in 1 .. n : Len(m[k]) \in Nat
  OBVIOUS
<1>2. Size(m) = h[1 .. n]
  BY <1>1 DEF Size, FoldLeft, MapThenFoldSet
<1> HIDE DEF n
<1>3. \E g : Is(g)
  <2> DEFINE G == [k \in 1 .. n |-> [v \in Nat |-> v + Len(m[k]) + 1]]
  <2>1. G \in [1 .. n -> [Nat -> Nat]]
    BY <1>1
  <2> HIDE DEF G
  <2>2. PICK g : IsFold(g, n, Nat, 0, G)
    BY <1>1, <2>1, FoldExists
  <2>3. ASSUME NEW s \in SUBSET (1 .. n), s # {}
        PROVE  G[Max(s)][g[s \ {Max(s)}]] = g[s \ {Max(s)}] + Len(m[Max(s)]) + 1
    <3>1. s \in SUBSET (0 .. n)
      OBVIOUS
    <3>2. Max(s) \in 1 .. n
      BY <1>1, <2>3, <3>1, Greatest
    <3>3. s \ {Max(s)} \in SUBSET (1 .. n)
      OBVIOUS
    <3>4. g[s \ {Max(s)}] \in Nat
      BY <2>2, <3>3 DEF IsFold
    <3> QED
      BY <3>2, <3>4 DEF G
  <2>4. Is(g)
    BY <2>2, <2>3 DEF IsFold
  <2> QED
    BY <2>4
<1>4. Is(h)
  BY <1>3
<1>5. h[1 .. 0] = 0
  <2>1. 1 .. 0 = {} /\ {} \in SUBSET (1 .. n)
    BY FoldSets
  <2>2. h[{}] = 0
    <3> HIDE DEF h
    <3> QED
      BY <1>4, <2>1
  <2> QED
    BY <2>1, <2>2
<1>6. \A k \in 1 .. n : h[1 .. k] = h[1 .. k - 1] + Len(m[k]) + 1
  <2> TAKE k \in 1 .. n
  <2>1. k \in Nat /\ k # 0
    OBVIOUS
  <2>2. 1 .. k # {} /\ Max(1 .. k) = k /\ (1 .. k) \ {k} = 1 .. k - 1
    BY <2>1, FoldSets
  <2>3. 1 .. k \in SUBSET (1 .. n)
    BY <1>1
  <2> DEFINE s == 1 .. k
  <2> HIDE DEF s, h
  <2>4. s \in SUBSET (1 .. n) /\ s # {}
    BY <2>2, <2>3 DEF s
  <2>5. h[s] = h[s \ {Max(s)}] + Len(m[Max(s)]) + 1
    BY <1>4, <2>4
  <2>6. Max(s) = k /\ s \ {k} = 1 .. k - 1
    BY <2>2 DEF s
  <2>7. h[s] = h[1 .. k - 1] + Len(m[k]) + 1
    BY <2>5, <2>6
  <2> QED
    BY <2>7 DEF s
<1> HIDE DEF h
<1> DEFINE r == [k \in 0 .. n |-> h[1 .. k]]
           T == {k \in Nat : h[1 .. k] \in Nat}
<1>7. ASSUME NEW k \in 0 .. n - 1, k \in T
      PROVE  k + 1 \in T
  <2>1. k + 1 \in 1 .. n /\ (k + 1) - 1 = k /\ k + 1 \in Nat
    BY <1>1
  <2>2. h[1 .. k + 1] = h[1 .. k] + Len(m[k + 1]) + 1
    BY <1>6, <2>1
  <2>3. h[1 .. k] \in Nat /\ Len(m[k + 1]) \in Nat
    BY <1>1, <1>7, <2>1
  <2> QED
    BY <2>1, <2>2, <2>3
<1>8. \A k \in 0 .. n : k \in T
  <2>1. 0 \in T
    BY <1>5
  <2> HIDE DEF T
  <2> QED
    BY <1>1, <1>7, <2>1, UpTo
<1>9. r \in [0 .. n -> Nat] /\ r[0] = 0 /\ Size(m) = r[n]
  <2>1. r \in [0 .. n -> Nat]
    BY <1>8
  <2> QED
    BY <1>1, <1>2, <1>5, <2>1
<1>10. \A k \in 1 .. n : r[k] = r[k - 1] + (Len(m[k]) + 1)
  <2> TAKE k \in 1 .. n
  <2>1. k \in 0 .. n /\ k - 1 \in 0 .. n /\ Len(m[k]) \in Nat
    BY <1>1
  <2>2. r[k] = h[1 .. k] /\ r[k - 1] = h[1 .. k - 1] /\ h[1 .. k - 1] \in Nat
    BY <1>8, <2>1
  <2>3. h[1 .. k] = h[1 .. k - 1] + Len(m[k]) + 1
    BY <1>6
  <2> DEFINE a == h[1 .. k]
             b == h[1 .. k - 1]
             c == Len(m[k])
  <2>4. r[k] = a /\ r[k - 1] = b /\ b \in Nat /\ c \in Nat /\ a = b + c + 1
    BY <2>1, <2>2, <2>3
  <2> HIDE DEF a, b, c, r
  <2>5. r[k] = r[k - 1] + (c + 1)
    BY <2>4
  <2> QED
    BY <2>5 DEF c
<1> HIDE DEF r
<1> QED
  BY <1>9, <1>10 DEF Sizes, n

\* Two sequences of lines that agree up to k have the same sizes up to k.
LEMMA SizesAgree ==
  ASSUME NEW S, NEW m \in Seq(Seq(S)), NEW p \in Seq(Seq(S)),
         NEW r, NEW q, Sizes(r, m), Sizes(q, p), Len(m) <= Len(p),
         \A i \in 1 .. Len(m) : m[i] = p[i]
  PROVE  r[Len(m)] = q[Len(m)]
<1> DEFINE n == Len(m)
           T == {k \in Nat : r[k] = q[k]}
<1>1. n \in Nat /\ Len(p) \in Nat
  OBVIOUS
<1>2. 0 \in T
  BY DEF Sizes
<1>3. ASSUME NEW k \in 0 .. n - 1, k \in T
      PROVE  k + 1 \in T
  <2>1. k + 1 \in 1 .. n /\ k + 1 \in 1 .. Len(p) /\ (k + 1) - 1 = k
    BY <1>1
  <2>2. r[k + 1] = r[k] + (Len(m[k + 1]) + 1) /\ q[k + 1] = q[k] + (Len(p[k + 1]) + 1)
    BY <2>1 DEF Sizes
  <2>3. m[k + 1] = p[k + 1]
    BY <2>1
  <2> QED
    BY <1>3, <2>1, <2>2, <2>3
<1>4. \A k \in 0 .. n : k \in T
  <2> HIDE DEF T, n
  <2> QED
    BY <1>1, <1>2, <1>3, UpTo
<1> QED
  BY <1>1, <1>4

\* The size of a message is a number, and a line more adds its length and one.
LEMMA SizeSteps ==
  ASSUME NEW S
  PROVE  /\ Size(<<>>) = 0
         /\ \A m \in Seq(Seq(S)), l \in Seq(S) :
              /\ Size(m) \in Nat
              /\ Size(Append(m, l)) = Size(m) + (Len(l) + 1)
<1>1. Size(<<>>) = 0
  <2>1. <<>> \in Seq(Seq(S)) /\ Len(<<>>) = 0
    OBVIOUS
  <2>2. PICK r : Sizes(r, <<>>) /\ Size(<<>>) = r[Len(<<>>)]
    BY <2>1, SizeRuns
  <2> QED
    BY <2>1, <2>2 DEF Sizes
<1>2. ASSUME NEW m \in Seq(Seq(S)), NEW l \in Seq(S)
      PROVE  Size(m) \in Nat /\ Size(Append(m, l)) = Size(m) + (Len(l) + 1)
  <2> DEFINE p == Append(m, l)
  <2>1. /\ p \in Seq(Seq(S)) /\ Len(p) = Len(m) + 1 /\ Len(m) \in Nat
        /\ p[Len(m) + 1] = l /\ \A i \in 1 .. Len(m) : m[i] = p[i]
    BY AppendProperties
  <2> HIDE DEF p
  <2>2. PICK r : Sizes(r, m) /\ Size(m) = r[Len(m)]
    BY SizeRuns
  <2>3. PICK q : Sizes(q, p) /\ Size(p) = q[Len(p)]
    BY <2>1, SizeRuns
  <2>4. r[Len(m)] = q[Len(m)]
    <3>1. Sizes(r, m) /\ Sizes(q, p) /\ Len(m) <= Len(p)
      BY <2>1, <2>2, <2>3
    <3> QED
      BY <2>1, <3>1, SizesAgree
  <2>5. Size(m) \in Nat
    <3>1. Len(m) \in 0 .. Len(m) /\ r \in [0 .. Len(m) -> Nat]
      BY <2>1, <2>2 DEF Sizes
    <3> QED
      BY <2>2, <3>1
  <2>6. q[Len(p)] = q[Len(p) - 1] + (Len(p[Len(p)]) + 1)
    <3>1. Len(p) \in 1 .. Len(p)
      BY <2>1
    <3> QED
      BY <2>3, <3>1 DEF Sizes
  <2>7. Len(p) - 1 = Len(m)
    BY <2>1
  <2> QED
    BY <2>1, <2>2, <2>3, <2>4, <2>5, <2>6, <2>7 DEF p
<1> QED
  BY <1>1, <1>2

-----------------------------------------------------------------------------
(* Types.                                                                  *)

Raw == Texts \cup {"bom"}
Good == Texts \ {"x"}

\* What the writer knows, as a value.
States ==
  {a \in [mode : {"none", "blocks", "bare"}, open : Messages \cup {Null},
          here : Seq(Texts), lineNo : Nat, due : Seq(Messages), width : Nat,
          sound : BOOLEAN, lastCr : BOOLEAN] :
     a.mode = "none" <=> a.open = Null}

Now == [mode |-> mode, open |-> open, here |-> here, lineNo |-> lineNo,
        due |-> due, width |-> width, sound |-> sound, lastCr |-> lastCr]

FileTyped ==
  /\ setting \in Settings
  /\ mode \in {"none", "blocks", "bare"} /\ open \in Messages \cup {Null}
  /\ mode = "none" <=> open = Null
  /\ here \in Seq(Texts) /\ lineNo \in Nat /\ due \in Seq(Messages)
  /\ width \in Nat /\ sound \in BOOLEAN /\ lastCr \in BOOLEAN
  /\ buf \in Seq(Bytes) /\ filled \in BOOLEAN /\ ended \in BOOLEAN
  /\ filled /\ buf = <<>> => ended

FramerTyped ==
  /\ pc \in {"idle", "take", "fill", "lf", "frame", "ended", "failed"}
  /\ line \in Seq(Raw) /\ seen \in BOOLEAN
  /\ pending \in Seq(Good) \cup {Null}
  /\ msg \in Seq(Seq(Good))
  /\ has_block1 \in BOOLEAN /\ has_field20 \in BOOLEAN
  /\ taken \in Nat /\ began \in Nat /\ interrupts \in Nat
  /\ returned \in [line : Nat, lines : Seq(Seq(Good))] \cup {Null}
  /\ pc = "frame" => line \in Seq(Good)

\* A byte order mark is the first byte of the file, or none.
MarkFirst ==
  /\ \A i \in DOMAIN buf : buf[i] = "bom" =>
       /\ i = 1 /\ taken = 0 /\ line = <<>>
       /\ pc \in {"idle", "take", "fill", "failed"}
  /\ pc \in {"fill", "lf"} =>
       \A i \in DOMAIN line : line[i] = "bom" => i = 1 /\ taken = 0
  /\ taken = 0 => pending = Null /\ pc # "frame" /\ msg = <<>>

Typed == FileTyped /\ FramerTyped /\ MarkFirst

-----------------------------------------------------------------------------
(* The writer keeps its types.                                             *)

\* Every setting has a limit, and its text is text.
LEMMA SettingTypes ==
  \A s \in Settings : s.limit \in Nat \ {0} /\ s.texts \subseteq Texts
BY FileAssumption DEF Texts

\* What is missing is no message and no line.
LEMMA NullIsNone ==
  /\ Null \notin Messages
  /\ \A l \in Seq(Good) : l # Null
<1>1. Null \notin Messages /\ Null \notin Seq(Texts)
  BY NullAssumption
<1>2. \A l \in Seq(Good) : l \in Seq(Texts)
  BY SeqMonotonic DEF Good
<1> QED
  BY <1>1, <1>2

\* A message takes a line more.
LEMMA MessageGrows ==
  ASSUME NEW m \in Messages, NEW l \in Seq(Texts)
  PROVE  /\ [m EXCEPT !.lines = Append(@, l)] \in Messages
         /\ [m EXCEPT !.lines = IF l = <<>> THEN @ ELSE Append(@, l)] \in Messages
         /\ [m EXCEPT !.lines = Append(@, l)] # Null
<1>1. m.lines \in Seq(Seq(Texts)) /\ m.line \in Nat
  BY DEF Messages
<1>2. Append(m.lines, l) \in Seq(Seq(Texts))
  BY <1>1, AppendProperties
<1>3. [m EXCEPT !.lines = Append(@, l)] \in Messages
  BY <1>1, <1>2 DEF Messages
<1>4. [m EXCEPT !.lines = IF l = <<>> THEN @ ELSE Append(@, l)] \in Messages
  BY <1>1, <1>2 DEF Messages
<1> QED
  BY <1>3, <1>4, NullIsNone

\* Writing keeps the types of the file.
LEMMA WriteTyped ==
  ASSUME FileTyped, UNCHANGED setting, Write \/ Fill
  PROVE  FileTyped'
<1> USE DEF FileTyped
<1>0. ASSUME Longer
      PROVE  sound' \in BOOLEAN /\ width' \in Nat /\ lastCr' \in BOOLEAN
  <2>1. sound' \in BOOLEAN
    BY <1>0, Zenon DEF Longer
  <2>2. width' = width + 1 /\ lastCr' = FALSE
    BY <1>0, Zenon DEF Longer
  <2>3. width' \in Nat
    BY <2>2
  <2>4. lastCr' \in BOOLEAN
    BY <2>2, Zenon
  <2> QED
    BY <2>1, <2>3, <2>4, Zenon
<1>1. CASE \E byte \in setting.texts \union {"T"} : WriteText(byte)
  <2>1. PICK byte \in setting.texts \union {"T"} : WriteText(byte)
    BY <1>1
  <2>2. byte \in Texts /\ byte \in Bytes
    BY SettingTypes DEF Texts, Bytes
  <2>3. here' \in Seq(Texts) /\ buf' \in Seq(Bytes) /\ buf' # <<>>
    BY <2>1, <2>2, AppendProperties DEF WriteText, Put
  <2>4. sound' \in BOOLEAN /\ width' \in Nat /\ lastCr' \in BOOLEAN
    BY <1>0, <2>1 DEF WriteText
  <2> QED
    BY <2>1, <2>3, <2>4 DEF WriteText, Put
<1>2. ASSUME mode # "none"
      PROVE  WithHere \in Messages /\ open \in Messages
  <2>1. open \in Messages
    BY <1>2
  <2> QED
    BY <2>1, MessageGrows DEF WithHere
<1>3. Begun \in Messages /\ Begun # Null
  <2>1. <<>> \in Seq(Seq(Texts))
    OBVIOUS
  <2>2. Begun \in Messages
    BY <2>1 DEF Begun, Messages
  <2> QED
    BY <2>2, NullIsNone
<1>4. CASE WriteBlock
  <2>1. "H" \in Texts /\ "H" \in Bytes
    BY DEF Texts, Bytes
  <2>2. buf' \in Seq(Bytes) /\ buf' # <<>>
    BY <1>4, <2>1, AppendProperties DEF WriteBlock, Put
  <2>3. here' \in Seq(Texts)
    BY <1>4, <2>1, AppendProperties DEF WriteBlock
  <2>4. due' \in Seq(Messages)
    BY <1>2, <1>4, AppendProperties DEF WriteBlock
  <2>5. sound' \in BOOLEAN /\ width' \in Nat /\ lastCr' \in BOOLEAN
    BY <1>0, <1>4 DEF WriteBlock
  <2> QED
    BY <1>3, <1>4, <2>2, <2>3, <2>4, <2>5 DEF WriteBlock, Put
<1>5. CASE WriteReference
  <2>1. "T" \in Texts /\ "T" \in Bytes
    BY DEF Texts, Bytes
  <2>2. buf' \in Seq(Bytes) /\ buf' # <<>>
    BY <1>5, <2>1, AppendProperties DEF WriteReference, Put
  <2>3. here' \in Seq(Texts)
    BY <1>5, <2>1 DEF WriteReference
  <2>4. due' \in Seq(Messages)
    BY <1>2, <1>5, AppendProperties DEF WriteReference
  <2>5. sound' \in BOOLEAN /\ width' \in Nat /\ lastCr' \in BOOLEAN
    BY <1>0, <1>5 DEF WriteReference
  <2> QED
    BY <1>3, <1>5, <2>2, <2>3, <2>4, <2>5 DEF WriteReference, Put
<1>6. CASE \E byte \in {"lf", "cr"} : WriteLineEnd(byte)
  <2>1. PICK byte \in {"lf", "cr"} : WriteLineEnd(byte)
    BY <1>6
  <2>2. byte \in Bytes
    BY DEF Bytes
  <2>3. buf' \in Seq(Bytes) /\ buf' # <<>>
    BY <2>1, <2>2, AppendProperties DEF WriteLineEnd, Put
  <2>4. CASE byte = "lf" /\ lastCr
    BY <2>1, <2>3, <2>4 DEF WriteLineEnd, Put
  <2>5. CASE ~(byte = "lf" /\ lastCr)
    <3>1. here' \in Seq(Texts) /\ width' \in Nat /\ lineNo' \in Nat
          /\ lastCr' \in BOOLEAN /\ sound' \in BOOLEAN
      <4>1. lastCr' \in BOOLEAN /\ sound' \in BOOLEAN
        BY <2>1, <2>5, Zenon DEF WriteLineEnd
      <4>2. here' = <<>> /\ width' = 0 /\ lineNo' = lineNo + 1
        BY <2>1, <2>5, Zenon DEF WriteLineEnd
      <4> QED
        BY <4>1, <4>2
    <3>2. due' \in Seq(Messages)
      <4>1. CASE Terminates /\ open # Null
        <5>1. due' = Append(due, open) /\ open \in Messages
          BY <2>1, <2>5, <4>1 DEF WriteLineEnd
        <5> QED
          BY <5>1, AppendProperties
      <4>2. CASE ~(Terminates /\ open # Null)
        BY <2>1, <2>5, <4>2 DEF WriteLineEnd
      <4> QED
        BY <4>1, <4>2
    <3>3. open' \in Messages \cup {Null} /\ (mode' = "none" <=> open' = Null)
          /\ mode' \in {"none", "blocks", "bare"}
      <4>1. CASE open = Null \/ Terminates
        BY <2>1, <2>5, <4>1 DEF WriteLineEnd
      <4>2. CASE ~(open = Null \/ Terminates)
        <5>1. open' = [open EXCEPT !.lines = Append(@, here)] /\ mode' = mode
          BY <2>1, <2>5, <4>2 DEF WriteLineEnd
        <5> QED
          BY <4>2, <5>1, MessageGrows
      <4> QED
        BY <4>1, <4>2
    <3> QED
      BY <2>1, <2>3, <3>1, <3>2, <3>3 DEF WriteLineEnd, Put
  <2> QED
    BY <2>4, <2>5
<1>7. CASE WriteEnd
  <2>1. due' \in Seq(Messages)
    BY <1>2, <1>7, AppendProperties DEF WriteEnd
  <2> QED
    BY <1>7, <2>1 DEF WriteEnd
<1>8. CASE Fill
  BY <1>8 DEF Fill
<1> QED
  BY <1>1, <1>4, <1>5, <1>6, <1>7, <1>8 DEF Write

-----------------------------------------------------------------------------
(* What the framer reads.                                                  *)

\* A set of naturals that is not empty holds its minimum.
LEMMA MinIsLeast ==
  ASSUME NEW s, s \subseteq Nat, s # {}
  PROVE  Min(s) \in s /\ \A y \in s : Min(s) <= y
<1>1. \E x \in s : \A y \in s : x <= y
  BY Least
<1> QED
  BY <1>1 DEF Min

\* The piece is what comes before the first line end in the buffer.
LEMMA PieceIs ==
  ASSUME buf \in Seq(Bytes)
  PROVE  /\ Terminator \in 0 .. Len(buf)
         /\ Piece \in Seq(Raw)
         /\ \A i \in 1 .. Len(Piece) : i \in 1 .. Len(buf) /\ Piece[i] = buf[i]
         /\ Terminator = 0 => Piece = buf
         /\ Terminator # 0 => /\ buf[Terminator] \in {"lf", "cr"}
                              /\ Piece = SubSeq(buf, 1, Terminator - 1)
                              /\ Len(Piece) = Terminator - 1
<1> DEFINE ends == {i \in DOMAIN buf : buf[i] \in {"lf", "cr"}}
           n == Len(buf)
<1>1. n \in Nat /\ DOMAIN buf = 1 .. n /\ \A i \in 1 .. n : buf[i] \in Bytes
  OBVIOUS
<1>2. CASE ends = {}
  <2>1. Terminator = 0 /\ Piece = buf
    BY <1>2 DEF Terminator, Piece
  <2>2. \A i \in 1 .. n : buf[i] \in Raw
    BY <1>1, <1>2 DEF Bytes, Raw
  <2>3. buf \in Seq(Raw)
    BY <1>1, <2>2
  <2> QED
    BY <1>1, <2>1, <2>3
<1>3. CASE ends # {}
  <2> DEFINE t == Min(ends)
  <2>1. t \in ends /\ \A y \in ends : t <= y
    <3> HIDE DEF ends
    <3>1. ends \subseteq Nat
      BY <1>1 DEF ends
    <3> QED
      BY <1>3, <3>1, MinIsLeast
  <2>2. t \in 1 .. n /\ buf[t] \in {"lf", "cr"}
    BY <1>1, <2>1
  <2>3. Terminator = t
    BY <1>3 DEF Terminator
  <2> HIDE DEF t, n
  <2>4. \A i \in 1 .. t - 1 : i \in 1 .. n /\ buf[i] \notin {"lf", "cr"}
    <3> TAKE i \in 1 .. t - 1
    <3>1. i \in 1 .. n /\ ~(t <= i)
      BY <1>1, <2>2
    <3> QED
      BY <1>1, <2>1, <3>1
  <2>5. \A i \in 1 .. t - 1 : buf[i] \in Raw
    BY <1>1, <2>4 DEF Bytes, Raw
  <2>6. Piece = SubSeq(buf, 1, t - 1)
    BY <1>1, <2>2, <2>3 DEF Piece
  <2>7. /\ SubSeq(buf, 1, t - 1) = [i \in 1 .. t - 1 |-> buf[i]]
    BY <1>1, <2>2 DEF n
  <2>8. Piece \in Seq(Raw) /\ Len(Piece) = t - 1
        /\ \A i \in 1 .. t - 1 : Piece[i] = buf[i]
    BY <1>1, <2>2, <2>5, <2>6, <2>7
  <2> QED
    BY <1>1, <2>2, <2>3, <2>4, <2>6, <2>8 DEF n
<1> QED
  BY <1>2, <1>3

\* What is left of the buffer when the reader has taken n bytes of it.
LEMMA ConsumesLeaves ==
  ASSUME FileTyped, NEW n \in 1 .. Len(buf), Consumes(n)
  PROVE  /\ buf' \in Seq(Bytes) /\ filled' \in BOOLEAN
         /\ filled' => buf' # <<>>
         /\ \A i \in DOMAIN buf' : i + n \in DOMAIN buf /\ buf'[i] = buf[i + n]
<1>1. buf \in Seq(Bytes) /\ Len(buf) \in Nat /\ n \in Nat /\ n <= Len(buf)
  BY DEF FileTyped
<1>2. buf' = SubSeq(buf, n + 1, Len(buf))
  BY DEF Consumes
<1>3. /\ buf' \in Seq(Bytes) /\ Len(buf') = Len(buf) - n
      /\ \A i \in 1 .. Len(buf) - n : buf'[i] = buf[i + n]
  BY <1>1, <1>2
<1>4. filled' \in BOOLEAN /\ (filled' <=> n < Len(buf))
  <2>1. filled' = (n < Len(buf))
    BY Zenon DEF Consumes
  <2>2. filled' \in BOOLEAN
    BY <1>1, <2>1
  <2>3. filled' => n < Len(buf)
    BY <1>1, <2>1
  <2>4. n < Len(buf) => filled'
    BY <1>1, <2>1
  <2> QED
    BY <2>2, <2>3, <2>4, Zenon
<1>5. filled' => buf' # <<>>
  <2> HAVE filled'
  <2>1. n < Len(buf)
    BY <1>4
  <2> QED
    BY <1>1, <1>3, <2>1
<1>6. \A i \in DOMAIN buf' : i + n \in DOMAIN buf /\ buf'[i] = buf[i + n]
  BY <1>1, <1>3
<1> QED
  BY <1>3, <1>4, <1>5, <1>6

\* A line that is taken is text, and no longer than its bytes.
LEMMA LineTakenIs ==
  ASSUME NEW bytes \in Seq(Raw), taken \in Nat, LineTaken(bytes),
         \A i \in DOMAIN bytes : bytes[i] = "bom" => i = 1 /\ taken = 0
  PROVE  /\ taken' = taken + 1 /\ taken' \in Nat \ {0}
         /\ line' \in Seq(Raw) /\ Len(line') <= Len(bytes)
         /\ pc' \in {"frame", "failed"}
         /\ pc' = "frame" => line' \in Seq(Good)
<1>1. taken' = taken + 1 /\ taken' \in Nat \ {0}
  BY DEF LineTaken
<1>2. CASE \E i \in DOMAIN bytes : bytes[i] = "x"
  BY <1>1, <1>2 DEF LineTaken
<1>3. CASE ~(\E i \in DOMAIN bytes : bytes[i] = "x")
  <2>1. pc' = "frame"
        /\ line' = IF taken = 0 /\ bytes # <<>> /\ bytes[1] = "bom"
                   THEN Tail(bytes) ELSE bytes
    BY <1>3 DEF LineTaken
  <2>2. CASE taken = 0 /\ bytes # <<>> /\ bytes[1] = "bom"
    <3>1. line' = Tail(bytes)
      BY <2>1, <2>2
    <3>2. /\ Len(line') = Len(bytes) - 1 /\ line' \in Seq(Raw)
          /\ \A i \in 1 .. Len(line') : line'[i] = bytes[i + 1]
                                        /\ i + 1 \in DOMAIN bytes /\ i + 1 # 1
      BY <2>2, <3>1
    <3>3. \A i \in 1 .. Len(line') : line'[i] \in Good
      BY <1>3, <3>2 DEF Raw, Good
    <3>4. line' \in Seq(Good)
      BY <3>2, <3>3
    <3> QED
      BY <1>1, <2>1, <3>2, <3>4
  <2>3. CASE ~(taken = 0 /\ bytes # <<>> /\ bytes[1] = "bom")
    <3>1. line' = bytes
      BY <2>1, <2>3
    <3>2. \A i \in 1 .. Len(bytes) : bytes[i] \in Good
      BY <1>3, <2>3 DEF Raw, Good
    <3>3. line' \in Seq(Good)
      BY <3>1, <3>2
    <3> QED
      BY <1>1, <2>1, <3>1, <3>3
  <2> QED
    BY <2>2, <2>3
<1> QED
  BY <1>2, <1>3

\* The line and the piece that follows it in the buffer.
LEMMA LineGrows ==
  ASSUME Typed, pc = "fill"
  PROVE  /\ line \o Piece \in Seq(Raw)
         /\ Len(line \o Piece) = Len(line) + Len(Piece)
         /\ \A i \in DOMAIN (line \o Piece) :
              (line \o Piece)[i] = "bom" => i = 1 /\ taken = 0
<1>1. line \in Seq(Raw) /\ buf \in Seq(Bytes)
  BY DEF Typed, FramerTyped, FileTyped
<1>2. Piece \in Seq(Raw)
      /\ \A i \in 1 .. Len(Piece) : i \in 1 .. Len(buf) /\ Piece[i] = buf[i]
  BY <1>1, PieceIs
<1>3. \A i \in DOMAIN buf : buf[i] = "bom" => i = 1 /\ taken = 0 /\ line = <<>>
  BY DEF Typed, MarkFirst
<1>4. \A i \in DOMAIN line : line[i] = "bom" => i = 1 /\ taken = 0
  BY DEF Typed, MarkFirst
<1> DEFINE l == line \o Piece
<1>5. /\ l \in Seq(Raw) /\ Len(l) = Len(line) + Len(Piece)
      /\ DOMAIN l = 1 .. Len(line) + Len(Piece)
      /\ \A i \in 1 .. Len(line) + Len(Piece) :
           l[i] = IF i <= Len(line) THEN line[i] ELSE Piece[i - Len(line)]
  BY <1>1, <1>2, ConcatProperties
<1>6. ASSUME NEW i \in DOMAIN l, l[i] = "bom"
      PROVE  i = 1 /\ taken = 0
  <2>1. CASE i <= Len(line)
    <3>1. i \in DOMAIN line /\ line[i] = "bom"
      BY <1>1, <1>5, <1>6, <2>1
    <3> QED
      BY <1>4, <3>1
  <2>2. CASE ~(i <= Len(line))
    <3>1. i - Len(line) \in 1 .. Len(Piece) /\ Piece[i - Len(line)] = "bom"
      BY <1>1, <1>2, <1>5, <1>6, <2>2
    <3>2. i - Len(line) \in DOMAIN buf /\ buf[i - Len(line)] = "bom"
      BY <1>1, <1>2, <3>1
    <3>3. i - Len(line) = 1 /\ taken = 0 /\ line = <<>>
      BY <1>3, <3>2
    <3>4. Len(line) = 0 /\ i \in Int
      BY <1>5, <1>6, <3>3
    <3> QED
      BY <3>3, <3>4
  <2> QED
    BY <2>1, <2>2
<1> HIDE DEF l
<1> QED
  BY <1>5, <1>6 DEF l

-----------------------------------------------------------------------------
(* The framer keeps its types.                                             *)

\* The types hold at the start.
LEMMA TypedAtStart == Init => Typed
<1> SUFFICES ASSUME Init
             PROVE  Typed
  OBVIOUS
<1>1. buf \in Seq(Bytes) /\ Len(buf) \in Nat
  <2>1. "bom" \in Bytes
    BY DEF Bytes
  <2>2. <<>> \in Seq(Bytes) /\ <<"bom">> \in Seq(Bytes)
    BY <2>1
  <2>3. buf = <<>> \/ buf = <<"bom">>
    BY DEF Init, FileInit
  <2>4. buf \in Seq(Bytes)
    BY <2>2, <2>3
  <2> QED
    BY <2>4
<1>2. FileTyped
  <2>1. FileInit
    BY DEF Init
  <2>2. <<>> \in Seq(Texts) /\ <<>> \in Seq(Messages)
    OBVIOUS
  <2>3. sound \in BOOLEAN /\ lastCr \in BOOLEAN /\ filled \in BOOLEAN
        /\ ended \in BOOLEAN /\ ~filled
    BY <2>1, Zenon DEF FileInit
  <2>4. width \in Nat /\ lineNo \in Nat
    BY <1>1, <2>1 DEF FileInit
  <2>5. setting \in Settings /\ mode = "none" /\ open = Null /\ here = <<>> /\ due = <<>>
    BY <2>1 DEF FileInit
  <2> QED
    BY <1>1, <2>2, <2>3, <2>4, <2>5 DEF FileTyped
<1>3. FramerTyped
  <2>1. <<>> \in Seq(Raw) /\ <<>> \in Seq(Seq(Good))
    OBVIOUS
  <2>2. /\ pc = "idle" /\ line = <<>> /\ pending = Null
        /\ msg = <<>> /\ taken = 0 /\ began = 1 /\ returned = Null
        /\ interrupts = 0
    BY DEF Init
  <2>3. seen \in BOOLEAN /\ has_block1 \in BOOLEAN /\ has_field20 \in BOOLEAN
    BY Zenon DEF Init
  <2> QED
    BY <2>1, <2>2, <2>3 DEF FramerTyped
<1>4. MarkFirst
  <2>1. buf = <<>> \/ buf = <<"bom">>
    BY DEF Init, FileInit
  <2>2. \A i \in DOMAIN buf : i = 1
    BY <2>1
  <2>3. pc = "idle" /\ taken = 0 /\ line = <<>> /\ pending = Null /\ msg = <<>>
    BY DEF Init
  <2> QED
    BY <2>2, <2>3 DEF MarkFirst
<1> QED
  BY <1>2, <1>3, <1>4 DEF Typed

\* What a line does to a message keeps the types.
LEMMA FrameTyped ==
  ASSUME Typed, Frame
  PROVE  Typed'
<1> DEFINE n == Len(line)
<1>1. line \in Seq(Good) /\ n \in Nat /\ msg \in Seq(Seq(Good))
      /\ began \in Nat /\ taken \in Nat /\ taken # 0
  BY DEF Typed, FramerTyped, MarkFirst, Frame
<1>2. Boundary \in 0 .. n
  <2>1. Blocks \subseteq 1 .. n
    BY <1>1 DEF Blocks
  <2> DEFINE others == IF has_block1 \/ Blocks = {} THEN Blocks
                       ELSE Blocks \ {Min(Blocks)}
  <2>2. others \subseteq 1 .. n /\ 1 .. n \subseteq Nat
    <3>1. others \subseteq Blocks
      OBVIOUS
    <3>2. 1 .. n \subseteq Nat
      OBVIOUS
    <3> HIDE DEF others
    <3> QED
      BY <2>1, <3>1, <3>2
  <2>3. Boundary = IF others = {} THEN 0 ELSE Min(others)
    BY DEF Boundary
  <2> HIDE DEF others, n
  <2>4. others # {} => Min(others) \in others
    BY <2>2, MinIsLeast
  <2> QED
    BY <1>1, <2>2, <2>3, <2>4
<1>3. pending = Null \/ pending \in Seq(Good)
  BY DEF Typed, FramerTyped
<1>4. ASSUME NEW m \in Seq(Seq(Good)), Returns(m), began' \in Nat
      PROVE  /\ pc' = "idle"
             /\ returned' \in [line : Nat, lines : Seq(Seq(Good))] \cup {Null}
             /\ due' \in Seq(Messages)
  <2>1. returned' = [line |-> began', lines |-> m]
    BY <1>4 DEF Returns
  <2>2. due' \in Seq(Messages)
    <3>1. due \in Seq(Messages)
      BY DEF Typed, FileTyped
    <3> QED
      BY <1>4, <3>1, HeadTailProperties DEF Returns
  <2> QED
    BY <1>4, <2>1, <2>2 DEF Returns
<1>5. ASSUME EndsMessage
      PROVE  /\ pc' \in {"idle", "take"}
             /\ returned' \in [line : Nat, lines : Seq(Seq(Good))] \cup {Null}
             /\ due' \in Seq(Messages) /\ UNCHANGED pending
             /\ UNCHANGED <<msg, has_block1, has_field20, began>>
  <2>1. UNCHANGED <<msg, has_block1, has_field20, began, pending>>
    BY <1>5 DEF EndsMessage
  <2>2. CASE HasText(msg)
    <3>1. Returns(msg)
      BY <1>5, <2>2 DEF EndsMessage
    <3> QED
      BY <1>1, <1>4, <2>1, <3>1
  <2>3. CASE ~HasText(msg)
    BY <1>5, <2>1, <2>3 DEF EndsMessage, answer, Typed, FileTyped, FramerTyped
  <2> QED
    BY <2>2, <2>3
<1>6. Boundary # 0 =>
        /\ SubSeq(line, 1, Boundary - 1) \in Seq(Good)
        /\ SubSeq(line, Boundary, Len(line)) \in Seq(Good)
  <2> HIDE DEF n
  <2> QED
    BY <1>1, <1>2, SubSeqProperties DEF n
<1>7. UNCHANGED <<setting, mode, open, here, width, lineNo, sound, lastCr, ended,
                  buf, filled, line, seen, taken, interrupts>>
  BY DEF Frame, written
<1>8. SUFFICES /\ pc' \in {"idle", "take", "failed"}
               /\ pending' \in Seq(Good) \cup {Null}
               /\ msg' \in Seq(Seq(Good))
               /\ has_block1' \in BOOLEAN /\ has_field20' \in BOOLEAN
               /\ began' \in Nat
               /\ returned' \in [line : Nat, lines : Seq(Seq(Good))] \cup {Null}
               /\ due' \in Seq(Messages)
  <2> SUFFICES ASSUME /\ pc' \in {"idle", "take", "failed"}
                      /\ pending' \in Seq(Good) \cup {Null}
                      /\ msg' \in Seq(Seq(Good))
                      /\ has_block1' \in BOOLEAN /\ has_field20' \in BOOLEAN
                      /\ began' \in Nat
                      /\ returned' \in [line : Nat, lines : Seq(Seq(Good))] \cup {Null}
                      /\ due' \in Seq(Messages)
               PROVE  Typed'
    OBVIOUS
  <2>1. FileTyped'
    BY <1>7 DEF Typed, FileTyped
  <2>2. FramerTyped'
    BY <1>7 DEF Typed, FramerTyped
  <2>3. MarkFirst'
    <3>1. \A i \in DOMAIN buf : buf[i] # "bom"
      BY <1>1 DEF Typed, MarkFirst
    <3> QED
      BY <1>1, <1>7, <3>1 DEF MarkFirst
  <2> QED
    BY <2>1, <2>2, <2>3 DEF Typed
<1>9. has_block1 \in BOOLEAN /\ has_field20 \in BOOLEAN
      /\ returned \in [line : Nat, lines : Seq(Seq(Good))] \cup {Null}
      /\ due \in Seq(Messages)
  BY DEF Typed, FramerTyped, FileTyped
<1>10. CASE FrameSeparator
  BY <1>1, <1>3, <1>5, <1>9, <1>10 DEF FrameSeparator
<1>11. CASE FrameBoundary
  <2>1. msg' \in Seq(Seq(Good)) /\ began' \in Nat
    <3>1. Append(msg, SubSeq(line, 1, Boundary - 1)) \in Seq(Seq(Good))
      BY <1>1, <1>6, <1>11, AppendProperties DEF FrameBoundary
    <3> QED
      BY <1>1, <1>11, <3>1 DEF FrameBoundary, Begins
  <2> QED
    BY <1>4, <1>6, <1>9, <1>11, <2>1 DEF FrameBoundary
<1>12. CASE FrameReference
  BY <1>1, <1>4, <1>9, <1>12 DEF FrameReference
<1>13. CASE FramePreamble
  BY <1>1, <1>3, <1>9, <1>13 DEF FramePreamble, framed, answer
<1>14. CASE FrameBareEnd
  BY <1>1, <1>3, <1>5, <1>9, <1>14 DEF FrameBareEnd
<1>15. CASE FrameTooLong
  BY <1>1, <1>3, <1>9, <1>15 DEF FrameTooLong, framed, answer
<1>16. CASE FrameLine
  <2>1. msg' \in Seq(Seq(Good)) /\ began' \in Nat
    BY <1>1, <1>16, AppendProperties DEF FrameLine, Begins
  <2>2. has_block1' \in BOOLEAN /\ has_field20' \in BOOLEAN
    BY <1>16, Zenon DEF FrameLine
  <2> QED
    BY <1>3, <1>9, <1>16, <2>1, <2>2 DEF FrameLine, answer
<1> QED
  BY <1>10, <1>11, <1>12, <1>13, <1>14, <1>15, <1>16 DEF Frame

\* Every step keeps the types.
LEMMA TypedStep ==
  ASSUME Typed, [Next]_vars
  PROVE  Typed'
<1> USE DEF answer, framed, written
<1>1. CASE Call
  <2>1. FileTyped'
    BY <1>1 DEF Call, fileVars, Typed, FileTyped
  <2>2. FramerTyped'
    <3>1. <<>> \in Seq(Seq(Good)) /\ FALSE \in BOOLEAN
      OBVIOUS
    <3> QED
      BY <1>1, <3>1 DEF Call, Typed, FramerTyped
  <2>3. MarkFirst'
    BY <1>1 DEF Call, fileVars, Typed, MarkFirst
  <2> QED
    BY <2>1, <2>2, <2>3 DEF Typed
<1>2. CASE TakePending
  <2>1. line' \in Seq(Good) /\ line' \in Seq(Raw)
    <3>1. pending \in Seq(Good)
      BY <1>2 DEF TakePending, Typed, FramerTyped
    <3>2. Good \subseteq Raw
      BY DEF Good, Raw
    <3> QED
      BY <1>2, <3>1, <3>2, SeqMonotonic DEF TakePending
  <2>2. FileTyped'
    BY <1>2 DEF TakePending, fileVars, Typed, FileTyped
  <2>3. FramerTyped'
    BY <1>2, <2>1 DEF TakePending, Typed, FramerTyped
  <2>4. taken # 0
    BY <1>2 DEF TakePending, Typed, MarkFirst
  <2>5. MarkFirst'
    BY <1>2, <2>4 DEF TakePending, fileVars, Typed, MarkFirst
  <2> QED
    BY <2>2, <2>3, <2>5 DEF Typed
<1>3. CASE TakeLine
  <2>1. FileTyped'
    BY <1>3 DEF TakeLine, fileVars, Typed, FileTyped
  <2>2. FramerTyped'
    <3>1. <<>> \in Seq(Raw) /\ FALSE \in BOOLEAN
      OBVIOUS
    <3> QED
      BY <1>3, <3>1 DEF TakeLine, Typed, FramerTyped
  <2>3. MarkFirst'
    BY <1>3 DEF TakeLine, fileVars, Typed, MarkFirst
  <2> QED
    BY <2>1, <2>2, <2>3 DEF Typed
<1>4. CASE Waiting
  <2>1. FileTyped'
    BY <1>4, WriteTyped DEF Waiting, Typed
  <2>2. FramerTyped'
    BY <1>4 DEF Waiting, framerVars, Typed, FramerTyped
  <2>3. \A i \in DOMAIN buf' : buf'[i] = "bom" => i \in DOMAIN buf /\ buf[i] = "bom"
    <3>1. buf \in Seq(Bytes)
      BY DEF Typed, FileTyped
    <3>2. CASE UNCHANGED buf
      BY <3>2
    <3>3. CASE \E byte \in Bytes \ {"bom"} : buf' = Append(buf, byte)
      BY <3>1, <3>3, AppendProperties
    <3>4. setting.texts \union {"T", "H", "lf", "cr"} \subseteq Bytes \ {"bom"}
      <4>1. setting \in Settings
        BY DEF Typed, FileTyped
      <4> QED
        BY <4>1, FileAssumption DEF Bytes, Texts
    <3>5. UNCHANGED buf \/ \E byte \in Bytes \ {"bom"} : buf' = Append(buf, byte)
      BY <1>4, <3>4 DEF Waiting, Write, WriteText, WriteBlock, WriteReference,
                        WriteLineEnd, WriteEnd, Fill, Put
    <3> QED
      BY <3>2, <3>3, <3>5
  <2>4. MarkFirst'
    BY <1>4, <2>3 DEF Waiting, framerVars, Typed, MarkFirst
  <2> QED
    BY <2>1, <2>2, <2>4 DEF Typed
<1>5. ASSUME NEW n \in 1 .. Len(buf), Consumes(n)
      PROVE  \A i \in DOMAIN buf' : buf'[i] # "bom"
  <2>1. FileTyped
    BY DEF Typed
  <2>2. \A i \in DOMAIN buf' : i + n \in DOMAIN buf /\ buf'[i] = buf[i + n]
                               /\ i \in 1 .. Len(buf')
    BY <1>5, <2>1, ConsumesLeaves
  <2>3. TAKE i \in DOMAIN buf'
  <2>4. i + n # 1
    BY <2>2
  <2> QED
    BY <2>2, <2>4 DEF Typed, MarkFirst
<1>6. ASSUME pc \in {"fill", "lf"}
      PROVE  taken \in Nat
  BY DEF Typed, FramerTyped
<1>7. CASE LineGoesOn
  <2>1. FileTyped /\ buf \in Seq(Bytes) /\ Len(buf) \in 1 .. Len(buf)
    BY <1>7 DEF Typed, FileTyped, LineGoesOn
  <2>2. /\ buf' \in Seq(Bytes) /\ filled' \in BOOLEAN
        /\ filled' => buf' # <<>>
    BY <1>7, <2>1, ConsumesLeaves DEF LineGoesOn
  <2>3. FileTyped'
    BY <1>7, <2>1, <2>2 DEF LineGoesOn, FileTyped
  <2>4. \A i \in DOMAIN buf' : buf'[i] # "bom"
    BY <1>5, <1>7, <2>1 DEF LineGoesOn
  <2>5. pc = "fill" /\ line' = line \o Piece
    BY <1>7 DEF LineGoesOn
  <2>6. /\ line' \in Seq(Raw)
        /\ \A i \in DOMAIN line' : line'[i] = "bom" => i = 1 /\ taken = 0
    BY <2>5, LineGrows
  <2>7. FramerTyped'
    BY <1>7, <2>6 DEF LineGoesOn, Typed, FramerTyped
  <2>8. MarkFirst'
    BY <1>7, <2>4, <2>6 DEF LineGoesOn, Typed, MarkFirst
  <2> QED
    BY <2>3, <2>7, <2>8 DEF Typed
<1>8. ASSUME NEW bytes \in Seq(Raw), LineTaken(bytes),
             \A i \in DOMAIN bytes : bytes[i] = "bom" => i = 1 /\ taken = 0,
             \A i \in DOMAIN buf' : buf'[i] # "bom", FileTyped',
             seen' \in BOOLEAN, interrupts' \in Nat,
             UNCHANGED <<pending, framed, answer>>
      PROVE  Typed'
  <2>1. taken \in Nat
    BY DEF Typed, FramerTyped
  <2>2. /\ taken' \in Nat \ {0} /\ line' \in Seq(Raw)
        /\ pc' \in {"frame", "failed"}
        /\ pc' = "frame" => line' \in Seq(Good)
    BY <1>8, <2>1, LineTakenIs
  <2>3. FramerTyped'
    BY <1>8, <2>2 DEF Typed, FramerTyped
  <2>4. MarkFirst'
    BY <1>8, <2>2 DEF MarkFirst
  <2> QED
    BY <1>8, <2>3, <2>4 DEF Typed
<1>9. CASE LineEnds
  <2>1. FileTyped /\ buf \in Seq(Bytes) /\ Terminator \in 1 .. Len(buf)
    BY <1>9, PieceIs DEF Typed, FileTyped, LineEnds
  <2>2. /\ buf' \in Seq(Bytes) /\ filled' \in BOOLEAN
        /\ filled' => buf' # <<>>
    BY <1>9, <2>1, ConsumesLeaves DEF LineEnds
  <2>3. FileTyped'
    BY <1>9, <2>1, <2>2 DEF LineEnds, FileTyped
  <2>4. \A i \in DOMAIN buf' : buf'[i] # "bom"
    BY <1>5, <1>9, <2>1 DEF LineEnds
  <2>5. pc = "fill"
    BY <1>9 DEF LineEnds
  <2>6. /\ line \o Piece \in Seq(Raw)
        /\ \A i \in DOMAIN (line \o Piece) :
             (line \o Piece)[i] = "bom" => i = 1 /\ taken = 0
    BY <2>5, LineGrows
  <2>7. CASE buf[Terminator] = "cr"
    <3>1. pc' = "lf" /\ line' = line \o Piece /\ UNCHANGED taken
      BY <1>9, <2>7 DEF LineEnds
    <3>2. FramerTyped'
      BY <1>9, <2>6, <3>1 DEF LineEnds, Typed, FramerTyped
    <3>3. MarkFirst'
      BY <1>9, <2>4, <2>5, <2>6, <3>1 DEF LineEnds, Typed, MarkFirst
    <3> QED
      BY <2>3, <3>2, <3>3 DEF Typed
  <2>8. CASE buf[Terminator] # "cr"
    <3>1. LineTaken(line \o Piece)
      BY <1>9, <2>8 DEF LineEnds
    <3>2. seen' \in BOOLEAN /\ interrupts' \in Nat /\ UNCHANGED <<pending, framed, answer>>
      BY <1>9 DEF LineEnds, Typed, FramerTyped
    <3> QED
      BY <1>8, <2>3, <2>4, <2>6, <3>1, <3>2
  <2> QED
    BY <2>7, <2>8
<1>10. CASE LineTooLong
  <2>1. FileTyped'
    BY <1>10 DEF LineTooLong, fileVars, Typed, FileTyped
  <2>2. FramerTyped'
    BY <1>10 DEF LineTooLong, Typed, FramerTyped
  <2>3. MarkFirst'
    BY <1>10 DEF LineTooLong, fileVars, Typed, MarkFirst
  <2> QED
    BY <2>1, <2>2, <2>3 DEF Typed
<1>11. line \in Seq(Raw) /\ pc \in {"fill", "lf"} =>
         \A i \in DOMAIN line : line[i] = "bom" => i = 1 /\ taken = 0
  BY DEF Typed, MarkFirst
<1>12. line \in Seq(Raw)
  BY DEF Typed, FramerTyped
<1>13. CASE SkipLf
  <2>1. FileTyped /\ buf \in Seq(Bytes)
    BY DEF Typed, FileTyped
  <2>2. /\ FileTyped'
        /\ \A i \in DOMAIN buf' : buf'[i] # "bom"
    <3>1. CASE buf # <<>> /\ buf[1] = "lf"
      <4>1. Consumes(1) /\ 1 \in 1 .. Len(buf)
        BY <1>13, <2>1, <3>1 DEF SkipLf
      <4>2. /\ buf' \in Seq(Bytes) /\ filled' \in BOOLEAN
            /\ filled' => buf' # <<>>
        BY <2>1, <4>1, ConsumesLeaves
      <4> QED
        BY <1>5, <1>13, <2>1, <4>1, <4>2 DEF SkipLf, FileTyped
    <3>2. CASE ~(buf # <<>> /\ buf[1] = "lf")
      <4>1. UNCHANGED <<buf, filled>>
        BY <1>13, <3>2 DEF SkipLf
      <4>2. \A i \in DOMAIN buf : buf[i] # "bom"
        BY <1>13 DEF SkipLf, Typed, MarkFirst
      <4> QED
        BY <1>13, <2>1, <4>1, <4>2 DEF SkipLf, FileTyped
    <3> QED
      BY <3>1, <3>2
  <2>3. seen' \in BOOLEAN /\ interrupts' \in Nat /\ UNCHANGED <<pending, framed, answer>>
        /\ LineTaken(line) /\ pc \in {"fill", "lf"}
    BY <1>13 DEF SkipLf, Typed, FramerTyped
  <2> QED
    BY <1>8, <1>11, <1>12, <2>2, <2>3
<1>14. CASE SkipInterrupted
  <2>1. FileTyped' /\ \A i \in DOMAIN buf' : buf'[i] # "bom"
    BY <1>14 DEF SkipInterrupted, fileVars, Typed, FileTyped, MarkFirst
  <2>2. seen' \in BOOLEAN /\ interrupts' \in Nat /\ UNCHANGED <<pending, framed, answer>>
        /\ LineTaken(line) /\ pc \in {"fill", "lf"}
    BY <1>14 DEF SkipInterrupted, Typed, FramerTyped
  <2> QED
    BY <1>8, <1>11, <1>12, <2>1, <2>2
<1>15. CASE LastLine
  <2>1. FileTyped' /\ \A i \in DOMAIN buf' : buf'[i] # "bom"
    BY <1>15 DEF LastLine, fileVars, Typed, FileTyped
  <2>2. seen' \in BOOLEAN /\ interrupts' \in Nat /\ UNCHANGED <<pending, framed, answer>>
        /\ LineTaken(line) /\ pc \in {"fill", "lf"}
    BY <1>15 DEF LastLine, Typed, FramerTyped
  <2> QED
    BY <1>8, <1>11, <1>12, <2>1, <2>2
<1>16. CASE Frame
  BY <1>16, FrameTyped
<1>17. CASE FileEnds
  <2>1. CASE HasText(msg)
    <3>1. Returns(msg) /\ UNCHANGED began
      BY <1>17, <2>1 DEF FileEnds
    <3>2. returned' \in [line : Nat, lines : Seq(Seq(Good))] \cup {Null}
      BY <3>1 DEF Returns, Typed, FramerTyped
    <3>3. due' \in Seq(Messages)
      BY <3>1, HeadTailProperties DEF Returns, Typed, FileTyped
    <3>4. pc' = "idle"
      BY <3>1 DEF Returns
    <3>5. FileTyped'
      BY <1>17, <3>3 DEF FileEnds, Typed, FileTyped
    <3>6. FramerTyped'
      BY <1>17, <3>2, <3>4 DEF FileEnds, Typed, FramerTyped
    <3>7. MarkFirst'
      BY <1>17, <3>4 DEF FileEnds, Typed, MarkFirst
    <3> QED
      BY <3>5, <3>6, <3>7 DEF Typed
  <2>2. CASE ~HasText(msg)
    <3>1. FileTyped'
      BY <1>17, <2>2 DEF FileEnds, Typed, FileTyped
    <3>2. FramerTyped'
      BY <1>17, <2>2 DEF FileEnds, Typed, FramerTyped
    <3>3. MarkFirst'
      BY <1>17, <2>2 DEF FileEnds, Typed, MarkFirst
    <3> QED
      BY <3>1, <3>2, <3>3 DEF Typed
  <2> QED
    BY <2>1, <2>2
<1>18. CASE UNCHANGED vars
  BY <1>18 DEF vars, fileVars, framerVars, Typed, FileTyped, FramerTyped, MarkFirst
<1> QED
  BY <1>1, <1>2, <1>3, <1>4, <1>7, <1>9, <1>10, <1>13, <1>14, <1>15, <1>16,
     <1>17, <1>18 DEF Next, Over

-----------------------------------------------------------------------------
(* Memory is bounded.                                                      *)

\* Every step keeps what is held in bounds.
LEMMA HeldStep ==
  ASSUME Typed, Bounded, [Next]_vars
  PROVE  Bounded'
<1> DEFINE lim == setting.limit
<1>1. lim \in Nat /\ lim # 0 /\ setting' = setting
  <2>1. setting \in Settings
    BY DEF Typed, FileTyped
  <2>2. setting' = setting
    BY DEF Next, Call, TakePending, TakeLine, Waiting, LineGoesOn, LineEnds,
           LineTooLong, SkipLf, SkipInterrupted, LastLine, Frame, FileEnds, Over,
           vars, fileVars, written
  <2> QED
    BY <2>1, <2>2, SettingTypes
<1>2. /\ msg \in Seq(Seq(Good)) /\ line \in Seq(Raw) /\ buf \in Seq(Bytes)
      /\ pending # Null => pending \in Seq(Good)
  BY DEF Typed, FramerTyped, FileTyped
<1>3. Size(<<>>) = 0 /\ Size(msg) \in Nat
      /\ \A l \in Seq(Good) : Size(Append(msg, l)) = Size(msg) + (Len(l) + 1)
  BY <1>2, SizeSteps
<1>4. lim' = lim
  BY <1>1
<1>21. /\ pending # Null => Len(pending) \in Nat /\ Len(pending) <= lim
       /\ pc # "idle" => Size(msg) <= lim + 1
  BY <1>2 DEF Bounded, CutInALine
\* A step that leaves the message within its ceiling.
<1>22. ASSUME pc' \in {"fill", "lf", "frame"} => Len(line') <= lim,
              pending' # Null => Len(pending') \in Nat /\ Len(pending') <= lim,
              Size(msg') <= lim + 1, Size(msg') \in Nat
       PROVE  Bounded'
  <2>1. CutInALine' => Size(msg') + Len(pending') <= 2 * lim + 2
    <3>1. CutInALine' => Len(pending') \in Nat /\ Len(pending') <= lim
      BY <1>22 DEF CutInALine
    <3> HIDE DEF lim
    <3> QED
      BY <1>1, <1>22, <3>1
  <2> QED
    BY <1>4, <1>22, <2>1 DEF Bounded
<1> USE DEF framed, written
<1>5. CASE Call
  <2>1. pc' = "take" /\ msg' = <<>> /\ UNCHANGED pending
    BY <1>5 DEF Call
  <2>2. Size(msg') <= lim + 1 /\ Size(msg') \in Nat
    BY <1>1, <1>3, <2>1
  <2> QED
    BY <1>21, <1>22, <2>1, <2>2
<1>6. CASE TakePending
  <2>1. /\ pc # "idle" /\ pending # Null /\ line' = pending /\ pending' = Null
        /\ UNCHANGED msg
    BY <1>6 DEF TakePending
  <2> QED
    BY <1>3, <1>21, <1>22, <2>1
<1>7. CASE TakeLine
  <2>1. /\ pc # "idle" /\ line' = <<>> /\ UNCHANGED <<msg, pending>>
    BY <1>7 DEF TakeLine
  <2>2. Len(<<>>) <= lim
    BY <1>1
  <2> QED
    BY <1>3, <1>21, <1>22, <2>1, <2>2
<1>8. CASE Waiting
  BY <1>4, <1>8 DEF Waiting, framerVars, Bounded, CutInALine
<1>9. ASSUME pc = "fill", ~TooLong
      PROVE  /\ line \o Piece \in Seq(Raw) /\ Len(line \o Piece) <= lim
             /\ \A i \in DOMAIN (line \o Piece) :
                  (line \o Piece)[i] = "bom" => i = 1 /\ taken = 0
  <2>1. /\ line \o Piece \in Seq(Raw)
        /\ Len(line \o Piece) = Len(line) + Len(Piece)
        /\ \A i \in DOMAIN (line \o Piece) :
             (line \o Piece)[i] = "bom" => i = 1 /\ taken = 0
    BY <1>9, LineGrows
  <2>2. Piece \in Seq(Raw)
    BY <1>2, PieceIs
  <2>3. Len(line) + Len(Piece) <= lim
    BY <1>1, <1>2, <1>9, <2>2 DEF TooLong
  <2> QED
    BY <2>1, <2>3
<1>10. CASE LineGoesOn
  <2>1. pc = "fill" /\ ~TooLong /\ line' = line \o Piece /\ UNCHANGED <<pc, msg, pending>>
    BY <1>10 DEF LineGoesOn
  <2>2. Len(line') <= lim
    BY <1>9, <2>1
  <2> QED
    BY <1>3, <1>21, <1>22, <2>1, <2>2
<1>11. ASSUME NEW bytes \in Seq(Raw), Len(bytes) <= lim, LineTaken(bytes),
              \A i \in DOMAIN bytes : bytes[i] = "bom" => i = 1 /\ taken = 0,
              pc \in {"fill", "lf"}, UNCHANGED <<msg, pending>>
       PROVE  Bounded'
  <2>1. taken \in Nat
    BY DEF Typed, FramerTyped
  <2>2. line' \in Seq(Raw) /\ Len(line') <= Len(bytes) /\ pc' \in {"frame", "failed"}
    BY <1>11, <2>1, LineTakenIs
  <2>3. Len(line') <= lim
    BY <1>1, <1>11, <2>2
  <2> QED
    BY <1>3, <1>11, <1>21, <1>22, <2>3
<1>12. CASE LineEnds
  <2>1. pc = "fill" /\ ~TooLong /\ UNCHANGED <<msg, pending>>
    BY <1>12 DEF LineEnds
  <2>2. CASE buf[Terminator] = "cr"
    <3>1. pc' = "lf" /\ line' = line \o Piece
      BY <1>12, <2>2 DEF LineEnds
    <3>2. Len(line') <= lim
      BY <1>9, <2>1, <3>1
    <3> QED
      BY <1>3, <1>21, <1>22, <2>1, <3>1, <3>2
  <2>3. CASE buf[Terminator] # "cr"
    <3>1. LineTaken(line \o Piece)
      BY <1>12, <2>3 DEF LineEnds
    <3> QED
      BY <1>9, <1>11, <2>1, <3>1
  <2> QED
    BY <2>2, <2>3
<1>13. pc \in {"fill", "lf"} =>
         /\ \A i \in DOMAIN line : line[i] = "bom" => i = 1 /\ taken = 0
         /\ Len(line) <= lim
  BY DEF Typed, MarkFirst, Bounded
<1>14. CASE LineTooLong
  <2>1. pc = "fill" /\ pc' = "failed" /\ UNCHANGED <<line, msg, pending>>
    BY <1>14 DEF LineTooLong
  <2> QED
    BY <1>3, <1>21, <1>22, <2>1
<1>15. CASE SkipLf
  BY <1>2, <1>11, <1>13, <1>15 DEF SkipLf
<1>16. CASE SkipInterrupted
  BY <1>2, <1>11, <1>13, <1>16 DEF SkipInterrupted
<1>17. CASE LastLine
  BY <1>2, <1>11, <1>13, <1>17 DEF LastLine
<1>18. CASE Frame
  <2>1. /\ line \in Seq(Good) /\ Len(line) <= lim /\ Size(msg) <= lim + 1
        /\ Len(line) \in Nat
    BY <1>18 DEF Frame, Typed, FramerTyped, Bounded, CutInALine
  <2>4. ASSUME UNCHANGED <<msg, pending>>, pc' \in {"idle", "take", "failed"}
        PROVE  Bounded'
    BY <1>3, <1>21, <1>22, <2>1, <2>4
  <2>5. ASSUME EndsMessage
        PROVE  UNCHANGED <<msg, pending>> /\ pc' \in {"idle", "take", "failed"}
    BY <2>5 DEF EndsMessage, Returns
  <2>6. CASE FrameSeparator
    BY <2>4, <2>5, <2>6 DEF FrameSeparator
  <2>7. CASE FrameBoundary
    <3> DEFINE head == SubSeq(line, 1, Boundary - 1)
               rest == SubSeq(line, Boundary, Len(line))
    <3>1. pc' = "idle" /\ pending' = rest
      BY <2>7 DEF FrameBoundary, Returns
    <3>2. Boundary \in 1 .. Len(line) /\ Boundary \in Blocks
      <4>1. Blocks \subseteq 1 .. Len(line)
        BY <2>1 DEF Blocks
      <4> DEFINE others == IF has_block1 \/ Blocks = {} THEN Blocks
                           ELSE Blocks \ {Min(Blocks)}
      <4>2. others \subseteq Blocks
        OBVIOUS
      <4>3. Boundary = IF others = {} THEN 0 ELSE Min(others)
        BY DEF Boundary
      <4>4. Boundary # 0
        BY <2>7 DEF FrameBoundary
      <4> HIDE DEF others
      <4>5. others # {} /\ others \subseteq Nat
        BY <4>1, <4>2, <4>3, <4>4
      <4> QED
        BY <4>1, <4>2, <4>3, <4>5, MinIsLeast
    <3>3. /\ head \in Seq(Good) /\ Len(head) + Len(rest) <= lim
          /\ rest \in Seq(Good) /\ Len(rest) <= lim
          /\ Len(head) \in Nat /\ Len(rest) \in Nat
      <4>1. /\ head \in Seq(Good) /\ Len(head) = Boundary - 1
            /\ rest \in Seq(Good) /\ Len(rest) = (Len(line) + 1) - Boundary
        BY <2>1, <3>2
      <4> HIDE DEF head, rest, lim
      <4> QED
        BY <1>1, <2>1, <3>2, <4>1
    <3> HIDE DEF head, rest
    <3>4. CASE msg' = msg
      BY <1>3, <1>22, <2>1, <3>1, <3>3, <3>4
    <3>5. CASE msg' = Append(msg, head)
      <4>1. Size(msg') = Size(msg) + (Len(head) + 1)
        BY <1>3, <3>3, <3>5
      <4>2. Size(msg') + Len(pending') <= 2 * lim + 2
        <5> HIDE DEF lim
        <5> QED
          BY <1>1, <1>3, <2>1, <3>1, <3>3, <4>1
      <4>3. pending'[1] = "H"
        <5>1. line[Boundary] = "H"
          BY <3>2 DEF Blocks
        <5>2. rest[1] = line[Boundary]
          BY <2>1, <3>2 DEF rest
        <5> QED
          BY <3>1, <5>1, <5>2
      <4>4. CutInALine' /\ Len(pending') <= lim
        BY <3>1, <3>3, <4>3, NullIsNone DEF CutInALine
      <4> QED
        BY <1>4, <3>1, <4>2, <4>4 DEF Bounded
    <3> QED
      BY <2>7, <3>4, <3>5 DEF FrameBoundary, head
  <2>8. CASE FrameReference
    <3>1. pc' = "idle" /\ pending' = line /\ msg' = msg
      BY <2>8 DEF FrameReference, Returns
    <3> QED
      BY <1>3, <1>22, <2>1, <3>1
  <2>9. CASE FramePreamble
    BY <2>4, <2>9 DEF FramePreamble
  <2>10. CASE FrameBareEnd
    BY <2>4, <2>5, <2>10 DEF FrameBareEnd
  <2>11. CASE FrameTooLong
    BY <2>4, <2>11 DEF FrameTooLong
  <2>12. CASE FrameLine
    <3>1. /\ Size(msg) + Len(line) <= lim /\ msg' = Append(msg, line)
          /\ pc' = "take" /\ UNCHANGED pending
      BY <2>12 DEF FrameLine
    <3>2. Size(msg') <= lim + 1 /\ Size(msg') \in Nat
      <4>1. Size(msg') = Size(msg) + (Len(line) + 1)
        BY <1>3, <2>1, <3>1
      <4> HIDE DEF lim
      <4> QED
        BY <1>1, <1>3, <2>1, <3>1, <4>1
    <3> QED
      BY <1>21, <1>22, <3>1, <3>2
  <2> QED
    BY <1>18, <2>6, <2>7, <2>8, <2>9, <2>10, <2>11, <2>12 DEF Frame
<1>19. CASE FileEnds
  <2>1. pc = "fill" /\ UNCHANGED <<msg, pending>> /\ pc' \in {"idle", "ended"}
    BY <1>19 DEF FileEnds, Returns
  <2> QED
    BY <1>3, <1>21, <1>22, <2>1
<1>20. CASE UNCHANGED vars
  BY <1>20 DEF vars, fileVars, framerVars, Bounded, CutInALine
<1> QED
  BY <1>5, <1>6, <1>7, <1>8, <1>10, <1>12, <1>14, <1>15, <1>16, <1>17, <1>18,
     <1>19, <1>20 DEF Next, Over

\* Nothing is held at the start.
LEMMA HeldAtStart == Init => Bounded
<1> SUFFICES ASSUME Init
             PROVE  Bounded
  OBVIOUS
<1>1. setting.limit \in Nat
  BY SettingTypes DEF Init, FileInit
<1>2. Size(<<>>) = 0
  BY SizeSteps
<1> QED
  BY <1>1, <1>2 DEF Init, Bounded, CutInALine

\* No line passes the ceiling, and no message but one whose last line begins the
\* next one: memory does not follow the file (Bounded of MtFramer).
THEOREM BoundHolds == Spec => []Bounded
<1>1. Init => Typed /\ Bounded
  BY TypedAtStart, HeldAtStart
<1>2. Typed /\ Bounded /\ [Next]_vars => (Typed /\ Bounded)'
  BY TypedStep, HeldStep
<1> QED
  BY <1>1, <1>2, PTL DEF Spec

-----------------------------------------------------------------------------
(* What a byte of the file does to what its writer knows.                  *)

StartAt(a) == [line |-> a.lineNo, lines |-> <<>>]
With(a) == [a.open EXCEPT !.lines = IF a.here = <<>> THEN @ ELSE Append(@, a.here)]
IsOver(a) == Trim(a.here) = <<"S">> \/ (a.mode = "bare" /\ Trim(a.here) = <<"D">>)

Added(lim, a, c) ==
  /\ c.lineNo = a.lineNo /\ c.width = a.width + 1 /\ ~c.lastCr
  /\ c.sound => /\ a.sound /\ c.here[Len(c.here)] # "x" /\ c.width <= lim
                /\ c.open = Null \/ Size(c.open.lines) + Len(c.here) <= lim

TextTo(lim, a, x, c) ==
  /\ x \in Texts \ {"H"} /\ (x = "T" => a.here # <<>> \/ a.mode = "blocks")
  /\ c.here = Append(a.here, x)
  /\ c.mode = a.mode /\ c.open = a.open /\ c.due = a.due
  /\ Added(lim, a, c)

BlockTo(lim, a, c) ==
  /\ a.mode = "blocks" \/ (a.mode = "none" /\ Trim(a.here) = <<>>)
  /\ c.mode = "blocks" /\ c.open = StartAt(a)
  /\ c.due = IF a.mode = "blocks" THEN Append(a.due, With(a)) ELSE a.due
  /\ c.here = IF a.mode = "blocks" THEN <<"H">> ELSE Append(a.here, "H")
  /\ Added(lim, a, c)

ReferenceTo(lim, a, c) ==
  /\ a.mode # "blocks" /\ a.here = <<>>
  /\ c.mode = "bare" /\ c.open = StartAt(a)
  /\ c.due = IF a.mode = "bare" THEN Append(a.due, a.open) ELSE a.due
  /\ c.here = <<"T">>
  /\ Added(lim, a, c)

MarkTo(a, c) ==
  /\ c.here = a.here /\ c.mode = a.mode /\ c.open = a.open /\ c.due = a.due
  /\ c.lineNo = a.lineNo /\ c.width = a.width + 1 /\ ~c.lastCr
  /\ c.sound => a.sound

\* The LF of a CR LF.
PairTo(a, c) ==
  /\ c.here = a.here /\ c.mode = a.mode /\ c.open = a.open /\ c.due = a.due
  /\ c.lineNo = a.lineNo /\ c.width = a.width /\ ~c.lastCr
  /\ c.sound => a.sound

LineEndTo(lim, a, c) ==
  /\ c.here = <<>> /\ c.width = 0 /\ c.lineNo = a.lineNo + 1
  /\ c.mode = IF IsOver(a) THEN "none" ELSE a.mode
  /\ c.due = IF IsOver(a) /\ a.open # Null THEN Append(a.due, a.open) ELSE a.due
  /\ c.open = IF a.open = Null \/ IsOver(a) THEN Null
              ELSE [a.open EXCEPT !.lines = Append(@, a.here)]
  /\ c.sound => /\ a.sound
                /\ c.open = Null \/ Size(c.open.lines) - 1 <= lim

ByteTo(lim, a, x, c) ==
  \/ x = "bom" /\ MarkTo(a, c)
  \/ TextTo(lim, a, x, c)
  \/ x = "H" /\ BlockTo(lim, a, c)
  \/ x = "T" /\ ReferenceTo(lim, a, c)
  \/ x = "lf" /\ a.lastCr /\ PairTo(a, c)
  \/ x = "lf" /\ ~a.lastCr /\ LineEndTo(lim, a, c) /\ ~c.lastCr
  \/ x = "cr" /\ LineEndTo(lim, a, c) /\ c.lastCr

\* The file ends.
EndDue(a) == IF a.open = Null THEN a.due
             ELSE Append(a.due, IF IsOver(a) THEN a.open ELSE With(a))

-----------------------------------------------------------------------------
(* From one state of the writer to another, over bytes of the file.        *)

Path(lim, r, a, s, c) ==
  /\ r \in [0 .. Len(s) -> States] /\ r[0] = a /\ r[Len(s)] = c
  /\ \A k \in 1 .. Len(s) : ByteTo(lim, r[k - 1], s[k], r[k])

Reach(lim, a, s, c) == \E r : Path(lim, r, a, s, c)

\* Over no bytes the writer stays where it is.
LEMMA ReachNone ==
  ASSUME NEW lim, NEW a \in States
  PROVE  /\ Reach(lim, a, <<>>, a)
         /\ \A c : Reach(lim, a, <<>>, c) => c = a
<1>1. Reach(lim, a, <<>>, a)
  <2> DEFINE r == [k \in 0 .. 0 |-> a]
  <2>1. Path(lim, r, a, <<>>, a)
    BY DEF Path
  <2> QED
    BY <2>1 DEF Reach
<1>2. ASSUME NEW c, Reach(lim, a, <<>>, c)
      PROVE  c = a
  <2>1. PICK r : Path(lim, r, a, <<>>, c)
    BY <1>2 DEF Reach
  <2> QED
    BY <2>1 DEF Path
<1> QED
  BY <1>1, <1>2

\* Where the writer comes from and gets to are states.
LEMMA ReachTypes ==
  ASSUME NEW lim, NEW B, NEW s \in Seq(B), NEW a, NEW c, Reach(lim, a, s, c)
  PROVE  a \in States /\ c \in States
<1>1. PICK r : Path(lim, r, a, s, c)
  BY DEF Reach
<1>2. 0 \in 0 .. Len(s) /\ Len(s) \in 0 .. Len(s)
  OBVIOUS
<1> QED
  BY <1>1, <1>2 DEF Path

\* What holds at the start, numbered by the bytes read, and passes over each
\* byte, holds at the end.
LEMMA ReachInduct ==
  ASSUME NEW lim, NEW B, NEW s \in Seq(B), NEW a, NEW c, Reach(lim, a, s, c),
         NEW T, <<0, a>> \in T,
         \A k \in 1 .. Len(s), b \in States, d \in States :
           <<k - 1, b>> \in T /\ ByteTo(lim, b, s[k], d) => <<k, d>> \in T
  PROVE  <<Len(s), c>> \in T
<1>1. PICK r : Path(lim, r, a, s, c)
  BY DEF Reach
<1> DEFINE n == Len(s)
           U == {k \in Nat : <<k, r[k]>> \in T}
<1>2. n \in Nat /\ r \in [0 .. n -> States] /\ r[0] = a /\ r[n] = c
      /\ \A k \in 1 .. n : ByteTo(lim, r[k - 1], s[k], r[k])
  BY <1>1 DEF Path
<1>3. 0 \in U
  BY <1>2
<1>4. ASSUME NEW k \in 0 .. n - 1, k \in U
      PROVE  k + 1 \in U
  <2>1. k + 1 \in 1 .. n /\ (k + 1) - 1 = k /\ k \in 0 .. n /\ k + 1 \in 0 .. n
        /\ k + 1 \in Nat
    BY <1>2
  <2>2. r[k] \in States /\ r[k + 1] \in States /\ ByteTo(lim, r[k], s[k + 1], r[k + 1])
    <3>1. ByteTo(lim, r[(k + 1) - 1], s[k + 1], r[k + 1])
      BY <1>2, <2>1
    <3> QED
      BY <1>2, <2>1, <3>1
  <2>3. <<(k + 1) - 1, r[k]>> \in T
    BY <1>4, <2>1
  <2>4. <<k + 1, r[k + 1]>> \in T
    BY <2>1, <2>2, <2>3
  <2> QED
    BY <2>1, <2>4
<1>5. \A k \in 0 .. n : k \in U
  <2> HIDE DEF U, n
  <2> QED
    BY <1>2, <1>3, <1>4, UpTo
<1> QED
  BY <1>2, <1>5

\* Over the bytes of two pieces the writer goes piece by piece.
LEMMA ReachJoin ==
  ASSUME NEW lim, NEW B, NEW s \in Seq(B), NEW t \in Seq(B),
         NEW a, NEW b, NEW c, Reach(lim, a, s, b), Reach(lim, b, t, c)
  PROVE  Reach(lim, a, s \o t, c)
<1> DEFINE n == Len(s)
           m == Len(t)
           u == s \o t
<1>1. PICK r : Path(lim, r, a, s, b)
  BY DEF Reach
<1>2. PICK q : Path(lim, q, b, t, c)
  BY DEF Reach
<1> DEFINE p == [k \in 0 .. n + m |-> IF k <= n THEN r[k] ELSE q[k - n]]
<1>3. /\ n \in Nat /\ m \in Nat /\ Len(u) = n + m
      /\ \A k \in 1 .. n : u[k] = s[k]
      /\ \A k \in 1 .. m : u[n + k] = t[k]
  BY ConcatProperties
<1>4. r \in [0 .. n -> States] /\ r[0] = a /\ r[n] = b
      /\ \A k \in 1 .. n : ByteTo(lim, r[k - 1], s[k], r[k])
  BY <1>1 DEF Path
<1>5. q \in [0 .. m -> States] /\ q[0] = b /\ q[m] = c
      /\ \A k \in 1 .. m : ByteTo(lim, q[k - 1], t[k], q[k])
  BY <1>2 DEF Path
<1> HIDE DEF n, m, u
<1>6. p \in [0 .. n + m -> States]
  <2> SUFFICES ASSUME NEW k \in 0 .. n + m
               PROVE  p[k] \in States
    OBVIOUS
  <2>1. CASE k <= n
    BY <1>3, <1>4, <2>1
  <2>2. CASE ~(k <= n)
    BY <1>3, <1>5, <2>2
  <2> QED
    BY <2>1, <2>2
<1>7. p[0] = a /\ p[n + m] = c
  <2>1. p[0] = a
    BY <1>3, <1>4
  <2>2. CASE m = 0
    <3>1. n + m = n
      BY <1>3, <2>2
    <3>2. b = c
      BY <1>5, <2>2
    <3> QED
      BY <1>3, <1>4, <2>1, <3>1, <3>2
  <2>3. CASE m # 0
    <3>1. ~(n + m <= n) /\ (n + m) - n = m /\ n + m \in 0 .. n + m
      BY <1>3, <2>3
    <3> QED
      BY <1>5, <2>1, <3>1
  <2> QED
    BY <2>2, <2>3
<1>8. ASSUME NEW k \in 1 .. n + m
      PROVE  ByteTo(lim, p[k - 1], u[k], p[k])
  <2>1. CASE k <= n
    <3>1. k \in 1 .. n /\ k - 1 <= n /\ k \in 0 .. n + m /\ k - 1 \in 0 .. n + m
      BY <1>3, <2>1
    <3>2. p[k] = r[k] /\ p[k - 1] = r[k - 1]
      BY <2>1, <3>1
    <3> HIDE DEF p
    <3> QED
      BY <1>3, <1>4, <3>1, <3>2
  <2>2. CASE ~(k <= n)
    <3> DEFINE j == k - n
    <3>1. j \in 1 .. m /\ k = n + j /\ k \in 0 .. n + m /\ k - 1 \in 0 .. n + m
      BY <1>3, <2>2
    <3>2. p[k] = q[j]
      BY <2>2, <3>1
    <3>3. p[k - 1] = q[j - 1]
      <4>1. CASE j = 1
        <5>1. k - 1 = n /\ j - 1 = 0
          BY <1>3, <3>1, <4>1
        <5> QED
          BY <1>3, <1>4, <1>5, <3>1, <5>1
      <4>2. CASE j # 1
        <5>1. ~(k - 1 <= n) /\ (k - 1) - n = j - 1
          BY <1>3, <3>1, <4>2
        <5> QED
          BY <3>1, <5>1
      <4> QED
        BY <4>1, <4>2
    <3> HIDE DEF p, j
    <3> QED
      BY <1>3, <1>5, <3>1, <3>2, <3>3
  <2> QED
    BY <2>1, <2>2
<1> HIDE DEF p
<1>9. Path(lim, p, a, u, c)
  BY <1>3, <1>6, <1>7, <1>8 DEF Path
<1> QED
  BY <1>9 DEF Reach, u

\* Over the bytes of two pieces the writer comes by a state between them.
LEMMA ReachCut ==
  ASSUME NEW lim, NEW B, NEW s \in Seq(B), NEW t \in Seq(B),
         NEW a, NEW c, Reach(lim, a, s \o t, c)
  PROVE  \E b \in States : Reach(lim, a, s, b) /\ Reach(lim, b, t, c)
<1> DEFINE n == Len(s)
           m == Len(t)
           u == s \o t
<1>1. PICK r : Path(lim, r, a, u, c)
  BY DEF Reach
<1>2. /\ n \in Nat /\ m \in Nat /\ Len(u) = n + m
      /\ \A k \in 1 .. n : u[k] = s[k]
      /\ \A k \in 1 .. m : u[n + k] = t[k]
  BY ConcatProperties
<1>3. r \in [0 .. n + m -> States] /\ r[0] = a /\ r[n + m] = c
      /\ \A k \in 1 .. n + m : ByteTo(lim, r[k - 1], u[k], r[k])
  BY <1>1, <1>2 DEF Path
<1> DEFINE p == [k \in 0 .. n |-> r[k]]
           q == [k \in 0 .. m |-> r[n + k]]
<1> HIDE DEF n, m, u
<1>4. r[n] \in States /\ n \in 0 .. n /\ 0 \in 0 .. n /\ 0 \in 0 .. m /\ m \in 0 .. m
      /\ n + 0 = n
  BY <1>2, <1>3
<1>5. Path(lim, p, a, s, r[n])
  <2>1. p \in [0 .. n -> States]
    BY <1>2, <1>3
  <2>2. ASSUME NEW k \in 1 .. n
        PROVE  ByteTo(lim, p[k - 1], s[k], p[k])
    <3>1. k \in 0 .. n /\ k - 1 \in 0 .. n /\ k \in 1 .. n + m
      BY <1>2
    <3>2. p[k] = r[k] /\ p[k - 1] = r[k - 1]
      BY <3>1
    <3> HIDE DEF p
    <3> QED
      BY <1>2, <1>3, <3>1, <3>2
  <2>3. p[0] = a /\ p[n] = r[n]
    BY <1>3, <1>4
  <2> HIDE DEF p
  <2> QED
    BY <2>1, <2>2, <2>3 DEF Path, n
<1>6. Path(lim, q, r[n], t, c)
  <2>1. q \in [0 .. m -> States]
    BY <1>2, <1>3
  <2>2. ASSUME NEW k \in 1 .. m
        PROVE  ByteTo(lim, q[k - 1], t[k], q[k])
    <3>1. k \in 0 .. m /\ k - 1 \in 0 .. m /\ n + k \in 1 .. n + m
          /\ (n + k) - 1 = n + (k - 1)
      BY <1>2
    <3>2. q[k] = r[n + k] /\ q[k - 1] = r[n + (k - 1)]
      BY <3>1
    <3>3. ByteTo(lim, r[(n + k) - 1], u[n + k], r[n + k])
      BY <1>3, <3>1
    <3> HIDE DEF q
    <3> QED
      BY <1>2, <3>1, <3>2, <3>3
  <2>3. q[0] = r[n] /\ q[m] = c
    BY <1>3, <1>4
  <2> HIDE DEF q
  <2> QED
    BY <2>1, <2>2, <2>3 DEF Path, m
<1> QED
  BY <1>4, <1>5, <1>6 DEF Reach

\* Over one byte the writer does what the byte does.
LEMMA ReachOne ==
  ASSUME NEW lim, NEW a \in States, NEW x, NEW c \in States
  PROVE  Reach(lim, a, <<x>>, c) <=> ByteTo(lim, a, x, c)
<1>1. Len(<<x>>) = 1 /\ <<x>>[1] = x /\ 1 .. 1 = {1} /\ 1 - 1 = 0
  OBVIOUS
<1>2. ASSUME Reach(lim, a, <<x>>, c)
      PROVE  ByteTo(lim, a, x, c)
  <2>1. PICK r : Path(lim, r, a, <<x>>, c)
    BY <1>2 DEF Reach
  <2>2. r[0] = a /\ r[1] = c /\ ByteTo(lim, r[1 - 1], <<x>>[1], r[1])
    BY <1>1, <2>1 DEF Path
  <2> QED
    BY <1>1, <2>2
<1>3. ASSUME ByteTo(lim, a, x, c)
      PROVE  Reach(lim, a, <<x>>, c)
  <2> DEFINE r == [k \in 0 .. 1 |-> IF k = 0 THEN a ELSE c]
  <2>1. r \in [0 .. 1 -> States] /\ r[0] = a /\ r[1] = c
    OBVIOUS
  <2> HIDE DEF r
  <2>2. \A k \in 1 .. 1 : ByteTo(lim, r[k - 1], <<x>>[k], r[k])
    BY <1>1, <1>3, <2>1
  <2>3. Path(lim, r, a, <<x>>, c)
    BY <1>1, <2>1, <2>2 DEF Path
  <2> QED
    BY <2>3 DEF Reach
<1> QED
  BY <1>2, <1>3

\* Over a byte more the writer goes on with what the byte does.
LEMMA ReachAppend ==
  ASSUME NEW lim, NEW B, NEW s \in Seq(B), NEW x \in B, NEW a, NEW b,
         NEW c \in States, Reach(lim, a, s, b), ByteTo(lim, b, x, c)
  PROVE  Reach(lim, a, Append(s, x), c)
<1>1. b \in States
  BY ReachTypes
<1>2. Reach(lim, b, <<x>>, c)
  BY <1>1, ReachOne
<1>3. <<x>> \in Seq(B) /\ Append(s, x) = s \o <<x>>
  BY AppendIsConcat
<1> QED
  BY <1>2, <1>3, ReachJoin

\* At each byte the writer stands between what came before and what follows.
LEMMA ReachAt ==
  ASSUME NEW lim, NEW B, NEW s \in Seq(B), NEW a, NEW c, Reach(lim, a, s, c),
         NEW k \in 1 .. Len(s)
  PROVE  \E b \in States, d \in States :
           /\ Reach(lim, a, SubSeq(s, 1, k - 1), b)
           /\ ByteTo(lim, b, s[k], d)
           /\ Reach(lim, d, SubSeq(s, k + 1, Len(s)), c)
<1> DEFINE p == SubSeq(s, 1, k - 1)
           q == SubSeq(s, k + 1, Len(s))
           x == <<s[k]>>
<1>1. p \in Seq(B) /\ q \in Seq(B) /\ x \in Seq(B)
  OBVIOUS
<1>2. s = p \o (x \o q)
  <2> DEFINE n == Len(s)
             j == k - 1
  <2>1. /\ n \in Nat /\ k \in Nat /\ j + 1 = k
        /\ 1 \in 1 .. n + 1 /\ j \in 1 - 1 .. n /\ n \in j .. n
        /\ k \in 1 .. n + 1 /\ k \in k - 1 .. n /\ n \in k .. n
    OBVIOUS
  <2> HIDE DEF n, j
  <2>2. ASSUME NEW i \in 1 .. n + 1, NEW h \in i - 1 .. n
        PROVE  SubSeq(s, i, h) \o SubSeq(s, h + 1, n) = SubSeq(s, i, n)
    <3>1. n \in h .. n
      BY <2>1, <2>2
    <3> QED
      BY <2>2, <3>1, ConcatAdjacentSubSeq DEF n
  <2>3. p \o SubSeq(s, j + 1, n) = SubSeq(s, 1, n)
    BY <2>1, <2>2 DEF j
  <2>4. SubSeq(s, k, k) \o q = SubSeq(s, k, n)
    <3>1. k \in 1 .. n + 1 /\ k \in k - 1 .. n
      BY <2>1
    <3>2. SubSeq(s, k, k) \o SubSeq(s, k + 1, n) = SubSeq(s, k, n)
      BY <2>2, <3>1
    <3> QED
      BY <3>2 DEF n
  <2>5. SubSeq(s, k, k) = x
    <3>1. k \in k .. Len(s) /\ k < k + 1 /\ k \in Int /\ k + 1 \in Int
      OBVIOUS
    <3>2. SubSeq(s, k, k) = <<s[k]>> \o SubSeq(s, k + 1, k)
      BY <3>1, SubSeqRecursiveFirst
    <3>3. SubSeq(s, k + 1, k) = <<>>
      BY <3>1, SubSeqEmpty
    <3> QED
      BY <1>1, <3>2, <3>3, ConcatEmptySeq
  <2>6. SubSeq(s, 1, Len(s)) = s
    BY SubSeqFull
  <2> QED
    BY <2>1, <2>3, <2>4, <2>5, <2>6 DEF n
<1>3. x \o q \in Seq(B)
  BY <1>1
<1> HIDE DEF p, q
<1>4. PICK b \in States : Reach(lim, a, p, b) /\ Reach(lim, b, x \o q, c)
  <2>1. Reach(lim, a, p \o (x \o q), c)
    BY <1>2
  <2> HIDE DEF x
  <2> QED
    BY <1>1, <1>3, <2>1, ReachCut
<1>5. PICK d \in States : Reach(lim, b, x, d) /\ Reach(lim, d, q, c)
  <2> HIDE DEF x
  <2> QED
    BY <1>1, <1>4, ReachCut
<1>6. ByteTo(lim, b, s[k], d)
  BY <1>5, ReachOne
<1> QED
  BY <1>4, <1>5, <1>6 DEF p, q

-----------------------------------------------------------------------------
(* Lines and their blanks.                                                 *)

\* A line that is all blanks is nothing without them, and one that comes down to
\* one byte holds that byte and blanks only.
LEMMA TrimSays ==
  ASSUME NEW B, NEW s \in Seq(B)
  PROVE  /\ Trim(s) = <<>> <=> \A i \in 1 .. Len(s) : s[i] = "w"
         /\ \A x : Trim(s) = <<x>> => \A i \in 1 .. Len(s) : s[i] \in {x, "w"}
<1> DEFINE n == Len(s)
           kept == {i \in DOMAIN s : s[i] # "w"}
<1>1. n \in Nat /\ DOMAIN s = 1 .. n /\ \A i \in 1 .. n : s[i] \in B
  OBVIOUS
<1>2. Trim(s) = IF kept = {} THEN <<>> ELSE SubSeq(s, Min(kept), Max(kept))
  BY DEF Trim
<1>3. \A i : i \in kept <=> i \in 1 .. n /\ s[i] # "w"
  BY <1>1
<1> HIDE DEF n, kept
<1>4. CASE kept = {}
  <2>1. \A x : <<>> # <<x>>
    OBVIOUS
  <2> QED
    BY <1>2, <1>3, <1>4, <2>1 DEF n
<1>5. CASE kept # {}
  <2> DEFINE l == Min(kept)
             h == Max(kept)
  <2>1. l \in kept /\ \A y \in kept : l <= y
    <3>1. kept \subseteq Nat
      BY <1>1, <1>3
    <3> QED
      BY <1>5, <3>1, MinIsLeast
  <2>2. h \in kept /\ \A y \in kept : h >= y
    <3>1. kept \in SUBSET (0 .. n)
      BY <1>1, <1>3
    <3> QED
      BY <1>1, <1>5, <3>1, Greatest
  <2>3. Trim(s) = SubSeq(s, l, h)
    BY <1>2, <1>5
  <2> HIDE DEF l, h
  <2>4. l \in 1 .. n /\ h \in 1 .. n /\ l <= h
    BY <1>3, <2>1, <2>2
  <2>5. /\ Len(Trim(s)) = (h - l) + 1
        /\ \A i \in 1 .. (h - l) + 1 : Trim(s)[i] = s[(l + i) - 1]
    <3>1. \A i \in l .. h : s[i] \in B
      BY <1>1, <2>4
    <3> QED
      BY <2>3, <2>4, <3>1, SubSeqProperties
  <2>6. Trim(s) # <<>>
    BY <2>4, <2>5
  <2>7. ASSUME NEW x, Trim(s) = <<x>>, NEW i \in 1 .. n
        PROVE  s[i] \in {x, "w"}
    <3>1. Len(Trim(s)) = 1 /\ Trim(s)[1] = x
      BY <2>7
    <3>2. h = l
      <4>1. (h - l) + 1 = 1
        BY <2>5, <3>1
      <4> QED
        BY <1>1, <2>4, <4>1
    <3>3. s[l] = x
      <4>1. (h - l) + 1 = 1 /\ (l + 1) - 1 = l
        BY <2>4, <3>2
      <4>2. 1 \in 1 .. 1
        OBVIOUS
      <4> QED
        BY <2>5, <3>1, <4>1, <4>2
    <3>4. CASE i \in kept
      <4>1. i = l
        BY <1>1, <2>1, <2>2, <2>4, <3>2, <3>4
      <4> QED
        BY <3>3, <4>1
    <3> QED
      BY <1>3, <2>7, <3>4
  <2>8. ~(\A i \in 1 .. n : s[i] = "w")
    BY <1>3, <1>5
  <2> QED
    BY <2>6, <2>7, <2>8 DEF n
<1> QED
  BY <1>4, <1>5

\* The first k bytes of a line are the first k - 1 and the k-th.
LEMMA TakeOne ==
  ASSUME NEW B, NEW s \in Seq(B), NEW h \in Seq(B), NEW k \in 1 .. Len(s)
  PROVE  /\ SubSeq(s, 1, k - 1) \in Seq(B) /\ Len(SubSeq(s, 1, k - 1)) = k - 1
         /\ h \o SubSeq(s, 1, k) = Append(h \o SubSeq(s, 1, k - 1), s[k])
<1> DEFINE t == SubSeq(s, 1, k - 1)
           u == SubSeq(s, 1, k)
<1>1. /\ t \in Seq(B) /\ Len(t) = k - 1 /\ s[k] \in B
      /\ u \in Seq(B)
  OBVIOUS
<1>2. u = t \o <<s[k]>>
  <2>1. 1 \in 1 .. Len(s) /\ k \in 1 .. Len(s)
    OBVIOUS
  <2> QED
    BY <2>1, SubSeqRecursiveSecond
<1> HIDE DEF t, u
<1>3. <<s[k]>> \in Seq(B)
  BY <1>1
<1>4. h \o u = (h \o t) \o <<s[k]>>
  BY <1>1, <1>2, <1>3, ConcatAssociative
<1>5. h \o t \in Seq(B)
  BY <1>1, ConcatProperties
<1>6. Append(h \o t, s[k]) = (h \o t) \o <<s[k]>>
  BY <1>1, <1>5, AppendIsConcat
<1> QED
  BY <1>1, <1>4, <1>6 DEF t, u

-----------------------------------------------------------------------------
(* The writer along the bytes of a line.                                   *)

\* Over the bytes of one line the writer stays in the line and counts them; the
\* file is sound only as long as the line is UTF-8 and nothing is too long.
LEMMA FitRun ==
  ASSUME NEW lim, NEW s \in Seq(Raw), NEW a, NEW c, Reach(lim, a, s, c)
  PROVE  /\ c.width = a.width + Len(s) /\ c.lineNo = a.lineNo
         /\ c.sound => a.sound /\ \A i \in 1 .. Len(s) : s[i] # "x"
         /\ s # <<>> => ~c.lastCr
         /\ s # <<>> /\ s[Len(s)] # "bom" =>
              /\ c.here # <<>>
              /\ c.sound => /\ c.width <= lim
                            /\ c.open = Null \/ Size(c.open.lines) + Len(c.here) <= lim
<1> DEFINE n == Len(s)
           P(k, v) == /\ v.width = a.width + k /\ v.lineNo = a.lineNo
                      /\ v.sound => a.sound /\ \A i \in 1 .. k : s[i] # "x"
                      /\ k # 0 => ~v.lastCr
                      /\ k # 0 /\ s[k] # "bom" =>
                           /\ v.here # <<>>
                           /\ v.sound =>
                                /\ v.width <= lim
                                /\ \/ v.open = Null
                                   \/ Size(v.open.lines) + Len(v.here) <= lim
           T == {p \in Nat \X States : P(p[1], p[2])}
<1>1. n \in Nat /\ \A i \in 1 .. n : s[i] \in Raw
  OBVIOUS
<1>2. a \in States /\ c \in States
  BY ReachTypes
<1>3. \A k, v : <<k, v>> \in T <=> k \in Nat /\ v \in States /\ P(k, v)
  <2> HIDE DEF P
  <2> QED
    OBVIOUS
<1> HIDE DEF T, n
<1>4. <<0, a>> \in T
  <2>1. a.width \in Nat
    BY <1>2 DEF States
  <2>2. P(0, a)
    BY <2>1
  <2> HIDE DEF P
  <2> QED
    BY <1>2, <1>3, <2>2
<1>5. ASSUME NEW k \in 1 .. n, NEW b \in States, NEW d \in States,
             <<k - 1, b>> \in T, ByteTo(lim, b, s[k], d)
      PROVE  <<k, d>> \in T
  <2>1. P(k - 1, b)
    <3> HIDE DEF P
    <3> QED
      BY <1>3, <1>5
  <2>2. s[k] \in Raw /\ k \in Nat /\ k # 0 /\ a.width \in Nat
    BY <1>1, <1>2 DEF States
  <2>3. CASE s[k] = "bom" /\ MarkTo(b, d)
    <3>1. d.width = a.width + k /\ d.lineNo = a.lineNo
      BY <2>1, <2>2, <2>3 DEF MarkTo
    <3>2. d.sound => a.sound /\ \A i \in 1 .. k : s[i] # "x"
      BY <2>1, <2>2, <2>3 DEF MarkTo
    <3>3. ~d.lastCr
      BY <2>3 DEF MarkTo
    <3>4. P(k, d)
      BY <2>3, <3>1, <3>2, <3>3
    <3> HIDE DEF P
    <3> QED
      BY <1>3, <2>2, <3>4
  <2>4. CASE \/ TextTo(lim, b, s[k], d)
             \/ s[k] = "H" /\ BlockTo(lim, b, d)
             \/ s[k] = "T" /\ ReferenceTo(lim, b, d)
    <3>1. Added(lim, b, d) /\ d.here # <<>> /\ d.here[Len(d.here)] = s[k]
      <4>1. b.here \in Seq(Texts)
        BY DEF States
      <4>2. CASE TextTo(lim, b, s[k], d)
        <5>1. s[k] \in Texts
          BY <4>2 DEF TextTo
        <5> QED
          BY <4>1, <4>2, <5>1, AppendProperties DEF TextTo
      <4>3. CASE s[k] = "H" /\ BlockTo(lim, b, d)
        <5>1. "H" \in Texts
          BY DEF Texts
        <5>2. Append(b.here, "H") # <<>>
              /\ Append(b.here, "H")[Len(Append(b.here, "H"))] = "H"
              /\ <<"H">> # <<>> /\ <<"H">>[Len(<<"H">>)] = "H"
          BY <4>1, <5>1, AppendProperties
        <5> QED
          BY <4>3, <5>2 DEF BlockTo
      <4>4. CASE s[k] = "T" /\ ReferenceTo(lim, b, d)
        <5>1. <<"T">> # <<>> /\ <<"T">>[Len(<<"T">>)] = "T"
          OBVIOUS
        <5> QED
          BY <4>4, <5>1 DEF ReferenceTo
      <4> QED
        BY <2>4, <4>2, <4>3, <4>4
    <3>2. d.width = a.width + k /\ d.lineNo = a.lineNo
      BY <2>1, <2>2, <3>1 DEF Added
    <3>3. d.sound => a.sound /\ \A i \in 1 .. k : s[i] # "x"
      BY <2>1, <2>2, <3>1 DEF Added
    <3>4. ~d.lastCr
      BY <3>1 DEF Added
    <3>5. d.sound => d.width <= lim
                     /\ (d.open = Null \/ Size(d.open.lines) + Len(d.here) <= lim)
      BY <3>1 DEF Added
    <3>6. P(k, d)
      BY <3>1, <3>2, <3>3, <3>4, <3>5
    <3> HIDE DEF P
    <3> QED
      BY <1>3, <2>2, <3>6
  <2> QED
    BY <1>5, <2>2, <2>3, <2>4 DEF ByteTo, Raw, Texts
<1>6. <<Len(s), c>> \in T
  <2> HIDE DEF P
  <2> QED
    BY <1>4, <1>5, ReachInduct DEF n
<1>7. P(n, c)
  <2> HIDE DEF P
  <2> QED
    BY <1>3, <1>6 DEF n
<1>8. s # <<>> <=> n # 0
  BY DEF n
<1> QED
  BY <1>7, <1>8 DEF n

\* A line that holds h, with s behind it.
Joined(h, s) == h \o s

\* No block begins in s.
NoBlock(s) == \A i \in 1 .. Len(s) : s[i] # "H"

\* No statement begins with s at a.
GoesOn(a, s) == a.mode = "blocks" \/ a.here # <<>> \/ s = <<>> \/ s[1] # "T"

\* Over text the writer adds to the line and begins and ends nothing.
LEMMA TextRun ==
  ASSUME NEW lim, NEW s \in Seq(Texts), NEW a, NEW c, Reach(lim, a, s, c),
         NoBlock(s), GoesOn(a, s)
  PROVE  /\ c.here = Joined(a.here, s)
         /\ c.mode = a.mode /\ c.open = a.open /\ c.due = a.due
<1> USE DEF Joined, NoBlock, GoesOn
<1> DEFINE n == Len(s)
           P(k, v) == /\ v.here = a.here \o SubSeq(s, 1, k)
                      /\ v.mode = a.mode /\ v.open = a.open /\ v.due = a.due
           T == {p \in Nat \X States : P(p[1], p[2])}
<1>1. n \in Nat /\ \A i \in 1 .. n : s[i] \in Texts \ {"H"}
  OBVIOUS
<1>2. a \in States /\ c \in States /\ a.here \in Seq(Texts)
  BY ReachTypes DEF States
<1>3. \A k, v : <<k, v>> \in T <=> k \in Nat /\ v \in States /\ P(k, v)
  <2> HIDE DEF P
  <2> QED
    OBVIOUS
<1> HIDE DEF T, n
<1>4. <<0, a>> \in T
  <2>1. SubSeq(s, 1, 0) = <<>>
    BY SubSeqEmpty
  <2>2. P(0, a)
    BY <1>2, <2>1, ConcatEmptySeq
  <2> HIDE DEF P
  <2> QED
    BY <1>2, <1>3, <2>2
<1>5. ASSUME NEW k \in 1 .. n, NEW b \in States, NEW d \in States,
             <<k - 1, b>> \in T, ByteTo(lim, b, s[k], d)
      PROVE  <<k, d>> \in T
  <2>1. P(k - 1, b)
    <3> HIDE DEF P
    <3> QED
      BY <1>3, <1>5
  <2> DEFINE t == SubSeq(s, 1, k - 1)
  <2>2. /\ t \in Seq(Texts) /\ Len(t) = k - 1
        /\ a.here \o SubSeq(s, 1, k) = Append(a.here \o t, s[k])
    BY <1>2, TakeOne DEF n
  <2> HIDE DEF t
  <2>3. ~(s[k] = "T" /\ ReferenceTo(lim, b, d))
    <3> SUFFICES ASSUME s[k] = "T", ReferenceTo(lim, b, d)
                 PROVE  FALSE
      OBVIOUS
    <3>1. b.here = <<>> /\ b.mode # "blocks"
      BY DEF ReferenceTo
    <3>2. a.here \o t = <<>> /\ a.mode # "blocks"
      BY <2>1, <3>1 DEF t
    <3>3. a.here = <<>> /\ t = <<>>
      BY <1>2, <2>2, <3>2, ConcatEmptySeq
    <3>4. k = 1
      BY <2>2, <3>3
    <3>5. s # <<>>
      BY <3>4 DEF n
    <3> QED
      BY <3>2, <3>3, <3>4, <3>5
  <2>4. TextTo(lim, b, s[k], d)
    BY <1>1, <1>5, <2>3 DEF ByteTo, Texts
  <2>5. P(k, d)
    <3>1. d.here = Append(b.here, s[k])
      BY <2>4 DEF TextTo
    <3>2. d.here = a.here \o SubSeq(s, 1, k)
      BY <2>1, <2>2, <3>1 DEF t
    <3>3. d.mode = b.mode /\ d.open = b.open /\ d.due = b.due
      BY <2>4 DEF TextTo
    <3> QED
      BY <2>1, <3>2, <3>3
  <2> HIDE DEF P
  <2> QED
    BY <1>3, <2>5
<1>6. <<Len(s), c>> \in T
  <2> HIDE DEF P
  <2> QED
    BY <1>4, <1>5, ReachInduct DEF n
<1>7. P(n, c)
  <2> HIDE DEF P
  <2> QED
    BY <1>3, <1>6 DEF n
<1>8. SubSeq(s, 1, n) = s
  BY SubSeqFull DEF n
<1> QED
  BY <1>7, <1>8

\* In a bare statement no block begins.
LEMMA BareRun ==
  ASSUME NEW lim, NEW s \in Seq(Texts), NEW a, NEW c, Reach(lim, a, s, c),
         a.mode = "bare"
  PROVE  \A i \in 1 .. Len(s) : s[i] # "H"
<1> DEFINE n == Len(s)
           P(k, v) == v.mode = "bare" /\ \A i \in 1 .. k : s[i] # "H"
           T == {p \in Nat \X States : P(p[1], p[2])}
<1>1. n \in Nat /\ \A i \in 1 .. n : s[i] \in Texts
  OBVIOUS
<1>2. a \in States /\ c \in States
  BY ReachTypes
<1>3. \A k, v : <<k, v>> \in T <=> k \in Nat /\ v \in States /\ P(k, v)
  <2> HIDE DEF P
  <2> QED
    OBVIOUS
<1> HIDE DEF T, n
<1>4. <<0, a>> \in T
  <2>1. P(0, a)
    OBVIOUS
  <2> HIDE DEF P
  <2> QED
    BY <1>2, <1>3, <2>1
<1>5. ASSUME NEW k \in 1 .. n, NEW b \in States, NEW d \in States,
             <<k - 1, b>> \in T, ByteTo(lim, b, s[k], d)
      PROVE  <<k, d>> \in T
  <2>1. P(k - 1, b)
    <3> HIDE DEF P
    <3> QED
      BY <1>3, <1>5
  <2>2. s[k] \in Texts
    BY <1>1
  <2>3. s[k] # "H" /\ d.mode = "bare"
    BY <1>5, <2>1, <2>2 DEF ByteTo, TextTo, BlockTo, ReferenceTo, Texts
  <2>4. P(k, d)
    BY <2>1, <2>3
  <2> HIDE DEF P
  <2> QED
    BY <1>3, <2>4
<1>6. <<Len(s), c>> \in T
  <2> HIDE DEF P
  <2> QED
    BY <1>4, <1>5, ReachInduct DEF n
<1>7. P(n, c)
  <2> HIDE DEF P
  <2> QED
    BY <1>3, <1>6 DEF n
<1> QED
  BY <1>7 DEF n

-----------------------------------------------------------------------------
(* The first of the messages that are due is handed over.                  *)

Drop(a) == [a EXCEPT !.due = Tail(@)]

\* Without the first that is due, all else is as it was.
LEMMA DropIs ==
  ASSUME NEW a \in States, a.due # <<>>
  PROVE  /\ Drop(a) \in States /\ Drop(a).due = Tail(a.due)
         /\ Drop(a).mode = a.mode /\ Drop(a).open = a.open
         /\ Drop(a).here = a.here /\ Drop(a).lineNo = a.lineNo
         /\ Drop(a).width = a.width /\ Drop(a).sound = a.sound
         /\ Drop(a).lastCr = a.lastCr
<1>1. a.due \in Seq(Messages)
  BY DEF States
<1>2. Tail(a.due) \in Seq(Messages)
  BY <1>1, HeadTailProperties
<1> QED
  BY <1>2 DEF States, Drop

\* What is added at the end leaves the first where it is.
LEMMA TailOfAppend ==
  ASSUME NEW q \in Seq(Messages), NEW m \in Messages, q # <<>>
  PROVE  /\ Append(q, m) # <<>> /\ Append(q, m)[1] = q[1]
         /\ Tail(Append(q, m)) = Append(Tail(q), m)
<1>1. /\ Len(q) \in Nat /\ Len(q) # 0
      /\ Append(q, m) \in Seq(Messages) /\ Len(Append(q, m)) = Len(q) + 1
      /\ \A i \in 1 .. Len(q) : Append(q, m)[i] = q[i]
      /\ Append(q, m)[Len(q) + 1] = m
  BY AppendProperties
<1>2. Append(q, m) # <<>>
  BY <1>1
<1>3. /\ Tail(Append(q, m)) \in Seq(Messages)
      /\ Len(Tail(Append(q, m))) = Len(q)
      /\ \A i \in 1 .. Len(q) : Tail(Append(q, m))[i] = Append(q, m)[i + 1]
  <2> DEFINE u == Append(q, m)
  <2> HIDE DEF u
  <2>1. u \in Seq(Messages) /\ u # <<>> /\ Len(u) - 1 = Len(q)
    BY <1>1, <1>2 DEF u
  <2>2. Tail(u) \in Seq(Messages) /\ Len(Tail(u)) = Len(q)
        /\ \A i \in 1 .. Len(q) : Tail(u)[i] = u[i + 1]
    BY <2>1, HeadTailProperties
  <2> QED
    BY <2>2 DEF u
<1>4. /\ Tail(q) \in Seq(Messages) /\ Len(Tail(q)) = Len(q) - 1
      /\ \A i \in 1 .. Len(q) - 1 : Tail(q)[i] = q[i + 1]
  BY HeadTailProperties
<1> DEFINE v == Append(Tail(q), m)
<1>5. /\ v \in Seq(Messages) /\ Len(v) = Len(q)
      /\ \A i \in 1 .. Len(q) - 1 : v[i] = q[i + 1]
      /\ v[Len(q)] = m
  <2> DEFINE w == Tail(q)
  <2> HIDE DEF w
  <2>1. w \in Seq(Messages) /\ Len(w) = Len(q) - 1
        /\ \A i \in 1 .. Len(q) - 1 : w[i] = q[i + 1]
    BY <1>4 DEF w
  <2>2. /\ Append(w, m) \in Seq(Messages) /\ Len(Append(w, m)) = Len(q)
        /\ \A i \in 1 .. Len(q) - 1 : Append(w, m)[i] = w[i]
        /\ Append(w, m)[Len(q)] = m
    BY <1>1, <2>1, AppendProperties
  <2> QED
    BY <2>1, <2>2 DEF w
<1> DEFINE u == Tail(Append(q, m))
<1> HIDE DEF u, v
<1>6. \A i \in 1 .. Len(q) : u[i] = v[i]
  <2> TAKE i \in 1 .. Len(q)
  <2>1. CASE i = Len(q)
    BY <1>1, <1>3, <1>5, <2>1 DEF u
  <2>2. CASE i # Len(q)
    <3>1. i \in 1 .. Len(q) - 1 /\ i + 1 \in 1 .. Len(q)
      BY <1>1, <2>2
    <3> QED
      BY <1>1, <1>3, <1>5, <3>1 DEF u
  <2> QED
    BY <2>1, <2>2
<1>7. u = v
  BY <1>3, <1>5, <1>6, SeqEqual DEF u
<1> QED
  BY <1>1, <1>2, <1>7 DEF u, v

\* The open message with the line it is in is a message.
LEMMA WithIs ==
  ASSUME NEW a \in States, a.mode # "none"
  PROVE  a.open \in Messages /\ With(a) \in Messages
<1>1. a.open \in Messages /\ a.here \in Seq(Texts)
  BY DEF States
<1> QED
  BY <1>1, MessageGrows DEF With

\* The end of a line does the same to a writer that has one message less to hand
\* over.
LEMMA DropLineEnd ==
  ASSUME NEW lim, NEW a \in States, NEW c \in States, a.due # <<>>,
         LineEndTo(lim, a, c)
  PROVE  /\ c.due # <<>> /\ c.due[1] = a.due[1]
         /\ LineEndTo(lim, Drop(a), Drop(c))
<1> DEFINE d == Drop(a)
           e == Drop(c)
<1>1. a.open # Null => a.open \in Messages
  BY DEF States
<1>2. c.due # <<>> /\ c.due[1] = a.due[1]
  <2>1. a.due \in Seq(Messages)
    BY DEF States
  <2> QED
    BY <1>1, <2>1, TailOfAppend DEF LineEndTo
<1>3. /\ d.due = Tail(a.due) /\ e.due = Tail(c.due)
      /\ d.mode = a.mode /\ d.open = a.open /\ d.here = a.here
      /\ d.lineNo = a.lineNo /\ d.sound = a.sound
      /\ e.mode = c.mode /\ e.open = c.open /\ e.here = c.here
      /\ e.lineNo = c.lineNo /\ e.width = c.width /\ e.sound = c.sound
  BY <1>2, DropIs
<1> HIDE DEF d, e
<1>4. IsOver(d) <=> IsOver(a)
  BY <1>3 DEF IsOver
<1>5. e.due = IF IsOver(d) /\ d.open # Null THEN Append(d.due, d.open) ELSE d.due
  <2>1. CASE IsOver(a) /\ a.open # Null
    <3>1. c.due = Append(a.due, a.open) /\ a.due \in Seq(Messages)
      BY <2>1 DEF LineEndTo, States
    <3> QED
      BY <1>1, <1>3, <1>4, <2>1, <3>1, TailOfAppend
  <2>2. CASE ~(IsOver(a) /\ a.open # Null)
    <3>1. c.due = a.due
      BY <2>2 DEF LineEndTo
    <3> QED
      BY <1>3, <1>4, <2>2, <3>1
  <2> QED
    BY <2>1, <2>2
<1>6. e.mode = IF IsOver(d) THEN "none" ELSE d.mode
  BY <1>3, <1>4 DEF LineEndTo
<1>7. e.open = IF d.open = Null \/ IsOver(d) THEN Null
               ELSE [d.open EXCEPT !.lines = Append(@, d.here)]
  BY <1>3, <1>4 DEF LineEndTo
<1>8. e.here = <<>> /\ e.width = 0 /\ e.lineNo = d.lineNo + 1
  BY <1>3 DEF LineEndTo
<1>9. e.sound => d.sound /\ (e.open = Null \/ Size(e.open.lines) - 1 <= lim)
  BY <1>3 DEF LineEndTo
<1>10. LineEndTo(lim, d, e)
  BY <1>5, <1>6, <1>7, <1>8, <1>9 DEF LineEndTo
<1> QED
  BY <1>2, <1>10 DEF d, e

\* A byte does the same to a writer that has one message less to hand over.
LEMMA DropByte ==
  ASSUME NEW lim, NEW a \in States, NEW x, NEW c \in States,
         a.due # <<>>, ByteTo(lim, a, x, c)
  PROVE  /\ c.due # <<>> /\ c.due[1] = a.due[1]
         /\ ByteTo(lim, Drop(a), x, Drop(c))
<1> DEFINE d == Drop(a)
           e == Drop(c)
<1>1. c.due = a.due \/ \E m \in Messages : c.due = Append(a.due, m)
  <2>1. a.mode # "none" => a.open \in Messages /\ With(a) \in Messages
    BY WithIs
  <2>2. a.open # Null => a.open \in Messages
    BY DEF States
  <2>3. CASE x = "bom" /\ MarkTo(a, c)
    BY <2>3 DEF MarkTo
  <2>4. CASE TextTo(lim, a, x, c)
    BY <2>4 DEF TextTo
  <2>5. CASE x = "H" /\ BlockTo(lim, a, c)
    BY <2>1, <2>5 DEF BlockTo
  <2>6. CASE x = "T" /\ ReferenceTo(lim, a, c)
    BY <2>1, <2>6 DEF ReferenceTo
  <2>7. CASE PairTo(a, c)
    BY <2>7 DEF PairTo
  <2>8. CASE LineEndTo(lim, a, c)
    BY <2>2, <2>8 DEF LineEndTo
  <2> QED
    BY <2>3, <2>4, <2>5, <2>6, <2>7, <2>8 DEF ByteTo
<1>2. a.due \in Seq(Messages)
  BY DEF States
<1>3. c.due # <<>> /\ c.due[1] = a.due[1]
  BY <1>1, <1>2, TailOfAppend
<1>4. /\ d.due = Tail(a.due) /\ e.due = Tail(c.due)
      /\ d.mode = a.mode /\ d.open = a.open /\ d.here = a.here
      /\ d.lineNo = a.lineNo /\ d.width = a.width /\ d.sound = a.sound
      /\ d.lastCr = a.lastCr
      /\ e.mode = c.mode /\ e.open = c.open /\ e.here = c.here
      /\ e.lineNo = c.lineNo /\ e.width = c.width /\ e.sound = c.sound
      /\ e.lastCr = c.lastCr
  BY <1>3, DropIs
<1> HIDE DEF d, e
<1>5. /\ StartAt(d) = StartAt(a) /\ With(d) = With(a) /\ (IsOver(d) <=> IsOver(a))
      /\ Added(lim, a, c) => Added(lim, d, e)
  <2>1. StartAt(d) = StartAt(a) /\ With(d) = With(a)
    BY <1>4 DEF StartAt, With
  <2>2. IsOver(d) <=> IsOver(a)
    BY <1>4 DEF IsOver
  <2>3. Added(lim, a, c) => Added(lim, d, e)
    BY <1>4 DEF Added
  <2> QED
    BY <2>1, <2>2, <2>3
<1>6. ASSUME NEW m \in Messages, c.due = Append(a.due, m)
      PROVE  e.due = Append(d.due, m)
  BY <1>2, <1>4, <1>6, TailOfAppend
<1>7. CASE x = "bom" /\ MarkTo(a, c)
  <2>1. MarkTo(d, e)
    BY <1>4, <1>7 DEF MarkTo
  <2> QED
    BY <1>3, <1>7, <2>1 DEF ByteTo, d, e
<1>8. CASE TextTo(lim, a, x, c)
  <2>1. TextTo(lim, d, x, e)
    BY <1>4, <1>5, <1>8 DEF TextTo
  <2> QED
    BY <1>3, <1>8, <2>1 DEF ByteTo, d, e
<1>9. CASE x = "H" /\ BlockTo(lim, a, c)
  <2>1. e.due = IF d.mode = "blocks" THEN Append(d.due, With(d)) ELSE d.due
    <3>1. CASE a.mode = "blocks"
      <4>1. With(a) \in Messages
        BY <3>1, WithIs
      <4>2. c.due = Append(a.due, With(a))
        BY <1>9, <3>1 DEF BlockTo
      <4> QED
        BY <1>4, <1>5, <1>6, <3>1, <4>1, <4>2
    <3>2. CASE a.mode # "blocks"
      BY <1>4, <1>9, <3>2 DEF BlockTo
    <3> QED
      BY <3>1, <3>2
  <2>2. BlockTo(lim, d, e)
    BY <1>4, <1>5, <1>9, <2>1 DEF BlockTo
  <2> QED
    BY <1>3, <1>9, <2>2 DEF ByteTo, d, e
<1>10. CASE x = "T" /\ ReferenceTo(lim, a, c)
  <2>1. e.due = IF d.mode = "bare" THEN Append(d.due, d.open) ELSE d.due
    <3>1. CASE a.mode = "bare"
      <4>1. a.open \in Messages
        BY <3>1, WithIs
      <4>2. c.due = Append(a.due, a.open)
        BY <1>10, <3>1 DEF ReferenceTo
      <4> QED
        BY <1>4, <1>6, <3>1, <4>1, <4>2
    <3>2. CASE a.mode # "bare"
      BY <1>4, <1>10, <3>2 DEF ReferenceTo
    <3> QED
      BY <3>1, <3>2
  <2>2. ReferenceTo(lim, d, e)
    BY <1>4, <1>5, <1>10, <2>1 DEF ReferenceTo
  <2> QED
    BY <1>3, <1>10, <2>2 DEF ByteTo, d, e
<1>11. CASE x = "lf" /\ a.lastCr /\ PairTo(a, c)
  <2>1. PairTo(d, e) /\ d.lastCr
    BY <1>4, <1>11 DEF PairTo
  <2> QED
    BY <1>3, <1>11, <2>1 DEF ByteTo, d, e
<1>12. LineEndTo(lim, a, c) => LineEndTo(lim, d, e)
  BY DropLineEnd DEF d, e
<1>13. CASE x = "lf" /\ ~a.lastCr /\ LineEndTo(lim, a, c) /\ ~c.lastCr
  <2>1. LineEndTo(lim, d, e) /\ ~d.lastCr /\ ~e.lastCr
    BY <1>4, <1>12, <1>13
  <2> QED
    BY <1>3, <1>13, <2>1 DEF ByteTo, d, e
<1>14. CASE x = "cr" /\ LineEndTo(lim, a, c) /\ c.lastCr
  <2>1. LineEndTo(lim, d, e) /\ e.lastCr
    BY <1>4, <1>12, <1>14
  <2> QED
    BY <1>3, <1>14, <2>1 DEF ByteTo, d, e
<1> QED
  BY <1>7, <1>8, <1>9, <1>10, <1>11, <1>13, <1>14 DEF ByteTo

\* A writer with one message less to hand over goes the same way.
LEMMA DropRun ==
  ASSUME NEW lim, NEW B, NEW s \in Seq(B), NEW a, NEW c, Reach(lim, a, s, c),
         a.due # <<>>
  PROVE  /\ c.due # <<>> /\ c.due[1] = a.due[1]
         /\ Reach(lim, Drop(a), s, Drop(c))
<1> DEFINE n == Len(s)
<1>1. PICK r : Path(lim, r, a, s, c)
  BY DEF Reach
<1>2. n \in Nat /\ r \in [0 .. n -> States] /\ r[0] = a /\ r[n] = c
      /\ \A k \in 1 .. n : ByteTo(lim, r[k - 1], s[k], r[k])
  BY <1>1 DEF Path
<1> DEFINE T == {k \in Nat : r[k].due # <<>> /\ r[k].due[1] = a.due[1]}
<1>3. 0 \in T
  BY <1>2
<1> HIDE DEF n
<1>4. ASSUME NEW k \in 0 .. n - 1, k \in T
      PROVE  k + 1 \in T
  <2>1. k + 1 \in 1 .. n /\ (k + 1) - 1 = k /\ k \in 0 .. n /\ k + 1 \in 0 .. n
        /\ k + 1 \in Nat
    BY <1>2
  <2>2. ByteTo(lim, r[(k + 1) - 1], s[k + 1], r[k + 1])
    BY <1>2, <2>1
  <2>3. ByteTo(lim, r[k], s[k + 1], r[k + 1]) /\ r[k] \in States /\ r[k + 1] \in States
    BY <1>2, <2>1, <2>2
  <2>4. r[k].due # <<>> /\ r[k].due[1] = a.due[1]
    BY <1>4
  <2>5. r[k + 1].due # <<>> /\ r[k + 1].due[1] = r[k].due[1]
    <3> DEFINE v == r[k]
               w == r[k + 1]
               y == s[k + 1]
    <3>1. v \in States /\ w \in States /\ v.due # <<>> /\ ByteTo(lim, v, y, w)
      BY <2>3, <2>4
    <3> HIDE DEF v, w, y, T
    <3>2. w.due # <<>> /\ w.due[1] = v.due[1] /\ ByteTo(lim, Drop(v), y, Drop(w))
      BY <3>1, DropByte
    <3> QED
      BY <3>2 DEF v, w
  <2> QED
    BY <2>1, <2>4, <2>5
<1>5. \A k \in 0 .. n : r[k].due # <<>> /\ r[k].due[1] = a.due[1]
  <2>1. \A k \in 0 .. n : k \in T
    <3> HIDE DEF T
    <3> QED
      BY <1>2, <1>3, <1>4, UpTo
  <2> QED
    BY <2>1
<1> DEFINE q == [k \in 0 .. n |-> Drop(r[k])]
<1>6. q \in [0 .. n -> States] /\ q[0] = Drop(a) /\ q[n] = Drop(c)
  <2>1. \A k \in 0 .. n : Drop(r[k]) \in States
    BY <1>2, <1>5, DropIs
  <2> QED
    BY <1>2, <2>1
<1>7. ASSUME NEW k \in 1 .. n
      PROVE  ByteTo(lim, q[k - 1], s[k], q[k])
  <2>1. k \in 0 .. n /\ k - 1 \in 0 .. n
    BY <1>2
  <2>2. q[k] = Drop(r[k]) /\ q[k - 1] = Drop(r[k - 1])
    BY <2>1
  <2>3. r[k] \in States /\ r[k - 1] \in States /\ r[k - 1].due # <<>>
        /\ ByteTo(lim, r[k - 1], s[k], r[k])
    BY <1>2, <1>5, <2>1
  <2>4. ByteTo(lim, Drop(r[k - 1]), s[k], Drop(r[k]))
    BY <2>3, DropByte
  <2> QED
    BY <2>2, <2>4
<1>8. Path(lim, q, Drop(a), s, Drop(c))
  <2> HIDE DEF q
  <2> QED
    BY <1>6, <1>7 DEF Path, n
<1> QED
  BY <1>2, <1>5, <1>8 DEF Reach

-----------------------------------------------------------------------------
(* Where the framer stands in the file.                                    *)

\* d is where the writer is now, or was when it ended the file.
Closes(d) ==
  IF ended THEN open = Null /\ due = EndDue(d) /\ (sound => d.sound)
  ELSE d = Now

\* From b the bytes in the buffer lead to where the writer is.
Ahead(b) == \E d \in States : Reach(setting.limit, b, buf, d) /\ Closes(d)

AtEnd == ended /\ filled /\ buf = <<>>

\* No LF that belongs to the line end before is still to come.
LfSafe(b) == b.lastCr => AtEnd \/ (buf # <<>> /\ buf[1] # "lf")

\* The file ended when the writer stood at b.
Closed(b) == AtEnd /\ open = Null /\ due = EndDue(b) /\ (sound => b.sound)

\* w is a writer at the start of a line that has all of m behind it, begun in
\* line bg, and nothing else.
Stands(w, m, hb, hf, bg) ==
  /\ w \in States /\ w.here = <<>> /\ w.due = <<>>
  /\ m = <<>> => w.mode = "none" /\ ~hb /\ ~hf
  /\ m # <<>> => /\ w.open = [line |-> bg, lines |-> m]
                 /\ hb => w.mode = "blocks"
                 /\ ~hb => w.mode = "bare" /\ hf

\* The line that led to b is over.
Done(b) ==
  \/ \E c \in States : LineEndTo(setting.limit, b, c) /\ Ahead(c) /\ LfSafe(c)
  \/ Closed(b) /\ (b.here = <<>> => b.open = Null)

\* The next line, if any, is still to be read.
Fresh(w) ==
  \/ w.lineNo = taken + 1 /\ w.width = 0 /\ Ahead(w) /\ LfSafe(w)
  \/ Closed(w)

\* The line so far leads from w on.
Filling(w) ==
  \/ /\ w.lineNo = taken + 1 /\ w.width = 0
     /\ \E b \in States : Reach(setting.limit, w, line, b) /\ Ahead(b) /\ LfSafe(b)
  \/ line = <<>> /\ Closed(w)

\* The line ended with a CR.
Returned(w) ==
  /\ w.lineNo = taken + 1
  /\ \E b \in States, c \in States :
       /\ Reach(setting.limit, w, line, b)
       /\ LineEndTo(setting.limit, b, c) /\ c.lastCr /\ Ahead(c)

\* l is a whole line, and leads from w on.
Whole(w, l) ==
  /\ w.lineNo = taken
  /\ \E b \in States : Reach(setting.limit, w, l, b) /\ Done(b)

\* Between two lines; what was put aside is a line that begins a message.
Between(w) == IF pending = Null THEN Fresh(w)
              ELSE w.mode = "none" /\ Whole(w, pending)

Place ==
  /\ pc \in {"fill", "lf", "frame"} => pending = Null
  /\ pc = "fill" => /\ seen <=> line # <<>>
                    /\ \E w : Stands(w, msg, has_block1, has_field20, began) /\ Filling(w)
  /\ pc = "lf" => \E w : Stands(w, msg, has_block1, has_field20, began) /\ Returned(w)
  /\ pc = "frame" =>
       \E w : Stands(w, msg, has_block1, has_field20, began) /\ Whole(w, line)
  /\ pc = "take" =>
       \E w : Stands(w, msg, has_block1, has_field20, began) /\ Between(w)
  /\ pc = "idle" => \E w : Stands(w, <<>>, FALSE, FALSE, 0) /\ Between(w)
  /\ pc # "idle" /\ msg # <<>> => HasText(msg)

Kept ==
  interrupts = 0 =>
    /\ Place
    /\ returned = wanted
    /\ pc = "ended" => due = <<>> /\ open = Null
    /\ pc = "failed" => ~sound

\* The inductive invariant.
IInv == Typed /\ Bounded /\ Kept

-----------------------------------------------------------------------------
(* The writer goes on.                                                     *)

\* What the writer knows is one of its states.
LEMMA NowIs ==
  ASSUME FileTyped
  PROVE  /\ Now \in States
         /\ Now.mode = mode /\ Now.open = open /\ Now.here = here
         /\ Now.lineNo = lineNo /\ Now.due = due /\ Now.width = width
         /\ Now.sound = sound /\ Now.lastCr = lastCr
BY DEF FileTyped, Now, States

\* Writing a byte puts it into the buffer, and does to the writer what the byte
\* does.
LEMMA WriterByte ==
  ASSUME FileTyped, FileTyped', UNCHANGED setting,
         \/ \E byte \in setting.texts \union {"T"} : WriteText(byte)
         \/ WriteBlock \/ WriteReference
         \/ \E byte \in {"lf", "cr"} : WriteLineEnd(byte)
  PROVE  \E x \in Bytes : /\ buf' = Append(buf, x)
                          /\ ~ended /\ UNCHANGED <<filled, ended>>
                          /\ ByteTo(setting.limit, Now, x, Now')
<1> DEFINE a == Now
           c == Now'
           lim == setting.limit
<1>1. /\ a \in States /\ a.mode = mode /\ a.open = open /\ a.here = here
      /\ a.lineNo = lineNo /\ a.due = due /\ a.width = width
      /\ a.sound = sound /\ a.lastCr = lastCr
  BY NowIs
<1>2. /\ c \in States /\ c.mode = mode' /\ c.open = open' /\ c.here = here'
      /\ c.lineNo = lineNo' /\ c.due = due' /\ c.width = width'
      /\ c.sound = sound' /\ c.lastCr = lastCr'
  BY DEF FileTyped, Now, States
<1> HIDE DEF a, c, lim
<1>3. StartAt(a) = Begun /\ With(a) = WithHere /\ (IsOver(a) <=> Terminates)
  BY <1>1 DEF StartAt, Begun, With, WithHere, IsOver, Terminates
<1>4. ASSUME Longer, UNCHANGED lineNo
      PROVE  Added(lim, a, c)
  <2>1. width' = width + 1 /\ ~lastCr'
    BY <1>4 DEF Longer
  <2>2. ASSUME sound'
        PROVE  /\ sound /\ here'[Len(here')] # "x" /\ width' <= setting.limit
               /\ open' = Null \/ Size(open'.lines) + Len(here') <= setting.limit
    BY <1>4, <2>2, Zenon DEF Longer
  <2> QED
    BY <1>1, <1>2, <1>4, <2>1, <2>2 DEF Added, lim
<1>5. SUFFICES \E x \in Bytes : /\ buf' = Append(buf, x)
                                /\ ~ended /\ UNCHANGED <<filled, ended>>
                                /\ ByteTo(lim, a, x, c)
  BY DEF a, c, lim
<1>6. CASE \E byte \in setting.texts \union {"T"} : WriteText(byte)
  <2>1. PICK byte \in setting.texts \union {"T"} : WriteText(byte)
    BY <1>6
  <2>2. byte \in Texts \ {"H"} /\ byte \in Bytes
    <3>1. setting \in Settings
      BY DEF FileTyped
    <3> QED
      BY <3>1, FileAssumption DEF Texts, Bytes
  <2>3. Put(byte) /\ here' = Append(here, byte) /\ UNCHANGED <<mode, open, lineNo, due>>
        /\ Longer
    BY <2>1 DEF WriteText
  <2>4. byte = "T" => here # <<>> \/ mode = "blocks"
    <3>1. setting \in Settings
      BY DEF FileTyped
    <3>2. "T" \notin setting.texts
      BY <3>1, FileAssumption
    <3> QED
      BY <2>1, <3>2 DEF WriteText
  <2>5. TextTo(lim, a, byte, c)
    BY <1>1, <1>2, <1>4, <2>2, <2>3, <2>4 DEF TextTo
  <2>6. ByteTo(lim, a, byte, c)
    BY <2>5 DEF ByteTo
  <2> QED
    BY <2>2, <2>3, <2>6 DEF Put
<1>7. CASE WriteBlock
  <2>1. Put("H") /\ Longer /\ UNCHANGED lineNo /\ "H" \in Bytes
    BY <1>7 DEF WriteBlock, Bytes, Texts
  <2>2. BlockTo(lim, a, c)
    BY <1>1, <1>2, <1>3, <1>4, <1>7, <2>1 DEF BlockTo, WriteBlock
  <2>3. ByteTo(lim, a, "H", c)
    BY <2>2 DEF ByteTo
  <2> QED
    BY <2>1, <2>3 DEF Put
<1>8. CASE WriteReference
  <2>1. Put("T") /\ Longer /\ UNCHANGED lineNo /\ "T" \in Bytes
    BY <1>8 DEF WriteReference, Bytes, Texts
  <2>2. ReferenceTo(lim, a, c)
    BY <1>1, <1>2, <1>3, <1>4, <1>8, <2>1 DEF ReferenceTo, WriteReference
  <2>3. ByteTo(lim, a, "T", c)
    BY <2>2 DEF ByteTo
  <2> QED
    BY <2>1, <2>3 DEF Put
<1>9. CASE \E byte \in {"lf", "cr"} : WriteLineEnd(byte)
  <2>1. PICK byte \in {"lf", "cr"} : WriteLineEnd(byte)
    BY <1>9
  <2>2. Put(byte) /\ byte \in Bytes
    BY <2>1 DEF WriteLineEnd, Bytes
  <2>3. lastCr' <=> byte = "cr"
    BY <2>1, Zenon DEF WriteLineEnd
  <2>4. CASE byte = "lf" /\ lastCr
    <3>1. UNCHANGED <<mode, open, here, width, lineNo, due, sound>>
      BY <2>1, <2>4 DEF WriteLineEnd
    <3>2. PairTo(a, c) /\ a.lastCr
      BY <1>1, <1>2, <2>3, <2>4, <3>1 DEF PairTo
    <3>3. ByteTo(lim, a, byte, c)
      BY <2>4, <3>2 DEF ByteTo
    <3> QED
      BY <2>2, <3>3 DEF Put
  <2>5. CASE ~(byte = "lf" /\ lastCr)
    <3>1. /\ lineNo' = lineNo + 1 /\ here' = <<>> /\ width' = 0
          /\ mode' = IF Terminates THEN "none" ELSE mode
      BY <2>1, <2>5, Zenon DEF WriteLineEnd
    <3>2. due' = IF Terminates /\ open # Null THEN Append(due, open) ELSE due
      BY <2>1, <2>5, Zenon DEF WriteLineEnd
    <3>3. open' = IF open = Null \/ Terminates THEN Null
                  ELSE [open EXCEPT !.lines = Append(@, here)]
      BY <2>1, <2>5, Zenon DEF WriteLineEnd
    <3>4. ASSUME sound'
          PROVE  sound /\ (open' = Null \/ Size(open'.lines) - 1 <= setting.limit)
      BY <2>1, <2>5, <3>4, Zenon DEF WriteLineEnd
    <3>5. LineEndTo(lim, a, c)
      <4>1. c.here = <<>> /\ c.width = 0 /\ c.lineNo = a.lineNo + 1
            /\ c.mode = IF IsOver(a) THEN "none" ELSE a.mode
        BY <1>1, <1>2, <1>3, <3>1
      <4>2. c.due = IF IsOver(a) /\ a.open # Null THEN Append(a.due, a.open) ELSE a.due
        BY <1>1, <1>2, <1>3, <3>2
      <4>3. c.open = IF a.open = Null \/ IsOver(a) THEN Null
                     ELSE [a.open EXCEPT !.lines = Append(@, a.here)]
        BY <1>1, <1>2, <1>3, <3>3
      <4>4. c.sound => a.sound /\ (c.open = Null \/ Size(c.open.lines) - 1 <= lim)
        BY <1>1, <1>2, <3>4 DEF lim
      <4> QED
        BY <4>1, <4>2, <4>3, <4>4 DEF LineEndTo
    <3>6. ByteTo(lim, a, byte, c)
      <4>1. CASE byte = "cr"
        BY <1>2, <2>3, <3>5, <4>1 DEF ByteTo
      <4>2. CASE byte # "cr"
        <5>1. byte = "lf" /\ ~lastCr /\ ~lastCr'
          BY <2>3, <2>5, <4>2
        <5> QED
          BY <1>1, <1>2, <3>5, <5>1 DEF ByteTo
      <4> QED
        BY <4>1, <4>2
    <3> QED
      BY <2>2, <3>6 DEF Put
  <2> QED
    BY <2>4, <2>5
<1> QED
  BY <1>6, <1>7, <1>8, <1>9

\* What leads to where the writer is leads on to where it gets.
LEMMA AheadGoesOn ==
  ASSUME FileTyped, UNCHANGED setting, ~filled, Write \/ Fill,
         NEW b \in States, Ahead(b)
  PROVE  Ahead(b)'
<1> DEFINE lim == setting.limit
<1>1. FileTyped'
  BY WriteTyped
<1>2. PICK d \in States : Reach(lim, b, buf, d) /\ Closes(d)
  BY DEF Ahead
<1>3. lim' = lim /\ buf \in Seq(Bytes)
  BY DEF FileTyped
<1> HIDE DEF lim
<1>4. CASE \/ \E byte \in setting.texts \union {"T"} : WriteText(byte)
           \/ WriteBlock \/ WriteReference
           \/ \E byte \in {"lf", "cr"} : WriteLineEnd(byte)
  <2>1. PICK x \in Bytes : /\ buf' = Append(buf, x)
                           /\ ~ended /\ UNCHANGED <<filled, ended>>
                           /\ ByteTo(lim, Now, x, Now')
    BY <1>1, <1>4, WriterByte DEF lim
  <2>2. d = Now
    BY <1>2, <2>1 DEF Closes
  <2>3. Now' \in States
    BY <1>1, NowIs DEF FileTyped, Now, States
  <2>4. Reach(lim, b, Append(buf, x), Now')
    BY <1>2, <1>3, <2>1, <2>2, <2>3, ReachAppend
  <2>5. Reach(lim', b, buf', Now') /\ Closes(Now)'
    BY <1>3, <2>1, <2>4 DEF Closes
  <2> QED
    BY <2>3, <2>5 DEF Ahead, lim
<1>5. CASE WriteEnd
  <2>1. ~ended /\ ended' /\ open' = Null /\ UNCHANGED <<buf, sound>>
        /\ due' = IF open = Null THEN due
                  ELSE Append(due, IF Terminates THEN open ELSE WithHere)
    BY <1>5 DEF WriteEnd
  <2>2. d = Now
    BY <1>2, <2>1 DEF Closes
  <2>3. /\ d.open = open /\ d.due = due /\ d.here = here /\ d.mode = mode
        /\ d.sound = sound
    BY <2>2, NowIs
  <2>4. With(d) = WithHere /\ (IsOver(d) <=> Terminates)
    BY <2>3 DEF With, WithHere, IsOver, Terminates
  <2>5. due' = EndDue(d)
    BY <2>1, <2>3, <2>4 DEF EndDue
  <2>6. Closes(d)'
    BY <2>1, <2>3, <2>5 DEF Closes
  <2>7. Reach(lim', b, buf', d)
    BY <1>2, <1>3, <2>1
  <2> QED
    BY <2>6, <2>7 DEF Ahead, lim
<1>6. CASE Fill
  <2>1. UNCHANGED <<mode, open, here, width, lineNo, due, sound, buf, lastCr, ended>>
    BY <1>6 DEF Fill
  <2>2. Closes(d)'
    BY <1>2, <2>1 DEF Closes, Now
  <2>3. Reach(lim', b, buf', d)
    BY <1>2, <1>3, <2>1
  <2> QED
    BY <2>2, <2>3 DEF Ahead, lim
<1> QED
  BY <1>4, <1>5, <1>6 DEF Write

-----------------------------------------------------------------------------
(* What is ahead.                                                          *)

\* A file that is sound at the end was sound all along.
LEMMA SoundRun ==
  ASSUME NEW lim, NEW B, NEW s \in Seq(B), NEW a, NEW c, Reach(lim, a, s, c), c.sound
  PROVE  a.sound
<1> DEFINE T == {p \in Nat \X States : p[2].sound => a.sound}
<1>1. a \in States /\ c \in States
  BY ReachTypes
<1>2. \A k, v : <<k, v>> \in T <=> k \in Nat /\ v \in States /\ (v.sound => a.sound)
  OBVIOUS
<1> HIDE DEF T
<1>3. <<0, a>> \in T
  BY <1>1, <1>2
<1>4. ASSUME NEW k \in 1 .. Len(s), NEW b \in States, NEW d \in States,
             <<k - 1, b>> \in T, ByteTo(lim, b, s[k], d)
      PROVE  <<k, d>> \in T
  <2>1. d.sound => b.sound
    BY <1>4 DEF ByteTo, MarkTo, TextTo, BlockTo, ReferenceTo, PairTo, LineEndTo, Added
  <2> QED
    BY <1>2, <1>4, <2>1
<1>5. <<Len(s), c>> \in T
  BY <1>3, <1>4, ReachInduct
<1> QED
  BY <1>2, <1>5

\* A sound file is sound where the reader is.
LEMMA AheadSound ==
  ASSUME FileTyped, NEW b, sound
  PROVE  /\ Ahead(b) => b.sound
         /\ Done(b) => b.sound
<1>1. ASSUME NEW c, Ahead(c)
      PROVE  c.sound
  <2>1. PICK d \in States : Reach(setting.limit, c, buf, d) /\ Closes(d)
    BY <1>1 DEF Ahead
  <2>2. d.sound
    BY <2>1, NowIs DEF Closes
  <2>3. buf \in Seq(Bytes)
    BY DEF FileTyped
  <2> QED
    BY <2>1, <2>2, <2>3, SoundRun
<1>2. ASSUME Done(b)
      PROVE  b.sound
  <2>1. CASE Closed(b)
    BY <2>1 DEF Closed
  <2>2. CASE \E c \in States : LineEndTo(setting.limit, b, c) /\ Ahead(c) /\ LfSafe(c)
    BY <1>1, <2>2 DEF LineEndTo
  <2> QED
    BY <1>2, <2>1, <2>2 DEF Done
<1> QED
  BY <1>1, <1>2

\* What is ahead stays so while nothing is written or read.
LEMMA SameFile ==
  ASSUME UNCHANGED fileVars, NEW b
  PROVE  /\ Ahead(b) => Ahead(b)'
         /\ LfSafe(b) => LfSafe(b)'
         /\ Closed(b) => Closed(b)'
         /\ Done(b) => Done(b)'
<1>1. ASSUME NEW c, Ahead(c)
      PROVE  Ahead(c)'
  <2>1. PICK d \in States : Reach(setting.limit, c, buf, d) /\ Closes(d)
    BY <1>1 DEF Ahead
  <2>2. Closes(d)'
    BY <2>1 DEF fileVars, Closes, Now
  <2>3. Reach(setting'.limit, c, buf', d)
    BY <2>1 DEF fileVars
  <2> QED
    BY <2>2, <2>3 DEF Ahead
<1>2. \A c : LfSafe(c) => LfSafe(c)'
  BY DEF fileVars, LfSafe, AtEnd
<1>3. Closed(b) => Closed(b)'
  BY DEF fileVars, Closed, AtEnd
<1>4. ASSUME Done(b)
      PROVE  Done(b)'
  <2>1. CASE Closed(b) /\ (b.here = <<>> => b.open = Null)
    BY <1>3, <2>1 DEF Done
  <2>2. CASE \E c \in States : LineEndTo(setting.limit, b, c) /\ Ahead(c) /\ LfSafe(c)
    <3>1. PICK c \in States : LineEndTo(setting.limit, b, c) /\ Ahead(c) /\ LfSafe(c)
      BY <2>2
    <3>2. LineEndTo(setting'.limit, b, c) /\ Ahead(c)' /\ LfSafe(c)'
      BY <1>1, <1>2, <3>1 DEF fileVars
    <3> QED
      BY <3>2 DEF Done
  <2> QED
    BY <1>4, <2>1, <2>2 DEF Done
<1> QED
  BY <1>1, <1>2, <1>3, <1>4

\* The reader has taken the bytes up to the k-th; the rest is still ahead.
LEMMA AheadTaken ==
  ASSUME FileTyped, NEW b, Ahead(b), NEW k \in 1 .. Len(buf),
         UNCHANGED <<written, due>>, buf' = SubSeq(buf, k + 1, Len(buf))
  PROVE  \E v \in States, d \in States :
           /\ Reach(setting.limit, b, SubSeq(buf, 1, k - 1), v)
           /\ ByteTo(setting.limit, v, buf[k], d)
           /\ Ahead(d)' /\ (sound => d.sound)
<1> DEFINE lim == setting.limit
<1>1. PICK e \in States : Reach(lim, b, buf, e) /\ Closes(e)
  BY DEF Ahead
<1>2. buf \in Seq(Bytes) /\ lim' = lim
  BY DEF FileTyped, written
<1> HIDE DEF lim
<1>3. PICK v \in States, d \in States :
        /\ Reach(lim, b, SubSeq(buf, 1, k - 1), v)
        /\ ByteTo(lim, v, buf[k], d)
        /\ Reach(lim, d, SubSeq(buf, k + 1, Len(buf)), e)
  BY <1>1, <1>2, ReachAt
<1>4. Closes(e)'
  BY <1>1 DEF written, Closes, Now
<1>5. Ahead(d)'
  BY <1>2, <1>3, <1>4 DEF Ahead, lim
<1>6. sound => d.sound
  <2>1. sound => e.sound
    BY <1>1, NowIs DEF Closes
  <2>2. SubSeq(buf, k + 1, Len(buf)) \in Seq(Bytes)
    BY <1>2
  <2> QED
    BY <1>3, <2>1, <2>2, SoundRun
<1> QED
  BY <1>3, <1>5, <1>6 DEF lim

-----------------------------------------------------------------------------
(* The framer between two lines.                                           *)

\* The framer keeps its place when it is called, and when it takes up a line.
LEMMA BetweenStep ==
  ASSUME IInv, Call \/ TakePending \/ TakeLine
  PROVE  Kept'
<1> SUFFICES ASSUME interrupts' = 0
             PROVE  /\ Place' /\ returned' = wanted'
                    /\ pc' # "ended" /\ pc' # "failed"
  BY DEF Kept
<1>1. interrupts = 0 /\ UNCHANGED fileVars
  BY DEF Call, TakePending, TakeLine
<1>2. Place /\ returned = wanted
  BY <1>1 DEF IInv, Kept
<1>3. \A b : /\ Ahead(b) => Ahead(b)'
             /\ LfSafe(b) => LfSafe(b)'
             /\ Closed(b) => Closed(b)'
             /\ Done(b) => Done(b)'
  BY <1>1, SameFile
<1>4. UNCHANGED <<taken, setting>>
  BY <1>1 DEF fileVars, Call, TakePending, TakeLine
<1>5. ASSUME NEW w, NEW l, Whole(w, l)
      PROVE  w.lineNo = taken' /\ \E b \in States : Reach(setting'.limit, w, l, b) /\ Done(b)'
  BY <1>3, <1>4, <1>5 DEF Whole
<1>6. ASSUME NEW w, Fresh(w)
      PROVE  Fresh(w)'
  BY <1>3, <1>4, <1>6 DEF Fresh
<1>7. CASE Call
  <2>1. /\ pc = "idle" /\ pc' = "take" /\ msg' = <<>> /\ ~has_block1' /\ ~has_field20'
        /\ returned' = wanted' /\ UNCHANGED pending
    BY <1>7 DEF Call
  <2>2. PICK w : Stands(w, <<>>, FALSE, FALSE, 0) /\ Between(w)
    BY <1>2, <2>1 DEF Place
  <2>3. Stands(w, msg, has_block1, has_field20, began)'
    BY <2>1, <2>2 DEF Stands
  <2>4. Between(w)'
    <3>1. CASE pending = Null
      BY <1>6, <2>1, <2>2, <3>1 DEF Between
    <3>2. CASE pending # Null
      BY <1>5, <2>1, <2>2, <3>2 DEF Between, Whole
    <3> QED
      BY <3>1, <3>2
  <2>5. Place'
    BY <2>1, <2>3, <2>4 DEF Place
  <2> QED
    BY <2>1, <2>5
<1>8. CASE TakePending
  <2>1. /\ pc = "take" /\ pending # Null /\ pc' = "frame" /\ line' = pending
        /\ pending' = Null
        /\ UNCHANGED <<msg, has_block1, has_field20, began, returned, wanted>>
    BY <1>8 DEF TakePending, framed, answer
  <2>2. PICK w : Stands(w, msg, has_block1, has_field20, began) /\ Between(w)
    BY <1>2, <2>1 DEF Place
  <2>3. Whole(w, line)'
    BY <1>5, <2>1, <2>2 DEF Between, Whole
  <2>4. Stands(w, msg, has_block1, has_field20, began)'
    BY <2>1, <2>2
  <2>5. msg' # <<>> => HasText(msg)'
    BY <1>2, <2>1 DEF Place, HasText
  <2>6. Place'
    BY <2>1, <2>3, <2>4, <2>5 DEF Place
  <2> QED
    BY <1>2, <2>1, <2>6
<1>9. CASE TakeLine
  <2>1. /\ pc = "take" /\ pending = Null /\ pc' = "fill" /\ line' = <<>> /\ ~seen'
        /\ pending' = Null
        /\ UNCHANGED <<msg, has_block1, has_field20, began, returned, wanted>>
    BY <1>9 DEF TakeLine, framed, answer
  <2>2. PICK w : Stands(w, msg, has_block1, has_field20, began) /\ Between(w)
    BY <1>2, <2>1 DEF Place
  <2>3. Filling(w)'
    <3>1. Fresh(w)
      BY <2>1, <2>2 DEF Between
    <3>2. CASE Closed(w)
      BY <1>3, <2>1, <3>2 DEF Filling
    <3>3. CASE w.lineNo = taken + 1 /\ w.width = 0 /\ Ahead(w) /\ LfSafe(w)
      <4>1. w \in States
        BY <2>2 DEF Stands
      <4>2. Reach(setting'.limit, w, line', w)
        BY <2>1, <4>1, ReachNone
      <4> QED
        BY <1>3, <1>4, <3>3, <4>1, <4>2 DEF Filling
    <3> QED
      BY <3>1, <3>2, <3>3 DEF Fresh
  <2>4. Stands(w, msg, has_block1, has_field20, began)'
    BY <2>1, <2>2
  <2>5. msg' # <<>> => HasText(msg)'
    BY <1>2, <2>1 DEF Place, HasText
  <2>6. Place'
    BY <2>1, <2>3, <2>4, <2>5 DEF Place
  <2> QED
    BY <1>2, <2>1, <2>6
<1> QED
  BY <1>7, <1>8, <1>9

-----------------------------------------------------------------------------
(* The framer takes a line.                                                *)

\* The framer keeps its place while it waits for the file.
LEMMA WaitingStep ==
  ASSUME IInv, Waiting
  PROVE  Kept'
<1> SUFFICES ASSUME interrupts' = 0
             PROVE  Place' /\ returned' = wanted' /\ pc' # "ended" /\ pc' # "failed"
  BY DEF Kept
<1>1. /\ pc \in {"fill", "lf"} /\ ~filled /\ (Write \/ Fill) /\ UNCHANGED setting
      /\ UNCHANGED <<pc, line, seen, pending, msg, has_block1, has_field20, taken,
                     began, returned, wanted, interrupts>>
  BY DEF Waiting, framerVars
<1>2. Place /\ returned = wanted /\ FileTyped
  BY <1>1 DEF IInv, Kept, Typed
<1>3. \A b \in States : Ahead(b) => Ahead(b)'
  BY <1>1, <1>2, AheadGoesOn
<1>4. \A b : LfSafe(b) => LfSafe(b)'
  <2>1. buf # <<>> => buf' # <<>> /\ buf'[1] = buf[1]
    <3>1. buf \in Seq(Bytes)
      BY <1>2 DEF FileTyped
    <3>2. CASE \E byte : Put(byte)
      <4>1. PICK byte : Put(byte)
        BY <3>2
      <4>2. buf' = Append(buf, byte)
        BY <4>1 DEF Put
      <4> QED
        BY <3>1, <4>2
    <3>3. CASE UNCHANGED buf
      BY <3>3
    <3>4. (\E byte : Put(byte)) \/ UNCHANGED buf
      BY <1>1 DEF Write, WriteText, WriteBlock, WriteReference, WriteLineEnd,
                  WriteEnd, Fill
    <3> QED
      BY <3>2, <3>3, <3>4
  <2>2. \A b : LfSafe(b) => ~b.lastCr \/ (buf # <<>> /\ buf[1] # "lf")
    BY <1>1 DEF LfSafe, AtEnd
  <2> QED
    BY <2>1, <2>2 DEF LfSafe
<1>5. Place'
  <2>1. CASE pc = "fill"
    <3>1. PICK w : Stands(w, msg, has_block1, has_field20, began) /\ Filling(w)
      BY <1>2, <2>1 DEF Place
    <3>2. ~Closed(w)
      BY <1>1 DEF Closed, AtEnd
    <3>3. Filling(w)'
      BY <1>1, <1>3, <1>4, <3>1, <3>2 DEF Filling
    <3>4. Stands(w, msg, has_block1, has_field20, began)'
      BY <1>1, <3>1
    <3>5. (seen <=> line # <<>>)' /\ (pending = Null)' /\ (msg # <<>> => HasText(msg))'
      BY <1>1, <1>2, <2>1 DEF Place, HasText
    <3> QED
      BY <1>1, <2>1, <3>3, <3>4, <3>5 DEF Place
  <2>2. CASE pc = "lf"
    <3>1. PICK w : Stands(w, msg, has_block1, has_field20, began) /\ Returned(w)
      BY <1>2, <2>2 DEF Place
    <3>2. Returned(w)'
      BY <1>1, <1>3, <3>1 DEF Returned
    <3>3. Stands(w, msg, has_block1, has_field20, began)'
      BY <1>1, <3>1
    <3>4. (pending = Null)' /\ (msg # <<>> => HasText(msg))'
      BY <1>1, <1>2, <2>2 DEF Place, HasText
    <3> QED
      BY <1>1, <2>2, <3>2, <3>3, <3>4 DEF Place
  <2> QED
    BY <1>1, <2>1, <2>2
<1> QED
  BY <1>1, <1>2, <1>5

\* A line that is taken whole is where the framer goes on; it is refused only if
\* the file is not sound.
LEMMA TakenStep ==
  ASSUME Typed, Place, returned = wanted, NEW bytes \in Seq(Raw), LineTaken(bytes),
         \A i \in DOMAIN bytes : bytes[i] = "bom" => i = 1 /\ taken = 0,
         pc \in {"fill", "lf"},
         UNCHANGED <<written, due, pending, framed, answer>>,
         NEW w, Stands(w, msg, has_block1, has_field20, began),
         w.lineNo = taken + 1,
         NEW b \in States, Reach(setting.limit, w, bytes, b), Done(b)',
         sound => b.sound
  PROVE  Kept'
<1> DEFINE lim == setting.limit
<1>1. /\ lim' = lim /\ sound' = sound
      /\ UNCHANGED <<pending, msg, has_block1, has_field20, began, returned, wanted>>
  BY DEF written, framed, answer
<1>2. taken \in Nat /\ taken' = taken + 1
  BY DEF Typed, FramerTyped, LineTaken
<1> HIDE DEF lim
<1>3. CASE \E i \in DOMAIN bytes : bytes[i] = "x"
  <2>1. pc' = "failed"
    BY <1>3 DEF LineTaken
  <2>2. ~b.sound
    <3>1. \E i \in 1 .. Len(bytes) : bytes[i] = "x"
      BY <1>3
    <3> QED
      BY <3>1, FitRun
  <2>3. Place'
    BY <1>1, <2>1 DEF Place, HasText
  <2> QED
    BY <1>1, <2>1, <2>2, <2>3 DEF Kept
<1>4. CASE ~(\E i \in DOMAIN bytes : bytes[i] = "x")
  <2>1. pc' = "frame"
        /\ line' = IF taken = 0 /\ bytes # <<>> /\ bytes[1] = "bom"
                   THEN Tail(bytes) ELSE bytes
    BY <1>4 DEF LineTaken
  <2>2. \E v : /\ Stands(v, msg, has_block1, has_field20, began)
               /\ v.lineNo = taken + 1 /\ Reach(lim, v, line', b)
    <3>1. CASE taken = 0 /\ bytes # <<>> /\ bytes[1] = "bom"
      <4>1. line' = Tail(bytes) /\ 1 \in 1 .. Len(bytes)
        BY <2>1, <3>1
      <4>2. PICK u \in States, v \in States :
              /\ Reach(lim, w, SubSeq(bytes, 1, 1 - 1), u)
              /\ ByteTo(lim, u, bytes[1], v)
              /\ Reach(lim, v, SubSeq(bytes, 1 + 1, Len(bytes)), b)
        BY <4>1, ReachAt DEF lim
      <4>3. SubSeq(bytes, 1, 1 - 1) = <<>> /\ SubSeq(bytes, 1 + 1, Len(bytes)) = Tail(bytes)
        BY <3>1, SubSeqEmpty, TailIsSubSeq
      <4>4. w \in States
        BY DEF Stands
      <4>5. u = w
        <5>1. Reach(lim, w, <<>>, u)
          BY <4>2, <4>3
        <5> QED
          BY <4>4, <5>1, ReachNone
      <4>6. MarkTo(w, v)
        BY <3>1, <4>2, <4>5 DEF ByteTo, TextTo, Texts
      <4>7. Stands(v, msg, has_block1, has_field20, began) /\ v.lineNo = taken + 1
        BY <4>6 DEF MarkTo, Stands
      <4> QED
        BY <4>1, <4>2, <4>3, <4>7
    <3>2. CASE ~(taken = 0 /\ bytes # <<>> /\ bytes[1] = "bom")
      BY <2>1, <3>2 DEF lim
    <3> QED
      BY <3>1, <3>2
  <2>3. PICK v : /\ Stands(v, msg, has_block1, has_field20, began)
                 /\ v.lineNo = taken + 1 /\ Reach(lim, v, line', b)
    BY <2>2
  <2>4. Whole(v, line)'
    BY <1>1, <1>2, <2>3 DEF Whole, lim
  <2>5. Stands(v, msg, has_block1, has_field20, began)'
    BY <1>1, <2>3
  <2>6. (pending = Null)' /\ (msg # <<>> => HasText(msg))'
    BY <1>1 DEF Place, HasText
  <2>7. Place'
    BY <2>1, <2>4, <2>5, <2>6 DEF Place
  <2> QED
    BY <1>1, <2>1, <2>7 DEF Kept
<1> QED
  BY <1>3, <1>4

\* The piece of the line that is in the buffer.
LEMMA FillingPiece ==
  ASSUME Typed, pc = "fill", buf # <<>>, filled, NEW w,
         Stands(w, msg, has_block1, has_field20, began), Filling(w)
  PROVE  /\ w.lineNo = taken + 1 /\ w.width = 0 /\ w \in States
         /\ \E b \in States : /\ Reach(setting.limit, w, line, b)
                              /\ Ahead(b) /\ LfSafe(b)
<1>1. ~Closed(w)
  BY DEF Closed, AtEnd
<1> QED
  BY <1>1 DEF Filling, Stands

\* A byte that is no mark is the last of a line of more than one.
LEMMA LastIsText ==
  ASSUME NEW s \in Seq(Raw), Len(s) > 1 \/ (s # <<>> /\ s[1] # "bom"),
         \A i \in DOMAIN s : s[i] = "bom" => i = 1
  PROVE  s # <<>> /\ s[Len(s)] # "bom"
<1>1. Len(s) \in Nat /\ Len(s) # 0 /\ Len(s) \in DOMAIN s /\ s # <<>>
  OBVIOUS
<1>2. CASE Len(s) = 1
  BY <1>1, <1>2
<1>3. CASE Len(s) # 1
  BY <1>1, <1>3
<1> QED
  BY <1>2, <1>3

\* The framer keeps its place over a piece of a line.
LEMMA LineGoesOnStep ==
  ASSUME IInv, LineGoesOn
  PROVE  Kept'
<1> SUFFICES ASSUME interrupts' = 0
             PROVE  Place' /\ returned' = wanted' /\ pc' = "fill"
  BY DEF Kept
<1> DEFINE lim == setting.limit
<1>1. /\ pc = "fill" /\ buf # <<>> /\ filled /\ Terminator = 0
      /\ line' = line \o Piece /\ seen' /\ Consumes(Len(buf))
      /\ UNCHANGED <<written, due, pc, pending, taken, interrupts>>
      /\ UNCHANGED <<msg, has_block1, has_field20, began, returned, wanted>>
  BY DEF LineGoesOn, framed, answer
<1>2. Typed /\ FileTyped /\ Place /\ returned = wanted
  BY <1>1 DEF IInv, Kept, Typed
<1>3. buf \in Seq(Bytes) /\ line \in Seq(Raw)
  BY <1>2 DEF Typed, FileTyped, FramerTyped
<1>4. Piece \in Seq(Raw) /\ Piece = buf
  BY <1>1, <1>3, PieceIs
<1>5. PICK w : Stands(w, msg, has_block1, has_field20, began) /\ Filling(w)
  BY <1>1, <1>2 DEF Place
<1>6. w.lineNo = taken + 1 /\ w.width = 0 /\ w \in States
  BY <1>1, <1>2, <1>5, FillingPiece
<1>7. PICK b \in States : Reach(lim, w, line, b) /\ Ahead(b) /\ LfSafe(b)
  BY <1>1, <1>2, <1>5, FillingPiece
<1>8. PICK d \in States : Reach(lim, b, buf, d) /\ Closes(d)
  BY <1>7 DEF Ahead
<1>9. Reach(lim, w, line', d)
  BY <1>1, <1>3, <1>4, <1>7, <1>8, ReachJoin
<1>10. Ahead(d)'
  <2>1. buf' = <<>>
    <3>1. buf' = SubSeq(buf, Len(buf) + 1, Len(buf))
      BY <1>1 DEF Consumes
    <3>2. Len(buf) \in Int /\ Len(buf) + 1 \in Int /\ Len(buf) < Len(buf) + 1
      BY <1>3
    <3> QED
      BY <3>1, <3>2, SubSeqEmpty
  <2>2. Reach(lim', d, buf', d)
    BY <2>1, ReachNone
  <2>3. Closes(d)'
    BY <1>1, <1>8 DEF written, Closes, Now
  <2> QED
    BY <2>2, <2>3 DEF Ahead
<1>11. LfSafe(d)'
  <2>1. ~d.lastCr
    BY <1>1, <1>4, <1>8, FitRun
  <2> QED
    BY <2>1 DEF LfSafe
<1>12. Filling(w)'
  <2>1. lim' = lim /\ taken' = taken
    BY <1>1 DEF written
  <2> HIDE DEF lim
  <2>2. Reach(lim', w, line', d)
    BY <1>9, <2>1
  <2> QED
    BY <1>6, <1>10, <1>11, <2>1, <2>2 DEF Filling, lim
<1>13. line' # <<>>
  BY <1>1, <1>3, <1>4, ConcatEmptySeq
<1>14. Stands(w, msg, has_block1, has_field20, began)'
  BY <1>1, <1>5
<1>15. (pending = Null)' /\ (msg # <<>> => HasText(msg))'
  BY <1>1, <1>2 DEF Place, HasText
<1>16. Place'
  BY <1>1, <1>12, <1>13, <1>14, <1>15 DEF Place
<1> QED
  BY <1>1, <1>2, <1>16

\* The framer keeps its place over the end of a line.
LEMMA LineEndsStep ==
  ASSUME IInv, LineEnds
  PROVE  Kept'
<1> SUFFICES ASSUME interrupts' = 0
             PROVE  Kept'
  BY DEF Kept
<1> DEFINE lim == setting.limit
           T == Terminator
<1>1. /\ pc = "fill" /\ buf # <<>> /\ filled /\ T # 0 /\ Consumes(T)
      /\ UNCHANGED <<written, due, pending, framed, answer, interrupts>>
      /\ IF buf[T] = "cr"
         THEN pc' = "lf" /\ line' = line \o Piece /\ UNCHANGED taken
         ELSE LineTaken(line \o Piece)
  BY DEF LineEnds
<1>2. Typed /\ FileTyped /\ Place /\ returned = wanted
  BY <1>1 DEF IInv, Kept, Typed
<1>3. buf \in Seq(Bytes) /\ line \in Seq(Raw)
  BY <1>2 DEF Typed, FileTyped, FramerTyped
<1>4. /\ T \in 1 .. Len(buf) /\ buf[T] \in {"lf", "cr"} /\ Piece \in Seq(Raw)
      /\ Piece = SubSeq(buf, 1, T - 1) /\ Len(Piece) = T - 1
  BY <1>1, <1>3, PieceIs
<1>5. PICK w : Stands(w, msg, has_block1, has_field20, began) /\ Filling(w)
  BY <1>1, <1>2 DEF Place
<1>6. w.lineNo = taken + 1 /\ w.width = 0 /\ w \in States
  BY <1>1, <1>2, <1>5, FillingPiece
<1>7. PICK b \in States : Reach(lim, w, line, b) /\ Ahead(b) /\ LfSafe(b)
  BY <1>1, <1>2, <1>5, FillingPiece
<1>8. buf' = SubSeq(buf, T + 1, Len(buf))
  BY <1>1 DEF Consumes
<1> HIDE DEF T
<1>9. PICK v \in States, d \in States :
        /\ Reach(lim, b, SubSeq(buf, 1, T - 1), v)
        /\ ByteTo(lim, v, buf[T], d)
        /\ Ahead(d)' /\ (sound => d.sound)
  BY <1>1, <1>2, <1>4, <1>7, <1>8, AheadTaken
<1>10. Reach(lim, w, line \o Piece, v)
  BY <1>3, <1>4, <1>7, <1>9, ReachJoin
<1>11. buf[T] = "lf" => ~v.lastCr
  <2>1. CASE Piece # <<>>
    BY <1>4, <1>9, <2>1, FitRun
  <2>2. CASE Piece = <<>>
    <3>1. v = b
      <4>1. Reach(lim, b, <<>>, v)
        BY <1>4, <1>9, <2>2
      <4> QED
        BY <1>7, <4>1, ReachNone
    <3>2. T = 1
      BY <1>4, <2>2
    <3>3. buf[1] # "lf" \/ ~b.lastCr
      BY <1>1, <1>7 DEF LfSafe, AtEnd
    <3> QED
      BY <3>1, <3>2, <3>3
  <2> QED
    BY <2>1, <2>2
<1>12. /\ LineEndTo(lim, v, d)
       /\ buf[T] = "cr" => d.lastCr
       /\ buf[T] = "lf" => ~d.lastCr
  <2>1. CASE buf[T] = "cr"
    BY <1>9, <2>1 DEF ByteTo, TextTo, Texts
  <2>2. CASE buf[T] = "lf"
    BY <1>9, <1>11, <2>2 DEF ByteTo, TextTo, Texts
  <2> QED
    BY <1>4, <2>1, <2>2
<1>13. lim' = lim /\ sound' = sound /\ UNCHANGED setting
  BY <1>1 DEF written
<1>14. CASE buf[T] = "cr"
  <2>1. pc' = "lf" /\ line' = line \o Piece /\ taken' = taken
        /\ UNCHANGED <<pending, msg, has_block1, has_field20, began, returned, wanted>>
    BY <1>1, <1>14 DEF framed, answer
  <2>2. Returned(w)'
    BY <1>6, <1>9, <1>10, <1>12, <1>13, <1>14, <2>1 DEF Returned
  <2>3. Stands(w, msg, has_block1, has_field20, began)'
    BY <1>5, <2>1
  <2>4. (pending = Null)' /\ (msg # <<>> => HasText(msg))'
    BY <1>1, <1>2, <2>1 DEF Place, HasText
  <2>5. Place'
    BY <2>1, <2>2, <2>3, <2>4 DEF Place
  <2> QED
    BY <1>2, <2>1, <2>5 DEF Kept
<1>15. CASE buf[T] = "lf"
  <2>1. LineTaken(line \o Piece)
    BY <1>1, <1>15
  <2>2. /\ line \o Piece \in Seq(Raw)
        /\ \A i \in DOMAIN (line \o Piece) :
             (line \o Piece)[i] = "bom" => i = 1 /\ taken = 0
    BY <1>1, <1>2, LineGrows
  <2>3. LfSafe(d)'
    BY <1>12, <1>15 DEF LfSafe
  <2>4. Done(v)'
    BY <1>9, <1>12, <1>13, <2>3 DEF Done
  <2>5. sound => v.sound
    BY <1>9, <1>12 DEF LineEndTo
  <2> QED
    BY <1>1, <1>2, <1>5, <1>6, <1>10, <2>1, <2>2, <2>4, <2>5, TakenStep
<1> QED
  BY <1>4, <1>14, <1>15

\* A line is refused as too long only if it is.
LEMMA LineTooLongStep ==
  ASSUME IInv, LineTooLong
  PROVE  Kept'
<1> SUFFICES ASSUME interrupts' = 0
             PROVE  Place' /\ returned' = wanted' /\ pc' = "failed" /\ ~sound'
  BY DEF Kept
<1> DEFINE lim == setting.limit
           s == line \o Piece
<1>1. /\ pc = "fill" /\ buf # <<>> /\ filled /\ TooLong /\ pc' = "failed"
      /\ UNCHANGED <<fileVars, msg, returned, wanted, interrupts>>
  BY DEF LineTooLong, framed, answer
<1>2. Typed /\ FileTyped /\ Place /\ returned = wanted
  BY <1>1 DEF IInv, Kept, Typed
<1>3. buf \in Seq(Bytes) /\ line \in Seq(Raw) /\ lim \in Nat \ {0}
  BY <1>2, SettingTypes DEF Typed, FileTyped, FramerTyped
<1>4. /\ s \in Seq(Raw) /\ Len(s) > lim
      /\ \A i \in DOMAIN s : s[i] = "bom" => i = 1
  BY <1>1, <1>2, LineGrows DEF TooLong
<1>5. PICK w : Stands(w, msg, has_block1, has_field20, began) /\ Filling(w)
  BY <1>1, <1>2 DEF Place
<1>6. w.lineNo = taken + 1 /\ w.width = 0 /\ w \in States
  BY <1>1, <1>2, <1>5, FillingPiece
<1>7. PICK b \in States : Reach(lim, w, line, b) /\ Ahead(b) /\ LfSafe(b)
  BY <1>1, <1>2, <1>5, FillingPiece
<1>8. \E v \in States : Reach(lim, b, Piece, v) /\ (sound => v.sound)
  <2>1. PICK e \in States : Reach(lim, b, buf, e) /\ Closes(e)
    BY <1>7 DEF Ahead
  <2>2. sound => e.sound
    BY <1>2, <2>1, NowIs DEF Closes
  <2>3. CASE Terminator = 0
    BY <1>3, <2>1, <2>2, <2>3, PieceIs
  <2>4. CASE Terminator # 0
    <3> DEFINE T == Terminator
    <3>1. T \in 1 .. Len(buf) /\ Piece = SubSeq(buf, 1, T - 1)
      BY <1>3, <2>4, PieceIs
    <3> HIDE DEF T
    <3>2. PICK v \in States, d \in States :
            /\ Reach(lim, b, SubSeq(buf, 1, T - 1), v)
            /\ ByteTo(lim, v, buf[T], d)
            /\ Reach(lim, d, SubSeq(buf, T + 1, Len(buf)), e)
      BY <1>3, <2>1, <3>1, ReachAt
    <3>3. SubSeq(buf, T + 1, Len(buf)) \in Seq(Bytes)
      BY <1>3, <3>1
    <3>4. e.sound => d.sound
      BY <3>2, <3>3, SoundRun
    <3>5. d.sound => v.sound
      BY <3>2 DEF ByteTo, MarkTo, TextTo, BlockTo, ReferenceTo, PairTo, LineEndTo, Added
    <3> QED
      BY <2>2, <3>1, <3>2, <3>4, <3>5
  <2> QED
    BY <2>3, <2>4
<1>9. PICK v \in States : Reach(lim, b, Piece, v) /\ (sound => v.sound)
  BY <1>8
<1>10. Piece \in Seq(Raw)
  BY <1>3, PieceIs
<1>11. Reach(lim, w, s, v)
  BY <1>3, <1>7, <1>9, <1>10, ReachJoin
<1> HIDE DEF s
<1>12. ~sound
  <2>1. CASE s[Len(s)] = "bom"
    <3>1. Len(s) \in DOMAIN s
      BY <1>3, <1>4
    <3>2. Len(s) = 1
      BY <1>4, <2>1, <3>1
    <3> QED
      BY <1>3, <1>4, <3>2
  <2>2. CASE s[Len(s)] # "bom"
    <3>1. s # <<>>
      BY <1>3, <1>4
    <3>2. v.sound => v.width <= lim
      BY <1>4, <1>11, <2>2, <3>1, FitRun
    <3>3. v.width = Len(s)
      BY <1>4, <1>6, <1>11, FitRun
    <3> QED
      BY <1>3, <1>4, <1>9, <3>2, <3>3
  <2> QED
    BY <2>1, <2>2
<1>13. Place'
  BY <1>1, <1>2 DEF Place, HasText
<1>14. ~sound'
  BY <1>1, <1>12 DEF fileVars
<1> QED
  BY <1>1, <1>2, <1>13, <1>14

\* The framer keeps its place over the LF that may follow a CR.
LEMMA SkipLfStep ==
  ASSUME IInv, SkipLf
  PROVE  Kept'
<1> SUFFICES ASSUME interrupts' = 0
             PROVE  Kept'
  BY DEF Kept
<1> DEFINE lim == setting.limit
<1>1. /\ pc = "lf" /\ filled /\ LineTaken(line)
      /\ UNCHANGED <<written, due, seen, pending, framed, answer, interrupts>>
      /\ IF buf # <<>> /\ buf[1] = "lf" THEN Consumes(1) ELSE UNCHANGED <<buf, filled>>
  BY DEF SkipLf
<1>2. Typed /\ FileTyped /\ Place /\ returned = wanted
  BY <1>1 DEF IInv, Kept, Typed
<1>3. buf \in Seq(Bytes) /\ line \in Seq(Raw)
  BY <1>2 DEF Typed, FileTyped, FramerTyped
<1>4. PICK w : Stands(w, msg, has_block1, has_field20, began) /\ Returned(w)
  BY <1>1, <1>2 DEF Place
<1>5. PICK b \in States, c \in States :
        /\ Reach(lim, w, line, b)
        /\ LineEndTo(lim, b, c) /\ c.lastCr /\ Ahead(c)
  BY <1>4 DEF Returned
<1>6. lim' = lim
  BY <1>1 DEF written
<1>7. \E d \in States : LineEndTo(lim, b, d) /\ Ahead(d)' /\ LfSafe(d)' /\ (sound => d.sound)
  <2>1. CASE buf # <<>> /\ buf[1] = "lf"
    <3>1. 1 \in 1 .. Len(buf) /\ buf' = SubSeq(buf, 1 + 1, Len(buf))
      BY <1>1, <1>3, <2>1 DEF Consumes
    <3>2. PICK v \in States, d \in States :
            /\ Reach(lim, c, SubSeq(buf, 1, 1 - 1), v)
            /\ ByteTo(lim, v, buf[1], d)
            /\ Ahead(d)' /\ (sound => d.sound)
      BY <1>1, <1>2, <1>5, <3>1, AheadTaken
    <3>3. v = c
      <4>1. SubSeq(buf, 1, 1 - 1) = <<>>
        BY SubSeqEmpty
      <4>2. Reach(lim, c, <<>>, v)
        BY <3>2, <4>1
      <4> QED
        BY <1>5, <4>2, ReachNone
    <3>4. PairTo(c, d)
      BY <1>5, <2>1, <3>2, <3>3 DEF ByteTo, TextTo, Texts
    <3>5. LineEndTo(lim, b, d)
      BY <1>5, <3>4 DEF LineEndTo, PairTo
    <3>6. LfSafe(d)'
      BY <3>4 DEF LfSafe, PairTo
    <3> QED
      BY <3>2, <3>5, <3>6
  <2>2. CASE ~(buf # <<>> /\ buf[1] = "lf")
    <3>1. UNCHANGED fileVars
      BY <1>1, <2>2 DEF written, fileVars
    <3>2. Ahead(c)'
      BY <1>5, <3>1, SameFile
    <3>3. LfSafe(c)
      BY <1>1, <1>2, <2>2 DEF LfSafe, AtEnd, FileTyped
    <3>4. LfSafe(c)'
      BY <3>1, <3>3, SameFile
    <3>5. sound => c.sound
      BY <1>2, <1>5, AheadSound
    <3> QED
      BY <1>5, <3>2, <3>4, <3>5
  <2> QED
    BY <2>1, <2>2
<1>8. Done(b)'
  BY <1>6, <1>7 DEF Done
<1>9. sound => b.sound
  BY <1>7 DEF LineEndTo
<1>10. \A i \in DOMAIN line : line[i] = "bom" => i = 1 /\ taken = 0
  BY <1>1, <1>2 DEF Typed, MarkFirst
<1>11. w.lineNo = taken + 1
  BY <1>4 DEF Returned
<1> QED
  BY <1>1, <1>2, <1>3, <1>4, <1>5, <1>8, <1>9, <1>10, <1>11, TakenStep

\* At the end of what was read the file ended where the writer is.
LEMMA AheadIsOver ==
  ASSUME FileTyped, buf = <<>>, filled, NEW b \in States, Ahead(b)
  PROVE  Closed(b)
<1>1. ended
  BY DEF FileTyped
<1>2. PICK d \in States : Reach(setting.limit, b, <<>>, d) /\ Closes(d)
  BY DEF Ahead
<1>3. d = b
  BY <1>2, ReachNone
<1> QED
  BY <1>1, <1>2, <1>3 DEF Closes, Closed, AtEnd

\* The framer keeps its place over the last line.
LEMMA LastLineStep ==
  ASSUME IInv, LastLine
  PROVE  Kept'
<1> SUFFICES ASSUME interrupts' = 0
             PROVE  Kept'
  BY DEF Kept
<1> DEFINE lim == setting.limit
<1>1. /\ pc = "fill" /\ buf = <<>> /\ filled /\ seen /\ LineTaken(line)
      /\ UNCHANGED <<fileVars, seen, pending, framed, answer, interrupts>>
  BY DEF LastLine
<1>2. Typed /\ FileTyped /\ Place /\ returned = wanted
  BY <1>1 DEF IInv, Kept, Typed
<1>3. line \in Seq(Raw) /\ line # <<>>
  BY <1>1, <1>2 DEF Typed, FramerTyped, Place
<1>4. \A i \in DOMAIN line : line[i] = "bom" => i = 1 /\ taken = 0
  BY <1>1, <1>2 DEF Typed, MarkFirst
<1>5. PICK w : Stands(w, msg, has_block1, has_field20, began) /\ Filling(w)
  BY <1>1, <1>2 DEF Place
<1>6. w.lineNo = taken + 1 /\ w \in States
  BY <1>3, <1>5 DEF Filling, Stands
<1>7. PICK b \in States : Reach(lim, w, line, b) /\ Ahead(b) /\ LfSafe(b)
  BY <1>3, <1>5 DEF Filling
<1>8. Closed(b)
  BY <1>1, <1>2, <1>7, AheadIsOver
<1>9. b.here = <<>> => b.open = Null
  <2>1. CASE line[Len(line)] # "bom"
    BY <1>3, <1>7, <2>1, FitRun
  <2>2. CASE line[Len(line)] = "bom"
    <3>1. Len(line) \in DOMAIN line
      BY <1>3
    <3>2. Len(line) = 1 /\ taken = 0
      BY <1>4, <2>2, <3>1
    <3>3. w.mode = "none"
      BY <1>2, <1>5, <3>2 DEF Typed, MarkFirst, Stands
    <3>4. line = <<"bom">>
      BY <1>3, <2>2, <3>2
    <3>5. ByteTo(lim, w, "bom", b)
      <4>1. Reach(lim, w, <<"bom">>, b)
        BY <1>7, <3>4
      <4> QED
        BY <1>6, <1>7, <4>1, ReachOne
    <3>6. MarkTo(w, b)
      BY <3>5 DEF ByteTo, TextTo, Texts
    <3> QED
      BY <1>6, <3>3, <3>6 DEF MarkTo, States
  <2> QED
    BY <2>1, <2>2
<1>10. Done(b)
  BY <1>8, <1>9 DEF Done
<1>11. Done(b)'
  BY <1>1, <1>10, SameFile
<1>12. sound => b.sound
  BY <1>8 DEF Closed
<1>13. UNCHANGED <<written, due>>
  BY <1>1 DEF fileVars, written
<1> QED
  BY <1>1, <1>2, <1>3, <1>4, <1>5, <1>6, <1>7, <1>11, <1>12, <1>13, TakenStep

-----------------------------------------------------------------------------
(* The framer ends.                                                        *)

\* A writer that has written nothing.
Blank == [mode |-> "none", open |-> Null, here |-> <<>>, lineNo |-> 1, due |-> <<>>,
          width |-> 0, sound |-> TRUE, lastCr |-> FALSE]

\* It stands at the start of a line with nothing behind it.
LEMMA BlankIs == Blank \in States /\ Stands(Blank, <<>>, FALSE, FALSE, 0) /\ EndDue(Blank) = <<>>
<1>1. Blank \in States
  BY DEF Blank, States
<1> QED
  BY <1>1 DEF Blank, Stands, EndDue

\* The framer has returned all there is when it ends.
LEMMA FileEndsStep ==
  ASSUME IInv, FileEnds
  PROVE  Kept'
<1> SUFFICES ASSUME interrupts' = 0
             PROVE  Kept'
  BY DEF Kept
<1>1. /\ pc = "fill" /\ buf = <<>> /\ filled /\ ~seen
      /\ IF HasText(msg) THEN Returns(msg)
         ELSE pc' = "ended" /\ UNCHANGED <<due, answer>>
      /\ UNCHANGED <<written, buf, filled, pending, msg, began, interrupts>>
  BY DEF FileEnds
<1>2. Typed /\ FileTyped /\ Place /\ returned = wanted
  BY <1>1 DEF IInv, Kept, Typed
<1>3. line = <<>> /\ pending = Null /\ (msg # <<>> => HasText(msg))
  BY <1>1, <1>2 DEF Place, Typed, FramerTyped
<1>4. PICK w : Stands(w, msg, has_block1, has_field20, began) /\ Filling(w)
  BY <1>1, <1>2 DEF Place
<1>5. w \in States /\ w.here = <<>> /\ w.due = <<>>
  BY <1>4 DEF Stands
<1>6. Closed(w)
  <2>1. CASE Closed(w)
    BY <2>1
  <2>2. CASE \E b \in States : Reach(setting.limit, w, line, b) /\ Ahead(b) /\ LfSafe(b)
    <3>1. PICK b \in States : Reach(setting.limit, w, <<>>, b) /\ Ahead(b)
      BY <1>3, <2>2
    <3>2. b = w
      BY <1>5, <3>1, ReachNone
    <3> QED
      BY <1>1, <1>2, <3>1, <3>2, AheadIsOver
  <2> QED
    BY <1>4, <2>1, <2>2 DEF Filling
<1>7. AtEnd /\ open = Null /\ due = EndDue(w)
  BY <1>6 DEF Closed
<1>8. AtEnd' /\ open' = Null
  BY <1>1, <1>7 DEF written, AtEnd
<1>9. CASE HasText(msg)
  <2>1. /\ pc' = "idle" /\ returned' = [line |-> began, lines |-> msg]
        /\ wanted' = (IF due = <<>> THEN Null ELSE due[1])
        /\ due' = (IF due = <<>> THEN due ELSE Tail(due))
    BY <1>1, <1>9 DEF Returns
  <2>2. w.open = [line |-> began, lines |-> msg]
    <3>1. msg # <<>>
      BY <1>9 DEF HasText
    <3> QED
      BY <1>4, <3>1 DEF Stands
  <2>3. w.open # Null
    BY <1>4, <1>5, <1>9 DEF Stands, States, HasText
  <2>4. due = <<w.open>>
    <3>1. With(w) = w.open
      BY <1>5, <2>2 DEF With
    <3>2. due = Append(<<>>, w.open)
      BY <1>5, <1>7, <2>3, <3>1 DEF EndDue
    <3> QED
      BY <3>2
  <2>5. returned' = wanted' /\ due' = <<>>
    BY <2>1, <2>2, <2>4
  <2>6. Closed(Blank)'
    BY <1>8, <2>5, BlankIs DEF Closed, Blank
  <2>7. pending' = Null
    BY <1>1, <1>3
  <2>8. Place'
    BY <2>1, <2>6, <2>7, BlankIs DEF Place, Between, Fresh
  <2> QED
    BY <2>1, <2>5, <2>8 DEF Kept
<1>10. CASE ~HasText(msg)
  <2>1. pc' = "ended" /\ due' = due /\ returned' = wanted' /\ msg' = <<>>
    BY <1>1, <1>2, <1>3, <1>10 DEF answer
  <2>2. w.open = Null
    BY <1>3, <1>4, <1>5, <1>10 DEF Stands, States
  <2>3. due = <<>>
    BY <1>5, <1>7, <2>2 DEF EndDue
  <2>4. Place'
    BY <2>1 DEF Place
  <2> QED
    BY <1>8, <2>1, <2>3, <2>4 DEF Kept
<1> QED
  BY <1>9, <1>10

-----------------------------------------------------------------------------
(* The framer hands a message over.                                        *)

\* What the framer knows of the message is what the writer is in.
LEMMA StandsIn ==
  ASSUME NEW w, Stands(w, msg, has_block1, has_field20, began), FramerTyped
  PROVE  /\ w \in States /\ w.here = <<>> /\ w.due = <<>>
         /\ w.mode \in {"none", "blocks", "bare"}
         /\ w.mode = "none" <=> w.open = Null
         /\ msg = <<>> <=> w.mode = "none"
         /\ has_block1 <=> w.mode = "blocks"
         /\ msg # <<>> => w.open = [line |-> began, lines |-> msg]
         /\ w.mode = "bare" => has_field20
         /\ msg = <<>> => ~has_field20
<1>1. w \in States /\ w.here = <<>> /\ w.due = <<>>
  BY DEF Stands
<1>2. w.mode \in {"none", "blocks", "bare"} /\ (w.mode = "none" <=> w.open = Null)
  BY <1>1 DEF States
<1> QED
  BY <1>1, <1>2 DEF Stands, FramerTyped

\* At its end the file has one message more to hand over, or as many: the first
\* is the same.
LEMMA DropEnd ==
  ASSUME NEW a \in States, a.due # <<>>
  PROVE  /\ EndDue(a) # <<>> /\ EndDue(a)[1] = a.due[1]
         /\ EndDue(Drop(a)) = Tail(EndDue(a))
<1> DEFINE d == Drop(a)
<1>1. a.due \in Seq(Messages) /\ (a.mode = "none" <=> a.open = Null)
  BY DEF States
<1>2. d.due = Tail(a.due) /\ d.mode = a.mode /\ d.open = a.open /\ d.here = a.here
  BY DropIs
<1> HIDE DEF d
<1>3. With(d) = With(a) /\ (IsOver(d) <=> IsOver(a))
  BY <1>2 DEF With, IsOver
<1>4. CASE a.open = Null
  BY <1>2, <1>4 DEF EndDue, d
<1>5. CASE a.open # Null
  <2> DEFINE m == IF IsOver(a) THEN a.open ELSE With(a)
  <2>1. m \in Messages
    BY <1>1, <1>5, WithIs
  <2>2. EndDue(a) = Append(a.due, m) /\ EndDue(d) = Append(Tail(a.due), m)
    BY <1>2, <1>3, <1>5 DEF EndDue
  <2> HIDE DEF m
  <2> QED
    BY <1>1, <2>1, <2>2, TailOfAppend DEF d
<1> QED
  BY <1>4, <1>5

\* The message that is due at b is the first that is due, and when it is handed
\* over what is ahead stays so.
LEMMA DropAhead ==
  ASSUME FileTyped, NEW b \in States, b.due # <<>>, Ahead(b),
         UNCHANGED <<written, buf, filled>>,
         due' = IF due = <<>> THEN due ELSE Tail(due)
  PROVE  due # <<>> /\ due[1] = b.due[1] /\ Ahead(Drop(b))'
<1> DEFINE lim == setting.limit
<1>1. PICK e \in States : Reach(lim, b, buf, e) /\ Closes(e)
  BY DEF Ahead
<1>2. buf \in Seq(Bytes) /\ lim' = lim /\ buf' = buf
  BY DEF FileTyped, written
<1> HIDE DEF lim
<1>3. e.due # <<>> /\ e.due[1] = b.due[1] /\ Reach(lim, Drop(b), buf, Drop(e))
  BY <1>1, <1>2, DropRun
<1>4. Drop(e) \in States
  BY <1>3, DropIs
<1>5. due # <<>> /\ due[1] = b.due[1] /\ Closes(Drop(e))'
  <2>1. CASE ended
    <3>1. open = Null /\ due = EndDue(e) /\ (sound => e.sound)
      BY <1>1, <2>1 DEF Closes
    <3>2. due # <<>> /\ due[1] = b.due[1] /\ due' = EndDue(Drop(e))
      BY <1>3, <3>1, DropEnd
    <3>3. ended' /\ open' = Null /\ (sound' => Drop(e).sound)
      BY <1>3, <2>1, <3>1, DropIs DEF written
    <3> QED
      BY <3>2, <3>3 DEF Closes
  <2>2. CASE ~ended
    <3>1. e = Now
      BY <1>1, <2>2 DEF Closes
    <3>2. due = e.due
      BY <3>1, NowIs
    <3>3. due' = Tail(due)
      BY <1>3, <3>2
    <3>4. Drop(e) = Now'
      <4>1. Drop(Now) = [mode |-> mode, open |-> open, here |-> here,
                         lineNo |-> lineNo, due |-> Tail(due), width |-> width,
                         sound |-> sound, lastCr |-> lastCr]
        <5>1. Now.due = due
          BY DEF Now
        <5>2. Drop(Now) = [Now EXCEPT !.due = Tail(due)]
          BY <5>1 DEF Drop
        <5> DEFINE q == Tail(due)
        <5> HIDE DEF q
        <5>3. [Now EXCEPT !.due = q] = [mode |-> mode, open |-> open, here |-> here,
                         lineNo |-> lineNo, due |-> q, width |-> width,
                         sound |-> sound, lastCr |-> lastCr]
          BY DEF Now
        <5> QED
          BY <5>2, <5>3 DEF q
      <4>2. UNCHANGED <<mode, open, here, lineNo, width, sound, lastCr>>
        BY DEF written
      <4>3. Drop(Now) = Now'
        BY <3>3, <4>1, <4>2 DEF Now
      <4> QED
        BY <3>1, <4>3
    <3>5. ~ended'
      BY <2>2 DEF written
    <3> QED
      BY <1>3, <3>2, <3>4, <3>5 DEF Closes
  <2> QED
    BY <2>1, <2>2
<1>6. Ahead(Drop(b))'
  BY <1>2, <1>3, <1>4, <1>5 DEF Ahead, lim
<1> QED
  BY <1>5, <1>6

\* The same where the line that led to b is over.
LEMMA DropDone ==
  ASSUME FileTyped, NEW b \in States, b.due # <<>>, Done(b),
         UNCHANGED <<written, buf, filled>>,
         due' = IF due = <<>> THEN due ELSE Tail(due)
  PROVE  due # <<>> /\ due[1] = b.due[1] /\ Done(Drop(b))'
<1> DEFINE lim == setting.limit
<1>1. lim' = lim /\ (AtEnd' <=> AtEnd)
  BY DEF written, AtEnd
<1>2. /\ Drop(b).here = b.here /\ Drop(b).open = b.open /\ Drop(b).sound = b.sound
  BY DropIs
<1>3. CASE Closed(b) /\ (b.here = <<>> => b.open = Null)
  <2>1. AtEnd /\ open = Null /\ due = EndDue(b) /\ (sound => b.sound)
    BY <1>3 DEF Closed
  <2>2. due # <<>> /\ due[1] = b.due[1] /\ due' = EndDue(Drop(b))
    BY <2>1, DropEnd
  <2>3. Closed(Drop(b))'
    BY <1>1, <1>2, <2>1, <2>2 DEF Closed, written
  <2> QED
    BY <1>2, <1>3, <2>2, <2>3 DEF Done
<1>4. CASE \E c \in States : LineEndTo(lim, b, c) /\ Ahead(c) /\ LfSafe(c)
  <2>1. PICK c \in States : LineEndTo(lim, b, c) /\ Ahead(c) /\ LfSafe(c)
    BY <1>4
  <2> HIDE DEF lim
  <2>2. c.due # <<>> /\ c.due[1] = b.due[1] /\ LineEndTo(lim, Drop(b), Drop(c))
    BY <2>1, DropLineEnd
  <2>3. due # <<>> /\ due[1] = c.due[1] /\ Ahead(Drop(c))'
    BY <2>1, <2>2, DropAhead
  <2>4. Drop(c) \in States /\ Drop(c).lastCr = c.lastCr
    BY <2>2, DropIs
  <2>5. LfSafe(Drop(c))'
    BY <1>1, <2>1, <2>4 DEF LfSafe
  <2> QED
    BY <1>1, <2>2, <2>3, <2>4, <2>5 DEF Done, lim
<1> QED
  BY <1>3, <1>4 DEF Done

\* Where nothing is handed over what is known of b stays so.
LEMMA SameDone ==
  ASSUME UNCHANGED <<written, due, buf, filled>>, NEW b
  PROVE  /\ Ahead(b) => Ahead(b)'
         /\ LfSafe(b) => LfSafe(b)'
         /\ Closed(b) => Closed(b)'
         /\ Done(b) => Done(b)'
<1>1. UNCHANGED fileVars
  BY DEF written, fileVars
<1> QED
  BY <1>1, SameFile

\* After a line that leaves no message open the framer stands with nothing
\* behind it.
LEMMA NothingOpen ==
  ASSUME UNCHANGED <<written, due, buf, filled, taken>>, NEW b \in States, Done(b),
         b.lineNo = taken, b.open = Null, b.due = <<>>
  PROVE  \E u : Stands(u, <<>>, FALSE, FALSE, 0) /\ Fresh(u)'
<1> DEFINE lim == setting.limit
<1>1. CASE Closed(b)
  <2>1. due = <<>> /\ AtEnd /\ open = Null
    BY <1>1 DEF Closed, EndDue
  <2>2. Closed(Blank)'
    BY <2>1, BlankIs DEF Closed, AtEnd, Blank, written
  <2> QED
    BY <2>2, BlankIs DEF Fresh
<1>2. CASE \E c \in States : LineEndTo(lim, b, c) /\ Ahead(c) /\ LfSafe(c)
  <2>1. PICK c \in States : LineEndTo(lim, b, c) /\ Ahead(c) /\ LfSafe(c)
    BY <1>2
  <2>2. c.here = <<>> /\ c.due = <<>> /\ c.open = Null /\ c.lineNo = taken + 1 /\ c.width = 0
    BY <2>1 DEF LineEndTo
  <2>3. c.mode = "none"
    BY <2>2 DEF States
  <2>4. Ahead(c)' /\ LfSafe(c)'
    BY <2>1, SameDone
  <2>5. Fresh(c)'
    BY <2>2, <2>4 DEF Fresh
  <2>6. Stands(c, <<>>, FALSE, FALSE, 0)
    BY <2>2, <2>3 DEF Stands
  <2> QED
    BY <2>5, <2>6
<1> QED
  BY <1>1, <1>2 DEF Done

\* After a line that ends the message that was open it is the first that is due.
LEMMA OpenIsOver ==
  ASSUME FileTyped, UNCHANGED <<written, buf, filled, taken>>,
         due' = IF due = <<>> THEN due ELSE Tail(due),
         NEW b \in States, Done(b), b.lineNo = taken, b.open # Null, b.due = <<>>, IsOver(b)
  PROVE  /\ due # <<>> /\ due[1] = b.open
         /\ \E u : Stands(u, <<>>, FALSE, FALSE, 0) /\ Fresh(u)'
<1> DEFINE lim == setting.limit
<1>1. b.open \in Messages
  BY DEF States
<1>2. CASE Closed(b)
  <2>1. due = Append(<<>>, b.open) /\ AtEnd /\ open = Null
    BY <1>2 DEF Closed, EndDue
  <2>2. due = <<b.open>>
    BY <2>1
  <2>3. due # <<>> /\ due[1] = b.open /\ due' = <<>>
    BY <2>2
  <2>4. Closed(Blank)'
    BY <2>1, <2>3, BlankIs DEF Closed, AtEnd, Blank, written
  <2> QED
    BY <2>3, <2>4, BlankIs DEF Fresh
<1>3. CASE \E c \in States : LineEndTo(lim, b, c) /\ Ahead(c) /\ LfSafe(c)
  <2>1. PICK c \in States : LineEndTo(lim, b, c) /\ Ahead(c) /\ LfSafe(c)
    BY <1>3
  <2>2. /\ c.here = <<>> /\ c.due = Append(<<>>, b.open) /\ c.mode = "none"
        /\ c.open = Null /\ c.lineNo = taken + 1 /\ c.width = 0
    BY <2>1 DEF LineEndTo
  <2>3. c.due = <<b.open>> /\ c.due # <<>> /\ c.due[1] = b.open /\ Tail(c.due) = <<>>
    <3>1. c.due = <<b.open>>
      BY <2>2
    <3> QED
      BY <3>1
  <2>4. due # <<>> /\ due[1] = c.due[1] /\ Ahead(Drop(c))'
    BY <2>1, <2>3, DropAhead
  <2>5. /\ Drop(c) \in States /\ Drop(c).due = <<>> /\ Drop(c).here = <<>>
        /\ Drop(c).mode = "none" /\ Drop(c).lineNo = taken + 1 /\ Drop(c).width = 0
        /\ Drop(c).lastCr = c.lastCr
    BY <2>2, <2>3, DropIs
  <2>6. LfSafe(Drop(c))'
    BY <2>1, <2>5 DEF LfSafe, AtEnd, written
  <2>7. Fresh(Drop(c))'
    BY <2>4, <2>5, <2>6 DEF Fresh
  <2>8. Stands(Drop(c), <<>>, FALSE, FALSE, 0)
    BY <2>5 DEF Stands
  <2> QED
    BY <2>3, <2>4, <2>7, <2>8
<1> QED
  BY <1>2, <1>3 DEF Done

\* What Frame leaves alone.
Aside == <<written, buf, filled, line, seen, taken, interrupts>>

\* The framer keeps its place where a line ends the message and belongs to none.
LEMMA EndsMessageStep ==
  ASSUME Typed, Place, returned = wanted, pc = "frame", EndsMessage, UNCHANGED Aside,
         NEW w, Stands(w, msg, has_block1, has_field20, began),
         NEW b \in States, Done(b), b.lineNo = taken, b.open = w.open, b.due = <<>>,
         IsOver(b)
  PROVE  Kept'
<1>1. FileTyped /\ FramerTyped /\ pending = Null /\ (msg # <<>> => HasText(msg))
  BY DEF Typed, Place
<1>2. UNCHANGED <<written, buf, filled, taken, pending, msg, has_block1, has_field20, began>>
  BY DEF EndsMessage, Aside
<1>3. CASE HasText(msg)
  <2>1. /\ pc' = "idle" /\ returned' = [line |-> began, lines |-> msg]
        /\ wanted' = (IF due = <<>> THEN Null ELSE due[1])
        /\ due' = (IF due = <<>> THEN due ELSE Tail(due))
    BY <1>2, <1>3 DEF EndsMessage, Returns
  <2>2. msg # <<>>
    BY <1>3 DEF HasText
  <2>3. b.open = [line |-> began, lines |-> msg] /\ b.open # Null
    BY <1>1, <2>2, StandsIn
  <2>4. due # <<>> /\ due[1] = b.open
        /\ \E u : Stands(u, <<>>, FALSE, FALSE, 0) /\ Fresh(u)'
    BY <1>1, <1>2, <2>1, <2>3, OpenIsOver
  <2>5. returned' = wanted'
    BY <2>1, <2>3, <2>4
  <2>6. Place'
    BY <1>1, <1>2, <2>1, <2>4 DEF Place, Between
  <2> QED
    BY <2>1, <2>5, <2>6 DEF Kept
<1>4. CASE ~HasText(msg)
  <2>1. pc' = "take" /\ UNCHANGED <<due, returned, wanted>>
    BY <1>4 DEF EndsMessage, answer
  <2>2. msg = <<>> /\ b.open = Null /\ ~has_block1 /\ ~has_field20
    BY <1>1, <1>4, StandsIn
  <2>3. PICK u : Stands(u, <<>>, FALSE, FALSE, 0) /\ Fresh(u)'
    BY <1>2, <2>1, <2>2, NothingOpen
  <2>4. Stands(u, msg, has_block1, has_field20, began)'
    BY <1>2, <2>2, <2>3 DEF Stands
  <2>5. Place'
    BY <1>1, <1>2, <2>1, <2>2, <2>3, <2>4 DEF Place, Between
  <2> QED
    BY <2>1, <2>5 DEF Kept
<1> QED
  BY <1>3, <1>4

\* Over the bytes of one line the writer stays in the line.
LEMMA SameLine ==
  ASSUME NEW lim, NEW s \in Seq(Raw), NEW a, NEW c, Reach(lim, a, s, c)
  PROVE  c.lineNo = a.lineNo
BY FitRun

\* Over a line of text the writer has the line, and is in what it was.
LEMMA TextLine ==
  ASSUME NEW lim, NEW l \in Seq(Texts), NEW w, NEW b, Reach(lim, w, l, b),
         NoBlock(l), GoesOn(w, l)
  PROVE  /\ w.here = <<>> => b.here = l
         /\ b.mode = w.mode /\ b.open = w.open /\ b.due = w.due
         /\ b.lineNo = w.lineNo
<1>1. /\ b.here = Joined(w.here, l)
      /\ b.mode = w.mode /\ b.open = w.open /\ b.due = w.due
  BY TextRun
<1>2. w.here = <<>> => b.here = l
  <2>1. Joined(<<>>, l) = l
    BY ConcatEmptySeq DEF Joined
  <2> QED
    BY <1>1, <2>1
<1>3. b.lineNo = w.lineNo
  <2>1. l \in Seq(Raw)
    BY DEF Raw
  <2> QED
    BY <2>1, SameLine
<1> QED
  BY <1>1, <1>2, <1>3

\* The framer keeps its place at a separator, and at the end of a bare statement.
LEMMA FrameOverStep ==
  ASSUME Typed, Place, returned = wanted, pc = "frame", EndsMessage, UNCHANGED Aside,
         IsSeparator \/ (BareEnd /\ msg # <<>>)
  PROVE  Kept'
<1>1. PICK w : Stands(w, msg, has_block1, has_field20, began) /\ Whole(w, line)
  BY DEF Place
<1>2. PICK b \in States : Reach(setting.limit, w, line, b) /\ Done(b)
  BY <1>1 DEF Whole
<1>3. FramerTyped /\ line \in Seq(Texts)
  BY DEF Typed, FramerTyped, Good
<1>4. /\ w \in States /\ w.here = <<>> /\ w.due = <<>>
      /\ has_block1 <=> w.mode = "blocks"
      /\ msg # <<>> /\ ~has_block1 => w.mode = "bare"
  BY <1>1, <1>3, StandsIn
<1>5. \A i \in 1 .. Len(line) : line[i] \in {"S", "D", "w"}
  <2>1. Trim(line) = <<"S">> \/ Trim(line) = <<"D">>
    BY DEF IsSeparator, BareEnd
  <2> QED
    BY <1>3, <2>1, TrimSays
<1>6. b.here = line /\ b.mode = w.mode /\ b.open = w.open /\ b.due = <<>> /\ b.lineNo = taken
  <2>1. NoBlock(line)
    BY <1>5 DEF NoBlock
  <2>2. GoesOn(w, line)
    <3>1. line # <<>> => 1 \in 1 .. Len(line)
      BY <1>3
    <3> QED
      BY <1>5, <3>1 DEF GoesOn
  <2>3. w.lineNo = taken
    BY <1>1 DEF Whole
  <2> QED
    BY <1>2, <1>3, <1>4, <2>1, <2>2, <2>3, TextLine
<1>7. IsOver(b)
  BY <1>4, <1>6 DEF IsOver, IsSeparator, BareEnd
<1> QED
  BY <1>1, <1>2, <1>6, <1>7, EndsMessageStep

-----------------------------------------------------------------------------
(* Where messages begin in a line.                                         *)

\* A line is its first byte and the others.
LEMMA FirstAndRest ==
  ASSUME NEW B, NEW l \in Seq(B), l # <<>>
  PROVE  /\ 1 \in 1 .. Len(l) /\ SubSeq(l, 1, 1 - 1) = <<>>
         /\ SubSeq(l, 1 + 1, Len(l)) = Tail(l) /\ Tail(l) \in Seq(B)
         /\ <<l[1]>> \o Tail(l) = l
<1>1. 1 \in 1 .. Len(l) /\ l[1] \in B
  OBVIOUS
<1>2. SubSeq(l, 1, 1 - 1) = <<>>
  BY SubSeqEmpty
<1>3. SubSeq(l, 1 + 1, Len(l)) = Tail(l) /\ Tail(l) \in Seq(B)
  BY TailIsSubSeq, HeadTailProperties
<1>4. <<l[1]>> \o Tail(l) = l
  <2>1. /\ Tail(l) \in Seq(B) /\ Len(Tail(l)) = Len(l) - 1
        /\ \A i \in 1 .. Len(Tail(l)) : Tail(l)[i] = l[i + 1]
    BY HeadTailProperties
  <2> DEFINE t == Tail(l)
             u == <<l[1]>>
  <2>2. u \in Seq(B) /\ Len(u) = 1 /\ u[1] = l[1]
    BY <1>1
  <2> HIDE DEF t, u
  <2>3. /\ u \o t \in Seq(B) /\ Len(u \o t) = Len(u) + Len(t)
        /\ \A i \in 1 .. Len(u) + Len(t) :
             (u \o t)[i] = IF i <= Len(u) THEN u[i] ELSE t[i - Len(u)]
    <3>1. t \in Seq(B)
      BY <2>1 DEF t
    <3> QED
      BY <2>2, <3>1, ConcatProperties
  <2>4. Len(u \o t) = Len(l)
    BY <1>1, <2>1, <2>2, <2>3 DEF t
  <2>5. \A i \in 1 .. Len(l) : (u \o t)[i] = l[i]
    <3> TAKE i \in 1 .. Len(l)
    <3>1. CASE i = 1
      BY <1>1, <2>1, <2>2, <2>3, <3>1 DEF t
    <3>2. CASE i # 1
      <4>1. i - 1 \in 1 .. Len(t) /\ (i - 1) + 1 = i
        BY <1>1, <2>1, <3>2 DEF t
      <4> QED
        BY <1>1, <2>1, <2>2, <2>3, <3>2, <4>1 DEF t
    <3> QED
      BY <3>1, <3>2
  <2>6. u \o t = l
    BY <2>3, <2>4, <2>5, SeqEqual
  <2> QED
    BY <2>6 DEF t, u
<1> QED
  BY <1>1, <1>2, <1>3, <1>4

\* A line that opens with a reference begins a bare statement where no blocks are,
\* and is all its own.
LEMMA ReferenceLine ==
  ASSUME NEW lim, NEW l \in Seq(Texts), NEW w, NEW b, Reach(lim, w, l, b),
         l # <<>>, l[1] = "T", w.here = <<>>, w.mode # "blocks"
  PROVE  /\ NoBlock(l) /\ b.here = l /\ b.mode = "bare" /\ b.open = StartAt(w)
         /\ b.lineNo = w.lineNo
         /\ \E c \in States : /\ ReferenceTo(lim, w, c) /\ Reach(lim, c, Tail(l), b)
                              /\ b.due = c.due
<1> DEFINE t == Tail(l)
<1>1. /\ 1 \in 1 .. Len(l) /\ SubSeq(l, 1, 1 - 1) = <<>> /\ SubSeq(l, 1 + 1, Len(l)) = t
      /\ t \in Seq(Texts) /\ <<"T">> \o t = l
  BY FirstAndRest
<1>2. w \in States
  BY ReachTypes
<1> HIDE DEF t
<1>3. PICK v \in States, c \in States :
        /\ Reach(lim, w, SubSeq(l, 1, 1 - 1), v)
        /\ ByteTo(lim, v, l[1], c)
        /\ Reach(lim, c, SubSeq(l, 1 + 1, Len(l)), b)
  BY <1>1, ReachAt
<1>4. v = w
  <2>1. Reach(lim, w, <<>>, v)
    BY <1>1, <1>3
  <2> QED
    BY <1>2, <2>1, ReachNone
<1>5. ReferenceTo(lim, w, c)
  BY <1>3, <1>4 DEF ByteTo, TextTo
<1>6. Reach(lim, c, t, b)
  BY <1>1, <1>3
<1>7. c.mode = "bare" /\ c.here = <<"T">> /\ c.open = StartAt(w) /\ c.lineNo = w.lineNo
  BY <1>5 DEF ReferenceTo, Added
<1>8. NoBlock(t)
  BY <1>1, <1>6, <1>7, BareRun DEF NoBlock
<1>9. GoesOn(c, t)
  BY <1>7 DEF GoesOn
<1>10. /\ b.here = Joined(c.here, t)
       /\ b.mode = c.mode /\ b.open = c.open /\ b.due = c.due
  BY <1>1, <1>6, <1>8, <1>9, TextRun
<1>11. b.here = l
  BY <1>1, <1>7, <1>10 DEF Joined
<1>12. b.lineNo = c.lineNo
  <2>1. t \in Seq(Raw)
    BY <1>1 DEF Raw
  <2> QED
    BY <1>6, <2>1, SameLine
<1>13. NoBlock(l)
  <2>1. \A i \in 1 .. Len(t) : t[i] # "H"
    BY <1>8 DEF NoBlock
  <2>2. Len(t) = Len(l) - 1 /\ \A i \in 1 .. Len(t) : t[i] = l[i + 1]
    BY HeadTailProperties DEF t
  <2>3. ASSUME NEW i \in 1 .. Len(l)
        PROVE  l[i] # "H"
    <3>1. CASE i = 1
      BY <3>1
    <3>2. CASE i # 1
      <4>1. i - 1 \in 1 .. Len(t) /\ (i - 1) + 1 = i
        BY <2>2, <3>2
      <4> QED
        BY <2>1, <2>2, <4>1
    <3> QED
      BY <3>1, <3>2
  <2> QED
    BY <2>3 DEF NoBlock
<1> QED
  BY <1>5, <1>6, <1>7, <1>10, <1>11, <1>12, <1>13 DEF t

\* Up to the first block of a line the writer has text, and goes on as it was.
LEMMA FirstBlock ==
  ASSUME NEW lim, NEW l \in Seq(Texts), NEW w, NEW b, Reach(lim, w, l, b),
         w.here = <<>>, w.mode \in {"none", "blocks"},
         NEW k \in 1 .. Len(l), l[k] = "H", NoBlock(SubSeq(l, 1, k - 1))
  PROVE  \E v \in States, d \in States :
           /\ Reach(lim, w, SubSeq(l, 1, k - 1), v) /\ BlockTo(lim, v, d)
           /\ Reach(lim, d, SubSeq(l, k + 1, Len(l)), b)
           /\ v.here = SubSeq(l, 1, k - 1) /\ v.mode = w.mode /\ v.open = w.open
           /\ v.due = w.due /\ v.lineNo = w.lineNo
<1> DEFINE p == SubSeq(l, 1, k - 1)
<1>1. p \in Seq(Texts) /\ Len(p) = k - 1 /\ \A i \in 1 .. k - 1 : p[i] = l[i]
  OBVIOUS
<1> HIDE DEF p
<1>2. PICK v \in States, d \in States :
        /\ Reach(lim, w, p, v) /\ ByteTo(lim, v, l[k], d)
        /\ Reach(lim, d, SubSeq(l, k + 1, Len(l)), b)
  BY ReachAt DEF p
<1>3. BlockTo(lim, v, d)
  BY <1>2 DEF ByteTo, TextTo
<1>4. GoesOn(w, p)
  <2> SUFFICES ASSUME p # <<>>, p[1] = "T", w.mode # "blocks"
               PROVE  FALSE
    BY DEF GoesOn
  <2>1. l # <<>> /\ l[1] = "T"
    BY <1>1
  <2>2. NoBlock(l)
    BY <2>1, ReferenceLine
  <2> QED
    BY <2>2 DEF NoBlock
<1>5. /\ v.here = p /\ v.mode = w.mode /\ v.open = w.open
      /\ v.due = w.due /\ v.lineNo = w.lineNo
  <2>1. NoBlock(p)
    BY DEF p
  <2> QED
    BY <1>1, <1>2, <1>4, <2>1, TextLine
<1> QED
  BY <1>2, <1>3, <1>5 DEF p

\* A line with one block in it begins a message, and is all its own.
LEMMA BlockLine ==
  ASSUME NEW lim, NEW l \in Seq(Texts), NEW w, NEW b, Reach(lim, w, l, b),
         w.here = <<>>, w.mode \in {"none", "bare"},
         NEW k \in 1 .. Len(l), l[k] = "H", \A i \in 1 .. Len(l) : l[i] = "H" => i = k
  PROVE  /\ w.mode = "none" /\ b.here = l /\ b.mode = "blocks" /\ b.open = StartAt(w)
         /\ b.due = w.due /\ b.lineNo = w.lineNo
<1> DEFINE p == SubSeq(l, 1, k - 1)
           t == SubSeq(l, k + 1, Len(l))
<1>1. /\ p \in Seq(Texts) /\ Len(p) = k - 1 /\ \A i \in 1 .. k - 1 : p[i] = l[i]
      /\ t \in Seq(Texts) /\ Len(t) = Len(l) - k
      /\ \A i \in 1 .. Len(l) - k : t[i] = l[k + i]
  OBVIOUS
<1>2. w.mode = "none"
  BY BareRun
<1> HIDE DEF p, t
<1>3. NoBlock(p) /\ NoBlock(t)
  BY <1>1 DEF NoBlock
<1>4. PICK v \in States, d \in States :
        /\ Reach(lim, w, p, v) /\ BlockTo(lim, v, d) /\ Reach(lim, d, t, b)
        /\ v.here = p /\ v.mode = w.mode /\ v.open = w.open
        /\ v.due = w.due /\ v.lineNo = w.lineNo
  BY <1>2, <1>3, FirstBlock DEF p, t
<1>5. /\ d.here = Append(p, "H") /\ d.mode = "blocks" /\ d.open = StartAt(w)
      /\ d.due = w.due /\ d.lineNo = w.lineNo
  BY <1>2, <1>4 DEF BlockTo, Added, StartAt
<1>6. /\ b.here = Joined(d.here, t)
      /\ b.mode = d.mode /\ b.open = d.open /\ b.due = d.due
  <2>1. GoesOn(d, t)
    BY <1>5 DEF GoesOn
  <2> QED
    BY <1>1, <1>3, <1>4, <2>1, TextRun
<1>7. b.lineNo = d.lineNo
  <2>1. t \in Seq(Raw)
    BY <1>1 DEF Raw
  <2> QED
    BY <1>4, <2>1, SameLine
<1>8. Append(p, "H") \o t = l
  <2>1. Append(p, "H") = SubSeq(l, 1, k)
    <3>1. SubSeq(l, 1, k) \in Seq(Texts) /\ Len(SubSeq(l, 1, k)) = k
          /\ \A i \in 1 .. k : SubSeq(l, 1, k)[i] = l[i]
      OBVIOUS
    <3>2. /\ Append(p, "H") \in Seq(Texts) /\ Len(Append(p, "H")) = k
          /\ \A i \in 1 .. k : Append(p, "H")[i] = IF i = k THEN "H" ELSE p[i]
      BY <1>1 DEF Texts
    <3>3. \A i \in 1 .. k : Append(p, "H")[i] = SubSeq(l, 1, k)[i]
      BY <1>1, <3>1, <3>2
    <3> QED
      BY <3>1, <3>2, <3>3, SeqEqual
  <2>2. SubSeq(l, 1, k) \o SubSeq(l, k + 1, Len(l)) = SubSeq(l, 1, Len(l))
    BY ConcatAdjacentSubSeq
  <2>3. SubSeq(l, 1, Len(l)) = l
    BY SubSeqFull
  <2> QED
    BY <2>1, <2>2, <2>3 DEF t
<1> QED
  BY <1>2, <1>5, <1>6, <1>7, <1>8 DEF Joined

\* Where the next message begins in a line: at its first block, or at the second
\* one where the first is the message's own.
LEMMA BoundaryIs ==
  ASSUME line \in Seq(Texts), has_block1 \in BOOLEAN
  PROVE  /\ Blocks = {i \in 1 .. Len(line) : line[i] = "H"}
         /\ Boundary = 0 /\ Blocks # {} =>
              ~has_block1 /\ \E k \in Blocks : \A i \in Blocks : i = k
         /\ Boundary # 0 =>
              /\ Boundary \in Blocks
              /\ has_block1 => \A i \in Blocks : i >= Boundary
              /\ ~has_block1 => \E k \in Blocks : /\ k < Boundary
                                                 /\ \A i \in Blocks : i < Boundary => i = k
<1> DEFINE H == Blocks
           k == Min(H)
           others == IF has_block1 \/ H = {} THEN H ELSE H \ {k}
<1>1. H = {i \in 1 .. Len(line) : line[i] = "H"}
  BY DEF Blocks
<1>2. H \subseteq Nat
  BY <1>1
<1>3. Boundary = IF others = {} THEN 0 ELSE Min(others)
  BY DEF Boundary
<1>4. H # {} => k \in H /\ \A i \in H : k <= i
  <2> HIDE DEF H
  <2> QED
    BY <1>2, MinIsLeast
<1> HIDE DEF H, k
<1>5. others \subseteq H
  OBVIOUS
<1>6. CASE others = {}
  <2>1. Boundary = 0
    BY <1>3, <1>6
  <2>2. H # {} => ~has_block1 /\ H \ {k} = {}
    BY <1>6
  <2> QED
    BY <1>1, <1>4, <2>1, <2>2 DEF H
<1>7. CASE others # {}
  <2> DEFINE o == others
  <2>1. o \subseteq Nat /\ o # {}
    BY <1>2, <1>5, <1>7
  <2>2. Boundary = Min(o)
    BY <1>3, <1>7
  <2> HIDE DEF o
  <2>3. Boundary \in o /\ \A i \in o : Boundary <= i
    BY <2>1, <2>2, MinIsLeast
  <2>4. Boundary \in H /\ Boundary \in Nat
    BY <1>2, <1>5, <2>3 DEF o
  <2>5. Boundary # 0
    BY <1>1, <2>4
  <2>6. CASE has_block1
    <3>1. o = H
      BY <2>6 DEF o
    <3>2. \A i \in H : i >= Boundary
      BY <1>2, <2>3, <2>4, <3>1
    <3> QED
      BY <1>1, <2>4, <2>5, <2>6, <3>2 DEF H
  <2>7. CASE ~has_block1
    <3>1. o = H \ {k} /\ H # {}
      BY <1>7, <2>7 DEF o
    <3>2. k \in H /\ k # Boundary /\ k <= Boundary /\ k \in Nat
      BY <1>2, <1>4, <2>3, <2>4, <3>1
    <3>3. k < Boundary
      BY <2>4, <3>2
    <3>4. \A i \in H : i < Boundary => i = k
      BY <1>2, <2>3, <2>4, <3>1
    <3> QED
      BY <1>1, <2>4, <2>5, <2>7, <3>2, <3>3, <3>4 DEF H
  <2> QED
    BY <2>6, <2>7
<1> QED
  BY <1>6, <1>7

\* The message under construction is the one that is open before the boundary.
LEMMA BoundaryRun ==
  ASSUME Typed, NEW w, Stands(w, msg, has_block1, has_field20, began),
         w.lineNo = taken, NEW b, Reach(setting.limit, w, line, b),
         line \in Seq(Texts), Boundary # 0
  PROVE  /\ Boundary \in 1 .. Len(line) /\ line[Boundary] = "H"
         /\ msg = <<>> => Boundary > 1
         /\ \E v \in States, d \in States :
              /\ BlockTo(setting.limit, v, d)
              /\ Reach(setting.limit, d, SubSeq(line, Boundary + 1, Len(line)), b)
              /\ v.here = SubSeq(line, 1, Boundary - 1) /\ v.mode = "blocks"
              /\ v.open = [line |-> IF msg = <<>> THEN taken ELSE began, lines |-> msg]
              /\ v.due = <<>> /\ v.lineNo = taken
<1> DEFINE lim == setting.limit
           B == Boundary
           p == SubSeq(line, 1, B - 1)
<1>1. FramerTyped
  BY DEF Typed
<1>2. /\ w \in States /\ w.here = <<>> /\ w.due = <<>>
      /\ w.mode \in {"none", "blocks", "bare"}
      /\ has_block1 <=> w.mode = "blocks"
      /\ msg = <<>> <=> w.mode = "none"
      /\ msg # <<>> => w.open = [line |-> began, lines |-> msg]
  BY <1>1, StandsIn
<1>3. has_block1 \in BOOLEAN
  BY <1>1 DEF FramerTyped
<1>4. /\ B \in 1 .. Len(line) /\ line[B] = "H"
      /\ has_block1 => \A i \in 1 .. Len(line) : line[i] = "H" => i >= B
      /\ ~has_block1 => \E k \in 1 .. Len(line) :
           /\ line[k] = "H" /\ k < B
           /\ \A i \in 1 .. Len(line) : line[i] = "H" /\ i < B => i = k
  BY <1>3, BoundaryIs
<1> HIDE DEF lim, B
<1>5. p \in Seq(Texts) /\ Len(p) = B - 1 /\ \A i \in 1 .. B - 1 : p[i] = line[i]
  BY <1>4
<1> HIDE DEF p
<1>6. CASE has_block1
  <2>1. NoBlock(SubSeq(line, 1, B - 1))
    BY <1>4, <1>5, <1>6 DEF NoBlock, p
  <2>2. w.mode \in {"none", "blocks"}
    BY <1>2, <1>6
  <2>3. Reach(lim, w, line, b)
    BY DEF lim
  <2>4. \E v \in States, d \in States :
           /\ Reach(lim, w, SubSeq(line, 1, B - 1), v) /\ BlockTo(lim, v, d)
           /\ Reach(lim, d, SubSeq(line, B + 1, Len(line)), b)
           /\ v.here = SubSeq(line, 1, B - 1) /\ v.mode = w.mode /\ v.open = w.open
           /\ v.due = w.due /\ v.lineNo = w.lineNo
    BY <1>2, <1>4, <2>1, <2>2, <2>3, FirstBlock
  <2>5. msg # <<>> /\ w.mode = "blocks" /\ w.open = [line |-> began, lines |-> msg]
    BY <1>2, <1>6
  <2> QED
    BY <1>2, <1>4, <2>4, <2>5 DEF lim, B
<1>7. CASE ~has_block1
  <2>1. PICK k \in 1 .. Len(line) :
           /\ line[k] = "H" /\ k < B
           /\ \A i \in 1 .. Len(line) : line[i] = "H" /\ i < B => i = k
    BY <1>4, <1>7
  <2>2. PICK v \in States, d \in States :
          /\ Reach(lim, w, p, v) /\ ByteTo(lim, v, line[B], d)
          /\ Reach(lim, d, SubSeq(line, B + 1, Len(line)), b)
    BY <1>4, ReachAt DEF lim, p
  <2>3. BlockTo(lim, v, d)
    BY <1>4, <2>2 DEF ByteTo, TextTo
  <2>4. k \in 1 .. Len(p) /\ p[k] = "H" /\ \A i \in 1 .. Len(p) : p[i] = "H" => i = k
    BY <1>4, <1>5, <2>1
  <2>5. w.mode \in {"none", "bare"}
    BY <1>2, <1>7
  <2>6. /\ w.mode = "none" /\ v.here = p /\ v.mode = "blocks" /\ v.open = StartAt(w)
        /\ v.due = w.due /\ v.lineNo = w.lineNo
    BY <1>2, <1>5, <2>2, <2>4, <2>5, BlockLine
  <2>7. msg = <<>> /\ StartAt(w) = [line |-> taken, lines |-> <<>>]
    BY <1>2, <2>6 DEF StartAt
  <2>8. B > 1
    BY <1>4, <2>1
  <2> QED
    BY <1>2, <1>4, <2>2, <2>3, <2>6, <2>7, <2>8 DEF lim, B, p
<1> QED
  BY <1>6, <1>7

\* A writer that begins a message where it stood, with nothing behind it.
Cleared(a) ==
  [mode |-> "none", open |-> Null, here |-> <<>>, lineNo |-> a.lineNo, due |-> <<>>,
   width |-> a.width, sound |-> a.sound, lastCr |-> a.lastCr]

\* From a to c a message begins behind the one before.
Follows(lim, a, c) ==
  \/ a.mode = "blocks" /\ BlockTo(lim, a, c)
  \/ a.mode = "bare" /\ ReferenceTo(lim, a, c)

\* A message begins with nothing behind it as it begins behind the one before.
LEMMA ClearedBegins ==
  ASSUME NEW lim, NEW a \in States, NEW c \in States, NEW m,
         Follows(lim, a, c), c.due = <<m>>
  PROVE  /\ Cleared(a) \in States /\ Cleared(a).mode = "none"
         /\ Cleared(a).here = <<>> /\ Cleared(a).due = <<>>
         /\ Cleared(a).lineNo = a.lineNo
         /\ a.mode = "blocks" => ByteTo(lim, Cleared(a), "H", Drop(c))
         /\ a.mode = "bare" => ByteTo(lim, Cleared(a), "T", Drop(c))
<1> DEFINE e == Cleared(a)
           d == Drop(c)
<1>1. /\ e \in States /\ e.mode = "none" /\ e.here = <<>> /\ e.due = <<>>
      /\ e.lineNo = a.lineNo /\ e.width = a.width /\ e.sound = a.sound
  BY DEF Cleared, States
<1>2. /\ d.mode = c.mode /\ d.open = c.open /\ d.here = c.here
      /\ d.lineNo = c.lineNo /\ d.width = c.width /\ d.sound = c.sound
      /\ d.lastCr = c.lastCr /\ d.due = Tail(c.due)
  <2>1. c.due # <<>>
    OBVIOUS
  <2> QED
    BY <2>1, DropIs
<1>3. d.due = <<>>
  BY <1>2
<1> HIDE DEF e, d
<1>4. StartAt(e) = StartAt(a) /\ (Added(lim, a, c) => Added(lim, e, d))
  <2>1. StartAt(e) = StartAt(a)
    BY <1>1 DEF StartAt
  <2>2. Added(lim, a, c) => Added(lim, e, d)
    BY <1>1, <1>2 DEF Added
  <2> QED
    BY <2>1, <2>2
<1>5. CASE a.mode = "blocks" /\ BlockTo(lim, a, c)
  <2>1. /\ c.mode = "blocks" /\ c.open = StartAt(a) /\ c.here = <<"H">> /\ Added(lim, a, c)
    BY <1>5 DEF BlockTo
  <2>2. Trim(e.here) = <<>>
    <3>1. <<>> \in Seq(Texts) /\ \A i \in 1 .. Len(<<>>) : <<>>[i] = "w"
      OBVIOUS
    <3>2. Trim(<<>>) = <<>>
      BY <3>1, TrimSays
    <3> QED
      BY <1>1, <3>2
  <2>3. d.here = Append(e.here, "H")
    BY <1>1, <1>2, <2>1
  <2>4. BlockTo(lim, e, d)
    BY <1>1, <1>2, <1>3, <1>4, <2>1, <2>2, <2>3 DEF BlockTo
  <2> QED
    BY <1>1, <1>5, <2>4 DEF ByteTo, e, d
<1>6. CASE a.mode = "bare" /\ ReferenceTo(lim, a, c)
  <2>1. /\ c.mode = "bare" /\ c.open = StartAt(a) /\ c.here = <<"T">> /\ Added(lim, a, c)
    BY <1>6 DEF ReferenceTo
  <2>2. ReferenceTo(lim, e, d)
    BY <1>1, <1>2, <1>3, <1>4, <2>1 DEF ReferenceTo
  <2> QED
    BY <1>1, <1>6, <2>2 DEF ByteTo, e, d
<1> QED
  BY <1>5, <1>6 DEF Follows

\* When a message is handed over because the next one begins, what is put aside is
\* the line the next one begins with, and it begins with nothing behind it.
LEMMA NextBegins ==
  ASSUME FileTyped, UNCHANGED <<written, buf, filled, taken>>,
         due' = IF due = <<>> THEN due ELSE Tail(due),
         NEW a \in States, NEW c \in States, NEW m, c.due = <<m>>,
         Follows(setting.limit, a, c),
         a.lineNo = taken,
         NEW t \in Seq(Texts), NEW b \in States, Reach(setting.limit, c, t, b), Done(b)
  PROVE  /\ due # <<>> /\ due[1] = m
         /\ \E u : /\ Stands(u, <<>>, FALSE, FALSE, 0)
                   /\ u.mode = "none" /\ u.lineNo = taken'
                   /\ \E e \in States :
                        /\ a.mode = "blocks" => Reach(setting'.limit, u, <<"H">> \o t, e)
                        /\ a.mode = "bare" => Reach(setting'.limit, u, <<"T">> \o t, e)
                        /\ Done(e)'
<1> DEFINE lim == setting.limit
           u == Cleared(a)
           e == Drop(b)
<1>1. lim' = lim
  BY DEF written
<1> HIDE DEF lim, u, e
<1>2. c.due # <<>> /\ c.due[1] = m
  OBVIOUS
<1>3. b.due # <<>> /\ b.due[1] = m /\ Reach(lim, Drop(c), t, e)
  <2>1. Reach(lim, c, t, b)
    BY DEF lim
  <2>2. b.due # <<>> /\ b.due[1] = c.due[1] /\ Reach(lim, Drop(c), t, Drop(b))
    BY <1>2, <2>1, DropRun
  <2> QED
    BY <1>2, <2>2 DEF e
<1>4. due # <<>> /\ due[1] = m /\ Done(e)'
  BY <1>3, DropDone DEF e
<1>5. /\ u \in States /\ u.mode = "none" /\ u.here = <<>> /\ u.due = <<>>
      /\ u.lineNo = a.lineNo
      /\ a.mode = "blocks" => ByteTo(lim, u, "H", Drop(c))
      /\ a.mode = "bare" => ByteTo(lim, u, "T", Drop(c))
  BY ClearedBegins DEF lim, u
<1>6. e \in States /\ Drop(c) \in States
  BY <1>2, <1>3, DropIs DEF e
<1>7. ASSUME NEW x \in Texts, ByteTo(lim, u, x, Drop(c))
      PROVE  Reach(lim, u, <<x>> \o t, e)
  <2>1. Reach(lim, u, <<x>>, Drop(c))
    BY <1>5, <1>6, <1>7, ReachOne
  <2>2. <<x>> \in Seq(Texts)
    OBVIOUS
  <2> QED
    BY <1>3, <2>1, <2>2, ReachJoin
<1>8. /\ a.mode = "blocks" => Reach(lim, u, <<"H">> \o t, e)
      /\ a.mode = "bare" => Reach(lim, u, <<"T">> \o t, e)
  <2>1. "H" \in Texts /\ "T" \in Texts
    BY DEF Texts
  <2> QED
    BY <1>5, <1>7, <2>1
<1>9. Stands(u, <<>>, FALSE, FALSE, 0)
  BY <1>5 DEF Stands
<1>10. /\ a.mode = "blocks" => Reach(setting'.limit, u, <<"H">> \o t, e)
       /\ a.mode = "bare" => Reach(setting'.limit, u, <<"T">> \o t, e)
  BY <1>1, <1>8 DEF lim
<1> QED
  BY <1>4, <1>5, <1>6, <1>9, <1>10

-----------------------------------------------------------------------------
(* What a line does to the message.                                        *)

\* The framer keeps its place where the next message begins in the line.
LEMMA FrameBoundaryStep ==
  ASSUME Typed, Place, returned = wanted, pc = "frame", FrameBoundary, UNCHANGED Aside
  PROVE  Kept'
<1> DEFINE lim == setting.limit
           B == Boundary
           bg == IF msg = <<>> THEN taken ELSE began
           t == SubSeq(line, B + 1, Len(line))
<1>1. PICK w : Stands(w, msg, has_block1, has_field20, began) /\ Whole(w, line)
  BY DEF Place
<1>2. PICK b \in States : Reach(lim, w, line, b) /\ Done(b)
  BY <1>1 DEF Whole
<1>3. FileTyped /\ FramerTyped /\ line \in Seq(Texts) /\ w.lineNo = taken
  BY <1>1 DEF Typed, FramerTyped, Good, Whole
<1>4. UNCHANGED <<written, buf, filled, taken>>
  BY DEF Aside
<1>5. /\ B # 0 /\ pending' = SubSeq(line, B, Len(line)) /\ Returns(msg')
      /\ IF B > 1 THEN began' = bg /\ msg' = Append(msg, SubSeq(line, 1, B - 1))
         ELSE UNCHANGED <<began, msg>>
  BY DEF FrameBoundary, Begins
<1>6. /\ B \in 1 .. Len(line) /\ line[B] = "H" /\ (msg = <<>> => B > 1)
      /\ \E v \in States, d \in States :
              /\ BlockTo(lim, v, d)
              /\ Reach(lim, d, t, b)
              /\ v.here = SubSeq(line, 1, B - 1) /\ v.mode = "blocks"
              /\ v.open = [line |-> bg, lines |-> msg]
              /\ v.due = <<>> /\ v.lineNo = taken
  BY <1>1, <1>2, <1>3, <1>5, BoundaryRun
<1> HIDE DEF lim, B, bg
<1>7. PICK v \in States, d \in States :
              /\ BlockTo(lim, v, d)
              /\ Reach(lim, d, t, b)
              /\ v.here = SubSeq(line, 1, B - 1) /\ v.mode = "blocks"
              /\ v.open = [line |-> bg, lines |-> msg]
              /\ v.due = <<>> /\ v.lineNo = taken
  BY <1>6
<1>8. t \in Seq(Texts)
  BY <1>3, <1>6
<1>9. <<"H">> \o t = pending'
  <2>1. SubSeq(line, B, Len(line)) = SubSeq(line, B, B) \o t
    BY <1>3, <1>6, ConcatAdjacentSubSeq
  <2>2. SubSeq(line, B, B) = <<"H">>
    <3> DEFINE q == SubSeq(line, B, B)
    <3>1. q \in Seq(Texts) /\ Len(q) = 1 /\ q[1] = line[B]
      BY <1>3, <1>6
    <3> HIDE DEF q
    <3>2. q = <<"H">>
      BY <1>6, <3>1
    <3> QED
      BY <3>2 DEF q
  <2> QED
    BY <1>5, <2>1, <2>2
<1>10. d.due = <<With(v)>>
  <2>1. d.due = Append(<<>>, With(v))
    BY <1>7 DEF BlockTo
  <2> QED
    BY <2>1
<1>11. /\ pc' = "idle" /\ returned' = [line |-> began', lines |-> msg']
       /\ wanted' = (IF due = <<>> THEN Null ELSE due[1])
       /\ due' = (IF due = <<>> THEN due ELSE Tail(due))
  BY <1>5 DEF Returns
<1> HIDE DEF t
<1>12. /\ due # <<>> /\ due[1] = With(v)
       /\ \E u : /\ Stands(u, <<>>, FALSE, FALSE, 0)
                 /\ u.mode = "none" /\ u.lineNo = taken'
                 /\ \E e \in States :
                        /\ v.mode = "blocks" => Reach(setting'.limit, u, <<"H">> \o t, e)
                        /\ v.mode = "bare" => Reach(setting'.limit, u, <<"T">> \o t, e)
                        /\ Done(e)'
  <2>1. FileTyped /\ v.lineNo = taken /\ Follows(setting.limit, v, d)
    BY <1>3, <1>7 DEF Follows, lim
  <2>2. due' = IF due = <<>> THEN due ELSE Tail(due)
    BY <1>11
  <2>3. Reach(setting.limit, d, t, b) /\ Done(b)
    BY <1>2, <1>7 DEF lim
  <2> HIDE DEF lim
  <2>4. t \in Seq(Texts) /\ v \in States /\ d \in States /\ b \in States
    BY <1>2, <1>7, <1>8
  <2> QED
    BY ONLY <1>4, <1>10, <2>1, <2>2, <2>3, <2>4, NextBegins
<1>13. With(v) = [line |-> began', lines |-> msg']
  <2>1. CASE B > 1
    <3>1. v.here # <<>>
      <4>1. SubSeq(line, 1, B - 1) # <<>>
        BY <1>3, <1>6, <2>1
      <4> QED
        BY <1>7, <4>1
    <3>2. With(v) = [v.open EXCEPT !.lines = Append(@, v.here)]
      BY <3>1 DEF With
    <3>3. With(v) = [line |-> bg, lines |-> Append(msg, v.here)]
      <4> DEFINE q == Append(msg, v.here)
      <4>1. v.open.lines = msg
        BY <1>7
      <4>2. With(v) = [v.open EXCEPT !.lines = q]
        BY <3>2, <4>1
      <4> HIDE DEF q
      <4>3. With(v) = [line |-> bg, lines |-> q]
        BY <1>7, <4>2
      <4> QED
        BY <4>3 DEF q
    <3>4. began' = bg /\ msg' = Append(msg, v.here)
      BY <1>5, <1>7, <2>1
    <3> QED
      BY <3>3, <3>4
  <2>2. CASE ~(B > 1)
    <3>1. v.here = <<>>
      <4>1. B = 1
        BY <1>3, <1>6, <2>2
      <4>2. SubSeq(line, 1, 1 - 1) = <<>>
        BY SubSeqEmpty
      <4> QED
        BY <1>7, <4>1, <4>2
    <3>2. With(v) = [v.open EXCEPT !.lines = @]
      BY <3>1 DEF With
    <3>3. With(v) = [line |-> bg, lines |-> msg]
      BY <1>7, <3>2
    <3>4. bg = began
      BY <1>6, <2>2 DEF bg
    <3> QED
      BY <1>5, <2>2, <3>3, <3>4
  <2> QED
    BY <2>1, <2>2
<1>14. returned' = wanted'
  BY <1>11, <1>12, <1>13
<1>15. PICK u : /\ Stands(u, <<>>, FALSE, FALSE, 0)
                /\ u.mode = "none" /\ u.lineNo = taken'
                /\ \E e \in States : Reach(setting'.limit, u, pending', e) /\ Done(e)'
  BY <1>7, <1>9, <1>12
<1>16. pending' # Null
  <2>1. pending' \in Seq(Texts)
    BY <1>3, <1>5, <1>6
  <2> QED
    BY <2>1, NullAssumption
<1>17. Between(u)'
  BY <1>15, <1>16 DEF Between, Whole
<1>18. Place'
  BY <1>11, <1>15, <1>17 DEF Place
<1> QED
  BY <1>11, <1>14, <1>18 DEF Kept

\* The framer keeps its place where the next bare statement begins with the line.
LEMMA FrameReferenceStep ==
  ASSUME Typed, Place, returned = wanted, pc = "frame", FrameReference, UNCHANGED Aside
  PROVE  Kept'
<1> DEFINE lim == setting.limit
           t == Tail(line)
<1>1. PICK w : Stands(w, msg, has_block1, has_field20, began) /\ Whole(w, line)
  BY DEF Place
<1>2. PICK b \in States : Reach(lim, w, line, b) /\ Done(b)
  BY <1>1 DEF Whole
<1>3. FileTyped /\ FramerTyped /\ line \in Seq(Texts) /\ w.lineNo = taken
  BY <1>1 DEF Typed, FramerTyped, Good, Whole
<1>4. UNCHANGED <<written, buf, filled, taken>>
  BY DEF Aside
<1>5. /\ line # <<>> /\ line[1] = "T" /\ ~has_block1 /\ has_field20
      /\ pending' = line /\ Returns(msg)
      /\ UNCHANGED <<began, msg>>
  BY DEF FrameReference, NextReference, IsReference
<1>6. /\ w \in States /\ w.here = <<>> /\ w.due = <<>> /\ w.mode = "bare"
      /\ w.open = [line |-> began, lines |-> msg]
  BY <1>1, <1>3, <1>5, StandsIn
<1> HIDE DEF lim
<1>7. PICK c \in States : ReferenceTo(lim, w, c) /\ Reach(lim, c, t, b)
  BY <1>2, <1>3, <1>5, <1>6, ReferenceLine
<1>8. t \in Seq(Texts) /\ <<"T">> \o t = pending'
  BY <1>3, <1>5, FirstAndRest
<1>9. c.due = <<w.open>>
  <2>1. c.due = Append(<<>>, w.open)
    BY <1>6, <1>7 DEF ReferenceTo
  <2> QED
    BY <2>1
<1>10. /\ pc' = "idle" /\ returned' = [line |-> began, lines |-> msg]
       /\ wanted' = (IF due = <<>> THEN Null ELSE due[1])
       /\ due' = (IF due = <<>> THEN due ELSE Tail(due))
  BY <1>5 DEF Returns
<1> HIDE DEF t
<1>11. /\ due # <<>> /\ due[1] = w.open
       /\ \E u : /\ Stands(u, <<>>, FALSE, FALSE, 0)
                 /\ u.mode = "none" /\ u.lineNo = taken'
                 /\ \E e \in States :
                        /\ w.mode = "blocks" => Reach(setting'.limit, u, <<"H">> \o t, e)
                        /\ w.mode = "bare" => Reach(setting'.limit, u, <<"T">> \o t, e)
                        /\ Done(e)'
  <2>1. FileTyped /\ w.lineNo = taken /\ Follows(setting.limit, w, c)
    BY <1>3, <1>6, <1>7 DEF Follows, lim
  <2>2. due' = IF due = <<>> THEN due ELSE Tail(due)
    BY <1>10
  <2>3. Reach(setting.limit, c, t, b) /\ Done(b)
    BY <1>2, <1>7 DEF lim
  <2> HIDE DEF lim
  <2>4. t \in Seq(Texts) /\ w \in States /\ c \in States /\ b \in States
    BY <1>2, <1>6, <1>7, <1>8
  <2> QED
    BY ONLY <1>4, <1>9, <2>1, <2>2, <2>3, <2>4, NextBegins
<1>12. returned' = wanted'
  BY <1>6, <1>10, <1>11
<1>13. PICK u : /\ Stands(u, <<>>, FALSE, FALSE, 0)
                /\ u.mode = "none" /\ u.lineNo = taken'
                /\ \E e \in States : Reach(setting'.limit, u, pending', e) /\ Done(e)'
  BY <1>6, <1>8, <1>11
<1>14. pending' # Null
  BY <1>3, <1>5, NullAssumption
<1>15. Between(u)'
  BY <1>13, <1>14 DEF Between, Whole
<1>16. Place'
  BY <1>10, <1>13, <1>15 DEF Place
<1> QED
  BY <1>10, <1>12, <1>16 DEF Kept

\* The framer keeps its place over what is before the first message.
LEMMA FramePreambleStep ==
  ASSUME Typed, Place, returned = wanted, pc = "frame", FramePreamble, UNCHANGED Aside
  PROVE  Kept'
<1>1. PICK w : Stands(w, msg, has_block1, has_field20, began) /\ Whole(w, line)
  BY DEF Place
<1>2. PICK b \in States : Reach(setting.limit, w, line, b) /\ Done(b)
  BY <1>1 DEF Whole
<1>3. FramerTyped /\ line \in Seq(Texts) /\ w.lineNo = taken /\ has_block1 \in BOOLEAN
  BY <1>1 DEF Typed, FramerTyped, Good, Whole
<1>4. /\ msg = <<>> /\ Blocks = {} /\ ~IsReference /\ pc' = "take"
      /\ UNCHANGED <<msg, has_block1, has_field20, began, pending, due, returned, wanted>>
  BY DEF FramePreamble, Preamble, framed, answer
<1>5. /\ w \in States /\ w.here = <<>> /\ w.due = <<>> /\ w.open = Null
      /\ ~has_block1 /\ ~has_field20
  BY <1>1, <1>3, <1>4, StandsIn
<1>6. NoBlock(line) /\ GoesOn(w, line)
  <2>1. Blocks = {i \in 1 .. Len(line) : line[i] = "H"}
    BY <1>3, BoundaryIs
  <2>2. NoBlock(line)
    BY <1>4, <2>1 DEF NoBlock
  <2>3. GoesOn(w, line)
    BY <1>4 DEF GoesOn, IsReference
  <2> QED
    BY <2>2, <2>3
<1>7. b.open = Null /\ b.due = <<>> /\ b.lineNo = taken
  <2>1. b.open = w.open /\ b.due = w.due /\ b.lineNo = w.lineNo
    BY <1>2, <1>3, <1>6, TextLine
  <2> QED
    BY <1>3, <1>5, <2>1
<1>8. UNCHANGED <<written, due, buf, filled, taken>>
  BY <1>4 DEF Aside
<1>9. PICK u : Stands(u, <<>>, FALSE, FALSE, 0) /\ Fresh(u)'
  BY <1>2, <1>7, <1>8, NothingOpen
<1>10. Stands(u, msg, has_block1, has_field20, began)'
  BY <1>4, <1>5, <1>9 DEF Stands
<1>11. (pending = Null)'
  BY <1>4 DEF Place
<1>12. Place'
  BY <1>4, <1>9, <1>10, <1>11 DEF Place, Between
<1> QED
  BY <1>4, <1>12 DEF Kept

\* The line that belongs to the message: where it was begun, if it was not yet.
Here(m) == IF m = <<>> THEN taken ELSE began

\* A line that belongs to the message belongs to the one the writer is in.
LEMMA BelongsRun ==
  ASSUME Typed, pc = "frame", Belongs,
         NEW w, Stands(w, msg, has_block1, has_field20, began), w.lineNo = taken,
         NEW b, Reach(setting.limit, w, line, b)
  PROVE  /\ b.here = line /\ b.due = <<>> /\ b.lineNo = taken /\ ~IsOver(b)
         /\ b.open = [line |-> Here(msg), lines |-> msg]
         /\ has_block1 \/ Blocks # {} => b.mode = "blocks"
         /\ ~has_block1 /\ Blocks = {} => b.mode = "bare" /\ (has_field20 \/ IsReference)
         /\ msg = <<>> => Trim(line) # <<>>
<1> DEFINE lim == setting.limit
<1>1. FramerTyped /\ line \in Seq(Texts) /\ has_block1 \in BOOLEAN
  BY DEF Typed, FramerTyped, Good
<1>2. /\ w \in States /\ w.here = <<>> /\ w.due = <<>>
      /\ w.mode \in {"none", "blocks", "bare"}
      /\ has_block1 <=> w.mode = "blocks"
      /\ msg = <<>> <=> w.mode = "none"
      /\ msg # <<>> => w.open = [line |-> began, lines |-> msg]
      /\ w.mode = "bare" => has_field20
  BY <1>1, StandsIn
<1>3. ~IsSeparator /\ Boundary = 0 /\ ~NextReference /\ ~Preamble /\ ~BareEnd
  BY DEF Belongs
<1>4. /\ Blocks = {i \in 1 .. Len(line) : line[i] = "H"}
      /\ Blocks # {} => ~has_block1 /\ \E k \in Blocks : \A i \in Blocks : i = k
  BY <1>1, <1>3, BoundaryIs
<1>5. Reach(lim, w, line, b)
  OBVIOUS
<1> HIDE DEF lim
<1>6. ASSUME b.here = line, b.mode = "bare" => ~has_block1
      PROVE  ~IsOver(b)
  BY <1>3, <1>6 DEF IsOver, IsSeparator, BareEnd
<1>7. ASSUME NEW i \in 1 .. Len(line), line[i] # "w"
      PROVE  Trim(line) # <<>>
  BY <1>1, <1>7, TrimSays
<1>8. CASE Blocks # {}
  <2>1. PICK k \in 1 .. Len(line) :
          line[k] = "H" /\ \A i \in 1 .. Len(line) : line[i] = "H" => i = k
    BY <1>4, <1>8
  <2>2. w.mode \in {"none", "bare"} /\ ~has_block1
    BY <1>2, <1>4, <1>8
  <2>3. /\ w.mode = "none" /\ b.here = line /\ b.mode = "blocks" /\ b.open = StartAt(w)
        /\ b.due = w.due /\ b.lineNo = w.lineNo
    BY <1>1, <1>2, <1>5, <2>1, <2>2, BlockLine
  <2>4. msg = <<>> /\ b.open = [line |-> Here(msg), lines |-> msg]
    BY <1>2, <2>3 DEF Here, StartAt
  <2>5. Trim(line) # <<>>
    BY <1>7, <2>1
  <2>6. ~IsOver(b)
    BY <1>6, <2>3
  <2> QED
    BY <1>2, <1>8, <2>3, <2>4, <2>5, <2>6
<1>9. CASE Blocks = {}
  <2>1. NoBlock(line)
    BY <1>4, <1>9 DEF NoBlock
  <2>2. CASE msg # <<>>
    <3>1. GoesOn(w, line)
      BY <1>2, <1>3, <2>2 DEF GoesOn, NextReference, IsReference
    <3>2. /\ b.here = line /\ b.mode = w.mode /\ b.open = w.open /\ b.due = w.due
          /\ b.lineNo = w.lineNo
      BY <1>1, <1>2, <1>5, <2>1, <3>1, TextLine
    <3>3. b.open = [line |-> Here(msg), lines |-> msg]
      BY <1>2, <2>2, <3>2 DEF Here
    <3>4. ~IsOver(b)
      BY <1>2, <1>6, <3>2
    <3> QED
      BY <1>2, <1>9, <2>2, <3>2, <3>3, <3>4
  <2>3. CASE msg = <<>>
    <3>1. IsReference /\ line # <<>> /\ line[1] = "T"
      BY <1>3, <1>9, <2>3 DEF Preamble, IsReference
    <3>2. w.mode = "none" /\ ~has_block1 /\ w.mode # "blocks"
      BY <1>2, <2>3
    <3>3. /\ b.here = line /\ b.mode = "bare" /\ b.open = StartAt(w) /\ b.lineNo = w.lineNo
          /\ \E c \in States : ReferenceTo(lim, w, c) /\ b.due = c.due
      BY <1>1, <1>2, <1>5, <3>1, <3>2, ReferenceLine
    <3>4. b.due = <<>>
      BY <1>2, <3>2, <3>3 DEF ReferenceTo
    <3>5. b.open = [line |-> Here(msg), lines |-> msg]
      BY <2>3, <3>3 DEF Here, StartAt
    <3>6. ~IsOver(b)
      BY <1>6, <3>2, <3>3
    <3>7. Trim(line) # <<>>
      <4>1. 1 \in 1 .. Len(line)
        BY <1>1, <3>1
      <4> QED
        BY <1>7, <3>1, <4>1
    <3> QED
      BY <1>9, <3>1, <3>2, <3>3, <3>4, <3>5, <3>6, <3>7
  <2> QED
    BY <2>2, <2>3
<1> QED
  BY <1>8, <1>9

\* A message is refused as too long only if it is.
LEMMA FrameTooLongStep ==
  ASSUME Typed, Place, returned = wanted, pc = "frame", FrameTooLong, UNCHANGED Aside
  PROVE  Kept'
<1> DEFINE lim == setting.limit
<1>1. PICK w : Stands(w, msg, has_block1, has_field20, began) /\ Whole(w, line)
  BY DEF Place
<1>2. PICK b \in States : Reach(lim, w, line, b) /\ Done(b)
  BY <1>1 DEF Whole
<1>3. /\ FileTyped /\ line \in Seq(Good) /\ w.lineNo = taken /\ msg \in Seq(Seq(Good))
      /\ lim \in Nat
  BY <1>1, SettingTypes DEF Typed, FileTyped, FramerTyped, Whole
<1>4. /\ Belongs /\ Size(msg) + Len(line) > lim /\ pc' = "failed"
      /\ UNCHANGED <<msg, has_block1, has_field20, began, pending, due, returned, wanted>>
  BY DEF FrameTooLong, framed, answer
<1>5. b.here = line /\ ~IsOver(b) /\ b.open = [line |-> Here(msg), lines |-> msg]
  BY <1>1, <1>2, <1>3, <1>4, BelongsRun
<1>6. b.open # Null
  <2>1. b.here = line /\ b.open = [line |-> Here(msg), lines |-> msg]
    BY <1>5
  <2>2. msg \in Seq(Seq(Texts)) /\ Here(msg) \in Nat
    BY <1>3 DEF Typed, FramerTyped, Good, Here
  <2>3. b.open \in Messages
    BY <2>1, <2>2 DEF Messages
  <2> QED
    BY <2>3, NullAssumption
<1>7. Size(msg) \in Nat /\ Size(Append(msg, <<>>)) = Size(msg) + 1
  <2>1. <<>> \in Seq(Good) /\ Len(<<>>) = 0
    OBVIOUS
  <2>2. Size(msg) \in Nat /\ Size(Append(msg, <<>>)) = Size(msg) + (Len(<<>>) + 1)
    BY <1>3, <2>1, SizeSteps
  <2> QED
    BY <2>1, <2>2
<1>8. sound => b.sound
  BY <1>2, <1>3, AheadSound
<1> HIDE DEF lim
<1>9. CASE line # <<>>
  <2>1. line \in Seq(Raw) /\ line[Len(line)] # "bom"
    <3>1. Len(line) \in DOMAIN line
      BY <1>3, <1>9
    <3> QED
      BY <1>3, <3>1 DEF Raw, Good, Texts
  <2>2. b.sound => b.open = Null \/ Size(b.open.lines) + Len(b.here) <= lim
    BY <1>2, <1>9, <2>1, FitRun
  <2>3. b.open.lines = msg
    BY <1>5
  <2>4. b.sound => Size(msg) + Len(line) <= lim
    BY <1>5, <1>6, <2>2, <2>3
  <2>5. Len(line) \in Nat
    BY <1>3
  <2> QED
    <3>1. ~sound
      BY <1>3, <1>4, <1>7, <1>8, <2>4, <2>5 DEF lim
    <3>2. Place'
      BY <1>4 DEF Place, HasText
    <3> QED
      BY <1>4, <3>1, <3>2 DEF Kept, Aside, written
<1>10. CASE line = <<>>
  <2>1. PICK c \in States : LineEndTo(lim, b, c) /\ Ahead(c) /\ LfSafe(c)
    BY <1>2, <1>5, <1>6, <1>10 DEF Done, lim
  <2>2. sound => c.sound
    BY <1>3, <2>1, AheadSound
  <2>3. c.open = [b.open EXCEPT !.lines = Append(@, b.here)]
    BY <1>5, <1>6, <2>1 DEF LineEndTo
  <2>4. c.open.lines = Append(msg, <<>>)
    BY <1>5, <1>10, <2>3
  <2>5. c.open # Null
    <3>1. msg \in Seq(Seq(Texts)) /\ Here(msg) \in Nat
      BY <1>3 DEF Typed, FramerTyped, Good, Here
    <3>2. b.open \in Messages /\ b.here \in Seq(Texts)
      BY <1>5, <1>10, <3>1 DEF Messages
    <3> QED
      BY <2>3, <3>2, MessageGrows
  <2>6. c.sound => Size(c.open.lines) - 1 <= lim
    BY <2>1, <2>5 DEF LineEndTo
  <2>7. c.sound => Size(msg) <= lim
    BY <1>7, <2>4, <2>6
  <2>8. ~sound
    BY <1>3, <1>4, <1>7, <1>10, <2>2, <2>7 DEF lim
  <2>9. Place'
    BY <1>4 DEF Place, HasText
  <2> QED
    BY <1>4, <2>8, <2>9 DEF Kept, Aside, written
<1> QED
  BY <1>9, <1>10

\* The open message with the line it is in.
Further(a) == [a.open EXCEPT !.lines = Append(@, a.here)]

\* With a line more behind it the writer stands at the start of the next one.
LEMMA LineBehind ==
  ASSUME UNCHANGED <<written, due, buf, filled, taken>>,
         NEW b \in States, Done(b), b.due = <<>>, b.lineNo = taken,
         ~IsOver(b), b.open # Null
  PROVE  \E u : /\ u \in States /\ u.here = <<>> /\ u.due = <<>> /\ u.mode = b.mode
                /\ u.open = Further(b)
                /\ Fresh(u)'
<1> DEFINE lim == setting.limit
           o == Further(b)
<1>1. o \in Messages /\ o # Null
  <2>1. b.open \in Messages /\ b.here \in Seq(Texts)
    BY DEF States
  <2> QED
    BY <2>1, MessageGrows DEF Further
<1> HIDE DEF o
<1>2. CASE Closed(b) /\ (b.here = <<>> => b.open = Null)
  <2>1. With(b) = o
    BY <1>2 DEF With, Further, o
  <2>2. due = Append(<<>>, o) /\ AtEnd /\ open = Null /\ (sound => b.sound)
    BY <1>2, <2>1 DEF Closed, EndDue
  <2>3. PICK u \in States : /\ u.here = <<>> /\ u.due = <<>> /\ u.mode = b.mode
                            /\ u.open = o /\ u.sound = b.sound
    <3> DEFINE v == [mode |-> b.mode, open |-> o, here |-> <<>>, lineNo |-> b.lineNo,
                     due |-> <<>>, width |-> 0, sound |-> b.sound, lastCr |-> FALSE]
    <3>1. /\ b.mode \in {"none", "blocks", "bare"} /\ b.mode # "none"
          /\ b.sound \in BOOLEAN /\ b.lineNo \in Nat
      BY DEF States
    <3>2. v \in States
      BY <1>1, <3>1 DEF States
    <3> QED
      BY <3>2
  <2>4. With(u) = o
    <3>1. o = [line |-> o.line, lines |-> o.lines]
      BY <1>1 DEF Messages
    <3>2. With(u) = [o EXCEPT !.lines = o.lines]
      BY <2>3 DEF With
    <3> QED
      BY <3>1, <3>2
  <2>5. EndDue(u) = Append(<<>>, o)
    BY <1>1, <2>3, <2>4 DEF EndDue
  <2>6. Closed(u)'
    BY <2>2, <2>3, <2>5 DEF Closed, AtEnd, written
  <2> QED
    BY <2>3, <2>6 DEF Fresh, o
<1>3. CASE \E c \in States : LineEndTo(lim, b, c) /\ Ahead(c) /\ LfSafe(c)
  <2>1. PICK c \in States : LineEndTo(lim, b, c) /\ Ahead(c) /\ LfSafe(c)
    BY <1>3
  <2>2. /\ c.here = <<>> /\ c.due = <<>> /\ c.mode = b.mode
        /\ c.lineNo = taken + 1 /\ c.width = 0
    BY <2>1 DEF LineEndTo
  <2>3. c.open = o
    BY <2>1 DEF LineEndTo, Further, o
  <2>4. Ahead(c)' /\ LfSafe(c)'
    BY <2>1, SameDone
  <2>5. Fresh(c)'
    BY <2>2, <2>4 DEF Fresh
  <2> QED
    BY <2>2, <2>3, <2>5 DEF o
<1> QED
  BY <1>2, <1>3 DEF Done

\* The framer keeps its place over a line that belongs to the message.
LEMMA FrameLineStep ==
  ASSUME Typed, Place, returned = wanted, pc = "frame", FrameLine, UNCHANGED Aside
  PROVE  Kept'
<1>1. PICK w : Stands(w, msg, has_block1, has_field20, began) /\ Whole(w, line)
  BY DEF Place
<1>2. PICK b \in States : Reach(setting.limit, w, line, b) /\ Done(b)
  BY <1>1 DEF Whole
<1>3. /\ FramerTyped /\ line \in Seq(Texts) /\ w.lineNo = taken
      /\ msg \in Seq(Seq(Texts)) /\ Here(msg) \in Nat
      /\ has_block1 \in BOOLEAN /\ has_field20 \in BOOLEAN
  BY <1>1 DEF Typed, FramerTyped, Good, Whole, Here
<1>4. /\ Belongs /\ pc' = "take"
      /\ has_block1' = (has_block1 \/ Blocks # {})
      /\ has_field20' = (has_field20 \/ IsReference)
      /\ began' = Here(msg) /\ msg' = Append(msg, line)
      /\ UNCHANGED <<pending, due, returned, wanted>>
  BY DEF FrameLine, answer, Begins, Here
<1>5. /\ b.here = line /\ b.due = <<>> /\ b.lineNo = taken /\ ~IsOver(b)
      /\ b.open = [line |-> Here(msg), lines |-> msg]
      /\ has_block1 \/ Blocks # {} => b.mode = "blocks"
      /\ ~has_block1 /\ Blocks = {} => b.mode = "bare" /\ (has_field20 \/ IsReference)
      /\ msg = <<>> => Trim(line) # <<>>
  BY <1>1, <1>2, <1>3, <1>4, BelongsRun
<1>6. b.open # Null
  <2>1. b.open \in Messages
    BY <1>3, <1>5 DEF Messages
  <2> QED
    BY <2>1, NullAssumption
<1>7. UNCHANGED <<written, due, buf, filled, taken>>
  BY <1>4 DEF Aside
<1>8. PICK u : /\ u \in States /\ u.here = <<>> /\ u.due = <<>> /\ u.mode = b.mode
               /\ u.open = Further(b) /\ Fresh(u)'
  BY <1>2, <1>5, <1>6, <1>7, LineBehind
<1>9. Stands(u, msg, has_block1, has_field20, began)'
  <2>1. msg' # <<>> /\ u.open = [line |-> began', lines |-> msg']
    <3> DEFINE q == Append(msg, line)
    <3>1. b.open.lines = msg
      BY <1>5
    <3>2. q # <<>> /\ msg' = q
      BY <1>3, <1>4
    <3>3. Further(b) = [b.open EXCEPT !.lines = q]
      BY <1>5, <3>1 DEF Further
    <3> HIDE DEF q
    <3>4. Further(b) = [line |-> Here(msg), lines |-> q]
      BY <1>5, <3>3
    <3> QED
      BY <1>4, <1>8, <3>2, <3>4
  <2>2. has_block1' => u.mode = "blocks"
    BY <1>4, <1>5, <1>8
  <2>3. ~has_block1' => u.mode = "bare" /\ has_field20'
    BY <1>4, <1>5, <1>8
  <2> QED
    BY <1>8, <2>1, <2>2, <2>3 DEF Stands
<1>10. HasText(msg)'
  <2>1. CASE msg = <<>>
    <3>1. 1 \in DOMAIN msg' /\ msg'[1] = line
      BY <1>3, <1>4, <2>1
    <3> QED
      BY <1>5, <2>1, <3>1 DEF HasText
  <2>2. CASE msg # <<>>
    <3>1. PICK i \in DOMAIN msg : Trim(msg[i]) # <<>>
      BY <2>2 DEF Place, HasText
    <3>2. i \in DOMAIN msg' /\ msg'[i] = msg[i]
      BY <1>3, <1>4, <3>1
    <3> QED
      BY <3>1, <3>2 DEF HasText
  <2> QED
    BY <2>1, <2>2
<1>11. (pending = Null)'
  BY <1>4 DEF Place
<1>12. Place'
  BY <1>4, <1>8, <1>9, <1>10, <1>11 DEF Place, Between
<1> QED
  BY <1>4, <1>12 DEF Kept

\* The framer keeps its place, whatever a line does to the message.
LEMMA FrameStep ==
  ASSUME IInv, Frame
  PROVE  Kept'
<1> SUFFICES ASSUME interrupts' = 0
             PROVE  Kept'
  BY DEF Kept
<1>1. pc = "frame" /\ UNCHANGED Aside /\ interrupts' = interrupts
  BY DEF Frame, Aside
<1>2. Typed /\ Place /\ returned = wanted
  BY <1>1 DEF IInv, Kept
<1>3. CASE FrameSeparator
  BY <1>1, <1>2, <1>3, FrameOverStep DEF FrameSeparator
<1>4. CASE FrameBoundary
  BY <1>1, <1>2, <1>4, FrameBoundaryStep
<1>5. CASE FrameReference
  BY <1>1, <1>2, <1>5, FrameReferenceStep
<1>6. CASE FramePreamble
  BY <1>1, <1>2, <1>6, FramePreambleStep
<1>7. CASE FrameBareEnd
  <2>1. EndsMessage /\ BareEnd /\ Boundary = 0 /\ ~NextReference /\ ~Preamble
    BY <1>7 DEF FrameBareEnd
  <2>2. msg # <<>>
    <3>1. line \in Seq(Texts) /\ has_block1 \in BOOLEAN
      BY <1>1, <1>2 DEF Typed, FramerTyped, Good
    <3>2. \A i \in 1 .. Len(line) : line[i] \in {"D", "w"}
      BY <2>1, <3>1, TrimSays DEF BareEnd
    <3>3. Blocks = {}
      BY <3>1, <3>2, BoundaryIs
    <3>4. ~IsReference
      <4>1. line # <<>> => 1 \in 1 .. Len(line)
        BY <3>1
      <4> QED
        BY <3>2, <4>1 DEF IsReference
    <3> QED
      BY <2>1, <3>3, <3>4 DEF Preamble
  <2> QED
    BY <1>1, <1>2, <2>1, <2>2, FrameOverStep
<1>8. CASE FrameTooLong
  BY <1>1, <1>2, <1>8, FrameTooLongStep
<1>9. CASE FrameLine
  BY <1>1, <1>2, <1>9, FrameLineStep
<1> QED
  BY <1>3, <1>4, <1>5, <1>6, <1>7, <1>8, <1>9 DEF Frame

-----------------------------------------------------------------------------
(* The framer finds out where messages begin and end.                      *)

\* The framer starts in its place.
LEMMA KeptAtStart == Init => Kept
<1> SUFFICES ASSUME Init
             PROVE  Kept
  OBVIOUS
<1> DEFINE lim == setting.limit
<1>1. /\ pc = "idle" /\ pending = Null /\ msg = <<>> /\ taken = 0
      /\ returned = Null /\ wanted = Null /\ ~ended
      /\ mode = "none" /\ open = Null /\ here = <<>> /\ lineNo = 1 /\ due = <<>>
      /\ sound = TRUE /\ lastCr = FALSE
      /\ buf \in {<<>>, <<"bom">>} /\ width = Len(buf)
  BY DEF Init, FileInit
<1>2. FileTyped
  BY TypedAtStart DEF Typed
<1>3. Reach(lim, Blank, buf, Now)
  <2> HIDE DEF lim
  <2>1. CASE buf = <<>>
    <3>1. Now = Blank
      BY <1>1, <2>1 DEF Now, Blank
    <3> QED
      BY <2>1, <3>1, BlankIs, ReachNone
  <2>2. CASE buf = <<"bom">>
    <3>1. width = 1
      BY <1>1, <2>2
    <3>2. MarkTo(Blank, Now)
      BY <1>1, <3>1 DEF Blank, Now, MarkTo
    <3>3. Now \in States /\ ByteTo(lim, Blank, "bom", Now)
      BY <1>2, <3>2, NowIs DEF ByteTo
    <3> QED
      BY <2>2, <3>3, BlankIs, ReachOne
  <2> QED
    BY <1>1, <2>1, <2>2
<1>4. Ahead(Blank)
  BY <1>1, <1>2, <1>3, NowIs DEF Ahead, Closes
<1>5. Fresh(Blank)
  BY <1>1, <1>4 DEF Fresh, LfSafe, Blank
<1>6. Place
  BY <1>1, <1>5, BlankIs DEF Place, Between
<1> QED
  BY <1>1, <1>6 DEF Kept

\* The framer keeps its place in every step.
LEMMA KeptStep ==
  ASSUME IInv, [Next]_vars
  PROVE  Kept'
<1>1. CASE Call \/ TakePending \/ TakeLine
  BY <1>1, BetweenStep
<1>2. CASE Waiting
  BY <1>2, WaitingStep
<1>3. CASE LineGoesOn
  BY <1>3, LineGoesOnStep
<1>4. CASE LineEnds
  BY <1>4, LineEndsStep
<1>5. CASE LineTooLong
  BY <1>5, LineTooLongStep
<1>6. CASE SkipLf
  BY <1>6, SkipLfStep
<1>7. CASE SkipInterrupted
  <2>1. interrupts \in Nat /\ interrupts' = interrupts + 1
    BY <1>7 DEF IInv, Typed, FramerTyped, SkipInterrupted
  <2>2. interrupts' # 0
    BY <2>1
  <2> QED
    BY <2>2 DEF Kept
<1>8. CASE LastLine
  BY <1>8, LastLineStep
<1>9. CASE Frame
  BY <1>9, FrameStep
<1>10. CASE FileEnds
  BY <1>10, FileEndsStep
<1>11. CASE UNCHANGED vars
  BY <1>11 DEF IInv, Kept, Place, Stands, Filling, Returned, Whole, Between, Fresh,
               Done, Closed, LfSafe, AtEnd, Ahead, Closes, Now, EndDue, HasText,
               vars, fileVars, framerVars
<1> QED
  BY <1>1, <1>2, <1>3, <1>4, <1>5, <1>6, <1>7, <1>8, <1>9, <1>10, <1>11 DEF Next, Over

\* The types, the bounds and the place of the framer hold in every state.
THEOREM InvHolds == Spec => []IInv
<1>1. Init => IInv
  BY TypedAtStart, HeldAtStart, KeptAtStart DEF IInv
<1>2. IInv /\ [Next]_vars => IInv'
  BY TypedStep, HeldStep, KeptStep DEF IInv
<1> QED
  BY <1>1, <1>2, PTL DEF Spec

\* Whatever the line ends, separators and glue, and wherever the reads cut the
\* file, next_message returns the messages of the file, in order, and all of them
\* (FramedAsWritten of MtFramer).
THEOREM FramedHolds == Spec => []FramedAsWritten
<1>1. IInv => FramedAsWritten
  BY DEF IInv, Kept, FramedAsWritten
<1> QED
  BY <1>1, InvHolds, PTL

\* A file is refused for a cause only, and what is returned of it is UTF-8
\* (RefusedForCause of MtFramer).
THEOREM CauseHolds == Spec => []RefusedForCause
<1>1. IInv => RefusedForCause
  <2> SUFFICES ASSUME IInv
               PROVE  RefusedForCause
    OBVIOUS
  <2>1. pc = "failed" /\ interrupts = 0 => ~sound
    BY DEF IInv, Kept
  <2>2. ASSUME returned # Null, NEW i \in DOMAIN returned.lines,
               NEW j \in DOMAIN returned.lines[i]
        PROVE  returned.lines[i][j] # "x"
    <3>1. returned.lines \in Seq(Seq(Good))
      BY <2>2 DEF IInv, Typed, FramerTyped
    <3>2. returned.lines[i] \in Seq(Good)
      BY <2>2, <3>1
    <3> QED
      BY <2>2, <3>2 DEF Good
  <2> QED
    BY <2>1, <2>2 DEF RefusedForCause
<1> QED
  BY <1>1, InvHolds, PTL
=============================================================================
