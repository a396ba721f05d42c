------------------------------ MODULE FileShape ------------------------------
(***************************************************************************)
(* What the first bytes of a file say it is: a transport container, SWIFT  *)
(* MT, XML, or none of these (src/container.rs, detect; src/sniff.rs,      *)
(* shape_of), and which shapes the guards of src/lib.rs let through.       *)
(*                                                                         *)
(* A prefix is a sequence of symbols: the numbers below 256 are bytes, the *)
(* larger ones words whose spelling nothing here looks into.               *)
(***************************************************************************)
EXTENDS Identity, SequencesExt

CONSTANTS
  TarBlock,    \* TAR_BLOCK
  TarChecksum, \* first and last byte of TAR_CHECKSUM, from 1
  TarSize,     \* of TAR_SIZE
  TarTypeFlag  \* TAR_TYPE_FLAG

ASSUME TarAssumption ==
  /\ TarChecksum[1] <= TarChecksum[2] /\ TarSize[1] <= TarSize[2]
  /\ {TarChecksum[2], TarSize[2], TarTypeFlag} \subseteq 1..TarBlock

NUL == 0
LF == 10
CR == 13
SP == 32
Slash == 47
Colon == 58
Lt == 60
Equals == 61
Gt == 62
Brackets == <<91, 93>>
Quotes == {34, 39}
Bom == 256            \* EF BB BF
FieldRef == 257       \* :20:
BasicHeader == 258    \* {1:
Armors == [pkcs7 |-> 259, cms |-> 260, pgp |-> 261]
HeaderName == 262     \* Content-Type
MimeType == 263       \* application/pkcs7-mime, in any case
CommentOpen == 264    \* <!--
CommentClose == 265   \* -->
PiOpen == 266         \* <?
PiClose == 267        \* ?>
Declares == 268       \* <!
CloseTag == 269       \* </
EbicsName == 270      \* ebicsRequest
OtherName == 271      \* Document
Xmlns == 272          \* xmlns, or xmlns: and a prefix
EbicsNamespace == 273 \* urn:org:ebics:...
OtherNamespace == 274

Markup == {Lt, CommentOpen, PiOpen, Declares, CloseTag}
TagEnds == {Gt, CommentClose, PiClose}
Spaces == {9, LF, 12, CR, SP}
Alphanumeric == (48..57) \cup (65..90) \cup (97..122) \cup {45, HeaderName, OtherName}

-----------------------------------------------------------------------------
(* A place that is not found is the one past the end.                      *)

\* The first place from at on that holds a symbol of S, or one outside it.
FirstIn(s, at, S) == Min({Len(s) + 1} \cup {i \in at..Len(s) : s[i] \in S})
FirstOut(s, at, S) == Min({Len(s) + 1} \cup {i \in at..Len(s) : s[i] \notin S})

Found(s, at) == at <= Len(s)

StartsAt(s, at, word) == at + Len(word) - 1 <= Len(s)
                         /\ SubSeq(s, at, at + Len(word) - 1) = word

Find(s, word) ==
  Min({Len(s) + 1} \cup {i \in DOMAIN s : StartsAt(s, i, word)})

\* A number of some bytes, the first the highest.  No number past the prefix is
\* told from another: all are clamped to it.
Number(s, bytes) ==
  FoldLeft(LAMBDA n, b : Min({n * 256 + b, Len(s) + 1}), 0, bytes)

-----------------------------------------------------------------------------
(* ZIP and TAR.                                                            *)

ZipSignatures ==
  {<<80, 75, 3, 4>>, <<80, 75, 5, 6>>, <<80, 75, 7, 8>>, <<80, 75, 6, 6>>,
   <<80, 75, 6, 7>>, <<80, 75, 48, 48>>}

IsZip(s) == \E signature \in ZipSignatures : StartsAt(s, 1, signature)

Octal == 48..55

\* Spaces, octal digits, and padding to the end; or no number.
TarOctal(field) ==
  LET from == FirstOut(field, 1, {SP})
      stop == FirstOut(field, from, Octal)
  IN  IF from = stop \/ FirstOut(field, stop, {NUL, SP}) <= Len(field) THEN Null
      ELSE FoldLeft(LAMBDA n, digit : n * 8 + digit - 48, 0,
                    SubSeq(field, from, stop - 1))

\* The checksum field counts as spaces; a byte may have been summed signed.
TarSum(header, signed) ==
  FoldLeft(+, 0,
    [i \in 1..TarBlock |->
       CASE i \in TarChecksum[1]..TarChecksum[2] -> SP
         [] i \notin TarChecksum[1]..TarChecksum[2] /\ signed /\ header[i] >= 128 ->
              header[i] - 256
         [] OTHER -> header[i]])

TarFlags == {0} \cup Octal \cup {120, 103, 76, 75, 83, 86, 77, 68, 78}

Part(s, range) == SubSeq(s, range[1], range[2])

\* Mutant: writers sum their bytes unsigned.
IsTarUnsigned(s) ==
  /\ Len(s) >= TarBlock /\ s[1] # NUL /\ s[TarTypeFlag] \in TarFlags
  /\ s[TarSize[1]] >= 128 \/ TarOctal(Part(s, TarSize)) # Null
  /\ TarOctal(Part(s, TarChecksum)) = TarSum(s, FALSE)

\* A whole first block that states its own sum, in either way of summing.
IsTar(s) ==
  /\ Len(s) >= TarBlock /\ s[1] # NUL /\ s[TarTypeFlag] \in TarFlags
  /\ s[TarSize[1]] >= 128 \/ TarOctal(Part(s, TarSize)) # Null
  /\ TarOctal(Part(s, TarChecksum)) # Null
  /\ TarOctal(Part(s, TarChecksum)) \in {TarSum(s, FALSE), TarSum(s, TRUE)}

-----------------------------------------------------------------------------
(* PKCS#7: armor, a MIME header, or a DER ContentInfo.                     *)

\* Past a byte order mark and blank space, the word opens the file.
OpensWith(s, word) ==
  LET from == IF s # <<>> /\ s[1] = Bom THEN 2 ELSE 1
      at == FirstOut(s, from, Spaces)
  IN  Found(s, at) /\ s[at] = word

\* The header block, if the first line is a header field: up to the blank line.
MimeHeaders(s) ==
  LET at == FirstOut(s, 1, Alphanumeric)
      crlf == Find(s, <<CR, LF, CR, LF>>)
      lf == Find(s, <<LF, LF>>)
  IN  IF at = 1 \/ ~Found(s, at) \/ s[at] \notin {Colon, FieldRef} THEN <<>>
      ELSE SubSeq(s, 1, (IF Found(s, crlf) THEN crlf ELSE lf) - 1)

\* The contents of the leading element if it carries the tag, as far as the
\* prefix holds them; or Null.
Tagged(s, tag) ==
  LET n == s[2]
      count == IF n <= 128 THEN 0 ELSE n % 128
      from == 3 + count
      len == CASE n < 128 -> n
               [] n = 128 -> Len(s) - 2
               [] OTHER   -> Number(s, SubSeq(s, 3, 2 + count))
  IN  CASE Len(s) < 2                           -> Null
        [] s[1] # tag                           -> Null
        [] count > 4 \/ from - 1 > Len(s)       -> Null
        [] OTHER -> SubSeq(s, from, Min({from + len - 1, Len(s)}))

CmsArc == <<42, 134, 72, 134, 247, 13, 1, 7>>

\* A sequence whose first child is an identifier under the arc.
IsContentInfo(s) ==
  LET body == Tagged(s, 48)
      oid == Tagged(body, 6)
  IN  /\ body # Null
      /\ oid # Null
      /\ Len(oid) > Len(CmsArc) /\ StartsAt(oid, 1, CmsArc)

IsPkcs7(s) ==
  \/ OpensWith(s, Armors.pkcs7) \/ OpensWith(s, Armors.cms)
  \/ MimeType \in Range(MimeHeaders(s))
  \/ IsContentInfo(s)

-----------------------------------------------------------------------------
(* OpenPGP.                                                                *)

PKESK == 1
SKESK == 3
SED == 9
SEIPD == 18

(* A header: its tag, where its body starts, and how long the body is,     *)
(* which is Null for a partial or indeterminate length.  Null: none.       *)

Header(s, tag, body, length) ==
  IF body - 1 > Len(s) THEN Null
  ELSE [tag |-> tag, body |-> body,
        length |-> IF length = <<>> THEN Null ELSE Number(s, length)]

\* Four bits of tag, and the width of the length.
OldHeader(s, at) ==
  LET width == <<1, 2, 4, 0>>[(s[at] % 4) + 1]
  IN  Header(s, (s[at] \div 4) % 16, at + 1 + width,
             SubSeq(s, at + 1, at + width))

\* Six bits, and a length whose first byte says how it is written.
NewHeader(s, at) ==
  LET tag == s[at] % 64
      n == s[at + 1]
      long == (n - 192) * 256 + s[at + 2] + 192
  IN  CASE ~Found(s, at + 1) -> Null
        [] Found(s, at + 1) /\ n <= 191 -> Header(s, tag, at + 2, <<n>>)
        [] Found(s, at + 1) /\ n \in 192..223 ->
             IF ~Found(s, at + 2) THEN Null
             ELSE Header(s, tag, at + 3, <<long \div 256, long % 256>>)
        [] Found(s, at + 1) /\ n \in 224..254 -> Header(s, tag, at + 2, <<>>)
        [] OTHER -> Header(s, tag, at + 6, SubSeq(s, at + 2, at + 5))

PgpHeader(s, at) ==
  IF ~Found(s, at) \/ s[at] \notin 128..255 THEN Null
  ELSE IF s[at] < 192 THEN OldHeader(s, at) ELSE NewHeader(s, at)

Versions == [t \in {PKESK, SKESK} |-> IF t = PKESK THEN {3, 6} ELSE 4..6]

\* Session keys, each with a length to step over, and then encrypted data.
PgpPackets(s) ==
  LET chain[at \in 1..Len(s) + 1, keyed \in BOOLEAN] ==
        LET packet == PgpHeader(s, at)
            version == IF packet.body <= Len(s) THEN s[packet.body] ELSE Null
            next == packet.body + packet.length
        IN  CASE packet = Null -> FALSE
              [] packet.tag \in {PKESK, SKESK} ->
                   /\ packet.length # Null /\ version # Null
                   /\ version \in Versions[packet.tag]
                   /\ next <= Len(s) /\ chain[next, TRUE]
              [] packet.tag = SED   -> keyed
              [] packet.tag = SEIPD -> version # Null /\ version \in {1, 2}
              [] OTHER -> FALSE
  IN  chain[1, FALSE]

IsPgp(s) == OpensWith(s, Armors.pgp) \/ PgpPackets(s)

-----------------------------------------------------------------------------
(* EBICS.                                                                  *)

\* The end of the start tag at a place: the first > outside a value.
TagEnd(s, at) ==
  LET scan == FoldLeft(
        LAMBDA a, i :
          CASE Found(s, a.end)    -> a
            [] a.quote = s[i]     -> [a EXCEPT !.quote = Null]
            [] a.quote # Null     -> a
            [] s[i] \in Quotes    -> [a EXCEPT !.quote = s[i]]
            [] s[i] \in TagEnds   -> [a EXCEPT !.end = i]
            [] OTHER              -> a,
        [quote |-> Null, end |-> Len(s) + 1], [j \in 1..Len(s) - at |-> at + j])
  IN  scan.end

\* The > that closes a doctype, outside the brackets of its subset.
DoctypeEnd(s, at) ==
  LET scan == FoldLeft(
        LAMBDA a, i :
          CASE Found(s, a.end)  -> a
            [] s[i] = Brackets[1] -> [a EXCEPT !.depth = @ + 1]
            [] s[i] = Brackets[2] -> [a EXCEPT !.depth = Max({0, @ - 1})]
            [] s[i] \in TagEnds /\ a.depth = 0 -> [a EXCEPT !.end = i]
            [] OTHER            -> a,
        [depth |-> 0, end |-> Len(s) + 1], [j \in 1..Len(s) - at |-> at + j])
  IN  scan.end

\* The first start tag, without its angle brackets; or Null.  Comments,
\* instructions and a doctype are stepped over.
RootStartTag(s) ==
  LET from[at \in 1..Len(s) + 1] ==
        LET lt == FirstIn(s, at, Markup)
            end == CASE s[lt] = CommentOpen -> FirstIn(s, lt + 1, {CommentClose})
                     [] s[lt] = PiOpen      -> FirstIn(s, lt + 1, {PiClose})
                     [] s[lt] = Declares    -> DoctypeEnd(s, lt)
                     [] OTHER               -> TagEnd(s, lt)
        IN  IF ~Found(s, lt) \/ s[lt] = CloseTag \/ ~Found(s, end) THEN Null
            ELSE IF s[lt] = Lt THEN SubSeq(s, lt + 1, end - 1)
            ELSE from[end + 1]
  IN  from[1]

\* Attribute by attribute: one that is no namespace declaration binds nothing.
BindsEbics(a) ==
  LET from[at \in 1..Len(a) + 2] ==
        LET name  == FirstOut(a, at, Spaces \cup {Slash})
            eq    == FirstOut(a, FirstIn(a, name, Spaces \cup {Equals}), Spaces)
            quote == FirstOut(a, eq + 1, Spaces)
            close == FirstIn(a, quote + 1, {a[quote]})
        IN  /\ Found(a, name) /\ a[name] # Equals /\ Found(a, eq)
            /\ IF a[eq] # Equals THEN from[eq]
               ELSE /\ Found(a, quote) /\ a[quote] \in Quotes
                    /\ \/ a[name] = Xmlns /\ StartsAt(a, quote + 1, <<EbicsNamespace>>)
                       \/ from[close + 1]
  IN  from[1]

\* A tag with an ebics name, whatever its prefix, that binds the namespace.
OpensEbics(tag) ==
  LET len == FirstIn(tag, 1, Spaces \cup {Slash}) - 1
      local == Max({0} \cup {i \in 1..len : tag[i] = Colon}) + 1
  IN  /\ local <= len /\ tag[local] = EbicsName
      /\ BindsEbics(SubSeq(tag, len + 1, Len(tag)))

IsEbics(s) == OpensEbics(Some(RootStartTag(s), <<>>))

-----------------------------------------------------------------------------
(* The shape, and the guards.                                              *)

Kinds == {"ZIP", "TAR", "PKCS7", "PGP", "EBICS"}

Detect(s) ==
  FirstOf(<<IF IsZip(s) THEN "ZIP" ELSE Null,   IF IsTar(s) THEN "TAR" ELSE Null,
            IF IsPkcs7(s) THEN "PKCS7" ELSE Null, IF IsPgp(s) THEN "PGP" ELSE Null,
            IF IsEbics(s) THEN "EBICS" ELSE Null>>)

\* A :20: that opens a line, however the line before it ended.
Field20(s) ==
  Min({Len(s) + 1} \cup
      {i \in DOMAIN s : /\ s[i] = FieldRef
                        /\ i = 1 \/ s[i - 1] \in {LF, CR} \/ (i = 2 /\ s[1] = Bom)})

MtMark(s) == Min({Field20(s), FirstIn(s, 1, {BasicHeader})})

\* A container first; then whichever marker comes first.
ShapeOf(s) ==
  LET markup == FirstIn(s, 1, Markup)
  IN  Some(Detect(s), CASE MtMark(s) < markup -> "MT"
                        [] MtMark(s) = markup -> "not XML"
                        [] MtMark(s) > markup -> "XML")

\* Which shapes the guard of a function lets through: the sniffer judges the
\* shape itself, the audit reads both formats, and a framer knows better than a
\* prefix what it can read.
Admits(fname) ==
  CASE fname = "sniff_iso20022" -> Kinds \cup {"MT", "XML", "not XML"}
    [] fname = "audit_addresses" -> {"MT", "XML"}
    [] fname \in MtRead          -> {"MT", "XML", "not XML"}
    [] OTHER -> {"XML"}
=============================================================================
