------------------------------ MODULE MCOpening ------------------------------
(***************************************************************************)
(* Files and calls for Opening.  One kind of session calls each kind of    *)
(* function on one file of any form: containers as their writers make them *)
(* and cut them off, what only looks like one, and messages around it all. *)
(* The other kind calls them with any two arguments, on disks with names   *)
(* that look like patterns, a folder, a pipe, and files of every kind.     *)
(***************************************************************************)
EXTENDS Opening

SomeTarChecksum == <<11, 16>>
SomeTarSize == <<5, 10>>

Content(form, head, family) ==
  [form |-> form, head |-> head, family |-> family, late |-> Null,
   messages |-> {family} \ {Null}, harm |-> Null, bad |-> {}, declares |-> FALSE]

Quoted(word) == <<39>> \o word \o <<39>>
Letter == 120

UpTo2(S) == {<<>>} \cup {<<a>> : a \in S} \cup {<<a, b>> : a, b \in S}
Joined(S) == {FlattenSeq(p) : p \in UpTo2(S)}

-----------------------------------------------------------------------------
(* XML: a prolog, a root, and in the document what other formats start     *)
(* with.                                                                   *)

Inside ==
  <<Gt, Letter, LF, FieldRef, BasicHeader, MimeType, LF, Armors.pgp, Lt, EbicsName,
    Xmlns, Equals, 39, EbicsNamespace, 39, Gt, CloseTag>>

Prologs ==
  Joined({<<SP, LF>>,
          <<PiOpen, Letter, Lt, PiClose>>,
          <<CommentOpen, Lt, EbicsName, 39, Gt, Brackets[1], CommentClose>>,
          <<Declares, Letter, Gt>>,
          <<Declares, Letter, Brackets[1], Declares, Letter, Gt, CommentOpen, Lt,
            CommentClose, Brackets[2], SP, Gt>>})

Attributes ==
  {<<SP, Xmlns, Equals>> \o Quoted(<<EbicsNamespace>>),
   <<SP, Letter>>,
   <<LF, Xmlns, SP, Equals, SP>> \o Quoted(<<OtherNamespace, Slash>>),
   <<SP, Letter, Equals>> \o Quoted(<<EbicsNamespace>>),
   <<SP, Letter, Equals, 34, 39, Gt, Slash, Xmlns, Equals, 39, EbicsNamespace, 34>>}

RootNames == {<<EbicsName>>, <<OtherName>>, <<Letter, Colon, EbicsName>>,
              <<EbicsName, Colon, OtherName>>, <<OtherName, EbicsName>>}

IsOfEbics(name, attributes) ==
  /\ name \in {<<EbicsName>>, <<Letter, Colon, EbicsName>>}
  /\ \E i \in 1..Len(attributes) - 3 :
       attributes[i] = Xmlns /\ attributes[i + 1] = Equals
       /\ attributes[i + 2] = 39 /\ attributes[i + 3] = EbicsNamespace
       /\ ~\E j \in 1..i : attributes[j] = 34 /\ 34 \in Range(SubSeq(attributes, i, Len(attributes)))

Document(prolog, name, attributes, end) ==
  LET ebics == IsOfEbics(name, attributes)
  IN  Content(IF ebics THEN "EBICS" ELSE "XML",
              prolog \o <<Lt>> \o name \o attributes \o end \o Inside,
              IF ebics THEN Null ELSE "camt.053")

Documents ==
  {Document(<<>>, n, a, e) :
     n \in RootNames, a \in Joined(Attributes), e \in {<<>>, <<Slash>>, <<SP>>}}
  \cup
  {Document(b \o p, n, a, <<>>) :
     b \in {<<>>, <<Bom>>}, p \in Prologs, n \in {<<EbicsName>>, <<OtherName>>},
     a \in {<<>>, <<SP, Xmlns, Equals>> \o Quoted(<<EbicsNamespace>>)}}

-----------------------------------------------------------------------------
(* SWIFT MT, and text that is nothing.                                     *)

Preambles == {<<>>, <<Bom>>, <<Letter, LF>>, <<Letter, CR>>, <<Bom, Letter, CR, LF>>}

Statements ==
  {Content("MT", p \o <<m, Letter, Lt, LF, FieldRef>>, "mt.940") :
     p \in Preambles, m \in {FieldRef, BasicHeader}}
  \cup {Content("MT behind markup", <<Letter, Lt, LF, FieldRef, Letter>>, "mt.940")}

Texts ==
  {Content("not XML", t, Null) :
     t \in {<<>>, <<Letter>>, <<Letter, FieldRef>>, <<Bom, Letter, FieldRef>>,
            <<Letter, LF, Armors.pgp>>, <<HeaderName, SP, MimeType>>,
            <<HeaderName, Colon, Letter, CR, LF, CR, LF, MimeType>>,
            <<HeaderName, Colon, Letter, LF, LF, MimeType>>,
            <<Letter, Armors.cms>>}}

-----------------------------------------------------------------------------
(* Containers.                                                             *)

Zips == {Content("ZIP", z \o <<FieldRef, Lt>>, Null) : z \in ZipSignatures}

Digits(n, count) ==
  [i \in 1..count |-> 48 + ((n \div 8 ^ (count - i)) % 8)]

\* A header as a writer makes it, which sums its bytes signed or unsigned.
TarHeader(name, size, flag, rest, signed) ==
  LET blank == name \o size \o [i \in 1..6 |-> SP] \o <<flag>> \o rest
  IN  name \o size \o Digits(TarSum(blank, signed), 5) \o <<NUL>> \o <<flag>> \o rest

TarHeaders ==
  {TarHeader(n, z, f, r, signed) :
     n \in {<<Letter, Letter, NUL, NUL>>, <<195, 164, Letter, NUL>>},
     z \in {<<48, 48, 48, 55, 49, NUL>>, <<SP, SP, 55, 49, SP, NUL>>,
            <<128, 0, 0, 0, 1, 0>>},
     f \in {NUL, 48, 120},
     r \in {<<0, 0, 0, 0>>, <<117, 115, 0, 252>>},
     signed \in BOOLEAN}

\* One byte changed after the sum was written, or the block cut.
Tars ==
  {Content("TAR", h \o <<Lt, OtherName, Gt>>, Null) : h \in TarHeaders}
  \cup {Content("XML", [h EXCEPT ![i] = IF @ = 49 THEN 50 ELSE 49] \o <<Lt>>, Null) :
          h \in TarHeaders, i \in {1, 2, 10, 17}}
  \cup {Content("not XML", SubSeq(h, 1, TarBlock - 1), Null) : h \in TarHeaders}

Lengths(n) == {<<n>>, <<129, n>>, <<130, 0, n>>, <<132, 0, 0, 0, n>>}
Clamped == {<<127>>, <<128>>, <<130, 255, 255>>, <<132, 255, 255, 255, 255>>}

Der(outer, inner, oid) ==
  <<48>> \o outer \o <<6>> \o inner \o oid \o <<160, 128, 2, 1>>

Ders ==
  {Content("PKCS7", Der(l, i, CmsArc \o <<3>>), Null) :
     l \in Lengths(18) \cup Clamped, i \in Lengths(9)}
  \cup {Content("not XML", d, Null) :
     d \in {Der(<<18>>, <<8>>, CmsArc), Der(<<18>>, <<9>>, Front(CmsArc) \o <<1, 11>>),
            <<48, 128>> \o Der(<<18>>, <<9>>, CmsArc \o <<3>>),
            <<49>> \o Tail(Der(<<18>>, <<9>>, CmsArc \o <<3>>)),
            Der(<<5>>, <<9>>, CmsArc \o <<3>>),
            Der(<<133, 0, 0, 0, 0, 18>>, <<9>>, CmsArc \o <<3>>),
            <<48>>, <<48, 130, 1>>, <<48, 128>>, <<48, 3, 6>>}}

Armored ==
  {Content(f.form, p \o <<f.word, LF>>, Null) :
     p \in {<<>>, <<Bom>>, <<LF, SP>>},
     f \in {[form |-> "PKCS7", word |-> Armors.pkcs7],
            [form |-> "PKCS7", word |-> Armors.cms],
            [form |-> "PGP", word |-> Armors.pgp]}}
  \cup {Content("PKCS7", <<HeaderName, Colon, Letter, LF, HeaderName, Colon, SP, MimeType>>
                           \o e \o <<Letter>>, Null) :
          e \in {<<CR, LF, CR, LF>>, <<LF, LF>>, <<CR, LF>>}}

\* A packet in the format of a first byte: the bytes of its length, and a body.
Packet(first, length, body) == <<first>> \o length \o body
Body(version, n) == <<version>> \o [i \in 1..n - 1 |-> Letter]

Keys ==
  {Packet(193, l, Body(3, 3)) : l \in {<<3>>, <<255, 0, 0, 0, 3>>}} \cup
  {Packet(193, <<192, 8>>, Body(6, 200))} \cup
  {Packet(132, <<3>>, Body(3, 3)), Packet(133, <<0, 3>>, Body(3, 3)),
   Packet(134, <<0, 0, 0, 3>>, Body(6, 3)), Packet(195, <<3>>, Body(4, 3))}

Encrypted == {Packet(210, <<230>>, Body(1, 2)), Packet(210, <<255, 0, 0, 1, 0>>, Body(2, 2)),
              Packet(210, <<200, 9>>, Body(1, 1))}
Legacy == {Packet(164, <<9>>, <<Letter>>), Packet(167, <<>>, <<Letter>>),
           Packet(201, <<9>>, <<Letter>>)}
NoKeys ==
  {Packet(193, <<3>>, Body(4, 3)), Packet(195, <<3>>, Body(3, 3)),
   Packet(193, <<230>>, Body(3, 3)), Packet(203, <<3>>, Body(3, 3)),
   Packet(193, <<2>>, Body(3, 3)), Packet(193, <<>>, <<>>), Packet(193, <<192>>, <<>>),
   Packet(193, <<9>>, Body(3, 3))}

Pgps ==
  {Content("PGP", e, Null) : e \in Encrypted}
  \cup {Content("PGP", k \o e, Null) : k \in Keys, e \in Encrypted \cup Legacy}
  \cup {Content("PGP", k \o l \o e, Null) :
          k \in Keys, l \in Keys, e \in {<<210, 9, 1>>}}
  \cup {Content("not XML", n \o e, Null) : n \in NoKeys, e \in Encrypted \cup Legacy}
  \cup {Content("not XML", e, Null) : e \in Legacy \cup Keys}
  \cup {Content("not XML", <<210, 9, v>>, Null) : v \in {0, 3}}

Forms == Documents \cup Statements \cup Texts \cup Zips \cup Tars \cup Ders
         \cup Armored \cup Pgps

-----------------------------------------------------------------------------
(* Calls.                                                                  *)

SomeNames == <<"a1.xml", "a[.xml", "a[1].xml", "b.xml", "dir", "pipe">>

SomeGlob(p) ==
  CASE p = "*"         -> Range(SomeNames)
    [] p = "a*"        -> {"a1.xml", "a[.xml", "a[1].xml"}
    [] p = "a[1].xml"  -> {"a1.xml"}
    [] p = "a[.xml"    -> Null
    [] OTHER           -> {p}

SomeRemote == {"s3://b/x"}
SomeNoPaths == {"NULL", "42"}

Functions == {"sniff_iso20022", "audit_addresses", "iso20022", "camt_balances",
              "mt.940", "pacs.008"}

None == [kind |-> "none", content |-> Null, movable |-> FALSE]
Held(kind, c) == [None EXCEPT !.kind = kind, !.content = c]

Disk(a1, b, pipe) ==
  [n \in Range(SomeNames) |->
     CASE n = "a1.xml" -> a1 [] n = "b.xml" -> b [] n = "pipe" -> pipe
       [] n = "dir" -> [None EXCEPT !.kind = "folder"]
       [] OTHER -> Held("file", Content("XML", <<Lt>>, "camt.053"))]

Xml == Content("XML", <<Lt>>, "camt.053")

\* One envelope for several readers, one of which meets a value it cannot read.
Mixed ==
  [Xml EXCEPT !.family = "pacs.008", !.messages = {"pacs.008", "camt.053"},
              !.bad = {"iso20022"}]

\* What a file may hold that is read beside others, and that is read alone.
Beside ==
  {Xml, Mixed, Content("MT", <<FieldRef>>, "mt.940"),
   Content("ZIP", <<80, 75, 3, 4, Lt>>, Null), [Xml EXCEPT !.harm = "utf8"],
   [Xml EXCEPT !.family = Null, !.late = "camt.053", !.bad = {"camt_balances"}]}

Alone ==
  Beside \cup
  {Content("XML", <<Lt>>, "pacs.008"), Content("XML", <<Lt>>, "camt.060"),
   [Xml EXCEPT !.harm = "malformed"], [Xml EXCEPT !.harm = "encoding"],
   [Xml EXCEPT !.harm = "utf8", !.declares = TRUE],
   [Xml EXCEPT !.bad = {"iso20022"}], [Xml EXCEPT !.bad = {"iso20022"}, !.harm = "utf8"],
   [Content("MT", <<FieldRef>>, "mt.940") EXCEPT !.messages = {"mt.940", "mt.103"},
                                                 !.bad = {"mt.940"}],
   \* An envelope that declares the namespace of a message it does not carry.
   [Xml EXCEPT !.messages = {"pacs.008"}]}

Kept(args) == IF Len(args) = 1 THEN Alone ELSE Beside

Arguments ==
  UpTo2({"*", "a*", "b.xml", "a[.xml", "a[1].xml", "dir", "pipe", "x.xml",
         "s3://b/x", "NULL"})

\* What a name may hold, if the arguments reach it.
Varied(args, reaching, some, one) ==
  IF Range(args) \cap (reaching \cup {"*"}) # {} THEN some ELSE {one}

Firsts == {None, Held("file", Xml), Held("file", Content("XML", <<Lt>>, "pacs.008"))}
Piped == {Xml, [Xml EXCEPT !.harm = "utf8"]}

SomeSessions ==
  {[disk |-> Disk(None, Held("file", c), None),
    call |-> [fname |-> f, args |-> <<"b.xml">>]] :
     c \in Forms, f \in Functions \ {"camt_balances"}}
  \cup
  {[disk |-> Disk(a1, [Held("file", b) EXCEPT !.movable = TRUE], Held("pipe", p)),
    call |-> [fname |-> f, args |-> args]] :
     f \in Functions,
     <<args, a1, b, p>> \in
       UNION {{args} \X Varied(args, {"a*", "a[1].xml"}, Firsts, Held("file", Xml))
                     \X Varied(args, {"b.xml"}, Kept(args), Xml)
                     \X Varied(args, {"pipe"}, Piped, Xml) : args \in Arguments}}
=============================================================================
