----------------------------- MODULE MCMtReaders -----------------------------
(***************************************************************************)
(* Finite instances of MtInventory for TLC.                                  *)
(***************************************************************************)
EXTENDS MtInventory

CONSTANTS null, MaxLines

Mail(type, block1, body) == [type |-> type, block1 |-> block1, body |-> body]

-----------------------------------------------------------------------------
(* Statements: lines.                                                      *)

Kinds == {"60", "60x", "61", "61x", "62", "34F", "34Fx", "90", "86", "more",
          "blank", "end"}

\* Lines that tell the walks apart.
WalkKinds == {"60", "61", "62", "90", "86", "more", "end"}

\* One statement of a type, with any body.
AnyBody(type) ==
  {<<Mail(type, TRUE, body)>> : body \in BoundedSeq(WalkKinds, MaxLines)}

\* Several messages: of this type and others, with and without blocks, an ACK.
Senders == {<<"940", TRUE>>, <<"942", TRUE>>, <<Null, TRUE>>, <<Null, FALSE>>}

Sample(lines) ==
  {Mail(s[1], s[2], body) : s \in Senders, body \in BoundedSeq(Kinds, lines)}

SomeStatements == {<<>>} \union {<<a, b>> : a \in Sample(2), b \in Sample(1)}

-----------------------------------------------------------------------------
(* Payments: fields.                                                       *)

Whole == {"id", "account"}

F(tag, number, says, sound) ==
  [tag |-> tag, number |-> number, says |-> says, sound |-> sound]

Plain(tag, number) == F(tag, number, {}, TRUE)

Amount(tag, number) == {F(tag, number, {}, ok) : ok \in BOOLEAN}

\* A party that states all of itself, half of it, or nothing.
Party(tag, number) ==
  {F(tag, number, says, TRUE) : says \in {Whole, {"account"}, {}}}

\* Nothing, or one of a set.
Maybe(fields) == {<<>>} \cup {<<f>> : f \in fields}

Join(as, bs) == {a \o b : a \in as, b \in bs}

\* The fields of a sequence, with the sequence they are of.
Of(part, parts) ==
  {[i \in DOMAIN p |-> p[i] @@ ("of" :> part)] : p \in parts}

Reference(namesake) ==
  {<<Plain("21", "21")>>, <<Plain("21", "21"), Plain(namesake, "21")>>}

States(tag, number) == {<<f>> : f \in Amount(tag, number)}

\* What an MT101, or an MT104, may say once for all or in each transaction.
Shared101 ==
  Maybe(Party("50F", "50") \cup Party("52A", "52"))
  \cup {<<F("50C", "50", {"id"}, TRUE), F("50H", "50", Whole, TRUE)>>}

Shared104 ==
  Maybe(Party("50K", "50") \cup {F("52A", "52", Whole, TRUE)}
        \cup {Plain("21E", "21"), Plain("71A", "71")})
  \cup {<<F("50C", "50", {"id"}, TRUE), F("50A", "50", Whole, TRUE)>>}

Header(shared) == shared \cup {<<Plain("21R", "21")>>}

Tx(namesake, shared, charges) ==
  Join(Join(Reference(namesake), States("32B", "32")), Join(shared, charges))

\* A transaction of a longer batch.
Simple(namesake) ==
  Join(Reference(namesake),
       Join({<<F("32B", "32", {}, TRUE)>>},
            Maybe({F("52D", "52", Whole, TRUE)})))

Charges == {<<>>, <<Plain("71F", "71")>>}

\* The batch total, with the sum it is made of where the two differ.
Settles ==
  Join(Join(States("32B", "32"), Maybe(Amount("19", "19"))),
       {<<>>, <<Plain("71F", "71"), F("53A", "53", Whole, TRUE)>>})

Batches(head, txs, simple, settles) ==
  Of(0, head)
  \cup Join(Join(Of(0, head), Of(1, txs)), Of(-1, settles))
  \cup Join(Join(Of(0, head), Of(1, simple)), Join(Of(2, simple),
                                                   Of(-1, settles)))

Batches101(txs) == Batches(Header(Shared101), txs, Simple("21F"), {<<>>})

Batches104(txs, settles) ==
  Batches(Header(Shared104), txs, Simple("21C"), {<<>>} \cup settles)

Body103 ==
  Of(0, Join(Join(Maybe({Plain("23B", "23")}), Maybe(Party("50K", "50"))),
             Join(States("32A", "32"),
                  Join(Join(Maybe(Amount("71F", "71")),
                            Maybe(Amount("71F", "71"))),
                       Maybe(Amount("71G", "71"))))))

\* What both sequences of a cover payment state, and in the same order.
Agents ==
  Join(Maybe({F("52A", "52", Whole, TRUE), F("52A", "52", {}, TRUE)}),
       {<<>>, <<F("57D", "57", Whole, TRUE), Plain("72", "72")>>})

Body202 ==
  Join(Of(0, Join(States("32A", "32"),
                  Join(Agents, Maybe({F("58A", "58", Whole, TRUE)})))),
       {<<>>} \cup
       Of(-1, Join(Join({<<F("50K", "50", Whole, TRUE)>>}, Agents),
                   Maybe(Amount("33B", "33")))))

\* One message of the type, with any body.
Alone(type, bodies) == {<<Mail(type, TRUE, body)>> : body \in bodies}

\* Two messages, of the type and not, bare or an ACK.
Pairs(type, bodies) ==
  {<<Mail(a, b, body), Mail(c, b, body)>> :
     a \in {type, Null, "900"}, c \in {type, "900"}, b \in BOOLEAN,
     body \in bodies}

-----------------------------------------------------------------------------
Given(type, files) == [mt |-> type, files |-> files]

Files ==
  <<Given("940", AnyBody("940")), Given("940", SomeStatements),
    Given("942", AnyBody("942")), Given("942", SomeStatements),
    Given("101", Alone("101", Batches101(Tx("21F", Shared101, {<<>>})))),
    Given("101", Pairs("101", Batches101({}))),
    Given("104",
          Alone("104", Batches104(Tx("21C", Shared104, Charges), Settles))),
    Given("104", Pairs("104", Batches104({}, {}))),
    Given("103", Alone("103", Body103)), Given("103", Pairs("103", Body103)),
    Given("202", Alone("202", Body202)), Given("202", Pairs("202", Body202))>>
=============================================================================
