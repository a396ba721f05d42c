----------------------------- MODULE GroupProofs -----------------------------
(***************************************************************************)
(* What holds of every reader of messages, for every table, every layout   *)
(* that fits it, and files of any size.                                    *)
(***************************************************************************)
EXTENDS GroupRows, FoldLemmas

Own == message = "own"

-----------------------------------------------------------------------------
(* Where the file and the reader stand.                                    *)

Chosen ==
  /\ \E name \in DOMAIN Family :
       family = Family[name] /\ layout = Layout[name]
  /\ topic \in Topics(family.rows)

Elements ==
  [block : {"Envelope", "Message"} \cup BlocksOf(layout),
   tag : {"Envelope", "OtherMsg"} \cup Range(family.containers)
         \cup BlocksOf(layout),
   no : Nat]

\* The envelope, a message in it, and blocks each in the one before.
Nested ==
  /\ open \in Seq(Elements)
  /\ opens \in Nat /\ messages \in Nat
  /\ message \in {"none", "own", "foreign"}
  /\ message = "none" <=> Len(open) < 2
  /\ Len(open) >= 1 => open[1].block = "Envelope" /\ open[1].tag = "Envelope"
  /\ Len(open) >= 2 =>
       /\ open[2].block = "Message"
       /\ IF Own THEN open[2].tag \in Range(family.containers)
          ELSE open[2].tag = "OtherMsg"
  /\ \A i \in 3 .. Len(open) :
       /\ open[i].block \in BlocksOf(layout)
       /\ open[i].tag = open[i].block
       /\ layout.under[open[i].block] = open[i - 1].block

\* The reader knows where it is, and whether it has given a row.
InStep ==
  /\ path = [i \in 1 .. Len(open) |-> open[i].tag]
  /\ depth = IF Own THEN 1 ELSE Null
  /\ Own => emitted = asked

\* What the end of the input asks for.
Seen ==
  /\ saw => met
  /\ Own => met
  /\ gave => met
  /\ family.sawAt = "open" => (met => saw)
  /\ family.sawAt = "row" => (gave => saw)
  /\ family.sawAt \notin {"open", "row"} => (met /\ ~Own => saw)

PlaceInv ==
  /\ Chosen
  /\ Reading => Nested /\ InStep /\ Seen /\ sound

\* A scan ends for what EndsAsItShould says.
EndsStep ==
  /\ result' = "ended" /\ Reading => open = <<>> /\ met /\ sound
  /\ result' = "failed" /\ Reading =>
       ~sound' \/ open # <<>> \/ ~met \/ ~gave

-----------------------------------------------------------------------------
(* What is said, and what the reader keeps of it.                          *)

Sayings == [of : topic, in : Nat, n : Nat, how : {"set", "fill"}]

\* The block b is open.
IsOpen(b) == b \in Around(layout, Innermost.block)

\* The innermost block may still say the field.
Leaves(f) == stage = "leaves" /\ HomeOf(layout, f) = Innermost.block

\* What is said is said of a place that is open, by the block that is now open
\* there if the field's own is.
SaidInv ==
  /\ said \in [topic -> Seq(Sayings)]
  /\ \A f \in topic : said[f] # <<>> => Own /\ IsOpen(ScopeOf(layout, f))
  /\ \A f \in topic : \A i \in DOMAIN said[f], j \in 2 .. Len(open) :
       open[j].block = HomeOf(layout, f) => said[f][i].in = open[j].no
  /\ \A f, g \in topic : HomeOf(layout, f) = HomeOf(layout, g) =>
       \A i \in DOMAIN said[f], j \in DOMAIN said[g] :
         said[f][i].in = said[g][j].in
  /\ \A f \in topic :
       /\ Own /\ f \in DOMAIN layout.needs /\ said[f] # <<>> /\ ~Leaves(f) =>
            \E g \in layout.needs[f] \cap topic : said[g] # <<>>
       /\ \A b \in BlocksOf(layout) :
            Own /\ stage = "leaves" /\ f \in After(layout, b)
              /\ layout.under[b] = Innermost.block => said[f] = <<>>

\* A field required of the block that is open, and not yet said.
Awaited(f) == f \in layout.required /\ said[f] = <<>> /\ Leaves(f)

\* The context says what covers the place.
KeptInv ==
  Own => \A f \in topic :
    /\ IsOpen(ScopeOf(layout, f)) => ctx[f] = Meant(f) \/ Awaited(f)
    /\ ~IsOpen(ScopeOf(layout, f)) /\ f \in Clears(family, ScopeOf(layout, f)) =>
         ctx[f] = <<>>

RowInv == row = due /\ ReasonsAreWhole

ContentInv == RowInv /\ (Reading => SaidInv /\ KeptInv)

-----------------------------------------------------------------------------
(* What the reader does with each kind of event.                           *)

\* A start tag is put on the path; that of the container starts all over.
LEMMA OpenRead ==
  ASSUME NEW e, e.tag = "open", Reads(e)
  PROVE  /\ UNCHANGED <<family, topic, result>>
         /\ path' = Append(path, e.name) /\ row' = Null
         /\ IsContainer(e.name) =>
              /\ depth' = Len(path) /\ ctx' = Blank /\ emitted' = FALSE
              /\ saw' = (saw \/ family.sawAt = "open")
         /\ ~IsContainer(e.name) =>
              /\ UNCHANGED <<depth, saw, emitted>>
              /\ ctx' = IF StartsOver(e.name)
                        THEN Without(family.starts[e.name]) ELSE ctx
  BY DEF Reads, ContainerOpens, ElementOpens, ElementCloses, LeafCaptured,
         RecordRead, DetailRead, RecordPassesBy, FileEnds, FileFails

\* A text is captured, or ends the scan.
LEMMA LeafRead ==
  ASSUME NEW e, e.tag = "leaf", Reads(e)
  PROVE  /\ UNCHANGED <<family, topic, path, depth, saw, emitted>>
         /\ row' = Null
         /\ e.sound => result' = result /\ Captures(path \o e.at, e.value)
         /\ ~e.sound => result' = "failed"
  BY DEF Reads, ContainerOpens, ElementOpens, ElementCloses, LeafCaptured,
         RecordRead, DetailRead, RecordPassesBy, FileEnds, FileFails

\* Inside the container a record gives a row and a detail is kept, if it can be
\* read; outside it is an element like any other.
LEMMA WholeRead ==
  ASSUME NEW e, e.tag = "record", Reads(e)
  PROVE  /\ UNCHANGED <<family, topic, path, depth>>
         /\ depth = Null => UNCHANGED <<saw, emitted, result>> /\ row' = Null
         /\ depth # Null /\ ~e.sound => result' = "failed" /\ row' = Null
         /\ depth # Null /\ e.sound =>
              \/ /\ e.name \in family.records
                 /\ row' = Row("TRANSACTION", e.own, ctx) /\ emitted' = TRUE
                 /\ saw' = (saw \/ family.sawAt = "row")
                 /\ UNCHANGED <<ctx, result>>
              \/ /\ e.name \in DOMAIN family.details
                 /\ ctx' = [f \in topic |-> IF f = family.details[e.name]
                                            THEN <<e.value>> ELSE ctx[f]]
                 /\ row' = Null /\ UNCHANGED <<saw, emitted, result>>
  BY DEF Reads, ContainerOpens, ElementOpens, ElementCloses, LeafCaptured,
         RecordRead, DetailRead, RecordPassesBy, FileEnds, FileFails

\* An end tag gives the row of its block inside the container, or fails with it.
LEMMA CloseRead ==
  ASSUME NEW e, e.tag = "close", Reads(e)
  PROVE  /\ UNCHANGED <<family, topic, emitted>>
         /\ RowFails(e) => result' = "failed" /\ row' = Null
         /\ ~RowFails(e) =>
              /\ UNCHANGED result
              /\ path' = SubSeq(path, 1, Len(path) - 1)
              /\ depth' = IF depth = Len(path) - 1 THEN Null ELSE depth
              /\ GivesRow(e.name) =>
                   /\ row' = Row(family.ends[e.name].level, NoneOwn, ctx)
                   /\ ctx' = Without(family.ends[e.name].clears)
                   /\ saw' = \/ saw
                              \/ family.sawAt \in
                                   {"row", family.ends[e.name].level}
              /\ ~GivesRow(e.name) => row' = Null /\ UNCHANGED <<ctx, saw>>
  BY DEF Reads, ContainerOpens, ElementOpens, ElementCloses, LeafCaptured,
         RecordRead, DetailRead, RecordPassesBy, FileEnds, FileFails

\* The end of the input is that of the scan.
LEMMA EndRead ==
  ASSUME NEW e, e.tag = "eof", Reads(e)
  PROVE  /\ UNCHANGED <<family, topic, path, depth, ctx, saw, emitted>>
         /\ row' = Null
         /\ result' = IF path = <<>> /\ saw THEN "ended" ELSE "failed"
  BY DEF Reads, ContainerOpens, ElementOpens, ElementCloses, LeafCaptured,
         RecordRead, DetailRead, RecordPassesBy, FileEnds, FileFails, CutShort

\* The event e is of a kind, with all it says.
Is(e, tag, name, at, value, own, ok) ==
  /\ e.tag = tag /\ e.name = name /\ e.at = at /\ e.value = value
  /\ e.own = own /\ e.sound = ok

\* What an event is made of.
LEMMA Events ==
  ASSUME NEW tag, NEW name
  PROVE  /\ Is(Event(tag, name), tag, name, <<>>, Null, NoneOwn, TRUE)
         /\ \A ok : Is([Event(tag, name) EXCEPT !.sound = ok],
                       tag, name, <<>>, Null, NoneOwn, ok)
         /\ \A at, v : Is([Event(tag, name) EXCEPT !.at = at, !.value = v],
                          tag, name, at, v, NoneOwn, TRUE)
         /\ \A at, v, ok :
              Is([Event(tag, name) EXCEPT !.at = at, !.value = v, !.sound = ok],
                 tag, name, at, v, NoneOwn, ok)
         /\ \A own, ok : Is([Event(tag, name) EXCEPT !.own = own, !.sound = ok],
                            tag, name, <<>>, Null, own, ok)
         /\ \A v, ok : Is([Event(tag, name) EXCEPT !.value = v, !.sound = ok],
                          tag, name, <<>>, v, NoneOwn, ok)
<1>1. ASSUME NEW none, NEW noneOwn, NEW at, NEW v, NEW own, NEW ok,
             NEW empty, NEW s, NEW e,
             e = [tag |-> tag, name |-> name, at |-> empty, value |-> none,
                  own |-> noneOwn, sound |-> s]
      PROVE  /\ Is(e, tag, name, empty, none, noneOwn, s)
             /\ Is([e EXCEPT !.sound = ok], tag, name, empty, none, noneOwn, ok)
             /\ Is([e EXCEPT !.at = at, !.value = v],
                   tag, name, at, v, noneOwn, s)
             /\ Is([e EXCEPT !.at = at, !.value = v, !.sound = ok],
                   tag, name, at, v, noneOwn, ok)
             /\ Is([e EXCEPT !.own = own, !.sound = ok],
                   tag, name, empty, none, own, ok)
             /\ Is([e EXCEPT !.value = v, !.sound = ok],
                   tag, name, empty, v, noneOwn, ok)
  <2>1. Is(e, tag, name, empty, none, noneOwn, s)
    BY <1>1 DEF Is
  <2>2. Is([e EXCEPT !.sound = ok], tag, name, empty, none, noneOwn, ok)
    BY <1>1 DEF Is
  <2>3. Is([e EXCEPT !.at = at, !.value = v], tag, name, at, v, noneOwn, s)
    BY <1>1 DEF Is
  <2>4. Is([e EXCEPT !.at = at, !.value = v, !.sound = ok],
           tag, name, at, v, noneOwn, ok)
    BY <1>1 DEF Is
  <2>5. Is([e EXCEPT !.own = own, !.sound = ok],
           tag, name, empty, none, own, ok)
    BY <1>1 DEF Is
  <2>6. Is([e EXCEPT !.value = v, !.sound = ok],
           tag, name, empty, v, noneOwn, ok)
    BY <1>1 DEF Is
  <2> QED
    BY <2>1, <2>2, <2>3, <2>4, <2>5, <2>6
<1>2. Event(tag, name) =
        [tag |-> tag, name |-> name, at |-> <<>>, value |-> Null,
         own |-> NoneOwn, sound |-> TRUE]
  BY DEF Event
<1> QED
  BY <1>1, <1>2, Zenon

-----------------------------------------------------------------------------
(* The path and the open elements.                                         *)

\* The path names the open elements, when one more is open.
LEMMA PathGrows ==
  ASSUME NEW S, NEW o \in Seq(S), NEW x \in S
  PROVE  /\ Append(o, x) \in Seq(S) /\ Len(Append(o, x)) = Len(o) + 1
         /\ \A i \in 1 .. Len(o) : Append(o, x)[i] = o[i]
         /\ Append(o, x)[Len(o) + 1] = x
         /\ Append([i \in 1 .. Len(o) |-> o[i].tag], x.tag) =
              [i \in 1 .. Len(Append(o, x)) |-> Append(o, x)[i].tag]
<1> DEFINE p == [i \in 1 .. Len(o) |-> o[i].tag]
           a == Append(o, x)
           T == {o[i].tag : i \in 1 .. Len(o)} \cup {x.tag}
           t == x.tag
           q == Append(p, t)
<1>1. /\ a \in Seq(S) /\ Len(a) = Len(o) + 1 /\ Len(o) \in Nat
      /\ \A i \in 1 .. Len(o) : a[i] = o[i]
      /\ a[Len(o) + 1] = x
  OBVIOUS
<1>2. /\ p \in Seq(T) /\ Len(p) = Len(o) /\ t \in T
      /\ \A i \in 1 .. Len(o) : p[i] = o[i].tag
  OBVIOUS
<1>3. /\ q \in Seq(T) /\ Len(q) = Len(p) + 1 /\ q[Len(p) + 1] = t
      /\ \A i \in 1 .. Len(p) : q[i] = p[i]
  <2> HIDE DEF p, T, t
  <2> QED
    BY <1>2
<1>4. ASSUME NEW i \in 1 .. Len(a)
      PROVE  q[i] = a[i].tag
  <2>0. x.tag = t
    OBVIOUS
  <2> HIDE DEF p, q, a, t
  <2> QED
    BY <1>1, <1>2, <1>3, <2>0
<1>5. q = [i \in 1 .. Len(q) |-> q[i]]
  <2> HIDE DEF q, T
  <2> QED
    BY <1>3
<1>6. q = [i \in 1 .. Len(a) |-> a[i].tag]
  <2>1. Len(q) = Len(a)
    BY <1>1, <1>2, <1>3
  <2> HIDE DEF q, a
  <2> QED
    BY <1>4, <1>5, <2>1
<1> QED
  BY <1>1, <1>6

\* The path names the open elements, when the innermost closes.
LEMMA PathShrinks ==
  ASSUME NEW S, NEW o \in Seq(S), o # <<>>, NEW n, n = Len(o) - 1,
         NEW p, p = [i \in 1 .. Len(o) |-> o[i].tag]
  PROVE  /\ SubSeq(o, 1, n) \in Seq(S) /\ Len(SubSeq(o, 1, n)) = n
         /\ \A i \in 1 .. n : SubSeq(o, 1, n)[i] = o[i]
         /\ Len(p) = Len(o) /\ n \in Nat
         /\ SubSeq(p, 1, n) =
              [i \in 1 .. Len(SubSeq(o, 1, n)) |-> SubSeq(o, 1, n)[i].tag]
<1> DEFINE a == SubSeq(o, 1, n)
           T == {o[i].tag : i \in 1 .. Len(o)}
<1>1. Len(o) \in Nat /\ n \in Nat /\ n < Len(o)
  OBVIOUS
<1>2. a \in Seq(S) /\ Len(a) = n /\ \A i \in 1 .. n : a[i] = o[i]
  BY <1>1
<1>3. p \in Seq(T) /\ Len(p) = Len(o) /\ \A i \in 1 .. Len(o) : p[i] = o[i].tag
  OBVIOUS
<1>4. SubSeq(p, 1, n) = [i \in 1 .. n |-> p[i]]
  <2> HIDE DEF T
  <2> QED
    BY <1>1, <1>3
<1>5. [i \in 1 .. n |-> p[i]] = [i \in 1 .. Len(a) |-> a[i].tag]
  <2> HIDE DEF a
  <2>1. \A i \in 1 .. n : p[i] = a[i].tag
    BY <1>1, <1>2
  <2>2. 1 .. Len(a) = 1 .. n
    BY <1>2
  <2> QED
    BY <2>1, <2>2
<1> QED
  BY <1>1, <1>2, <1>3, <1>4, <1>5

-----------------------------------------------------------------------------
(* The reader stands where the file does.                                  *)

\* The table and the layout of the file fit together.
LEMMA Fitting ==
  ASSUME Chosen
  PROVE  Fits(family, layout)
  BY LayoutsFit DEF Chosen

\* They stay those of the file.
LEMMA StaysChosen ==
  ASSUME Chosen, UNCHANGED <<family, topic, layout>>
  PROVE  /\ Chosen'
         /\ Elements' = Elements /\ BlocksOf(layout)' = BlocksOf(layout)
  BY DEF Chosen, Elements, BlocksOf

\* One more element is open, for the file and for the reader.
LEMMA OneMoreOpen ==
  ASSUME Nested, InStep, NEW x \in Elements,
         UNCHANGED <<family, topic, layout>>,
         open' = Append(open, x), path' = Append(path, x.tag)
  PROVE  /\ open' \in Seq(Elements) /\ Len(open') = Len(open) + 1
         /\ \A i \in 1 .. Len(open) : open'[i] = open[i]
         /\ open'[Len(open) + 1] = x
         /\ path' = [i \in 1 .. Len(open') |-> open'[i].tag]
         /\ Len(open) \in Nat /\ Len(path) = Len(open)
<1>1. open \in Seq(Elements) /\ path = [i \in 1 .. Len(open) |-> open[i].tag]
  BY DEF Nested, InStep
<1>2. /\ Append(open, x) \in Seq(Elements)
      /\ Len(Append(open, x)) = Len(open) + 1
      /\ \A i \in 1 .. Len(open) : Append(open, x)[i] = open[i]
      /\ Append(open, x)[Len(open) + 1] = x
      /\ Append([i \in 1 .. Len(open) |-> open[i].tag], x.tag) =
           [i \in 1 .. Len(Append(open, x)) |-> Append(open, x)[i].tag]
  BY <1>1, PathGrows
<1>3. Len(open) \in Nat /\ Len(path) = Len(open)
  BY <1>1
<1> QED
  BY <1>1, <1>2, <1>3

\* The envelope opens.
LEMMA PlaceEnvelope ==
  ASSUME PlaceInv, EnvelopeOpens
  PROVE  PlaceInv' /\ EndsStep
<1> DEFINE e == Event("open", "Envelope")
           x == [block |-> "Envelope", tag |-> "Envelope", no |-> 0]
<1>1. Reads(e) /\ e.tag = "open" /\ e.name = "Envelope"
  <2>1. Is(e, "open", "Envelope", <<>>, Null, NoneOwn, TRUE)
    BY Events
  <2> QED
    BY <2>1 DEF EnvelopeOpens, Is
<1>2. Chosen /\ Nested /\ InStep /\ Seen /\ sound /\ Reading /\ Fits(family, layout)
  BY Fitting DEF EnvelopeOpens, PlaceInv
<1>3. ~IsContainer("Envelope")
  BY <1>2 DEF Fits, TreeFits, IsContainer
<1>4. /\ UNCHANGED <<family, topic, result, depth, saw, emitted>>
      /\ path' = Append(path, "Envelope")
  <2> HIDE DEF e
  <2> QED
    BY <1>1, <1>3, OpenRead
<1>5. UNCHANGED <<layout, message, messages, opens, asked, sound, met, gave>>
      /\ open = <<>> /\ open' = <<x>>
  BY DEF EnvelopeOpens
<1>6. x \in Elements /\ x.tag = "Envelope" /\ open' = Append(open, x)
  BY <1>5 DEF Elements
<1>7. Chosen' /\ Elements' = Elements
  BY <1>2, <1>4, <1>5, StaysChosen
<1>8. /\ open' \in Seq(Elements) /\ Len(open') = Len(open) + 1
      /\ open'[Len(open) + 1] = x
      /\ path' = [i \in 1 .. Len(open') |-> open'[i].tag]
  <2> HIDE DEF x
  <2> QED
    BY <1>2, <1>4, <1>5, <1>6, OneMoreOpen
<1>9. Nested'
  BY <1>2, <1>4, <1>5, <1>7, <1>8 DEF Nested, Own
<1>10. InStep' /\ Seen'
  BY <1>2, <1>4, <1>5, <1>8 DEF InStep, Seen, Own
<1> QED
  BY <1>2, <1>4, <1>5, <1>7, <1>9, <1>10 DEF PlaceInv, EndsStep, Reading

\* A message opens, of the family or not.
LEMMA PlaceMessage ==
  ASSUME PlaceInv, MessageOpens
  PROVE  PlaceInv' /\ EndsStep
<1>2. Chosen /\ Nested /\ InStep /\ Seen /\ sound /\ Reading /\ Fits(family, layout)
  BY Fitting DEF MessageOpens, PlaceInv
<1> DEFINE tags == family.containers
           tagOf(kind) == IF kind = "foreign" THEN "OtherMsg"
                          ELSE tags[(messages % Len(tags)) + 1]
           x(tag) == [block |-> "Message", tag |-> tag, no |-> opens + 1]
<1>3. PICK kind \in {"own", "foreign"} :
        /\ message' = kind
        /\ met' = (met \/ kind = "own")
        /\ open' = Append(open, x(tagOf(kind)))
        /\ Reads(Event("open", tagOf(kind)))
  BY DEF MessageOpens
<1> DEFINE tag == tagOf(kind)
           e == Event("open", tag)
<1>4. kind = "own" => tag \in Range(family.containers) /\ IsContainer(tag)
  <2>1. tags \in Seq(STRING) /\ tags # <<>> /\ messages \in Nat
    BY <1>2 DEF Fits, TreeFits, Nested
  <2>2. Len(tags) \in Nat \ {0} /\ DOMAIN tags = 1 .. Len(tags)
    <3> HIDE DEF tags
    <3> QED
      BY <2>1
  <2>3. (messages % Len(tags)) + 1 \in DOMAIN tags
    <3> HIDE DEF tags
    <3> QED
      BY <2>1, <2>2
  <2> QED
    BY <2>3 DEF Range, IsContainer
<1>5. kind = "foreign" => tag = "OtherMsg" /\ ~IsContainer(tag)
  BY <1>2 DEF Fits, TreeFits, IsContainer
<1>6. Reads(e) /\ e.tag = "open" /\ e.name = tag
  <2>1. Is(e, "open", tag, <<>>, Null, NoneOwn, TRUE)
    BY Events
  <2> QED
    BY <1>3, <2>1 DEF Is
<1> HIDE DEF e, tag
<1>7. /\ UNCHANGED <<family, topic, result>> /\ path' = Append(path, tag)
      /\ kind = "own" =>
           /\ depth' = Len(path) /\ emitted' = FALSE
           /\ saw' = (saw \/ family.sawAt = "open")
      /\ kind = "foreign" => UNCHANGED <<depth, saw, emitted>>
  BY <1>4, <1>5, <1>6, OpenRead
<1>8. /\ UNCHANGED <<layout, sound, gave>> /\ asked' = FALSE
      /\ messages' = messages + 1 /\ opens' = opens + 1 /\ Len(open) = 1
  BY DEF MessageOpens
<1>9. open' = Append(open, x(tag)) /\ x(tag) \in Elements /\ x(tag).tag = tag
      /\ x(tag).block = "Message"
  <2>1. opens + 1 \in Nat
    BY <1>2 DEF Nested
  <2>2. tag \in {"OtherMsg"} \cup Range(family.containers)
    BY <1>4, <1>5
  <2> QED
    BY <1>3, <2>1, <2>2 DEF Elements, tag
<1>10. Chosen' /\ Elements' = Elements
  BY <1>2, <1>7, <1>8, StaysChosen
<1> HIDE DEF x, tagOf
<1>11. /\ open' \in Seq(Elements) /\ Len(open') = Len(open) + 1
       /\ \A i \in 1 .. Len(open) : open'[i] = open[i]
       /\ open'[Len(open) + 1] = x(tag)
       /\ path' = [i \in 1 .. Len(open') |-> open'[i].tag]
       /\ Len(path) = Len(open)
  BY <1>2, <1>7, <1>8, <1>9, OneMoreOpen
<1>12. message = "none"
  BY <1>2, <1>8 DEF Nested
<1>13. Nested'
  BY <1>2, <1>3, <1>4, <1>5, <1>7, <1>8, <1>9, <1>10, <1>11 DEF Nested, Own
<1>14. InStep'
  BY <1>2, <1>3, <1>7, <1>8, <1>11, <1>12 DEF InStep, Own
<1>15. Seen'
  <2>1. family' = family /\ gave' = gave /\ (Own' <=> kind = "own") /\ ~Own
        /\ met' = (met \/ kind = "own") /\ kind \in {"own", "foreign"}
    BY <1>3, <1>7, <1>8, <1>12 DEF Own
  <2>2. /\ kind = "own" => saw' = (saw \/ family.sawAt = "open")
        /\ kind = "foreign" => saw' = saw
    BY <1>7
  <2>3. CASE kind = "own"
    <3>1. met' /\ Own' /\ saw' = (saw \/ family.sawAt = "open")
      BY <2>1, <2>2, <2>3
    <3> QED
      BY <1>2, <2>1, <3>1, Zenon DEF Seen
  <2>4. CASE kind = "foreign"
    <3>1. (met' <=> met) /\ ~Own' /\ saw' = saw
      BY <2>1, <2>2, <2>4
    <3> QED
      BY <1>2, <2>1, <3>1, Zenon DEF Seen
  <2> QED
    BY <2>1, <2>3, <2>4
<1> QED
  BY <1>2, <1>7, <1>8, <1>10, <1>13, <1>14, <1>15 DEF PlaceInv, EndsStep, Reading

\* A block opens in the innermost one.
LEMMA PlaceBlock ==
  ASSUME PlaceInv, BlockOpens
  PROVE  PlaceInv' /\ EndsStep
<1>2. Chosen /\ Nested /\ InStep /\ Seen /\ sound /\ Reading /\ Fits(family, layout)
  BY Fitting DEF BlockOpens, PlaceInv
<1> DEFINE x(b) == [block |-> b, tag |-> b, no |-> opens + 1]
<1>3. PICK b \in Children(layout, Innermost.block) :
        open' = Append(open, x(b)) /\ Reads(Event("open", b))
  BY DEF BlockOpens
<1> DEFINE e == Event("open", b)
<1>4. b \in BlocksOf(layout) /\ layout.under[b] = Innermost.block
  BY DEF Children, BlocksOf
<1>5. ~IsContainer(b)
  BY <1>2, <1>4 DEF Fits, TreeFits, IsContainer
<1>6. Reads(e) /\ e.tag = "open" /\ e.name = b
  <2>1. Is(e, "open", b, <<>>, Null, NoneOwn, TRUE)
    BY Events
  <2> QED
    BY <1>3, <2>1 DEF Is
<1> HIDE DEF e
<1>7. /\ UNCHANGED <<family, topic, result, depth, saw, emitted>>
      /\ path' = Append(path, b)
  BY <1>5, <1>6, OpenRead
<1>8. /\ UNCHANGED <<layout, message, messages, asked, sound, met, gave>>
      /\ opens' = opens + 1 /\ message # "none"
  BY DEF BlockOpens
<1>9. x(b) \in Elements /\ x(b).tag = b /\ x(b).block = b
  <2>1. opens + 1 \in Nat
    BY <1>2 DEF Nested
  <2> QED
    BY <1>4, <2>1 DEF Elements
<1>10. Chosen' /\ Elements' = Elements /\ BlocksOf(layout)' = BlocksOf(layout)
  BY <1>2, <1>7, <1>8, StaysChosen
<1> HIDE DEF x
<1>11. /\ open' \in Seq(Elements) /\ Len(open') = Len(open) + 1
       /\ \A i \in 1 .. Len(open) : open'[i] = open[i]
       /\ open'[Len(open) + 1] = x(b)
       /\ path' = [i \in 1 .. Len(open') |-> open'[i].tag]
       /\ Len(open) \in Nat
  BY <1>2, <1>3, <1>7, <1>8, <1>9, OneMoreOpen
<1>12. Len(open) >= 2 /\ Own' = Own
  BY <1>2, <1>8, <1>11 DEF Nested, Own
<1>13. Nested'
  <2>1. \A i \in 3 .. Len(open') :
          /\ open'[i].block \in BlocksOf(layout)
          /\ open'[i].tag = open'[i].block
          /\ layout.under[open'[i].block] = open'[i - 1].block
    <3> SUFFICES ASSUME NEW i \in 3 .. Len(open')
                 PROVE  /\ open'[i].block \in BlocksOf(layout)
                        /\ open'[i].tag = open'[i].block
                        /\ layout.under[open'[i].block] = open'[i - 1].block
      OBVIOUS
    <3>1. i - 1 \in 1 .. Len(open) /\ open'[i - 1] = open[i - 1]
      BY <1>11
    <3>2. CASE i = Len(open) + 1
      BY <1>4, <1>9, <1>11, <3>1, <3>2 DEF Innermost
    <3>3. CASE i # Len(open) + 1
      <4>1. i \in 3 .. Len(open) /\ open'[i] = open[i]
        BY <1>11, <3>3
      <4> QED
        BY <1>2, <3>1, <4>1 DEF Nested
    <3> QED
      BY <3>2, <3>3
  <2>2. open'[1] = open[1] /\ open'[2] = open[2]
    BY <1>11, <1>12
  <2>3. opens' \in Nat /\ messages' \in Nat
    BY <1>2, <1>8 DEF Nested
  <2> QED
    BY <1>2, <1>7, <1>8, <1>10, <1>11, <1>12, <2>1, <2>2, <2>3 DEF Nested
<1>14. InStep' /\ Seen'
  BY <1>2, <1>7, <1>8, <1>11, <1>12 DEF InStep, Seen
<1> QED
  BY <1>2, <1>7, <1>8, <1>10, <1>13, <1>14 DEF PlaceInv, EndsStep, Reading

\* Nothing moves.
LEMMA StaysPut ==
  ASSUME PlaceInv, Reading,
         UNCHANGED <<family, topic, where, path, depth, saw, emitted, asked, met,
                     gave>>
  PROVE  Chosen' /\ Nested' /\ InStep' /\ Seen'
<1>1. Chosen /\ Nested /\ InStep /\ Seen
  BY DEF PlaceInv
<1>2. UNCHANGED <<layout, open, message, messages, opens>>
  BY DEF where
<1>3. Chosen' /\ Elements' = Elements /\ BlocksOf(layout)' = BlocksOf(layout)
  BY <1>1, <1>2, StaysChosen
<1> QED
  BY <1>1, <1>2, <1>3 DEF Nested, InStep, Seen, Own

\* A text is said, or one that is of no concern.
LEMMA PlaceText ==
  ASSUME PlaceInv, TextSaid \/ TextStrays
  PROVE  PlaceInv' /\ EndsStep
<1>1. Reading /\ UNCHANGED <<where, asked, met, gave>> /\ sound
  BY DEF TextSaid, TextStrays, PlaceInv
<1>2. PICK e : Reads(e) /\ e.tag = "leaf" /\ (e.sound => sound')
                        /\ (~e.sound => ~sound')
  <2>1. CASE TextSaid
    <3>1. PICK f, how, ok : Saying(f, how, ok)
      BY <2>1, Zenon DEF TextSaid
    <3>4. sound' = (sound /\ ok)
      BY <3>1, Zenon DEF Saying
    <3>5. PICK t :
            Reads([Event("leaf", "") EXCEPT
                     !.at = IF t[1] = Innermost.tag THEN Tail(t) ELSE t,
                     !.value = Says(f, Innermost.no, Len(said[f]) + 1, how),
                     !.sound = ok])
      BY <3>1, Zenon DEF Saying
    <3> DEFINE at == IF t[1] = Innermost.tag THEN Tail(t) ELSE t
               v == Says(f, Innermost.no, Len(said[f]) + 1, how)
    <3> DEFINE e == [Event("leaf", "") EXCEPT !.at = at, !.value = v,
                                               !.sound = ok]
    <3>2. Is(e, "leaf", "", at, v, NoneOwn, ok)
      BY Events
    <3>3. Reads(e) /\ e.tag = "leaf" /\ e.sound = ok
      BY <3>5, <3>2 DEF Is
    <3> HIDE DEF e
    <3> QED
      BY <1>1, <3>3, <3>4
  <2>2. CASE TextStrays
    <3>1. PICK at, v :
            Reads([Event("leaf", "") EXCEPT !.at = at, !.value = v])
      BY <2>2, Zenon DEF TextStrays
    <3> DEFINE e == [Event("leaf", "") EXCEPT !.at = at, !.value = v]
    <3>2. Is(e, "leaf", "", at, v, NoneOwn, TRUE)
      BY Events
    <3>3. Reads(e) /\ e.tag = "leaf" /\ e.sound
      BY <3>1, <3>2 DEF Is
    <3>4. sound' = sound
      BY <2>2 DEF TextStrays
    <3> HIDE DEF e
    <3> QED
      BY <1>1, <3>3, <3>4
  <2> QED
    BY <2>1, <2>2
<1>3. /\ UNCHANGED <<family, topic, path, depth, saw, emitted>>
      /\ e.sound => result' = result
      /\ ~e.sound => result' = "failed"
  BY <1>2, LeafRead
<1>4. Chosen' /\ Nested' /\ InStep' /\ Seen'
  BY <1>1, <1>3, StaysPut
<1> QED
  BY <1>1, <1>2, <1>3, <1>4 DEF PlaceInv, EndsStep, Reading

\* The input ends.
LEMMA PlaceInputEnds ==
  ASSUME PlaceInv, InputEnds
  PROVE  PlaceInv' /\ EndsStep
<1> DEFINE e == Event("eof", "")
<1>1. /\ Reading /\ UNCHANGED <<where, asked, met, gave, sound>> /\ sound
      /\ Chosen /\ Nested /\ InStep /\ Seen /\ Reads(e)
  BY DEF InputEnds, PlaceInv
<1>2. e.tag = "eof"
  <2>1. Is(e, "eof", "", <<>>, Null, NoneOwn, TRUE)
    BY Events
  <2> QED
    BY <2>1 DEF Is
<1> HIDE DEF e
<1>3. /\ UNCHANGED <<family, topic, path, depth, saw, emitted>>
      /\ result' = IF path = <<>> /\ saw THEN "ended" ELSE "failed"
  BY <1>1, <1>2, EndRead
<1>4. Chosen'
  BY <1>1, <1>3, StaysPut
<1>5. path = <<>> <=> open = <<>>
  <2>1. open \in Seq(Elements) /\ path = [i \in 1 .. Len(open) |-> open[i].tag]
    BY <1>1 DEF Nested, InStep
  <2>2. Len(path) = Len(open)
    BY <2>1
  <2>3. path \in Seq({open[i].tag : i \in 1 .. Len(open)})
    BY <2>1
  <2> QED
    BY <2>1, <2>2, <2>3
<1>6. open = <<>> => ~Own
  BY <1>1 DEF Nested, Own
<1>7. open = <<>> /\ met /\ gave => saw
  BY <1>1, <1>6 DEF Seen
<1>8. saw => met
  BY <1>1 DEF Seen
<1> QED
  BY <1>1, <1>3, <1>4, <1>5, <1>7, <1>8 DEF PlaceInv, EndsStep, Reading

\* In a message of the family the reader knows it.
LEMMA InTheMessage ==
  ASSUME PlaceInv, Reading
  PROVE  depth # Null <=> Own
  BY NullIsNothing DEF PlaceInv, InStep

\* A record is met.
LEMMA PlaceRecord ==
  ASSUME PlaceInv, RecordMet
  PROVE  PlaceInv' /\ EndsStep
<1>1. /\ Reading /\ Own /\ sound /\ Chosen /\ Nested /\ InStep /\ Seen
      /\ Fits(family, layout) /\ UNCHANGED <<where, met>> /\ asked' = TRUE
  BY Fitting DEF RecordMet, PlaceInv, Own
<1> DEFINE ownOf(stated) == [k \in stated |-> Says(k, 0, 1, "set")]
<1>2. PICK name \in family.records, stated \in Statable, ok \in BOOLEAN :
        /\ sound' = (sound /\ ok) /\ gave' = (gave \/ ok)
        /\ Reads([Event("record", name) EXCEPT !.own = ownOf(stated),
                                                !.sound = ok])
  BY DEF RecordMet
<1> DEFINE own == ownOf(stated)
<1> DEFINE e == [Event("record", name) EXCEPT !.own = own, !.sound = ok]
<1>3. Is(e, "record", name, <<>>, Null, own, ok)
  BY Events
<1>4. Reads(e) /\ e.tag = "record" /\ e.name = name /\ e.sound = ok
  BY <1>2, <1>3 DEF Is
<1> HIDE DEF e
<1>5. name \notin DOMAIN family.details
  BY <1>1, <1>2 DEF Fits, EndsFit
<1>6. depth # Null
  BY <1>1, InTheMessage
<1>7. /\ UNCHANGED <<family, topic, path, depth>>
      /\ ~ok => result' = "failed"
      /\ ok => /\ emitted' = TRUE /\ result' = result
               /\ saw' = (saw \/ family.sawAt = "row")
  BY <1>4, <1>5, <1>6, WholeRead
<1>8. UNCHANGED <<layout, open, message, messages, opens>>
  BY <1>1 DEF where
<1>9. Chosen' /\ Elements' = Elements /\ BlocksOf(layout)' = BlocksOf(layout)
  BY <1>1, <1>7, <1>8, StaysChosen
<1>10. CASE ~ok
  BY <1>2, <1>7, <1>9, <1>10 DEF PlaceInv, EndsStep, Reading
<1>11. CASE ok
  <2>1. Nested' /\ InStep'
    BY <1>1, <1>7, <1>8, <1>9, <1>11 DEF Nested, InStep, Own
  <2>2. Seen'
    <3>1. Own' /\ gave' /\ (met' <=> met) /\ met /\ family' = family
      BY <1>1, <1>2, <1>7, <1>8, <1>11 DEF Own, Seen
    <3>2. saw' <=> (saw \/ family.sawAt = "row")
      BY <1>7, <1>11
    <3> QED
      BY <1>1, <3>1, <3>2 DEF Seen
  <2>3. sound' /\ Reading' /\ result' = "reading"
    BY <1>1, <1>2, <1>7, <1>11 DEF Reading
  <2> QED
    BY <1>9, <2>1, <2>2, <2>3 DEF PlaceInv, EndsStep
<1> QED
  BY <1>10, <1>11

\* A detail is met.
LEMMA PlaceDetail ==
  ASSUME PlaceInv, DetailMet
  PROVE  PlaceInv' /\ EndsStep
<1>1. /\ Reading /\ Own /\ sound /\ Chosen
      /\ Fits(family, layout) /\ UNCHANGED <<where, asked, met, gave>>
  BY Fitting DEF DetailMet, PlaceInv, Own
<1> DEFINE valueOf(f) == Says(f, Innermost.no, 1, "set")
<1>2. PICK name \in DOMAIN family.details, ok \in BOOLEAN :
        /\ sound' = (sound /\ ok)
        /\ Reads([Event("record", name) EXCEPT
                    !.value = valueOf(family.details[name]), !.sound = ok])
  BY DEF DetailMet
<1> DEFINE v == valueOf(family.details[name])
<1> DEFINE e == [Event("record", name) EXCEPT !.value = v, !.sound = ok]
<1>3. Is(e, "record", name, <<>>, v, NoneOwn, ok)
  BY Events
<1>4. Reads(e) /\ e.tag = "record" /\ e.name = name /\ e.sound = ok
  BY <1>2, <1>3 DEF Is
<1> HIDE DEF e
<1>5. name \notin family.records
  BY <1>1, <1>2 DEF Fits, EndsFit
<1>6. depth # Null
  BY <1>1, InTheMessage
<1>7. /\ UNCHANGED <<family, topic, path, depth>>
      /\ ~ok => result' = "failed"
      /\ ok => UNCHANGED <<saw, emitted, result>>
  BY <1>4, <1>5, <1>6, WholeRead
<1>8. CASE ok
  <2>1. Chosen' /\ Nested' /\ InStep' /\ Seen'
    BY <1>1, <1>7, <1>8, StaysPut
  <2> QED
    BY <1>1, <1>2, <1>7, <1>8, <2>1 DEF PlaceInv, EndsStep, Reading
<1>9. CASE ~ok
  <2>1. Chosen'
    BY <1>1, <1>7, StaysChosen DEF where
  <2> QED
    BY <1>2, <1>7, <1>9, <2>1 DEF PlaceInv, EndsStep, Reading
<1> QED
  BY <1>8, <1>9

\* An element of that name in another message.
LEMMA PlaceElsewhere ==
  ASSUME PlaceInv, RecordElsewhere
  PROVE  PlaceInv' /\ EndsStep
<1>1. /\ Reading /\ ~Own /\ sound
      /\ UNCHANGED <<where, asked, sound, met, gave>>
  BY DEF RecordElsewhere, PlaceInv, Own
<1>2. PICK name, at, v :
        Reads([Event("record", name) EXCEPT !.at = at, !.value = v])
  BY Zenon DEF RecordElsewhere
<1> DEFINE e == [Event("record", name) EXCEPT !.at = at, !.value = v]
<1>3. Is(e, "record", name, at, v, NoneOwn, TRUE)
  BY Events
<1>4. Reads(e) /\ e.tag = "record"
  BY <1>2, <1>3 DEF Is
<1> HIDE DEF e
<1>5. depth = Null
  BY <1>1, InTheMessage
<1>6. UNCHANGED <<family, topic, path, depth, saw, emitted, result>>
  BY <1>4, <1>5, WholeRead
<1>7. Chosen' /\ Nested' /\ InStep' /\ Seen'
  BY <1>1, <1>6, StaysPut
<1> QED
  BY <1>1, <1>6, <1>7 DEF PlaceInv, EndsStep, Reading

\* An end tag gives a row exactly where the end of the block is due one.
LEMMA GivesWhereDue ==
  ASSUME PlaceInv, Reading, open # <<>>
  PROVE  /\ Len(open) \in Nat \ {0}
         /\ EndDue # Null => Own
         /\ GivesRow(Innermost.tag) <=> EndDue # Null
         /\ Own => Innermost.block \in BlocksOf(layout) \cup {"Message"}
         /\ EndDue # Null =>
              /\ EndDue = layout.gives[Innermost.block]
              /\ Innermost.block \in DOMAIN layout.gives
              /\ family.ends[Innermost.tag].level = EndDue
              /\ Innermost.block \in layout.amounts =>
                   family.ends[Innermost.tag].fallible
         /\ Own /\ Innermost.block \in BlocksOf(layout) =>
              Innermost.tag = Innermost.block
<1>1. Chosen /\ Nested /\ InStep /\ Fits(family, layout)
  BY Fitting DEF PlaceInv
<1>2. Len(open) \in Nat \ {0} /\ open \in Seq(Elements)
  BY <1>1 DEF Nested
<1>3. CASE ~Own
  <2>1. depth = Null /\ EndDue = Null
    BY <1>1, <1>3 DEF InStep, EndDue, Own
  <2> QED
    BY <1>2, <1>3, <2>1 DEF GivesRow
<1>4. CASE Own
  <2> DEFINE b == Innermost.block
             t == Innermost.tag
  <2>1. Len(open) >= 2 /\ message = "own"
    BY <1>1, <1>2, <1>4 DEF Nested, Own
  <2>2. /\ b \in BlocksOf(layout) \cup {"Message"} /\ t \in TagsOf(family, b)
        /\ b \in BlocksOf(layout) => t = b
    <3>1. CASE Len(open) = 2
      <4>1. b = "Message" /\ t \in Range(family.containers)
        BY <1>1, <1>4, <3>1 DEF Nested, Innermost
      <4> QED
        BY <1>1, <4>1 DEF TagsOf, Fits, TreeFits
    <3>2. CASE Len(open) # 2
      <4>1. Len(open) \in 3 .. Len(open)
        <5>1. Len(open) \in Nat
          BY <1>2
        <5>2. \A n \in Nat : n >= 2 /\ n # 2 => n \in 3 .. n
          OBVIOUS
        <5> QED
          BY <2>1, <3>2, <5>1, <5>2, Zenon
      <4>2. b \in BlocksOf(layout) /\ t = b
        BY <1>1, <4>1 DEF Nested, Innermost
      <4>3. b # "Message"
        BY <1>1, <4>2 DEF Fits, TreeFits
      <4> QED
        BY <4>2, <4>3 DEF TagsOf
    <3> QED
      BY <3>1, <3>2
  <2>3. /\ t \in DOMAIN family.ends <=> b \in DOMAIN layout.gives
        /\ b \in DOMAIN layout.gives =>
             /\ family.ends[t].level = layout.gives[b]
             /\ family.ends[t].always = ~(layout.gives[b] = "GROUP" /\ b = "Message")
             /\ b \in layout.amounts => family.ends[t].fallible
             /\ layout.gives[b] # Null
    BY <1>1, <2>2 DEF Fits, EndsFit
  <2>4. depth # Null /\ emitted = asked
    BY <1>1, <1>4, NullIsNothing DEF InStep
  <2>5. EndDue = IF b \in DOMAIN layout.gives
                    /\ (layout.gives[b] = "GROUP" /\ b = "Message" => ~asked)
                 THEN layout.gives[b] ELSE Null
    BY <2>1 DEF EndDue
  <2>6. GivesRow(t) <=>
          /\ t \in DOMAIN family.ends
          /\ family.ends[t].always \/ ~asked
    BY <2>4 DEF GivesRow
  <2> HIDE DEF b, t
  <2>7. /\ GivesRow(t) <=> EndDue # Null
        /\ EndDue # Null =>
             /\ EndDue = layout.gives[b] /\ b \in DOMAIN layout.gives
             /\ family.ends[t].level = EndDue
             /\ b \in layout.amounts => family.ends[t].fallible
    BY <2>3, <2>5, <2>6
  <2> QED
    BY <1>2, <1>4, <2>2, <2>7 DEF b, t
<1> QED
  BY <1>3, <1>4

\* The innermost element closes.
LEMMA PlaceEnds ==
  ASSUME PlaceInv, ElementEnds
  PROVE  PlaceInv' /\ EndsStep
<1> DEFINE t == Innermost.tag
           n == Len(open) - 1
<1>1. /\ Reading /\ open # <<>> /\ sound /\ Chosen /\ Nested /\ InStep /\ Seen
      /\ Fits(family, layout) /\ UNCHANGED <<layout, messages, opens, asked, met>>
      /\ open' = SubSeq(open, 1, n)
      /\ message' = IF Len(open) = 2 THEN "none" ELSE message
  BY Fitting DEF ElementEnds, PlaceInv
<1>2. PICK ok \in BOOLEAN :
        /\ ~ok => EndDue # Null /\ Innermost.block \in layout.amounts
        /\ gave' = (gave \/ (EndDue # Null /\ ok))
        /\ sound' = (sound /\ ok)
        /\ Reads([Event("close", t) EXCEPT !.sound = ok])
  BY DEF ElementEnds
<1> DEFINE e == [Event("close", t) EXCEPT !.sound = ok]
<1>3. Reads(e) /\ e.tag = "close" /\ e.name = t /\ e.sound = ok
  <2>1. Is(e, "close", t, <<>>, Null, NoneOwn, ok)
    BY Events
  <2> QED
    BY <1>2, <2>1 DEF Is
<1> HIDE DEF e
<1>4. /\ Len(open) \in Nat \ {0} /\ (EndDue # Null => Own)
      /\ GivesRow(t) <=> EndDue # Null
      /\ EndDue # Null =>
           /\ EndDue = layout.gives[Innermost.block]
           /\ Innermost.block \in DOMAIN layout.gives
           /\ family.ends[t].level = EndDue
           /\ Innermost.block \in layout.amounts => family.ends[t].fallible
  BY <1>1, GivesWhereDue
<1> HIDE DEF t
<1>5. /\ RowFails(e) <=> ~ok
      /\ UNCHANGED <<family, topic, emitted>>
      /\ ~ok => result' = "failed"
      /\ ok => /\ result' = result /\ path' = SubSeq(path, 1, Len(path) - 1)
               /\ depth' = IF depth = Len(path) - 1 THEN Null ELSE depth
               /\ GivesRow(t) =>
                    saw' = \/ saw
                           \/ family.sawAt \in {"row", family.ends[t].level}
               /\ ~GivesRow(t) => UNCHANGED saw
  <2>1. RowFails(e) <=> ~ok
    BY <1>2, <1>3, <1>4 DEF RowFails
  <2> QED
    BY <1>3, <2>1, CloseRead
<1>6. Chosen' /\ Elements' = Elements /\ BlocksOf(layout)' = BlocksOf(layout)
  BY <1>1, <1>5, StaysChosen
<1>7. CASE ~ok
  BY <1>2, <1>5, <1>6, <1>7 DEF PlaceInv, EndsStep, Reading
<1>8. CASE ok
  <2>1. /\ open' \in Seq(Elements) /\ Len(open') = n
        /\ \A i \in 1 .. n : open'[i] = open[i]
        /\ Len(path) = Len(open) /\ n \in Nat
        /\ path' = [i \in 1 .. Len(open') |-> open'[i].tag]
    <3>1. open \in Seq(Elements) /\ path = [i \in 1 .. Len(open) |-> open[i].tag]
      BY <1>1 DEF Nested, InStep
    <3>2. n = Len(open) - 1
      OBVIOUS
    <3> HIDE DEF n
    <3>3. /\ SubSeq(open, 1, n) \in Seq(Elements) /\ Len(SubSeq(open, 1, n)) = n
          /\ \A i \in 1 .. n : SubSeq(open, 1, n)[i] = open[i]
          /\ Len(path) = Len(open) /\ n \in Nat
          /\ SubSeq(path, 1, n) = [i \in 1 .. Len(SubSeq(open, 1, n)) |->
                                     SubSeq(open, 1, n)[i].tag]
      BY <1>1, <3>1, <3>2, PathShrinks
    <3> QED
      BY <1>1, <1>5, <1>8, <3>2, <3>3
  <2>2. /\ Len(open) = n + 1
        /\ message \in {"none", "own", "foreign"}
        /\ message = "none" <=> Len(open) < 2
    BY <1>1, <1>4 DEF Nested
  <2>3. /\ message' = "none" <=> n < 2
        /\ message' \in {"none", message}
    BY <1>1, <2>1, <2>2
  <2>4. Nested'
    <3>1. ASSUME NEW i \in 3 .. n
          PROVE  /\ open'[i].block \in BlocksOf(layout)
                 /\ open'[i].tag = open'[i].block
                 /\ layout.under[open'[i].block] = open'[i - 1].block
      <4>1. i \in 3 .. Len(open) /\ i \in 1 .. n /\ i - 1 \in 1 .. n
        <5> HIDE DEF n
        <5> QED
          BY <2>1, <2>2
      <4>2. open'[i] = open[i] /\ open'[i - 1] = open[i - 1]
        BY <2>1, <4>1
      <4> QED
        BY <1>1, <4>1, <4>2 DEF Nested
    <3>2. n >= 1 => open'[1] = open[1]
      BY <2>1
    <3>3. n >= 2 => open'[2] = open[2] /\ message' = message /\ Len(open) >= 2
      BY <2>1, <2>2, <2>3
    <3>4. UNCHANGED <<family, layout, messages, opens>>
      BY <1>1, <1>5
    <3> HIDE DEF n
    <3> QED
      BY <1>1, <1>6, <2>1, <2>2, <2>3, <3>1, <3>2, <3>3, <3>4 DEF Nested, Own
  <2>5. InStep'
    <3>1. depth' = IF Own' THEN 1 ELSE Null
      <4>1. depth = (IF Own THEN 1 ELSE Null)
            /\ depth' = IF depth = n THEN Null ELSE depth
        BY <1>1, <1>5, <1>8, <2>1 DEF InStep
      <4>2. CASE Own
        <5>1. depth = 1
          BY <4>1, <4>2
        <5>2. CASE n = 1
          BY <2>3, <4>1, <5>1, <5>2 DEF Own
        <5>3. CASE n # 1
          <6>1. n >= 2
            BY <2>1, <2>2, <4>2, <5>3 DEF Own
          <6> QED
            BY <1>1, <2>2, <2>3, <4>1, <4>2, <5>1, <5>3, <6>1 DEF Own
        <5> QED
          BY <5>2, <5>3
      <4>3. CASE ~Own
        BY <2>3, <4>1, <4>3 DEF Own
      <4> QED
        BY <4>2, <4>3
    <3>2. Own' => emitted' = asked'
      <4>1. Own' => Own
        BY <2>3 DEF Own
      <4> QED
        BY <1>1, <1>5, <4>1 DEF InStep
    <3> QED
      BY <2>1, <3>1, <3>2 DEF InStep
  <2>6. Seen'
    <3>1. /\ Own' => Own
          /\ Own /\ ~Own' => Innermost.block = "Message"
      <4>1. Own /\ ~Own' => Len(open) = 2
        BY <1>1 DEF Own
      <4> QED
        BY <1>1, <2>3, <4>1 DEF Own, Nested, Innermost
    <3>2. (gave' <=> gave \/ EndDue # Null) /\ (met' <=> met) /\ family' = family
      BY <1>1, <1>2, <1>5, <1>8
    <3>3. CASE EndDue # Null
      <4>1. saw' <=> saw \/ family.sawAt \in {"row", EndDue}
        BY <1>4, <1>5, <1>8, <3>3
      <4>2. Own /\ met
        BY <1>1, <1>4, <3>3 DEF Seen
      <4>3. family.sawAt \notin {"open", "row"} /\ ~Own' => saw'
        <5> SUFFICES ASSUME family.sawAt \notin {"open", "row"}, ~Own'
                     PROVE  saw'
          OBVIOUS
        <5>1. family.sawAt = layout.gives["Message"]
          BY <1>1 DEF Fits, EndsFit
        <5>2. EndDue = family.sawAt
          BY <1>4, <3>1, <3>3, <4>2, <5>1
        <5> QED
          BY <4>1, <5>2
      <4> QED
        BY <1>1, <3>1, <3>2, <3>3, <4>1, <4>2, <4>3 DEF Seen
    <3>4. CASE EndDue = Null
      <4>1. saw' = saw
        BY <1>4, <1>5, <1>8, <3>4
      <4>2. family.sawAt \notin {"open", "row"} => ~(Own /\ ~Own')
        <5> SUFFICES ASSUME family.sawAt \notin {"open", "row"}, Own, ~Own'
                     PROVE  FALSE
          OBVIOUS
        <5>1. /\ Innermost.block = "Message" /\ message = "own"
              /\ "Message" \in DOMAIN layout.gives
              /\ layout.gives["Message"] # "GROUP"
              /\ layout.gives["Message"] # Null
          BY <1>1, <3>1 DEF Fits, EndsFit, Own
        <5>2. EndDue = layout.gives["Message"]
          BY <5>1 DEF EndDue
        <5> QED
          BY <3>4, <5>1, <5>2
      <4> QED
        BY <1>1, <3>1, <3>2, <3>4, <4>1, <4>2 DEF Seen
    <3> QED
      BY <3>3, <3>4
  <2> QED
    BY <1>1, <1>2, <1>5, <1>6, <1>8, <2>4, <2>5, <2>6 DEF PlaceInv, EndsStep, Reading
<1> QED
  BY <1>7, <1>8

\* Where the reader stands is where the file does, at every moment.
LEMMA PlaceStep ==
  ASSUME PlaceInv, Next
  PROVE  PlaceInv' /\ EndsStep
<1>1. CASE Over
  <2>1. ~Reading /\ UNCHANGED vars
    BY <1>1 DEF Over
  <2>2. UNCHANGED <<family, topic, layout, result>>
    BY <2>1 DEF vars, readerVars, documentVars, where
  <2>3. Chosen'
    BY <2>2, StaysChosen DEF PlaceInv
  <2> QED
    BY <2>1, <2>2, <2>3 DEF PlaceInv, EndsStep, Reading
<1> QED
  BY <1>1, PlaceEnvelope, PlaceMessage, PlaceBlock, PlaceText, PlaceRecord,
     PlaceDetail, PlaceElsewhere, PlaceEnds, PlaceInputEnds DEF Next

\* It is at the start.
LEMMA PlaceStart ==
  ASSUME Init
  PROVE  PlaceInv
<1>1. PICK name \in DOMAIN Family :
        ReaderInit(Family[name]) /\ DocumentInit(Layout[name])
  BY DEF Init
<1>2. Chosen /\ sound
  BY <1>1 DEF Chosen, ReaderInit, DocumentInit
<1>3. Nested /\ InStep /\ Seen
  BY <1>1 DEF ReaderInit, DocumentInit, Nested, InStep, Seen, Own
<1> QED
  BY <1>2, <1>3 DEF PlaceInv

\* A step in which nothing changes.
LEMMA PlaceStays ==
  ASSUME PlaceInv, UNCHANGED vars
  PROVE  PlaceInv'
<1>1. /\ UNCHANGED <<family, topic, layout, result, sound>>
      /\ UNCHANGED <<where, path, depth, saw, emitted, asked, met, gave>>
  BY DEF vars, readerVars, documentVars, where
<1>2. Chosen'
  BY <1>1, StaysChosen DEF PlaceInv
<1>3. Reading => Nested' /\ InStep' /\ Seen'
  BY <1>1, StaysPut
<1> QED
  BY <1>1, <1>2, <1>3 DEF PlaceInv, Reading

(* A scan ends without an error only after the whole of a file with a message *)
(* of the family, all of it readable; and such a file does end so, if it was  *)
(* due any row: whatever the table and the layout, the messages of a file and *)
(* the blocks and texts in them, and where it is cut off.                     *)
THEOREM EndsHold == Spec => EndsAsItShould
<1>1. Init => PlaceInv
  BY PlaceStart
<1>2. PlaceInv /\ [Next]_vars => PlaceInv' /\ [EndsStep]_vars
  <2> SUFFICES ASSUME PlaceInv, [Next]_vars
               PROVE  PlaceInv' /\ [EndsStep]_vars
    OBVIOUS
  <2>1. CASE Next
    BY <2>1, PlaceStep
  <2>2. CASE UNCHANGED vars
    BY <2>2, PlaceStays
  <2> QED
    BY <2>1, <2>2
<1>3. Spec => [][EndsStep]_vars
  BY <1>1, <1>2, PTL DEF Spec
<1> QED
  BY <1>3, PTL DEF EndsAsItShould, EndsStep

-----------------------------------------------------------------------------
(* Blocks and the fields they say.                                         *)

\* A block is open within what its parent is, and is not there already.
LEMMA AroundGrows ==
  ASSUME NEW f, NEW l, Fits(f, l), NEW b \in BlocksOf(l)
  PROVE  /\ l.under[b] \in BlocksOf(l) \cup {"Message"}
         /\ Around(l, b) = {b} \cup Around(l, l.under[b])
         /\ b \notin Around(l, l.under[b])
         /\ b # "Message" /\ b # l.under[b]
<1>1. /\ "Message" \notin BlocksOf(l)
      /\ \/ l.under[b] = "Message"
         \/ l.under[b] \in BlocksOf(l) /\ l.under[l.under[b]] = "Message"
  BY DEF Fits, TreeFits
<1>2. CASE l.under[b] = "Message"
  BY <1>1, <1>2 DEF Around
<1>3. CASE l.under[b] \in BlocksOf(l) /\ l.under[l.under[b]] = "Message"
  BY <1>1, <1>3 DEF Around
<1> QED
  BY <1>1, <1>2, <1>3

\* The one block that says a field, and the one throughout which it holds.
LEMMA HomeIs ==
  ASSUME NEW f, NEW l, Fits(f, l), NEW x \in Watched(f)
  PROVE  /\ HomeOf(l, x) \in BlocksOf(l) \cup {"Message"}
         /\ ScopeOf(l, x) \in BlocksOf(l) \cup {"Message"}
         /\ ScopeOf(l, x) \in Around(l, HomeOf(l, x))
         /\ \A b \in BlocksOf(l) :
              /\ x \in Within(l, b) => HomeOf(l, x) = b /\ ScopeOf(l, x) = b
              /\ x \in After(l, b) =>
                   HomeOf(l, x) = b /\ ScopeOf(l, x) = l.under[b]
              /\ HomeOf(l, x) = b => x \in Within(l, b) \cup After(l, b)
<1> DEFINE homes == {b \in BlocksOf(l) : x \in Within(l, b) \cup After(l, b)}
           home == HomeOf(l, x)
<1>1. home = IF homes = {} THEN "Message" ELSE CHOOSE b \in homes : TRUE
  BY DEF HomeOf, BlocksOf
<1>2. HomesFit(f, l) /\ "Message" \notin BlocksOf(l)
  BY DEF Fits, TreeFits
<1>3. ASSUME NEW b \in homes, NEW c \in homes
      PROVE  b = c
  BY <1>2 DEF HomesFit
<1>4. IF homes = {} THEN home = "Message" ELSE home \in homes
  BY <1>1
<1>5. \A b \in BlocksOf(l) :
        x \in Within(l, b) \cup After(l, b) <=> home = b
  BY <1>2, <1>3, <1>4
<1>6. home \in BlocksOf(l) \cup {"Message"}
  BY <1>4
<1>7. x \notin After(l, "Message")
  <2>1. "Message" \notin DOMAIN l.after
    BY <1>2 DEF HomesFit
  <2> QED
    BY <2>1 DEF After, Of
<1> HIDE DEF home
<1>8. ScopeOf(l, x) = IF x \in After(l, home) THEN l.under[home] ELSE home
  BY DEF ScopeOf, home
<1>9. \A b \in BlocksOf(l) : x \in Within(l, b) => x \notin After(l, b)
  BY <1>2 DEF HomesFit
<1>10. x \in After(l, home) => home \in BlocksOf(l)
  BY <1>6, <1>7
<1>11. ScopeOf(l, x) \in Around(l, home)
  BY <1>8, <1>10, <1>2 DEF Around
<1>12. ScopeOf(l, x) \in BlocksOf(l) \cup {"Message"}
  BY <1>6, <1>8, <1>10, AroundGrows
<1> QED
  BY <1>5, <1>6, <1>8, <1>9, <1>11, <1>12 DEF home

\* The open blocks, and the innermost of them.
LEMMA Inside ==
  ASSUME PlaceInv, Reading, message # "none"
  PROVE  /\ Len(open) \in Nat /\ Len(open) >= 2 /\ open \in Seq(Elements)
         /\ Innermost = open[Len(open)] /\ Innermost.no \in Nat
         /\ Innermost.block \in BlocksOf(layout) \cup {"Message"}
         /\ Innermost.block = "Message" <=> Len(open) = 2
         /\ Innermost.block # "Message" =>
              layout.under[Innermost.block] = open[Len(open) - 1].block
         /\ \A j \in 2 .. Len(open) :
              open[j].block = Innermost.block => j = Len(open)
<1>1. Chosen /\ Nested /\ Fits(family, layout)
  BY Fitting DEF PlaceInv
<1> DEFINE n == Len(open)
<1>2. n \in Nat /\ n >= 2 /\ open \in Seq(Elements)
  BY <1>1 DEF Nested
<1>3. /\ open[2].block = "Message" /\ "Message" \notin BlocksOf(layout)
      /\ \A i \in 3 .. n : /\ open[i].block \in BlocksOf(layout)
                           /\ layout.under[open[i].block] = open[i - 1].block
  BY <1>1, <1>2 DEF Nested, Fits, TreeFits
<1>4. Innermost = open[n] /\ open[n] \in Elements
  <2>1. n \in 1 .. n /\ open \in [1 .. n -> Elements]
    BY <1>2
  <2> HIDE DEF n
  <2> QED
    BY <2>1 DEF Innermost, n
<1>5. open[n].no \in Nat
  BY <1>4 DEF Elements
<1> HIDE DEF n
<1>6. n = 2 \/ n \in 3 .. n
  BY <1>2
<1>7. ASSUME NEW i \in 3 .. n
      PROVE  /\ i - 1 = 2 \/ i - 1 \in 3 .. n
             /\ i - 1 \in 2 .. n /\ i \in Nat
  BY <1>2
<1>8. ASSUME NEW j \in 2 .. n, NEW i \in 2 .. n, j < i
      PROVE  open[j].block # open[i].block
  <2> DEFINE blk(k) == open[k].block
  <2>1. \A k \in 3 .. n : blk(k) \in BlocksOf(layout) /\ blk(k) # "Message"
                          /\ layout.under[blk(k)] = blk(k - 1)
                          /\ blk(k) # blk(k - 1)
                          /\ blk(k) \notin Around(layout, blk(k - 1))
    BY <1>1, <1>3, AroundGrows
  <2>2. \A k \in 5 .. n : FALSE
    <3> SUFFICES ASSUME NEW k \in 5 .. n
                 PROVE  FALSE
      OBVIOUS
    <3>1. k \in 3 .. n /\ k - 1 \in 3 .. n /\ k - 2 \in 3 .. n /\ (k - 1) - 1 = k - 2
      BY <1>2
    <3>2. /\ blk(k) \in BlocksOf(layout) /\ layout.under[blk(k)] = blk(k - 1)
          /\ blk(k - 1) \in BlocksOf(layout)
          /\ layout.under[blk(k - 1)] = blk(k - 2)
          /\ blk(k - 2) \in BlocksOf(layout)
      BY <2>1, <3>1
    <3> QED
      BY <1>1, <1>3, <3>2 DEF Fits, TreeFits
  <2>3. n <= 4
    <3>1. n >= 5 => 5 \in 5 .. n
      BY <1>2
    <3> QED
      BY <1>2, <2>2, <3>1
  <2>4. i \in 3 .. n /\ (j = i - 1 \/ (j = 2 /\ i = 4))
    BY <1>2, <2>3, <1>8
  <2>5. blk(2) = "Message"
    BY <1>3
  <2> QED
    BY <2>1, <2>4, <2>5
<1>9. \A j \in 2 .. n : open[j].block = open[n].block => j = n
  <2>1. n \in 2 .. n /\ \A j \in 2 .. n : j = n \/ j < n
    BY <1>2
  <2> QED
    BY <1>8, <2>1
<1>10. CASE n = 2
  BY <1>2, <1>3, <1>4, <1>5, <1>9, <1>10 DEF n
<1>11. CASE n \in 3 .. n
  <2>1. n # 2
    BY <1>11
  <2> QED
    BY <1>2, <1>3, <1>4, <1>5, <1>9, <1>11, <2>1 DEF n
<1> QED
  BY <1>6, <1>10, <1>11

-----------------------------------------------------------------------------
(* What a field is.                                                        *)

\* A field is blank exactly if nothing is said of it; else it is what was said
\* last, or first, or all of it.
LEMMA MeantSays ==
  ASSUME NEW f \in topic, NEW S, said[f] \in Seq(S)
  PROVE  /\ Meant(f) = <<>> <=> said[f] = <<>>
         /\ \A i \in DOMAIN Meant(f) :
              \E j \in DOMAIN said[f] : Meant(f)[i] = said[f][j]
<1>1. CASE f \in family.lists \/ said[f] = <<>>
  BY <1>1 DEF Meant
<1>2. CASE ~(f \in family.lists \/ said[f] = <<>>)
  <2> DEFINE preferred == {i \in DOMAIN said[f] : said[f][i].how = "set"}
             k == IF preferred = {} THEN 1 ELSE Min(preferred)
  <2>1. DOMAIN said[f] = 1 .. Len(said[f]) /\ Len(said[f]) \in Nat \ {0}
    BY <1>2
  <2>2. k \in DOMAIN said[f]
    <3>1. preferred \subseteq Nat /\ preferred \subseteq DOMAIN said[f]
      BY <2>1
    <3>2. 1 \in DOMAIN said[f]
      BY <2>1
    <3> HIDE DEF preferred
    <3> QED
      BY <3>1, <3>2, MinIn
  <2>3. Meant(f) = <<said[f][k]>>
    BY <1>2 DEF Meant
  <2> HIDE DEF k
  <2> QED
    BY <1>2, <2>2, <2>3
<1> QED
  BY <1>1, <1>2

\* It stays what it is while nothing more is said of it.
LEMMA MeantStays ==
  ASSUME NEW f, UNCHANGED family, said'[f] = said[f]
  PROVE  Meant(f)' = Meant(f)
  BY DEF Meant

\* Nothing said, nothing meant.
LEMMA NothingMeant ==
  ASSUME NEW f, said'[f] = <<>>
  PROVE  Meant(f)' = <<>>
  BY DEF Meant

\* The fields that are watched are fields of the rows.
LEMMA Watching ==
  ASSUME Chosen
  PROVE  topic \subseteq Watched(family)
  BY DEF Chosen, Watched

\* Where nothing is said, nothing is amiss.
LEMMA NothingSaid ==
  ASSUME said' \in [topic' -> Seq(Sayings')], \A f \in topic' : said'[f] = <<>>
  PROVE  SaidInv'
  BY DEF SaidInv

\* Only in a message of the family is anything said.
LEMMA OnlyOwnSays ==
  ASSUME SaidInv, ~Own, UNCHANGED <<topic, said>>
  PROVE  SaidInv' /\ \A f \in topic : said[f] = <<>>
<1>1. said \in [topic -> Seq(Sayings)] /\ \A f \in topic : said[f] = <<>>
  BY DEF SaidInv
<1>2. Sayings' = Sayings
  BY DEF Sayings
<1> QED
  BY <1>1, <1>2, NothingSaid

-----------------------------------------------------------------------------
(* The row of a place is the one it is due.                                *)

\* At a place whose block has said what it must, the context is what covers it.
LEMMA KeptAt ==
  ASSUME PlaceInv, Reading, Own, SaidInv, KeptInv, LeavesDone, NEW x \in topic,
         \/ IsOpen(ScopeOf(layout, x))
         \/ x \in Clears(family, ScopeOf(layout, x))
  PROVE  ctx[x] = Meant(x)
<1>1. ~Awaited(x)
  BY DEF Awaited, LeavesDone, Home, Leaves
<1>2. CASE IsOpen(ScopeOf(layout, x))
  BY <1>1, <1>2 DEF KeptInv
<1>3. CASE ~IsOpen(ScopeOf(layout, x))
  <2>1. ctx[x] = <<>> /\ said[x] = <<>>
    BY <1>3 DEF KeptInv, SaidInv
  <2> QED
    BY <2>1 DEF Meant
<1> QED
  BY <1>2, <1>3

\* A field that needs others beside it has one.
LEMMA NeedsMet ==
  ASSUME Own, SaidInv, LeavesDone, NEW x \in topic, x \in DOMAIN layout.needs,
         said[x] # <<>>
  PROVE  \E y \in layout.needs[x] \cap topic : said[y] # <<>>
<1>1. CASE Leaves(x)
  BY <1>1 DEF LeavesDone, Home, Leaves
<1>2. CASE ~Leaves(x)
  BY <1>2 DEF SaidInv
<1> QED
  BY <1>1, <1>2

\* The fields a bundle is taken from.
LEMMA Sourced ==
  ASSUME NEW b, NEW i \in DOMAIN b.sources, NEW k \in DOMAIN b.sources[i]
  PROVE  b.sources[i][k] \in FieldsOf(b) /\ b.sources[i][k] \in Range(b.sources[i])
<1>1. b.sources[i][k] \in Range(b.sources[i])
  BY DEF Range
<1>2. b.sources[i][k] \in {b.sources[i][m] : m \in DOMAIN b.sources[i]}
  OBVIOUS
<1> QED
  BY <1>1, <1>2, Zenon DEF FieldsOf

\* What a record states for itself, at most one of the columns that are its own.
Statements ==
  {[k \in stated |-> Says(k, 0, 1, "set")] : stated \in Statable}

\* What a row takes from a bundle is what it is due.
LEMMA BundleIsDue ==
  ASSUME PlaceInv, Reading, Own, SaidInv, KeptInv, LeavesDone,
         NEW level \in LevelsAt(layout, Innermost.block),
         NEW b \in Bundles(level),
         NEW own, own = NoneOwn \/ (level = "TRANSACTION" /\ own \in Statements)
  PROVE  Value(b, own, ctx) = DueBundle(b, own)
<1>1. Chosen /\ Fits(family, layout)
  BY Fitting DEF PlaceInv
<1>2. message # "none" /\ Innermost.block \in BlocksOf(layout) \cup {"Message"}
  <2>1. message # "none"
    BY DEF Own
  <2> QED
    BY <2>1, Inside
<1>3. /\ level \in DOMAIN family.rows /\ b \in family.rows[level]
      /\ \A x \in FieldsOf(b) : \/ ScopeOf(layout, x) \in Around(layout, Innermost.block)
                                \/ x \in Clears(family, ScopeOf(layout, x))
  BY <1>1, <1>2 DEF Fits, RowsFit, Bundles
<1> DEFINE n == Len(b.sources)
           columns == DOMAIN b.sources[1]
           x(i, k) == b.sources[i][k]
           reach(i) == Reach(layout, b.sources[i])
<1>4. /\ b.sources \in Seq(Range(b.sources)) /\ b.sources # <<>>
      /\ level = "TRANSACTION" /\ columns \cap layout.own # {} => b.own
      /\ b.by \subseteq columns
      /\ \A i \in DOMAIN b.sources :
           /\ DOMAIN b.sources[i] = columns /\ reach(i) \in Nat
           /\ \A j \in i + 1 .. n : reach(i) > reach(j)
           /\ i # n => \A k \in columns \ b.by :
                         /\ x(i, k) \in DOMAIN layout.needs
                         /\ layout.needs[x(i, k)] \subseteq {x(i, m) : m \in b.by}
  BY <1>1, <1>3 DEF Fits, BundlesFit
<1>5. n \in Nat \ {0} /\ DOMAIN b.sources = 1 .. n
  BY <1>4
<1>6. ASSUME NEW i \in 1 .. n, NEW k \in columns
      PROVE  /\ x(i, k) \in topic /\ ctx[x(i, k)] = Meant(x(i, k))
             /\ ctx[x(i, k)] = <<>> <=> said[x(i, k)] = <<>>
  <2>1. x(i, k) \in FieldsOf(b) /\ x(i, k) \in Range(b.sources[i])
    <3>1. i \in DOMAIN b.sources /\ k \in DOMAIN b.sources[i]
      BY <1>4, <1>5
    <3> QED
      BY <3>1, Sourced
  <2>2. x(i, k) \in topic
    BY <1>5, <2>1 DEF Bundles
  <2> HIDE DEF x
  <2>3. ctx[x(i, k)] = Meant(x(i, k))
    BY <1>3, <2>1, <2>2, KeptAt DEF IsOpen
  <2>4. said[x(i, k)] \in Seq(Sayings)
    BY <2>2 DEF SaidInv
  <2> QED
    BY <2>2, <2>3, <2>4, MeantSays
<1> DEFINE stating == Stating(b, ctx)
           sayers == {i \in 1 .. n : \E k \in columns : said[x(i, k)] # <<>>}
           taken == IF stating = {} THEN n ELSE Min(stating)
           chosen == CHOOSE i \in sayers : \A j \in sayers : reach(i) >= reach(j)
<1>7. stating \subseteq sayers /\ stating \subseteq 1 .. n
  BY <1>4, <1>5, <1>6 DEF Stating
<1>8. ASSUME NEW i \in sayers, i # n
      PROVE  i \in stating
  <2>1. PICK k \in columns : said[x(i, k)] # <<>>
    OBVIOUS
  <2>2. CASE k \in b.by
    BY <1>5, <1>6, <2>1, <2>2 DEF Stating
  <2>3. CASE k \notin b.by
    <3>1. /\ x(i, k) \in topic /\ x(i, k) \in DOMAIN layout.needs
          /\ layout.needs[x(i, k)] \subseteq {x(i, m) : m \in b.by}
      BY <1>4, <1>5, <1>6, <1>8, <2>3
    <3> HIDE DEF x
    <3>2. PICK y \in layout.needs[x(i, k)] \cap topic : said[y] # <<>>
      BY <2>1, <3>1, NeedsMet
    <3>3. PICK m \in b.by : y = x(i, m)
      BY <3>1
    <3>4. i \in 1 .. n /\ m \in columns /\ ctx[x(i, m)] # <<>>
      BY <1>4, <1>6, <3>2, <3>3
    <3> QED
      BY <1>5, <3>4 DEF Stating, x
  <2> QED
    BY <2>2, <2>3
<1>9. ASSUME sayers # {}
      PROVE  taken = Min(sayers) /\ chosen = Min(sayers) /\ Min(sayers) \in 1 .. n
  <2> DEFINE m == Min(sayers)
  <2>1. sayers \subseteq 1 .. n
    OBVIOUS
  <2>2. \A i \in 1 .. n : reach(i) \in Nat /\ \A j \in i + 1 .. n : reach(i) > reach(j)
    BY <1>4, <1>5
  <2> HIDE DEF sayers, stating, reach
  <2>3. m \in sayers /\ \A i \in sayers : m <= i
    <3>1. sayers \subseteq Nat
      BY <1>5, <2>1
    <3> QED
      BY <1>9, <3>1, MinIn
  <2>4. taken = m
    <3>1. CASE stating = {}
      <4>1. m = n
        BY <1>8, <2>3, <3>1
      <4> QED
        BY <3>1, <4>1
    <3>2. CASE stating # {}
      <4>1. Min(stating) \in stating /\ \A i \in stating : Min(stating) <= i
        <5>1. stating \subseteq Nat
          BY <1>5, <1>7
        <5> QED
          BY <3>2, <5>1, MinIn
      <4>2. Min(stating) \in 1 .. n /\ m \in 1 .. n /\ m <= Min(stating)
        BY <1>7, <2>1, <2>3, <4>1
      <4>3. m \in stating => Min(stating) <= m
        BY <4>1
      <4>4. m = n \/ m \in stating
        BY <1>8, <2>3
      <4>5. m = Min(stating)
        <5> HIDE DEF m
        <5> QED
          BY <1>5, <4>2, <4>3, <4>4
      <4> QED
        BY <3>2, <4>5
    <3> QED
      BY <3>1, <3>2
  <2>5. chosen = m
    <3> HIDE DEF m
    <3>1. ASSUME NEW i \in sayers, \A j \in sayers : reach(i) >= reach(j)
          PROVE  i = m
      <4>1. i \in 1 .. n /\ m \in 1 .. n /\ m <= i /\ reach(i) >= reach(m)
        BY <2>1, <2>3, <3>1
      <4>2. CASE m < i
        <5>1. i \in m + 1 .. n
          BY <1>5, <4>1, <4>2
        <5>2. reach(m) > reach(i) /\ reach(m) \in Nat /\ reach(i) \in Nat
          BY <2>2, <4>1, <5>1
        <5> QED
          BY <4>1, <5>2
      <4> QED
        BY <1>5, <4>1, <4>2
    <3>2. \A j \in sayers : reach(m) >= reach(j)
      <4> SUFFICES ASSUME NEW j \in sayers
                   PROVE  reach(m) >= reach(j)
        OBVIOUS
      <4>1. j \in 1 .. n /\ m \in 1 .. n /\ m <= j
        BY <2>1, <2>3
      <4>2. CASE m < j
        <5>1. j \in m + 1 .. n
          BY <1>5, <4>1, <4>2
        <5>2. reach(m) > reach(j) /\ reach(m) \in Nat /\ reach(j) \in Nat
          BY <2>2, <4>1, <5>1
        <5> QED
          BY <5>2
      <4>3. CASE m = j
        BY <2>2, <4>1, <4>3
      <4> QED
        BY <1>5, <4>1, <4>2, <4>3
    <3> QED
      BY <2>3, <3>1, <3>2
  <2> QED
    BY <2>1, <2>3, <2>4, <2>5
<1>10. DOMAIN own \cap columns # {} => b.own
  <2>1. CASE own = NoneOwn
    BY <2>1 DEF NoneOwn
  <2>2. CASE level = "TRANSACTION" /\ own \in Statements
    <3>1. PICK stated \in Statable : DOMAIN own = stated
      BY <2>2 DEF Statements
    <3>2. stated \subseteq layout.own
      BY DEF Statable
    <3> QED
      BY <1>4, <2>2, <3>1, <3>2
  <2> QED
    BY <2>1, <2>2
<1> DEFINE v(k) == IF b.own /\ DOMAIN own \cap columns # {}
                   THEN IF k \in DOMAIN own THEN <<own[k]>> ELSE <<>>
                   ELSE ctx[x(taken, k)]
           w(k) == IF DOMAIN own \cap columns # {}
                   THEN IF k \in DOMAIN own THEN <<own[k]>> ELSE <<>>
                   ELSE IF sayers = {} THEN <<>> ELSE Meant(x(chosen, k))
<1>11. Value(b, own, ctx) = [k \in columns |-> v(k)]
  BY DEF Value
<1>12. DueBundle(b, own) = [k \in columns |-> w(k)]
  BY <1>5 DEF DueBundle
<1>13. ASSUME NEW k \in columns
       PROVE  v(k) = w(k)
  <2>1. CASE DOMAIN own \cap columns # {}
    BY <1>10, <2>1
  <2>2. CASE DOMAIN own \cap columns = {} /\ sayers = {}
    <3>1. stating = {} /\ taken = n /\ n \in 1 .. n
      BY <1>5, <1>7, <2>2
    <3>2. said[x(n, k)] = <<>>
      BY <2>2, <3>1
    <3>3. ctx[x(n, k)] = <<>>
      BY <1>6, <3>1, <3>2
    <3> HIDE DEF sayers, stating, taken, x, chosen
    <3> QED
      BY <2>2, <3>1, <3>3
  <2>3. CASE DOMAIN own \cap columns = {} /\ sayers # {}
    <3>1. taken = chosen /\ taken \in 1 .. n
      BY <1>9, <2>3
    <3>2. ctx[x(taken, k)] = Meant(x(taken, k))
      <4> HIDE DEF taken, x
      <4> QED
        BY <1>6, <3>1
    <3> HIDE DEF sayers, stating, taken, x, chosen
    <3> QED
      BY <2>3, <3>1, <3>2
  <2> QED
    BY <2>1, <2>2, <2>3
<1> HIDE DEF v, w
<1> QED
  BY <1>11, <1>12, <1>13

\* Nor does it put together what different blocks say.
LEMMA BundleIsWhole ==
  ASSUME PlaceInv, Reading, Own, SaidInv, KeptInv, LeavesDone,
         NEW level \in LevelsAt(layout, Innermost.block),
         NEW b \in Bundles(level),
         NEW own, own = NoneOwn \/ (level = "TRANSACTION" /\ own \in Statements),
         NEW v, v = Value(b, own, ctx),
         NEW k \in DOMAIN v, NEW m \in DOMAIN v,
         NEW i \in DOMAIN v[k], NEW j \in DOMAIN v[m]
  PROVE  v[k][i].in = v[m][j].in
<1>1. Chosen /\ Fits(family, layout)
  BY Fitting DEF PlaceInv
<1>2. message # "none" /\ Innermost.block \in BlocksOf(layout) \cup {"Message"}
  <2>1. message # "none"
    BY DEF Own
  <2> QED
    BY <2>1, Inside
<1>3. /\ level \in DOMAIN family.rows /\ b \in family.rows[level]
      /\ \A x \in FieldsOf(b) : \/ ScopeOf(layout, x) \in Around(layout, Innermost.block)
                                \/ x \in Clears(family, ScopeOf(layout, x))
  BY <1>1, <1>2 DEF Fits, RowsFit, Bundles
<1> DEFINE n == Len(b.sources)
           columns == DOMAIN b.sources[1]
           taken == IF Stating(b, ctx) = {} THEN n ELSE Min(Stating(b, ctx))
<1>4. /\ b.sources \in Seq(Range(b.sources)) /\ b.sources # <<>>
      /\ \A s \in DOMAIN b.sources :
           /\ DOMAIN b.sources[s] = columns
           /\ \A c, d \in columns :
                HomeOf(layout, b.sources[s][c]) = HomeOf(layout, b.sources[s][d])
  BY <1>1, <1>3 DEF Fits, BundlesFit
<1>5. n \in Nat \ {0} /\ DOMAIN b.sources = 1 .. n
  BY <1>4
<1>6. v = [c \in columns |->
             IF b.own /\ DOMAIN own \cap columns # {}
             THEN IF c \in DOMAIN own THEN <<own[c]>> ELSE <<>>
             ELSE ctx[b.sources[taken][c]]]
  BY DEF Value
<1>7. taken \in 1 .. n
  <2>1. Stating(b, ctx) \subseteq Nat /\ Stating(b, ctx) \subseteq 1 .. n
    BY <1>5 DEF Stating
  <2>2. Stating(b, ctx) # {} => Min(Stating(b, ctx)) \in Stating(b, ctx)
    BY <2>1, MinIn
  <2>3. n \in 1 .. n
    BY <1>5
  <2> QED
    BY <2>1, <2>2, <2>3
<1> HIDE DEF taken
<1>8. CASE b.own /\ DOMAIN own \cap columns # {}
  <2>1. ASSUME NEW c \in DOMAIN v, NEW h \in DOMAIN v[c]
        PROVE  v[c][h].in = 0
    <3>1. v[c] = IF c \in DOMAIN own THEN <<own[c]>> ELSE <<>>
      BY <1>6, <1>8
    <3>2. c \in DOMAIN own /\ v[c][h] = own[c]
      BY <3>1
    <3>3. own # NoneOwn
      BY <3>2 DEF NoneOwn
    <3>4. PICK stated \in Statable : own = [d \in stated |-> Says(d, 0, 1, "set")]
      BY <3>3 DEF Statements
    <3>5. own[c] = Says(c, 0, 1, "set")
      BY <3>2, <3>4
    <3> QED
      BY <3>2, <3>5 DEF Says
  <2> QED
    BY <2>1
<1>9. CASE ~(b.own /\ DOMAIN own \cap columns # {})
  <2> DEFINE x(c) == b.sources[taken][c]
  <2>1. ASSUME NEW c \in DOMAIN v
        PROVE  /\ c \in columns /\ x(c) \in topic /\ v[c] = ctx[x(c)]
               /\ ctx[x(c)] = Meant(x(c))
    <3>1. c \in columns /\ v[c] = ctx[x(c)]
      BY <1>6, <1>9
    <3>2. taken \in DOMAIN b.sources /\ c \in DOMAIN b.sources[taken]
      BY <1>4, <1>5, <1>7, <3>1
    <3>3. x(c) \in FieldsOf(b) /\ x(c) \in Range(b.sources[taken])
      BY <3>2, Sourced
    <3>4. x(c) \in topic
      BY <3>2, <3>3 DEF Bundles
    <3> HIDE DEF x
    <3>5. ctx[x(c)] = Meant(x(c))
      BY <1>3, <3>3, <3>4, KeptAt DEF IsOpen
    <3> QED
      BY <3>1, <3>4, <3>5
  <2>2. HomeOf(layout, x(k)) = HomeOf(layout, x(m))
    BY <1>4, <1>5, <1>7, <2>1
  <2> HIDE DEF x
  <2>3. said[x(k)] \in Seq(Sayings) /\ said[x(m)] \in Seq(Sayings)
    BY <2>1 DEF SaidInv
  <2>4. PICK h \in DOMAIN said[x(k)] : v[k][i] = said[x(k)][h]
    BY <2>1, <2>3, MeantSays
  <2>5. PICK g \in DOMAIN said[x(m)] : v[m][j] = said[x(m)][g]
    BY <2>1, <2>3, MeantSays
  <2> QED
    BY <2>1, <2>2, <2>4, <2>5 DEF SaidInv
<1> QED
  BY <1>8, <1>9

\* Every bundle of a row takes its columns from one block.
Whole(r) ==
  \A bundle \in r.bundles : \A k, l \in DOMAIN bundle :
    \A i \in DOMAIN bundle[k], j \in DOMAIN bundle[l] :
      bundle[k][i].in = bundle[l][j].in

\* The row of a place is the one it is due.
LEMMA RowIsDue ==
  ASSUME PlaceInv, Reading, Own, SaidInv, KeptInv, LeavesDone,
         NEW level \in LevelsAt(layout, Innermost.block),
         NEW own, own = NoneOwn \/ (level = "TRANSACTION" /\ own \in Statements)
  PROVE  Row(level, own, ctx) = DueRow(level, own) /\ Whole(Row(level, own, ctx))
<1>1. \A b \in Bundles(level) : Value(b, own, ctx) = DueBundle(b, own)
  BY BundleIsDue
<1>2. {Value(b, own, ctx) : b \in Bundles(level)} =
        {DueBundle(b, own) : b \in Bundles(level)}
  BY <1>1
<1>3. Row(level, own, ctx) = DueRow(level, own)
  BY <1>2 DEF Row, DueRow
<1>4. ASSUME NEW bundle \in Row(level, own, ctx).bundles,
             NEW k \in DOMAIN bundle, NEW m \in DOMAIN bundle,
             NEW i \in DOMAIN bundle[k], NEW j \in DOMAIN bundle[m]
      PROVE  bundle[k][i].in = bundle[m][j].in
  <2>1. PICK b \in Bundles(level) : bundle = Value(b, own, ctx)
    BY DEF Row
  <2> QED
    BY <2>1, BundleIsWhole
<1> QED
  BY <1>3, <1>4 DEF Whole

\* So is that of a block, which states nothing but what covers it.
LEMMA EndRowIsDue ==
  ASSUME PlaceInv, Reading, Own, SaidInv, KeptInv, LeavesDone,
         NEW level \in LevelsAt(layout, Innermost.block)
  PROVE  /\ Row(level, NoneOwn, ctx) = DueRow(level, NoneOwn)
         /\ Whole(Row(level, NoneOwn, ctx))
<1> DEFINE own == NoneOwn
<1>1. own = NoneOwn \/ (level = "TRANSACTION" /\ own \in Statements)
  OBVIOUS
<1> HIDE DEF own
<1>2. Row(level, own, ctx) = DueRow(level, own) /\ Whole(Row(level, own, ctx))
  BY <1>1, RowIsDue
<1> QED
  BY <1>2 DEF own

-----------------------------------------------------------------------------
(* What is said and what is kept of it, event by event.                    *)

\* An event that is due no row and gives none.
LEMMA NoRow ==
  ASSUME row' = Null, due' = Null
  PROVE  RowInv'
  BY DEF RowInv, ReasonsAreWhole

\* Where there is no message of the family nothing is said or kept.
LEMMA Quiet ==
  ASSUME ContentInv, Reading, ~Own, ~Own', row' = Null, due' = Null,
         UNCHANGED <<topic, said>>
  PROVE  ContentInv'
<1>1. RowInv'
  BY NoRow
<1>2. SaidInv'
  BY OnlyOwnSays DEF ContentInv
<1> QED
  BY <1>1, <1>2 DEF ContentInv, KeptInv

\* The scan is over.
LEMMA Finished ==
  ASSUME row' = Null, due' = Null, ~Reading'
  PROVE  ContentInv'
  BY NoRow DEF ContentInv

\* The envelope opens.
LEMMA ContentEnvelope ==
  ASSUME PlaceInv, ContentInv, EnvelopeOpens
  PROVE  ContentInv'
<1> DEFINE e == Event("open", "Envelope")
<1>1. Reads(e) /\ e.tag = "open"
  <2>1. Is(e, "open", "Envelope", <<>>, Null, NoneOwn, TRUE)
    BY Events
  <2> QED
    BY <2>1 DEF EnvelopeOpens, Is
<1> HIDE DEF e
<1>2. UNCHANGED topic /\ row' = Null
  BY <1>1, OpenRead
<1>3. Reading /\ open = <<>> /\ due' = Null /\ UNCHANGED <<message, said>>
  BY DEF EnvelopeOpens
<1>4. ~Own /\ ~Own'
  BY <1>3 DEF PlaceInv, Nested, Own
<1> QED
  BY <1>2, <1>3, <1>4, Quiet

\* A message opens: of the family, with nothing said and all blank.
LEMMA ContentMessage ==
  ASSUME PlaceInv, PlaceInv', ContentInv, MessageOpens
  PROVE  ContentInv'
<1> DEFINE tags == family.containers
           tagOf(kind) == IF kind = "foreign" THEN "OtherMsg"
                          ELSE tags[(messages % Len(tags)) + 1]
           x(tag) == [block |-> "Message", tag |-> tag, no |-> opens + 1]
<1>1. PICK kind \in {"own", "foreign"} :
        /\ message' = kind
        /\ open' = Append(open, x(tagOf(kind)))
        /\ Reads(Event("open", tagOf(kind)))
  BY DEF MessageOpens
<1> DEFINE tag == tagOf(kind)
           e == Event("open", tag)
<1>2. Reads(e) /\ e.tag = "open" /\ e.name = tag
  <2>1. Is(e, "open", tag, <<>>, Null, NoneOwn, TRUE)
    BY Events
  <2> QED
    BY <1>1, <2>1 DEF Is
<1>3. Reading /\ Len(open) = 1 /\ due' = Null /\ UNCHANGED <<layout, said>>
  BY DEF MessageOpens
<1>4. ~Own
  BY <1>3 DEF PlaceInv, Nested, Own
<1> HIDE DEF e, tag
<1>5. /\ UNCHANGED <<family, topic, result>> /\ row' = Null
      /\ IsContainer(tag) => ctx' = Blank
  BY <1>2, OpenRead
<1>6. CASE kind = "foreign"
  BY <1>1, <1>3, <1>4, <1>5, <1>6, Quiet DEF Own
<1>7. CASE kind = "own"
  <2>1. SaidInv' /\ \A f \in topic : said[f] = <<>>
    BY <1>3, <1>4, <1>5, OnlyOwnSays DEF ContentInv
  <2>2. IsContainer(tag)
    <3>1. tags \in Seq(STRING) /\ tags # <<>> /\ messages \in Nat
      BY <1>3, Fitting DEF PlaceInv, Fits, TreeFits, Nested
    <3>2. Len(tags) \in Nat \ {0} /\ DOMAIN tags = 1 .. Len(tags)
      <4> HIDE DEF tags
      <4> QED
        BY <3>1
    <3>3. (messages % Len(tags)) + 1 \in DOMAIN tags
      <4> HIDE DEF tags
      <4> QED
        BY <3>1, <3>2
    <3> QED
      BY <1>7, <3>3 DEF IsContainer, Range, tag
  <2>3. \A f \in topic : ctx'[f] = <<>> /\ Meant(f)' = <<>>
    <3>1. \A f \in topic : said'[f] = <<>>
      BY <1>3, <2>1
    <3>2. \A f \in topic : Meant(f)' = <<>>
      BY <3>1, NothingMeant
    <3> QED
      BY <1>5, <2>2, <3>2 DEF Blank
  <2>4. KeptInv'
    BY <1>5, <2>3 DEF KeptInv
  <2>5. RowInv'
    BY <1>3, <1>5, NoRow
  <2> QED
    BY <2>1, <2>4, <2>5 DEF ContentInv
<1> QED
  BY <1>6, <1>7

\* A text of another message strays.
LEMMA ContentStray ==
  ASSUME PlaceInv, ContentInv, ~Irregular, TextStrays
  PROVE  ContentInv'
<1>1. /\ Reading /\ ~Own /\ due' = Null
      /\ UNCHANGED <<message, said>>
  BY DEF TextStrays, where, Own
<1>2. PICK at, v : Reads([Event("leaf", "") EXCEPT !.at = at, !.value = v])
  BY Zenon DEF TextStrays
<1> DEFINE e == [Event("leaf", "") EXCEPT !.at = at, !.value = v]
<1>3. Is(e, "leaf", "", at, v, NoneOwn, TRUE)
  BY Events
<1>4. Reads(e) /\ e.tag = "leaf"
  BY <1>2, <1>3 DEF Is
<1> HIDE DEF e
<1>5. UNCHANGED topic /\ row' = Null
  BY <1>4, LeafRead
<1> QED
  BY <1>1, <1>5, Quiet DEF Own

\* An element of the name of a record in another message.
LEMMA ContentElsewhere ==
  ASSUME PlaceInv, ContentInv, RecordElsewhere
  PROVE  ContentInv'
<1>1. Reading /\ ~Own /\ due' = Null /\ UNCHANGED <<message, said>>
  BY DEF RecordElsewhere, where, Own
<1>2. PICK name, at, v :
        Reads([Event("record", name) EXCEPT !.at = at, !.value = v])
  BY Zenon DEF RecordElsewhere
<1> DEFINE e == [Event("record", name) EXCEPT !.at = at, !.value = v]
<1>3. Is(e, "record", name, at, v, NoneOwn, TRUE)
  BY Events
<1>4. Reads(e) /\ e.tag = "record"
  BY <1>2, <1>3 DEF Is
<1> HIDE DEF e
<1>5. depth = Null
  BY <1>1, InTheMessage
<1>6. UNCHANGED topic /\ row' = Null
  BY <1>4, <1>5, WholeRead
<1> QED
  BY <1>1, <1>6, Quiet DEF Own

\* The input ends.
LEMMA ContentInputEnds ==
  ASSUME InputEnds
  PROVE  ContentInv'
<1> DEFINE e == Event("eof", "")
<1>1. Reads(e) /\ e.tag = "eof"
  <2>1. Is(e, "eof", "", <<>>, Null, NoneOwn, TRUE)
    BY Events
  <2> QED
    BY <2>1 DEF InputEnds, Is
<1> HIDE DEF e
<1>2. row' = Null /\ (result' = "ended" \/ result' = "failed")
  BY <1>1, EndRead
<1>3. due' = Null /\ ~Reading'
  BY <1>2 DEF InputEnds, Reading
<1> QED
  BY <1>2, <1>3, Finished

\* An event that gives the row it is due.
LEMMA DueRowGiven ==
  ASSUME row' = due', Whole(row')
  PROVE  RowInv'
  BY DEF RowInv, ReasonsAreWhole, Whole

\* The innermost block is past what it says itself.
LEMMA BodyStarts ==
  ASSUME PlaceInv, Reading, Own, SaidInv, KeptInv, LeavesDone,
         UNCHANGED <<family, topic, layout, open, message, said, ctx>>,
         stage' = "body"
  PROVE  SaidInv' /\ KeptInv'
<1>1. \A f \in topic : IsOpen(ScopeOf(layout, f)) => ctx[f] = Meant(f)
  BY KeptAt
<1>2. \A f \in topic : Meant(f)' = Meant(f)
  BY DEF Meant
<1>3. \A f : /\ IsOpen(ScopeOf(layout, f))' <=> IsOpen(ScopeOf(layout, f))
             /\ ~Leaves(f)'
  BY DEF IsOpen, Innermost, Leaves, ScopeOf, HomeOf, Within, After, Of, Around
<1>4. KeptInv'
  BY <1>1, <1>2, <1>3 DEF KeptInv, Own
<1>5. \A f \in topic : f \in DOMAIN layout.needs /\ said[f] # <<>> =>
        \E g \in layout.needs[f] \cap topic : said[g] # <<>>
  BY NeedsMet
<1>6. Sayings' = Sayings /\ (Own' <=> Own)
  BY DEF Sayings, Own
<1>7. SaidInv'
  <2>1. /\ said' \in [topic' -> Seq(Sayings')]
        /\ \A f \in topic : said[f] # <<>> => IsOpen(ScopeOf(layout, f))'
    BY <1>3, <1>6 DEF SaidInv
  <2>2. /\ stage' # "leaves" /\ layout' = layout /\ open' = open
        /\ \A f : HomeOf(layout, f)' = HomeOf(layout, f)
    BY DEF HomeOf, Within, After, Of
  <2>3. \A f \in topic : f \in DOMAIN layout'.needs /\ said'[f] # <<>> =>
          \E g \in layout'.needs[f] \cap topic' : said'[g] # <<>>
    BY <1>5
  <2>4. \A f \in topic' : \A i \in DOMAIN said'[f], j \in 2 .. Len(open') :
          open'[j].block = HomeOf(layout, f)' => said'[f][i].in = open'[j].no
    BY <2>2 DEF SaidInv
  <2>5. \A f, g \in topic' : HomeOf(layout, f)' = HomeOf(layout, g)' =>
          \A i \in DOMAIN said'[f], j \in DOMAIN said'[g] :
            said'[f][i].in = said'[g][j].in
    BY <2>2 DEF SaidInv
  <2> QED
    BY <1>6, <2>1, <2>2, <2>3, <2>4, <2>5 DEF SaidInv
<1> QED
  BY <1>4, <1>7

\* A record is met: a row, with what the record states and what covers it.
LEMMA ContentRecord ==
  ASSUME PlaceInv, ContentInv, RecordMet
  PROVE  ContentInv'
<1>1. /\ Reading /\ Own /\ SaidInv /\ KeptInv /\ LeavesDone /\ stage' = "body"
      /\ Innermost.block \in layout.records /\ UNCHANGED <<where, said>>
      /\ Fits(family, layout)
  BY Fitting DEF RecordMet, ContentInv, Own, PlaceInv
<1> DEFINE ownOf(stated) == [k \in stated |-> Says(k, 0, 1, "set")]
<1>2. PICK name \in family.records, stated \in Statable, ok \in BOOLEAN :
        /\ due' = IF ok THEN DueRow("TRANSACTION", ownOf(stated)) ELSE Null
        /\ Reads([Event("record", name) EXCEPT !.own = ownOf(stated),
                                                !.sound = ok])
  BY DEF RecordMet
<1> DEFINE own == ownOf(stated)
<1> DEFINE e == [Event("record", name) EXCEPT !.own = own, !.sound = ok]
<1>3. Is(e, "record", name, <<>>, Null, own, ok)
  BY Events
<1>4. Reads(e) /\ e.tag = "record" /\ e.name = name /\ e.own = own /\ e.sound = ok
  BY <1>2, <1>3 DEF Is
<1>5. own \in Statements
  BY DEF Statements
<1> HIDE DEF e, own
<1>6. name \notin DOMAIN family.details /\ depth # Null
  BY <1>1, <1>2, InTheMessage DEF Fits, EndsFit
<1>7. /\ UNCHANGED <<family, topic>>
      /\ ~ok => result' = "failed" /\ row' = Null
      /\ ok => row' = Row("TRANSACTION", own, ctx) /\ UNCHANGED ctx
  BY <1>4, <1>6, WholeRead
<1>8. CASE ~ok
  BY <1>2, <1>7, <1>8, Finished DEF Reading
<1>9. CASE ok
  <2>1. "TRANSACTION" \in LevelsAt(layout, Innermost.block)
    BY <1>1 DEF LevelsAt
  <2>2. /\ Row("TRANSACTION", own, ctx) = DueRow("TRANSACTION", own)
        /\ Whole(Row("TRANSACTION", own, ctx))
    BY <1>1, <1>5, <2>1, RowIsDue
  <2>3. RowInv'
    BY <1>2, <1>7, <1>9, <2>2, DueRowGiven DEF own
  <2>4. SaidInv' /\ KeptInv'
    BY <1>1, <1>7, <1>9, BodyStarts DEF where
  <2> QED
    BY <2>3, <2>4 DEF ContentInv
<1> QED
  BY <1>8, <1>9

-----------------------------------------------------------------------------
(* One more thing said.                                                    *)

\* The innermost block says one thing more of a field of its own.
LEMMA OneSaid ==
  ASSUME PlaceInv, Reading, Own, SaidInv,
         NEW x \in topic, HomeOf(layout, x) = Innermost.block,
         x \in DOMAIN layout.needs => Leaves(x),
         NEW v \in Sayings, v.in = Innermost.no,
         said' = [said EXCEPT ![x] = Append(@, v)],
         UNCHANGED <<family, topic, layout, open, message, stage>>
  PROVE  SaidInv'
<1>1. Chosen /\ Fits(family, layout) /\ x \in Watched(family) /\ message # "none"
  BY Fitting, Watching DEF PlaceInv, Own
<1>2. /\ Len(open) \in Nat /\ Len(open) >= 2 /\ Innermost = open[Len(open)]
      /\ \A j \in 2 .. Len(open) : open[j].block = Innermost.block => j = Len(open)
  BY <1>1, Inside
<1>3. said \in [topic -> Seq(Sayings)] /\ said[x] \in Seq(Sayings)
  BY DEF SaidInv
<1> DEFINE new == Append(said[x], v)
<1>4. /\ new \in Seq(Sayings) /\ new # <<>>
      /\ \A i \in DOMAIN new : \/ i \in DOMAIN said[x] /\ new[i] = said[x][i]
                               \/ new[i] = v
  BY <1>3
<1>5. /\ said' \in [topic -> Seq(Sayings)] /\ said'[x] = new
      /\ \A f \in topic : f # x => said'[f] = said[f]
  <2> HIDE DEF new
  <2> QED
    BY <1>3, <1>4 DEF new
<1> HIDE DEF new
<1>6. \A f : /\ IsOpen(ScopeOf(layout, f))' <=> IsOpen(ScopeOf(layout, f))
             /\ Leaves(f)' <=> Leaves(f)
             /\ HomeOf(layout, f)' = HomeOf(layout, f)
             /\ ScopeOf(layout, f)' = ScopeOf(layout, f)
  BY DEF IsOpen, Innermost, Leaves, ScopeOf, HomeOf, Within, After, Of, Around
<1>7. Sayings' = Sayings /\ (Own' <=> Own)
  BY DEF Sayings, Own
<1>8. IsOpen(ScopeOf(layout, x))
  BY <1>1, HomeIs DEF IsOpen
\* All that is said by the innermost block bears its number.
<1>9. \A f \in topic : HomeOf(layout, f) = Innermost.block =>
        \A i \in DOMAIN said'[f] : said'[f][i].in = Innermost.no
  <2> SUFFICES ASSUME NEW f \in topic, HomeOf(layout, f) = Innermost.block,
                      NEW i \in DOMAIN said'[f]
               PROVE  said'[f][i].in = Innermost.no
    OBVIOUS
  <2>1. \A h \in DOMAIN said[f] : said[f][h].in = Innermost.no
    <3>1. Len(open) \in 2 .. Len(open)
      BY <1>2
    <3> QED
      BY <1>2, <3>1 DEF SaidInv
  <2>2. CASE f = x
    BY <1>4, <1>5, <2>1, <2>2
  <2>3. CASE f # x
    BY <1>5, <2>1, <2>3
  <2> QED
    BY <2>2, <2>3
<1>10. \A f \in topic : said'[f] # <<>> => IsOpen(ScopeOf(layout, f))
  BY <1>5, <1>8 DEF SaidInv
<1>11. \A f \in topic : \A i \in DOMAIN said'[f], j \in 2 .. Len(open) :
         open[j].block = HomeOf(layout, f) => said'[f][i].in = open[j].no
  <2> SUFFICES ASSUME NEW f \in topic, NEW i \in DOMAIN said'[f],
                      NEW j \in 2 .. Len(open), open[j].block = HomeOf(layout, f)
               PROVE  said'[f][i].in = open[j].no
    OBVIOUS
  <2>1. CASE HomeOf(layout, f) = Innermost.block
    BY <1>2, <1>9, <2>1
  <2>2. CASE HomeOf(layout, f) # Innermost.block
    BY <1>5, <2>2 DEF SaidInv
  <2> QED
    BY <2>1, <2>2
<1>12. \A f, g \in topic : HomeOf(layout, f) = HomeOf(layout, g) =>
         \A i \in DOMAIN said'[f], j \in DOMAIN said'[g] :
           said'[f][i].in = said'[g][j].in
  <2> SUFFICES ASSUME NEW f \in topic, NEW g \in topic,
                      HomeOf(layout, f) = HomeOf(layout, g),
                      NEW i \in DOMAIN said'[f], NEW j \in DOMAIN said'[g]
               PROVE  said'[f][i].in = said'[g][j].in
    OBVIOUS
  <2>1. CASE HomeOf(layout, f) = Innermost.block
    BY <1>9, <2>1
  <2>2. CASE HomeOf(layout, f) # Innermost.block
    BY <1>5, <2>2 DEF SaidInv
  <2> QED
    BY <2>1, <2>2
<1>13. \A f \in topic : f \in DOMAIN layout.needs /\ said'[f] # <<>> /\ ~Leaves(f) =>
         \E g \in layout.needs[f] \cap topic : said'[g] # <<>>
  <2> SUFFICES ASSUME NEW f \in topic, f \in DOMAIN layout.needs, said'[f] # <<>>,
                      ~Leaves(f)
               PROVE  \E g \in layout.needs[f] \cap topic : said'[g] # <<>>
    OBVIOUS
  <2>1. f # x /\ said[f] # <<>>
    BY <1>5
  <2>2. PICK g \in layout.needs[f] \cap topic : said[g] # <<>>
    BY <2>1 DEF SaidInv
  <2> QED
    BY <1>4, <1>5, <2>2
<1>14. \A f \in topic, b \in BlocksOf(layout) :
         stage = "leaves" /\ f \in After(layout, b)
           /\ layout.under[b] = Innermost.block => said'[f] = <<>>
  <2> SUFFICES ASSUME NEW f \in topic, NEW b \in BlocksOf(layout),
                      stage = "leaves", f \in After(layout, b),
                      layout.under[b] = Innermost.block
               PROVE  said'[f] = <<>>
    OBVIOUS
  <2>1. f \in Watched(family) /\ HomeOf(layout, f) = b /\ b # Innermost.block
    <3>1. f \in Watched(family)
      BY <1>1, Watching
    <3> QED
      BY <1>1, <3>1, HomeIs, AroundGrows
  <2> QED
    BY <1>5, <2>1 DEF SaidInv
<1>15. BlocksOf(layout)' = BlocksOf(layout) /\ Innermost' = Innermost
       /\ \A b : After(layout, b)' = After(layout, b)
  BY DEF BlocksOf, Innermost, After, Of
<1> QED
  BY <1>5, <1>6, <1>7, <1>10, <1>11, <1>12, <1>13, <1>14, <1>15 DEF SaidInv

\* The context goes along with it, if it keeps what the field then is.
LEMMA OneKept ==
  ASSUME Own, KeptInv, NEW x \in topic, IsOpen(ScopeOf(layout, x)),
         NEW new, said' = [said EXCEPT ![x] = new],
         ctx'[x] = Meant(x)',
         \A f \in topic : f # x => ctx'[f] = ctx[f],
         UNCHANGED <<family, topic, layout, open, message, stage>>
  PROVE  KeptInv'
<1> SUFFICES ASSUME NEW f \in topic
             PROVE  /\ IsOpen(ScopeOf(layout, f))' =>
                         ctx'[f] = Meant(f)' \/ Awaited(f)'
                    /\ ~IsOpen(ScopeOf(layout, f))'
                         /\ f \in Clears(family, ScopeOf(layout, f))' =>
                         ctx'[f] = <<>>
  BY DEF KeptInv
<1>1. /\ IsOpen(ScopeOf(layout, f))' <=> IsOpen(ScopeOf(layout, f))
      /\ Leaves(f)' <=> Leaves(f)
      /\ ScopeOf(layout, f)' = ScopeOf(layout, f)
  BY DEF IsOpen, Innermost, Leaves, ScopeOf, HomeOf, Within, After, Of, Around
<1>2. CASE f = x
  <2>1. ctx'[f] = Meant(f)'
    BY <1>2 DEF Meant
  <2>2. IsOpen(ScopeOf(layout, f))
    BY <1>2
  <2> QED
    BY <1>1, <2>1, <2>2
<1>3. CASE f # x
  <2>1. said'[f] = said[f] /\ ctx'[f] = ctx[f]
    BY <1>3
  <2>2. Meant(f)' = Meant(f)
    BY <2>1, MeantStays
  <2>3. Awaited(f)' <=> Awaited(f)
    BY <1>1, <2>1 DEF Awaited
  <2>4. f \in Clears(family, ScopeOf(layout, f))' <=>
          f \in Clears(family, ScopeOf(layout, f))
    BY <1>1 DEF Clears
  <2> QED
    BY <1>1, <2>1, <2>2, <2>3, <2>4 DEF KeptInv
<1> QED
  BY <1>2, <1>3

\* What a field is once one thing more is said of it.
LEMMA MeantGrows ==
  ASSUME NEW x \in topic, NEW S, said[x] \in Seq(S), NEW v \in S,
         said'[x] = Append(said[x], v), UNCHANGED family
  PROVE  /\ x \in family.lists => Meant(x)' = Append(said[x], v)
         /\ x \notin family.lists /\ v.how = "set"
              /\ (\A i \in DOMAIN said[x] : said[x][i].how # "set") =>
              Meant(x)' = <<v>>
         /\ x \notin family.lists /\ v.how # "set" =>
              Meant(x)' = IF said[x] = <<>> THEN <<v>> ELSE Meant(x)
<1> DEFINE old == said[x]
           new == Append(old, v)
           n == Len(old)
           was == {i \in DOMAIN old : old[i].how = "set"}
           is == {i \in DOMAIN new : new[i].how = "set"}
<1>1. /\ n \in Nat /\ DOMAIN old = 1 .. n /\ DOMAIN new = 1 .. n + 1
      /\ new # <<>> /\ new[n + 1] = v /\ \A i \in 1 .. n : new[i] = old[i]
      /\ old = <<>> <=> n = 0
  BY DEF old
<1>2. Meant(x)' = CASE x \in family.lists -> new
                    [] OTHER -> <<new[IF is = {} THEN 1 ELSE Min(is)]>>
  <2>1. said'[x] = new /\ family' = family
    OBVIOUS
  <2> HIDE DEF new
  <2> QED
    BY <1>1, <2>1 DEF Meant
<1>3. Meant(x) = CASE x \in family.lists \/ n = 0 -> old
                   [] OTHER -> <<old[IF was = {} THEN 1 ELSE Min(was)]>>
  BY <1>1 DEF Meant
<1> HIDE DEF old, new, n, was, is
<1>4. CASE x \in family.lists
  BY <1>2, <1>4 DEF new, old
<1>5. CASE /\ x \notin family.lists /\ v.how = "set"
           /\ \A i \in DOMAIN said[x] : said[x][i].how # "set"
  <2>1. is = {n + 1}
    BY <1>1, <1>5 DEF is, old
  <2>2. Min(is) = n + 1
    <3>1. is \subseteq Nat
      BY <1>1, <2>1
    <3> QED
      BY <2>1, <3>1, MinIn
  <2>3. <<new[Min(is)]>> = <<v>>
    BY <1>1, <2>2
  <2> QED
    BY <1>2, <1>5, <2>1, <2>3
<1>6. CASE x \notin family.lists /\ v.how # "set"
  <2>1. is = was
    BY <1>1, <1>6 DEF is, was
  <2>2. CASE n = 0
    <3>1. is = {} /\ new[1] = v
      BY <1>1, <2>1, <2>2 DEF was
    <3>2. Meant(x)' = <<new[1]>>
      BY <1>2, <1>6, <3>1
    <3> QED
      BY <1>1, <1>6, <2>2, <3>1, <3>2 DEF old
  <2>3. CASE n # 0
    <3> DEFINE i == IF was = {} THEN 1 ELSE Min(was)
    <3>1. i \in 1 .. n
      <4>1. was \subseteq Nat /\ was \subseteq 1 .. n
        BY <1>1 DEF was
      <4>2. 1 \in 1 .. n
        BY <1>1, <2>3
      <4> QED
        BY <4>1, <4>2, MinIn
    <3>2. Meant(x)' = <<new[i]>> /\ Meant(x) = <<old[i]>>
      BY <1>2, <1>3, <1>6, <2>1, <2>3
    <3> HIDE DEF i
    <3>3. Meant(x)' = Meant(x)
      BY <1>1, <3>1, <3>2
    <3> QED
      BY <1>1, <1>6, <2>3, <3>3 DEF old
  <2> QED
    BY <2>2, <2>3
<1> QED
  BY <1>4, <1>5, <1>6

\* A detail is kept for the row of its message.
LEMMA ContentDetail ==
  ASSUME PlaceInv, ContentInv, DetailMet
  PROVE  ContentInv'
<1>1. /\ Reading /\ Own /\ SaidInv /\ KeptInv /\ Chosen /\ due' = Null
      /\ Innermost.block = "Message" /\ UNCHANGED <<where, stage>>
      /\ Fits(family, layout) /\ message # "none"
  BY Fitting DEF DetailMet, ContentInv, Own, PlaceInv
<1> DEFINE valueOf(f) == Says(f, Innermost.no, 1, "set")
<1>2. PICK name \in DOMAIN family.details, ok \in BOOLEAN :
        LET f == family.details[name]
        IN  /\ f \in topic /\ said[f] = <<>>
            /\ said' = [said EXCEPT ![f] = <<valueOf(f)>>]
            /\ Reads([Event("record", name) EXCEPT
                        !.value = valueOf(f), !.sound = ok])
  BY DEF DetailMet
<1> SUFFICES ASSUME NEW x, x = family.details[name], NEW v, v = valueOf(x)
             PROVE  ContentInv'
  OBVIOUS
<1> DEFINE e == [Event("record", name) EXCEPT !.value = v, !.sound = ok]
<1>3. Is(e, "record", name, <<>>, v, NoneOwn, ok)
  BY Events
<1>4. Reads(e) /\ e.tag = "record" /\ e.name = name /\ e.value = v /\ e.sound = ok
  BY <1>2, <1>3 DEF Is
<1>5. /\ x \in topic /\ said[x] = <<>> /\ said' = [said EXCEPT ![x] = <<v>>]
      /\ x \in Range(family.details)
  BY <1>2 DEF Range
<1>6. v \in Sayings /\ v.in = Innermost.no /\ v.how = "set"
  <2>1. Innermost.no \in Nat
    BY <1>1, Inside
  <2> QED
    BY <1>5, <2>1 DEF Says, Sayings
<1> HIDE DEF e
<1>7. name \notin family.records /\ depth # Null
  BY <1>1, <1>2, InTheMessage DEF Fits, EndsFit
<1>8. /\ UNCHANGED <<family, topic>> /\ row' = Null
      /\ ~ok => result' = "failed"
      /\ ok => ctx' = [f \in topic |-> IF f = x THEN <<v>> ELSE ctx[f]]
  <2>1. UNCHANGED <<family, topic>>
    BY <1>4, WholeRead
  <2>2. CASE ~ok
    BY <1>4, <1>7, <2>1, <2>2, WholeRead
  <2>3. CASE ok
    <3>1. /\ row' = Null
          /\ ctx' = [f \in topic |-> IF f = family.details[e.name]
                                     THEN <<e.value>> ELSE ctx[f]]
      BY <1>4, <1>7, <2>3, WholeRead
    <3>2. family.details[e.name] = x
      BY <1>4
    <3> QED
      BY <1>4, <2>1, <2>3, <3>1, <3>2
  <2> QED
    BY <2>2, <2>3
<1>9. CASE ~ok
  BY <1>1, <1>8, <1>9, Finished DEF Reading
<1>10. CASE ok
  <2>1. /\ x \in Watched(family) /\ HomeOf(layout, x) = Innermost.block
        /\ x \notin DOMAIN layout.needs
    <3>1. x \in Watched(family)
      BY <1>1, <1>5, Watching
    <3> QED
      BY <1>1, <1>5, <3>1 DEF Fits, FieldsFit
  <2>2. /\ said[x] \in Seq(Sayings)
        /\ said' = [said EXCEPT ![x] = Append(said[x], v)]
        /\ said'[x] = Append(said[x], v)
    BY <1>1, <1>5 DEF SaidInv
  <2>3. UNCHANGED <<layout, open, message>>
    BY <1>1 DEF where
  <2>4. SaidInv'
    <3>1. UNCHANGED <<family, topic, layout, open, message, stage>>
      BY <1>1, <1>8, <2>3
    <3>2. said' = [said EXCEPT ![x] = Append(@, v)]
      BY <2>2
    <3>3. PlaceInv /\ Reading /\ Own /\ SaidInv /\ x \in topic
      BY <1>1, <1>5
    <3>4. v \in Sayings /\ v.in = Innermost.no
      BY <1>6
    <3> QED
      BY <2>1, <3>1, <3>2, <3>3, <3>4, OneSaid
  <2>5. IsOpen(ScopeOf(layout, x))
    BY <1>1, <2>1, HomeIs DEF IsOpen
  <2>6. ctx'[x] = Meant(x)'
    <3>1. Append(said[x], v) = <<v>> /\ DOMAIN said[x] = {}
      BY <1>5
    <3>2. /\ x \in family.lists => Meant(x)' = Append(said[x], v)
          /\ x \notin family.lists /\ v.how = "set"
               /\ (\A i \in DOMAIN said[x] : said[x][i].how # "set") =>
               Meant(x)' = <<v>>
          /\ x \notin family.lists /\ v.how # "set" =>
               Meant(x)' = IF said[x] = <<>> THEN <<v>> ELSE Meant(x)
      <4>1. /\ x \in topic /\ said[x] \in Seq(Sayings) /\ v \in Sayings
            /\ said'[x] = Append(said[x], v) /\ UNCHANGED family
        BY <1>5, <1>6, <1>8, <2>2
      <4> QED
        BY <4>1, MeantGrows
    <3>3. Meant(x)' = <<v>>
      BY <1>6, <3>1, <3>2
    <3>4. ctx'[x] = <<v>>
      BY <1>5, <1>8, <1>10
    <3> QED
      BY <3>3, <3>4
  <2>7. KeptInv'
    BY <1>1, <1>5, <1>8, <1>10, <2>3, <2>5, <2>6, OneKept
  <2> QED
    BY <1>1, <1>8, <2>4, <2>7, NoRow DEF ContentInv
<1> QED
  BY <1>9, <1>10

-----------------------------------------------------------------------------
(* The tails of a path.                                                    *)

\* A sequence of members of a set is one of members of a larger set.
LEMMA WiderSeq ==
  ASSUME NEW S, NEW T, S \subseteq T, NEW s \in Seq(S)
  PROVE  s \in Seq(T)
<1>1. Len(s) \in Nat /\ s \in [1 .. Len(s) -> S]
  OBVIOUS
<1>2. s \in [1 .. Len(s) -> T]
  BY <1>1
<1> QED
  BY <1>1, <1>2

\* A tail of a path, name by name.
LEMMA TailNames ==
  ASSUME NEW S, NEW p \in Seq(S), NEW t \in Seq(S)
  PROVE  EndsWith(p, t) <=>
           /\ Len(p) >= Len(t)
           /\ \A i \in 1 .. Len(t) : t[i] = p[Len(p) - Len(t) + i]
<1> DEFINE n == Len(p)
           k == Len(t)
           s == SubSeq(p, n - k + 1, n)
<1>1. n \in Nat /\ k \in Nat /\ t = [i \in 1 .. k |-> t[i]]
  OBVIOUS
<1>2. CASE n >= k
  <2>1. s = [i \in 1 .. k |-> p[n - k + i]]
    <3>1. s = [i \in 1 .. (n - (n - k + 1) + 1) |-> p[(n - k + 1) + i - 1]]
      <4> HIDE DEF k
      <4> QED
        BY <1>1, <1>2
    <3>2. n - (n - k + 1) + 1 = k
      <4> HIDE DEF n, k
      <4> QED
        BY <1>1
    <3>3. \A i \in 1 .. k : (n - k + 1) + i - 1 = n - k + i
      <4> HIDE DEF n, k
      <4> QED
        BY <1>1
    <3> HIDE DEF s, n, k
    <3> QED
      BY <3>1, <3>2, <3>3
  <2>2. s = t <=> \A i \in 1 .. k : t[i] = p[n - k + i]
    <3> HIDE DEF s, n, k
    <3> QED
      BY <1>1, <2>1
  <2> QED
    BY <1>2, <2>2 DEF EndsWith
<1>3. CASE ~(n >= k)
  BY <1>3 DEF EndsWith
<1> QED
  BY <1>2, <1>3

\* Of two tails of a path the shorter is one of the longer.
LEMMA ShorterTail ==
  ASSUME NEW S, NEW p \in Seq(S), NEW t \in Seq(S), NEW u \in Seq(S),
         EndsWith(p, t), EndsWith(p, u), Len(u) <= Len(t)
  PROVE  EndsWith(t, u)
<1> DEFINE n == Len(p)
           k == Len(t)
           m == Len(u)
<1>1. n \in Nat /\ k \in Nat /\ m \in Nat /\ n >= k /\ k >= m
  BY TailNames
<1>2. ASSUME NEW i \in 1 .. m
      PROVE  u[i] = t[k - m + i]
  <2>1. u[i] = p[n - m + i]
    BY TailNames
  <2>2. \A h \in 1 .. k : t[h] = p[n - k + h]
    BY TailNames
  <2> HIDE DEF n, k, m
  <2>3. k - m + i \in 1 .. k /\ n - k + (k - m + i) = n - m + i
    BY <1>1
  <2> QED
    BY <2>1, <2>2, <2>3
<1>3. k >= m /\ \A i \in 1 .. m : u[i] = t[k - m + i]
  BY <1>1, <1>2
<1> QED
  BY <1>3, TailNames

\* Where a text stands in the open element, and how that ends its path.
LEMMA TextEnds ==
  ASSUME NEW S, NEW p \in Seq(S), p # <<>>, NEW t \in Seq(S), t # <<>>,
         NEW tag, tag = p[Len(p)],
         NEW at, at = IF t[1] = tag THEN Tail(t) ELSE t
  PROVE  p \o at \in Seq(S) /\ EndsWith(p \o at, t)
<1> DEFINE n == Len(p)
           k == Len(t)
           m == Len(at)
           q == p \o at
<1>1. at \in Seq(S) /\ n \in Nat \ {0} /\ k \in Nat \ {0} /\ m \in Nat
  OBVIOUS
<1>2. /\ q \in Seq(S) /\ Len(q) = n + m
      /\ \A i \in 1 .. n : q[i] = p[i]
      /\ \A i \in 1 .. m : q[n + i] = at[i]
  <2> HIDE DEF m
  <2> QED
    BY <1>1 DEF m
<1>3. CASE t[1] = tag
  <2>1. at = Tail(t) /\ m = k - 1 /\ \A i \in 1 .. m : at[i] = t[i + 1]
    BY <1>3
  <2> HIDE DEF n, k, m, q
  <2>2. ASSUME NEW i \in 1 .. k
        PROVE  t[i] = q[(n + m) - k + i]
    <3>1. CASE i = 1
      <4>1. (n + m) - k + i = n /\ n \in 1 .. n
        BY <1>1, <2>1, <3>1
      <4>2. q[n] = p[n] /\ p[n] = tag
        BY <1>2, <4>1 DEF n
      <4> QED
        BY <1>3, <3>1, <4>1, <4>2
    <3>2. CASE i # 1
      <4>1. i - 1 \in 1 .. m /\ (n + m) - k + i = n + (i - 1) /\ (i - 1) + 1 = i
        BY <1>1, <2>1, <3>2
      <4>2. at[i - 1] = t[i] /\ q[n + (i - 1)] = at[i - 1]
        <5>1. at[i - 1] = t[(i - 1) + 1]
          BY <2>1, <4>1
        <5> QED
          BY <1>2, <4>1, <5>1
      <4> QED
        BY <4>1, <4>2
    <3> QED
      BY <3>1, <3>2
  <2>3. Len(q) >= k /\ \A i \in 1 .. k : t[i] = q[Len(q) - k + i]
    BY <1>1, <1>2, <2>1, <2>2
  <2>4. EndsWith(q, t)
    BY <1>2, <2>3, TailNames DEF k
  <2> QED
    BY <1>2, <2>4 DEF q
<1>4. CASE t[1] # tag
  <2>1. at = t /\ m = k
    BY <1>4
  <2> HIDE DEF n, k, m, q
  <2>2. ASSUME NEW i \in 1 .. k
        PROVE  t[i] = q[(n + m) - k + i]
    <3>1. (n + m) - k + i = n + i
      BY <1>1, <2>1
    <3> QED
      BY <1>2, <2>1, <3>1
  <2>3. Len(q) >= k /\ \A i \in 1 .. k : t[i] = q[Len(q) - k + i]
    BY <1>1, <1>2, <2>1, <2>2
  <2>4. EndsWith(q, t)
    BY <1>2, <2>3, TailNames DEF k
  <2> QED
    BY <1>2, <2>4 DEF q
<1> QED
  BY <1>3, <1>4

\* A text of a field is captured for it, in its form, and for no other.
LEMMA Captured ==
  ASSUME Chosen, NEW x \in topic, NEW how \in {"set", "fill"},
         NEW t \in IF how = "set" THEN Sets(x) ELSE Fills(x),
         NEW S, STRING \subseteq S, NEW p \in Seq(S), EndsWith(p, t),
         NEW v, Captures(p, v)
  PROVE  /\ \A f \in topic : f # x => ctx'[f] = ctx[f]
         /\ how = "set" => ctx'[x] = IF x \in family.lists
                                     THEN Append(ctx[x], v) ELSE <<v>>
         /\ how = "fill" => ctx'[x] = IF ctx[x] = <<>> THEN <<v>> ELSE ctx[x]
<1> DEFINE fields == DOMAIN family.set \cup DOMAIN family.fill
           tails(f) == Tails(family, f)
<1>1. /\ \A f \in fields : tails(f) \subseteq Seq(STRING) \ {<<>>}
      /\ \A f, g \in fields : \A w \in tails(f), u \in tails(g) :
           f # g => ~EndsWith(u, w)
      /\ \A f \in fields : \A w \in Of(family.set, f), u \in Of(family.fill, f) :
           ~EndsWith(u, w) /\ ~EndsWith(w, u)
  BY TailsAreApart DEF Chosen
<1>2. \A f : /\ tails(f) = Of(family.set, f) \cup Of(family.fill, f)
             /\ \A u \in tails(f) : f \in fields
  BY DEF Tails, Of
<1>3. /\ t \in tails(x) /\ x \in fields
      /\ how = "set" => t \in Of(family.set, x)
      /\ how = "fill" => t \in Of(family.fill, x)
  BY <1>2 DEF Sets, Fills
<1> HIDE DEF fields, tails
<1>4. \A f : \A u \in tails(f) : EndsWith(p, u) => EndsWith(t, u) \/ EndsWith(u, t)
  <2> SUFFICES ASSUME NEW f, NEW u \in tails(f), EndsWith(p, u)
               PROVE  EndsWith(t, u) \/ EndsWith(u, t)
    OBVIOUS
  <2>1. t \in Seq(STRING) /\ u \in Seq(STRING)
    BY <1>1, <1>2, <1>3
  <2>2. t \in Seq(S) /\ u \in Seq(S)
    BY <2>1, WiderSeq
  <2>3. CASE Len(u) <= Len(t)
    BY <2>2, <2>3, ShorterTail
  <2>4. CASE Len(t) <= Len(u)
    BY <2>2, <2>4, ShorterTail
  <2>5. Len(t) \in Nat /\ Len(u) \in Nat
    BY <2>2
  <2> QED
    BY <2>3, <2>4, <2>5
<1>5. \A f : f # x => \A u \in tails(f) : ~EndsWith(p, u)
  BY <1>1, <1>2, <1>3, <1>4
<1>6. /\ how = "set" => \A u \in Of(family.fill, x) : ~EndsWith(p, u)
      /\ how = "fill" => \A u \in Of(family.set, x) : ~EndsWith(p, u)
  BY <1>1, <1>2, <1>3, <1>4
<1> DEFINE sets(f) == /\ f \in DOMAIN family.set
                      /\ \E u \in family.set[f] : EndsWith(p, u)
           fills(f) == /\ f \in DOMAIN family.fill
                       /\ \E u \in family.fill[f] : EndsWith(p, u)
<1>7. \A f \in topic :
        ctx'[f] = CASE sets(f) -> IF f \in family.lists THEN Append(ctx[f], v)
                                  ELSE <<v>>
                    [] ctx[f] = <<>> /\ fills(f) -> <<v>>
                    [] OTHER -> ctx[f]
  BY Zenon DEF Captures
<1>8. \A f : /\ sets(f) <=> \E u \in Of(family.set, f) : EndsWith(p, u)
             /\ fills(f) <=> \E u \in Of(family.fill, f) : EndsWith(p, u)
  BY DEF Of
<1>9. \A f : f # x => ~sets(f) /\ ~fills(f)
  BY <1>2, <1>5, <1>8
<1>10. /\ how = "set" => sets(x) /\ ~fills(x)
       /\ how = "fill" => ~sets(x) /\ fills(x)
  BY <1>3, <1>6, <1>8
<1> HIDE DEF sets, fills
<1>11. \A f \in topic : f # x => ctx'[f] = ctx[f]
  BY <1>7, <1>9
<1>12. how = "set" => ctx'[x] = IF x \in family.lists THEN Append(ctx[x], v)
                                ELSE <<v>>
  BY <1>7, <1>10
<1>13. how = "fill" => ctx'[x] = IF ctx[x] = <<>> THEN <<v>> ELSE ctx[x]
  BY <1>7, <1>10
<1> QED
  BY <1>11, <1>12, <1>13

\* A text is said, and captured.
LEMMA ContentText ==
  ASSUME PlaceInv, ContentInv, TextSaid
  PROVE  ContentInv'
<1>1. /\ Reading /\ Own /\ SaidInv /\ KeptInv /\ Chosen /\ InStep
      /\ due' = Null /\ stage = "leaves" /\ message # "none"
      /\ UNCHANGED <<layout, open, message, stage>> /\ Fits(family, layout)
  BY Fitting DEF TextSaid, where, ContentInv, Own, PlaceInv
<1>2. PICK x \in Home(Innermost.block), how \in {"set", "fill"}, ok \in BOOLEAN :
        LET value == Says(x, Innermost.no, Len(said[x]) + 1, how)
        IN  /\ IF x \in family.lists \/ Sets(x) = {}
               THEN Len(said[x]) < 2
               ELSE \A i \in DOMAIN said[x] : said[x][i].how # how
            /\ \E t \in IF how = "set" THEN Sets(x) ELSE Fills(x) :
                 Reads([Event("leaf", "") EXCEPT
                          !.at = IF t[1] = Innermost.tag THEN Tail(t) ELSE t,
                          !.value = value, !.sound = ok])
            /\ said' = [said EXCEPT ![x] = Append(@, value)]
  <2>1. PICK x \in Home(Innermost.block), how \in {"set", "fill"},
             ok \in BOOLEAN : Saying(x, how, ok)
    BY Zenon DEF TextSaid
  <2> QED
    BY <2>1, Zenon DEF Saying
<1>3. x \in topic /\ HomeOf(layout, x) = Innermost.block /\ x \in Watched(family)
  BY <1>1, <1>2, Watching DEF Home
<1>4. said \in [topic -> Seq(Sayings)] /\ said[x] \in Seq(Sayings)
  BY <1>1, <1>3 DEF SaidInv
<1> SUFFICES ASSUME NEW v, v = Says(x, Innermost.no, Len(said[x]) + 1, how)
             PROVE  ContentInv'
  OBVIOUS
<1>5. v \in Sayings /\ v.in = Innermost.no /\ v.how = how
  <2>1. Innermost.no \in Nat /\ Len(said[x]) + 1 \in Nat
    BY <1>1, <1>4, Inside
  <2> QED
    BY <1>3, <2>1 DEF Says, Sayings
<1>6. PICK t \in IF how = "set" THEN Sets(x) ELSE Fills(x) :
        Reads([Event("leaf", "") EXCEPT
                 !.at = IF t[1] = Innermost.tag THEN Tail(t) ELSE t,
                 !.value = v, !.sound = ok])
  BY <1>2, Zenon
<1> SUFFICES ASSUME NEW at, at = IF t[1] = Innermost.tag THEN Tail(t) ELSE t
             PROVE  ContentInv'
  OBVIOUS
<1> DEFINE e == [Event("leaf", "") EXCEPT !.at = at, !.value = v, !.sound = ok]
<1>7. Is(e, "leaf", "", at, v, NoneOwn, ok)
  BY Events
<1>8. Reads(e) /\ e.tag = "leaf" /\ e.at = at /\ e.value = v /\ e.sound = ok
  BY <1>6, <1>7 DEF Is
<1> HIDE DEF e
<1>9. /\ UNCHANGED <<family, topic>> /\ row' = Null
      /\ ok => Captures(path \o at, v)
      /\ ~ok => result' = "failed"
  BY <1>8, LeafRead
<1>10. CASE ~ok
  BY <1>1, <1>9, <1>10, Finished DEF Reading
<1>11. CASE ok
  <2>1. /\ said' = [said EXCEPT ![x] = Append(@, v)]
        /\ said'[x] = Append(said[x], v)
    BY <1>2, <1>3, <1>4
  <2>2. SaidInv'
    <3>1. Leaves(x)
      BY <1>1, <1>3 DEF Leaves
    <3> QED
      BY <1>1, <1>3, <1>5, <1>9, <2>1, <3>1, OneSaid
  <2>3. IsOpen(ScopeOf(layout, x))
    BY <1>1, <1>3, HomeIs DEF IsOpen
  <2> DEFINE S == STRING \cup {open[i].tag : i \in 1 .. Len(open)}
  <2>4. path \in Seq(S) /\ path # <<>> /\ Innermost.tag = path[Len(path)]
    <3>1. /\ Len(open) \in Nat /\ Len(open) >= 2
          /\ Innermost = open[Len(open)]
          /\ path = [i \in 1 .. Len(open) |-> open[i].tag]
      BY <1>1, Inside DEF InStep
    <3>2. path \in [1 .. Len(open) -> S]
      BY <3>1
    <3> HIDE DEF S
    <3>3. path \in Seq(S) /\ Len(path) = Len(open)
      BY <3>1, <3>2
    <3>4. Len(open) \in 1 .. Len(open)
      BY <3>1
    <3> QED
      BY <3>1, <3>3, <3>4
  <2>5. STRING \subseteq S
    OBVIOUS
  <2> HIDE DEF S
  <2>6. path \o at \in Seq(S) /\ EndsWith(path \o at, t)
    <3>1. t \in Seq(STRING) \ {<<>>}
      <4>1. t \in Tails(family, x)
        BY DEF Sets, Fills, Tails
      <4>2. x \in DOMAIN family.set \cup DOMAIN family.fill
        BY <4>1 DEF Tails, Of
      <4>3. PICK name \in DOMAIN Family : family = Family[name]
        BY <1>1 DEF Chosen
      <4> QED
        BY <4>1, <4>2, <4>3, TailsAreApart
    <3>2. t \in Seq(S) /\ t # <<>>
      BY <2>5, <3>1, WiderSeq
    <3> QED
      BY <2>4, <3>2, TextEnds
  <2>7. /\ \A f \in topic : f # x => ctx'[f] = ctx[f]
        /\ how = "set" => ctx'[x] = IF x \in family.lists
                                    THEN Append(ctx[x], v) ELSE <<v>>
        /\ how = "fill" => ctx'[x] = IF ctx[x] = <<>> THEN <<v>> ELSE ctx[x]
    <3>1. Chosen /\ x \in topic /\ Captures(path \o at, v)
      BY <1>1, <1>3, <1>9, <1>11
    <3> DEFINE p == path \o at
    <3>2. p \in Seq(S) /\ EndsWith(p, t) /\ Captures(p, v)
      BY <2>6, <3>1
    <3> HIDE DEF p
    <3> QED
      BY <2>5, <3>1, <3>2, Captured
\* Only a field that must be said may find something else in the context.
  <2>8. x \notin layout.required => ctx[x] = Meant(x)
    BY <1>1, <1>3, <2>3 DEF KeptInv, Awaited
  <2>9. /\ x \in family.lists => how = "set" /\ x \notin layout.required
        /\ how = "fill" => x \notin layout.required
    <3>1. x \in layout.required \cup family.lists => Of(family.fill, x) = {}
      BY <1>1, <1>3 DEF Fits, FieldsFit
    <3>2. x \in layout.required => x \notin family.lists
      BY <1>1, <1>3 DEF Fits, FieldsFit
    <3>3. how = "fill" => Of(family.fill, x) # {}
      BY <1>6 DEF Fills
    <3> QED
      BY <3>1, <3>2, <3>3
  <2>10. ctx'[x] = Meant(x)'
    <3>1. /\ x \in family.lists => Meant(x)' = Append(said[x], v)
          /\ x \notin family.lists /\ v.how = "set"
               /\ (\A i \in DOMAIN said[x] : said[x][i].how # "set") =>
               Meant(x)' = <<v>>
          /\ x \notin family.lists /\ v.how # "set" =>
               Meant(x)' = IF said[x] = <<>> THEN <<v>> ELSE Meant(x)
      <4>1. /\ x \in topic /\ said[x] \in Seq(Sayings) /\ v \in Sayings
            /\ said'[x] = Append(said[x], v) /\ UNCHANGED family
        BY <1>3, <1>4, <1>5, <1>9, <2>1
      <4> QED
        BY <4>1, MeantGrows
    <3>2. CASE x \in family.lists
      <4>1. Meant(x) = said[x]
        BY <3>2 DEF Meant
      <4> QED
        BY <2>7, <2>8, <2>9, <3>1, <3>2, <4>1
    <3>3. CASE x \notin family.lists /\ how = "set"
      <4>1. Sets(x) # {}
        BY <1>6, <3>3
      <4>2. \A i \in DOMAIN said[x] : said[x][i].how # "set"
        BY <1>2, <3>3, <4>1
      <4> QED
        BY <1>5, <2>7, <3>1, <3>3, <4>2
    <3>4. CASE x \notin family.lists /\ how = "fill"
      <4>1. ctx[x] = Meant(x) /\ (ctx[x] = <<>> <=> said[x] = <<>>)
        BY <1>3, <1>4, <2>8, <2>9, <3>4, MeantSays
      <4> QED
        BY <1>5, <2>7, <3>1, <3>4, <4>1
    <3> QED
      BY <1>2, <3>2, <3>3, <3>4
  <2>11. KeptInv'
    BY <1>1, <1>3, <1>9, <2>1, <2>3, <2>7, <2>10, OneKept
  <2> QED
    BY <1>1, <1>9, <2>2, <2>11, NoRow DEF ContentInv
<1> QED
  BY <1>10, <1>11

-----------------------------------------------------------------------------
(* Into a block, and out of it.                                            *)

\* A block b opens in the innermost one, in a message of the family.
GoesIn(b) ==
  /\ Reading /\ Own /\ LeavesDone
  /\ b \in BlocksOf(layout) /\ layout.under[b] = Innermost.block
  /\ Len(open') = Len(open) + 1
  /\ \A i \in 1 .. Len(open) : open'[i] = open[i]
  /\ Innermost'.block = b /\ open'[Len(open) + 1] = Innermost'
  /\ said' = Unsaid(After(layout, b)) /\ stage' = "leaves"
  /\ UNCHANGED <<family, topic, layout, message>>

\* Nothing is said of its inside yet.
LEMMA NewInside ==
  ASSUME PlaceInv, SaidInv, NEW b, GoesIn(b)
  PROVE  /\ Fits(family, layout) /\ topic \subseteq Watched(family)
         /\ Len(open) \in Nat /\ Len(open) >= 2
         /\ \A c : IsOpen(c)' <=> c = b \/ IsOpen(c)
         /\ ~IsOpen(b)
         /\ \A f \in topic :
              /\ said'[f] = IF f \in After(layout, b) THEN <<>> ELSE said[f]
              /\ ScopeOf(layout, f) = b => said[f] = <<>>
              /\ HomeOf(layout, f) = b => said'[f] = <<>>
<1>1. /\ Fits(family, layout) /\ topic \subseteq Watched(family)
      /\ Len(open) \in Nat /\ Len(open) >= 2
  BY Fitting, Watching, Inside DEF GoesIn, PlaceInv, Own
<1>2. b \in BlocksOf(layout) /\ layout.under[b] = Innermost.block
  BY DEF GoesIn
<1>3. /\ Around(layout, b) = {b} \cup Around(layout, Innermost.block)
      /\ b \notin Around(layout, Innermost.block)
  BY <1>1, <1>2, AroundGrows
<1>4. \A c : IsOpen(c)' <=> c \in Around(layout, b)
  BY DEF IsOpen, GoesIn, Around
<1>5. ASSUME NEW f \in topic
      PROVE  /\ said'[f] = IF f \in After(layout, b) THEN <<>> ELSE said[f]
             /\ ScopeOf(layout, f) = b => said[f] = <<>>
             /\ HomeOf(layout, f) = b => said'[f] = <<>>
  <2>1. said'[f] = IF f \in After(layout, b) THEN <<>> ELSE said[f]
    BY DEF GoesIn, Unsaid
  <2>2. ScopeOf(layout, f) = b => said[f] = <<>>
    BY <1>3 DEF SaidInv, IsOpen
  <2>3. HomeOf(layout, f) = b =>
          f \in After(layout, b) \/ ScopeOf(layout, f) = b
    BY <1>1, <1>2, HomeIs
  <2> QED
    BY <2>1, <2>2, <2>3
<1> QED
  BY <1>1, <1>3, <1>4, <1>5 DEF IsOpen

\* What is said still holds.
LEMMA SaidGoesIn ==
  ASSUME PlaceInv, SaidInv, NEW b, GoesIn(b)
  PROVE  SaidInv'
<1>1. /\ Fits(family, layout) /\ topic \subseteq Watched(family)
      /\ Len(open) \in Nat /\ Len(open) >= 2
      /\ \A c : IsOpen(c)' <=> c = b \/ IsOpen(c)
      /\ ~IsOpen(b)
      /\ \A f \in topic :
           /\ said'[f] = IF f \in After(layout, b) THEN <<>> ELSE said[f]
           /\ ScopeOf(layout, f) = b => said[f] = <<>>
           /\ HomeOf(layout, f) = b => said'[f] = <<>>
  BY NewInside
<1>2. /\ Own /\ LeavesDone /\ b \in BlocksOf(layout)
      /\ Len(open') = Len(open) + 1
      /\ \A i \in 1 .. Len(open) : open'[i] = open[i]
      /\ open'[Len(open) + 1].block = b /\ Innermost'.block = b
      /\ stage' = "leaves" /\ UNCHANGED <<family, topic, layout, message>>
  BY DEF GoesIn
<1>3. /\ \A f : HomeOf(layout, f)' = HomeOf(layout, f)
      /\ \A f : ScopeOf(layout, f)' = ScopeOf(layout, f)
      /\ \A f : Leaves(f)' <=> HomeOf(layout, f) = b
      /\ \A c : After(layout, c)' = After(layout, c)
      /\ BlocksOf(layout)' = BlocksOf(layout)
  BY <1>2 DEF HomeOf, ScopeOf, Leaves, Within, After, Of, BlocksOf
<1>4. Own' /\ Sayings' = Sayings
  BY <1>2 DEF Own, Sayings
<1>5. said' \in [topic -> Seq(Sayings)]
  <2>1. said \in [topic -> Seq(Sayings)] /\ <<>> \in Seq(Sayings)
    BY DEF SaidInv
  <2> QED
    BY <2>1 DEF GoesIn, Unsaid
<1>6. \A f \in topic : said'[f] # <<>> => IsOpen(ScopeOf(layout, f))'
  <2> SUFFICES ASSUME NEW f \in topic, said'[f] # <<>>
               PROVE  IsOpen(ScopeOf(layout, f))'
    OBVIOUS
  <2>1. IsOpen(ScopeOf(layout, f))
    BY <1>1 DEF SaidInv
  <2> QED
    BY <1>1, <1>3, <2>1
<1>7. \A f \in topic : \A i \in DOMAIN said'[f], j \in 2 .. Len(open') :
        open'[j].block = HomeOf(layout, f) => said'[f][i].in = open'[j].no
  <2> SUFFICES ASSUME NEW f \in topic, NEW i \in DOMAIN said'[f],
                      NEW j \in 2 .. Len(open'),
                      open'[j].block = HomeOf(layout, f)
               PROVE  said'[f][i].in = open'[j].no
    OBVIOUS
  <2>1. said'[f] # <<>> /\ said'[f] = said[f]
    BY <1>1
  <2>2. j \in 2 .. Len(open) \/ j = Len(open) + 1
    BY <1>1, <1>2
  <2>3. j # Len(open) + 1
    BY <1>1, <1>2, <2>1
  <2>4. j \in 2 .. Len(open) /\ open'[j] = open[j]
    BY <1>1, <1>2, <2>2, <2>3
  <2> QED
    BY <2>1, <2>4 DEF SaidInv
<1>8. \A f, g \in topic : HomeOf(layout, f) = HomeOf(layout, g) =>
        \A i \in DOMAIN said'[f], j \in DOMAIN said'[g] :
          said'[f][i].in = said'[g][j].in
  <2> SUFFICES ASSUME NEW f \in topic, NEW g \in topic,
                      HomeOf(layout, f) = HomeOf(layout, g),
                      NEW i \in DOMAIN said'[f], NEW j \in DOMAIN said'[g]
               PROVE  said'[f][i].in = said'[g][j].in
    OBVIOUS
  <2>1. said'[f] = said[f] /\ said'[g] = said[g]
    BY <1>1
  <2> QED
    BY <2>1 DEF SaidInv
<1>9. \A f \in topic : f \in DOMAIN layout.needs /\ said'[f] # <<>> =>
        \E g \in layout.needs[f] \cap topic : said'[g] # <<>>
  <2> SUFFICES ASSUME NEW f \in topic, f \in DOMAIN layout.needs, said'[f] # <<>>
               PROVE  \E g \in layout.needs[f] \cap topic : said'[g] # <<>>
    OBVIOUS
  <2>1. said'[f] = said[f] /\ said[f] # <<>> /\ HomeOf(layout, f) # b
    BY <1>1
  <2>2. PICK g \in layout.needs[f] \cap topic : said[g] # <<>>
    BY <1>2, <2>1, NeedsMet
  <2>3. HomeOf(layout, g) = HomeOf(layout, f)
    BY <1>1 DEF Fits, FieldsFit
  <2>4. g \notin After(layout, b)
    BY <1>1, <1>2, <2>1, <2>3, HomeIs
  <2> QED
    BY <1>1, <2>2, <2>4
<1>10. \A f \in topic, c \in BlocksOf(layout) :
         f \in After(layout, c) /\ layout.under[c] = b => said'[f] = <<>>
  <2> SUFFICES ASSUME NEW f \in topic, NEW c \in BlocksOf(layout),
                      f \in After(layout, c), layout.under[c] = b
               PROVE  said'[f] = <<>>
    OBVIOUS
  <2>1. f \in Watched(family)
    BY <1>1
  <2>2. ScopeOf(layout, f) = b
    BY <1>1, <2>1, HomeIs
  <2> QED
    BY <1>1, <2>2
<1> QED
  BY <1>2, <1>3, <1>4, <1>5, <1>6, <1>7, <1>8, <1>9, <1>10 DEF SaidInv

\* So does the context, with what the start tag resets.
LEMMA KeptGoesIn ==
  ASSUME PlaceInv, SaidInv, KeptInv, NEW b, GoesIn(b),
         b \in layout.heads => stage = "leaves" \/ b \in layout.many,
         \A f \in topic : ctx'[f] = IF f \in Starts(family, b) THEN <<>> ELSE ctx[f]
  PROVE  KeptInv'
<1>1. /\ Fits(family, layout) /\ topic \subseteq Watched(family)
      /\ Len(open) \in Nat /\ Len(open) >= 2
      /\ \A c : IsOpen(c)' <=> c = b \/ IsOpen(c)
      /\ ~IsOpen(b)
      /\ \A f \in topic :
           /\ said'[f] = IF f \in After(layout, b) THEN <<>> ELSE said[f]
           /\ ScopeOf(layout, f) = b => said[f] = <<>>
           /\ HomeOf(layout, f) = b => said'[f] = <<>>
  BY NewInside
<1>2. /\ Reading /\ Own /\ LeavesDone /\ b \in BlocksOf(layout)
      /\ layout.under[b] = Innermost.block
      /\ Innermost'.block = b /\ stage' = "leaves"
      /\ UNCHANGED <<family, topic, layout, message>>
  BY DEF GoesIn
<1> SUFFICES ASSUME NEW f \in topic
             PROVE  /\ IsOpen(ScopeOf(layout, f))' =>
                         ctx'[f] = Meant(f)' \/ Awaited(f)'
                    /\ ~IsOpen(ScopeOf(layout, f))'
                         /\ f \in Clears(family, ScopeOf(layout, f))' =>
                         ctx'[f] = <<>>
  BY <1>2 DEF KeptInv
<1> DEFINE scope == ScopeOf(layout, f)
<1>3. /\ ScopeOf(layout, f)' = scope /\ HomeOf(layout, f)' = HomeOf(layout, f)
      /\ f \in Clears(family, ScopeOf(layout, f))' <=> f \in Clears(family, scope)
  BY <1>2 DEF HomeOf, ScopeOf, Within, After, Of, Clears
<1>4. Awaited(f)' <=> /\ f \in layout.required /\ said'[f] = <<>>
                      /\ HomeOf(layout, f) = b
  BY <1>2, <1>3 DEF Awaited, Leaves
<1>5. IsOpen(ScopeOf(layout, f))' <=> scope = b \/ IsOpen(scope)
  <2>1. \A g : ScopeOf(layout, g)' = ScopeOf(layout, g)
    BY <1>2 DEF HomeOf, ScopeOf, Within, After, Of
  <2>2. \A g : IsOpen(ScopeOf(layout, g))' <=>
                 ScopeOf(layout, g) = b \/ IsOpen(ScopeOf(layout, g))
    BY <1>1, <2>1
  <2> QED
    BY <2>2
<1>6. said'[f] = <<>> => Meant(f)' = <<>>
  BY NothingMeant
<1>7. ctx'[f] = IF f \in Starts(family, b) THEN <<>> ELSE ctx[f]
  OBVIOUS
<1>8. f \in Watched(family)
  BY <1>1
<1> HIDE DEF scope
<1>9. CASE scope = b
  <2>1. said'[f] = <<>> /\ Meant(f)' = <<>>
    BY <1>1, <1>6, <1>9 DEF scope
  <2>2. \/ f \in Starts(family, b) \cup Clears(family, b)
        \/ f \in layout.required /\ HomeOf(layout, f) = b
    BY <1>1, <1>2, <1>8, <1>9 DEF Fits, ScopesFit, scope
  <2>3. f \in Clears(family, b) => ctx[f] = <<>>
    BY <1>1, <1>2, <1>9 DEF KeptInv, scope
  <2>4. ctx'[f] = <<>> \/ Awaited(f)'
    BY <1>4, <1>7, <2>1, <2>2, <2>3
  <2> QED
    BY <1>5, <1>9, <2>1, <2>4
<1>10. CASE scope # b /\ IsOpen(scope)
  <2>1. ctx[f] = Meant(f)
    BY <1>2, <1>10, KeptAt DEF scope
  <2>2. CASE f \in After(layout, b)
    <3>1. said'[f] = <<>> /\ Meant(f)' = <<>> /\ HomeOf(layout, f) = b
      BY <1>1, <1>2, <1>6, <1>8, <2>2, HomeIs
    <3>2. b \in layout.heads
      BY <1>1, <2>2 DEF Fits, HomesFit, After, Of
    <3>3. CASE stage = "leaves"
      <4>1. said[f] = <<>>
        BY <1>2, <2>2, <3>3 DEF SaidInv
      <4>2. ctx[f] = <<>>
        BY <2>1, <4>1 DEF Meant
      <4> QED
        BY <1>5, <1>7, <1>10, <3>1, <4>2
    <3>4. CASE b \in layout.many
      <4>1. f \in Starts(family, b) \cup layout.required
        BY <1>1, <1>2, <1>8, <2>2, <3>4 DEF Fits, ScopesFit
      <4> QED
        BY <1>4, <1>5, <1>7, <1>10, <3>1, <4>1
    <3> QED
      BY <3>2, <3>3, <3>4
  <2>3. CASE f \notin After(layout, b)
    <3>1. f \notin Starts(family, b)
      <4>1. scope \in Around(layout, layout.under[b])
        BY <1>2, <1>10 DEF IsOpen
      <4> QED
        BY <1>1, <1>2, <1>8, <2>3, <4>1 DEF Fits, ScopesFit, scope
    <3>2. said'[f] = said[f] /\ family' = family
      BY <1>1, <1>2, <2>3
    <3>3. Meant(f)' = Meant(f)
      BY <3>2, MeantStays
    <3> QED
      BY <1>5, <1>7, <1>10, <2>1, <3>1, <3>3
  <2> QED
    BY <2>2, <2>3
<1>11. CASE scope # b /\ ~IsOpen(scope)
  <2>1. f \in Clears(family, scope) => ctx[f] = <<>>
    BY <1>2, <1>11 DEF KeptInv, scope
  <2> QED
    BY <1>3, <1>5, <1>7, <1>11, <2>1
<1> QED
  BY <1>9, <1>10, <1>11

\* A block opens.
LEMMA ContentBlock ==
  ASSUME PlaceInv, PlaceInv', ContentInv, BlockOpens
  PROVE  ContentInv'
<1>1. /\ Reading /\ Nested /\ InStep /\ Fits(family, layout) /\ LeavesDone
      /\ message # "none" /\ due' = Null /\ stage' = "leaves"
      /\ SaidInv /\ KeptInv /\ UNCHANGED <<layout, message>>
  BY Fitting DEF BlockOpens, PlaceInv, ContentInv
<1> DEFINE x(b) == [block |-> b, tag |-> b, no |-> opens + 1]
<1>2. PICK b \in Children(layout, Innermost.block) :
        /\ b \in layout.heads =>
             \/ stage = "leaves"
             \/ stage = "heads" /\ b \in layout.many
        /\ open' = Append(open, x(b))
        /\ said' = IF message = "own" THEN Unsaid(After(layout, b)) ELSE said
        /\ Reads(Event("open", b))
  BY DEF BlockOpens
<1> DEFINE e == Event("open", b)
<1>3. b \in BlocksOf(layout) /\ layout.under[b] = Innermost.block
  BY DEF Children, BlocksOf
<1>4. ~IsContainer(b)
  BY <1>1, <1>3 DEF Fits, TreeFits, IsContainer
<1>5. Reads(e) /\ e.tag = "open" /\ e.name = b
  <2>1. Is(e, "open", b, <<>>, Null, NoneOwn, TRUE)
    BY Events
  <2> QED
    BY <1>2, <2>1 DEF Is
<1> HIDE DEF e
<1>6. /\ UNCHANGED <<family, topic, result>> /\ row' = Null
      /\ ctx' = IF StartsOver(b) THEN Without(family.starts[b]) ELSE ctx
  BY <1>4, <1>5, OpenRead
<1>7. CASE ~Own
  <2>1. ~Own' /\ UNCHANGED said
    BY <1>1, <1>2, <1>7 DEF Own
  <2> QED
    BY <1>1, <1>6, <1>7, <2>1, Quiet
<1>8. CASE Own
  <2>1. GoesIn(b)
    <3>1. /\ open \in Seq(Elements) /\ Len(open) \in Nat /\ x(b).block = b
      BY <1>1 DEF Nested
    <3> HIDE DEF x
    <3>2. /\ Len(open') = Len(open) + 1
          /\ \A i \in 1 .. Len(open) : open'[i] = open[i]
          /\ open'[Len(open) + 1] = x(b)
      BY <1>2, <3>1
    <3>3. Innermost' = x(b)
      BY <3>2 DEF Innermost
    <3>4. said' = Unsaid(After(layout, b))
      BY <1>2, <1>8 DEF Own
    <3> QED
      BY <1>1, <1>3, <1>6, <1>8, <3>1, <3>2, <3>3, <3>4 DEF GoesIn
  <2>2. \A f \in topic : ctx'[f] = IF f \in Starts(family, b) THEN <<>> ELSE ctx[f]
    <3>1. depth # Null
      BY <1>1, <1>8, InTheMessage
    <3> QED
      BY <1>6, <3>1 DEF StartsOver, Without, Starts, Of
  <2>3. SaidInv'
    BY <1>1, <2>1, SaidGoesIn
  <2>4. b \in layout.heads => stage = "leaves" \/ b \in layout.many
    BY <1>2
  <2>5. KeptInv'
    BY <1>1, <2>1, <2>2, <2>4, KeptGoesIn
  <2> QED
    BY <1>1, <1>6, <2>3, <2>5, NoRow DEF ContentInv
<1> QED
  BY <1>7, <1>8

\* The innermost block b closes, in a message of the family.
GoesOut(b) ==
  /\ Reading /\ Own /\ LeavesDone
  /\ b \in BlocksOf(layout) /\ Innermost.block = b
  /\ Len(open') = Len(open) - 1
  /\ \A i \in 1 .. Len(open) - 1 : open'[i] = open[i]
  /\ Innermost'.block = layout.under[b]
  /\ said' = Unsaid(Closing(b)) /\ stage' # "leaves"
  /\ UNCHANGED <<family, topic, layout>>

\* What held inside it is over.
LEMMA NewOutside ==
  ASSUME PlaceInv, SaidInv, NEW b, GoesOut(b)
  PROVE  /\ Fits(family, layout) /\ topic \subseteq Watched(family)
         /\ Len(open) \in Nat
         /\ \A c : IsOpen(c) <=> c = b \/ IsOpen(c)'
         /\ ~IsOpen(b)'
         /\ \A f \in topic :
              said'[f] = IF ScopeOf(layout, f) = b THEN <<>> ELSE said[f]
<1>1. /\ Fits(family, layout) /\ topic \subseteq Watched(family)
      /\ Len(open) \in Nat
  BY Fitting, Watching, Inside DEF GoesOut, PlaceInv, Own
<1>2. b \in BlocksOf(layout) /\ Innermost.block = b
  BY DEF GoesOut
<1>3. /\ Around(layout, b) = {b} \cup Around(layout, layout.under[b])
      /\ b \notin Around(layout, layout.under[b])
  BY <1>1, <1>2, AroundGrows
<1>4. \A c : IsOpen(c)' <=> c \in Around(layout, layout.under[b])
  BY DEF IsOpen, GoesOut, Around
<1>5. \A c : IsOpen(c) <=> c \in Around(layout, b)
  BY <1>2 DEF IsOpen
<1>6. \A f \in topic :
        said'[f] = IF ScopeOf(layout, f) = b THEN <<>> ELSE said[f]
  BY DEF GoesOut, Unsaid, Closing
<1> QED
  BY <1>1, <1>3, <1>4, <1>5, <1>6

\* What is still said holds.
LEMMA SaidGoesOut ==
  ASSUME PlaceInv, SaidInv, NEW b, GoesOut(b), Own'
  PROVE  SaidInv'
<1>1. /\ Fits(family, layout) /\ topic \subseteq Watched(family)
      /\ Len(open) \in Nat
      /\ \A c : IsOpen(c) <=> c = b \/ IsOpen(c)'
      /\ ~IsOpen(b)'
      /\ \A f \in topic :
           said'[f] = IF ScopeOf(layout, f) = b THEN <<>> ELSE said[f]
  BY NewOutside
<1>2. /\ Own /\ LeavesDone /\ b \in BlocksOf(layout)
      /\ Len(open') = Len(open) - 1
      /\ \A i \in 1 .. Len(open) - 1 : open'[i] = open[i]
      /\ stage' # "leaves" /\ UNCHANGED <<family, topic, layout>>
  BY DEF GoesOut
<1>3. /\ \A f : HomeOf(layout, f)' = HomeOf(layout, f)
      /\ \A f : ScopeOf(layout, f)' = ScopeOf(layout, f)
  BY <1>2 DEF HomeOf, ScopeOf, Within, After, Of
<1>4. Sayings' = Sayings
  BY <1>2 DEF Sayings
<1>5. said' \in [topic -> Seq(Sayings)]
  <2>1. said \in [topic -> Seq(Sayings)] /\ <<>> \in Seq(Sayings)
    BY DEF SaidInv
  <2> QED
    BY <2>1 DEF GoesOut, Unsaid
<1>6. \A f \in topic : said'[f] # <<>> => IsOpen(ScopeOf(layout, f))'
  <2>1. \A f \in topic : said'[f] # <<>> =>
          ScopeOf(layout, f) # b /\ IsOpen(ScopeOf(layout, f))
    BY <1>1 DEF SaidInv
  <2> QED
    BY <1>1, <1>3, <2>1
<1>7. \A f \in topic : \A i \in DOMAIN said'[f], j \in 2 .. Len(open') :
        open'[j].block = HomeOf(layout, f) => said'[f][i].in = open'[j].no
  <2> SUFFICES ASSUME NEW f \in topic, NEW i \in DOMAIN said'[f],
                      NEW j \in 2 .. Len(open'),
                      open'[j].block = HomeOf(layout, f)
               PROVE  said'[f][i].in = open'[j].no
    OBVIOUS
  <2>1. said'[f] = said[f]
    BY <1>1
  <2>2. j \in 2 .. Len(open) /\ open'[j] = open[j]
    BY <1>1, <1>2
  <2> QED
    BY <2>1, <2>2 DEF SaidInv
<1>8. \A f, g \in topic : HomeOf(layout, f) = HomeOf(layout, g) =>
        \A i \in DOMAIN said'[f], j \in DOMAIN said'[g] :
          said'[f][i].in = said'[g][j].in
  <2> SUFFICES ASSUME NEW f \in topic, NEW g \in topic,
                      HomeOf(layout, f) = HomeOf(layout, g),
                      NEW i \in DOMAIN said'[f], NEW j \in DOMAIN said'[g]
               PROVE  said'[f][i].in = said'[g][j].in
    OBVIOUS
  <2>1. said'[f] = said[f] /\ said'[g] = said[g]
    BY <1>1
  <2> QED
    BY <2>1 DEF SaidInv
<1>9. \A f \in topic : f \in DOMAIN layout.needs /\ said'[f] # <<>> =>
        \E g \in layout.needs[f] \cap topic : said'[g] # <<>>
  <2> SUFFICES ASSUME NEW f \in topic, f \in DOMAIN layout.needs, said'[f] # <<>>
               PROVE  \E g \in layout.needs[f] \cap topic : said'[g] # <<>>
    OBVIOUS
  <2>1. said[f] # <<>> /\ ScopeOf(layout, f) # b
    BY <1>1
  <2>2. PICK g \in layout.needs[f] \cap topic : said[g] # <<>>
    BY <1>2, <2>1, NeedsMet
  <2>3. ScopeOf(layout, g) = ScopeOf(layout, f)
    BY <1>1 DEF Fits, FieldsFit
  <2> QED
    BY <1>1, <2>1, <2>2, <2>3
<1> QED
  BY <1>2, <1>3, <1>4, <1>5, <1>6, <1>7, <1>8, <1>9 DEF SaidInv

\* The context is what it was outside.
LEMMA KeptGoesOut ==
  ASSUME PlaceInv, SaidInv, KeptInv, NEW b, GoesOut(b),
         \A f \in topic : ctx'[f] = IF f \in Clears(family, b) THEN <<>> ELSE ctx[f]
  PROVE  KeptInv'
<1>1. /\ Fits(family, layout) /\ topic \subseteq Watched(family)
      /\ Len(open) \in Nat
      /\ \A c : IsOpen(c) <=> c = b \/ IsOpen(c)'
      /\ ~IsOpen(b)'
      /\ \A f \in topic :
           said'[f] = IF ScopeOf(layout, f) = b THEN <<>> ELSE said[f]
  BY NewOutside
<1>2. /\ Reading /\ Own /\ LeavesDone /\ b \in BlocksOf(layout)
      /\ Innermost'.block = layout.under[b]
      /\ UNCHANGED <<family, topic, layout>>
  BY DEF GoesOut
<1>3. \A g : ScopeOf(layout, g)' = ScopeOf(layout, g)
  BY <1>2 DEF HomeOf, ScopeOf, Within, After, Of
<1>4. \A g : IsOpen(ScopeOf(layout, g)) <=>
               ScopeOf(layout, g) = b \/ IsOpen(ScopeOf(layout, g))'
  BY <1>1, <1>3
<1>5. \A g : ScopeOf(layout, g) = b => ~IsOpen(ScopeOf(layout, g))'
  BY <1>1, <1>3
<1> SUFFICES ASSUME NEW f \in topic
             PROVE  /\ IsOpen(ScopeOf(layout, f))' =>
                         ctx'[f] = Meant(f)' \/ Awaited(f)'
                    /\ ~IsOpen(ScopeOf(layout, f))'
                         /\ f \in Clears(family, ScopeOf(layout, f))' =>
                         ctx'[f] = <<>>
  BY <1>2 DEF KeptInv
<1>6. /\ ctx'[f] = IF f \in Clears(family, b) THEN <<>> ELSE ctx[f]
      /\ f \in Watched(family)
      /\ said'[f] = IF ScopeOf(layout, f) = b THEN <<>> ELSE said[f]
      /\ IsOpen(ScopeOf(layout, f)) <=>
           ScopeOf(layout, f) = b \/ IsOpen(ScopeOf(layout, f))'
      /\ ScopeOf(layout, f) = b => ~IsOpen(ScopeOf(layout, f))'
  BY <1>1, <1>4, <1>5
<1>7. CASE IsOpen(ScopeOf(layout, f))'
  <2>1. ScopeOf(layout, f) # b /\ IsOpen(ScopeOf(layout, f))
    BY <1>6, <1>7
  <2>2. ctx[f] = Meant(f)
    BY <1>2, <2>1, KeptAt
  <2>3. Meant(f)' = Meant(f)
    BY <1>2, <1>6, <2>1, MeantStays
  <2>4. f \notin Clears(family, b)
    <3>1. ScopeOf(layout, f) \in Around(layout, layout.under[b])
      BY <1>2, <1>3, <1>7 DEF IsOpen
    <3> QED
      BY <1>1, <1>2, <1>6, <3>1 DEF Fits, ScopesFit
  <2> QED
    BY <1>6, <1>7, <2>2, <2>3, <2>4
<1>8. CASE ~IsOpen(ScopeOf(layout, f))'
  <2>1. f \in Clears(family, ScopeOf(layout, f))' <=>
          f \in Clears(family, ScopeOf(layout, f))
    BY <1>2, <1>3 DEF Clears
  <2>2. CASE ScopeOf(layout, f) = b
    BY <1>6, <1>8, <2>1, <2>2
  <2>3. CASE ScopeOf(layout, f) # b
    <3>1. f \in Clears(family, ScopeOf(layout, f)) => ctx[f] = <<>>
      BY <1>2, <1>6, <1>8, <2>3 DEF KeptInv
    <3> QED
      BY <1>6, <1>8, <2>1, <3>1
  <2> QED
    BY <2>2, <2>3
<1> QED
  BY <1>7, <1>8

\* The innermost element closes: the row its end is due, and no other.
LEMMA ContentEnds ==
  ASSUME PlaceInv, PlaceInv', ContentInv, ElementEnds
  PROVE  ContentInv'
<1> DEFINE t == Innermost.tag
           b == Innermost.block
           n == Len(open) - 1
<1>1. /\ Reading /\ open # <<>> /\ Chosen /\ Nested /\ InStep
      /\ Fits(family, layout) /\ UNCHANGED layout /\ SaidInv /\ KeptInv
      /\ message # "none" => LeavesDone
      /\ open' = SubSeq(open, 1, n)
      /\ message' = IF Len(open) = 2 THEN "none" ELSE message
      /\ said' = IF message # "own" THEN said
                 ELSE IF b = "Message" THEN [f \in topic |-> <<>>]
                 ELSE Unsaid(Closing(b))
      /\ stage' # "leaves"
  BY Fitting DEF ElementEnds, PlaceInv, ContentInv
<1>2. PICK ok \in BOOLEAN :
        /\ ~ok => EndDue # Null /\ b \in layout.amounts
        /\ due' = IF EndDue # Null /\ ok THEN DueRow(EndDue, NoneOwn) ELSE Null
        /\ Reads([Event("close", t) EXCEPT !.sound = ok])
  BY DEF ElementEnds
<1> DEFINE e == [Event("close", t) EXCEPT !.sound = ok]
<1>3. Reads(e) /\ e.tag = "close" /\ e.name = t /\ e.sound = ok
  <2>1. Is(e, "close", t, <<>>, Null, NoneOwn, ok)
    BY Events
  <2> QED
    BY <1>2, <2>1 DEF Is
<1> HIDE DEF e
<1>4. /\ Len(open) \in Nat \ {0}
      /\ EndDue # Null => Own
      /\ GivesRow(t) <=> EndDue # Null
      /\ Own => b \in BlocksOf(layout) \cup {"Message"}
      /\ EndDue # Null =>
           /\ EndDue = layout.gives[b]
           /\ b \in DOMAIN layout.gives
           /\ family.ends[t].level = EndDue
           /\ b \in layout.amounts => family.ends[t].fallible
      /\ Own /\ b \in BlocksOf(layout) => t = b
  BY <1>1, GivesWhereDue
<1> HIDE DEF t, b
<1>5. /\ UNCHANGED <<family, topic>>
      /\ ~ok => result' = "failed" /\ row' = Null
      /\ ok /\ GivesRow(t) =>
           /\ row' = Row(family.ends[t].level, NoneOwn, ctx)
           /\ ctx' = Without(family.ends[t].clears)
      /\ ok /\ ~GivesRow(t) => row' = Null /\ ctx' = ctx
  <2>1. RowFails(e) <=> ~ok
    BY <1>2, <1>3, <1>4 DEF RowFails
  <2> QED
    BY <1>3, <2>1, CloseRead
<1>6. CASE ~ok
  BY <1>2, <1>5, <1>6, Finished DEF Reading
<1>7. CASE ~Own
  <2>1. ok /\ EndDue = Null /\ row' = Null /\ due' = Null
    BY <1>2, <1>4, <1>5, <1>7
  <2>2. ~Own' /\ said' = said
    BY <1>1, <1>7 DEF Own
  <2> QED
    BY <1>1, <1>5, <1>7, <2>1, <2>2, Quiet
<1>8. CASE ok /\ Own
  <2>1. LeavesDone /\ message = "own"
    BY <1>1, <1>8 DEF Own
  <2>2. RowInv'
    <3>1. CASE EndDue = Null
      BY <1>2, <1>4, <1>5, <1>8, <3>1, NoRow
    <3>2. CASE EndDue # Null
      <4>1. EndDue \in LevelsAt(layout, Innermost.block)
        BY <1>4, <3>2 DEF LevelsAt, b
      <4>2. \A level \in LevelsAt(layout, Innermost.block) :
              /\ Row(level, NoneOwn, ctx) = DueRow(level, NoneOwn)
              /\ Whole(Row(level, NoneOwn, ctx))
        BY <1>1, <1>8, <2>1, EndRowIsDue
      <4> HIDE DEF t
      <4>3. row' = Row(EndDue, NoneOwn, ctx) /\ due' = DueRow(EndDue, NoneOwn)
        BY <1>2, <1>4, <1>5, <1>8, <3>2
      <4>4. row' = due' /\ Whole(row')
        BY <4>1, <4>2, <4>3
      <4> QED
        BY <4>4, DueRowGiven
    <3> QED
      BY <3>1, <3>2
  <2>3. CASE b = "Message"
    <3>1. Len(open) = 2
      BY <1>1, <2>1, <2>3, Inside DEF b
    <3>2. ~Own'
      BY <1>1, <3>1 DEF Own
    <3>3. \A f \in topic : said'[f] = <<>>
      BY <1>1, <2>1, <2>3
    <3>4. said' \in [topic' -> Seq(Sayings')]
      <4>1. said' = [f \in topic |-> <<>>]
        BY <1>1, <2>1, <2>3
      <4>2. <<>> \in Seq(Sayings')
        OBVIOUS
      <4> QED
        BY <1>5, <4>1, <4>2
    <3>5. SaidInv'
      BY <1>5, <3>3, <3>4, NothingSaid
    <3> QED
      BY <2>2, <3>2, <3>5 DEF ContentInv, KeptInv
  <2>4. CASE b # "Message"
    <3>1. b \in BlocksOf(layout) /\ t = b
      BY <1>4, <1>8, <2>4
    <3>2. /\ Len(open) \in Nat /\ Len(open) >= 3 /\ open \in Seq(Elements)
          /\ layout.under[b] = open[Len(open) - 1].block
      <4>1. message # "none"
        BY <2>1
      <4>2. /\ Len(open) \in Nat /\ Len(open) >= 2 /\ open \in Seq(Elements)
            /\ b = "Message" <=> Len(open) = 2
            /\ b # "Message" => layout.under[b] = open[Len(open) - 1].block
        BY <1>1, <4>1, Inside DEF b
      <4>3. \A k \in Nat : k >= 2 /\ k # 2 => k >= 3
        OBVIOUS
      <4>4. Len(open) >= 3
        BY <2>4, <4>2, <4>3, Zenon
      <4> QED
        BY <2>4, <4>2, <4>4, Zenon
    <3> SUFFICES ASSUME NEW c, c = b
                 PROVE  ContentInv'
      OBVIOUS
    <3>3. GoesOut(c)
      <4>1. Len(open') = n /\ \A i \in 1 .. n : open'[i] = open[i]
        BY <1>1, <3>2
      <4>2. Innermost' = open[n]
        <5>1. n \in 1 .. n
          BY <3>2
        <5> QED
          BY <4>1, <5>1 DEF Innermost
      <4>3. Innermost'.block = layout.under[c]
        BY <3>2, <4>2
      <4>4. said' = Unsaid(Closing(c))
        BY <1>1, <2>1, <2>4
      <4>5. Innermost.block = c
        BY DEF b
      <4> QED
        BY <1>1, <1>5, <1>8, <2>1, <3>1, <4>1, <4>3, <4>4, <4>5 DEF GoesOut
    <3>4. Own'
      BY <1>1, <2>1, <3>2 DEF Own
    <3>5. \A f \in topic :
            ctx'[f] = IF f \in Clears(family, c) THEN <<>> ELSE ctx[f]
      <4>1. c \in DOMAIN family.ends <=> GivesRow(t)
        <5>1. t = c /\ c \in BlocksOf(layout) /\ c # "Message"
          BY <2>4, <3>1
        <5>2. /\ c \in DOMAIN family.ends <=> c \in DOMAIN layout.gives
              /\ c \in DOMAIN layout.gives => layout.gives[c] # Null
          BY <1>1, <5>1 DEF Fits, EndsFit, TagsOf
        <5>3. c \in DOMAIN layout.gives => EndDue = layout.gives[c]
          BY <2>1, <5>1 DEF EndDue, b
        <5> QED
          BY <1>4, <5>2, <5>3
      <4> QED
        BY <1>5, <1>8, <3>1, <4>1 DEF Without, Clears
    <3>6. SaidInv' /\ KeptInv'
      BY <1>1, <3>3, <3>4, <3>5, SaidGoesOut, KeptGoesOut
    <3> QED
      BY <2>2, <3>6 DEF ContentInv
  <2> QED
    BY <2>3, <2>4
<1> QED
  BY <1>6, <1>7, <1>8

-----------------------------------------------------------------------------
(* Every step of the scan.                                                 *)

\* A step in which nothing changes.
LEMMA ContentStays ==
  ASSUME ContentInv, UNCHANGED vars
  PROVE  ContentInv'
<1>1. UNCHANGED <<family, topic, ctx, row, result, layout, open, message, stage,
                  said, due>>
  BY DEF vars, readerVars, documentVars, where
<1>2. RowInv'
  BY <1>1 DEF ContentInv, RowInv, ReasonsAreWhole
<1>3. /\ \A f : HomeOf(layout, f)' = HomeOf(layout, f)
      /\ \A f : ScopeOf(layout, f)' = ScopeOf(layout, f)
      /\ \A f : IsOpen(ScopeOf(layout, f))' <=> IsOpen(ScopeOf(layout, f))
      /\ \A f : Leaves(f)' <=> Leaves(f)
      /\ \A f : Meant(f)' = Meant(f)
      /\ \A b : After(layout, b)' = After(layout, b)
      /\ BlocksOf(layout)' = BlocksOf(layout)
      /\ Own' <=> Own
      /\ Sayings' = Sayings /\ Innermost' = Innermost
  BY <1>1 DEF IsOpen, Innermost, Leaves, ScopeOf, HomeOf, Within, After, Of,
              Around, Meant, BlocksOf, Own, Sayings
<1>4. ASSUME Reading, SaidInv
      PROVE  SaidInv'
  BY <1>1, <1>3, <1>4 DEF SaidInv
<1>5. ASSUME Reading, KeptInv
      PROVE  KeptInv'
  <2>1. \A f : Awaited(f)' <=> Awaited(f)
    BY <1>1, <1>3 DEF Awaited
  <2>2. \A f : f \in Clears(family, ScopeOf(layout, f))' <=>
                 f \in Clears(family, ScopeOf(layout, f))
    BY <1>1, <1>3 DEF Clears
  <2> QED
    BY <1>1, <1>3, <1>5, <2>1, <2>2 DEF KeptInv
<1> QED
  BY <1>1, <1>2, <1>4, <1>5 DEF ContentInv, Reading

\* Every step keeps what the context and the row must be.
LEMMA ContentStep ==
  ASSUME PlaceInv, PlaceInv', ContentInv, ~Irregular, Next
  PROVE  ContentInv'
<1>1. CASE EnvelopeOpens
  BY <1>1, ContentEnvelope
<1>2. CASE MessageOpens
  BY <1>2, ContentMessage
<1>3. CASE BlockOpens
  BY <1>3, ContentBlock
<1>4. CASE TextSaid
  BY <1>4, ContentText
<1>5. CASE TextStrays
  BY <1>5, ContentStray
<1>6. CASE RecordMet
  BY <1>6, ContentRecord
<1>7. CASE DetailMet
  BY <1>7, ContentDetail
<1>8. CASE RecordElsewhere
  BY <1>8, ContentElsewhere
<1>9. CASE ElementEnds
  BY <1>9, ContentEnds
<1>10. CASE InputEnds
  BY <1>10, ContentInputEnds
<1>11. CASE Over
  BY <1>11, ContentStays DEF Over
<1> QED
  BY <1>1, <1>2, <1>3, <1>4, <1>5, <1>6, <1>7, <1>8, <1>9, <1>10, <1>11 DEF Next

\* At first nothing is said, kept or due.
LEMMA ContentStart ==
  ASSUME Init
  PROVE  ContentInv
<1>1. /\ row = Null /\ due = Null /\ message = "none"
      /\ said = [f \in topic |-> <<>>]
  BY DEF Init, ReaderInit, DocumentInit
<1>2. said \in [topic -> Seq(Sayings)] /\ \A f \in topic : said[f] = <<>>
  BY <1>1
<1>3. SaidInv
  BY <1>2 DEF SaidInv
<1> QED
  BY <1>1, <1>3 DEF ContentInv, RowInv, ReasonsAreWhole, KeptInv, Own

\* Of messages as their schemas have them, the context covers the place and the
\* row is the one it is due.
LEMMA ContentHolds ==
  ASSUME ~Irregular
  PROVE  Spec => []ContentInv
<1>1. Init => PlaceInv /\ ContentInv
  BY PlaceStart, ContentStart
<1>2. PlaceInv /\ ContentInv /\ [Next]_vars => PlaceInv' /\ ContentInv'
  <2> SUFFICES ASSUME PlaceInv, ContentInv, [Next]_vars
               PROVE  PlaceInv' /\ ContentInv'
    OBVIOUS
  <2>1. CASE Next
    BY <2>1, PlaceStep, ContentStep
  <2>2. CASE UNCHANGED vars
    BY <2>2, PlaceStays, ContentStays
  <2> QED
    BY <2>1, <2>2
<1> QED
  BY <1>1, <1>2, PTL DEF Spec

(* For every table and every layout that fits it, and files of any size: a   *)
(* row comes exactly where the file is due one, at its level; neither a      *)
(* foreign message nor a block outside one gives any.                        *)
THEOREM RowsHold ==
  ASSUME ~Irregular
  PROVE  Spec => []RowsAreDue
<1>1. Spec => []ContentInv
  BY ContentHolds
<1>2. ContentInv => RowsAreDue
  BY DEF ContentInv, RowInv, RowsAreDue
<1> QED
  BY <1>1, <1>2, PTL

(* Every column of such a row says what the record itself says, or else the  *)
(* innermost block that says it: the context, which is a field overwritten   *)
(* and reset event by event, always covers just the place where it stands.   *)
THEOREM ColumnsHold ==
  ASSUME ~Irregular
  PROVE  Spec => []ColumnsInScope
<1>1. Spec => []ContentInv
  BY ContentHolds
<1>2. ContentInv => ColumnsInScope
  BY DEF ContentInv, RowInv, ColumnsInScope
<1> QED
  BY <1>1, <1>2, PTL

(* Nor does a row pair the reason code of one block with the explanation or  *)
(* the originator of another.                                                *)
THEOREM ReasonsHold ==
  ASSUME ~Irregular
  PROVE  Spec => []ReasonsAreWhole
<1>1. Spec => []ContentInv
  BY ContentHolds
<1>2. ContentInv => ReasonsAreWhole
  BY DEF ContentInv, RowInv
<1> QED
  BY <1>1, <1>2, PTL
=============================================================================
