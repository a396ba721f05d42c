------------------------------ MODULE GroupRows ------------------------------
(***************************************************************************)
(* Every message reader over every small file of its messages: what the    *)
(* rows say against what the structure of the file has them say.           *)
(***************************************************************************)
EXTENDS GroupDocument

CONSTANTS
  Family,  \* [name of a family -> what it tells the reader (GroupTable)]
  Layout   \* [name of a family -> where it keeps what it says (MCGroupRows)]

-----------------------------------------------------------------------------
(* How the table f of a family and the layout l of its messages agree.     *)

BlocksOf(l) == DOMAIN l.under

\* The blocks that are open where b is the innermost one.
Around(l, b) ==
  {b, "Message"} \cup IF b = "Message" THEN {} ELSE {l.under[b]}

\* What the start tag and the end tag of a block reset.
Starts(f, b) == Of(f.starts, b)
Clears(f, b) == IF b \in DOMAIN f.ends THEN f.ends[b].clears ELSE {}

\* The elements a block is written as.
TagsOf(f, b) == IF b = "Message" THEN Range(f.containers) ELSE {b}

\* The levels of the rows a block is due.
LevelsAt(l, b) ==
  (IF b \in l.records THEN {"TRANSACTION"} ELSE {})
  \cup (IF b \in DOMAIN l.gives THEN {l.gives[b]} ELSE {})

Watched(f) == UNION Topics(f.rows)

Tails(f, x) == Of(f.set, x) \cup Of(f.fill, x)

\* A block is in the message or in one that is, and no other element.
TreeFits(f, l) ==
  /\ f.containers \in Seq(STRING) /\ f.containers # <<>>
  /\ {"Message", "Envelope", "OtherMsg"} \cap BlocksOf(l) = {}
  /\ ({"Envelope", "OtherMsg"} \cup BlocksOf(l)) \cap Range(f.containers) = {}
  /\ \A b \in BlocksOf(l) :
       \/ l.under[b] = "Message"
       \/ l.under[b] \in BlocksOf(l) /\ l.under[l.under[b]] = "Message"

\* A field is said by one block, for its inside or, by a head, for what follows.
HomesFit(f, l) ==
  /\ DOMAIN l.within \cup DOMAIN l.after \subseteq BlocksOf(l)
  /\ DOMAIN l.after \subseteq l.heads
  /\ \A x \in Watched(f) : \A b, c \in BlocksOf(l) :
       /\ x \in Within(l, b) => x \notin After(l, c)
       /\ x \in Within(l, b) \cap Within(l, c) => b = c
       /\ x \in After(l, b) \cap After(l, c) => b = c

\* A block is due the row its end tag gives; only that of a group that is the
\* message waits for records.
EndsFit(f, l) ==
  /\ \A b \in BlocksOf(l) \cup {"Message"} : \A t \in TagsOf(f, b) :
       /\ t \in DOMAIN f.ends <=> b \in DOMAIN l.gives
       /\ b \in DOMAIN l.gives =>
            /\ f.ends[t].level = l.gives[b]
            /\ f.ends[t].always = ~(l.gives[b] = "GROUP" /\ b = "Message")
            /\ b \in l.amounts => f.ends[t].fallible
  /\ \A b \in DOMAIN l.gives : l.gives[b] # Null
  /\ f.records \cap DOMAIN f.details = {}
  /\ \/ f.sawAt \in {"open", "row"}
     \/ /\ "Message" \in DOMAIN l.gives
        /\ f.sawAt = l.gives["Message"] /\ f.sawAt # "GROUP"

\* A block that opens finds what it says blank, or must say it; and neither its
\* start nor its end resets what holds around it.
ScopesFit(f, l) ==
  \A x \in Watched(f), b \in BlocksOf(l) :
    /\ ScopeOf(l, x) = b =>
         \/ x \in Starts(f, b) \cup Clears(f, b)
         \/ x \in l.required /\ HomeOf(l, x) = b
    /\ x \in After(l, b) /\ b \in l.many => x \in Starts(f, b) \cup l.required
    /\ x \in Starts(f, b) \ After(l, b) => ScopeOf(l, x) \notin Around(l, l.under[b])
    /\ x \in Clears(f, b) => ScopeOf(l, x) \notin Around(l, l.under[b])

\* What a row is made of holds where the row is due, or is blank there.
RowsFit(f, l) ==
  \A b \in BlocksOf(l) \cup {"Message"} : \A level \in LevelsAt(l, b) :
    /\ level \in DOMAIN f.rows
    /\ \A bundle \in f.rows[level] : \A x \in FieldsOf(bundle) :
         \/ ScopeOf(l, x) \in Around(l, b)
         \/ x \in Clears(f, ScopeOf(l, x))

\* The sources of a bundle have the same columns, each source within the next,
\* and one that says anything says a column of by, if it is not the last.
BundlesFit(f, l) ==
  \A level \in DOMAIN f.rows : \A bundle \in f.rows[level] :
    LET sources == bundle.sources
        columns == DOMAIN sources[1]
    IN  /\ sources \in Seq(Range(sources)) /\ sources # <<>>
        /\ level = "TRANSACTION" /\ columns \cap l.own # {} => bundle.own
        /\ bundle.by \subseteq columns
        /\ \A i \in DOMAIN sources :
             /\ DOMAIN sources[i] = columns
             /\ Reach(l, sources[i]) \in Nat
             /\ \A j \in i + 1 .. Len(sources) :
                  Reach(l, sources[i]) > Reach(l, sources[j])
             /\ \A k, m \in columns :
                  HomeOf(l, sources[i][k]) = HomeOf(l, sources[i][m])
             /\ i # Len(sources) =>
                  \A k \in columns \ bundle.by :
                    /\ sources[i][k] \in DOMAIN l.needs
                    /\ l.needs[sources[i][k]] \subseteq
                         {sources[i][m] : m \in bundle.by}

\* What must be said is set by its text, a list is never only filled, and what a
\* field needs is said beside it.
FieldsFit(f, l) ==
  \A x \in Watched(f) :
    /\ x \in l.required \cup f.lists => Of(f.fill, x) = {}
    /\ x \in l.required => x \notin f.lists
    /\ x \in Range(f.details) => HomeOf(l, x) = "Message"
    /\ x \in DOMAIN l.needs =>
         /\ x \notin Range(f.details)
         /\ \A y \in l.needs[x] :
              HomeOf(l, y) = HomeOf(l, x) /\ ScopeOf(l, y) = ScopeOf(l, x)

Fits(f, l) ==
  /\ TreeFits(f, l) /\ HomesFit(f, l) /\ EndsFit(f, l) /\ ScopesFit(f, l)
  /\ RowsFit(f, l) /\ BundlesFit(f, l) /\ FieldsFit(f, l)

ASSUME LayoutsFit ==
  \A name \in DOMAIN Family : Fits(Family[name], Layout[name])

\* No text belongs to two fields, so the order in which capture tries the tails
\* does not matter; nor is one both preferred and a substitute.
ASSUME TailsAreApart ==
  \A name \in DOMAIN Family :
    LET f == Family[name]
        fields == DOMAIN f.set \cup DOMAIN f.fill
    IN  /\ \A x \in fields : Tails(f, x) \subseteq Seq(STRING) \ {<<>>}
        /\ \A a, b \in fields : \A t \in Tails(f, a), u \in Tails(f, b) :
             a # b => ~EndsWith(u, t)
        /\ \A x \in fields : \A t \in Of(f.set, x), u \in Of(f.fill, x) :
             ~EndsWith(u, t) /\ ~EndsWith(t, u)

ASSUME NullIsNothing == Null \notin Nat

vars == <<readerVars, documentVars>>

Init ==
  \E name \in DOMAIN Family :
    ReaderInit(Family[name]) /\ DocumentInit(Layout[name])

\* The scan is over.
Over == ~Reading /\ UNCHANGED vars

Next ==
  \/ EnvelopeOpens \/ MessageOpens \/ BlockOpens \/ TextSaid \/ TextStrays
  \/ RecordMet \/ DetailMet \/ RecordElsewhere \/ ElementEnds \/ InputEnds
  \/ Over

Spec == Init /\ [][Next]_vars

-----------------------------------------------------------------------------
(* A row comes exactly where the file is due one, at its level: a block or a *)
(* record of another message in the envelope gives none, and a request that  *)
(* names no transaction gives one for itself.                                *)
RowsAreDue ==
  /\ row # Null <=> due # Null
  /\ row # Null => row.level = due.level

(* Every column says what its place in the file is covered by: the record   *)
(* itself, else the innermost block that says it, never a block or a message *)
(* that is over, nor one that has not begun.                                 *)
ColumnsInScope ==
  row # Null /\ due # Null => row.bundles = due.bundles

(* What camt056.rs says of CxlStream.case, "The case a request states beside *)
(* its assignment; a transaction that names no case of its own belongs to it", *)
(* and docs/adr/0006 of camt.056 and camt.029, "A message-level <Case><Id> is *)
(* the fallback case id": so the case a row reports is never one that only a  *)
(* group which is over states for itself.                                     *)
CaseIsNoOtherGroups ==
  row # Null /\ due # Null /\ topic = {"case_id"} =>
    \A bundle \in row.bundles : \A i \in DOMAIN bundle.case_id :
      \/ bundle.case_id[i].in \in {0} \union {open[j].no : j \in DOMAIN open}
      \/ bundle.case_id[i].in > Innermost.no

(* A reason is inherited whole: no row pairs the code one block states with  *)
(* the explanation or the originator another one states.                     *)
ReasonsAreWhole ==
  row # Null =>
    \A bundle \in row.bundles :
      \A k, l \in DOMAIN bundle :
        \A i \in DOMAIN bundle[k], j \in DOMAIN bundle[l] :
          bundle[k][i].in = bundle[l][j].in

(* A scan ends without an error only after the whole of a file with a message *)
(* of the family, all of it readable; and such a file does end so, if it was  *)
(* due any row.                                                               *)
EndsAsItShould ==
  [][/\ result' = "ended" /\ Reading => open = <<>> /\ met /\ sound
     /\ result' = "failed" /\ Reading =>
          ~sound' \/ open # <<>> \/ ~met \/ ~gave]_vars
=============================================================================
