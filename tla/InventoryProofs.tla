--------------------------- MODULE InventoryProofs ---------------------------
(***************************************************************************)
(* What holds of the sniffer and the audit over every file the Inventory   *)
(* module describes, for any containers and files of any size.             *)
(***************************************************************************)
EXTENDS Inventory, FoldLemmas

-----------------------------------------------------------------------------
(* Where an element stands: the names of the open elements have ranks that *)
(* grow inwards.                                                           *)

Leaf == {"AdrLine", "TwnNm", "Ctry"}
Frame == {"BizMsgEnvlp", "AppHdr", "Document", "MsgDefIdr", Wrapper}

Rank(name) ==
  IF name = "BizMsgEnvlp" THEN 1
  ELSE IF name \in {"AppHdr", "Document"} THEN 2
  ELSE IF name \in {"MsgDefIdr", Wrapper} THEN 3
  ELSE IF name \in Containers THEN 4
  ELSE IF name \in {"GrpHdr"} \cup (RecordElems \ {"Mndt"}) THEN 5
  ELSE IF name \in {"MsgId", "Mndt", "Rcpt"} THEN 6
  ELSE IF name = "Dbtr" THEN 7
  ELSE IF name \in {"PstlAdr", "CtctDtls"} THEN 8
  ELSE IF name \in Leaf THEN 9
  ELSE 0

Fits(outer, inner) ==
  /\ Rank(outer) < Rank(inner)
  /\ inner = "MsgId" => outer = "GrpHdr"
  /\ inner = "MsgDefIdr" => outer = "AppHdr"
  /\ inner = Wrapper => outer = "Document"
  /\ inner \in {"PstlAdr", "CtctDtls"} => outer = "Dbtr"
  /\ inner \in Leaf => outer \in {"PstlAdr", "CtctDtls"}
  /\ inner = "AdrLine" => outer = "PstlAdr"

Nested ==
  /\ \A i \in DOMAIN path : Rank(path[i]) \in 1 .. 9
  /\ \A i, j \in DOMAIN path : i < j => Rank(path[i]) < Rank(path[j])
  /\ \A i \in 2 .. Len(path) : Fits(path[i - 1], path[i])
  /\ path # <<>> => path[1] \in {"BizMsgEnvlp", "Document"}

\* The names of the containers are theirs alone.
LEMMA ContainerNames ==
  /\ Containers \subseteq DOMAIN Announced
  /\ Containers \cap RecordElems = {}
  /\ Containers \cap (Frame \cup Leaf) = {}
  /\ Containers \cap {"GrpHdr", "MsgId", "Rcpt", "Dbtr", "PstlAdr", "CtctDtls"} = {}
  /\ DOMAIN Announced \cap (Roles \cup RecordElems) = {}
  /\ DOMAIN Announced \cap (Frame \cup Leaf) = {}
  /\ DOMAIN Announced \cap {"GrpHdr", "MsgId", "Dbtr", "PstlAdr", "CtctDtls"} = {}
<1>1. DOMAIN Announced \cap (Roles \cup RecordElems) = {}
  BY DEF Announced, Roles, RecordElems
<1>2. DOMAIN Announced \cap (Frame \cup Leaf) = {}
  BY DEF Announced, Frame, Leaf, Wrapper
<1>3. DOMAIN Announced \cap {"GrpHdr", "MsgId", "Dbtr", "PstlAdr", "CtctDtls"} = {}
  BY DEF Announced
<1>. QED BY <1>1, <1>2, <1>3, FileAssumption

\* Each name has its rank.
LEMMA Ranks ==
  /\ Rank("BizMsgEnvlp") = 1
  /\ Rank("AppHdr") = 2 /\ Rank("Document") = 2
  /\ Rank("MsgDefIdr") = 3 /\ Rank(Wrapper) = 3
  /\ \A c \in Containers : Rank(c) = 4
  /\ Rank("GrpHdr") = 5 /\ Rank("MsgId") = 6
  /\ \A n \in RecordElems : Rank(n) = IF n = "Mndt" THEN 6 ELSE 5
  /\ Rank("Mndt") = 6 /\ Rank("Rcpt") = 6 /\ Rank("Dbtr") = 7
  /\ Rank("PstlAdr") = 8 /\ Rank("CtctDtls") = 8
  /\ \A n \in Leaf : Rank(n) = 9
<1>1. \A n \in RecordElems : n \notin Frame \cup Leaf \cup {"GrpHdr"}
  BY DEF RecordElems, Frame, Leaf, Wrapper
<1>2. /\ Rank("BizMsgEnvlp") = 1
      /\ Rank("AppHdr") = 2 /\ Rank("Document") = 2
      /\ Rank("MsgDefIdr") = 3 /\ Rank(Wrapper) = 3
  BY DEF Rank, Wrapper
<1>3. \A c \in Containers : Rank(c) = 4
  BY ContainerNames DEF Rank, Frame
<1>4. /\ Rank("GrpHdr") = 5 /\ Rank("MsgId") = 6
      /\ Rank("Mndt") = 6 /\ Rank("Rcpt") = 6 /\ Rank("Dbtr") = 7
  BY ContainerNames DEF Rank, Wrapper, RecordElems
<1>5. \A n \in RecordElems : Rank(n) = IF n = "Mndt" THEN 6 ELSE 5
  BY <1>1, ContainerNames DEF Rank, Frame
<1>6. Rank("PstlAdr") = 8 /\ Rank("CtctDtls") = 8
  BY ContainerNames DEF Rank, Wrapper, RecordElems
<1>7. \A n \in Leaf : Rank(n) = 9
  BY ContainerNames DEF Rank, Wrapper, RecordElems, Leaf
<1>. QED BY <1>2, <1>3, <1>4, <1>5, <1>6, <1>7

\* The rank tells what the name is.
LEMMA RankTells ==
  ASSUME NEW n
  PROVE  /\ Rank(n) \in 0 .. 9
         /\ Rank(n) = 1 <=> n = "BizMsgEnvlp"
         /\ Rank(n) = 2 <=> n \in {"AppHdr", "Document"}
         /\ Rank(n) = 3 <=> n \in {"MsgDefIdr", Wrapper}
         /\ Rank(n) = 4 <=> n \in Containers
         /\ Rank(n) = 7 <=> n = "Dbtr"
         /\ Rank(n) = 8 <=> n \in {"PstlAdr", "CtctDtls"}
         /\ Rank(n) = 9 <=> n \in Leaf
<1>1. Rank(n) \in 0 .. 9
  BY DEF Rank
<1>2. Rank(n) = 1 => n = "BizMsgEnvlp"
  BY DEF Rank
<1>3. Rank(n) = 2 => n \in {"AppHdr", "Document"}
  BY DEF Rank
<1>4. Rank(n) = 3 => n \in {"MsgDefIdr", Wrapper}
  BY DEF Rank
<1>5. Rank(n) = 4 => n \in Containers
  BY DEF Rank
<1>6. Rank(n) = 7 => n = "Dbtr"
  BY DEF Rank
<1>7. Rank(n) = 8 => n \in {"PstlAdr", "CtctDtls"}
  BY DEF Rank
<1>8. Rank(n) = 9 => n \in Leaf
  BY DEF Rank
<1>. QED BY <1>1, <1>2, <1>3, <1>4, <1>5, <1>6, <1>7, <1>8, Ranks

\* What is a record is told by its family.
LEMMA RecordElemIs ==
  ASSUME NEW f
  PROVE  RecordElemOf(f) \in RecordElems \cup {Null}
BY DEF RecordElemOf, RecordElems

-----------------------------------------------------------------------------
(* The path moves by one element.                                          *)

\* The innermost element is the last of the path.
LEMMA Innermost ==
  ASSUME path \in Seq(Elements)
  PROVE  /\ Len(path) \in Nat /\ DOMAIN path = 1 .. Len(path)
         /\ path = <<>> <=> Len(path) = 0
         /\ path = <<>> => Here = Null
         /\ path # <<>> => Len(path) \in DOMAIN path /\ Here = path[Len(path)]
         /\ path # <<>> => Here \in Elements /\ Here # Null
         /\ Here # Null => path # <<>>
<1>1. path # <<>> => Here = path[Len(path)]
  BY DEF Here, Last
<1>2. path = <<>> => Here = Null
  BY DEF Here
<1>3. path # <<>> => path[Len(path)] \in Elements
  OBVIOUS
<1>4. Null \notin Elements
  BY NullAssumption
<1>. QED BY <1>1, <1>2, <1>3, <1>4

\* A start tag puts its name at the end.
LEMMA Pushed ==
  ASSUME path \in Seq(Elements), NEW name \in Elements, path' = Append(path, name)
  PROVE  /\ path' \in Seq(Elements) /\ path' # <<>> /\ Len(path') = Len(path) + 1
         /\ DOMAIN path' = 1 .. Len(path) + 1
         /\ path'[Len(path) + 1] = name /\ Here' = name
         /\ \A i \in 1 .. Len(path) : path'[i] = path[i]
<1>1. /\ path' \in Seq(Elements) /\ Len(path') = Len(path) + 1
      /\ DOMAIN path' = 1 .. Len(path) + 1
      /\ path'[Len(path) + 1] = name
      /\ \A i \in 1 .. Len(path) : path'[i] = path[i]
  <2>. DEFINE p == Append(path, name)
  <2>1. /\ p \in Seq(Elements) /\ Len(p) = Len(path) + 1
        /\ DOMAIN p = 1 .. Len(path) + 1
        /\ p[Len(path) + 1] = name
        /\ \A i \in 1 .. Len(path) : p[i] = path[i]
    <3>1. /\ p \in Seq(Elements) /\ Len(p) = Len(path) + 1
          /\ p[Len(path) + 1] = name
          /\ \A i \in 1 .. Len(path) : p[i] = path[i]
      BY AppendProperties
    <3>. QED BY <3>1
  <2>. QED BY <2>1
<1>2. path' # <<>>
  <2>1. Len(path) \in Nat
    OBVIOUS
  <2>2. Len(path') # Len(<<>>)
    BY <1>1, <2>1
  <2>. QED BY <2>2
<1>3. Here' = path'[Len(path')]
  BY <1>2 DEF Here, Last
<1>. QED BY <1>1, <1>2, <1>3

\* An end tag takes the last away.
LEMMA Popped ==
  ASSUME path \in Seq(Elements), path # <<>>, path' = Front(path)
  PROVE  /\ path' \in Seq(Elements)
         /\ Len(path') = Len(path) - 1 /\ DOMAIN path' = 1 .. Len(path) - 1
         /\ \A i \in 1 .. Len(path) - 1 : path'[i] = path[i]
<1>1. Len(path) \in Nat \ {0} /\ DOMAIN path = 1 .. Len(path)
  OBVIOUS
<1>2. path' = [i \in 1 .. Len(path) - 1 |-> path[i]]
  <2>1. path' = SubSeq(path, 1, Len(path) - 1)
    BY DEF Front
  <2>2. Len(SubSeq(path, 1, Len(path) - 1)) = Len(path) - 1
    BY <1>1
  <2>. QED BY <1>1, <2>1, <2>2
<1>3. \A i \in 1 .. Len(path) - 1 : path[i] \in Elements
  BY <1>1
<1>. QED BY <1>1, <1>2, <1>3

\* An element inside the innermost one keeps the names in their order.
LEMMA NestedPushed ==
  ASSUME Nested, path \in Seq(Elements), NEW name \in Elements,
         path' = Append(path, name), Rank(name) # 0,
         path = <<>> => name \in {"BizMsgEnvlp", "Document"},
         path # <<>> => Fits(Here, name)
  PROVE  Nested'
<1>. DEFINE n == Len(path)
<1>1. /\ n \in Nat /\ DOMAIN path = 1 .. n /\ DOMAIN path' = 1 .. n + 1
      /\ Len(path') = n + 1 /\ path'[n + 1] = name
      /\ \A i \in 1 .. n : path'[i] = path[i]
      /\ path # <<>> => n >= 1 /\ Here = path[n]
  BY Pushed, Innermost
<1>2. \A x : Rank(x) \in 0 .. 9
  BY RankTells
<1>3. \A i \in 1 .. n : Rank(path[i]) \in 1 .. 9 /\ Rank(path[i]) < Rank(name)
  <2>. SUFFICES ASSUME NEW i \in 1 .. n
                PROVE  Rank(path[i]) \in 1 .. 9 /\ Rank(path[i]) < Rank(name)
    OBVIOUS
  <2>1. n >= 1 /\ Here = path[n] /\ Rank(path[n]) < Rank(name)
    BY <1>1 DEF Fits
  <2>2. n \in DOMAIN path /\ i \in DOMAIN path
    BY <1>1, <2>1
  <2>4. Rank(path[i]) \in 1 .. 9 /\ (i < n => Rank(path[i]) < Rank(path[n]))
    BY <2>2, Zenon DEF Nested
  <2>3. i < n \/ i = n
    <3>1. n \in Nat
      BY <1>1
    <3>. QED BY <3>1
  <2>. QED BY <2>1, <2>4, <2>3, <1>2
<1>4. \A i \in DOMAIN path' : Rank(path'[i]) \in 1 .. 9
  BY <1>1, <1>2, <1>3
<1>5. \A i, j \in DOMAIN path' : i < j => Rank(path'[i]) < Rank(path'[j])
  <2>. SUFFICES ASSUME NEW i \in 1 .. n + 1, NEW j \in 1 .. n + 1, i < j
                PROVE  Rank(path'[i]) < Rank(path'[j])
    BY <1>1
  <2>1. CASE j = n + 1
    BY <2>1, <1>1, <1>3
  <2>2. CASE j \in 1 .. n
    BY <2>2, <1>1 DEF Nested
  <2>. QED BY <2>1, <2>2, <1>1
<1>6. \A i \in 2 .. n + 1 : Fits(path'[i - 1], path'[i])
  <2>. SUFFICES ASSUME NEW i \in 2 .. n + 1
                PROVE  Fits(path'[i - 1], path'[i])
    OBVIOUS
  <2>1. CASE i = n + 1
    <3>1. i - 1 = n /\ n >= 1
      BY <2>1, <1>1
    <3>2. path # <<>> /\ path'[n] = Here
      BY <3>1, <1>1, Innermost
    <3>. QED BY <2>1, <3>1, <3>2, <1>1
  <2>2. CASE i \in 2 .. n
    <3>1. Fits(path[i - 1], path[i])
      BY <2>2 DEF Nested
    <3>. QED BY <2>2, <3>1, <1>1
  <2>. QED BY <2>1, <2>2, <1>1
<1>7. path'[1] \in {"BizMsgEnvlp", "Document"}
  BY <1>1, Innermost DEF Nested
<1>. QED BY <1>1, <1>4, <1>5, <1>6, <1>7 DEF Nested

\* And so does the end of one.
LEMMA NestedPopped ==
  ASSUME Nested, path \in Seq(Elements), path # <<>>, path' = Front(path)
  PROVE  Nested'
<1>. DEFINE n == Len(path)
<1>1. /\ n \in Nat /\ DOMAIN path = 1 .. n /\ DOMAIN path' = 1 .. n - 1
      /\ Len(path') = n - 1 /\ \A i \in 1 .. n - 1 : path'[i] = path[i]
  BY Popped, Innermost
<1>2. \A i \in 2 .. n - 1 : Fits(path'[i - 1], path'[i])
  BY <1>1 DEF Nested
<1>3. path' # <<>> => path'[1] \in {"BizMsgEnvlp", "Document"}
  <2>1. path' # <<>> => n - 1 >= 1
    BY Popped, <1>1
  <2>. QED BY <1>1, <2>1 DEF Nested
<1>4. \A i \in DOMAIN path' : Rank(path'[i]) \in 1 .. 9
  <2>1. \A i \in 1 .. n - 1 : i \in DOMAIN path /\ path'[i] = path[i]
    BY <1>1
  <2>2. \A i \in DOMAIN path : Rank(path[i]) \in 1 .. 9
    BY Zenon DEF Nested
  <2>. QED BY <1>1, <2>1, <2>2, Zenon
<1>5. \A i, j \in DOMAIN path' : i < j => Rank(path'[i]) < Rank(path'[j])
  <2>. SUFFICES ASSUME NEW i \in 1 .. n - 1, NEW j \in 1 .. n - 1, i < j
                PROVE  Rank(path[i]) < Rank(path[j])
    BY <1>1
  <2>1. i \in DOMAIN path /\ j \in DOMAIN path
    BY <1>1
  <2>. QED BY <2>1 DEF Nested
<1>. QED BY <1>1, <1>2, <1>3, <1>4, <1>5 DEF Nested

\* The innermost name has the greatest rank, and no other has it.
LEMMA HereRank ==
  ASSUME Nested, path \in Seq(Elements), path # <<>>
  PROVE  /\ \A i \in DOMAIN path :
              /\ Rank(path[i]) \in 1 .. 9 /\ Rank(path[i]) <= Rank(Here)
              /\ Rank(path[i]) = Rank(Here) => i = Len(path)
         /\ Rank(Here) \in 1 .. 9
         /\ IF Len(path) = 1 THEN Here \in {"BizMsgEnvlp", "Document"}
            ELSE Len(path) - 1 \in DOMAIN path /\ Fits(path[Len(path) - 1], Here)
<1>1. Len(path) \in DOMAIN path /\ Here = path[Len(path)]
      /\ DOMAIN path = 1 .. Len(path) /\ Len(path) \in Nat
  BY Innermost
<1>2. ASSUME NEW i \in DOMAIN path
      PROVE  /\ Rank(path[i]) \in 1 .. 9
             /\ i # Len(path) => Rank(path[i]) < Rank(Here)
  BY <1>1 DEF Nested
<1>3. Rank(Here) \in 1 .. 9
  BY <1>1 DEF Nested
<1>4. \A i \in DOMAIN path :
              /\ Rank(path[i]) \in 1 .. 9 /\ Rank(path[i]) <= Rank(Here)
              /\ Rank(path[i]) = Rank(Here) => i = Len(path)
  BY <1>1, <1>2, <1>3
<1>5. IF Len(path) = 1 THEN Here \in {"BizMsgEnvlp", "Document"}
      ELSE Len(path) - 1 \in DOMAIN path /\ Fits(path[Len(path) - 1], Here)
  BY <1>1 DEF Nested
<1>. QED BY <1>3, <1>4, <1>5

-----------------------------------------------------------------------------
(* What the walks remember, by its kind.                                   *)

Messages == Families \cup {Null}

Pasts ==
  [messages : Nat, families : SUBSET Families, records : Nat, plain : BOOLEAN,
   hidden : BOOLEAN, form : {Null, "envelope", "documents", "bare"},
   envelope : Messages, binding : Messages,
   child : Containers \cup {Wrapper, Null}, empty : BOOLEAN,
   header : Messages \cup {Note}, heard : Messages, free : BOOLEAN]

Owns ==
  [depth : Nat \cup {Null}, family : Messages, id : Nat \cup {Null},
   container : Messages, records : Nat, parties : Nat, record : Nat \cup {Null},
   amended : BOOLEAN]

Addresses ==
  [lines : Seq(Nat), town : BOOLEAN, country : BOOLEAN, leaves : Nat]

Sniffs ==
  [namespace : Messages, ancestor : Messages, document : BOOLEAN,
   container : DOMAIN Announced \cup {Null}, within : BOOLEAN,
   awaiting : BOOLEAN, child : Elements \cup {Null}, header : Messages,
   id : Nat \cup {Null}, counts : [RecordElems -> Nat], broke : BOOLEAN,
   done : BOOLEAN]

Audits ==
  [family : Messages, document : Messages, envelope : Messages,
   header : Messages, id : Nat \cup {Null}, depth : Nat \cup {Null},
   docDepth : Nat \cup {Null}, awaiting : BOOLEAN, found : BOOLEAN,
   index : Nat, record : Nat \cup {Null}, open : Parties \cup {Null},
   done : {"reading", "ended", "failed"}]

TypeInv ==
  /\ path \in Seq(Elements) /\ past \in Pasts /\ own \in Owns
  /\ party \in Addresses /\ sniffed \in Sniffs /\ audit \in Audits

\* The fixed names are names.
LEMMA FixedNames ==
  /\ Frame \cup Leaf \cup RecordElems \cup Containers \subseteq Elements
  /\ {"GrpHdr", "MsgId", "Mndt", "Rcpt", "Dbtr", "PstlAdr", "CtctDtls"} \subseteq Elements
  BY ContainerNames DEF Elements, Leaves, Frame, Leaf

\* A container announces a family.
LEMMA AnnouncedIs ==
  ASSUME NEW name
  PROVE  /\ name \in DOMAIN Announced => FamilyOfContainer(name) = Announced[name]
         /\ FamilyOfContainer(name) # Null <=> name \in DOMAIN Announced
         /\ name \in Containers => FamilyOfContainer(name) = Announced[name]
                                  /\ Announced[name] \in Idents
<1>1. name \in DOMAIN Announced => Announced[name] \in Families
  BY DEF Families
<1>2. name \in DOMAIN Announced => Announced[name] # Null
  BY <1>1, NullAssumption
<1>3. name \in Containers => name \in DOMAIN Announced
  BY ContainerNames
<1>4. name \in Containers => Announced[name] \in Idents
  BY DEF Idents
<1>5. FamilyOfContainer(name) = IF name \in DOMAIN Announced THEN Announced[name]
                                ELSE Null
  BY Zenon DEF FamilyOfContainer
<1>. QED BY <1>2, <1>3, <1>4, <1>5

\* What names a message is a family.
LEMMA IdentsAre ==
  /\ Idents \subseteq Families /\ Null \notin Idents /\ Note \notin Messages
  /\ \A m \in Idents : MessageDefinition(m) = m
  /\ MessageDefinition(Null) = Null /\ MessageDefinition(Note) = Null
<1>1. Idents \subseteq Families
  BY ContainerNames DEF Idents, Families
<1>. QED BY <1>1, NullAssumption, FileAssumption DEF MessageDefinition, Messages

\* What the first option is that there is.
LEMMA FirstOfIs ==
  ASSUME NEW n \in Nat, NEW t, DOMAIN t = 1 .. n
  PROVE  /\ \A k \in 1 .. n : t[k] # Null /\ (\A i \in 1 .. k - 1 : t[i] = Null) =>
              FirstOf(t) = t[k]
         /\ (\A k \in 1 .. n : t[k] = Null) => FirstOf(t) = Null
<1>. DEFINE S == {i \in DOMAIN t : t[i] # Null}
<1>1. FirstOf(t) = IF S = {} THEN Null
                   ELSE t[CHOOSE i \in S : \A j \in S : i <= j]
  BY Zenon DEF FirstOf
<1>2. ASSUME NEW k \in 1 .. n, t[k] # Null, \A i \in 1 .. k - 1 : t[i] = Null
      PROVE  FirstOf(t) = t[k]
  <2>1. k \in S /\ \A j \in S : k <= j
    BY <1>2
  <2>2. \A i \in S : (\A j \in S : i <= j) => i = k
    BY <2>1
  <2>. HIDE DEF S
  <2>3. (CHOOSE i \in S : \A j \in S : i <= j) = k
    BY <2>1, <2>2
  <2>. QED BY <1>1, <2>1, <2>3
<1>3. (\A k \in 1 .. n : t[k] = Null) => S = {}
  OBVIOUS
<1>. QED BY <1>1, <1>2, <1>3

\* The first of three, and of four.
LEMMA FirstOfThree ==
  ASSUME NEW a, NEW b, NEW c
  PROVE  FirstOf(<<a, b, c>>) = Some(a, Some(b, c))
<1>. DEFINE t == <<a, b, c>>
<1>1. DOMAIN t = 1 .. 3 /\ t[1] = a /\ t[2] = b /\ t[3] = c
  OBVIOUS
<1>. HIDE DEF t
<1>2. /\ \A k \in 1 .. 3 : t[k] # Null /\ (\A i \in 1 .. k - 1 : t[i] = Null) =>
           FirstOf(t) = t[k]
      /\ (\A k \in 1 .. 3 : t[k] = Null) => FirstOf(t) = Null
  BY <1>1, FirstOfIs
<1>3. /\ a # Null => FirstOf(t) = a
      /\ a = Null /\ b # Null => FirstOf(t) = b
      /\ a = Null /\ b = Null /\ c # Null => FirstOf(t) = c
      /\ a = Null /\ b = Null /\ c = Null => FirstOf(t) = Null
  BY <1>1, <1>2
<1>. QED BY <1>3 DEF Some, t

\* The same of four options.
LEMMA FirstOfFour ==
  ASSUME NEW a, NEW b, NEW c, NEW d
  PROVE  FirstOf(<<a, b, c, d>>) = Some(a, Some(b, Some(c, d)))
<1>. DEFINE t == <<a, b, c, d>>
<1>1. DOMAIN t = 1 .. 4 /\ t[1] = a /\ t[2] = b /\ t[3] = c /\ t[4] = d
  OBVIOUS
<1>. HIDE DEF t
<1>2. /\ \A k \in 1 .. 4 : t[k] # Null /\ (\A i \in 1 .. k - 1 : t[i] = Null) =>
           FirstOf(t) = t[k]
      /\ (\A k \in 1 .. 4 : t[k] = Null) => FirstOf(t) = Null
  BY <1>1, FirstOfIs
<1>3. /\ a # Null => FirstOf(t) = a
      /\ a = Null /\ b # Null => FirstOf(t) = b
      /\ a = Null /\ b = Null /\ c # Null => FirstOf(t) = c
      /\ a = Null /\ b = Null /\ c = Null /\ d # Null => FirstOf(t) = d
      /\ a = Null /\ b = Null /\ c = Null /\ d = Null => FirstOf(t) = Null
  BY <1>1, <1>2
<1>. QED BY <1>3 DEF Some, t

-----------------------------------------------------------------------------
(* What the walks do with each kind of event.                              *)

\* A start tag is read, and is the next name of the path.
LEMMA OpensReads ==
  ASSUME NEW name, NEW ident, Opens(name, ident)
  PROVE  /\ Reading /\ path' = Append(path, name) /\ due' = Null
         /\ \E e : /\ e.tag = "start" /\ e.name = name /\ e.ident = ident
                   /\ SniffStep(e) /\ AuditStep(e)
<1>. DEFINE e == [Event("start", name) EXCEPT !.ident = ident]
<1>1. e.tag = "start" /\ e.name = name /\ e.ident = ident
  BY DEF Event
<1>2. Reads(e) /\ path' = Append(path, name) /\ due' = Null
  BY DEF Opens
<1>. HIDE DEF e
<1>3. Reading /\ SniffStep(e) /\ AuditStep(e)
  BY <1>2 DEF Reads
<1>. QED BY <1>1, <1>2, <1>3

\* A text is read where the walks stand.
LEMMA SaysReads ==
  ASSUME NEW value, Says(Text(value))
  PROVE  /\ Reading /\ UNCHANGED path /\ due' = Null
         /\ \E e : /\ e.tag = "text" /\ e.value = value /\ e.sound = TRUE
                   /\ SniffStep(e) /\ AuditStep(e)
<1>. DEFINE e == Text(value)
<1>1. e.tag = "text" /\ e.value = value /\ e.sound = TRUE
  BY DEF Event, Text
<1>2. Reads(e) /\ UNCHANGED path /\ due' = Null
  BY DEF Says
<1>. HIDE DEF e
<1>3. Reading /\ SniffStep(e) /\ AuditStep(e)
  BY <1>2 DEF Reads
<1>. QED BY <1>1, <1>2, <1>3

\* The sniffer, of the first Document.
LEMMA SniffDocument ==
  ASSUME sniffed \in Sniffs, Reading, NEW e, e.tag = "start", e.name = "Document",
         e.ident \in Messages, ~sniffed.document, SniffStep(e)
  PROVE  /\ sniffed' \in Sniffs
         /\ sniffed'.document = TRUE /\ sniffed'.awaiting = TRUE
         /\ sniffed'.namespace = Some(e.ident, sniffed.ancestor)
         /\ sniffed'.container = sniffed.container
         /\ sniffed'.header = sniffed.header
         /\ sniffed'.counts = sniffed.counts
         /\ sniffed'.broke = sniffed.broke /\ sniffed'.done = FALSE
<1>1. "Document" \notin RecordElems /\ "Document" \in Elements
  BY FixedNames DEF RecordElems, Frame
<1>2. SniffsDocument(e)
  BY DEF SniffStep, Reading
<1>3. Some(e.ident, sniffed.ancestor) \in Messages
  BY DEF Some, Sniffs
<1>4. Null \in Messages
  BY DEF Messages
<1>5. Counted(e) = sniffed.counts
  BY <1>1 DEF Counted
<1>. DEFINE x == IF sniffed.awaiting THEN e.name ELSE sniffed.child
            y == Some(e.ident, sniffed.ancestor)
            z == IF e.ident = Null THEN Null ELSE sniffed.ancestor
<1>6. sniffed' = [sniffed EXCEPT !.counts = sniffed.counts, !.child = x,
                    !.document = TRUE, !.within = TRUE, !.awaiting = TRUE,
                    !.namespace = y, !.ancestor = z]
  BY <1>2, <1>5 DEF SniffsDocument, Counting, Sniffs
<1>7. x \in Elements \cup {Null} /\ y \in Messages /\ z \in Messages
  BY <1>1, <1>3, <1>4 DEF Sniffs
<1>8. sniffed.done = FALSE
  BY DEF Reading, Sniffs
<1>. HIDE DEF x, y, z
<1>9. /\ sniffed' \in Sniffs
      /\ sniffed'.document = TRUE /\ sniffed'.awaiting = TRUE
      /\ sniffed'.namespace = y
      /\ sniffed'.container = sniffed.container
      /\ sniffed'.header = sniffed.header
      /\ sniffed'.counts = sniffed.counts
      /\ sniffed'.broke = sniffed.broke /\ sniffed'.done = sniffed.done
  BY <1>6, <1>7 DEF Sniffs
<1>. QED BY <1>8, <1>9 DEF y

\* The sniffer, of any other start tag, or an element that is empty.
LEMMA SniffElement ==
  ASSUME sniffed \in Sniffs, Reading, NEW e, e.tag = "start" \/ e.tag = "empty",
         e.name \in Elements, e.ident \in Messages, e.name = "Document" => sniffed.document, SniffStep(e)
  PROVE  /\ sniffed' \in Sniffs
         /\ sniffed'.document = sniffed.document /\ sniffed'.awaiting = FALSE
         /\ sniffed'.child = IF sniffed.awaiting THEN e.name ELSE sniffed.child
         /\ sniffed'.namespace = sniffed.namespace
         /\ sniffed'.ancestor =
              IF sniffed.namespace = Null /\ sniffed.ancestor = Null
              THEN e.ident ELSE sniffed.ancestor
         /\ sniffed'.container =
              IF ~sniffed.document /\ sniffed.container = Null
                 /\ e.name \in DOMAIN Announced
              THEN e.name ELSE sniffed.container
         /\ sniffed'.header = sniffed.header
         /\ sniffed'.counts = Counted(e)
         /\ sniffed'.broke = sniffed.broke /\ sniffed'.done = FALSE
<1>1. SniffsElement(e)
  BY DEF SniffStep, Reading
<1>2. Counted(e) \in [RecordElems -> Nat]
  BY DEF Counted, Sniffs
<1>3. FamilyOfContainer(e.name) # Null <=> e.name \in DOMAIN Announced
  BY AnnouncedIs
<1>. DEFINE opens == ~sniffed.document /\ sniffed.container = Null
                     /\ e.name \in DOMAIN Announced
<1>. DEFINE x == IF sniffed.awaiting THEN e.name ELSE sniffed.child
            y == IF sniffed.namespace = Null /\ sniffed.ancestor = Null
                 THEN e.ident ELSE sniffed.ancestor
            z == IF opens THEN e.name ELSE sniffed.container
            w == sniffed.within \/ opens
<1>4. sniffed' = [sniffed EXCEPT !.counts = Counted(e), !.awaiting = FALSE,
                                 !.child = x, !.ancestor = y, !.container = z,
                                 !.within = w]
  BY <1>1, <1>3 DEF SniffsElement, Counting
<1>5. /\ x \in Elements \cup {Null} /\ y \in Messages
      /\ z \in DOMAIN Announced \cup {Null} /\ w \in BOOLEAN
  BY DEF Sniffs
<1>. HIDE DEF x, y, z, w
<1>6. /\ sniffed' \in Sniffs
      /\ sniffed'.document = sniffed.document /\ sniffed'.awaiting = FALSE
      /\ sniffed'.child = x /\ sniffed'.namespace = sniffed.namespace
      /\ sniffed'.ancestor = y /\ sniffed'.container = z
      /\ sniffed'.header = sniffed.header /\ sniffed'.counts = Counted(e)
      /\ sniffed'.broke = sniffed.broke /\ sniffed'.done = sniffed.done
  BY <1>2, <1>4, <1>5 DEF Sniffs
<1>7. sniffed.done = FALSE
  BY DEF Reading, Sniffs
<1>. QED BY <1>6, <1>7 DEF x, y, z, w

\* The sniffer, of a text.
LEMMA SniffText ==
  ASSUME sniffed \in Sniffs, Reading, NEW e, e.tag = "text", e.sound \in BOOLEAN,
         e.sound /\ IsMessageId(path) => e.value \in Nat,
         e.sound /\ IsMessageDefinition(path) => MessageDefinition(e.value) \in Messages,
         SniffStep(e)
  PROVE  /\ sniffed' \in Sniffs
         /\ UNCHANGED <<sniffed.document, sniffed.awaiting, sniffed.child,
                        sniffed.namespace, sniffed.ancestor, sniffed.container,
                        sniffed.counts>>
         /\ sniffed'.header =
              IF e.sound /\ sniffed.header = Null /\ IsMessageDefinition(path)
              THEN MessageDefinition(e.value) ELSE sniffed.header
         /\ sniffed'.broke = IF e.sound THEN sniffed.broke ELSE TRUE
         /\ sniffed'.done = ~e.sound
<1>1. SniffsText(e)
  BY DEF SniffStep, Reading
<1>2. sniffed.done = FALSE
  BY DEF Reading, Sniffs
<1>3. CASE ~e.sound
  <2>1. sniffed' = [sniffed EXCEPT !.broke = TRUE, !.done = TRUE]
    BY <1>1, <1>3, Zenon DEF SniffsText
  <2>. QED BY <1>3, <2>1 DEF Sniffs
<1>4. CASE e.sound
  <2>. DEFINE x == IF sniffed.within /\ sniffed.id = Null /\ IsMessageId(path)
                   THEN e.value ELSE sniffed.id
              y == IF sniffed.header = Null /\ IsMessageDefinition(path)
                   THEN MessageDefinition(e.value) ELSE sniffed.header
  <2>1. sniffed' = [sniffed EXCEPT !.id = x, !.header = y]
    BY <1>1, <1>4 DEF SniffsText
  <2>2. x \in Nat \cup {Null} /\ y \in Messages
    BY <1>4 DEF Sniffs
  <2>. HIDE DEF x, y
  <2>3. /\ sniffed' \in Sniffs /\ sniffed'.header = y
        /\ UNCHANGED <<sniffed.document, sniffed.awaiting, sniffed.child,
                       sniffed.namespace, sniffed.ancestor, sniffed.container,
                       sniffed.counts, sniffed.broke, sniffed.done>>
    BY <2>1, <2>2 DEF Sniffs
  <2>. QED BY <1>2, <1>4, <2>3 DEF y
<1>. QED BY <1>3, <1>4

\* The first child of a Document, or any other element.
Claiming(name) ==
  /\ audit.awaiting /\ audit.depth = Null /\ name \notin DOMAIN Announced
  /\ {audit.document, audit.header, audit.envelope} # {Null}

\* The first element of a document settles whether the document is claimed as
\* a message.
LEMMA FirstChildIs ==
  ASSUME audit \in Audits, NEW name
  PROVE  FirstChild(audit, name) =
           [audit EXCEPT !.awaiting = FALSE,
              !.depth = IF Claiming(name) THEN audit.docDepth ELSE audit.depth]
<1>1. FamilyOfContainer(name) = Null <=> name \notin DOMAIN Announced
  BY AnnouncedIs
<1>2. CASE ~audit.awaiting
  BY <1>2 DEF FirstChild, Audits, Claiming
<1>3. CASE audit.awaiting
  BY <1>1, <1>3 DEF FirstChild, Audits, Claiming
<1>. QED BY <1>2, <1>3

\* The states of the audit on its way through an element: after the first child of
\* a Document, after the message, and after the namespaces.
Child(e) == FirstChild(audit, e.name)

Begun(e) ==
  IF e.name = "Document" THEN DocumentOpens(Child(e), e.ident)
  ELSE IF OpensMessage(Child(e), e.name, e.tag = "start")
       THEN ContainerOpens(Child(e), e.name) ELSE Child(e)

Bound(e) == Binds(Begun(e), e.name, e.ident)

\* What the audit does with an element: the identity it takes first, then the
\* line, or the record and the party, that the element opens.
LEMMA AuditElementIs ==
  ASSUME NEW e, AuditElement(e)
  PROVE  audit' = IF Bound(e).open # Null THEN LineOpens(Bound(e), e.name)
                  ELSE IF e.tag = "start"
                       THEN PartyOpens(RecordOpens(Bound(e), e.name), e.name)
                       ELSE Bound(e)
<1>. DEFINE begun == CASE e.name = "Document" -> DocumentOpens(Child(e), e.ident)
                       [] OpensMessage(Child(e), e.name, e.tag = "start") ->
                            ContainerOpens(Child(e), e.name)
                       [] OTHER -> Child(e)
            bound == Binds(begun, e.name, e.ident)
            after == CASE bound.open # Null -> LineOpens(bound, e.name)
                       [] bound.open = Null /\ e.tag = "start" ->
                            PartyOpens(RecordOpens(bound, e.name), e.name)
                       [] OTHER -> bound
<1>1. audit' = after
  BY Zenon DEF AuditElement, Child
<1>2. ~(e.name = "Document" /\ OpensMessage(Child(e), e.name, e.tag = "start"))
  <2>1. "Document" \notin DOMAIN Announced
    BY ContainerNames DEF Frame
  <2>. QED BY <2>1, AnnouncedIs DEF OpensMessage
<1>3. begun = Begun(e)
  BY <1>2 DEF Begun
<1>. HIDE DEF begun
<1>4. bound = Bound(e)
  BY <1>3 DEF Bound
<1>. HIDE DEF bound
<1>. QED BY <1>1, <1>4

\* The tag opens a message.
Opening(e) ==
  /\ e.tag = "start" /\ e.name \in DOMAIN Announced
  /\ audit.open = Null /\ audit.depth = Null

\* What FirstChild changes of the audit, and what it leaves alone.
LEMMA ChildFields ==
  ASSUME audit \in Audits, NEW e
  PROVE  /\ Child(e) \in Audits /\ Child(e).awaiting = FALSE
         /\ Child(e).depth = IF Claiming(e.name) THEN audit.docDepth ELSE audit.depth
         /\ Child(e).family = audit.family /\ Child(e).document = audit.document
         /\ Child(e).envelope = audit.envelope /\ Child(e).header = audit.header
         /\ Child(e).id = audit.id /\ Child(e).docDepth = audit.docDepth
         /\ Child(e).found = audit.found /\ Child(e).index = audit.index
         /\ Child(e).record = audit.record /\ Child(e).open = audit.open
         /\ Child(e).done = audit.done
         /\ OpensMessage(Child(e), e.name, e.tag = "start") <=> Opening(e)
<1>. DEFINE d == IF Claiming(e.name) THEN audit.docDepth ELSE audit.depth
<1>1. Child(e) = [audit EXCEPT !.awaiting = FALSE, !.depth = d]
  BY FirstChildIs DEF Child
<1>2. d \in Nat \cup {Null} /\ (e.name \in DOMAIN Announced => d = audit.depth)
  BY DEF Audits, Claiming
<1>3. FamilyOfContainer(e.name) # Null <=> e.name \in DOMAIN Announced
  BY AnnouncedIs
<1>. HIDE DEF d
<1>4. /\ Child(e) \in Audits /\ Child(e).awaiting = FALSE
      /\ Child(e).depth = d
      /\ Child(e).family = audit.family /\ Child(e).document = audit.document
      /\ Child(e).envelope = audit.envelope /\ Child(e).header = audit.header
      /\ Child(e).id = audit.id /\ Child(e).docDepth = audit.docDepth
      /\ Child(e).found = audit.found /\ Child(e).index = audit.index
      /\ Child(e).record = audit.record /\ Child(e).open = audit.open
      /\ Child(e).done = audit.done
  BY <1>1, <1>2 DEF Audits
<1>5. OpensMessage(Child(e), e.name, e.tag = "start") <=> Opening(e)
  BY <1>2, <1>3, <1>4 DEF OpensMessage, Opening
<1>. QED BY <1>4, <1>5 DEF d

\* What the audit holds once a message has had the chance to begin.
LEMMA BegunFields ==
  ASSUME audit \in Audits, NEW e, Len(path) \in Nat, e.ident \in Messages
  PROVE  /\ Begun(e) \in Audits
         /\ Begun(e).awaiting <=> e.name = "Document"
         /\ Begun(e).found <=> audit.found \/ e.name = "Document" \/ Opening(e)
         /\ Begun(e).document = IF e.name = "Document" THEN e.ident
                                ELSE audit.document
         /\ Begun(e).docDepth = IF e.name = "Document" THEN Len(path)
                                ELSE audit.docDepth
         /\ Begun(e).depth = IF e.name = "Document" THEN Null
                             ELSE IF Opening(e) THEN Len(path)
                             ELSE IF Claiming(e.name) THEN audit.docDepth
                             ELSE audit.depth
         /\ Begun(e).family =
              IF e.name = "Document"
              THEN Some(e.ident, Some(audit.header, audit.envelope))
              ELSE IF Opening(e)
              THEN Some(audit.document,
                        Some(audit.header, FamilyOfContainer(e.name)))
              ELSE audit.family
         /\ IF e.name = "Document" \/ Opening(e)
            THEN Begun(e).id = Null /\ Begun(e).index = 0 /\ Begun(e).record = Null
            ELSE /\ Begun(e).id = audit.id /\ Begun(e).index = audit.index
                 /\ Begun(e).record = audit.record
         /\ Begun(e).envelope = audit.envelope /\ Begun(e).header = audit.header
         /\ Begun(e).open = audit.open /\ Begun(e).done = audit.done
<1>. DEFINE a == Child(e)
<1>1. /\ a \in Audits /\ a.awaiting = FALSE
      /\ a.depth = IF Claiming(e.name) THEN audit.docDepth ELSE audit.depth
      /\ a.family = audit.family /\ a.document = audit.document
      /\ a.envelope = audit.envelope /\ a.header = audit.header
      /\ a.id = audit.id /\ a.docDepth = audit.docDepth
      /\ a.found = audit.found /\ a.index = audit.index
      /\ a.record = audit.record /\ a.open = audit.open
      /\ a.done = audit.done
      /\ OpensMessage(a, e.name, e.tag = "start") <=> Opening(e)
  BY ChildFields, Zenon
<1>. DEFINE f == FirstOf(<<e.ident, a.header, a.envelope>>)
            g == FirstOf(<<a.document, a.header, FamilyOfContainer(e.name)>>)
<1>2. f = Some(e.ident, Some(audit.header, audit.envelope))
  BY <1>1, FirstOfThree
<1>3. g = Some(audit.document, Some(audit.header, FamilyOfContainer(e.name)))
  BY <1>1, FirstOfThree
<1>4. f \in Messages /\ (Opening(e) => g \in Messages)
  <2>1. FamilyOfContainer(e.name) \in Messages
    BY DEF FamilyOfContainer, Messages, Families
  <2>. QED BY <1>2, <1>3, <2>1 DEF Some, Audits
<1>5. Begun(e) = IF e.name = "Document"
                 THEN [a EXCEPT !.found = TRUE, !.awaiting = TRUE,
                         !.document = e.ident, !.docDepth = Len(path), !.depth = Null,
                         !.family = f, !.id = Null, !.index = 0, !.record = Null]
                 ELSE IF Opening(e)
                 THEN [a EXCEPT !.found = TRUE, !.depth = Len(path), !.family = g,
                         !.id = Null, !.index = 0, !.record = Null]
                 ELSE a
  <2>1. DocumentOpens(a, e.ident) =
           [a EXCEPT !.found = TRUE, !.awaiting = TRUE,
                     !.document = e.ident, !.docDepth = Len(path), !.depth = Null,
                     !.family = f, !.id = Null, !.index = 0, !.record = Null]
    BY <1>1 DEF DocumentOpens, Begins, Audits
  <2>2. ContainerOpens(a, e.name) =
           [a EXCEPT !.found = TRUE, !.depth = Len(path), !.family = g,
                     !.id = Null, !.index = 0, !.record = Null]
    BY <1>1 DEF ContainerOpens, Begins, Audits
  <2>. HIDE DEF f, g
  <2>. QED BY <1>1, <2>1, <2>2, Zenon DEF Begun
<1>. HIDE DEF a, f, g
<1>. DEFINE b == Begun(e)
<1>6. CASE e.name = "Document"
  <2>1. b = [a EXCEPT !.found = TRUE, !.awaiting = TRUE,
                 !.document = e.ident, !.docDepth = Len(path), !.depth = Null,
                 !.family = f, !.id = Null, !.index = 0, !.record = Null]
    BY <1>5, <1>6
  <2>. HIDE DEF b
  <2>2. /\ b \in Audits /\ b.awaiting = TRUE /\ b.found = TRUE
        /\ b.document = e.ident /\ b.docDepth = Len(path) /\ b.depth = Null
        /\ b.family = f /\ b.id = Null /\ b.index = 0 /\ b.record = Null
        /\ b.envelope = audit.envelope /\ b.header = audit.header
        /\ b.open = audit.open /\ b.done = audit.done
    BY <1>1, <1>4, <2>1 DEF Audits
  <2>. QED BY <1>2, <1>6, <2>2 DEF b
<1>7. CASE e.name # "Document" /\ Opening(e)
  <2>1. b = [a EXCEPT !.found = TRUE, !.depth = Len(path), !.family = g,
                      !.id = Null, !.index = 0, !.record = Null]
    BY <1>5, <1>7
  <2>. HIDE DEF b
  <2>2. /\ b \in Audits /\ b.awaiting = FALSE /\ b.found = TRUE
        /\ b.document = audit.document /\ b.docDepth = audit.docDepth
        /\ b.depth = Len(path)
        /\ b.family = g /\ b.id = Null /\ b.index = 0 /\ b.record = Null
        /\ b.envelope = audit.envelope /\ b.header = audit.header
        /\ b.open = audit.open /\ b.done = audit.done
    BY <1>1, <1>4, <1>7, <2>1 DEF Audits
  <2>. QED BY <1>3, <1>7, <2>2 DEF b
<1>8. CASE e.name # "Document" /\ ~Opening(e)
  BY <1>1, <1>5, <1>8 DEF Audits
<1>. QED BY <1>6, <1>7, <1>8

\* What the audit holds once the identifier of the element is bound.
LEMMA BoundFields ==
  ASSUME audit \in Audits, NEW e, e.ident \in Messages, Begun(e) \in Audits
  PROVE  /\ Bound(e) \in Audits
         /\ Bound(e).found <=> Begun(e).found \/ e.ident # Null
         /\ Bound(e).envelope =
              IF /\ e.ident # Null /\ e.name # "Document"
                 /\ Begun(e).depth = Null /\ Begun(e).envelope = Null
              THEN e.ident ELSE Begun(e).envelope
         /\ Bound(e).family = IF e.ident = Null THEN Begun(e).family
                              ELSE Some(Begun(e).family, e.ident)
         /\ Bound(e).awaiting = Begun(e).awaiting
         /\ Bound(e).document = Begun(e).document
         /\ Bound(e).docDepth = Begun(e).docDepth
         /\ Bound(e).depth = Begun(e).depth /\ Bound(e).header = Begun(e).header
         /\ Bound(e).id = Begun(e).id /\ Bound(e).index = Begun(e).index
         /\ Bound(e).record = Begun(e).record /\ Bound(e).open = Begun(e).open
         /\ Bound(e).done = Begun(e).done
<1>. DEFINE a == Begun(e)
            x == IF e.name # "Document" /\ a.depth = Null /\ a.envelope = Null
                 THEN e.ident ELSE a.envelope
            f == Some(a.family, e.ident)
<1>1. Bound(e) = IF e.ident = Null THEN a
                 ELSE [a EXCEPT !.found = TRUE, !.envelope = x, !.family = f]
  BY Zenon DEF Bound, Binds
<1>2. x \in Messages /\ f \in Messages
  BY DEF Some, Audits
<1>3. a \in Audits
  OBVIOUS
<1>4. x = IF e.name # "Document" /\ a.depth = Null /\ a.envelope = Null
          THEN e.ident ELSE a.envelope
  OBVIOUS
<1>5. f = Some(a.family, e.ident)
  OBVIOUS
<1>. HIDE DEF a, x, f
<1>. DEFINE b == Bound(e)
<1>6. CASE e.ident = Null
  <2>1. b = a
    BY <1>1, <1>6
  <2>. HIDE DEF b
  <2>. QED BY <1>3, <1>6, <2>1 DEF a, b
<1>7. CASE e.ident # Null
  <2>1. b = [a EXCEPT !.found = TRUE, !.envelope = x, !.family = f]
    BY <1>1, <1>7
  <2>. HIDE DEF b
  <2>2. /\ b \in Audits /\ b.found = TRUE /\ b.envelope = x /\ b.family = f
        /\ b.awaiting = a.awaiting /\ b.document = a.document
        /\ b.docDepth = a.docDepth /\ b.depth = a.depth /\ b.header = a.header
        /\ b.id = a.id /\ b.index = a.index /\ b.record = a.record
        /\ b.open = a.open /\ b.done = a.done
    BY <1>2, <1>3, <2>1 DEF Audits
  <2>. QED BY <1>4, <1>5, <1>7, <2>2 DEF a, b
<1>. QED BY <1>6, <1>7

\* What an element leaves as it was, after its namespaces.
Kept(b) ==
  /\ audit'.family = b.family /\ audit'.document = b.document
  /\ audit'.envelope = b.envelope /\ audit'.header = b.header
  /\ audit'.id = b.id /\ audit'.depth = b.depth
  /\ audit'.docDepth = b.docDepth /\ audit'.awaiting = b.awaiting
  /\ audit'.found = b.found /\ audit'.done = b.done

\* Inside a party, an element opens an address line and nothing else.
LEMMA AuditInside ==
  ASSUME audit \in Audits, NEW e, Bound(e) \in Audits, AuditElement(e),
         Bound(e).open = audit.open, audit.open # Null
  PROVE  /\ audit' \in Audits /\ Kept(Bound(e))
         /\ audit'.index = Bound(e).index /\ audit'.record = Bound(e).record
         /\ audit'.open = IF e.name = "AdrLine" /\ InAddress(audit)
                          THEN [audit.open EXCEPT !.lines = Append(@, 0)]
                          ELSE audit.open
<1>. DEFINE b == Bound(e)
            p == audit.open
            q == IF e.name = "AdrLine" /\ InAddress(audit)
                 THEN [p EXCEPT !.lines = Append(@, 0)] ELSE p
<1>1. b \in Audits /\ b.open = p
  OBVIOUS
<1>2. audit' = LineOpens(b, e.name)
  BY AuditElementIs
<1>3. InAddress(b) <=> InAddress(audit)
  BY <1>1 DEF InAddress
<1>4. audit' = [b EXCEPT !.open = q]
  <2>1. CASE e.name = "AdrLine" /\ InAddress(audit)
    BY <1>1, <1>2, <1>3, <2>1 DEF LineOpens, Audits
  <2>2. CASE ~(e.name = "AdrLine" /\ InAddress(audit))
    BY <1>1, <1>2, <1>3, <2>2 DEF LineOpens, Audits
  <2>. QED BY <2>1, <2>2
<1>5. q \in Parties
  <2>1. p \in Parties
    BY DEF Audits
  <2>2. Append(p.lines, 0) \in Seq(Nat)
    BY <2>1 DEF Parties
  <2>. HIDE DEF p
  <2>. QED BY <2>1, <2>2 DEF Parties
<1>. HIDE DEF b, q
<1>6. /\ audit' \in Audits /\ audit'.open = q /\ Kept(b)
      /\ audit'.index = b.index /\ audit'.record = b.record
  BY <1>1, <1>4, <1>5 DEF Audits, Kept
<1>. QED BY <1>6 DEF b, q

\* The party an element opens, and the number it goes by.
PartyOf(e, b) ==
  [depth |-> Len(path), at |-> PartyPath(b, e.name),
   index |-> IF b.record = Null THEN Null ELSE b.index,
   town |-> FALSE, country |-> FALSE, structured |-> 0, lines |-> <<>>]

Numbered(e, b) ==
  IF e.tag = "start" /\ e.name \in RecordElems
  THEN [b EXCEPT !.index = @ + 1, !.record = Len(path)] ELSE b

\* The party the audit opens is one.
LEMMA PartyOfIs ==
  ASSUME NEW b \in Audits, path \in Seq(Elements), NEW e, e.name \in Elements
  PROVE  PartyOf(e, b) \in Parties
<1>1. PartyPath(b, e.name) \in Seq(Elements)
  <2>1. b.record \in Nat \cup {Null}
    BY DEF Audits
  <2>2. <<e.name>> \in Seq(Elements)
    OBVIOUS
  <2>3. (IF b.record = Null THEN <<>> ELSE SubSeq(path, b.record + 1, Len(path)))
          \in Seq(Elements)
    <3>1. CASE b.record = Null
      BY <3>1
    <3>2. CASE b.record \in Nat
      BY <3>2, NullAssumption
    <3>. QED BY <2>1, <3>1, <3>2
  <2>. QED BY <2>2, <2>3, ConcatProperties DEF PartyPath
<1>2. (IF b.record = Null THEN Null ELSE b.index) \in Nat \cup {Null}
  BY DEF Audits
<1>3. Len(path) \in Nat
  OBVIOUS
<1>. QED BY <1>1, <1>2, <1>3 DEF PartyOf, Parties

\* Outside a party, a start tag opens one, or a record, or neither.
LEMMA AuditOutside ==
  ASSUME audit \in Audits, NEW e, Bound(e) \in Audits, AuditElement(e),
         Bound(e).open = Null, path \in Seq(Elements), e.name \in Elements
  PROVE  /\ audit' \in Audits /\ Kept(Bound(e))
         /\ audit'.index = IF e.tag = "start" /\ e.name \in RecordElems
                           THEN Bound(e).index + 1 ELSE Bound(e).index
         /\ audit'.record = IF e.tag = "start" /\ e.name \in RecordElems
                            THEN Len(path) ELSE Bound(e).record
         /\ audit'.open = IF e.tag = "start" /\ e.name \in Roles
                          THEN PartyOf(e, Bound(e)) ELSE Null
<1>. DEFINE b == Bound(e)
            i == IF e.tag = "start" /\ e.name \in RecordElems
                 THEN b.index + 1 ELSE b.index
            r == IF e.tag = "start" /\ e.name \in RecordElems
                 THEN Len(path) ELSE b.record
            p == IF e.tag = "start" /\ e.name \in Roles THEN PartyOf(e, b) ELSE Null
            c == Numbered(e, b)
<1>1. b \in Audits /\ b.open = Null /\ Len(path) \in Nat
  OBVIOUS
<1>2. Roles \cap RecordElems = {}
  BY DEF Roles, RecordElems
<1>3. p \in Parties \cup {Null}
  <2>1. PartyOf(e, b) \in Parties
    BY <1>1, PartyOfIs
  <2>. QED BY <2>1
<1>4. i \in Nat /\ r \in Nat \cup {Null}
  BY <1>1 DEF Audits
<1>5. c = [b EXCEPT !.index = i, !.record = r]
  BY <1>1 DEF Numbered, Audits
<1>6. audit' = IF e.tag = "start" THEN PartyOpens(RecordOpens(b, e.name), e.name)
               ELSE b
  BY AuditElementIs
<1>7. e.tag = "start" => RecordOpens(b, e.name) = c
  BY Zenon DEF RecordOpens, Numbered
<1>8. e.tag # "start" => c = b
  BY Zenon DEF Numbered
<1>9. e.name \in Roles => c = b
  BY <1>2 DEF Numbered
<1>10. audit' = [c EXCEPT !.open = p]
  <2>1. CASE e.tag = "start" /\ e.name \in Roles
    <3>1. audit' = PartyOpens(b, e.name)
      BY <1>6, <1>7, <1>9, <2>1
    <3>2. PartyOpens(b, e.name) = [b EXCEPT !.open = PartyOf(e, b)]
      BY <2>1, Zenon DEF PartyOpens, PartyOf
    <3>. QED BY <1>9, <2>1, <3>1, <3>2
  <2>2. CASE ~(e.tag = "start" /\ e.name \in Roles)
    <3>1. audit' = c
      <4>1. CASE e.tag = "start"
        <5>1. PartyOpens(c, e.name) = c
          BY <2>2, <4>1, Zenon DEF PartyOpens
        <5>. QED BY <1>6, <1>7, <4>1, <5>1
      <4>2. CASE e.tag # "start"
        BY <1>6, <1>8, <4>2
      <4>. QED BY <4>1, <4>2
    <3>2. p = Null
      BY <2>2
    <3>. HIDE DEF i, r, c, p
    <3>. QED BY <1>1, <1>4, <1>5, <3>1, <3>2 DEF Audits
  <2>. QED BY <2>1, <2>2
<1>11. p = IF e.tag = "start" /\ e.name \in Roles THEN PartyOf(e, b) ELSE Null
  OBVIOUS
<1>. HIDE DEF b, i, r, p, c
<1>12. /\ audit' \in Audits /\ audit'.open = p /\ Kept(b)
       /\ audit'.index = i /\ audit'.record = r
  BY <1>1, <1>3, <1>4, <1>5, <1>10 DEF Audits, Kept
<1>. QED BY <1>12 DEF b, i, r, p

\* Every start tag and every element that is empty: what becomes of the party.
LEMMA AuditElementOpen ==
  ASSUME audit \in Audits, path \in Seq(Elements), NEW e, e.name \in Elements,
         e.ident \in Messages, AuditElement(e)
  PROVE  /\ audit' \in Audits /\ audit'.done = audit.done
         /\ Kept(Bound(e)) /\ Bound(e) \in Audits
         /\ IF audit.open # Null
            THEN audit'.open = IF e.name = "AdrLine" /\ InAddress(audit)
                               THEN [audit.open EXCEPT !.lines = Append(@, 0)]
                               ELSE audit.open
            ELSE audit'.open = IF e.tag = "start" /\ e.name \in Roles
                               THEN PartyOf(e, Bound(e)) ELSE Null
<1>1. Len(path) \in Nat
  OBVIOUS
<1>2. Begun(e) \in Audits /\ Begun(e).open = audit.open /\ Begun(e).done = audit.done
  BY <1>1, BegunFields, Zenon
<1>3. Bound(e) \in Audits /\ Bound(e).open = audit.open /\ Bound(e).done = audit.done
  BY <1>2, BoundFields, Zenon
<1>4. CASE audit.open # Null
  <2>1. /\ audit' \in Audits /\ Kept(Bound(e))
        /\ audit'.open = IF e.name = "AdrLine" /\ InAddress(audit)
                         THEN [audit.open EXCEPT !.lines = Append(@, 0)]
                         ELSE audit.open
    BY <1>3, <1>4, AuditInside, Zenon
  <2>. QED BY <1>3, <1>4, <2>1, Zenon DEF Kept
<1>5. CASE audit.open = Null
  <2>1. Bound(e).open = Null
    BY <1>3, <1>5
  <2>2. /\ audit' \in Audits /\ Kept(Bound(e))
        /\ audit'.open = IF e.tag = "start" /\ e.name \in Roles
                         THEN PartyOf(e, Bound(e)) ELSE Null
    BY <1>3, <2>1, AuditOutside, Zenon
  <2>. QED BY <1>3, <1>5, <2>2, Zenon DEF Kept
<1>. QED BY <1>4, <1>5

\* What a text leaves of the audit as it was.
TextKeeps ==
  /\ audit'.family = audit.family /\ audit'.document = audit.document
  /\ audit'.envelope = audit.envelope /\ audit'.depth = audit.depth
  /\ audit'.docDepth = audit.docDepth /\ audit'.awaiting = audit.awaiting
  /\ audit'.found = audit.found /\ audit'.index = audit.index
  /\ audit'.record = audit.record

\* A text outside a party says who the message is.
LEMMA AuditIdentity ==
  ASSUME audit \in Audits, audit.open = Null, path # <<>>, NEW e, e.sound = TRUE,
         IsMessageId(path) => e.value \in Nat,
         IsMessageDefinition(path) => MessageDefinition(e.value) \in Messages,
         AuditText(e)
  PROVE  /\ audit' \in Audits /\ TextKeeps
         /\ audit'.open = Null /\ audit'.done = audit.done
         /\ audit'.id = IF audit.id = Null /\ IsMessageId(path)
                        THEN e.value ELSE audit.id
         /\ audit'.header = IF audit.header = Null /\ IsMessageDefinition(path)
                            THEN MessageDefinition(e.value) ELSE audit.header
<1>. DEFINE i == IF audit.id = Null /\ IsMessageId(path) THEN e.value ELSE audit.id
            h == IF audit.header = Null /\ IsMessageDefinition(path)
                 THEN MessageDefinition(e.value) ELSE audit.header
<1>1. audit' = CaptureIdentity(audit, e)
  BY Zenon DEF AuditText
<1>2. audit' = [audit EXCEPT !.id = i, !.header = h]
  BY <1>1 DEF CaptureIdentity
<1>3. i \in Nat \cup {Null} /\ h \in Messages
  BY DEF Audits
<1>. HIDE DEF i, h
<1>4. /\ audit' \in Audits /\ TextKeeps
      /\ audit'.open = Null /\ audit'.done = audit.done
      /\ audit'.id = i /\ audit'.header = h
  BY <1>2, <1>3 DEF Audits, TextKeeps
<1>. QED BY <1>4 DEF i, h

-----------------------------------------------------------------------------
(* The text of an element, the end of one, and the end of the reading.     *)

\* A part of a line is added to the last one.
LEMMA LastLine ==
  ASSUME NEW s \in Seq(Nat), NEW n \in Nat
  PROVE  /\ [s EXCEPT ![Len(s)] = @ + n] \in Seq(Nat)
         /\ Len([s EXCEPT ![Len(s)] = @ + n]) = Len(s)
<1>. DEFINE t == [s EXCEPT ![Len(s)] = @ + n]
<1>1. Len(s) \in Nat /\ s \in [1 .. Len(s) -> Nat]
  OBVIOUS
<1>2. t \in [1 .. Len(s) -> Nat]
  <2>1. t = [i \in 1 .. Len(s) |-> IF i = Len(s) THEN s[Len(s)] + n ELSE s[i]]
    BY <1>1
  <2>2. \A i \in 1 .. Len(s) : s[i] \in Nat /\ s[i] + n \in Nat
    BY <1>1
  <2>. QED BY <1>1, <2>1, <2>2
<1>. HIDE DEF t
<1>3. t \in Seq(Nat) /\ Len(t) = Len(s)
  BY <1>1, <1>2
<1>. QED BY <1>3 DEF t

\* A text inside a party is a part of a line of its address, or an element of it.
LEMMA AuditSays ==
  ASSUME audit \in Audits, audit.open # Null, path # <<>>, NEW e, e.sound = TRUE,
         e.value \in Nat, AuditText(e)
  PROVE  /\ audit' \in Audits /\ TextKeeps
         /\ audit'.done = audit.done /\ audit'.header = audit.header
         /\ audit'.id = audit.id
         /\ audit'.open # Null /\ audit'.open.depth = audit.open.depth
         /\ audit'.open.index = audit.open.index /\ audit'.open.at = audit.open.at
         /\ audit'.open.lines =
              IF InAddress(audit) /\ Here = "AdrLine"
              THEN [audit.open.lines EXCEPT ![Len(audit.open.lines)] = @ + e.value]
              ELSE audit.open.lines
         /\ IF InAddress(audit) /\ Here \in AddressElems
            THEN /\ audit'.open.structured = audit.open.structured + 1
                 /\ audit'.open.town = (audit.open.town \/ Here = "TwnNm")
                 /\ audit'.open.country = (audit.open.country \/ Here = "Ctry")
            ELSE /\ audit'.open.structured = audit.open.structured
                 /\ audit'.open.town = audit.open.town
                 /\ audit'.open.country = audit.open.country
<1>. DEFINE p == audit.open
            l == IF InAddress(audit) /\ Here = "AdrLine"
                 THEN [p.lines EXCEPT ![Len(p.lines)] = @ + e.value] ELSE p.lines
            s == IF InAddress(audit) /\ Here \in AddressElems
                 THEN p.structured + 1 ELSE p.structured
            t == IF InAddress(audit) /\ Here \in AddressElems
                 THEN p.town \/ Here = "TwnNm" ELSE p.town
            c == IF InAddress(audit) /\ Here \in AddressElems
                 THEN p.country \/ Here = "Ctry" ELSE p.country
            q == [p EXCEPT !.lines = l, !.structured = s, !.town = t, !.country = c]
<1>1. audit' = CaptureParty(audit, e)
  BY Zenon DEF AuditText
<1>2. p \in Parties /\ "AdrLine" \notin AddressElems /\ Here = Last(path)
  BY DEF Audits, AddressElems, Here
<1>3. /\ p.lines \in Seq(Nat) /\ p.structured \in Nat
      /\ p.town \in BOOLEAN /\ p.country \in BOOLEAN
  BY <1>2 DEF Parties
<1>4. l \in Seq(Nat) /\ s \in Nat /\ t \in BOOLEAN /\ c \in BOOLEAN
  <2>1. [p.lines EXCEPT ![Len(p.lines)] = @ + e.value] \in Seq(Nat)
    BY <1>3, LastLine
  <2>2. l \in Seq(Nat)
    BY <1>3, <2>1, Zenon
  <2>3. s \in Nat
    BY <1>3
  <2>4. t \in BOOLEAN /\ c \in BOOLEAN
    <3>1. /\ (p.town \/ Here = "TwnNm") \in BOOLEAN
          /\ (p.country \/ Here = "Ctry") \in BOOLEAN
      OBVIOUS
    <3>. QED BY <1>3, <3>1, Zenon
  <2>. QED BY <2>2, <2>3, <2>4
<1>5. audit' = [audit EXCEPT !.open = q]
  <2>1. CASE ~InAddress(audit)
    <3>1. audit' = audit
      BY <1>1, <2>1 DEF CaptureParty
    <3>2. q = p
      BY <1>2, <2>1 DEF Parties
    <3>. HIDE DEF q
    <3>. QED BY <3>1, <3>2 DEF Audits
  <2>2. CASE InAddress(audit) /\ Here = "AdrLine"
    <3>1. audit' = [audit EXCEPT !.open.lines[Len(audit.open.lines)] = @ + e.value]
      BY <1>1, <1>2, <2>2 DEF CaptureParty
    <3>2. audit' = [audit EXCEPT !.open = [p EXCEPT !.lines = l]]
      <4>1. l = [p.lines EXCEPT ![Len(p.lines)] = @ + e.value]
        BY <2>2, Zenon
      <4>. HIDE DEF l
      <4>. QED BY <3>1, <4>1
    <3>3. q = [p EXCEPT !.lines = l]
      <4>1. s = p.structured /\ t = p.town /\ c = p.country
        BY <1>2, <2>2
      <4>. HIDE DEF l, s, t, c
      <4>. QED BY <1>2, <4>1 DEF Parties
    <3>. QED BY <3>2, <3>3, Zenon
  <2>3. CASE InAddress(audit) /\ Here \in AddressElems
    <3>1. audit' = [audit EXCEPT !.open.structured = @ + 1,
                                 !.open.town = @ \/ Here = "TwnNm",
                                 !.open.country = @ \/ Here = "Ctry"]
      BY <1>1, <1>2, <2>3 DEF CaptureParty
    <3>2. s = p.structured + 1 /\ t = (p.town \/ Here = "TwnNm")
          /\ c = (p.country \/ Here = "Ctry") /\ l = p.lines
      BY <1>2, <2>3
    <3>3. audit' = [audit EXCEPT !.open = [p EXCEPT !.structured = s, !.town = t,
                                                    !.country = c]]
      BY <3>1, <3>2 DEF Audits
    <3>4. q = [p EXCEPT !.structured = s, !.town = t, !.country = c]
      <4>. HIDE DEF l, s, t, c
      <4>. QED BY <1>2, <3>2 DEF Parties
    <3>. QED BY <3>3, <3>4, Zenon
  <2>4. CASE InAddress(audit) /\ Here # "AdrLine" /\ Here \notin AddressElems
    <3>1. audit' = audit
      BY <1>1, <1>2, <2>4 DEF CaptureParty
    <3>2. q = p
      BY <1>2, <2>4 DEF Parties
    <3>. HIDE DEF q
    <3>. QED BY <3>1, <3>2 DEF Audits
  <2>. QED BY <2>1, <2>2, <2>3, <2>4
<1>. HIDE DEF l, s, t, c
<1>6. /\ q \in Parties /\ q.depth = p.depth /\ q.index = p.index /\ q.at = p.at
      /\ q.lines = l /\ q.structured = s /\ q.town = t /\ q.country = c
  BY <1>2, <1>4 DEF Parties
<1>. HIDE DEF q
<1>7. /\ audit' \in Audits /\ TextKeeps /\ audit'.done = audit.done
      /\ audit'.header = audit.header /\ audit'.id = audit.id /\ audit'.open = q
  BY <1>5, <1>6 DEF Audits, TextKeeps
<1>8. q # Null
  BY <1>6, NullAssumption
<1>. QED BY <1>6, <1>7, <1>8 DEF l, s, t, c

\* A text that is not sound, and the end of the input, end the audit.
LEMMA AuditStops ==
  ASSUME audit \in Audits, NEW e,
         (e.tag = "text" /\ ~e.sound) \/ e.tag = "eof",
         audit.done = "reading", AuditStep(e)
  PROVE  /\ audit' \in Audits /\ TextKeeps /\ given' = Null
         /\ audit'.header = audit.header /\ audit'.id = audit.id
         /\ audit'.open = audit.open
         /\ audit'.done = IF e.tag = "eof" /\ path = <<>> /\ audit.found
                          THEN "ended" ELSE "failed"
<1>. DEFINE d == IF e.tag = "eof" /\ path = <<>> /\ audit.found
                 THEN "ended" ELSE "failed"
<1>1. audit' = [audit EXCEPT !.done = d] /\ given' = Null
  <2>1. CASE e.tag = "text"
    BY <2>1 DEF AuditStep, AuditText
  <2>2. CASE e.tag = "eof"
    BY <2>2 DEF AuditStep, AuditEnds, CutShort
  <2>. QED BY <2>1, <2>2
<1>2. d \in {"reading", "ended", "failed"}
  OBVIOUS
<1>. HIDE DEF d
<1>3. /\ audit' \in Audits /\ TextKeeps
      /\ audit'.header = audit.header /\ audit'.id = audit.id
      /\ audit'.open = audit.open /\ audit'.done = d
  BY <1>1, <1>2 DEF Audits, TextKeeps
<1>. QED BY <1>1, <1>3 DEF d

\* An end tag.
LEMMA AuditClosed ==
  ASSUME audit \in Audits, Len(path) \in Nat, AuditCloses
  PROVE  LET len == Len(path) - 1
             ends == audit.open # Null /\ audit.open.depth = len
         IN  /\ audit' \in Audits
             /\ given' = IF ends THEN AuditRow(audit.open, audit.family, audit.id)
                         ELSE Null
             /\ audit'.open = IF ends THEN Null ELSE audit.open
             /\ audit'.record = IF audit.record # Null /\ len <= audit.record
                                THEN Null ELSE audit.record
             /\ audit'.depth = IF audit.depth = len THEN Null ELSE audit.depth
             /\ audit'.family = audit.family /\ audit'.document = audit.document
             /\ audit'.envelope = audit.envelope /\ audit'.header = audit.header
             /\ audit'.docDepth = audit.docDepth /\ audit'.id = audit.id
             /\ audit'.awaiting = audit.awaiting /\ audit'.found = audit.found
             /\ audit'.index = audit.index /\ audit'.done = audit.done
<1>. DEFINE len == Len(path) - 1
            ends == audit.open # Null /\ audit.open.depth = len
            o == IF ends THEN Null ELSE audit.open
            r == IF audit.record # Null /\ len <= audit.record
                 THEN Null ELSE audit.record
            d == IF audit.depth = len THEN Null ELSE audit.depth
<1>1. audit' = [audit EXCEPT !.open = o, !.record = r, !.depth = d]
  BY DEF AuditCloses, LeavesRecord
<1>2. given' = IF ends THEN AuditRow(audit.open, audit.family, audit.id) ELSE Null
  BY Zenon DEF AuditCloses
<1>3. /\ o \in Parties \cup {Null} /\ r \in Nat \cup {Null}
      /\ d \in Nat \cup {Null}
  BY DEF Audits
<1>4. /\ o = IF ends THEN Null ELSE audit.open
      /\ r = IF audit.record # Null /\ len <= audit.record
             THEN Null ELSE audit.record
      /\ d = IF audit.depth = len THEN Null ELSE audit.depth
  OBVIOUS
<1>. HIDE DEF o, r, d
<1>5. /\ audit' \in Audits
      /\ audit'.open = o /\ audit'.record = r /\ audit'.depth = d
      /\ audit'.family = audit.family /\ audit'.document = audit.document
      /\ audit'.envelope = audit.envelope /\ audit'.header = audit.header
      /\ audit'.docDepth = audit.docDepth /\ audit'.id = audit.id
      /\ audit'.awaiting = audit.awaiting /\ audit'.found = audit.found
      /\ audit'.index = audit.index /\ audit'.done = audit.done
  BY <1>1, <1>3 DEF Audits
<1>. HIDE DEF ends, len
<1>6. /\ audit' \in Audits
      /\ given' = IF ends THEN AuditRow(audit.open, audit.family, audit.id)
                  ELSE Null
      /\ audit'.open = IF ends THEN Null ELSE audit.open
      /\ audit'.record = IF audit.record # Null /\ len <= audit.record
                         THEN Null ELSE audit.record
      /\ audit'.depth = IF audit.depth = len THEN Null ELSE audit.depth
      /\ audit'.family = audit.family /\ audit'.document = audit.document
      /\ audit'.envelope = audit.envelope /\ audit'.header = audit.header
      /\ audit'.docDepth = audit.docDepth /\ audit'.id = audit.id
      /\ audit'.awaiting = audit.awaiting /\ audit'.found = audit.found
      /\ audit'.index = audit.index /\ audit'.done = audit.done
  BY <1>2, <1>4, <1>5, Zenon
<1>. QED BY <1>6 DEF ends, len

-----------------------------------------------------------------------------
(* The party the walk is in: the audit has one open exactly while the      *)
(* cursor is in one, and knows of it what its address states.              *)

OpenInv ==
  IF audit.open = Null THEN \A i \in DOMAIN path : path[i] # "Dbtr"
  ELSE /\ audit.open.depth + 1 \in DOMAIN path
       /\ path[audit.open.depth + 1] = "Dbtr"

StatesIt(p) ==
  /\ p.lines = party.lines /\ p.town = party.town /\ p.country = party.country
  /\ p.structured = 0 <=> ~party.town /\ ~party.country

PartyInv == IF audit.open = Null THEN party = NoAddress ELSE StatesIt(audit.open)

WalkInv ==
  /\ TypeInv /\ Nested /\ OpenInv
  /\ Reading <=> audit.done = "reading"
  /\ own.record # Null => own.record < Len(path)

\* The elements of the files have their places, and only one of them is a party.
LEMMA PartyNames ==
  /\ Roles \cap Elements = {"Dbtr"}
  /\ Frame \cup Containers \cup RecordElems \cup {"GrpHdr", "MsgId", "Rcpt"}
       \subseteq Elements \ (Roles \cup Leaf \cup {"Dbtr", "PstlAdr", "CtctDtls"})
<1>1. Roles \cap DOMAIN Announced = {} /\ Roles \cap RecordElems = {}
  BY ContainerNames DEF Roles, RecordElems
<1>2. Roles \cap Elements = {"Dbtr"}
  BY <1>1 DEF Roles, Elements, Leaves, Wrapper
<1>3. (Frame \cup RecordElems \cup {"GrpHdr", "MsgId", "Rcpt"})
        \cap (Leaf \cup {"Dbtr", "PstlAdr", "CtctDtls"}) = {}
  BY DEF Frame, RecordElems, Leaf, Wrapper
<1>4. "Dbtr" \notin RecordElems \cup Containers \cup Frame \cup {"GrpHdr", "MsgId", "Rcpt"}
  BY ContainerNames DEF RecordElems, Frame, Wrapper
<1>5. "Rcpt" \in Elements
  BY DEF Elements
<1>. QED BY <1>2, <1>3, <1>4, <1>5, ContainerNames, FixedNames

\* Where the party stands, by ranks.
LEMMA PartyPlace ==
  ASSUME WalkInv, path # <<>>
  PROVE  /\ Rank(Here) < 7 => audit.open = Null
         /\ Rank(Here) > 7 => audit.open # Null
         /\ Rank(Here) = 7 => audit.open # Null /\ audit.open.depth = Len(path) - 1
         /\ audit.open # Null =>
              /\ audit.open.depth \in 0 .. Len(path) - 1
              /\ Rank(Here) # 7 => audit.open.depth < Len(path) - 1
<1>1. path \in Seq(Elements) /\ Nested
  BY DEF WalkInv, TypeInv
<1>2. /\ \A i \in DOMAIN path : /\ Rank(path[i]) \in 1 .. 9
                                /\ Rank(path[i]) <= Rank(Here)
                                /\ Rank(path[i]) = Rank(Here) => i = Len(path)
      /\ Rank(Here) \in 1 .. 9
      /\ IF Len(path) = 1 THEN Here \in {"BizMsgEnvlp", "Document"}
         ELSE Len(path) - 1 \in DOMAIN path /\ Fits(path[Len(path) - 1], Here)
  BY <1>1, HereRank
<1>3. Rank("Dbtr") = 7
  BY Ranks
<1>4. /\ Len(path) \in Nat /\ DOMAIN path = 1 .. Len(path)
      /\ Len(path) \in DOMAIN path /\ Here = path[Len(path)]
  BY <1>1, Innermost
<1>5. audit.open # Null => audit.open.depth \in Nat
  BY DEF WalkInv, TypeInv, Audits, Parties
<1>6. CASE audit.open # Null
  <2>1. /\ audit.open.depth + 1 \in DOMAIN path
        /\ path[audit.open.depth + 1] = "Dbtr"
    BY <1>6 DEF WalkInv, OpenInv
  <2>2. Rank(Here) >= 7 /\ (Rank(Here) = 7 => audit.open.depth + 1 = Len(path))
    BY <1>2, <1>3, <2>1
  <2>3. audit.open.depth + 1 = Len(path) => Rank(Here) = 7
    BY <1>3, <1>4, <2>1
  <2>. QED BY <1>2, <1>4, <1>5, <1>6, <2>1, <2>2, <2>3
<1>7. CASE audit.open = Null
  <2>1. \A i \in DOMAIN path : path[i] # "Dbtr"
    BY <1>7 DEF WalkInv, OpenInv
  <2>2. Rank(Here) # 7
    BY <1>4, <2>1, RankTells
  <2>3. ASSUME Rank(Here) > 7
        PROVE  FALSE
    <3>1. Here \in {"PstlAdr", "CtctDtls"} \/ Here \in Leaf
      BY <1>2, <2>3, RankTells
    <3>2. Len(path) # 1
      BY <1>2, <3>1 DEF Leaf
    <3>3. Len(path) - 1 \in DOMAIN path /\ Fits(path[Len(path) - 1], Here)
      BY <1>2, <3>2
    <3>4. Here \in Leaf
      BY <2>1, <3>1, <3>3 DEF Fits
    <3>. DEFINE o == path[Len(path) - 1]
    <3>5. o \in {"PstlAdr", "CtctDtls"}
      BY <3>3, <3>4 DEF Fits
    <3>6. Len(path) - 1 \in 2 .. Len(path)
      BY <1>1, <1>4, <3>3, <3>5 DEF Nested
    <3>7. Fits(path[Len(path) - 1 - 1], o) /\ Len(path) - 1 - 1 \in DOMAIN path
      BY <1>1, <1>4, <3>6 DEF Nested
    <3>8. path[Len(path) - 1 - 1] = "Dbtr"
      BY <3>5, <3>7 DEF Fits
    <3>. QED BY <2>1, <3>7, <3>8
  <2>. QED BY <1>2, <1>7, <2>2, <2>3
<1>. QED BY <1>6, <1>7

\* An element may stand where the cursor is.
MayStand(name) ==
  /\ name \in Elements /\ Rank(name) # 0
  /\ IF path = <<>> THEN name \in {"BizMsgEnvlp", "Document"} ELSE Fits(Here, name)

\* A start tag: the walks go on, one element further in.
LEMMA OpenStep ==
  ASSUME WalkInv, NEW name, NEW ident \in Messages, MayStand(name),
         Opens(name, ident)
  PROVE  /\ path' \in Seq(Elements) /\ Nested' /\ OpenInv'
         /\ sniffed' \in Sniffs /\ sniffed'.done = FALSE
         /\ audit' \in Audits /\ audit'.done = "reading"
         /\ given' = Null /\ due' = Null
         /\ CASE name = "Dbtr" ->
                   /\ audit'.open # Null
                   /\ audit'.open.lines = <<>> /\ audit'.open.structured = 0
                   /\ audit'.open.town = FALSE /\ audit'.open.country = FALSE
              [] name = "AdrLine" ->
                   audit'.open = IF InAddress(audit)
                                 THEN [audit.open EXCEPT !.lines = Append(@, 0)]
                                 ELSE audit.open
              [] OTHER -> audit'.open = audit.open
<1>1. /\ Reading /\ path' = Append(path, name) /\ due' = Null
      /\ \E e : /\ e.tag = "start" /\ e.name = name /\ e.ident = ident
                /\ SniffStep(e) /\ AuditStep(e)
  BY OpensReads
<1>2. PICK e : /\ e.tag = "start" /\ e.name = name /\ e.ident = ident
               /\ SniffStep(e) /\ AuditStep(e)
  BY <1>1
<1>3. /\ path \in Seq(Elements) /\ sniffed \in Sniffs /\ audit \in Audits
      /\ audit.done = "reading" /\ name \in Elements /\ Nested
  BY <1>1 DEF WalkInv, TypeInv, MayStand
<1>4. AuditElement(e) /\ given' = Null
  BY <1>2, <1>3 DEF AuditStep
<1>5. sniffed' \in Sniffs /\ sniffed'.done = FALSE
  <2>1. CASE name = "Document" /\ ~sniffed.document
    BY <1>1, <1>2, <1>3, <2>1, SniffDocument
  <2>2. CASE ~(name = "Document" /\ ~sniffed.document)
    <3>1. /\ e.tag = "start" /\ e.name \in Elements
          /\ e.ident \in Messages /\ SniffStep(e)
          /\ e.name = "Document" => sniffed.document
      BY <1>2, <1>3, <2>2
    <3>2. Reading /\ sniffed \in Sniffs
      BY <1>1, <1>3
    <3>. QED BY <3>1, <3>2, SniffElement
  <2>. QED BY <2>1, <2>2
<1>6. /\ audit' \in Audits /\ audit'.done = audit.done
      /\ Bound(e) \in Audits
      /\ IF audit.open # Null
         THEN audit'.open = IF e.name = "AdrLine" /\ InAddress(audit)
                            THEN [audit.open EXCEPT !.lines = Append(@, 0)]
                            ELSE audit.open
         ELSE audit'.open = IF e.tag = "start" /\ e.name \in Roles
                            THEN PartyOf(e, Bound(e)) ELSE Null
  BY <1>2, <1>3, <1>4, AuditElementOpen, Zenon
<1>7. Nested'
  BY <1>1, <1>3, NestedPushed DEF MayStand
<1>8. /\ path' \in Seq(Elements) /\ DOMAIN path' = 1 .. Len(path) + 1
      /\ path'[Len(path) + 1] = name
      /\ \A i \in 1 .. Len(path) : path'[i] = path[i]
      /\ DOMAIN path = 1 .. Len(path) /\ Len(path) \in Nat
  BY <1>1, <1>3, Pushed, Innermost
<1>9. name \in Roles <=> name = "Dbtr"
  BY <1>3, PartyNames
<1>10. name = "Dbtr" => audit.open = Null
  <2>1. ASSUME name = "Dbtr"
        PROVE  path # <<>> /\ Rank(Here) < 7
    BY <2>1, Ranks DEF MayStand, Fits
  <2>. QED BY <2>1, PartyPlace
<1>11. CASE name = "Dbtr"
  <2>1. audit'.open = PartyOf(e, Bound(e))
    BY <1>2, <1>6, <1>9, <1>10, <1>11
  <2>. DEFINE p == PartyOf(e, Bound(e))
  <2>2. /\ p.depth = Len(path) /\ p.lines = <<>> /\ p.structured = 0
        /\ p.town = FALSE /\ p.country = FALSE
    BY DEF PartyOf
  <2>3. audit'.open \in Parties \cup {Null}
    BY <1>6 DEF Audits
  <2>4. p # Null
    <3>1. p \in Parties
      BY <1>2, <1>3, <1>6, PartyOfIs
    <3>. QED BY <3>1, NullAssumption
  <2>. HIDE DEF p
  <2>5. OpenInv'
    BY <1>8, <1>11, <2>1, <2>2, <2>4 DEF OpenInv, p
  <2>. QED BY <1>1, <1>3, <1>4, <1>5, <1>6, <1>7, <1>8, <1>11, <2>1, <2>2, <2>4, <2>5 DEF p
<1>12. CASE name # "Dbtr"
  <2>1. audit'.open = IF audit.open # Null /\ name = "AdrLine" /\ InAddress(audit)
                      THEN [audit.open EXCEPT !.lines = Append(@, 0)]
                      ELSE audit.open
    BY <1>2, <1>6, <1>9, <1>12
  <2>2. InAddress(audit) => audit.open # Null
    BY DEF InAddress
  <2>3. /\ audit'.open = Null <=> audit.open = Null
        /\ audit.open # Null => audit'.open.depth = audit.open.depth
    <3>1. audit.open \in Parties \cup {Null} /\ audit'.open \in Parties \cup {Null}
      BY <1>3, <1>6 DEF Audits
    <3>2. CASE audit.open = Null
      BY <2>1, <3>2
    <3>3. CASE audit.open # Null
      <4>. DEFINE p == audit.open
                  q == [p EXCEPT !.lines = Append(@, 0)]
      <4>1. p \in Parties
        BY <3>1, <3>3
      <4>2. Append(p.lines, 0) \in Seq(Nat)
        BY <4>1 DEF Parties
      <4>3. q \in Parties /\ q.depth = p.depth
        BY <4>1, <4>2 DEF Parties
      <4>4. q # Null
        BY <4>3, NullAssumption
      <4>. HIDE DEF q
      <4>5. audit'.open = IF name = "AdrLine" /\ InAddress(audit) THEN q ELSE p
        BY <2>1, <3>3 DEF q
      <4>. QED BY <3>3, <4>3, <4>4, <4>5
    <3>. QED BY <3>2, <3>3
  <2>4. OpenInv'
    <3>1. OpenInv
      BY DEF WalkInv
    <3>2. CASE audit.open = Null
      <4>1. \A i \in DOMAIN path : path[i] # "Dbtr"
        BY <3>1, <3>2 DEF OpenInv
      <4>2. \A i \in DOMAIN path' : path'[i] # "Dbtr"
        BY <1>8, <1>12, <4>1
      <4>. QED BY <2>3, <3>2, <4>2 DEF OpenInv
    <3>3. CASE audit.open # Null
      <4>1. audit.open.depth + 1 \in 1 .. Len(path) /\ path[audit.open.depth + 1] = "Dbtr"
        BY <1>8, <3>1, <3>3 DEF OpenInv
      <4>2. /\ audit.open.depth + 1 \in DOMAIN path'
            /\ path'[audit.open.depth + 1] = "Dbtr"
        BY <1>8, <4>1
      <4>. QED BY <2>3, <3>3, <4>2 DEF OpenInv
    <3>. QED BY <3>2, <3>3
  <2>. QED BY <1>1, <1>3, <1>4, <1>5, <1>6, <1>7, <1>8, <1>12, <2>1, <2>2, <2>4
<1>. QED BY <1>11, <1>12

\* Where the path stays and the party keeps its place, it is where it was.
LEMMA OpenStays ==
  ASSUME OpenInv, UNCHANGED path,
         IF audit.open = Null THEN audit'.open = Null
         ELSE audit'.open # Null /\ audit'.open.depth = audit.open.depth
  PROVE  OpenInv'
BY DEF OpenInv

\* An address line more.
LEMMA LineMore ==
  ASSUME NEW p \in Parties
  PROVE  LET q == [p EXCEPT !.lines = Append(@, 0)]
         IN  /\ q \in Parties /\ q # Null /\ q.lines = Append(p.lines, 0)
             /\ q.depth = p.depth /\ q.index = p.index /\ q.at = p.at
             /\ q.town = p.town /\ q.country = p.country
             /\ q.structured = p.structured
<1>. DEFINE l == Append(p.lines, 0)
            q == [p EXCEPT !.lines = l]
<1>1. l \in Seq(Nat)
  BY DEF Parties
<1>. HIDE DEF l
<1>2. /\ q \in Parties /\ q.lines = l
      /\ q.depth = p.depth /\ q.index = p.index /\ q.at = p.at
      /\ q.town = p.town /\ q.country = p.country /\ q.structured = p.structured
  BY <1>1 DEF Parties
<1>3. q # Null
  BY <1>2, NullAssumption
<1>. QED BY <1>2, <1>3 DEF l

\* An element that is empty: the walks go on where they are.
LEMMA EmptyStep ==
  ASSUME WalkInv, NEW name \in Elements, name # "Document",
         Reads(Event("empty", name)), UNCHANGED path
  PROVE  /\ sniffed' \in Sniffs /\ sniffed'.done = FALSE
         /\ audit' \in Audits /\ audit'.done = "reading"
         /\ given' = Null /\ OpenInv'
         /\ audit'.open = IF audit.open # Null /\ name = "AdrLine" /\ InAddress(audit)
                          THEN [audit.open EXCEPT !.lines = Append(@, 0)]
                          ELSE audit.open
<1>1. \E e : /\ e.tag = "empty" /\ e.name = name /\ e.ident = Null
             /\ Reading /\ SniffStep(e) /\ AuditStep(e)
  <2>. DEFINE e == Event("empty", name)
  <2>1. e.tag = "empty" /\ e.name = name /\ e.ident = Null
    BY DEF Event
  <2>. HIDE DEF e
  <2>2. Reads(e)
    BY DEF e
  <2>. QED BY <2>1, <2>2 DEF Reads
<1>2. PICK e : /\ e.tag = "empty" /\ e.name = name /\ e.ident = Null
               /\ Reading /\ SniffStep(e) /\ AuditStep(e)
  BY <1>1
<1>3. /\ path \in Seq(Elements) /\ sniffed \in Sniffs /\ audit \in Audits
      /\ audit.done = "reading" /\ Null \in Messages
  BY <1>2 DEF WalkInv, TypeInv, Messages
<1>4. AuditElement(e) /\ given' = Null
  BY <1>2, <1>3 DEF AuditStep
<1>5. sniffed' \in Sniffs /\ sniffed'.done = FALSE
  <2>1. /\ e.tag = "empty" /\ e.name \in Elements
        /\ e.ident \in Messages /\ SniffStep(e)
        /\ e.name = "Document" => sniffed.document
    BY <1>2, <1>3
  <2>2. Reading /\ sniffed \in Sniffs
    BY <1>2, <1>3
  <2>. QED BY <2>1, <2>2, SniffElement
<1>6. /\ audit' \in Audits /\ audit'.done = audit.done
      /\ IF audit.open # Null
         THEN audit'.open = IF e.name = "AdrLine" /\ InAddress(audit)
                            THEN [audit.open EXCEPT !.lines = Append(@, 0)]
                            ELSE audit.open
         ELSE audit'.open = IF e.tag = "start" /\ e.name \in Roles
                            THEN PartyOf(e, Bound(e)) ELSE Null
  BY <1>2, <1>3, <1>4, AuditElementOpen, Zenon
<1>7. audit'.open = IF audit.open # Null /\ name = "AdrLine" /\ InAddress(audit)
                    THEN [audit.open EXCEPT !.lines = Append(@, 0)]
                    ELSE audit.open
  BY <1>2, <1>6
<1>8. OpenInv'
  <2>1. audit.open # Null => audit.open \in Parties
    BY <1>3 DEF Audits
  <2>2. IF audit.open = Null THEN audit'.open = Null
        ELSE audit'.open # Null /\ audit'.open.depth = audit.open.depth
    BY <1>7, <2>1, LineMore
  <2>3. OpenInv
    BY DEF WalkInv
  <2>. QED BY <2>2, <2>3, OpenStays
<1>. QED BY <1>3, <1>4, <1>5, <1>6, <1>7, <1>8

\* A text: the walks go on where they are.
LEMMA SaysStep ==
  ASSUME WalkInv, NEW value, path # <<>>, Says(Text(value)),
         IsMessageId(path) => value \in Nat, audit.open # Null => value \in Nat
  PROVE  /\ path' = path /\ sniffed' \in Sniffs /\ sniffed'.done = FALSE
         /\ audit' \in Audits /\ audit'.done = "reading"
         /\ given' = Null /\ due' = Null /\ OpenInv'
         /\ IF audit.open = Null THEN audit'.open = Null
            ELSE /\ audit'.open # Null
                 /\ audit'.open.lines =
                      IF InAddress(audit) /\ Here = "AdrLine"
                      THEN [audit.open.lines EXCEPT ![Len(audit.open.lines)] = @ + value]
                      ELSE audit.open.lines
                 /\ IF InAddress(audit) /\ Here \in AddressElems
                    THEN /\ audit'.open.structured = audit.open.structured + 1
                         /\ audit'.open.town = (audit.open.town \/ Here = "TwnNm")
                         /\ audit'.open.country = (audit.open.country \/ Here = "Ctry")
                    ELSE /\ audit'.open.structured = audit.open.structured
                         /\ audit'.open.town = audit.open.town
                         /\ audit'.open.country = audit.open.country
<1>1. PICK e : /\ Reading /\ UNCHANGED path /\ due' = Null
               /\ e.tag = "text" /\ e.value = value /\ e.sound = TRUE
               /\ SniffStep(e) /\ AuditStep(e)
  BY SaysReads
<1>2. /\ path \in Seq(Elements) /\ sniffed \in Sniffs /\ audit \in Audits
      /\ audit.done = "reading" /\ OpenInv
  BY <1>1 DEF WalkInv, TypeInv
<1>3. AuditText(e) /\ given' = Null
  BY <1>1, <1>2 DEF AuditStep
<1>4. MessageDefinition(e.value) \in Messages
  BY DEF MessageDefinition, Messages
<1>5. sniffed' \in Sniffs /\ sniffed'.done = FALSE
  <2>1. /\ e.sound \in BOOLEAN /\ (e.sound /\ IsMessageId(path) => e.value \in Nat)
        /\ (e.sound /\ IsMessageDefinition(path) =>
              MessageDefinition(e.value) \in Messages)
    BY <1>1, <1>4
  <2>2. sniffed' \in Sniffs /\ sniffed'.done = ~e.sound
    BY <1>1, <1>2, <2>1, SniffText
  <2>. QED BY <1>1, <2>2
<1>6. CASE audit.open = Null
  <2>1. /\ audit' \in Audits /\ audit'.open = Null /\ audit'.done = audit.done
    BY <1>1, <1>2, <1>3, <1>4, <1>6, AuditIdentity
  <2>2. OpenInv'
    BY <1>1, <1>2, <1>6, <2>1, OpenStays
  <2>. QED BY <1>1, <1>2, <1>3, <1>5, <1>6, <2>1, <2>2
<1>7. CASE audit.open # Null
  <2>1. /\ audit' \in Audits /\ audit'.done = audit.done
        /\ audit'.open # Null /\ audit'.open.depth = audit.open.depth
        /\ audit'.open.lines =
             IF InAddress(audit) /\ Here = "AdrLine"
             THEN [audit.open.lines EXCEPT ![Len(audit.open.lines)] = @ + e.value]
             ELSE audit.open.lines
        /\ IF InAddress(audit) /\ Here \in AddressElems
           THEN /\ audit'.open.structured = audit.open.structured + 1
                /\ audit'.open.town = (audit.open.town \/ Here = "TwnNm")
                /\ audit'.open.country = (audit.open.country \/ Here = "Ctry")
           ELSE /\ audit'.open.structured = audit.open.structured
                /\ audit'.open.town = audit.open.town
                /\ audit'.open.country = audit.open.country
    BY <1>1, <1>2, <1>3, <1>7, AuditSays, Zenon
  <2>2. OpenInv'
    BY <1>1, <1>2, <1>7, <2>1, OpenStays
  <2>. QED BY <1>1, <1>2, <1>3, <1>5, <1>7, <2>1, <2>2, Zenon
<1>. QED BY <1>6, <1>7

\* The names that stand in one place only.
Placed == {"MsgId", "MsgDefIdr", Wrapper, "PstlAdr", "CtctDtls"} \cup Leaf

\* Any other name may stand where its rank is the greatest.
LEMMA MayStandByRank ==
  ASSUME path # <<>>, NEW name \in Elements \ Placed, Rank(Here) < Rank(name),
         Rank(name) # 0
  PROVE  MayStand(name)
<1>1. name \notin Leaf /\ name \notin {"MsgId", "MsgDefIdr", Wrapper, "PstlAdr", "CtctDtls"}
  BY DEF Placed
<1>2. name # "AdrLine"
  BY <1>1 DEF Leaf
<1>. QED BY <1>1, <1>2 DEF MayStand, Fits

\* A tail of two names.
LEMMA EndsInTwo ==
  ASSUME path \in Seq(Elements), NEW a, NEW b
  PROVE  EndsWith(path, <<a, b>>) <=>
           Len(path) >= 2 /\ path[Len(path) - 1] = a /\ path[Len(path)] = b
<1>. DEFINE n == Len(path)
            tail == SubSeq(path, n - 1, n)
<1>1. n \in Nat
  OBVIOUS
<1>2. EndsWith(path, <<a, b>>) <=> n >= 2 /\ tail = <<a, b>>
  <2>1. Len(<<a, b>>) = 2
    OBVIOUS
  <2>2. n - 2 + 1 = n - 1
    BY <1>1
  <2>. QED BY <2>1, <2>2 DEF EndsWith
<1>3. n >= 2 => tail = <<path[n - 1], path[n]>>
  <2>. SUFFICES ASSUME n >= 2
                PROVE  tail = <<path[n - 1], path[n]>>
    OBVIOUS
  <2>1. Len(tail) = 2 /\ tail[1] = path[n - 1] /\ tail[2] = path[n]
    BY <1>1
  <2>2. tail \in Seq(Elements)
    BY <1>1
  <2>. HIDE DEF tail, n
  <2>. QED BY <2>1, <2>2
<1>. HIDE DEF tail
<1>. QED BY <1>2, <1>3

\* The address of the party is around the cursor when its element is open.
LEMMA AddressPlace ==
  ASSUME WalkInv, path # <<>>
  PROVE  /\ Here = "PstlAdr" => InAddress(audit)
         /\ Here \in Leaf =>
              /\ InAddress(audit) <=> path[Len(path) - 1] = "PstlAdr"
              /\ Here = "AdrLine" => InAddress(audit)
              /\ Len(path) >= 2
         /\ Rank(Here) < 8 => ~InAddress(audit)
<1>1. /\ path \in Seq(Elements) /\ Nested /\ audit \in Audits
  BY DEF WalkInv, TypeInv
<1>2. /\ \A i \in DOMAIN path : /\ Rank(path[i]) \in 1 .. 9
                                /\ Rank(path[i]) <= Rank(Here)
                                /\ Rank(path[i]) = Rank(Here) => i = Len(path)
      /\ Rank(Here) \in 1 .. 9
      /\ IF Len(path) = 1 THEN Here \in {"BizMsgEnvlp", "Document"}
         ELSE Len(path) - 1 \in DOMAIN path /\ Fits(path[Len(path) - 1], Here)
  BY <1>1, HereRank
<1>3. /\ Len(path) \in Nat /\ DOMAIN path = 1 .. Len(path)
      /\ Len(path) \in DOMAIN path /\ Here = path[Len(path)]
  BY <1>1, Innermost
<1>4. InAddress(audit) <=>
        audit.open # Null /\ \E i \in DOMAIN path : path[i] = "PstlAdr"
  <2>. SUFFICES ASSUME audit.open # Null
                PROVE  InAddress(audit) <=> \E i \in DOMAIN path : path[i] = "PstlAdr"
    BY DEF InAddress
  <2>. DEFINE d == audit.open.depth
              inner == SubSeq(path, d + 1, Len(path))
  <2>1. d \in Nat /\ d + 1 \in DOMAIN path /\ path[d + 1] = "Dbtr"
    BY <1>1 DEF WalkInv, OpenInv, Audits, Parties
  <2>2. /\ inner \in Seq(Elements) /\ Len(inner) = Len(path) - d
        /\ \A i \in 1 .. Len(path) - d : inner[i] = path[i + d]
    <3>1. d + 1 \in 1 .. Len(path) + 1 /\ Len(path) \in (d + 1) - 1 .. Len(path)
      BY <1>3, <2>1
    <3>2. /\ inner \in Seq(Elements) /\ Len(inner) = Len(path) - (d + 1) + 1
          /\ \A i \in 1 .. Len(path) - (d + 1) + 1 : inner[i] = path[(d + 1) + i - 1]
      BY <1>1, <3>1, SubSeqProperties
    <3>3. Len(path) - (d + 1) + 1 = Len(path) - d
      BY <1>3, <2>1
    <3>4. \A i \in 1 .. Len(path) - d : (d + 1) + i - 1 = i + d
      BY <1>3, <2>1
    <3>. QED BY <3>2, <3>3, <3>4
  <2>3. DOMAIN inner = 1 .. Len(path) - d
    BY <2>2
  <2>4. \A i \in DOMAIN path : path[i] = "PstlAdr" => i > d
    <3>1. ASSUME NEW i \in DOMAIN path, path[i] = "PstlAdr", i <= d
          PROVE  FALSE
      <4>1. Rank(path[i]) < Rank(path[d + 1])
        BY <1>1, <1>3, <2>1, <3>1 DEF Nested
      <4>. QED BY <2>1, <3>1, <4>1, Ranks
    <3>. QED BY <1>3, <2>1, <3>1
  <2>5. InAddress(audit) <=> \E i \in DOMAIN inner : inner[i] = "PstlAdr"
    BY DEF InAddress, Range
  <2>. HIDE DEF d, inner
  <2>6. (\E i \in DOMAIN inner : inner[i] = "PstlAdr")
          <=> \E i \in DOMAIN path : path[i] = "PstlAdr"
    <3>1. ASSUME NEW i \in DOMAIN inner, inner[i] = "PstlAdr"
          PROVE  \E j \in DOMAIN path : path[j] = "PstlAdr"
      <4>1. i \in 1 .. Len(path) - d
        BY <2>3, <3>1
      <4>2. inner[i] = path[i + d]
        BY <2>2, <4>1
      <4>3. i + d \in DOMAIN path
        BY <1>3, <2>1, <4>1
      <4>. QED BY <3>1, <4>2, <4>3
    <3>2. ASSUME NEW i \in DOMAIN path, path[i] = "PstlAdr"
          PROVE  \E j \in DOMAIN inner : inner[j] = "PstlAdr"
      <4>1. i - d \in DOMAIN inner /\ (i - d) + d = i
        BY <1>3, <2>1, <2>3, <2>4, <3>2
      <4>2. inner[i - d] = "PstlAdr"
        BY <2>2, <2>3, <3>2, <4>1
      <4>. QED BY <4>1, <4>2
    <3>. QED BY <3>1, <3>2
  <2>. QED BY <2>5, <2>6
<1>5. Rank("PstlAdr") = 8 /\ \A n \in Leaf : Rank(n) = 9
  BY Ranks
<1>6. ASSUME Here = "PstlAdr"
      PROVE  InAddress(audit)
  <2>1. Rank(Here) > 7
    BY <1>5, <1>6
  <2>2. audit.open # Null
    BY <2>1, PartyPlace
  <2>3. \E i \in DOMAIN path : path[i] = "PstlAdr"
    BY <1>3, <1>6
  <2>. QED BY <1>4, <2>2, <2>3
<1>7. ASSUME Here \in Leaf
      PROVE  /\ InAddress(audit) <=> path[Len(path) - 1] = "PstlAdr"
             /\ Here = "AdrLine" => InAddress(audit)
             /\ Len(path) >= 2
  <2>1. Len(path) # 1
    BY <1>2, <1>7 DEF Leaf
  <2>. DEFINE m == Len(path) - 1
  <2>2. m \in DOMAIN path /\ Fits(path[m], Here)
    BY <1>2, <2>1
  <2>3. path[m] \in {"PstlAdr", "CtctDtls"} /\ Rank(path[m]) = 8
    BY <1>7, <2>2, Ranks DEF Fits
  <2>4. audit.open # Null
    BY <1>5, <1>7, PartyPlace
  <2>5. ASSUME NEW i \in DOMAIN path, path[i] = "PstlAdr"
        PROVE  i = m
    <3>1. i < m => Rank(path[i]) < Rank(path[m])
      BY <1>1, <2>2 DEF Nested
    <3>2. i > m => Rank(path[i]) > Rank(path[m])
      BY <1>1, <2>2 DEF Nested
    <3>. QED BY <1>3, <1>5, <2>2, <2>3, <2>5, <3>1, <3>2
  <2>6. InAddress(audit) <=> path[m] = "PstlAdr"
    BY <1>4, <2>2, <2>4, <2>5
  <2>7. Here = "AdrLine" => path[m] = "PstlAdr"
    BY <2>2 DEF Fits
  <2>8. Len(path) >= 2
    BY <1>3, <2>1
  <2>. QED BY <2>6, <2>7, <2>8
<1>8. Rank(Here) < 8 => ~InAddress(audit)
  BY <1>2, <1>4, <1>5
<1>. QED BY <1>6, <1>7, <1>8

-----------------------------------------------------------------------------
(* Every step keeps it.                                                    *)

NoRow == given' = Null /\ due' = Null

\* A step that leaves the party as it was.
LEMMA PartyStays ==
  ASSUME PartyInv, audit'.open = audit.open, UNCHANGED party
  PROVE  PartyInv'
BY DEF PartyInv, StatesIt

RecordPlace == own.record # Null => own.record < Len(path)

\* A start tag of anything but a party and a line.
LEMMA PlainOpen ==
  ASSUME WalkInv, PartyInv, NEW name, NEW ident \in Messages, MayStand(name),
         name \notin {"Dbtr", "AdrLine"}, Opens(name, ident), UNCHANGED party,
         past' \in Pasts, own' \in Owns, RecordPlace'
  PROVE  WalkInv' /\ PartyInv' /\ NoRow
<1>1. /\ path' \in Seq(Elements) /\ Nested' /\ OpenInv'
      /\ sniffed' \in Sniffs /\ sniffed'.done = FALSE
      /\ audit' \in Audits /\ audit'.done = "reading"
      /\ given' = Null /\ due' = Null
      /\ audit'.open = audit.open
  BY OpenStep
<1>2. PartyInv'
  BY <1>1, PartyStays
<1>3. party' \in Addresses
  BY DEF WalkInv, TypeInv
<1>. QED BY <1>1, <1>2, <1>3 DEF WalkInv, TypeInv, Reading, NoRow, RecordPlace

\* Where no record begins, the record stands as it stood.
LEMMA RecordStays ==
  ASSUME WalkInv, NEW name, NEW ident, Opens(name, ident), own'.record = own.record
  PROVE  RecordPlace'
<1>1. path \in Seq(Elements) /\ own \in Owns /\ path' = Append(path, name)
  BY DEF WalkInv, TypeInv, Opens
<1>2. Len(path') = Len(path) + 1 /\ Len(path) \in Nat
  BY <1>1
<1>3. own.record \in Nat \cup {Null}
  BY <1>1 DEF Owns
<1>4. own.record # Null => own.record < Len(path)
  BY DEF WalkInv
<1>. QED BY <1>2, <1>3, <1>4 DEF RecordPlace

\* What the walks know when they open an element.
LEMMA Places ==
  ASSUME WalkInv
  PROVE  /\ path \in Seq(Elements) /\ past \in Pasts /\ own \in Owns
         /\ party \in Addresses /\ audit \in Audits /\ sniffed \in Sniffs
         /\ Len(path) \in Nat /\ Nested
         /\ own.record \in Nat \cup {Null}
         /\ path # <<>> => Here \in Elements /\ Here # Null /\ Here = path[Len(path)]
         /\ path = <<>> => Here = Null
         /\ Null \in Messages /\ Idents \subseteq Messages
         /\ \A n \in Elements : n # Null
<1>1. path \in Seq(Elements)
  BY DEF WalkInv, TypeInv
<1>2. Null \in Messages /\ Idents \subseteq Messages
  BY IdentsAre DEF Messages
<1>3. \A n \in Elements : n # Null
  BY NullAssumption
<1>4. own \in Owns
  BY DEF WalkInv, TypeInv
<1>. QED BY <1>1, <1>2, <1>3, <1>4, Innermost DEF WalkInv, TypeInv, Owns

\* An element that only frames what is in it.
LEMMA FrameStep ==
  ASSUME WalkInv, PartyInv,
         HeaderStarts \/ DefinitionStarts \/ EnvelopeStarts \/ DocumentStarts
  PROVE  WalkInv' /\ PartyInv' /\ NoRow
<1>1. /\ path \in Seq(Elements) /\ past \in Pasts /\ own \in Owns
      /\ path = <<>> => Here = Null
      /\ Null \in Messages /\ Idents \subseteq Messages
      /\ \A n \in Elements : n # Null
  BY Places
<1>2. {"BizMsgEnvlp", "AppHdr", "Document", "MsgDefIdr"} \subseteq Elements
  BY FixedNames DEF Frame
<1>3. /\ Rank("BizMsgEnvlp") = 1 /\ Rank("AppHdr") = 2 /\ Rank("Document") = 2
      /\ Rank("MsgDefIdr") = 3
  BY Ranks
<1>4. {"BizMsgEnvlp", "AppHdr", "Document"} \cap Placed = {}
  BY DEF Placed, Leaf, Wrapper
<1>5. Here # Null => path # <<>>
  BY <1>1
<1>6. "BizMsgEnvlp" # Null /\ "AppHdr" # Null
  BY <1>1, <1>2
<1>7. CASE EnvelopeStarts
  <2>1. PICK ident \in {Null} \cup Idents :
          /\ Opens("BizMsgEnvlp", ident)
          /\ past' = [past EXCEPT !.form = "envelope", !.envelope = ident]
    BY <1>7 DEF EnvelopeStarts
  <2>2. UNCHANGED <<own, party>> /\ path = <<>>
    BY <1>7 DEF EnvelopeStarts
  <2>3. ident \in Messages /\ past' \in Pasts
    BY <1>1, <2>1 DEF Pasts
  <2>4. MayStand("BizMsgEnvlp")
    BY <1>2, <1>3, <2>2 DEF MayStand
  <2>5. RecordPlace'
    BY <2>1, <2>2, RecordStays
  <2>. QED BY <1>1, <2>1, <2>2, <2>3, <2>4, <2>5, PlainOpen
<1>8. CASE HeaderStarts
  <2>1. /\ Here = "BizMsgEnvlp" /\ Opens("AppHdr", Null)
        /\ past' = [past EXCEPT !.free = FALSE] /\ UNCHANGED <<own, party>>
    BY <1>8 DEF HeaderStarts
  <2>2. past' \in Pasts
    BY <1>1, <2>1 DEF Pasts
  <2>3. MayStand("AppHdr")
    BY <1>2, <1>3, <1>4, <1>5, <1>6, <2>1, MayStandByRank
  <2>4. RecordPlace'
    BY <2>1, RecordStays
  <2>. QED BY <1>1, <2>1, <2>2, <2>3, <2>4, PlainOpen
<1>9. CASE DefinitionStarts
  <2>1. /\ Here = "AppHdr" /\ Opens("MsgDefIdr", Null)
        /\ UNCHANGED <<past, own, party>>
    BY <1>9 DEF DefinitionStarts
  <2>2. MayStand("MsgDefIdr")
    BY <1>2, <1>3, <1>5, <1>6, <2>1 DEF MayStand, Fits, Wrapper, Leaf
  <2>3. RecordPlace'
    BY <2>1, RecordStays
  <2>. QED BY <1>1, <2>1, <2>2, <2>3, PlainOpen
<1>10. CASE DocumentStarts
  <2>1. PICK ident \in {Null} \cup Idents :
          /\ Opens("Document", ident)
          /\ past' = [past EXCEPT !.form = "documents", !.binding = ident,
                                  !.child = Null, !.empty = TRUE]
    BY <1>10 DEF DocumentStarts
  <2>2. UNCHANGED <<own, party>> /\ (path = <<>> \/ Here = "BizMsgEnvlp")
    BY <1>10 DEF DocumentStarts
  <2>3. ident \in Messages /\ past' \in Pasts
    BY <1>1, <2>1 DEF Pasts
  <2>4. MayStand("Document")
    <3>1. CASE path = <<>>
      BY <1>2, <1>3, <3>1 DEF MayStand
    <3>2. CASE path # <<>>
      BY <1>2, <1>3, <1>4, <2>2, <3>2, MayStandByRank
    <3>. QED BY <3>1, <3>2
  <2>5. RecordPlace'
    BY <2>1, <2>2, RecordStays
  <2>. QED BY <1>1, <2>1, <2>2, <2>3, <2>4, <2>5, PlainOpen
<1>. QED BY <1>7, <1>8, <1>9, <1>10

\* Outside its elements a message has no record open.
LEMMA StartsTyped ==
  ASSUME NEW f \in Messages, NEW d \in Nat, NEW k \in Messages, own' = Starts(f, d, k)
  PROVE  /\ own' \in Owns
         /\ own'.depth = d /\ own'.family = f /\ own'.container = k
         /\ own'.id = Null /\ own'.records = 0 /\ own'.record = Null
         /\ own'.amended = FALSE
<1>1. Null \in Messages
  BY DEF Messages
<1>2. own' = [NoMessage EXCEPT !.depth = d, !.family = f, !.container = k]
  BY DEF Starts
<1>3. own' = [depth |-> d, family |-> f, container |-> k, id |-> Null, records |-> 0,
              parties |-> 0, record |-> Null, amended |-> FALSE]
  BY <1>2 DEF NoMessage
<1>. QED BY <1>1, <1>3 DEF Owns

\* What names the message is a family, or nothing does.
LEMMA NamedTyped ==
  ASSUME past \in Pasts
  PROVE  /\ Named = Some(past.binding, Some(past.envelope,
                         IF past.header = Null THEN Null
                         ELSE MessageDefinition(past.header)))
         /\ Named \in Messages
<1>. DEFINE h == IF past.header = Null THEN Null ELSE MessageDefinition(past.header)
<1>1. h \in Messages
  BY DEF MessageDefinition, Messages
<1>2. Named = Some(past.binding, Some(past.envelope, h))
  BY FirstOfThree DEF Named
<1>. HIDE DEF h
<1>3. Named \in Messages
  BY <1>1, <1>2 DEF Some, Pasts
<1>. QED BY <1>2, <1>3 DEF h

\* What the file knows of itself stays so when a message is added.
LEMMA HoldsTyped ==
  ASSUME past \in Pasts, NEW f \in Families, NEW plain \in BOOLEAN
  PROVE  Holds(f, plain) \in Pasts
<1>. DEFINE m == past.messages + 1
            s == past.families \cup {f}
            p == past.plain /\ plain
<1>1. m \in Nat /\ s \in SUBSET Families /\ p \in BOOLEAN
  BY DEF Pasts
<1>2. Holds(f, plain) = [past EXCEPT !.messages = m, !.families = s,
                                     !.empty = FALSE, !.plain = p]
  BY DEF Holds
<1>. HIDE DEF m, s, p
<1>. QED BY <1>1, <1>2 DEF Pasts

\* The start of a message.
LEMMA MessageStep ==
  ASSUME WalkInv, PartyInv, MessageStarts \/ WrapperStarts
  PROVE  WalkInv' /\ PartyInv' /\ NoRow
<1>1. /\ path \in Seq(Elements) /\ past \in Pasts /\ own \in Owns
      /\ path = <<>> => Here = Null /\ Len(path) \in Nat
      /\ Null \in Messages /\ Idents \subseteq Messages
      /\ \A n \in Elements : n # Null
  BY Places
<1>2. {"BizMsgEnvlp", "Document", Wrapper} \cup Containers \subseteq Elements
  BY FixedNames DEF Frame
<1>3. /\ Rank("BizMsgEnvlp") = 1 /\ Rank("Document") = 2 /\ Rank(Wrapper) = 3
      /\ \A c \in Containers : Rank(c) = 4
  BY Ranks
<1>4. Containers \cap Placed = {}
  BY ContainerNames DEF Placed, Frame
<1>5. Here # Null => path # <<>> /\ Len(path) \in Nat \ {0}
  BY <1>1
<1>6. Named \in Messages
  BY <1>1, NamedTyped
<1>7. CASE MessageStarts
  <2>. DEFINE family(c) == Some(Named, Announced[c])
  <2>1. PICK c \in Containers :
          /\ Opens(c, Null)
          /\ own' = Starts(family(c), Len(path), Announced[c])
          /\ past' = [Holds(family(c), family(c) = Announced[c]) EXCEPT
                        !.hidden = @ \/ Here = Wrapper,
                        !.child = IF Here = "Document" THEN c ELSE @,
                        !.form = IF Here = "BizMsgEnvlp" THEN "bare" ELSE @]
    BY <1>7 DEF MessageStarts
  <2>2. UNCHANGED party /\ Here \in {"Document", Wrapper, "BizMsgEnvlp"}
    BY <1>7 DEF MessageStarts
  <2>. DEFINE f == family(c)
  <2>3. f \in Families
    <3>1. Announced[c] \in Families
      BY ContainerNames DEF Families
    <3>. QED BY <1>6, <3>1 DEF Some, Messages
  <2>. HIDE DEF f
  <2>4. own' \in Owns /\ own'.record = Null
    <3>1. /\ f \in Messages /\ Len(path) \in Nat
          /\ own' = Starts(f, Len(path), Announced[c])
      BY <1>1, <2>1, <2>3 DEF Messages, f
    <3>2. Announced[c] \in Messages
      BY ContainerNames DEF Families, Messages
    <3>. DEFINE k == Announced[c]
    <3>3. k \in Messages /\ own' = Starts(f, Len(path), k)
      BY <3>1, <3>2
    <3>. HIDE DEF k
    <3>. QED BY <3>1, <3>3, StartsTyped
  <2>5. past' \in Pasts
    <3>. DEFINE b == f = Announced[c]
                h == Holds(f, b)
                x == h.hidden \/ Here = Wrapper
                y == IF Here = "Document" THEN c ELSE h.child
                z == IF Here = "BizMsgEnvlp" THEN "bare" ELSE h.form
    <3>1. b \in BOOLEAN
      OBVIOUS
    <3>2. h \in Pasts
      BY <1>1, <2>3, <3>1, HoldsTyped
    <3>3. past' = [h EXCEPT !.hidden = x, !.child = y, !.form = z]
      BY <2>1 DEF f
    <3>. HIDE DEF h
    <3>4. /\ x \in BOOLEAN /\ y \in Containers \cup {Wrapper, Null}
          /\ z \in {Null, "envelope", "documents", "bare"}
      BY <3>2 DEF Pasts
    <3>. HIDE DEF x, y, z
    <3>. QED BY <3>2, <3>3, <3>4 DEF Pasts
  <2>6. MayStand(c)
    <3>1. Rank(Here) < 4 /\ Here # Null
      BY <1>1, <1>2, <1>3, <2>2
    <3>. QED BY <1>2, <1>3, <1>4, <1>5, <3>1, MayStandByRank
  <2>7. RecordPlace'
    BY <2>4 DEF RecordPlace
  <2>8. c \notin {"Dbtr", "AdrLine"}
    BY ContainerNames DEF Leaf
  <2>. QED BY <1>1, <2>1, <2>2, <2>4, <2>5, <2>6, <2>7, <2>8, PlainOpen
<1>8. CASE WrapperStarts
  <2>1. /\ Here = "Document" /\ Opens(Wrapper, Null) /\ UNCHANGED party
        /\ IF Named = Null
           THEN past' = [past EXCEPT !.child = Wrapper] /\ UNCHANGED own
           ELSE /\ own' = Starts(Named, Len(path) - 1, Null)
                /\ past' = [Holds(Named, FALSE) EXCEPT !.child = Wrapper]
    BY <1>8 DEF WrapperStarts
  <2>2. path # <<>> /\ Len(path) - 1 \in Nat
    BY <1>1, <1>2, <1>5, <2>1
  <2>3. past' \in Pasts /\ own' \in Owns /\ RecordPlace'
    <3>1. CASE Named = Null
      <4>1. past' \in Pasts
        BY <1>1, <2>1, <3>1 DEF Pasts
      <4>2. RecordPlace'
        BY <2>1, <3>1, RecordStays
      <4>. QED BY <1>1, <2>1, <3>1, <4>1, <4>2
    <3>2. CASE Named # Null
      <4>1. Named \in Families
        BY <1>6, <3>2 DEF Messages
      <4>2. Holds(Named, FALSE) \in Pasts
        BY <1>1, <4>1, HoldsTyped
      <4>. DEFINE h == Holds(Named, FALSE)
      <4>3. past' \in Pasts
        <5>1. past' = [h EXCEPT !.child = Wrapper] /\ h \in Pasts
          BY <2>1, <3>2, <4>2
        <5>. HIDE DEF h
        <5>. QED BY <5>1 DEF Pasts
      <4>4. own' \in Owns /\ own'.record = Null
        <5>. DEFINE d == Len(path) - 1
        <5>1. d \in Nat /\ own' = Starts(Named, d, Null)
          BY <2>1, <2>2, <3>2
        <5>2. Null \in Messages
          BY <1>1
        <5>. HIDE DEF d
        <5>. QED BY <1>6, <5>1, <5>2, StartsTyped
      <4>. QED BY <4>3, <4>4 DEF RecordPlace
    <3>. QED BY <3>1, <3>2
  <2>4. MayStand(Wrapper)
    BY <1>2, <1>3, <2>1, <2>2 DEF MayStand, Fits, Leaf, Wrapper
  <2>5. Wrapper \notin {"Dbtr", "AdrLine"}
    BY DEF Wrapper
  <2>. QED BY <1>1, <2>1, <2>3, <2>4, <2>5, PlainOpen
<1>. QED BY <1>7, <1>8

\* A record has the name of one.
LEMMA RecordNameIs ==
  RecordName \in RecordElems
<1>1. \A f : RecordElemOf(f) \in RecordElems \cup {Null}
  BY RecordElemIs
<1>2. "TxInf" \in RecordElems
  BY DEF RecordElems
<1>. DEFINE elem == RecordElemOf(IF Here = Wrapper THEN own.family ELSE Announced[Here])
<1>3. RecordName = IF elem = Null THEN "TxInf" ELSE elem
  BY Zenon DEF RecordName
<1>4. elem \in RecordElems \cup {Null}
  BY <1>1, Zenon
<1>. HIDE DEF elem
<1>. QED BY <1>2, <1>3, <1>4

\* A group header, the id in it, a record and a block in one.
LEMMA ContentStep ==
  ASSUME WalkInv, PartyInv,
         GroupHeaderStarts \/ MessageIdStarts \/ RecordStarts \/ BlockStarts
  PROVE  WalkInv' /\ PartyInv' /\ NoRow
<1>1. /\ path \in Seq(Elements) /\ past \in Pasts /\ own \in Owns
      /\ path = <<>> => Here = Null /\ Len(path) \in Nat
      /\ Null \in Messages /\ \A n \in Elements : n # Null
  BY Places
<1>2. /\ Containers \cup {Wrapper} \cup RecordElems \subseteq Elements
      /\ {"GrpHdr", "MsgId", "Mndt", "Rcpt"} \subseteq Elements
  BY FixedNames, PartyNames DEF Frame
<1>3. /\ Rank(Wrapper) = 3 /\ \A c \in Containers : Rank(c) = 4
      /\ Rank("GrpHdr") = 5 /\ Rank("MsgId") = 6
      /\ \A n \in RecordElems : Rank(n) = IF n = "Mndt" THEN 6 ELSE 5
      /\ Rank("Mndt") = 6 /\ Rank("Rcpt") = 6
  BY Ranks
<1>4. ({"GrpHdr", "Mndt", "Rcpt"} \cup RecordElems) \cap Placed = {}
  BY DEF Placed, Leaf, Wrapper, RecordElems
<1>5. Here # Null => path # <<>>
  BY <1>1
<1>6. InContent => /\ path # <<>> /\ Rank(Here) \in {3, 4}
  BY <1>1, <1>2, <1>3, <1>5 DEF InContent
<1>7. CASE GroupHeaderStarts
  <2>1. /\ InContent /\ Opens("GrpHdr", Null) /\ UNCHANGED <<past, own, party>>
    BY <1>7 DEF GroupHeaderStarts
  <2>2. MayStand("GrpHdr")
    BY <1>2, <1>3, <1>4, <1>6, <2>1, MayStandByRank
  <2>3. RecordPlace'
    BY <2>1, RecordStays
  <2>. QED BY <1>1, <2>1, <2>2, <2>3, PlainOpen
<1>8. CASE MessageIdStarts
  <2>1. /\ Here = "GrpHdr" /\ Opens("MsgId", Null) /\ UNCHANGED <<past, own, party>>
    BY <1>8 DEF MessageIdStarts
  <2>2. path # <<>>
    BY <1>1, <1>2, <1>5, <2>1
  <2>3. MayStand("MsgId")
    BY <1>2, <1>3, <2>1, <2>2 DEF MayStand, Fits, Leaf, Wrapper
  <2>4. RecordPlace'
    BY <2>1, RecordStays
  <2>. QED BY <1>1, <2>1, <2>3, <2>4, PlainOpen
<1>9. CASE RecordStarts
  <2>1. /\ InContent /\ Opens(RecordName, Null) /\ UNCHANGED party
        /\ own' = [own EXCEPT !.records = @ + 1, !.record = Len(path)]
        /\ past' = [past EXCEPT !.records = @ + 1]
    BY <1>9 DEF RecordStarts
  <2>2. RecordName \in RecordElems
    BY RecordNameIs
  <2>3. MayStand(RecordName)
    BY <1>2, <1>3, <1>4, <1>6, <2>1, <2>2, MayStandByRank
  <2>4. past' \in Pasts
    BY <1>1, <2>1 DEF Pasts
  <2>5. own' \in Owns /\ own'.record = Len(path) /\ Len(path) \in Nat
    <3>. DEFINE r == own.records + 1
                d == Len(path)
    <3>1. r \in Nat /\ d \in Nat
      BY <1>1 DEF Owns
    <3>2. own' = [own EXCEPT !.records = r, !.record = d]
      BY <2>1
    <3>. HIDE DEF r
    <3>3. own' \in Owns /\ own'.record = d
      <4>. HIDE DEF d
      <4>. QED BY <1>1, <3>1, <3>2 DEF Owns
    <3>. QED BY <3>1, <3>3
  <2>6. RecordPlace'
    <3>1. path' = Append(path, RecordName)
      BY <2>1 DEF Opens
    <3>. QED BY <1>1, <2>5, <3>1 DEF RecordPlace
  <2>7. RecordName \notin {"Dbtr", "AdrLine"}
    BY <2>2 DEF RecordElems
  <2>. QED BY <1>1, <2>1, <2>3, <2>4, <2>5, <2>6, <2>7, PlainOpen
<1>10. CASE BlockStarts
  <2>1. Here \in RecordElems \ {"Mndt"} /\ UNCHANGED <<past, party>>
    BY <1>10 DEF BlockStarts
  <2>2. PICK name \in {"Mndt", "Rcpt"} :
          /\ Opens(name, Null)
          /\ own' = [own EXCEPT !.amended = @ \/ name = "Mndt"]
    BY <1>10 DEF BlockStarts
  <2>3. MayStand(name)
    <3>1. path # <<>> /\ Rank(Here) = 5
      BY <1>1, <1>2, <1>3, <1>5, <2>1
    <3>. QED BY <1>2, <1>3, <1>4, <2>2, <3>1, MayStandByRank
  <2>4. own' \in Owns /\ own'.record = own.record
    BY <1>1, <2>2 DEF Owns
  <2>5. RecordPlace'
    BY <2>2, <2>4, RecordStays
  <2>6. name \notin {"Dbtr", "AdrLine"}
    BY <2>2
  <2>. QED BY <1>1, <2>1, <2>2, <2>3, <2>4, <2>5, <2>6, PlainOpen
<1>. QED BY <1>7, <1>8, <1>9, <1>10

\* A party begins with nothing stated.
LEMMA PartyStep ==
  ASSUME WalkInv, PartyInv, PartyStarts
  PROVE  WalkInv' /\ PartyInv' /\ NoRow
<1>1. /\ path \in Seq(Elements) /\ past \in Pasts /\ own \in Owns
      /\ party \in Addresses /\ Len(path) \in Nat
      /\ path = <<>> => Here = Null /\ Null \in Messages
      /\ \A n \in Elements : n # Null
  BY Places
<1>2. /\ InContent \/ own.record # Null
      /\ ~InParty /\ Opens("Dbtr", Null) /\ UNCHANGED <<past, party>>
      /\ own' = [own EXCEPT !.parties = @ + 1]
  BY DEF PartyStarts
<1>3. Null \in Messages
  BY DEF Messages
<1>4. audit.open = Null
  <2>1. "Dbtr" \in Roles
    BY DEF Roles
  <2>. QED BY <1>2, <2>1 DEF WalkInv, OpenInv, InParty
<1>5. path # <<>>
  <2>1. CASE InContent
    <3>1. Here \in Elements
      BY <2>1, FixedNames DEF InContent, Frame
    <3>. QED BY <1>1, <3>1
  <2>2. CASE own.record # Null
    <3>1. own.record < Len(path) /\ own.record \in Nat
      BY <1>1, <2>2 DEF WalkInv, Owns
    <3>. QED BY <1>1, <3>1
  <2>. QED BY <1>2, <2>1, <2>2
<1>6. MayStand("Dbtr")
  <2>1. Rank(Here) < 7
    <3>1. Rank(Here) \in 0 .. 9
      BY RankTells
    <3>. QED BY <1>4, <1>5, <3>1, PartyPlace
  <2>2. "Dbtr" \in Elements \ Placed /\ Rank("Dbtr") = 7
    BY FixedNames, Ranks DEF Placed, Leaf, Wrapper
  <2>. QED BY <1>5, <2>1, <2>2, MayStandByRank
<1>7. own' \in Owns /\ own'.record = own.record
  BY <1>1, <1>2 DEF Owns
<1>8. /\ path' \in Seq(Elements) /\ Nested' /\ OpenInv'
      /\ sniffed' \in Sniffs /\ sniffed'.done = FALSE
      /\ audit' \in Audits /\ audit'.done = "reading"
      /\ given' = Null /\ due' = Null
      /\ audit'.open # Null
      /\ audit'.open.lines = <<>> /\ audit'.open.structured = 0
      /\ audit'.open.town = FALSE /\ audit'.open.country = FALSE
  BY <1>2, <1>3, <1>6, OpenStep
<1>9. party' = NoAddress
  BY <1>2, <1>4 DEF PartyInv
<1>10. StatesIt(audit.open)'
  <2>1. /\ party'.lines = <<>> /\ party'.town = FALSE /\ party'.country = FALSE
    BY <1>9 DEF NoAddress
  <2>. QED BY <1>8, <2>1 DEF StatesIt
<1>11. PartyInv'
  BY <1>8, <1>10 DEF PartyInv, StatesIt
<1>12. RecordPlace'
  BY <1>2, <1>7, RecordStays
<1>13. past' \in Pasts /\ party' \in Addresses
  BY <1>1, <1>2
<1>. QED BY <1>7, <1>8, <1>11, <1>12, <1>13 DEF WalkInv, TypeInv, Reading, NoRow, RecordPlace

\* A line more in the address is a line more in the party.
LEMMA LineCounted ==
  ASSUME PartyInv, audit \in Audits, party \in Addresses, audit.open # Null,
         audit'.open = [audit.open EXCEPT !.lines = Append(@, 0)],
         party' = [party EXCEPT !.leaves = @ + 1, !.lines = Append(@, 0)]
  PROVE  party' \in Addresses /\ PartyInv'
<1>. DEFINE p == audit.open
            q == [p EXCEPT !.lines = Append(@, 0)]
            n == party.leaves + 1
            l == Append(party.lines, 0)
<1>1. n \in Nat /\ l \in Seq(Nat)
  BY DEF Addresses
<1>2. p \in Parties /\ StatesIt(p)
  BY DEF Audits, PartyInv
<1>3. /\ q # Null /\ q.lines = Append(p.lines, 0)
      /\ q.town = p.town /\ q.country = p.country /\ q.structured = p.structured
  BY <1>2, LineMore
<1>4. party' = [party EXCEPT !.leaves = n, !.lines = l]
  OBVIOUS
<1>5. l = Append(party.lines, 0) /\ audit'.open = q
  OBVIOUS
<1>. HIDE DEF p, q, n, l
<1>6. /\ party' \in Addresses /\ party'.lines = l /\ party'.town = party.town
      /\ party'.country = party.country
  BY <1>1, <1>4 DEF Addresses
<1>7. StatesIt(audit.open)'
  BY <1>2, <1>3, <1>5, <1>6 DEF StatesIt
<1>. QED BY <1>3, <1>5, <1>6, <1>7 DEF PartyInv, StatesIt

\* The elements and the texts of an address.
LEMMA AddressStep ==
  ASSUME WalkInv, PartyInv, AddressStarts \/ LeafStarts \/ LineIsEmpty
  PROVE  WalkInv' /\ PartyInv' /\ NoRow
<1>1. /\ path \in Seq(Elements) /\ past \in Pasts /\ own \in Owns
      /\ party \in Addresses /\ audit \in Audits /\ Len(path) \in Nat
      /\ path = <<>> => Here = Null
      /\ Null \in Messages /\ \A n \in Elements : n # Null
  BY Places
<1>2. Leaf \cup {"Dbtr", "PstlAdr", "CtctDtls"} \subseteq Elements
  BY FixedNames
<1>3. /\ Rank("Dbtr") = 7 /\ Rank("PstlAdr") = 8 /\ Rank("CtctDtls") = 8
      /\ \A n \in Leaf : Rank(n) = 9
  BY Ranks
<1>4. Here \in {"Dbtr", "PstlAdr", "CtctDtls"} => path # <<>>
  BY <1>1, <1>2
<1>5. CASE AddressStarts
  <2>1. PICK name \in {"PstlAdr", "CtctDtls"} : Opens(name, Null)
    BY <1>5 DEF AddressStarts
  <2>2. Here = "Dbtr" /\ UNCHANGED <<past, own, party>>
    BY <1>5 DEF AddressStarts
  <2>3. MayStand(name)
    <3>1. name \notin Leaf /\ name # "MsgId" /\ name # "MsgDefIdr" /\ name # Wrapper
      BY <2>1 DEF Leaf, Wrapper
    <3>. QED BY <1>2, <1>3, <1>4, <2>1, <2>2, <3>1 DEF MayStand, Fits
  <2>4. RecordPlace'
    BY <2>1, <2>2, RecordStays
  <2>5. name \notin {"Dbtr", "AdrLine"}
    BY <2>1
  <2>. QED BY <1>1, <2>1, <2>2, <2>3, <2>4, <2>5, PlainOpen
<1>6. CASE LeafStarts
  <2>1. PICK name \in Leaf :
          /\ name = "AdrLine" => Here = "PstlAdr"
          /\ Opens(name, Null)
          /\ party' = [party EXCEPT !.leaves = @ + 1,
                !.lines = IF name = "AdrLine" THEN Append(@, 0) ELSE @]
    BY <1>6 DEF LeafStarts, Leaf
  <2>2. Here \in {"PstlAdr", "CtctDtls"} /\ UNCHANGED <<past, own>>
    BY <1>6 DEF LeafStarts
  <2>3. MayStand(name)
    <3>1. name \notin {"PstlAdr", "CtctDtls"} /\ name # "MsgId" /\ name # "MsgDefIdr"
          /\ name # Wrapper
      BY <2>1 DEF Leaf, Wrapper
    <3>. QED BY <1>2, <1>3, <1>4, <2>1, <2>2, <3>1 DEF MayStand, Fits
  <2>4. RecordPlace'
    BY <2>1, <2>2, RecordStays
  <2>5. name # "Dbtr"
    BY <2>1 DEF Leaf
  <2>6. /\ path' \in Seq(Elements) /\ Nested' /\ OpenInv'
        /\ sniffed' \in Sniffs /\ sniffed'.done = FALSE
        /\ audit' \in Audits /\ audit'.done = "reading"
        /\ given' = Null /\ due' = Null
        /\ name = "AdrLine" =>
             audit'.open = IF InAddress(audit)
                           THEN [audit.open EXCEPT !.lines = Append(@, 0)]
                           ELSE audit.open
        /\ name # "AdrLine" => audit'.open = audit.open
    BY <1>1, <2>1, <2>3, <2>5, OpenStep
  <2>7. audit.open # Null
    <3>1. Rank(Here) > 7 /\ path # <<>>
      BY <1>3, <1>4, <2>2
    <3>. QED BY <3>1, PartyPlace
  <2>8. party' \in Addresses /\ PartyInv'
    <3>1. CASE name = "AdrLine"
      <4>1. InAddress(audit)
        BY <1>4, <2>1, <2>2, <3>1, AddressPlace
      <4>2. party' = [party EXCEPT !.leaves = @ + 1, !.lines = Append(@, 0)]
        BY <2>1, <3>1
      <4>. QED BY <1>1, <2>6, <2>7, <3>1, <4>1, <4>2, LineCounted
    <3>2. CASE name # "AdrLine"
      <4>. DEFINE n == party.leaves + 1
      <4>1. party' = [party EXCEPT !.leaves = n, !.lines = party.lines] /\ n \in Nat
        BY <1>1, <2>1, <3>2 DEF Addresses
      <4>. HIDE DEF n
      <4>2. /\ party' \in Addresses /\ party'.lines = party.lines
            /\ party'.town = party.town /\ party'.country = party.country
        BY <1>1, <4>1 DEF Addresses
      <4>3. StatesIt(audit.open)
        BY <2>7 DEF PartyInv
      <4>4. StatesIt(audit.open)'
        BY <2>6, <3>2, <4>2, <4>3 DEF StatesIt
      <4>. QED BY <2>6, <2>7, <3>2, <4>2, <4>4 DEF PartyInv
    <3>. QED BY <3>1, <3>2
  <2>. QED BY <1>1, <2>2, <2>4, <2>6, <2>8
        DEF WalkInv, TypeInv, Reading, NoRow, RecordPlace
<1>7. CASE LineIsEmpty
  <2>1. /\ Here = "PstlAdr" /\ Reads(Event("empty", "AdrLine")) /\ due' = Null
        /\ party' = [party EXCEPT !.leaves = @ + 1, !.lines = Append(@, 0)]
        /\ UNCHANGED <<path, past, own>>
    BY <1>7 DEF LineIsEmpty
  <2>2. path # <<>> /\ Rank(Here) > 7
    BY <1>3, <1>4, <2>1
  <2>3. audit.open # Null /\ InAddress(audit)
    BY <2>1, <2>2, PartyPlace, AddressPlace
  <2>4. "AdrLine" \in Elements /\ "AdrLine" # "Document"
    BY <1>2 DEF Leaf
  <2>5. /\ sniffed' \in Sniffs /\ sniffed'.done = FALSE
        /\ audit' \in Audits /\ audit'.done = "reading"
        /\ given' = Null /\ OpenInv'
        /\ audit'.open = [audit.open EXCEPT !.lines = Append(@, 0)]
    BY <2>1, <2>3, <2>4, EmptyStep
  <2>6. party' \in Addresses /\ PartyInv'
    BY <1>1, <2>1, <2>3, <2>5, LineCounted
  <2>. QED BY <1>1, <2>1, <2>5, <2>6 DEF WalkInv, TypeInv, Reading, NoRow, Nested
<1>. QED BY <1>5, <1>6, <1>7

\* A text of an address.
LEMMA LeafStep ==
  ASSUME WalkInv, PartyInv, LeafSaid
  PROVE  WalkInv' /\ PartyInv' /\ NoRow
<1>1. /\ path \in Seq(Elements) /\ past \in Pasts /\ own \in Owns
      /\ party \in Addresses /\ audit \in Audits /\ Len(path) \in Nat
      /\ path = <<>> => Here = Null /\ \A n \in Elements : n # Null
      /\ path # <<>> => Here = path[Len(path)]
  BY Places
<1>2. PICK n \in {1, LineChars} :
        /\ Says(Text(n))
        /\ party' =
             [party EXCEPT
                !.leaves = @ + 1,
                !.lines = IF Here = "AdrLine"
                          THEN [party.lines EXCEPT ![Len(party.lines)] = @ + n]
                          ELSE @,
                !.town = @ \/ EndsWith(path, <<"PstlAdr", "TwnNm">>),
                !.country = @ \/ EndsWith(path, <<"PstlAdr", "Ctry">>)]
  BY DEF LeafSaid
<1>3. Here \in Leaf /\ UNCHANGED <<past, own>> /\ n \in Nat
  BY FileAssumption DEF LeafSaid, Leaf
<1>4. path # <<>> /\ Rank(Here) = 9
  BY <1>1, <1>3, FixedNames, Ranks
<1>5. audit.open # Null
  BY <1>4, PartyPlace
<1>6. /\ InAddress(audit) <=> path[Len(path) - 1] = "PstlAdr"
      /\ Here = "AdrLine" => InAddress(audit)
      /\ Len(path) >= 2
  BY <1>3, <1>4, AddressPlace
<1>7. /\ path' = path /\ sniffed' \in Sniffs /\ sniffed'.done = FALSE
      /\ audit' \in Audits /\ audit'.done = "reading"
      /\ given' = Null /\ due' = Null /\ OpenInv'
      /\ audit'.open # Null
      /\ audit'.open.lines =
           IF InAddress(audit) /\ Here = "AdrLine"
           THEN [audit.open.lines EXCEPT ![Len(audit.open.lines)] = @ + n]
           ELSE audit.open.lines
      /\ IF InAddress(audit) /\ Here \in AddressElems
         THEN /\ audit'.open.structured = audit.open.structured + 1
              /\ audit'.open.town = (audit.open.town \/ Here = "TwnNm")
              /\ audit'.open.country = (audit.open.country \/ Here = "Ctry")
         ELSE /\ audit'.open.structured = audit.open.structured
              /\ audit'.open.town = audit.open.town
              /\ audit'.open.country = audit.open.country
  BY <1>2, <1>3, <1>4, <1>5, SaysStep
<1>8. /\ EndsWith(path, <<"PstlAdr", "TwnNm">>) <=> InAddress(audit) /\ Here = "TwnNm"
      /\ EndsWith(path, <<"PstlAdr", "Ctry">>) <=> InAddress(audit) /\ Here = "Ctry"
  BY <1>1, <1>4, <1>6, EndsInTwo
<1>. DEFINE l == IF Here = "AdrLine"
                 THEN [party.lines EXCEPT ![Len(party.lines)] = @ + n] ELSE party.lines
            t == party.town \/ (InAddress(audit) /\ Here = "TwnNm")
            c == party.country \/ (InAddress(audit) /\ Here = "Ctry")
            m == party.leaves + 1
<1>9. party' = [party EXCEPT !.leaves = m, !.lines = l, !.town = t, !.country = c]
  BY <1>2, <1>8
<1>10. l \in Seq(Nat) /\ t \in BOOLEAN /\ c \in BOOLEAN /\ m \in Nat
  <2>1. party.lines \in Seq(Nat) /\ party.leaves \in Nat
    BY <1>1 DEF Addresses
  <2>2. l \in Seq(Nat)
    BY <1>3, <2>1, LastLine, Zenon
  <2>. QED BY <2>1, <2>2
<1>11. StatesIt(audit.open)
  BY <1>5 DEF PartyInv
<1>12. audit.open.lines = party.lines
  BY <1>11 DEF StatesIt
<1>13. audit'.open.lines = l
  <2>1. CASE Here = "AdrLine"
    BY <1>6, <1>7, <1>12, <2>1
  <2>2. CASE Here # "AdrLine"
    BY <1>7, <1>12, <2>2
  <2>. QED BY <2>1, <2>2
<1>14. /\ audit'.open.town = t /\ audit'.open.country = c
       /\ audit'.open.structured = 0 <=> ~t /\ ~c
  <2>1. /\ audit.open.town = party.town /\ audit.open.country = party.country
        /\ audit.open.structured = 0 <=> ~party.town /\ ~party.country
    BY <1>11 DEF StatesIt
  <2>2. /\ audit.open.structured \in Nat
        /\ party.town \in BOOLEAN /\ party.country \in BOOLEAN
    BY <1>1, <1>5 DEF Audits, Parties, Addresses
  <2>3. Here \in {"TwnNm", "Ctry", "AdrLine"}
    BY <1>3 DEF Leaf
  <2>4. "TwnNm" \in AddressElems /\ "Ctry" \in AddressElems /\ "AdrLine" \notin AddressElems
    BY DEF AddressElems
  <2>5. CASE InAddress(audit) /\ Here = "TwnNm"
    BY <1>7, <2>1, <2>2, <2>4, <2>5
  <2>6. CASE InAddress(audit) /\ Here = "Ctry"
    BY <1>7, <2>1, <2>2, <2>4, <2>6
  <2>7. CASE ~InAddress(audit) \/ Here = "AdrLine"
    BY <1>7, <2>1, <2>2, <2>4, <2>7
  <2>. QED BY <2>3, <2>5, <2>6, <2>7
<1>. HIDE DEF l, t, c, m
<1>15. /\ party' \in Addresses /\ party'.lines = l /\ party'.town = t
       /\ party'.country = c
  BY <1>1, <1>9, <1>10 DEF Addresses
<1>16. StatesIt(audit.open)'
  BY <1>13, <1>14, <1>15 DEF StatesIt
<1>17. PartyInv'
  BY <1>7, <1>16 DEF PartyInv
<1>. QED BY <1>1, <1>3, <1>7, <1>15, <1>17 DEF WalkInv, TypeInv, Reading, NoRow, Nested

\* The texts that name a message, and a record with nothing in it.
LEMMA NamesStep ==
  ASSUME WalkInv, PartyInv, DefinitionSaid \/ MessageIdSaid \/ RecordIsEmpty
  PROVE  WalkInv' /\ PartyInv' /\ NoRow
<1>1. /\ path \in Seq(Elements) /\ past \in Pasts /\ own \in Owns
      /\ party \in Addresses /\ audit \in Audits /\ Len(path) \in Nat
      /\ path = <<>> => Here = Null /\ \A n \in Elements : n # Null
      /\ path # <<>> => Here = path[Len(path)]
  BY Places
<1>2. /\ {"MsgDefIdr", "MsgId", Wrapper} \cup Containers \cup RecordElems \subseteq Elements
      /\ Rank("MsgDefIdr") = 3 /\ Rank("MsgId") = 6
      /\ Rank(Wrapper) = 3 /\ \A c \in Containers : Rank(c) = 4
  BY FixedNames, Ranks DEF Frame
<1>3. CASE DefinitionSaid
  <2>1. Here = "MsgDefIdr" /\ UNCHANGED <<own, party>>
    BY <1>3 DEF DefinitionSaid
  <2>2. PICK text \in Idents \cup {Note} :
          /\ Says(Text(text))
          /\ past' = [past EXCEPT !.header = text,
                                  !.heard = Some(@, MessageDefinition(text))]
    BY <1>3 DEF DefinitionSaid
  <2>3. path # <<>> /\ audit.open = Null
    <3>1. path # <<>> /\ Rank(Here) = 3
      BY <1>1, <1>2, <2>1
    <3>. QED BY <3>1, PartyPlace
  <2>4. ~IsMessageId(path)
    <3>1. /\ EndsWith(path, <<"GrpHdr", "MsgId">>) => Here = "MsgId"
          /\ EndsWith(path, <<"Assgnmt", "Id">>) => Here = "Id"
          /\ EndsWith(path, <<"MsgHdr", "MsgId">>) => Here = "MsgId"
      BY <1>1, <2>3, EndsInTwo
    <3>. QED BY <2>1, <3>1 DEF IsMessageId
  <2>5. /\ path' = path /\ sniffed' \in Sniffs /\ sniffed'.done = FALSE
        /\ audit' \in Audits /\ audit'.done = "reading"
        /\ given' = Null /\ due' = Null /\ OpenInv' /\ audit'.open = Null
    BY <2>2, <2>3, <2>4, SaysStep
  <2>6. past' \in Pasts
    <3>. DEFINE h == Some(past.heard, MessageDefinition(text))
    <3>1. h \in Messages
      BY <1>1 DEF Some, MessageDefinition, Messages, Pasts
    <3>2. text \in Messages \cup {Note}
      BY IdentsAre DEF Messages
    <3>3. past' = [past EXCEPT !.header = text, !.heard = h]
      BY <2>2
    <3>. HIDE DEF h
    <3>. QED BY <1>1, <3>1, <3>2, <3>3 DEF Pasts
  <2>7. PartyInv'
    BY <2>1, <2>3, <2>5, PartyStays
  <2>. QED BY <1>1, <2>1, <2>5, <2>6, <2>7 DEF WalkInv, TypeInv, Reading, NoRow, Nested
<1>4. CASE MessageIdSaid
  <2>1. /\ Here = "MsgId" /\ Says(Text(past.messages)) /\ UNCHANGED <<past, party>>
        /\ own' = [own EXCEPT !.id = past.messages]
    BY <1>4 DEF MessageIdSaid
  <2>2. path # <<>> /\ audit.open = Null
    <3>1. path # <<>> /\ Rank(Here) = 6
      BY <1>1, <1>2, <2>1
    <3>. QED BY <3>1, PartyPlace
  <2>3. past.messages \in Nat
    BY <1>1 DEF Pasts
  <2>4. /\ path' = path /\ sniffed' \in Sniffs /\ sniffed'.done = FALSE
        /\ audit' \in Audits /\ audit'.done = "reading"
        /\ given' = Null /\ due' = Null /\ OpenInv' /\ audit'.open = Null
    BY <2>1, <2>2, <2>3, SaysStep
  <2>5. own' \in Owns /\ own'.record = own.record
    BY <1>1, <2>1, <2>3 DEF Owns
  <2>6. PartyInv'
    BY <2>1, <2>2, <2>4, PartyStays
  <2>. QED BY <1>1, <2>1, <2>4, <2>5, <2>6 DEF WalkInv, TypeInv, Reading, NoRow, Nested
<1>5. CASE RecordIsEmpty
  <2>1. /\ InContent /\ Reads(Event("empty", RecordName)) /\ due' = Null
        /\ UNCHANGED <<path, past, own, party>>
    BY <1>5 DEF RecordIsEmpty
  <2>2. path # <<>> /\ audit.open = Null
    <3>1. path # <<>> /\ Rank(Here) < 7
      BY <1>1, <1>2, <2>1 DEF InContent
    <3>. QED BY <3>1, PartyPlace
  <2>3. RecordName \in RecordElems
    BY RecordNameIs
  <2>4. RecordName \in Elements /\ RecordName # "Document"
    BY <1>2, <2>3 DEF RecordElems
  <2>5. /\ sniffed' \in Sniffs /\ sniffed'.done = FALSE
        /\ audit' \in Audits /\ audit'.done = "reading"
        /\ given' = Null /\ OpenInv' /\ audit'.open = audit.open
    BY <2>1, <2>2, <2>4, EmptyStep
  <2>6. PartyInv'
    BY <2>1, <2>5, PartyStays
  <2>. QED BY <1>1, <2>1, <2>5, <2>6 DEF WalkInv, TypeInv, Reading, NoRow, Nested
<1>. QED BY <1>3, <1>4, <1>5

\* The walks end, and have ended.
LEMMA StopStep ==
  ASSUME WalkInv, PartyInv, TextIsUnsound \/ InputEnds
  PROVE  WalkInv' /\ PartyInv' /\ NoRow
<1>1. /\ path \in Seq(Elements) /\ past \in Pasts /\ own \in Owns
      /\ party \in Addresses /\ audit \in Audits /\ sniffed \in Sniffs
  BY DEF WalkInv, TypeInv
<1>2. /\ Reading /\ due' = Null /\ UNCHANGED <<path, past, own, party>>
      /\ \E e : /\ (e.tag = "text" /\ e.sound = FALSE) \/ e.tag = "eof"
                /\ SniffStep(e) /\ AuditStep(e)
  <2>1. CASE TextIsUnsound
    <3>. DEFINE e == [Text(1) EXCEPT !.sound = FALSE]
    <3>1. e.tag = "text" /\ e.sound = FALSE
      BY DEF Text, Event
    <3>2. Reads(e) /\ due' = Null /\ UNCHANGED <<path, past, own, party>>
      BY <2>1 DEF TextIsUnsound
    <3>. HIDE DEF e
    <3>. QED BY <3>1, <3>2 DEF Reads
  <2>2. CASE InputEnds
    <3>. DEFINE e == Event("eof", Null)
    <3>1. e.tag = "eof"
      BY DEF Event
    <3>2. Reads(e) /\ due' = Null /\ UNCHANGED <<path, past, own, party>>
      BY <2>2 DEF InputEnds
    <3>. HIDE DEF e
    <3>. QED BY <3>1, <3>2 DEF Reads
  <2>. QED BY <2>1, <2>2
<1>3. PICK e : /\ (e.tag = "text" /\ e.sound = FALSE) \/ e.tag = "eof"
               /\ SniffStep(e) /\ AuditStep(e)
  BY <1>2
<1>4. audit.done = "reading"
  BY <1>2 DEF WalkInv
<1>5. /\ audit' \in Audits /\ given' = Null /\ audit'.open = audit.open
      /\ audit'.done = IF e.tag = "eof" /\ path = <<>> /\ audit.found
                       THEN "ended" ELSE "failed"
  <2>1. (e.tag = "text" /\ ~e.sound) \/ e.tag = "eof"
    BY <1>3
  <2>. QED BY <1>1, <1>3, <1>4, <2>1, AuditStops
<1>6. sniffed' \in Sniffs /\ sniffed'.done = TRUE
  <2>1. CASE e.tag = "text" /\ e.sound = FALSE
    <3>1. /\ e.tag = "text" /\ e.sound \in BOOLEAN /\ ~e.sound /\ SniffStep(e)
      BY <1>3, <2>1
    <3>2. sniffed' \in Sniffs /\ sniffed'.done = ~e.sound
      BY <1>1, <1>2, <3>1, SniffText
    <3>. QED BY <3>1, <3>2
  <2>2. CASE e.tag = "eof"
    <3>1. SniffEnds(e)
      BY <1>2, <1>3, <2>2 DEF SniffStep, Reading
    <3>2. CutShort(path, e) \in BOOLEAN
      BY DEF CutShort
    <3>. QED BY <1>1, <3>1, <3>2 DEF SniffEnds, Sniffs
  <2>. QED BY <1>3, <2>1, <2>2
<1>7. OpenInv' /\ PartyInv'
  <2>1. OpenInv'
    BY <1>2, <1>5 DEF WalkInv, OpenInv
  <2>. QED BY <1>2, <1>5, <2>1, PartyStays
<1>8. audit'.done # "reading"
  BY <1>5
<1>. QED BY <1>1, <1>2, <1>5, <1>6, <1>7, <1>8
      DEF WalkInv, TypeInv, Reading, NoRow, Nested

-----------------------------------------------------------------------------
(* The row of a party.                                                     *)

\* An address has a fault exactly when the rule refuses it.
LEMMA FaultsTell ==
  ASSUME NEW p \in Parties, StatesIt(p)
  PROVE  /\ Faults(p) \subseteq {"no town", "no country", "lines", "long"}
         /\ Faults(p) = {} <=> Accepted(party)
         /\ Len(p.lines) = Len(party.lines)
         /\ Format(p) \in {"NONE", "STRUCTURED", "HYBRID", "UNSTRUCTURED"}
<1>1. /\ p.lines = party.lines /\ p.town = party.town /\ p.country = party.country
      /\ p.structured = 0 <=> ~party.town /\ ~party.country
      /\ p.lines \in Seq(Nat) /\ p.town \in BOOLEAN /\ p.country \in BOOLEAN
  BY DEF StatesIt, Parties
<1>2. LineChars \in Nat
  BY FileAssumption
<1>3. Longest(p) > LineChars <=> \E i \in DOMAIN p.lines : p.lines[i] > LineChars
  <2>. DEFINE o == FoldLeft(LAMBDA m, x : IF x > m THEN x ELSE m, 0, p.lines)
  <2>1. o > LineChars <=> \E i \in DOMAIN p.lines : p.lines[i] > LineChars
    BY <1>1, <1>2, GreatestFolded
  <2>2. Longest(p) = o
    BY DEF Longest
  <2>. HIDE DEF o
  <2>. QED BY <2>1, <2>2
<1>. DEFINE none == p.lines = <<>> /\ p.structured = 0
            long == \E i \in DOMAIN p.lines : p.lines[i] > LineChars
            many == Len(p.lines) > 2
<1>4. long <=> ~ \A i \in DOMAIN p.lines : p.lines[i] <= LineChars
  <2>1. \A i \in DOMAIN p.lines : p.lines[i] \in Nat
    BY <1>1
  <2>. QED BY <1>2, <2>1
<1>5. Format(p) = "NONE" <=> none
  BY DEF Format
<1>6. Format(p) \in {"NONE", "STRUCTURED", "HYBRID", "UNSTRUCTURED"}
  BY DEF Format
<1>7. Faults(p) \subseteq {"no town", "no country", "lines", "long"}
  BY DEF Faults
<1>8. CASE none
  <2>1. Faults(p) = {}
    BY <1>5, <1>8 DEF Faults
  <2>2. Accepted(party)
    BY <1>1, <1>8 DEF Accepted
  <2>. QED BY <1>1, <1>6, <2>1, <2>2
<1>9. CASE ~none
  <2>1. /\ "no town" \in Faults(p) <=> ~p.town
        /\ "no country" \in Faults(p) <=> ~p.country
        /\ "lines" \in Faults(p) <=> many
        /\ "long" \in Faults(p) <=> long
    BY <1>3, <1>5, <1>9 DEF Faults, HybridLines
  <2>2. Faults(p) = {} <=> p.town /\ p.country /\ ~many /\ ~long
    BY <1>7, <2>1
  <2>3. ~many <=> Len(p.lines) <= 2
    BY <1>1
  <2>4. ~(party.lines = <<>> /\ ~party.town /\ ~party.country)
    BY <1>1, <1>9
  <2>5. Accepted(party) <=> p.town /\ p.country /\ ~many /\ ~long
    <3>. HIDE DEF long, many
    <3>1. (\A i \in DOMAIN party.lines : party.lines[i] <= LineChars) <=> ~long
      BY <1>1, <1>4
    <3>. QED BY <1>1, <2>3, <2>4, <3>1 DEF Accepted
  <2>. QED BY <1>1, <1>6, <1>7, <2>2, <2>5
<1>. QED BY <1>7, <1>8, <1>9

\* A row is there to be read.
LEMMA AuditRowIs ==
  ASSUME NEW p \in Parties, StatesIt(p), NEW f \in Messages, NEW i \in Nat \cup {Null}
  PROVE  LET row == AuditRow(p, f, i)
         IN  /\ row # Null /\ row.family = f /\ row.id = i /\ row.index = p.index
             /\ row.at = p.at /\ row.lines = Len(party.lines)
             /\ row.finding = {} <=> f \in OutOfScope \/ Accepted(party)
<1>. DEFINE row == AuditRow(p, f, i)
            found == IF f \in OutOfScope THEN {} ELSE Faults(p)
            n == Len(p.lines)
            format == Format(p)
<1>1. /\ Faults(p) \subseteq {"no town", "no country", "lines", "long"}
      /\ Faults(p) = {} <=> Accepted(party)
      /\ n = Len(party.lines)
      /\ format \in {"NONE", "STRUCTURED", "HYBRID", "UNSTRUCTURED"}
  BY FaultsTell
<1>2. found \subseteq {"no town", "no country", "lines", "long"}
      /\ (found = {} <=> f \in OutOfScope \/ Accepted(party))
  BY <1>1
<1>3. p.index \in Nat \cup {Null} /\ p.at \in Seq(Elements) /\ p.structured \in Nat
      /\ n \in Nat
  BY DEF Parties
<1>4. row = [family |-> f, id |-> i, index |-> p.index, at |-> p.at,
             format |-> format, lines |-> n, structured |-> p.structured,
             finding |-> found]
  BY DEF AuditRow
<1>5. f \in Families \cup {Null}
  BY DEF Messages
<1>. HIDE DEF row, found, n, format
<1>6. row \in GivenRows /\ row.family = f /\ row.id = i /\ row.index = p.index
      /\ row.at = p.at /\ row.lines = n /\ row.finding = found
  BY <1>1, <1>2, <1>3, <1>4, <1>5 DEF GivenRows
<1>7. row # Null
  BY <1>6, NullAssumption
<1>. QED BY <1>1, <1>2, <1>6, <1>7 DEF row

\* The row that is due of a party, field by field.
LEMMA DueRowIs ==
  ASSUME path \in Seq(Elements), own \in Owns, party \in Addresses
  PROVE  /\ DueRow # Null /\ DueRow.family = own.family /\ DueRow.id = own.id
         /\ DueRow.index = IF own.record = Null THEN Null ELSE own.records
         /\ DueRow.at = IF own.record = Null THEN <<"Dbtr">>
                        ELSE SubSeq(path, own.record + 1, Len(path))
         /\ DueRow.lines = Len(party.lines)
         /\ DueRow.accepted <=> own.family \in OutOfScope \/ Accepted(party)
<1>. DEFINE i == IF own.record = Null THEN Null ELSE own.records
            at == IF own.record = Null THEN <<"Dbtr">>
                  ELSE SubSeq(path, own.record + 1, Len(path))
            n == Len(party.lines)
            ok == own.family \in OutOfScope \/ Accepted(party)
<1>1. i \in Nat \cup {Null} /\ n \in Nat /\ ok \in BOOLEAN
  BY DEF Owns, Addresses
<1>2. at \in Seq(Elements)
  <2>1. <<"Dbtr">> \in Seq(Elements)
    <3>1. "Dbtr" \in Elements
      BY FixedNames
    <3>. QED BY <3>1
  <2>2. own.record \in Nat \cup {Null}
    BY DEF Owns
  <2>3. CASE own.record = Null
    BY <2>1, <2>3
  <2>4. CASE own.record \in Nat
    BY <2>4, NullAssumption
  <2>. QED BY <2>2, <2>3, <2>4
<1>3. own.family \in Families \cup {Null} /\ own.id \in Nat \cup {Null}
  BY DEF Owns, Messages
<1>4. DueRow = [family |-> own.family, id |-> own.id, index |-> i, at |-> at,
                lines |-> n, accepted |-> ok]
  BY DEF DueRow
<1>. HIDE DEF i, at, n, ok
<1>5. /\ DueRow \in DueRows /\ DueRow.family = own.family /\ DueRow.id = own.id
      /\ DueRow.index = i /\ DueRow.at = at /\ DueRow.lines = n /\ DueRow.accepted = ok
  BY <1>1, <1>2, <1>3, <1>4 DEF DueRows
<1>6. DueRow # Null
  BY <1>5, NullAssumption
<1>. QED BY <1>5, <1>6 DEF i, at, n, ok

\* The end of an element gives a row for a party, and none for anything else.
EndsWell ==
  /\ given' # Null <=> Here = "Dbtr"
  /\ due' # Null <=> Here = "Dbtr"
  /\ Here = "Dbtr" =>
       /\ given'.family = audit.family /\ given'.id = audit.id
       /\ given'.index = audit.open.index /\ given'.at = audit.open.at
       /\ given'.lines = Len(party.lines)
       /\ given'.finding = {} <=> audit.family \in OutOfScope \/ Accepted(party)
       /\ due' = DueRow

\* The end of an element keeps the invariant, and the row the end of a party
\* gives finds faults by the rule.
LEMMA EndsStep ==
  ASSUME WalkInv, PartyInv, ElementEnds
  PROVE  WalkInv' /\ PartyInv' /\ EndsWell
<1>1. /\ path \in Seq(Elements) /\ past \in Pasts /\ own \in Owns
      /\ party \in Addresses /\ audit \in Audits /\ sniffed \in Sniffs
      /\ Len(path) \in Nat /\ Nested
      /\ path # <<>> => Here \in Elements /\ Here # Null /\ Here = path[Len(path)]
  BY Places
<1>2. /\ path # <<>> /\ path' = Front(path)
      /\ due' = IF Here = "Dbtr" THEN DueRow ELSE Null
      /\ party' = IF Here = "Dbtr" THEN NoAddress ELSE party
      /\ own' = IF own.depth = Len(path) - 1 THEN NoMessage
                ELSE [own EXCEPT !.record = IF @ = Len(path) - 1 THEN Null ELSE @]
      /\ past' = IF Here = "Document" \/ (Here \in Containers /\ past.form = "bare")
                 THEN [past EXCEPT !.binding = Null, !.child = Null, !.header = Null,
                                   !.free = TRUE, !.hidden = @ \/ past.empty]
                 ELSE past
  BY DEF ElementEnds
<1>3. Reading /\ \E e : e.tag = "end" /\ SniffStep(e) /\ AuditStep(e)
  <2>. DEFINE e == Event("end", Here)
  <2>1. e.tag = "end"
    BY DEF Event
  <2>2. Reads(e)
    BY DEF ElementEnds
  <2>. HIDE DEF e
  <2>. QED BY <2>1, <2>2 DEF Reads
<1>4. PICK e : e.tag = "end" /\ SniffStep(e) /\ AuditStep(e)
  BY <1>3
<1>5. sniffed' = sniffed /\ sniffed.done = FALSE
  BY <1>1, <1>3, <1>4 DEF SniffStep, Reading, Sniffs
<1>6. audit.done = "reading"
  BY <1>3 DEF WalkInv
<1>7. AuditCloses
  BY <1>4, <1>6 DEF AuditStep
<1>. DEFINE len == Len(path) - 1
            ends == audit.open # Null /\ audit.open.depth = len
<1>8. /\ audit' \in Audits
      /\ given' = IF ends THEN AuditRow(audit.open, audit.family, audit.id) ELSE Null
      /\ audit'.open = IF ends THEN Null ELSE audit.open
      /\ audit'.done = audit.done
  BY <1>1, <1>7, AuditClosed
<1>9. /\ Rank(Here) = 7 <=> Here = "Dbtr"
      /\ Rank(Here) < 7 => audit.open = Null
      /\ Rank(Here) = 7 => audit.open # Null /\ audit.open.depth = len
      /\ audit.open # Null =>
           /\ audit.open.depth \in 0 .. len
           /\ Rank(Here) # 7 => audit.open.depth < len
  BY <1>2, PartyPlace, RankTells
<1>10. ends <=> Here = "Dbtr"
  BY <1>1, <1>9
<1>11. /\ path' \in Seq(Elements) /\ Len(path') = len /\ DOMAIN path' = 1 .. len
       /\ \A i \in 1 .. len : path'[i] = path[i]
  BY <1>1, <1>2, Popped
<1>12. Nested'
  BY <1>1, <1>2, NestedPopped
<1>13. len \in Nat /\ DOMAIN path = 1 .. len + 1
  BY <1>1, <1>2
<1>14. OpenInv'
  <2>1. CASE Here = "Dbtr"
    <3>1. \A i \in 1 .. len : path[i] # "Dbtr"
      <4>1. ASSUME NEW i \in 1 .. len, path[i] = "Dbtr"
            PROVE  FALSE
        <5>1. i \in DOMAIN path /\ Len(path) \in DOMAIN path /\ i < Len(path)
          BY <1>1, <1>13
        <5>2. Rank(path[i]) < Rank(path[Len(path)])
          BY <1>1, <5>1 DEF Nested
        <5>. QED BY <1>1, <1>2, <2>1, <4>1, <5>2, Ranks
      <4>. QED BY <4>1
    <3>2. audit'.open = Null
      BY <1>8, <1>10, <2>1
    <3>. QED BY <1>11, <3>1, <3>2 DEF OpenInv
  <2>2. CASE Here # "Dbtr"
    <3>1. audit'.open = audit.open
      BY <1>8, <1>10, <2>2
    <3>2. CASE audit.open = Null
      <4>1. \A i \in DOMAIN path : path[i] # "Dbtr"
        BY <3>2 DEF WalkInv, OpenInv
      <4>. QED BY <1>11, <1>13, <3>1, <3>2, <4>1 DEF OpenInv
    <3>3. CASE audit.open # Null
      <4>1. audit.open.depth + 1 \in 1 .. len /\ path[audit.open.depth + 1] = "Dbtr"
        BY <1>9, <1>13, <2>2, <3>3 DEF WalkInv, OpenInv
      <4>. QED BY <1>11, <3>1, <3>3, <4>1 DEF OpenInv
    <3>. QED BY <3>2, <3>3
  <2>. QED BY <2>1, <2>2
<1>15. party' \in Addresses /\ PartyInv'
  <2>1. CASE Here = "Dbtr"
    <3>1. audit'.open = Null /\ party' = NoAddress
      BY <1>2, <1>8, <1>10, <2>1
    <3>2. NoAddress \in Addresses
      BY DEF NoAddress, Addresses
    <3>. QED BY <3>1, <3>2 DEF PartyInv
  <2>2. CASE Here # "Dbtr"
    <3>1. audit'.open = audit.open /\ party' = party
      BY <1>2, <1>8, <1>10, <2>2
    <3>. QED BY <1>1, <3>1, PartyStays
  <2>. QED BY <2>1, <2>2
<1>16. own' \in Owns /\ RecordPlace'
  <2>1. own.record \in Nat \cup {Null} /\ (own.record # Null => own.record <= len)
    BY <1>1, <1>13 DEF Owns, WalkInv
  <2>2. CASE own.depth = len
    <3>1. own' = NoMessage
      BY <1>2, <2>2
    <3>2. NoMessage \in Owns /\ NoMessage.record = Null
      BY DEF NoMessage, Owns, Messages
    <3>. QED BY <3>1, <3>2 DEF RecordPlace
  <2>3. CASE own.depth # len
    <3>. DEFINE r == IF own.record = len THEN Null ELSE own.record
    <3>1. own' = [own EXCEPT !.record = r]
      BY <1>2, <2>3
    <3>2. r \in Nat \cup {Null} /\ (r # Null => r < len)
      BY <1>13, <2>1
    <3>. HIDE DEF r
    <3>3. own' \in Owns /\ own'.record = r
      BY <1>1, <3>1, <3>2 DEF Owns
    <3>. QED BY <1>11, <3>2, <3>3 DEF RecordPlace
  <2>. QED BY <2>2, <2>3
<1>17. past' \in Pasts
  <2>1. Null \in Messages
    BY DEF Messages
  <2>2. (past.hidden \/ past.empty) \in BOOLEAN
    OBVIOUS
  <2>3. CASE past' = past
    BY <1>1, <2>3
  <2>4. CASE past' = [past EXCEPT !.binding = Null, !.child = Null, !.header = Null,
                                  !.free = TRUE, !.hidden = @ \/ past.empty]
    <3>. DEFINE h == past.hidden \/ past.empty
    <3>1. past' = [past EXCEPT !.binding = Null, !.child = Null, !.header = Null,
                               !.free = TRUE, !.hidden = h]
      BY <2>4
    <3>. HIDE DEF h
    <3>2. h \in BOOLEAN
      BY <2>2 DEF h
    <3>. QED BY <1>1, <2>1, <3>1, <3>2 DEF Pasts
  <2>. QED BY <1>2, <2>3, <2>4
<1>18. WalkInv'
  BY <1>5, <1>1, <1>6, <1>8, <1>11, <1>12, <1>14, <1>15, <1>16, <1>17
     DEF WalkInv, TypeInv, Reading, RecordPlace
<1>19. EndsWell
  <2>1. CASE Here = "Dbtr"
    <3>. DEFINE p == audit.open
                f == audit.family
                i == audit.id
    <3>1. p \in Parties /\ StatesIt(p)
      BY <1>1, <1>10, <2>1 DEF Audits, PartyInv
    <3>2. f \in Messages /\ i \in Nat \cup {Null}
      BY <1>1 DEF Audits
    <3>. HIDE DEF p, f, i
    <3>. DEFINE row == AuditRow(p, f, i)
    <3>3. /\ row # Null /\ row.family = f /\ row.id = i /\ row.index = p.index
          /\ row.at = p.at /\ row.lines = Len(party.lines)
          /\ row.finding = {} <=> f \in OutOfScope \/ Accepted(party)
      BY <3>1, <3>2, AuditRowIs
    <3>4. given' = row
      BY <1>8, <1>10, <2>1 DEF p, f, i
    <3>. HIDE DEF row
    <3>5. due' = DueRow /\ DueRow # Null
      BY <1>1, <1>2, <2>1, DueRowIs
    <3>. QED BY <2>1, <3>3, <3>4, <3>5 DEF EndsWell, p, f, i
  <2>2. CASE Here # "Dbtr"
    BY <1>2, <1>8, <1>10, <2>2 DEF EndsWell
  <2>. QED BY <2>1, <2>2
<1>. QED BY <1>15, <1>18, <1>19

-----------------------------------------------------------------------------
(* The audit of the addresses.                                             *)

AddressInv ==
  /\ WalkInv /\ PartyInv
  /\ given # Null <=> due # Null
  /\ FindingsAreTheRule

\* The invariant holds at first.
LEMMA AddressInit ==
  ASSUME Init
  PROVE  AddressInv
<1>1. Null \in Messages
  BY DEF Messages
<1>2. path = <<>> /\ own = NoMessage /\ party = NoAddress /\ due = Null /\ given = Null
  BY DEF Init, AuditInit
<1>3. past \in Pasts
  BY <1>1 DEF Init, Pasts
<1>4. own \in Owns /\ own.record = Null
  BY <1>1, <1>2 DEF NoMessage, Owns
<1>5. party \in Addresses
  BY <1>2 DEF NoAddress, Addresses
<1>6. sniffed \in Sniffs /\ sniffed.done = FALSE
  BY <1>1 DEF Init, SniffInit, Sniffs
<1>7. audit \in Audits /\ audit.open = Null /\ audit.done = "reading"
  BY <1>1 DEF Init, AuditInit, Audits
<1>8. path \in Seq(Elements) /\ Nested /\ OpenInv
  BY <1>2, <1>7 DEF Nested, OpenInv
<1>9. WalkInv
  BY <1>3, <1>4, <1>5, <1>6, <1>7, <1>8 DEF WalkInv, TypeInv, Reading
<1>10. PartyInv
  BY <1>2, <1>7 DEF PartyInv
<1>. QED BY <1>2, <1>9, <1>10 DEF AddressInv, FindingsAreTheRule

\* Every step of the file keeps the invariant.
LEMMA AddressNext ==
  ASSUME AddressInv, [Next]_vars
  PROVE  AddressInv'
<1>1. WalkInv /\ PartyInv
  BY DEF AddressInv
<1>2. ASSUME WalkInv' /\ PartyInv' /\ NoRow
      PROVE  AddressInv'
  BY <1>2 DEF AddressInv, NoRow, FindingsAreTheRule
<1>3. CASE HeaderStarts \/ DefinitionStarts \/ EnvelopeStarts \/ DocumentStarts
  BY <1>1, <1>2, <1>3, FrameStep
<1>4. CASE MessageStarts \/ WrapperStarts
  BY <1>1, <1>2, <1>4, MessageStep
<1>5. CASE GroupHeaderStarts \/ MessageIdStarts \/ RecordStarts \/ BlockStarts
  BY <1>1, <1>2, <1>5, ContentStep
<1>6. CASE PartyStarts
  BY <1>1, <1>2, <1>6, PartyStep
<1>7. CASE AddressStarts \/ LeafStarts \/ LineIsEmpty
  BY <1>1, <1>2, <1>7, AddressStep
<1>8. CASE LeafSaid
  BY <1>1, <1>2, <1>8, LeafStep
<1>9. CASE DefinitionSaid \/ MessageIdSaid \/ RecordIsEmpty
  BY <1>1, <1>2, <1>9, NamesStep
<1>10. CASE TextIsUnsound \/ InputEnds
  BY <1>1, <1>2, <1>10, StopStep
<1>11. CASE ElementEnds
  <2>1. WalkInv' /\ PartyInv' /\ EndsWell
    BY <1>1, <1>11, EndsStep
  <2>2. /\ DueRow # Null /\ DueRow.family = own.family
        /\ DueRow.lines = Len(party.lines)
        /\ DueRow.accepted <=> own.family \in OutOfScope \/ Accepted(party)
    BY <1>1, DueRowIs DEF WalkInv, TypeInv
  <2>3. FindingsAreTheRule'
    <3>1. CASE Here = "Dbtr"
      <4>1. /\ given'.family = audit.family /\ given'.lines = Len(party.lines)
            /\ given'.finding = {} <=> audit.family \in OutOfScope \/ Accepted(party)
            /\ due' = DueRow
        BY <2>1, <3>1 DEF EndsWell
      <4>2. given'.family = due'.family =>
              /\ given'.lines = due'.lines
              /\ given'.finding = {} <=> due'.accepted
        BY <2>2, <4>1
      <4>. QED BY <4>2 DEF FindingsAreTheRule
    <3>2. CASE Here # "Dbtr"
      BY <2>1, <3>2 DEF EndsWell, FindingsAreTheRule
    <3>. QED BY <3>1, <3>2
  <2>. QED BY <2>1, <2>3 DEF EndsWell, AddressInv
<1>12. CASE Over \/ UNCHANGED vars
  <2>1. UNCHANGED <<path, past, own, party, due, sniffed, audit, given>>
    BY <1>12 DEF Over, vars, fileVars
  <2>2. WalkInv'
    BY <1>1, <2>1 DEF WalkInv, TypeInv, Nested, OpenInv, Reading
  <2>3. PartyInv'
    BY <1>1, <2>1 DEF PartyInv, StatesIt
  <2>. QED BY <2>1, <2>2, <2>3 DEF AddressInv, FindingsAreTheRule
<1>. QED BY <1>3, <1>4, <1>5, <1>6, <1>7, <1>8, <1>9, <1>10, <1>11, <1>12 DEF Next

\* In every file the audit has a party open exactly while the cursor is in one, knows
\* of it what its address states, and gives a row exactly at its end.
THEOREM AddressesAreRead == Spec => []AddressInv
<1>1. Init => AddressInv
  BY AddressInit
<1>2. AddressInv /\ [Next]_vars => AddressInv'
  BY AddressNext
<1>. QED BY <1>1, <1>2, PTL DEF Spec

\* An address raises a finding exactly when the rule of the documentation refuses it,
\* whatever elements, empty lines and parts of texts it is written in.
THEOREM FindingsFollowTheRule == Spec => []FindingsAreTheRule
<1>1. AddressInv => FindingsAreTheRule
  BY DEF AddressInv
<1>. QED BY <1>1, AddressesAreRead, PTL
-----------------------------------------------------------------------------
(* Whose a party is.  The audit is told of a message only by tags: it takes  *)
(* the identity of one up at a Document, at a container and at the first     *)
(* child of a Document.                                                      *)

InDocument == \E i \in DOMAIN path : path[i] = "Document"

\* The first child of the Document is yet to come.
Childless == InDocument /\ past.child = Null

\* The Document of the file held no message, and no message comes after it.
Lost == past.hidden /\ past.messages = 0

FileInv ==
  /\ MessageDefinition(past.header) # Null => past.heard # Null
  /\ past.form = Null => past.envelope = Null
  /\ InDocument => past.form = "documents"
  /\ ~InDocument => past.binding = Null
  /\ Childless => Here = "Document" /\ past.empty
  /\ Lost => past.form = "documents" /\ ~InDocument

\* The message is a container that is open, or a Document whose first child no
\* table knows; there is content only in one.
OwnInv ==
  IF InMessage
  THEN /\ past.messages > 0 /\ own.depth + 1 \in DOMAIN path /\ ~Childless
       /\ \/ path[own.depth + 1] \in Containers
          \/ path[own.depth + 1] = "Document" /\ past.child = Wrapper
  ELSE own = NoMessage /\ \A i \in DOMAIN path : Rank(path[i]) < 4

\* What the audit knows of names is what the file has said of them.
NamedInv ==
  /\ audit.header = past.heard /\ audit.envelope = past.envelope
  /\ InDocument => audit.document = past.binding
  /\ past.form # "documents" => audit.document = Null
  /\ audit.awaiting => Lost \/ Childless
  /\ Childless =>
       /\ audit.awaiting /\ audit.docDepth = Len(path) - 1
       /\ audit.depth = Null /\ audit.id = Null /\ audit.index = 0
       /\ audit.family = Some(past.binding, Some(past.heard, past.envelope))

\* The audit has taken a Document for the message that nothing names but the header
\* of an earlier message.
Claimed ==
  /\ past.binding = Null /\ past.envelope = Null /\ past.heard # Null
  /\ MessageDefinition(past.header) = Null /\ past.child = Wrapper
  /\ audit.depth # Null /\ audit.depth + 1 \in DOMAIN path
  /\ path[audit.depth + 1] = "Document"

\* It has given it the family of that header, and read nothing of it.
Fresh == audit.id = Null /\ audit.index = 0 /\ audit.family = past.heard

\* The audit is in the message the cursor is in, or around it; outside of messages
\* it is in none, or in a Document in which it has taken nothing up.
DepthInv ==
  IF InMessage
  THEN \/ audit.depth = own.depth
       \/ Claimed /\ audit.depth < own.depth /\ past.hidden
  ELSE audit.depth = Null \/ Lost \/ (Claimed /\ (past.hidden \/ Fresh))

\* The message goes by its own names, but for the two exceptions.
WhoseInv ==
  InMessage => audit.id = own.id /\ audit.family = Called(own.family)

\* The audit is in the record the cursor is in, and numbers it alike; in a message
\* with an amendment it may be further in, or out of the record already, and has
\* numbered the mandate as well.
RecordInv ==
  /\ InMessage => audit.index = own.records + IF own.amended THEN 1 ELSE 0
  /\ ~own.amended => audit.record = own.record
  /\ audit.record # Null =>
       /\ InMessage /\ audit.record \in own.depth + 1 .. Len(path) - 1
       /\ own.record # Null /\ own.record <= audit.record

\* A party outside of records, and one in a record of a message with an amendment.
OutsideRecords == audit.open.index = Null /\ audit.open.at = <<"Dbtr">>

InAmended ==
  /\ audit.open.index = Null \/ audit.open.index = own.records + 1
  /\ \E q \in own.record .. audit.open.depth :
       audit.open.at = SubSeq(path, q + 1, audit.open.depth + 1)

\* And so it does when a party opens, until the end of it.
PlaceInv ==
  audit.open # Null =>
    /\ InMessage
    /\ own.record # Null => own.record < audit.open.depth
    /\ ~own.amended =>
         /\ audit.open.index = IF own.record = Null THEN Null ELSE own.records
         /\ audit.open.at =
              IF own.record = Null THEN <<"Dbtr">>
              ELSE SubSeq(path, own.record + 1, audit.open.depth + 1)
    /\ own.amended => IF own.record = Null THEN OutsideRecords ELSE InAmended

\* Below a record the cursor is in one.
WithinInv ==
  \A i \in DOMAIN path :
    path[i] \in RecordElems => own.record # Null /\ own.record < i

IdentityInv ==
  FileInv /\ OwnInv /\ NamedInv /\ DepthInv /\ WhoseInv /\ RecordInv /\ PlaceInv

\* What becomes of what the audit remembers at an element.
LEMMA ElementFields ==
  ASSUME audit \in Audits, path \in Seq(Elements), NEW e, e.name \in Elements,
         e.ident \in Messages, AuditElement(e)
  PROVE  /\ audit'.awaiting <=> e.name = "Document"
         /\ audit'.header = audit.header
         /\ audit'.document = IF e.name = "Document" THEN e.ident ELSE audit.document
         /\ audit'.docDepth = IF e.name = "Document" THEN Len(path) ELSE audit.docDepth
         /\ audit'.depth = IF e.name = "Document" THEN Null
                           ELSE IF Opening(e) THEN Len(path)
                           ELSE IF Claiming(e.name) THEN audit.docDepth
                           ELSE audit.depth
         /\ audit'.envelope =
              IF /\ e.ident # Null /\ e.name # "Document"
                 /\ audit'.depth = Null /\ audit.envelope = Null
              THEN e.ident ELSE audit.envelope
         /\ e.ident = Null /\ e.name # "Document" =>
              audit'.family =
                IF Opening(e)
                THEN Some(audit.document,
                          Some(audit.header, FamilyOfContainer(e.name)))
                ELSE audit.family
         /\ e.name = "Document" =>
              audit'.family = Some(e.ident, Some(audit.header, audit.envelope))
         /\ audit'.id = IF e.name = "Document" \/ Opening(e) THEN Null ELSE audit.id
         /\ IF audit.open = Null /\ e.tag = "start" /\ e.name \in RecordElems
            THEN /\ audit'.index = Bound(e).index + 1
                 /\ audit'.record = Len(path)
            ELSE audit'.index = Bound(e).index /\ audit'.record = Bound(e).record
         /\ IF e.name = "Document" \/ Opening(e)
            THEN Bound(e).index = 0 /\ Bound(e).record = Null
            ELSE Bound(e).index = audit.index /\ Bound(e).record = audit.record
<1>. DEFINE g == Begun(e)
            b == Bound(e)
            open == e.name = "Document" \/ Opening(e)
<1>1. /\ audit' \in Audits /\ audit'.done = audit.done /\ Kept(b) /\ b \in Audits
  BY AuditElementOpen, Zenon
<1>2. Len(path) \in Nat
  OBVIOUS
<1>3. /\ g \in Audits
      /\ g.awaiting <=> e.name = "Document"
      /\ g.document = IF e.name = "Document" THEN e.ident ELSE audit.document
      /\ g.docDepth = IF e.name = "Document" THEN Len(path) ELSE audit.docDepth
      /\ g.depth = IF e.name = "Document" THEN Null
                   ELSE IF Opening(e) THEN Len(path)
                   ELSE IF Claiming(e.name) THEN audit.docDepth
                   ELSE audit.depth
      /\ g.family =
           IF e.name = "Document"
           THEN Some(e.ident, Some(audit.header, audit.envelope))
           ELSE IF Opening(e)
           THEN Some(audit.document,
                     Some(audit.header, FamilyOfContainer(e.name)))
           ELSE audit.family
      /\ IF open
         THEN g.id = Null /\ g.index = 0 /\ g.record = Null
         ELSE /\ g.id = audit.id /\ g.index = audit.index
              /\ g.record = audit.record
      /\ g.envelope = audit.envelope /\ g.header = audit.header
      /\ g.open = audit.open
  BY <1>2, BegunFields, Zenon
<1>4. /\ b.envelope = IF /\ e.ident # Null /\ e.name # "Document"
                         /\ g.depth = Null /\ g.envelope = Null
                      THEN e.ident ELSE g.envelope
      /\ b.family = IF e.ident = Null THEN g.family ELSE Some(g.family, e.ident)
      /\ b.awaiting = g.awaiting
      /\ b.document = g.document
      /\ b.docDepth = g.docDepth
      /\ b.depth = g.depth /\ b.header = g.header
      /\ b.id = g.id /\ b.index = g.index
      /\ b.record = g.record /\ b.open = g.open
  BY <1>3, BoundFields, Zenon
<1>5. IF audit.open = Null /\ e.tag = "start" /\ e.name \in RecordElems
      THEN audit'.index = b.index + 1 /\ audit'.record = Len(path)
      ELSE audit'.index = b.index /\ audit'.record = b.record
  <2>1. CASE audit.open = Null
    <3>1. b.open = Null
      BY <1>3, <1>4, <2>1
    <3>2. /\ audit'.index = IF e.tag = "start" /\ e.name \in RecordElems
                            THEN b.index + 1 ELSE b.index
          /\ audit'.record = IF e.tag = "start" /\ e.name \in RecordElems
                             THEN Len(path) ELSE b.record
      BY <1>1, <3>1, AuditOutside, Zenon
    <3>. QED BY <2>1, <3>2, Zenon
  <2>2. CASE audit.open # Null
    <3>1. b.open = audit.open
      BY <1>3, <1>4
    <3>2. audit'.index = b.index /\ audit'.record = b.record
      BY <1>1, <2>2, <3>1, AuditInside, Zenon
    <3>. QED BY <2>2, <3>2, Zenon
  <2>. QED BY <2>1, <2>2
<1>6. e.name = "Document" =>
        b.family = Some(e.ident, Some(audit.header, audit.envelope))
  <2>1. CASE e.name = "Document" /\ e.ident # Null
    BY <1>3, <1>4, <2>1 DEF Some
  <2>2. CASE e.name = "Document" /\ e.ident = Null
    BY <1>3, <1>4, <2>2
  <2>. QED BY <2>1, <2>2
<1>. DEFINE a == audit'
<1>7. /\ a.family = b.family /\ a.document = b.document
      /\ a.envelope = b.envelope /\ a.header = b.header
      /\ a.id = b.id /\ a.depth = b.depth
      /\ a.docDepth = b.docDepth /\ a.awaiting = b.awaiting
  BY <1>1 DEF Kept
<1>. HIDE DEF a, b, g
<1>8. /\ a.awaiting <=> e.name = "Document"
      /\ a.header = audit.header
      /\ a.document = IF e.name = "Document" THEN e.ident ELSE audit.document
      /\ a.docDepth = IF e.name = "Document" THEN Len(path) ELSE audit.docDepth
  BY <1>3, <1>4, <1>7, Zenon
<1>9. a.depth = IF e.name = "Document" THEN Null
                ELSE IF Opening(e) THEN Len(path)
                ELSE IF Claiming(e.name) THEN audit.docDepth
                ELSE audit.depth
  BY <1>3, <1>4, <1>7, Zenon
<1>10. a.envelope = IF /\ e.ident # Null /\ e.name # "Document"
                       /\ a.depth = Null /\ audit.envelope = Null
                    THEN e.ident ELSE audit.envelope
  BY <1>3, <1>4, <1>7, Zenon
<1>11. e.ident = Null /\ e.name # "Document" =>
         a.family = IF Opening(e)
                    THEN Some(audit.document,
                              Some(audit.header, FamilyOfContainer(e.name)))
                    ELSE audit.family
  BY <1>3, <1>4, <1>7, Zenon
<1>12. e.name = "Document" =>
         a.family = Some(e.ident, Some(audit.header, audit.envelope))
  BY <1>6, <1>7, Zenon
<1>13. /\ a.id = IF open THEN Null ELSE audit.id
       /\ IF open THEN b.index = 0 /\ b.record = Null
          ELSE b.index = audit.index /\ b.record = audit.record
  BY <1>3, <1>4, <1>7, Zenon
<1>. QED
  BY <1>5, <1>8, <1>9, <1>10, <1>11, <1>12, <1>13, Zenon DEF a, b

-----------------------------------------------------------------------------
(* Where the walk is.                                                      *)

\* A start tag inside any other element, and the end of one.
LEMMA DocumentPushed ==
  ASSUME path \in Seq(Elements), NEW name \in Elements, path' = Append(path, name)
  PROVE  InDocument' <=> InDocument \/ name = "Document"
<1>1. /\ Len(path) \in Nat /\ DOMAIN path = 1 .. Len(path)
      /\ DOMAIN path' = 1 .. Len(path) + 1
      /\ path'[Len(path) + 1] = name
      /\ \A i \in 1 .. Len(path) : path'[i] = path[i]
  BY Innermost, Pushed
<1>2. ASSUME InDocument'
      PROVE  InDocument \/ name = "Document"
  <2>1. PICK i \in 1 .. Len(path) + 1 : path'[i] = "Document"
    BY <1>1, <1>2 DEF InDocument
  <2>. QED BY <1>1, <2>1 DEF InDocument
<1>3. ASSUME InDocument
      PROVE  InDocument'
  <2>1. PICK i \in 1 .. Len(path) : path[i] = "Document"
    BY <1>1, <1>3 DEF InDocument
  <2>2. i \in 1 .. Len(path) + 1 /\ path'[i] = "Document"
    BY <1>1, <2>1
  <2>. QED BY <1>1, <2>2 DEF InDocument
<1>4. ASSUME name = "Document"
      PROVE  InDocument'
  <2>1. Len(path) + 1 \in DOMAIN path' /\ path'[Len(path) + 1] = "Document"
    BY <1>1, <1>4
  <2>. QED BY <2>1 DEF InDocument
<1>. QED BY <1>2, <1>3, <1>4

\* Only one Document is open at a time.
LEMMA DocumentPopped ==
  ASSUME path \in Seq(Elements), path # <<>>, Nested, path' = Front(path)
  PROVE  InDocument' <=> InDocument /\ Here # "Document"
<1>1. /\ Len(path) \in Nat \ {0} /\ DOMAIN path = 1 .. Len(path)
      /\ Here = path[Len(path)]
      /\ DOMAIN path' = 1 .. Len(path) - 1
      /\ \A i \in 1 .. Len(path) - 1 : path'[i] = path[i]
  BY Innermost, Popped
<1>2. \A i \in 1 .. Len(path) - 1 : Rank(path[i]) < Rank(Here)
  BY <1>1 DEF Nested
<1>3. ASSUME InDocument'
      PROVE  InDocument /\ Here # "Document"
  <2>1. PICK i \in 1 .. Len(path) - 1 : path'[i] = "Document"
    BY <1>1, <1>3 DEF InDocument
  <2>2. path[i] = "Document" /\ i \in 1 .. Len(path) /\ Here # "Document"
    <3>1. path[i] = "Document" /\ Rank(path[i]) < Rank(Here)
      BY <1>1, <1>2, <2>1
    <3>2. Rank(path[i]) \in 0 .. 9 /\ Rank(Here) \in 0 .. 9
      BY RankTells
    <3>. QED BY <1>1, <2>1, <3>1, <3>2
  <2>. QED BY <1>1, <2>2 DEF InDocument
<1>4. ASSUME InDocument, Here # "Document"
      PROVE  InDocument'
  <2>1. PICK i \in 1 .. Len(path) : path[i] = "Document"
    BY <1>1, <1>4 DEF InDocument
  <2>2. i # Len(path)
    BY <1>1, <1>4, <2>1
  <2>3. i \in 1 .. Len(path) - 1
    <3>1. \A n \in Nat \ {0} : \A k \in 1 .. n : k # n => k \in 1 .. n - 1
      OBVIOUS
    <3>. QED BY <1>1, <2>1, <2>2, <3>1, Zenon
  <2>4. path'[i] = "Document"
    BY <1>1, <2>1, <2>3
  <2>. QED BY <1>1, <2>3, <2>4 DEF InDocument
<1>. QED BY <1>3, <1>4

\* Above the messages there is none.
LEMMA AboveMessages ==
  ASSUME WalkInv, OwnInv,
         path = <<>> \/ Here = "BizMsgEnvlp" \/ Here = "AppHdr" \/ Here = "MsgDefIdr"
  PROVE  ~InDocument /\ ~InMessage /\ audit.open = Null
<1>1. path \in Seq(Elements) /\ Nested
  BY DEF WalkInv, TypeInv
<1>2. CASE path = <<>>
  <2>1. DOMAIN path = {}
    BY <1>1, <1>2
  <2>. QED BY <2>1, <1>1, <1>2 DEF InDocument, OwnInv, WalkInv, OpenInv
<1>3. CASE path # <<>>
  <2>. DEFINE n == Len(path)
  <2>1. /\ n \in Nat \ {0} /\ DOMAIN path = 1 .. n /\ Here = path[n]
    BY <1>1, <1>3, Innermost
  <2>2. /\ \A i \in 1 .. n : Rank(path[i]) \in 1 .. 9 /\ Rank(path[i]) <= Rank(Here)
        /\ \A i, j \in 1 .. n : Rank(path[i]) = Rank(path[j]) => i = j
    <3>1. \A i \in 1 .. n : Rank(path[i]) \in 1 .. 9 /\ Rank(path[i]) <= Rank(Here)
      BY <1>1, <1>3, <2>1, HereRank
    <3>2. \A i, j \in 1 .. n : i < j => Rank(path[i]) < Rank(path[j])
      BY <1>1, <2>1 DEF Nested
    <3>. QED BY <2>1, <3>1, <3>2
  <2>3. /\ Rank("BizMsgEnvlp") = 1 /\ Rank("AppHdr") = 2 /\ Rank("MsgDefIdr") = 3
        /\ Rank("Document") = 2 /\ \A c \in Containers : Rank(c) = 4
    BY Ranks
  <2>4. Rank(Here) <= 3
    BY <1>3, <2>3
  <2>5. \A i \in 1 .. n : path[i] # "Document"
    <3>1. CASE Here = "BizMsgEnvlp"
      BY <2>2, <2>3, <3>1
    <3>2. CASE Here = "AppHdr"
      <4>1. n \in 1 .. n /\ Rank(path[n]) = 2
        BY <2>1, <2>3, <3>2
      <4>2. \A i \in 1 .. n : Rank(path[i]) = 2 => i = n
        BY <2>2, <4>1
      <4>. QED BY <2>1, <2>3, <3>2, <4>2
    <3>3. CASE Here = "MsgDefIdr"
      <4>1. n - 1 \in 1 .. n /\ path[n - 1] = "AppHdr"
        BY <1>1, <1>3, <2>1, <3>3, HereRank DEF Fits
      <4>2. \A i \in 1 .. n : Rank(path[i]) = 2 => i = n - 1
        BY <2>1, <2>2, <2>3, <4>1
      <4>. QED BY <2>3, <4>1, <4>2
    <3>. QED BY <1>3, <3>1, <3>2, <3>3
  <2>6. ~InDocument
    BY <2>1, <2>5 DEF InDocument
  <2>7. ~InMessage
    <3>1. \A i \in 1 .. n : path[i] \notin Containers
      BY <2>2, <2>3, <2>4
    <3>. QED BY <2>1, <2>5, <3>1 DEF OwnInv
  <2>8. Rank(Here) < 7
    BY <2>4, RankTells
  <2>. QED BY <1>3, <2>6, <2>7, <2>8, PartyPlace
<1>. QED BY <1>2, <1>3

\* In a message the audit has what the file is, and takes up nothing more.
LEMMA Settled ==
  ASSUME WalkInv, OwnInv, NamedInv, DepthInv, InMessage
  PROVE  /\ ~audit.awaiting /\ audit.depth # Null
         /\ own.depth \in Nat /\ own.depth + 1 \in 1 .. Len(path)
         /\ Len(path) \in Nat /\ path # <<>>
<1>1. own \in Owns /\ path \in Seq(Elements) /\ past \in Pasts
  BY DEF WalkInv, TypeInv
<1>2. own.depth \in Nat
  BY <1>1 DEF Owns, InMessage
<1>3. ~audit.awaiting
  <2>1. past.messages > 0 /\ ~Childless
    BY DEF OwnInv
  <2>2. ~Lost
    BY <1>1, <2>1 DEF Lost, Pasts
  <2>. QED BY <2>1, <2>2 DEF NamedInv
<1>4. audit.depth # Null
  BY <1>2, NullAssumption DEF DepthInv, Claimed, InMessage
<1>5. Len(path) \in Nat /\ DOMAIN path = 1 .. Len(path) /\ (path = <<>> <=> Len(path) = 0)
  BY <1>1, Innermost
<1>6. own.depth + 1 \in 1 .. Len(path)
  BY <1>5 DEF OwnInv
<1>. QED BY <1>2, <1>3, <1>4, <1>5, <1>6

\* Where content stands there is a message.
LEMMA InOne ==
  ASSUME WalkInv, OwnInv, path # <<>>, Rank(Here) > 3
  PROVE  InMessage
<1>1. path \in Seq(Elements)
  BY DEF WalkInv, TypeInv
<1>2. Len(path) \in DOMAIN path /\ Here = path[Len(path)]
  BY <1>1, Innermost
<1>3. Rank(Here) \in 0 .. 9
  BY RankTells
<1>. QED BY <1>2, <1>3 DEF OwnInv

\* The audit reads a start tag.
LEMMA StartIsRead ==
  ASSUME WalkInv, NEW name, NEW ident, Opens(name, ident)
  PROVE  \E e : /\ e.tag = "start" /\ e.name = name /\ e.ident = ident
                /\ AuditElement(e)
<1>1. /\ Reading
      /\ \E e : /\ e.tag = "start" /\ e.name = name /\ e.ident = ident
                /\ SniffStep(e) /\ AuditStep(e)
  BY OpensReads
<1>2. PICK e : /\ e.tag = "start" /\ e.name = name /\ e.ident = ident
               /\ SniffStep(e) /\ AuditStep(e)
  BY <1>1
<1>3. audit.done = "reading"
  BY <1>1 DEF WalkInv
<1>4. AuditElement(e)
  BY <1>2, <1>3 DEF AuditStep
<1>. QED BY <1>2, <1>4

-----------------------------------------------------------------------------
(* Steps that take up no message and leave none.                           *)

\* What the audit remembers of the message stays.
IdentityStays ==
  /\ audit'.family = audit.family /\ audit'.document = audit.document
  /\ audit'.envelope = audit.envelope /\ audit'.header = audit.header
  /\ audit'.id = audit.id /\ audit'.depth = audit.depth
  /\ audit'.docDepth = audit.docDepth /\ audit'.awaiting = audit.awaiting

\* So does what it remembers of the party.
PlaceStays ==
  IF audit.open = Null THEN audit'.open = Null
  ELSE /\ audit'.open # Null /\ audit'.open.depth = audit.open.depth
       /\ audit'.open.index = audit.open.index /\ audit'.open.at = audit.open.at

\* What the file knows of itself stays, but for its records.
PastStays ==
  /\ past'.messages = past.messages /\ past'.hidden = past.hidden
  /\ past'.form = past.form /\ past'.envelope = past.envelope
  /\ past'.binding = past.binding /\ past'.child = past.child
  /\ past'.empty = past.empty /\ past'.header = past.header
  /\ past'.heard = past.heard

\* Then the first header names the message if it did.
LEMMA FirstHeaderStays ==
  ASSUME PastStays
  PROVE  /\ FirstHeaderNames' <=> FirstHeaderNames
         /\ Lost' <=> Lost
<1>1. Named' = Named
  BY Zenon DEF PastStays, Named
<1>2. FirstHeaderNames' <=> FirstHeaderNames
  BY <1>1, Zenon DEF PastStays, FirstHeaderNames
<1>3. Lost' <=> Lost
  BY Zenon DEF PastStays, Lost
<1>. QED BY <1>2, <1>3

\* And the audit calls the message what it did.
LEMMA CalledStays ==
  ASSUME PastStays, own'.container = own.container, own'.family = own.family
  PROVE  Called(own.family)' = Called(own.family)
<1>1. FirstHeaderNames' <=> FirstHeaderNames
  BY FirstHeaderStays
<1>2. EnvelopeIsPassedOver' <=> EnvelopeIsPassedOver
  BY Zenon DEF PastStays, EnvelopeIsPassedOver
<1>. QED BY <1>1, <1>2, Zenon DEF PastStays, Called

\* A step within an element that leaves the message as it is.
LEMMA StillStep ==
  ASSUME IdentityInv, UNCHANGED path, PastStays, UNCHANGED own, IdentityStays,
         audit'.index = audit.index, audit'.record = audit.record, PlaceStays
  PROVE  IdentityInv'
<1>1. /\ FirstHeaderNames' <=> FirstHeaderNames
      /\ Lost' <=> Lost
  BY FirstHeaderStays
<1>2. /\ Here' = Here /\ (InDocument' <=> InDocument)
      /\ InMessage' <=> InMessage
  BY DEF Here, InDocument, InMessage
<1>3. Childless' <=> Childless
  BY <1>2 DEF Childless, PastStays
<1>4. FileInv'
  BY <1>1, <1>2, <1>3 DEF IdentityInv, FileInv, PastStays
<1>5. OwnInv'
  BY <1>2, <1>3 DEF IdentityInv, OwnInv, PastStays
<1>6. NamedInv'
  BY <1>1, <1>2, <1>3 DEF IdentityInv, NamedInv, PastStays, IdentityStays
<1>7. Claimed' <=> Claimed
  BY DEF Claimed, PastStays, IdentityStays
<1>8. DepthInv'
  <2>1. Fresh' <=> Fresh
    BY DEF Fresh, PastStays, IdentityStays
  <2>. QED BY <1>1, <1>2, <1>7, <2>1 DEF IdentityInv, DepthInv, PastStays, IdentityStays
<1>9. WhoseInv'
  <2>1. Called(own.family)' = Called(own.family)
    BY CalledStays
  <2>. QED BY <1>2, <2>1 DEF IdentityInv, WhoseInv, IdentityStays
<1>10. RecordInv'
  BY <1>2 DEF IdentityInv, RecordInv
<1>11. PlaceInv'
  BY <1>2 DEF IdentityInv, PlaceInv, PlaceStays, OutsideRecords, InAmended
<1>. QED
  BY <1>4, <1>5, <1>6, <1>8, <1>9, <1>10, <1>11 DEF IdentityInv

\* An element inside a message.
LEMMA InwardStep ==
  ASSUME WalkInv, IdentityInv, InMessage, NEW name \in Elements, Rank(name) > 4,
         Opens(name, Null), PastStays,
         own'.depth = own.depth, own'.id = own.id, own'.family = own.family,
         own'.container = own.container
  PROVE  /\ FileInv' /\ OwnInv' /\ NamedInv' /\ DepthInv' /\ WhoseInv'
         /\ IF audit.open = Null /\ name \in RecordElems
            THEN audit'.index = audit.index + 1 /\ audit'.record = Len(path)
            ELSE audit'.index = audit.index /\ audit'.record = audit.record
         /\ name # "Dbtr" => PlaceStays
         /\ name = "Dbtr" /\ audit.open = Null =>
              /\ audit'.open # Null /\ audit'.open.depth = Len(path)
              /\ audit'.open.index = IF audit.record = Null THEN Null ELSE audit.index
              /\ audit'.open.at =
                   (IF audit.record = Null THEN <<>>
                    ELSE SubSeq(path, audit.record + 1, Len(path))) \o <<"Dbtr">>
<1>. DEFINE n == Len(path)
<1>1. /\ path \in Seq(Elements) /\ audit \in Audits /\ past \in Pasts /\ n \in Nat
      /\ Null \in Messages
  BY Places
<1>2. FileInv /\ OwnInv /\ NamedInv /\ DepthInv /\ WhoseInv
  BY DEF IdentityInv
<1>3. /\ ~audit.awaiting /\ audit.depth # Null
      /\ own.depth \in Nat /\ own.depth + 1 \in 1 .. n
  BY <1>2, Settled
<1>4. name # "Document"
  BY Ranks
<1>5. PICK e : /\ e.tag = "start" /\ e.name = name /\ e.ident = Null
               /\ AuditElement(e)
  BY StartIsRead
<1>6. ~Opening(e) /\ ~Claiming(e.name)
  BY <1>3 DEF Opening, Claiming
<1>7. e.name \in Elements /\ e.ident \in Messages /\ e.name # "Document"
  BY <1>1, <1>4, <1>5
<1>8. /\ IdentityStays
      /\ IF audit.open = Null /\ name \in RecordElems
         THEN audit'.index = audit.index + 1 /\ audit'.record = n
         ELSE audit'.index = audit.index /\ audit'.record = audit.record
      /\ Bound(e).record = audit.record /\ Bound(e).index = audit.index
  <2>1. /\ audit'.awaiting <=> e.name = "Document"
        /\ audit'.header = audit.header
        /\ audit'.document = IF e.name = "Document" THEN e.ident ELSE audit.document
        /\ audit'.docDepth = IF e.name = "Document" THEN Len(path) ELSE audit.docDepth
        /\ audit'.depth = IF e.name = "Document" THEN Null
                          ELSE IF Opening(e) THEN Len(path)
                          ELSE IF Claiming(e.name) THEN audit.docDepth
                          ELSE audit.depth
        /\ audit'.envelope =
             IF /\ e.ident # Null /\ e.name # "Document"
                /\ audit'.depth = Null /\ audit.envelope = Null
             THEN e.ident ELSE audit.envelope
        /\ e.ident = Null /\ e.name # "Document" =>
             audit'.family =
               IF Opening(e)
               THEN Some(audit.document,
                         Some(audit.header, FamilyOfContainer(e.name)))
               ELSE audit.family
        /\ audit'.id = IF e.name = "Document" \/ Opening(e) THEN Null ELSE audit.id
        /\ IF audit.open = Null /\ e.tag = "start" /\ e.name \in RecordElems
           THEN /\ audit'.index = Bound(e).index + 1
                /\ audit'.record = Len(path)
           ELSE audit'.index = Bound(e).index /\ audit'.record = Bound(e).record
        /\ IF e.name = "Document" \/ Opening(e)
           THEN Bound(e).index = 0 /\ Bound(e).record = Null
           ELSE Bound(e).index = audit.index /\ Bound(e).record = audit.record
    BY <1>1, <1>5, <1>7, ElementFields, Zenon
  <2>2. audit' \in Audits
    BY <1>1, <1>5, <1>7, AuditElementOpen
  <2>3. audit'.awaiting = audit.awaiting
    BY <1>1, <1>3, <1>7, <2>1, <2>2 DEF Audits
  <2>. QED BY <1>5, <1>6, <1>7, <2>1, <2>3, Zenon DEF IdentityStays
<1>9. IF audit.open # Null
      THEN audit'.open = IF e.name = "AdrLine" /\ InAddress(audit)
                         THEN [audit.open EXCEPT !.lines = Append(@, 0)]
                         ELSE audit.open
      ELSE audit'.open = IF e.tag = "start" /\ e.name \in Roles
                         THEN PartyOf(e, Bound(e)) ELSE Null
  BY <1>1, <1>5, <1>7, AuditElementOpen, Zenon
<1>10. name # "Dbtr" => PlaceStays
  <2>. SUFFICES ASSUME name # "Dbtr" PROVE PlaceStays
    OBVIOUS
  <2>1. name \notin Roles
    BY PartyNames
  <2>2. CASE audit.open = Null
    BY <1>5, <1>9, <2>1, <2>2 DEF PlaceStays
  <2>3. CASE audit.open # Null
    <3>. DEFINE q == [audit.open EXCEPT !.lines = Append(@, 0)]
    <3>1. /\ q \in Parties /\ q # Null
          /\ q.depth = audit.open.depth /\ q.index = audit.open.index
          /\ q.at = audit.open.at
      BY <1>1, <2>3, LineMore DEF Audits
    <3>. HIDE DEF q
    <3>2. audit'.open = q \/ audit'.open = audit.open
      BY <1>9, <2>3 DEF q
    <3>. QED BY <2>3, <3>1, <3>2 DEF PlaceStays
  <2>. QED BY <2>2, <2>3
<1>11. name = "Dbtr" /\ audit.open = Null =>
         /\ audit'.open # Null /\ audit'.open.depth = n
         /\ audit'.open.index = IF audit.record = Null THEN Null ELSE audit.index
         /\ audit'.open.at =
              (IF audit.record = Null THEN <<>>
               ELSE SubSeq(path, audit.record + 1, n)) \o <<"Dbtr">>
  <2>. SUFFICES ASSUME name = "Dbtr", audit.open = Null
                PROVE  /\ audit'.open # Null /\ audit'.open.depth = n
                       /\ audit'.open.index =
                            IF audit.record = Null THEN Null ELSE audit.index
                       /\ audit'.open.at =
                            (IF audit.record = Null THEN <<>>
                             ELSE SubSeq(path, audit.record + 1, n)) \o <<"Dbtr">>
    OBVIOUS
  <2>1. audit'.open = PartyOf(e, Bound(e))
    BY <1>5, <1>9, PartyNames
  <2>2. Bound(e) \in Audits
    BY <1>1, <1>5, <1>7, AuditElementOpen
  <2>3. PartyOf(e, Bound(e)) \in Parties
    BY <1>1, <1>7, <2>2, PartyOfIs
  <2>4. PartyOf(e, Bound(e)) # Null
    BY <2>3, NullAssumption
  <2>5. /\ PartyOf(e, Bound(e)).depth = n
        /\ PartyOf(e, Bound(e)).index =
             IF Bound(e).record = Null THEN Null ELSE Bound(e).index
        /\ PartyOf(e, Bound(e)).at = PartyPath(Bound(e), e.name)
    BY DEF PartyOf
  <2>6. PartyPath(Bound(e), "Dbtr") =
          (IF audit.record = Null THEN <<>>
           ELSE SubSeq(path, audit.record + 1, n)) \o <<"Dbtr">>
    BY <1>8, Zenon DEF PartyPath
  <2>. HIDE DEF n
  <2>. QED BY <1>5, <1>8, <2>1, <2>4, <2>5, <2>6
<1>12. /\ path' = Append(path, name) /\ Here' = name
       /\ DOMAIN path = 1 .. n /\ DOMAIN path' = 1 .. n + 1
       /\ \A i \in 1 .. n : path'[i] = path[i]
       /\ InDocument' <=> InDocument
  <2>1. path' = Append(path, name)
    BY OpensReads
  <2>. QED BY <1>1, <1>4, <2>1, Innermost, Pushed, DocumentPushed
<1>13. /\ FirstHeaderNames' <=> FirstHeaderNames
       /\ Lost' <=> Lost
       /\ InMessage' <=> InMessage
  BY FirstHeaderStays DEF InMessage
<1>14. ~Childless /\ ~Childless'
  BY <1>2, <1>12 DEF OwnInv, Childless, PastStays
<1>15. FileInv'
  BY <1>2, <1>12, <1>13, <1>14 DEF FileInv, PastStays
<1>16. OwnInv'
  <2>1. /\ past'.messages > 0 /\ own'.depth + 1 \in DOMAIN path'
        /\ path'[own'.depth + 1] = path[own.depth + 1]
    BY <1>1, <1>2, <1>3, <1>12 DEF OwnInv, PastStays
  <2>. QED BY <1>2, <1>13, <1>14, <2>1 DEF OwnInv, PastStays
<1>17. NamedInv'
  BY <1>2, <1>3, <1>8, <1>12, <1>14 DEF NamedInv, PastStays, IdentityStays
<1>18. Claimed => Claimed'
  BY <1>1, <1>8, <1>12 DEF Claimed, PastStays, IdentityStays
<1>19. DepthInv'
  BY <1>2, <1>8, <1>13, <1>18 DEF DepthInv, PastStays, IdentityStays
<1>20. WhoseInv'
  <2>1. Called(own.family)' = Called(own.family)
    BY CalledStays
  <2>. QED BY <1>2, <1>8, <1>13, <2>1 DEF WhoseInv, IdentityStays
<1>. QED
  BY <1>8, <1>10, <1>11, <1>15, <1>16, <1>17, <1>19, <1>20

\* What a stretch of a path is.
LEMMA Stretch ==
  ASSUME NEW s \in Seq(Elements), NEW r \in Nat, NEW d \in Nat, r <= d, d <= Len(s)
  PROVE  /\ SubSeq(s, r + 1, d) \in Seq(Elements)
         /\ Len(SubSeq(s, r + 1, d)) = d - r
         /\ \A k \in 1 .. d - r : SubSeq(s, r + 1, d)[k] = s[r + k]
<1>1. \A i \in r + 1 .. d : s[i] \in Elements
  OBVIOUS
<1>2. r + 1 \in Int /\ d \in Int
  OBVIOUS
<1>. DEFINE t == SubSeq(s, r + 1, d)
<1>3. /\ t \in Seq(Elements)
      /\ Len(t) = IF r + 1 <= d THEN d - (r + 1) + 1 ELSE 0
      /\ \A k \in 1 .. d - (r + 1) + 1 : t[k] = s[r + 1 + k - 1]
  BY <1>1, <1>2, SubSeqProperties
<1>. HIDE DEF t
<1>4. Len(t) = d - r
  BY <1>3
<1>5. ASSUME NEW k \in 1 .. d - r
      PROVE  t[k] = s[r + k]
  <2>1. k \in 1 .. d - (r + 1) + 1 /\ r + 1 + k - 1 = r + k
    OBVIOUS
  <2>. QED BY <1>3, <2>1
<1>. QED BY <1>3, <1>4, <1>5 DEF t

\* A stretch of the path that both paths share.
LEMMA SameStretch ==
  ASSUME path \in Seq(Elements), path' \in Seq(Elements), NEW r \in Nat, NEW d \in Nat,
         r <= d, d + 1 <= Len(path), d + 1 <= Len(path'),
         \A i \in 1 .. d + 1 : path'[i] = path[i]
  PROVE  SubSeq(path', r + 1, d + 1) = SubSeq(path, r + 1, d + 1)
<1>. DEFINE s == SubSeq(path, r + 1, d + 1)
            t == SubSeq(path', r + 1, d + 1)
<1>1. /\ s \in Seq(Elements) /\ Len(s) = d + 1 - r
      /\ \A k \in 1 .. d + 1 - r : s[k] = path[r + k]
  <2>1. d + 1 \in Nat /\ r <= d + 1
    OBVIOUS
  <2>. QED BY <2>1, Stretch
<1>2. /\ t \in Seq(Elements) /\ Len(t) = d + 1 - r
      /\ \A k \in 1 .. d + 1 - r : t[k] = path'[r + k]
  <2>1. d + 1 \in Nat /\ r <= d + 1
    OBVIOUS
  <2>. QED BY <2>1, Stretch
<1>. HIDE DEF s, t
<1>3. \A k \in 1 .. d + 1 - r : t[k] = s[k]
  <2>. SUFFICES ASSUME NEW k \in 1 .. d + 1 - r PROVE t[k] = s[k]
    OBVIOUS
  <2>1. r + k \in 1 .. d + 1
    OBVIOUS
  <2>2. path'[r + k] = path[r + k]
    BY <2>1
  <2>. QED BY <1>1, <1>2, <2>2
<1>4. t = s
  BY <1>1, <1>2, <1>3
<1>. QED BY <1>4 DEF s, t

\* A step that leaves the party open leaves it its place.
LEMMA PlaceGoesOn ==
  ASSUME WalkInv, PlaceInv, path' \in Seq(Elements), InMessage', PlaceStays,
         own'.record = own.record, own'.records = own.records,
         own'.amended <=> own.amended,
         audit.open # Null =>
           /\ audit.open.depth + 1 <= Len(path')
           /\ \A i \in 1 .. audit.open.depth + 1 : path'[i] = path[i]
  PROVE  PlaceInv'
<1>. SUFFICES ASSUME audit'.open # Null
              PROVE  PlaceInv'
  BY DEF PlaceInv
<1>1. /\ audit.open # Null /\ audit'.open.depth = audit.open.depth
      /\ audit'.open.index = audit.open.index /\ audit'.open.at = audit.open.at
  BY DEF PlaceStays
<1>. DEFINE d == audit.open.depth
            r == own.record
<1>2. /\ path \in Seq(Elements) /\ r \in Nat \cup {Null}
      /\ d \in Nat /\ d + 1 <= Len(path)
  <2>1. path \in Seq(Elements) /\ audit \in Audits /\ own \in Owns
    BY DEF WalkInv, TypeInv
  <2>2. audit.open \in Parties
    BY <1>1, <2>1 DEF Audits
  <2>3. d + 1 \in DOMAIN path
    BY <1>1 DEF WalkInv, OpenInv
  <2>4. d \in Nat
    BY <2>2 DEF Parties
  <2>5. DOMAIN path = 1 .. Len(path) /\ Len(path) \in Nat
    BY <2>1
  <2>6. d + 1 <= Len(path)
    BY <2>3, <2>4, <2>5
  <2>. QED BY <2>1, <2>4, <2>6 DEF Owns
<1>3. /\ r # Null => r < d
      /\ ~own.amended =>
           /\ audit.open.index = IF r = Null THEN Null ELSE own.records
           /\ audit.open.at = IF r = Null THEN <<"Dbtr">>
                              ELSE SubSeq(path, r + 1, d + 1)
  BY <1>1 DEF PlaceInv
<1>4. r # Null => SubSeq(path', r + 1, d + 1) = SubSeq(path, r + 1, d + 1)
  <2>. SUFFICES ASSUME r # Null
                PROVE  SubSeq(path', r + 1, d + 1) = SubSeq(path, r + 1, d + 1)
    OBVIOUS
  <2>1. r \in Nat /\ r < d
    BY <1>2, <1>3
  <2>2. d + 1 <= Len(path') /\ \A i \in 1 .. d + 1 : path'[i] = path[i]
    BY <1>1
  <2>. HIDE DEF r, d
  <2>. QED BY <1>2, <2>1, <2>2, SameStretch
<1>5. /\ own'.record # Null => own'.record < audit'.open.depth
      /\ ~own'.amended =>
           /\ audit'.open.index = IF own'.record = Null THEN Null ELSE own'.records
           /\ audit'.open.at = IF own'.record = Null THEN <<"Dbtr">>
                ELSE SubSeq(path', own'.record + 1, audit'.open.depth + 1)
  BY <1>1, <1>3, <1>4, Zenon
<1>6. own'.amended => IF own'.record = Null THEN OutsideRecords' ELSE InAmended'
  <2>. SUFFICES ASSUME own'.amended
                PROVE  IF own'.record = Null THEN OutsideRecords' ELSE InAmended'
    OBVIOUS
  <2>1. IF r = Null THEN OutsideRecords ELSE InAmended
    BY <1>1 DEF PlaceInv
  <2>2. CASE r = Null
    BY <1>1, <2>1, <2>2 DEF OutsideRecords
  <2>3. CASE r # Null
    <3>1. r \in Nat /\ r < d
      BY <1>2, <1>3, <2>3
    <3>2. PICK q \in r .. d : audit.open.at = SubSeq(path, q + 1, d + 1)
      BY <2>1, <2>3 DEF InAmended
    <3>3. q \in Nat /\ q <= d
      BY <1>2, <3>1
    <3>4. d + 1 <= Len(path') /\ \A i \in 1 .. d + 1 : path'[i] = path[i]
      BY <1>1
    <3>. HIDE DEF r, d
    <3>5. SubSeq(path', q + 1, d + 1) = SubSeq(path, q + 1, d + 1)
      BY <1>2, <3>3, <3>4, SameStretch
    <3>6. /\ audit'.open.at = SubSeq(path', q + 1, audit'.open.depth + 1)
          /\ q \in own'.record .. audit'.open.depth
      BY <1>1, <3>2, <3>5 DEF r, d
    <3>7. audit'.open.index = Null \/ audit'.open.index = own'.records + 1
      BY <1>1, <2>1, <2>3 DEF InAmended
    <3>. QED BY <2>3, <3>6, <3>7 DEF InAmended, r
  <2>. QED BY <2>2, <2>3
<1>. QED BY <1>5, <1>6 DEF PlaceInv

\* An element inside a message that is no record and no party.
LEMMA PlainInward ==
  ASSUME WalkInv, IdentityInv, InMessage, NEW name \in Elements, Rank(name) > 4,
         name # "Dbtr", name \notin RecordElems,
         Opens(name, Null), UNCHANGED past, UNCHANGED own
  PROVE  IdentityInv'
<1>. DEFINE n == Len(path)
<1>1. PastStays
  BY DEF PastStays
<1>2. /\ FileInv' /\ OwnInv' /\ NamedInv' /\ DepthInv' /\ WhoseInv'
      /\ audit'.index = audit.index /\ audit'.record = audit.record
      /\ PlaceStays
  BY <1>1, InwardStep
<1>3. /\ path \in Seq(Elements) /\ audit \in Audits /\ own \in Owns /\ n \in Nat
  BY Places
<1>4. /\ path' \in Seq(Elements) /\ Len(path') = n + 1
      /\ \A i \in 1 .. n : path'[i] = path[i]
  BY <1>3, OpensReads, Pushed
<1>5. own.depth \in Nat
  BY <1>3 DEF Owns, InMessage
<1>6. InMessage'
  BY DEF InMessage
<1>7. RecordInv'
  <2>1. RecordInv
    BY DEF IdentityInv
  <2>2. audit.record # Null => audit.record \in own.depth + 1 .. n
    <3>1. audit.record # Null => audit.record \in own.depth + 1 .. n - 1
      BY <2>1 DEF RecordInv
    <3>. QED BY <1>3, <1>5, <3>1
  <2>. QED BY <1>2, <1>4, <1>6, <2>1, <2>2 DEF RecordInv
<1>8. PlaceInv'
  <2>1. audit.open # Null =>
          /\ audit.open.depth + 1 <= Len(path')
          /\ \A i \in 1 .. audit.open.depth + 1 : path'[i] = path[i]
    <3>. SUFFICES ASSUME audit.open # Null
                  PROVE  /\ audit.open.depth + 1 <= Len(path')
                         /\ \A i \in 1 .. audit.open.depth + 1 : path'[i] = path[i]
      OBVIOUS
    <3>1. path # <<>>
      <4>1. audit.open.depth + 1 \in DOMAIN path
        BY DEF WalkInv, OpenInv
      <4>. QED BY <4>1
    <3>2. audit.open.depth \in 0 .. n - 1
      BY <3>1, PartyPlace
    <3>. QED BY <1>3, <1>4, <3>2
  <2>2. PlaceInv
    BY DEF IdentityInv
  <2>. QED BY <1>2, <1>4, <1>6, <2>1, <2>2, PlaceGoesOn
<1>. QED BY <1>2, <1>7, <1>8 DEF IdentityInv

\* Where the cursor stands when content begins.
LEMMA ContentPlace ==
  ASSUME WalkInv, OwnInv
  PROVE  /\ InContent => path # <<>> /\ Rank(Here) \in 0 .. 4 /\ audit.open = Null
         /\ \A name \in Elements : Here = name /\ Rank(name) > 4 => InMessage
         /\ Here \in RecordElems => Rank(Here) \in 5 .. 6 /\ InMessage /\ audit.open = Null
<1>1. path = <<>> => Here = Null
  BY Places
<1>2. \A name \in Elements : name # Null
  BY NullAssumption
<1>3. ASSUME InContent
      PROVE  path # <<>> /\ Rank(Here) \in 0 .. 4 /\ audit.open = Null
  <2>1. Here \in Elements
    BY <1>3, FixedNames DEF InContent, Frame
  <2>2. path # <<>>
    BY <1>1, <1>2, <2>1
  <2>3. Rank(Here) \in 3 .. 4
    BY <1>3, Ranks DEF InContent
  <2>. QED BY <2>2, <2>3, PartyPlace
<1>4. ASSUME NEW name \in Elements, Here = name, Rank(name) > 4
      PROVE  InMessage
  <2>1. path # <<>>
    BY <1>1, <1>2, <1>4
  <2>2. Rank(Here) > 3
    BY <1>4, RankTells
  <2>. QED BY <2>1, <2>2, InOne
<1>5. ASSUME Here \in RecordElems
      PROVE  Rank(Here) \in 5 .. 6 /\ InMessage /\ audit.open = Null
  <2>1. Here \in Elements /\ Rank(Here) \in 5 .. 6
    BY <1>5, FixedNames, Ranks
  <2>2. InMessage
    BY <1>4, <2>1
  <2>3. path # <<>>
    BY <1>1, <1>2, <2>1
  <2>. QED BY <2>1, <2>2, <2>3, PartyPlace
<1>. QED BY <1>3, <1>4, <1>5

\* A group header, the id in it, an address and what it holds.
LEMMA PlainContent ==
  ASSUME WalkInv, IdentityInv,
         GroupHeaderStarts \/ MessageIdStarts \/ AddressStarts \/ LeafStarts
  PROVE  IdentityInv'
<1>1. OwnInv
  BY DEF IdentityInv
<1>2. /\ {"GrpHdr", "MsgId", "Dbtr", "PstlAdr", "CtctDtls"} \cup Leaf \subseteq Elements
      /\ ({"GrpHdr", "MsgId", "PstlAdr", "CtctDtls"} \cup Leaf) \cap RecordElems = {}
      /\ "Dbtr" \notin {"GrpHdr", "MsgId", "PstlAdr", "CtctDtls"} \cup Leaf
  BY FixedNames DEF Leaf, RecordElems
<1>3. /\ Rank("GrpHdr") = 5 /\ Rank("MsgId") = 6 /\ Rank("Dbtr") = 7
      /\ Rank("PstlAdr") = 8 /\ Rank("CtctDtls") = 8 /\ \A n \in Leaf : Rank(n) = 9
  BY Ranks
<1>4. /\ InContent => InMessage
      /\ \A name \in Elements : Here = name /\ Rank(name) > 4 => InMessage
  BY <1>1, ContentPlace DEF InContent
<1>5. CASE GroupHeaderStarts
  <2>1. InMessage /\ Opens("GrpHdr", Null) /\ UNCHANGED <<past, own>>
    BY <1>4, <1>5 DEF GroupHeaderStarts
  <2>. QED BY <1>2, <1>3, <2>1, PlainInward
<1>6. CASE MessageIdStarts
  <2>1. Here = "GrpHdr" /\ Opens("MsgId", Null) /\ UNCHANGED <<past, own>>
    BY <1>6 DEF MessageIdStarts
  <2>2. InMessage
    BY <1>2, <1>3, <1>4, <2>1
  <2>. QED BY <1>2, <1>3, <2>1, <2>2, PlainInward
<1>7. CASE AddressStarts
  <2>1. /\ Here = "Dbtr" /\ UNCHANGED <<past, own>>
        /\ \E name \in {"PstlAdr", "CtctDtls"} : Opens(name, Null)
    BY <1>7 DEF AddressStarts
  <2>2. PICK name \in {"PstlAdr", "CtctDtls"} : Opens(name, Null)
    BY <2>1
  <2>3. InMessage
    BY <1>2, <1>3, <1>4, <2>1
  <2>4. /\ name \in Elements /\ Rank(name) > 4 /\ name # "Dbtr"
        /\ name \notin RecordElems
    BY <1>2, <1>3
  <2>. QED BY <2>1, <2>2, <2>3, <2>4, PlainInward
<1>8. CASE LeafStarts
  <2>1. /\ Here = "PstlAdr" \/ Here = "CtctDtls"
        /\ UNCHANGED <<past, own>>
        /\ \E name \in Leaf : Opens(name, Null)
    BY <1>8 DEF LeafStarts, Leaf
  <2>2. PICK name \in Leaf : Opens(name, Null)
    BY <2>1
  <2>3. InMessage
    BY <1>2, <1>3, <1>4, <2>1
  <2>4. /\ name \in Elements /\ Rank(name) > 4 /\ name # "Dbtr"
        /\ name \notin RecordElems
    BY <1>2, <1>3
  <2>. QED BY <2>1, <2>2, <2>3, <2>4, PlainInward
<1>. QED BY <1>5, <1>6, <1>7, <1>8

\* A record of a message, and a block of a record.
LEMMA RecordContent ==
  ASSUME WalkInv, IdentityInv, WithinInv, RecordStarts \/ BlockStarts
  PROVE  IdentityInv'
<1>. DEFINE n == Len(path)
<1>1. OwnInv /\ RecordInv
  BY DEF IdentityInv
<1>2. /\ path \in Seq(Elements) /\ past \in Pasts /\ own \in Owns
      /\ audit \in Audits /\ n \in Nat
  BY Places
<1>3. ASSUME NEW name \in Elements, Rank(name) > 4, name # "Dbtr",
             Opens(name, Null), InMessage, audit.open = Null,
             PastStays, own' \in Owns, own'.depth = own.depth, own'.id = own.id,
             own'.family = own.family, own'.container = own.container,
             \/ /\ name \in RecordElems /\ own'.amended = own.amended
                /\ own'.records = own.records + 1 /\ own'.record = n
             \/ /\ name \in RecordElems /\ ~own.amended /\ own'.amended
                /\ own'.records = own.records /\ own'.record = own.record
                /\ own.record # Null /\ own.record <= n
             \/ name \notin RecordElems /\ own'.record = own.record
                /\ own'.records = own.records /\ own'.amended = own.amended
      PROVE  IdentityInv'
  <2>1. /\ FileInv' /\ OwnInv' /\ NamedInv' /\ DepthInv' /\ WhoseInv'
        /\ IF name \in RecordElems
           THEN audit'.index = audit.index + 1 /\ audit'.record = n
           ELSE audit'.index = audit.index /\ audit'.record = audit.record
        /\ PlaceStays
    BY <1>3, InwardStep
  <2>2. Len(path') = n + 1
    BY <1>2, <1>3, OpensReads, Pushed
  <2>3. own.depth \in Nat /\ own.depth + 1 \in 1 .. n
    BY <1>1, <1>3, Settled DEF IdentityInv
  <2>4. InMessage'
    BY <1>3 DEF InMessage
  <2>5. RecordInv'
    <3>1. ~own'.amended => audit'.record = own'.record
      BY <1>1, <1>3, <2>1 DEF RecordInv
    <3>2. audit'.record # Null => audit'.record \in own'.depth + 1 .. Len(path') - 1
      <4>1. CASE name \in RecordElems
        <5>1. n \in own.depth + 1 .. n + 1 - 1
          BY <1>2, <2>3
        <5>. QED BY <1>3, <2>1, <2>2, <4>1, <5>1
      <4>2. CASE name \notin RecordElems
        <5>1. audit.record # Null => audit.record \in own.depth + 1 .. n - 1
          BY <1>1 DEF RecordInv
        <5>2. audit.record # Null => audit.record \in own.depth + 1 .. n + 1 - 1
          BY <1>2, <2>3, <5>1
        <5>. QED BY <1>3, <2>1, <2>2, <4>2, <5>2
      <4>. QED BY <4>1, <4>2
    <3>3. audit'.index = own'.records + IF own'.amended THEN 1 ELSE 0
      <4>1. audit.index = own.records + IF own.amended THEN 1 ELSE 0
        BY <1>1, <1>3 DEF RecordInv
      <4>2. own.records \in Nat /\ own.amended \in BOOLEAN
        BY <1>2 DEF Owns
      <4>3. own'.amended \in BOOLEAN
        BY <1>3 DEF Owns
      <4>. QED BY <1>3, <2>1, <4>1, <4>2, <4>3
    <3>4. audit'.record # Null => own'.record # Null /\ own'.record <= audit'.record
      <4>1. audit.record # Null => own.record # Null /\ own.record <= audit.record
        BY <1>1 DEF RecordInv
      <4>2. n # Null /\ n <= n
        BY <1>2, NullAssumption
      <4>. QED BY <1>3, <2>1, <4>1, <4>2
    <3>. QED BY <2>4, <3>1, <3>2, <3>3, <3>4 DEF RecordInv
  <2>6. PlaceInv'
    BY <1>3, <2>1 DEF PlaceStays, PlaceInv
  <2>. QED BY <2>1, <2>5, <2>6 DEF IdentityInv
<1>4. CASE RecordStarts
  <2>1. /\ InContent /\ Opens(RecordName, Null)
        /\ own' = [own EXCEPT !.records = @ + 1, !.record = n]
        /\ past' = [past EXCEPT !.records = @ + 1]
    BY <1>4 DEF RecordStarts
  <2>2. InMessage /\ audit.open = Null
    BY <1>1, <2>1, ContentPlace DEF InContent
  <2>3. RecordName \in RecordElems /\ RecordName \in Elements /\ Rank(RecordName) > 4
        /\ RecordName # "Dbtr"
    BY RecordNameIs, FixedNames, Ranks DEF RecordElems
  <2>4. PastStays
    BY <1>2, <2>1 DEF PastStays, Pasts
  <2>5. /\ own' \in Owns /\ own'.depth = own.depth /\ own'.id = own.id
        /\ own'.family = own.family /\ own'.amended = own.amended
        /\ own'.container = own.container
        /\ own'.records = own.records + 1 /\ own'.record = n
    <3>1. own.records + 1 \in Nat
      BY <1>2 DEF Owns
    <3>. HIDE DEF n
    <3>. QED BY <1>2, <2>1, <3>1 DEF Owns
  <2>. HIDE DEF n
  <2>. QED BY <1>3, <2>1, <2>2, <2>3, <2>4, <2>5
<1>5. CASE BlockStarts
  <2>1. /\ Here \in RecordElems /\ UNCHANGED past
        /\ \E name \in {"Mndt", "Rcpt"} :
             /\ name = "Mndt" => ~own.amended
             /\ Opens(name, Null)
             /\ own' = [own EXCEPT !.amended = @ \/ name = "Mndt"]
    BY <1>5 DEF BlockStarts
  <2>2. PICK name \in {"Mndt", "Rcpt"} :
             /\ name = "Mndt" => ~own.amended
             /\ Opens(name, Null)
             /\ own' = [own EXCEPT !.amended = @ \/ name = "Mndt"]
    BY <2>1
  <2>3. InMessage /\ audit.open = Null
    BY <1>1, <2>1, ContentPlace
  <2>4. PastStays
    BY <2>1 DEF PastStays
  <2>5. name \in Elements /\ Rank(name) > 4 /\ name # "Dbtr"
    BY FixedNames, Ranks
  <2>6. /\ own' \in Owns /\ own'.depth = own.depth /\ own'.id = own.id
        /\ own'.family = own.family /\ own'.record = own.record
        /\ own'.container = own.container /\ own'.records = own.records
        /\ own'.amended = (own.amended \/ name = "Mndt")
    BY <1>2, <2>2 DEF Owns
  <2>7. "Mndt" \in RecordElems /\ "Rcpt" \notin RecordElems
    BY DEF RecordElems
  <2>8. CASE name = "Mndt"
    <3>1. ~own.amended /\ own'.amended
      BY <2>2, <2>6, <2>8
    <3>2. own.record # Null /\ own.record <= n
      <4>1. path # <<>> /\ n \in DOMAIN path /\ path[n] = Here
        <5>1. Here # Null
          BY <2>1, FixedNames, Places
        <5>2. path # <<>>
          BY <5>1, Places
        <5>. QED BY <1>2, <5>2, Innermost
      <4>2. own.record # Null /\ own.record < n
        BY <2>1, <4>1 DEF WithinInv
      <4>. QED BY <1>2, <4>2 DEF Owns
    <3>. QED BY <1>3, <2>2, <2>3, <2>4, <2>5, <2>6, <2>7, <2>8, <3>1, <3>2
  <2>9. CASE name = "Rcpt"
    <3>1. own'.amended = own.amended
      BY <1>2, <2>6, <2>9 DEF Owns
    <3>. QED BY <1>3, <2>2, <2>3, <2>4, <2>5, <2>6, <2>7, <2>9, <3>1
  <2>. QED BY <2>2, <2>8, <2>9
<1>. QED BY <1>4, <1>5

\* The way to a party, from its record on.
LEMMA WayTo ==
  ASSUME path \in Seq(Elements), NEW name \in Elements, NEW r \in Nat,
         r <= Len(path), path' = Append(path, name)
  PROVE  SubSeq(path', r + 1, Len(path) + 1) =
           SubSeq(path, r + 1, Len(path)) \o <<name>>
<1>. DEFINE n == Len(path)
            s == SubSeq(path, r + 1, n)
            t == SubSeq(path', r + 1, n + 1)
            u == s \o <<name>>
<1>1. /\ n \in Nat /\ path' \in Seq(Elements) /\ Len(path') = n + 1
      /\ path'[n + 1] = name /\ \A i \in 1 .. n : path'[i] = path[i]
  BY Innermost, Pushed
<1>2. /\ s \in Seq(Elements) /\ Len(s) = n - r
      /\ \A k \in 1 .. n - r : s[k] = path[r + k]
  <2>1. n \in Nat /\ r <= n /\ n <= Len(path)
    BY <1>1
  <2>. QED BY <2>1, Stretch
<1>3. /\ t \in Seq(Elements) /\ Len(t) = n + 1 - r
      /\ \A k \in 1 .. n + 1 - r : t[k] = path'[r + k]
  <2>1. n + 1 \in Nat /\ r <= n + 1 /\ n + 1 <= Len(path')
    BY <1>1
  <2>. QED BY <1>1, <2>1, Stretch
<1>. HIDE DEF s, t
<1>4. /\ u \in Seq(Elements) /\ Len(u) = n - r + 1
      /\ \A k \in 1 .. n - r : u[k] = s[k]
      /\ u[n - r + 1] = name
  <2>1. <<name>> \in Seq(Elements) /\ Len(<<name>>) = 1 /\ <<name>>[1] = name
    OBVIOUS
  <2>2. /\ u \in Seq(Elements) /\ Len(u) = Len(s) + Len(<<name>>)
        /\ \A k \in 1 .. Len(s) + Len(<<name>>) :
             u[k] = IF k <= Len(s) THEN s[k] ELSE <<name>>[k - Len(s)]
    BY <1>2, <2>1, ConcatProperties
  <2>3. n - r \in Nat
    BY <1>1
  <2>. DEFINE v == <<name>>
  <2>4. v[1] = name /\ Len(v) = 1
    BY <2>1
  <2>. HIDE DEF u, v, n
  <2>5. /\ Len(u) = n - r + 1
        /\ \A k \in 1 .. n - r + 1 : u[k] = IF k <= n - r THEN s[k] ELSE v[k - (n - r)]
    BY <1>2, <2>2, <2>4 DEF v
  <2>6. u[n - r + 1] = v[1]
    <3>. DEFINE m == n - r
                last == m + 1
    <3>1. last \in 1 .. last /\ ~(last <= m) /\ last - m = 1
      BY <2>3
    <3>2. \A k \in 1 .. last : u[k] = IF k <= m THEN s[k] ELSE v[k - m]
      BY <2>5
    <3>3. u[last] = v[1]
      <4>. HIDE DEF m, last
      <4>. QED BY <3>1, <3>2
    <3>. QED BY <3>3
  <2>. QED BY <2>2, <2>3, <2>4, <2>5, <2>6
<1>. HIDE DEF u
<1>5. \A k \in 1 .. n + 1 - r : t[k] = u[k]
  <2>. SUFFICES ASSUME NEW k \in 1 .. n + 1 - r PROVE t[k] = u[k]
    OBVIOUS
  <2>1. CASE k = n + 1 - r
    <3>1. r + k = n + 1 /\ k = n - r + 1
      BY <1>1, <2>1
    <3>. QED BY <1>1, <1>3, <1>4, <3>1
  <2>2. CASE k # n + 1 - r
    <3>1. k \in 1 .. n - r /\ r + k \in 1 .. n
      BY <1>1, <2>2
    <3>. QED BY <1>1, <1>2, <1>3, <1>4, <3>1
  <2>. QED BY <2>1, <2>2
<1>6. t = u
  <2>1. Len(t) = Len(u)
    BY <1>1, <1>3, <1>4
  <2>. QED BY <1>1, <1>3, <1>4, <1>5, <2>1
<1>. QED BY <1>6 DEF s, t, u

\* A party begins where its record is.
LEMMA PartyContent ==
  ASSUME WalkInv, IdentityInv, PartyStarts
  PROVE  IdentityInv'
<1>. DEFINE n == Len(path)
<1>1. OwnInv /\ RecordInv
  BY DEF IdentityInv
<1>2. /\ path \in Seq(Elements) /\ past \in Pasts /\ own \in Owns
      /\ audit \in Audits /\ n \in Nat
  BY Places
<1>3. /\ InContent \/ own.record # Null
      /\ ~InParty /\ Opens("Dbtr", Null) /\ UNCHANGED past
      /\ own' = [own EXCEPT !.parties = @ + 1]
  BY DEF PartyStarts
<1>4. InMessage
  BY <1>1, <1>3 DEF InContent, OwnInv, NoMessage
<1>5. audit.open = Null
  <2>1. \A i \in DOMAIN path : path[i] # "Dbtr"
    BY <1>3 DEF InParty, Roles
  <2>. QED BY <2>1 DEF WalkInv, OpenInv
<1>6. /\ own'.depth = own.depth /\ own'.id = own.id /\ own'.family = own.family
      /\ own'.record = own.record /\ own'.records = own.records
      /\ own'.amended = own.amended /\ own'.container = own.container
  BY <1>2, <1>3 DEF Owns
<1>7. /\ "Dbtr" \in Elements /\ Rank("Dbtr") > 4 /\ "Dbtr" \notin RecordElems
  BY FixedNames, Ranks DEF RecordElems
<1>8. PastStays
  BY <1>3 DEF PastStays
<1>9. /\ FileInv' /\ OwnInv' /\ NamedInv' /\ DepthInv' /\ WhoseInv'
      /\ audit'.index = audit.index /\ audit'.record = audit.record
      /\ audit'.open # Null /\ audit'.open.depth = n
      /\ audit'.open.index = IF audit.record = Null THEN Null ELSE audit.index
      /\ audit'.open.at =
           (IF audit.record = Null THEN <<>>
            ELSE SubSeq(path, audit.record + 1, n)) \o <<"Dbtr">>
  <2>. HIDE DEF n
  <2>1. /\ FileInv' /\ OwnInv' /\ NamedInv' /\ DepthInv' /\ WhoseInv'
        /\ IF audit.open = Null /\ "Dbtr" \in RecordElems
           THEN audit'.index = audit.index + 1 /\ audit'.record = Len(path)
           ELSE audit'.index = audit.index /\ audit'.record = audit.record
        /\ "Dbtr" = "Dbtr" /\ audit.open = Null =>
             /\ audit'.open # Null /\ audit'.open.depth = Len(path)
             /\ audit'.open.index = IF audit.record = Null THEN Null ELSE audit.index
             /\ audit'.open.at =
                  (IF audit.record = Null THEN <<>>
                   ELSE SubSeq(path, audit.record + 1, Len(path))) \o <<"Dbtr">>
    BY <1>3, <1>4, <1>6, <1>7, <1>8, InwardStep
  <2>. QED BY <1>5, <1>7, <2>1 DEF n
<1>10. /\ path' = Append(path, "Dbtr") /\ Len(path') = n + 1
  BY <1>2, <1>3, <1>7, OpensReads, Pushed
<1>11. InMessage' /\ own.depth \in Nat /\ own.depth + 1 \in 1 .. n
  BY <1>4, <1>6, Settled DEF InMessage, IdentityInv
<1>12. RecordInv'
  <2>1. audit.record # Null => audit.record \in own.depth + 1 .. n + 1 - 1
    <3>1. audit.record # Null => audit.record \in own.depth + 1 .. n - 1
      BY <1>1 DEF RecordInv
    <3>. QED BY <1>2, <1>11, <3>1
  <2>. QED BY <1>1, <1>4, <1>6, <1>9, <1>10, <1>11, <2>1 DEF RecordInv
<1>13. PlaceInv'
  <2>. DEFINE r == own.record
  <2>1. r \in Nat \cup {Null} /\ r # Null => r < n
    BY <1>2 DEF WalkInv, Owns
  <2>2. r \in Nat \cup {Null}
    BY <1>2 DEF Owns
  <2>3. ~own.amended => audit.record = r /\ audit.index = own.records
    <3>1. own.records + 0 = own.records
      BY <1>2 DEF Owns
    <3>. QED BY <1>1, <1>4, <3>1 DEF RecordInv
  <2>4. ~own.amended => audit'.open.index = IF r = Null THEN Null ELSE own.records
    BY <1>9, <2>3
  <2>5. ~own.amended => audit'.open.at = IF r = Null THEN <<"Dbtr">>
                                         ELSE SubSeq(path', r + 1, n + 1)
    <3>. SUFFICES ASSUME ~own.amended
                  PROVE  audit'.open.at = IF r = Null THEN <<"Dbtr">>
                                          ELSE SubSeq(path', r + 1, n + 1)
      OBVIOUS
    <3>1. audit'.open.at = (IF r = Null THEN <<>> ELSE SubSeq(path, r + 1, n))
                           \o <<"Dbtr">>
      BY <1>9, <2>3
    <3>2. CASE r = Null
      <4>1. <<>> \o <<"Dbtr">> = <<"Dbtr">>
        OBVIOUS
      <4>. QED BY <3>1, <3>2, <4>1
    <3>3. CASE r # Null
      <4>1. r \in Nat /\ r <= Len(path)
        BY <1>2, <2>1, <2>2, <3>3
      <4>. HIDE DEF r
      <4>2. SubSeq(path', r + 1, n + 1) = SubSeq(path, r + 1, n) \o <<"Dbtr">>
        BY <1>2, <1>7, <1>10, <4>1, WayTo
      <4>. QED BY <3>1, <3>3, <4>2
    <3>. QED BY <3>2, <3>3
  <2>. HIDE DEF n
  <2>6. /\ own'.record # Null => own'.record < audit'.open.depth
        /\ ~own'.amended =>
             /\ audit'.open.index = IF own'.record = Null THEN Null ELSE own'.records
             /\ audit'.open.at = IF own'.record = Null THEN <<"Dbtr">>
                  ELSE SubSeq(path', own'.record + 1, audit'.open.depth + 1)
    BY <1>6, <1>9, <2>1, <2>2, <2>4, <2>5, Zenon
  <2>7. own'.amended => IF own'.record = Null THEN OutsideRecords' ELSE InAmended'
    <3>. DEFINE a == audit.record
    <3>1. a \in Nat \cup {Null} /\ (a # Null => a < n /\ r # Null /\ r <= a)
      <4>1. a \in Nat \cup {Null}
        BY <1>2 DEF Audits
      <4>2. a # Null => a \in own.depth + 1 .. n - 1 /\ r # Null /\ r <= a
        BY <1>1 DEF RecordInv, n
      <4>. QED BY <1>2, <1>11, <4>1, <4>2
    <3>2. /\ audit'.open.index = IF a = Null THEN Null ELSE audit.index
          /\ audit'.open.at = (IF a = Null THEN <<>> ELSE SubSeq(path, a + 1, n))
                              \o <<"Dbtr">>
      BY <1>9
    <3>. HIDE DEF a, r
    <3>3. CASE own'.record = Null
      <4>1. a = Null
        BY <1>6, <3>1, <3>3 DEF r
      <4>2. <<>> \o <<"Dbtr">> = <<"Dbtr">>
        OBVIOUS
      <4>. QED BY <3>2, <3>3, <4>1, <4>2 DEF OutsideRecords
    <3>4. ASSUME own'.record # Null, own'.amended
          PROVE  InAmended'
      <4>. DEFINE q == IF a = Null THEN n ELSE a
      <4>1. r \in Nat /\ r < n
        BY <1>6, <2>1, <2>2, <3>4 DEF r
      <4>2. q \in Nat /\ q <= n /\ q \in r .. n
        BY <1>2, <3>1, <4>1
      <4>3. (IF a = Null THEN <<>> ELSE SubSeq(path, a + 1, n)) = SubSeq(path, q + 1, n)
        <5>1. SubSeq(path, n + 1, n) = <<>>
          BY <1>2, SubSeqEmpty
        <5>. QED BY <5>1
      <4>. HIDE DEF q
      <4>4. SubSeq(path', q + 1, n + 1) = SubSeq(path, q + 1, n) \o <<"Dbtr">>
        BY <1>2, <1>7, <1>10, <4>2, WayTo DEF n
      <4>5. audit'.open.at = SubSeq(path', q + 1, audit'.open.depth + 1)
        BY <1>9, <3>2, <4>3, <4>4
      <4>6. q \in own'.record .. audit'.open.depth
        BY <1>6, <1>9, <4>2 DEF r
      <4>7. audit.index = own.records + 1
        BY <1>1, <1>4, <1>6, <3>4 DEF RecordInv
      <4>8. audit'.open.index = Null \/ audit'.open.index = own'.records + 1
        BY <1>6, <3>2, <4>7
      <4>. QED BY <4>5, <4>6, <4>8 DEF InAmended
    <3>. QED BY <3>3, <3>4
  <2>. QED BY <1>11, <2>6, <2>7 DEF PlaceInv
<1>. QED BY <1>9, <1>12, <1>13 DEF IdentityInv

-----------------------------------------------------------------------------
(* Steps that stay where they are.                                         *)

\* The end of the input, and a text that is not sound.
LEMMA StopsStill ==
  ASSUME WalkInv, IdentityInv, TextIsUnsound \/ InputEnds
  PROVE  IdentityInv'
<1>1. /\ Reading /\ UNCHANGED <<path, past, own>>
      /\ \E e : /\ (e.tag = "text" /\ e.sound = FALSE) \/ e.tag = "eof"
                /\ AuditStep(e)
  <2>1. CASE TextIsUnsound
    <3>. DEFINE e == [Text(1) EXCEPT !.sound = FALSE]
    <3>1. e.tag = "text" /\ e.sound = FALSE
      BY DEF Text, Event
    <3>2. Reads(e) /\ UNCHANGED <<path, past, own>>
      BY <2>1 DEF TextIsUnsound
    <3>. HIDE DEF e
    <3>. QED BY <3>1, <3>2 DEF Reads
  <2>2. CASE InputEnds
    <3>. DEFINE e == Event("eof", Null)
    <3>1. e.tag = "eof"
      BY DEF Event
    <3>2. Reads(e) /\ UNCHANGED <<path, past, own>>
      BY <2>2 DEF InputEnds
    <3>. HIDE DEF e
    <3>. QED BY <3>1, <3>2 DEF Reads
  <2>. QED BY <2>1, <2>2
<1>2. PICK e : /\ (e.tag = "text" /\ e.sound = FALSE) \/ e.tag = "eof"
               /\ AuditStep(e)
  BY <1>1
<1>3. (e.tag = "text" /\ ~e.sound) \/ e.tag = "eof"
  BY <1>2
<1>4. audit \in Audits /\ audit.done = "reading"
  BY <1>1 DEF WalkInv, TypeInv
<1>5. /\ TextKeeps /\ audit'.header = audit.header /\ audit'.id = audit.id
      /\ audit'.open = audit.open
  BY <1>2, <1>3, <1>4, AuditStops
<1>6. IdentityStays /\ PlaceStays /\ PastStays
  BY <1>1, <1>5 DEF TextKeeps, IdentityStays, PlaceStays, PastStays
<1>. QED BY <1>1, <1>5, <1>6, StillStep DEF TextKeeps

\* A text of an address.
LEMMA LeafStill ==
  ASSUME WalkInv, IdentityInv, LeafSaid
  PROVE  IdentityInv'
<1>1. Here \in Leaf /\ UNCHANGED <<past, own>>
  BY DEF LeafSaid, Leaf
<1>2. PICK n \in {1, LineChars} : Says(Text(n))
  BY DEF LeafSaid
<1>3. /\ UNCHANGED path
      /\ \E e : /\ e.tag = "text" /\ e.value = n /\ e.sound = TRUE /\ AuditStep(e)
  BY <1>2, SaysReads
<1>4. PICK e : /\ e.tag = "text" /\ e.value = n /\ e.sound = TRUE /\ AuditStep(e)
  BY <1>3
<1>5. audit \in Audits /\ audit.done = "reading"
  BY <1>2, SaysReads DEF WalkInv, TypeInv
<1>6. path # <<>> /\ audit.open # Null
  <2>1. Here \in Elements /\ Rank(Here) = 9
    BY <1>1, FixedNames, Ranks
  <2>2. path # <<>>
    BY <2>1, Places
  <2>. QED BY <2>1, <2>2, PartyPlace
<1>7. AuditText(e) /\ e.value \in Nat
  <2>1. n \in Nat
    BY FileAssumption
  <2>. QED BY <1>4, <1>5, <2>1 DEF AuditStep
<1>8. /\ TextKeeps /\ audit'.header = audit.header /\ audit'.id = audit.id
      /\ audit'.open # Null /\ audit'.open.depth = audit.open.depth
      /\ audit'.open.index = audit.open.index /\ audit'.open.at = audit.open.at
  BY <1>4, <1>5, <1>6, <1>7, AuditSays
<1>9. IdentityStays /\ PlaceStays /\ PastStays
  BY <1>1, <1>6, <1>8 DEF TextKeeps, IdentityStays, PlaceStays, PastStays
<1>. QED BY <1>1, <1>3, <1>8, <1>9, StillStep DEF TextKeeps

\* An element that is empty, in a message.
LEMMA EmptyStill ==
  ASSUME WalkInv, IdentityInv, RecordIsEmpty \/ LineIsEmpty
  PROVE  IdentityInv'
<1>1. PICK name \in Elements \ {"Document"} :
        Reads(Event("empty", name)) /\ UNCHANGED <<path, past, own>>
  <2>1. CASE RecordIsEmpty
    <3>1. RecordName \in RecordElems
      BY RecordNameIs
    <3>2. RecordName \in Elements \ {"Document"}
      BY <3>1, FixedNames, Ranks DEF RecordElems
    <3>. QED BY <2>1, <3>2 DEF RecordIsEmpty
  <2>2. CASE LineIsEmpty
    <3>1. "AdrLine" \in Elements \ {"Document"}
      BY FixedNames DEF Leaf
    <3>. QED BY <2>2, <3>1 DEF LineIsEmpty
  <2>. QED BY <2>1, <2>2
<1>2. InMessage
  <2>1. OwnInv
    BY DEF IdentityInv
  <2>2. CASE RecordIsEmpty
    BY <2>2 DEF RecordIsEmpty, InContent
  <2>3. CASE LineIsEmpty
    <3>1. Here = "PstlAdr" /\ "PstlAdr" \in Elements /\ Rank("PstlAdr") > 4
      BY <2>3, FixedNames, Ranks DEF LineIsEmpty
    <3>. QED BY <2>1, <3>1, ContentPlace
  <2>. QED BY <2>2, <2>3
<1>3. /\ ~audit.awaiting /\ audit.depth # Null
  BY <1>2, Settled DEF IdentityInv
<1>4. /\ path \in Seq(Elements) /\ audit \in Audits /\ Null \in Messages
  BY Places
<1>5. PICK e : /\ e.tag = "empty" /\ e.name = name /\ e.ident = Null /\ AuditElement(e)
  <2>. DEFINE e == Event("empty", name)
  <2>1. e.tag = "empty" /\ e.name = name /\ e.ident = Null
    BY DEF Event
  <2>2. Reads(e)
    BY <1>1
  <2>. HIDE DEF e
  <2>3. audit.done = "reading"
    BY <2>2 DEF WalkInv, Reads
  <2>. QED BY <2>1, <2>2, <2>3 DEF Reads, AuditStep
<1>6. ~Opening(e) /\ ~Claiming(e.name)
  BY <1>3 DEF Opening, Claiming
<1>7. e.name \in Elements /\ e.ident \in Messages /\ e.name # "Document"
      /\ e.tag # "start"
  BY <1>1, <1>4, <1>5
<1>8. /\ IdentityStays
      /\ audit'.index = audit.index /\ audit'.record = audit.record
  <2>1. /\ audit'.awaiting <=> e.name = "Document"
        /\ audit'.header = audit.header
        /\ audit'.document = IF e.name = "Document" THEN e.ident ELSE audit.document
        /\ audit'.docDepth = IF e.name = "Document" THEN Len(path) ELSE audit.docDepth
        /\ audit'.depth = IF e.name = "Document" THEN Null
                          ELSE IF Opening(e) THEN Len(path)
                          ELSE IF Claiming(e.name) THEN audit.docDepth
                          ELSE audit.depth
        /\ audit'.envelope =
             IF /\ e.ident # Null /\ e.name # "Document"
                /\ audit'.depth = Null /\ audit.envelope = Null
             THEN e.ident ELSE audit.envelope
        /\ e.ident = Null /\ e.name # "Document" =>
             audit'.family =
               IF Opening(e)
               THEN Some(audit.document,
                         Some(audit.header, FamilyOfContainer(e.name)))
               ELSE audit.family
        /\ audit'.id = IF e.name = "Document" \/ Opening(e) THEN Null ELSE audit.id
        /\ IF audit.open = Null /\ e.tag = "start" /\ e.name \in RecordElems
           THEN /\ audit'.index = Bound(e).index + 1
                /\ audit'.record = Len(path)
           ELSE audit'.index = Bound(e).index /\ audit'.record = Bound(e).record
        /\ IF e.name = "Document" \/ Opening(e)
           THEN Bound(e).index = 0 /\ Bound(e).record = Null
           ELSE Bound(e).index = audit.index /\ Bound(e).record = audit.record
    BY <1>4, <1>5, <1>7, ElementFields, Zenon
  <2>2. audit' \in Audits
    BY <1>4, <1>5, <1>7, AuditElementOpen
  <2>3. audit'.awaiting = audit.awaiting
    BY <1>3, <1>4, <1>7, <2>1, <2>2 DEF Audits
  <2>. QED BY <1>5, <1>6, <1>7, <2>1, <2>3, Zenon DEF IdentityStays
<1>9. PlaceStays
  <2>1. IF audit.open # Null
        THEN audit'.open = IF e.name = "AdrLine" /\ InAddress(audit)
                           THEN [audit.open EXCEPT !.lines = Append(@, 0)]
                           ELSE audit.open
        ELSE audit'.open = IF e.tag = "start" /\ e.name \in Roles
                           THEN PartyOf(e, Bound(e)) ELSE Null
    BY <1>4, <1>5, <1>7, AuditElementOpen, Zenon
  <2>2. CASE audit.open = Null
    BY <1>7, <2>1, <2>2 DEF PlaceStays
  <2>3. CASE audit.open # Null
    <3>. DEFINE q == [audit.open EXCEPT !.lines = Append(@, 0)]
    <3>1. /\ q \in Parties /\ q # Null
          /\ q.depth = audit.open.depth /\ q.index = audit.open.index
          /\ q.at = audit.open.at
      BY <1>4, <2>3, LineMore DEF Audits
    <3>. HIDE DEF q
    <3>2. audit'.open = q \/ audit'.open = audit.open
      BY <2>1, <2>3 DEF q
    <3>. QED BY <2>3, <3>1, <3>2 DEF PlaceStays
  <2>. QED BY <2>2, <2>3
<1>10. PastStays
  BY <1>1 DEF PastStays
<1>. QED BY <1>1, <1>8, <1>9, <1>10, StillStep

-----------------------------------------------------------------------------
(* The texts that name a message.                                          *)

\* Outside of documents the audit has claimed none.
LEMMA NoneClaimed ==
  ASSUME Claimed
  PROVE  InDocument
BY DEF Claimed, InDocument

\* What the header says, the audit hears.
LEMMA DefinitionHeard ==
  ASSUME WalkInv, IdentityInv, DefinitionSaid
  PROVE  IdentityInv'
<1>1. Here = "MsgDefIdr" /\ UNCHANGED own
  BY DEF DefinitionSaid
<1>2. PICK text \in Idents \cup {Note} :
        /\ Says(Text(text))
        /\ past' = [past EXCEPT !.header = text,
                                !.heard = Some(@, MessageDefinition(text))]
  BY DEF DefinitionSaid
<1>3. /\ UNCHANGED path
      /\ \E e : /\ e.tag = "text" /\ e.value = text /\ e.sound = TRUE /\ AuditStep(e)
  BY <1>2, SaysReads
<1>4. PICK e : /\ e.tag = "text" /\ e.value = text /\ e.sound = TRUE /\ AuditStep(e)
  BY <1>3
<1>5. /\ path \in Seq(Elements) /\ past \in Pasts /\ audit \in Audits
      /\ path = <<>> => Here = Null
      /\ path # <<>> => Here = path[Len(path)]
      /\ "MsgDefIdr" # Null /\ Nested
  BY Places, FixedNames DEF Frame
<1>6. ~InDocument /\ ~InMessage /\ audit.open = Null
  <2>1. OwnInv
    BY DEF IdentityInv
  <2>. QED BY <1>1, <2>1, AboveMessages
<1>7. path # <<>>
  BY <1>1, <1>5
<1>8. IsMessageDefinition(path) /\ ~IsMessageId(path)
  <2>1. Len(path) >= 2 /\ path[Len(path) - 1] = "AppHdr" /\ path[Len(path)] = "MsgDefIdr"
    <3>1. Here # "BizMsgEnvlp" /\ Here # "Document"
      BY <1>1
    <3>2. Len(path) - 1 \in DOMAIN path /\ path[Len(path) - 1] = "AppHdr"
      BY <1>1, <1>5, <1>7, <3>1, HereRank DEF Fits
    <3>. QED BY <1>1, <1>5, <1>7, <3>2, Innermost
  <2>2. IsMessageDefinition(path)
    BY <1>5, <2>1, EndsInTwo DEF IsMessageDefinition
  <2>3. /\ EndsWith(path, <<"GrpHdr", "MsgId">>) => Here = "MsgId"
        /\ EndsWith(path, <<"Assgnmt", "Id">>) => Here = "Id"
        /\ EndsWith(path, <<"MsgHdr", "MsgId">>) => Here = "MsgId"
    BY <1>5, <1>7, EndsInTwo
  <2>. QED BY <1>1, <2>2, <2>3 DEF IsMessageId
<1>. DEFINE md == MessageDefinition(text)
<1>9. md \in Messages
  BY DEF MessageDefinition, Messages
<1>10. /\ TextKeeps /\ audit'.open = Null /\ audit'.id = audit.id
       /\ audit'.header = Some(audit.header, md)
  <2>1. AuditText(e)
    <3>1. audit.done = "reading"
      BY <1>2, SaysReads DEF WalkInv
    <3>. QED BY <1>4, <3>1 DEF AuditStep
  <2>2. MessageDefinition(e.value) \in Messages
    BY <1>4, <1>9
  <2>3. /\ TextKeeps /\ audit'.open = Null
        /\ audit'.id = IF audit.id = Null /\ IsMessageId(path)
                       THEN e.value ELSE audit.id
        /\ audit'.header = IF audit.header = Null /\ IsMessageDefinition(path)
                           THEN MessageDefinition(e.value) ELSE audit.header
    BY <1>4, <1>5, <1>6, <1>7, <1>8, <2>1, <2>2, AuditIdentity
  <2>. QED BY <1>4, <1>8, <2>3, Zenon DEF Some
<1>. HIDE DEF md
<1>11. /\ past'.messages = past.messages /\ past'.hidden = past.hidden
       /\ past'.form = past.form /\ past'.envelope = past.envelope
       /\ past'.binding = past.binding /\ past'.child = past.child
       /\ past'.empty = past.empty /\ past'.header = text
       /\ past'.heard = Some(past.heard, md)
  <2>. DEFINE h == Some(past.heard, md)
  <2>1. past' = [past EXCEPT !.header = text, !.heard = h]
    BY <1>2 DEF md
  <2>. HIDE DEF h
  <2>2. /\ past'.messages = past.messages /\ past'.hidden = past.hidden
        /\ past'.form = past.form /\ past'.envelope = past.envelope
        /\ past'.binding = past.binding /\ past'.child = past.child
        /\ past'.empty = past.empty /\ past'.header = text /\ past'.heard = h
    BY <1>5, <2>1 DEF Pasts
  <2>. QED BY <2>2 DEF h
<1>12. /\ Here' = Here /\ ~InDocument' /\ ~InMessage' /\ (Lost' <=> Lost)
       /\ ~Childless /\ ~Childless'
  BY <1>1, <1>3, <1>6, <1>11 DEF Here, InDocument, InMessage, Lost, Childless
<1>13. FileInv /\ OwnInv /\ NamedInv /\ DepthInv /\ RecordInv
  BY DEF IdentityInv
<1>14. FileInv'
  <2>1. MessageDefinition(past'.header) # Null => past'.heard # Null
    BY <1>11 DEF md, Some
  <2>. QED BY <1>11, <1>12, <1>13, <2>1, <1>6 DEF FileInv
<1>15. OwnInv'
  BY <1>1, <1>3, <1>6, <1>12, <1>13 DEF OwnInv
<1>16. NamedInv'
  BY <1>10, <1>11, <1>12, <1>13 DEF NamedInv, TextKeeps
<1>17. DepthInv'
  BY <1>6, <1>10, <1>12, <1>13, NoneClaimed DEF DepthInv, TextKeeps
<1>18. WhoseInv'
  BY <1>12 DEF WhoseInv
<1>19. RecordInv'
  BY <1>1, <1>6, <1>10, <1>12, <1>13 DEF RecordInv, TextKeeps
<1>20. PlaceInv'
  BY <1>10 DEF PlaceInv
<1>. QED BY <1>14, <1>15, <1>16, <1>17, <1>18, <1>19, <1>20 DEF IdentityInv

\* The message is given its id.
LEMMA MessageIdHeard ==
  ASSUME WalkInv, IdentityInv, MessageIdSaid
  PROVE  IdentityInv'
<1>1. /\ Here = "MsgId" /\ own.id = Null /\ Says(Text(past.messages))
      /\ UNCHANGED past /\ own' = [own EXCEPT !.id = past.messages]
  BY DEF MessageIdSaid
<1>2. /\ UNCHANGED path
      /\ \E e : /\ e.tag = "text" /\ e.value = past.messages /\ e.sound = TRUE
                /\ AuditStep(e)
  BY <1>1, SaysReads
<1>3. PICK e : /\ e.tag = "text" /\ e.value = past.messages /\ e.sound = TRUE
               /\ AuditStep(e)
  BY <1>2
<1>4. /\ path \in Seq(Elements) /\ past \in Pasts /\ audit \in Audits /\ own \in Owns
      /\ path = <<>> => Here = Null
      /\ path # <<>> => Here = path[Len(path)]
      /\ "MsgId" \in Elements /\ "MsgId" # Null /\ Rank("MsgId") = 6 /\ Nested
  BY Places, FixedNames, Ranks
<1>5. path # <<>> /\ audit.open = Null
  <2>1. path # <<>> /\ Rank(Here) < 7
    BY <1>1, <1>4
  <2>. QED BY <2>1, PartyPlace
<1>6. InMessage
  <2>1. OwnInv
    BY DEF IdentityInv
  <2>. QED BY <1>1, <1>4, <2>1, ContentPlace
<1>7. IsMessageId(path) /\ ~IsMessageDefinition(path)
  <2>1. Len(path) >= 2 /\ path[Len(path) - 1] = "GrpHdr" /\ path[Len(path)] = "MsgId"
    <3>1. Here # "BizMsgEnvlp" /\ Here # "Document"
      BY <1>1
    <3>2. Len(path) - 1 \in DOMAIN path /\ path[Len(path) - 1] = "GrpHdr"
      BY <1>1, <1>4, <1>5, <3>1, HereRank DEF Fits
    <3>. QED BY <1>1, <1>4, <1>5, <3>2, Innermost
  <2>2. IsMessageId(path)
    BY <1>4, <2>1, EndsInTwo DEF IsMessageId
  <2>3. EndsWith(path, <<"AppHdr", "MsgDefIdr">>) => Here = "MsgDefIdr"
    BY <1>4, <1>5, EndsInTwo
  <2>. QED BY <1>1, <2>2, <2>3 DEF IsMessageDefinition
<1>8. FileInv /\ OwnInv /\ NamedInv /\ DepthInv /\ WhoseInv /\ RecordInv
  BY DEF IdentityInv
<1>9. /\ TextKeeps /\ audit'.open = Null /\ audit'.id = past.messages
      /\ audit'.header = audit.header
  <2>1. AuditText(e)
    <3>1. audit.done = "reading"
      BY <1>1, SaysReads DEF WalkInv
    <3>. QED BY <1>3, <3>1 DEF AuditStep
  <2>2. e.value \in Nat
    BY <1>3, <1>4 DEF Pasts
  <2>3. /\ TextKeeps /\ audit'.open = Null
        /\ audit'.id = IF audit.id = Null /\ IsMessageId(path)
                       THEN e.value ELSE audit.id
        /\ audit'.header = IF audit.header = Null /\ IsMessageDefinition(path)
                           THEN MessageDefinition(e.value) ELSE audit.header
    BY <1>3, <1>4, <1>5, <1>7, <2>1, <2>2, AuditIdentity
  <2>4. audit.id = Null
    BY <1>1, <1>6, <1>8 DEF WhoseInv
  <2>. QED BY <1>3, <1>7, <2>3, <2>4
<1>10. /\ own'.depth = own.depth /\ own'.family = own.family /\ own'.id = past.messages
       /\ own'.records = own.records /\ own'.record = own.record
       /\ own'.amended = own.amended /\ own'.container = own.container
  BY <1>1, <1>4 DEF Owns
<1>11. PastStays
  BY <1>1 DEF PastStays
<1>12. /\ Here' = Here /\ (InDocument' <=> InDocument) /\ InMessage'
       /\ (Childless' <=> Childless)
  BY <1>1, <1>2, <1>6, <1>10 DEF Here, InDocument, InMessage, Childless
<1>13. /\ (FirstHeaderNames' <=> FirstHeaderNames) /\ (Lost' <=> Lost)
  BY <1>11, FirstHeaderStays
<1>14. FileInv'
  BY <1>8, <1>11, <1>12, <1>13 DEF FileInv, PastStays
<1>15. OwnInv'
  BY <1>2, <1>6, <1>8, <1>10, <1>11, <1>12 DEF OwnInv, PastStays
<1>16. NamedInv'
  BY <1>8, <1>9, <1>11, <1>12, <1>13, <1>6 DEF NamedInv, PastStays, TextKeeps, OwnInv
<1>17. DepthInv'
  <2>1. Claimed => Claimed'
    BY <1>2, <1>9, <1>11 DEF Claimed, PastStays, TextKeeps
  <2>. QED BY <1>6, <1>8, <1>9, <1>10, <1>11, <1>12, <2>1 DEF DepthInv, PastStays, TextKeeps
<1>18. WhoseInv'
  <2>1. Called(own.family)' = Called(own.family)
    BY <1>10, <1>11, CalledStays
  <2>. QED BY <1>6, <1>8, <1>9, <1>10, <2>1 DEF WhoseInv, TextKeeps
<1>19. RecordInv'
  BY <1>2, <1>6, <1>8, <1>9, <1>10, <1>12 DEF RecordInv, TextKeeps
<1>20. PlaceInv'
  BY <1>9 DEF PlaceInv
<1>. QED BY <1>14, <1>15, <1>16, <1>17, <1>18, <1>19, <1>20 DEF IdentityInv

-----------------------------------------------------------------------------
(* The frame around the messages.                                          *)

\* What an element of the frame does to the walk.
LEMMA FrameOpens ==
  ASSUME WalkInv, OwnInv, NEW name, NEW ident \in Messages,
         name \in {"BizMsgEnvlp", "AppHdr", "MsgDefIdr", "Document"},
         path = <<>> \/ Here = "BizMsgEnvlp" \/ Here = "AppHdr",
         Opens(name, ident), UNCHANGED own
  PROVE  /\ ~InDocument /\ ~InMessage /\ audit.open = Null
         /\ ~InMessage' /\ OwnInv' /\ audit'.open = Null /\ Here' = name
         /\ Len(path) \in Nat /\ Len(path') = Len(path) + 1
         /\ InDocument' <=> name = "Document"
         /\ \E e : /\ e.tag = "start" /\ e.name = name /\ e.ident = ident
                   /\ AuditElement(e)
                   /\ e.name \in Elements /\ ~Opening(e) /\ e.name \notin RecordElems
<1>1. ~InDocument /\ ~InMessage /\ audit.open = Null
  BY AboveMessages
<1>2. /\ path \in Seq(Elements) /\ audit \in Audits /\ Len(path) \in Nat
      /\ DOMAIN path = 1 .. Len(path)
  BY Places, Innermost
<1>3. /\ name \in Elements /\ name \notin RecordElems /\ name \notin Roles
      /\ name \notin DOMAIN Announced /\ Rank(name) < 4
  <2>1. name \in Frame
    BY DEF Frame
  <2>. QED BY <2>1, FixedNames, ContainerNames, Ranks, PartyNames DEF RecordElems
<1>4. PICK e : /\ e.tag = "start" /\ e.name = name /\ e.ident = ident
               /\ AuditElement(e)
  BY StartIsRead
<1>5. ~Opening(e)
  BY <1>3, <1>4 DEF Opening
<1>6. audit'.open = Null
  <2>1. e.name \in Elements /\ e.ident \in Messages
    BY <1>3, <1>4
  <2>2. IF audit.open # Null
        THEN audit'.open = IF e.name = "AdrLine" /\ InAddress(audit)
                           THEN [audit.open EXCEPT !.lines = Append(@, 0)]
                           ELSE audit.open
        ELSE audit'.open = IF e.tag = "start" /\ e.name \in Roles
                           THEN PartyOf(e, Bound(e)) ELSE Null
    BY <1>2, <1>4, <2>1, AuditElementOpen, Zenon
  <2>. QED BY <1>1, <1>3, <1>4, <2>2
<1>7. path' = Append(path, name)
  BY OpensReads
<1>8. /\ Here' = name /\ Len(path') = Len(path) + 1
      /\ DOMAIN path' = 1 .. Len(path) + 1 /\ path'[Len(path) + 1] = name
      /\ \A i \in 1 .. Len(path) : path'[i] = path[i]
  BY <1>2, <1>3, <1>7, Pushed
<1>9. InDocument' <=> name = "Document"
  BY <1>1, <1>2, <1>3, <1>7, DocumentPushed
<1>10. ~InMessage'
  BY <1>1 DEF InMessage
<1>11. OwnInv'
  <2>1. own = NoMessage /\ \A i \in 1 .. Len(path) : Rank(path[i]) < 4
    BY <1>1, <1>2 DEF OwnInv
  <2>2. ASSUME NEW i \in 1 .. Len(path) + 1
        PROVE  Rank(path'[i]) < 4
    <3>1. CASE i = Len(path) + 1
      BY <1>3, <1>8, <3>1
    <3>2. CASE i # Len(path) + 1
      <4>1. i \in 1 .. Len(path)
        BY <1>2, <3>2
      <4>. QED BY <1>8, <2>1, <4>1
    <3>. QED BY <3>1, <3>2
  <2>3. \A i \in DOMAIN path' : Rank(path'[i]) < 4
    BY <1>8, <2>2
  <2>. QED BY <1>10, <2>1, <2>3 DEF OwnInv, NoMessage
<1>. QED BY <1>1, <1>2, <1>3, <1>4, <1>5, <1>6, <1>8, <1>9, <1>10, <1>11

\* An envelope, a header, and what defines the message.
LEMMA FrameHeard ==
  ASSUME WalkInv, IdentityInv, EnvelopeStarts \/ HeaderStarts \/ DefinitionStarts
  PROVE  IdentityInv'
<1>1. FileInv /\ OwnInv /\ NamedInv /\ DepthInv /\ RecordInv
  BY DEF IdentityInv
<1>2. past \in Pasts /\ path \in Seq(Elements) /\ audit \in Audits /\ Null \in Messages
      /\ Idents \subseteq Messages
  BY Places
<1>3. PICK name \in {"BizMsgEnvlp", "AppHdr", "MsgDefIdr"}, ident \in Messages :
        /\ Opens(name, ident) /\ UNCHANGED own
        /\ path = <<>> \/ Here = "BizMsgEnvlp" \/ Here = "AppHdr"
        /\ past'.messages = past.messages /\ past'.hidden = past.hidden
        /\ past'.binding = past.binding /\ past'.header = past.header
        /\ past'.heard = past.heard /\ past'.child = past.child
        /\ \/ ident = Null /\ past'.form = past.form /\ past'.envelope = past.envelope
           \/ /\ past.form = Null /\ past'.form = "envelope" /\ past'.envelope = ident
  <2>1. CASE EnvelopeStarts
    <3>1. PICK ident \in {Null} \cup Idents :
            /\ Opens("BizMsgEnvlp", ident)
            /\ past' = [past EXCEPT !.form = "envelope", !.envelope = ident]
      BY <2>1 DEF EnvelopeStarts
    <3>2. path = <<>> /\ past.form = Null /\ UNCHANGED own
      BY <2>1 DEF EnvelopeStarts
    <3>3. /\ past'.messages = past.messages /\ past'.hidden = past.hidden
          /\ past'.binding = past.binding /\ past'.header = past.header
          /\ past'.heard = past.heard /\ past'.child = past.child
          /\ past'.form = "envelope" /\ past'.envelope = ident
      BY <1>2, <3>1 DEF Pasts
    <3>4. ident \in Messages
      BY <1>2
    <3>. QED BY <3>1, <3>2, <3>3, <3>4
  <2>2. CASE HeaderStarts
    <3>1. /\ Opens("AppHdr", Null) /\ UNCHANGED own /\ Here = "BizMsgEnvlp"
          /\ past' = [past EXCEPT !.free = FALSE]
      BY <2>2 DEF HeaderStarts
    <3>2. /\ past'.messages = past.messages /\ past'.hidden = past.hidden
          /\ past'.binding = past.binding /\ past'.header = past.header
          /\ past'.heard = past.heard /\ past'.child = past.child
          /\ past'.form = past.form /\ past'.envelope = past.envelope
      BY <1>2, <3>1 DEF Pasts
    <3>. QED BY <1>2, <3>1, <3>2
  <2>3. CASE DefinitionStarts
    <3>1. Opens("MsgDefIdr", Null) /\ UNCHANGED <<past, own>> /\ Here = "AppHdr"
      BY <2>3 DEF DefinitionStarts
    <3>. QED BY <1>2, <3>1
  <2>. QED BY <2>1, <2>2, <2>3
<1>4. /\ ~InDocument /\ ~InMessage /\ audit.open = Null
      /\ ~InMessage' /\ OwnInv' /\ audit'.open = Null
      /\ ~InDocument'
      /\ \E e : /\ e.tag = "start" /\ e.name = name /\ e.ident = ident
                /\ AuditElement(e)
                /\ e.name \in Elements /\ ~Opening(e) /\ e.name \notin RecordElems
  <2>1. name \in {"BizMsgEnvlp", "AppHdr", "MsgDefIdr", "Document"} /\ name # "Document"
    OBVIOUS
  <2>. QED BY <1>1, <1>3, <2>1, FrameOpens
<1>5. PICK e : /\ e.tag = "start" /\ e.name = name /\ e.ident = ident
               /\ AuditElement(e)
               /\ e.name \in Elements /\ ~Opening(e) /\ e.name \notin RecordElems
  BY <1>4
<1>6. e.name # "Document" /\ e.ident \in Messages
  BY <1>5
<1>7. /\ ~audit'.awaiting /\ audit'.header = audit.header
      /\ audit'.document = audit.document
      /\ audit'.depth = (IF Claiming(e.name) THEN audit.docDepth ELSE audit.depth)
      /\ audit'.envelope = (IF ident # Null /\ audit'.depth = Null /\ audit.envelope = Null
                            THEN ident ELSE audit.envelope)
      /\ audit'.record = audit.record
  <2>1. /\ audit'.awaiting <=> e.name = "Document"
        /\ audit'.header = audit.header
        /\ audit'.document = IF e.name = "Document" THEN e.ident ELSE audit.document
        /\ audit'.depth = IF e.name = "Document" THEN Null
                          ELSE IF Opening(e) THEN Len(path)
                          ELSE IF Claiming(e.name) THEN audit.docDepth
                          ELSE audit.depth
        /\ audit'.envelope =
             IF /\ e.ident # Null /\ e.name # "Document"
                /\ audit'.depth = Null /\ audit.envelope = Null
             THEN e.ident ELSE audit.envelope
        /\ IF audit.open = Null /\ e.tag = "start" /\ e.name \in RecordElems
           THEN /\ audit'.index = Bound(e).index + 1
                /\ audit'.record = Len(path)
           ELSE audit'.index = Bound(e).index /\ audit'.record = Bound(e).record
        /\ IF e.name = "Document" \/ Opening(e)
           THEN Bound(e).index = 0 /\ Bound(e).record = Null
           ELSE Bound(e).index = audit.index /\ Bound(e).record = audit.record
    BY <1>2, <1>5, <1>6, ElementFields, Zenon
  <2>. QED BY <1>5, <1>6, <2>1, Zenon
<1>8. /\ Lost' <=> Lost
      /\ ~Childless /\ ~Childless'
  BY <1>3, <1>4 DEF Lost, Childless
<1>9. ~Lost => audit'.depth = Null
  BY <1>1, <1>4, <1>7, <1>8, NoneClaimed DEF DepthInv, NamedInv, Claiming
<1>10. audit'.envelope = past'.envelope
  <2>1. CASE ident = Null /\ past'.envelope = past.envelope
    BY <1>1, <1>7, <2>1 DEF NamedInv
  <2>2. CASE past.form = Null /\ past'.envelope = ident
    <3>1. ~Lost /\ past.envelope = Null
      BY <1>1, <1>2, <2>2, NullAssumption DEF FileInv
    <3>2. audit.envelope = Null /\ audit'.depth = Null
      BY <1>1, <1>9, <3>1 DEF NamedInv
    <3>. QED BY <1>7, <2>2, <3>2
  <2>. QED BY <1>3, <2>1, <2>2
<1>11. Lost => past'.form = "documents"
  <2>1. past.form = Null => ~Lost
    BY <1>1, NullAssumption DEF FileInv
  <2>. QED BY <1>1, <1>3, <2>1 DEF FileInv
<1>12. past'.form # Null \/ past'.envelope = Null
  BY <1>1, <1>3, NullAssumption DEF FileInv
<1>13. FileInv'
  BY <1>1, <1>3, <1>4, <1>8, <1>11, <1>12 DEF FileInv
<1>14. NamedInv'
  <2>1. past'.form # "documents" => audit'.document = Null
    <3>1. past'.form # "documents" => past.form # "documents"
      BY <1>3, NullAssumption
    <3>. QED BY <1>1, <1>7, <3>1 DEF NamedInv
  <2>. QED BY <1>1, <1>3, <1>4, <1>7, <1>8, <1>10, <2>1 DEF NamedInv
<1>15. DepthInv'
  BY <1>4, <1>8, <1>9 DEF DepthInv
<1>16. WhoseInv'
  BY <1>4 DEF WhoseInv
<1>17. RecordInv'
  BY <1>1, <1>3, <1>4, <1>7 DEF RecordInv
<1>18. PlaceInv'
  BY <1>4 DEF PlaceInv
<1>. QED BY <1>4, <1>13, <1>14, <1>15, <1>16, <1>17, <1>18 DEF IdentityInv

\* A Document: what it binds is what its message may be named by.
LEMMA DocumentHeard ==
  ASSUME WalkInv, IdentityInv, DocumentStarts
  PROVE  IdentityInv'
<1>1. FileInv /\ OwnInv /\ NamedInv /\ DepthInv /\ RecordInv
  BY DEF IdentityInv
<1>2. past \in Pasts /\ path \in Seq(Elements) /\ audit \in Audits /\ Null \in Messages
      /\ Idents \subseteq Messages
  BY Places
<1>3. /\ path = <<>> \/ Here = "BizMsgEnvlp"
      /\ past.messages = 0 => ~past.hidden
      /\ UNCHANGED own
  BY DEF DocumentStarts
<1>4. PICK ident \in {Null} \cup Idents :
        /\ Opens("Document", ident)
        /\ past' = [past EXCEPT !.form = "documents", !.binding = ident,
                                !.child = Null, !.empty = TRUE]
  BY DEF DocumentStarts
<1>5. ident \in Messages
  BY <1>2
<1>6. /\ past'.messages = past.messages /\ past'.hidden = past.hidden
      /\ past'.form = "documents" /\ past'.envelope = past.envelope
      /\ past'.binding = ident /\ past'.child = Null /\ past'.empty = TRUE
      /\ past'.header = past.header /\ past'.heard = past.heard
  BY <1>2, <1>4 DEF Pasts
<1>7. /\ ~InDocument /\ ~InMessage /\ audit.open = Null
      /\ ~InMessage' /\ OwnInv' /\ audit'.open = Null /\ Here' = "Document"
      /\ Len(path) \in Nat /\ Len(path') = Len(path) + 1
      /\ InDocument'
      /\ \E e : /\ e.tag = "start" /\ e.name = "Document" /\ e.ident = ident
                /\ AuditElement(e)
                /\ e.name \in Elements /\ ~Opening(e) /\ e.name \notin RecordElems
  <2>1. /\ "Document" \in {"BizMsgEnvlp", "AppHdr", "MsgDefIdr", "Document"}
        /\ path = <<>> \/ Here = "BizMsgEnvlp" \/ Here = "AppHdr"
    BY <1>3
  <2>. QED BY <1>1, <1>3, <1>4, <1>5, <2>1, FrameOpens
<1>8. PICK e : /\ e.tag = "start" /\ e.name = "Document" /\ e.ident = ident
               /\ AuditElement(e)
               /\ e.name \in Elements /\ ~Opening(e) /\ e.name \notin RecordElems
  BY <1>7
<1>9. /\ audit'.awaiting /\ audit'.header = audit.header
      /\ audit'.document = ident /\ audit'.docDepth = Len(path)
      /\ audit'.depth = Null /\ audit'.envelope = audit.envelope
      /\ audit'.family = Some(ident, Some(audit.header, audit.envelope))
      /\ audit'.id = Null /\ audit'.index = 0 /\ audit'.record = Null
  <2>1. /\ audit'.awaiting <=> e.name = "Document"
        /\ audit'.header = audit.header
        /\ audit'.document = IF e.name = "Document" THEN e.ident ELSE audit.document
        /\ audit'.docDepth = IF e.name = "Document" THEN Len(path) ELSE audit.docDepth
        /\ audit'.depth = IF e.name = "Document" THEN Null
                          ELSE IF Opening(e) THEN Len(path)
                          ELSE IF Claiming(e.name) THEN audit.docDepth
                          ELSE audit.depth
        /\ audit'.envelope =
             IF /\ e.ident # Null /\ e.name # "Document"
                /\ audit'.depth = Null /\ audit.envelope = Null
             THEN e.ident ELSE audit.envelope
        /\ e.name = "Document" =>
              audit'.family = Some(e.ident, Some(audit.header, audit.envelope))
        /\ audit'.id = IF e.name = "Document" \/ Opening(e) THEN Null ELSE audit.id
        /\ IF audit.open = Null /\ e.tag = "start" /\ e.name \in RecordElems
           THEN /\ audit'.index = Bound(e).index + 1
                /\ audit'.record = Len(path)
           ELSE audit'.index = Bound(e).index /\ audit'.record = Bound(e).record
        /\ IF e.name = "Document" \/ Opening(e)
           THEN Bound(e).index = 0 /\ Bound(e).record = Null
           ELSE Bound(e).index = audit.index /\ Bound(e).record = audit.record
    BY <1>2, <1>5, <1>8, ElementFields, Zenon
  <2>. QED BY <1>8, <2>1, Zenon
<1>10. ~Lost' /\ Childless'
  BY <1>2, <1>3, <1>6, <1>7 DEF Lost, Childless
<1>11. FileInv'
  BY <1>1, <1>6, <1>7, <1>10, NullAssumption DEF FileInv
<1>12. NamedInv'
  <2>1. audit'.docDepth = Len(path') - 1
    BY <1>7, <1>9
  <2>. QED BY <1>1, <1>6, <1>7, <1>9, <1>10, <2>1 DEF NamedInv
<1>13. DepthInv'
  BY <1>7, <1>9 DEF DepthInv
<1>14. WhoseInv'
  BY <1>7 DEF WhoseInv
<1>15. RecordInv'
  <2>1. own.record = Null
    BY <1>1, <1>7 DEF OwnInv, NoMessage
  <2>. QED BY <1>3, <1>7, <1>9, <2>1 DEF RecordInv
<1>16. PlaceInv'
  BY <1>7 DEF PlaceInv
<1>. QED BY <1>7, <1>11, <1>12, <1>13, <1>14, <1>15, <1>16 DEF IdentityInv

-----------------------------------------------------------------------------
(* The start of a message.                                                 *)

\* By what the audit names the message, and the file does: the same name, but where
\* the header of another message named another, and where the container is before
\* the envelope.
LEMMA NamesAgree ==
  ASSUME past \in Pasts, MessageDefinition(past.header) # Null => past.heard # Null
  PROVE  /\ Named = Some(past.binding,
                         Some(past.envelope, MessageDefinition(past.header)))
         /\ Named # Null =>
              Some(past.binding, Some(past.heard, past.envelope)) =
                IF FirstHeaderNames THEN past.heard ELSE Named
         /\ \A f : f # Null =>
              Some(past.binding, Some(past.heard, f)) =
                IF FirstHeaderNames THEN past.heard
                ELSE IF past.binding = Null /\ past.heard = Null /\ past.envelope # Null
                THEN f ELSE Some(Named, f)
<1>. DEFINE b == past.binding
            v == past.envelope
            h == past.heard
            m == MessageDefinition(past.header)
<1>1. Named = Some(b, Some(v, m))
  <2>1. MessageDefinition(Null) = Null
    BY IdentsAre
  <2>2. (IF past.header = Null THEN Null ELSE MessageDefinition(past.header)) = m
    BY <2>1, Zenon
  <2>. QED BY <2>2, NamedTyped
<1>2. FirstHeaderNames <=> b = Null /\ h # Null /\ h # Named
  BY DEF FirstHeaderNames
<1>3. m # Null => h # Null
  OBVIOUS
<1>. HIDE DEF b, v, h, m
<1>4. Named # Null =>
        Some(b, Some(h, v)) = IF FirstHeaderNames THEN h ELSE Named
  BY <1>1, <1>2, <1>3 DEF Some
<1>5. ASSUME NEW f, f # Null
      PROVE  Some(b, Some(h, f)) =
               IF FirstHeaderNames THEN h
               ELSE IF b = Null /\ h = Null /\ v # Null THEN f ELSE Some(Named, f)
  <2>1. CASE b # Null
    BY <1>1, <1>2, <2>1 DEF Some
  <2>2. CASE b = Null /\ h = Null
    BY <1>1, <1>2, <1>3, <1>5, <2>2 DEF Some
  <2>3. CASE b = Null /\ h # Null
    BY <1>2, <2>3 DEF Some
  <2>. QED BY <2>1, <2>2, <2>3
<1>. QED BY <1>1, <1>4, <1>5 DEF b, v, h, m

\* Inside a Document no file is lost.
LEMMA DocumentPlace ==
  ASSUME WalkInv, FileInv
  PROVE  /\ Here = "Document" \/ Here = Wrapper => InDocument
         /\ InDocument => ~Lost
         /\ past.form # "documents" => ~Lost
<1>1. path \in Seq(Elements) /\ Nested /\ "Document" # Null /\ Wrapper # Null
  BY Places, FixedNames DEF Frame
<1>2. ASSUME Here = "Document"
      PROVE  InDocument
  <2>1. path # <<>>
    BY <1>1, <1>2, Innermost
  <2>2. Len(path) \in DOMAIN path /\ path[Len(path)] = "Document"
    BY <1>1, <1>2, <2>1, Innermost
  <2>. QED BY <2>2 DEF InDocument
<1>3. ASSUME Here = Wrapper
      PROVE  InDocument
  <2>1. path # <<>>
    BY <1>1, <1>3, Innermost
  <2>2. Wrapper \notin {"BizMsgEnvlp", "Document"}
    BY DEF Wrapper
  <2>3. Len(path) - 1 \in DOMAIN path /\ path[Len(path) - 1] = "Document"
    BY <1>1, <1>3, <2>1, <2>2, HereRank DEF Fits
  <2>. QED BY <2>3 DEF InDocument
<1>. QED BY <1>2, <1>3 DEF FileInv

\* A container is the message.
LEMMA ContainerHeard ==
  ASSUME WalkInv, IdentityInv, MessageStarts
  PROVE  IdentityInv'
<1>. DEFINE n == Len(path)
<1>1. FileInv /\ OwnInv /\ NamedInv /\ DepthInv /\ RecordInv
  BY DEF IdentityInv
<1>2. /\ past \in Pasts /\ path \in Seq(Elements) /\ audit \in Audits /\ own \in Owns
      /\ Null \in Messages /\ n \in Nat /\ DOMAIN path = 1 .. n
  BY Places, Innermost
<1>3. /\ ~InMessage
      /\ \/ Here = "Document" /\ past.child # Wrapper
         \/ Here = Wrapper /\ ~past.hidden
         \/ Here = "BizMsgEnvlp" /\ (past.form = "envelope" \/ past.form = "bare")
  BY DEF MessageStarts
<1>4. PICK c \in Containers :
        /\ Opens(c, Null)
        /\ own' = Starts(Some(Named, Announced[c]), n, Announced[c])
        /\ past' = [Holds(Some(Named, Announced[c]),
                          Some(Named, Announced[c]) = Announced[c]) EXCEPT
                      !.hidden = @ \/ Here = Wrapper,
                      !.child = IF Here = "Document" THEN c ELSE @,
                      !.form = IF Here = "BizMsgEnvlp" THEN "bare" ELSE @]
  BY DEF MessageStarts
<1>. DEFINE f == Some(Named, Announced[c])
<1>5. /\ c \in Elements /\ c # Null /\ c \notin RecordElems /\ c \notin Roles
      /\ c # "Document" /\ c # "AdrLine" /\ c \in DOMAIN Announced
      /\ FamilyOfContainer(c) = Announced[c]
      /\ Announced[c] \in Families /\ Announced[c] # Null
  <2>1. /\ c \in Elements /\ c \notin RecordElems /\ c \in DOMAIN Announced
        /\ c \notin Roles /\ c # "Document" /\ c # "AdrLine"
    BY ContainerNames, FixedNames DEF Frame, Leaf
  <2>2. Announced[c] \in Families
    BY <2>1 DEF Families
  <2>. QED BY <2>1, <2>2, AnnouncedIs, NullAssumption
<1>6. f \in Families
  <2>1. Named \in Messages
    BY <1>2, NamedTyped
  <2>. QED BY <1>5, <2>1 DEF Some, Messages
<1>7. /\ past'.messages = past.messages + 1 /\ past'.empty = FALSE
      /\ past'.hidden = (past.hidden \/ Here = Wrapper)
      /\ past'.child = IF Here = "Document" THEN c ELSE past.child
      /\ past'.form = IF Here = "BizMsgEnvlp" THEN "bare" ELSE past.form
      /\ past'.envelope = past.envelope /\ past'.binding = past.binding
      /\ past'.header = past.header /\ past'.heard = past.heard
  <2>. DEFINE b == f = Announced[c]
              h == Holds(f, b)
              x == past.hidden \/ Here = Wrapper
              y == IF Here = "Document" THEN c ELSE past.child
              z == IF Here = "BizMsgEnvlp" THEN "bare" ELSE past.form
  <2>1. b \in BOOLEAN
    OBVIOUS
  <2>. HIDE DEF b, f
  <2>2. h \in Pasts
    BY <1>2, <1>6, <2>1, HoldsTyped
  <2>3. /\ h.messages = past.messages + 1 /\ h.empty = FALSE
        /\ h.hidden = past.hidden /\ h.child = past.child /\ h.form = past.form
        /\ h.envelope = past.envelope /\ h.binding = past.binding
        /\ h.header = past.header /\ h.heard = past.heard
    BY <1>2 DEF Holds, Pasts
  <2>4. past' = [h EXCEPT !.hidden = x, !.child = y, !.form = z]
    BY <1>4, <2>3 DEF f, b
  <2>. HIDE DEF h, x, y, z
  <2>5. /\ past'.messages = h.messages /\ past'.empty = h.empty
        /\ past'.hidden = x /\ past'.child = y /\ past'.form = z
        /\ past'.envelope = h.envelope /\ past'.binding = h.binding
        /\ past'.header = h.header /\ past'.heard = h.heard
    BY <2>2, <2>4 DEF Pasts
  <2>. QED BY <2>3, <2>5 DEF x, y, z
<1>8. /\ own'.depth = n /\ own'.family = f /\ own'.id = Null
      /\ own'.container = Announced[c] /\ own'.amended = FALSE
      /\ own'.records = 0 /\ own'.record = Null
  <2>. HIDE DEF n, f
  <2>1. own' = Starts(f, n, Announced[c]) /\ f \in Messages /\ Announced[c] \in Messages
    BY <1>4, <1>5, <1>6 DEF n, f, Messages
  <2>. QED BY <1>2, <2>1, StartsTyped
<1>9. InMessage'
  BY <1>2, <1>8, NullAssumption DEF InMessage
<1>10. /\ Here # Null /\ path # <<>> /\ audit.open = Null
  <2>1. Here \in Frame /\ Rank(Here) < 7
    BY <1>3, Ranks DEF Frame
  <2>2. Here \in Elements
    BY <2>1, FixedNames
  <2>3. path # <<>> /\ Here # Null
    BY <2>2, Places
  <2>. QED BY <2>1, <2>3, PartyPlace
<1>11. ~Lost /\ (Here = "BizMsgEnvlp" => ~InDocument) /\ (Here # "BizMsgEnvlp" => InDocument)
  <2>1. Here = "BizMsgEnvlp" => ~InDocument
    BY <1>1, AboveMessages
  <2>2. Here # "BizMsgEnvlp" => InDocument
    BY <1>1, <1>3, DocumentPlace
  <2>3. ~Lost
    <3>1. past.form = "envelope" \/ past.form = "bare" => past.form # "documents"
      OBVIOUS
    <3>. QED BY <1>1, <1>3, <2>2, <3>1, DocumentPlace
  <2>. QED BY <2>1, <2>2, <2>3
<1>12. /\ path' = Append(path, c) /\ Len(path') = n + 1
       /\ DOMAIN path' = 1 .. n + 1 /\ path'[n + 1] = c
       /\ \A i \in 1 .. n : path'[i] = path[i]
       /\ InDocument' <=> InDocument
  <2>1. path' = Append(path, c)
    BY <1>4, OpensReads
  <2>. QED BY <1>2, <1>5, <2>1, Pushed, DocumentPushed
<1>13. PICK e : /\ e.tag = "start" /\ e.name = c /\ e.ident = Null /\ AuditElement(e)
  BY <1>4, StartIsRead
<1>14. /\ ~Claiming(e.name) /\ (Opening(e) <=> audit.depth = Null)
       /\ e.name \in Elements /\ e.ident \in Messages /\ e.name # "Document"
       /\ e.name \notin RecordElems
  BY <1>2, <1>5, <1>10, <1>13 DEF Claiming, Opening
<1>15. /\ ~audit'.awaiting /\ audit'.header = audit.header
       /\ audit'.document = audit.document
       /\ audit'.envelope = audit.envelope
       /\ IF audit.depth = Null
          THEN /\ audit'.depth = n /\ audit'.id = Null
               /\ audit'.index = 0 /\ audit'.record = Null
               /\ audit'.family = Some(audit.document, Some(audit.header, Announced[c]))
          ELSE /\ audit'.depth = audit.depth /\ audit'.id = audit.id
               /\ audit'.family = audit.family
               /\ audit'.index = audit.index /\ audit'.record = audit.record
  <2>1. /\ audit'.awaiting <=> e.name = "Document"
        /\ audit'.header = audit.header
        /\ audit'.document = IF e.name = "Document" THEN e.ident ELSE audit.document
        /\ audit'.depth = IF e.name = "Document" THEN Null
                          ELSE IF Opening(e) THEN Len(path)
                          ELSE IF Claiming(e.name) THEN audit.docDepth
                          ELSE audit.depth
        /\ audit'.envelope =
             IF /\ e.ident # Null /\ e.name # "Document"
                /\ audit'.depth = Null /\ audit.envelope = Null
             THEN e.ident ELSE audit.envelope
        /\ e.ident = Null /\ e.name # "Document" =>
             audit'.family =
               IF Opening(e)
               THEN Some(audit.document,
                         Some(audit.header, FamilyOfContainer(e.name)))
               ELSE audit.family
        /\ audit'.id = IF e.name = "Document" \/ Opening(e) THEN Null ELSE audit.id
        /\ IF audit.open = Null /\ e.tag = "start" /\ e.name \in RecordElems
           THEN /\ audit'.index = Bound(e).index + 1
                /\ audit'.record = Len(path)
           ELSE audit'.index = Bound(e).index /\ audit'.record = Bound(e).record
        /\ IF e.name = "Document" \/ Opening(e)
           THEN Bound(e).index = 0 /\ Bound(e).record = Null
           ELSE Bound(e).index = audit.index /\ Bound(e).record = audit.record
    BY <1>2, <1>13, <1>14, ElementFields, Zenon
  <2>2. FamilyOfContainer(e.name) = Announced[c]
    BY <1>5, <1>13
  <2>. QED BY <1>13, <1>14, <2>1, <2>2, Zenon
<1>16. audit'.open = Null
  <2>1. IF audit.open # Null
        THEN audit'.open = IF e.name = "AdrLine" /\ InAddress(audit)
                           THEN [audit.open EXCEPT !.lines = Append(@, 0)]
                           ELSE audit.open
        ELSE audit'.open = IF e.tag = "start" /\ e.name \in Roles
                           THEN PartyOf(e, Bound(e)) ELSE Null
    BY <1>2, <1>13, <1>14, AuditElementOpen, Zenon
  <2>. QED BY <1>5, <1>10, <1>13, <2>1
<1>17. /\ audit.header = past.heard /\ audit.envelope = past.envelope
       /\ audit.document = past.binding /\ audit.record = Null
       /\ Here = "BizMsgEnvlp" => past.form # "documents"
  <2>1. Here = "BizMsgEnvlp" => past.form # "documents"
    <3>1. past.form = "envelope" \/ past.form = "bare" => past.form # "documents"
      OBVIOUS
    <3>2. Here = "BizMsgEnvlp" => past.form = "envelope" \/ past.form = "bare"
      BY <1>3 DEF Wrapper
    <3>. QED BY <3>1, <3>2
  <2>2. audit.document = past.binding
    <3>1. CASE InDocument
      BY <1>1, <3>1 DEF NamedInv
    <3>2. CASE ~InDocument
      BY <1>1, <1>11, <2>1, <3>2 DEF NamedInv, FileInv
    <3>. QED BY <3>1, <3>2
  <2>. QED BY <1>1, <1>3, <2>1, <2>2 DEF NamedInv, RecordInv
<1>18. /\ FirstHeaderNames' <=> FirstHeaderNames
       /\ EnvelopeIsPassedOver' <=> /\ past.binding = Null /\ past.heard = Null
                                    /\ past.envelope # Null
  <2>1. Named' = Named
    BY <1>7, Zenon DEF Named
  <2>2. FirstHeaderNames' <=> FirstHeaderNames
    BY <1>7, <2>1, Zenon DEF FirstHeaderNames
  <2>3. own'.container # Null
    BY <1>5, <1>8
  <2>. QED BY <1>7, <2>2, <2>3 DEF EnvelopeIsPassedOver
<1>. HIDE DEF n, f
<1>19. ~Childless'
  <2>1. Here = Wrapper => ~Childless
    BY <1>1 DEF FileInv, Wrapper
  <2>. QED BY <1>3, <1>5, <1>7, <1>11, <1>12, <2>1 DEF Childless
<1>20. audit.depth # Null => Claimed /\ Here = Wrapper /\ Fresh
  <2>1. audit.depth # Null => Claimed /\ (past.hidden \/ Fresh)
    BY <1>1, <1>3, <1>11 DEF DepthInv
  <2>2. Claimed => Here # "Document" \/ past.child = Wrapper
    BY DEF Claimed
  <2>. QED BY <1>3, <1>11, <2>1, NoneClaimed DEF Claimed
<1>21. FileInv'
  <2>1. ~Lost'
    BY <1>2, <1>7 DEF Lost, Pasts
  <2>. QED BY <1>1, <1>7, <1>11, <1>12, <1>19, <2>1, NullAssumption DEF FileInv
<1>22. OwnInv'
  <2>1. past'.messages > 0
    BY <1>2, <1>7 DEF Pasts
  <2>2. own'.depth + 1 \in DOMAIN path' /\ path'[own'.depth + 1] \in Containers
    BY <1>2, <1>8, <1>12 DEF n
  <2>. QED BY <1>9, <1>19, <2>1, <2>2 DEF OwnInv
<1>23. NamedInv'
  <2>1. past'.form # "documents" => audit.document = Null
    <3>1. past'.form # "documents" => past.form # "documents"
      BY <1>7, <1>17
    <3>. QED BY <1>1, <3>1 DEF NamedInv
  <2>. QED BY <1>7, <1>15, <1>17, <1>19, <2>1 DEF NamedInv
<1>24. DepthInv'
  <2>1. CASE audit.depth = Null
    BY <1>8, <1>9, <1>15, <2>1 DEF DepthInv
  <2>2. CASE audit.depth # Null
    <3>1. Claimed /\ Here = Wrapper
      BY <1>20, <2>2
    <3>2. audit'.depth = audit.depth
      BY <1>15, <2>2
    <3>3. audit.depth \in Nat /\ audit.depth + 1 \in 1 .. n
      BY <1>2, <2>2, <3>1 DEF Claimed, Audits
    <3>4. audit'.depth < own'.depth
      BY <1>2, <1>8, <3>2, <3>3 DEF n
    <3>5. audit.depth + 1 \in 1 .. n + 1 /\ path'[audit.depth + 1] = "Document"
      <4>1. path[audit.depth + 1] = "Document"
        BY <3>1 DEF Claimed
      <4>2. n \in Nat
        BY <1>2
      <4>. QED BY <1>12, <3>3, <4>1, <4>2
    <3>6. past'.child = past.child /\ past'.hidden
      BY <1>7, <3>1 DEF Wrapper
    <3>7. Claimed'
      BY <1>7, <1>12, <2>2, <3>1, <3>2, <3>5, <3>6 DEF Claimed
    <3>. QED BY <1>9, <3>4, <3>6, <3>7 DEF DepthInv
  <2>. QED BY <2>1, <2>2
<1>25. WhoseInv'
  <2>1. MessageDefinition(past.header) # Null => past.heard # Null
    BY <1>1 DEF FileInv
  <2>2. CASE audit.depth = Null
    <3>1. audit'.family = Some(past.binding, Some(past.heard, Announced[c]))
      BY <1>15, <1>17, <2>2
    <3>2. audit'.family =
            IF FirstHeaderNames THEN past.heard
            ELSE IF past.binding = Null /\ past.heard = Null /\ past.envelope # Null
            THEN Announced[c] ELSE f
      <4>1. \A g : g # Null =>
              Some(past.binding, Some(past.heard, g)) =
                IF FirstHeaderNames THEN past.heard
                ELSE IF past.binding = Null /\ past.heard = Null /\ past.envelope # Null
                THEN g ELSE Some(Named, g)
        BY <1>2, <2>1, NamesAgree, Zenon
      <4>. QED BY <1>5, <3>1, <4>1, Zenon DEF f
    <3>3. audit'.family = Called(own.family)'
      <4>. DEFINE passed == past.binding = Null /\ past.heard = Null /\ past.envelope # Null
      <4>1. EnvelopeIsPassedOver' <=> passed
        BY <1>5, <1>7, <1>8 DEF EnvelopeIsPassedOver
      <4>2. audit'.family = IF FirstHeaderNames THEN past.heard
                            ELSE IF passed THEN Announced[c] ELSE f
        BY <3>2
      <4>. HIDE DEF passed, f
      <4>3. /\ own'.container = Announced[c] /\ own'.family = f
            /\ past'.heard = past.heard
        BY <1>7, <1>8
      <4>4. ~(FirstHeaderNames /\ passed)
        BY DEF FirstHeaderNames, passed
      <4>. QED BY <1>18, <4>1, <4>2, <4>3, <4>4, Zenon DEF Called
    <3>. QED BY <1>8, <1>15, <2>2, <3>3 DEF WhoseInv
  <2>3. CASE audit.depth # Null
    <3>1. Claimed /\ audit.id = Null /\ audit.family = past.heard
      BY <1>20, <2>3 DEF Fresh
    <3>2. Named = Null
      <4>1. Named = Some(past.binding,
                         Some(past.envelope, MessageDefinition(past.header)))
        BY <1>2, <2>1, NamesAgree, Zenon
      <4>. QED BY <3>1, <4>1 DEF Some, Claimed
    <3>3. FirstHeaderNames
      BY <3>1, <3>2 DEF FirstHeaderNames, Claimed
    <3>4. Called(own.family)' = past.heard
      <4>1. ~(past.heard = Null)
        BY <3>1 DEF Claimed
      <4>. QED BY <1>7, <1>18, <3>3, <4>1, Zenon DEF Called
    <3>5. audit'.family = audit.family
      BY <1>15, <2>3
    <3>. QED BY <1>8, <1>15, <2>3, <3>1, <3>4, <3>5 DEF WhoseInv
  <2>. QED BY <2>2, <2>3
<1>26. RecordInv'
  <2>1. audit'.record = Null /\ audit'.index = 0
    BY <1>15, <1>17, <1>20 DEF Fresh
  <2>. QED BY <1>8, <2>1 DEF RecordInv
<1>27. PlaceInv'
  BY <1>16 DEF PlaceInv
<1>. QED BY <1>21, <1>22, <1>23, <1>24, <1>25, <1>26, <1>27 DEF IdentityInv

\* A Document whose first child no table knows is the message, if it has a name.
LEMMA WrapperHeard ==
  ASSUME WalkInv, IdentityInv, WrapperStarts
  PROVE  IdentityInv'
<1>. DEFINE n == Len(path)
<1>1. FileInv /\ OwnInv /\ NamedInv /\ DepthInv /\ RecordInv
  BY DEF IdentityInv
<1>2. /\ past \in Pasts /\ path \in Seq(Elements) /\ audit \in Audits /\ own \in Owns
      /\ Null \in Messages /\ n \in Nat /\ DOMAIN path = 1 .. n
  BY Places, Innermost
<1>3. /\ Here = "Document" /\ past.child = Null /\ Opens(Wrapper, Null)
      /\ IF Named = Null
         THEN past' = [past EXCEPT !.child = Wrapper] /\ UNCHANGED own
         ELSE /\ own' = Starts(Named, n - 1, Null)
              /\ past' = [Holds(Named, FALSE) EXCEPT !.child = Wrapper]
  BY DEF WrapperStarts
<1>4. InDocument /\ ~Lost /\ Childless
  BY <1>1, <1>3, DocumentPlace DEF Childless
<1>5. /\ audit.awaiting /\ audit.docDepth = n - 1
      /\ audit.depth = Null /\ audit.id = Null /\ audit.index = 0
      /\ audit.family = Some(past.binding, Some(past.heard, past.envelope))
      /\ audit.header = past.heard /\ audit.envelope = past.envelope
      /\ audit.document = past.binding
  BY <1>1, <1>4 DEF NamedInv
<1>6. ~InMessage /\ own = NoMessage /\ audit.record = Null
  BY <1>1, <1>4 DEF OwnInv, RecordInv
<1>7. /\ path # <<>> /\ audit.open = Null /\ n \in Nat \ {0} /\ path[n] = "Document"
  <2>1. "Document" # Null /\ Rank("Document") < 7
    BY FixedNames, Places, Ranks DEF Frame
  <2>2. path # <<>>
    BY <1>3, <2>1, Places
  <2>. QED BY <1>2, <1>3, <2>1, <2>2, Innermost, PartyPlace
<1>8. /\ Wrapper \in Elements /\ Wrapper \notin RecordElems /\ Wrapper \notin Roles
      /\ Wrapper # "Document" /\ Wrapper # "AdrLine" /\ Wrapper # Null
      /\ Wrapper \notin DOMAIN Announced /\ Rank(Wrapper) < 4
  <2>1. Wrapper \in Frame
    BY DEF Frame
  <2>2. Wrapper # "Document" /\ Wrapper # "AdrLine" /\ Wrapper \notin RecordElems
    BY DEF Wrapper, RecordElems
  <2>3. Wrapper \in Elements /\ Wrapper \notin DOMAIN Announced /\ Rank(Wrapper) < 4
    BY <2>1, FixedNames, ContainerNames, Ranks
  <2>. QED BY <2>1, <2>2, <2>3, PartyNames, Places
<1>9. /\ path' = Append(path, Wrapper) /\ Len(path') = n + 1
      /\ DOMAIN path' = 1 .. n + 1 /\ path'[n + 1] = Wrapper
      /\ \A i \in 1 .. n : path'[i] = path[i]
      /\ InDocument' /\ Here' = Wrapper
  <2>1. path' = Append(path, Wrapper)
    BY <1>3, OpensReads
  <2>. QED BY <1>2, <1>4, <1>8, <2>1, Pushed, DocumentPushed
<1>10. PICK e : /\ e.tag = "start" /\ e.name = Wrapper /\ e.ident = Null
                /\ AuditElement(e)
  BY <1>3, StartIsRead
<1>11. /\ ~Opening(e) /\ e.name \in Elements /\ e.ident \in Messages
       /\ e.name # "Document" /\ e.name \notin RecordElems
       /\ Claiming(e.name) <=>
            past.binding # Null \/ past.heard # Null \/ past.envelope # Null
  <2>1. ~Opening(e) /\ e.name \in Elements /\ e.ident \in Messages
        /\ e.name # "Document" /\ e.name \notin RecordElems
    BY <1>2, <1>8, <1>10 DEF Opening
  <2>2. Claiming(e.name) <=> {past.binding, past.heard, past.envelope} # {Null}
    BY <1>5, <1>8, <1>10 DEF Claiming
  <2>. QED BY <2>1, <2>2
<1>12. /\ ~audit'.awaiting /\ audit'.header = audit.header
       /\ audit'.document = audit.document
       /\ audit'.envelope = audit.envelope /\ audit'.family = audit.family
       /\ audit'.depth = (IF Claiming(e.name) THEN audit.docDepth ELSE Null)
       /\ audit'.id = Null /\ audit'.index = 0 /\ audit'.record = Null
  <2>1. /\ audit'.awaiting <=> e.name = "Document"
        /\ audit'.header = audit.header
        /\ audit'.document = IF e.name = "Document" THEN e.ident ELSE audit.document
        /\ audit'.depth = IF e.name = "Document" THEN Null
                          ELSE IF Opening(e) THEN Len(path)
                          ELSE IF Claiming(e.name) THEN audit.docDepth
                          ELSE audit.depth
        /\ audit'.envelope =
             IF /\ e.ident # Null /\ e.name # "Document"
                /\ audit'.depth = Null /\ audit.envelope = Null
             THEN e.ident ELSE audit.envelope
        /\ e.ident = Null /\ e.name # "Document" =>
             audit'.family =
               IF Opening(e)
               THEN Some(audit.document,
                         Some(audit.header, FamilyOfContainer(e.name)))
               ELSE audit.family
        /\ audit'.id = IF e.name = "Document" \/ Opening(e) THEN Null ELSE audit.id
        /\ IF audit.open = Null /\ e.tag = "start" /\ e.name \in RecordElems
           THEN /\ audit'.index = Bound(e).index + 1
                /\ audit'.record = Len(path)
           ELSE audit'.index = Bound(e).index /\ audit'.record = Bound(e).record
        /\ IF e.name = "Document" \/ Opening(e)
           THEN Bound(e).index = 0 /\ Bound(e).record = Null
           ELSE Bound(e).index = audit.index /\ Bound(e).record = audit.record
    BY <1>2, <1>10, <1>11, ElementFields, Zenon
  <2>. QED BY <1>5, <1>6, <1>10, <1>11, <2>1, Zenon
<1>13. audit'.open = Null
  <2>1. IF audit.open # Null
        THEN audit'.open = IF e.name = "AdrLine" /\ InAddress(audit)
                           THEN [audit.open EXCEPT !.lines = Append(@, 0)]
                           ELSE audit.open
        ELSE audit'.open = IF e.tag = "start" /\ e.name \in Roles
                           THEN PartyOf(e, Bound(e)) ELSE Null
    BY <1>2, <1>10, <1>11, AuditElementOpen, Zenon
  <2>. QED BY <1>7, <1>8, <1>10, <2>1
<1>14. /\ past'.hidden = past.hidden /\ past'.child = Wrapper
       /\ past'.form = past.form /\ past'.envelope = past.envelope
       /\ past'.binding = past.binding
       /\ past'.header = past.header /\ past'.heard = past.heard
       /\ past'.messages = IF Named = Null THEN past.messages ELSE past.messages + 1
  <2>1. CASE Named = Null
    BY <1>2, <1>3, <2>1 DEF Pasts
  <2>2. CASE Named # Null
    <3>. DEFINE h == Holds(Named, FALSE)
    <3>1. Named \in Families
      BY <1>2, <2>2, NamedTyped DEF Messages
    <3>2. h \in Pasts
      BY <1>2, <3>1, HoldsTyped
    <3>3. /\ h.messages = past.messages + 1
          /\ h.hidden = past.hidden /\ h.child = past.child /\ h.form = past.form
          /\ h.envelope = past.envelope /\ h.binding = past.binding
          /\ h.header = past.header /\ h.heard = past.heard
      BY <1>2 DEF Holds, Pasts
    <3>4. past' = [h EXCEPT !.child = Wrapper]
      BY <1>3, <2>2
    <3>. HIDE DEF h
    <3>5. /\ past'.messages = h.messages
          /\ past'.hidden = h.hidden /\ past'.child = Wrapper /\ past'.form = h.form
          /\ past'.envelope = h.envelope /\ past'.binding = h.binding
          /\ past'.header = h.header /\ past'.heard = h.heard
      BY <3>2, <3>4 DEF Pasts
    <3>. QED BY <2>2, <3>3, <3>5
  <2>. QED BY <2>1, <2>2
<1>15. FirstHeaderNames' <=> FirstHeaderNames
  <2>1. Named' = Named
    BY <1>14, Zenon DEF Named
  <2>. QED BY <1>14, <2>1, Zenon DEF FirstHeaderNames
<1>16. ~Childless'
  BY <1>8, <1>14 DEF Childless
<1>17. /\ Named = Some(past.binding,
                       Some(past.envelope, MessageDefinition(past.header)))
       /\ MessageDefinition(past.header) # Null => past.heard # Null
       /\ Named # Null =>
            Some(past.binding, Some(past.heard, past.envelope)) =
              IF FirstHeaderNames THEN past.heard ELSE Named
  <2>1. MessageDefinition(past.header) # Null => past.heard # Null
    BY <1>1 DEF FileInv
  <2>. QED BY <1>2, <2>1, NamesAgree, Zenon
<1>. HIDE DEF n
<1>18. ~Lost'
  BY <1>2, <1>4, <1>14 DEF Lost, Pasts
<1>19. FileInv'
  BY <1>1, <1>4, <1>9, <1>14, <1>16, <1>18 DEF FileInv
<1>20. NamedInv'
  BY <1>1, <1>5, <1>12, <1>14, <1>16 DEF NamedInv
<1>21. PlaceInv'
  BY <1>13 DEF PlaceInv
<1>22. CASE Named = Null
  <2>1. UNCHANGED own /\ ~InMessage'
    BY <1>3, <1>6, <1>22 DEF InMessage
  <2>2. OwnInv'
    <3>1. \A i \in 1 .. n : Rank(path[i]) < 4
      BY <1>1, <1>2, <1>6 DEF OwnInv
    <3>2. ASSUME NEW i \in 1 .. n + 1
          PROVE  Rank(path'[i]) < 4
      <4>1. CASE i = n + 1
        BY <1>8, <1>9, <4>1
      <4>2. CASE i # n + 1
        <5>1. i \in 1 .. n
          BY <1>2, <4>2
        <5>. QED BY <1>9, <3>1, <5>1
      <4>. QED BY <4>1, <4>2
    <3>3. \A i \in DOMAIN path' : Rank(path'[i]) < 4
      BY <1>9, <3>2
    <3>. QED BY <1>6, <2>1, <3>3 DEF OwnInv, NoMessage
  <2>3. DepthInv'
    <3>1. /\ past.binding = Null /\ past.envelope = Null
          /\ MessageDefinition(past.header) = Null
      BY <1>17, <1>22 DEF Some
    <3>2. CASE past.heard = Null
      BY <1>11, <1>12, <2>1, <3>1, <3>2 DEF DepthInv
    <3>3. CASE past.heard # Null
      <4>1. audit'.depth = n - 1
        BY <1>5, <1>11, <1>12, <3>3
      <4>2. n - 1 # Null /\ n - 1 + 1 = n /\ n \in 1 .. n + 1
        BY <1>7, NullAssumption
      <4>3. Claimed'
        BY <1>7, <1>9, <1>14, <3>1, <3>3, <4>1, <4>2 DEF Claimed
      <4>4. Fresh'
        BY <1>5, <1>12, <1>14, <3>1, <3>3 DEF Fresh, Some
      <4>. QED BY <2>1, <4>3, <4>4 DEF DepthInv
    <3>. QED BY <3>2, <3>3
  <2>4. WhoseInv'
    BY <2>1 DEF WhoseInv
  <2>5. RecordInv'
    BY <1>6, <1>12, <2>1 DEF RecordInv, NoMessage
  <2>. QED BY <1>19, <1>20, <1>21, <2>2, <2>3, <2>4, <2>5 DEF IdentityInv
<1>23. CASE Named # Null
  <2>1. /\ own'.depth = n - 1 /\ own'.family = Named /\ own'.id = Null
        /\ own'.container = Null /\ own'.amended = FALSE
        /\ own'.records = 0 /\ own'.record = Null
    <3>. DEFINE d == n - 1
    <3>1. d \in Nat /\ own' = Starts(Named, d, Null) /\ Named \in Messages
      BY <1>2, <1>3, <1>7, <1>23, NamedTyped DEF n
    <3>. HIDE DEF d
    <3>2. /\ own'.depth = d /\ own'.family = Named /\ own'.id = Null
          /\ own'.container = Null /\ own'.amended = FALSE
          /\ own'.records = 0 /\ own'.record = Null
      BY <1>2, <3>1, StartsTyped
    <3>. QED BY <3>2 DEF d
  <2>2. InMessage'
    BY <1>7, <2>1, NullAssumption DEF InMessage
  <2>3. OwnInv'
    <3>1. past'.messages > 0
      BY <1>2, <1>14, <1>23 DEF Pasts
    <3>2. n - 1 + 1 = n /\ n \in 1 .. n + 1
      BY <1>7
    <3>3. own'.depth + 1 \in DOMAIN path' /\ path'[own'.depth + 1] = "Document"
      BY <1>7, <1>9, <2>1, <3>2
    <3>. QED BY <1>14, <1>16, <2>2, <3>1, <3>3 DEF OwnInv
  <2>4. DepthInv'
    <3>1. past.binding # Null \/ past.heard # Null \/ past.envelope # Null
      BY <1>17, <1>23 DEF Some
    <3>. QED BY <1>5, <1>11, <1>12, <2>1, <2>2, <3>1 DEF DepthInv
  <2>5. WhoseInv'
    <3>1. audit'.family = IF FirstHeaderNames THEN past.heard ELSE Named
      BY <1>5, <1>12, <1>17, <1>23
    <3>2. ~EnvelopeIsPassedOver'
      BY <2>1 DEF EnvelopeIsPassedOver
    <3>3. audit'.family = Called(own.family)'
      BY <1>14, <1>15, <2>1, <3>1, <3>2, Zenon DEF Called
    <3>. QED BY <1>12, <2>1, <3>3 DEF WhoseInv
  <2>6. RecordInv'
    BY <1>12, <2>1 DEF RecordInv
  <2>. QED BY <1>19, <1>20, <1>21, <2>3, <2>4, <2>5, <2>6 DEF IdentityInv
<1>. QED BY <1>22, <1>23

-----------------------------------------------------------------------------
(* The end of an element.                                                  *)

\* What the end of an element does to the walk.
LEMMA EndsFields ==
  ASSUME WalkInv, ElementEnds
  PROVE  /\ Len(path) \in Nat \ {0} /\ path # <<>> /\ Here = path[Len(path)]
         /\ DOMAIN path = 1 .. Len(path) /\ DOMAIN path' = 1 .. Len(path) - 1
         /\ Len(path') = Len(path) - 1 /\ path' \in Seq(Elements)
         /\ \A i \in 1 .. Len(path) - 1 :
              path'[i] = path[i] /\ Rank(path[i]) < Rank(Here)
         /\ InDocument' <=> InDocument /\ Here # "Document"
         /\ audit'.open = IF audit.open # Null /\ audit.open.depth = Len(path) - 1
                          THEN Null ELSE audit.open
         /\ audit'.record = IF audit.record # Null /\ Len(path) - 1 <= audit.record
                            THEN Null ELSE audit.record
         /\ audit'.depth = IF audit.depth = Len(path) - 1 THEN Null ELSE audit.depth
         /\ audit'.family = audit.family /\ audit'.document = audit.document
         /\ audit'.envelope = audit.envelope /\ audit'.header = audit.header
         /\ audit'.docDepth = audit.docDepth /\ audit'.id = audit.id
         /\ audit'.awaiting = audit.awaiting /\ audit'.index = audit.index
<1>. DEFINE n == Len(path)
<1>1. path # <<>> /\ path' = Front(path) /\ Reads(Event("end", Here))
  BY DEF ElementEnds
<1>2. path \in Seq(Elements) /\ audit \in Audits /\ Nested
  BY Places
<1>3. AuditCloses
  <2>. DEFINE e == Event("end", Here)
  <2>1. e.tag = "end"
    BY DEF Event
  <2>2. AuditStep(e) /\ Reading
    BY <1>1 DEF Reads
  <2>. HIDE DEF e
  <2>3. audit.done = "reading"
    BY <2>2 DEF WalkInv
  <2>. QED BY <2>1, <2>2, <2>3 DEF AuditStep
<1>4. /\ n \in Nat \ {0} /\ Here = path[n] /\ DOMAIN path = 1 .. n
      /\ path' \in Seq(Elements) /\ Len(path') = n - 1 /\ DOMAIN path' = 1 .. n - 1
      /\ \A i \in 1 .. n - 1 : path'[i] = path[i]
  BY <1>1, <1>2, Innermost, Popped
<1>5. \A i \in 1 .. n - 1 : Rank(path[i]) < Rank(Here)
  BY <1>2, <1>4 DEF Nested
<1>6. InDocument' <=> InDocument /\ Here # "Document"
  BY <1>1, <1>2, DocumentPopped
<1>7. /\ audit'.open = IF audit.open # Null /\ audit.open.depth = n - 1
                       THEN Null ELSE audit.open
      /\ audit'.record = IF audit.record # Null /\ n - 1 <= audit.record
                         THEN Null ELSE audit.record
      /\ audit'.depth = IF audit.depth = n - 1 THEN Null ELSE audit.depth
      /\ audit'.family = audit.family /\ audit'.document = audit.document
      /\ audit'.envelope = audit.envelope /\ audit'.header = audit.header
      /\ audit'.docDepth = audit.docDepth /\ audit'.id = audit.id
      /\ audit'.awaiting = audit.awaiting /\ audit'.index = audit.index
  <2>1. n \in Nat
    BY <1>4
  <2>. QED BY <1>2, <1>3, <2>1, AuditClosed, Zenon
<1>. QED BY <1>1, <1>4, <1>5, <1>6, <1>7

\* What the end of an element does to the message the cursor is in.
LEMMA EndsOwn ==
  ASSUME WalkInv, ElementEnds
  PROVE  IF own.depth = Len(path) - 1 THEN own' = NoMessage
         ELSE /\ own'.depth = own.depth /\ own'.family = own.family
              /\ own'.id = own.id /\ own'.records = own.records
              /\ own'.container = own.container
              /\ own'.amended = own.amended /\ own'.parties = own.parties
              /\ own'.record = (IF own.record = Len(path) - 1 THEN Null ELSE own.record)
<1>. DEFINE r == IF own.record = Len(path) - 1 THEN Null ELSE own.record
<1>1. own \in Owns
  BY Places
<1>2. own' = IF own.depth = Len(path) - 1 THEN NoMessage
             ELSE [own EXCEPT !.record = r]
  BY DEF ElementEnds
<1>. HIDE DEF r
<1>3. own.depth # Len(path) - 1 =>
        /\ own'.depth = own.depth /\ own'.family = own.family
        /\ own'.id = own.id /\ own'.records = own.records
        /\ own'.container = own.container
        /\ own'.amended = own.amended /\ own'.parties = own.parties
        /\ own'.record = r
  BY <1>1, <1>2 DEF Owns
<1>. QED BY <1>2, <1>3 DEF r

\* What the end of a Document, or of a bare container, does to the file.
LEMMA EndsPast ==
  ASSUME WalkInv, ElementEnds
  PROVE  /\ past'.messages = past.messages /\ past'.form = past.form
         /\ past'.envelope = past.envelope /\ past'.heard = past.heard
         /\ past'.empty = past.empty
         /\ IF Here = "Document" \/ (Here \in Containers /\ past.form = "bare")
            THEN /\ past'.binding = Null /\ past'.child = Null /\ past'.header = Null
                 /\ past'.hidden = (past.hidden \/ past.empty)
            ELSE PastStays
<1>1. past \in Pasts
  BY Places
<1>2. past' = IF Here = "Document" \/ (Here \in Containers /\ past.form = "bare")
              THEN [past EXCEPT !.binding = Null, !.child = Null, !.header = Null,
                                !.free = TRUE, !.hidden = @ \/ past.empty]
              ELSE past
  BY DEF ElementEnds
<1>3. CASE Here = "Document" \/ (Here \in Containers /\ past.form = "bare")
  <2>. DEFINE x == past.hidden \/ past.empty
  <2>1. past' = [past EXCEPT !.binding = Null, !.child = Null, !.header = Null,
                             !.free = TRUE, !.hidden = x]
    BY <1>2, <1>3
  <2>. HIDE DEF x
  <2>2. /\ past'.messages = past.messages /\ past'.form = past.form
        /\ past'.envelope = past.envelope /\ past'.heard = past.heard
        /\ past'.empty = past.empty
        /\ past'.binding = Null /\ past'.child = Null /\ past'.header = Null
        /\ past'.hidden = x
    BY <1>1, <2>1 DEF Pasts
  <2>. QED BY <1>3, <2>2 DEF x
<1>4. CASE ~(Here = "Document" \/ (Here \in Containers /\ past.form = "bare"))
  BY <1>2, <1>4 DEF PastStays
<1>. QED BY <1>3, <1>4

\* The end of an element in a message that goes on.
LEMMA EndsWithin ==
  ASSUME WalkInv, IdentityInv, ElementEnds, InMessage, own.depth # Len(path) - 1
  PROVE  IdentityInv' /\ PastStays
<1>. DEFINE n == Len(path)
<1>1. FileInv /\ OwnInv /\ NamedInv /\ DepthInv /\ WhoseInv /\ RecordInv /\ PlaceInv
  BY DEF IdentityInv
<1>2. past \in Pasts /\ path \in Seq(Elements) /\ audit \in Audits /\ own \in Owns
  BY Places
<1>3. /\ n \in Nat \ {0} /\ path # <<>> /\ Here = path[n]
      /\ DOMAIN path = 1 .. n /\ DOMAIN path' = 1 .. n - 1
      /\ Len(path') = n - 1 /\ path' \in Seq(Elements)
      /\ \A i \in 1 .. n - 1 : path'[i] = path[i] /\ Rank(path[i]) < Rank(Here)
      /\ InDocument' <=> InDocument /\ Here # "Document"
  BY EndsFields
<1>4. /\ audit'.open = IF audit.open # Null /\ audit.open.depth = n - 1
                       THEN Null ELSE audit.open
      /\ audit'.record = IF audit.record # Null /\ n - 1 <= audit.record
                         THEN Null ELSE audit.record
      /\ audit'.depth = IF audit.depth = n - 1 THEN Null ELSE audit.depth
      /\ audit'.family = audit.family /\ audit'.document = audit.document
      /\ audit'.envelope = audit.envelope /\ audit'.header = audit.header
      /\ audit'.docDepth = audit.docDepth /\ audit'.id = audit.id
      /\ audit'.awaiting = audit.awaiting /\ audit'.index = audit.index
  BY EndsFields
<1>5. /\ own'.depth = own.depth /\ own'.family = own.family
      /\ own'.id = own.id /\ own'.records = own.records
      /\ own'.amended = own.amended /\ own'.container = own.container
      /\ own'.record = (IF own.record = n - 1 THEN Null ELSE own.record)
  BY EndsOwn
<1>6. own.depth \in Nat /\ own.depth + 1 \in 1 .. n - 1
  <2>1. own.depth \in Nat /\ own.depth + 1 \in 1 .. n
    BY <1>1, Settled
  <2>. QED BY <1>3, <2>1
<1>7. Here # "Document" /\ ~(Here \in Containers /\ past.form = "bare")
  <2>. DEFINE outer == path[own.depth + 1]
  <2>1. Rank(outer) < Rank(Here)
    BY <1>3, <1>6
  <2>2. \/ outer \in Containers
        \/ outer = "Document"
    BY <1>1 DEF OwnInv
  <2>3. outer = "Document" => past.form = "documents"
    <3>1. own.depth + 1 \in DOMAIN path
      BY <1>3, <1>6
    <3>. QED BY <1>1, <3>1 DEF FileInv, InDocument
  <2>4. /\ Rank("Document") = 2 /\ \A c \in Containers : Rank(c) = 4
    BY Ranks
  <2>5. outer \in Containers => Rank(Here) > 4
    BY <2>1, <2>4
  <2>6. outer = "Document" => Rank(Here) > 2
    BY <2>1, <2>4
  <2>. HIDE DEF outer
  <2>. QED BY <2>2, <2>3, <2>4, <2>5, <2>6
<1>8. PastStays
  BY <1>7, EndsPast
<1>9. /\ (FirstHeaderNames' <=> FirstHeaderNames) /\ (Lost' <=> Lost)
      /\ (InDocument' <=> InDocument) /\ InMessage'
      /\ ~Childless /\ ~Childless'
  <2>1. InDocument' <=> InDocument
    BY <1>3, <1>7
  <2>. QED BY <1>1, <1>5, <1>8, <2>1, FirstHeaderStays DEF InMessage, OwnInv, Childless, PastStays
<1>10. FileInv'
  BY <1>1, <1>8, <1>9 DEF FileInv, PastStays
<1>11. OwnInv'
  <2>1. /\ past'.messages > 0 /\ own'.depth + 1 \in DOMAIN path'
        /\ path'[own'.depth + 1] = path[own.depth + 1]
    BY <1>1, <1>3, <1>5, <1>6, <1>8 DEF OwnInv, PastStays
  <2>. QED BY <1>1, <1>8, <1>9, <2>1 DEF OwnInv, PastStays
<1>12. NamedInv'
  BY <1>1, <1>4, <1>8, <1>9 DEF NamedInv, PastStays
<1>13. DepthInv'
  <2>1. CASE audit.depth = own.depth
    <3>1. audit'.depth = own'.depth
      BY <1>4, <1>5, <2>1
    <3>. QED BY <1>9, <3>1 DEF DepthInv
  <2>2. CASE audit.depth # own.depth
    <3>1. Claimed /\ audit.depth < own.depth /\ past.hidden
      BY <1>1, <2>2 DEF DepthInv
    <3>2. audit.depth \in Nat
      BY <1>2, <3>1 DEF Claimed, Audits
    <3>3. audit.depth # n - 1 /\ audit.depth + 1 \in 1 .. n - 1
      BY <1>3, <1>6, <3>1, <3>2
    <3>4. audit'.depth = audit.depth
      BY <1>4, <3>3
    <3>5. Claimed'
      BY <1>3, <1>8, <3>1, <3>3, <3>4 DEF Claimed, PastStays
    <3>. QED BY <1>5, <1>8, <1>9, <3>1, <3>4, <3>5 DEF DepthInv, PastStays
  <2>. QED BY <2>1, <2>2
<1>14. WhoseInv'
  <2>1. Called(own.family)' = Called(own.family)
    BY <1>5, <1>8, CalledStays
  <2>. QED BY <1>1, <1>4, <1>5, <2>1 DEF WhoseInv
<1>15. RecordInv'
  <2>1. audit.record # Null =>
          audit.record \in own.depth + 1 .. n - 1 /\ audit.record \in Nat
    BY <1>1, <1>2 DEF RecordInv, Audits
  <2>2. ~own.amended => audit.record = own.record
    BY <1>1 DEF RecordInv
  <2>3. audit'.record = IF audit.record = n - 1 THEN Null ELSE audit.record
    BY <1>3, <1>4, <1>6, <2>1, NullAssumption
  <2>4. ~own'.amended => audit'.record = own'.record
    BY <1>4, <1>5, <2>2, <2>3
  <2>5. audit'.record # Null => audit'.record \in own.depth + 1 .. n - 1 - 1
    BY <1>3, <1>6, <2>1, <2>3
  <2>6. audit'.index = own'.records + IF own'.amended THEN 1 ELSE 0
    BY <1>1, <1>4, <1>5 DEF RecordInv
  <2>7. audit'.record # Null => own'.record # Null /\ own'.record <= audit'.record
    <3>. SUFFICES ASSUME audit'.record # Null
                  PROVE  own'.record # Null /\ own'.record <= audit'.record
      OBVIOUS
    <3>1. audit'.record = audit.record /\ audit.record # Null /\ audit.record # n - 1
      BY <2>3
    <3>2. own.record # Null /\ own.record <= audit.record /\ own.record \in Nat
      BY <1>1, <1>2, <3>1 DEF RecordInv, Owns
    <3>3. own.record # n - 1
      BY <1>3, <2>1, <3>1, <3>2
    <3>. QED BY <1>5, <3>1, <3>2, <3>3
  <2>. QED BY <1>3, <1>5, <1>9, <2>4, <2>5, <2>6, <2>7 DEF RecordInv
<1>16. PlaceInv'
  <2>1. CASE audit.open = Null \/ audit.open.depth = n - 1
    BY <1>4, <2>1 DEF PlaceInv
  <2>2. CASE audit.open # Null /\ audit.open.depth # n - 1
    <3>1. audit.open.depth \in 0 .. n - 1
      BY <1>3, <2>2, PartyPlace
    <3>2. audit.open.depth \in 0 .. n - 1 - 1
      BY <1>3, <2>2, <3>1
    <3>3. own.record # Null => own.record < audit.open.depth /\ own.record \in Nat
      BY <1>1, <1>2, <2>2 DEF PlaceInv, Owns
    <3>4. own'.record = own.record
      BY <1>3, <1>5, <3>2, <3>3
    <3>5. PlaceStays
      BY <1>4, <2>2 DEF PlaceStays
    <3>6. /\ audit.open.depth + 1 <= Len(path')
          /\ \A i \in 1 .. audit.open.depth + 1 : path'[i] = path[i]
      BY <1>3, <3>2
    <3>7. own'.amended <=> own.amended
      BY <1>5
    <3>. QED BY <1>1, <1>3, <1>5, <1>9, <3>4, <3>5, <3>6, <3>7, PlaceGoesOn
  <2>. QED BY <2>1, <2>2
<1>. QED
  BY <1>8, <1>10, <1>11, <1>12, <1>13, <1>14, <1>15, <1>16 DEF IdentityInv

\* The end of a message: of its container, or of the Document that was it.
LEMMA EndsMessage ==
  ASSUME WalkInv, IdentityInv, ElementEnds, InMessage, own.depth = Len(path) - 1
  PROVE  IdentityInv' /\ audit.open = Null
<1>. DEFINE n == Len(path)
<1>1. FileInv /\ OwnInv /\ NamedInv /\ DepthInv /\ RecordInv
  BY DEF IdentityInv
<1>2. past \in Pasts /\ path \in Seq(Elements) /\ audit \in Audits
  BY Places
<1>3. /\ n \in Nat \ {0} /\ path # <<>> /\ Here = path[n]
      /\ DOMAIN path = 1 .. n /\ DOMAIN path' = 1 .. n - 1
      /\ \A i \in 1 .. n - 1 : path'[i] = path[i] /\ Rank(path[i]) < Rank(Here)
      /\ InDocument' <=> InDocument /\ Here # "Document"
  BY EndsFields
<1>4. /\ audit'.open = IF audit.open # Null /\ audit.open.depth = n - 1
                       THEN Null ELSE audit.open
      /\ audit'.record = IF audit.record # Null /\ n - 1 <= audit.record
                         THEN Null ELSE audit.record
      /\ audit'.depth = IF audit.depth = n - 1 THEN Null ELSE audit.depth
      /\ audit'.document = audit.document
      /\ audit'.envelope = audit.envelope /\ audit'.header = audit.header
      /\ audit'.awaiting = audit.awaiting
  BY EndsFields
<1>5. own' = NoMessage /\ ~InMessage'
  <2>1. own' = NoMessage
    BY EndsOwn
  <2>. QED BY <2>1 DEF InMessage, NoMessage
<1>6. /\ Here \in Containers \/ (Here = "Document" /\ past.child = Wrapper)
      /\ past.messages > 0 /\ ~Childless /\ ~audit.awaiting
  <2>1. n - 1 + 1 = n
    BY <1>3
  <2>. QED BY <1>1, <1>3, <2>1, Settled DEF OwnInv
<1>7. Rank(Here) <= 4
  <2>1. Rank("Document") = 2 /\ \A c \in Containers : Rank(c) = 4
    BY Ranks
  <2>. QED BY <1>6, <2>1
<1>8. audit.open = Null
  <2>1. Rank(Here) < 7
    BY <1>7, RankTells
  <2>. QED BY <1>3, <2>1, PartyPlace
<1>9. audit.record = Null /\ audit'.record = Null /\ audit'.open = Null
  <2>1. audit.record # Null => audit.record \in n - 1 + 1 .. n - 1
    BY <1>1 DEF RecordInv
  <2>2. n - 1 + 1 .. n - 1 = {}
    BY <1>3
  <2>. QED BY <1>4, <1>8, <2>1, <2>2
<1>10. /\ past'.messages = past.messages /\ past'.form = past.form
       /\ past'.envelope = past.envelope /\ past'.heard = past.heard
       /\ IF Here = "Document" \/ (Here \in Containers /\ past.form = "bare")
          THEN past'.binding = Null /\ past'.child = Null /\ past'.header = Null
          ELSE PastStays
  BY EndsPast
<1>11. ~Lost'
  BY <1>2, <1>6, <1>10 DEF Lost, Pasts
<1>12. /\ (Here = "Document" \/ (Here \in Containers /\ past.form = "bare")) => ~InDocument'
       /\ ~Childless'
  <2>1. past.form = "bare" => ~InDocument
    BY <1>1 DEF FileInv
  <2>. QED BY <1>3, <1>6, <1>10, <2>1 DEF Childless, PastStays
<1>13. FileInv'
  <2>1. MessageDefinition(Null) = Null
    BY IdentsAre
  <2>. QED BY <1>1, <1>3, <1>10, <1>11, <1>12, <2>1 DEF FileInv, PastStays
<1>14. OwnInv'
  <2>1. \A i \in 1 .. n - 1 : Rank(path'[i]) < 4
    <3>. SUFFICES ASSUME NEW i \in 1 .. n - 1 PROVE Rank(path'[i]) < 4
      OBVIOUS
    <3>1. Rank(path'[i]) \in 0 .. 9 /\ Rank(Here) \in 0 .. 9
      BY RankTells
    <3>2. Rank(path'[i]) < Rank(Here)
      BY <1>3
    <3>. QED BY <1>7, <3>1, <3>2
  <2>2. \A i \in DOMAIN path' : Rank(path'[i]) < 4
    BY <1>3, <2>1
  <2>. QED BY <1>5, <2>2 DEF OwnInv, NoMessage
<1>15. NamedInv'
  BY <1>1, <1>3, <1>4, <1>6, <1>10, <1>12 DEF NamedInv, PastStays
<1>16. DepthInv'
  <2>1. CASE audit.depth = n - 1
    BY <1>4, <1>5, <2>1 DEF DepthInv
  <2>2. CASE audit.depth # n - 1
    <3>1. Claimed /\ audit.depth < n - 1 /\ past.hidden
      BY <1>1, <2>2 DEF DepthInv
    <3>2. audit.depth \in Nat
      BY <1>2, <3>1 DEF Claimed, Audits
    <3>3. audit.depth + 1 \in 1 .. n - 1
      BY <1>3, <3>1, <3>2
    <3>4. audit'.depth = audit.depth
      BY <1>4, <2>2
    <3>5. path[audit.depth + 1] = "Document" /\ InDocument
      BY <3>1, NoneClaimed DEF Claimed
    <3>6. Here # "Document" /\ past.form # "bare"
      <4>1. Rank(path[audit.depth + 1]) < Rank(Here) /\ Rank("Document") = 2
        BY <1>3, <3>3, Ranks
      <4>2. past.form = "documents"
        BY <1>1, <3>5 DEF FileInv
      <4>. QED BY <3>5, <4>1, <4>2
    <3>7. PastStays
      BY <1>10, <3>6
    <3>8. Claimed'
      BY <1>3, <3>1, <3>3, <3>4, <3>7 DEF Claimed, PastStays
    <3>. QED BY <1>5, <3>1, <3>7, <3>8 DEF DepthInv, PastStays
  <2>. QED BY <2>1, <2>2
<1>17. WhoseInv'
  BY <1>5 DEF WhoseInv
<1>18. RecordInv'
  BY <1>5, <1>9 DEF RecordInv, NoMessage
<1>19. PlaceInv'
  BY <1>9 DEF PlaceInv
<1>. QED
  BY <1>8, <1>13, <1>14, <1>15, <1>16, <1>17, <1>18, <1>19 DEF IdentityInv

\* The end of an element of the frame.
LEMMA EndsOutside ==
  ASSUME WalkInv, IdentityInv, ElementEnds, ~InMessage
  PROVE  IdentityInv' /\ audit.open = Null
<1>. DEFINE n == Len(path)
<1>1. FileInv /\ OwnInv /\ NamedInv /\ DepthInv /\ RecordInv
  BY DEF IdentityInv
<1>2. past \in Pasts /\ path \in Seq(Elements) /\ audit \in Audits /\ Nested
  BY Places
<1>3. /\ n \in Nat \ {0} /\ path # <<>> /\ Here = path[n]
      /\ DOMAIN path = 1 .. n /\ DOMAIN path' = 1 .. n - 1
      /\ \A i \in 1 .. n - 1 : path'[i] = path[i] /\ Rank(path[i]) < Rank(Here)
      /\ InDocument' <=> InDocument /\ Here # "Document"
  BY EndsFields
<1>4. /\ audit'.open = IF audit.open # Null /\ audit.open.depth = n - 1
                       THEN Null ELSE audit.open
      /\ audit'.record = IF audit.record # Null /\ n - 1 <= audit.record
                         THEN Null ELSE audit.record
      /\ audit'.depth = IF audit.depth = n - 1 THEN Null ELSE audit.depth
      /\ audit'.document = audit.document /\ audit'.family = audit.family
      /\ audit'.envelope = audit.envelope /\ audit'.header = audit.header
      /\ audit'.awaiting = audit.awaiting
      /\ audit'.id = audit.id /\ audit'.index = audit.index
  BY EndsFields
<1>5. own = NoMessage /\ \A i \in 1 .. n : Rank(path[i]) < 4
  BY <1>1, <1>3 DEF OwnInv
<1>6. own' = NoMessage /\ ~InMessage'
  <2>1. n - 1 \in Nat
    BY <1>3
  <2>2. own' = IF own.depth = n - 1 THEN NoMessage
               ELSE [own EXCEPT !.record = IF @ = n - 1 THEN Null ELSE @]
    BY DEF ElementEnds
  <2>3. own' = NoMessage
    <3>1. Null # n - 1
      BY <2>1, NullAssumption
    <3>2. own.depth = Null /\ own.record = Null
      BY <1>5 DEF NoMessage
    <3>3. own' = [own EXCEPT !.record = Null]
      BY <2>2, <3>1, <3>2
    <3>. QED BY <1>5, <3>3 DEF NoMessage
  <2>. QED BY <2>3 DEF InMessage, NoMessage
<1>7. Rank(Here) < 4 /\ Here \notin Containers
  <2>1. n \in 1 .. n
    BY <1>3
  <2>2. Rank(Here) < 4
    BY <1>3, <1>5, <2>1
  <2>. QED BY <2>2, Ranks
<1>8. audit.open = Null
  <2>1. Rank(Here) < 7
    BY <1>7, RankTells
  <2>. QED BY <1>3, <2>1, PartyPlace
<1>9. audit.record = Null /\ audit'.record = Null /\ audit'.open = Null
  BY <1>1, <1>4, <1>8 DEF RecordInv
<1>10. OwnInv'
  <2>1. \A i \in DOMAIN path' : Rank(path'[i]) < 4
    BY <1>3, <1>5
  <2>. QED BY <1>6, <2>1 DEF OwnInv, NoMessage
<1>11. WhoseInv' /\ RecordInv' /\ PlaceInv'
  BY <1>6, <1>9 DEF WhoseInv, RecordInv, PlaceInv, NoMessage
<1>12. /\ past'.messages = past.messages /\ past'.form = past.form
       /\ past'.envelope = past.envelope /\ past'.heard = past.heard
       /\ IF Here = "Document" \/ (Here \in Containers /\ past.form = "bare")
          THEN /\ past'.binding = Null /\ past'.child = Null /\ past'.header = Null
               /\ past'.hidden = (past.hidden \/ past.empty)
          ELSE PastStays
  BY EndsPast
<1>13. CASE Here = "Document"
  <2>1. InDocument /\ ~Lost /\ past.form = "documents"
    BY <1>1, <1>13, DocumentPlace DEF FileInv
  <2>2. ~InDocument' /\ ~Childless'
    BY <1>3, <1>13 DEF Childless
  <2>3. /\ past'.binding = Null /\ past'.child = Null /\ past'.header = Null
        /\ past'.hidden = (past.hidden \/ past.empty)
    BY <1>12, <1>13
  <2>4. FileInv'
    <3>1. MessageDefinition(Null) = Null
      BY IdentsAre
    <3>. QED BY <1>12, <2>1, <2>2, <2>3, <3>1, NullAssumption DEF FileInv
  <2>5. audit.awaiting => Lost'
    <3>1. audit.awaiting => past.empty
      BY <1>1, <2>1 DEF NamedInv, FileInv
    <3>2. past.empty => past.messages = 0
      BY <1>13 DEF ElementEnds
    <3>. QED BY <1>12, <2>3, <3>1, <3>2 DEF Lost
  <2>6. NamedInv'
    BY <1>1, <1>4, <1>12, <2>1, <2>2, <2>5 DEF NamedInv
  <2>7. audit'.depth = Null
    <3>1. CASE audit.depth = Null
      BY <1>4, <3>1
    <3>2. CASE audit.depth # Null
      <4>1. Claimed
        BY <1>1, <2>1, <3>2 DEF DepthInv
      <4>2. /\ audit.depth \in Nat /\ audit.depth + 1 \in 1 .. n
            /\ path[audit.depth + 1] = "Document"
        BY <1>2, <1>3, <4>1 DEF Claimed, Audits
      <4>3. audit.depth + 1 = n
        BY <1>2, <1>3, <1>13, <4>2, HereRank
      <4>4. audit.depth = n - 1
        BY <4>2, <4>3
      <4>. QED BY <1>4, <4>4
    <3>. QED BY <3>1, <3>2
  <2>8. DepthInv'
    BY <1>6, <2>7 DEF DepthInv
  <2>. QED BY <1>8, <1>10, <1>11, <2>4, <2>6, <2>8 DEF IdentityInv
<1>14. CASE Here # "Document"
  <2>1. PastStays /\ (InDocument' <=> InDocument)
    BY <1>3, <1>7, <1>12, <1>14
  <2>2. ~Childless /\ ~Childless' /\ (Lost' <=> Lost)
    BY <1>1, <1>14, <2>1, FirstHeaderStays DEF FileInv, Childless, PastStays
  <2>3. FileInv'
    BY <1>1, <2>1, <2>2 DEF FileInv, PastStays
  <2>4. NamedInv'
    BY <1>1, <1>4, <2>1, <2>2 DEF NamedInv, PastStays
  <2>5. DepthInv'
    <3>1. CASE audit.depth = Null
      BY <1>4, <1>6, <3>1 DEF DepthInv
    <3>2. CASE Lost
      BY <1>6, <2>2, <3>2 DEF DepthInv
    <3>3. CASE /\ audit.depth # Null /\ ~Lost
      <4>1. Claimed /\ (past.hidden \/ Fresh)
        BY <1>1, <3>3 DEF DepthInv
      <4>2. /\ audit.depth \in Nat /\ audit.depth + 1 \in 1 .. n
            /\ path[audit.depth + 1] = "Document"
        BY <1>2, <1>3, <4>1 DEF Claimed, Audits
      <4>3. audit.depth + 1 # n
        BY <1>3, <1>14, <4>2
      <4>4. audit.depth # n - 1 /\ audit.depth + 1 \in 1 .. n - 1
        BY <1>3, <4>2, <4>3
      <4>5. audit'.depth = audit.depth
        BY <1>4, <4>4
      <4>6. Claimed'
        BY <1>3, <2>1, <4>1, <4>4, <4>5 DEF Claimed, PastStays
      <4>7. Fresh => Fresh'
        BY <1>4, <2>1 DEF Fresh, PastStays
      <4>. QED BY <1>6, <2>1, <4>1, <4>6, <4>7 DEF DepthInv, PastStays
    <3>. QED BY <3>1, <3>2, <3>3
  <2>. QED BY <1>8, <1>10, <1>11, <2>3, <2>4, <2>5 DEF IdentityInv
<1>. QED BY <1>13, <1>14

\* The rest of a sequence, read from the end.
LEMMA Backwards ==
  ASSUME NEW s \in Seq(Elements), NEW r \in Nat, r <= Len(s)
  PROVE  LET t == Reverse(SubSeq(s, r + 1, Len(s)))
         IN  /\ t \in Seq(Elements) /\ Len(t) = Len(s) - r
             /\ \A k \in 1 .. Len(s) - r : t[k] = s[Len(s) - k + 1]
<1>. DEFINE n == Len(s)
            m == n - r
            a == SubSeq(s, r + 1, n)
            t == Reverse(a)
<1>1. n \in Nat /\ m \in Nat /\ n = r + m
  OBVIOUS
<1>2. /\ a \in Seq(Elements) /\ Len(a) = m
      /\ \A k \in 1 .. m : a[k] = s[r + k]
  <2>1. r <= n /\ n <= Len(s)
    BY <1>1
  <2>. QED BY <1>1, <2>1, Stretch
<1>. HIDE DEF n, m, a
<1>3. t = [k \in 1 .. m |-> a[m - k + 1]]
  BY <1>2 DEF Reverse
<1>4. ASSUME NEW k \in 1 .. m
      PROVE  a[m - k + 1] \in Elements /\ a[m - k + 1] = s[n - k + 1]
  <2>1. m - k + 1 \in 1 .. m /\ r + (m - k + 1) = n - k + 1
    BY <1>1
  <2>2. a[m - k + 1] = s[r + (m - k + 1)]
    BY <1>2, <2>1
  <2>3. a[m - k + 1] \in Elements
    BY <1>2, <2>1
  <2>. QED BY <2>1, <2>2, <2>3
<1>. HIDE DEF t
<1>5. t \in Seq(Elements) /\ Len(t) = m
  <2>1. t \in [1 .. m -> Elements]
    BY <1>3, <1>4
  <2>. QED BY <1>1, <2>1
<1>6. \A k \in 1 .. m : t[k] = s[n - k + 1]
  BY <1>3, <1>4
<1>. QED BY <1>5, <1>6 DEF n, m, a, t

\* What is left of a stretch of a sequence is the end of it.
LEMMA LaterIsSuffix ==
  ASSUME NEW s \in Seq(Elements), NEW r \in Nat, NEW q \in Nat, r <= q, q < Len(s)
  PROVE  IsSuffix(SubSeq(s, q + 1, Len(s)), SubSeq(s, r + 1, Len(s)))
<1>. DEFINE n == Len(s)
            a == SubSeq(s, q + 1, n)
            b == SubSeq(s, r + 1, n)
            ra == Reverse(a)
            rb == Reverse(b)
<1>1. n \in Nat /\ \A i \in 1 .. n : s[i] \in Elements
  OBVIOUS
<1>. HIDE DEF n, a, b
<1>4. /\ ra \in Seq(Elements) /\ Len(ra) = n - q
      /\ \A k \in 1 .. n - q : ra[k] = s[n - k + 1]
  BY Backwards DEF n, a
<1>5. /\ rb \in Seq(Elements) /\ Len(rb) = n - r
      /\ \A k \in 1 .. n - r : rb[k] = s[n - k + 1]
  <2>1. r <= n
    BY <1>1 DEF n
  <2>. QED BY <2>1, Backwards DEF n, b
<1>. HIDE DEF ra, rb
<1>6. Len(ra) <= Len(rb) /\ SubSeq(ra, 1, Len(ra)) = SubSeq(rb, 1, Len(ra))
  <2>. DEFINE m == n - q
              x == SubSeq(ra, 1, m)
              y == SubSeq(rb, 1, m)
  <2>1. m \in Nat /\ m <= n - r /\ \A k \in 1 .. m : k \in 1 .. n - r
    BY <1>1 DEF n
  <2>2. x \in Seq(Elements) /\ Len(x) = m /\ \A k \in 1 .. m : x[k] = ra[k]
    <3>1. \A k \in 1 .. m : ra[k] \in Elements
      BY <1>4
    <3>. HIDE DEF m
    <3>2. /\ x \in Seq(Elements) /\ Len(x) = IF 1 <= m THEN m - 1 + 1 ELSE 0
          /\ \A k \in 1 .. m - 1 + 1 : x[k] = ra[1 + k - 1]
      BY <2>1, <3>1, SubSeqProperties
    <3>. HIDE DEF x
    <3>. QED BY <2>1, <3>2
  <2>3. y \in Seq(Elements) /\ Len(y) = m /\ \A k \in 1 .. m : y[k] = rb[k]
    <3>1. \A k \in 1 .. m : rb[k] \in Elements
      BY <1>5, <2>1
    <3>. HIDE DEF m
    <3>2. /\ y \in Seq(Elements) /\ Len(y) = IF 1 <= m THEN m - 1 + 1 ELSE 0
          /\ \A k \in 1 .. m - 1 + 1 : y[k] = rb[1 + k - 1]
      BY <2>1, <3>1, SubSeqProperties
    <3>. HIDE DEF y
    <3>. QED BY <2>1, <3>2
  <2>4. \A k \in 1 .. m : ra[k] = rb[k]
    BY <1>4, <1>5, <2>1
  <2>. HIDE DEF x, y
  <2>5. x = y
    <3>. HIDE DEF m
    <3>. QED BY <2>2, <2>3, <2>4
  <2>. QED BY <1>4, <1>5, <2>1, <2>5 DEF x, y
<1>7. IsSuffix(a, b)
  BY <1>6 DEF IsSuffix, IsPrefix, ra, rb
<1>. QED BY <1>7 DEF a, b, n

\* The row of a party that ends is the one it is due.
LEMMA RowIsDue ==
  ASSUME WalkInv, PartyInv, IdentityInv, ElementEnds
  PROVE  IdentityInv' /\ PartiesAreTheMessages'
<1>. DEFINE n == Len(path)
<1>1. WhoseInv /\ PlaceInv
  BY DEF IdentityInv
<1>2. path \in Seq(Elements) /\ own \in Owns /\ party \in Addresses
  BY Places
<1>3. EndsWell
  BY EndsStep
<1>4. IdentityInv'
  <2>1. CASE InMessage /\ own.depth # n - 1
    BY <2>1, EndsWithin
  <2>2. CASE InMessage /\ own.depth = n - 1
    BY <2>2, EndsMessage
  <2>3. CASE ~InMessage
    BY <2>3, EndsOutside
  <2>. QED BY <2>1, <2>2, <2>3
<1>5. CASE Here # "Dbtr"
  BY <1>3, <1>4, <1>5 DEF EndsWell, PartiesAreTheMessages
<1>6. CASE Here = "Dbtr"
  <2>1. path # <<>> /\ audit.open # Null /\ audit.open.depth = n - 1 /\ n \in Nat
    <3>1. "Dbtr" # Null /\ Rank("Dbtr") = 7
      BY FixedNames, Places, Ranks
    <3>2. path # <<>>
      BY <1>6, <3>1, Places
    <3>. QED BY <1>2, <1>6, <3>1, <3>2, PartyPlace
  <2>2. InMessage /\ own.depth # n - 1
    <3>1. InMessage
      BY <1>1, <2>1 DEF PlaceInv
    <3>. QED BY <2>1, <3>1, EndsMessage
  <2>3. PastStays
    BY <2>2, EndsWithin
  <2>4. /\ own'.amended = own.amended /\ own'.container = own.container
        /\ own'.family = own.family
    BY <2>2, EndsOwn
  <2>5. Called(own.family)' = Called(own.family)
    BY <2>3, <2>4, CalledStays
  <2>6. /\ given'.family = audit.family /\ given'.id = audit.id
        /\ given'.index = audit.open.index /\ given'.at = audit.open.at
        /\ due' = DueRow /\ given' # Null /\ due' # Null
    BY <1>3, <1>6 DEF EndsWell
  <2>7. /\ DueRow.family = own.family /\ DueRow.id = own.id
        /\ DueRow.index = IF own.record = Null THEN Null ELSE own.records
        /\ DueRow.at = IF own.record = Null THEN <<"Dbtr">>
                       ELSE SubSeq(path, own.record + 1, n)
    BY <1>2, DueRowIs
  <2>8. audit.id = own.id /\ audit.family = Called(own.family)
    BY <1>1, <2>2 DEF WhoseInv
  <2>9. ~own.amended =>
          /\ audit.open.index = IF own.record = Null THEN Null ELSE own.records
          /\ audit.open.at = IF own.record = Null THEN <<"Dbtr">>
                             ELSE SubSeq(path, own.record + 1, n)
    <3>1. n - 1 + 1 = n
      BY <2>1
    <3>. HIDE DEF n
    <3>. QED BY <1>1, <2>1, <3>1 DEF PlaceInv
  <2>10. given'.family = Called(due.family)'
    <3>1. due'.family = own'.family
      BY <2>4, <2>6, <2>7
    <3>2. Called(due.family)' = Called(own.family)'
      BY <3>1, Zenon DEF Called
    <3>. QED BY <2>5, <2>6, <2>8, <3>2
  <2>11. own.amended =>
           IF own.record = Null THEN OutsideRecords
           ELSE /\ audit.open.index \in {Null, own.records + 1}
                /\ IsSuffix(audit.open.at, SubSeq(path, own.record + 1, n))
    <3>. SUFFICES ASSUME own.amended, own.record # Null
                  PROVE  /\ audit.open.index \in {Null, own.records + 1}
                         /\ IsSuffix(audit.open.at, SubSeq(path, own.record + 1, n))
      BY <1>1, <2>1 DEF PlaceInv
    <3>1. InAmended
      BY <1>1, <2>1 DEF PlaceInv
    <3>2. PICK q \in own.record .. n - 1 : audit.open.at = SubSeq(path, q + 1, n - 1 + 1)
      BY <2>1, <3>1 DEF InAmended
    <3>3. own.record \in Nat
      BY <1>2 DEF Owns
    <3>4. q \in Nat /\ own.record <= q /\ q < n /\ n - 1 + 1 = n
      BY <2>1, <3>3
    <3>5. IsSuffix(SubSeq(path, q + 1, n), SubSeq(path, own.record + 1, n))
      BY <1>2, <3>3, <3>4, LaterIsSuffix DEF n
    <3>. HIDE DEF n
    <3>. QED BY <3>1, <3>2, <3>4, <3>5 DEF InAmended
  <2>. HIDE DEF n
  <2>12. /\ own'.amended \in BOOLEAN
         /\ own.records # Null
    BY <1>2, <2>4, NullAssumption DEF Owns
  <2>13. /\ due'.index = IF own.record = Null THEN Null ELSE own.records
         /\ due'.at = IF own.record = Null THEN <<"Dbtr">>
                      ELSE SubSeq(path, own.record + 1, n)
         /\ given'.index = audit.open.index /\ given'.at = audit.open.at
         /\ given'.id = due'.id /\ given' # Null /\ due' # Null
    BY <2>6, <2>7, <2>8
  <2>14. IF own'.amended /\ due'.index # Null
         THEN /\ given'.index \in {Null, due'.index + 1}
              /\ IsSuffix(given'.at, due'.at)
         ELSE given'.index = due'.index /\ given'.at = due'.at
    <3>1. CASE own.amended /\ own.record # Null
      BY <2>4, <2>11, <2>12, <2>13, <3>1
    <3>2. CASE own.amended /\ own.record = Null
      BY <2>4, <2>11, <2>13, <3>2 DEF OutsideRecords
    <3>3. CASE ~own.amended
      BY <2>4, <2>9, <2>13, <3>3
    <3>. QED BY <3>1, <3>2, <3>3
  <2>15. PartiesAreTheMessages'
    BY <2>10, <2>13, <2>14, Zenon DEF PartiesAreTheMessages
  <2>. QED BY <1>4, <2>15
<1>. QED BY <1>5, <1>6

-----------------------------------------------------------------------------
(* Below a record the cursor is in one.                                    *)

\* A start tag keeps it, if it opens no record or the cursor is in one.
LEMMA WithinPushed ==
  ASSUME WithinInv, path \in Seq(Elements), NEW name \in Elements,
         path' = Append(path, name), own'.record = own.record,
         name \in RecordElems => own.record # Null /\ own.record < Len(path) + 1
  PROVE  WithinInv'
<1>1. /\ DOMAIN path' = 1 .. Len(path) + 1 /\ path'[Len(path) + 1] = name
      /\ \A i \in 1 .. Len(path) : path'[i] = path[i]
      /\ DOMAIN path = 1 .. Len(path) /\ Len(path) \in Nat
  BY Pushed, Innermost
<1>. SUFFICES ASSUME NEW i \in 1 .. Len(path) + 1, path'[i] \in RecordElems
              PROVE  own.record # Null /\ own.record < i
  BY <1>1 DEF WithinInv
<1>2. CASE i = Len(path) + 1
  BY <1>1, <1>2
<1>3. CASE i # Len(path) + 1
  <2>1. i \in DOMAIN path /\ path[i] \in RecordElems
    BY <1>1, <1>3
  <2>. QED BY <2>1 DEF WithinInv
<1>. QED BY <1>2, <1>3

\* Where no record is open, there is nothing to keep.
LEMMA NoRecordAbove ==
  ASSUME path \in Seq(Elements), \A i \in DOMAIN path : Rank(path[i]) <= 4
  PROVE  \A i \in DOMAIN path : path[i] \notin RecordElems
<1>1. \A i \in DOMAIN path : path[i] \in RecordElems => Rank(path[i]) \in 5 .. 6
  BY Ranks
<1>. QED BY <1>1

\* An end tag leaves the record with the element that is one.
LEMMA WithinPopped ==
  ASSUME WalkInv, OwnInv, WithinInv, ElementEnds
  PROVE  WithinInv'
<1>. DEFINE n == Len(path)
<1>1. /\ n \in Nat \ {0} /\ Here = path[n] /\ DOMAIN path = 1 .. n
      /\ DOMAIN path' = 1 .. n - 1
      /\ \A i \in 1 .. n - 1 : path'[i] = path[i] /\ Rank(path[i]) < Rank(Here)
  BY EndsFields
<1>2. own \in Owns /\ path \in Seq(Elements) /\ Nested
  BY Places
<1>. SUFFICES ASSUME NEW i \in 1 .. n - 1, path[i] \in RecordElems
              PROVE  own'.record # Null /\ own'.record < i
  BY <1>1 DEF WithinInv
<1>3. i \in DOMAIN path /\ own.record # Null /\ own.record < i
  <2>1. i \in DOMAIN path
    BY <1>1
  <2>. QED BY <2>1 DEF WithinInv
<1>4. own.depth # n - 1
  <2>1. Rank(path[i]) >= 5
    BY Ranks
  <2>2. Rank(Here) > 5
    <3>1. Rank(path[i]) < Rank(Here)
      BY <1>1
    <3>. QED BY <2>1, <3>1, RankTells
  <2>3. own.depth = n - 1 => FALSE
    <3>. SUFFICES ASSUME own.depth = n - 1 PROVE FALSE
      OBVIOUS
    <3>1. InMessage /\ own.depth + 1 = n
      BY <1>1, NullAssumption DEF InMessage
    <3>2. Here \in Containers \/ Here = "Document"
      BY <1>1, <3>1 DEF OwnInv
    <3>. QED BY <2>2, <3>2, Ranks
  <2>. QED BY <2>3
<1>5. own'.record = (IF own.record = n - 1 THEN Null ELSE own.record)
  BY <1>4, EndsOwn
<1>6. own.record # n - 1
  BY <1>1, <1>2, <1>3 DEF Owns
<1>. QED BY <1>3, <1>5, <1>6

\* A record, and what opens in one.
LEMMA WithinRecord ==
  ASSUME WalkInv, OwnInv, WithinInv, RecordStarts \/ BlockStarts
  PROVE  WithinInv'
<1>. DEFINE n == Len(path)
<1>1. /\ path \in Seq(Elements) /\ own \in Owns /\ n \in Nat /\ Nested
      /\ DOMAIN path = 1 .. n
  BY Places, Innermost
<1>2. CASE RecordStarts
  <2>1. InContent /\ Opens(RecordName, Null)
        /\ own' = [own EXCEPT !.records = @ + 1, !.record = n]
    BY <1>2 DEF RecordStarts
  <2>2. RecordName \in Elements
    BY RecordNameIs, FixedNames
  <2>3. /\ DOMAIN path' = 1 .. n + 1
        /\ \A i \in 1 .. n : path'[i] = path[i]
    BY <1>1, <2>1, <2>2, OpensReads, Pushed
  <2>4. path # <<>> /\ Rank(Here) <= 4
    BY <2>1, ContentPlace
  <2>5. \A i \in DOMAIN path : path[i] \notin RecordElems
    <3>1. \A i \in DOMAIN path : Rank(path[i]) \in 1 .. 9 /\ Rank(path[i]) <= Rank(Here)
      BY <1>1, <2>4, HereRank
    <3>2. Rank(Here) \in 0 .. 9
      BY RankTells
    <3>3. \A i \in DOMAIN path : Rank(path[i]) <= 4
      BY <2>4, <3>1, <3>2
    <3>. QED BY <1>1, <3>3, NoRecordAbove
  <2>6. own'.record = n
    <3>. HIDE DEF n
    <3>. QED BY <1>1, <2>1 DEF Owns
  <2>7. ASSUME NEW i \in DOMAIN path', path'[i] \in RecordElems
        PROVE  own'.record # Null /\ own'.record < i
    <3>1. i = n + 1
      BY <1>1, <2>3, <2>5, <2>7
    <3>. QED BY <1>1, <2>6, <3>1, NullAssumption
  <2>. QED BY <2>7 DEF WithinInv
<1>3. CASE BlockStarts
  <2>1. /\ Here \in RecordElems
        /\ \E name \in {"Mndt", "Rcpt"} :
             /\ Opens(name, Null)
             /\ own' = [own EXCEPT !.amended = @ \/ name = "Mndt"]
    BY <1>3 DEF BlockStarts
  <2>2. PICK name \in {"Mndt", "Rcpt"} :
             /\ Opens(name, Null)
             /\ own' = [own EXCEPT !.amended = @ \/ name = "Mndt"]
    BY <2>1
  <2>3. own'.record = own.record
    BY <1>1, <2>2 DEF Owns
  <2>4. own.record # Null /\ own.record < n + 1
    <3>1. Here # Null
      BY <2>1, FixedNames, NullAssumption
    <3>2. n \in DOMAIN path /\ path[n] = Here
      BY <1>1, <3>1, Innermost
    <3>3. own.record # Null /\ own.record < n
      BY <2>1, <3>2 DEF WithinInv
    <3>. QED BY <1>1, <3>3 DEF Owns
  <2>5. name \in Elements /\ path' = Append(path, name)
    BY <2>2, FixedNames, OpensReads
  <2>. QED BY <1>1, <2>3, <2>4, <2>5, WithinPushed
<1>. QED BY <1>2, <1>3

\* A start tag that opens no record, and leaves the message in the one it is in.
LEMMA WithinOpens ==
  ASSUME WithinInv, path \in Seq(Elements), own'.record = own.record,
         NEW ident, NEW name \in Elements \ RecordElems, Opens(name, ident)
  PROVE  WithinInv'
<1>1. path' = Append(path, name)
  BY OpensReads
<1>. QED BY <1>1, WithinPushed

\* So every step keeps it.
LEMMA WithinNext ==
  ASSUME WalkInv, OwnInv, WithinInv, [Next]_vars
  PROVE  WithinInv'
<1>1. /\ path \in Seq(Elements) /\ past \in Pasts /\ own \in Owns
      /\ Len(path) \in Nat
  BY Places
<1>2. ASSUME UNCHANGED path, own'.record = own.record
      PROVE  WithinInv'
  BY <1>2 DEF WithinInv
<1>3. /\ (Frame \cup Leaf \cup Containers) \cap RecordElems = {}
      /\ {"GrpHdr", "MsgId", "Dbtr", "PstlAdr", "CtctDtls"} \cap RecordElems = {}
      /\ Frame \cup Leaf \cup Containers \subseteq Elements
      /\ {"GrpHdr", "MsgId", "Dbtr", "PstlAdr", "CtctDtls"} \subseteq Elements
  BY ContainerNames, FixedNames DEF RecordElems, Frame, Leaf, Wrapper
<1>4. CASE EnvelopeStarts \/ HeaderStarts \/ DefinitionStarts \/ DocumentStarts
  <2>1. /\ UNCHANGED own
        /\ \E name \in Frame, ident \in {Null} \cup Idents : Opens(name, ident)
    BY <1>4 DEF EnvelopeStarts, HeaderStarts, DefinitionStarts, DocumentStarts, Frame
  <2>. QED BY <1>1, <1>3, <2>1, WithinOpens
<1>5. CASE MessageStarts \/ WrapperStarts
  <2>1. \A i \in DOMAIN path : path[i] \notin RecordElems
    <3>1. path # <<>> /\ Rank(Here) <= 3
      <4>1. Here \in {"Document", Wrapper, "BizMsgEnvlp"}
        BY <1>5 DEF MessageStarts, WrapperStarts
      <4>2. Here # Null
        BY <1>3, <4>1, NullAssumption DEF Frame
      <4>. QED BY <1>1, <4>1, <4>2, Ranks, Innermost
    <3>2. \A i \in DOMAIN path : Rank(path[i]) \in 1 .. 9 /\ Rank(path[i]) <= Rank(Here)
      BY <1>1, <3>1, HereRank DEF WalkInv
    <3>3. Rank(Here) \in 0 .. 9
      BY RankTells
    <3>4. \A i \in DOMAIN path : Rank(path[i]) <= 4
      BY <3>1, <3>2, <3>3
    <3>. QED BY <1>1, <3>4, NoRecordAbove
  <2>2. \E name \in Containers \cup {Wrapper} : Opens(name, Null)
    BY <1>5 DEF MessageStarts, WrapperStarts
  <2>3. PICK name \in Containers \cup {Wrapper} : Opens(name, Null)
    BY <2>2
  <2>4. name \in Elements /\ name \notin RecordElems
    BY <1>3 DEF Frame
  <2>5. /\ DOMAIN path' = 1 .. Len(path) + 1 /\ path'[Len(path) + 1] = name
        /\ \A i \in 1 .. Len(path) : path'[i] = path[i]
        /\ DOMAIN path = 1 .. Len(path)
    BY <1>1, <2>3, <2>4, OpensReads, Pushed, Innermost
  <2>6. \A i \in DOMAIN path' : path'[i] \notin RecordElems
    BY <1>1, <2>1, <2>4, <2>5
  <2>. QED BY <2>6 DEF WithinInv
<1>6. CASE GroupHeaderStarts \/ MessageIdStarts \/ AddressStarts \/ LeafStarts
  <2>1. /\ own' = own
        /\ \E name \in {"GrpHdr", "MsgId", "PstlAdr", "CtctDtls"} \cup Leaf :
             Opens(name, Null)
    BY <1>6 DEF GroupHeaderStarts, MessageIdStarts, AddressStarts, LeafStarts, Leaf
  <2>. QED BY <1>1, <1>3, <2>1, WithinOpens
<1>7. CASE PartyStarts
  <2>1. Opens("Dbtr", Null) /\ own' = [own EXCEPT !.parties = @ + 1]
    BY <1>7 DEF PartyStarts
  <2>2. own'.record = own.record
    BY <1>1, <2>1 DEF Owns
  <2>. QED BY <1>1, <1>3, <2>1, <2>2, WithinOpens
<1>8. CASE RecordStarts \/ BlockStarts
  BY <1>8, WithinRecord
<1>9. CASE MessageIdSaid
  <2>1. UNCHANGED path /\ own' = [own EXCEPT !.id = past.messages]
    BY <1>9 DEF MessageIdSaid, Says
  <2>2. own'.record = own.record
    BY <1>1, <2>1 DEF Owns
  <2>. QED BY <1>2, <2>1, <2>2
<1>10. CASE DefinitionSaid \/ LeafSaid
  <2>1. UNCHANGED <<path, own>>
    BY <1>10 DEF DefinitionSaid, LeafSaid, Says
  <2>. QED BY <1>2, <2>1
<1>11. CASE RecordIsEmpty \/ LineIsEmpty \/ TextIsUnsound \/ InputEnds
  <2>1. UNCHANGED <<path, own>>
    BY <1>11 DEF RecordIsEmpty, LineIsEmpty, TextIsUnsound, InputEnds
  <2>. QED BY <1>2, <2>1
<1>12. CASE ElementEnds
  BY <1>12, WithinPopped
<1>13. CASE UNCHANGED vars
  BY <1>2, <1>13 DEF vars, fileVars
<1>. QED
  BY <1>4, <1>5, <1>6, <1>7, <1>8, <1>9, <1>10, <1>11, <1>12, <1>13 DEF Next, Over

-----------------------------------------------------------------------------
(* The parties of the messages.                                            *)

\* Where no row is given or due, none is another message's.
LEMMA NoneIsGiven ==
  ASSUME given = Null, due = Null
  PROVE  PartiesAreTheMessages
BY DEF PartiesAreTheMessages

\* At first nothing is named and nothing read.
LEMMA IdentityInit ==
  ASSUME Init
  PROVE  IdentityInv /\ WithinInv /\ PartiesAreTheMessages
<1>1. /\ path = <<>> /\ own = NoMessage /\ due = Null /\ given = Null
      /\ past.messages = 0 /\ past.hidden = FALSE /\ past.form = Null
      /\ past.envelope = Null /\ past.binding = Null /\ past.child = Null
      /\ past.header = Null /\ past.heard = Null
  BY DEF Init, AuditInit
<1>2. /\ audit.document = Null /\ audit.envelope = Null /\ audit.header = Null
      /\ audit.depth = Null /\ audit.awaiting = FALSE /\ audit.index = 0
      /\ audit.record = Null /\ audit.open = Null /\ audit.id = Null
  BY DEF Init, AuditInit
<1>3. ~InDocument /\ ~InMessage /\ ~Childless /\ ~Lost /\ DOMAIN path = {}
  <2>1. DOMAIN path = {}
    BY <1>1
  <2>. QED BY <1>1, <2>1 DEF InDocument, InMessage, NoMessage, Childless, Lost
<1>4. FileInv
  BY <1>1, <1>3, IdentsAre DEF FileInv
<1>5. OwnInv
  BY <1>1, <1>3 DEF OwnInv
<1>6. NamedInv
  BY <1>1, <1>2, <1>3 DEF NamedInv
<1>7. DepthInv /\ WhoseInv /\ PlaceInv
  BY <1>2, <1>3 DEF DepthInv, WhoseInv, PlaceInv
<1>8. RecordInv
  BY <1>1, <1>2, <1>3 DEF RecordInv, NoMessage
<1>9. PartiesAreTheMessages
  BY <1>1, NoneIsGiven
<1>10. WithinInv
  BY <1>3 DEF WithinInv
<1>. QED BY <1>4, <1>5, <1>6, <1>7, <1>8, <1>9, <1>10 DEF IdentityInv

\* Every step keeps to whose a party is.
LEMMA IdentityNext ==
  ASSUME AddressInv, IdentityInv, WithinInv, PartiesAreTheMessages, [Next]_vars
  PROVE  IdentityInv' /\ WithinInv' /\ PartiesAreTheMessages'
<1>1. WalkInv /\ PartyInv
  BY DEF AddressInv
<1>. SUFFICES IdentityInv' /\ PartiesAreTheMessages'
  BY <1>1, WithinNext DEF IdentityInv
<1>2. ASSUME NoRow
      PROVE  PartiesAreTheMessages'
  BY <1>2, NoneIsGiven DEF NoRow, PartiesAreTheMessages
<1>3. CASE EnvelopeStarts \/ HeaderStarts \/ DefinitionStarts
  BY <1>1, <1>2, <1>3, FrameStep, FrameHeard
<1>4. CASE DocumentStarts
  BY <1>1, <1>2, <1>4, FrameStep, DocumentHeard
<1>5. CASE DefinitionSaid
  BY <1>1, <1>2, <1>5, NamesStep, DefinitionHeard
<1>6. CASE MessageIdSaid
  BY <1>1, <1>2, <1>6, NamesStep, MessageIdHeard
<1>7. CASE MessageStarts
  BY <1>1, <1>2, <1>7, MessageStep, ContainerHeard
<1>8. CASE WrapperStarts
  BY <1>1, <1>2, <1>8, MessageStep, WrapperHeard
<1>9. CASE GroupHeaderStarts \/ MessageIdStarts
  BY <1>1, <1>2, <1>9, ContentStep, PlainContent
<1>10. CASE RecordStarts \/ BlockStarts
  BY <1>1, <1>2, <1>10, ContentStep, RecordContent
<1>11. CASE RecordIsEmpty
  BY <1>1, <1>2, <1>11, NamesStep, EmptyStill
<1>12. CASE PartyStarts
  BY <1>1, <1>2, <1>12, PartyStep, PartyContent
<1>13. CASE AddressStarts \/ LeafStarts
  BY <1>1, <1>2, <1>13, AddressStep, PlainContent
<1>14. CASE LineIsEmpty
  BY <1>1, <1>2, <1>14, AddressStep, EmptyStill
<1>15. CASE LeafSaid
  BY <1>1, <1>2, <1>15, LeafStep, LeafStill
<1>16. CASE ElementEnds
  BY <1>1, <1>16, RowIsDue
<1>17. CASE TextIsUnsound \/ InputEnds
  BY <1>1, <1>2, <1>17, StopStep, StopsStill
<1>18. CASE UNCHANGED vars
  <2>1. UNCHANGED <<path, past, own, audit, given, due>>
    BY <1>18 DEF vars, fileVars
  <2>2. PastStays /\ IdentityStays /\ PlaceStays
    BY <2>1 DEF PastStays, IdentityStays, PlaceStays
  <2>3. IdentityInv'
    BY <2>1, <2>2, StillStep
  <2>4. Called(due.family)' = Called(due.family)
    <3>1. /\ FirstHeaderNames' <=> FirstHeaderNames
          /\ EnvelopeIsPassedOver' <=> EnvelopeIsPassedOver
      BY <2>1, <2>2, FirstHeaderStays, Zenon DEF EnvelopeIsPassedOver
    <3>. QED BY <2>1, <3>1, Zenon DEF Called
  <2>5. PartiesAreTheMessages'
    BY <2>1, <2>4, Zenon DEF PartiesAreTheMessages
  <2>. QED BY <2>3, <2>5
<1>. QED
  BY <1>3, <1>4, <1>5, <1>6, <1>7, <1>8, <1>9, <1>10, <1>11, <1>12, <1>13, <1>14,
     <1>15, <1>16, <1>17, <1>18 DEF Next, Over

\* A party is given once, at its end, as its own message's: with the id of that
\* message, the number of its record and the way to it, and under the name of the
\* message.  Two names are others: that of a header in front of an earlier message,
\* and that of the container where an envelope's namespace is the message's.  In a
\* record of an amendment the number may be the next one or none, and the way shorter.
THEOREM PartiesGoWithTheirMessages == Spec => []PartiesAreTheMessages
<1>. DEFINE Inv == AddressInv /\ IdentityInv /\ WithinInv /\ PartiesAreTheMessages
<1>1. Init => Inv
  BY AddressInit, IdentityInit
<1>2. Inv /\ [Next]_vars => Inv'
  <2>. SUFFICES ASSUME AddressInv, IdentityInv, WithinInv, PartiesAreTheMessages,
                       [Next]_vars
                PROVE  /\ AddressInv' /\ IdentityInv' /\ WithinInv'
                       /\ PartiesAreTheMessages'
    OBVIOUS
  <2>. QED BY AddressNext, IdentityNext
<1>3. Inv => PartiesAreTheMessages
  OBVIOUS
<1>. QED BY <1>1, <1>2, <1>3, PTL DEF Spec

-----------------------------------------------------------------------------
(* What the sniffer makes of a file.  It counts the elements of every name, *)
(* and takes the namespace, the header and the first container up wherever  *)
(* it meets them: that they are one message's is the file's doing.          *)

\* What the sniffer has met is what the file has said, and the audit has found a
\* message once there is one.
FoundInv ==
  /\ sniffed.header = past.heard
  /\ sniffed.document <=> past.form = "documents"
  /\ past.messages > 0 \/ past.form = "documents" => audit.found
  /\ past.form \in {Null, "envelope"} => past.messages = 0
  /\ IF past.messages = 0
     THEN /\ sniffed.container = Null
          /\ past.records = 0 /\ past.families = {}
          /\ \A n \in RecordElems : sniffed.counts[n] = 0
     ELSE past.form # "documents" => sniffed.container # Null
  /\ sniffed.done /\ ~sniffed.broke /\ audit.found => audit.done = "ended"

\* Before the first message of the file, the sniffer knows the namespace that is
\* bound around it, and waits for the first child of its Document.
SpaceInv ==
  /\ past.form # "documents" =>
       sniffed.namespace = Null /\ sniffed.ancestor = past.envelope
  /\ sniffed.awaiting => past.messages = 0
  /\ past.form = "documents" /\ past.messages = 0 /\ ~InDocument => past.hidden
  /\ past.messages = 0 /\ ~past.hidden => past.heard = MessageDefinition(past.header)
  /\ past.messages = 0 /\ InDocument =>
       /\ past.empty /\ past.child \in {Null, Wrapper}
       /\ ~past.hidden
       /\ sniffed.namespace = Some(past.binding, past.envelope)
       /\ past.child = Null => sniffed.awaiting

\* The header that was the first to name a family is that of a message to come.
Pending ==
  /\ MessageDefinition(past.header) = past.heard
  /\ ~InMessage /\ (InDocument => Childless)

\* What the sniffer goes by is a family of the file, unless it is the header and
\* the file has, or will have, another message.
First ==
  IF SniffNamespace # Null THEN SniffNamespace \in past.families
  ELSE IF past.heard # Null
  THEN past.messages > 1 \/ past.heard \in past.families \/ Pending
  ELSE Announce \in Containers /\ Announced[Announce] \in past.families

FirstInv == past.messages > 0 /\ ~past.hidden => First

\* The one message of the file is this container; its records are counted under
\* the name the table has for its family.
Sole(c) ==
  /\ past.families = {Announced[c]}
  /\ LET elem == RecordElemOf(Announced[c])
     IN  /\ elem # Null => sniffed.counts[elem] = past.records
         /\ \A i \in DOMAIN path :
              path[i] \in RecordElems \ {"Mndt"} => path[i] = Some(elem, "TxInf")
  /\ InMessage => path[own.depth + 1] = c

CountInv == past.messages = 1 /\ past.plain => \E c \in Containers : Sole(c)

\* What the walks make of a start tag: the audit finds a message at a Document, a
\* namespace and a container; the sniffer at the first Document and a container.
LEMMA StartTells ==
  ASSUME WalkInv, NEW name \in Elements, NEW ident \in Messages, Opens(name, ident)
  PROVE  /\ sniffed' \in Sniffs
         /\ sniffed'.done = FALSE /\ sniffed'.header = sniffed.header
         /\ audit.found \/ name = "Document" => audit'.found
         /\ name \in DOMAIN Announced /\ audit.open = Null /\ audit.depth = Null =>
              audit'.found
         /\ IF name = "Document" /\ ~sniffed.document
            THEN /\ sniffed'.document = TRUE /\ sniffed'.awaiting = TRUE
                 /\ sniffed'.namespace = Some(ident, sniffed.ancestor)
                 /\ sniffed'.container = sniffed.container
                 /\ sniffed'.counts = sniffed.counts
            ELSE /\ sniffed'.document = sniffed.document
                 /\ sniffed'.awaiting = FALSE
                 /\ sniffed'.child = IF sniffed.awaiting THEN name ELSE sniffed.child
                 /\ sniffed'.namespace = sniffed.namespace
                 /\ sniffed'.ancestor =
                      IF sniffed.namespace = Null /\ sniffed.ancestor = Null
                      THEN ident ELSE sniffed.ancestor
                 /\ sniffed'.container =
                      IF ~sniffed.document /\ sniffed.container = Null
                         /\ name \in DOMAIN Announced
                      THEN name ELSE sniffed.container
                 /\ sniffed'.counts =
                      IF name \in RecordElems
                      THEN [sniffed.counts EXCEPT ![name] = @ + 1]
                      ELSE sniffed.counts
<1>1. /\ path \in Seq(Elements) /\ sniffed \in Sniffs /\ audit \in Audits
      /\ Len(path) \in Nat
  BY Places
<1>2. Reading
  BY OpensReads
<1>3. PICK e : /\ e.tag = "start" /\ e.name = name /\ e.ident = ident
               /\ SniffStep(e) /\ AuditStep(e)
  BY OpensReads
<1>4. e.name \in Elements /\ e.ident \in Messages
  BY <1>3
<1>5. AuditElement(e)
  <2>1. audit.done = "reading"
    BY <1>2 DEF WalkInv
  <2>. QED BY <1>3, <2>1 DEF AuditStep
<1>6. /\ audit.found \/ name = "Document" => audit'.found
      /\ name \in DOMAIN Announced /\ audit.open = Null /\ audit.depth = Null =>
           audit'.found
  <2>1. Kept(Bound(e)) /\ Bound(e) \in Audits
    BY <1>1, <1>4, <1>5, AuditElementOpen
  <2>2. /\ Begun(e) \in Audits
        /\ Begun(e).found <=> audit.found \/ e.name = "Document" \/ Opening(e)
    BY <1>1, <1>4, BegunFields
  <2>3. Bound(e).found <=> Begun(e).found \/ e.ident # Null
    BY <1>1, <1>4, <2>2, BoundFields
  <2>4. audit'.found = Bound(e).found
    BY <2>1 DEF Kept
  <2>. QED BY <1>3, <2>2, <2>3, <2>4 DEF Opening
<1>7. CASE name = "Document" /\ ~sniffed.document
  <2>1. /\ sniffed' \in Sniffs
        /\ sniffed'.document = TRUE /\ sniffed'.awaiting = TRUE
        /\ sniffed'.namespace = Some(e.ident, sniffed.ancestor)
        /\ sniffed'.container = sniffed.container
        /\ sniffed'.header = sniffed.header
        /\ sniffed'.counts = sniffed.counts
        /\ sniffed'.done = FALSE
    BY <1>1, <1>2, <1>3, <1>4, <1>7, SniffDocument
  <2>. QED BY <1>3, <1>6, <1>7, <2>1
<1>8. CASE ~(name = "Document" /\ ~sniffed.document)
  <2>1. e.name = "Document" => sniffed.document
    BY <1>3, <1>8
  <2>2. /\ sniffed' \in Sniffs
        /\ sniffed'.document = sniffed.document /\ sniffed'.awaiting = FALSE
        /\ sniffed'.child = IF sniffed.awaiting THEN e.name ELSE sniffed.child
        /\ sniffed'.namespace = sniffed.namespace
        /\ sniffed'.ancestor =
             IF sniffed.namespace = Null /\ sniffed.ancestor = Null
             THEN e.ident ELSE sniffed.ancestor
        /\ sniffed'.container =
             IF ~sniffed.document /\ sniffed.container = Null
                /\ e.name \in DOMAIN Announced
             THEN e.name ELSE sniffed.container
        /\ sniffed'.header = sniffed.header
        /\ sniffed'.counts = Counted(e)
        /\ sniffed'.done = FALSE
    BY <1>1, <1>2, <1>3, <1>4, <2>1, SniffElement
  <2>3. Counted(e) = IF name \in RecordElems
                     THEN [sniffed.counts EXCEPT ![name] = @ + 1]
                     ELSE sniffed.counts
    BY <1>3 DEF Counted
  <2>. QED BY <1>3, <1>6, <1>8, <2>2, <2>3, Zenon
<1>. QED BY <1>7, <1>8

\* A text of a header is taken up; any other changes nothing the sniffer goes by.
LEMMA TextTells ==
  ASSUME WalkInv, path # <<>>, NEW value, Says(Text(value)),
         IsMessageId(path) => value \in Nat, audit.open # Null => value \in Nat
  PROVE  /\ path' = path /\ sniffed' \in Sniffs
         /\ UNCHANGED <<sniffed.document, sniffed.awaiting, sniffed.child,
                        sniffed.namespace, sniffed.ancestor, sniffed.container,
                        sniffed.counts>>
         /\ sniffed'.header =
              IF sniffed.header = Null /\ IsMessageDefinition(path)
              THEN MessageDefinition(value) ELSE sniffed.header
         /\ sniffed'.done = FALSE /\ audit'.found = audit.found
<1>1. sniffed \in Sniffs /\ audit \in Audits
  BY Places
<1>2. Reading /\ path' = path
  BY SaysReads
<1>3. PICK e : /\ e.tag = "text" /\ e.value = value /\ e.sound = TRUE
               /\ SniffStep(e) /\ AuditStep(e)
  BY SaysReads
<1>4. MessageDefinition(value) \in Messages
  BY DEF MessageDefinition, Messages
<1>5. /\ sniffed' \in Sniffs
      /\ UNCHANGED <<sniffed.document, sniffed.awaiting, sniffed.child,
                     sniffed.namespace, sniffed.ancestor, sniffed.container,
                     sniffed.counts>>
      /\ sniffed'.header =
           IF e.sound /\ sniffed.header = Null /\ IsMessageDefinition(path)
           THEN MessageDefinition(e.value) ELSE sniffed.header
      /\ sniffed'.done = ~e.sound
  <2>1. e.sound \in BOOLEAN
    BY <1>3
  <2>. QED BY <1>1, <1>2, <1>3, <1>4, <2>1, SniffText
<1>6. audit'.found = audit.found
  <2>1. AuditText(e)
    <3>1. audit.done = "reading"
      BY <1>2 DEF WalkInv
    <3>. QED BY <1>3, <3>1 DEF AuditStep
  <2>2. CASE audit.open = Null
    <3>1. TextKeeps
      BY <1>1, <1>3, <1>4, <2>1, <2>2, AuditIdentity
    <3>. QED BY <3>1 DEF TextKeeps
  <2>3. CASE audit.open # Null
    <3>1. TextKeeps
      BY <1>1, <1>3, <2>1, <2>3, AuditSays
    <3>. QED BY <3>1 DEF TextKeeps
  <2>. QED BY <2>2, <2>3
<1>. QED BY <1>2, <1>3, <1>5, <1>6

\* The sniffer goes by what it went by.
SniffStays ==
  /\ sniffed'.header = sniffed.header /\ sniffed'.document = sniffed.document
  /\ sniffed'.namespace = sniffed.namespace
  /\ sniffed.document \/ sniffed'.ancestor = sniffed.ancestor
  /\ sniffed'.container = sniffed.container
  /\ sniffed.awaiting \/ sniffed'.child = sniffed.child
  /\ sniffed'.awaiting => sniffed.awaiting
  /\ Childless /\ sniffed.awaiting => sniffed'.awaiting

\* A step that names nothing and opens no message.
LEMMA TellStays ==
  ASSUME FoundInv, SpaceInv, FirstInv, past \in Pasts, PastStays, SniffStays,
         past'.families = past.families,
         InDocument' <=> InDocument, InMessage' => InMessage,
         audit.found => audit'.found,
         past.messages = 0 => past'.records = past.records
                              /\ sniffed'.counts = sniffed.counts,
         sniffed'.done /\ ~sniffed'.broke /\ audit'.found => audit'.done = "ended"
  PROVE  FoundInv' /\ SpaceInv' /\ FirstInv'
<1>1. FoundInv'
  BY DEF FoundInv, PastStays, SniffStays
<1>2. Childless' <=> Childless
  BY DEF Childless, PastStays
<1>3. SpaceInv'
  <2>1. past.form # "documents" => ~sniffed.document
    BY DEF FoundInv
  <2>2. Childless /\ sniffed.awaiting => sniffed'.awaiting
    BY DEF SniffStays
  <2>3. past'.messages = 0 /\ InDocument' /\ past'.child = Null => sniffed'.awaiting
    BY <2>2 DEF SpaceInv, PastStays, Childless
  <2>. QED BY <2>1, <2>3 DEF SpaceInv, PastStays, SniffStays
<1>4. FirstInv'
  <2>. SUFFICES ASSUME past.messages > 0, ~past.hidden
                PROVE  First'
    BY DEF FirstInv, PastStays
  <2>1. First
    BY DEF FirstInv
  <2>2. ~sniffed.awaiting
    <3>1. past.messages # 0
      BY DEF Pasts
    <3>. QED BY <3>1 DEF SpaceInv
  <2>3. SniffNamespace' = SniffNamespace /\ Announce' = Announce
    BY <2>2 DEF SniffNamespace, Announce, SniffStays
  <2>4. Pending => Pending'
    BY <1>2 DEF Pending, PastStays
  <2>. QED BY <2>1, <2>3, <2>4 DEF First, PastStays
<1>. QED BY <1>1, <1>3, <1>4

\* A step that counts no record and leaves none behind.
LEMMA SoleStays ==
  ASSUME CountInv, past'.messages = past.messages, past'.plain = past.plain,
         past'.families = past.families, past'.records = past.records,
         sniffed'.counts = sniffed.counts,
         InMessage' => /\ InMessage /\ own'.depth = own.depth
                       /\ path'[own.depth + 1] = path[own.depth + 1],
         \A i \in DOMAIN path' : path'[i] \in RecordElems \ {"Mndt"} =>
           i \in DOMAIN path /\ path'[i] = path[i]
  PROVE  CountInv'
<1>. SUFFICES ASSUME past.messages = 1, past.plain
              PROVE  \E c \in Containers : Sole(c)'
  BY DEF CountInv
<1>1. PICK c \in Containers : Sole(c)
  BY DEF CountInv
<1>2. Sole(c)'
  <2>. DEFINE elem == RecordElemOf(Announced[c])
  <2>1. /\ past.families = {Announced[c]}
        /\ elem # Null => sniffed.counts[elem] = past.records
        /\ \A i \in DOMAIN path :
             path[i] \in RecordElems \ {"Mndt"} => path[i] = Some(elem, "TxInf")
        /\ InMessage => path[own.depth + 1] = c
    BY <1>1 DEF Sole
  <2>. HIDE DEF elem
  <2>2. /\ past'.families = {Announced[c]}
        /\ elem # Null => sniffed'.counts[elem] = past'.records
        /\ InMessage' => path'[own'.depth + 1] = c
    BY <2>1
  <2>3. \A i \in DOMAIN path' :
          path'[i] \in RecordElems \ {"Mndt"} => path'[i] = Some(elem, "TxInf")
    BY <2>1
  <2>. QED BY <2>2, <2>3 DEF Sole, elem
<1>. QED BY <1>1, <1>2

\* A name that is none of a record adds no record to the path.
LEMMA AddedName ==
  ASSUME path \in Seq(Elements), NEW name \in Elements,
         path' = Append(path, name)
  PROVE  /\ name \notin RecordElems \ {"Mndt"} =>
              \A i \in DOMAIN path' : path'[i] \in RecordElems \ {"Mndt"} =>
                i \in DOMAIN path /\ path'[i] = path[i]
         /\ \A i \in DOMAIN path : i \in DOMAIN path' /\ path'[i] = path[i]
         /\ \A i \in DOMAIN path' :
              (i \in DOMAIN path /\ path'[i] = path[i]) \/ path'[i] = name
<1>1. /\ DOMAIN path' = 1 .. Len(path) + 1 /\ path'[Len(path) + 1] = name
      /\ \A i \in 1 .. Len(path) : path'[i] = path[i]
  BY Pushed
<1>2. Len(path) \in Nat /\ DOMAIN path = 1 .. Len(path)
  BY Innermost
<1>3. \A i \in DOMAIN path : i \in DOMAIN path' /\ path'[i] = path[i]
  BY <1>1, <1>2
<1>4. \A i \in DOMAIN path' :
        (i \in DOMAIN path /\ path'[i] = path[i]) \/ path'[i] = name
  <2>. TAKE i \in DOMAIN path'
  <2>1. i = Len(path) + 1 \/ i \in 1 .. Len(path)
    BY <1>1, <1>2
  <2>. QED BY <1>1, <1>2, <2>1
<1>. QED BY <1>3, <1>4, Zenon

TellInv == FoundInv /\ SpaceInv /\ FirstInv /\ CountInv

\* A start tag that is neither a Document nor the first child of one, and opens
\* no message.
LEMMA OpensTells ==
  ASSUME WalkInv, FoundInv, SpaceInv, FirstInv, ~Childless,
         NEW name \in Elements, name # "Document", Opens(name, Null),
         PastStays, past'.families = past.families, InMessage' => InMessage,
         past.messages = 0 => /\ past'.records = past.records
                              /\ name \notin RecordElems \cup DOMAIN Announced
  PROVE  FoundInv' /\ SpaceInv' /\ FirstInv'
<1>1. past \in Pasts /\ path \in Seq(Elements) /\ Null \in Messages
  BY Places
<1>2. /\ sniffed'.done = FALSE /\ sniffed'.header = sniffed.header
      /\ audit.found => audit'.found
      /\ sniffed'.document = sniffed.document
      /\ sniffed'.awaiting = FALSE
      /\ sniffed'.child = IF sniffed.awaiting THEN name ELSE sniffed.child
      /\ sniffed'.namespace = sniffed.namespace
      /\ sniffed'.ancestor =
           IF sniffed.namespace = Null /\ sniffed.ancestor = Null
           THEN Null ELSE sniffed.ancestor
      /\ sniffed'.container =
           IF ~sniffed.document /\ sniffed.container = Null
              /\ name \in DOMAIN Announced
           THEN name ELSE sniffed.container
      /\ sniffed'.counts =
           IF name \in RecordElems
           THEN [sniffed.counts EXCEPT ![name] = @ + 1]
           ELSE sniffed.counts
  BY <1>1, StartTells
<1>3. sniffed'.container = sniffed.container
  <2>1. name \in DOMAIN Announced => past.messages # 0
    OBVIOUS
  <2>2. past.messages # 0 /\ ~sniffed.document => sniffed.container # Null
    BY DEF FoundInv
  <2>. QED BY <1>2, <2>1, <2>2
<1>4. SniffStays
  BY <1>2, <1>3 DEF SniffStays
<1>5. InDocument' <=> InDocument
  <2>1. path' = Append(path, name)
    BY OpensReads
  <2>. QED BY <1>1, <2>1, DocumentPushed
<1>6. past.messages = 0 => sniffed'.counts = sniffed.counts
  BY <1>2
<1>. QED BY <1>1, <1>2, <1>4, <1>5, <1>6, TellStays

\* A header, and what defines the message.
LEMMA HeaderTells ==
  ASSUME WalkInv, IdentityInv, TellInv, HeaderStarts \/ DefinitionStarts
  PROVE  TellInv'
<1>1. PICK name \in {"AppHdr", "MsgDefIdr"} :
        /\ Opens(name, Null) /\ UNCHANGED own
        /\ Here = "BizMsgEnvlp" \/ Here = "AppHdr"
  BY DEF HeaderStarts, DefinitionStarts
<1>2. past \in Pasts /\ path \in Seq(Elements) /\ Null \in Messages
  BY Places
<1>3. OwnInv /\ FoundInv /\ SpaceInv /\ FirstInv /\ CountInv
  BY DEF IdentityInv, TellInv
<1>4. /\ ~InDocument /\ ~InMessage /\ ~InMessage'
      /\ name \in {"BizMsgEnvlp", "AppHdr", "MsgDefIdr", "Document"}
  <2>1. name \in {"BizMsgEnvlp", "AppHdr", "MsgDefIdr", "Document"}
    OBVIOUS
  <2>. QED BY <1>1, <1>2, <1>3, <2>1, FrameOpens
<1>5. /\ name \in Elements /\ name # "Document"
      /\ name \notin RecordElems \cup DOMAIN Announced
  <2>1. name \in Frame
    BY DEF Frame
  <2>. QED BY <2>1, FixedNames, ContainerNames DEF RecordElems
<1>6. /\ PastStays /\ past'.families = past.families
      /\ past'.records = past.records /\ past'.plain = past.plain
  <2>1. UNCHANGED past \/ past' = [past EXCEPT !.free = FALSE]
    BY DEF HeaderStarts, DefinitionStarts
  <2>. QED BY <1>2, <2>1 DEF PastStays, Pasts
<1>7. ~Childless
  BY <1>4 DEF Childless
<1>8. FoundInv' /\ SpaceInv' /\ FirstInv'
  BY <1>1, <1>3, <1>4, <1>5, <1>6, <1>7, OpensTells
<1>9. CountInv'
  <2>1. sniffed'.counts = sniffed.counts
    BY <1>1, <1>2, <1>5, StartTells
  <2>2. path' = Append(path, name)
    BY <1>1, OpensReads
  <2>3. \A i \in DOMAIN path' : path'[i] \in RecordElems \ {"Mndt"} =>
          i \in DOMAIN path /\ path'[i] = path[i]
    BY <1>2, <1>5, <2>2, AddedName
  <2>4. past'.messages = past.messages
    BY <1>6 DEF PastStays
  <2>. QED BY <1>3, <1>4, <1>6, <2>1, <2>3, <2>4, SoleStays
<1>. QED BY <1>8, <1>9 DEF TellInv

\* A start tag inside a message tells the sniffer nothing but that of a record.
LEMMA InwardTells ==
  ASSUME WalkInv, IdentityInv, TellInv, InMessage, NEW name \in Elements,
         name # "Document", Opens(name, Null),
         PastStays, past'.families = past.families, past'.plain = past.plain,
         own'.depth = own.depth
  PROVE  /\ FoundInv' /\ SpaceInv' /\ FirstInv'
         /\ sniffed'.counts = IF name \in RecordElems
                              THEN [sniffed.counts EXCEPT ![name] = @ + 1]
                              ELSE sniffed.counts
         /\ InMessage' /\ path'[own.depth + 1] = path[own.depth + 1]
         /\ name \notin RecordElems /\ past'.records = past.records => CountInv'
<1>1. OwnInv /\ FoundInv /\ SpaceInv /\ FirstInv /\ CountInv
  BY DEF IdentityInv, TellInv
<1>2. path \in Seq(Elements) /\ past \in Pasts /\ Null \in Messages
  BY Places
<1>3. past.messages # 0 /\ ~Childless /\ own.depth + 1 \in DOMAIN path
  <2>1. past.messages > 0 /\ ~Childless /\ own.depth + 1 \in DOMAIN path
    BY <1>1 DEF OwnInv
  <2>. QED BY <2>1
<1>4. FoundInv' /\ SpaceInv' /\ FirstInv'
  BY <1>1, <1>3, OpensTells
<1>5. sniffed'.counts = IF name \in RecordElems
                        THEN [sniffed.counts EXCEPT ![name] = @ + 1]
                        ELSE sniffed.counts
  BY <1>2, StartTells
<1>6. path' = Append(path, name)
  BY OpensReads
<1>7. /\ InMessage' /\ path'[own.depth + 1] = path[own.depth + 1]
      /\ name \notin RecordElems \ {"Mndt"} =>
           \A i \in DOMAIN path' : path'[i] \in RecordElems \ {"Mndt"} =>
             i \in DOMAIN path /\ path'[i] = path[i]
  BY <1>2, <1>3, <1>6, AddedName DEF InMessage
<1>8. ASSUME name \notin RecordElems, past'.records = past.records
      PROVE  CountInv'
  <2>1. past'.messages = past.messages
    BY DEF PastStays
  <2>2. sniffed'.counts = sniffed.counts
    BY <1>5, <1>8
  <2>3. \A i \in DOMAIN path' : path'[i] \in RecordElems \ {"Mndt"} =>
          i \in DOMAIN path /\ path'[i] = path[i]
    BY <1>7, <1>8
  <2>. QED BY <1>1, <1>7, <1>8, <2>1, <2>2, <2>3, SoleStays
<1>. QED BY <1>4, <1>5, <1>7, <1>8

\* A group header, the id in it, a party, its address and what that holds.
LEMMA ContentTells ==
  ASSUME WalkInv, IdentityInv, TellInv,
         \/ GroupHeaderStarts \/ MessageIdStarts \/ PartyStarts
         \/ AddressStarts \/ LeafStarts
  PROVE  TellInv'
<1>. DEFINE Content == {"GrpHdr", "MsgId", "Dbtr", "PstlAdr", "CtctDtls"} \cup Leaf
<1>1. OwnInv /\ own \in Owns
  BY Places DEF IdentityInv
<1>2. /\ Content \subseteq Elements /\ Content \cap RecordElems = {}
      /\ "Document" \notin Content
  BY FixedNames DEF Leaf, RecordElems
<1>3. /\ Rank("GrpHdr") = 5 /\ Rank("Dbtr") = 7
      /\ Rank("PstlAdr") = 8 /\ Rank("CtctDtls") = 8
  BY Ranks
<1>4. /\ InContent => InMessage
      /\ \A name \in Elements : Here = name /\ Rank(name) > 4 => InMessage
  BY <1>1, ContentPlace DEF InContent
<1>5. /\ \E name \in Content : Opens(name, Null)
      /\ UNCHANGED past
      /\ UNCHANGED own \/ own' = [own EXCEPT !.parties = @ + 1]
  BY DEF GroupHeaderStarts, MessageIdStarts, PartyStarts, AddressStarts, LeafStarts,
         Leaf
<1>6. \/ InContent \/ own.record # Null
      \/ Here = "GrpHdr" \/ Here = "Dbtr" \/ Here = "PstlAdr" \/ Here = "CtctDtls"
  BY DEF GroupHeaderStarts, MessageIdStarts, PartyStarts, AddressStarts, LeafStarts
<1>7. InMessage
  <2>1. own.record # Null => InMessage
    BY <1>1 DEF OwnInv, NoMessage
  <2>2. {"GrpHdr", "Dbtr", "PstlAdr", "CtctDtls"} \subseteq Content
    OBVIOUS
  <2>. QED BY <1>2, <1>3, <1>4, <1>6, <2>1, <2>2
<1>8. PICK name \in Content : Opens(name, Null)
  BY <1>5
<1>. HIDE DEF Content
<1>9. name \in Elements /\ name \notin RecordElems /\ name # "Document"
  BY <1>2, <1>8
<1>10. own'.depth = own.depth
  BY <1>1, <1>5 DEF Owns
<1>11. PastStays /\ past'.families = past.families /\ past'.plain = past.plain
       /\ past'.records = past.records
  BY <1>5 DEF PastStays
<1>12. FoundInv' /\ SpaceInv' /\ FirstInv' /\ CountInv'
  BY <1>7, <1>8, <1>9, <1>10, <1>11, InwardTells
<1>. QED BY <1>12 DEF TellInv

\* Where the content of the one message is, its container is the innermost element.
LEMMA SoleContent ==
  ASSUME WalkInv, OwnInv, InContent, NEW c \in Containers, Sole(c)
  PROVE  Here = c /\ RecordName = Some(RecordElemOf(Announced[c]), "TxInf")
<1>1. InMessage /\ (Here \in Containers \/ Here = Wrapper)
  BY DEF InContent
<1>2. path \in Seq(Elements) /\ path # <<>> /\ Nested /\ Here = path[Len(path)]
  BY Places, ContentPlace
<1>3. path[own.depth + 1] = c /\ own.depth + 1 \in DOMAIN path
  BY <1>1 DEF Sole, OwnInv
<1>4. Rank(c) = 4 /\ Rank(Wrapper) = 3 /\ (Here \in Containers => Rank(Here) = 4)
  BY Ranks
<1>5. /\ Rank(path[own.depth + 1]) <= Rank(Here)
      /\ Rank(path[own.depth + 1]) = Rank(Here) => own.depth + 1 = Len(path)
  BY <1>2, <1>3, HereRank
<1>6. Rank(Here) = 4
  BY <1>1, <1>3, <1>4, <1>5
<1>7. Here = c
  BY <1>2, <1>3, <1>4, <1>5, <1>6
<1>8. Here # Wrapper
  BY <1>4, <1>6
<1>. QED BY <1>7, <1>8 DEF RecordName, Some

\* A record is counted under the name the message has for it.
LEMMA RecordTells ==
  ASSUME WalkInv, IdentityInv, TellInv, RecordStarts
  PROVE  TellInv'
<1>. DEFINE name == RecordName
<1>1. OwnInv /\ CountInv
  BY DEF IdentityInv, TellInv
<1>2. /\ path \in Seq(Elements) /\ past \in Pasts /\ own \in Owns /\ sniffed \in Sniffs
  BY Places
<1>3. /\ InContent /\ Opens(name, Null)
      /\ own' = [own EXCEPT !.records = @ + 1, !.record = Len(path)]
      /\ past' = [past EXCEPT !.records = @ + 1]
  BY DEF RecordStarts
<1>4. InMessage
  BY <1>3 DEF InContent
<1>5. name \in RecordElems /\ name \in Elements /\ name # "Document"
  BY RecordNameIs, FixedNames DEF RecordElems
<1>6. /\ PastStays /\ past'.families = past.families /\ past'.plain = past.plain
      /\ past'.records = past.records + 1
  BY <1>2, <1>3 DEF PastStays, Pasts
<1>7. own'.depth = own.depth
  <2>. DEFINE k == Len(path)
  <2>. HIDE DEF k
  <2>1. own' = [own EXCEPT !.records = @ + 1, !.record = k]
    BY <1>3 DEF k
  <2>. QED BY <1>2, <2>1 DEF Owns
<1>. HIDE DEF name
<1>8. /\ FoundInv' /\ SpaceInv' /\ FirstInv'
      /\ sniffed'.counts = [sniffed.counts EXCEPT ![name] = @ + 1]
      /\ InMessage' /\ path'[own.depth + 1] = path[own.depth + 1]
  BY <1>3, <1>4, <1>5, <1>6, <1>7, InwardTells
<1>9. \A i \in DOMAIN path' :
        (i \in DOMAIN path /\ path'[i] = path[i]) \/ path'[i] = name
  <2>1. path' = Append(path, name)
    BY <1>3, OpensReads
  <2>. QED BY <1>2, <1>5, <2>1, AddedName
<1>10. CountInv'
  <2>. SUFFICES ASSUME past.messages = 1, past.plain
                PROVE  \E c \in Containers : Sole(c)'
    BY <1>6 DEF CountInv, PastStays
  <2>1. PICK c \in Containers : Sole(c)
    BY <1>1 DEF CountInv
  <2>. DEFINE elem == RecordElemOf(Announced[c])
  <2>2. name = Some(elem, "TxInf")
    BY <1>1, <1>3, <2>1, SoleContent DEF name
  <2>3. /\ past.families = {Announced[c]}
        /\ elem # Null => sniffed.counts[elem] = past.records
        /\ \A i \in DOMAIN path :
             path[i] \in RecordElems \ {"Mndt"} => path[i] = Some(elem, "TxInf")
        /\ path[own.depth + 1] = c
    BY <1>4, <2>1 DEF Sole
  <2>. HIDE DEF elem
  <2>4. elem # Null => sniffed'.counts[elem] = past'.records
    <3>1. elem # Null => elem = name
      BY <2>2 DEF Some
    <3>2. sniffed.counts \in [RecordElems -> Nat]
      BY <1>2 DEF Sniffs
    <3>. QED BY <1>5, <1>6, <1>8, <2>3, <3>1, <3>2
  <2>5. \A i \in DOMAIN path' :
          path'[i] \in RecordElems \ {"Mndt"} => path'[i] = Some(elem, "TxInf")
    BY <1>9, <2>2, <2>3
  <2>6. Sole(c)'
    BY <1>6, <1>7, <1>8, <2>3, <2>4, <2>5 DEF Sole, elem
  <2>. QED BY <2>1, <2>6
<1>. QED BY <1>8, <1>10 DEF TellInv

\* A block of a record is no record of the message's family.
LEMMA BlockTells ==
  ASSUME WalkInv, IdentityInv, TellInv, BlockStarts
  PROVE  TellInv'
<1>1. OwnInv /\ CountInv
  BY DEF IdentityInv, TellInv
<1>2. path \in Seq(Elements) /\ past \in Pasts /\ own \in Owns /\ sniffed \in Sniffs
  BY Places
<1>3. /\ Here \in RecordElems \ {"Mndt"} /\ UNCHANGED past
      /\ \E name \in {"Mndt", "Rcpt"} :
           /\ name = "Mndt" => Here = "UndrlygAmdmntDtls"
           /\ Opens(name, Null)
           /\ own' = [own EXCEPT !.amended = @ \/ name = "Mndt"]
  BY DEF BlockStarts
<1>4. PICK name \in {"Mndt", "Rcpt"} :
           /\ name = "Mndt" => Here = "UndrlygAmdmntDtls"
           /\ Opens(name, Null)
           /\ own' = [own EXCEPT !.amended = @ \/ name = "Mndt"]
  BY <1>3
<1>5. InMessage
  BY <1>1, <1>3, ContentPlace
<1>6. name \in Elements /\ name # "Document"
  BY FixedNames
<1>7. "Rcpt" \notin RecordElems /\ "Mndt" \in RecordElems
  BY DEF RecordElems
<1>8. /\ PastStays /\ past'.families = past.families /\ past'.plain = past.plain
      /\ past'.records = past.records /\ past'.messages = past.messages
  BY <1>3 DEF PastStays
<1>9. own'.depth = own.depth
  BY <1>2, <1>4 DEF Owns
<1>10. /\ FoundInv' /\ SpaceInv' /\ FirstInv'
       /\ sniffed'.counts = IF name \in RecordElems
                            THEN [sniffed.counts EXCEPT ![name] = @ + 1]
                            ELSE sniffed.counts
       /\ InMessage' /\ path'[own.depth + 1] = path[own.depth + 1]
       /\ name \notin RecordElems => CountInv'
  BY <1>4, <1>5, <1>6, <1>8, <1>9, InwardTells
<1>11. CASE name = "Rcpt"
  BY <1>7, <1>10, <1>11 DEF TellInv
<1>12. CASE name = "Mndt"
  <2>1. sniffed'.counts = [sniffed.counts EXCEPT !["Mndt"] = @ + 1]
    BY <1>7, <1>10, <1>12
  <2>2. \A i \in DOMAIN path' :
          (i \in DOMAIN path /\ path'[i] = path[i]) \/ path'[i] = "Mndt"
    <3>1. path' = Append(path, "Mndt") /\ "Mndt" \in Elements
      BY <1>4, <1>6, <1>12, OpensReads
    <3>. QED BY <1>2, <3>1, AddedName
  <2>3. CountInv'
    <3>. SUFFICES ASSUME past.messages = 1, past.plain
                  PROVE  \E c \in Containers : Sole(c)'
      BY <1>8 DEF CountInv
    <3>1. PICK c \in Containers : Sole(c)
      BY <1>1 DEF CountInv
    <3>. DEFINE elem == RecordElemOf(Announced[c])
    <3>2. /\ past.families = {Announced[c]}
          /\ elem # Null => sniffed.counts[elem] = past.records
          /\ \A i \in DOMAIN path :
               path[i] \in RecordElems \ {"Mndt"} => path[i] = Some(elem, "TxInf")
          /\ path[own.depth + 1] = c
      BY <1>5, <3>1 DEF Sole
    <3>3. elem \in RecordElems \cup {Null}
      BY RecordElemIs
    <3>. HIDE DEF elem
    <3>4. elem # "Mndt"
      <4>1. path # <<>> /\ Len(path) \in DOMAIN path /\ Here = path[Len(path)]
        <5>1. Here \in Elements
          BY <1>3, FixedNames
        <5>2. Here # Null
          BY <5>1, NullAssumption
        <5>. QED BY <1>2, <5>2, Innermost
      <4>2. Here = Some(elem, "TxInf")
        BY <1>3, <3>2, <4>1
      <4>3. Here = "UndrlygAmdmntDtls"
        BY <1>4, <1>12
      <4>. QED BY <4>2, <4>3 DEF Some
    <3>5. elem # Null => sniffed'.counts[elem] = past'.records
      <4>1. sniffed.counts \in [RecordElems -> Nat]
        BY <1>2 DEF Sniffs
      <4>. QED BY <1>8, <2>1, <3>2, <3>3, <3>4, <4>1
    <3>6. \A i \in DOMAIN path' :
            path'[i] \in RecordElems \ {"Mndt"} => path'[i] = Some(elem, "TxInf")
      BY <2>2, <3>2
    <3>7. Sole(c)'
      BY <1>8, <1>9, <1>10, <3>2, <3>5, <3>6 DEF Sole, elem
    <3>. QED BY <3>1, <3>7
  <2>. QED BY <1>10, <2>3 DEF TellInv
<1>. QED BY <1>11, <1>12

\* A step that leaves the cursor where it is and counts no record.
LEMMA QuietTells ==
  ASSUME WalkInv, TellInv, UNCHANGED path, UNCHANGED past, own'.depth = own.depth,
         SniffStays, sniffed'.counts = sniffed.counts, audit.found => audit'.found,
         sniffed'.done /\ ~sniffed'.broke /\ audit'.found => audit'.done = "ended"
  PROVE  TellInv'
<1>1. past \in Pasts
  BY Places
<1>2. PastStays
  BY DEF PastStays
<1>3. (InDocument' <=> InDocument) /\ (InMessage' <=> InMessage)
  BY DEF InDocument, InMessage
<1>4. FoundInv' /\ SpaceInv' /\ FirstInv'
  BY <1>1, <1>2, <1>3, TellStays DEF TellInv
<1>5. CountInv'
  BY <1>3, SoleStays DEF TellInv
<1>. QED BY <1>4, <1>5 DEF TellInv

\* An element that is empty is no record.
LEMMA EmptyTells ==
  ASSUME WalkInv, IdentityInv, TellInv, RecordIsEmpty \/ LineIsEmpty
  PROVE  TellInv'
<1>1. /\ path \in Seq(Elements) /\ sniffed \in Sniffs /\ audit \in Audits
      /\ Null \in Messages /\ past \in Pasts
  BY Places
<1>2. PICK name \in Elements \ {"Document"} :
        /\ Reads(Event("empty", name)) /\ UNCHANGED <<path, past, own>>
        /\ name \notin DOMAIN Announced
  <2>1. CASE RecordIsEmpty
    <3>1. RecordName \in RecordElems
      BY RecordNameIs
    <3>2. RecordName \in Elements \ {"Document"} /\ RecordName \notin DOMAIN Announced
      BY <3>1, FixedNames, ContainerNames DEF RecordElems
    <3>. QED BY <2>1, <3>2 DEF RecordIsEmpty
  <2>2. CASE LineIsEmpty
    <3>1. "AdrLine" \in Elements \ {"Document"} /\ "AdrLine" \notin DOMAIN Announced
      BY FixedNames, ContainerNames DEF Leaf
    <3>. QED BY <2>2, <3>1 DEF LineIsEmpty
  <2>. QED BY <2>1, <2>2
<1>3. ~Childless
  <2>1. OwnInv
    BY DEF IdentityInv
  <2>2. CASE RecordIsEmpty
    BY <2>1, <2>2 DEF RecordIsEmpty, InContent, OwnInv
  <2>3. CASE LineIsEmpty
    <3>1. Here = "PstlAdr" /\ "PstlAdr" \in Elements /\ Rank("PstlAdr") > 4
      BY <2>3, FixedNames, Ranks DEF LineIsEmpty
    <3>2. InMessage
      BY <2>1, <3>1, ContentPlace
    <3>. QED BY <2>1, <3>2 DEF OwnInv
  <2>. QED BY <2>2, <2>3
<1>. DEFINE e == Event("empty", name)
<1>4. /\ e.tag = "empty" /\ e.name = name /\ e.ident = Null
      /\ e.name \in Elements /\ e.ident \in Messages /\ e.name # "Document"
  BY <1>1 DEF Event
<1>5. Reading /\ SniffStep(e) /\ AuditStep(e)
  BY <1>2 DEF Reads
<1>. HIDE DEF e
<1>6. /\ sniffed'.document = sniffed.document /\ sniffed'.awaiting = FALSE
      /\ sniffed'.child = IF sniffed.awaiting THEN e.name ELSE sniffed.child
      /\ sniffed'.namespace = sniffed.namespace
      /\ sniffed'.ancestor =
           IF sniffed.namespace = Null /\ sniffed.ancestor = Null
           THEN e.ident ELSE sniffed.ancestor
      /\ sniffed'.container =
           IF ~sniffed.document /\ sniffed.container = Null
              /\ e.name \in DOMAIN Announced
           THEN e.name ELSE sniffed.container
      /\ sniffed'.header = sniffed.header
      /\ sniffed'.counts = Counted(e) /\ sniffed'.done = FALSE
  BY <1>1, <1>4, <1>5, SniffElement
<1>7. Counted(e) = sniffed.counts
  BY <1>4 DEF Counted
<1>8. SniffStays
  BY <1>2, <1>3, <1>4, <1>6 DEF SniffStays
<1>9. audit.found => audit'.found
  <2>1. AuditElement(e)
    <3>1. audit.done = "reading"
      BY <1>5 DEF WalkInv
    <3>. QED BY <1>4, <1>5, <3>1 DEF AuditStep
  <2>2. Kept(Bound(e)) /\ Bound(e) \in Audits
    BY <1>1, <1>4, <2>1, AuditElementOpen
  <2>3. /\ Begun(e) \in Audits
        /\ Begun(e).found <=> audit.found \/ e.name = "Document" \/ Opening(e)
    BY <1>1, <1>4, Innermost, BegunFields
  <2>4. Bound(e).found <=> Begun(e).found \/ e.ident # Null
    BY <1>1, <1>4, <2>3, BoundFields
  <2>. QED BY <2>2, <2>3, <2>4 DEF Kept
<1>. QED BY <1>2, <1>6, <1>7, <1>8, <1>9, QuietTells

\* The id of a message, and the texts of an address.
LEMMA TextsTell ==
  ASSUME WalkInv, IdentityInv, TellInv, MessageIdSaid \/ LeafSaid
  PROVE  TellInv'
<1>1. /\ path \in Seq(Elements) /\ past \in Pasts /\ own \in Owns
      /\ path # <<>> => Here = path[Len(path)]
      /\ path = <<>> => Here = Null
  BY Places
<1>2. Here = "MsgId" \/ Here \in Leaf
  BY DEF MessageIdSaid, LeafSaid, Leaf
<1>3. PICK v \in Nat : Says(Text(v)) /\ UNCHANGED past /\ own'.depth = own.depth
  <2>1. CASE MessageIdSaid
    <3>1. /\ Says(Text(past.messages)) /\ UNCHANGED past
          /\ own' = [own EXCEPT !.id = past.messages]
      BY <2>1 DEF MessageIdSaid
    <3>2. past.messages \in Nat /\ own'.depth = own.depth
      BY <1>1, <3>1 DEF Pasts, Owns
    <3>. QED BY <3>1, <3>2
  <2>2. CASE LeafSaid
    <3>1. UNCHANGED <<past, own>> /\ \E n \in {1, LineChars} : Says(Text(n))
      BY <2>2 DEF LeafSaid
    <3>2. {1, LineChars} \subseteq Nat
      BY FileAssumption
    <3>. QED BY <3>1, <3>2
  <2>. QED BY <2>1, <2>2
<1>4. path # <<>>
  <2>1. Here \in Elements
    BY <1>2, FixedNames
  <2>. QED BY <1>1, <2>1, NullAssumption
<1>5. ~IsMessageDefinition(path)
  <2>1. EndsWith(path, <<"AppHdr", "MsgDefIdr">>) => Here = "MsgDefIdr"
    BY <1>1, <1>4, EndsInTwo
  <2>. QED BY <1>2, <2>1 DEF IsMessageDefinition, Leaf
<1>6. /\ path' = path
      /\ UNCHANGED <<sniffed.document, sniffed.awaiting, sniffed.child,
                     sniffed.namespace, sniffed.ancestor, sniffed.container,
                     sniffed.counts>>
      /\ sniffed'.header = sniffed.header
      /\ sniffed'.done = FALSE /\ audit'.found = audit.found
  BY <1>3, <1>4, <1>5, TextTells
<1>7. SniffStays
  BY <1>6 DEF SniffStays
<1>. QED BY <1>3, <1>6, <1>7, QuietTells

\* A text that is unsound, and the end of the input.
LEMMA StopsTell ==
  ASSUME WalkInv, TellInv, TextIsUnsound \/ InputEnds
  PROVE  TellInv'
<1>1. /\ Reading /\ UNCHANGED <<path, past, own>>
      /\ \E e : /\ (e.tag = "text" /\ e.sound = FALSE) \/ e.tag = "eof"
                /\ SniffStep(e) /\ AuditStep(e)
  <2>1. CASE TextIsUnsound
    <3>. DEFINE e == [Text(1) EXCEPT !.sound = FALSE]
    <3>1. e.tag = "text" /\ e.sound = FALSE
      BY DEF Text, Event
    <3>2. Reads(e) /\ UNCHANGED <<path, past, own>>
      BY <2>1 DEF TextIsUnsound
    <3>. HIDE DEF e
    <3>. QED BY <3>1, <3>2 DEF Reads
  <2>2. CASE InputEnds
    <3>. DEFINE e == Event("eof", Null)
    <3>1. e.tag = "eof"
      BY DEF Event
    <3>2. Reads(e) /\ UNCHANGED <<path, past, own>>
      BY <2>2 DEF InputEnds
    <3>. HIDE DEF e
    <3>. QED BY <3>1, <3>2 DEF Reads
  <2>. QED BY <2>1, <2>2
<1>2. PICK e : /\ (e.tag = "text" /\ e.sound = FALSE) \/ e.tag = "eof"
               /\ SniffStep(e) /\ AuditStep(e)
  BY <1>1
<1>3. sniffed \in Sniffs /\ audit \in Audits
  BY Places
<1>4. /\ TextKeeps
      /\ audit'.done = IF e.tag = "eof" /\ path = <<>> /\ audit.found
                       THEN "ended" ELSE "failed"
  <2>1. audit.done = "reading" /\ ((e.tag = "text" /\ ~e.sound) \/ e.tag = "eof")
    BY <1>1, <1>2 DEF WalkInv
  <2>. QED BY <1>2, <1>3, <2>1, AuditStops
<1>5. SniffStays /\ sniffed'.counts = sniffed.counts
      /\ (~sniffed'.broke => e.tag = "eof" /\ path = <<>>)
  <2>1. CASE e.tag = "text" /\ e.sound = FALSE
    <3>1. sniffed' = [sniffed EXCEPT !.broke = TRUE, !.done = TRUE]
      BY <1>1, <1>2, <2>1 DEF SniffStep, SniffsText, Reading
    <3>. QED BY <1>3, <3>1 DEF SniffStays, Sniffs
  <2>2. CASE e.tag = "eof"
    <3>. DEFINE b == path # <<>>
    <3>1. sniffed' = [sniffed EXCEPT !.done = TRUE, !.broke = b]
      BY <1>1, <1>2, <2>2 DEF SniffStep, SniffEnds, CutShort, Reading
    <3>2. b \in BOOLEAN
      OBVIOUS
    <3>. HIDE DEF b
    <3>3. /\ sniffed'.header = sniffed.header /\ sniffed'.document = sniffed.document
          /\ sniffed'.namespace = sniffed.namespace
          /\ sniffed'.ancestor = sniffed.ancestor
          /\ sniffed'.container = sniffed.container
          /\ sniffed'.child = sniffed.child /\ sniffed'.awaiting = sniffed.awaiting
          /\ sniffed'.counts = sniffed.counts /\ sniffed'.broke = b
      BY <1>3, <3>1, <3>2 DEF Sniffs
    <3>. QED BY <2>2, <3>3 DEF SniffStays, b
  <2>. QED BY <1>2, <2>1, <2>2
<1>6. audit'.found = audit.found
  BY <1>4 DEF TextKeeps
<1>7. ~sniffed'.broke /\ audit'.found => audit'.done = "ended"
  BY <1>4, <1>5, <1>6
<1>8. UNCHANGED path /\ UNCHANGED past /\ own'.depth = own.depth
  BY <1>1
<1>. QED BY <1>5, <1>6, <1>7, <1>8, QuietTells

\* What a header says, the sniffer hears if it has heard nothing before.
LEMMA DefinitionTells ==
  ASSUME WalkInv, IdentityInv, TellInv, DefinitionSaid
  PROVE  TellInv'
<1>1. Here = "MsgDefIdr" /\ UNCHANGED own /\ past.header = Null
  BY DEF DefinitionSaid
<1>2. PICK text \in Idents \cup {Note} :
        /\ Says(Text(text))
        /\ past' = [past EXCEPT !.header = text,
                                !.heard = Some(@, MessageDefinition(text))]
  BY DEF DefinitionSaid
<1>3. /\ path \in Seq(Elements) /\ past \in Pasts /\ Nested
      /\ path = <<>> => Here = Null
      /\ path # <<>> => Here = path[Len(path)]
      /\ "MsgDefIdr" # Null
  BY Places, FixedNames DEF Frame
<1>4. ~InDocument /\ ~InMessage /\ audit.open = Null /\ path # <<>>
  <2>1. OwnInv
    BY DEF IdentityInv
  <2>. QED BY <1>1, <1>3, <2>1, AboveMessages
<1>5. IsMessageDefinition(path) /\ ~IsMessageId(path)
  <2>1. Len(path) >= 2 /\ path[Len(path) - 1] = "AppHdr" /\ path[Len(path)] = "MsgDefIdr"
    <3>1. Here # "BizMsgEnvlp" /\ Here # "Document"
      BY <1>1
    <3>2. Len(path) - 1 \in DOMAIN path /\ path[Len(path) - 1] = "AppHdr"
      BY <1>1, <1>3, <1>4, <3>1, HereRank DEF Fits
    <3>. QED BY <1>1, <1>3, <1>4, <3>2, Innermost
  <2>2. IsMessageDefinition(path)
    BY <1>3, <2>1, EndsInTwo DEF IsMessageDefinition
  <2>3. /\ EndsWith(path, <<"GrpHdr", "MsgId">>) => Here = "MsgId"
        /\ EndsWith(path, <<"Assgnmt", "Id">>) => Here = "Id"
        /\ EndsWith(path, <<"MsgHdr", "MsgId">>) => Here = "MsgId"
    BY <1>3, <1>4, EndsInTwo
  <2>. QED BY <1>1, <2>2, <2>3 DEF IsMessageId
<1>. DEFINE md == MessageDefinition(text)
<1>6. /\ path' = path
      /\ UNCHANGED <<sniffed.document, sniffed.awaiting, sniffed.child,
                     sniffed.namespace, sniffed.ancestor, sniffed.container,
                     sniffed.counts>>
      /\ sniffed'.header = Some(sniffed.header, md)
      /\ sniffed'.done = FALSE /\ audit'.found = audit.found
  <2>1. /\ path' = path
        /\ UNCHANGED <<sniffed.document, sniffed.awaiting, sniffed.child,
                       sniffed.namespace, sniffed.ancestor, sniffed.container,
                       sniffed.counts>>
        /\ sniffed'.header = IF sniffed.header = Null /\ IsMessageDefinition(path)
                             THEN MessageDefinition(text) ELSE sniffed.header
        /\ sniffed'.done = FALSE /\ audit'.found = audit.found
    BY <1>2, <1>4, <1>5, TextTells
  <2>2. sniffed'.header = Some(sniffed.header, md)
    BY <1>5, <2>1 DEF Some
  <2>. QED BY <2>1, <2>2
<1>7. /\ past'.messages = past.messages /\ past'.hidden = past.hidden
      /\ past'.form = past.form /\ past'.envelope = past.envelope
      /\ past'.families = past.families /\ past'.records = past.records
      /\ past'.plain = past.plain
      /\ past'.header = text /\ past'.heard = Some(past.heard, md)
  <2>. DEFINE h == Some(past.heard, md)
  <2>1. past' = [past EXCEPT !.header = text, !.heard = h]
    BY <1>2
  <2>. HIDE DEF h
  <2>2. /\ past'.messages = past.messages /\ past'.hidden = past.hidden
        /\ past'.form = past.form /\ past'.envelope = past.envelope
        /\ past'.families = past.families /\ past'.records = past.records
        /\ past'.plain = past.plain /\ past'.header = text /\ past'.heard = h
    BY <1>3, <2>1 DEF Pasts
  <2>. QED BY <2>2 DEF h
<1>8. MessageDefinition(past'.header) = md
  BY <1>7
<1>9. MessageDefinition(past.header) = Null
  BY <1>1, IdentsAre
<1>. HIDE DEF md
<1>10. ~InDocument' /\ ~InMessage'
  BY <1>1, <1>4, <1>6 DEF InDocument, InMessage
<1>11. FoundInv /\ SpaceInv /\ FirstInv /\ CountInv
  BY DEF TellInv
<1>12. FoundInv'
  BY <1>6, <1>7, <1>11 DEF FoundInv
<1>13. SpaceInv'
  <2>1. past.messages = 0 /\ ~past.hidden => past.heard = Null
    BY <1>9, <1>11 DEF SpaceInv
  <2>2. past'.messages = 0 /\ ~past'.hidden =>
          past'.heard = MessageDefinition(past'.header)
    BY <1>7, <1>8, <2>1 DEF Some
  <2>. QED BY <1>4, <1>6, <1>7, <1>10, <1>11, <2>2 DEF SpaceInv
<1>14. FirstInv'
  <2>. SUFFICES ASSUME past.messages > 0, ~past.hidden
                PROVE  First'
    BY <1>7 DEF FirstInv
  <2>1. First
    BY <1>11 DEF FirstInv
  <2>2. SniffNamespace' = SniffNamespace /\ Announce' = Announce
    BY <1>6 DEF SniffNamespace, Announce
  <2>3. CASE SniffNamespace # Null
    BY <1>7, <2>1, <2>2, <2>3 DEF First
  <2>4. CASE SniffNamespace = Null /\ past.heard # Null
    <3>1. ~Pending
      BY <1>9, <2>4 DEF Pending
    <3>2. past'.heard = past.heard
      BY <1>7, <2>4 DEF Some
    <3>. QED BY <1>7, <2>1, <2>2, <2>4, <3>1, <3>2 DEF First
  <2>5. CASE SniffNamespace = Null /\ past.heard = Null
    <3>1. past'.heard = md
      BY <1>7, <2>5 DEF Some
    <3>2. Pending'
      BY <1>8, <1>10, <3>1 DEF Pending
    <3>. QED BY <1>7, <2>1, <2>2, <2>5, <3>2 DEF First
  <2>. QED BY <2>3, <2>4, <2>5
<1>15. CountInv'
  BY <1>6, <1>7, <1>10, <1>11, SoleStays
<1>. QED BY <1>12, <1>13, <1>14, <1>15 DEF TellInv

\* The envelope, around the first message.
LEMMA EnvelopeTells ==
  ASSUME WalkInv, IdentityInv, TellInv, EnvelopeStarts
  PROVE  TellInv'
<1>1. path = <<>> /\ past.form = Null /\ UNCHANGED own
  BY DEF EnvelopeStarts
<1>2. PICK ident \in {Null} \cup Idents :
        /\ Opens("BizMsgEnvlp", ident)
        /\ past' = [past EXCEPT !.form = "envelope", !.envelope = ident]
  BY DEF EnvelopeStarts
<1>3. past \in Pasts /\ ident \in Messages
  BY Places
<1>4. FileInv /\ OwnInv /\ FoundInv /\ SpaceInv
  BY DEF IdentityInv, TellInv
<1>5. ~InDocument'
  <2>1. /\ "BizMsgEnvlp" \in {"BizMsgEnvlp", "AppHdr", "MsgDefIdr", "Document"}
        /\ "BizMsgEnvlp" # "Document"
    OBVIOUS
  <2>. QED BY <1>1, <1>2, <1>3, <1>4, <2>1, FrameOpens
<1>6. /\ "BizMsgEnvlp" \in Elements /\ "BizMsgEnvlp" # "Document"
      /\ "BizMsgEnvlp" \notin RecordElems \cup DOMAIN Announced
  BY FixedNames, ContainerNames DEF Frame, RecordElems
<1>7. past.messages = 0 /\ past.envelope = Null /\ ~sniffed.document
  <2>1. past.form \in {Null, "envelope"} /\ past.form # "documents"
    BY <1>1, NullAssumption
  <2>. QED BY <1>1, <1>4, <2>1 DEF FileInv, FoundInv
<1>8. /\ past'.messages = 0 /\ past'.hidden = past.hidden
      /\ past'.form = "envelope" /\ past'.envelope = ident
      /\ past'.families = past.families /\ past'.records = past.records
      /\ past'.header = past.header /\ past'.heard = past.heard
  BY <1>2, <1>3, <1>7 DEF Pasts
<1>9. /\ sniffed'.done = FALSE /\ sniffed'.header = sniffed.header
      /\ ~sniffed'.document /\ sniffed'.awaiting = FALSE
      /\ sniffed'.namespace = sniffed.namespace
      /\ sniffed'.ancestor =
           IF sniffed.namespace = Null /\ sniffed.ancestor = Null
           THEN ident ELSE sniffed.ancestor
      /\ sniffed'.container = sniffed.container
      /\ sniffed'.counts = sniffed.counts
  BY <1>2, <1>3, <1>6, <1>7, StartTells
<1>10. FoundInv'
  BY <1>4, <1>7, <1>8, <1>9 DEF FoundInv
<1>11. SpaceInv'
  <2>1. sniffed.namespace = Null /\ sniffed.ancestor = Null
    BY <1>1, <1>4, <1>7, NullAssumption DEF SpaceInv
  <2>. QED BY <1>4, <1>5, <1>7, <1>8, <1>9, <2>1 DEF SpaceInv
<1>12. FirstInv' /\ CountInv'
  BY <1>8 DEF FirstInv, CountInv
<1>. QED BY <1>10, <1>11, <1>12 DEF TellInv

\* A Document is the first, or there is a message before it.
LEMMA DocumentTells ==
  ASSUME WalkInv, IdentityInv, TellInv, DocumentStarts
  PROVE  TellInv'
<1>1. /\ \/ path = <<>> /\ past.form = Null
         \/ Here = "BizMsgEnvlp" /\ past.form \in {"envelope", "documents"}
      /\ past.messages = 0 => ~past.hidden
      /\ UNCHANGED own
  BY DEF DocumentStarts
<1>2. PICK ident \in {Null} \cup Idents :
        /\ Opens("Document", ident)
        /\ past' = [past EXCEPT !.form = "documents", !.binding = ident,
                                !.child = Null, !.empty = TRUE]
  BY DEF DocumentStarts
<1>3. past \in Pasts /\ ident \in Messages /\ path \in Seq(Elements)
  BY Places
<1>4. /\ FileInv /\ OwnInv /\ FoundInv /\ SpaceInv /\ FirstInv /\ CountInv
  BY DEF IdentityInv, TellInv
<1>5. ~InDocument /\ ~InMessage /\ InDocument' /\ ~InMessage'
  <2>1. "Document" \in {"BizMsgEnvlp", "AppHdr", "MsgDefIdr", "Document"}
    OBVIOUS
  <2>2. path = <<>> \/ Here = "BizMsgEnvlp" \/ Here = "AppHdr"
    BY <1>1
  <2>. QED BY <1>1, <1>2, <1>3, <1>4, <2>1, <2>2, FrameOpens
<1>6. "Document" \in Elements /\ "Document" \notin RecordElems
  BY FixedNames DEF Frame, RecordElems
<1>7. /\ past'.messages = past.messages /\ past'.hidden = past.hidden
      /\ past'.form = "documents" /\ past'.binding = ident
      /\ past'.envelope = past.envelope /\ past'.child = Null /\ past'.empty = TRUE
      /\ past'.families = past.families /\ past'.records = past.records
      /\ past'.plain = past.plain
      /\ past'.header = past.header /\ past'.heard = past.heard
  BY <1>2, <1>3 DEF Pasts
<1>8. CASE ~sniffed.document
  <2>1. past.form # "documents"
    BY <1>4, <1>8 DEF FoundInv
  <2>2. past.messages = 0 /\ ~past.hidden
    <3>1. past.form \in {Null, "envelope"}
      BY <1>1, <2>1
    <3>. QED BY <1>1, <1>4, <3>1 DEF FoundInv
  <2>3. /\ sniffed'.done = FALSE /\ sniffed'.header = sniffed.header
        /\ sniffed'.document = TRUE /\ sniffed'.awaiting = TRUE
        /\ sniffed'.namespace = Some(ident, sniffed.ancestor)
        /\ sniffed'.container = sniffed.container
        /\ sniffed'.counts = sniffed.counts /\ audit'.found
    BY <1>2, <1>3, <1>6, <1>8, StartTells
  <2>4. FoundInv'
    BY <1>4, <1>7, <2>2, <2>3 DEF FoundInv
  <2>5. SpaceInv'
    <3>1. sniffed.ancestor = past.envelope
      BY <1>4, <2>1 DEF SpaceInv
    <3>2. past.heard = MessageDefinition(past.header)
      BY <1>4, <2>2 DEF SpaceInv
    <3>. QED BY <1>5, <1>7, <2>2, <2>3, <3>1, <3>2 DEF SpaceInv
  <2>6. FirstInv' /\ CountInv'
    BY <1>7, <2>2 DEF FirstInv, CountInv
  <2>. QED BY <2>4, <2>5, <2>6 DEF TellInv
<1>9. CASE sniffed.document
  <2>1. past.form = "documents" /\ past.messages # 0
    <3>1. past.form = "documents"
      BY <1>4, <1>9 DEF FoundInv
    <3>. QED BY <1>1, <1>4, <1>5, <3>1 DEF SpaceInv
  <2>2. /\ sniffed'.done = FALSE /\ sniffed'.header = sniffed.header
        /\ sniffed'.document /\ sniffed'.awaiting = FALSE
        /\ sniffed'.child = IF sniffed.awaiting THEN "Document" ELSE sniffed.child
        /\ sniffed'.namespace = sniffed.namespace
        /\ sniffed'.counts = sniffed.counts /\ audit'.found
    BY <1>2, <1>3, <1>6, <1>9, StartTells
  <2>3. FoundInv'
    BY <1>4, <1>7, <2>1, <2>2 DEF FoundInv
  <2>4. SpaceInv'
    BY <1>7, <2>1, <2>2 DEF SpaceInv
  <2>5. FirstInv'
    <3>. SUFFICES ASSUME past.messages > 0, ~past.hidden
                  PROVE  First'
      BY <1>7 DEF FirstInv
    <3>1. First
      BY <1>4 DEF FirstInv
    <3>2. ~sniffed.awaiting
      BY <1>4, <2>1 DEF SpaceInv
    <3>3. SniffNamespace' = SniffNamespace /\ Announce' = Announce
      BY <1>9, <2>2, <3>2 DEF SniffNamespace, Announce
    <3>4. Pending => Pending'
      BY <1>5, <1>7 DEF Pending, Childless
    <3>. QED BY <1>7, <3>1, <3>3, <3>4 DEF First
  <2>6. CountInv'
    <3>1. path' = Append(path, "Document")
      BY <1>2, OpensReads
    <3>2. \A i \in DOMAIN path' : path'[i] \in RecordElems \ {"Mndt"} =>
            i \in DOMAIN path /\ path'[i] = path[i]
      BY <1>3, <1>6, <3>1, AddedName
    <3>. QED BY <1>4, <1>5, <1>7, <2>2, <3>2, SoleStays
  <2>. QED BY <2>3, <2>4, <2>5, <2>6 DEF TellInv
<1>. QED BY <1>8, <1>9

\* The first message of the file is named by what the sniffer has met; of another
\* one it goes by what it went by.
LEMMA FirstMessage ==
  ASSUME past \in Pasts, FoundInv, SpaceInv, FirstInv,
         MessageDefinition(past.header) # Null => past.heard # Null, NEW f,
         InDocument \/ past.binding = Null, InDocument => sniffed.document,
         ~InDocument => ~sniffed.document, ~past.hidden,
         sniffed'.document = sniffed.document,
         sniffed'.namespace = sniffed.namespace,
         sniffed.document \/ sniffed'.ancestor = sniffed.ancestor,
         past'.messages = past.messages + 1, past'.heard = past.heard,
         past'.families = past.families \cup {f},
         past.messages # 0 => Announce' = Announce,
         past.messages = 0 => \/ Named # Null /\ f = Named
                              \/ /\ Named = Null
                                 /\ Announce' \in Containers
                                 /\ f = Announced[Announce']
  PROVE  First'
<1>1. SniffNamespace' = SniffNamespace
  BY DEF SniffNamespace
<1>2. CASE past.messages = 0
  <2>1. SniffNamespace = Some(past.binding, past.envelope)
    <3>1. CASE InDocument
      BY <1>2, <3>1 DEF SpaceInv, SniffNamespace
    <3>2. CASE ~InDocument
      <4>1. past.form # "documents"
        BY <3>2 DEF FoundInv
      <4>. QED BY <3>2, <4>1 DEF SpaceInv, SniffNamespace, Some
    <3>. QED BY <3>1, <3>2
  <2>2. past.heard = MessageDefinition(past.header)
    BY <1>2 DEF SpaceInv
  <2>3. Named = Some(past.binding, Some(past.envelope, past.heard))
    BY <2>2, NamesAgree
  <2>4. Named = IF SniffNamespace # Null THEN SniffNamespace ELSE past.heard
    BY <2>1, <2>3 DEF Some
  <2>. QED BY <1>1, <1>2, <2>4 DEF First
<1>3. CASE past.messages # 0
  <2>1. past.messages > 0 /\ past'.messages > 1
    BY <1>3 DEF Pasts
  <2>2. First
    BY <2>1 DEF FirstInv
  <2>. QED BY <1>1, <1>3, <2>1, <2>2 DEF First
<1>. QED BY <1>2, <1>3

\* A container outside of messages: the audit finds it, and the sniffer the first.
LEMMA MessageTells ==
  ASSUME WalkInv, IdentityInv, TellInv, MessageStarts
  PROVE  TellInv'
<1>. DEFINE n == Len(path)
<1>1. /\ FileInv /\ OwnInv /\ DepthInv
      /\ FoundInv /\ SpaceInv /\ FirstInv /\ CountInv
  BY DEF IdentityInv, TellInv
<1>2. /\ past \in Pasts /\ path \in Seq(Elements) /\ sniffed \in Sniffs /\ Nested
      /\ Null \in Messages /\ n \in Nat /\ DOMAIN path = 1 .. n
  BY Places, Innermost
<1>3. /\ ~InMessage
      /\ \/ Here = "Document" /\ past.child # Wrapper
         \/ Here = Wrapper /\ ~past.hidden
         \/ Here = "BizMsgEnvlp" /\ (past.form = "envelope" \/ past.form = "bare")
  BY DEF MessageStarts
<1>4. PICK c \in Containers :
        /\ Opens(c, Null)
        /\ own' = Starts(Some(Named, Announced[c]), n, Announced[c])
        /\ past' = [Holds(Some(Named, Announced[c]),
                          Some(Named, Announced[c]) = Announced[c]) EXCEPT
                      !.hidden = @ \/ Here = Wrapper,
                      !.child = IF Here = "Document" THEN c ELSE @,
                      !.form = IF Here = "BizMsgEnvlp" THEN "bare" ELSE @]
  BY DEF MessageStarts
<1>. DEFINE f == Some(Named, Announced[c])
<1>5. /\ c \in Elements /\ c # Null /\ c \notin RecordElems
      /\ c # "Document" /\ c \in DOMAIN Announced
      /\ Announced[c] \in Families /\ Announced[c] # Null
  <2>1. c \in Elements /\ c \notin RecordElems /\ c \in DOMAIN Announced /\ c # "Document"
    BY ContainerNames, FixedNames DEF Frame, Leaf
  <2>2. Announced[c] \in Families
    BY <2>1 DEF Families
  <2>. QED BY <2>1, <2>2, NullAssumption
<1>6. f \in Families
  <2>1. Named \in Messages
    BY <1>2, NamedTyped
  <2>. QED BY <1>5, <2>1 DEF Some, Messages
<1>7. /\ past'.messages = past.messages + 1 /\ past'.families = past.families \cup {f}
      /\ past'.hidden = (past.hidden \/ Here = Wrapper)
      /\ past'.form = IF Here = "BizMsgEnvlp" THEN "bare" ELSE past.form
      /\ past'.envelope = past.envelope /\ past'.records = past.records
      /\ past'.heard = past.heard
      /\ past'.plain = (past.plain /\ f = Announced[c])
  <2>. DEFINE b == f = Announced[c]
              h == Holds(f, b)
              x == past.hidden \/ Here = Wrapper
              y == IF Here = "Document" THEN c ELSE past.child
              z == IF Here = "BizMsgEnvlp" THEN "bare" ELSE past.form
  <2>1. b \in BOOLEAN
    OBVIOUS
  <2>. HIDE DEF b, f
  <2>2. h \in Pasts
    BY <1>2, <1>6, <2>1, HoldsTyped
  <2>3. /\ h.messages = past.messages + 1 /\ h.families = past.families \cup {f}
        /\ h.hidden = past.hidden /\ h.child = past.child /\ h.form = past.form
        /\ h.envelope = past.envelope /\ h.records = past.records
        /\ h.heard = past.heard /\ h.plain = (past.plain /\ b)
    BY <1>2 DEF Holds, Pasts
  <2>4. past' = [h EXCEPT !.hidden = x, !.child = y, !.form = z]
    BY <1>4, <2>3 DEF f, b
  <2>. HIDE DEF h, x, y, z
  <2>5. /\ past'.messages = h.messages /\ past'.families = h.families
        /\ past'.hidden = x /\ past'.form = z
        /\ past'.envelope = h.envelope /\ past'.records = h.records
        /\ past'.heard = h.heard /\ past'.plain = h.plain
    BY <2>2, <2>4 DEF Pasts
  <2>. QED BY <2>3, <2>5 DEF x, z, b
<1>8. own'.depth = n
  <2>. HIDE DEF n, f
  <2>1. own' = Starts(f, n, Announced[c]) /\ f \in Messages /\ Announced[c] \in Messages
    BY <1>4, <1>5, <1>6 DEF n, f, Messages
  <2>. QED BY <1>2, <2>1, StartsTyped
<1>9. audit.open = Null
  <2>1. Here \in Frame /\ Rank(Here) < 7
    BY <1>3, Ranks DEF Frame
  <2>2. path # <<>>
    BY <2>1, FixedNames, Places
  <2>. QED BY <2>1, <2>2, PartyPlace
<1>10. /\ Here = "BizMsgEnvlp" => ~InDocument /\ past.form # "documents"
       /\ Here # "BizMsgEnvlp" => InDocument /\ past.form = "documents"
  <2>1. Here = "BizMsgEnvlp" => ~InDocument
    BY <1>1, AboveMessages
  <2>2. Here # "BizMsgEnvlp" => InDocument
    BY <1>1, <1>3, DocumentPlace
  <2>3. Here = "BizMsgEnvlp" => past.form = "envelope" \/ past.form = "bare"
    BY <1>3 DEF Wrapper
  <2>4. past.form = "envelope" \/ past.form = "bare" => past.form # "documents"
    OBVIOUS
  <2>. QED BY <1>1, <2>1, <2>2, <2>3, <2>4 DEF FileInv
<1>11. InDocument <=> sniffed.document
  BY <1>1, <1>10 DEF FoundInv
<1>12. path' = Append(path, c)
  BY <1>4, OpensReads
<1>13. /\ sniffed'.done = FALSE /\ sniffed'.header = sniffed.header
       /\ audit.found => audit'.found
       /\ audit.open = Null /\ audit.depth = Null => audit'.found
       /\ sniffed'.document = sniffed.document
       /\ sniffed'.awaiting = FALSE
       /\ sniffed'.child = IF sniffed.awaiting THEN c ELSE sniffed.child
       /\ sniffed'.namespace = sniffed.namespace
       /\ sniffed'.ancestor = sniffed.ancestor
       /\ sniffed'.container = IF ~sniffed.document /\ sniffed.container = Null
                               THEN c ELSE sniffed.container
       /\ sniffed'.counts = sniffed.counts
  <2>1. /\ sniffed'.done = FALSE /\ sniffed'.header = sniffed.header
        /\ audit.found => audit'.found
        /\ audit.open = Null /\ audit.depth = Null => audit'.found
        /\ sniffed'.document = sniffed.document
        /\ sniffed'.awaiting = FALSE
        /\ sniffed'.child = IF sniffed.awaiting THEN c ELSE sniffed.child
        /\ sniffed'.namespace = sniffed.namespace
        /\ sniffed'.ancestor =
             IF sniffed.namespace = Null /\ sniffed.ancestor = Null
             THEN Null ELSE sniffed.ancestor
        /\ sniffed'.container = IF ~sniffed.document /\ sniffed.container = Null
                                THEN c ELSE sniffed.container
        /\ sniffed'.counts = sniffed.counts
    BY <1>2, <1>4, <1>5, StartTells
  <2>. QED BY <2>1
<1>. HIDE DEF n, f
<1>14. audit'.found
  <2>1. CASE InDocument
    BY <1>1, <1>10, <1>13, <2>1 DEF FoundInv
  <2>2. CASE ~InDocument
    <3>1. ~Lost /\ ~Claimed
      BY <1>1, <1>10, <2>2, DocumentPlace, NoneClaimed
    <3>2. audit.depth = Null
      BY <1>1, <1>3, <3>1 DEF DepthInv
    <3>. QED BY <1>9, <1>13, <3>2
  <2>. QED BY <2>1, <2>2
<1>15. past'.messages # 0 /\ past'.messages > 0
  BY <1>2, <1>7 DEF Pasts
<1>16. past'.form = "documents" <=> InDocument
  BY <1>7, <1>10
<1>17. FoundInv'
  <2>1. past'.form # Null /\ past'.form # "envelope"
    BY <1>7, <1>10, NullAssumption
  <2>2. past'.form # "documents" => sniffed'.container # Null
    BY <1>5, <1>11, <1>13, <1>16
  <2>. QED BY <1>1, <1>7, <1>11, <1>13, <1>14, <1>15, <1>16, <2>1, <2>2 DEF FoundInv
<1>18. SpaceInv'
  BY <1>1, <1>7, <1>10, <1>13, <1>15 DEF SpaceInv
<1>19. FirstInv'
  <2>. SUFFICES ASSUME ~past.hidden, Here # Wrapper
                PROVE  First'
    BY <1>7 DEF FirstInv
  <2>1. InDocument \/ past.binding = Null
    BY <1>1 DEF FileInv
  <2>2. MessageDefinition(past.header) # Null => past.heard # Null
    BY <1>1 DEF FileInv
  <2>3. past.messages # 0 => Announce' = Announce
    <3>1. past.messages # 0 => ~sniffed.awaiting
      BY <1>1 DEF SpaceInv
    <3>2. past.messages # 0 /\ ~sniffed.document => sniffed.container # Null
      BY <1>1 DEF FoundInv
    <3>. QED BY <1>13, <3>1, <3>2 DEF Announce
  <2>4. past.messages = 0 => Announce' = c
    <3>1. CASE sniffed.document
      <4>1. Here = "Document"
        BY <1>3, <1>10, <1>11, <3>1
      <4>2. past.messages = 0 => past.child = Null
        BY <1>1, <1>3, <1>11, <3>1, <4>1 DEF SpaceInv, Wrapper
      <4>3. past.messages = 0 => sniffed.awaiting
        BY <1>1, <1>11, <3>1, <4>2 DEF SpaceInv
      <4>. QED BY <1>13, <3>1, <4>3 DEF Announce
    <3>2. CASE ~sniffed.document
      BY <1>1, <1>13, <3>2 DEF FoundInv, Announce
    <3>. QED BY <3>1, <3>2
  <2>5. IF Named # Null THEN f = Named ELSE f = Announced[c]
    BY DEF f, Some
  <2>. QED BY <1>1, <1>2, <1>7, <1>11, <1>13, <2>1, <2>2, <2>3, <2>4, <2>5, FirstMessage
<1>20. CountInv'
  <2>. SUFFICES ASSUME past'.messages = 1, past'.plain
                PROVE  \E d \in Containers : Sole(d)'
    BY DEF CountInv
  <2>1. past.messages = 0 /\ f = Announced[c]
    <3>1. past.messages \in Nat /\ past.messages + 1 = 1
      BY <1>2, <1>7 DEF Pasts
    <3>2. f = Announced[c]
      BY <1>7, Zenon
    <3>. QED BY <3>1, <3>2
  <2>2. past'.families = {Announced[c]}
    BY <1>1, <1>7, <2>1 DEF FoundInv
  <2>. DEFINE elem == RecordElemOf(Announced[c])
  <2>3. elem \in RecordElems \cup {Null}
    BY RecordElemIs
  <2>. HIDE DEF elem
  <2>4. elem # Null => sniffed'.counts[elem] = past'.records
    BY <1>1, <1>7, <1>13, <2>1, <2>3 DEF FoundInv
  <2>5. \A i \in DOMAIN path' : path'[i] \notin RecordElems \ {"Mndt"}
    <3>1. \A i \in DOMAIN path : Rank(path[i]) < 4
      BY <1>1, <1>3 DEF OwnInv
    <3>2. \A e \in RecordElems : Rank(e) > 4
      BY Ranks
    <3>3. \A i \in DOMAIN path : path[i] \notin RecordElems
      <4>. SUFFICES ASSUME NEW i \in DOMAIN path, path[i] \in RecordElems
                    PROVE  FALSE
        OBVIOUS
      <4>1. Rank(path[i]) < 4 /\ Rank(path[i]) > 4 /\ Rank(path[i]) \in 0 .. 9
        BY <3>1, <3>2, RankTells
      <4>. QED BY <4>1
    <3>4. \A i \in DOMAIN path' :
            (i \in DOMAIN path /\ path'[i] = path[i]) \/ path'[i] = c
      BY <1>2, <1>5, <1>12, AddedName
    <3>. QED BY <1>5, <3>3, <3>4
  <2>6. path'[own'.depth + 1] = c
    <3>1. path'[Len(path) + 1] = c
      BY <1>2, <1>5, <1>12, Pushed
    <3>. QED BY <1>8, <3>1 DEF n
  <2>7. Sole(c)'
    BY <2>2, <2>4, <2>5, <2>6 DEF Sole, elem
  <2>. QED BY <2>7
<1>. QED BY <1>17, <1>18, <1>19, <1>20 DEF TellInv

\* The first child of a Document, where no table knows it.
LEMMA WrapperTells ==
  ASSUME WalkInv, IdentityInv, TellInv, WrapperStarts
  PROVE  TellInv'
<1>1. /\ FileInv /\ OwnInv /\ FoundInv /\ SpaceInv /\ FirstInv /\ CountInv
  BY DEF IdentityInv, TellInv
<1>2. /\ past \in Pasts /\ path \in Seq(Elements) /\ sniffed \in Sniffs
      /\ Null \in Messages
  BY Places
<1>3. /\ Here = "Document" /\ past.child = Null /\ Opens(Wrapper, Null)
      /\ IF Named = Null
         THEN past' = [past EXCEPT !.child = Wrapper] /\ UNCHANGED own
         ELSE past' = [Holds(Named, FALSE) EXCEPT !.child = Wrapper]
  BY DEF WrapperStarts
<1>4. InDocument /\ Childless /\ ~InMessage /\ past.form = "documents" /\ sniffed.document
  <2>1. InDocument /\ past.form = "documents"
    BY <1>1, <1>3, DocumentPlace DEF FileInv
  <2>2. Childless
    BY <1>3, <2>1 DEF Childless
  <2>. QED BY <1>1, <2>1, <2>2 DEF OwnInv, FoundInv
<1>5. /\ Wrapper \in Elements /\ Wrapper # "Document"
      /\ Wrapper \notin RecordElems \cup DOMAIN Announced
  <2>1. Wrapper \in Frame
    BY DEF Frame
  <2>. QED BY <2>1, FixedNames, ContainerNames DEF Wrapper, RecordElems
<1>6. /\ sniffed'.done = FALSE /\ sniffed'.header = sniffed.header
      /\ audit.found => audit'.found
      /\ sniffed'.document /\ sniffed'.awaiting = FALSE
      /\ sniffed'.child = IF sniffed.awaiting THEN Wrapper ELSE sniffed.child
      /\ sniffed'.namespace = sniffed.namespace
      /\ sniffed'.container = sniffed.container
      /\ sniffed'.counts = sniffed.counts
  BY <1>2, <1>3, <1>4, <1>5, StartTells
<1>7. path' = Append(path, Wrapper) /\ InDocument'
  <2>1. path' = Append(path, Wrapper)
    BY <1>3, OpensReads
  <2>. QED BY <1>2, <1>4, <1>5, <2>1, DocumentPushed
<1>8. MessageDefinition(past.header) # Null => past.heard # Null
  BY <1>1 DEF FileInv
<1>9. past.messages # 0 => Announce' = Announce
  <2>1. past.messages # 0 => ~sniffed.awaiting
    BY <1>1 DEF SpaceInv
  <2>. QED BY <1>4, <1>6, <2>1 DEF Announce
<1>10. CASE Named = Null
  <2>1. /\ past'.messages = past.messages /\ past'.hidden = past.hidden
        /\ past'.form = past.form /\ past'.envelope = past.envelope
        /\ past'.binding = past.binding /\ past'.child = Wrapper
        /\ past'.empty = past.empty /\ past'.header = past.header
        /\ past'.heard = past.heard /\ past'.families = past.families
        /\ past'.records = past.records /\ past'.plain = past.plain
        /\ UNCHANGED own
    BY <1>2, <1>3, <1>10 DEF Pasts
  <2>2. Wrapper # Null
    BY <1>5, NullAssumption
  <2>3. FoundInv'
    BY <1>1, <1>4, <1>6, <2>1 DEF FoundInv
  <2>4. SpaceInv'
    BY <1>1, <1>4, <1>6, <1>7, <2>1, <2>2 DEF SpaceInv
  <2>5. FirstInv'
    <3>. SUFFICES ASSUME past.messages > 0, ~past.hidden
                  PROVE  First'
      BY <2>1 DEF FirstInv
    <3>1. First
      BY <1>1 DEF FirstInv
    <3>2. past.messages # 0
      BY <1>2 DEF Pasts
    <3>3. SniffNamespace' = SniffNamespace /\ Announce' = Announce
      BY <1>4, <1>6, <1>9, <3>2 DEF SniffNamespace
    <3>4. past.heard # Null => ~Pending
      <4>1. Named = Some(past.binding,
                         Some(past.envelope, MessageDefinition(past.header)))
        BY <1>2, <1>8, NamesAgree, Zenon
      <4>2. MessageDefinition(past.header) = Null
        BY <1>10, <4>1 DEF Some
      <4>. QED BY <4>2 DEF Pending
    <3>. QED BY <2>1, <3>1, <3>3, <3>4 DEF First
  <2>6. CountInv'
    <3>1. \A i \in DOMAIN path' : path'[i] \in RecordElems \ {"Mndt"} =>
            i \in DOMAIN path /\ path'[i] = path[i]
      BY <1>2, <1>5, <1>7, AddedName
    <3>2. ~InMessage'
      BY <1>4, <2>1 DEF InMessage
    <3>. QED BY <1>1, <1>6, <2>1, <3>1, <3>2, SoleStays
  <2>. QED BY <2>3, <2>4, <2>5, <2>6 DEF TellInv
<1>11. CASE Named # Null
  <2>1. Named \in Families
    <3>1. Named \in Messages
      BY <1>2, NamedTyped
    <3>. QED BY <1>11, <3>1 DEF Messages
  <2>2. /\ past'.messages = past.messages + 1
        /\ past'.families = past.families \cup {Named}
        /\ past'.hidden = past.hidden /\ past'.form = past.form
        /\ past'.heard = past.heard /\ past'.plain = FALSE
    <3>. DEFINE h == Holds(Named, FALSE)
    <3>1. h \in Pasts
      BY <1>2, <2>1, HoldsTyped
    <3>2. /\ h.messages = past.messages + 1
          /\ h.families = past.families \cup {Named}
          /\ h.hidden = past.hidden /\ h.form = past.form
          /\ h.heard = past.heard /\ h.plain = FALSE
      BY <1>2 DEF Holds, Pasts
    <3>3. past' = [h EXCEPT !.child = Wrapper]
      BY <1>3, <1>11
    <3>. HIDE DEF h
    <3>4. /\ past'.messages = h.messages /\ past'.families = h.families
          /\ past'.hidden = h.hidden /\ past'.form = h.form
          /\ past'.heard = h.heard /\ past'.plain = h.plain
      BY <3>1, <3>3 DEF Pasts
    <3>. QED BY <3>2, <3>4
  <2>3. past'.messages # 0
    <3>1. past.messages \in Nat
      BY <1>2 DEF Pasts
    <3>2. past'.messages = past.messages + 1
      BY <2>2
    <3>. QED BY <3>1, <3>2
  <2>4. FoundInv'
    <3>1. past'.form = "documents" /\ past'.form # Null /\ past'.form # "envelope"
      BY <1>4, <2>2, NullAssumption
    <3>. QED BY <1>1, <1>4, <1>6, <2>2, <2>3, <3>1 DEF FoundInv
  <2>5. SpaceInv'
    BY <1>4, <1>6, <2>2, <2>3 DEF SpaceInv
  <2>6. FirstInv'
    <3>. SUFFICES ASSUME ~past.hidden
                  PROVE  First'
      BY <2>2 DEF FirstInv
    <3>. QED BY <1>1, <1>2, <1>4, <1>6, <1>8, <1>9, <1>11, <2>2, FirstMessage
  <2>7. CountInv'
    BY <2>2 DEF CountInv
  <2>. QED BY <2>4, <2>5, <2>6, <2>7 DEF TellInv
<1>. QED BY <1>10, <1>11

\* An end tag tells the sniffer nothing; a Document without a message is hidden.
LEMMA EndsTell ==
  ASSUME WalkInv, IdentityInv, TellInv, ElementEnds
  PROVE  TellInv'
<1>1. /\ FileInv /\ OwnInv /\ FoundInv /\ SpaceInv /\ FirstInv /\ CountInv
  BY DEF IdentityInv, TellInv
<1>2. /\ past \in Pasts /\ own \in Owns /\ sniffed \in Sniffs /\ audit \in Audits
  BY Places
<1>3. /\ Len(path) \in Nat \ {0} /\ path # <<>> /\ Here = path[Len(path)]
      /\ DOMAIN path = 1 .. Len(path) /\ DOMAIN path' = 1 .. Len(path) - 1
      /\ \A i \in 1 .. Len(path) - 1 : path'[i] = path[i]
      /\ InDocument' <=> InDocument /\ Here # "Document"
  BY EndsFields
<1>4. sniffed' = sniffed /\ audit'.found = audit.found /\ Reading
  <2>. DEFINE e == Event("end", Here)
  <2>1. e.tag = "end"
    BY DEF Event
  <2>2. Reads(e)
    BY DEF ElementEnds
  <2>. HIDE DEF e
  <2>3. Reading /\ SniffStep(e) /\ AuditStep(e)
    BY <2>2 DEF Reads
  <2>4. sniffed' = sniffed
    BY <2>1, <2>3 DEF SniffStep
  <2>5. AuditCloses
    <3>1. audit.done = "reading"
      BY <2>3 DEF WalkInv
    <3>. QED BY <2>1, <2>3, <3>1 DEF AuditStep
  <2>6. audit'.found = audit.found
    BY <1>2, <1>3, <2>5, AuditClosed
  <2>. QED BY <2>3, <2>4, <2>6
<1>5. /\ past'.messages = past.messages /\ past'.form = past.form
      /\ past'.envelope = past.envelope /\ past'.heard = past.heard
      /\ past'.empty = past.empty
      /\ IF Here = "Document" \/ (Here \in Containers /\ past.form = "bare")
         THEN /\ past'.header = Null
              /\ past'.hidden = (past.hidden \/ past.empty)
         ELSE PastStays
  BY EndsPast
<1>6. /\ past'.families = past.families /\ past'.records = past.records
      /\ past'.plain = past.plain
  <2>1. \/ UNCHANGED past
        \/ past' = [past EXCEPT !.binding = Null, !.child = Null, !.header = Null,
                                !.free = TRUE, !.hidden = @ \/ past.empty]
    BY DEF ElementEnds
  <2>. QED BY <1>2, <2>1 DEF Pasts
<1>7. InMessage' => InMessage /\ own'.depth = own.depth /\ own.depth # Len(path) - 1
  <2>1. CASE own.depth = Len(path) - 1
    <3>1. own' = NoMessage
      BY <2>1, EndsOwn
    <3>. QED BY <3>1 DEF InMessage, NoMessage
  <2>2. CASE own.depth # Len(path) - 1
    <3>1. own'.depth = own.depth
      BY <2>2, EndsOwn
    <3>. QED BY <2>2, <3>1 DEF InMessage
  <2>. QED BY <2>1, <2>2
<1>8. CountInv'
  <2>1. InMessage' => path'[own.depth + 1] = path[own.depth + 1]
    <3>1. InMessage' => own.depth + 1 \in 1 .. Len(path) /\ own.depth \in Nat
      BY <1>1, <1>2, <1>3, <1>7 DEF OwnInv, InMessage, Owns
    <3>2. InMessage' => own.depth + 1 \in 1 .. Len(path) - 1
      BY <1>3, <1>7, <3>1
    <3>. QED BY <1>3, <3>2
  <2>2. \A i \in DOMAIN path' : i \in DOMAIN path /\ path'[i] = path[i]
    BY <1>3
  <2>. QED BY <1>1, <1>4, <1>5, <1>6, <1>7, <2>1, <2>2, SoleStays
<1>9. sniffed.done = FALSE
  BY <1>2, <1>4 DEF Reading, Sniffs
<1>10. FoundInv'
  BY <1>1, <1>4, <1>5, <1>6, <1>9 DEF FoundInv
<1>11. /\ SniffNamespace' = SniffNamespace /\ Announce' = Announce
  BY <1>4 DEF SniffNamespace, Announce
<1>12. CASE Here = "Document"
  <2>1. InDocument /\ past.form = "documents" /\ ~InDocument'
    BY <1>1, <1>3, <1>12, DocumentPlace DEF FileInv
  <2>2. past.messages = 0 => past.empty /\ ~past.hidden
    BY <1>1, <2>1 DEF SpaceInv
  <2>3. past'.hidden = (past.hidden \/ past.empty)
    BY <1>5, <1>12
  <2>4. SpaceInv'
    BY <1>1, <1>4, <1>5, <2>1, <2>2, <2>3 DEF SpaceInv
  <2>5. FirstInv'
    <3>. SUFFICES ASSUME past.messages > 0, ~past.hidden, ~past.empty
                  PROVE  First'
      BY <1>5, <2>3 DEF FirstInv
    <3>1. First
      BY <1>1 DEF FirstInv
    <3>2. ~Pending
      BY <1>1, <2>1 DEF Pending, FileInv
    <3>. QED BY <1>5, <1>6, <1>11, <3>1, <3>2 DEF First
  <2>. QED BY <1>8, <1>10, <2>4, <2>5 DEF TellInv
<1>13. CASE Here \in Containers /\ past.form = "bare"
  <2>1. ~InDocument /\ ~InDocument' /\ past.form # "documents"
    <3>1. past.form # "documents"
      BY <1>13
    <3>. QED BY <1>1, <1>3, <3>1 DEF FileInv
  <2>2. InMessage /\ past.messages > 0 /\ past.messages # 0
    <3>1. Rank(Here) > 3
      BY <1>13, Ranks
    <3>2. InMessage
      BY <1>1, <1>3, <3>1, InOne
    <3>. QED BY <1>1, <1>2, <3>2 DEF OwnInv, Pasts
  <2>3. past'.hidden = (past.hidden \/ past.empty)
    BY <1>5, <1>13
  <2>4. SpaceInv'
    BY <1>1, <1>4, <1>5, <2>1, <2>2 DEF SpaceInv
  <2>5. FirstInv'
    <3>. SUFFICES ASSUME past.messages > 0, ~past.hidden
                  PROVE  First'
      BY <1>5, <2>3 DEF FirstInv
    <3>1. First
      BY <1>1 DEF FirstInv
    <3>2. ~Pending
      BY <2>2 DEF Pending
    <3>. QED BY <1>5, <1>6, <1>11, <3>1, <3>2 DEF First
  <2>. QED BY <1>8, <1>10, <2>4, <2>5 DEF TellInv
<1>14. CASE ~(Here = "Document" \/ (Here \in Containers /\ past.form = "bare"))
  <2>1. PastStays
    BY <1>5, <1>14
  <2>2. SniffStays
    BY <1>4 DEF SniffStays
  <2>3. InDocument' <=> InDocument
    BY <1>3, <1>14
  <2>4. FoundInv' /\ SpaceInv' /\ FirstInv'
    BY <1>1, <1>2, <1>4, <1>6, <1>7, <1>9, <2>1, <2>2, <2>3, TellStays
  <2>. QED BY <1>8, <2>4 DEF TellInv
<1>. QED BY <1>12, <1>13, <1>14

\* At first nothing is met.
LEMMA TellInit ==
  ASSUME Init
  PROVE  TellInv
<1>1. /\ path = <<>> /\ own = NoMessage
      /\ past.messages = 0 /\ past.hidden = FALSE /\ past.form = Null
      /\ past.envelope = Null /\ past.header = Null /\ past.heard = Null
      /\ past.records = 0 /\ past.families = {}
  BY DEF Init
<1>2. /\ sniffed.header = Null /\ sniffed.document = FALSE
      /\ sniffed.container = Null /\ sniffed.awaiting = FALSE
      /\ sniffed.namespace = Null /\ sniffed.ancestor = Null
      /\ sniffed.counts = [name \in RecordElems |-> 0] /\ sniffed.done = FALSE
  BY DEF Init, SniffInit
<1>3. past.form # "documents"
  BY <1>1, NullAssumption
<1>4. ~InDocument
  <2>1. DOMAIN path = {}
    BY <1>1
  <2>. QED BY <2>1 DEF InDocument
<1>5. FoundInv
  <2>1. past.form \in {Null, "envelope"} => past.messages = 0
    BY <1>1
  <2>. QED BY <1>1, <1>2, <1>3, <2>1 DEF FoundInv
<1>6. SpaceInv
  <2>1. MessageDefinition(past.header) = Null
    BY <1>1, IdentsAre
  <2>. QED BY <1>1, <1>2, <1>3, <1>4, <2>1 DEF SpaceInv
<1>7. FirstInv /\ CountInv
  BY <1>1 DEF FirstInv, CountInv
<1>. QED BY <1>5, <1>6, <1>7 DEF TellInv

\* Every step keeps to what the sniffer has met.
LEMMA TellNext ==
  ASSUME AddressInv, IdentityInv, TellInv, [Next]_vars
  PROVE  TellInv'
<1>1. WalkInv
  BY DEF AddressInv
<1>2. CASE EnvelopeStarts
  BY <1>1, <1>2, EnvelopeTells
<1>3. CASE HeaderStarts \/ DefinitionStarts
  BY <1>1, <1>3, HeaderTells
<1>4. CASE DefinitionSaid
  BY <1>1, <1>4, DefinitionTells
<1>5. CASE DocumentStarts
  BY <1>1, <1>5, DocumentTells
<1>6. CASE MessageStarts
  BY <1>1, <1>6, MessageTells
<1>7. CASE WrapperStarts
  BY <1>1, <1>7, WrapperTells
<1>8. CASE \/ GroupHeaderStarts \/ MessageIdStarts \/ PartyStarts
           \/ AddressStarts \/ LeafStarts
  BY <1>1, <1>8, ContentTells
<1>9. CASE RecordStarts
  BY <1>1, <1>9, RecordTells
<1>10. CASE BlockStarts
  BY <1>1, <1>10, BlockTells
<1>11. CASE RecordIsEmpty \/ LineIsEmpty
  BY <1>1, <1>11, EmptyTells
<1>12. CASE MessageIdSaid \/ LeafSaid
  BY <1>1, <1>12, TextsTell
<1>13. CASE ElementEnds
  BY <1>1, <1>13, EndsTell
<1>14. CASE TextIsUnsound \/ InputEnds
  BY <1>1, <1>14, StopsTell
<1>15. CASE UNCHANGED vars
  <2>1. /\ UNCHANGED <<path, past, own, sniffed, audit>>
    BY <1>15 DEF vars, fileVars
  <2>2. SniffStays
    BY <2>1 DEF SniffStays
  <2>3. sniffed.done /\ ~sniffed.broke /\ audit.found => audit.done = "ended"
    BY DEF TellInv, FoundInv
  <2>. QED BY <1>1, <2>1, <2>2, <2>3, QuietTells
<1>. QED
  BY <1>2, <1>3, <1>4, <1>5, <1>6, <1>7, <1>8, <1>9, <1>10, <1>11, <1>12, <1>13,
     <1>14, <1>15 DEF Next, Over

\* Every file is named by what is in it, as the invariant has it.
LEMMA TellHolds == Spec => [](AddressInv /\ IdentityInv /\ TellInv)
<1>. DEFINE Inv == AddressInv /\ IdentityInv /\ WithinInv /\ PartiesAreTheMessages
                   /\ TellInv
<1>1. Init => Inv
  BY AddressInit, IdentityInit, TellInit
<1>2. Inv /\ [Next]_vars => Inv'
  <2>. SUFFICES ASSUME AddressInv, IdentityInv, WithinInv, PartiesAreTheMessages, TellInv,
                       [Next]_vars
                PROVE  /\ AddressInv' /\ IdentityInv' /\ WithinInv'
                       /\ PartiesAreTheMessages' /\ TellInv'
    OBVIOUS
  <2>. QED BY AddressNext, IdentityNext, TellNext
<1>3. Inv => AddressInv /\ IdentityInv /\ TellInv
  OBVIOUS
<1>. QED BY <1>1, <1>2, <1>3, PTL DEF Spec

\* What the sniffer makes of a whole file.
LEMMA WholeIsNamed ==
  ASSUME WalkInv, TellInv, Whole
  PROVE  /\ SniffFamily # Null /\ (sniffed.document \/ sniffed.container # Null)
         /\ \/ SniffFamily \in past.families
            \/ past.messages > 1 /\ SniffFamily = past.heard
<1>1. FoundInv /\ FirstInv
  BY DEF TellInv
<1>2. past \in Pasts /\ sniffed \in Sniffs
  BY Places
<1>3. past.messages > 0 /\ ~past.hidden /\ past.header = Null
  BY DEF Whole
<1>4. First /\ past.messages # 0
  BY <1>1, <1>2, <1>3 DEF FirstInv, Pasts
<1>5. sniffed.document \/ sniffed.container # Null
  BY <1>1, <1>4 DEF FoundInv
<1>6. Null \notin past.families
  BY <1>2, NullAssumption DEF Pasts
<1>7. sniffed.header = past.heard
  BY <1>1 DEF FoundInv
<1>8. SniffFamily = Some(SniffNamespace,
                         Some(sniffed.header,
                              Some(NamedByItself(Announce),
                                   FamilyOfContainer(Announce))))
  <2>1. FirstOf(<<SniffNamespace, sniffed.header, NamedByItself(Announce),
                  FamilyOfContainer(Announce)>>)
        = Some(SniffNamespace,
               Some(sniffed.header,
                    Some(NamedByItself(Announce), FamilyOfContainer(Announce))))
    BY ONLY FirstOfFour
  <2>. QED BY ONLY <2>1 DEF SniffFamily
<1>9. CASE SniffNamespace # Null
  <2>1. SniffFamily = SniffNamespace
    BY <1>8, <1>9 DEF Some
  <2>. QED BY <1>4, <1>5, <1>9, <2>1 DEF First
<1>10. CASE SniffNamespace = Null /\ past.heard # Null
  <2>1. SniffFamily = past.heard
    BY <1>7, <1>8, <1>10 DEF Some
  <2>2. ~Pending
    BY <1>3, <1>10, IdentsAre DEF Pending
  <2>3. past.messages > 1 \/ past.heard \in past.families
    BY <1>4, <1>10, <2>2 DEF First
  <2>. QED BY <1>5, <1>10, <2>1, <2>3
<1>11. CASE SniffNamespace = Null /\ past.heard = Null
  <2>1. Announce \in Containers /\ Announced[Announce] \in past.families
    BY <1>4, <1>11 DEF First
  <2>2. NamedByItself(Announce) = Null
    BY <2>1, FileAssumption DEF NamedByItself
  <2>3. FamilyOfContainer(Announce) = Announced[Announce]
    BY <2>1, AnnouncedIs
  <2>4. SniffFamily = Announced[Announce]
    BY <1>7, <1>8, <1>11, <2>2, <2>3 DEF Some
  <2>. QED BY <1>5, <1>6, <2>1, <2>4
<1>. QED BY <1>9, <1>10, <1>11

\* A file that was read to its end goes by the family of its message, and where it
\* has several, by one of theirs or the one the first header to name one names; and
\* what the sniffer takes for a message, so does the audit.
THEOREM FilesAreNamed == Spec => []NamedForWhatItIs
<1>1. AddressInv /\ IdentityInv /\ TellInv => NamedForWhatItIs
  <2>. SUFFICES ASSUME AddressInv, IdentityInv, TellInv
                PROVE  NamedForWhatItIs
    OBVIOUS
  <2>1. WalkInv /\ FoundInv
    BY DEF AddressInv, TellInv
  <2>2. past \in Pasts /\ sniffed \in Sniffs
    BY <2>1, Places
  <2>3. ASSUME Whole
        PROVE  /\ ~SniffError
               /\ \/ SniffFamily \in past.families
                  \/ past.messages > 1 /\ SniffFamily = past.heard
    <3>1. /\ SniffFamily # Null /\ (sniffed.document \/ sniffed.container # Null)
          /\ \/ SniffFamily \in past.families
             \/ past.messages > 1 /\ SniffFamily = past.heard
      BY <2>1, <2>3, WholeIsNamed
    <3>2. ~sniffed.broke
      BY <2>3 DEF Whole
    <3>. QED BY <3>1, <3>2, Zenon DEF SniffError
  <2>4. ASSUME sniffed.done, ~SniffError
        PROVE  audit.done = "ended"
    <3>1. ~sniffed.broke
      BY <2>4 DEF SniffError
    <3>2. \/ sniffed.document \/ sniffed.container # Null
          \/ SniffRecords \notin {Null, 0}
      BY <2>4, Zenon DEF SniffError
    <3>3. CASE sniffed.document
      <4>1. audit.found
        BY <2>1, <3>3 DEF FoundInv
      <4>. QED BY <2>1, <2>4, <3>1, <4>1 DEF FoundInv
    <3>4. CASE past.messages # 0
      <4>1. past.messages > 0
        BY <2>2, <3>4 DEF Pasts
      <4>2. audit.found
        BY <2>1, <4>1 DEF FoundInv
      <4>. QED BY <2>1, <2>4, <3>1, <4>2 DEF FoundInv
    <3>5. past.messages = 0 => sniffed.container = Null /\ SniffRecords \in {Null, 0}
      <4>1. \A n \in RecordElems : past.messages = 0 => sniffed.counts[n] = 0
        BY <2>1 DEF FoundInv
      <4>2. past.messages = 0 => sniffed.container = Null
        BY <2>1 DEF FoundInv
      <4>3. RecordElemOf(SniffFamily) \in RecordElems \cup {Null}
        BY RecordElemIs
      <4>. QED BY <4>1, <4>2, <4>3 DEF SniffRecords
    <3>. QED BY <3>2, <3>3, <3>4, <3>5
  <2>. QED BY <2>3, <2>4 DEF NamedForWhatItIs
<1>. QED BY <1>1, TellHolds, PTL

\* The audit numbers the records of a message as they come, and with them the mandate
\* of an amendment, which the sniffer does not; of the one message of a file the
\* sniffer counts the records, if there is an element that is a record of its family;
\* and of a file it could not read to the end it counts none.
THEOREM RecordsAreCounted == Spec => []NumberedAsCounted
<1>1. AddressInv /\ IdentityInv /\ TellInv => NumberedAsCounted
  <2>. SUFFICES ASSUME AddressInv, IdentityInv, TellInv
                PROVE  NumberedAsCounted
    OBVIOUS
  <2>1. WalkInv /\ RecordInv /\ CountInv
    BY DEF AddressInv, IdentityInv, TellInv
  <2>2. Reading /\ InMessage =>
          audit.index = own.records + IF own.amended THEN 1 ELSE 0
    BY <2>1 DEF RecordInv
  <2>3. ASSUME Whole, past.messages = 1, past.plain, NEW f \in past.families
        PROVE  SniffRecords = IF RecordElemOf(f) = Null THEN Null ELSE past.records
    <3>1. PICK c \in Containers : Sole(c)
      BY <2>1, <2>3 DEF CountInv
    <3>2. past.families = {Announced[c]} /\ f = Announced[c]
      BY <2>3, <3>1 DEF Sole
    <3>3. SniffFamily = f
      <4>1. \/ SniffFamily \in past.families
            \/ past.messages > 1
        BY <2>1, <2>3, WholeIsNamed
      <4>. QED BY <2>3, <3>2, <4>1
    <3>4. RecordElemOf(f) # Null => sniffed.counts[RecordElemOf(f)] = past.records
      BY <3>1, <3>2 DEF Sole
    <3>5. ~sniffed.broke
      BY <2>3 DEF Whole
    <3>. QED BY <3>3, <3>4, <3>5, Zenon DEF SniffRecords
  <2>4. sniffed.broke => SniffRecords = Null
    BY DEF SniffRecords
  <2>. QED BY <2>2, <2>3, <2>4 DEF NumberedAsCounted
<1>. QED BY <1>1, TellHolds, PTL
=============================================================================
