----------------------------- MODULE CamtProofs -----------------------------
(***************************************************************************)
(* Theorems about CamtWalks, for every vocabulary that keeps to the        *)
(* schemas (SchemaAssumption), every document over it, every bound and     *)
(* every grain.  Neither walk keeps the document: each keeps a path that   *)
(* leaves records out, a depth, and counters.  The invariant says what     *)
(* they amount to: where in the document each walk is (LoosePlace,         *)
(* StrictPlace), that the counters count what the document states          *)
(* (LooseCounts, StrictCounts), whose the context is (LooseOwn, StrictOwn) *)
(* and that the two are in step while both read (Together).                *)
(***************************************************************************)
EXTENDS CamtWalks, FiniteSetTheorems, SequenceTheorems, TLAPS

-----------------------------------------------------------------------------
(* The document.                                                           *)

Names(l) == DOMAIN Layouts[l].children

\* The names the schema allows in a place.
Outer(l) == CHOOSE s \in SUBSET Names(l) : Unenclosed(Layouts[l].children, s)
Inner(l) == CHOOSE s \in SUBSET Names(l) : Recorded(Layouts[l].children, s)
Deep(l)  == CHOOSE s \in SUBSET Names(l) : Nested(Layouts[l].children, s)

\* The i-th of the open elements p is one the schema allows there.
Placed(l, p, i) ==
  /\ (\A j \in 1 .. i : p[j] \notin Statements)
       => (\E j \in 1 .. i - 1 : p[j] = "Ntry") \/ p[i] \in Outer(l)
  /\ (\E j \in 1 .. i : p[j] \in {"Ntry", "Bal"}) => p[i] \in Inner(l)
  /\ \A j \in 1 .. i - 2 :
       p[j] \in Statements
         => (\E k \in 1 .. i - 1 : p[k] = "Ntry") \/ p[i] \in Deep(l)
  /\ i > 1 => p[i] \in Layouts[l].children[p[i - 1]]

\* The outermost statement of the open elements p is at s, 0 for none.
ScopeAt(p, s) ==
  /\ s \in 0 .. Len(p)
  /\ s # 0 => p[s] \in Statements
  /\ \A j \in 1 .. Len(p) : p[j] \in Statements => s # 0 /\ s <= j

\* The elements of a name that are open below the first d ones.
Open(p, d, name) == {i \in d + 1 .. Len(p) : p[i] = name}

\* A walk whose path is path reads the subtree sub: the open elements p are the
\* path, the element the subtree is of, and what is open inside that.
Spans(sub, path, p) ==
  /\ Len(path) < Len(p)
  /\ \A i \in 1 .. Len(path) : p[i] = path[i]
  /\ p[Len(path) + 1] = sub.name
  /\ sub.depth = Cardinality(Open(p, Len(path), sub.name))

DocumentInv ==
  /\ layout \in DOMAIN Layouts
  /\ opened \in Seq(Names(layout))
  /\ stated \in [headers : Nat, statements : Nat, entries : Nat, balances : Nat]
  /\ \A i \in 1 .. Len(opened) : Placed(layout, opened, i)

-----------------------------------------------------------------------------
(* The walk of read_iso20022, while it reads.                              *)

LooseType ==
  /\ loosePath \in Seq(Names(layout))
  /\ msg_id \in Values /\ account_iban \in Values /\ statement_id \in Values
  /\ container_kind \in Values
  /\ container_depth \in Nat \union {Null}
  /\ looseIndex \in Nat /\ entry_index \in Nat
  /\ looseSubtree \in Subtrees \union {Null}

\* The position of the active container, 0 for none.
Container == IF container_depth = Null THEN 0 ELSE container_depth + 1

LoosePlace ==
  /\ ScopeAt(opened, Container) /\ Container <= Len(loosePath)
  /\ Container # 0 => container_kind = opened[Container]
  /\ \A i \in 1 .. Len(loosePath) : loosePath[i] # "Ntry"
  /\ looseSubtree = Null => loosePath = opened
  /\ looseSubtree # Null =>
       /\ Spans(looseSubtree, loosePath, opened)
       /\ looseSubtree.name = "Ntry" /\ looseSubtree.keep

LooseCounts ==
  /\ looseIndex = stated.statements /\ entry_index = stated.entries
  /\ saw_container <=> looseIndex > 0

LooseOwn ==
  \A v \in {account_iban, statement_id} :
    v = Null \/ (Container # 0 /\ v = looseIndex)

LooseReads == LooseType /\ LoosePlace /\ LooseCounts /\ LooseOwn

LooseInv == looseResult = "reading" => LooseReads

\* A row is what the walk holds when its entry ends.
RowInv ==
  row # Null =>
    looseResult = "reading" /\ looseSubtree = Null /\ row = Loose!EntryRow

-----------------------------------------------------------------------------
(* The strict walk, while it reads.                                        *)

StrictType ==
  /\ strictPath \in Seq(Names(layout))
  /\ ctx \in [Strict!Fields -> Values]
  /\ statement_depth \in Nat \union {Null}
  /\ strictIndex \in Nat /\ record_index \in Nat
  /\ strictSubtree \in Subtrees \union {Null}

\* The position of the active statement, 0 for none.
Active == IF statement_depth = Null THEN 0 ELSE statement_depth + 1

StrictPlace ==
  /\ ScopeAt(opened, Active) /\ Active <= Len(strictPath)
  /\ Active # 0 => ctx.statement_kind = opened[Active]
  /\ strictSubtree = Null => strictPath = opened
  /\ strictSubtree # Null =>
       /\ Spans(strictSubtree, strictPath, opened)
       /\ strictSubtree.keep <=> Strict!IsRecord(strictSubtree.name)
       /\ strictSubtree.keep \/ strictSubtree.sound

\* An entry, or a balance, of the current statement is being read: the document
\* has counted it and the walk has not.
Pending(name) ==
  IF strictSubtree # Null /\ strictSubtree.name = name /\ Strict!AtRecord
  THEN 1 ELSE 0

StrictCounts ==
  /\ strictIndex = stated.statements /\ ctx.statement_index = strictIndex
  /\ saw_statement <=> strictIndex > 0
  /\ grain = "Ntry" => record_index + Pending("Ntry") = stated.entries
  /\ grain = "Bal"  => record_index + Pending("Bal") = stated.balances
  /\ grain = "Statement" =>
       /\ ctx.entry_count \in Nat /\ ctx.balance_count \in Nat
       /\ ctx.entry_count + Pending("Ntry") = stated.entries
       /\ ctx.balance_count + Pending("Bal") = stated.balances

StrictOwn ==
  /\ \A f \in Strict!StatementFields : ctx[f] \in {Null, strictIndex}
  /\ \A f \in Strict!MessageFields : ctx[f] \in {Null, stated.headers}

StrictReads == StrictType /\ StrictPlace /\ StrictCounts /\ StrictOwn

StrictInv == strictResult = "reading" => StrictReads

\* A record is what the walk holds when it ends.
RecordInv ==
  record # Null =>
    /\ strictResult = "reading" /\ strictSubtree = Null
    /\ record = Strict!Handed(IF grain = "Statement" THEN strictIndex
                              ELSE record_index, ctx)

-----------------------------------------------------------------------------
(* Both walks, while both read the entries.                                *)

\* What the two know of the statement's own: its identifier and account.
SameOwn ==
  ctx["statement_id"] = statement_id /\ ctx["account_iban"] = account_iban

Together ==
  grain = "Ntry" /\ looseResult = "reading" /\ strictResult = "reading" =>
    /\ strictSubtree # Null /\ strictSubtree.keep
         => looseSubtree = strictSubtree
    /\ looseSubtree # Null /\ Loose!Scoped
         => strictSubtree # Null /\ strictSubtree.keep
    /\ Active # 0 => SameOwn
    /\ ScopedRow <=> record # Null

Ends ==
  /\ looseResult \in {"reading", "ended", "failed"}
  /\ strictResult \in {"reading", "ended", "failed"}
  /\ "ended" \in {looseResult, strictResult} => event.tag = "eof"
  /\ EndsForCause

IInv ==
  /\ DocumentInv /\ grain \in {"Ntry", "Bal", "Statement"}
  /\ LooseInv /\ RowInv /\ StrictInv /\ RecordInv
  /\ Together /\ Ends

-----------------------------------------------------------------------------
(* Paths.                                                                  *)

\* A path without its last element.
LEMMA FrontIs ==
  ASSUME NEW N, NEW p \in Seq(N), p # <<>>
  PROVE  /\ SubSeq(p, 1, Len(p) - 1) \in Seq(N)
         /\ Len(SubSeq(p, 1, Len(p) - 1)) = Len(p) - 1
         /\ \A i \in 1 .. Len(p) - 1 : SubSeq(p, 1, Len(p) - 1)[i] = p[i]
<1> DEFINE n == Len(p) - 1
<1>1. n \in Nat /\ \A i \in 1 .. n : p[i] \in N
  OBVIOUS
<1> HIDE DEF n
<1>2. /\ SubSeq(p, 1, n) \in Seq(N)
      /\ Len(SubSeq(p, 1, n)) = IF 1 <= n THEN n - 1 + 1 ELSE 0
      /\ \A i \in 1 .. n - 1 + 1 : SubSeq(p, 1, n)[i] = p[1 + i - 1]
  BY <1>1, SubSeqProperties
<1>3. Len(SubSeq(p, 1, n)) = n /\ \A i \in 1 .. n : SubSeq(p, 1, n)[i] = p[i]
  BY <1>1, <1>2
<1> QED
  BY <1>2, <1>3 DEF n

\* There is one outermost statement.
LEMMA ScopeUnique ==
  ASSUME NEW N, NEW p \in Seq(N), NEW s, NEW t, ScopeAt(p, s), ScopeAt(p, t)
  PROVE  s = t
BY DEF ScopeAt

\* Scope is where the outermost statement is.
LEMMA ScopeIs ==
  ASSUME NEW N, opened \in Seq(N), NEW s, ScopeAt(opened, s)
  PROVE  Scope = s
<1>1. s \in 0 .. Len(opened) /\ DOMAIN opened = 1 .. Len(opened)
  BY DEF ScopeAt
<1>2. CASE s = 0
  BY <1>1, <1>2 DEF Scope, ScopeAt
<1>3. CASE s # 0
  <2> DEFINE First(i) == /\ opened[i] \in Statements
                         /\ \A j \in DOMAIN opened :
                              opened[j] \in Statements => i <= j
  <2>1. s \in DOMAIN opened /\ First(s)
    BY <1>1, <1>3 DEF ScopeAt
  <2>2. \A i \in DOMAIN opened : First(i) => i = s
    BY <1>1, <2>1
  <2>3. (CHOOSE i \in DOMAIN opened : First(i)) = s
    BY <2>1, <2>2
  <2>4. \E i \in DOMAIN opened : opened[i] \in Statements
    BY <2>1
  <2> QED
    BY <2>3, <2>4 DEF Scope
<1> QED
  BY <1>2, <1>3

\* A tag opens: a statement is the outermost one if there is none yet.
LEMMA ScopePush ==
  ASSUME NEW N, NEW p \in Seq(N), NEW n \in N, NEW s, ScopeAt(p, s)
  PROVE  ScopeAt(Append(p, n),
                 IF s = 0 /\ n \in Statements THEN Len(p) + 1 ELSE s)
BY DEF ScopeAt

\* A tag closes.
LEMMA ScopePop ==
  ASSUME NEW N, NEW p \in Seq(N), p # <<>>, NEW s, ScopeAt(p, s)
  PROVE  ScopeAt(SubSeq(p, 1, Len(p) - 1), IF s = Len(p) THEN 0 ELSE s)
<1> DEFINE q == SubSeq(p, 1, Len(p) - 1)
<1>1. Len(q) = Len(p) - 1 /\ \A i \in 1 .. Len(q) : q[i] = p[i]
  BY FrontIs
<1>2. s \in 0 .. Len(p)
  BY DEF ScopeAt
<1> HIDE DEF q
<1>3. ScopeAt(q, IF s = Len(p) THEN 0 ELSE s)
  BY <1>1, <1>2 DEF ScopeAt
<1> QED
  BY <1>3 DEF q

-----------------------------------------------------------------------------
(* Subtrees.                                                               *)

\* The open elements of a name are finitely many.
LEMMA OpenFinite ==
  ASSUME NEW N, NEW p \in Seq(N), NEW d \in Nat, NEW name
  PROVE  IsFiniteSet(Open(p, d, name))
<1>1. IsFiniteSet(d + 1 .. Len(p))
  BY FS_Interval
<1> QED
  BY <1>1, FS_Subset DEF Open

\* The first element of a subtree is the only one of it that is open.
LEMMA SpansOpens ==
  ASSUME NEW N, NEW path \in Seq(N), NEW name \in N, NEW keep
  PROVE  Spans(Subtree(name, keep), path, Append(path, name))
<1> DEFINE q == Append(path, name)
<1>1. Len(q) = Len(path) + 1 /\ q[Len(path) + 1] = name
      /\ \A i \in 1 .. Len(path) : q[i] = path[i]
  BY AppendProperties
<1> HIDE DEF q
<1>2. Open(q, Len(path), name) = {Len(path) + 1}
  BY <1>1 DEF Open
<1>3. Cardinality({Len(path) + 1}) = 1
  BY FS_Singleton
<1> DEFINE sub == Subtree(name, keep)
<1>4. sub.name = name /\ sub.depth = 1
  BY DEF Subtree
<1> HIDE DEF sub
<1>5. Len(path) < Len(q)
  BY <1>1
<1>6. sub.depth = Cardinality(Open(q, Len(path), sub.name))
  BY <1>2, <1>3, <1>4
<1>7. Spans(sub, path, q)
  BY <1>1, <1>4, <1>5, <1>6 DEF Spans
<1> QED
  BY <1>7 DEF q, sub

\* A tag that opens inside a subtree.
LEMMA SpansPush ==
  ASSUME NEW N, NEW path \in Seq(N), NEW p \in Seq(N), NEW sub \in Subtrees,
         Spans(sub, path, p), NEW e, e.tag = "start", e.name \in N
  PROVE  Spans(Consume(sub, e), path, Append(p, e.name))
<1> DEFINE d == Len(path)
           q == Append(p, e.name)
           was == Open(p, d, sub.name)
           is == Open(q, d, sub.name)
<1>1. Consume(sub, e).name = sub.name
      /\ Consume(sub, e).depth = IF e.name = sub.name THEN sub.depth + 1
                                 ELSE sub.depth
  BY DEF Consume, Subtrees
<1>2. IsFiniteSet(was)
  BY OpenFinite
<1>3. Len(p) + 1 \notin was
  BY DEF Open
<1>4. CASE e.name = sub.name
  <2>1. is = was \union {Len(p) + 1}
    BY <1>4 DEF Open, Spans
  <2>2. Cardinality(is) = Cardinality(was) + 1
    BY <1>2, <1>3, <2>1, FS_AddElement
  <2> QED
    BY <1>1, <1>4, <2>2 DEF Spans
<1>5. CASE e.name # sub.name
  <2>1. is = was
    BY <1>5 DEF Open, Spans
  <2> QED
    BY <1>1, <1>5, <2>1 DEF Spans
<1> QED
  BY <1>4, <1>5

\* A tag that closes inside a subtree.
LEMMA SpansPop ==
  ASSUME NEW N, NEW path \in Seq(N), NEW p \in Seq(N), NEW sub \in Subtrees,
         Spans(sub, path, p), NEW e, e.tag = "end", e.name = p[Len(p)],
         ~Closes(sub, e)
  PROVE  Spans(Consume(sub, e), path, SubSeq(p, 1, Len(p) - 1))
<1> DEFINE d == Len(path)
           q == SubSeq(p, 1, Len(p) - 1)
           was == Open(p, d, sub.name)
           is == Open(q, d, sub.name)
<1>1. Consume(sub, e).name = sub.name
      /\ Consume(sub, e).depth = IF e.name = sub.name THEN sub.depth - 1
                                 ELSE sub.depth
  BY DEF Consume, Subtrees
<1>2. d < Len(p) /\ p[d + 1] = sub.name /\ sub.depth = Cardinality(was)
      /\ \A i \in 1 .. d : p[i] = path[i]
  BY DEF Spans
<1>3. Len(q) = Len(p) - 1 /\ \A i \in 1 .. Len(q) : q[i] = p[i]
  BY <1>2, FrontIs
<1>4. d + 1 # Len(p)
  <2> SUFFICES ASSUME d + 1 = Len(p)
               PROVE  FALSE
    OBVIOUS
  <2>1. was = {Len(p)}
    BY <1>2 DEF Open
  <2>2. sub.depth = 1
    BY <1>2, <2>1, FS_Singleton
  <2> QED
    BY <1>2, <2>2 DEF Closes
<1>5. IsFiniteSet(was)
  BY OpenFinite
<1> HIDE DEF q
<1>6. Cardinality(was) \in Nat
  BY <1>5, FS_CardinalityType
<1>7. CASE e.name = sub.name
  <2>1. Len(p) \in was /\ \A i : i \in is <=> i \in was /\ i # Len(p)
    <3>1. d \in Nat /\ Len(p) \in Nat /\ Len(q) = Len(p) - 1
      BY <1>3
    <3>2. \A i : i \in is <=> i \in d + 1 .. Len(p) - 1 /\ p[i] = sub.name
      BY <1>3, <3>1 DEF Open
    <3>3. \A i : i \in was <=> i \in d + 1 .. Len(p) /\ p[i] = sub.name
      BY DEF Open
    <3>4. d < Len(p) /\ p[Len(p)] = sub.name
      BY <1>2, <1>7
    <3> HIDE DEF is, was, d
    <3>5. Len(p) \in was
      BY <3>1, <3>3, <3>4
    <3>6. ASSUME NEW i
          PROVE  i \in is <=> i \in was /\ i # Len(p)
      <4>1. i \in d + 1 .. Len(p) - 1 <=> i \in d + 1 .. Len(p) /\ i # Len(p)
        BY <3>1
      <4> QED
        BY <3>2, <3>3, <4>1
    <3> QED
      BY <3>5, <3>6
  <2>2. Cardinality(is) = Cardinality(was) - 1
    <3>1. is = was \ {Len(p)}
      BY <2>1
    <3> QED
      BY <1>5, <2>1, <3>1, FS_RemoveElement
  <2>3. Spans(Consume(sub, e), path, q)
    BY <1>1, <1>2, <1>3, <1>4, <1>7, <2>2 DEF Spans
  <2> QED
    BY <2>3 DEF q
<1>8. CASE e.name # sub.name
  <2>1. ASSUME NEW i
        PROVE  i \in is <=> i \in was
    <3>1. d \in Nat /\ Len(p) \in Nat /\ Len(q) = Len(p) - 1 /\ d < Len(p)
      BY <1>2, <1>3
    <3>2. i \in is <=> i \in d + 1 .. Len(p) - 1 /\ p[i] = sub.name
      BY <1>3, <3>1 DEF Open
    <3>3. i \in was <=> i \in d + 1 .. Len(p) /\ p[i] = sub.name
      BY DEF Open
    <3> HIDE DEF is, was, d
    <3>4. i \in d + 1 .. Len(p) <=> i \in d + 1 .. Len(p) - 1 \/ i = Len(p)
      BY <3>1
    <3> QED
      BY <1>8, <3>2, <3>3, <3>4
  <2>2. Spans(Consume(sub, e), path, q)
    <3>1. is = was
      BY <2>1
    <3> QED
      BY <1>1, <1>2, <1>3, <1>4, <1>8, <3>1 DEF Spans
  <2> QED
    BY <2>2 DEF q
<1> QED
  BY <1>7, <1>8

\* Anything else inside a subtree.
LEMMA SpansStays ==
  ASSUME NEW path, NEW p, NEW sub \in Subtrees, Spans(sub, path, p),
         NEW e, e.tag \in {"empty", "text"}
  PROVE  Spans(Consume(sub, e), path, p)
BY DEF Spans, Consume, Subtrees

\* The tag that closes a subtree leaves the path of the walk.
LEMMA SpansCloses ==
  ASSUME NEW N, NEW path \in Seq(N), NEW p \in Seq(N), NEW sub \in Subtrees,
         Spans(sub, path, p), NEW e, e.name = p[Len(p)], Closes(sub, e)
  PROVE  SubSeq(p, 1, Len(p) - 1) = path
<1> DEFINE d == Len(path)
           q == SubSeq(p, 1, Len(p) - 1)
           was == Open(p, d, sub.name)
<1>1. d < Len(p) /\ p[d + 1] = sub.name /\ Cardinality(was) = 1
      /\ p[Len(p)] = sub.name /\ \A i \in 1 .. d : p[i] = path[i]
  BY DEF Spans, Closes
<1>2. IsFiniteSet(was)
  BY OpenFinite
<1>3. d + 1 \in was /\ Len(p) \in was
  BY <1>1 DEF Open
<1>4. d + 1 = Len(p)
  <2> SUFFICES ASSUME d + 1 # Len(p)
               PROVE  FALSE
    OBVIOUS
  <2>1. PICK x : was = {x}
    BY <1>1, <1>2, FS_Singleton
  <2> QED
    BY <1>3, <2>1
<1>5. q \in Seq(N) /\ Len(q) = d /\ \A i \in 1 .. d : q[i] = path[i]
  BY <1>1, <1>4
<1> HIDE DEF q
<1>6. q = path
  BY <1>5
<1> QED
  BY <1>6 DEF q

-----------------------------------------------------------------------------
(* Tails.                                                                  *)

\* Two sequences are the same if they are as long and agree everywhere.
LEMMA SameSequence ==
  ASSUME NEW N, NEW p \in Seq(N), NEW M, NEW t \in Seq(M)
  PROVE  p = t <=> Len(p) = Len(t) /\ \A i \in 1 .. Len(t) : p[i] = t[i]
<1>1. p \in Seq(N \union M) /\ t \in Seq(N \union M)
  OBVIOUS
<1> QED
  BY <1>1, SeqEqual

\* The names a path ends with.
LEMMA EndsWithIs ==
  ASSUME NEW N, NEW p \in Seq(N), NEW M, NEW t \in Seq(M)
  PROVE  EndsWith(p, t) <=>
           /\ Len(p) >= Len(t)
           /\ \A i \in 1 .. Len(t) : p[Len(p) - Len(t) + i] = t[i]
<1> DEFINE m == Len(p) - Len(t) + 1
           n == Len(p)
           q == SubSeq(p, m, n)
<1> SUFFICES ASSUME Len(p) >= Len(t)
             PROVE  q = t <=> \A i \in 1 .. Len(t) : p[m - 1 + i] = t[i]
  BY DEF EndsWith
<1>1. m \in Int /\ n \in Int /\ \A i \in m .. n : p[i] \in N
  OBVIOUS
<1>2. n - m + 1 = Len(t) /\ Len(t) \in Nat /\ (m <= n <=> Len(t) > 0)
  OBVIOUS
<1> HIDE DEF m, n
<1>3. /\ q \in Seq(N) /\ Len(q) = IF m <= n THEN n - m + 1 ELSE 0
      /\ \A i \in 1 .. n - m + 1 : q[i] = p[m + i - 1]
  BY <1>1, SubSeqProperties
<1> HIDE DEF q
<1>4. Len(q) = Len(t) /\ \A i \in 1 .. Len(t) : q[i] = p[m - 1 + i]
  BY <1>1, <1>2, <1>3
<1> QED
  BY <1>3, <1>4, SameSequence

\* The names below a place of a path.
LEMMA UnderIs ==
  ASSUME NEW N, NEW p \in Seq(N), NEW M, NEW t \in Seq(M),
         NEW d \in 0 .. Len(p)
  PROVE  Under(p, d, t) <=>
           Len(p) = d + Len(t) /\ \A i \in 1 .. Len(t) : p[d + i] = t[i]
<1> DEFINE m == d + 1
           n == Len(p)
           q == SubSeq(p, m, n)
<1>1. m \in Int /\ n \in Int /\ \A i \in m .. n : p[i] \in N
  OBVIOUS
<1>2. n - m + 1 = Len(p) - d /\ Len(t) \in Nat /\ (m <= n <=> Len(p) > d)
      /\ \A i \in 1 .. Len(p) - d : m + i - 1 = d + i
  OBVIOUS
<1>3. Under(p, d, t) <=> q = t
  BY DEF Under
<1> HIDE DEF m, n
<1>4. /\ q \in Seq(N) /\ Len(q) = IF m <= n THEN n - m + 1 ELSE 0
      /\ \A i \in 1 .. n - m + 1 : q[i] = p[m + i - 1]
  BY <1>1, SubSeqProperties
<1> HIDE DEF q
<1>5. Len(q) = Len(p) - d /\ \A i \in 1 .. Len(p) - d : q[i] = p[d + i]
  <2>1. Len(p) - d \in Nat /\ (Len(p) > d <=> Len(p) - d > 0)
    OBVIOUS
  <2>2. Len(q) = Len(p) - d
    BY <1>2, <1>4, <2>1
  <2>3. ASSUME NEW i \in 1 .. Len(p) - d
        PROVE  q[i] = p[d + i]
    BY <1>2, <1>4
  <2> QED
    BY <2>2, <2>3
<1>6. q = t <=> Len(q) = Len(t) /\ \A i \in 1 .. Len(t) : q[i] = t[i]
  BY <1>4, SameSequence
<1>7. Len(q) = Len(t) <=> Len(p) = d + Len(t)
  BY <1>2, <1>5
<1>8. CASE Len(q) = Len(t)
  BY <1>3, <1>5, <1>6, <1>7, <1>8
<1>9. CASE Len(q) # Len(t)
  BY <1>3, <1>6, <1>7, <1>9
<1> QED
  BY <1>8, <1>9

-----------------------------------------------------------------------------
(* The document keeps to the schema.                                       *)

\* What SchemaAssumption says of the sets of names it speaks of.
LEMMA Schema ==
  ASSUME NEW l \in DOMAIN Layouts
  PROVE  /\ Layouts[l].children \in [Names(l) -> SUBSET Names(l)]
         /\ "/" \in Names(l) /\ Null \notin Names(l)
         /\ Unenclosed(Layouts[l].children, Outer(l))
         /\ Recorded(Layouts[l].children, Inner(l))
         /\ Nested(Layouts[l].children, Deep(l))
         /\ \A c \in Statements \intersect Names(l) :
              Layouts[l].children[c] \intersect Statements = {}
BY SchemaAssumption DEF SchemaAssumption, Names, Outer, Inner, Deep

\* Where an element is placed depends on the elements it is in.
LEMMA PlacedSame ==
  ASSUME NEW l, NEW p, NEW q, NEW i \in Nat \ {0},
         \A j \in 1 .. i : q[j] = p[j], Placed(l, p, i)
  PROVE  Placed(l, q, i)
<1>1. \A j \in 1 .. i - 1 : q[j] = p[j]
  OBVIOUS
<1>2. \A j \in 1 .. i - 2 : q[j] = p[j]
  OBVIOUS
<1>3. q[i] = p[i] /\ (i > 1 => q[i - 1] = p[i - 1])
  OBVIOUS
<1> QED
  BY <1>1, <1>2, <1>3 DEF Placed

\* A child is placed where the schema lets its parent have it.
LEMMA PlacedPush ==
  ASSUME NEW l \in DOMAIN Layouts, NEW p \in Seq(Names(l)),
         \A i \in 1 .. Len(p) : Placed(l, p, i),
         NEW n \in Layouts[l].children[IF p = <<>> THEN "/" ELSE p[Len(p)]]
  PROVE  /\ n \in Names(l)
         /\ \A i \in 1 .. Len(p) + 1 : Placed(l, Append(p, n), i)
<1> DEFINE children == Layouts[l].children
           top == IF p = <<>> THEN "/" ELSE p[Len(p)]
           q == Append(p, n)
           k == Len(p) + 1
<1>1. /\ children \in [Names(l) -> SUBSET Names(l)] /\ "/" \in Names(l)
      /\ Unenclosed(children, Outer(l)) /\ Recorded(children, Inner(l))
      /\ Nested(children, Deep(l))
      /\ \A c \in Statements \intersect Names(l) :
           children[c] \intersect Statements = {}
  BY Schema
<1>2. top \in Names(l) /\ DOMAIN children = Names(l)
  BY <1>1
<1>3. n \in Names(l) /\ n \in children[top]
  BY <1>1, <1>2
<1>4. q[k] = n /\ Len(p) \in Nat /\ \A j \in 1 .. Len(p) : q[j] = p[j]
  BY <1>3, AppendProperties
<1> HIDE DEF q, top, children
<1>5. ASSUME NEW i \in 1 .. Len(p)
      PROVE  Placed(l, q, i)
  <2>1. i \in Nat \ {0} /\ \A j \in 1 .. i : q[j] = p[j]
    BY <1>4
  <2> QED
    BY <2>1, PlacedSame
<1>6. Len(p) > 0 => top = p[Len(p)] /\ Placed(l, p, Len(p))
  BY DEF top
<1>7. Len(p) = 0 => top = "/"
  BY DEF top
<1>8. (\A j \in 1 .. k : q[j] \notin Statements)
        => (\E j \in 1 .. k - 1 : q[j] = "Ntry") \/ q[k] \in Outer(l)
  <2> SUFFICES ASSUME \A j \in 1 .. k : q[j] \notin Statements,
                      \A j \in 1 .. Len(p) : p[j] # "Ntry"
               PROVE  n \in Outer(l)
    BY <1>4
  <2>1. top \in Outer(l) /\ top # "Ntry"
    <3>1. CASE Len(p) = 0
      BY <1>1, <1>7, <3>1 DEF Unenclosed
    <3>2. CASE Len(p) > 0
      <4>1. \A j \in 1 .. Len(p) : p[j] \notin Statements
        BY <1>4
      <4> QED
        BY <1>4, <1>6, <3>2, <4>1 DEF Placed
    <3> QED
      BY <1>4, <3>1, <3>2
  <2>2. n \notin Statements
    BY <1>4
  <2> QED
    BY <1>1, <1>3, <2>1, <2>2 DEF Unenclosed
<1>9. (\E j \in 1 .. k : q[j] \in {"Ntry", "Bal"}) => q[k] \in Inner(l)
  <2>1. CASE n \in {"Ntry", "Bal"}
    BY <1>1, <1>2, <1>3, <1>4, <2>1 DEF Recorded
  <2>2. ASSUME NEW j \in 1 .. Len(p), p[j] \in {"Ntry", "Bal"}
        PROVE  n \in Inner(l)
    <3>1. top \in Inner(l)
      BY <1>4, <1>6, <2>2 DEF Placed
    <3> QED
      BY <1>1, <1>3, <3>1 DEF Recorded
  <2> QED
    BY <1>4, <2>1, <2>2
<1>10. ASSUME NEW j \in 1 .. k - 2, q[j] \in Statements,
              \A m \in 1 .. Len(p) : p[m] # "Ntry"
       PROVE  n \in Deep(l)
  <2>1. j \in 1 .. Len(p) - 1 /\ Len(p) > 0 /\ p[j] \in Statements
    BY <1>4, <1>10
  <2>2. top = p[Len(p)] /\ top # "Ntry" /\ Placed(l, p, Len(p))
    <3>1. Len(p) \in 1 .. Len(p) /\ p # <<>>
      BY <1>4, <2>1
    <3>2. top = p[Len(p)] /\ Placed(l, p, Len(p))
      BY <1>4, <1>6, <3>1
    <3>3. p[Len(p)] # "Ntry"
      BY <1>10, <3>1
    <3> QED
      BY <3>2, <3>3
  <2>3. CASE j \in 1 .. Len(p) - 2
    <3>1. top \in Deep(l)
      BY <1>4, <1>10, <2>1, <2>2, <2>3 DEF Placed
    <3> QED
      BY <1>1, <1>3, <2>2, <3>1 DEF Nested
  <2>4. CASE j = Len(p) - 1
    <3> DEFINE c == p[j]
    <3>1. c \in Statements \intersect Names(l)
      BY <2>1, <1>4
    <3>2. top \in children[c]
      BY <1>4, <2>1, <2>2, <2>4 DEF Placed, children
    <3> QED
      BY <1>1, <1>2, <1>3, <2>2, <3>1, <3>2 DEF Nested
  <2> QED
    BY <1>4, <2>1, <2>3, <2>4
<1>11. k > 1 => q[k] \in children[q[k - 1]]
  BY <1>3, <1>4, <1>6
<1>12. Placed(l, q, k)
  <2>1. \A j \in 1 .. k - 2 :
          q[j] \in Statements
            => (\E m \in 1 .. k - 1 : q[m] = "Ntry") \/ q[k] \in Deep(l)
    BY <1>4, <1>10
  <2> QED
    BY <1>8, <1>9, <1>11, <2>1 DEF Placed, children
<1>13. \A i \in 1 .. k : Placed(l, q, i)
  BY <1>4, <1>5, <1>12
<1> QED
  BY <1>3, <1>13 DEF q

-----------------------------------------------------------------------------
(* The events.                                                             *)

\* The event of each action of the document.
LEMMA Tags ==
  /\ StartTag => event'.tag = "start"
  /\ EmptyTag => event'.tag = "empty"
  /\ EndTag => event'.tag = "end"
  /\ TextOf => event'.tag = "text"
  /\ EndOfInput => event'.tag = "eof"
<1>1. ASSUME NEW name, NEW ident
      PROVE  [Event("start", name) EXCEPT !.ident = ident].tag = "start"
  BY DEF Event
<1>2. ASSUME NEW name, NEW v, NEW b
      PROVE  [Event("text", name) EXCEPT !.value = v, !.sound = b].tag = "text"
  BY DEF Event
<1>3. ASSUME NEW tag, NEW name
      PROVE  Event(tag, name).tag = tag
  BY DEF Event
<1>4. StartTag => event'.tag = "start"
  BY <1>1 DEF StartTag
<1>5. EmptyTag => event'.tag = "empty"
  BY <1>3 DEF EmptyTag
<1>6. EndTag => event'.tag = "end"
  BY <1>3 DEF EndTag
<1>7. TextOf => event'.tag = "text"
  BY <1>2 DEF TextOf
<1>8. EndOfInput => event'.tag = "eof"
  BY <1>3 DEF EndOfInput
<1> QED
  BY <1>4, <1>5, <1>6, <1>7, <1>8

\* What a tag that opens does to the document.
LEMMA OnStart ==
  ASSUME DocumentInv, DocumentNext, event'.tag = "start"
  PROVE  /\ layout' = layout /\ event'.name \in Names(layout)
         /\ event'.name # Null
         /\ event'.name \in Layouts[layout].children[Top]
         /\ opened' = Append(opened, event'.name)
         /\ stated' = Counted(event'.name, TRUE)
<1>1. StartTag
  BY Tags DEF DocumentNext
<1>2. PICK name \in Children[Top], ident \in Idents \union {Null} :
        /\ event' = [Event("start", name) EXCEPT !.ident = ident]
        /\ opened' = Append(opened, name)
        /\ stated' = Counted(name, TRUE)
  BY <1>1 DEF StartTag
<1>3. event'.name = name
  BY <1>2 DEF Event
<1>4. Top \in Names(layout)
  BY Schema DEF DocumentInv, Top
<1>5. name \in Names(layout) /\ name # Null
  BY <1>4, Schema DEF DocumentInv, Children
<1> QED
  BY <1>2, <1>3, <1>5 DEF DocumentNext, Children

\* What an element that closes itself does.
LEMMA OnEmpty ==
  ASSUME DocumentInv, DocumentNext, event'.tag = "empty"
  PROVE  /\ layout' = layout /\ opened' = opened
         /\ event'.name \in Names(layout) /\ event'.name # Null
         /\ event'.name \in Layouts[layout].children[Top]
         /\ stated' = Counted(event'.name, FALSE)
<1>1. EmptyTag
  BY Tags DEF DocumentNext
<1>2. PICK name \in Children[Top] :
        event' = Event("empty", name) /\ stated' = Counted(name, FALSE)
  BY <1>1 DEF EmptyTag
<1>3. event'.name = name
  BY <1>2 DEF Event
<1>4. Top \in Names(layout)
  BY Schema DEF DocumentInv, Top
<1>5. name \in Names(layout) /\ name # Null
  BY <1>4, Schema DEF DocumentInv, Children
<1> QED
  BY <1>1, <1>2, <1>3, <1>5 DEF DocumentNext, Children, EmptyTag

\* What a tag that closes does.
LEMMA OnEnd ==
  ASSUME DocumentInv, DocumentNext, event'.tag = "end"
  PROVE  /\ layout' = layout /\ stated' = stated /\ opened # <<>>
         /\ event'.name = opened[Len(opened)]
         /\ opened' = SubSeq(opened, 1, Len(opened) - 1)
<1>1. EndTag
  BY Tags DEF DocumentNext
<1> QED
  BY <1>1 DEF DocumentNext, EndTag, Event, Top

\* What a text does: it says which statement, or which header, it belongs to.
LEMMA OnText ==
  ASSUME DocumentInv, DocumentNext, event'.tag = "text"
  PROVE  /\ layout' = layout /\ stated' = stated /\ opened' = opened
         /\ event'.value \in Says /\ event'.value \in Values
<1>1. TextOf
  BY Tags DEF DocumentNext
<1>2. PICK v \in Says, sound \in BOOLEAN :
        event' = [Event("text", Top) EXCEPT !.value = v, !.sound = sound]
  BY <1>1 DEF TextOf
<1>3. event'.value = v
  BY <1>2 DEF Event
<1>4. event'.value \in Values
  BY <1>3 DEF Says, Values, DocumentInv
<1> QED
  BY <1>1, <1>3, <1>4 DEF DocumentNext, TextOf

\* What the end of the input does.
LEMMA OnEof ==
  ASSUME DocumentInv, DocumentNext, event'.tag = "eof"
  PROVE  layout' = layout /\ stated' = stated /\ opened' = opened
BY Tags DEF DocumentNext, EndOfInput

\* There are no other events, and none after the last.
LEMMA Events ==
  ASSUME DocumentNext
  PROVE  /\ event'.tag \in {"start", "empty", "end", "text", "eof"}
         /\ event.tag # "eof" /\ layout' = layout
BY Tags DEF DocumentNext, StartTag, EmptyTag, EndTag, TextOf, EndOfInput

\* What a tag adds to each of the counts.
LEMMA CountedIs ==
  ASSUME DocumentInv, NEW name, NEW opens \in BOOLEAN
  PROVE  LET c == Counted(name, opens)
             outer == opens /\ name \in Statements /\ Scope = 0
         IN  /\ c \in [headers : Nat, statements : Nat, entries : Nat,
                       balances : Nat]
             /\ c.statements = IF outer THEN stated.statements + 1
                               ELSE stated.statements
             /\ ~outer =>
                  /\ c.headers =
                      IF name = "GrpHdr" /\ Scope = 0
                      THEN stated.headers + 1 ELSE stated.headers
                  /\ c.entries =
                      IF opens /\ name = "Ntry" /\ InStatement
                      THEN stated.entries + 1 ELSE stated.entries
                  /\ c.balances =
                      IF name = "Bal" /\ InStatement
                      THEN stated.balances + 1 ELSE stated.balances
             /\ outer => c.headers = stated.headers
                         /\ c.entries = 0 /\ c.balances = 0
<1>1. /\ stated = [headers |-> stated.headers,
                   statements |-> stated.statements,
                   entries |-> stated.entries, balances |-> stated.balances]
      /\ stated.headers \in Nat /\ stated.statements \in Nat
      /\ stated.entries \in Nat /\ stated.balances \in Nat
  BY DEF DocumentInv
<1>2. CASE opens /\ name \in Statements /\ Scope = 0
  <2>1. Counted(name, opens) =
          [headers |-> stated.headers, statements |-> stated.statements + 1,
           entries |-> 0, balances |-> 0]
    BY <1>1, <1>2 DEF Counted
  <2> DEFINE c == Counted(name, opens)
  <2>2. c.statements = stated.statements + 1 /\ c.headers = stated.headers
        /\ c.entries = 0 /\ c.balances = 0
    BY <2>1
  <2>3. c \in [headers : Nat, statements : Nat, entries : Nat, balances : Nat]
    BY <1>1, <2>1
  <2> HIDE DEF c
  <2> QED
    BY <1>2, <2>2, <2>3 DEF c
<1>3. CASE ~(opens /\ name \in Statements /\ Scope = 0)
  <2>1. Counted(name, opens) =
          [headers |->
                      IF name = "GrpHdr" /\ Scope = 0
                      THEN stated.headers + 1 ELSE stated.headers,
           statements |-> stated.statements,
           entries |->
                      IF opens /\ name = "Ntry" /\ InStatement
                      THEN stated.entries + 1 ELSE stated.entries,
           balances |->
                      IF name = "Bal" /\ InStatement
                      THEN stated.balances + 1 ELSE stated.balances]
    BY <1>1, <1>3 DEF Counted
  <2> DEFINE c == Counted(name, opens)
  <2>2. /\ c.statements = stated.statements
        /\ c.headers =
                      IF name = "GrpHdr" /\ Scope = 0
                      THEN stated.headers + 1 ELSE stated.headers
        /\ c.entries =
                      IF opens /\ name = "Ntry" /\ InStatement
                      THEN stated.entries + 1 ELSE stated.entries
        /\ c.balances =
                      IF name = "Bal" /\ InStatement
                      THEN stated.balances + 1 ELSE stated.balances
    BY <2>1
  <2>3. c \in [headers : Nat, statements : Nat, entries : Nat, balances : Nat]
    BY <1>1, <2>1
  <2> HIDE DEF c
  <2> QED
    BY <1>3, <2>2, <2>3 DEF c
<1> QED
  BY <1>2, <1>3

\* The document stays as the schema has it.
LEMMA DocumentStep ==
  ASSUME DocumentInv, DocumentNext
  PROVE  DocumentInv'
<1>1. layout' = layout /\ layout \in DOMAIN Layouts
      /\ opened \in Seq(Names(layout))
      /\ \A i \in 1 .. Len(opened) : Placed(layout, opened, i)
  BY Events DEF DocumentInv
<1>2. \A name : \A opens \in BOOLEAN :
        Counted(name, opens) \in
          [headers : Nat, statements : Nat, entries : Nat, balances : Nat]
  BY CountedIs
<1>3. CASE event'.tag = "start"
  <2>1. event'.name \in Layouts[layout].children
                          [IF opened = <<>> THEN "/" ELSE opened[Len(opened)]]
    BY <1>3, OnStart DEF Top
  <2>2. event'.name \in Names(layout)
        /\ \A i \in 1 .. Len(opened) + 1 :
             Placed(layout, Append(opened, event'.name), i)
    BY <1>1, <2>1, PlacedPush
  <2>3. opened' = Append(opened, event'.name)
        /\ opened' \in Seq(Names(layout)) /\ Len(opened') = Len(opened) + 1
    BY <1>1, <1>3, <2>2, OnStart, AppendProperties
  <2> QED
    BY <1>1, <1>2, <1>3, <2>2, <2>3, OnStart DEF DocumentInv
<1>4. CASE event'.tag = "end"
  <2>1. opened' \in Seq(Names(layout)) /\ Len(opened') = Len(opened) - 1
        /\ \A i \in 1 .. Len(opened) - 1 : opened'[i] = opened[i]
    BY <1>1, <1>4, OnEnd, FrontIs
  <2>2. ASSUME NEW i \in 1 .. Len(opened')
        PROVE  Placed(layout, opened', i)
    <3>1. i \in Nat \ {0} /\ i \in 1 .. Len(opened)
          /\ \A j \in 1 .. i : opened'[j] = opened[j]
      BY <1>1, <2>1
    <3> QED
      BY <1>1, <3>1, PlacedSame
  <2> QED
    BY <1>1, <1>4, <2>1, <2>2, OnEnd DEF DocumentInv
<1>5. CASE event'.tag \in {"empty", "text", "eof"}
  BY <1>1, <1>2, <1>5, OnEmpty, OnText, OnEof DEF DocumentInv
<1> QED
  BY <1>3, <1>4, <1>5, Events

\* While the document is inside of a record it states nothing more, and a walk
\* that spans the record goes on spanning it until it closes.
LEMMA InsideRecord ==
  ASSUME DocumentInv, DocumentNext, event'.tag # "eof",
         NEW path \in Seq(Names(layout)), NEW sub \in Subtrees,
         Spans(sub, path, opened),
         NEW s, ScopeAt(opened, s), s <= Len(path)
  PROVE  /\ stated'.statements = stated.statements
         /\ stated'.headers = stated.headers
         /\ stated'.entries = stated.entries
         /\ stated'.balances = stated.balances
         /\ ScopeAt(opened', s)
         /\ s # 0 => opened'[s] = opened[s]
         /\ Closes(sub, event') => opened' = path
         /\ ~Closes(sub, event') =>
              /\ Consume(sub, event') \in Subtrees
              /\ Consume(sub, event').name = sub.name
              /\ Consume(sub, event').keep = sub.keep
              /\ Spans(Consume(sub, event'), path, opened')
<1> DEFINE e == event'
           N == Names(layout)
<1>1. /\ opened \in Seq(N) /\ layout \in DOMAIN Layouts
      /\ \A i \in 1 .. Len(opened) : Placed(layout, opened, i)
  BY DEF DocumentInv
<1>2. /\ Len(path) < Len(opened) /\ Len(path) \in Nat
      /\ opened[Len(path) + 1] \in {"Ntry", "Bal"}
  BY DEF Spans, Subtrees
<1>3. s \in 0 .. Len(opened) /\ Scope = s /\ ~InStatement
  BY <1>1, <1>2, ScopeIs DEF ScopeAt, InStatement
<1>4. Top \in Inner(layout) /\ Top = opened[Len(opened)]
  <2>1. Placed(layout, opened, Len(opened)) /\ opened # <<>>
    BY <1>1, <1>2
  <2> QED
    BY <1>2, <2>1 DEF Placed, Top
<1>5. e.tag \in {"start", "empty"} =>
        e.name \notin Statements /\ e.name # "GrpHdr"
  <2> SUFFICES ASSUME e.tag \in {"start", "empty"}
               PROVE  e.name \notin Statements /\ e.name # "GrpHdr"
    OBVIOUS
  <2>1. e.name \in Layouts[layout].children[Top]
    BY OnStart, OnEmpty
  <2>2. Recorded(Layouts[layout].children, Inner(layout))
    BY <1>1, Schema
  <2> QED
    BY <1>4, <2>1, <2>2 DEF Recorded
<1>6. /\ stated'.statements = stated.statements
      /\ stated'.headers = stated.headers
      /\ stated'.entries = stated.entries /\ stated'.balances = stated.balances
  <2>1. ASSUME NEW opens \in BOOLEAN, stated' = Counted(e.name, opens),
               e.tag \in {"start", "empty"}
        PROVE  /\ stated'.statements = stated.statements
               /\ stated'.headers = stated.headers
               /\ stated'.entries = stated.entries
               /\ stated'.balances = stated.balances
    <3>1. ~(opens /\ e.name \in Statements /\ Scope = 0) /\ e.name # "GrpHdr"
      BY <1>5, <2>1
    <3> QED
      BY <1>3, <2>1, <3>1, CountedIs
  <2>2. CASE e.tag = "start"
    BY <2>1, <2>2, OnStart
  <2>4. CASE e.tag = "empty"
    BY <2>1, <2>4, OnEmpty
  <2>3. CASE e.tag \in {"end", "text"}
    BY <2>3, OnEnd, OnText
  <2> QED
    BY <2>2, <2>3, <2>4, Events
<1>7. ScopeAt(opened', s) /\ (s # 0 => opened'[s] = opened[s])
  <2>1. CASE e.tag = "start"
    <3>1. opened' = Append(opened, e.name) /\ e.name \in N
      BY <2>1, OnStart
    <3> QED
      BY <1>1, <1>3, <1>5, <2>1, <3>1, ScopePush, AppendProperties
  <2>2. CASE e.tag = "end"
    <3>1. opened' = SubSeq(opened, 1, Len(opened) - 1) /\ opened # <<>>
      BY <2>2, OnEnd
    <3>2. s # Len(opened)
      BY <1>2
    <3>3. ScopeAt(opened', s)
      BY <1>1, <3>1, <3>2, ScopePop
    <3>4. \A i \in 1 .. Len(opened) - 1 : opened'[i] = opened[i]
      BY <1>1, <3>1, FrontIs
    <3> QED
      BY <1>2, <1>3, <3>3, <3>4
  <2>3. CASE e.tag \in {"empty", "text"}
    BY <2>3, OnEmpty, OnText
  <2> QED
    BY <2>1, <2>2, <2>3, Events
<1>8. ASSUME Closes(sub, e)
      PROVE  opened' = path
  BY <1>1, <1>8, OnEnd, SpansCloses DEF Closes
<1>9. ASSUME ~Closes(sub, e)
      PROVE  /\ Consume(sub, e) \in Subtrees
             /\ Consume(sub, e).name = sub.name
             /\ Consume(sub, e).keep = sub.keep
             /\ Spans(Consume(sub, e), path, opened')
  <2>1. Spans(Consume(sub, e), path, opened')
    <3>1. CASE e.tag = "start"
      BY <1>1, <3>1, OnStart, SpansPush
    <3>2. CASE e.tag = "end"
      <4>1. e.name = opened[Len(opened)]
            /\ opened' = SubSeq(opened, 1, Len(opened) - 1)
        BY <3>2, OnEnd
      <4>2. Spans(Consume(sub, e), path, SubSeq(opened, 1, Len(opened) - 1))
        BY <1>1, <1>9, <3>2, <4>1, SpansPop
      <4> QED
        BY <4>1, <4>2
    <3>3. CASE e.tag \in {"empty", "text"}
      <4>1. opened' = opened
        BY <3>3, OnEmpty, OnText
      <4>2. Spans(Consume(sub, e), path, opened)
        BY <3>3, SpansStays
      <4> QED
        BY <4>1, <4>2
    <3> QED
      BY <3>1, <3>2, <3>3, Events
  <2>2. /\ Consume(sub, e).name = sub.name /\ Consume(sub, e).keep = sub.keep
        /\ Consume(sub, e).size \in Nat /\ Consume(sub, e).sound \in BOOLEAN
    BY DEF Consume, Subtrees
  <2>3. Consume(sub, e).depth \in Nat
    <3>1. opened' \in Seq(N)
      BY DocumentStep, Events DEF DocumentInv
    <3>2. IsFiniteSet(Open(opened', Len(path), Consume(sub, e).name))
      BY <1>2, <3>1, OpenFinite
    <3> QED
      BY <2>1, <3>2, FS_CardinalityType DEF Spans
  <2>5. PICK d, z, b :
          Consume(sub, e) = [sub EXCEPT !.depth = d, !.size = z, !.sound = b]
    BY DEF Consume
  <2>6. /\ Consume(sub, e).depth = d /\ Consume(sub, e).size = z
        /\ Consume(sub, e).sound = b
    <3> DEFINE c == [sub EXCEPT !.depth = d, !.size = z, !.sound = b]
    <3>1. c.depth = d /\ c.size = z
      BY DEF Subtrees
    <3>2. c.sound = b
      BY Zenon DEF Subtrees
    <3> QED
      BY <2>5, <3>1, <3>2
  <2>7. Consume(sub, e) \in Subtrees
    <3>1. d \in Nat /\ z \in Nat
      BY <2>2, <2>3, <2>6
    <3>2. b \in BOOLEAN
      BY Zenon, <2>2, <2>6
    <3>3. [sub EXCEPT !.depth = d, !.size = z, !.sound = b] \in Subtrees
      BY <3>1, <3>2 DEF Subtrees
    <3> QED
      BY <2>5, <3>3
  <2> QED
    BY <2>1, <2>2, <2>7
<1> QED
  BY <1>6, <1>7, <1>8, <1>9

-----------------------------------------------------------------------------
(* The walk of read_iso20022.                                              *)

\* Both walks use what Wire defines.
LEMMA LooseWire ==
  /\ \A name, keep : Loose!Subtree(name, keep) = Subtree(name, keep)
  /\ \A sub, e : /\ Loose!Closes(sub, e) <=> Closes(sub, e)
                 /\ Loose!Breaks(sub, e) <=> Breaks(sub, e)
                 /\ Loose!Consume(sub, e) = Consume(sub, e)
  /\ \A path, e : Loose!CutShort(path, e) <=> CutShort(path, e)
  /\ \A path, tail : Loose!EndsWith(path, tail) <=> EndsWith(path, tail)
BY DEF Loose!Subtree, Loose!Closes, Loose!Breaks, Loose!Consume,
       Loose!CutShort, Loose!EndsWith, Subtree, Closes, Breaks, Consume,
       CutShort, EndsWith

\* The plumbing is the same in the strict walk.
LEMMA StrictWire ==
  /\ \A name, keep : Strict!Subtree(name, keep) = Subtree(name, keep)
  /\ \A sub, e : /\ Strict!Closes(sub, e) <=> Closes(sub, e)
                 /\ Strict!Breaks(sub, e) <=> Breaks(sub, e)
                 /\ Strict!Consume(sub, e) = Consume(sub, e)
  /\ \A path, e : Strict!CutShort(path, e) <=> CutShort(path, e)
  /\ \A path, tail : Strict!EndsWith(path, tail) <=> EndsWith(path, tail)
  /\ \A path, d, tail : Strict!Under(path, d, tail) <=> Under(path, d, tail)
BY DEF Strict!Subtree, Strict!Closes, Strict!Breaks, Strict!Consume,
       Strict!CutShort, Strict!EndsWith, Strict!Under,
       Subtree, Closes, Breaks, Consume, CutShort, EndsWith, Under

\* Inside of its entry the walk keeps its place while the document goes on.
LEMMA LooseStays ==
  ASSUME DocumentInv, DocumentInv', layout' = layout, LooseReads,
         loosePath' = loosePath, container_depth' = container_depth,
         container_kind' = container_kind,
         ScopeAt(opened', Container),
         Container # 0 => opened'[Container] = opened[Container],
         looseSubtree' \in Subtrees, looseSubtree'.name = "Ntry",
         looseSubtree'.keep, Spans(looseSubtree', loosePath, opened')
  PROVE  LoosePlace'
BY NullAssumption
DEF LoosePlace, LooseReads, Container, NullAssumption

\* An entry that opens is numbered as the document counts it.
LEMMA LooseOpens ==
  ASSUME DocumentInv, DocumentNext, LooseReads, looseSubtree = Null,
         looseResult = "reading", Loose!EntryOpens(event')
  PROVE  LooseReads'
<1> DEFINE e == event'
<1>1. /\ e.tag = "start" /\ e.name = "Ntry"
      /\ looseSubtree' = Subtree("Ntry", TRUE)
      /\ entry_index' = IF Loose!Scoped THEN entry_index + 1 ELSE entry_index
      /\ loosePath' = loosePath /\ msg_id' = msg_id
      /\ account_iban' = account_iban /\ statement_id' = statement_id
      /\ saw_container' = saw_container /\ looseIndex' = looseIndex
      /\ container_kind' = container_kind
      /\ container_depth' = container_depth
  BY LooseWire DEF Loose!EntryOpens, Loose!context, Loose!scope
<1>2. /\ layout' = layout /\ "Ntry" \in Names(layout)
      /\ opened' = Append(opened, "Ntry") /\ stated' = Counted("Ntry", TRUE)
  BY <1>1, OnStart
<1>3. loosePath = opened /\ opened \in Seq(Names(layout))
      /\ ScopeAt(opened, Container) /\ Container \in 0 .. Len(opened)
  BY DEF LooseReads, LoosePlace, DocumentInv, ScopeAt
<1>4. Scope = Container
  BY <1>3, ScopeIs
<1>5. "Ntry" \notin Statements
  BY DEF Statements
<1>6. DocumentInv'
  BY DocumentStep
<1>7. LooseType'
  BY <1>1, <1>2 DEF LooseReads, LooseType, Subtree, Subtrees
<1>8. LoosePlace'
  <2>1. Spans(Subtree("Ntry", TRUE), loosePath, opened')
    BY <1>2, <1>3, SpansOpens
  <2>2. ScopeAt(opened', Container)
    BY <1>2, <1>3, <1>5, ScopePush
  <2>3. Container # 0 => opened'[Container] = opened[Container]
    BY <1>2, <1>3, AppendProperties
  <2>4. Subtree("Ntry", TRUE) \in Subtrees
        /\ Subtree("Ntry", TRUE).name = "Ntry" /\ Subtree("Ntry", TRUE).keep
    BY DEF Subtree, Subtrees
  <2> QED
    BY <1>1, <1>2, <1>6, <2>1, <2>2, <2>3, <2>4, LooseStays
<1>9. LooseCounts'
  <2>1. InStatement <=> Loose!Scoped
    BY <1>3, <1>4, NullAssumption
    DEF InStatement, Loose!Scoped, Container, LooseReads, LooseType,
        NullAssumption
  <2>2. stated'.statements = stated.statements
        /\ stated'.entries = IF InStatement THEN stated.entries + 1
                             ELSE stated.entries
    BY <1>2, <1>5, CountedIs
  <2> QED
    BY <1>1, <2>1, <2>2 DEF LooseCounts, LooseReads
<1>10. LooseOwn'
  BY <1>1 DEF LooseOwn, LooseReads, Container
<1> QED
  BY <1>7, <1>8, <1>9, <1>10 DEF LooseReads

\* An event inside of an entry.
LEMMA LooseGoesOn ==
  ASSUME DocumentInv, DocumentNext, LooseReads, looseSubtree # Null,
         Loose!EntryGoesOn(event')
  PROVE  LooseReads'
<1> DEFINE e == event'
<1>1. /\ ~Breaks(looseSubtree, e)
      /\ loosePath' = loosePath /\ msg_id' = msg_id
      /\ account_iban' = account_iban /\ statement_id' = statement_id
      /\ saw_container' = saw_container /\ looseIndex' = looseIndex
      /\ container_kind' = container_kind
      /\ container_depth' = container_depth /\ entry_index' = entry_index
      /\ looseSubtree' = IF Closes(looseSubtree, e) THEN Null
                         ELSE Consume(looseSubtree, e)
  BY LooseWire DEF Loose!EntryGoesOn, Loose!context, Loose!scope
<1>2. e.tag # "eof"
  BY <1>1 DEF Breaks
<1>3. /\ looseSubtree \in Subtrees /\ looseSubtree.name = "Ntry"
      /\ looseSubtree.keep /\ Spans(looseSubtree, loosePath, opened)
      /\ loosePath \in Seq(Names(layout)) /\ layout' = layout
      /\ ScopeAt(opened, Container) /\ Container <= Len(loosePath)
      /\ Container' = Container
  BY <1>1, Events DEF LooseReads, LooseType, LoosePlace, Container
<1>4. /\ stated'.statements = stated.statements
      /\ stated'.entries = stated.entries
      /\ ScopeAt(opened', Container)
      /\ Container # 0 => opened'[Container] = opened[Container]
      /\ Closes(looseSubtree, e) => opened' = loosePath
      /\ ~Closes(looseSubtree, e) =>
           /\ Consume(looseSubtree, e) \in Subtrees
           /\ Consume(looseSubtree, e).name = looseSubtree.name
           /\ Consume(looseSubtree, e).keep = looseSubtree.keep
           /\ Spans(Consume(looseSubtree, e), loosePath, opened')
  BY <1>2, <1>3, InsideRecord
<1>5. LooseType'
  BY <1>1, <1>3, <1>4 DEF LooseReads, LooseType
<1>6. LoosePlace'
  <2>1. CASE Closes(looseSubtree, e)
    BY <1>1, <1>3, <1>4, <2>1 DEF LooseReads, LoosePlace
  <2>2. CASE ~Closes(looseSubtree, e)
    BY <1>1, <1>3, <1>4, <2>2, NullAssumption
    DEF LooseReads, LoosePlace, NullAssumption
  <2> QED
    BY <2>1, <2>2
<1>7. LooseCounts'
  BY <1>1, <1>4 DEF LooseReads, LooseCounts
<1>8. LooseOwn'
  BY <1>1, <1>3 DEF LooseReads, LooseOwn
<1> QED
  BY <1>5, <1>6, <1>7, <1>8 DEF LooseReads

\* A tag that opens: the outermost statement starts over, and any other element
\* changes nothing but the path.
LEMMA LooseElementOpens ==
  ASSUME DocumentInv, DocumentNext, LooseReads, looseSubtree = Null,
         Loose!ElementOpens(event')
  PROVE  LooseReads'
<1> DEFINE e == event'
           opens == e.name \in Statements /\ container_depth = Null
<1>1. /\ e.tag = "start" /\ e.name # "Ntry"
      /\ loosePath' = Append(loosePath, e.name)
      /\ msg_id' = msg_id /\ looseSubtree' = looseSubtree
      /\ saw_container' = IF opens THEN TRUE ELSE saw_container
      /\ statement_id' = IF opens THEN Null ELSE statement_id
      /\ account_iban' = IF opens THEN Null ELSE account_iban
      /\ container_kind' = IF opens THEN e.name ELSE container_kind
      /\ container_depth' = IF opens THEN Len(loosePath) ELSE container_depth
      /\ looseIndex' = IF opens THEN looseIndex + 1 ELSE looseIndex
      /\ entry_index' = IF opens THEN 0 ELSE entry_index
  BY DEF Loose!ElementOpens, Loose!scope, Loose!IsContainer, Statements
<1>2. /\ layout' = layout /\ e.name \in Names(layout)
      /\ opened' = Append(opened, e.name) /\ stated' = Counted(e.name, TRUE)
  BY <1>1, OnStart
<1>3. /\ loosePath = opened /\ opened \in Seq(Names(layout))
      /\ ScopeAt(opened, Container) /\ Container \in 0 .. Len(opened)
      /\ \A i \in 1 .. Len(opened) : opened[i] # "Ntry"
  BY DEF LooseReads, LoosePlace, DocumentInv, ScopeAt
<1>4. Scope = Container /\ (Container = 0 <=> container_depth = Null)
  BY <1>3, ScopeIs, NullAssumption
  DEF Container, LooseReads, LooseType, NullAssumption
<1>5. Container' = IF opens THEN Len(opened) + 1 ELSE Container
  BY <1>1, <1>3, NullAssumption DEF Container, NullAssumption
<1>6. /\ Len(opened') = Len(opened) + 1 /\ opened'[Len(opened) + 1] = e.name
      /\ \A i \in 1 .. Len(opened) : opened'[i] = opened[i]
      /\ opened' \in Seq(Names(layout))
  BY <1>2, <1>3, AppendProperties
<1>7. LooseType'
  BY <1>1, <1>2, <1>3, <1>6 DEF LooseReads, LooseType, Values
<1>8. LoosePlace'
  <2>1. ScopeAt(opened', Container')
    BY <1>2, <1>3, <1>4, <1>5, ScopePush
  <2>2. Container' <= Len(loosePath')
    BY <1>1, <1>2, <1>3, <1>5, <1>6
  <2>3. Container' # 0 => container_kind' = opened'[Container']
    BY <1>1, <1>3, <1>5, <1>6 DEF LooseReads, LoosePlace
  <2>4. loosePath' = opened'
    BY <1>1, <1>2, <1>3
  <2>5. \A i \in 1 .. Len(loosePath') : loosePath'[i] # "Ntry"
    BY <1>1, <1>3, <1>6, <2>4
  <2> QED
    BY <1>1, <2>1, <2>2, <2>3, <2>4, <2>5 DEF LoosePlace
<1>9. LooseCounts'
  <2>1. stated'.statements = IF opens THEN stated.statements + 1
                             ELSE stated.statements
    BY <1>2, <1>4, CountedIs
  <2>2. stated'.entries = IF opens THEN 0 ELSE stated.entries
    BY <1>1, <1>2, <1>4, CountedIs
  <2>3. looseIndex \in Nat
    BY DEF LooseReads, LooseType
  <2> QED
    BY <1>1, <2>1, <2>2, <2>3 DEF LooseReads, LooseCounts
<1>10. LooseOwn'
  BY <1>1, <1>5 DEF LooseReads, LooseOwn
<1> QED
  BY <1>7, <1>8, <1>9, <1>10 DEF LooseReads

\* A tag that closes: nothing is known of a statement that is over.
LEMMA LooseElementCloses ==
  ASSUME DocumentInv, DocumentNext, LooseReads, looseSubtree = Null,
         Loose!ElementCloses(event')
  PROVE  LooseReads'
<1> DEFINE e == event'
           closes == container_depth = Len(loosePath) - 1
<1>1. /\ e.tag = "end"
      /\ loosePath' = SubSeq(loosePath, 1, Len(loosePath) - 1)
      /\ msg_id' = msg_id /\ looseSubtree' = looseSubtree
      /\ saw_container' = saw_container /\ looseIndex' = looseIndex
      /\ entry_index' = entry_index
      /\ statement_id' = IF closes THEN Null ELSE statement_id
      /\ account_iban' = IF closes THEN Null ELSE account_iban
      /\ container_kind' = IF closes THEN Null ELSE container_kind
      /\ container_depth' = IF closes THEN Null ELSE container_depth
  BY DEF Loose!ElementCloses, Loose!Pop
<1>2. /\ layout' = layout /\ opened # <<>> /\ stated' = stated
      /\ opened' = SubSeq(opened, 1, Len(opened) - 1)
  BY <1>1, OnEnd
<1>3. /\ loosePath = opened /\ opened \in Seq(Names(layout))
      /\ ScopeAt(opened, Container) /\ Container \in 0 .. Len(opened)
      /\ \A i \in 1 .. Len(opened) : opened[i] # "Ntry"
      /\ Len(opened) \in Nat \ {0}
  BY <1>2 DEF LooseReads, LoosePlace, DocumentInv, ScopeAt
<1>4. closes <=> Container = Len(opened)
  BY <1>3, NullAssumption DEF Container, LooseReads, LooseType, NullAssumption
<1>5. Container' = IF closes THEN 0 ELSE Container
  BY <1>1 DEF Container
<1>6. /\ Len(opened') = Len(opened) - 1
      /\ \A i \in 1 .. Len(opened) - 1 : opened'[i] = opened[i]
      /\ opened' \in Seq(Names(layout))
  BY <1>2, <1>3, FrontIs
<1> HIDE DEF closes
<1>7. LooseType'
  BY <1>1, <1>2, <1>3, <1>6 DEF LooseReads, LooseType, Values
<1>8. LoosePlace'
  <2>1. ScopeAt(opened', Container')
    BY <1>2, <1>3, <1>4, <1>5, ScopePop
  <2>2. Container' <= Len(loosePath')
    BY <1>1, <1>2, <1>3, <1>4, <1>5, <1>6
  <2>3. Container' # 0 => container_kind' = opened'[Container']
    BY <1>1, <1>3, <1>4, <1>5, <1>6 DEF LooseReads, LoosePlace
  <2>4. loosePath' = opened'
    BY <1>1, <1>2, <1>3
  <2>5. \A i \in 1 .. Len(loosePath') : loosePath'[i] # "Ntry"
    BY <1>1, <1>3, <1>6, <2>4
  <2> QED
    BY <1>1, <2>1, <2>2, <2>3, <2>4, <2>5 DEF LoosePlace
<1>9. LooseCounts'
  BY <1>1, <1>2 DEF LooseReads, LooseCounts
<1>10. LooseOwn'
  BY <1>1, <1>5 DEF LooseReads, LooseOwn
<1> QED
  BY <1>7, <1>8, <1>9, <1>10 DEF LooseReads

\* What a path ends with, name by name.
LEMMA Tails ==
  ASSUME NEW N, NEW p \in Seq(N), NEW a, NEW b, NEW c, NEW d
  PROVE  /\ EndsWith(p, <<a, b>>) <=>
              Len(p) >= 2 /\ p[Len(p) - 1] = a /\ p[Len(p)] = b
         /\ EndsWith(p, <<a, b, c>>) <=>
              Len(p) >= 3 /\ p[Len(p) - 2] = a /\ p[Len(p) - 1] = b
                /\ p[Len(p)] = c
         /\ EndsWith(p, <<a, b, c, d>>) <=>
              Len(p) >= 4 /\ p[Len(p) - 3] = a /\ p[Len(p) - 2] = b
                /\ p[Len(p) - 1] = c /\ p[Len(p)] = d
<1> DEFINE M == {a, b, c, d}
<1>1. <<a, b>> \in Seq(M) /\ <<a, b, c>> \in Seq(M) /\ <<a, b, c, d>> \in Seq(M)
  OBVIOUS
<1> HIDE DEF M
<1>2. ASSUME NEW t \in Seq(M)
      PROVE  EndsWith(p, t) <=>
               /\ Len(p) >= Len(t)
               /\ \A i \in 1 .. Len(t) : p[Len(p) - Len(t) + i] = t[i]
  BY EndsWithIs
<1>5. Len(p) \in Nat
  OBVIOUS
<1>6. EndsWith(p, <<a, b>>) <=>
        Len(p) >= 2 /\ p[Len(p) - 1] = a /\ p[Len(p)] = b
  <2>1. PICK t \in Seq(M) : t = <<a, b>>
    BY <1>1
  <2>2. Len(t) = 2 /\ t[1] = a /\ t[2] = b
    BY <2>1
  <2>3. EndsWith(p, t) <=>
          /\ Len(p) >= Len(t)
          /\ \A i \in 1 .. Len(t) : p[Len(p) - Len(t) + i] = t[i]
    BY <1>2
  <2>4. EndsWith(p, t) <=>
          Len(p) >= 2 /\ \A i \in 1 .. 2 : p[Len(p) - 2 + i] = t[i]
    BY <2>2, <2>3
  <2> QED
    BY <1>5, <2>1, <2>2, <2>4
<1>7. EndsWith(p, <<a, b, c>>) <=>
        Len(p) >= 3 /\ p[Len(p) - 2] = a /\ p[Len(p) - 1] = b /\ p[Len(p)] = c
  <2>1. PICK t \in Seq(M) : t = <<a, b, c>>
    BY <1>1
  <2>2. Len(t) = 3 /\ t[1] = a /\ t[2] = b /\ t[3] = c
    BY <2>1
  <2>3. EndsWith(p, t) <=>
          /\ Len(p) >= Len(t)
          /\ \A i \in 1 .. Len(t) : p[Len(p) - Len(t) + i] = t[i]
    BY <1>2
  <2>4. EndsWith(p, t) <=>
          Len(p) >= 3 /\ \A i \in 1 .. 3 : p[Len(p) - 3 + i] = t[i]
    BY <2>2, <2>3
  <2> QED
    BY <1>5, <2>1, <2>2, <2>4
<1>8. EndsWith(p, <<a, b, c, d>>) <=>
        Len(p) >= 4 /\ p[Len(p) - 3] = a /\ p[Len(p) - 2] = b
          /\ p[Len(p) - 1] = c /\ p[Len(p)] = d
  <2>1. PICK t \in Seq(M) : t = <<a, b, c, d>>
    BY <1>1
  <2>2. Len(t) = 4 /\ t[1] = a /\ t[2] = b /\ t[3] = c /\ t[4] = d
    BY <2>1
  <2>3. EndsWith(p, t) <=>
          /\ Len(p) >= Len(t)
          /\ \A i \in 1 .. Len(t) : p[Len(p) - Len(t) + i] = t[i]
    BY <1>2
  <2>4. EndsWith(p, t) <=>
          Len(p) >= 4 /\ \A i \in 1 .. 4 : p[Len(p) - 4 + i] = t[i]
    BY <2>2, <2>3
  <2> QED
    BY <1>5, <2>1, <2>2, <2>4
<1> QED
  BY <1>6, <1>7, <1>8

\* Of a path p, whose last elements they are.
LEMMA TailTwo ==
  ASSUME NEW N, NEW p \in Seq(N), NEW a, NEW b
  PROVE  EndsWith(p, <<a, b>>) <=>
           Len(p) >= 2 /\ p[Len(p) - 1] = a /\ p[Len(p)] = b
BY Tails

\* The same of three names.
LEMMA TailThree ==
  ASSUME NEW N, NEW p \in Seq(N), NEW a, NEW b, NEW c
  PROVE  EndsWith(p, <<a, b, c>>) <=>
           Len(p) >= 3 /\ p[Len(p) - 2] = a /\ p[Len(p) - 1] = b /\ p[Len(p)] = c
BY Tails

\* The same of four names.
LEMMA TailFour ==
  ASSUME NEW N, NEW p \in Seq(N), NEW a, NEW b, NEW c, NEW d
  PROVE  EndsWith(p, <<a, b, c, d>>) <=>
           /\ Len(p) >= 4
           /\ p[Len(p) - 3] = a /\ p[Len(p) - 2] = b
           /\ p[Len(p) - 1] = c /\ p[Len(p)] = d
BY Tails

\* Where the walk reads an identifier or an account, it is in a statement, and
\* the text belongs to that statement.
LEMMA LooseCaptures ==
  ASSUME DocumentInv, LooseReads, looseSubtree = Null,
         \/ \E c \in Statements : EndsWith(opened, <<c, "Id">>)
         \/ EndsWith(opened, <<"Acct", "Id", "IBAN">>)
         \/ EndsWith(opened, <<"Acct", "Id", "Othr", "Id">>)
  PROVE  Container # 0 /\ Says = {stated.statements}
<1> DEFINE k == Len(opened)
<1>1. /\ loosePath = opened /\ opened \in Seq(Names(layout))
      /\ ScopeAt(opened, Container) /\ k \in Nat
      /\ \A i \in 1 .. k : opened[i] # "Ntry"
      /\ \A i \in 1 .. k : Placed(layout, opened, i)
      /\ layout \in DOMAIN Layouts
  BY DEF LooseReads, LoosePlace, DocumentInv
<1>2. \/ \E i \in 1 .. k : opened[i] \in Statements
      \/ \E i \in 1 .. k : opened[i] = "Acct"
  <2>1. CASE \E c \in Statements : EndsWith(opened, <<c, "Id">>)
    <3>1. PICK c \in Statements : EndsWith(opened, <<c, "Id">>)
      BY <2>1
    <3>2. k >= 2 /\ opened[k - 1] \in Statements /\ opened[k] = "Id"
      BY <1>1, <3>1, TailTwo
    <3>3. k - 1 \in 1 .. k
      BY <1>1, <3>2
    <3> QED
      BY <1>1, <3>2, <3>3
  <2>2. CASE EndsWith(opened, <<"Acct", "Id", "IBAN">>)
    <3>1. k >= 3 /\ opened[k - 2] = "Acct" /\ opened[k] = "IBAN"
      BY <1>1, <2>2, TailThree
    <3>2. k - 2 \in 1 .. k
      BY <1>1, <3>1
    <3> QED
      BY <1>1, <3>1, <3>2
  <2>3. CASE EndsWith(opened, <<"Acct", "Id", "Othr", "Id">>)
    <3>1. k >= 4 /\ opened[k - 3] = "Acct" /\ opened[k] = "Id"
      BY <1>1, <2>3, TailFour
    <3>2. k - 3 \in 1 .. k
      BY <1>1, <3>1
    <3> QED
      BY <1>1, <3>1, <3>2
  <2> QED
    BY <2>1, <2>2, <2>3
<1>3. Container # 0
  <2> SUFFICES ASSUME Container = 0
               PROVE  FALSE
    OBVIOUS
  <2>1. \A i \in 1 .. k : opened[i] \notin Statements
    BY <1>1 DEF ScopeAt
  <2>2. PICK i \in 1 .. k : opened[i] = "Acct"
    BY <1>2, <2>1
  <2>3. "Acct" \in Outer(layout)
    <3>1. /\ \A j \in 1 .. i : opened[j] \notin Statements
          /\ \A j \in 1 .. i - 1 : opened[j] # "Ntry"
      BY <1>1, <2>1
    <3> QED
      BY <1>1, <2>2, <3>1 DEF Placed
  <2> QED
    BY <1>1, <2>3, Schema DEF Unenclosed
<1>4. Scope = Container
  BY <1>1, ScopeIs
<1> QED
  BY <1>3, <1>4 DEF Says

\* A text: it is captured for the statement it belongs to.
LEMMA LooseText ==
  ASSUME DocumentInv, DocumentNext, LooseReads, looseSubtree = Null,
         Loose!TextRead(event')
  PROVE  LooseReads'
<1> DEFINE v == event'.value
           id == \E c \in Statements : EndsWith(opened, <<c, "Id">>)
           iban == EndsWith(opened, <<"Acct", "Id", "IBAN">>)
           other == EndsWith(opened, <<"Acct", "Id", "Othr", "Id">>)
<1>1. /\ layout' = layout /\ stated' = stated /\ opened' = opened
      /\ event'.value \in Says /\ event'.value \in Values
  BY OnText DEF Loose!TextRead
<1>2. loosePath = opened
  BY DEF LooseReads, LoosePlace
<1>3. /\ loosePath' = loosePath /\ looseSubtree' = looseSubtree
      /\ saw_container' = saw_container /\ looseIndex' = looseIndex
      /\ container_kind' = container_kind
      /\ container_depth' = container_depth /\ entry_index' = entry_index
  BY DEF Loose!TextRead, Loose!scope
<1>4. /\ msg_id' \in {msg_id, v}
      /\ statement_id' = IF id THEN v ELSE statement_id
      /\ account_iban' = IF iban \/ (other /\ account_iban = Null) THEN v
                         ELSE account_iban
  BY <1>2, LooseWire DEF Loose!TextRead, Loose!Captures, Statements
<1> HIDE DEF id, iban, other
<1>5. id \/ iban \/ other => Container # 0 /\ v = stated.statements
  BY <1>1, LooseCaptures DEF id, iban, other
<1>6. LooseType'
  BY <1>1, <1>3, <1>4 DEF LooseReads, LooseType
<1>7. LoosePlace'
  BY <1>1, <1>3 DEF LooseReads, LoosePlace, Container
<1>8. LooseCounts'
  BY <1>1, <1>3 DEF LooseReads, LooseCounts
<1>9. LooseOwn'
  <2>1. Container' = Container /\ looseIndex = stated.statements
    BY <1>3 DEF Container, LooseReads, LooseCounts
  <2>2. /\ statement_id = Null \/ (Container # 0 /\ statement_id = looseIndex)
        /\ account_iban = Null \/ (Container # 0 /\ account_iban = looseIndex)
    BY DEF LooseReads, LooseOwn
  <2>3. statement_id' = Null \/ (Container # 0 /\ statement_id' = looseIndex)
    BY <1>4, <1>5, <2>1, <2>2
  <2>4. account_iban' = Null \/ (Container # 0 /\ account_iban' = looseIndex)
    BY <1>4, <1>5, <2>1, <2>2
  <2> QED
    BY <1>3, <2>1, <2>3, <2>4 DEF LooseOwn
<1> QED
  BY <1>6, <1>7, <1>8, <1>9 DEF LooseReads

\* An element that closes itself.
LEMMA LooseIgnores ==
  ASSUME DocumentInv, DocumentNext, LooseReads, Loose!Ignored(event')
  PROVE  LooseReads'
<1>1. /\ layout' = layout /\ opened' = opened
      /\ stated' = Counted(event'.name, FALSE)
  BY OnEmpty DEF Loose!Ignored
<1>2. /\ loosePath' = loosePath /\ looseSubtree' = looseSubtree
      /\ msg_id' = msg_id /\ account_iban' = account_iban
      /\ statement_id' = statement_id
      /\ saw_container' = saw_container /\ looseIndex' = looseIndex
      /\ container_kind' = container_kind
      /\ container_depth' = container_depth /\ entry_index' = entry_index
  BY DEF Loose!Ignored, Loose!scope, Loose!context
<1>3. stated'.statements = stated.statements /\ stated'.entries = stated.entries
  BY <1>1, CountedIs
<1> QED
  BY <1>1, <1>2, <1>3
  DEF LooseReads, LooseType, LoosePlace, LooseCounts, LooseOwn, Container

\* The walk of read_iso20022 keeps its invariant, whatever the event.
LEMMA LooseStep ==
  ASSUME DocumentInv, DocumentNext, LooseInv, Loose!EntryReads(event')
  PROVE  LooseInv'
<1> SUFFICES ASSUME looseResult' = "reading"
             PROVE  LooseReads'
  BY DEF LooseInv
<1>1. looseResult = "reading" /\ LooseReads
  BY DEF LooseInv, Loose!EntryReads, Loose!DocumentEnds, Loose!WalkFails,
         Loose!EntryFails, Loose!EntryBreaks
<1>2. CASE looseSubtree = Null
  BY <1>1, <1>2, LooseOpens, LooseElementOpens, LooseElementCloses, LooseText,
     LooseIgnores
  DEF Loose!EntryReads, Loose!DocumentEnds, Loose!WalkFails, Loose!EntryFails
<1>3. CASE looseSubtree # Null
  BY <1>1, <1>3, LooseGoesOn DEF Loose!EntryReads, Loose!EntryBreaks,
     Loose!EntryFails
<1> QED
  BY <1>2, <1>3

\* A row is handed over only when its entry ends.
LEMMA RowStep ==
  ASSUME RowInv, LooseInv, Loose!EntryReads(event')
  PROVE  RowInv'
<1> SUFFICES ASSUME row' # Null
             PROVE  /\ looseResult' = "reading" /\ looseSubtree' = Null
                    /\ row' = Loose!EntryRow'
  BY DEF RowInv
<1>1. looseResult = "reading" /\ looseSubtree # Null
      /\ Loose!EntryGoesOn(event')
  BY DEF Loose!EntryReads, Loose!EntryOpens, Loose!ElementOpens,
         Loose!ElementCloses, Loose!TextRead, Loose!Ignored,
         Loose!DocumentEnds, Loose!WalkFails, Loose!EntryFails,
         Loose!EntryBreaks
<1>2. /\ looseSubtree' = Null /\ row' = Loose!EntryRow
      /\ looseResult' = looseResult
      /\ UNCHANGED <<loosePath, Loose!context, Loose!scope, entry_index>>
  BY <1>1 DEF Loose!EntryGoesOn
<1>3. Loose!EntryRow' = Loose!EntryRow
  BY <1>2 DEF Loose!EntryRow, Loose!Scoped, Loose!context, Loose!scope
<1> QED
  BY <1>1, <1>2, <1>3

-----------------------------------------------------------------------------
(* The strict walk.                                                        *)

\* The fields of a context: those of a statement, those of a message, and four
\* that are neither.
LEMMA Apart ==
  LET own == {"statement_kind", "statement_index", "entry_count",
              "balance_count"}
  IN  /\ Strict!Fields = Strict!MessageFields \union Strict!StatementFields
                           \union own
      /\ own \intersect Strict!MessageFields = {}
      /\ own \intersect Strict!StatementFields = {}
      /\ Strict!MessageFields \intersect Strict!StatementFields = {}
      /\ {"statement_id", "account_iban"} \subseteq Strict!StatementFields
      /\ Strict!Counts = {"entry_count", "balance_count"}
<1> DEFINE leaves == Strict!StatementLeaves
<1>1. Strict!MessageFields =
        {"msg_id", "message_created", "message_page", "message_last_page"}
  BY DEF Strict!MessageFields, Strict!MessageLeaves
<1>2. Strict!StatementFields =
        {"statement_id", "account_currency", "account_iban",
         "electronic_sequence", "legal_sequence", "statement_created",
         "from_date", "to_date", "copy_duplicate", "page_number", "last_page",
         "account_owner_name", "account_servicer_bic", "summary_entries",
         "summary_sum", "summary_net_amount", "summary_net_credit_debit",
         "summary_credit_entries", "summary_credit_sum",
         "summary_debit_entries", "summary_debit_sum"}
  BY DEF Strict!StatementFields, Strict!StatementLeaves
<1>3. Strict!Fields = Strict!MessageFields \union Strict!StatementFields
                        \union Strict!Counts
                        \union {"statement_kind", "statement_index"}
      /\ Strict!Counts = {"entry_count", "balance_count"}
  BY DEF Strict!Fields, Strict!Counts
<1> QED
  BY <1>1, <1>2, <1>3

\* A context nothing is known of.
LEMMA NothingIs ==
  /\ Strict!Nothing \in [Strict!Fields -> Values]
  /\ Strict!Nothing["entry_count"] = 0 /\ Strict!Nothing["balance_count"] = 0
  /\ Strict!Nothing["statement_index"] = 0
  /\ \A f \in Strict!StatementFields \union Strict!MessageFields :
       Strict!Nothing[f] = Null
BY Apart DEF Strict!Nothing, Values

\* Where the strict walk is: its statement is the document's.
LEMMA StrictScope ==
  ASSUME DocumentInv, StrictReads
  PROVE  /\ Scope = Active /\ (Active = 0 <=> statement_depth = Null)
         /\ Active # 0 => Active = statement_depth + 1
         /\ Active \in 0 .. Len(opened) /\ ScopeAt(opened, Active)
         /\ Strict!AtRecord <=> Active # 0 /\ Len(strictPath) = Active
         /\ strictSubtree = Null =>
              strictPath = opened /\ (InStatement <=> Strict!AtRecord)
<1>1. /\ ScopeAt(opened, Active) /\ opened \in Seq(Names(layout))
      /\ statement_depth \in Nat \union {Null}
      /\ strictSubtree = Null => strictPath = opened
  BY DEF StrictReads, StrictPlace, StrictType, DocumentInv
<1>2. Scope = Active /\ Active \in 0 .. Len(opened)
  BY <1>1, ScopeIs DEF ScopeAt
<1>3. /\ Active = 0 <=> statement_depth = Null
      /\ Active # 0 => Active = statement_depth + 1
  BY <1>1, NullAssumption DEF Active, NullAssumption
<1>4. Strict!AtRecord <=> Active # 0 /\ Len(strictPath) = Active
  BY <1>3 DEF Strict!AtRecord
<1> QED
  BY <1>1, <1>2, <1>3, <1>4 DEF InStatement

\* The names a record may have.
LEMMA RecordNames ==
  ASSUME grain \in {"Ntry", "Bal", "Statement"}, NEW name, name # Null,
         Strict!IsRecord(name) \/ Strict!IsCounted(name)
           \/ name = Strict!Skipped
  PROVE  name \in {"Ntry", "Bal"}
BY DEF Strict!IsRecord, Strict!IsCounted, Strict!Skipped, Strict!Tag,
       Strict!StatementRows

\* A record that opens is counted by the document and pending for the walk.
LEMMA StrictOpens ==
  ASSUME DocumentInv, DocumentNext, grain \in {"Ntry", "Bal", "Statement"},
         grain' = grain, StrictReads, strictSubtree = Null,
         Strict!RecordOpens(event')
  PROVE  StrictReads'
<1> DEFINE n == event'.name
<1>1. /\ event'.tag = "start"
      /\ Strict!IsRecord(n) \/ Strict!IsCounted(n) \/ n = Strict!Skipped
      /\ strictSubtree' = Subtree(n, Strict!IsRecord(n))
      /\ strictPath' = strictPath /\ ctx' = ctx
      /\ statement_depth' = statement_depth /\ saw_statement' = saw_statement
      /\ strictIndex' = strictIndex /\ record_index' = record_index
  BY StrictWire DEF Strict!RecordOpens, Strict!message, Strict!statement
<1>2. /\ layout' = layout /\ n \in Names(layout) /\ n # Null
      /\ opened' = Append(opened, n) /\ stated' = Counted(n, TRUE)
  BY <1>1, OnStart
<1>3. n \in {"Ntry", "Bal"} /\ n \notin Statements /\ n # "GrpHdr"
  BY <1>1, <1>2, RecordNames DEF Statements
<1>4. /\ Scope = Active /\ Active \in 0 .. Len(opened)
      /\ ScopeAt(opened, Active) /\ strictPath = opened
      /\ InStatement <=> Strict!AtRecord
      /\ opened \in Seq(Names(layout))
  BY StrictScope DEF DocumentInv
<1>5. /\ strictSubtree' \in Subtrees /\ strictSubtree'.name = n
      /\ strictSubtree'.sound
      /\ strictSubtree'.keep <=> Strict!IsRecord(n)
  <2>1. CASE Strict!IsRecord(n)
    <3>1. strictSubtree' = Subtree(n, TRUE)
      BY <1>1, <2>1
    <3> QED
      BY <1>3, <2>1, <3>1 DEF Subtree, Subtrees
  <2>2. CASE ~Strict!IsRecord(n)
    <3>1. Strict!IsRecord(n) = FALSE
      BY <2>2 DEF Strict!IsRecord
    <3>2. strictSubtree' = Subtree(n, FALSE)
      BY <1>1, <3>1
    <3> QED
      BY <1>3, <2>2, <3>2 DEF Subtree, Subtrees
  <2> QED
    BY <2>1, <2>2
<1>6. strictSubtree' # Null
  BY <1>5, NullAssumption DEF NullAssumption
<1>7. Active' = Active /\ (Strict!AtRecord' <=> Strict!AtRecord)
  BY <1>1 DEF Active, Strict!AtRecord
<1>8. StrictType'
  BY <1>1, <1>2, <1>5 DEF StrictReads, StrictType
<1>9. StrictPlace'
  <2>1. ScopeAt(opened', Active)
    BY <1>2, <1>3, <1>4, ScopePush
  <2>2. Active # 0 => opened'[Active] = opened[Active]
    BY <1>2, <1>4, AppendProperties
  <2>3. Spans(strictSubtree', strictPath, opened')
    BY <1>1, <1>2, <1>4, SpansOpens
  <2>4. (Strict!IsRecord(strictSubtree.name))' <=> Strict!IsRecord(n)
    BY <1>1, <1>5, <1>7 DEF Strict!IsRecord, Strict!Tag, Strict!StatementRows
  <2>5. Active <= Len(strictPath)
    BY <1>4
  <2> QED
    BY <1>1, <1>5, <1>6, <1>7, <2>1, <2>2, <2>3, <2>4, <2>5
    DEF StrictReads, StrictPlace
<1>10. StrictCounts'
  <2>1. Pending("Ntry") = 0 /\ Pending("Bal") = 0
    BY DEF Pending
  <2>2. /\ Pending("Ntry")' = IF n = "Ntry" /\ InStatement THEN 1 ELSE 0
        /\ Pending("Bal")' = IF n = "Bal" /\ InStatement THEN 1 ELSE 0
    BY <1>4, <1>5, <1>6, <1>7 DEF Pending
  <2>3. /\ stated'.statements = stated.statements
        /\ stated'.entries = IF n = "Ntry" /\ InStatement
                             THEN stated.entries + 1 ELSE stated.entries
        /\ stated'.balances = IF n = "Bal" /\ InStatement
                              THEN stated.balances + 1 ELSE stated.balances
    BY <1>2, <1>3, CountedIs
  <2>4. /\ stated.entries \in Nat /\ stated.balances \in Nat
        /\ record_index \in Nat
    BY DEF DocumentInv, StrictReads, StrictType
  <2> QED
    BY <1>1, <2>1, <2>2, <2>3, <2>4 DEF StrictReads, StrictCounts
<1>11. StrictOwn'
  <2>1. stated'.headers = stated.headers
    BY <1>2, <1>3, CountedIs
  <2> QED
    BY <1>1, <2>1 DEF StrictReads, StrictOwn
<1> QED
  BY <1>8, <1>9, <1>10, <1>11 DEF StrictReads

\* An event inside of a record; when it closes, the walk counts it.
LEMMA StrictGoesOn ==
  ASSUME DocumentInv, DocumentNext, grain \in {"Ntry", "Bal", "Statement"},
         grain' = grain, StrictReads, strictSubtree # Null,
         ~Strict!Breaks(strictSubtree, event'),
         Strict!RecordCloses(event') \/ Strict!RecordGoesOn(event')
  PROVE  StrictReads'
<1> DEFINE e == event'
           sub == strictSubtree
           closes == Closes(sub, e)
<1>1. /\ strictPath' = strictPath
      /\ statement_depth' = statement_depth /\ saw_statement' = saw_statement
      /\ strictIndex' = strictIndex
  BY DEF Strict!RecordCloses, Strict!RecordGoesOn, Strict!message,
         Strict!statement
<1>2. /\ strictSubtree' = IF closes THEN Null ELSE Consume(sub, e)
      /\ record_index' = IF closes /\ sub.keep THEN record_index + 1
                         ELSE record_index
      /\ ctx' = IF closes /\ Strict!IsCounted(sub.name)
                THEN [ctx EXCEPT ![Strict!Counted(sub.name)] = @ + 1] ELSE ctx
  BY StrictWire DEF Strict!RecordCloses, Strict!RecordGoesOn
<1>3. e.tag # "eof"
  BY StrictWire DEF Breaks
<1>4. /\ sub \in Subtrees /\ Spans(sub, strictPath, opened)
      /\ strictPath \in Seq(Names(layout)) /\ layout' = layout
      /\ ScopeAt(opened, Active) /\ Active <= Len(strictPath)
      /\ sub.keep <=> Strict!IsRecord(sub.name)
      /\ sub.keep \/ sub.sound
      /\ sub.name \in {"Ntry", "Bal"}
      /\ Active # 0 => ctx.statement_kind = opened[Active]
  BY Events, NullAssumption
  DEF StrictReads, StrictType, StrictPlace, Subtrees, NullAssumption
<1>5. /\ stated'.statements = stated.statements
      /\ stated'.headers = stated.headers
      /\ stated'.entries = stated.entries /\ stated'.balances = stated.balances
      /\ ScopeAt(opened', Active)
      /\ Active # 0 => opened'[Active] = opened[Active]
      /\ closes => opened' = strictPath
      /\ ~closes => /\ Consume(sub, e) \in Subtrees
                    /\ Consume(sub, e).name = sub.name
                    /\ Consume(sub, e).keep = sub.keep
                    /\ Spans(Consume(sub, e), strictPath, opened')
  BY <1>3, <1>4, InsideRecord
<1>6. ~closes => Consume(sub, e).keep \/ Consume(sub, e).sound
  BY <1>4 DEF Consume, Subtrees
<1>7. Active' = Active /\ (Strict!AtRecord' <=> Strict!AtRecord)
  BY <1>1 DEF Active, Strict!AtRecord
<1>15. sub.name # Null
  <2>1. sub.name = opened[Len(strictPath) + 1]
        /\ Len(strictPath) + 1 \in 1 .. Len(opened)
    BY <1>4 DEF Spans
  <2> QED
    BY <2>1, Schema DEF DocumentInv
<1>8. /\ Strict!IsCounted(sub.name) <=> grain = "Statement" /\ Strict!AtRecord
      /\ Strict!IsRecord(sub.name) <=> sub.name = grain /\ Strict!AtRecord
      /\ Strict!Counted(sub.name) = IF sub.name = "Ntry" THEN "entry_count"
                                    ELSE "balance_count"
  BY <1>4, <1>15
  DEF Strict!IsCounted, Strict!IsRecord, Strict!Tag, Strict!StatementRows,
      Strict!Counted
<1>9. /\ ctx \in [Strict!Fields -> Values]
      /\ grain = "Statement" =>
           ctx["entry_count"] \in Nat /\ ctx["balance_count"] \in Nat
      /\ stated.entries \in Nat /\ stated.balances \in Nat
      /\ record_index \in Nat
  BY DEF StrictReads, StrictType, StrictCounts, DocumentInv
<1>10. /\ ctx' \in [Strict!Fields -> Values]
       /\ \A f \in Strict!Fields : f \notin {"entry_count", "balance_count"} =>
            ctx'[f] = ctx[f]
       /\ ctx'["entry_count"] =
            IF closes /\ grain = "Statement" /\ Strict!AtRecord
                 /\ sub.name = "Ntry"
            THEN ctx["entry_count"] + 1 ELSE ctx["entry_count"]
       /\ ctx'["balance_count"] =
            IF closes /\ grain = "Statement" /\ Strict!AtRecord
                 /\ sub.name = "Bal"
            THEN ctx["balance_count"] + 1 ELSE ctx["balance_count"]
  <2>1. CASE closes /\ grain = "Statement" /\ Strict!AtRecord
    <3> DEFINE c == Strict!Counted(sub.name)
    <3>1. c \in {"entry_count", "balance_count"} /\ c \in Strict!Fields
          /\ ctx' = [ctx EXCEPT ![c] = ctx[c] + 1]
      BY <1>2, <1>8, <2>1, Apart
    <3>2. ctx[c] + 1 \in Values
      BY <1>9, <2>1, <3>1 DEF Values
    <3> QED
      BY <1>4, <1>8, <1>9, <2>1, <3>1, <3>2, Apart
  <2>2. CASE ~(closes /\ grain = "Statement" /\ Strict!AtRecord)
    BY <1>2, <1>8, <1>9, <2>2
  <2> QED
    BY <2>1, <2>2
<1> HIDE DEF closes
<1>11. StrictType'
  BY <1>1, <1>2, <1>4, <1>5, <1>9, <1>10 DEF StrictReads, StrictType
<1>12. StrictPlace'
  <2>1. "statement_kind" \in Strict!Fields
    BY Apart
  <2>2. ScopeAt(opened', Active') /\ Active' <= Len(strictPath')
    BY <1>1, <1>4, <1>5, <1>7
  <2>3. Active' # 0 => ctx'.statement_kind = opened'[Active']
    BY <1>4, <1>5, <1>7, <1>10, <2>1
  <2>4. CASE closes
    BY <1>1, <1>2, <1>5, <2>2, <2>3, <2>4 DEF StrictPlace
  <2>5. CASE ~closes
    <3>1. /\ strictSubtree' = Consume(sub, e) /\ strictSubtree' # Null
          /\ strictSubtree'.name = sub.name /\ strictSubtree'.keep = sub.keep
      BY <1>2, <1>5, <2>5, NullAssumption DEF NullAssumption
    <3>2. (Strict!IsRecord(strictSubtree.name))' <=> Strict!IsRecord(sub.name)
      BY <1>7, <3>1
      DEF Strict!IsRecord, Strict!Tag, Strict!StatementRows
    <3> QED
      BY <1>1, <1>4, <1>5, <1>6, <2>2, <2>3, <2>5, <3>1, <3>2 DEF StrictPlace
  <2> QED
    BY <2>4, <2>5
<1>13. StrictCounts'
  <2>1. /\ Pending("Ntry") = IF sub.name = "Ntry" /\ Strict!AtRecord THEN 1
                             ELSE 0
        /\ Pending("Bal") = IF sub.name = "Bal" /\ Strict!AtRecord THEN 1
                            ELSE 0
    BY DEF Pending
  <2>2. /\ Pending("Ntry")' = IF closes THEN 0 ELSE Pending("Ntry")
        /\ Pending("Bal")' = IF closes THEN 0 ELSE Pending("Bal")
    <3>1. CASE closes
      BY <1>2, <3>1 DEF Pending
    <3>2. CASE ~closes
      <4>1. strictSubtree' # Null /\ strictSubtree'.name = sub.name
        BY <1>2, <1>5, <3>2, NullAssumption DEF NullAssumption
      <4> QED
        BY <1>7, <2>1, <3>2, <4>1 DEF Pending
    <3> QED
      BY <3>1, <3>2
  <2>3. "statement_index" \in Strict!Fields
    BY Apart
  <2>4. ctx'.statement_index = ctx.statement_index
    BY <1>10, <2>3
  <2>5. /\ strictIndex = stated.statements /\ ctx.statement_index = strictIndex
        /\ saw_statement <=> strictIndex > 0
    BY DEF StrictReads, StrictCounts
  <2>6. /\ grain = "Ntry" => record_index' + Pending("Ntry")' = stated.entries
        /\ grain = "Bal" => record_index' + Pending("Bal")' = stated.balances
    <3>1. /\ grain = "Ntry" => record_index + Pending("Ntry") = stated.entries
          /\ grain = "Bal" => record_index + Pending("Bal") = stated.balances
      BY DEF StrictReads, StrictCounts
    <3> QED
      BY <1>2, <1>4, <1>8, <1>9, <2>1, <2>2, <3>1
  <2>7. grain = "Statement" =>
          /\ ctx'.entry_count \in Nat /\ ctx'.balance_count \in Nat
          /\ ctx'.entry_count + Pending("Ntry")' = stated.entries
          /\ ctx'.balance_count + Pending("Bal")' = stated.balances
    <3>1. grain = "Statement" =>
            /\ ctx["entry_count"] + Pending("Ntry") = stated.entries
            /\ ctx["balance_count"] + Pending("Bal") = stated.balances
      BY DEF StrictReads, StrictCounts
    <3> QED
      BY <1>4, <1>9, <1>10, <2>1, <2>2, <3>1
  <2> QED
    BY <1>1, <1>5, <2>4, <2>5, <2>6, <2>7 DEF StrictCounts
<1>14. StrictOwn'
  BY <1>1, <1>5, <1>10, Apart DEF StrictReads, StrictOwn
<1> QED
  BY <1>11, <1>12, <1>13, <1>14 DEF StrictReads

\* Starting a message over touches its fields and no others.
LEMMA ResetIs ==
  ASSUME NEW c \in [Strict!Fields -> Values]
  PROVE  /\ Strict!ResetMessage(c) \in [Strict!Fields -> Values]
         /\ \A f \in Strict!MessageFields : Strict!ResetMessage(c)[f] = Null
         /\ \A f \in Strict!Fields \ Strict!MessageFields :
              Strict!ResetMessage(c)[f] = c[f]
BY Apart DEF Strict!ResetMessage, Values

\* What a context keeps when no statement opens: a message's fields are what
\* they were or nothing, nothing in a header that opens, and all else stays.
Keeps(c, d, fresh) ==
  /\ d \in [Strict!Fields -> Values]
  /\ \A f \in Strict!Fields \ Strict!MessageFields : d[f] = c[f]
  /\ \A f \in Strict!MessageFields :
       d[f] = Null \/ (d[f] = c[f] /\ ~fresh)

\* A context that only forgets keeps the counts and what is known.
LEMMA KeepsCounts ==
  ASSUME NEW c, NEW d, NEW fresh, Keeps(c, d, fresh)
  PROVE  /\ d.entry_count = c.entry_count /\ d.balance_count = c.balance_count
         /\ d.statement_index = c.statement_index
         /\ d.statement_kind = c.statement_kind
         /\ \A f \in Strict!StatementFields : d[f] = c[f]
BY Apart DEF Keeps

\* A group header that opens forgets what the message said, and nothing else.
LEMMA HeaderKeeps ==
  ASSUME ctx \in [Strict!Fields -> Values], NEW name
  PROVE  Keeps(ctx, Strict!OpensHeader(name, ctx),
               name = "GrpHdr" /\ statement_depth = Null)
<1>1. CASE name = "GrpHdr" /\ statement_depth = Null
  BY <1>1, ResetIs DEF Keeps, Strict!OpensHeader
<1>2. CASE ~(name = "GrpHdr" /\ statement_depth = Null)
  BY <1>2 DEF Keeps, Strict!OpensHeader
<1> QED
  BY <1>1, <1>2

\* A tag that opens: a statement starts over, a header forgets the last one.
LEMMA StrictElementStarts ==
  ASSUME DocumentInv, DocumentNext, grain \in {"Ntry", "Bal", "Statement"},
         grain' = grain, StrictReads, strictSubtree = Null,
         Strict!ElementStarts(event')
  PROVE  StrictReads'
<1> DEFINE e == event'
           n == e.name
           opens == statement_depth = Null /\ n \in Statements
           header == Strict!OpensHeader(n, ctx)
           around == IF Strict!OpensFamily(e) # Null
                     THEN Strict!ResetMessage(header) ELSE header
           fresh == n = "GrpHdr" /\ statement_depth = Null
<1>1. /\ e.tag = "start"
      /\ ~(Strict!IsRecord(n) \/ Strict!IsCounted(n) \/ n = Strict!Skipped)
      /\ strictPath' = Append(strictPath, n)
      /\ strictSubtree' = strictSubtree
  BY DEF Strict!ElementStarts
<1>2. /\ saw_statement' = (saw_statement \/ opens)
      /\ statement_depth' = IF opens THEN Len(strictPath) ELSE statement_depth
      /\ strictIndex' = IF opens THEN strictIndex + 1 ELSE strictIndex
      /\ record_index' = IF opens THEN 0 ELSE record_index
      /\ ctx' = IF opens THEN Strict!ContextOf(e, around) ELSE around
  BY DEF Strict!ElementStarts, Strict!IsStatement, Statements
<1>3. /\ layout' = layout /\ n \in Names(layout) /\ n # Null
      /\ opened' = Append(opened, n) /\ stated' = Counted(n, TRUE)
  BY <1>1, OnStart
<1>4. /\ Scope = Active /\ Active \in 0 .. Len(opened)
      /\ Active = 0 <=> statement_depth = Null
      /\ ScopeAt(opened, Active) /\ strictPath = opened
      /\ InStatement <=> Strict!AtRecord
      /\ opened \in Seq(Names(layout))
  BY StrictScope DEF DocumentInv
<1>5. /\ ctx \in [Strict!Fields -> Values] /\ strictIndex \in Nat
      /\ statement_depth \in Nat \union {Null} /\ record_index \in Nat
      /\ stated.headers \in Nat
  BY DEF StrictReads, StrictType, DocumentInv
<1>6. Active' = IF opens THEN Len(opened) + 1 ELSE Active
  BY <1>2, <1>4, <1>5, NullAssumption DEF Active, NullAssumption
<1>7. /\ Len(opened') = Len(opened) + 1 /\ opened'[Len(opened) + 1] = n
      /\ \A i \in 1 .. Len(opened) : opened'[i] = opened[i]
      /\ opened' \in Seq(Names(layout))
  BY <1>3, <1>4, AppendProperties
<1>8. Keeps(ctx, around, fresh)
  <2>1. Keeps(ctx, header, fresh)
    BY <1>5, HeaderKeeps
  <2> HIDE DEF header
  <2>2. CASE Strict!OpensFamily(e) # Null
    BY <2>1, <2>2, ResetIs DEF Keeps
  <2>3. CASE ~(Strict!OpensFamily(e) # Null)
    BY <2>1, <2>3
  <2> QED
    BY <2>2, <2>3
<1> HIDE DEF header, around
<1>9. ASSUME opens
      PROVE  /\ ctx' \in [Strict!Fields -> Values]
             /\ ctx'["statement_kind"] = n
             /\ ctx'["statement_index"] = strictIndex + 1
             /\ ctx'["entry_count"] = 0 /\ ctx'["balance_count"] = 0
             /\ \A f \in Strict!StatementFields : ctx'[f] = Null
             /\ \A f \in Strict!MessageFields : ctx'[f] = around[f]
  <2>1. ctx' = Strict!ContextOf(e, around)
    BY <1>2, <1>9
  <2>2. \A f \in Strict!Fields :
          ctx'[f] = CASE f \in Strict!MessageFields -> around[f]
                      [] f = "statement_kind" -> n
                      [] f = "statement_index" -> strictIndex + 1
                      [] OTHER -> Strict!Nothing[f]
    BY <2>1 DEF Strict!ContextOf
  <2>3. ctx' = [f \in Strict!Fields |-> ctx'[f]]
    BY <2>1 DEF Strict!ContextOf
  <2>4. \A f \in Strict!MessageFields : ctx'[f] = around[f] /\ around[f] \in Values
    BY <1>8, <2>2, Apart DEF Keeps
  <2>5. \A f \in Strict!StatementFields : ctx'[f] = Null
    BY <2>2, NothingIs, Apart
  <2>6. /\ ctx'["statement_kind"] = n
        /\ ctx'["statement_index"] = strictIndex + 1
        /\ ctx'["entry_count"] = 0 /\ ctx'["balance_count"] = 0
    BY <2>2, NothingIs, Apart
  <2>7. \A f \in Strict!Fields : ctx'[f] \in Values
    BY <1>5, <1>9, <2>4, <2>5, <2>6, Apart DEF Values
  <2> QED
    BY <2>3, <2>4, <2>5, <2>6, <2>7
<1>10. ~opens => Keeps(ctx, ctx', fresh)
  BY <1>2, <1>8
<1>11. ctx' \in [Strict!Fields -> Values]
  BY <1>9, <1>10 DEF Keeps
<1>12. StrictType'
  BY <1>1, <1>2, <1>3, <1>4, <1>5, <1>7, <1>11 DEF StrictReads, StrictType
<1>13. StrictPlace'
  <2>1. ScopeAt(opened', Active')
    BY <1>3, <1>4, <1>6, ScopePush
  <2>2. strictPath' = opened' /\ Active' <= Len(strictPath')
    BY <1>1, <1>3, <1>4, <1>6, <1>7
  <2>3. Active' # 0 => ctx'.statement_kind = opened'[Active']
    <3>1. CASE opens
      BY <1>6, <1>7, <1>9, <3>1
    <3>2. CASE ~opens
      <4>1. ctx'.statement_kind = ctx.statement_kind
        BY <1>10, <3>2, KeepsCounts
      <4>2. Active # 0 => ctx.statement_kind = opened[Active]
        BY DEF StrictReads, StrictPlace
      <4> QED
        BY <1>4, <1>6, <1>7, <3>2, <4>1, <4>2
    <3> QED
      BY <3>1, <3>2
  <2> QED
    BY <1>1, <2>1, <2>2, <2>3 DEF StrictPlace
<1>14. StrictCounts'
  <2>1. stated'.statements = IF opens THEN stated.statements + 1
                             ELSE stated.statements
    BY <1>3, <1>4, CountedIs
  <2>2. /\ Pending("Ntry") = 0 /\ Pending("Bal") = 0
        /\ Pending("Ntry")' = 0 /\ Pending("Bal")' = 0
    BY <1>1 DEF Pending
  <2>3. CASE opens
    <3>1. stated'.entries = 0 /\ stated'.balances = 0
      BY <1>3, <1>4, <2>3, CountedIs
    <3>2. /\ strictIndex' = strictIndex + 1 /\ record_index' = 0
          /\ saw_statement'
      BY <1>2, <2>3
    <3>3. strictIndex' = stated'.statements /\ strictIndex' > 0
      BY <1>5, <2>1, <2>3, <3>2 DEF StrictReads, StrictCounts
    <3>4. /\ ctx'["statement_index"] = strictIndex'
          /\ ctx'["entry_count"] = 0 /\ ctx'["balance_count"] = 0
      BY <1>9, <2>3, <3>2
    <3> QED
      BY <2>2, <3>1, <3>2, <3>3, <3>4 DEF StrictCounts
  <2>4. CASE ~opens
    <3>1. /\ grain \in {"Ntry", "Statement"} => ~(n = "Ntry" /\ InStatement)
          /\ grain \in {"Bal", "Statement"} => ~(n = "Bal" /\ InStatement)
      BY <1>1, <1>4
      DEF Strict!IsRecord, Strict!IsCounted, Strict!Tag, Strict!StatementRows
    <3>2. /\ grain \in {"Ntry", "Statement"} => stated'.entries = stated.entries
          /\ grain \in {"Bal", "Statement"} => stated'.balances = stated.balances
      BY <1>3, <1>4, <2>4, <3>1, CountedIs
    <3>3. /\ ctx'.entry_count = ctx.entry_count
          /\ ctx'.balance_count = ctx.balance_count
          /\ ctx'.statement_index = ctx.statement_index
      BY <1>10, <2>4, KeepsCounts
    <3> QED
      BY <1>2, <2>1, <2>2, <2>4, <3>2, <3>3 DEF StrictReads, StrictCounts
  <2> QED
    BY <2>3, <2>4
<1>15. StrictOwn'
  <2>1. stated'.headers = IF fresh THEN stated.headers + 1 ELSE stated.headers
    <3>1. "GrpHdr" \notin Statements
      BY DEF Statements
    <3> QED
      BY <1>3, <1>4, <3>1, CountedIs
  <2>2. \A f \in Strict!MessageFields : ctx'[f] \in {Null, stated'.headers}
    <3>1. \A f \in Strict!MessageFields : ctx[f] \in {Null, stated.headers}
      BY DEF StrictReads, StrictOwn
    <3>2. \A f \in Strict!MessageFields :
            ctx'[f] = Null \/ (ctx'[f] = ctx[f] /\ ~fresh)
      BY <1>8, <1>9, <1>10 DEF Keeps
    <3> QED
      BY <2>1, <3>1, <3>2
  <2>3. \A f \in Strict!StatementFields : ctx'[f] \in {Null, strictIndex'}
    <3>1. CASE opens
      BY <1>9, <3>1
    <3>2. CASE ~opens
      BY <1>2, <1>10, <3>2, KeepsCounts DEF StrictReads, StrictOwn
    <3> QED
      BY <3>1, <3>2
  <2> QED
    BY <2>2, <2>3 DEF StrictOwn
<1> QED
  BY <1>12, <1>13, <1>14, <1>15 DEF StrictReads


\* A tag that closes itself: a balance counts, and a header starts over.
LEMMA StrictEmptyRead ==
  ASSUME DocumentInv, DocumentNext, grain \in {"Ntry", "Bal", "Statement"},
         grain' = grain, StrictReads, strictSubtree = Null,
         Strict!EmptyRead(event')
  PROVE  StrictReads'
<1> DEFINE n == event'.name
           handed == grain = "Bal" /\ n = "Bal" /\ Strict!AtRecord
           counted == grain = "Statement" /\ n = "Bal" /\ Strict!AtRecord
           fresh == n = "GrpHdr" /\ statement_depth = Null
<1>1. /\ event'.tag = "empty"
      /\ record_index' = IF handed THEN record_index + 1 ELSE record_index
      /\ ctx' = IF counted THEN [ctx EXCEPT !.balance_count = @ + 1]
                ELSE Strict!OpensHeader(n, ctx)
      /\ strictPath' = strictPath /\ strictSubtree' = strictSubtree
      /\ statement_depth' = statement_depth /\ saw_statement' = saw_statement
      /\ strictIndex' = strictIndex
  BY DEF Strict!EmptyRead, Strict!EmptyIsRecord, Strict!Tag,
         Strict!StatementRows, Strict!statement
<1>2. /\ layout' = layout /\ opened' = opened
      /\ stated' = Counted(n, FALSE)
  BY <1>1, OnEmpty
<1>3. /\ Scope = Active /\ (Active = 0 <=> statement_depth = Null)
      /\ InStatement <=> Strict!AtRecord
  BY StrictScope
<1>4. /\ ctx \in [Strict!Fields -> Values] /\ record_index \in Nat
      /\ stated.headers \in Nat /\ stated.balances \in Nat
      /\ grain = "Statement" => ctx["balance_count"] \in Nat
  BY DEF StrictReads, StrictType, StrictCounts, DocumentInv
<1>5. /\ stated'.statements = stated.statements
      /\ stated'.headers = IF fresh THEN stated.headers + 1 ELSE stated.headers
      /\ stated'.entries = stated.entries
      /\ stated'.balances = IF n = "Bal" /\ Strict!AtRecord
                            THEN stated.balances + 1 ELSE stated.balances
  BY <1>2, <1>3, CountedIs
<1>6. CASE counted
  <2>1. ctx' = [ctx EXCEPT !["balance_count"] = ctx["balance_count"] + 1]
    BY <1>1, <1>6
  <2>2. ctx["balance_count"] + 1 \in Nat /\ "balance_count" \in Strict!Fields
    BY <1>4, <1>6, Apart
  <2>3. ctx["balance_count"] + 1 \in Values
    BY <2>2 DEF Values
  <2>4. /\ ctx' \in [Strict!Fields -> Values]
        /\ ctx'["balance_count"] = ctx["balance_count"] + 1
        /\ \A f \in Strict!Fields : f # "balance_count" => ctx'[f] = ctx[f]
    BY <1>4, <2>1, <2>2, <2>3
  <2>5. ~fresh /\ ~handed
    BY <1>6
  <2>6. \A f \in Strict!MessageFields \union Strict!StatementFields
               \union {"statement_index", "statement_kind", "entry_count"} :
          ctx'[f] = ctx[f]
    BY <2>4, Apart
  <2>7. StrictType'
    BY <1>1, <1>2, <2>4, <2>5 DEF StrictReads, StrictType
  <2>8. StrictPlace'
    BY <1>1, <1>2, <2>6 DEF StrictReads, StrictPlace, Active
  <2>9. StrictCounts'
    <3>1. Pending("Ntry") = 0 /\ Pending("Bal") = 0
          /\ Pending("Ntry")' = 0 /\ Pending("Bal")' = 0
      BY <1>1 DEF Pending
    <3> QED
      BY <1>1, <1>4, <1>5, <1>6, <2>2, <2>4, <2>5, <2>6, <3>1
      DEF StrictReads, StrictCounts
  <2>10. StrictOwn'
    BY <1>1, <1>5, <2>5, <2>6 DEF StrictReads, StrictOwn
  <2> QED
    BY <2>7, <2>8, <2>9, <2>10 DEF StrictReads
<1>7. CASE ~counted
  <2>1. Keeps(ctx, ctx', fresh)
    BY <1>1, <1>4, <1>7, HeaderKeeps
  <2>2. /\ ctx'.entry_count = ctx.entry_count
        /\ ctx'.balance_count = ctx.balance_count
        /\ ctx'.statement_index = ctx.statement_index
        /\ ctx'.statement_kind = ctx.statement_kind
        /\ \A f \in Strict!StatementFields : ctx'[f] = ctx[f]
    BY <2>1, KeepsCounts
  <2>3. StrictType'
    BY <1>1, <1>2, <1>4, <2>1 DEF StrictReads, StrictType, Keeps
  <2>4. StrictPlace'
    BY <1>1, <1>2, <2>2 DEF StrictReads, StrictPlace, Active
  <2>5. StrictCounts'
    <3>1. Pending("Ntry") = 0 /\ Pending("Bal") = 0
          /\ Pending("Ntry")' = 0 /\ Pending("Bal")' = 0
      BY <1>1 DEF Pending
    <3> QED
      BY <1>1, <1>4, <1>5, <1>7, <2>2, <3>1 DEF StrictReads, StrictCounts
  <2>6. StrictOwn'
    <3>1. \A f \in Strict!MessageFields : ctx'[f] \in {Null, stated'.headers}
      BY <1>5, <2>1 DEF Keeps, StrictReads, StrictOwn
    <3> QED
      BY <1>1, <2>2, <3>1 DEF StrictReads, StrictOwn
  <2> QED
    BY <2>3, <2>4, <2>5, <2>6 DEF StrictReads
<1> QED
  BY <1>6, <1>7

\* A tag that closes: a statement that is over is left as it was.
LEMMA StrictElementEnds ==
  ASSUME DocumentInv, DocumentNext, grain \in {"Ntry", "Bal", "Statement"},
         grain' = grain, StrictReads, strictSubtree = Null,
         Strict!ElementEnds(event')
  PROVE  StrictReads'
<1> DEFINE closes == statement_depth = Len(strictPath) - 1
           over == message_depth = Len(strictPath) - 1
<1>1. /\ event'.tag = "end"
      /\ strictPath' = SubSeq(strictPath, 1, Len(strictPath) - 1)
      /\ statement_depth' = IF closes THEN Null ELSE statement_depth
      /\ ctx' = IF over THEN Strict!ResetMessage(ctx) ELSE ctx
      /\ saw_statement' = saw_statement /\ strictIndex' = strictIndex
      /\ record_index' = record_index /\ strictSubtree' = strictSubtree
  BY DEF Strict!ElementEnds
<1>2. /\ layout' = layout /\ opened # <<>> /\ stated' = stated
      /\ opened' = SubSeq(opened, 1, Len(opened) - 1)
  BY <1>1, OnEnd
<1>3. /\ strictPath = opened /\ opened \in Seq(Names(layout))
      /\ ScopeAt(opened, Active) /\ Active \in 0 .. Len(opened)
      /\ (Active = 0 <=> statement_depth = Null)
      /\ Active # 0 => Active = statement_depth + 1
      /\ Len(opened) \in Nat \ {0}
  BY <1>2, StrictScope DEF DocumentInv
<1>4. /\ ctx \in [Strict!Fields -> Values]
      /\ statement_depth \in Nat \union {Null}
  BY DEF StrictReads, StrictType
<1>5. closes <=> Active = Len(opened)
  BY <1>3, <1>4, NullAssumption DEF Active, NullAssumption
<1>6. Active' = IF closes THEN 0 ELSE Active
  BY <1>1 DEF Active
<1>7. /\ Len(opened') = Len(opened) - 1
      /\ \A i \in 1 .. Len(opened) - 1 : opened'[i] = opened[i]
      /\ opened' \in Seq(Names(layout))
  BY <1>2, <1>3, FrontIs
<1>8. Keeps(ctx, ctx', FALSE)
  BY <1>1, <1>4, ResetIs DEF Keeps
<1>9. /\ ctx'.entry_count = ctx.entry_count
      /\ ctx'.balance_count = ctx.balance_count
      /\ ctx'.statement_index = ctx.statement_index
      /\ ctx'.statement_kind = ctx.statement_kind
      /\ \A f \in Strict!StatementFields : ctx'[f] = ctx[f]
  BY <1>8, KeepsCounts
<1>10. strictPath' = opened'
  BY <1>1, <1>2, <1>3
<1> HIDE DEF closes, over
<1>11. StrictType'
  BY <1>1, <1>2, <1>4, <1>7, <1>8, <1>10 DEF StrictReads, StrictType, Keeps
<1>12. StrictPlace'
  <2>1. ScopeAt(opened', Active')
    BY <1>2, <1>3, <1>5, <1>6, ScopePop
  <2>2. Active' <= Len(strictPath')
    BY <1>3, <1>5, <1>6, <1>7, <1>10
  <2>3. Active' # 0 => ctx'.statement_kind = opened'[Active']
    BY <1>3, <1>5, <1>6, <1>7, <1>9 DEF StrictReads, StrictPlace
  <2> QED
    BY <1>1, <1>10, <2>1, <2>2, <2>3 DEF StrictPlace
<1>13. StrictCounts'
  <2>1. Pending("Ntry") = 0 /\ Pending("Bal") = 0
        /\ Pending("Ntry")' = 0 /\ Pending("Bal")' = 0
    BY <1>1 DEF Pending
  <2> QED
    BY <1>1, <1>2, <1>9, <2>1 DEF StrictReads, StrictCounts
<1>14. StrictOwn'
  <2>1. \A f \in Strict!MessageFields : ctx'[f] \in {Null, stated'.headers}
    BY <1>2, <1>8 DEF Keeps, StrictReads, StrictOwn
  <2> QED
    BY <1>1, <1>9, <2>1 DEF StrictReads, StrictOwn
<1> QED
  BY <1>11, <1>12, <1>13, <1>14 DEF StrictReads


\* A text the walk keeps as one of the message's is a text of its header.
LEMMA HeaderSays ==
  ASSUME opened \in Seq(Names(layout)), Scope = 0,
         NEW f \in Strict!MessageFields,
         EndsWith(opened, Strict!MessageLeaves[f])
  PROVE  Says = {stated.headers}
<1> DEFINE leaf == Strict!MessageLeaves[f]
           k == Len(opened)
<1>1. leaf \in {<<"GrpHdr", "MsgId">>, <<"GrpHdr", "CreDtTm">>,
                <<"GrpHdr", "MsgPgntn", "PgNb">>,
                <<"GrpHdr", "MsgPgntn", "LastPgInd">>}
  BY DEF Strict!MessageLeaves, Strict!MessageFields
<1>2. k > 0 /\ opened[k] \in {"MsgId", "CreDtTm", "PgNb", "LastPgInd"}
  <2>1. CASE leaf = <<"GrpHdr", "MsgId">>
    <3>1. EndsWith(opened, <<"GrpHdr", "MsgId">>)
      BY <2>1
    <3>2. k >= 2 /\ opened[k] = "MsgId"
      BY <3>1, TailTwo
    <3> QED
      BY <3>2
  <2>2. CASE leaf = <<"GrpHdr", "CreDtTm">>
    <3>1. EndsWith(opened, <<"GrpHdr", "CreDtTm">>)
      BY <2>2
    <3>2. k >= 2 /\ opened[k] = "CreDtTm"
      BY <3>1, TailTwo
    <3> QED
      BY <3>2
  <2>3. CASE leaf = <<"GrpHdr", "MsgPgntn", "PgNb">>
    <3>1. EndsWith(opened, <<"GrpHdr", "MsgPgntn", "PgNb">>)
      BY <2>3
    <3>2. k >= 3 /\ opened[k] = "PgNb"
      BY <3>1, TailThree
    <3> QED
      BY <3>2
  <2>4. CASE leaf = <<"GrpHdr", "MsgPgntn", "LastPgInd">>
    <3>1. EndsWith(opened, <<"GrpHdr", "MsgPgntn", "LastPgInd">>)
      BY <2>4
    <3>2. k >= 3 /\ opened[k] = "LastPgInd"
      BY <3>1, TailThree
    <3> QED
      BY <3>2
  <2> QED
    BY <1>1, <2>1, <2>2, <2>3, <2>4
<1>3. Top # "MsgDefIdr"
  BY <1>2 DEF Top
<1> QED
  BY <1>3 DEF Says

\* A text: in a statement it is the statement's, above it the header's.
LEMMA StrictText ==
  ASSUME DocumentInv, DocumentNext, grain \in {"Ntry", "Bal", "Statement"},
         grain' = grain, StrictReads, strictSubtree = Null,
         Strict!TextCaptured(event')
  PROVE  StrictReads'
<1> DEFINE v == event'.value
<1>1. /\ layout' = layout /\ stated' = stated /\ opened' = opened
      /\ v \in Says /\ v \in Values
  BY OnText DEF Strict!TextCaptured
<1>2. /\ strictPath' = strictPath /\ strictSubtree' = strictSubtree
      /\ statement_depth' = statement_depth /\ saw_statement' = saw_statement
      /\ strictIndex' = strictIndex /\ record_index' = record_index
  BY DEF Strict!TextCaptured, Strict!statement
<1>3. /\ Scope = Active /\ (Active = 0 <=> statement_depth = Null)
      /\ strictPath = opened /\ opened \in Seq(Names(layout))
      /\ strictIndex = stated.statements /\ ctx \in [Strict!Fields -> Values]
  BY StrictScope DEF DocumentInv, StrictReads, StrictCounts, StrictType
<1>4. /\ ctx' \in [Strict!Fields -> Values]
      /\ \A f \in Strict!Fields :
           \/ ctx'[f] = ctx[f]
           \/ f \in Strict!StatementFields /\ ctx'[f] = stated.statements
           \/ f \in Strict!MessageFields /\ ctx'[f] = stated.headers
  <2>1. CASE statement_depth # Null
    <3>1. v = stated.statements
      BY <1>1, <1>3, <2>1 DEF Says
    <3>2. Strict!CapturesInStatement(v)
      BY <2>1 DEF Strict!TextCaptured
    <3>3. \A f \in Strict!Fields :
            \/ ctx'[f] = ctx[f]
            \/ f \in Strict!StatementFields /\ ctx'[f] = v
      BY <3>2, Apart DEF Strict!CapturesInStatement
    <3>4. ctx' = [f \in Strict!Fields |-> ctx'[f]]
      BY <3>2 DEF Strict!CapturesInStatement
    <3>5. \A f \in Strict!Fields : ctx'[f] \in Values
      BY <1>1, <1>3, <3>3
    <3> QED
      BY <3>1, <3>3, <3>4, <3>5
  <2>2. CASE statement_depth = Null
    <3>1. Strict!CapturesAbove(v)
      BY <2>2 DEF Strict!TextCaptured
    <3>2. \A f \in Strict!Fields :
            ctx'[f] = IF f \in Strict!MessageFields
                           /\ EndsWith(opened, Strict!MessageLeaves[f])
                      THEN v ELSE ctx[f]
      BY <1>3, <3>1, StrictWire DEF Strict!CapturesAbove
    <3>3. \A f \in Strict!MessageFields :
            EndsWith(opened, Strict!MessageLeaves[f]) => v = stated.headers
      BY <1>1, <1>3, <2>2, HeaderSays
    <3>4. ctx' = [f \in Strict!Fields |-> ctx'[f]]
      BY <3>1 DEF Strict!CapturesAbove
    <3>5. \A f \in Strict!Fields : ctx'[f] \in Values
      BY <1>1, <1>3, <3>2
    <3> QED
      BY <3>2, <3>3, <3>4, <3>5
  <2> QED
    BY <2>1, <2>2
<1>5. ctx'["entry_count"] = ctx["entry_count"]
      /\ ctx'["balance_count"] = ctx["balance_count"]
      /\ ctx'["statement_index"] = ctx["statement_index"]
      /\ ctx'["statement_kind"] = ctx["statement_kind"]
  BY <1>4, Apart
<1>6. StrictType'
  BY <1>1, <1>2, <1>4 DEF StrictReads, StrictType
<1>7. StrictPlace'
  BY <1>1, <1>2, <1>5 DEF StrictReads, StrictPlace, Active
<1>8. StrictCounts'
  <2>1. Pending("Ntry") = 0 /\ Pending("Bal") = 0
        /\ Pending("Ntry")' = 0 /\ Pending("Bal")' = 0
    BY <1>2 DEF Pending
  <2> QED
    BY <1>1, <1>2, <1>5, <2>1 DEF StrictReads, StrictCounts
<1>9. StrictOwn'
  BY <1>1, <1>2, <1>3, <1>4, Apart DEF StrictReads, StrictOwn
<1> QED
  BY <1>6, <1>7, <1>8, <1>9 DEF StrictReads

\* One event of the strict walk.
LEMMA StrictStep ==
  ASSUME DocumentInv, DocumentNext, grain \in {"Ntry", "Bal", "Statement"},
         StrictInv, Strict!RecordReads(event')
  PROVE  StrictInv'
<1> SUFFICES ASSUME strictResult' = "reading"
             PROVE  StrictReads'
  BY DEF StrictInv
<1>1. grain' = grain
  BY DEF Strict!RecordReads
<1>2. strictResult = "reading" /\ StrictReads
  BY DEF StrictInv, Strict!RecordReads, Strict!FileEnds, Strict!FileFails,
         Strict!RecordFails, Strict!RecordBreaks
<1>3. CASE strictSubtree = Null
  BY <1>1, <1>2, <1>3, StrictOpens, StrictElementStarts, StrictEmptyRead,
     StrictElementEnds, StrictText
  DEF Strict!RecordReads, Strict!FileEnds, Strict!FileFails,
      Strict!RecordFails
<1>4. CASE strictSubtree # Null
  BY <1>1, <1>2, <1>4, StrictGoesOn
  DEF Strict!RecordReads, Strict!RecordBreaks, Strict!RecordFails
<1> QED
  BY <1>3, <1>4


\* A record is handed out only when it is over, with what is then known.
LEMMA RecordStep ==
  ASSUME RecordInv, StrictInv, grain \in {"Ntry", "Bal", "Statement"},
         DocumentInv, Strict!RecordReads(event')
  PROVE  RecordInv'
<1> SUFFICES ASSUME record' # Null
             PROVE  /\ strictResult' = "reading" /\ strictSubtree' = Null
                    /\ record' = Strict!Handed(IF grain' = "Statement"
                                               THEN strictIndex'
                                               ELSE record_index', ctx')
  BY DEF RecordInv, Strict!Handed
<1>1. /\ strictResult = "reading" /\ StrictReads /\ grain' = grain
      /\ \/ strictSubtree # Null /\ Strict!RecordCloses(event')
         \/ strictSubtree = Null /\ Strict!EmptyRead(event')
         \/ strictSubtree = Null /\ Strict!ElementEnds(event')
  BY DEF StrictInv, Strict!RecordReads, Strict!RecordOpens,
         Strict!RecordGoesOn, Strict!RecordBreaks, Strict!RecordFails,
         Strict!ElementStarts, Strict!TextCaptured, Strict!FileEnds,
         Strict!FileFails
<1>2. CASE strictSubtree # Null /\ Strict!RecordCloses(event')
  <2>1. /\ strictSubtree' = Null /\ strictResult' = strictResult
        /\ strictSubtree.keep /\ record' = Strict!Handed(record_index', ctx)
        /\ ctx' = IF Strict!IsCounted(strictSubtree.name)
                  THEN [ctx EXCEPT ![Strict!Counted(strictSubtree.name)] =
                          @ + 1]
                  ELSE ctx
    BY <1>2 DEF Strict!RecordCloses
  <2>2. /\ Spans(strictSubtree, strictPath, opened)
        /\ Strict!IsRecord(strictSubtree.name)
        /\ strictPath \in Seq(Names(layout))
    BY <1>1, <1>2, <2>1 DEF StrictReads, StrictPlace, StrictType
  <2>3. strictSubtree.name # Null
    <3>1. strictSubtree.name = opened[Len(strictPath) + 1]
          /\ Len(strictPath) + 1 \in 1 .. Len(opened)
      BY <2>2 DEF Spans
    <3> QED
      BY <3>1, Schema DEF DocumentInv
  <2>4. grain # "Statement"
    BY <2>2, <2>3 DEF Strict!IsRecord, Strict!Tag, Strict!StatementRows
  <2>5. ctx' = ctx
    BY <2>1, <2>4 DEF Strict!IsCounted, Strict!StatementRows
  <2> QED
    BY <1>1, <2>1, <2>4, <2>5
<1>3. CASE strictSubtree = Null /\ Strict!EmptyRead(event')
  <2>1. /\ strictSubtree' = strictSubtree /\ strictResult' = strictResult
        /\ grain = "Bal" /\ event'.name = "Bal"
        /\ record' = Strict!Handed(record_index', ctx)
        /\ ctx' = Strict!OpensHeader(event'.name, ctx)
    BY <1>3 DEF Strict!EmptyRead, Strict!EmptyIsRecord, Strict!StatementRows,
                Strict!Tag
  <2>2. ctx' = ctx
    BY <2>1 DEF Strict!OpensHeader
  <2> QED
    BY <1>1, <1>3, <2>1, <2>2
<1>4. CASE strictSubtree = Null /\ Strict!ElementEnds(event')
  <2>1. /\ strictSubtree' = strictSubtree /\ strictResult' = strictResult
        /\ grain = "Statement" /\ strictIndex' = strictIndex
        /\ record' = Strict!Handed(strictIndex, ctx')
    BY <1>4 DEF Strict!ElementEnds, Strict!StatementRows
  <2> QED
    BY <1>1, <1>4, <2>1
<1> QED
  BY <1>1, <1>2, <1>3, <1>4


-----------------------------------------------------------------------------
(* Both walks.                                                             *)

\* Both walks are in the same statement.
LEMMA SamePlace ==
  ASSUME DocumentInv, LooseReads, StrictReads
  PROVE  /\ Container = Active /\ Scope = Active
         /\ Active \in 0 .. Len(opened)
         /\ Active # 0 => opened[Active] \in Statements
         /\ Container = 0 <=> container_depth = Null
         /\ Container # 0 => Container = container_depth + 1
         /\ Loose!Scoped <=> Active # 0 /\ Len(loosePath) = Active
<1>1. /\ ScopeAt(opened, Container) /\ ScopeAt(opened, Active)
      /\ opened \in Seq(Names(layout))
      /\ container_depth \in Nat \union {Null}
  BY DEF LooseReads, LoosePlace, LooseType, StrictReads, StrictPlace,
         DocumentInv
<1>2. Container = Active /\ Scope = Active
  BY <1>1, ScopeUnique, ScopeIs
<1>3. /\ Container = 0 <=> container_depth = Null
      /\ Container # 0 => Container = container_depth + 1
  BY <1>1, NullAssumption DEF Container, NullAssumption
<1>4. Loose!Scoped <=> Container # 0 /\ Len(loosePath) = Container
  BY <1>3 DEF Loose!Scoped
<1> QED
  BY <1>1, <1>2, <1>3, <1>4 DEF ScopeAt

\* What is below a position of a path, name by name.
LEMMA Unders ==
  ASSUME NEW N, NEW p \in Seq(N), NEW s \in 0 .. Len(p),
         NEW a, NEW b, NEW c, NEW d
  PROVE  /\ Under(p, s, <<a>>) <=> Len(p) = s + 1 /\ p[s + 1] = a
         /\ Under(p, s, <<a, b, c>>) <=>
              Len(p) = s + 3 /\ p[s + 1] = a /\ p[s + 2] = b /\ p[s + 3] = c
         /\ Under(p, s, <<a, b, c, d>>) <=>
              Len(p) = s + 4 /\ p[s + 1] = a /\ p[s + 2] = b /\ p[s + 3] = c
                /\ p[s + 4] = d
<1> DEFINE M == {a, b, c, d}
<1>1. <<a>> \in Seq(M) /\ <<a, b, c>> \in Seq(M) /\ <<a, b, c, d>> \in Seq(M)
  OBVIOUS
<1> HIDE DEF M
<1>2. ASSUME NEW t \in Seq(M)
      PROVE  Under(p, s, t) <=>
               Len(p) = s + Len(t) /\ \A i \in 1 .. Len(t) : p[s + i] = t[i]
  BY UnderIs
<1>3. Len(p) \in Nat /\ s \in Nat
  OBVIOUS
<1>4. Under(p, s, <<a>>) <=> Len(p) = s + 1 /\ p[s + 1] = a
  <2>1. PICK t \in Seq(M) : t = <<a>>
    BY <1>1
  <2>2. Len(t) = 1 /\ t[1] = a
    BY <2>1
  <2>3. Under(p, s, t) <=> Len(p) = s + 1 /\ \A i \in 1 .. 1 : p[s + i] = t[i]
    BY <1>2, <2>2
  <2> QED
    BY <1>3, <2>1, <2>2, <2>3
<1>5. Under(p, s, <<a, b, c>>) <=>
        Len(p) = s + 3 /\ p[s + 1] = a /\ p[s + 2] = b /\ p[s + 3] = c
  <2>1. PICK t \in Seq(M) : t = <<a, b, c>>
    BY <1>1
  <2>2. Len(t) = 3 /\ t[1] = a /\ t[2] = b /\ t[3] = c
    BY <2>1
  <2>3. Under(p, s, t) <=> Len(p) = s + 3 /\ \A i \in 1 .. 3 : p[s + i] = t[i]
    BY <1>2, <2>2
  <2> QED
    BY <1>3, <2>1, <2>2, <2>3
<1>6. Under(p, s, <<a, b, c, d>>) <=>
        Len(p) = s + 4 /\ p[s + 1] = a /\ p[s + 2] = b /\ p[s + 3] = c
          /\ p[s + 4] = d
  <2>1. PICK t \in Seq(M) : t = <<a, b, c, d>>
    BY <1>1
  <2>2. Len(t) = 4 /\ t[1] = a /\ t[2] = b /\ t[3] = c /\ t[4] = d
    BY <2>1
  <2>3. Under(p, s, t) <=> Len(p) = s + 4 /\ \A i \in 1 .. 4 : p[s + i] = t[i]
    BY <1>2, <2>2
  <2> QED
    BY <1>3, <2>1, <2>2, <2>3
<1> QED
  BY <1>4, <1>5, <1>6

\* The same of a rest of one name.
LEMMA UnderOne ==
  ASSUME NEW N, NEW p \in Seq(N), NEW s \in 0 .. Len(p), NEW a
  PROVE  Under(p, s, <<a>>) <=> Len(p) = s + 1 /\ p[s + 1] = a
BY Unders

\* The same of a rest of three names.
LEMMA UnderThree ==
  ASSUME NEW N, NEW p \in Seq(N), NEW s \in 0 .. Len(p), NEW a, NEW b, NEW c
  PROVE  Under(p, s, <<a, b, c>>) <=>
           Len(p) = s + 3 /\ p[s + 1] = a /\ p[s + 2] = b /\ p[s + 3] = c
BY Unders

\* The same of a rest of four names.
LEMMA UnderFour ==
  ASSUME NEW N, NEW p \in Seq(N), NEW s \in 0 .. Len(p),
         NEW a, NEW b, NEW c, NEW d
  PROVE  Under(p, s, <<a, b, c, d>>) <=>
           Len(p) = s + 4 /\ p[s + 1] = a /\ p[s + 2] = b /\ p[s + 3] = c
             /\ p[s + 4] = d
BY Unders

\* Outside of an entry, a path tail of the loose walk is where the strict walk
\* looks: directly below the statement.
LEMMA TailsAreUnder ==
  ASSUME DocumentInv, LooseReads, looseSubtree = Null, Container # 0
  PROVE  /\ (\E c \in Statements : EndsWith(opened, <<c, "Id">>))
              <=> Under(opened, Container, <<"Id">>)
         /\ EndsWith(opened, <<"Acct", "Id", "IBAN">>)
              <=> Under(opened, Container, <<"Acct", "Id", "IBAN">>)
         /\ EndsWith(opened, <<"Acct", "Id", "Othr", "Id">>)
              <=> Under(opened, Container, <<"Acct", "Id", "Othr", "Id">>)
<1> DEFINE k == Len(opened)
           s == Container
<1>1. /\ opened \in Seq(Names(layout)) /\ layout \in DOMAIN Layouts
      /\ s \in 1 .. k /\ k \in Nat /\ opened[s] \in Statements
      /\ \A i \in 1 .. k : opened[i] \in Statements => s <= i
      /\ \A i \in 1 .. k : opened[i] # "Ntry"
      /\ \A i \in 1 .. k : Placed(layout, opened, i)
      /\ \A i \in 1 .. k : opened[i] \in Names(layout)
  BY DEF LooseReads, LoosePlace, DocumentInv, ScopeAt
<1>2. /\ Nested(Layouts[layout].children, Deep(layout))
      /\ \A c \in Statements \intersect Names(layout) :
           Layouts[layout].children[c] \intersect Statements = {}
  BY <1>1, Schema
<1> HIDE DEF s
<1>3. ASSUME NEW i \in 1 .. k, i >= s + 2
      PROVE  opened[i] \in Deep(layout)
  <2>1. s \in 1 .. i - 2 /\ \A j \in 1 .. i - 1 : opened[j] # "Ntry"
    BY <1>1, <1>3
  <2> QED
    BY <1>1, <2>1 DEF Placed
<1>4. \A i \in 1 .. k : i > 1 =>
        opened[i] \in Layouts[layout].children[opened[i - 1]]
  BY <1>1 DEF Placed
<1>5. ASSUME NEW i \in 1 .. k, opened[i] = "Acct", i > s
      PROVE  i = s + 1
  <2> SUFFICES ASSUME i # s + 1
               PROVE  FALSE
    OBVIOUS
  <2>1. "Acct" \in Deep(layout)
    BY <1>1, <1>3, <1>5
  <2> QED
    BY <1>2, <2>1 DEF Nested
<1>6. (\E c \in Statements : EndsWith(opened, <<c, "Id">>))
        <=> k = s + 1 /\ opened[s + 1] = "Id"
  <2>1. ASSUME NEW c \in Statements, EndsWith(opened, <<c, "Id">>)
        PROVE  k = s + 1 /\ opened[s + 1] = "Id"
    <3>1. k >= 2 /\ opened[k - 1] = c /\ opened[k] = "Id"
      BY <1>1, <2>1, TailTwo
    <3>2. k - 1 \in 1 .. k /\ k \in 1 .. k /\ s <= k - 1
      BY <1>1, <3>1
    <3>3. k - 1 # s + 1
      <4> SUFFICES ASSUME k - 1 = s + 1
                   PROVE  FALSE
        OBVIOUS
      <4>1. opened[k - 1] \in Layouts[layout].children[opened[s]]
        BY <1>1, <1>4, <3>2
      <4> QED
        BY <1>1, <1>2, <3>1, <4>1
    <3>4. ~(k - 1 >= s + 2)
      <4> SUFFICES ASSUME k - 1 >= s + 2
                   PROVE  FALSE
        OBVIOUS
      <4>1. c \in Deep(layout)
        BY <1>3, <3>1, <3>2
      <4>2. "Id" \in Layouts[layout].children[c]
        BY <1>1, <1>4, <3>1, <3>2
      <4> QED
        BY <1>2, <4>1, <4>2 DEF Nested
    <3> QED
      BY <1>1, <3>1, <3>2, <3>3, <3>4
  <2>2. ASSUME k = s + 1, opened[s + 1] = "Id"
        PROVE  EndsWith(opened, <<opened[s], "Id">>)
    <3>1. PICK c : c = opened[s]
      OBVIOUS
    <3>2. k >= 2 /\ opened[k - 1] = c /\ opened[k] = "Id"
      BY <1>1, <2>2, <3>1
    <3>3. EndsWith(opened, <<c, "Id">>)
            <=> k >= 2 /\ opened[k - 1] = c /\ opened[k] = "Id"
      BY <1>1, TailTwo
    <3> QED
      BY <3>1, <3>2, <3>3
  <2> QED
    BY <1>1, <2>1, <2>2
<1>7. EndsWith(opened, <<"Acct", "Id", "IBAN">>)
        <=> k = s + 3 /\ opened[s + 1] = "Acct" /\ opened[s + 2] = "Id"
              /\ opened[s + 3] = "IBAN"
  <2>1. EndsWith(opened, <<"Acct", "Id", "IBAN">>)
          <=> k >= 3 /\ opened[k - 2] = "Acct" /\ opened[k - 1] = "Id"
                /\ opened[k] = "IBAN"
    BY <1>1, TailThree
  <2>2. ASSUME k >= 3, opened[k - 2] = "Acct", opened[k - 1] = "Id",
               opened[k] = "IBAN"
        PROVE  k = s + 3
    <3>1. s # k /\ s # k - 1 /\ s # k - 2
      BY <1>1, <2>2 DEF Statements
    <3>2. k - 2 \in 1 .. k /\ k - 2 > s
      BY <1>1, <2>2, <3>1
    <3>3. k - 2 = s + 1
      BY <1>5, <2>2, <3>2
    <3> QED
      BY <1>1, <3>3
  <2> QED
    BY <1>1, <2>1, <2>2
<1>8. EndsWith(opened, <<"Acct", "Id", "Othr", "Id">>)
        <=> k = s + 4 /\ opened[s + 1] = "Acct" /\ opened[s + 2] = "Id"
              /\ opened[s + 3] = "Othr" /\ opened[s + 4] = "Id"
  <2>1. EndsWith(opened, <<"Acct", "Id", "Othr", "Id">>)
          <=> k >= 4 /\ opened[k - 3] = "Acct" /\ opened[k - 2] = "Id"
                /\ opened[k - 1] = "Othr" /\ opened[k] = "Id"
    BY <1>1, TailFour
  <2>2. ASSUME k >= 4, opened[k - 3] = "Acct", opened[k - 2] = "Id",
               opened[k - 1] = "Othr", opened[k] = "Id"
        PROVE  k = s + 4
    <3>1. s # k /\ s # k - 1 /\ s # k - 2 /\ s # k - 3
      BY <1>1, <2>2 DEF Statements
    <3>2. k - 3 \in 1 .. k /\ k - 3 > s
      BY <1>1, <2>2, <3>1
    <3>3. k - 3 = s + 1
      BY <1>5, <2>2, <3>2
    <3> QED
      BY <1>1, <3>3
  <2> QED
    BY <1>1, <2>1, <2>2
<1>9. s \in 0 .. Len(opened)
  BY <1>1
<1>10. Under(opened, s, <<"Id">>) <=> k = s + 1 /\ opened[s + 1] = "Id"
  BY <1>1, <1>9, UnderOne
<1>11. Under(opened, s, <<"Acct", "Id", "IBAN">>)
         <=> k = s + 3 /\ opened[s + 1] = "Acct" /\ opened[s + 2] = "Id"
               /\ opened[s + 3] = "IBAN"
  BY <1>1, <1>9, UnderThree
<1>12. Under(opened, s, <<"Acct", "Id", "Othr", "Id">>)
         <=> k = s + 4 /\ opened[s + 1] = "Acct" /\ opened[s + 2] = "Id"
               /\ opened[s + 3] = "Othr" /\ opened[s + 4] = "Id"
  BY <1>1, <1>9, UnderFour
<1> QED
  BY <1>6, <1>7, <1>8, <1>10, <1>11, <1>12 DEF s


\* What the walk of read_iso20022 does when it does not end.
LEMMA LooseMoves ==
  ASSUME Loose!EntryReads(event'), looseResult' = "reading"
  PROVE  \/ /\ looseSubtree = Null
            /\ \/ Loose!EntryOpens(event') \/ Loose!ElementOpens(event')
               \/ Loose!ElementCloses(event') \/ Loose!TextRead(event')
               \/ Loose!Ignored(event')
         \/ looseSubtree # Null /\ Loose!EntryGoesOn(event')
BY DEF Loose!EntryReads, Loose!DocumentEnds, Loose!WalkFails,
       Loose!EntryFails, Loose!EntryBreaks

\* What the strict walk does when it does not end.
LEMMA StrictMoves ==
  ASSUME Strict!RecordReads(event'), strictResult' = "reading"
  PROVE  \/ /\ strictSubtree = Null
            /\ \/ Strict!RecordOpens(event') \/ Strict!ElementStarts(event')
               \/ Strict!EmptyRead(event') \/ Strict!ElementEnds(event')
               \/ Strict!TextCaptured(event')
         \/ /\ strictSubtree # Null /\ ~Strict!Breaks(strictSubtree, event')
            /\ Strict!RecordCloses(event') \/ Strict!RecordGoesOn(event')
BY DEF Strict!RecordReads, Strict!FileEnds, Strict!FileFails,
       Strict!RecordFails, Strict!RecordBreaks

\* The two walks record the same entries.
LEMMA SubtreesTogether ==
  ASSUME DocumentInv, DocumentNext, grain = "Ntry", LooseReads, StrictReads,
         Loose!EntryReads(event'), looseResult' = "reading",
         Strict!RecordReads(event'), strictResult' = "reading",
         strictSubtree # Null /\ strictSubtree.keep
           => looseSubtree = strictSubtree,
         looseSubtree # Null /\ Loose!Scoped
           => strictSubtree # Null /\ strictSubtree.keep
  PROVE  /\ strictSubtree' # Null /\ strictSubtree'.keep
              => looseSubtree' = strictSubtree'
         /\ looseSubtree' # Null /\ Loose!Scoped'
              => strictSubtree' # Null /\ strictSubtree'.keep
<1> DEFINE e == event'
<1>1. /\ Container = Active /\ Active \in 0 .. Len(opened)
      /\ Loose!Scoped <=> Active # 0 /\ Len(loosePath) = Active
      /\ strictSubtree = Null =>
           strictPath = opened /\ (InStatement <=> Strict!AtRecord)
      /\ Strict!AtRecord <=> Active # 0 /\ Len(strictPath) = Active
  BY SamePlace, StrictScope
<1>2. /\ looseSubtree \in Subtrees \union {Null}
      /\ strictSubtree \in Subtrees \union {Null}
      /\ Container <= Len(loosePath) /\ Active <= Len(strictPath)
      /\ looseSubtree = Null => loosePath = opened
      /\ looseSubtree # Null => Spans(looseSubtree, loosePath, opened)
      /\ strictSubtree # Null => Spans(strictSubtree, strictPath, opened)
      /\ loosePath \in Seq(Names(layout)) /\ strictPath \in Seq(Names(layout))
      /\ opened \in Seq(Names(layout))
  BY DEF LooseReads, LooseType, LoosePlace, StrictReads, StrictType,
         StrictPlace, DocumentInv
<1>3. CASE strictSubtree # Null
  <2>1. strictSubtree' = IF Closes(strictSubtree, e) THEN Null
                         ELSE Consume(strictSubtree, e)
    BY <1>3, StrictMoves, StrictWire
    DEF Strict!RecordCloses, Strict!RecordGoesOn
  <2>2. CASE strictSubtree.keep
    <3>1. looseSubtree = strictSubtree
      BY <1>3, <2>2
    <3>2. Loose!EntryGoesOn(e)
      BY <1>3, <3>1, LooseMoves
    <3>3. looseSubtree' = strictSubtree'
      BY <2>1, <3>1, <3>2, LooseWire DEF Loose!EntryGoesOn
    <3>4. CASE Closes(strictSubtree, e)
      BY <2>1, <3>3, <3>4
    <3>5. CASE ~Closes(strictSubtree, e)
      <4>1. Consume(strictSubtree, e).keep
        BY <1>2, <1>3, <2>2 DEF Consume, Subtrees
      <4>2. strictSubtree' = Consume(strictSubtree, e)
        BY <2>1, <3>5
      <4>3. looseSubtree' # Null => strictSubtree' # Null
        BY <3>3
      <4> QED
        BY <3>3, <4>1, <4>2, <4>3
    <3> QED
      BY <3>4, <3>5
  <2>3. CASE ~strictSubtree.keep
    <3>1. ~(strictSubtree' # Null /\ strictSubtree'.keep)
      <4>1. ~Consume(strictSubtree, e).keep
        BY <1>2, <1>3, <2>3 DEF Consume, Subtrees
      <4> QED
        BY <2>1, <4>1
    <3>2. ~(looseSubtree' # Null /\ Loose!Scoped')
      <4> SUFFICES ASSUME looseSubtree' # Null, Loose!Scoped'
                   PROVE  FALSE
        OBVIOUS
      <4>1. CASE looseSubtree # Null
        <5>1. Loose!Scoped' = Loose!Scoped
          BY <4>1, LooseMoves
          DEF Loose!EntryGoesOn, Loose!Scoped, Loose!scope
        <5> QED
          BY <2>3, <4>1, <5>1
      <4>2. CASE looseSubtree = Null
        <5>1. Loose!EntryOpens(e)
          BY <4>2, LooseMoves
          DEF Loose!ElementOpens, Loose!ElementCloses, Loose!TextRead,
              Loose!Ignored
        <5>2. Loose!Scoped' = Loose!Scoped
          BY <5>1 DEF Loose!EntryOpens, Loose!Scoped, Loose!scope
        <5>3. Len(opened) = Active /\ Len(strictPath) < Len(opened)
          BY <1>1, <1>2, <1>3, <4>2, <5>2 DEF Spans
        <5> QED
          BY <1>2, <5>3
      <4> QED
        BY <4>1, <4>2
    <3> QED
      BY <3>1, <3>2
  <2> QED
    BY <2>2, <2>3
<1>4. CASE strictSubtree = Null
  <2>1. ASSUME strictSubtree' # Null, strictSubtree'.keep
        PROVE  looseSubtree' = strictSubtree'
    <3>1. Strict!RecordOpens(e)
      BY <1>4, <2>1, StrictMoves
      DEF Strict!ElementStarts, Strict!EmptyRead, Strict!ElementEnds,
          Strict!TextCaptured
    <3>2. strictSubtree' = Subtree(e.name, Strict!IsRecord(e.name))
          /\ e.tag = "start"
      BY <3>1, StrictWire DEF Strict!RecordOpens
    <3>3. Strict!IsRecord(e.name)
      BY <2>1, <3>2 DEF Subtree
    <3>4. e.name = "Ntry" /\ Strict!AtRecord
      BY <3>3 DEF Strict!IsRecord, Strict!Tag, Strict!StatementRows
    <3>5. Strict!IsRecord(e.name) = TRUE
      BY <3>3 DEF Strict!IsRecord
    <3>6. looseSubtree = Null
      BY <1>1, <1>2, <1>4, <3>4 DEF Spans
    <3>7. Loose!EntryOpens(e)
      BY <3>2, <3>4, <3>6, LooseMoves
      DEF Loose!ElementOpens, Loose!ElementCloses, Loose!TextRead,
          Loose!Ignored
    <3>8. looseSubtree' = Subtree("Ntry", TRUE)
      BY <3>7, LooseWire DEF Loose!EntryOpens
    <3>9. strictSubtree' = Subtree("Ntry", TRUE)
      BY <3>2, <3>4, <3>5
    <3> QED
      BY <3>8, <3>9
  <2>2. ASSUME looseSubtree' # Null, Loose!Scoped'
        PROVE  strictSubtree' # Null /\ strictSubtree'.keep
    <3>1. looseSubtree = Null /\ Loose!EntryOpens(e)
      <4>1. CASE looseSubtree # Null
        <5>1. Loose!Scoped' = Loose!Scoped
          BY <4>1, LooseMoves
          DEF Loose!EntryGoesOn, Loose!Scoped, Loose!scope
        <5> QED
          BY <1>4, <2>2, <4>1, <5>1
      <4>2. CASE looseSubtree = Null
        BY <2>2, <4>2, LooseMoves
        DEF Loose!ElementOpens, Loose!ElementCloses, Loose!TextRead,
            Loose!Ignored
      <4> QED
        BY <4>1, <4>2
    <3>2. Loose!Scoped /\ e.tag = "start" /\ e.name = "Ntry"
      BY <2>2, <3>1 DEF Loose!EntryOpens, Loose!Scoped, Loose!scope
    <3>3. Strict!AtRecord
      BY <1>1, <1>2, <1>4, <3>1, <3>2
    <3>4. Strict!IsRecord("Ntry")
      BY <3>3 DEF Strict!IsRecord, Strict!Tag, Strict!StatementRows
    <3>5. Strict!RecordOpens(e)
      BY <1>4, <3>2, <3>4, StrictMoves
      DEF Strict!ElementStarts, Strict!EmptyRead, Strict!ElementEnds,
          Strict!TextCaptured
    <3>6. Strict!IsRecord("Ntry") = TRUE
      BY <3>4 DEF Strict!IsRecord
    <3>7. strictSubtree' = Subtree("Ntry", TRUE)
      BY <3>2, <3>5, <3>6, StrictWire DEF Strict!RecordOpens
    <3>8. Subtree("Ntry", TRUE) \in Subtrees /\ Subtree("Ntry", TRUE).keep
      BY DEF Subtree, Subtrees
    <3> QED
      BY <3>7, <3>8, NullAssumption DEF NullAssumption
  <2> QED
    BY <2>1, <2>2
<1> QED
  BY <1>3, <1>4


\* A tag that opens: both start over with the statement, or neither.
LEMMA OwnAtStart ==
  ASSUME DocumentInv, DocumentNext, grain = "Ntry", LooseReads, StrictReads,
         Loose!EntryReads(event'), looseResult' = "reading",
         Strict!RecordReads(event'), strictResult' = "reading",
         event'.tag = "start", Active # 0 => SameOwn, Active' # 0
  PROVE  SameOwn'
<1> DEFINE e == event'
           n == e.name
           opens == statement_depth = Null /\ n \in Statements
<1>1. /\ Container = Active /\ Scope = Active
      /\ Container = 0 <=> container_depth = Null
      /\ Active = 0 <=> statement_depth = Null
      /\ ctx \in [Strict!Fields -> Values]
      /\ {"statement_id", "account_iban"} \subseteq Strict!StatementFields
  BY SamePlace, StrictScope, Apart DEF StrictReads, StrictType
<1>2. stated' = Counted(n, TRUE)
  BY OnStart
<1>3. CASE opens
  <2>1. Strict!ElementStarts(e)
    <3>1. Strict!ElementStarts(e) \/ statement_depth' = statement_depth
      BY StrictMoves
      DEF Strict!RecordOpens, Strict!EmptyRead, Strict!ElementEnds,
          Strict!TextCaptured, Strict!RecordCloses, Strict!RecordGoesOn,
          Strict!statement
    <3>2. statement_depth' # statement_depth
      BY <1>3 DEF Active
    <3> QED
      BY <3>1, <3>2
  <2>2. \E c : ctx' = Strict!ContextOf(e, c)
    BY <1>3, <2>1 DEF Strict!ElementStarts, Strict!IsStatement, Statements
  <2>3. ctx'["statement_id"] = Null /\ ctx'["account_iban"] = Null
    BY <2>2, Apart, NothingIs DEF Strict!ContextOf
  <2>4. stated'.statements = stated.statements + 1
        /\ stated.statements \in Nat
    BY <1>1, <1>2, <1>3, CountedIs DEF DocumentInv
  <2>5. looseSubtree = Null
    <3> SUFFICES ASSUME looseSubtree # Null
                 PROVE  FALSE
      OBVIOUS
    <3>1. /\ looseSubtree \in Subtrees /\ loosePath \in Seq(Names(layout))
          /\ Spans(looseSubtree, loosePath, opened)
          /\ ScopeAt(opened, Container) /\ Container <= Len(loosePath)
      BY DEF LooseReads, LooseType, LoosePlace
    <3> QED
      BY <2>4, <3>1, InsideRecord
  <2>6. Loose!ElementOpens(e)
    BY <1>3, <2>5, LooseMoves
    DEF Loose!EntryOpens, Loose!ElementCloses, Loose!TextRead, Loose!Ignored,
        Statements
  <2>7. statement_id' = Null /\ account_iban' = Null
    BY <1>1, <1>3, <2>6
    DEF Loose!ElementOpens, Loose!IsContainer, Statements
  <2> QED
    BY <2>3, <2>7 DEF SameOwn
<1>4. CASE ~opens
  <2>1. Active' = Active
        /\ \A f \in Strict!StatementFields : ctx'[f] = ctx[f]
    <3>1. CASE Strict!ElementStarts(e)
      <4>1. ctx' = IF Strict!OpensFamily(e) # Null
                   THEN Strict!ResetMessage(Strict!OpensHeader(n, ctx))
                   ELSE Strict!OpensHeader(n, ctx)
        BY <1>4, <3>1
        DEF Strict!ElementStarts, Strict!IsStatement, Statements
      <4>2. statement_depth' = statement_depth
        BY <1>4, <3>1
        DEF Strict!ElementStarts, Strict!IsStatement, Statements
      <4> DEFINE fresh == n = "GrpHdr" /\ statement_depth = Null
                 header == Strict!OpensHeader(n, ctx)
      <4>3. Keeps(ctx, header, fresh)
        BY <1>1, HeaderKeeps
      <4>4. \A f \in Strict!StatementFields : header[f] = ctx[f]
            /\ Strict!ResetMessage(header)[f] = header[f]
        BY <4>3, ResetIs, Apart DEF Keeps
      <4> HIDE DEF header
      <4>5. ctx' = IF Strict!OpensFamily(e) # Null
                   THEN Strict!ResetMessage(header) ELSE header
        BY <4>1 DEF header
      <4> QED
        BY <4>2, <4>4, <4>5 DEF Active
    <3>2. CASE ~Strict!ElementStarts(e)
      BY <3>2, StrictMoves, StrictWire
      DEF Strict!RecordOpens, Strict!EmptyRead, Strict!ElementEnds,
          Strict!TextCaptured, Strict!RecordCloses, Strict!RecordGoesOn,
          Strict!statement, Closes, Active
    <3> QED
      BY <3>1, <3>2
  <2>2. statement_id' = statement_id /\ account_iban' = account_iban
    BY <1>1, <1>4, LooseMoves
    DEF Loose!EntryGoesOn, Loose!EntryOpens, Loose!ElementOpens,
        Loose!ElementCloses, Loose!TextRead, Loose!Ignored, Loose!context,
        Loose!IsContainer, Statements
  <2> QED
    BY <1>1, <2>1, <2>2 DEF SameOwn
<1> QED
  BY <1>3, <1>4

\* A tag that closes, or closes itself.
LEMMA OwnAtEnd ==
  ASSUME DocumentInv, DocumentInv', DocumentNext, grain = "Ntry",
         LooseReads, StrictReads, LooseReads', StrictReads',
         Loose!EntryReads(event'), looseResult' = "reading",
         Strict!RecordReads(event'), strictResult' = "reading",
         event'.tag \in {"end", "empty"}, Active # 0 => SameOwn, Active' # 0
  PROVE  SameOwn'
<1> DEFINE e == event'
<1>1. /\ ctx \in [Strict!Fields -> Values]
      /\ {"statement_id", "account_iban"} \subseteq Strict!StatementFields
      /\ statement_depth \in Nat \union {Null}
      /\ container_depth \in Nat \union {Null}
  BY Apart DEF StrictReads, StrictType, LooseReads, LooseType
<1>2. \A f \in Strict!StatementFields : ctx'[f] = ctx[f]
  <2>1. CASE Strict!EmptyRead(e)
    <3>1. ctx' = Strict!OpensHeader(e.name, ctx)
      BY <2>1 DEF Strict!EmptyRead, Strict!StatementRows
    <3>2. Keeps(ctx, ctx', e.name = "GrpHdr" /\ statement_depth = Null)
      BY <1>1, <3>1, HeaderKeeps
    <3> QED
      BY <3>2, Apart DEF Keeps
  <2>2. CASE Strict!ElementEnds(e)
    <3>1. ctx' = ctx \/ ctx' = Strict!ResetMessage(ctx)
      BY <2>2 DEF Strict!ElementEnds
    <3> QED
      BY <1>1, <3>1, ResetIs, Apart
  <2>3. CASE ~(Strict!EmptyRead(e) \/ Strict!ElementEnds(e))
    <3>1. ~Strict!IsCounted(strictSubtree.name)
      BY DEF Strict!IsCounted, Strict!StatementRows
    <3> QED
      BY <2>3, <3>1, StrictMoves
      DEF Strict!RecordOpens, Strict!ElementStarts, Strict!TextCaptured,
          Strict!RecordCloses, Strict!RecordGoesOn
  <2> QED
    BY <2>1, <2>2, <2>3
<1>3. Active # 0
  <2>1. statement_depth' = statement_depth \/ statement_depth' = Null
    BY StrictMoves
    DEF Strict!RecordOpens, Strict!ElementStarts, Strict!TextCaptured,
        Strict!RecordCloses, Strict!RecordGoesOn, Strict!EmptyRead,
        Strict!ElementEnds, Strict!statement
  <2> QED
    BY <2>1 DEF Active
<1>4. Container' # 0
  <2>1. /\ ScopeAt(opened', Container') /\ ScopeAt(opened', Active')
        /\ opened' \in Seq(Names(layout'))
    BY DEF DocumentInv, LooseReads, LoosePlace, StrictReads, StrictPlace
  <2>2. Container' = Active'
    BY <2>1, ScopeUnique
  <2> QED
    BY <2>2
<1>5. statement_id' = statement_id /\ account_iban' = account_iban
  <2>1. CASE Loose!ElementCloses(e)
    <3>1. container_depth' # Null
      BY <1>4 DEF Container
    <3> QED
      BY <2>1, <3>1 DEF Loose!ElementCloses
  <2>2. CASE ~Loose!ElementCloses(e)
    BY <2>2, LooseMoves
    DEF Loose!EntryGoesOn, Loose!EntryOpens, Loose!ElementOpens,
        Loose!TextRead, Loose!Ignored, Loose!context
  <2> QED
    BY <2>1, <2>2
<1> QED
  BY <1>1, <1>2, <1>3, <1>5 DEF SameOwn


\* Inside of a record there is no leaf directly below the statement.
LEMMA NoLeafInRecord ==
  ASSUME NEW N, NEW p \in Seq(N), NEW path \in Seq(N), NEW sub \in Subtrees,
         Spans(sub, path, p), NEW s \in 0 .. Len(p), s <= Len(path)
  PROVE  /\ ~Under(p, s, <<"Id">>)
         /\ ~Under(p, s, <<"Acct", "Id", "IBAN">>)
         /\ ~Under(p, s, <<"Acct", "Id", "Othr", "Id">>)
<1> DEFINE b == Len(path) + 1
<1>1. b \in s + 1 .. Len(p) /\ p[b] \in {"Ntry", "Bal"} /\ s \in Nat
      /\ Len(p) \in Nat
  BY DEF Spans, Subtrees
<1> HIDE DEF b
<1>2. ~Under(p, s, <<"Id">>)
  <2>1. Under(p, s, <<"Id">>) <=> Len(p) = s + 1 /\ p[s + 1] = "Id"
    BY Unders
  <2>2. Len(p) = s + 1 => b = s + 1
    BY <1>1
  <2> QED
    BY <1>1, <2>1, <2>2
<1>3. ~Under(p, s, <<"Acct", "Id", "IBAN">>)
  <2>1. Under(p, s, <<"Acct", "Id", "IBAN">>)
          <=> Len(p) = s + 3 /\ p[s + 1] = "Acct" /\ p[s + 2] = "Id"
                /\ p[s + 3] = "IBAN"
    BY Unders
  <2>2. Len(p) = s + 3 => b \in {s + 1, s + 2, s + 3}
    BY <1>1
  <2> QED
    BY <1>1, <2>1, <2>2
<1>4. ~Under(p, s, <<"Acct", "Id", "Othr", "Id">>)
  <2>1. Under(p, s, <<"Acct", "Id", "Othr", "Id">>)
          <=> Len(p) = s + 4 /\ p[s + 1] = "Acct" /\ p[s + 2] = "Id"
                /\ p[s + 3] = "Othr" /\ p[s + 4] = "Id"
    BY Unders
  <2>2. Len(p) = s + 4 => b \in {s + 1, s + 2, s + 3, s + 4}
    BY <1>1
  <2> QED
    BY <1>1, <2>1, <2>2
<1> QED
  BY <1>2, <1>3, <1>4

\* A text: both keep it as the statement's identifier or account, or neither.
LEMMA OwnAtText ==
  ASSUME DocumentInv, DocumentNext, grain = "Ntry", LooseReads, StrictReads,
         Loose!EntryReads(event'), looseResult' = "reading",
         Strict!RecordReads(event'), strictResult' = "reading",
         event'.tag = "text", Active # 0 => SameOwn, Active' # 0
  PROVE  SameOwn'
<1> DEFINE e == event'
           s == Active
           id == Under(opened, s, <<"Id">>)
           iban == Under(opened, s, <<"Acct", "Id", "IBAN">>)
           other == Under(opened, s, <<"Acct", "Id", "Othr", "Id">>)
<1>1. Active' = Active
  BY StrictMoves, StrictWire
  DEF Strict!RecordOpens, Strict!ElementStarts, Strict!TextCaptured,
      Strict!RecordCloses, Strict!RecordGoesOn, Strict!EmptyRead,
      Strict!ElementEnds, Strict!statement, Active, Closes
<1>2. /\ Container = s /\ Scope = s /\ s # 0 /\ s \in 0 .. Len(opened)
      /\ s = statement_depth + 1 /\ statement_depth # Null
      /\ opened \in Seq(Names(layout))
      /\ s <= Len(loosePath) /\ s <= Len(strictPath)
      /\ loosePath \in Seq(Names(layout)) /\ strictPath \in Seq(Names(layout))
      /\ looseSubtree \in Subtrees \union {Null}
      /\ strictSubtree \in Subtrees \union {Null}
      /\ looseSubtree = Null => loosePath = opened
      /\ strictSubtree = Null => strictPath = opened
      /\ looseSubtree # Null => Spans(looseSubtree, loosePath, opened)
      /\ strictSubtree # Null => Spans(strictSubtree, strictPath, opened)
  BY <1>1, SamePlace, StrictScope
  DEF DocumentInv, LooseReads, LooseType, LoosePlace, StrictReads, StrictType,
      StrictPlace
<1> HIDE DEF s
<1>3. looseSubtree # Null \/ strictSubtree # Null => ~id /\ ~iban /\ ~other
  BY <1>2, NoLeafInRecord
<1>4. /\ statement_id' = IF id THEN e.value ELSE statement_id
      /\ account_iban' = IF iban \/ (other /\ account_iban = Null) THEN e.value
                         ELSE account_iban
  <2>1. CASE looseSubtree # Null
    BY <1>3, <2>1, LooseMoves DEF Loose!EntryGoesOn, Loose!context
  <2>2. CASE looseSubtree = Null
    <3>1. Loose!TextRead(e)
      BY <2>2, LooseMoves
      DEF Loose!EntryOpens, Loose!ElementOpens, Loose!ElementCloses,
          Loose!Ignored
    <3>2. /\ statement_id' = IF \E c \in Statements : EndsWith(opened, <<c, "Id">>)
                             THEN e.value ELSE statement_id
          /\ account_iban' =
               IF EndsWith(opened, <<"Acct", "Id", "IBAN">>)
                  \/ (EndsWith(opened, <<"Acct", "Id", "Othr", "Id">>)
                        /\ account_iban = Null)
               THEN e.value ELSE account_iban
      BY <1>2, <2>2, <3>1, LooseWire
      DEF Loose!TextRead, Loose!Captures, Statements
    <3>3. /\ (\E c \in Statements : EndsWith(opened, <<c, "Id">>)) <=> id
          /\ EndsWith(opened, <<"Acct", "Id", "IBAN">>) <=> iban
          /\ EndsWith(opened, <<"Acct", "Id", "Othr", "Id">>) <=> other
      BY <1>2, <2>2, TailsAreUnder
    <3> QED
      BY <3>2, <3>3
  <2> QED
    BY <2>1, <2>2
<1>5. /\ ctx'["statement_id"] = IF id THEN e.value ELSE ctx["statement_id"]
      /\ ctx'["account_iban"] =
           IF iban \/ (other /\ ctx["account_iban"] = Null) THEN e.value
           ELSE ctx["account_iban"]
  <2>1. CASE strictSubtree # Null
    <3>1. ctx' = ctx
      BY <2>1, StrictMoves, StrictWire
      DEF Strict!RecordCloses, Strict!RecordGoesOn, Closes
    <3> QED
      BY <1>3, <2>1, <3>1
  <2>2. CASE strictSubtree = Null
    <3>1. Strict!TextCaptured(e)
      BY <2>2, StrictMoves
      DEF Strict!RecordOpens, Strict!ElementStarts, Strict!EmptyRead,
          Strict!ElementEnds
    <3>2. Strict!CapturesInStatement(e.value)
      BY <1>2, <3>1 DEF Strict!TextCaptured
    <3>3. ctx' =
            [f \in Strict!Fields |->
               IF \/ /\ f \in Strict!StatementFields
                     /\ \E tail \in Strict!StatementLeaves[f] :
                          Under(opened, s, tail)
                  \/ /\ f = "account_iban" /\ ctx[f] = Null
                     /\ Under(opened, s, Strict!OtherAccount)
               THEN e.value ELSE ctx[f]]
      BY <1>2, <2>2, <3>2, StrictWire DEF Strict!CapturesInStatement
    <3>4. /\ {"statement_id", "account_iban"} \subseteq Strict!StatementFields
          /\ Strict!StatementFields \subseteq Strict!Fields
      BY Apart
    <3>5. /\ Strict!StatementLeaves["statement_id"] = {<<"Id">>}
          /\ Strict!StatementLeaves["account_iban"] = {<<"Acct", "Id", "IBAN">>}
          /\ Strict!OtherAccount = <<"Acct", "Id", "Othr", "Id">>
      BY DEF Strict!StatementLeaves, Strict!OtherAccount
    <3>6. ctx'["statement_id"] = IF id THEN e.value ELSE ctx["statement_id"]
      BY <3>3, <3>4, <3>5
    <3>7. ctx'["account_iban"] =
            IF iban \/ (other /\ ctx["account_iban"] = Null) THEN e.value
            ELSE ctx["account_iban"]
      BY <3>3, <3>4, <3>5
    <3> QED
      BY <3>6, <3>7
  <2> QED
    BY <2>1, <2>2
<1>6. SameOwn
  BY <1>2 DEF s
<1> QED
  BY <1>4, <1>5, <1>6 DEF SameOwn

\* A row and a record exist only when they were just completed.
LEMMA NotNull ==
  ASSUME LooseReads, StrictReads
  PROVE  /\ Loose!EntryRow # Null
         /\ Loose!EntryRow.entry_index # Null <=> Loose!Scoped
         /\ \A i \in Nat : Strict!Handed(i, ctx) # Null
<1>1. /\ msg_id \in Values /\ account_iban \in Values
      /\ statement_id \in Values /\ container_kind \in Values
      /\ looseIndex \in Values /\ entry_index \in Nat
      /\ entry_index \in Values /\ Null \in Values
      /\ ctx \in [Strict!Fields -> Values]
  BY DEF LooseReads, LooseType, StrictReads, StrictType, Values
<1>2. Loose!EntryRow \in Rows
  BY <1>1 DEF Loose!EntryRow, Rows
<1>3. \A i \in Nat : Strict!Handed(i, ctx) \in Records
  BY <1>1 DEF Strict!Handed, Records
<1>4. Loose!EntryRow.entry_index = IF Loose!Scoped THEN entry_index ELSE Null
  BY DEF Loose!EntryRow
<1> QED
  BY <1>1, <1>2, <1>3, <1>4, NullAssumption DEF NullAssumption

\* A row with join keys and its record come with the same event.
LEMMA RowsTogether ==
  ASSUME DocumentInv, DocumentNext, grain = "Ntry", LooseReads, StrictReads,
         LooseReads', StrictReads',
         Loose!EntryReads(event'), looseResult' = "reading",
         Strict!RecordReads(event'), strictResult' = "reading",
         strictSubtree # Null /\ strictSubtree.keep
           => looseSubtree = strictSubtree,
         looseSubtree # Null /\ Loose!Scoped
           => strictSubtree # Null /\ strictSubtree.keep
  PROVE  ScopedRow' <=> record' # Null
<1> DEFINE e == event'
<1>1. ScopedRow' <=> looseSubtree # Null /\ Closes(looseSubtree, e)
                       /\ Loose!Scoped
  <2>1. row' = IF looseSubtree # Null /\ Closes(looseSubtree, e)
               THEN Loose!EntryRow ELSE Null
    BY LooseMoves, LooseWire
    DEF Loose!EntryGoesOn, Loose!EntryOpens, Loose!ElementOpens,
        Loose!ElementCloses, Loose!TextRead, Loose!Ignored
  <2> QED
    BY <2>1, NotNull DEF ScopedRow
<1>2. record' # Null <=> strictSubtree # Null /\ strictSubtree.keep
                           /\ Closes(strictSubtree, e)
  <2>1. CASE strictSubtree # Null
    <3>1. record' = IF Closes(strictSubtree, e) /\ strictSubtree.keep
                    THEN Strict!Handed(record_index', ctx) ELSE Null
      BY <2>1, StrictMoves, StrictWire
      DEF Strict!RecordCloses, Strict!RecordGoesOn
    <3>2. record_index' \in Nat
      BY DEF StrictReads, StrictType
    <3> QED
      BY <2>1, <3>1, <3>2, NotNull
  <2>2. CASE strictSubtree = Null
    BY <2>2, StrictMoves
    DEF Strict!RecordOpens, Strict!ElementStarts, Strict!EmptyRead,
        Strict!ElementEnds, Strict!TextCaptured, Strict!EmptyIsRecord,
        Strict!StatementRows
  <2> QED
    BY <2>1, <2>2
<1>3. ASSUME strictSubtree # Null, strictSubtree.keep, Closes(strictSubtree, e)
      PROVE  Loose!Scoped
  <2>1. looseSubtree = strictSubtree
    BY <1>3
  <2>2. /\ Spans(looseSubtree, loosePath, opened) /\ looseSubtree \in Subtrees
        /\ loosePath \in Seq(Names(layout)) /\ opened \in Seq(Names(layout))
        /\ Spans(strictSubtree, strictPath, opened)
        /\ strictPath \in Seq(Names(layout))
        /\ Strict!IsRecord(strictSubtree.name)
    BY <1>3, <2>1 DEF LooseReads, LooseType, LoosePlace, StrictReads,
                      StrictType, StrictPlace, DocumentInv
  <2>3. e.name = opened[Len(opened)]
    BY <1>3, OnEnd DEF Closes
  <2>4. loosePath = strictPath
    BY <1>3, <2>1, <2>2, <2>3, SpansCloses
  <2>5. Strict!AtRecord
    BY <2>2 DEF Strict!IsRecord
  <2> QED
    BY <2>4, <2>5, SamePlace, StrictScope
<1> QED
  BY <1>1, <1>2, <1>3


\* The two walks stay in step.
LEMMA TogetherStep ==
  ASSUME DocumentInv, DocumentNext, LooseInv, StrictInv, Together,
         LooseInv', StrictInv',
         Loose!EntryReads(event'), Strict!RecordReads(event')
  PROVE  Together'
<1> SUFFICES ASSUME grain' = "Ntry", looseResult' = "reading",
                    strictResult' = "reading"
             PROVE  Together'
  BY DEF Together
<1>1. /\ grain = "Ntry" /\ looseResult = "reading" /\ strictResult = "reading"
      /\ LooseReads /\ StrictReads /\ LooseReads' /\ StrictReads'
  BY DEF LooseInv, StrictInv, Strict!RecordReads, Strict!FileEnds,
         Strict!FileFails, Strict!RecordFails, Strict!RecordBreaks,
         Loose!EntryReads, Loose!DocumentEnds, Loose!WalkFails,
         Loose!EntryFails, Loose!EntryBreaks
<1>2. /\ strictSubtree # Null /\ strictSubtree.keep
           => looseSubtree = strictSubtree
      /\ looseSubtree # Null /\ Loose!Scoped
           => strictSubtree # Null /\ strictSubtree.keep
      /\ Active # 0 => SameOwn
  BY <1>1 DEF Together
<1>3. /\ strictSubtree' # Null /\ strictSubtree'.keep
           => looseSubtree' = strictSubtree'
      /\ looseSubtree' # Null /\ Loose!Scoped'
           => strictSubtree' # Null /\ strictSubtree'.keep
  BY <1>1, <1>2, SubtreesTogether
<1>4. Active' # 0 => SameOwn'
  <2>1. CASE event'.tag = "start"
    BY <1>1, <1>2, <2>1, OwnAtStart
  <2>2. CASE event'.tag \in {"end", "empty"}
    <3>1. DocumentInv'
      BY DocumentStep
    <3> QED
      BY <1>1, <1>2, <2>2, <3>1, OwnAtEnd
  <2>3. CASE event'.tag = "text"
    BY <1>1, <1>2, <2>3, OwnAtText
  <2>4. event'.tag # "eof"
    BY LooseMoves, LooseWire
    DEF Loose!EntryOpens, Loose!ElementOpens, Loose!ElementCloses,
        Loose!TextRead, Loose!Ignored, Loose!EntryGoesOn, Breaks
  <2> QED
    BY <2>1, <2>2, <2>3, <2>4, Events
<1>5. ScopedRow' <=> record' # Null
  BY <1>1, <1>2, RowsTogether
<1> QED
  BY <1>3, <1>4, <1>5 DEF Together

-----------------------------------------------------------------------------
(* The ends.                                                               *)

\* The walk of read_iso20022 ends where the document does, and for a cause.
LEMMA LooseEnds ==
  ASSUME DocumentInv, DocumentNext, LooseInv, Loose!EntryReads(event'),
         looseResult \in {"reading", "failed"}
  PROVE  /\ looseResult' \in {"reading", "ended", "failed"}
         /\ looseResult = "failed" => looseResult' = "failed"
         /\ looseResult' = "ended" =>
              /\ event'.tag = "eof" /\ opened' = <<>>
              /\ stated'.statements > 0
         /\ event'.tag = "eof" => looseResult' # "reading"
<1>1. CASE looseResult = "failed"
  BY <1>1 DEF Loose!EntryReads
<1>2. CASE looseResult = "reading"
  <2>1. LooseReads
    BY <1>2 DEF LooseInv
  <2>2. \/ looseResult' = "reading" \/ looseResult' = "failed"
        \/ looseSubtree = Null /\ Loose!DocumentEnds(event')
    BY <1>2
    DEF Loose!EntryReads, Loose!EntryOpens, Loose!ElementOpens,
        Loose!ElementCloses, Loose!TextRead, Loose!Ignored, Loose!WalkFails,
        Loose!EntryFails, Loose!EntryGoesOn, Loose!EntryBreaks
  <2>3. ASSUME looseSubtree = Null, Loose!DocumentEnds(event')
        PROVE  /\ looseResult' = "ended" /\ event'.tag = "eof"
               /\ opened' = <<>> /\ stated'.statements > 0
    <3>1. loosePath = <<>> /\ saw_container /\ event'.tag = "eof"
          /\ looseResult' = "ended"
      BY <2>3, LooseWire DEF Loose!DocumentEnds, CutShort
    <3>2. opened' = opened /\ stated' = stated
      BY <3>1, OnEof
    <3> QED
      BY <2>1, <2>3, <3>1, <3>2 DEF LooseReads, LoosePlace, LooseCounts
  <2>4. ASSUME event'.tag = "eof", looseResult' = "reading"
        PROVE  FALSE
    BY <2>4, LooseMoves, LooseWire
    DEF Loose!EntryOpens, Loose!ElementOpens, Loose!ElementCloses,
        Loose!TextRead, Loose!Ignored, Loose!EntryGoesOn, Breaks
  <2> QED
    BY <1>2, <2>2, <2>3, <2>4
<1> QED
  BY <1>1, <1>2

\* So does the strict walk.
LEMMA StrictEnds ==
  ASSUME DocumentInv, DocumentNext, StrictInv, Strict!RecordReads(event'),
         strictResult \in {"reading", "failed"}
  PROVE  /\ strictResult' \in {"reading", "ended", "failed"}
         /\ strictResult' = "ended" =>
              /\ event'.tag = "eof" /\ opened' = <<>>
              /\ stated'.statements > 0
         /\ event'.tag = "eof" => strictResult' # "reading"
<1>1. CASE strictResult = "failed"
  BY <1>1 DEF Strict!RecordReads
<1>2. CASE strictResult = "reading"
  <2>1. StrictReads
    BY <1>2 DEF StrictInv
  <2>2. \/ strictResult' = "reading" \/ strictResult' = "failed"
        \/ strictSubtree = Null /\ Strict!FileEnds(event')
    BY <1>2
    DEF Strict!RecordReads, Strict!RecordOpens, Strict!ElementStarts,
        Strict!EmptyRead, Strict!ElementEnds, Strict!TextCaptured,
        Strict!FileFails, Strict!RecordFails, Strict!RecordCloses,
        Strict!RecordGoesOn, Strict!RecordBreaks
  <2>3. ASSUME strictSubtree = Null, Strict!FileEnds(event')
        PROVE  /\ strictResult' = "ended" /\ event'.tag = "eof"
               /\ opened' = <<>> /\ stated'.statements > 0
    <3>1. strictPath = <<>> /\ saw_statement /\ event'.tag = "eof"
          /\ strictResult' = "ended"
      BY <2>3, StrictWire DEF Strict!FileEnds, CutShort
    <3>2. opened' = opened /\ stated' = stated
      BY <3>1, OnEof
    <3> QED
      BY <2>1, <2>3, <3>1, <3>2 DEF StrictReads, StrictPlace, StrictCounts
  <2>4. ASSUME event'.tag = "eof", strictResult' = "reading"
        PROVE  FALSE
    BY <2>4, StrictMoves, StrictWire
    DEF Strict!RecordOpens, Strict!ElementStarts, Strict!EmptyRead,
        Strict!ElementEnds, Strict!TextCaptured, Strict!RecordCloses,
        Strict!RecordGoesOn, Breaks
  <2> QED
    BY <1>2, <2>2, <2>3, <2>4
<1> QED
  BY <1>1, <1>2


\* What the strict walk refuses of a file it reads the entries of, the other
\* refuses too, at once or when the entry it records is over.
LEMMA FailsTogether ==
  ASSUME DocumentInv, DocumentNext, LooseInv, StrictInv, Together, LooseInv',
         Loose!EntryReads(event'), Strict!RecordReads(event'),
         looseResult \in {"reading", "failed"},
         strictResult \in {"reading", "failed"}, grain = "Ntry",
         strictResult = "failed" =>
           looseResult = "failed" \/ (looseSubtree # Null /\ ~looseSubtree.sound),
         strictResult' = "failed"
  PROVE  looseResult' = "failed" \/ (looseSubtree' # Null /\ ~looseSubtree'.sound)
<1> DEFINE e == event'
<1> SUFFICES ASSUME looseResult' # "failed"
             PROVE  looseSubtree' # Null /\ ~looseSubtree'.sound
  OBVIOUS
<1>1. /\ looseResult = "reading" /\ LooseReads
      /\ looseSubtree \in Subtrees \union {Null}
  BY LooseEnds DEF LooseInv, LooseReads, LooseType
<1>2. ASSUME looseSubtree # Null, Loose!EntryGoesOn(e),
             ~looseSubtree.sound \/ (e.tag = "text" /\ ~e.sound)
      PROVE  looseSubtree' # Null /\ ~looseSubtree'.sound
  <2>1. ~Closes(looseSubtree, e)
    BY <1>2, LooseWire DEF Loose!EntryGoesOn, Closes
  <2>2. looseSubtree' = Consume(looseSubtree, e) /\ looseResult' = "reading"
    BY <1>1, <1>2, <2>1, LooseWire DEF Loose!EntryGoesOn
  <2>3. looseSubtree.keep
    BY <1>1, <1>2 DEF LooseReads, LoosePlace
  <2>4. ~Consume(looseSubtree, e).sound
    BY Zenon, <1>1, <1>2, <2>3 DEF Consume, Subtrees
  <2>5. Consume(looseSubtree, e) # Null
    <3>1. looseSubtree' \in Subtrees \union {Null} /\ LoosePlace'
      BY <2>2 DEF LooseInv, LooseReads, LooseType
    <3>2. e.tag # "eof"
      BY <1>2, LooseWire DEF Loose!EntryGoesOn, Breaks
    <3>3. /\ looseSubtree \in Subtrees /\ loosePath \in Seq(Names(layout))
          /\ Spans(looseSubtree, loosePath, opened)
          /\ ScopeAt(opened, Container) /\ Container <= Len(loosePath)
      BY <1>1, <1>2 DEF LooseReads, LooseType, LoosePlace
    <3>4. Consume(looseSubtree, e) \in Subtrees
      BY <2>1, <3>2, <3>3, InsideRecord
    <3> QED
      BY <3>4, NullAssumption DEF NullAssumption
  <2> QED
    BY <2>2, <2>4, <2>5
<1>3. \/ looseSubtree = Null /\ looseResult' = "ended"
      \/ /\ looseSubtree = Null
         /\ \/ Loose!EntryOpens(e) \/ Loose!ElementOpens(e)
            \/ Loose!ElementCloses(e) \/ Loose!TextRead(e) \/ Loose!Ignored(e)
      \/ looseSubtree # Null /\ Loose!EntryGoesOn(e)
  BY <1>1
  DEF Loose!EntryReads, Loose!DocumentEnds, Loose!WalkFails, Loose!EntryFails,
      Loose!EntryBreaks
<1>4. ASSUME e.tag = "eof"
      PROVE  opened = <<>> /\ stated.statements > 0
  BY <1>1, <1>4, LooseEnds, OnEof
<1>5. CASE strictResult = "failed"
  <2>1. looseSubtree # Null /\ ~looseSubtree.sound
    BY <1>1, <1>5
  <2> QED
    BY <1>2, <1>3, <2>1
<1>6. CASE strictResult = "reading"
  <2>1. /\ StrictReads
        /\ \/ strictSubtree = Null /\ Strict!FileFails(e)
           \/ strictSubtree # Null /\ Strict!RecordBreaks(e)
    BY <1>6
    DEF StrictInv, Strict!RecordReads, Strict!RecordOpens,
        Strict!ElementStarts, Strict!EmptyRead, Strict!ElementEnds,
        Strict!TextCaptured, Strict!FileEnds, Strict!RecordCloses,
        Strict!RecordGoesOn
  <2>2. CASE strictSubtree = Null /\ Strict!FileFails(e)
    <3>1. strictPath = opened
          /\ (saw_statement <=> stated.statements > 0)
      BY <2>1, <2>2 DEF StrictReads, StrictPlace, StrictCounts
    <3>2. e.tag = "text" /\ ~e.sound
      BY <1>4, <2>2, <3>1, StrictWire DEF Strict!FileFails, CutShort
    <3>3. looseSubtree # Null /\ Loose!EntryGoesOn(e)
      <4>1. looseResult' # "ended"
        BY <1>1, <3>2, LooseEnds
      <4> QED
        BY <1>3, <3>2, <4>1
        DEF Loose!EntryOpens, Loose!ElementOpens, Loose!ElementCloses,
            Loose!TextRead, Loose!Ignored
    <3> QED
      BY <1>2, <3>2, <3>3
  <2>3. CASE strictSubtree # Null /\ Strict!RecordBreaks(e)
    <3>1. Breaks(strictSubtree, e)
          \/ (Closes(strictSubtree, e) /\ ~strictSubtree.sound)
      BY <2>3, StrictWire DEF Strict!RecordBreaks
    <3>2. CASE strictSubtree.keep
      <4>1. looseSubtree = strictSubtree
        BY <1>1, <1>6, <2>3, <3>2 DEF Together
      <4> QED
        BY <1>3, <2>3, <3>1, <4>1, LooseWire DEF Loose!EntryGoesOn
    <3>3. CASE ~strictSubtree.keep
      <4>1. strictSubtree.sound /\ Spans(strictSubtree, strictPath, opened)
            /\ strictPath \in Seq(Names(layout))
        BY <2>1, <2>3, <3>3 DEF StrictReads, StrictPlace, StrictType
      <4>2. e.tag = "eof"
        BY <3>1, <3>3, <4>1 DEF Breaks
      <4>3. opened = <<>>
        BY <1>4, <4>2
      <4> QED
        BY <4>1, <4>3 DEF Spans
    <3> QED
      BY <3>2, <3>3
  <2> QED
    BY <2>1, <2>2, <2>3
<1> QED
  BY <1>5, <1>6

-----------------------------------------------------------------------------
(* The invariant.                                                          *)

\* Before the first event nothing is open and nothing is known.
LEMMA Starts ==
  ASSUME Init
  PROVE  IInv
<1>1. /\ layout \in DOMAIN Layouts /\ opened = <<>>
      /\ event = Event("begin", "/")
      /\ stated = [headers |-> 0, statements |-> 0, entries |-> 0,
                   balances |-> 0]
      /\ loosePath = <<>> /\ msg_id = Null /\ account_iban = Null
      /\ statement_id = Null /\ saw_container = FALSE
      /\ container_kind = Null /\ container_depth = Null
      /\ looseIndex = 0 /\ entry_index = 0 /\ looseSubtree = Null
      /\ row = Null /\ looseResult = "reading"
      /\ grain \in {"Ntry", "Bal", "Statement"}
      /\ strictPath = <<>> /\ ctx = Strict!Nothing
      /\ statement_depth = Null /\ saw_statement = FALSE
      /\ strictIndex = 0 /\ record_index = 0 /\ strictSubtree = Null
      /\ record = Null /\ strictResult = "reading"
  BY DEF Init, DocumentInit, Loose!EntryInit, Strict!RecordInit
<1>2. event.tag = "begin"
  BY <1>1 DEF Event
<1>3. /\ opened \in Seq(Names(layout)) /\ Len(opened) = 0
      /\ Container = 0 /\ Active = 0
  BY <1>1 DEF Container, Active
<1>4. DocumentInv
  BY <1>1, <1>3 DEF DocumentInv
<1>5. ScopeAt(opened, 0)
  BY <1>3 DEF ScopeAt
<1>6. LooseReads
  BY <1>1, <1>3, <1>5
  DEF LooseReads, LooseType, LoosePlace, LooseCounts, LooseOwn, Values
<1>7. StrictReads
  <2>1. StrictType
    BY <1>1, <1>3, NothingIs DEF StrictType
  <2>2. StrictPlace
    BY <1>1, <1>3, <1>5 DEF StrictPlace
  <2>3. StrictCounts
    <3>1. /\ ctx.entry_count = 0 /\ ctx.balance_count = 0
          /\ ctx.statement_index = 0
      BY <1>1, NothingIs
    <3>2. Pending("Ntry") = 0 /\ Pending("Bal") = 0
      BY <1>1 DEF Pending
    <3>3. /\ stated.statements = 0 /\ stated.entries = 0
          /\ stated.balances = 0
      BY <1>1
    <3> QED
      BY <1>1, <3>1, <3>2, <3>3 DEF StrictCounts
  <2>4. StrictOwn
    BY <1>1, NothingIs DEF StrictOwn
  <2> QED
    BY <2>1, <2>2, <2>3, <2>4 DEF StrictReads
<1>8. LooseInv /\ StrictInv /\ RowInv /\ RecordInv
  BY <1>1, <1>6, <1>7 DEF LooseInv, StrictInv, RowInv, RecordInv
<1>9. Together
  BY <1>1, <1>3 DEF Together, ScopedRow
<1>10. Ends
  BY <1>1, <1>2 DEF Ends, EndsForCause
<1> QED
  BY <1>1, <1>4, <1>8, <1>9, <1>10 DEF IInv

\* An event of the file.
LEMMA Reads ==
  ASSUME IInv, Read
  PROVE  IInv'
<1>1. /\ DocumentNext /\ Loose!EntryReads(event')
      /\ Strict!RecordReads(event')
      /\ DocumentInv /\ LooseInv /\ RowInv /\ StrictInv /\ RecordInv
      /\ Together /\ Ends /\ grain \in {"Ntry", "Bal", "Statement"}
  BY DEF Read, IInv
<1>2. /\ looseResult \in {"reading", "failed"}
      /\ strictResult \in {"reading", "failed"}
      /\ grain' = grain
  BY <1>1, Events DEF Ends, Strict!RecordReads
<1>3. DocumentInv' /\ LooseInv' /\ RowInv' /\ StrictInv' /\ RecordInv'
  BY <1>1, DocumentStep, LooseStep, RowStep, StrictStep, RecordStep
<1>4. Together'
  BY <1>1, <1>3, TogetherStep
<1>5. /\ looseResult' \in {"reading", "ended", "failed"}
      /\ strictResult' \in {"reading", "ended", "failed"}
      /\ looseResult' = "ended" \/ strictResult' = "ended" =>
           /\ event'.tag = "eof" /\ opened' = <<>> /\ stated'.statements > 0
      /\ event'.tag = "eof" =>
           looseResult' # "reading" /\ strictResult' # "reading"
  BY <1>1, <1>2, LooseEnds, StrictEnds
<1>6. grain = "Ntry" /\ strictResult' = "failed" =>
        looseResult' = "failed" \/ (looseSubtree' # Null /\ ~looseSubtree'.sound)
  <2>1. grain = "Ntry" /\ strictResult = "failed" =>
          looseResult = "failed" \/ (looseSubtree # Null /\ ~looseSubtree.sound)
    BY <1>1 DEF Ends, EndsForCause
  <2> QED
    BY <1>1, <1>2, <1>3, <2>1, FailsTogether
<1>7. Ends'
  BY <1>2, <1>5, <1>6 DEF Ends, EndsForCause
<1> QED
  BY <1>1, <1>2, <1>3, <1>4, <1>7 DEF IInv

\* Nothing happens.
LEMMA Stays ==
  ASSUME IInv, UNCHANGED vars
  PROVE  IInv'
BY DEF vars, docVars, looseVars, strictVars, IInv, DocumentInv, LooseInv,
       LooseReads, LooseType, LoosePlace, LooseCounts, LooseOwn, Container,
       RowInv, Loose!EntryRow, Loose!Scoped, StrictInv, StrictReads,
       StrictType, StrictPlace, StrictCounts, StrictOwn, Active, Pending,
       Strict!AtRecord, Strict!IsRecord, Strict!Tag, Strict!StatementRows,
       RecordInv, Together, SameOwn, ScopedRow, Ends, EndsForCause

\* The invariant of the two walks.
THEOREM InvHolds == Spec => []IInv
<1>1. Init => IInv
  BY Starts
<1>2. IInv /\ [Next]_vars => IInv'
  BY Reads, Stays DEF Next, Over
<1> QED
  BY <1>1, <1>2, PTL DEF Spec


-----------------------------------------------------------------------------
(* What it comes to.                                                       *)

\* The keys of a row, and of a record, are its place in the document, and the
\* counts of a statement's row are what it holds (EntryStream::read_entry,
\* StatementRecordStream::next_record).
LEMMA Keys ==
  ASSUME IInv
  PROVE  KeysAreThePlace
<1>1. ASSUME row # Null
      PROVE  IF InStatement
             THEN row.statement_index = stated.statements
                  /\ row.entry_index = stated.entries
             ELSE row.statement_index = Null /\ row.entry_index = Null
  <2>1. LooseReads /\ looseSubtree = Null /\ row = Loose!EntryRow
    BY <1>1 DEF IInv, RowInv, LooseInv
  <2>2. /\ loosePath = opened /\ ScopeAt(opened, Container)
        /\ opened \in Seq(Names(layout))
        /\ container_depth \in Nat \union {Null}
        /\ looseIndex = stated.statements /\ entry_index = stated.entries
    BY <2>1
    DEF LooseReads, LooseType, LoosePlace, LooseCounts, IInv, DocumentInv
  <2>3. Scope = Container
    BY <2>2, ScopeIs
  <2>4. InStatement <=> Loose!Scoped
    BY <2>2, <2>3, NullAssumption
    DEF InStatement, Loose!Scoped, Container, NullAssumption
  <2> QED
    BY <2>1, <2>2, <2>4 DEF Loose!EntryRow
<1>2. ASSUME record # Null
      PROVE  /\ record.ctx.statement_index = stated.statements
             /\ record.index = CASE grain = "Ntry" -> stated.entries
                                 [] grain = "Bal"  -> stated.balances
                                 [] OTHER          -> stated.statements
             /\ grain = "Statement" =>
                  /\ record.ctx.entry_count = stated.entries
                  /\ record.ctx.balance_count = stated.balances
  <2>1. /\ StrictReads /\ strictSubtree = Null
        /\ record.index = IF grain = "Statement" THEN strictIndex
                          ELSE record_index
        /\ record.ctx = ctx /\ grain \in {"Ntry", "Bal", "Statement"}
    BY <1>2 DEF IInv, RecordInv, StrictInv, Strict!Handed
  <2>2. Pending("Ntry") = 0 /\ Pending("Bal") = 0
    BY <2>1 DEF Pending
  <2>3. record_index \in Nat
    BY <2>1 DEF StrictReads, StrictType
  <2> QED
    BY <2>1, <2>2, <2>3 DEF StrictReads, StrictCounts
<1> QED
  BY <1>1, <1>2 DEF KeysAreThePlace

\* The keys both walks hand out are places in the document.
THEOREM KeysHold == Spec => []KeysAreThePlace
BY InvHolds, Keys, PTL

\* A row, or a record, says nothing of another statement or header than its own
\* (EntryStream::capture, StatementRecordStream::capture).
LEMMA Owns ==
  ASSUME IInv
  PROVE  ContextIsTheirOwn
<1>1. ASSUME row # Null, NEW v \in {row.account_iban, row.statement_id}
      PROVE  v = Null \/ (Scope # 0 /\ v = stated.statements)
  <2>1. LooseReads /\ row = Loose!EntryRow
    BY <1>1 DEF IInv, RowInv, LooseInv
  <2>2. /\ ScopeAt(opened, Container) /\ opened \in Seq(Names(layout))
        /\ looseIndex = stated.statements
    BY <2>1 DEF LooseReads, LoosePlace, LooseCounts, IInv, DocumentInv
  <2>3. Scope = Container
    BY <2>2, ScopeIs
  <2>4. v \in {account_iban, statement_id}
    BY <1>1, <2>1 DEF Loose!EntryRow
  <2> QED
    BY <2>1, <2>2, <2>3, <2>4 DEF LooseReads, LooseOwn
<1>2. ASSUME record # Null
      PROVE  /\ \A f \in Strict!StatementFields :
                  record.ctx[f] \in {Null, record.ctx.statement_index}
             /\ \A f \in Strict!MessageFields :
                  record.ctx[f] \in {Null, stated.headers}
  <2>1. StrictReads /\ record.ctx = ctx
    BY <1>2 DEF IInv, RecordInv, StrictInv, Strict!Handed
  <2>2. ctx.statement_index = strictIndex
    BY <2>1 DEF StrictReads, StrictCounts
  <2> QED
    BY <2>1, <2>2 DEF StrictReads, StrictOwn
<1> QED
  BY <1>1, <1>2 DEF ContextIsTheirOwn

\* A context is never an earlier statement's, nor an earlier header's; of the message
\* id of read_iso20022 this says nothing.
THEOREM OwnHolds == Spec => []ContextIsTheirOwn
BY InvHolds, Owns, PTL

\* The two walks number an entry alike and place it in the same statement, so
\* that rows joined on the keys belong together (ADR 0004).
LEMMA Joins ==
  ASSUME IInv
  PROVE  JoinKeysAgree
<1> SUFFICES ASSUME grain = "Ntry", looseResult = "reading",
                    strictResult = "reading"
             PROVE  /\ ScopedRow <=> record # Null
                    /\ ScopedRow => /\ row.entry_index = record.index
                                    /\ SameStatement(row, record.ctx)
  BY DEF JoinKeysAgree
<1>1. DocumentInv /\ LooseReads /\ StrictReads /\ Together
  BY DEF IInv, LooseInv, StrictInv
<1>2. ScopedRow <=> record # Null
  BY <1>1 DEF Together
<1>3. ASSUME ScopedRow
      PROVE  row.entry_index = record.index /\ SameStatement(row, record.ctx)
  <2>1. /\ row # Null /\ row.entry_index # Null /\ record # Null
        /\ row = Loose!EntryRow
        /\ record.ctx = ctx
    BY <1>2, <1>3 DEF ScopedRow, IInv, RowInv, RecordInv, Strict!Handed
  <2>2. Loose!Scoped
    BY <1>1, <2>1, NotNull
  <2>3. /\ Container = Active /\ Active # 0
        /\ container_kind = opened[Container]
        /\ ctx.statement_kind = opened[Active]
    BY <1>1, <2>2, SamePlace DEF LooseReads, LoosePlace, StrictReads,
                                 StrictPlace
  <2>4. /\ row.statement_kind = container_kind
        /\ row.statement_id = statement_id /\ row.account_iban = account_iban
    BY <2>1, <2>2 DEF Loose!EntryRow
  <2>5. ctx.statement_id = statement_id /\ ctx.account_iban = account_iban
    BY <1>1, <2>3 DEF Together, SameOwn
  <2>6. /\ row.statement_index = record.ctx.statement_index
        /\ row.entry_index = record.index
    BY <2>1, Keys DEF KeysAreThePlace
  <2> QED
    BY <2>1, <2>3, <2>4, <2>5, <2>6 DEF SameStatement
<1> QED
  BY <1>2, <1>3

\* Rows joined on the keys belong to the same entry of the same statement.
THEOREM JoinKeysHold == Spec => []JoinKeysAgree
BY InvHolds, Joins, PTL

\* A scan ends without an error only at the end of a document with a statement
\* in it, every scan ends with the file, and read_iso20022 refuses what an entry
\* reader refuses (ADR 0003).
THEOREM EndsHold == Spec => []EndsForCause
BY InvHolds, PTL DEF IInv, Ends
=============================================================================
