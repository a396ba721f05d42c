---------------------------- MODULE OpeningProofs ----------------------------
(***************************************************************************)
(* What holds of a call for every set of names, every pattern, every disk  *)
(* and every function.                                                     *)
(***************************************************************************)
EXTENDS Opening, FoldLemmas

Paths == Range(Names)

\* Every name is nothing, or something with a content unless a folder.
DiskOk == DOMAIN disk = Paths /\ \A n \in Paths : IsEntry(disk[n])

-----------------------------------------------------------------------------
(* What a pattern matches.                                                 *)

\* A glob gives the names it matches, in their order.
LEMMA MatchesInOrder ==
  ASSUME NEW p
  PROVE  /\ Matches(p) \in Seq(Paths)
         /\ Range(Matches(p)) =
              {n \in Paths : Glob(p) # Null /\ n \in Glob(p) /\ Openable(n)}
         /\ InOrder(Matches(p), DOMAIN Names, Names)
<1> DEFINE n == Len(Names)
           Takes(m) == Glob(p) # Null /\ m \in Glob(p) /\ Openable(m)
           Is(g) == g = [s \in SUBSET (1 .. n) |->
                           IF s = {} THEN <<>>
                           ELSE IF Takes(Names[Max(s)])
                                THEN Append(g[s \ {Max(s)}], Names[Max(s)])
                                ELSE g[s \ {Max(s)}]]
           h == CHOOSE g : Is(g)
           G == [k \in 1 .. n |-> [v \in Seq(Paths) |->
                   IF Takes(Names[k]) THEN Append(v, Names[k]) ELSE v]]
<1>1. /\ n \in Nat /\ DOMAIN Names = 1 .. n
      /\ \A k \in 1 .. n : Names[k] \in Paths
  <2>1. Names \in Seq(STRING)
    BY OpeningAssumption DEF OpeningAssumption
  <2> QED
    BY <2>1 DEF Paths, Range
<1>0. <<>> \in Seq(Paths)
  OBVIOUS
<1>2. Matches(p) = h[1 .. n]
  BY <1>1 DEF Matches, FoldLeft, MapThenFoldSet
<1> HIDE DEF n, Takes
<1>3. G \in [1 .. n -> [Seq(Paths) -> Seq(Paths)]]
  BY <1>1
<1>4. \A k \in 1 .. n : \A v \in Seq(Paths) :
        G[k][v] = IF Takes(Names[k]) THEN Append(v, Names[k]) ELSE v
  OBVIOUS
<1> HIDE DEF G
<1>5. \E g : Is(g)
  <2>1. PICK g : IsFold(g, n, Seq(Paths), <<>>, G)
    BY <1>1, <1>3, <1>0, FoldExists
  <2>2. ASSUME NEW s \in SUBSET (1 .. n), s # {}
        PROVE  g[s] = IF Takes(Names[Max(s)])
                      THEN Append(g[s \ {Max(s)}], Names[Max(s)])
                      ELSE g[s \ {Max(s)}]
    <3>1. Max(s) \in 1 .. n /\ s \ {Max(s)} \in SUBSET (1 .. n)
      BY <1>1, <2>2, ShorterSets
    <3>3. g[s \ {Max(s)}] \in Seq(Paths)
      BY <2>1, <3>1 DEF IsFold
    <3>4. g[s] = G[Max(s)][g[s \ {Max(s)}]]
      BY <2>1, <2>2 DEF IsFold
    <3> QED
      BY <1>4, <3>1, <3>3, <3>4
  <2>3. Is(g)
    BY <2>1, <2>2 DEF IsFold
  <2> QED
    BY <2>3
<1>6. Is(h)
  BY <1>5
<1>7. h[{}] = <<>>
  <2> HIDE DEF h
  <2> QED
    BY <1>6
<1> DEFINE e == <<>>
           V == Seq(Paths)
<1>8. Unfolds(h, n, V, e, G)
  <2> HIDE DEF h
  <2> SUFFICES ASSUME NEW s \in SUBSET (1 .. n), s # {},
                      h[s \ {Max(s)}] \in Seq(Paths)
               PROVE  h[s] = G[Max(s)][h[s \ {Max(s)}]]
    BY <1>7 DEF Unfolds
  <2>2. Max(s) \in 1 .. n
    BY <1>1, ShorterSets
  <2>3. h[s] = IF Takes(Names[Max(s)])
               THEN Append(h[s \ {Max(s)}], Names[Max(s)])
               ELSE h[s \ {Max(s)}]
    BY <1>6
  <2> QED
    BY <1>4, <2>2, <2>3
<1> HIDE DEF h
<1>9. PICK r \in [0 .. n -> V] : RunsThrough(r, n, e, G) /\ r[n] = h[1 .. n]
  <2>1. n \in Nat /\ e \in V /\ G \in [1 .. n -> [V -> V]]
    BY <1>0, <1>1, <1>3
  <2> HIDE DEF V, e
  <2> QED
    BY <2>1, <1>8, FoldRuns
<1> DEFINE K == {k \in 1 .. n : Takes(Names[k])}
           f == [k \in 1 .. n |-> Names[k]]
<1>10. Picks(r, n, K, f)
  <2>1. r[0] = <<>> /\ \A k \in 1 .. n : r[k] = G[k][r[k - 1]]
    BY <1>9 DEF RunsThrough
  <2>2. ASSUME NEW k \in 1 .. n
        PROVE  r[k] = IF k \in K THEN Append(r[k - 1], f[k]) ELSE r[k - 1]
    <3>1. k - 1 \in 0 .. n
      BY <1>1
    <3>2. r[k - 1] \in Seq(Paths)
      BY <3>1
    <3> QED
      BY <1>4, <2>1, <3>2
  <2> QED
    BY <2>1, <2>2 DEF Picks
<1>11. K \in SUBSET (1 .. n) /\ f \in [1 .. n -> Paths]
  BY <1>1
<1>12. \A k \in 1 .. n : f[k] = Names[k]
  OBVIOUS
<1>13. K = {k \in 1 .. n : Takes(Names[k])}
  OBVIOUS
<1> HIDE DEF K, f
<1>14. Range(r[n]) = {f[k] : k \in K} /\ InOrder(r[n], K, f)
  BY <1>1, <1>10, <1>11, PickedInOrder
<1>15. Matches(p) = r[n] /\ r[n] \in Seq(Paths)
  BY <1>1, <1>2, <1>9
<1>16. {f[k] : k \in K} = {m \in Paths : Takes(m)}
  BY <1>1, <1>12, <1>13 DEF Paths, Range
<1>17. InOrder(r[n], DOMAIN Names, Names)
  <2> SUFFICES ASSUME NEW i \in DOMAIN r[n], NEW j \in DOMAIN r[n], i < j
               PROVE  \E a, b \in DOMAIN Names :
                        a < b /\ r[n][i] = Names[a] /\ r[n][j] = Names[b]
    BY DEF InOrder
  <2>1. PICK a \in K, b \in K : a < b /\ r[n][i] = f[a] /\ r[n][j] = f[b]
    BY <1>14 DEF InOrder
  <2>2. a \in 1 .. n /\ b \in 1 .. n
    BY <1>11
  <2> QED
    BY <1>1, <1>12, <2>1, <2>2
<1> QED
  BY <1>14, <1>15, <1>16, <1>17 DEF Takes

\* Elements of a set are elements of a larger one.
LEMMA SubSequences ==
  ASSUME NEW S, NEW T, S \subseteq T
  PROVE  Seq(S) \subseteq Seq(T)
<1> SUFFICES ASSUME NEW s \in Seq(S)
             PROVE  s \in Seq(T)
  OBVIOUS
<1>1. s \in [1 .. Len(s) -> S] /\ Len(s) \in Nat
  OBVIOUS
<1>2. s \in [1 .. Len(s) -> T]
  BY <1>1
<1> QED
  BY <1>1, <1>2

\* A sequence without an element is the empty one.
LEMMA NothingInRange ==
  ASSUME NEW S, NEW s \in Seq(S)
  PROVE  s = <<>> <=> Range(s) = {}
<1>1. DOMAIN s = 1 .. Len(s) /\ Len(s) \in Nat
  OBVIOUS
<1>2. CASE Len(s) = 0
  BY <1>1, <1>2 DEF Range
<1>3. CASE Len(s) # 0
  <2>1. 1 \in DOMAIN s
    BY <1>1, <1>3
  <2>2. s # <<>>
    BY <1>3
  <2> QED
    BY <2>1, <2>2 DEF Range
<1> QED
  BY <1>2, <1>3

\* What an argument is resolved to: what it reaches, each once, in the order of
\* the names; or nothing, if it reaches nothing, is a URI or a folder.
LEMMA FilesOfOne ==
  ASSUME NEW p \in STRING, DiskOk
  PROVE  /\ ResolveFiles(p) = Null <=>
              p \in Remote \/ Kind(p) = "folder" \/ Reached(p) = {}
         /\ ResolveFiles(p) # Null =>
              /\ ResolveFiles(p) \in Seq(Paths)
              /\ Range(ResolveFiles(p)) = Reached(p)
              /\ InOrder(ResolveFiles(p), DOMAIN Names, Names)
<1> DEFINE m == Matches(p)
           T == {n \in Paths : Glob(p) # Null /\ n \in Glob(p) /\ Openable(n)}
<1>1. /\ m \in Seq(Paths) /\ Range(m) = T
      /\ InOrder(m, DOMAIN Names, Names)
  BY MatchesInOrder
<1>2. Null \notin Seq(STRING) /\ Paths \subseteq STRING /\ <<p>> \in Seq(STRING)
  BY OpeningAssumption DEF OpeningAssumption, Paths, Range
<1>3. Seq(Paths) \subseteq Seq(STRING)
  BY <1>2, SubSequences
<1>4. Reached(p) = IF T # {} THEN T ELSE {n \in {p} : Openable(n)}
  BY DEF Reached, Paths
<1>5. m = <<>> <=> T = {}
  BY <1>1, NothingInRange
<1>6. Openable(p) => p \in Paths /\ Kind(p) # "folder"
  BY DEF Openable, Kind, Paths
<1>7. ResolveFiles(p) =
        CASE p \in Remote \/ Kind(p) = "folder" -> Null
          [] p \notin Remote /\ Kind(p) # "folder" /\ m # <<>> -> m
          [] p \notin Remote /\ m = <<>> /\ Openable(p) -> <<p>>
          [] OTHER -> Null
  BY DEF ResolveFiles
<1> HIDE DEF m, T
<1>8. CASE p \in Remote \/ Kind(p) = "folder"
  BY <1>7, <1>8, <1>6
<1>9. CASE p \notin Remote /\ Kind(p) # "folder" /\ m # <<>>
  <2>1. ResolveFiles(p) = m /\ m # Null
    BY <1>1, <1>2, <1>3, <1>7, <1>9
  <2>2. Reached(p) = T /\ T # {}
    BY <1>4, <1>5, <1>9
  <2> QED
    BY <1>1, <1>9, <2>1, <2>2
<1>10. CASE p \notin Remote /\ Kind(p) # "folder" /\ m = <<>> /\ Openable(p)
  <2>1. ResolveFiles(p) = <<p>> /\ <<p>> # Null
    BY <1>2, <1>7, <1>10
  <2>2. Reached(p) = {p}
    BY <1>4, <1>5, <1>10
  <2>3. <<p>> \in Seq(Paths) /\ Range(<<p>>) = {p}
    BY <1>6, <1>10 DEF Range
  <2>4. InOrder(<<p>>, DOMAIN Names, Names)
    BY DEF InOrder
  <2> QED
    BY <1>10, <2>1, <2>2, <2>3, <2>4
<1>11. CASE p \notin Remote /\ Kind(p) # "folder" /\ m = <<>> /\ ~Openable(p)
  <2>1. ResolveFiles(p) = Null
    BY <1>7, <1>11
  <2>2. Reached(p) = {}
    BY <1>4, <1>5, <1>11
  <2> QED
    BY <1>11, <2>1, <2>2
<1> QED
  BY <1>8, <1>9, <1>10, <1>11

-----------------------------------------------------------------------------
(* What the arguments of a call are resolved to.                           *)

\* The argument that reaches a name first, and the place of a name in a glob.
FirstArgument(args, n) == Min({i \in DOMAIN args : n \in Reached(args[i])})
Place(n) == CHOOSE k \in DOMAIN Names : Names[k] = n

Earlier(args, m, n) ==
  \/ FirstArgument(args, m) < FirstArgument(args, n)
  \/ FirstArgument(args, m) = FirstArgument(args, n) /\ Place(m) < Place(n)

InPlace(args, fs) == \A i, j \in DOMAIN fs : i < j => Earlier(args, fs[i], fs[j])

\* A name has one place.
LEMMA PlaceIs ==
  ASSUME NEW k \in DOMAIN Names
  PROVE  Place(Names[k]) = k
BY OpeningAssumption DEF OpeningAssumption, Place, IsInjective

\* The files of a call are those its arguments reach, each once, in the order of
\* the arguments and then of the names.
LEMMA FilesOfAll ==
  ASSUME NEW args \in Seq(STRING), DiskOk,
         \A i \in DOMAIN args : ResolveFiles(args[i]) # Null
  PROVE  /\ ResolvePaths(args) \in Seq(Paths) /\ IsInjective(ResolvePaths(args))
         /\ Range(ResolvePaths(args)) = UNION {Reached(args[i]) : i \in DOMAIN args}
         /\ InPlace(args, ResolvePaths(args))
<1> DEFINE ss == [i \in DOMAIN args |-> ResolveFiles(args[i])]
           w == FlattenSeq(ss)
           fs == ResolvePaths(args)
<1>1. DOMAIN args = 1 .. Len(args) /\ Len(args) \in Nat /\ DOMAIN ss = DOMAIN args
  OBVIOUS
<1>2. ASSUME NEW i \in DOMAIN args
      PROVE  /\ ss[i] \in Seq(Paths) /\ Range(ss[i]) = Reached(args[i])
             /\ InOrder(ss[i], DOMAIN Names, Names)
  <2>1. args[i] \in STRING /\ ResolveFiles(args[i]) # Null
    OBVIOUS
  <2> QED
    BY <2>1, FilesOfOne
<1> HIDE DEF ss
<1>3. ss \in Seq(Seq(Paths))
  <2>1. ss \in [1 .. Len(args) -> Seq(Paths)]
    BY <1>1, <1>2 DEF ss
  <2> QED
    BY <1>1, <2>1
<1>4. /\ w \in Seq(Paths)
      /\ \A p \in DOMAIN w :
           \E k \in DOMAIN ss : \E q \in DOMAIN ss[k] : StandsAt(w, ss, p, k, q)
      /\ \A k \in DOMAIN ss : \A q \in DOMAIN ss[k] : \E p \in DOMAIN w : w[p] = ss[k][q]
  BY <1>3, FlattenPlaces
<1>5. fs \in Seq(Paths) /\ IsOnce(fs, w)
  <2> HIDE DEF w
  <2>1. fs = FoldLeft(LAMBDA found, n : IF n \in Range(found) THEN found
                                        ELSE Append(found, n), <<>>, w)
    BY DEF ResolvePaths, w, ss
  <2> HIDE DEF fs
  <2> QED
    BY <1>4, <2>1, OnceFolded
<1> HIDE DEF w, fs
<1>6. Range(w) = UNION {Reached(args[i]) : i \in DOMAIN args}
  <2>1. ASSUME NEW y \in Range(w)
        PROVE  \E i \in DOMAIN args : y \in Reached(args[i])
    <3>1. PICK p \in DOMAIN w : y = w[p]
      BY DEF Range
    <3>2. PICK k \in DOMAIN ss : \E q \in DOMAIN ss[k] : w[p] = ss[k][q]
      BY <1>4 DEF StandsAt
    <3>3. y \in Range(ss[k])
      BY <3>1, <3>2 DEF Range
    <3> QED
      BY <1>1, <1>2, <3>3
  <2>2. ASSUME NEW i \in DOMAIN args, NEW y \in Reached(args[i])
        PROVE  y \in Range(w)
    <3>1. y \in Range(ss[i])
      BY <1>2
    <3>2. PICK q \in DOMAIN ss[i] : y = ss[i][q]
      BY <3>1 DEF Range
    <3>3. PICK p \in DOMAIN w : w[p] = ss[i][q]
      BY <1>1, <1>4
    <3> QED
      BY <3>2, <3>3 DEF Range
  <2> QED
    BY <2>1, <2>2
<1>7. Range(fs) = Range(w) /\ IsInjective(fs)
  BY <1>5 DEF IsOnce
<1>8. ASSUME NEW i \in DOMAIN fs, NEW j \in DOMAIN fs, i < j
      PROVE  Earlier(args, fs[i], fs[j])
  <2> DEFINE x == fs[i]
             y == fs[j]
             f == FirstArgument(args, y)
             g == FirstArgument(args, x)
  <2>1. PICK p \in DOMAIN w : w[p] = x /\ \A o \in 1 .. p : w[o] # y
    BY <1>5, <1>8 DEF IsOnce
  <2>2. PICK k \in DOMAIN ss : \E q \in DOMAIN ss[k] : StandsAt(w, ss, p, k, q)
    BY <1>4
  <2>3. PICK q \in DOMAIN ss[k] : StandsAt(w, ss, p, k, q)
    BY <2>2
  <2>4. y \in Range(w)
    BY <1>7 DEF Range
  <2> HIDE DEF x, y
  <2>5. x = ss[k][q] /\ x \in Reached(args[k])
    <3>1. x = ss[k][q]
      BY <2>1, <2>3 DEF StandsAt
    <3> QED
      BY <1>1, <1>2, <3>1 DEF Range
  <2>6. f \in DOMAIN args /\ y \in Reached(args[f])
    <3> DEFINE s == {a \in DOMAIN args : y \in Reached(args[a])}
    <3>1. s \subseteq Nat /\ s # {}
      BY <1>1, <1>6, <2>4
    <3> HIDE DEF s
    <3>2. Min(s) \in s
      BY <3>1, MinIn
    <3>3. f = Min(s)
      BY DEF s, FirstArgument
    <3> QED
      BY <3>2, <3>3 DEF s
  <2>7. g \in Nat /\ g <= k
    <3> DEFINE s == {a \in DOMAIN args : x \in Reached(args[a])}
    <3>1. s \subseteq Nat /\ k \in s
      BY <1>1, <2>5
    <3> HIDE DEF s
    <3>2. Min(s) \in s /\ Min(s) <= k
      BY <3>1, MinIn
    <3>3. g = Min(s)
      BY DEF s, FirstArgument
    <3> QED
      BY <3>1, <3>2, <3>3
  <2>8. Earlier(args, x, y) <=> (g < f \/ (g = f /\ Place(x) < Place(y)))
    BY DEF Earlier
  <2> HIDE DEF f, g
  <2>9. PICK b \in DOMAIN ss[f] : y = ss[f][b]
    BY <1>2, <2>6 DEF Range
  <2>10. f \in Nat /\ k \in Nat /\ f \in 1 .. Len(args) /\ k \in 1 .. Len(args)
    BY <1>1, <2>6
  <2>11. /\ DOMAIN ss[k] = 1 .. Len(ss[k]) /\ Len(ss[k]) \in Nat
         /\ DOMAIN ss[f] = 1 .. Len(ss[f]) /\ Len(ss[f]) \in Nat
    BY <1>1, <1>2, <2>6
  <2>12. k < f \/ (k = f /\ q < b)
    <3> SUFFICES ASSUME ~(k < f), ~(k = f /\ q < b)
                 PROVE  FALSE
      OBVIOUS
    <3>1. f \in 1 .. k /\ (f < k \/ b <= q)
      BY <2>10, <2>11
    <3>2. \E o \in 1 .. p : w[o] = ss[f][b]
      BY <2>3, <3>1 DEF StandsAt
    <3> QED
      BY <2>1, <2>9, <3>2
  <2>13. CASE k < f
    BY <2>7, <2>8, <2>10, <2>13 DEF x, y
  <2>14. CASE k = f /\ q < b
    <3>1. InOrder(ss[k], DOMAIN Names, Names)
      BY <1>1, <1>2
    <3>2. PICK m \in DOMAIN Names, n \in DOMAIN Names :
            m < n /\ ss[k][q] = Names[m] /\ ss[k][b] = Names[n]
      BY <2>14, <3>1 DEF InOrder
    <3>3. Place(x) = m /\ Place(y) = n
      BY <2>5, <2>9, <2>14, <3>2, PlaceIs
    <3>4. g < f \/ g = f
      BY <2>7, <2>10, <2>14
    <3> QED
      BY <2>8, <3>2, <3>3, <3>4 DEF x, y
  <2> QED
    BY <2>12, <2>13, <2>14
<1> QED
  BY <1>5, <1>6, <1>7, <1>8 DEF fs, InPlace

-----------------------------------------------------------------------------
(* The invariant: types.                                                   *)

Known(c) == c \in Contents /\ NamedForItsForm(c)

Typed ==
  /\ DiskOk
  /\ call.args \in Seq(STRING)
  /\ pc \in {"bind", "open", "guard", "read", "locate", "hint", "over"}
  /\ files \in Seq(Paths) /\ IsInjective(files)
  /\ at \in 1 .. Len(files) + 1
  /\ opens \in [Paths -> Nat]
  /\ pc \in {"guard", "read", "locate", "hint"} => at \in DOMAIN files
  /\ pc = "bind" => files = <<>>

\* The content at hand is that of the file at hand.
Holding == pc \in {"guard", "read"} => source = disk[File].content /\ Known(source)

\* A file that goes away leaves the others, and what it held, as they were.
LEMMA VanishKeeps ==
  ASSUME DiskOk, Vanish
  PROVE  /\ DiskOk'
         /\ \A n \in Paths :
              /\ disk'[n].content = disk[n].content
              /\ disk'[n].kind \in {disk[n].kind, "none"}
              /\ disk[n].kind # "file" => disk'[n].kind = disk[n].kind
<1>1. PICK m \in Paths : /\ Kind(m) = "file"
                         /\ disk' = [disk EXCEPT ![m].kind = "none"]
  BY DEF Vanish, Paths
<1>2. DOMAIN disk = Paths /\ \A n \in Paths : IsEntry(disk[n])
  BY DEF DiskOk
<1>3. DOMAIN disk' = Paths /\ \A n \in Paths : n # m => disk'[n] = disk[n]
  BY <1>1, <1>2
<1>4. disk'[m] = [disk[m] EXCEPT !.kind = "none"]
  BY <1>1, <1>2
<1>5. DOMAIN disk[m] = {"kind", "content", "movable"} /\ disk[m].movable \in BOOLEAN
  BY <1>2 DEF IsEntry
<1>6. /\ DOMAIN disk'[m] = {"kind", "content", "movable"}
      /\ disk'[m].kind = "none" /\ disk'[m].content = disk[m].content
      /\ disk'[m].movable = disk[m].movable
  BY <1>4, <1>5
<1>7. disk[m].kind = "file"
  BY <1>1 DEF Kind, Paths
<1>8. \A n \in Paths : IsEntry(disk'[n])
  <2> TAKE n \in Paths
  <2>1. CASE n = m
    BY <1>5, <1>6, <2>1 DEF IsEntry
  <2>2. CASE n # m
    BY <1>2, <1>3, <2>2
  <2> QED
    BY <2>1, <2>2
<1>9. DiskOk'
  BY <1>3, <1>8 DEF DiskOk, Paths
<1> QED
  BY <1>3, <1>6, <1>7, <1>9

\* What can be opened is a name with a content.
LEMMA OpenableIs ==
  ASSUME DiskOk, NEW n, Openable(n)
  PROVE  n \in Paths /\ Known(disk[n].content) /\ disk[n].kind \in {"file", "pipe"}
BY DEF Openable, Kind, DiskOk, IsEntry, Known, Paths

\* What is listed is in the order of the rows.
Matching(reader) == {i \in DOMAIN rows : rows[i].row.reader = reader /\ ~rows[i].row.error}

\* What the caller lists is what the sniffer named for the reader, without error.
LEMMA ListedIs ==
  ASSUME NEW reader, NEW S, rows \in Seq(S), \A r \in S : r.file \in Paths
  PROVE  /\ Listed(reader) \in Seq(Paths)
         /\ Range(Listed(reader)) = {rows[i].file : i \in Matching(reader)}
<1> DEFINE n == Len(rows)
           Takes(r) == r.row.reader = reader /\ ~r.row.error
           Is(g) == g = [t \in SUBSET (1 .. n) |->
                           IF t = {} THEN <<>>
                           ELSE IF Takes(rows[Max(t)])
                                THEN Append(g[t \ {Max(t)}], rows[Max(t)].file)
                                ELSE g[t \ {Max(t)}]]
           h == CHOOSE g : Is(g)
           V == Seq(Paths)
           e == <<>>
           G == [k \in 1 .. n |-> [v \in V |->
                   IF Takes(rows[k]) THEN Append(v, rows[k].file) ELSE v]]
<1>1. /\ n \in Nat /\ DOMAIN rows = 1 .. n
      /\ \A k \in 1 .. n : rows[k].file \in Paths
  OBVIOUS
<1>2. Listed(reader) = h[1 .. n]
  BY <1>1 DEF Listed, FoldLeft, MapThenFoldSet
<1> HIDE DEF n, Takes
<1>3. e \in V /\ G \in [1 .. n -> [V -> V]]
  BY <1>1
<1>4. \A k \in 1 .. n : \A v \in V :
        G[k][v] = IF Takes(rows[k]) THEN Append(v, rows[k].file) ELSE v
  OBVIOUS
<1> HIDE DEF G
<1>5. \E g : Is(g)
  <2>1. PICK g : IsFold(g, n, V, e, G)
    BY <1>1, <1>3, FoldExists
  <2>2. ASSUME NEW t \in SUBSET (1 .. n), t # {}
        PROVE  g[t] = IF Takes(rows[Max(t)])
                      THEN Append(g[t \ {Max(t)}], rows[Max(t)].file)
                      ELSE g[t \ {Max(t)}]
    <3>1. Max(t) \in 1 .. n /\ t \ {Max(t)} \in SUBSET (1 .. n)
      BY <1>1, <2>2, ShorterSets
    <3>2. g[t \ {Max(t)}] \in V
      BY <2>1, <3>1 DEF IsFold
    <3>3. g[t] = G[Max(t)][g[t \ {Max(t)}]]
      BY <2>1, <2>2 DEF IsFold
    <3> QED
      BY <1>4, <3>1, <3>2, <3>3
  <2>3. Is(g)
    BY <2>1, <2>2 DEF IsFold
  <2> QED
    BY <2>3
<1>6. Is(h)
  BY <1>5
<1>7. h[{}] = e
  <2> HIDE DEF h
  <2> QED
    BY <1>6
<1>8. Unfolds(h, n, V, e, G)
  <2> HIDE DEF h
  <2> SUFFICES ASSUME NEW t \in SUBSET (1 .. n), t # {}, h[t \ {Max(t)}] \in V
               PROVE  h[t] = G[Max(t)][h[t \ {Max(t)}]]
    BY <1>7 DEF Unfolds
  <2>1. Max(t) \in 1 .. n
    BY <1>1, ShorterSets
  <2>2. h[t] = IF Takes(rows[Max(t)])
               THEN Append(h[t \ {Max(t)}], rows[Max(t)].file)
               ELSE h[t \ {Max(t)}]
    BY <1>6
  <2> QED
    BY <1>4, <2>1, <2>2
<1> HIDE DEF h
<1>9. PICK r \in [0 .. n -> V] : RunsThrough(r, n, e, G) /\ r[n] = h[1 .. n]
  <2>1. n \in Nat /\ e \in V /\ G \in [1 .. n -> [V -> V]]
    BY <1>1, <1>3
  <2> HIDE DEF V, e
  <2> QED
    BY <2>1, <1>8, FoldRuns
<1> DEFINE K == {k \in 1 .. n : Takes(rows[k])}
           f == [k \in 1 .. n |-> rows[k].file]
<1>10. Picks(r, n, K, f)
  <2>1. r[0] = <<>> /\ \A k \in 1 .. n : r[k] = G[k][r[k - 1]]
    BY <1>9 DEF RunsThrough
  <2>2. ASSUME NEW k \in 1 .. n
        PROVE  r[k] = IF k \in K THEN Append(r[k - 1], f[k]) ELSE r[k - 1]
    <3>1. k - 1 \in 0 .. n
      BY <1>1
    <3>2. r[k - 1] \in V
      BY <3>1
    <3> QED
      BY <1>4, <2>1, <3>2
  <2> QED
    BY <2>1, <2>2 DEF Picks
<1>11. K \in SUBSET (1 .. n) /\ f \in [1 .. n -> Paths]
  BY <1>1
<1>12. \A k \in 1 .. n : f[k] = rows[k].file
  OBVIOUS
<1>13. K = Matching(reader)
  BY <1>1 DEF Matching, Takes
<1> HIDE DEF K, f
<1>14. Range(r[n]) = {f[k] : k \in K}
  BY <1>1, <1>10, <1>11, PickedInOrder
<1>15. Listed(reader) = r[n] /\ r[n] \in Seq(Paths)
  BY <1>1, <1>2, <1>9
<1>16. {f[k] : k \in K} = {rows[k].file : k \in K}
  BY <1>11, <1>12
<1> QED
  BY <1>13, <1>14, <1>15, <1>16

-----------------------------------------------------------------------------
(* The invariant: what a call says.                                        *)

\* The row of a file whose content it is that was read.
RowFor(n) ==
  [file |-> n,
   row |-> IF call.fname = "sniff_iso20022" THEN SniffRow(disk[n].content) ELSE Null]

\* One row for each file that was read, in their order.
Rowed ==
  /\ rows = [i \in 1 .. at - 1 |-> RowFor(files[i])]
  /\ \A i \in 1 .. at - 1 : Known(disk[files[i]].content)

\* A pipe was opened once at the most, and then it was to be read.
OpenedOnce ==
  \A n \in Paths :
    Kind(n) = "pipe" =>
      /\ opens[n] <= 1
      /\ opens[n] # 0 =>
           \E k \in DOMAIN files :
             files[k] = n /\ (k < at \/ (k = at /\ pc # "open"))

IsRightHint(hint, fname, c) ==
  /\ Guard(hint, c) = Null
  /\ NameOf(c) \in c.messages => IsFor(hint, c)
  /\ ForOneReader(c) => ~IsFor(fname, c)

\* What an error says beside its cause is right about the file it is about.
Ended ==
  /\ pc \notin {"locate", "hint", "over"} => outcome = Null
  /\ pc \in {"locate", "hint", "over"} =>
       /\ DOMAIN outcome = {"cause", "file", "hint", "undeclared"}
       /\ pc # "over" => outcome.file = File /\ outcome.hint = Null
       /\ outcome.hint # Null =>
            /\ outcome.file \in Paths
            /\ IsRightHint(outcome.hint, call.fname, disk[outcome.file].content)
       /\ outcome.undeclared =>
            outcome.file \in Paths /\ ~disk[outcome.file].content.declares

\* The sniffer ends at its last file, or at one that it cannot open.
SniffedWhole ==
  call.fname = "sniff_iso20022" =>
    /\ pc # "locate"
    /\ pc \in {"hint", "over"} => outcome.cause \in {"none", "bind", "open"}
    /\ pc = "hint" => outcome.cause = "open"
    /\ pc = "over" /\ outcome.cause = "none" => at = Len(files) + 1

\* A content that the sniffer names a reader for, without an error.
IsListed(fname, c) ==
  Known(c) /\ ~SniffRow(c).error /\ SniffRow(c).reader = fname /\ fname # Null

\* What the caller lists are files of the function it calls.
FromListed ==
  inbox =>
    /\ call.args # <<>>
    /\ \A p \in Range(call.args) : p \in Paths /\ IsListed(call.fname, disk[p].content)

IsPlain(p) == Glob(p) \in {Null, {p}}

\* As long as all of them are there, none is refused, and one that fails does so
\* for what the sniffer does not look at.
InboxRead ==
  inbox /\ (\A p \in Range(call.args) : Openable(p) /\ IsPlain(p)) =>
    /\ Range(files) \subseteq Range(call.args)
    /\ pc \in {"locate", "hint", "over"} =>
         \/ outcome.cause = "none"
         \/ /\ outcome.file \in Paths
            /\ Unforeseen(call.fname, outcome.cause, disk[outcome.file].content)

Inv ==
  /\ Typed /\ Holding /\ Rowed /\ OpenedOnce
  /\ Ended /\ SniffedWhole /\ FromListed /\ InboxRead

-----------------------------------------------------------------------------
(* The invariant holds at first, and every step keeps it.                  *)

\* A call starts with nothing read, opened or said.
LEMMA Begins == Init => Inv
<1> SUFFICES ASSUME Init
             PROVE  Inv
  OBVIOUS
<1>1. PICK s \in Sessions : Started(s.disk, s.call)
  BY DEF Init
<1>2. /\ disk = s.disk /\ call = s.call /\ pc = "bind" /\ files = <<>> /\ at = 1
      /\ rows = <<>> /\ outcome = Null /\ inbox = FALSE
      /\ opens = [n \in Paths |-> 0]
  BY <1>1 DEF Init, Started, Paths
<1>3. /\ DOMAIN s.disk = Paths /\ \A n \in Paths : IsEntry(s.disk[n])
      /\ s.call \in [fname : STRING, args : Seq(STRING)]
  BY OpeningAssumption DEF OpeningAssumption, Paths
<1>4. Typed
  <2>1. files \in Seq(Paths) /\ IsInjective(files) /\ at \in 1 .. Len(files) + 1
    BY <1>2 DEF IsInjective
  <2>2. opens \in [Paths -> Nat] /\ call.args \in Seq(STRING)
    BY <1>2, <1>3
  <2> QED
    BY <1>2, <1>3, <2>1, <2>2 DEF Typed, DiskOk
<1>5. Rowed
  <2>1. 1 .. at - 1 = {}
    BY <1>2
  <2> QED
    BY <1>2, <2>1 DEF Rowed
<1>6. Holding /\ OpenedOnce /\ Ended /\ SniffedWhole /\ FromListed /\ InboxRead
  BY <1>2 DEF Holding, OpenedOnce, Ended, SniffedWhole, FromListed, InboxRead
<1> QED
  BY <1>4, <1>5, <1>6 DEF Inv

\* What the rows are is a sequence, one for each file that was read.
LEMMA RowsAre ==
  ASSUME Typed, Rowed
  PROVE  /\ rows \in Seq({RowFor(n) : n \in Paths})
         /\ Len(rows) = at - 1 /\ DOMAIN rows = 1 .. at - 1
         /\ \A i \in 1 .. at - 1 : i \in DOMAIN files /\ files[i] \in Paths
<1>1. /\ DOMAIN files = 1 .. Len(files) /\ Len(files) \in Nat
      /\ \A i \in DOMAIN files : files[i] \in Paths
  BY DEF Typed
<1>2. at \in 1 .. Len(files) + 1
  BY DEF Typed
<1>3. \A i \in 1 .. at - 1 : i \in DOMAIN files /\ files[i] \in Paths
  BY <1>1, <1>2
<1>4. at - 1 \in Nat
  BY <1>1, <1>2
<1>5. rows \in [1 .. at - 1 -> {RowFor(n) : n \in Paths}]
  BY <1>3 DEF Rowed
<1> QED
  BY <1>3, <1>4, <1>5

\* A file that a call is at is a name.
LEMMA FileIs ==
  ASSUME Typed, at <= Len(files)
  PROVE  at \in DOMAIN files /\ File \in Paths
BY DEF Typed, File

\* An open counts for one name.
LEMMA OpenedCounts ==
  ASSUME opens \in [Paths -> Nat], NEW n \in Paths
  PROVE  /\ Opened(n) \in [Paths -> Nat] /\ Opened(n)[n] = opens[n] + 1
         /\ \A m \in Paths : m # n => Opened(n)[m] = opens[m]
BY DEF Opened

\* The files of a call are names, each once, and it is at one of them or done.
LEMMA TypedKept ==
  ASSUME Inv, [Next]_vars
  PROVE  Typed'
<1>1. /\ Typed /\ Rowed /\ DiskOk /\ call.args \in Seq(STRING)
      /\ files \in Seq(Paths) /\ at \in 1 .. Len(files) + 1 /\ opens \in [Paths -> Nat]
      /\ Len(files) \in Nat
  BY DEF Inv, Typed
<1>2. ASSUME UNCHANGED <<disk, call, files, at>>, opens' \in [Paths -> Nat],
             pc' \in {"bind", "open", "guard", "read", "locate", "hint", "over"},
             pc' \in {"guard", "read", "locate", "hint"} => at \in DOMAIN files,
             pc' = "bind" => pc = "bind"
      PROVE  Typed'
  BY <1>1, <1>2 DEF Typed, DiskOk
<1>3. CASE BindFails
  BY <1>1, <1>2, <1>3 DEF BindFails
<1>4. CASE Bind
  <2>1. /\ \A i \in DOMAIN call.args : ResolveFiles(call.args[i]) # Null
        /\ files' = ResolvePaths(call.args) /\ pc = "bind" /\ pc' = "open"
        /\ UNCHANGED <<disk, call, at, opens>>
    BY <1>4 DEF Bind
  <2>2. files' \in Seq(Paths) /\ IsInjective(files')
    BY <1>1, <2>1, FilesOfAll
  <2>3. at = 1
    BY <1>1, <2>1 DEF Typed
  <2>4. at \in 1 .. Len(files') + 1
    BY <2>2, <2>3
  <2> QED
    BY <1>1, <2>1, <2>2, <2>4 DEF Typed, DiskOk
<1>5. CASE OpenSource
  <2>1. at \in DOMAIN files /\ File \in Paths
    BY <1>1, <1>5, FileIs DEF OpenSource
  <2>2. Opened(File) \in [Paths -> Nat]
    BY <1>1, <2>1, OpenedCounts
  <2> QED
    BY <1>1, <1>2, <1>5, <2>1, <2>2 DEF OpenSource, Fails
<1>6. CASE GuardPasses \/ GuardRefuses \/ ReadFails
  <2>1. at \in DOMAIN files
    BY <1>1, <1>6 DEF GuardPasses, GuardRefuses, ReadFails, Typed
  <2> QED
    BY <1>1, <1>2, <1>6, <2>1 DEF GuardPasses, GuardRefuses, ReadFails, Fails
<1>7. CASE NextRow
  <2>1. at \in DOMAIN files
    BY <1>1, <1>7 DEF NextRow, Typed
  <2>2. at + 1 \in 1 .. Len(files) + 1
    BY <1>1, <2>1
  <2> QED
    BY <1>1, <1>7, <2>2 DEF NextRow, Typed, DiskOk
<1>8. CASE Located \/ ScanError
  <2>0. at \in DOMAIN files
    BY <1>1, <1>8 DEF Located, ScanError, Typed
  <2>1. at \in DOMAIN files /\ File \in Paths
    BY <1>1, <2>0 DEF File
  <2>2. Opened(File) \in [Paths -> Nat]
    BY <1>1, <2>1, OpenedCounts
  <2>3. opens' \in {opens, Opened(File)}
    BY <1>8 DEF Located, ScanError
  <2>4. opens' \in [Paths -> Nat]
    BY <1>1, <2>2, <2>3
  <2> QED
    BY <1>1, <1>2, <1>8, <2>1, <2>4 DEF Located, ScanError
<1>9. CASE AllRead
  BY <1>1, <1>2, <1>9 DEF AllRead
<1>10. CASE Vanish
  BY <1>1, <1>10, VanishKeeps DEF Vanish, Typed
<1>11. CASE Recipe
  <2>1. PICK reader : call' = [fname |-> reader, args |-> Listed(reader)]
    BY <1>11 DEF Recipe
  <2>2. /\ files' = <<>> /\ at' = 1 /\ pc' = "bind" /\ disk' = disk
        /\ opens' = [n \in Paths |-> 0]
    BY <1>11 DEF Recipe, Paths
  <2>3. rows \in Seq({RowFor(n) : n \in Paths})
    BY <1>1, RowsAre
  <2>4. \A r \in {RowFor(n) : n \in Paths} : r.file \in Paths
    BY DEF RowFor
  <2>5. Listed(reader) \in Seq(Paths)
    BY <2>3, <2>4, ListedIs
  <2>6. Paths \subseteq STRING
    BY OpeningAssumption DEF OpeningAssumption, Paths, Range
  <2>7. Listed(reader) \in Seq(STRING)
    BY <2>5, <2>6, SubSequences
  <2>8. files' \in Seq(Paths) /\ IsInjective(files') /\ at' \in 1 .. Len(files') + 1
    BY <2>2 DEF IsInjective
  <2> QED
    BY <1>1, <2>1, <2>2, <2>7, <2>8 DEF Typed, DiskOk
<1>12. CASE UNCHANGED vars
  BY <1>1, <1>2, <1>12 DEF vars, Typed
<1> QED
  BY <1>3, <1>4, <1>5, <1>6, <1>7, <1>8, <1>9, <1>10, <1>11, <1>12 DEF Next, Over

\* No step changes what a name holds, and only a file can go away.
LEMMA DiskStays ==
  ASSUME Typed, [Next]_vars
  PROVE  \A n \in Paths :
           /\ disk'[n].content = disk[n].content
           /\ disk'[n].kind \in {disk[n].kind, "none"}
           /\ disk[n].kind # "file" => disk'[n].kind = disk[n].kind
<1>1. CASE Vanish
  BY <1>1, VanishKeeps DEF Typed
<1>2. CASE UNCHANGED disk
  BY <1>2
<1> QED
  BY <1>1, <1>2 DEF Next, BindFails, Bind, OpenSource, GuardPasses, GuardRefuses,
     NextRow, ReadFails, Located, ScanError, AllRead, Recipe, Over, Fails, vars

\* What is read is what the file at hand held when it was opened, and still holds.
LEMMA HoldingKept ==
  ASSUME Inv, [Next]_vars
  PROVE  Holding'
<1>1. Typed /\ DiskOk /\ Holding
  BY DEF Inv, Typed
<1>2. ASSUME pc' \notin {"guard", "read"}
      PROVE  Holding'
  BY <1>2 DEF Holding
<1>3. CASE OpenSource
  <2>1. CASE Openable(File)
    <3>1. Known(disk[File].content)
      BY <1>1, <2>1, OpenableIs
    <3>2. source' = disk[File].content /\ UNCHANGED <<disk, files, at>>
      BY <1>3, <2>1 DEF OpenSource
    <3> QED
      BY <3>1, <3>2 DEF Holding, File, Known
  <2>2. CASE ~Openable(File)
    BY <1>2, <1>3, <2>2 DEF OpenSource, Fails
  <2> QED
    BY <2>1, <2>2
<1>4. CASE GuardPasses
  BY <1>1, <1>4 DEF GuardPasses, Holding, File, Known
<1>5. CASE Vanish
  <2>1. UNCHANGED <<pc, files, at, source>>
    BY <1>5 DEF Vanish
  <2>2. pc \in {"guard", "read"} => File \in Paths
    BY <1>1 DEF Typed, File
  <2>3. \A n \in Paths : disk'[n].content = disk[n].content
    BY <1>1, DiskStays
  <2> QED
    BY <1>1, <2>1, <2>2, <2>3 DEF Holding, File, Known
<1>6. CASE UNCHANGED vars
  BY <1>1, <1>6 DEF vars, Holding, File, Known
<1>7. CASE \/ BindFails \/ Bind \/ GuardRefuses \/ NextRow \/ ReadFails
           \/ Located \/ ScanError \/ AllRead \/ Recipe
  BY <1>2, <1>7 DEF BindFails, Bind, GuardRefuses, NextRow, ReadFails, Located,
     ScanError, AllRead, Recipe, Fails
<1> QED
  BY <1>3, <1>4, <1>5, <1>6, <1>7 DEF Next, Over

\* A row is added for the file at hand, and those before it stay.
LEMMA RowedKept ==
  ASSUME Inv, [Next]_vars
  PROVE  Rowed'
<1>1. Typed /\ Rowed /\ Holding
  BY DEF Inv
<1>2. /\ at \in Nat /\ at >= 1
      /\ \A i \in 1 .. at - 1 : files[i] \in Paths
      /\ DOMAIN rows = 1 .. at - 1 /\ Len(rows) = at - 1
      /\ rows \in Seq({RowFor(n) : n \in Paths})
  <2>1. at \in 1 .. Len(files) + 1 /\ Len(files) \in Nat
    BY <1>1 DEF Typed
  <2> QED
    BY <1>1, <2>1, RowsAre
<1>3. ASSUME UNCHANGED <<call, files, at, rows>>
      PROVE  Rowed'
  <2>1. \A n \in Paths : disk'[n].content = disk[n].content
    BY <1>1, DiskStays
  <2>2. \A n \in Paths : RowFor(n)' = RowFor(n)
    BY <1>3, <2>1 DEF RowFor
  <2>3. rows' = [i \in 1 .. at - 1 |-> RowFor(files[i])']
    BY <1>1, <1>2, <1>3, <2>2 DEF Rowed
  <2> QED
    BY <1>1, <1>2, <1>3, <2>1, <2>3 DEF Rowed, Known
<1>4. CASE Bind \/ Recipe
  <2>1. at' = 1 /\ rows' = <<>>
    <3>1. CASE Recipe
      BY <3>1 DEF Recipe
    <3>2. CASE Bind
      <4>1. at = 1
        BY <1>1, <3>2 DEF Bind, Typed
      <4>2. rows = <<>>
        BY <1>2, <4>1
      <4> QED
        BY <3>2, <4>1, <4>2 DEF Bind
    <3> QED
      BY <1>4, <3>1, <3>2
  <2>2. 1 .. at' - 1 = {}
    BY <2>1
  <2> QED
    BY <2>1, <2>2 DEF Rowed
<1>5. CASE NextRow
  <2>1. /\ rows' = Append(rows, RowFor(File)) /\ at' = at + 1
        /\ UNCHANGED <<disk, call, files>> /\ Known(disk[File].content)
    BY <1>1, <1>5 DEF NextRow, Holding, RowFor
  <2>2. \A n : RowFor(n)' = RowFor(n)
    BY <2>1 DEF RowFor
  <2>3. /\ DOMAIN rows' = 1 .. at' - 1 /\ rows'[at] = RowFor(files[at])
        /\ \A i \in 1 .. at - 1 : rows'[i] = rows[i]
    BY <1>2, <2>1 DEF File
  <2>4. \A i \in 1 .. at - 1 : rows[i] = RowFor(files[i])
    BY <1>1 DEF Rowed
  <2>5. \A i \in 1 .. at' - 1 : i \in 1 .. at - 1 \/ i = at
    BY <1>2, <2>1
  <2>6. \A i \in 1 .. at' - 1 : rows'[i] = RowFor(files[i])'
    BY <2>2, <2>3, <2>4, <2>5, <2>1
  <2>7. rows' \in Seq({RowFor(n) : n \in Paths} \cup {RowFor(File)})
    BY <1>2, <2>1
  <2>8. rows' = [i \in 1 .. at' - 1 |-> rows'[i]]
    BY <2>3, <2>7
  <2>9. \A i \in 1 .. at' - 1 : Known(disk'[files'[i]].content)
    BY <1>1, <2>1, <2>5 DEF Rowed, File
  <2> QED
    BY <2>1, <2>6, <2>8, <2>9 DEF Rowed, Known
<1>6. CASE (Next /\ ~Bind /\ ~Recipe /\ ~NextRow) \/ UNCHANGED vars
  BY <1>3, <1>6 DEF Next, BindFails, OpenSource, GuardPasses, GuardRefuses,
     ReadFails, Located, ScanError, AllRead, Vanish, Over, Fails, vars
<1> QED
  BY <1>4, <1>5, <1>6

\* A pipe that is opened is the file at hand, which no earlier file is.
LEMMA OpenedOnceKept ==
  ASSUME Inv, [Next]_vars
  PROVE  OpenedOnce'
<1>1. /\ Typed /\ OpenedOnce /\ at \in Nat
      /\ DOMAIN files = 1 .. Len(files) /\ Len(files) \in Nat
      /\ opens \in [Paths -> Nat]
  BY DEF Inv, Typed
<1> DEFINE Counted(k, n) == files[k] = n /\ (k < at \/ (k = at /\ pc # "open"))
<1> SUFFICES ASSUME NEW n \in Paths, Kind(n)' = "pipe"
             PROVE  /\ opens'[n] <= 1
                    /\ opens'[n] # 0 => \E k \in DOMAIN files' : Counted(k, n)'
  BY DEF OpenedOnce
<1>2. Kind(n) = "pipe"
  BY <1>1, DiskStays DEF Kind, Paths
<1>3. /\ opens[n] \in Nat /\ opens[n] <= 1
      /\ opens[n] # 0 => \E k \in DOMAIN files : Counted(k, n)
  BY <1>1, <1>2 DEF OpenedOnce
<1> DEFINE Kept == files' = files /\ at' \in Nat /\ \A k \in DOMAIN files :
                     Counted(k, n) => k < at' \/ (k = at' /\ pc' # "open")
<1>4. ASSUME Kept, opens'[n] = opens[n]
      PROVE  /\ opens'[n] <= 1
             /\ opens'[n] # 0 => \E k \in DOMAIN files' : Counted(k, n)'
  BY <1>3, <1>4
<1>5. CASE OpenSource
  <2>1. at \in DOMAIN files /\ File \in Paths /\ pc = "open"
    BY <1>1, <1>5, FileIs DEF OpenSource
  <2>2. Kept
    BY <1>1, <1>5, <2>1 DEF OpenSource, Fails
  <2>3. CASE Openable(File) /\ n = File
    <3>1. \A k \in DOMAIN files : files[k] = files[at] => k = at
      BY <1>1, <2>1 DEF Typed, IsInjective
    <3>2. opens[n] = 0
      BY <1>1, <1>3, <2>1, <2>3, <3>1 DEF File
    <3>3. /\ opens' = Opened(File) /\ pc' = "guard" /\ at' = at /\ files' = files
      BY <1>5, <2>3 DEF OpenSource
    <3>4. opens'[n] = 1
      BY <1>1, <2>1, <2>3, <3>2, <3>3, OpenedCounts
    <3>5. Counted(at, n)'
      BY <2>3, <3>3 DEF File
    <3> QED
      BY <2>1, <3>3, <3>4, <3>5
  <2>4. CASE ~(Openable(File) /\ n = File)
    <3>1. opens' = opens \/ (opens' = Opened(File) /\ n # File)
      BY <1>5, <2>4 DEF OpenSource
    <3>2. opens'[n] = opens[n]
      BY <1>1, <2>1, <3>1, OpenedCounts
    <3> QED
      BY <1>4, <2>2, <3>2
  <2> QED
    BY <2>3, <2>4
<1>6. CASE Located \/ ScanError
  <2>0. at \in DOMAIN files
    BY <1>1, <1>6 DEF Located, ScanError, Typed
  <2>1. File \in Paths
    BY <1>1, <2>0 DEF File, Typed
  <2>2. Kept
    BY <1>1, <1>6 DEF Located, ScanError
  <2>3. opens' = opens \/ (opens' = Opened(File) /\ Kind(File) = "file")
    BY <1>6 DEF Located, ScanError, IsRegular
  <2>4. opens'[n] = opens[n]
    BY <1>1, <1>2, <2>1, <2>3, OpenedCounts
  <2> QED
    BY <1>4, <2>2, <2>4
<1>7. CASE Recipe
  BY <1>7 DEF Recipe, Paths
<1>8. CASE Bind
  <2>1. opens' = opens /\ files = <<>>
    BY <1>1, <1>8 DEF Bind, Typed
  <2>2. opens[n] = 0
    BY <1>1, <1>3, <2>1
  <2> QED
    BY <2>1, <2>2
<1>9. CASE NextRow
  <2>1. Kept /\ opens' = opens
    BY <1>1, <1>9 DEF NextRow
  <2> QED
    BY <1>4, <2>1
<1>10. CASE BindFails \/ AllRead \/ GuardPasses \/ GuardRefuses \/ ReadFails
  <2>1. Kept /\ opens' = opens
    BY <1>1, <1>10 DEF BindFails, AllRead, GuardPasses, GuardRefuses, ReadFails, Fails
  <2> QED
    BY <1>4, <2>1
<1>11. CASE Vanish \/ UNCHANGED vars
  <2>1. Kept /\ opens' = opens
    BY <1>1, <1>11 DEF Vanish, vars
  <2> QED
    BY <1>4, <2>1
<1> QED
  BY <1>5, <1>6, <1>7, <1>8, <1>9, <1>10, <1>11 DEF Next, Over

\* The readers there are, none of which is the sniffer, the audit or a detail reader.
Readers == {"iso20022"} \cup Families \cup MtRead

\* What a reader is named for is never what another function is called.
LEMMA ReadersAre ==
  /\ \A r \in Readers :
       r \notin {"sniff_iso20022", "audit_addresses", "camt_balances", "camt_transactions"}
  /\ Families \cap MtRead = {} /\ "iso20022" \notin MtRead
BY SMTT(60) DEF Readers, Families, Announced, MtRead

\* A named reader is one of them: of MT for what names a statement of MT alone.
LEMMA ReaderIs ==
  ASSUME NEW f, ReaderOf(f) # Null
  PROVE  /\ ReaderOf(f) \in Readers
         /\ f \in MtRead => ReaderOf(f) \in MtRead
         /\ f \in Families => ReaderOf(f) \notin MtRead
<1>0. StatementMessages \cap MtRead = {}
  BY DEF StatementMessages, MtRead
<1>1. f \in StatementMessages => ReaderOf(f) = "iso20022"
  BY <1>0 DEF ReaderOf
<1>2. f \notin StatementMessages => f \in Families \cup MtRead /\ ReaderOf(f) = f
  BY DEF ReaderOf
<1> QED
  BY <1>0, <1>1, <1>2, ReadersAre DEF Readers

\* A reader is given whatever the sniffer can name for it.
LEMMA GuardLets ==
  ASSUME NEW r \in Readers, NEW c, c.harm # "encoding", ShapeOf(c.head) = c.form,
         c.form = "XML" \/ (c.form = "MT" /\ r \in MtRead)
  PROVE  Guard(r, c) = Null
<1>1. r # "sniff_iso20022" /\ r # "audit_addresses"
  BY ReadersAre
<1>2. Guard(r, c) = Unless(Admits(r), c.form)
  BY <1>1 DEF Guard
<1>3. c.form \in Admits(r)
  BY <1>1 DEF Admits
<1> QED
  BY <1>2, <1>3 DEF Unless

\* What the sniffer names is in the format that it is named for.
LEMMA SniffedIs ==
  ASSUME NEW c, Known(c), NEW whole \in BOOLEAN, SniffedFamily(c, whole) # Null,
         ReaderOf(SniffedFamily(c, whole)) # Null
  PROVE  /\ SniffedFamily(c, whole) = Some(c.family, IF whole THEN c.late ELSE Null)
         /\ c.harm # "encoding" /\ ShapeOf(c.head) = c.form
         /\ ReaderOf(SniffedFamily(c, whole)) \in Readers
         /\ \/ c.form = "XML"
            \/ c.form = "MT" /\ ReaderOf(SniffedFamily(c, whole)) \in MtRead
<1> DEFINE f == SniffedFamily(c, whole)
<1>1. /\ c.harm # "encoding" /\ ShapeOf(c.head) = c.form /\ c.form \in {"MT", "XML"}
      /\ f = Some(c.family, IF whole THEN c.late ELSE Null)
  BY DEF SniffedFamily
<1>2. c.form = "MT" => f \in MtRead
  BY <1>1 DEF Some, Known, NamedForItsForm
<1> HIDE DEF f
<1>3. ReaderOf(f) \in Readers /\ (f \in MtRead => ReaderOf(f) \in MtRead)
  BY ReaderIs DEF f
<1> QED
  BY <1>1, <1>2, <1>3 DEF f

\* A hint is right about what it is a hint for.
LEMMA HintIs ==
  ASSUME NEW fname, NEW c, Known(c), Hint(fname, SniffedFamily(c, FALSE)) # Null
  PROVE  IsRightHint(Hint(fname, SniffedFamily(c, FALSE)), fname, c)
<1> DEFINE f == SniffedFamily(c, FALSE)
           r == ReaderOf(f)
<1>1. f # Null /\ r # Null /\ Hint(fname, f) = r /\ IsWrongReader(fname, r)
  BY DEF Hint
<1>2. /\ f = Some(c.family, Null) /\ c.harm # "encoding" /\ ShapeOf(c.head) = c.form
      /\ r \in Readers /\ (c.form = "XML" \/ (c.form = "MT" /\ r \in MtRead))
  BY <1>1, SniffedIs
<1> HIDE DEF r
<1>3. Guard(r, c) = Null
  BY <1>2, GuardLets
<1>4. NameOf(c) = f
  BY <1>1, <1>2 DEF Some, NameOf
<1>5. r # "audit_addresses" /\ r \notin CamtDetails
  BY <1>2, ReadersAre DEF CamtDetails
<1> HIDE DEF f
<1>6. NameOf(c) \in c.messages => IsFor(r, c)
  BY <1>4, <1>5 DEF IsFor, ReaderFor, r
<1>7. ForOneReader(c) => ~IsFor(fname, c)
  BY <1>1, <1>4 DEF IsFor, ForOneReader, IsWrongReader, CanHint, r
<1> QED
  BY <1>1, <1>3, <1>6, <1>7 DEF IsRightHint, f

\* What the sniffer lists for a reader is let through, and read but for what the
\* sniffer does not look at.
LEMMA ListedIsRead ==
  ASSUME NEW fname, NEW c, IsListed(fname, c)
  PROVE  /\ fname # "sniff_iso20022" /\ Guard(fname, c) = Null
         /\ \A cause \in ReadErrors(fname, c) : Unforeseen(fname, cause, c)
<1> DEFINE f == SniffedFamily(c, TRUE)
<1>1. /\ Known(c) /\ c.harm = Null /\ f # Null /\ fname = ReaderOf(f) /\ fname # Null
  BY DEF IsListed, SniffRow, RowOf
<1>2. /\ f = NameOf(c) /\ c.harm # "encoding" /\ ShapeOf(c.head) = c.form
      /\ fname \in Readers /\ (c.form = "XML" \/ (c.form = "MT" /\ fname \in MtRead))
  BY <1>1, SniffedIs DEF NameOf
<1>3. Guard(fname, c) = Null
  BY <1>2, GuardLets
<1>4. /\ fname # "audit_addresses" /\ fname \notin CamtDetails
      /\ fname # "sniff_iso20022"
  BY <1>2, ReadersAre DEF CamtDetails
<1> HIDE DEF f
<1>5. NameOf(c) \in c.messages => IsFor(fname, c)
  BY <1>1, <1>2, <1>4 DEF IsFor, ReaderFor
<1>6. \A cause \in ReadErrors(fname, c) :
        \/ cause = "value" /\ fname \in c.bad
        \/ cause = "no message" /\ ~IsFor(fname, c)
  BY <1>1 DEF ReadErrors
<1> QED
  BY <1>3, <1>4, <1>5, <1>6 DEF Unforeseen

\* What an error says stays right: no step changes what a name holds.
LEMMA EndedKept ==
  ASSUME Inv, [Next]_vars
  PROVE  Ended'
<1>1. /\ Typed /\ Ended /\ Holding
      /\ \A n \in Paths : disk'[n].content = disk[n].content
  BY DiskStays DEF Inv
<1>2. ASSUME NEW cause, NEW f, outcome' = Ends(cause, f),
             pc' = "over" \/ (pc' \in {"locate", "hint"} /\ f = File')
      PROVE  Ended'
  BY <1>2 DEF Ended, Ends
<1>3. ASSUME outcome' = Null, pc' \notin {"locate", "hint", "over"}
      PROVE  Ended'
  BY <1>3 DEF Ended
<1>4. CASE BindFails \/ AllRead
  BY <1>2, <1>4 DEF BindFails, AllRead
<1>5. CASE Bind \/ GuardPasses \/ NextRow
  BY <1>1, <1>3, <1>5 DEF Bind, GuardPasses, NextRow, Ended
<1>6. CASE OpenSource
  BY <1>1, <1>2, <1>3, <1>6 DEF OpenSource, Fails, Ended, File
<1>7. CASE GuardRefuses \/ ReadFails
  BY <1>1, <1>2, <1>7 DEF GuardRefuses, ReadFails, Fails, File
<1>8. CASE Recipe
  BY <1>3, <1>8 DEF Recipe
<1>9. CASE Located
  <2>1. /\ DOMAIN outcome = {"cause", "file", "hint", "undeclared"}
        /\ outcome.file = File /\ outcome.hint = Null
        /\ UNCHANGED <<disk, call, files, at>> /\ pc' = "hint"
    BY <1>1, <1>9 DEF Located, Ended
  <2>2. CASE outcome.cause = "utf8" /\ IsRegular(File)
    <3>1. outcome' = [outcome EXCEPT !.undeclared = ~disk[File].content.declares]
      BY <1>9, <2>2 DEF Located
    <3>2. /\ DOMAIN outcome' = {"cause", "file", "hint", "undeclared"}
          /\ outcome'.file = File /\ outcome'.hint = Null
          /\ outcome'.undeclared = ~disk[File].content.declares
      BY <2>1, <3>1
    <3>3. File \in Paths
      BY <2>2 DEF IsRegular, Kind, Paths
    <3> QED
      BY <2>1, <3>2, <3>3 DEF Ended, File
  <2>3. CASE ~(outcome.cause = "utf8" /\ IsRegular(File))
    <3>1. outcome' = outcome
      BY <1>9, <2>3 DEF Located
    <3>2. outcome.undeclared =>
            outcome.file \in Paths /\ ~disk[outcome.file].content.declares
      BY <1>1, <1>9 DEF Located, Ended
    <3> QED
      BY <2>1, <3>1, <3>2 DEF Ended, File
  <2> QED
    BY <2>2, <2>3
<1>10. CASE ScanError
  <2> DEFINE h == Hint(call.fname, SniffedFamily(disk[File].content, FALSE))
  <2>1. /\ DOMAIN outcome = {"cause", "file", "hint", "undeclared"}
        /\ outcome.file = File /\ outcome.hint = Null
        /\ outcome.undeclared =>
             outcome.file \in Paths /\ ~disk[outcome.file].content.declares
        /\ UNCHANGED <<disk, call>> /\ pc' = "over"
    BY <1>1, <1>10 DEF ScanError, Ended
  <2>2. CASE CanHint(call.fname) /\ IsRegular(File)
    <3>1. outcome' = [outcome EXCEPT !.hint = h]
      BY <1>10, <2>2 DEF ScanError
    <3>2. Openable(File)
      BY <2>2 DEF IsRegular, Openable
    <3>3. File \in Paths /\ Known(disk[File].content)
      BY <1>1, <3>2, OpenableIs DEF Typed
    <3>4. h # Null => IsRightHint(h, call.fname, disk[File].content)
      BY <3>3, HintIs
    <3> HIDE DEF h
    <3>5. /\ DOMAIN outcome' = {"cause", "file", "hint", "undeclared"}
          /\ outcome'.file = File /\ outcome'.hint = h
          /\ outcome'.undeclared = outcome.undeclared
      BY <2>1, <3>1
    <3> QED
      BY <2>1, <3>3, <3>4, <3>5 DEF Ended, IsRightHint
  <2>3. CASE ~(CanHint(call.fname) /\ IsRegular(File))
    <3>1. outcome' = outcome
      BY <1>10, <2>3 DEF ScanError
    <3> QED
      BY <2>1, <3>1 DEF Ended
  <2> QED
    BY <2>2, <2>3
<1>11. CASE Vanish \/ UNCHANGED vars
  <2>1. UNCHANGED <<call, pc, files, at, outcome>>
    BY <1>11 DEF Vanish, vars
  <2> QED
    BY <1>1, <2>1 DEF Ended, File, IsRightHint
<1> QED
  BY <1>4, <1>5, <1>6, <1>7, <1>8, <1>9, <1>10, <1>11 DEF Next, Over

\* No guard and no reader ends a call of the sniffer.
LEMMA SniffedWholeKept ==
  ASSUME Inv, [Next]_vars
  PROVE  SniffedWhole'
<1>1. /\ SniffedWhole /\ Ended /\ at \in 1 .. Len(files) + 1 /\ Len(files) \in Nat
  BY DEF Inv, Typed
<1>2. CASE BindFails \/ Bind \/ GuardPasses \/ NextRow \/ Recipe
  BY <1>2 DEF BindFails, Bind, GuardPasses, NextRow, Recipe, SniffedWhole, Ends
<1>3. CASE OpenSource
  BY <1>3 DEF OpenSource, SniffedWhole, Fails, Ends
<1>4. CASE GuardRefuses
  <2>1. call.fname # "sniff_iso20022" /\ call' = call
    BY <1>4 DEF GuardRefuses, Guard, Fails
  <2> QED
    BY <2>1 DEF SniffedWhole
<1>5. CASE ReadFails \/ Located
  <2>1. call.fname # "sniff_iso20022" /\ call' = call
    BY <1>1, <1>5 DEF ReadFails, Located, SniffedWhole, Fails
  <2> QED
    BY <2>1 DEF SniffedWhole
<1>6. CASE ScanError
  <2>1. CASE call.fname = "sniff_iso20022"
    <3>1. outcome' = outcome /\ outcome.cause = "open" /\ pc' = "over"
      BY <1>1, <1>6, <2>1 DEF ScanError, CanHint, SniffedWhole
    <3> QED
      BY <3>1 DEF SniffedWhole
  <2>2. CASE call.fname # "sniff_iso20022"
    BY <1>6, <2>2 DEF ScanError, SniffedWhole
  <2> QED
    BY <2>1, <2>2
<1>7. CASE AllRead
  <2>1. at = Len(files) + 1
    BY <1>1, <1>7 DEF AllRead
  <2> QED
    BY <1>7, <2>1 DEF AllRead, SniffedWhole, Ends
<1>8. CASE Vanish \/ UNCHANGED vars
  BY <1>1, <1>8 DEF Vanish, vars, SniffedWhole
<1> QED
  BY <1>2, <1>3, <1>4, <1>5, <1>6, <1>7, <1>8 DEF Next, Over

\* What the recipe hands on are names the sniffer gave a row without an error.
LEMMA FromListedKept ==
  ASSUME Inv, [Next]_vars
  PROVE  FromListed'
<1>1. /\ Typed /\ Rowed /\ FromListed
      /\ \A n \in Paths : disk'[n].content = disk[n].content
  BY DiskStays DEF Inv
<1>2. CASE UNCHANGED <<call, inbox>>
  BY <1>1, <1>2 DEF FromListed, IsListed
<1>3. CASE Recipe
  <2>1. PICK reader \in {rows[i].row.reader : i \in DOMAIN rows} \ {Null} :
          /\ Listed(reader) # <<>>
          /\ call' = [fname |-> reader, args |-> Listed(reader)]
    BY <1>3 DEF Recipe
  <2>2. call.fname = "sniff_iso20022" /\ disk' = disk
    BY <1>3 DEF Recipe
  <2>3. /\ rows \in Seq({RowFor(n) : n \in Paths}) /\ DOMAIN rows = 1 .. at - 1
        /\ \A i \in 1 .. at - 1 : files[i] \in Paths
    BY <1>1, RowsAre
  <2>4. \A r \in {RowFor(n) : n \in Paths} : r.file \in Paths
    BY DEF RowFor
  <2>5. Range(Listed(reader)) = {rows[i].file : i \in Matching(reader)}
    BY <2>3, <2>4, ListedIs
  <2>6. ASSUME NEW i \in Matching(reader)
        PROVE  rows[i].file \in Paths /\ IsListed(reader, disk[rows[i].file].content)
    <3>1. i \in 1 .. at - 1 /\ rows[i].row.reader = reader /\ ~rows[i].row.error
      BY <2>3 DEF Matching
    <3>2. rows[i] = RowFor(files[i]) /\ Known(disk[files[i]].content)
      BY <1>1, <3>1 DEF Rowed
    <3>3. rows[i].file = files[i] /\ rows[i].row = SniffRow(disk[files[i]].content)
      BY <2>2, <3>2 DEF RowFor
    <3> QED
      BY <2>1, <2>3, <3>1, <3>2, <3>3 DEF IsListed
  <2>7. call'.args = Listed(reader) /\ call'.fname = reader
    BY <2>1
  <2>8. ASSUME NEW p \in Range(call'.args)
        PROVE  p \in Paths /\ IsListed(call'.fname, disk'[p].content)
    <3>1. PICK i \in Matching(reader) : p = rows[i].file
      BY <2>5, <2>7
    <3> QED
      BY <2>2, <2>6, <2>7, <3>1
  <2> QED
    BY <2>1, <2>7, <2>8 DEF FromListed, IsListed
<1> QED
  BY <1>2, <1>3 DEF Next, BindFails, Bind, OpenSource, GuardPasses, GuardRefuses,
     NextRow, ReadFails, Located, ScanError, AllRead, Vanish, Over, Fails, vars

\* A name that is no pattern for another is read for itself.
LEMMA PlainIs ==
  ASSUME NEW p \in Paths, DiskOk, Openable(p), IsPlain(p)
  PROVE  /\ Reached(p) = {p} /\ p \notin NoPaths /\ ResolveFiles(p) # Null
<1>1. p \notin NoPaths /\ p \notin Remote /\ p \in STRING
  BY OpeningAssumption DEF OpeningAssumption, Paths, Range
<1>2. Reached(p) = {p}
  BY DEF Reached, IsPlain, Paths
<1>3. Kind(p) # "folder"
  BY DEF Openable
<1> QED
  BY <1>1, <1>2, <1>3, FilesOfOne

\* A listed file that is still there is bound for itself, let through, and read.
LEMMA InboxReadKept ==
  ASSUME Inv, [Next]_vars
  PROVE  InboxRead'
<1>1. CASE Recipe
  BY <1>1 DEF Recipe, InboxRead, Range
<1>2. CASE ~Recipe
  <2>1. call' = call /\ inbox' = inbox
    BY <1>2 DEF Next, BindFails, Bind, OpenSource, GuardPasses, GuardRefuses,
       NextRow, ReadFails, Located, ScanError, AllRead, Vanish, Over, Fails, vars
  <2> DEFINE Excused ==
               pc \in {"locate", "hint", "over"} =>
                 \/ outcome.cause = "none"
                 \/ /\ outcome.file \in Paths
                    /\ Unforeseen(call.fname, outcome.cause, disk[outcome.file].content)
  <2> SUFFICES ASSUME inbox, \A p \in Range(call.args) : Openable(p)' /\ IsPlain(p)
               PROVE  Range(files') \subseteq Range(call.args) /\ Excused'
    BY <2>1 DEF InboxRead, IsPlain
  <2>2. Typed /\ DiskOk /\ Holding /\ FromListed /\ InboxRead /\ Ended
    BY DEF Inv, Typed
  <2>3. \A n : Openable(n)' => Openable(n)
    BY <2>2, DiskStays DEF Openable, Kind, Paths
  <2>4. \A p \in Range(call.args) : Openable(p) /\ IsPlain(p)
    BY <2>3
  <2>5. Range(files) \subseteq Range(call.args) /\ Excused
    BY <2>2, <2>4 DEF InboxRead
  <2>18. ASSUME UNCHANGED outcome, pc' = pc \/ pc' \notin {"locate", "hint", "over"}
         PROVE  Excused'
    <3>1. \A n \in Paths : disk'[n].content = disk[n].content
      BY DiskStays DEF Inv
    <3> QED
      BY <2>1, <2>5, <2>18, <3>1 DEF Unforeseen, NameOf
  <2>6. /\ call.args # <<>>
        /\ \A p \in Range(call.args) :
             p \in Paths /\ IsListed(call.fname, disk[p].content)
    BY <2>2 DEF FromListed
  <2>7. /\ call.args \in Seq(STRING)
        /\ \A p \in Range(call.args) :
             Reached(p) = {p} /\ p \notin NoPaths /\ ResolveFiles(p) # Null
    BY <2>2, <2>4, <2>6, PlainIs DEF Typed
  <2>8. \A i \in DOMAIN call.args : call.args[i] \in Range(call.args)
    BY DEF Range
  <2>9. at \in DOMAIN files => File \in Range(call.args)
    BY <2>5 DEF Range, File
  <2>10. CASE BindFails
    <3>1. ~PathsAreRefused(call.args)
      BY <2>6, <2>7 DEF PathsAreRefused
    <3>2. \A i \in DOMAIN call.args : ResolveFiles(call.args[i]) # Null
      BY <2>7, <2>8
    <3> QED
      BY <2>10, <3>1, <3>2 DEF BindFails
  <2>11. CASE Bind
    <3>1. /\ \A i \in DOMAIN call.args : ResolveFiles(call.args[i]) # Null
          /\ files' = ResolvePaths(call.args) /\ pc' = "open"
      BY <2>11 DEF Bind
    <3>2. Range(files') = UNION {Reached(call.args[i]) : i \in DOMAIN call.args}
      BY <2>2, <2>7, <3>1, FilesOfAll
    <3>3. Range(files') \subseteq Range(call.args)
      BY <2>7, <2>8, <3>2
    <3>4. outcome' = outcome /\ pc' = "open"
      BY <2>11 DEF Bind
    <3> QED
      BY <2>18, <3>3, <3>4
  <2>12. CASE OpenSource
    <3>1. at \in DOMAIN files
      BY <2>2, <2>12, FileIs DEF OpenSource
    <3>2. Openable(File)
      BY <2>4, <2>9, <3>1
    <3>3. UNCHANGED <<files, outcome>> /\ pc' = "guard"
      BY <2>12, <3>2 DEF OpenSource
    <3> QED
      BY <2>5, <2>18, <3>3
  <2>13. CASE GuardRefuses \/ ReadFails
    <3>1. at \in DOMAIN files /\ source = disk[File].content
      BY <2>2, <2>13 DEF GuardRefuses, ReadFails, Typed, Holding
    <3>2. IsListed(call.fname, source)
      BY <2>6, <2>9, <3>1
    <3>3. /\ Guard(call.fname, source) = Null
          /\ \A cause \in ReadErrors(call.fname, source) :
               Unforeseen(call.fname, cause, source)
      BY <3>2, ListedIsRead
    <3>4. PICK cause \in ReadErrors(call.fname, source) : Fails(cause, "locate")
      BY <2>13, <3>3 DEF GuardRefuses, ReadFails
    <3>5. /\ outcome'.cause = cause /\ outcome'.file = File
          /\ UNCHANGED <<disk, files>>
      BY <3>4 DEF Fails, Ends
    <3>6. File \in Paths
      BY <2>6, <2>9, <3>1
    <3> QED
      BY <2>1, <2>5, <3>1, <3>3, <3>4, <3>5, <3>6
  <2>14. CASE Located \/ ScanError
    <3>1. DOMAIN outcome = {"cause", "file", "hint", "undeclared"} /\ UNCHANGED <<files, disk>>
      BY <2>2, <2>14 DEF Located, ScanError, Ended
    <3>2. pc \in {"locate", "hint"}
      BY <2>14 DEF Located, ScanError
    <3>3. outcome'.cause = outcome.cause /\ outcome'.file = outcome.file
      BY <2>14, <3>1 DEF Located, ScanError
    <3> QED
      BY <2>1, <2>5, <3>1, <3>2, <3>3
  <2>15. CASE GuardPasses \/ NextRow
    BY <2>5, <2>15, <2>18 DEF GuardPasses, NextRow
  <2>17. CASE AllRead
    BY <2>5, <2>17 DEF AllRead, Ends
  <2>16. CASE Vanish \/ UNCHANGED vars
    BY <2>5, <2>16, <2>18 DEF Vanish, vars
  <2> QED
    BY <1>2, <2>10, <2>11, <2>12, <2>13, <2>14, <2>15, <2>16, <2>17 DEF Next, Over
<1> QED
  BY <1>1, <1>2

-----------------------------------------------------------------------------
(* The theorems.                                                           *)

\* The invariant holds of every call.
THEOREM InvHolds == Spec => []Inv
<1>1. Inv /\ [Next]_vars => Inv'
  BY TypedKept, HoldingKept, RowedKept, OpenedOnceKept, EndedKept,
     SniffedWholeKept, FromListedKept, InboxReadKept DEF Inv
<1> QED
  BY Begins, <1>1, PTL DEF Spec

\* A pipe is opened once, to be read: not to locate bytes in it and not for a hint.
THEOREM PipesHold == Spec => []PipesAreOpenedOnce
<1>1. Inv => PipesAreOpenedOnce
  BY DEF Inv, OpenedOnce, PipesAreOpenedOnce, Paths
<1> QED
  BY <1>1, InvHolds, PTL

\* A hint names a function whose guard lets the file through; that reads it, if
\* what names the file is one of its messages; and when all of the messages are
\* for one reader, the function that was called does not read it.
THEOREM HintHolds == Spec => []HintIsRight
<1>1. Inv => HintIsRight
  BY DEF Inv, Ended, IsRightHint, HintIsRight
<1> QED
  BY <1>1, InvHolds, PTL

\* The sniffer stops at no file it can open and gives each its row.  What it
\* lists for a reader is read by that reader, as long as no name is a pattern for
\* another, or fails there for a malformed value, or because what names the file
\* is none of its messages.
THEOREM SniffedHold == Spec => []SniffedAreRead
<1>1. ASSUME Inv
      PROVE  SniffedAreRead
  <2>1. Typed /\ Rowed /\ Ended /\ SniffedWhole /\ InboxRead
    BY <1>1 DEF Inv
  <2>2. ASSUME outcome # Null
        PROVE  pc \in {"locate", "hint", "over"}
    BY <2>1, <2>2 DEF Ended
  <2>3. ASSUME outcome # Null, call.fname = "sniff_iso20022"
        PROVE  /\ outcome.cause \in {"none", "bind", "open"}
               /\ outcome.cause = "none" => pc = "over" /\ at = Len(files) + 1
    BY <2>1, <2>2, <2>3 DEF SniffedWhole
  <2>4. ASSUME at = Len(files) + 1
        PROVE  [i \in DOMAIN rows |-> rows[i].file] = files
    <3>1. DOMAIN rows = 1 .. Len(files)
      BY <2>1, <2>4, RowsAre DEF Typed
    <3>2. \A i \in DOMAIN rows : rows[i].file = files[i]
      BY <2>1, <2>4, <3>1 DEF Rowed, RowFor
    <3>3. files = [i \in 1 .. Len(files) |-> files[i]]
      BY <2>1 DEF Typed
    <3> QED
      BY <3>1, <3>2, <3>3
  <2>5. ASSUME outcome # Null, FromInbox,
               \A p \in Range(call.args) : Glob(p) \in {Null, {p}}
        PROVE  \/ outcome.cause = "none"
               \/ Unforeseen(call.fname, outcome.cause, disk[outcome.file].content)
    BY <2>1, <2>2, <2>5 DEF FromInbox, InboxRead, IsPlain
  <2> QED
    BY <2>3, <2>4, <2>5 DEF SniffedAreRead
<1> QED
  BY <1>1, InvHolds, PTL

\* A call reads what its arguments reach, each once and in their order, or is
\* refused for one of them.
THEOREM MatchesHold == Spec => FilesAreTheMatches
<1>1. ASSUME Inv, [Next]_vars
      PROVE  [pc = "bind" /\ pc' # pc => BindsTheMatches]_vars
  <2> SUFFICES ASSUME pc = "bind", pc' # pc
               PROVE  BindsTheMatches
    OBVIOUS
  <2>1. BindFails \/ Bind
    BY <1>1 DEF Next, OpenSource, GuardPasses, GuardRefuses, NextRow, ReadFails,
       Located, ScanError, AllRead, Vanish, Recipe, Over, vars
  <2>2. DiskOk /\ call.args \in Seq(STRING)
    BY <1>1 DEF Inv, Typed
  <2>3. Range(call.args) = {call.args[i] : i \in DOMAIN call.args}
    BY DEF Range
  <2>4. call.args = <<>> <=> Range(call.args) = {}
    BY <2>2, NothingInRange
  <2>5. \A i \in DOMAIN call.args :
          ResolveFiles(call.args[i]) = Null <=>
            \/ call.args[i] \in Remote \/ Kind(call.args[i]) = "folder"
            \/ Reached(call.args[i]) = {}
    <3>1. \A p \in STRING :
            ResolveFiles(p) = Null <=>
              p \in Remote \/ Kind(p) = "folder" \/ Reached(p) = {}
      BY <2>2, FilesOfOne
    <3>2. \A i \in DOMAIN call.args : call.args[i] \in STRING
      BY <2>2
    <3> QED
      BY <3>1, <3>2
  <2> DEFINE Refused == LET items == Range(call.args)
                        IN  \/ items = {} \/ items \cap (NoPaths \cup Remote) # {}
                            \/ \E p \in items : Kind(p) = "folder" \/ Reached(p) = {}
             InOneOrder == \A i, j \in DOMAIN files' :
                             i < j => Earlier(call.args, files'[i], files'[j])
  <2>6. CASE BindFails
    <3>1. Refused
      BY <2>3, <2>4, <2>5, <2>6 DEF BindFails, PathsAreRefused
    <3>2. pc' = "over"
      BY <2>6 DEF BindFails
    <3> QED
      BY <3>1, <3>2 DEF BindsTheMatches
  <2>7. CASE Bind
    <3>1. /\ ~PathsAreRefused(call.args)
          /\ \A i \in DOMAIN call.args : ResolveFiles(call.args[i]) # Null
          /\ files' = ResolvePaths(call.args) /\ pc' = "open"
      BY <2>7 DEF Bind
    <3>2. ~Refused
      BY <2>3, <2>4, <2>5, <3>1 DEF PathsAreRefused
    <3>3. /\ Range(files') = UNION {Reached(call.args[i]) : i \in DOMAIN call.args}
          /\ InPlace(call.args, files')
      BY <2>2, <3>1, FilesOfAll
    <3>4. Range(files') = UNION {Reached(p) : p \in Range(call.args)}
      BY <2>3, <3>3
    <3>5. InOneOrder
      BY <3>3 DEF InPlace
    <3> HIDE DEF Refused
    <3> QED
      BY <3>1, <3>2, <3>4, <3>5
      DEF BindsTheMatches, Refused, Earlier, FirstArgument, Place
  <2> QED
    BY <2>1, <2>6, <2>7
<1> QED
  BY <1>1, InvHolds, PTL DEF Spec, FilesAreTheMatches
=============================================================================
