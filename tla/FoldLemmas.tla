----------------------------- MODULE FoldLemmas -----------------------------
(***************************************************************************)
(* Induction over the naturals and over sequences, in a form that takes    *)
(* sets and functions only, and what it says of the folds the modules are  *)
(* built from: a fold over a sequence goes through one value for each of   *)
(* its elements, each got from the one before.                             *)
(***************************************************************************)
EXTENDS Integers, Sequences, SequencesExt, FiniteSetTheorems,
        SequenceTheorems, WellFoundedInduction, TLAPS

-----------------------------------------------------------------------------
(* Induction.                                                              *)

\* A set of naturals that is not empty has a least element.
LEMMA Least ==
  ASSUME NEW T, T \subseteq Nat, T # {}
  PROVE  \E x \in T : \A y \in T : x <= y
<1>1. PICK x \in T : \A y \in T : ~(<<y, x>> \in OpToRel(<, Nat))
  BY WFMin, NatLessThanWellFounded
<1>2. \A y \in T : ~(y < x)
  BY <1>1 DEF OpToRel
<1> QED
  BY <1>2

\* What holds of 0 and passes from each number to the next holds up to n.
LEMMA UpTo ==
  ASSUME NEW n \in Nat, NEW T, 0 \in T,
         \A k \in 0 .. n - 1 : k \in T => k + 1 \in T
  PROVE  \A k \in 0 .. n : k \in T
<1> DEFINE R == (0 .. n) \ T
<1> SUFFICES ASSUME R # {}
             PROVE  FALSE
  OBVIOUS
<1>1. R \subseteq Nat
  OBVIOUS
<1>2. PICK x \in R : \A y \in R : x <= y
  <2> HIDE DEF R
  <2> QED
    BY <1>1, Least
<1>3. x # 0 /\ x - 1 \in 0 .. n - 1 /\ x - 1 \in T
  <2>1. x \in 0 .. n /\ x # 0
    BY <1>2
  <2>2. x - 1 \in 0 .. n - 1 /\ x - 1 \in 0 .. n /\ ~(x <= x - 1)
    BY <2>1
  <2>3. x - 1 \notin R
    BY <1>2, <2>2
  <2> QED
    BY <2>1, <2>2, <2>3
<1>4. (x - 1) + 1 \in T /\ x \in Nat
  BY <1>1, <1>3
<1>5. (x - 1) + 1 = x
  BY <1>4
<1> QED
  BY <1>2, <1>4, <1>5

\* A set of numbers up to n has a greatest.
LEMMA Greatest ==
  ASSUME NEW n \in Nat, NEW s \in SUBSET (0 .. n), s # {}
  PROVE  Max(s) \in s /\ \A y \in s : Max(s) >= y
<1>1. PICK z \in {n - y : y \in s} : \A x \in {n - y : y \in s} : z <= x
  <2> DEFINE T == {n - y : y \in s}
  <2>1. T \subseteq Nat /\ T # {}
    <3>1. \A y \in s : y \in 0 .. n
      OBVIOUS
    <3>2. \A y \in s : n - y \in Nat
      BY <3>1
    <3>3. T \subseteq Nat
      BY <3>2
    <3>4. T # {}
      OBVIOUS
    <3> QED
      BY <3>3, <3>4
  <2> HIDE DEF T
  <2>2. \E z \in T : \A x \in T : z <= x
    BY <2>1, Least
  <2> QED
    BY <2>2 DEF T
<1>2. PICK m \in s : z = n - m
  BY <1>1
<1>3. \A y \in s : m >= y
  <2> TAKE y \in s
  <2>1. n - m <= n - y
    BY <1>1, <1>2
  <2>2. m \in 0 .. n /\ y \in 0 .. n
    OBVIOUS
  <2> QED
    BY <2>1, <2>2
<1> QED
  BY <1>3 DEF Max

-----------------------------------------------------------------------------
(* Folds.                                                                  *)

\* f solves the equation of a fold, as MapThenFoldSet has it, with a first value
\* and a function for each element.
IsFold(f, n, V, base, G) ==
  /\ f \in [SUBSET (1 .. n) -> V]
  /\ \A s \in SUBSET (1 .. n) :
       f[s] = IF s = {} THEN base ELSE G[Max(s)][f[s \ {Max(s)}]]

\* The equation of a fold has a solution.
LEMMA FoldExists ==
  ASSUME NEW n \in Nat, NEW V, NEW base \in V, NEW G \in [1 .. n -> [V -> V]]
  PROVE  \E f : IsFold(f, n, V, base, G)
<1> DEFINE Solves(f, k) ==
      \A s \in SUBSET (1 .. k) :
        f[s] = IF s = {} THEN base ELSE G[Max(s)][f[s \ {Max(s)}]]
    Solved == {k \in Nat : \E f \in [SUBSET (1 .. k) -> V] : Solves(f, k)}
<1>1. 0 \in Solved
  <2> DEFINE f == [s \in SUBSET (1 .. 0) |-> base]
  <2>1. f \in [SUBSET (1 .. 0) -> V] /\ Solves(f, 0)
    OBVIOUS
  <2> QED
    BY <2>1
<1>2. ASSUME NEW k \in 0 .. n - 1, k \in Solved
      PROVE  k + 1 \in Solved
  <2>1. PICK f \in [SUBSET (1 .. k) -> V] : Solves(f, k)
    BY <1>2
  <2> DEFINE g == [s \in SUBSET (1 .. k + 1) |->
                     IF k + 1 \in s THEN G[k + 1][f[s \ {k + 1}]] ELSE f[s]]
  <2>2. ASSUME NEW s \in SUBSET (1 .. k + 1)
        PROVE  /\ k + 1 \in s => s \ {k + 1} \in SUBSET (1 .. k)
               /\ k + 1 \notin s => s \in SUBSET (1 .. k)
    BY <2>2
  <2>3. ASSUME NEW s \in SUBSET (1 .. k)
        PROVE  g[s] = f[s] /\ f[s] \in V
    <3>1. s \in SUBSET (1 .. k + 1) /\ k + 1 \notin s
      BY <2>3
    <3> QED
      BY <2>3, <3>1
  <2>4. g \in [SUBSET (1 .. k + 1) -> V]
    <3> SUFFICES ASSUME NEW s \in SUBSET (1 .. k + 1)
                 PROVE  g[s] \in V
      OBVIOUS
    <3>1. G[k + 1] \in [V -> V]
      BY <1>2
    <3> QED
      BY <2>2, <3>1
  <2>5. ASSUME NEW s \in SUBSET (1 .. k + 1), s # {}
        PROVE  g[s] = G[Max(s)][g[s \ {Max(s)}]]
    <3>1. Max(s) \in s /\ \A y \in s : Max(s) >= y
      <4>1. s \in SUBSET (0 .. k + 1) /\ k + 1 \in Nat
        BY <1>2, <2>5
      <4> QED
        BY <2>5, <4>1, Greatest
    <3>2. CASE k + 1 \in s
      <4>1. Max(s) = k + 1
        <5>1. Max(s) >= k + 1
          BY <3>1, <3>2
        <5>2. Max(s) \in 1 .. k + 1
          BY <2>5, <3>1
        <5> QED
          BY <1>2, <5>1, <5>2
      <4>2. g[s] = G[k + 1][f[s \ {k + 1}]]
        BY <2>5, <3>2
      <4>3. s \ {k + 1} \in SUBSET (1 .. k)
        BY <2>2, <2>5, <3>2
      <4>4. g[s \ {k + 1}] = f[s \ {k + 1}]
        BY <2>3, <4>3
      <4> HIDE DEF g
      <4> QED
        BY <4>1, <4>2, <4>4
    <3>3. CASE k + 1 \notin s
      <4>1. s \in SUBSET (1 .. k) /\ s \ {Max(s)} \in SUBSET (1 .. k)
        BY <2>2, <2>5, <3>3
      <4>2. g[s] = f[s] /\ g[s \ {Max(s)}] = f[s \ {Max(s)}]
        BY <2>3, <4>1
      <4>3. f[s] = G[Max(s)][f[s \ {Max(s)}]]
        BY <2>1, <2>5, <4>1
      <4> HIDE DEF g
      <4> QED
        BY <4>2, <4>3
    <3> QED
      BY <3>2, <3>3
  <2>6. g[{}] = base
    <3>1. {} \in SUBSET (1 .. k) /\ f[{}] = base
      BY <2>1
    <3> QED
      BY <2>3, <3>1
  <2> HIDE DEF g
  <2>7. Solves(g, k + 1)
    BY <2>5, <2>6
  <2>8. k + 1 \in Nat
    BY <1>2
  <2> HIDE DEF Solves
  <2> QED
    BY <2>4, <2>7, <2>8
<1> HIDE DEF Solved
<1>3. n \in Solved
  <2>1. \A k \in 0 .. n : k \in Solved
    BY <1>1, <1>2, UpTo
  <2> QED
    BY <2>1
<1>4. PICK f \in [SUBSET (1 .. n) -> V] : Solves(f, n)
  BY <1>3 DEF Solved
<1> QED
  BY <1>4 DEF IsFold

\* The sets a fold goes through.
LEMMA FoldSets ==
  ASSUME NEW k \in Nat
  PROVE  /\ 1 .. 0 = {}
         /\ k # 0 => /\ 1 .. k # {} /\ Max(1 .. k) = k
                     /\ (1 .. k) \ {k} = 1 .. k - 1
<1> SUFFICES ASSUME k # 0
             PROVE  1 .. k # {} /\ Max(1 .. k) = k /\ (1 .. k) \ {k} = 1 .. k - 1
  OBVIOUS
<1>1. k \in 1 .. k /\ 1 .. k \in SUBSET (0 .. k)
  OBVIOUS
<1>2. Max(1 .. k) \in 1 .. k /\ \A y \in 1 .. k : Max(1 .. k) >= y
  <2> DEFINE s == 1 .. k
  <2>1. s \in SUBSET (0 .. k) /\ s # {}
    BY <1>1
  <2> HIDE DEF s
  <2>2. Max(s) \in s /\ \A y \in s : Max(s) >= y
    BY <2>1, Greatest
  <2> QED
    BY <2>2 DEF s
<1>3. Max(1 .. k) = k
  BY <1>1, <1>2
<1> QED
  BY <1>1, <1>3

\* The next set a fold goes to is smaller by its greatest element.
LEMMA ShorterSets ==
  ASSUME NEW n \in Nat, NEW s \in SUBSET (1 .. n), s # {}
  PROVE  Max(s) \in 1 .. n /\ s \ {Max(s)} \in SUBSET (1 .. n)
<1>1. s \in SUBSET (0 .. n)
  OBVIOUS
<1>2. Max(s) \in s
  BY <1>1, Greatest
<1> QED
  BY <1>2

\* h solves the equation of a fold, where the values before it are values.
Unfolds(h, n, V, base, G) ==
  /\ h[{}] = base
  /\ \A s \in SUBSET (1 .. n) :
       s # {} /\ h[s \ {Max(s)}] \in V => h[s] = G[Max(s)][h[s \ {Max(s)}]]

\* r[k] is the value after the k-th element.
RunsThrough(r, n, base, G) ==
  r[0] = base /\ \A k \in 1 .. n : r[k] = G[k][r[k - 1]]

\* What solves the equation of a fold goes through a value for each element.
LEMMA FoldRuns ==
  ASSUME NEW n \in Nat, NEW V, NEW base \in V, NEW G \in [1 .. n -> [V -> V]],
         NEW h, Unfolds(h, n, V, base, G)
  PROVE  \E r \in [0 .. n -> V] : RunsThrough(r, n, base, G) /\ r[n] = h[1 .. n]
<1> USE DEF Unfolds, RunsThrough
<1>1. ASSUME NEW k \in 1 .. n, h[1 .. k - 1] \in V
      PROVE  h[1 .. k] = G[k][h[1 .. k - 1]] /\ h[1 .. k] \in V
  <2>1. k \in Nat /\ k # 0
    OBVIOUS
  <2>2. 1 .. k # {} /\ Max(1 .. k) = k /\ (1 .. k) \ {k} = 1 .. k - 1
    BY <2>1, FoldSets
  <2>3. 1 .. k \in SUBSET (1 .. n)
    OBVIOUS
  <2> DEFINE s == 1 .. k
  <2> HIDE DEF s
  <2>4. s \in SUBSET (1 .. n) /\ s # {} /\ Max(s) = k /\ s \ {Max(s)} = 1 .. k - 1
    BY <2>2, <2>3 DEF s
  <2>5. h[s] = G[k][h[1 .. k - 1]]
    BY <1>1, <2>4
  <2>6. G[k] \in [V -> V]
    OBVIOUS
  <2> QED
    BY <1>1, <2>5, <2>6 DEF s
<1> DEFINE T == {k \in Nat : h[1 .. k] \in V}
           r == [k \in 0 .. n |-> h[1 .. k]]
<1>2. 1 .. 0 = {}
  BY FoldSets
<1>3. \A k \in 0 .. n : k \in T
  <2>1. 0 \in T
    BY <1>2
  <2>2. ASSUME NEW k \in 0 .. n - 1, k \in T
        PROVE  k + 1 \in T
    <3>1. k + 1 \in 1 .. n /\ (k + 1) - 1 = k /\ k + 1 \in Nat
      OBVIOUS
    <3>2. h[1 .. (k + 1) - 1] \in V
      BY <2>2, <3>1
    <3> QED
      BY <1>1, <3>1, <3>2
  <2> HIDE DEF T
  <2> QED
    BY <2>1, <2>2, UpTo
<1>4. r \in [0 .. n -> V] /\ r[0] = base /\ r[n] = h[1 .. n]
  BY <1>2, <1>3
<1>5. ASSUME NEW k \in 1 .. n
      PROVE  r[k] = G[k][r[k - 1]]
  <2>1. k - 1 \in 0 .. n /\ k \in 0 .. n
    OBVIOUS
  <2>2. h[1 .. k - 1] \in V
    BY <1>3, <2>1
  <2>3. h[1 .. k] = G[k][h[1 .. k - 1]]
    BY <1>1, <2>2
  <2> QED
    BY <2>1, <2>3
<1> QED
  BY <1>4, <1>5

-----------------------------------------------------------------------------
(* FlattenSeq.                                                             *)

\* Flattening goes through the concatenations of the first k sequences.
LEMMA FlattenSteps ==
  ASSUME NEW S, NEW ss \in Seq(Seq(S))
  PROVE  \E h \in [0 .. Len(ss) -> Seq(S)] :
           /\ h[0] = <<>>
           /\ \A k \in 1 .. Len(ss) : h[k] = h[k - 1] \o ss[k]
           /\ FlattenSeq(ss) = h[Len(ss)]
<1> DEFINE n == Len(ss)
    Runs(h, k) == h[0] = <<>> /\ \A i \in 1 .. k : h[i] = h[i - 1] \o ss[i]
    Some == {k \in Nat : \E h \in [0 .. k -> Seq(S)] : Runs(h, k)}
<1>1. n \in Nat /\ \A i \in 1 .. n : ss[i] \in Seq(S)
  OBVIOUS
<1> HIDE DEF n
<1>2. 0 \in Some
  <2> DEFINE h == [i \in 0 .. 0 |-> <<>>]
  <2>1. h \in [0 .. 0 -> Seq(S)]
    OBVIOUS
  <2>2. Runs(h, 0)
    OBVIOUS
  <2> QED
    BY <2>1, <2>2
<1>3. ASSUME NEW k \in 0 .. n - 1, k \in Some
      PROVE  k + 1 \in Some
  <2>1. PICK h \in [0 .. k -> Seq(S)] : Runs(h, k)
    BY <1>3
  <2> DEFINE g == [i \in 0 .. k + 1 |->
                     IF i = k + 1 THEN h[k] \o ss[k + 1] ELSE h[i]]
  <2>2. h[k] \o ss[k + 1] \in Seq(S)
    <3>1. h[k] \in Seq(S) /\ ss[k + 1] \in Seq(S)
      BY <1>1, <1>3
    <3> QED
      BY <3>1, ConcatProperties
  <2>3. g \in [0 .. k + 1 -> Seq(S)]
    BY <1>3, <2>2
  <2>4. g[k + 1] = h[k] \o ss[k + 1] /\ \A i \in 0 .. k : g[i] = h[i]
    BY <1>3
  <2> HIDE DEF g
  <2>5. Runs(g, k + 1)
    <3>1. g[0] = <<>>
      BY <1>3, <2>1, <2>4
    <3>2. ASSUME NEW i \in 1 .. k + 1
          PROVE  g[i] = g[i - 1] \o ss[i]
      <4>1. CASE i = k + 1
        <5>1. i - 1 = k /\ k \in 0 .. k
          BY <1>3, <4>1
        <5> QED
          BY <2>4, <4>1, <5>1
      <4>2. CASE i # k + 1
        <5>1. i \in 1 .. k /\ i \in 0 .. k /\ i - 1 \in 0 .. k
          BY <1>3, <3>2, <4>2
        <5>2. h[i] = h[i - 1] \o ss[i]
          BY <2>1, <5>1
        <5>3. g[i] = h[i] /\ g[i - 1] = h[i - 1]
          BY <2>4, <5>1
        <5> QED
          BY <5>2, <5>3
      <4> QED
        BY <4>1, <4>2
    <3> QED
      BY <3>1, <3>2
  <2>6. k + 1 \in Nat
    BY <1>3
  <2> HIDE DEF Runs
  <2> QED
    BY <2>3, <2>5, <2>6
<1>4. PICK h \in [0 .. n -> Seq(S)] : Runs(h, n)
  <2> HIDE DEF Some
  <2>1. \A k \in 0 .. n : k \in Some
    BY <1>1, <1>2, <1>3, UpTo
  <2>2. n \in Some
    BY <1>1, <2>1
  <2> QED
    BY <2>2 DEF Some
<1>5. FlattenSeq(ss) = h[n]
  <2>1. CASE n = 0
    <3>1. ss = <<>> /\ FlattenSeq(ss) = ss
      BY <2>1 DEF n, FlattenSeq
    <3> QED
      BY <1>4, <2>1, <3>1
  <2>2. CASE n # 0
    <3> DEFINE Is(f) == f = [i \in 1 .. n |->
                               IF i = 1 THEN ss[i] ELSE f[i - 1] \o ss[i]]
               c == CHOOSE f : Is(f)
               g == [i \in 1 .. n |-> h[i]]
    <3>1. FlattenSeq(ss) = c[n]
      BY <2>2 DEF n, FlattenSeq
    <3>2. h[1] = ss[1]
      <4>1. 1 \in 1 .. n /\ 1 - 1 = 0
        BY <1>1, <2>2
      <4>2. h[1] = h[1 - 1] \o ss[1]
        BY <1>4, <4>1
      <4>3. h[0] = <<>> /\ ss[1] \in Seq(S)
        BY <1>1, <1>4, <4>1
      <4>4. <<>> \o ss[1] = ss[1]
        BY <4>3
      <4> QED
        BY <4>1, <4>2, <4>3, <4>4
    <3>3. \A i \in 1 .. n : g[i] = IF i = 1 THEN ss[i] ELSE g[i - 1] \o ss[i]
      <4> TAKE i \in 1 .. n
      <4>1. g[i] = h[i]
        OBVIOUS
      <4>2. CASE i = 1
        BY <3>2, <4>1, <4>2
      <4>3. CASE i # 1
        <5>1. i - 1 \in 1 .. n
          BY <1>1, <4>3
        <5>2. g[i - 1] = h[i - 1]
          BY <5>1
        <5>3. h[i] = h[i - 1] \o ss[i]
          BY <1>4
        <5> HIDE DEF g
        <5> QED
          BY <4>1, <4>3, <5>2, <5>3
      <4> QED
        BY <4>2, <4>3
    <3>4. Is(g)
      BY <3>3
    <3>5. Is(c)
      BY <3>4
    <3>6. \A i \in 1 .. n : c[i] = IF i = 1 THEN ss[i] ELSE c[i - 1] \o ss[i]
      BY <3>5
    <3> HIDE DEF c, g
    <3> DEFINE Same == {k \in Nat : k = 0 \/ c[k] = h[k]}
    <3>7. ASSUME NEW k \in 0 .. n - 1, k \in Same
          PROVE  k + 1 \in Same
      <4>1. k + 1 \in 1 .. n /\ k + 1 \in Nat /\ (k + 1) - 1 = k
        BY <1>1
      <4>2. CASE k = 0
        BY <3>2, <3>6, <4>1, <4>2
      <4>3. CASE k # 0
        <5>1. c[k + 1] = c[(k + 1) - 1] \o ss[k + 1]
          <6>1. k + 1 # 1
            BY <4>3
          <6> QED
            BY <3>6, <4>1, <6>1
        <5>2. h[k + 1] = h[(k + 1) - 1] \o ss[k + 1]
          BY <1>4, <4>1
        <5>3. c[k] = h[k]
          BY <3>7, <4>3
        <5> QED
          BY <4>1, <5>1, <5>2, <5>3
      <4> QED
        BY <4>2, <4>3
    <3>8. 0 \in Same
      OBVIOUS
    <3>9. n \in Same
      <4> HIDE DEF Same
      <4>1. \A k \in 0 .. n : k \in Same
        BY <1>1, <3>7, <3>8, UpTo
      <4> QED
        BY <1>1, <4>1
    <3> QED
      BY <2>2, <3>1, <3>9
  <2> QED
    BY <2>1, <2>2
<1> QED
  BY <1>4, <1>5 DEF n

\* Flattening one sequence more appends it.
LEMMA FlattenLast ==
  ASSUME NEW S, NEW n \in Nat, NEW ss \in [1 .. n + 1 -> Seq(S)]
  PROVE  /\ FlattenSeq([i \in 1 .. n |-> ss[i]]) \in Seq(S)
         /\ FlattenSeq(ss) = FlattenSeq([i \in 1 .. n |-> ss[i]]) \o ss[n + 1]
<1> DEFINE tt == [i \in 1 .. n |-> ss[i]]
<1>1. /\ ss \in Seq(Seq(S)) /\ Len(ss) = n + 1
      /\ tt \in Seq(Seq(S)) /\ Len(tt) = n
      /\ \A i \in 1 .. n : tt[i] = ss[i]
  OBVIOUS
<1> HIDE DEF tt
<1> DEFINE Runs(h, s, k) ==
      h[0] = <<>> /\ \A i \in 1 .. k : h[i] = h[i - 1] \o s[i]
<1>2. PICK h \in [0 .. n + 1 -> Seq(S)] :
        Runs(h, ss, n + 1) /\ FlattenSeq(ss) = h[n + 1]
  <2>1. \E h \in [0 .. Len(ss) -> Seq(S)] :
          Runs(h, ss, Len(ss)) /\ FlattenSeq(ss) = h[Len(ss)]
    BY <1>1, FlattenSteps
  <2> HIDE DEF Runs
  <2> QED
    BY <1>1, <2>1
<1>3. PICK g \in [0 .. n -> Seq(S)] :
        Runs(g, tt, n) /\ FlattenSeq(tt) = g[n]
  <2>1. \E r \in [0 .. Len(tt) -> Seq(S)] :
          Runs(r, tt, Len(tt)) /\ FlattenSeq(tt) = r[Len(tt)]
    BY <1>1, FlattenSteps
  <2> HIDE DEF Runs
  <2> QED
    BY <1>1, <2>1
<1> DEFINE Same == {k \in Nat : g[k] = h[k]}
<1>4. 0 \in Same
  BY <1>2, <1>3
<1>5. ASSUME NEW k \in 0 .. n - 1, k \in Same
      PROVE  k + 1 \in Same
  <2>1. k + 1 \in 1 .. n /\ k + 1 \in 1 .. n + 1 /\ (k + 1) - 1 = k
    OBVIOUS
  <2>2. g[k + 1] = g[(k + 1) - 1] \o tt[k + 1]
    BY <1>3, <2>1
  <2>3. h[k + 1] = h[(k + 1) - 1] \o ss[k + 1]
    BY <1>2, <2>1
  <2>4. tt[k + 1] = ss[k + 1] /\ g[k] = h[k] /\ k + 1 \in Nat
    BY <1>1, <1>5, <2>1
  <2>5. g[k + 1] = h[k + 1]
    BY <2>1, <2>2, <2>3, <2>4
  <2> QED
    BY <2>4, <2>5
<1>6. n \in Same
  <2> HIDE DEF Same
  <2>1. \A k \in 0 .. n : k \in Same
    BY <1>4, <1>5, UpTo
  <2> QED
    BY <2>1
<1>7. n + 1 \in 1 .. n + 1 /\ (n + 1) - 1 = n /\ n \in 0 .. n
  OBVIOUS
<1>8. h[n + 1] = h[(n + 1) - 1] \o ss[n + 1]
  BY <1>2, <1>7
<1>9. g[n] = h[n] /\ g[n] \in Seq(S)
  BY <1>3, <1>6, <1>7
<1>10. FlattenSeq(tt) \in Seq(S) /\ FlattenSeq(ss) = FlattenSeq(tt) \o ss[n + 1]
  BY <1>2, <1>3, <1>7, <1>8, <1>9
<1> QED
  BY <1>10 DEF tt

\* What a flattened sequence holds at a place: the element q of a sequence k, and
\* at or before the place all that stands before it there.
StandsAt(w, ss, p, k, q) ==
  /\ w[p] = ss[k][q]
  /\ \A l \in 1 .. k : \A j \in DOMAIN ss[l] :
       (l < k) \/ (j <= q) => \E o \in 1 .. p : w[o] = ss[l][j]

\* Each place of a flattened sequence is one of a sequence in it, in their order.
LEMMA FlattenPlaces ==
  ASSUME NEW S, NEW ss \in Seq(Seq(S))
  PROVE  /\ FlattenSeq(ss) \in Seq(S)
         /\ \A p \in DOMAIN FlattenSeq(ss) :
              \E k \in DOMAIN ss : \E q \in DOMAIN ss[k] :
                StandsAt(FlattenSeq(ss), ss, p, k, q)
         /\ \A k \in DOMAIN ss : \A q \in DOMAIN ss[k] :
              \E p \in DOMAIN FlattenSeq(ss) : FlattenSeq(ss)[p] = ss[k][q]
<1> DEFINE n == Len(ss)
<1>1. /\ n \in Nat /\ DOMAIN ss = 1 .. n
      /\ \A k \in 1 .. n : ss[k] \in Seq(S)
  OBVIOUS
<1>2. PICK h \in [0 .. n -> Seq(S)] :
        /\ h[0] = <<>> /\ FlattenSeq(ss) = h[n]
        /\ \A k \in 1 .. n : h[k] = h[k - 1] \o ss[k]
  BY FlattenSteps
<1> HIDE DEF n
<1> DEFINE Placed(m) ==
      \A p \in DOMAIN h[m] :
        \E k \in 1 .. m : \E q \in DOMAIN ss[k] : StandsAt(h[m], ss, p, k, q)
    Held(m) ==
      \A k \in 1 .. m : \A q \in DOMAIN ss[k] :
        \E p \in DOMAIN h[m] : h[m][p] = ss[k][q]
    T == {m \in Nat : Placed(m) /\ Held(m)}
<1>3. 0 \in T
  <2>1. DOMAIN h[0] = {} /\ 1 .. 0 = {}
    BY <1>2
  <2> QED
    BY <2>1
<1>4. ASSUME NEW m \in 0 .. n - 1, m \in T
      PROVE  m + 1 \in T
  <2>1. m + 1 \in 1 .. n /\ (m + 1) - 1 = m /\ m \in 0 .. n /\ m \in Nat
    BY <1>1
  <2>2. Placed(m) /\ Held(m)
    BY <1>4
  <2> DEFINE u == h[m]
             v == ss[m + 1]
             w == h[m + 1]
  <2>3. u \in Seq(S) /\ v \in Seq(S) /\ w = u \o v
    BY <1>1, <1>2, <2>1
  <2> HIDE DEF u, v, w
  <2>4. /\ DOMAIN u = 1 .. Len(u) /\ DOMAIN v = 1 .. Len(v)
        /\ Len(u) \in Nat /\ Len(v) \in Nat
        /\ DOMAIN w = 1 .. Len(u) + Len(v)
        /\ \A i \in 1 .. Len(u) : w[i] = u[i]
        /\ \A i \in 1 .. Len(v) : w[Len(u) + i] = v[i]
    <3>1. /\ w \in Seq(S) /\ Len(w) = Len(u) + Len(v)
          /\ \A i \in 1 .. Len(u) + Len(v) :
               w[i] = IF i <= Len(u) THEN u[i] ELSE v[i - Len(u)]
      BY <2>3, ConcatProperties
    <3>2. Len(u) \in Nat /\ Len(v) \in Nat
      BY <2>3
    <3>3. ASSUME NEW i \in 1 .. Len(u)
          PROVE  w[i] = u[i]
      <4>1. i \in 1 .. Len(u) + Len(v) /\ i <= Len(u)
        BY <3>2
      <4> QED
        BY <3>1, <4>1
    <3>4. ASSUME NEW i \in 1 .. Len(v)
          PROVE  w[Len(u) + i] = v[i]
      <4>1. /\ Len(u) + i \in 1 .. Len(u) + Len(v) /\ ~(Len(u) + i <= Len(u))
            /\ (Len(u) + i) - Len(u) = i
        BY <3>2
      <4> QED
        BY <3>1, <4>1
    <3>5. DOMAIN w = 1 .. Len(u) + Len(v)
      BY <3>1
    <3>6. DOMAIN u = 1 .. Len(u) /\ DOMAIN v = 1 .. Len(v)
      BY <2>3
    <3> QED
      BY <3>2, <3>3, <3>4, <3>5, <3>6
  <2>5. \A k \in 1 .. m : \A q \in DOMAIN ss[k] : \E p \in 1 .. Len(u) : w[p] = ss[k][q]
    <3> TAKE k \in 1 .. m
    <3> TAKE q \in DOMAIN ss[k]
    <3>1. PICK p \in DOMAIN u : u[p] = ss[k][q]
      BY <2>2 DEF u
    <3> QED
      BY <2>4, <3>1
  <2>6. Held(m + 1)
    <3> SUFFICES ASSUME NEW k \in 1 .. m + 1, NEW q \in DOMAIN ss[k]
                 PROVE  \E p \in DOMAIN w : w[p] = ss[k][q]
      BY DEF w
    <3>1. CASE k = m + 1
      <4>1. q \in 1 .. Len(v) /\ ss[k][q] = v[q]
        BY <2>4, <3>1 DEF v
      <4>2. Len(u) + q \in DOMAIN w
        BY <2>4, <4>1
      <4> QED
        BY <2>4, <4>1, <4>2
    <3>2. CASE k # m + 1
      <4>1. k \in 1 .. m
        BY <2>1, <3>2
      <4>2. PICK p \in 1 .. Len(u) : w[p] = ss[k][q]
        BY <2>5, <4>1
      <4>3. p \in DOMAIN w
        BY <2>4
      <4> QED
        BY <4>2, <4>3
    <3> QED
      BY <3>1, <3>2
  <2>7. Placed(m + 1)
    <3> SUFFICES ASSUME NEW p \in DOMAIN w
                 PROVE  \E k \in 1 .. m + 1 : \E q \in DOMAIN ss[k] :
                          StandsAt(w, ss, p, k, q)
      BY DEF w
    <3>1. CASE p \in 1 .. Len(u)
      <4>1. PICK k \in 1 .. m : \E q \in DOMAIN ss[k] : StandsAt(u, ss, p, k, q)
        BY <2>2, <2>4, <3>1 DEF u
      <4>2. PICK q \in DOMAIN ss[k] : StandsAt(u, ss, p, k, q)
        BY <4>1
      <4>3. w[p] = ss[k][q]
        BY <2>4, <3>1, <4>2 DEF StandsAt
      <4>4. ASSUME NEW l \in 1 .. k, NEW j \in DOMAIN ss[l], l < k \/ j <= q
            PROVE  \E o \in 1 .. p : w[o] = ss[l][j]
        <5>1. PICK o \in 1 .. p : u[o] = ss[l][j]
          BY <4>2, <4>4 DEF StandsAt
        <5>2. o \in 1 .. Len(u)
          BY <2>4, <3>1
        <5> QED
          BY <2>4, <5>1, <5>2
      <4>5. StandsAt(w, ss, p, k, q) /\ k \in 1 .. m + 1
        BY <2>1, <4>3, <4>4 DEF StandsAt
      <4> QED
        BY <4>5
    <3>2. CASE p \notin 1 .. Len(u)
      <4> DEFINE q == p - Len(u)
      <4>1. q \in 1 .. Len(v) /\ p = Len(u) + q
        BY <2>4, <3>2
      <4> HIDE DEF q
      <4>2. w[p] = ss[m + 1][q] /\ q \in DOMAIN ss[m + 1]
        BY <2>4, <4>1 DEF v
      <4>3. ASSUME NEW l \in 1 .. m + 1, NEW j \in DOMAIN ss[l], l < m + 1 \/ j <= q
            PROVE  \E o \in 1 .. p : w[o] = ss[l][j]
        <5>1. CASE l = m + 1
          <6>1. j \in 1 .. Len(v) /\ ss[l][j] = v[j]
            BY <2>4, <5>1 DEF v
          <6>2. j <= q
            BY <2>1, <4>3, <5>1
          <6>3. Len(u) + j \in 1 .. p
            BY <2>4, <4>1, <6>1, <6>2
          <6> QED
            BY <2>4, <6>1, <6>3
        <5>2. CASE l # m + 1
          <6>1. l \in 1 .. m
            BY <2>1, <5>2
          <6>2. PICK o \in 1 .. Len(u) : w[o] = ss[l][j]
            BY <2>5, <6>1
          <6>3. o \in 1 .. p
            BY <2>4, <4>1
          <6> QED
            BY <6>2, <6>3
        <5> QED
          BY <5>1, <5>2
      <4>4. StandsAt(w, ss, p, m + 1, q)
        BY <4>2, <4>3 DEF StandsAt
      <4>5. m + 1 \in 1 .. m + 1
        BY <2>1
      <4> QED
        BY <4>2, <4>4, <4>5
    <3> QED
      BY <3>1, <3>2
  <2> HIDE DEF Placed, Held
  <2> QED
    BY <2>1, <2>6, <2>7
<1>5. n \in T
  <2> HIDE DEF T
  <2>1. \A m \in 0 .. n : m \in T
    BY <1>1, <1>3, <1>4, UpTo
  <2> QED
    BY <1>1, <2>1
<1>6. Placed(n) /\ Held(n)
  BY <1>5
<1>7. h[n] \in Seq(S)
  BY <1>1
<1> DEFINE w == FlattenSeq(ss)
<1>8. w = h[n]
  BY <1>2
<1> HIDE DEF w
<1>9. \A p \in DOMAIN w : \E k \in DOMAIN ss : \E q \in DOMAIN ss[k] : StandsAt(w, ss, p, k, q)
  BY <1>1, <1>6, <1>8
<1>10. \A k \in DOMAIN ss : \A q \in DOMAIN ss[k] : \E p \in DOMAIN w : w[p] = ss[k][q]
  BY <1>1, <1>6, <1>8
<1> QED
  BY <1>7, <1>8, <1>9, <1>10 DEF w

-----------------------------------------------------------------------------
(* Sequences built element by element.                                     *)

\* The numbers up to the next one.
LEMMA OneMore ==
  ASSUME NEW m \in Nat
  PROVE  1 .. m + 1 = (1 .. m) \cup {m + 1}
OBVIOUS

\* One element more at the end.
LEMMA AppendRange ==
  ASSUME NEW S, NEW s \in Seq(S), NEW x \in S
  PROVE  /\ Append(s, x) \in Seq(S) /\ Len(Append(s, x)) = Len(s) + 1
         /\ DOMAIN Append(s, x) = 1 .. Len(s) + 1
         /\ Append(s, x)[Len(s) + 1] = x
         /\ \A i \in 1 .. Len(s) : Append(s, x)[i] = s[i]
         /\ Range(Append(s, x)) = Range(s) \cup {x}
<1>1. /\ Append(s, x) \in Seq(S) /\ Len(Append(s, x)) = Len(s) + 1
      /\ Append(s, x)[Len(s) + 1] = x
      /\ \A i \in 1 .. Len(s) : Append(s, x)[i] = s[i]
  BY AppendProperties
<1>2. DOMAIN s = 1 .. Len(s) /\ Len(s) \in Nat
  OBVIOUS
<1>3. DOMAIN Append(s, x) = 1 .. Len(s) + 1
  BY <1>1, <1>2
<1> DEFINE t == Append(s, x)
<1> HIDE DEF t
<1>4. /\ DOMAIN t = 1 .. Len(s) + 1 /\ t[Len(s) + 1] = x
      /\ \A i \in 1 .. Len(s) : t[i] = s[i]
  BY <1>1, <1>3 DEF t
<1>5. Range(t) = Range(s) \cup {x}
  <2>1. ASSUME NEW y \in Range(t)
        PROVE  y \in Range(s) \cup {x}
    <3>1. PICK i \in DOMAIN t : y = t[i]
      BY DEF Range
    <3>2. CASE i = Len(s) + 1
      BY <1>4, <3>1, <3>2
    <3>3. CASE i # Len(s) + 1
      <4>1. i \in 1 .. Len(s)
        BY <1>2, <1>4, <3>1, <3>3
      <4> QED
        BY <1>2, <1>4, <3>1, <4>1 DEF Range
    <3> QED
      BY <3>2, <3>3
  <2>2. ASSUME NEW y \in Range(s)
        PROVE  y \in Range(t)
    <3>1. PICK i \in DOMAIN s : y = s[i]
      BY DEF Range
    <3>2. i \in DOMAIN t /\ t[i] = y
      BY <1>2, <1>4, <3>1
    <3> QED
      BY <3>2 DEF Range
  <2>3. x \in Range(t)
    <3>1. Len(s) + 1 \in DOMAIN t
      BY <1>2, <1>4
    <3> QED
      BY <1>4, <3>1 DEF Range
  <2> QED
    BY <2>1, <2>2, <2>3
<1> QED
  BY <1>1, <1>3, <1>5 DEF t

\* r[k] has f[i] for the first k numbers i that are in K.
Picks(r, n, K, f) ==
  /\ r[0] = <<>>
  /\ \A k \in 1 .. n :
       r[k] = IF k \in K THEN Append(r[k - 1], f[k]) ELSE r[k - 1]

\* The elements of s stand in it as they do in f, at places in K.
InOrder(s, K, f) ==
  \A i, j \in DOMAIN s :
    i < j => \E a, b \in K : a < b /\ s[i] = f[a] /\ s[j] = f[b]

\* Some of the elements, put together one by one, keep their order.
LEMMA PickedInOrder ==
  ASSUME NEW n \in Nat, NEW S, NEW K \in SUBSET (1 .. n), NEW f \in [1 .. n -> S],
         NEW r \in [0 .. n -> Seq(S)], Picks(r, n, K, f)
  PROVE  Range(r[n]) = {f[k] : k \in K} /\ InOrder(r[n], K, f)
<1> USE DEF Picks, InOrder
<1> DEFINE Ordered(m) ==
      \A i, j \in DOMAIN r[m] :
        i < j => \E a, b \in K : /\ a < b /\ b <= m
                                 /\ r[m][i] = f[a] /\ r[m][j] = f[b]
           Ranged(m) == Range(r[m]) = {f[k] : k \in K \cap (1 .. m)}
           T == {m \in Nat : Ranged(m) /\ Ordered(m)}
<1>1. 0 \in T
  <2>1. DOMAIN r[0] = {} /\ K \cap (1 .. 0) = {}
    OBVIOUS
  <2> QED
    BY <2>1 DEF Range
<1>2. ASSUME NEW m \in 0 .. n - 1, m \in T
      PROVE  m + 1 \in T
  <2>1. m + 1 \in 1 .. n /\ (m + 1) - 1 = m /\ m \in 0 .. n /\ m \in Nat
    OBVIOUS
  <2>0. 1 .. m + 1 = (1 .. m) \cup {m + 1}
    BY <2>1, OneMore
  <2>2. Ranged(m) /\ Ordered(m)
    BY <1>2
  <2>3. CASE m + 1 \notin K
    <3>1. r[m + 1] = r[m]
      BY <2>1, <2>3
    <3>2. K \cap (1 .. m + 1) = K \cap (1 .. m)
      BY <2>0, <2>3
    <3>3. Ranged(m + 1)
      BY <2>2, <3>1, <3>2
    <3>4. Ordered(m + 1)
      <4> SUFFICES ASSUME NEW i \in DOMAIN r[m + 1], NEW j \in DOMAIN r[m + 1], i < j
                   PROVE  \E a, b \in K : /\ a < b /\ b <= m + 1
                                          /\ r[m + 1][i] = f[a] /\ r[m + 1][j] = f[b]
        OBVIOUS
      <4>1. PICK a \in K, b \in K : a < b /\ b <= m /\ r[m][i] = f[a] /\ r[m][j] = f[b]
        BY <2>2, <3>1
      <4>2. b <= m + 1
        BY <2>1, <4>1
      <4> QED
        BY <3>1, <4>1, <4>2
    <3> QED
      BY <2>1, <3>3, <3>4
  <2>4. CASE m + 1 \in K
    <3> DEFINE s == r[m]
               x == f[m + 1]
               t == r[m + 1]
    <3>1. s \in Seq(S) /\ x \in S /\ t = Append(s, x)
      BY <2>1, <2>4
    <3> HIDE DEF s, x, t
    <3>2. /\ Range(t) = Range(s) \cup {x} /\ DOMAIN t = 1 .. Len(s) + 1
          /\ t[Len(s) + 1] = x /\ \A i \in 1 .. Len(s) : t[i] = s[i]
      BY <3>1, AppendRange
    <3>3. DOMAIN s = 1 .. Len(s) /\ Len(s) \in Nat
      BY <3>1
    <3>4. Ranged(m + 1)
      <4>1. K \cap (1 .. m + 1) = (K \cap (1 .. m)) \cup {m + 1}
        BY <2>0, <2>4
      <4>2. Range(s) = {f[k] : k \in K \cap (1 .. m)}
        BY <2>2 DEF s
      <4> QED
        BY <3>2, <4>1, <4>2 DEF t, x
    <3>5. Ordered(m + 1)
      <4> SUFFICES ASSUME NEW i \in DOMAIN t, NEW j \in DOMAIN t, i < j
                   PROVE  \E a, b \in K : /\ a < b /\ b <= m + 1
                                          /\ t[i] = f[a] /\ t[j] = f[b]
        BY DEF t
      <4>1. i \in 1 .. Len(s) /\ t[i] = s[i]
        BY <3>2, <3>3
      <4>2. CASE j = Len(s) + 1
        <5>1. s[i] \in Range(s)
          BY <3>3, <4>1 DEF Range
        <5>2. PICK a \in K \cap (1 .. m) : s[i] = f[a]
          BY <2>2, <5>1 DEF s
        <5>3. a < m + 1 /\ m + 1 <= m + 1 /\ t[j] = f[m + 1]
          BY <2>1, <3>2, <4>2, <5>2 DEF x
        <5> QED
          BY <2>4, <4>1, <5>2, <5>3
      <4>3. CASE j # Len(s) + 1
        <5>1. j \in 1 .. Len(s) /\ t[j] = s[j]
          BY <3>2, <3>3, <4>3
        <5>0. i \in DOMAIN r[m] /\ j \in DOMAIN r[m] /\ i < j
          BY <3>3, <4>1, <5>1 DEF s
        <5> HIDE DEF Ranged, Picks, InOrder
        <5>2. PICK a \in K, b \in K :
                a < b /\ b <= m /\ r[m][i] = f[a] /\ r[m][j] = f[b]
          BY <2>2, <5>0
        <5>3. b <= m + 1
          BY <2>1, <5>2
        <5> QED
          BY <4>1, <5>1, <5>2, <5>3 DEF s
      <4> QED
        BY <4>2, <4>3
    <3> HIDE DEF Ranged, Ordered, Picks, InOrder
    <3> QED
      BY <2>1, <3>4, <3>5
  <2> QED
    BY <2>3, <2>4
<1>3. n \in T
  <2> HIDE DEF T
  <2>1. \A m \in 0 .. n : m \in T
    BY <1>1, <1>2, UpTo
  <2> QED
    BY <2>1
<1>4. Ranged(n) /\ Ordered(n)
  <2> HIDE DEF Ranged, Ordered, Picks, InOrder
  <2> QED
    BY <1>3
<1>5. K \cap (1 .. n) = K
  OBVIOUS
<1>6. Range(r[n]) = {f[k] : k \in K}
  BY <1>4, <1>5
<1>7. InOrder(r[n], K, f)
  BY <1>4
<1> QED
  BY <1>6, <1>7

\* r[k] has the first k elements of s, without those that are there already.
LeavesOut(r, s) ==
  /\ r[0] = <<>>
  /\ \A k \in 1 .. Len(s) :
       r[k] = IF s[k] \in Range(r[k - 1]) THEN r[k - 1] ELSE Append(r[k - 1], s[k])

\* o has each element of s once, in the order of their first places.
IsOnce(o, s) ==
  /\ Range(o) = Range(s) /\ IsInjective(o)
  /\ \A i, j \in DOMAIN o :
       i < j => \E p \in DOMAIN s : s[p] = o[i] /\ \A q \in 1 .. p : s[q] # o[j]

\* Without what is there already, each element is there once, at its first place.
LEMMA OnceInOrder ==
  ASSUME NEW S, NEW s \in Seq(S), NEW r \in [0 .. Len(s) -> Seq(S)], LeavesOut(r, s)
  PROVE  IsOnce(r[Len(s)], s)
<1> USE DEF LeavesOut, IsOnce
<1> DEFINE n == Len(s)
           Ordered(m) ==
             \A i, j \in DOMAIN r[m] :
               i < j => \E p \in 1 .. m :
                          s[p] = r[m][i] /\ \A q \in 1 .. p : s[q] # r[m][j]
           Ranged(m) == Range(r[m]) = {s[k] : k \in 1 .. m}
           T == {m \in Nat : Ranged(m) /\ IsInjective(r[m]) /\ Ordered(m)}
<1>0. n \in Nat /\ DOMAIN s = 1 .. n /\ \A k \in 1 .. n : s[k] \in S
  OBVIOUS
<1>1. 0 \in T
  <2>1. DOMAIN r[0] = {}
    OBVIOUS
  <2> QED
    BY <2>1 DEF Range, IsInjective
<1> HIDE DEF n
<1>2. ASSUME NEW m \in 0 .. n - 1, m \in T
      PROVE  m + 1 \in T
  <2>1. /\ m + 1 \in 1 .. n /\ (m + 1) - 1 = m /\ m \in 0 .. n /\ m \in Nat
        /\ 1 .. m + 1 = (1 .. m) \cup {m + 1}
    BY <1>0
  <2>2. Ranged(m) /\ IsInjective(r[m]) /\ Ordered(m)
    BY <1>2
  <2>3. CASE s[m + 1] \in Range(r[m])
    <3>1. r[m + 1] = r[m]
      BY <2>1, <2>3 DEF n
    <3>2. Ranged(m + 1)
      BY <2>1, <2>2, <2>3, <3>1
    <3>3. Ordered(m + 1)
      BY <2>1, <2>2, <3>1
    <3>4. IsInjective(r[m + 1])
      BY <2>2, <3>1
    <3> HIDE DEF Ranged, Ordered
    <3> QED
      BY <2>1, <3>2, <3>3, <3>4
  <2>4. CASE s[m + 1] \notin Range(r[m])
    <3> DEFINE u == r[m]
               x == s[m + 1]
               t == r[m + 1]
    <3>1. u \in Seq(S) /\ x \in S /\ t = Append(u, x)
      BY <1>0, <2>1, <2>4 DEF n
    <3>0. x \notin Range(u)
      BY <2>4
    <3> HIDE DEF u, x, t
    <3>2. /\ Range(t) = Range(u) \cup {x} /\ DOMAIN t = 1 .. Len(u) + 1
          /\ t[Len(u) + 1] = x /\ \A i \in 1 .. Len(u) : t[i] = u[i]
      BY <3>1, AppendRange
    <3>3. /\ DOMAIN u = 1 .. Len(u) /\ Len(u) \in Nat
          /\ \A i \in 1 .. Len(u) : u[i] \in Range(u)
      BY <3>1 DEF Range
    <3>4. Ranged(m + 1)
      <4>1. Range(u) = {s[k] : k \in 1 .. m}
        BY <2>2 DEF u
      <4> QED
        BY <2>1, <3>2, <4>1 DEF t, x
    <3>5. IsInjective(r[m + 1])
      <4> SUFFICES ASSUME NEW i \in DOMAIN t, NEW j \in DOMAIN t, t[i] = t[j]
                   PROVE  i = j
        BY DEF t, IsInjective
      <4>1. /\ i \in 1 .. Len(u) \/ i = Len(u) + 1
            /\ j \in 1 .. Len(u) \/ j = Len(u) + 1
        BY <3>2, <3>3
      <4>2. CASE i \in 1 .. Len(u) /\ j \in 1 .. Len(u)
        <5>1. u[i] = u[j]
          BY <3>2, <4>2
        <5>2. IsInjective(u)
          BY <2>2 DEF u
        <5> QED
          BY <3>3, <4>2, <5>1, <5>2 DEF IsInjective
      <4> QED
        BY <3>0, <3>2, <3>3, <4>1, <4>2
    <3>6. Ordered(m + 1)
      <4> SUFFICES ASSUME NEW i \in DOMAIN t, NEW j \in DOMAIN t, i < j
                   PROVE  \E p \in 1 .. m + 1 :
                            s[p] = t[i] /\ \A q \in 1 .. p : s[q] # t[j]
        BY DEF t
      <4>1. i \in 1 .. Len(u) /\ t[i] = u[i]
        BY <3>2, <3>3
      <4>2. CASE j = Len(u) + 1
        <5>1. u[i] \in Range(u)
          BY <3>3, <4>1
        <5>2. Range(u) = {s[k] : k \in 1 .. m}
          BY <2>2 DEF u
        <5>3. PICK p \in 1 .. m : s[p] = u[i]
          BY <5>1, <5>2
        <5>4. ASSUME NEW q \in 1 .. p
              PROVE  s[q] # t[j]
          <6>1. q \in 1 .. m
            BY <2>1, <5>3
          <6> QED
            BY <3>0, <3>2, <4>2, <5>2, <6>1
        <5> QED
          BY <2>1, <4>1, <5>3, <5>4
      <4>3. CASE j # Len(u) + 1
        <5>1. j \in 1 .. Len(u) /\ t[j] = u[j]
          BY <3>2, <3>3, <4>3
        <5>2. PICK p \in 1 .. m : s[p] = u[i] /\ \A q \in 1 .. p : s[q] # u[j]
          BY <2>2, <3>3, <4>1, <5>1 DEF u
        <5> QED
          BY <2>1, <4>1, <5>1, <5>2
      <4> QED
        BY <4>2, <4>3
    <3> QED
      BY <2>1, <3>4, <3>5, <3>6
  <2> QED
    BY <2>3, <2>4
<1>3. n \in T
  <2> HIDE DEF T
  <2>1. \A m \in 0 .. n : m \in T
    BY <1>0, <1>1, <1>2, UpTo
  <2> QED
    BY <1>0, <2>1
<1>4. Range(s) = {s[k] : k \in 1 .. n}
  BY <1>0 DEF Range
<1>5. Ranged(n) /\ IsInjective(r[n]) /\ Ordered(n)
  BY <1>3
<1>6. Range(r[n]) = Range(s)
  BY <1>4, <1>5
<1>7. ASSUME NEW i \in DOMAIN r[n], NEW j \in DOMAIN r[n], i < j
      PROVE  \E p \in DOMAIN s : s[p] = r[n][i] /\ \A q \in 1 .. p : s[q] # r[n][j]
  <2> HIDE DEF Ranged
  <2>1. \E p \in 1 .. n : s[p] = r[n][i] /\ \A q \in 1 .. p : s[q] # r[n][j]
    BY <1>5, <1>7
  <2> QED
    BY <1>0, <2>1
<1> HIDE DEF Ranged, Ordered
<1> QED
  BY <1>5, <1>6, <1>7 DEF n

\* A fold that appends what is not there yet leaves each element once.
LEMMA OnceFolded ==
  ASSUME NEW S, NEW s \in Seq(S)
  PROVE  LET o == FoldLeft(LAMBDA found, n : IF n \in Range(found) THEN found
                                             ELSE Append(found, n), <<>>, s)
         IN  o \in Seq(S) /\ IsOnce(o, s)
<1> DEFINE o == FoldLeft(LAMBDA found, n : IF n \in Range(found) THEN found
                                           ELSE Append(found, n), <<>>, s)
           n == Len(s)
           Is(g) == g = [t \in SUBSET (1 .. n) |->
                           IF t = {} THEN <<>>
                           ELSE IF s[Max(t)] \in Range(g[t \ {Max(t)}])
                                THEN g[t \ {Max(t)}]
                                ELSE Append(g[t \ {Max(t)}], s[Max(t)])]
           h == CHOOSE g : Is(g)
           V == Seq(S)
           e == <<>>
           G == [k \in 1 .. n |-> [v \in V |->
                   IF s[k] \in Range(v) THEN v ELSE Append(v, s[k])]]
<1>1. n \in Nat /\ DOMAIN s = 1 .. n /\ \A k \in 1 .. n : s[k] \in S
  OBVIOUS
<1>2. o = h[1 .. n]
  BY <1>1 DEF FoldLeft, MapThenFoldSet
<1> HIDE DEF n, o
<1>3. e \in V /\ G \in [1 .. n -> [V -> V]]
  BY <1>1
<1>4. \A k \in 1 .. n : \A v \in V :
        G[k][v] = IF s[k] \in Range(v) THEN v ELSE Append(v, s[k])
  OBVIOUS
<1> HIDE DEF G
<1>5. \E g : Is(g)
  <2>1. PICK g : IsFold(g, n, V, e, G)
    BY <1>1, <1>3, FoldExists
  <2>2. ASSUME NEW t \in SUBSET (1 .. n), t # {}
        PROVE  g[t] = IF s[Max(t)] \in Range(g[t \ {Max(t)}])
                      THEN g[t \ {Max(t)}]
                      ELSE Append(g[t \ {Max(t)}], s[Max(t)])
    <3>1. Max(t) \in 1 .. n /\ t \ {Max(t)} \in SUBSET (1 .. n)
      BY <1>1, <2>2, ShorterSets
    <3>2. g[t \ {Max(t)}] \in V
      BY <2>1, <3>1 DEF IsFold
    <3>3. g[t] = G[Max(t)][g[t \ {Max(t)}]]
      BY <2>1, <2>2 DEF IsFold
    <3> QED
      BY <1>4, <3>1, <3>2, <3>3
  <2>3. Is(g)
    BY <2>1, <2>2 DEF IsFold
  <2> QED
    BY <2>3
<1>6. Is(h)
  BY <1>5
<1>7. h[{}] = e
  <2> HIDE DEF h
  <2> QED
    BY <1>6
<1>8. Unfolds(h, n, V, e, G)
  <2> HIDE DEF h
  <2> SUFFICES ASSUME NEW t \in SUBSET (1 .. n), t # {}, h[t \ {Max(t)}] \in V
               PROVE  h[t] = G[Max(t)][h[t \ {Max(t)}]]
    BY <1>7 DEF Unfolds
  <2>1. Max(t) \in 1 .. n
    BY <1>1, ShorterSets
  <2>2. h[t] = IF s[Max(t)] \in Range(h[t \ {Max(t)}])
               THEN h[t \ {Max(t)}]
               ELSE Append(h[t \ {Max(t)}], s[Max(t)])
    BY <1>6
  <2> QED
    BY <1>4, <2>1, <2>2
<1> HIDE DEF h
<1>9. PICK r \in [0 .. n -> V] : RunsThrough(r, n, e, G) /\ r[n] = h[1 .. n]
  <2>1. n \in Nat /\ e \in V /\ G \in [1 .. n -> [V -> V]]
    BY <1>1, <1>3
  <2> HIDE DEF V, e
  <2> QED
    BY <2>1, <1>8, FoldRuns
<1>10. LeavesOut(r, s)
  <2>1. r[0] = <<>> /\ \A k \in 1 .. n : r[k] = G[k][r[k - 1]]
    BY <1>9 DEF RunsThrough
  <2>2. ASSUME NEW k \in 1 .. n
        PROVE  r[k] = IF s[k] \in Range(r[k - 1]) THEN r[k - 1]
                      ELSE Append(r[k - 1], s[k])
    <3>1. k - 1 \in 0 .. n
      BY <1>1
    <3>2. r[k - 1] \in V
      BY <3>1
    <3> QED
      BY <1>4, <2>1, <3>2
  <2> QED
    BY <2>1, <2>2 DEF LeavesOut, n
<1>11. IsOnce(r[Len(s)], s)
  <2>1. r \in [0 .. Len(s) -> Seq(S)]
    BY DEF n
  <2> QED
    BY <1>10, <2>1, OnceInOrder
<1>12. o = r[Len(s)] /\ r[Len(s)] \in Seq(S)
  BY <1>1, <1>2, <1>9 DEF n
<1> QED
  BY <1>11, <1>12 DEF o

\* A set of naturals that is not empty has its minimum in it.
LEMMA MinIn ==
  ASSUME NEW s, s \subseteq Nat, s # {}
  PROVE  Min(s) \in s /\ \A y \in s : Min(s) <= y
BY Least DEF Min

\* The greatest of some naturals and 0, folded.
LEMMA GreatestFolded ==
  ASSUME NEW s \in Seq(Nat), NEW limit \in Nat
  PROVE  LET o == FoldLeft(LAMBDA m, x : IF x > m THEN x ELSE m, 0, s)
         IN  o \in Nat /\ (o > limit <=> \E i \in DOMAIN s : s[i] > limit)
<1> DEFINE o == FoldLeft(LAMBDA m, x : IF x > m THEN x ELSE m, 0, s)
           n == Len(s)
           Is(g) == g = [t \in SUBSET (1 .. n) |->
                           IF t = {} THEN 0
                           ELSE IF s[Max(t)] > g[t \ {Max(t)}]
                                THEN s[Max(t)] ELSE g[t \ {Max(t)}]]
           h == CHOOSE g : Is(g)
           G == [k \in 1 .. n |-> [v \in Nat |-> IF s[k] > v THEN s[k] ELSE v]]
<1>1. n \in Nat /\ DOMAIN s = 1 .. n /\ \A k \in 1 .. n : s[k] \in Nat
  OBVIOUS
<1>2. o = h[1 .. n]
  BY <1>1 DEF FoldLeft, MapThenFoldSet
<1> HIDE DEF n, o
<1>3. G \in [1 .. n -> [Nat -> Nat]]
  BY <1>1
<1>4. \A k \in 1 .. n : \A v \in Nat : G[k][v] = IF s[k] > v THEN s[k] ELSE v
  OBVIOUS
<1> HIDE DEF G
<1>5. \E g : Is(g)
  <2>1. PICK g : IsFold(g, n, Nat, 0, G)
    BY <1>1, <1>3, FoldExists
  <2>2. ASSUME NEW t \in SUBSET (1 .. n), t # {}
        PROVE  g[t] = IF s[Max(t)] > g[t \ {Max(t)}]
                      THEN s[Max(t)] ELSE g[t \ {Max(t)}]
    <3>1. Max(t) \in 1 .. n /\ t \ {Max(t)} \in SUBSET (1 .. n)
      BY <1>1, <2>2, ShorterSets
    <3>2. g[t \ {Max(t)}] \in Nat
      BY <2>1, <3>1 DEF IsFold
    <3>3. g[t] = G[Max(t)][g[t \ {Max(t)}]]
      BY <2>1, <2>2 DEF IsFold
    <3> QED
      BY <1>4, <3>1, <3>2, <3>3
  <2>3. Is(g)
    BY <2>1, <2>2 DEF IsFold
  <2> QED
    BY <2>3
<1>6. Is(h)
  BY <1>5
<1>7. h[{}] = 0
  <2> HIDE DEF h
  <2> QED
    BY <1>6
<1>8. Unfolds(h, n, Nat, 0, G)
  <2> HIDE DEF h
  <2> SUFFICES ASSUME NEW t \in SUBSET (1 .. n), t # {}, h[t \ {Max(t)}] \in Nat
               PROVE  h[t] = G[Max(t)][h[t \ {Max(t)}]]
    BY <1>7 DEF Unfolds
  <2>1. Max(t) \in 1 .. n
    BY <1>1, ShorterSets
  <2>2. h[t] = IF s[Max(t)] > h[t \ {Max(t)}]
               THEN s[Max(t)] ELSE h[t \ {Max(t)}]
    BY <1>6
  <2> QED
    BY <1>4, <2>1, <2>2
<1> HIDE DEF h
<1>9. PICK r \in [0 .. n -> Nat] : RunsThrough(r, n, 0, G) /\ r[n] = h[1 .. n]
  <2> DEFINE V == Nat
             e == 0
  <2>1. n \in Nat /\ e \in V /\ G \in [1 .. n -> [V -> V]]
    BY <1>1, <1>3
  <2>2. Unfolds(h, n, V, e, G)
    BY <1>8
  <2>3. V = Nat /\ e = 0
    OBVIOUS
  <2> HIDE DEF V, e
  <2>4. \E r \in [0 .. n -> V] : RunsThrough(r, n, e, G) /\ r[n] = h[1 .. n]
    BY <2>1, <2>2, FoldRuns
  <2> QED
    BY <2>3, <2>4
<1>10. /\ r[0] = 0
       /\ \A k \in 1 .. n : r[k] = IF s[k] > r[k - 1] THEN s[k] ELSE r[k - 1]
  <2>1. r[0] = 0 /\ \A k \in 1 .. n : r[k] = G[k][r[k - 1]]
    BY <1>9 DEF RunsThrough
  <2>2. \A k \in 1 .. n : k - 1 \in 0 .. n
    BY <1>1
  <2> QED
    BY <1>4, <2>1, <2>2
<1> DEFINE T == {k \in 0 .. n : r[k] > limit <=> \E i \in 1 .. k : s[i] > limit}
<1>11. \A k \in 0 .. n : k \in T
  <2>1. 0 \in T
    BY <1>1, <1>10
  <2>2. ASSUME NEW k \in 0 .. n - 1, k \in T
        PROVE  k + 1 \in T
    <3>1. k + 1 \in 1 .. n /\ (k + 1) - 1 = k /\ k \in 0 .. n
      BY <1>1
    <3>2. r[k + 1] = IF s[k + 1] > r[k] THEN s[k + 1] ELSE r[k]
      BY <1>10, <3>1
    <3>3. r[k] > limit <=> \E i \in 1 .. k : s[i] > limit
      BY <2>2
    <3>4. r[k] \in Nat /\ s[k + 1] \in Nat
      BY <1>1, <3>1
    <3>5. r[k + 1] > limit <=> (r[k] > limit \/ s[k + 1] > limit)
      BY <3>2, <3>4
    <3>6. (\E i \in 1 .. k + 1 : s[i] > limit)
            <=> ((\E i \in 1 .. k : s[i] > limit) \/ s[k + 1] > limit)
      BY <3>1
    <3> QED
      BY <3>1, <3>3, <3>5, <3>6
  <2> HIDE DEF T
  <2> QED
    BY <1>1, <2>1, <2>2, UpTo
<1>12. r[n] > limit <=> \E i \in 1 .. n : s[i] > limit
  BY <1>1, <1>11
<1>13. o = r[n] /\ r[n] \in Nat
  BY <1>1, <1>2, <1>9
<1>14. o \in Nat /\ (o > limit <=> \E i \in DOMAIN s : s[i] > limit)
  BY <1>1, <1>12, <1>13
<1> QED
  BY <1>14 DEF o
=============================================================================
