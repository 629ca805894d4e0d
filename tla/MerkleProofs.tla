----------------------------- MODULE MerkleProofs -----------------------------
(***************************************************************************)
(* That BuildTree's proofs verify, and that its root is the documented     *)
(* one, for every set of leaf sequences and every cap on the proofs.       *)
(***************************************************************************)
EXTENDS Merkle, FiniteSetTheorems, SequenceTheorems, TLAPS

-----------------------------------------------------------------------------
(* Numbers.                                                                *)

\* What holds of 0 and is kept by the successor holds of every number.
LEMMA Successors ==
    ASSUME NEW S, 0 \in S, \A n \in Nat : n \in S => n + 1 \in S
    PROVE  Nat \subseteq S
<1> DEFINE R == {p \in Nat \X Nat : p[1] < p[2]}
           Rest == {n \in Nat : n \notin S}
<1>1. IsWellFoundedOn(R, Nat)
  BY NatLessThanWellFounded DEF OpToRel
<1> HIDE DEF R
<1> SUFFICES ASSUME Rest # {} PROVE FALSE
  OBVIOUS
<1>2. PICK n \in Rest : \A m \in Rest : ~ (<<m, n>> \in R)
  BY <1>1, WFMin
<1>3. n \in Nat \ {0} /\ n - 1 \in Nat /\ n - 1 < n
  OBVIOUS
<1>4. n - 1 \notin Rest
  BY <1>2, <1>3 DEF R
<1> QED
  BY <1>3, <1>4

\* The subsets of n + 1 things are those of n, each with and without the last.
LEMMA PowerStep ==
    ASSUME NEW n \in Nat
    PROVE  2^n \in Nat /\ 2^(n + 1) = 2 * 2^n
<1> DEFINE S == 1 .. n
           T == 1 .. n + 1
           With == {A \cup {n + 1} : A \in SUBSET S}
           f == [A \in SUBSET S |-> A \cup {n + 1}]
<1>1. /\ IsFiniteSet(S) /\ Cardinality(S) = n
      /\ IsFiniteSet(T) /\ Cardinality(T) = n + 1
  BY FS_Interval
<1>2. /\ IsFiniteSet(SUBSET S) /\ Cardinality(SUBSET S) = 2^n
      /\ Cardinality(SUBSET T) = 2^(n + 1)
  BY <1>1, FS_SUBSET
<1>3. f \in Bijection(SUBSET S, With)
  <2>1. f \in [SUBSET S -> With] /\ \A B \in With : \E A \in SUBSET S : f[A] = B
    OBVIOUS
  <2>2. \A A, B \in SUBSET S : f[A] = f[B] => A = B
    <3> SUFFICES ASSUME NEW A \in SUBSET S, NEW B \in SUBSET S, A \cup {n + 1} = B \cup {n + 1}
                 PROVE  A = B
      OBVIOUS
    <3>1. n + 1 \notin A /\ n + 1 \notin B
      OBVIOUS
    <3> QED
      BY <3>1
  <2> HIDE DEF f, With
  <2> QED
    BY <2>1, <2>2 DEF Bijection, Injection, Surjection, IsInjective
<1>4. SUBSET T = (SUBSET S) \cup With /\ (SUBSET S) \cap With = {}
  <2>1. T = S \cup {n + 1} /\ n + 1 \notin S
    OBVIOUS
  <2> HIDE DEF S, T
  <2>2. ASSUME NEW A \in SUBSET T PROVE A \in (SUBSET S) \cup With
    <3>1. CASE n + 1 \in A
      <4>1. A \ {n + 1} \in SUBSET S /\ A = (A \ {n + 1}) \cup {n + 1}
        BY <2>1, <3>1
      <4> QED
        BY <4>1
    <3>2. CASE n + 1 \notin A
      BY <2>1, <3>2
    <3> QED
      BY <3>1, <3>2
  <2>3. ASSUME NEW A \in With PROVE A \in SUBSET T /\ A \notin SUBSET S
    BY <2>1
  <2>4. SUBSET S \subseteq SUBSET T
    BY <2>1
  <2> HIDE DEF With
  <2> QED
    BY <2>2, <2>3, <2>4
<1> HIDE DEF f, S, T, With
<1>5. IsFiniteSet(With) /\ Cardinality(With) = 2^n
  <2>1. ExistsBijection(SUBSET S, With)
    BY <1>3 DEF ExistsBijection
  <2> QED
    BY <1>2, <2>1, FS_Bijection
<1>6. Cardinality(SUBSET T) = 2^n + 2^n - 0
  BY <1>2, <1>4, <1>5, FS_Union, FS_EmptySet
<1>7. 2^n \in Nat
  BY <1>2, FS_CardinalityType
<1> QED
  BY <1>2, <1>6, <1>7

\* Powers of two exceed their exponents, and grow with them.
LEMMA PowersGrow ==
    ASSUME NEW e \in Nat
    PROVE  /\ 2^e \in Nat /\ 2^e > e
           /\ \A d \in Nat : d > e => 2 * 2^e <= 2^d
<1>1. 2^0 = 1
  OBVIOUS
<1> DEFINE A == {n \in Nat : 2^n > n}
           B == {n \in Nat : 2 * 2^e <= 2^(e + n + 1)}
<1>2. Nat \subseteq A
  <2>1. \A n \in Nat : n \in A => n + 1 \in A
    <3> SUFFICES ASSUME NEW n \in Nat, 2^n > n PROVE 2^(n + 1) > n + 1
      OBVIOUS
    <3> QED
      BY PowerStep
  <2>2. 0 \in A
    BY <1>1
  <2> HIDE DEF A
  <2> QED
    BY <2>1, <2>2, Successors
<1>3. Nat \subseteq B
  <2>1. \A n \in Nat : n \in B => n + 1 \in B
    <3> SUFFICES ASSUME NEW n \in Nat, 2 * 2^e <= 2^(e + n + 1)
                 PROVE  2 * 2^e <= 2^(e + (n + 1) + 1)
      OBVIOUS
    <3>1. e + n + 1 \in Nat /\ e + (n + 1) + 1 = (e + n + 1) + 1
      OBVIOUS
    <3>2. 2^(e + n + 1) \in Nat /\ 2^((e + n + 1) + 1) = 2 * 2^(e + n + 1)
      BY <3>1, PowerStep
    <3> QED
      BY <3>1, <3>2, PowerStep
  <2>2. 0 \in B
    <3>1. e + 0 + 1 = e + 1
      OBVIOUS
    <3>2. 2^(e + 0 + 1) = 2 * 2^e
      BY <3>1, PowerStep
    <3> QED
      BY <3>2, PowerStep
  <2> HIDE DEF B
  <2> QED
    BY <2>1, <2>2, Successors
<1>4. ASSUME NEW d \in Nat, d > e PROVE 2 * 2^e <= 2^d
  <2>1. PICK n \in Nat : d = e + n + 1
    <3>1. d - e - 1 \in Nat /\ d = e + (d - e - 1) + 1
      BY <1>4
    <3> QED
      BY <3>1
  <2>2. n \in B
    BY <1>3
  <2> QED
    BY <2>1, <2>2
<1> QED
  BY <1>2, <1>4, PowerStep

\* The largest power of two below a number, and that it is the only one.
LEMMA SplitIsTheOne ==
    ASSUME NEW h \in Nat, NEW m \in Nat, 2^h < m, m <= 2 * 2^h
    PROVE  Split(m) = 2^h
<1>1. 2^h \in {2^e : e \in 0 .. m} /\ 2^h \in Nat
  BY PowersGrow
<1>2. ASSUME NEW e \in 0 .. m, 2^e < m, m <= 2 * 2^e PROVE 2^e = 2^h
  <2>1. 2^e \in Nat /\ e \in Nat
    BY PowersGrow
  <2>2. e > h => 2 * 2^h <= 2^e
    BY <2>1, PowersGrow
  <2>3. h > e => 2 * 2^e <= 2^h
    BY <2>1, PowersGrow
  <2>4. e = h
    BY <1>1, <1>2, <2>1, <2>2, <2>3
  <2> QED
    BY <2>4
<1> QED
  BY <1>1, <1>2 DEF Split

LEMMA SplitSplits ==
    ASSUME NEW m \in Nat, m > 1
    PROVE  Split(m) \in 1 .. m - 1
<1> DEFINE A == {n \in Nat : n > 1 => \E e \in Nat : 2^e < n /\ n <= 2 * 2^e}
<1>1. 0 \in A
  OBVIOUS
<1>2. \A n \in Nat : n \in A => n + 1 \in A
  <2> SUFFICES ASSUME NEW n \in Nat, n \in A, n > 0
               PROVE  \E e \in Nat : 2^e < n + 1 /\ n + 1 <= 2 * 2^e
    OBVIOUS
  <2>1. CASE n = 1
    <3>1. 2^0 < n + 1 /\ n + 1 <= 2 * 2^0
      BY <2>1
    <3> QED
      BY <3>1
  <2>2. CASE n > 1
    <3>1. PICK e \in Nat : 2^e < n /\ n <= 2 * 2^e
      BY <2>2
    <3>2. 2^e \in Nat /\ e + 1 \in Nat /\ 2^(e + 1) = 2 * 2^e /\ 2^e > e
      BY PowerStep, PowersGrow
    <3>3. CASE n < 2 * 2^e
      <4>1. 2^e < n + 1 /\ n + 1 <= 2 * 2^e
        BY <3>1, <3>2, <3>3
      <4> QED
        BY <4>1
    <3>4. CASE n = 2 * 2^e
      <4>1. 2^(e + 1) < n + 1 /\ n + 1 <= 2 * 2^(e + 1)
        BY <3>2, <3>4
      <4> QED
        BY <3>2, <4>1
    <3> QED
      BY <3>1, <3>2, <3>3, <3>4
  <2> QED
    BY <2>1, <2>2
<1>3. m \in A
  <2> HIDE DEF A
  <2> QED
    BY <1>1, <1>2, Successors
<1>4. PICK e \in Nat : 2^e < m /\ m <= 2 * 2^e
  BY <1>3
<1>5. 2^e \in Nat /\ 2^e > e
  BY PowersGrow
<1>6. Split(m) = 2^e
  BY <1>4, SplitIsTheOne
<1> QED
  BY <1>4, <1>5, <1>6

-----------------------------------------------------------------------------
(* Folding.                                                                *)

\* Any sequence.
IsSeq(s) == s \in Seq(Range(s))

LEMMA SeqFacts ==
    ASSUME NEW s, IsSeq(s)
    PROVE  Len(s) \in Nat /\ DOMAIN s = 1 .. Len(s)
BY DEF IsSeq

LEMMA AppendFacts ==
    ASSUME NEW s, IsSeq(s), NEW x
    PROVE  /\ IsSeq(Append(s, x))
           /\ Len(Append(s, x)) = Len(s) + 1
           /\ \A j \in 1 .. Len(s) : Append(s, x)[j] = s[j]
           /\ Append(s, x)[Len(s) + 1] = x
<1>1. s \in Seq(Range(s) \cup {x}) /\ Len(s) \in Nat
  BY DEF IsSeq
<1>2. Append(s, x) \in Seq(Range(s) \cup {x})
  BY <1>1
<1>3. /\ Len(Append(s, x)) = Len(s) + 1
      /\ \A j \in 1 .. Len(s) : Append(s, x)[j] = s[j]
      /\ Append(s, x)[Len(s) + 1] = x
  BY <1>1
<1>4. Append(s, x) \in Seq(Range(Append(s, x)))
  BY <1>2 DEF Range
<1> QED
  BY <1>3, <1>4 DEF IsSeq

LEMMA LastOfInterval ==
    ASSUME NEW n \in Nat, NEW S \in SUBSET (1 .. n + 1), n + 1 \in S
    PROVE  Max(S) = n + 1
<1>1. \A y \in S : n + 1 >= y
  OBVIOUS
<1>2. \A x \in S : (\A y \in S : x >= y) => x = n + 1
  OBVIOUS
<1> QED
  BY <1>1, <1>2 DEF Max

\* f folds leaf through the siblings at any set of the first n positions of p.
FoldsThrough(f, leaf, p, n) ==
    f = [S \in SUBSET (1 .. n) |->
            IF S = {} THEN leaf ELSE SortedPairHash(f[S \ {Max(S)}], p[Max(S)])]

\* The function FoldLeft picks exists: it is built up one position at a time.
LEMMA FoldIsDefined ==
    ASSUME NEW leaf, NEW p, NEW n \in Nat
    PROVE  \E f : FoldsThrough(f, leaf, p, n)
<1> DEFINE Good(f, m) == FoldsThrough(f, leaf, p, m)
           A == {m \in Nat : \E f : Good(f, m)}
<1>1. 0 \in A
  <2> DEFINE f == [S \in SUBSET (1 .. 0) |-> leaf]
  <2>1. \A S \in SUBSET (1 .. 0) : S = {}
    <3>1. 1 .. 0 = {}
      OBVIOUS
    <3> QED
      BY <3>1
  <2>2. Good(f, 0)
    BY <2>1 DEF FoldsThrough
  <2> QED
    BY <2>2
<1>2. \A m \in Nat : m \in A => m + 1 \in A
  <2> SUFFICES ASSUME NEW m \in Nat, NEW f, Good(f, m) PROVE \E g : Good(g, m + 1)
    OBVIOUS
  <2> DEFINE g == [S \in SUBSET (1 .. m + 1) |->
                     IF m + 1 \in S THEN SortedPairHash(f[S \ {m + 1}], p[m + 1]) ELSE f[S]]
  <2>1. \A S \in SUBSET (1 .. m + 1) : m + 1 \notin S => S \in SUBSET (1 .. m)
    OBVIOUS
  <2>2. \A S \in SUBSET (1 .. m) : g[S] = f[S]
    OBVIOUS
  <2>3. ASSUME NEW S \in SUBSET (1 .. m + 1)
        PROVE  g[S] = IF S = {} THEN leaf
                      ELSE SortedPairHash(g[S \ {Max(S)}], p[Max(S)])
    <3>1. CASE m + 1 \in S
      <4>1. Max(S) = m + 1 /\ S \ {m + 1} \in SUBSET (1 .. m)
        BY <3>1, LastOfInterval
      <4>2. g[S \ {m + 1}] = f[S \ {m + 1}]
        BY <2>2, <4>1
      <4> QED
        BY <3>1, <4>1, <4>2
    <3>2. CASE m + 1 \notin S
      <4>1. S \in SUBSET (1 .. m) /\ S \ {Max(S)} \in SUBSET (1 .. m)
        BY <2>1, <3>2
      <4>2. g[S] = f[S] /\ g[S \ {Max(S)}] = f[S \ {Max(S)}]
        BY <2>2, <4>1
      <4> QED
        BY <4>1, <4>2 DEF FoldsThrough
    <3> QED
      BY <3>1, <3>2
  <2>4. Good(g, m + 1)
    <3> HIDE DEF g
    <3>1. g = [S \in SUBSET (1 .. m + 1) |-> g[S]]
      BY DEF g
    <3> QED
      BY <2>3, <3>1 DEF FoldsThrough
  <2> QED
    BY <2>4
<1>3. n \in A
  <2> HIDE DEF A
  <2> QED
    BY <1>1, <1>2, Successors
<1> QED
  BY <1>3

\* Fold, one sibling after the other.
LEMMA FoldUnfolds ==
    ASSUME NEW leaf, NEW p, IsSeq(p)
    PROVE  \E F : /\ F[0] = leaf
                  /\ \A k \in 1 .. Len(p) : F[k] = SortedPairHash(F[k - 1], p[k])
                  /\ Fold(leaf, p) = F[Len(p)]
<1> DEFINE n == Len(p)
           f == CHOOSE g : FoldsThrough(g, leaf, p, n)
           F == [k \in 0 .. n |-> f[1 .. k]]
<1>0. n \in Nat /\ DOMAIN p = 1 .. n
  BY SeqFacts
<1>1. Fold(leaf, p) = f[1 .. n]
  BY <1>0 DEF Fold, FoldLeft, MapThenFoldSet, FoldsThrough
<1>2. FoldsThrough(f, leaf, p, n)
  BY <1>0, FoldIsDefined
<1>3. Fold(leaf, p) = F[n]
  BY <1>0, <1>1
<1> HIDE DEF f
<1>4. F[0] = leaf
  <2>1. 1 .. 0 = {}
    OBVIOUS
  <2> QED
    BY <1>0, <1>2, <2>1 DEF FoldsThrough
<1>5. ASSUME NEW k \in 1 .. n PROVE F[k] = SortedPairHash(F[k - 1], p[k])
  <2>1. k - 1 \in Nat /\ (k - 1) + 1 = k /\ 1 .. k \in SUBSET (1 .. n) /\ k \in 1 .. k
    BY <1>0
  <2>2. Max(1 .. k) = k
    BY <2>1, LastOfInterval
  <2>3. (1 .. k) \ {k} = 1 .. k - 1
    BY <2>1
  <2>4. f[1 .. k] = SortedPairHash(f[1 .. k - 1], p[k])
    BY <1>2, <2>1, <2>2, <2>3 DEF FoldsThrough
  <2> QED
    BY <1>0, <2>1, <2>4
<1> HIDE DEF F
<1> QED
  BY <1>3, <1>4, <1>5

LEMMA FoldOfNone ==
    ASSUME NEW leaf
    PROVE  IsSeq(<<>>) /\ Fold(leaf, <<>>) = leaf
<1>1. IsSeq(<<>>) /\ Len(<<>>) = 0
  BY DEF IsSeq
<1> QED
  BY <1>1, FoldUnfolds

\* What a turn of BuildTree does to a proof: the fold goes on from where it was.
LEMMA FoldOfAppend ==
    ASSUME NEW leaf, NEW p, IsSeq(p), NEW x
    PROVE  Fold(leaf, Append(p, x)) = SortedPairHash(Fold(leaf, p), x)
<1> DEFINE n == Len(p)
           q == Append(p, x)
<1>1. n \in Nat /\ IsSeq(q) /\ Len(q) = n + 1 /\ q[n + 1] = x /\ \A k \in 1 .. n : q[k] = p[k]
  BY AppendFacts, SeqFacts
<1>2. PICK F : /\ F[0] = leaf
               /\ \A k \in 1 .. n : F[k] = SortedPairHash(F[k - 1], p[k])
               /\ Fold(leaf, p) = F[n]
  BY FoldUnfolds
<1> HIDE DEF q
<1>3. PICK G : /\ G[0] = leaf
               /\ \A k \in 1 .. n + 1 : G[k] = SortedPairHash(G[k - 1], q[k])
               /\ Fold(leaf, q) = G[n + 1]
  BY <1>1, FoldUnfolds
<1> DEFINE A == {k \in Nat : k <= n => G[k] = F[k]}
<1>4. Nat \subseteq A
  <2>1. 0 \in A
    BY <1>2, <1>3
  <2>2. \A k \in Nat : k \in A => k + 1 \in A
    <3> SUFFICES ASSUME NEW k \in Nat, G[k] = F[k], k + 1 <= n PROVE G[k + 1] = F[k + 1]
      OBVIOUS
    <3>1. k + 1 \in 1 .. n /\ k + 1 \in 1 .. n + 1 /\ (k + 1) - 1 = k
      BY <1>1
    <3>2. F[k + 1] = SortedPairHash(F[k], p[k + 1])
      BY <1>2, <3>1
    <3>3. G[k + 1] = SortedPairHash(G[k], q[k + 1])
      BY <1>3, <3>1
    <3> QED
      BY <1>1, <3>1, <3>2, <3>3
  <2> HIDE DEF A
  <2> QED
    BY <2>1, <2>2, Successors
<1>5. G[n] = F[n]
  BY <1>1, <1>4
<1>6. n + 1 \in 1 .. n + 1 /\ (n + 1) - 1 = n
  BY <1>1
<1>7. G[n + 1] = SortedPairHash(G[n], q[n + 1])
  BY <1>3, <1>6
<1> QED
  BY <1>1, <1>2, <1>3, <1>5, <1>7 DEF q

\* Two leaves that fold to one node through one proof are the same leaf.
LEMMA FoldIsInjective ==
    ASSUME NEW x, NEW y, NEW p, IsSeq(p), Fold(x, p) = Fold(y, p)
    PROVE  x = y
<1> DEFINE n == Len(p)
<1>0. n \in Nat
  BY SeqFacts
<1>1. PICK F : /\ F[0] = x
               /\ \A k \in 1 .. n : F[k] = SortedPairHash(F[k - 1], p[k])
               /\ Fold(x, p) = F[n]
  BY FoldUnfolds
<1>2. PICK G : /\ G[0] = y
               /\ \A k \in 1 .. n : G[k] = SortedPairHash(G[k - 1], p[k])
               /\ Fold(y, p) = G[n]
  BY FoldUnfolds
<1>3. \A a, b, c : SortedPairHash(a, c) = SortedPairHash(b, c) => a = b
  <2> TAKE a, b, c
  <2>1. {a, c} = {b, c} => a = b
    OBVIOUS
  <2> QED
    BY <2>1 DEF SortedPairHash
<1> DEFINE A == {k \in Nat : k <= n /\ F[k] = G[k] => x = y}
<1>4. Nat \subseteq A
  <2>1. 0 \in A
    BY <1>1, <1>2
  <2>2. \A k \in Nat : k \in A => k + 1 \in A
    <3> SUFFICES ASSUME NEW k \in Nat, k \in A, k + 1 <= n, F[k + 1] = G[k + 1]
                 PROVE  x = y
      OBVIOUS
    <3>1. k + 1 \in 1 .. n /\ (k + 1) - 1 = k /\ k <= n
      BY <1>0
    <3>2. F[k + 1] = SortedPairHash(F[k], p[k + 1]) /\ G[k + 1] = SortedPairHash(G[k], p[k + 1])
      BY <1>1, <1>2, <3>1
    <3>3. F[k] = G[k]
      BY <1>3, <3>2
    <3> QED
      BY <3>1, <3>3
  <2> HIDE DEF A
  <2> QED
    BY <2>1, <2>2, Successors
<1>5. F[n] = G[n] /\ n \in A
  BY <1>0, <1>1, <1>2, <1>4
<1> QED
  BY <1>0, <1>5

-----------------------------------------------------------------------------
(* The root by recursion.                                                  *)

\* f gives the roots over at most n leaves of ls.
RootsUpTo(f, ls, n) ==
    f = [m \in 1 .. n |->
            [lo \in 1 .. Len(ls) + 1 - m |->
                IF m = 1 THEN ls[lo]
                ELSE SortedPairHash(f[Split(m)][lo], f[m - Split(m)][lo + Split(m)])]]

\* The recursion only ever asks for fewer leaves, so there is such a function.
LEMMA RootsAreDefined ==
    ASSUME NEW ls, NEW n \in Nat
    PROVE  \E f : RootsUpTo(f, ls, n)
<1> DEFINE A == {m \in Nat : \E f : RootsUpTo(f, ls, m)}
           Node(f, m, lo) ==
              IF m = 1 THEN ls[lo]
              ELSE SortedPairHash(f[Split(m)][lo], f[m - Split(m)][lo + Split(m)])
           Row(f, m) == [lo \in 1 .. Len(ls) + 1 - m |-> Node(f, m, lo)]
<1>1. 0 \in A
  <2> DEFINE f == [m \in 1 .. 0 |-> 0]
  <2>1. 1 .. 0 = {}
    OBVIOUS
  <2>2. RootsUpTo(f, ls, 0)
    BY <2>1 DEF RootsUpTo
  <2> QED
    BY <2>2
<1>2. \A m \in Nat : m \in A => m + 1 \in A
  <2> SUFFICES ASSUME NEW m \in Nat, NEW f, RootsUpTo(f, ls, m)
               PROVE  \E g : RootsUpTo(g, ls, m + 1)
    OBVIOUS
  <2>1. \A k \in 1 .. m : f[k] = Row(f, k)
    BY DEF RootsUpTo
  <2> DEFINE g == [k \in 1 .. m + 1 |-> Row(f, k)]
  <2>2. \A k \in 1 .. m : g[k] = f[k]
    BY <2>1
  <2>3. ASSUME NEW k \in 1 .. m + 1 PROVE Row(g, k) = Row(f, k)
    <3>1. CASE k = 1
      BY <3>1
    <3>2. CASE k > 1
      <4>1. Split(k) \in 1 .. k - 1
        BY <3>2, SplitSplits
      <4>2. Split(k) \in 1 .. m /\ k - Split(k) \in 1 .. m
        BY <4>1
      <4>3. g[Split(k)] = f[Split(k)] /\ g[k - Split(k)] = f[k - Split(k)]
        BY <2>2, <4>2
      <4> HIDE DEF g
      <4>4. \A lo : Node(g, k, lo) = Node(f, k, lo)
        BY <4>3
      <4> HIDE DEF Node
      <4> QED
        BY <4>4
    <3> HIDE DEF Row
    <3> QED
      BY <3>1, <3>2
  <2>4. g = [k \in 1 .. m + 1 |-> Row(g, k)]
    <3> HIDE DEF Row
    <3>1. \A k \in 1 .. m + 1 : Row(g, k) = Row(f, k)
      BY <2>3
    <3> QED
      BY <3>1
  <2>5. RootsUpTo(g, ls, m + 1)
    BY <2>4 DEF RootsUpTo
  <2> QED
    BY <2>5
<1>3. n \in A
  <2> HIDE DEF A
  <2> QED
    BY <1>1, <1>2, Successors
<1> QED
  BY <1>3

\* TreeOver, one node at a time.
LEMMA TreeUnfolds ==
    ASSUME NEW ls, Len(ls) \in Nat, NEW m \in 1 .. Len(ls), NEW lo \in 1 .. Len(ls) + 1 - m
    PROVE  TreeOver(ls)[m][lo] =
              IF m = 1 THEN ls[lo]
              ELSE SortedPairHash(TreeOver(ls)[Split(m)][lo],
                                  TreeOver(ls)[m - Split(m)][lo + Split(m)])
<1>1. TreeOver(ls) = CHOOSE f : RootsUpTo(f, ls, Len(ls))
  BY DEF TreeOver, RootsUpTo
<1>2. PICK f : f = TreeOver(ls) /\ RootsUpTo(f, ls, Len(ls))
  BY <1>1, RootsAreDefined
<1>3. f[m] = [l \in 1 .. Len(ls) + 1 - m |->
                IF m = 1 THEN ls[l]
                ELSE SortedPairHash(f[Split(m)][l], f[m - Split(m)][l + Split(m)])]
  BY <1>2 DEF RootsUpTo
<1> QED
  BY <1>2, <1>3

-----------------------------------------------------------------------------
(* A level: each node has s leaves below it, the last one perhaps fewer.   *)

\* The last of n leaves below node j.
Upto(n, s, j) == IF j * s <= n THEN j * s ELSE n

Below(n, s, j) == (j - 1) * s + 1 .. Upto(n, s, j)

\* The root over the leaves below node j.
RootOf(ls, s, j) == TreeOver(ls)[Upto(Len(ls), s, j) - (j - 1) * s][(j - 1) * s + 1]

LEMMA Products ==
    ASSUME NEW s \in Nat, NEW a \in Int, NEW b \in Int, a <= b
    PROVE  a * s \in Int /\ b * s \in Int /\ a * s <= b * s
<1>1. (b - a) * s >= 0
  OBVIOUS
<1> QED
  BY <1>1

\* size nodes with s leaves each, but the last, for n leaves.
IsLevel(n, s, size) ==
    /\ n \in Nat \ {0} /\ s \in Nat \ {0} /\ size \in Nat \ {0}
    /\ (size - 1) * s < n /\ n <= size * s

LEMMA NodeFacts ==
    ASSUME NEW n, NEW s, NEW size, IsLevel(n, s, size), NEW j \in 1 .. size
    PROVE  /\ (j - 1) * s \in Nat /\ Upto(n, s, j) \in 1 .. n
           /\ (j - 1) * s < Upto(n, s, j) /\ Upto(n, s, j) <= (j - 1) * s + s
           /\ j < size => Upto(n, s, j) = j * s /\ Upto(n, s, j) = (j - 1) * s + s /\ j * s < n
           /\ j = size => Upto(n, s, j) = n
<1>1. /\ n \in Nat \ {0} /\ s \in Nat \ {0} /\ size \in Nat \ {0} /\ j \in Nat \ {0}
      /\ (size - 1) * s < n /\ n <= size * s /\ (size - 1) * s \in Int
  BY DEF IsLevel
<1>2. 0 * s = 0 /\ j * s = (j - 1) * s + s /\ (j - 1) * s >= 0
  <2>1. 0 * s <= (j - 1) * s
    BY <1>1, Products
  <2> QED
    BY <1>1, <2>1
<1>3. (j - 1) * s <= (size - 1) * s
  BY <1>1, Products
<1>4. j < size => j * s <= (size - 1) * s
  BY <1>1, Products
<1>5. (j - 1) * s \in Nat /\ j * s \in Nat
  BY <1>1, <1>2
<1> QED
  BY <1>1, <1>2, <1>3, <1>4, <1>5 DEF Upto

\* No leaf is below two nodes.
LEMMA NodesAreApart ==
    ASSUME NEW n \in Nat, NEW s \in Nat, NEW a \in Nat \ {0}, NEW b \in Nat \ {0}, a < b
    PROVE  Below(n, s, a) \cap Below(n, s, b) = {}
<1>1. a * s <= (b - 1) * s /\ a * s \in Int /\ (b - 1) * s \in Int
  BY Products
<1>2. Upto(n, s, a) <= a * s /\ Upto(n, s, a) \in Int
  BY <1>1 DEF Upto
<1> QED
  BY <1>1, <1>2 DEF Below

\* Two neighbours make a node of the next level ...
LEMMA PairMakesNode ==
    ASSUME NEW n, NEW s, NEW size, IsLevel(n, s, size), NEW q \in Nat, 2 * q + 1 < size
    PROVE  /\ Upto(n, 2 * s, q + 1) = Upto(n, s, 2 * q + 2)
           /\ q * (2 * s) = (2 * q) * s
           /\ (2 * q + 1) * s = (2 * q) * s + s
           /\ Below(n, 2 * s, q + 1) = Below(n, s, 2 * q + 1) \cup Below(n, s, 2 * q + 2)
<1>1. n \in Nat /\ s \in Nat \ {0} /\ (2 * q) * s \in Nat
  <2>1. n \in Nat /\ s \in Nat \ {0} /\ size \in Nat
    BY DEF IsLevel
  <2>2. (2 * q) * s \in Int /\ 0 * s <= (2 * q) * s /\ 0 * s = 0
    BY <2>1, Products
  <2> QED
    BY <2>1, <2>2
<1>2. /\ q * (2 * s) = (2 * q) * s
      /\ (2 * q + 1) * s = (2 * q) * s + s
      /\ (2 * q + 2) * s = (2 * q) * s + s + s
      /\ (q + 1) * (2 * s) = (2 * q) * s + s + s
  BY <1>1
<1>3. Upto(n, 2 * s, q + 1) = Upto(n, s, 2 * q + 2)
  BY <1>2 DEF Upto
<1>4. /\ Upto(n, s, 2 * q + 1) = (2 * q) * s + s
      /\ (2 * q) * s + s < Upto(n, s, 2 * q + 2)
      /\ Upto(n, s, 2 * q + 2) \in Nat
  <2>1. /\ 2 * q + 1 \in 1 .. size /\ 2 * q + 2 \in 1 .. size
        /\ (2 * q + 1) - 1 = 2 * q /\ (2 * q + 2) - 1 = 2 * q + 1
    BY DEF IsLevel
  <2>2. Upto(n, s, 2 * q + 1) = (2 * q + 1) * s
    BY <2>1, NodeFacts
  <2>3. /\ (2 * q + 1) * s < Upto(n, s, 2 * q + 2)
        /\ Upto(n, s, 2 * q + 2) \in 1 .. n
    BY <2>1, NodeFacts
  <2> QED
    BY <1>1, <1>2, <2>2, <2>3
<1>5. /\ Below(n, s, 2 * q + 1) = (2 * q) * s + 1 .. (2 * q) * s + s
      /\ Below(n, s, 2 * q + 2) = (2 * q) * s + s + 1 .. Upto(n, s, 2 * q + 2)
      /\ Below(n, 2 * s, q + 1) = (2 * q) * s + 1 .. Upto(n, s, 2 * q + 2)
  <2>1. (2 * q + 1) - 1 = 2 * q /\ (2 * q + 2) - 1 = 2 * q + 1 /\ (q + 1) - 1 = q
    OBVIOUS
  <2> QED
    BY <1>2, <1>3, <1>4, <2>1 DEF Below
<1> QED
  BY <1>1, <1>2, <1>3, <1>4, <1>5

\* ... and so does the last one without a neighbour.
LEMMA LastMakesNode ==
    ASSUME NEW n, NEW s, NEW size, IsLevel(n, s, size), NEW q \in Nat, 2 * q + 1 = size
    PROVE  /\ Upto(n, 2 * s, q + 1) = n /\ Upto(n, s, 2 * q + 1) = n
           /\ q * (2 * s) = (2 * q) * s
           /\ Below(n, 2 * s, q + 1) = Below(n, s, 2 * q + 1)
<1>1. n \in Nat /\ s \in Nat \ {0} /\ n <= (2 * q + 1) * s
  BY DEF IsLevel
<1>2. /\ q * (2 * s) = (2 * q) * s /\ (2 * q) * s \in Int
      /\ (2 * q + 1) * s = (2 * q) * s + s
      /\ (q + 1) * (2 * s) = (2 * q) * s + s + s
  BY <1>1
<1>3. Upto(n, 2 * s, q + 1) = n /\ Upto(n, s, 2 * q + 1) = n
  BY <1>1, <1>2 DEF Upto
<1>4. (2 * q + 1) - 1 = 2 * q /\ (q + 1) - 1 = q
  OBVIOUS
<1> QED
  BY <1>2, <1>3, <1>4 DEF Below

\* The next level has half the nodes, with twice the leaves.
LEMMA NextIsLevel ==
    ASSUME NEW n, NEW s, NEW size, IsLevel(n, s, size), NEW q \in Nat \ {0},
           size = 2 * q \/ size = 2 * q - 1
    PROVE  IsLevel(n, 2 * s, q)
<1>1. /\ n \in Nat \ {0} /\ s \in Nat \ {0}
      /\ (size - 1) * s < n /\ n <= size * s
  BY DEF IsLevel
<1>2. (q - 1) * (2 * s) = (2 * q - 2) * s /\ q * (2 * s) = (2 * q) * s
  BY <1>1
<1>3. (2 * q - 2) * s <= (size - 1) * s /\ size * s <= (2 * q) * s
      /\ (2 * q - 2) * s \in Int /\ (2 * q) * s \in Int /\ size * s \in Int
      /\ (size - 1) * s \in Int
  BY <1>1, Products
<1> QED
  BY <1>1, <1>2, <1>3 DEF IsLevel

-----------------------------------------------------------------------------
(* The inductive invariant.                                                *)

\* The two levels under construction, h levels above the leaves, are those of
\* the documented tree, and the leaves below each node are where they should be.
LevelsAreRight(h) ==
    /\ IsLevel(Len(leaves), 2^h, Len(level))
    /\ IsSeq(level) /\ IsSeq(groups) /\ IsSeq(nextLevel) /\ IsSeq(nextGroups)
    /\ Len(groups) = Len(level) /\ Len(nextGroups) = Len(nextLevel)
    /\ \/ i = 2 * Len(nextLevel) + 1 /\ i <= Len(level) + 1
       \/ i = 2 * Len(nextLevel) /\ i = Len(level) + 1
    /\ \A j \in 1 .. Len(level) :
          /\ groups[j] = Below(Len(leaves), 2^h, j)
          /\ level[j] = RootOf(leaves, 2^h, j)
    /\ \A j \in 1 .. Len(nextLevel) :
          /\ nextGroups[j] = Below(Len(leaves), 2 * 2^h, j)
          /\ nextLevel[j] = RootOf(leaves, 2 * 2^h, j)

\* Every leaf has reached a node, and folds to it.
LeavesHaveNodes(h) ==
    \A k \in DOMAIN leaves :
        \/ \E j \in i .. Len(level) :
              k \in Below(Len(leaves), 2^h, j) /\ Fold(leaves[k], proofs[k]) = level[j]
        \/ \E j \in 1 .. Len(nextLevel) :
              k \in Below(Len(leaves), 2 * 2^h, j) /\ Fold(leaves[k], proofs[k]) = nextLevel[j]

\* No proof has more siblings than levels were passed, and the first leaf's,
\* which is never promoted, has no fewer.
LengthsAreRight(h) ==
    /\ DOMAIN proofs = DOMAIN leaves
    /\ \A k \in DOMAIN leaves :
          /\ IsSeq(proofs[k]) /\ Len(proofs[k]) <= h + 1
          /\ \A j \in i .. Len(level) :
                k \in Below(Len(leaves), 2^h, j) => Len(proofs[k]) <= h
    /\ Len(proofs[1]) = IF i = 1 THEN h ELSE h + 1
    /\ h > 0 => 2^(h - 1) < Len(leaves)

AtHeight(h) == LevelsAreRight(h) /\ LeavesHaveNodes(h) /\ LengthsAreRight(h)

Started == {"building", "built", "too_long"}

IInv ==
    /\ outcome \in Started \cup {"none", "empty", "duplicate"}
    /\ outcome # "building" => nextLevel = <<>> /\ nextGroups = <<>> /\ i = 1
    /\ outcome \notin Started =>
          leaves \in Input \cup {<<>>} /\ level = <<>> /\ groups = <<>> /\ proofs = <<>>
    /\ outcome \in Started =>
          /\ leaves \in Input /\ leaves # <<>> /\ IsInjective(leaves)
          /\ \E h \in Nat : AtHeight(h)
          /\ Len(level) = 1 => nextLevel = <<>> /\ nextGroups = <<>> /\ i = 1
    /\ outcome \in {"built", "too_long"} => Len(level) = 1
    /\ outcome = "built" => \A k \in DOMAIN leaves : Len(proofs[k]) <= MaxProof
    /\ outcome = "too_long" => \E k \in DOMAIN leaves : Len(proofs[k]) > MaxProof

LEMMA InitIInv == Init => IInv
BY DEF Init, IInv, Started

LEMMA RefuseKeepsIInv == ASSUME IInv, NEW ls \in Input, Refuse(ls) PROVE IInv'
BY DEF Refuse, IInv, Started

LEMMA FunctionIsSeq ==
    ASSUME NEW n \in Nat, NEW f, DOMAIN f = 1 .. n, f = [k \in 1 .. n |-> f[k]]
    PROVE  IsSeq(f) /\ Len(f) = n
<1>1. \A k \in 1 .. n : f[k] \in Range(f)
  BY DEF Range
<1>2. f \in [1 .. n -> Range(f)]
  BY <1>1
<1> QED
  BY <1>2 DEF IsSeq

\* The leaves are the level of height 0.
LEMMA LeavesAreNodes ==
    ASSUME NEW ls, Len(ls) \in Nat, NEW j \in 1 .. Len(ls)
    PROVE  Below(Len(ls), 1, j) = {j} /\ RootOf(ls, 1, j) = ls[j]
<1>1. PICK n \in Nat : n = Len(ls)
  OBVIOUS
<1>2. j \in 1 .. n /\ j * 1 = j /\ (j - 1) * 1 = j - 1
  BY <1>1
<1>3. Upto(n, 1, j) = j
  BY <1>2 DEF Upto
<1>4. Below(n, 1, j) = {j}
  BY <1>2, <1>3 DEF Below
<1>5. j - (j - 1) = 1 /\ (j - 1) + 1 = j /\ 1 \in 1 .. n /\ j \in 1 .. n + 1 - 1
  BY <1>2
<1>6. TreeOver(ls)[1][j] = ls[j]
  BY <1>1, <1>5, TreeUnfolds
<1> QED
  BY <1>1, <1>2, <1>3, <1>4, <1>5, <1>6 DEF RootOf

LEMMA BeginKeepsIInv == ASSUME IInv, NEW ls \in Input, Begin(ls) PROVE IInv'
<1> DEFINE n == Len(ls)
<1>1. /\ IsSeq(ls) /\ n \in Nat /\ DOMAIN ls = 1 .. n /\ IsSeq(<<>>) /\ Len(<<>>) = 0
  BY ConstantsAssumption, FoldOfNone DEF IsSeq
<1>2. n # 0
  <2>1. ls # <<>> /\ ls \in Seq(Range(ls))
    BY <1>1 DEF Begin, IsSeq
  <2> QED
    BY <2>1
<1>3. /\ outcome' = "building" /\ leaves' = ls /\ level' = ls
      /\ groups' = [k \in 1 .. n |-> {k}] /\ proofs' = [k \in 1 .. n |-> <<>>]
      /\ nextLevel' = <<>> /\ nextGroups' = <<>> /\ i' = 1 /\ IsInjective(ls)
  BY <1>1 DEF Begin, IInv
<1>4. IsSeq(groups') /\ Len(groups') = n
  <2>1. DOMAIN groups' = 1 .. n /\ groups' = [k \in 1 .. n |-> groups'[k]]
    BY <1>3
  <2> QED
    BY <1>1, <2>1, FunctionIsSeq
<1>5. 2^0 = 1
  OBVIOUS
<1>6. \A j \in 1 .. n : Below(n, 1, j) = {j} /\ RootOf(ls, 1, j) = ls[j]
  BY <1>1, LeavesAreNodes
<1>7. LevelsAreRight(0)'
  <2>1. IsLevel(n, 1, n)
    BY <1>1, <1>2 DEF IsLevel
  <2>2. \A j \in 1 .. n : groups'[j] = Below(n, 1, j) /\ ls[j] = RootOf(ls, 1, j)
    BY <1>3, <1>6
  <2>3. 1 .. Len(nextLevel') = {} /\ Len(nextLevel') = 0 /\ Len(nextGroups') = 0
    BY <1>1, <1>3
  <2> HIDE DEF n
  <2>4. IsSeq(level') /\ IsSeq(nextLevel') /\ IsSeq(nextGroups') /\ Len(level') = n /\ Len(leaves') = n
    BY <1>1, <1>3 DEF n
  <2>5. i' = 2 * Len(nextLevel') + 1 /\ i' <= Len(level') + 1
    BY <1>1, <1>3, <2>3, <2>4
  <2> QED
    BY <1>3, <1>4, <1>5, <2>1, <2>2, <2>3, <2>4, <2>5 DEF LevelsAreRight
<1>8. LeavesHaveNodes(0)'
  <2>1. \A k \in 1 .. n : k \in Below(n, 1, k) /\ Fold(ls[k], proofs'[k]) = ls[k]
    BY <1>3, <1>6, FoldOfNone
  <2>2. \A k \in 1 .. n : k \in i' .. Len(level')
    BY <1>1, <1>3
  <2>3. DOMAIN leaves' = 1 .. n /\ Len(leaves') = n
    BY <1>1, <1>3
  <2> HIDE DEF n
  <2> QED
    BY <1>3, <1>5, <2>1, <2>2, <2>3 DEF LeavesHaveNodes
<1>9. LengthsAreRight(0)'
  BY <1>1, <1>2, <1>3 DEF LengthsAreRight
<1>10. \E h \in Nat : AtHeight(h)'
  BY <1>7, <1>8, <1>9 DEF AtHeight
<1>11. leaves' # <<>>
  BY <1>3 DEF Begin
<1> QED
  BY <1>3, <1>10, <1>11 DEF IInv, Started, AtHeight

LEMMA FinishKeepsIInv == IInv /\ Finish => IInv'
<1> SUFFICES ASSUME IInv, Finish PROVE IInv'
  OBVIOUS
<1>1. PICK h \in Nat : AtHeight(h)
  BY DEF IInv, Finish, Started
<1>2. AtHeight(h)'
  BY <1>1 DEF Finish, AtHeight, LevelsAreRight, LeavesHaveNodes, LengthsAreRight
<1>3. DOMAIN proofs = DOMAIN leaves /\ \A k \in DOMAIN leaves : Len(proofs[k]) \in Nat
  BY <1>1, SeqFacts DEF AtHeight, LengthsAreRight
<1> QED
  BY <1>2, <1>3, ConstantsAssumption DEF Finish, IInv, Started, ExceedsCap

LEMMA RootIs ==
    ASSUME NEW ls, NEW s, NEW j, NEW m, NEW lo,
           Upto(Len(ls), s, j) - (j - 1) * s = m, (j - 1) * s + 1 = lo
    PROVE  RootOf(ls, s, j) = TreeOver(ls)[m][lo]
BY Zenon DEF RootOf

\* The root over a node of the next level, from those over the nodes it is of.
LEMMA PairRoot ==
    ASSUME NEW ls, NEW h \in Nat, NEW size, IsLevel(Len(ls), 2^h, size),
           NEW q \in Nat, 2 * q + 1 < size
    PROVE  RootOf(ls, 2 * 2^h, q + 1)
              = SortedPairHash(RootOf(ls, 2^h, 2 * q + 1), RootOf(ls, 2^h, 2 * q + 2))
<1> DEFINE n == Len(ls)
           s == 2^h
           lo == (2 * q) * s + 1
           m == Upto(n, s, 2 * q + 2) - (2 * q) * s
<1>1. n \in Nat /\ s \in Nat \ {0} /\ size \in Nat
  BY DEF IsLevel
<1>2. 2 * q + 1 \in 1 .. size /\ 2 * q + 2 \in 1 .. size /\ 2 * q + 1 < size
      /\ (2 * q + 1) - 1 = 2 * q /\ (2 * q + 2) - 1 = 2 * q + 1 /\ (q + 1) - 1 = q
  BY <1>1
<1>3. /\ (2 * q) * s \in Nat
      /\ Upto(n, s, 2 * q + 1) = (2 * q) * s + s
  BY <1>2, NodeFacts
<1>4. /\ (2 * q + 1) * s < Upto(n, s, 2 * q + 2)
      /\ Upto(n, s, 2 * q + 2) <= (2 * q + 1) * s + s
      /\ Upto(n, s, 2 * q + 2) \in 1 .. n
  BY <1>2, NodeFacts
<1>5. /\ Upto(n, 2 * s, q + 1) = Upto(n, s, 2 * q + 2)
      /\ q * (2 * s) = (2 * q) * s
      /\ (2 * q + 1) * s = (2 * q) * s + s
  BY <1>2, PairMakesNode
<1>6. RootOf(ls, 2 * s, q + 1) = TreeOver(ls)[m][lo]
  <2>1. Upto(n, 2 * s, q + 1) - ((q + 1) - 1) * (2 * s) = m /\ ((q + 1) - 1) * (2 * s) + 1 = lo
    BY <1>2, <1>5
  <2> QED
    BY <2>1, RootIs
<1>7. RootOf(ls, s, 2 * q + 1) = TreeOver(ls)[s][lo]
  <2>1. Upto(n, s, 2 * q + 1) - ((2 * q + 1) - 1) * s = s /\ ((2 * q + 1) - 1) * s + 1 = lo
    BY <1>1, <1>2, <1>3
  <2> QED
    BY <2>1, RootIs
<1>8. RootOf(ls, s, 2 * q + 2) = TreeOver(ls)[m - s][lo + s]
  <2>1. /\ Upto(n, s, 2 * q + 2) - ((2 * q + 2) - 1) * s = m - s
        /\ ((2 * q + 2) - 1) * s + 1 = lo + s
    BY <1>1, <1>2, <1>3, <1>4, <1>5
  <2> QED
    BY <2>1, RootIs
<1>9. s < m /\ m <= 2 * s /\ m \in 1 .. n /\ lo \in 1 .. n + 1 - m
  BY <1>1, <1>3, <1>4, <1>5
<1> HIDE DEF m, lo, n
<1>10. Split(m) = s
  BY <1>1, <1>9, SplitIsTheOne
<1>11. TreeOver(ls)[m][lo] = SortedPairHash(TreeOver(ls)[s][lo], TreeOver(ls)[m - s][lo + s])
  <2>1. m # 1 /\ Len(ls) \in Nat /\ m \in 1 .. Len(ls) /\ lo \in 1 .. Len(ls) + 1 - m
    BY <1>1, <1>9 DEF n
  <2>2. TreeOver(ls)[m][lo] =
           IF m = 1 THEN ls[lo]
           ELSE SortedPairHash(TreeOver(ls)[Split(m)][lo],
                               TreeOver(ls)[m - Split(m)][lo + Split(m)])
    BY <2>1, TreeUnfolds
  <2> QED
    BY <1>10, <2>1, <2>2
<1> QED
  BY <1>6, <1>7, <1>8, <1>11

\* What the invariant says in a turn of BuildTree's loops.
LEMMA Building ==
    ASSUME IInv, outcome = "building", Len(level) > 1
    PROVE  \E h \in Nat :
              /\ AtHeight(h)
              /\ 2^h \in Nat \ {0} /\ 2^(h + 1) = 2 * 2^h /\ 2^h < Len(leaves)
              /\ Len(level) \in Nat /\ Len(nextLevel) \in Nat
              /\ DOMAIN leaves = 1 .. Len(leaves) /\ Len(leaves) \in Nat
<1>1. PICK h \in Nat : AtHeight(h)
  BY DEF IInv, Started
<1>2. DOMAIN leaves = 1 .. Len(leaves) /\ Len(leaves) \in Nat
  BY ConstantsAssumption DEF IInv, Started
<1>3. Len(level) \in Nat /\ Len(nextLevel) \in Nat
  BY <1>1, SeqFacts DEF AtHeight, LevelsAreRight
<1>4. 2^h \in Nat \ {0} /\ 2^(h + 1) = 2 * 2^h
  BY PowerStep, PowersGrow
<1>5. (Len(level) - 1) * 2^h < Len(leaves)
  BY <1>1 DEF AtHeight, LevelsAreRight, IsLevel
<1>6. 1 * 2^h <= (Len(level) - 1) * 2^h /\ 1 * 2^h = 2^h /\ (Len(level) - 1) * 2^h \in Int
  BY <1>3, <1>4, Products
<1>7. 2^h < Len(leaves)
  BY <1>2, <1>4, <1>5, <1>6
<1> QED
  BY <1>1, <1>2, <1>3, <1>4, <1>7

LEMMA EndLevelKeepsIInv == IInv /\ EndLevel => IInv'
<1> SUFFICES ASSUME IInv, EndLevel PROVE IInv'
  OBVIOUS
<1>1. /\ outcome = "building" /\ Len(level) > 1 /\ i > Len(level)
      /\ level' = nextLevel /\ groups' = nextGroups
      /\ nextLevel' = <<>> /\ nextGroups' = <<>> /\ i' = 1
      /\ UNCHANGED <<leaves, proofs, outcome>>
  BY DEF EndLevel
<1>2. PICK h \in Nat :
         /\ AtHeight(h)
         /\ 2^h \in Nat \ {0} /\ 2^(h + 1) = 2 * 2^h /\ 2^h < Len(leaves)
         /\ Len(level) \in Nat /\ Len(nextLevel) \in Nat
         /\ DOMAIN leaves = 1 .. Len(leaves) /\ Len(leaves) \in Nat
  BY <1>1, Building
<1> DEFINE n == Len(leaves)
           q == Len(nextLevel)
<1>3. /\ i = Len(level) + 1 /\ q \in Nat \ {0}
      /\ Len(level) = 2 * q \/ Len(level) = 2 * q - 1
  BY <1>1, <1>2 DEF AtHeight, LevelsAreRight
<1>4. IsSeq(<<>>) /\ Len(<<>>) = 0 /\ 1 .. 0 = {}
  BY FoldOfNone
<1>5. i .. Len(level) = {}
  BY <1>2, <1>3
<1>6. LevelsAreRight(h + 1)'
  <2>1. IsLevel(n, 2 * 2^h, q)
    BY <1>2, <1>3, NextIsLevel DEF AtHeight, LevelsAreRight
  <2>2. /\ IsSeq(nextLevel) /\ IsSeq(nextGroups) /\ Len(nextGroups) = q
        /\ \A j \in 1 .. q : /\ nextGroups[j] = Below(n, 2 * 2^h, j)
                             /\ nextLevel[j] = RootOf(leaves, 2 * 2^h, j)
    BY <1>2 DEF AtHeight, LevelsAreRight
  <2>3. i' = 2 * Len(nextLevel') + 1 /\ i' <= Len(level') + 1
    BY <1>1, <1>2, <1>4
  <2> QED
    BY <1>1, <1>2, <1>4, <2>1, <2>2, <2>3 DEF LevelsAreRight
<1>7. LeavesHaveNodes(h + 1)'
  <2>1. \A k \in DOMAIN leaves : \E j \in 1 .. q :
            k \in Below(n, 2 * 2^h, j) /\ Fold(leaves[k], proofs[k]) = nextLevel[j]
    BY <1>2, <1>5 DEF AtHeight, LeavesHaveNodes
  <2> QED
    BY <1>1, <1>2, <2>1 DEF LeavesHaveNodes
<1>8. LengthsAreRight(h + 1)'
  <2>1. (h + 1) - 1 = h /\ h + 1 > 0
    OBVIOUS
  <2>2. /\ DOMAIN proofs = DOMAIN leaves
        /\ \A k \in DOMAIN leaves : IsSeq(proofs[k]) /\ Len(proofs[k]) <= h + 1
        /\ Len(proofs[1]) = h + 1
    BY <1>1, <1>2, <1>3 DEF AtHeight, LengthsAreRight
  <2>3. \A k \in DOMAIN leaves : Len(proofs[k]) <= (h + 1) + 1
    BY <2>2, SeqFacts
  <2> QED
    BY <1>1, <1>2, <2>1, <2>2, <2>3 DEF LengthsAreRight
<1>9. \E g \in Nat : AtHeight(g)'
  BY <1>6, <1>7, <1>8 DEF AtHeight
<1> QED
  BY <1>1, <1>9 DEF IInv, Started, AtHeight

LEMMA PromoteKeepsIInv == IInv /\ Promote => IInv'
<1> SUFFICES ASSUME IInv, Promote PROVE IInv'
  OBVIOUS
<1>1. /\ outcome = "building" /\ Len(level) > 1 /\ i = Len(level)
      /\ nextLevel' = Append(nextLevel, level[i])
      /\ nextGroups' = Append(nextGroups, groups[i]) /\ i' = i + 1
      /\ UNCHANGED <<leaves, level, groups, proofs, outcome>>
  BY DEF Promote
<1>2. PICK h \in Nat :
         /\ AtHeight(h)
         /\ 2^h \in Nat \ {0} /\ 2^(h + 1) = 2 * 2^h /\ 2^h < Len(leaves)
         /\ Len(level) \in Nat /\ Len(nextLevel) \in Nat
         /\ DOMAIN leaves = 1 .. Len(leaves) /\ Len(leaves) \in Nat
  BY <1>1, Building
<1> DEFINE n == Len(leaves)
           q == Len(nextLevel)
<1>3. /\ i = 2 * q + 1 /\ i = Len(level) /\ i \in 1 .. Len(level) /\ q > 0
      /\ i' = 2 * (q + 1) /\ i' = Len(level) + 1
  BY <1>1, <1>2 DEF AtHeight, LevelsAreRight
<1>4. /\ IsLevel(n, 2^h, Len(level))
      /\ IsSeq(nextLevel) /\ IsSeq(nextGroups) /\ Len(nextGroups) = q
      /\ groups[i] = Below(n, 2^h, i) /\ level[i] = RootOf(leaves, 2^h, i)
      /\ \A j \in 1 .. q : /\ nextGroups[j] = Below(n, 2 * 2^h, j)
                           /\ nextLevel[j] = RootOf(leaves, 2 * 2^h, j)
  BY <1>2, <1>3 DEF AtHeight, LevelsAreRight
<1>5. /\ IsSeq(nextLevel') /\ Len(nextLevel') = q + 1 /\ nextLevel'[q + 1] = level[i]
      /\ IsSeq(nextGroups') /\ Len(nextGroups') = q + 1 /\ nextGroups'[q + 1] = groups[i]
      /\ \A j \in 1 .. q : nextLevel'[j] = nextLevel[j] /\ nextGroups'[j] = nextGroups[j]
  BY <1>1, <1>4, AppendFacts
<1>6. /\ Below(n, 2 * 2^h, q + 1) = Below(n, 2^h, i)
      /\ RootOf(leaves, 2 * 2^h, q + 1) = RootOf(leaves, 2^h, i)
  <2>1. (2 * q + 1) - 1 = 2 * q /\ (q + 1) - 1 = q
    BY <1>2
  <2>2. /\ Upto(n, 2 * 2^h, q + 1) = n /\ Upto(n, 2^h, 2 * q + 1) = n
        /\ q * (2 * 2^h) = (2 * q) * 2^h
        /\ Below(n, 2 * 2^h, q + 1) = Below(n, 2^h, 2 * q + 1)
    <3>1. IsLevel(n, 2^h, Len(level)) /\ q \in Nat /\ 2 * q + 1 = Len(level)
      BY <1>2, <1>3, <1>4
    <3> HIDE DEF n, q
    <3> QED
      BY <3>1, LastMakesNode
  <2>3. i = 2 * q + 1 /\ i - 1 = 2 * q
    BY <1>2, <1>3
  <2>4. /\ Upto(n, 2^h, i) - (i - 1) * 2^h = n - (2 * q) * 2^h
        /\ (i - 1) * 2^h + 1 = (2 * q) * 2^h + 1
    BY <2>2, <2>3
  <2>5. /\ Upto(n, 2 * 2^h, q + 1) - ((q + 1) - 1) * (2 * 2^h) = n - (2 * q) * 2^h
        /\ ((q + 1) - 1) * (2 * 2^h) + 1 = (2 * q) * 2^h + 1
    BY <2>1, <2>2
  <2>6. RootOf(leaves, 2 * 2^h, q + 1) = RootOf(leaves, 2^h, i)
    BY <2>4, <2>5, RootIs
  <2> QED
    BY <2>2, <2>3, <2>6
<1>7. LevelsAreRight(h)'
  <2>1. \A j \in 1 .. q + 1 : j \in 1 .. q \/ j = q + 1
    BY <1>2
  <2>2. \A j \in 1 .. q + 1 : /\ nextGroups'[j] = Below(n, 2 * 2^h, j)
                              /\ nextLevel'[j] = RootOf(leaves, 2 * 2^h, j)
    BY <1>4, <1>5, <1>6, <2>1
  <2>3. i' = 2 * Len(nextLevel') /\ i' = Len(level') + 1
    BY <1>1, <1>3, <1>5
  <2> QED
    BY <1>1, <1>2, <1>5, <2>2, <2>3 DEF AtHeight, LevelsAreRight
<1>8. LeavesHaveNodes(h)'
  <2>1. ASSUME NEW k \in DOMAIN leaves
        PROVE  \E j \in 1 .. q + 1 : /\ k \in Below(n, 2 * 2^h, j)
                                     /\ Fold(leaves[k], proofs[k]) = nextLevel'[j]
    <3>1. CASE \E j \in i .. Len(level) :
                  k \in Below(n, 2^h, j) /\ Fold(leaves[k], proofs[k]) = level[j]
      <4>1. k \in Below(n, 2^h, i) /\ Fold(leaves[k], proofs[k]) = level[i]
        BY <1>2, <1>3, <3>1
      <4>2. q + 1 \in 1 .. q + 1
        BY <1>2
      <4> QED
        BY <1>5, <1>6, <4>1, <4>2
    <3>2. CASE \E j \in 1 .. q :
                  k \in Below(n, 2 * 2^h, j) /\ Fold(leaves[k], proofs[k]) = nextLevel[j]
      <4>1. 1 .. q \subseteq 1 .. q + 1
        BY <1>2
      <4> QED
        BY <1>5, <3>2, <4>1
    <3> QED
      BY <1>2, <3>1, <3>2 DEF AtHeight, LeavesHaveNodes
  <2> QED
    BY <1>1, <1>5, <2>1 DEF LeavesHaveNodes
<1>9. LengthsAreRight(h)'
  <2>1. i' .. Len(level') = {} /\ i # 1 /\ i' # 1
    BY <1>1, <1>2, <1>3
  <2> QED
    BY <1>1, <1>2, <2>1 DEF AtHeight, LengthsAreRight
<1>10. \E g \in Nat : AtHeight(g)'
  BY <1>7, <1>8, <1>9 DEF AtHeight
<1> QED
  BY <1>1, <1>10 DEF IInv, Started, AtHeight

LEMMA PairKeepsIInv == IInv /\ Pair => IInv'
<1> SUFFICES ASSUME IInv, Pair PROVE IInv'
  OBVIOUS
<1>1. /\ outcome = "building" /\ Len(level) > 1 /\ i < Len(level)
      /\ proofs' = WithSiblings(i)
      /\ nextLevel' = Append(nextLevel, SortedPairHash(level[i], level[i + 1]))
      /\ nextGroups' = Append(nextGroups, groups[i] \cup groups[i + 1])
      /\ i' = i + 2
      /\ UNCHANGED <<leaves, level, groups, outcome>>
  BY DEF Pair
<1>2. PICK h \in Nat :
         /\ AtHeight(h)
         /\ 2^h \in Nat \ {0} /\ 2^(h + 1) = 2 * 2^h /\ 2^h < Len(leaves)
         /\ Len(level) \in Nat /\ Len(nextLevel) \in Nat
         /\ DOMAIN leaves = 1 .. Len(leaves) /\ Len(leaves) \in Nat
  BY <1>1, Building
<1> DEFINE n == Len(leaves)
           q == Len(nextLevel)
           s == 2^h
<1>3. /\ i = 2 * q + 1 /\ i + 1 = 2 * q + 2 /\ 2 * q + 1 < Len(level)
      /\ i \in 1 .. Len(level) /\ i + 1 \in 1 .. Len(level)
      /\ i' = 2 * (q + 1) + 1 /\ i' <= Len(level) + 1
      /\ q \in Nat /\ q + 1 \in 1 .. q + 1 /\ 1 .. q \subseteq 1 .. q + 1
  BY <1>1, <1>2 DEF AtHeight, LevelsAreRight
<1>4. /\ IsLevel(n, s, Len(level))
      /\ IsSeq(nextLevel) /\ IsSeq(nextGroups) /\ Len(nextGroups) = q
      /\ \A j \in 1 .. Len(level) : groups[j] = Below(n, s, j) /\ level[j] = RootOf(leaves, s, j)
      /\ \A j \in 1 .. q : /\ nextGroups[j] = Below(n, 2 * s, j)
                           /\ nextLevel[j] = RootOf(leaves, 2 * s, j)
  BY <1>2 DEF AtHeight, LevelsAreRight
<1> HIDE DEF n, q, s
<1>5. /\ IsSeq(nextLevel') /\ Len(nextLevel') = q + 1
      /\ nextLevel'[q + 1] = SortedPairHash(level[i], level[i + 1])
      /\ IsSeq(nextGroups') /\ Len(nextGroups') = q + 1
      /\ nextGroups'[q + 1] = groups[i] \cup groups[i + 1]
      /\ \A j \in 1 .. q : nextLevel'[j] = nextLevel[j] /\ nextGroups'[j] = nextGroups[j]
  BY <1>1, <1>4, AppendFacts DEF q
<1>6. Below(n, 2 * s, q + 1) = Below(n, s, i) \cup Below(n, s, i + 1)
  BY <1>3, <1>4, PairMakesNode
<1>7. SortedPairHash(level[i], level[i + 1]) = RootOf(leaves, 2 * s, q + 1)
  <2>1. RootOf(leaves, 2 * s, q + 1)
           = SortedPairHash(RootOf(leaves, s, 2 * q + 1), RootOf(leaves, s, 2 * q + 2))
    BY <1>3, <1>4, PairRoot DEF s, n
  <2> QED
    BY <1>3, <1>4, <2>1
<1>8. LevelsAreRight(h)'
  <2>1. \A j \in 1 .. q + 1 : j \in 1 .. q \/ j = q + 1
    BY <1>3
  <2>2. \A j \in 1 .. q + 1 : /\ nextGroups'[j] = Below(n, 2 * s, j)
                              /\ nextLevel'[j] = RootOf(leaves, 2 * s, j)
    BY <1>3, <1>4, <1>5, <1>6, <1>7, <2>1
  <2>3. i' = 2 * Len(nextLevel') + 1 /\ i' <= Len(level') + 1
    BY <1>1, <1>3, <1>5
  <2> QED
    BY <1>1, <1>2, <1>5, <2>2, <2>3 DEF AtHeight, LevelsAreRight, n, s
\* Who gets which sibling.
<1>9. \A k \in 1 .. n :
         /\ k \in Below(n, s, i) => proofs'[k] = Append(proofs[k], level[i + 1])
         /\ k \in Below(n, s, i + 1) =>
               k \notin Below(n, s, i) /\ proofs'[k] = Append(proofs[k], level[i])
         /\ k \notin Below(n, 2 * s, q + 1) => proofs'[k] = proofs[k]
  <2>1. Below(n, s, i) \cap Below(n, s, i + 1) = {}
    BY <1>2, <1>3, NodesAreApart DEF n, s
  <2>2. groups[i] = Below(n, s, i) /\ groups[i + 1] = Below(n, s, i + 1)
    BY <1>3, <1>4
  <2> QED
    BY <1>1, <1>2, <1>6, <2>1, <2>2 DEF WithSiblings, n
<1>10. \A k \in 1 .. n :
          /\ \A j \in i + 2 .. Len(level) : k \in Below(n, s, j) => k \notin Below(n, 2 * s, q + 1)
          /\ \A j \in 1 .. q : k \in Below(n, 2 * s, j) => k \notin Below(n, 2 * s, q + 1)
  <2>1. ASSUME NEW j \in i + 2 .. Len(level)
        PROVE  Below(n, s, i) \cap Below(n, s, j) = {} /\ Below(n, s, i + 1) \cap Below(n, s, j) = {}
    <3>1. i < j /\ i + 1 < j /\ j \in Nat \ {0} /\ i \in Nat \ {0} /\ i + 1 \in Nat \ {0}
          /\ n \in Nat /\ s \in Nat
      BY <1>2, <1>3 DEF n, s
    <3> QED
      BY <3>1, NodesAreApart
  <2>2. ASSUME NEW j \in 1 .. q PROVE Below(n, 2 * s, j) \cap Below(n, 2 * s, q + 1) = {}
    <3>1. j < q + 1 /\ j \in Nat \ {0} /\ q + 1 \in Nat \ {0} /\ n \in Nat /\ 2 * s \in Nat
      BY <1>2, <1>3 DEF n, s
    <3> QED
      BY <3>1, NodesAreApart
  <2> QED
    BY <1>6, <2>1, <2>2
<1>11. \A k \in 1 .. n : IsSeq(proofs[k]) /\ Len(proofs[k]) \in Nat
  BY <1>2, SeqFacts DEF AtHeight, LengthsAreRight, n
<1>12. LeavesHaveNodes(h)'
  <2>1. ASSUME NEW k \in 1 .. n
        PROVE  \/ \E j \in i + 2 .. Len(level) :
                     k \in Below(n, s, j) /\ Fold(leaves[k], proofs'[k]) = level[j]
               \/ \E j \in 1 .. q + 1 :
                     k \in Below(n, 2 * s, j) /\ Fold(leaves[k], proofs'[k]) = nextLevel'[j]
    <3>1. CASE k \in Below(n, s, i) /\ Fold(leaves[k], proofs[k]) = level[i]
      <4>1. Fold(leaves[k], proofs'[k]) = SortedPairHash(level[i], level[i + 1])
        <5>1. IsSeq(proofs[k]) /\ proofs'[k] = Append(proofs[k], level[i + 1])
          BY <1>9, <1>11, <3>1
        <5>2. Fold(leaves[k], Append(proofs[k], level[i + 1]))
                 = SortedPairHash(Fold(leaves[k], proofs[k]), level[i + 1])
          BY <5>1, FoldOfAppend
        <5> QED
          BY <3>1, <5>1, <5>2
      <4> QED
        BY <1>3, <1>5, <1>6, <3>1, <4>1
    <3>2. CASE k \in Below(n, s, i + 1) /\ Fold(leaves[k], proofs[k]) = level[i + 1]
      <4>1. Fold(leaves[k], proofs'[k]) = SortedPairHash(level[i + 1], level[i])
        <5>1. IsSeq(proofs[k]) /\ proofs'[k] = Append(proofs[k], level[i])
          BY <1>9, <1>11, <3>2
        <5>2. Fold(leaves[k], Append(proofs[k], level[i]))
                 = SortedPairHash(Fold(leaves[k], proofs[k]), level[i])
          BY <5>1, FoldOfAppend
        <5> QED
          BY <3>2, <5>1, <5>2
      <4>2. SortedPairHash(level[i + 1], level[i]) = SortedPairHash(level[i], level[i + 1])
        BY DEF SortedPairHash
      <4> QED
        BY <1>3, <1>5, <1>6, <3>2, <4>1, <4>2
    <3>3. ASSUME NEW j \in i + 2 .. Len(level),
                 k \in Below(n, s, j), Fold(leaves[k], proofs[k]) = level[j]
          PROVE  Fold(leaves[k], proofs'[k]) = level[j]
      BY <1>9, <1>10, <3>3
    <3>4. ASSUME NEW j \in 1 .. q,
                 k \in Below(n, 2 * s, j), Fold(leaves[k], proofs[k]) = nextLevel[j]
          PROVE  j \in 1 .. q + 1 /\ Fold(leaves[k], proofs'[k]) = nextLevel'[j]
      BY <1>3, <1>5, <1>9, <1>10, <3>4
    <3>5. \/ \E j \in i .. Len(level) :
                k \in Below(n, s, j) /\ Fold(leaves[k], proofs[k]) = level[j]
          \/ \E j \in 1 .. q :
                k \in Below(n, 2 * s, j) /\ Fold(leaves[k], proofs[k]) = nextLevel[j]
      BY <1>2 DEF AtHeight, LeavesHaveNodes, n, s, q
    <3>6. \A j \in i .. Len(level) : j = i \/ j = i + 1 \/ j \in i + 2 .. Len(level)
      BY <1>3
    <3> QED
      BY <3>1, <3>2, <3>3, <3>4, <3>5, <3>6
  <2>2. DOMAIN leaves = 1 .. n
    BY <1>2 DEF n
  <2> QED
    BY <1>1, <1>5, <2>1, <2>2 DEF LeavesHaveNodes, n, s
<1>13. LengthsAreRight(h)'
  <2>1. DOMAIN leaves = 1 .. n /\ DOMAIN proofs' = 1 .. n /\ n \in Nat /\ s < n /\ s \in Nat \ {0}
    BY <1>1, <1>2 DEF WithSiblings, n, s
  <2>2. \A k \in 1 .. n :
           /\ Len(proofs[k]) <= h + 1
           /\ \A j \in i .. Len(level) : k \in Below(n, s, j) => Len(proofs[k]) <= h
    BY <1>2 DEF AtHeight, LengthsAreRight, n, s
  <2>3. \A k \in 1 .. n : k \in Below(n, 2 * s, q + 1) => Len(proofs[k]) <= h
    <3>1. i \in i .. Len(level) /\ i + 1 \in i .. Len(level)
      BY <1>3
    <3> QED
      BY <1>6, <2>2, <3>1
  <2>4. ASSUME NEW k \in 1 .. n, k \in Below(n, 2 * s, q + 1)
        PROVE  IsSeq(proofs'[k]) /\ Len(proofs'[k]) = Len(proofs[k]) + 1
    <3>1. IsSeq(proofs[k]) /\ \E x : proofs'[k] = Append(proofs[k], x)
      BY <1>6, <1>9, <1>11, <2>4
    <3> QED
      BY <3>1, AppendFacts
  <2>5. \A k \in 1 .. n : IsSeq(proofs'[k]) /\ Len(proofs'[k]) <= h + 1
    BY <1>9, <1>11, <2>2, <2>3, <2>4
  <2>6. \A k \in 1 .. n : \A j \in i + 2 .. Len(level) : k \in Below(n, s, j) => Len(proofs'[k]) <= h
    <3>1. i + 2 .. Len(level) \subseteq i .. Len(level)
      BY <1>3
    <3> QED
      BY <1>9, <1>10, <2>2, <3>1
  <2>7. Len(proofs'[1]) = h + 1
    <3>1. 1 \in 1 .. n
      BY <2>1
    <3>2. 1 \in Below(n, s, 1) /\ 1 \in 1 .. Len(level)
      <4>1. 1 \in 1 .. Len(level) /\ 1 - 1 = 0 /\ 0 * s = 0
        BY <1>3, <2>1
      <4>2. Upto(n, s, 1) \in 1 .. n
        BY <1>4, <4>1, NodeFacts
      <4> QED
        BY <4>1, <4>2 DEF Below
    <3>3. CASE i = 1
      <4>1. Len(proofs[1]) = h
        BY <1>2, <3>3 DEF AtHeight, LengthsAreRight
      <4> QED
        BY <1>6, <2>4, <3>1, <3>2, <3>3, <4>1
    <3>4. CASE i > 1
      <4>1. Len(proofs[1]) = h + 1
        BY <1>2, <3>4 DEF AtHeight, LengthsAreRight
      <4>2. 1 \notin Below(n, s, i) /\ 1 \notin Below(n, s, i + 1)
        <5>1. 1 < i /\ 1 < i + 1 /\ i \in Nat \ {0} /\ i + 1 \in Nat \ {0} /\ 1 \in Nat \ {0}
          BY <1>3, <3>4
        <5> QED
          BY <2>1, <3>2, <5>1, NodesAreApart
      <4> QED
        BY <1>6, <1>9, <3>1, <4>1, <4>2
    <3> QED
      BY <1>3, <3>3, <3>4
  <2>8. i' # 1
    BY <1>3
  <2>9. h > 0 => 2^(h - 1) < Len(leaves)
    BY <1>2 DEF AtHeight, LengthsAreRight
  <2> QED
    BY <1>1, <2>1, <2>5, <2>6, <2>7, <2>8, <2>9 DEF LengthsAreRight, n, s
<1>14. \E g \in Nat : AtHeight(g)'
  BY <1>8, <1>12, <1>13 DEF AtHeight
<1> QED
  BY <1>1, <1>14 DEF IInv, Started, AtHeight

LEMMA StepKeepsIInv == IInv /\ [Next]_vars => IInv'
<1> SUFFICES ASSUME IInv, [Next]_vars PROVE IInv'
  OBVIOUS
<1>1. CASE UNCHANGED vars
  BY <1>1 DEF vars, IInv, Started, AtHeight, LevelsAreRight, LeavesHaveNodes, LengthsAreRight
<1>2. ASSUME NEW ls \in Input, Refuse(ls) \/ Begin(ls) PROVE IInv'
  BY <1>2, RefuseKeepsIInv, BeginKeepsIInv
<1> QED
  BY <1>1, <1>2, PairKeepsIInv, PromoteKeepsIInv, EndLevelKeepsIInv, FinishKeepsIInv DEF Next

\* Levels, proofs and lengths are as the invariant says, in every reachable
\* state, whatever leaves BuildTree is called with.
THEOREM Invariance == Spec => []IInv
BY InitIInv, StepKeepsIInv, PTL DEF Spec

\* The levels have a group of leaves for each of their nodes.
THEOREM TypeCorrect == Spec => []TypeOK
<1>1. IInv => TypeOK
  <2>0. CASE IInv /\ outcome \notin Started
    <3>1. Range(<<>>) = {} /\ nextGroups = <<>> /\ groups = <<>> /\ nextLevel = <<>> /\ level = <<>>
      BY <2>0 DEF IInv, Started, Range
    <3> QED
      BY <2>0, <3>1 DEF IInv, Started, TypeOK
  <2> SUFFICES ASSUME IInv, outcome \in Started PROVE TypeOK
    BY <2>0
  <2>1. PICK h \in Nat : AtHeight(h)
    BY DEF IInv
  <2>2. leaves \in Input /\ DOMAIN leaves = 1 .. Len(leaves) /\ Len(leaves) \in Nat
    BY ConstantsAssumption DEF IInv
  <2>3. 2^h \in Nat /\ IsLevel(Len(leaves), 2^h, Len(level))
    BY <2>1, PowersGrow DEF AtHeight, LevelsAreRight
  <2>4. ASSUME NEW s \in Nat, NEW j \in Nat \ {0} PROVE Below(Len(leaves), s, j) \subseteq DOMAIN leaves
    <3>1. (j - 1) * s \in Nat /\ j * s \in Int
      BY Products
    <3> QED
      BY <2>2, <3>1 DEF Below, Upto
  <2>5. /\ DOMAIN groups = 1 .. Len(level) /\ Len(groups) = Len(level)
        /\ DOMAIN nextGroups = 1 .. Len(nextLevel) /\ Len(nextGroups) = Len(nextLevel)
        /\ Len(level) \in Nat /\ Len(nextLevel) \in Nat
        /\ \A j \in 1 .. Len(level) : groups[j] = Below(Len(leaves), 2^h, j)
        /\ \A j \in 1 .. Len(nextLevel) : nextGroups[j] = Below(Len(leaves), 2 * 2^h, j)
    BY <2>1, SeqFacts DEF AtHeight, LevelsAreRight
  <2>6. \A g \in Range(groups) \cup Range(nextGroups) : g \subseteq DOMAIN leaves
    <3>1. /\ \A j \in 1 .. Len(level) : groups[j] \subseteq DOMAIN leaves
          /\ \A j \in 1 .. Len(nextLevel) : nextGroups[j] \subseteq DOMAIN leaves
      BY <2>3, <2>4, <2>5
    <3> QED
      BY <2>5, <3>1 DEF Range
  <2> QED
    BY <2>2, <2>5, <2>6 DEF IInv, Started, TypeOK
<1> QED
  BY <1>1, Invariance, PTL

\* What is left of a sequence, followed by another one.
LEMMA RangeOfRest ==
    ASSUME NEW a, IsSeq(a), NEW b, IsSeq(b), NEW m \in 1 .. Len(a) + 1
    PROVE  Range(SubSeq(a, m, Len(a)) \o b)
              = {a[j] : j \in m .. Len(a)} \cup {b[j] : j \in 1 .. Len(b)}
<1> DEFINE S == Range(a) \cup Range(b)
           r == SubSeq(a, m, Len(a))
           n == Len(a) + 1 - m
<1>1. /\ Len(a) \in Nat /\ DOMAIN a = 1 .. Len(a) /\ Len(b) \in Nat /\ DOMAIN b = 1 .. Len(b)
      /\ n \in Nat /\ m \in Int
  BY SeqFacts
<1>2. /\ \A j \in m .. Len(a) : a[j] \in S
      /\ b \in Seq(S)
  <2>1. \A j \in 1 .. Len(a) : a[j] \in S
    BY <1>1 DEF Range
  <2>2. m .. Len(a) \subseteq 1 .. Len(a)
    BY <1>1
  <2> QED
    BY <2>1, <2>2 DEF IsSeq
<1> HIDE DEF S
<1>3. /\ r \in Seq(S) /\ Len(r) = n
      /\ \A j \in 1 .. n : r[j] = a[m + j - 1]
  BY <1>1, <1>2, SubSeqProperties
<1> HIDE DEF r
<1>4. /\ r \o b \in Seq(S) /\ Len(r \o b) = n + Len(b)
      /\ \A j \in 1 .. n + Len(b) : (r \o b)[j] = IF j <= n THEN r[j] ELSE b[j - n]
  <2>1. /\ r \o b \in Seq(S) /\ Len(r \o b) = Len(r) + Len(b)
        /\ \A j \in 1 .. Len(r) + Len(b) :
              (r \o b)[j] = IF j <= Len(r) THEN r[j] ELSE b[j - Len(r)]
    BY <1>2, <1>3, ConcatProperties
  <2> HIDE DEF n
  <2> QED
    BY <1>3, <2>1
<1>5. PICK c : c = r \o b
  OBVIOUS
<1>6. DOMAIN c = 1 .. n + Len(b)
  BY <1>4, <1>5
<1>7. ASSUME NEW j \in 1 .. n + Len(b)
      PROVE  c[j] \in {a[k] : k \in m .. Len(a)} \cup {b[k] : k \in 1 .. Len(b)}
  <2>1. CASE j <= n
    <3>1. c[j] = a[m + j - 1] /\ m + j - 1 \in m .. Len(a)
      BY <1>1, <1>3, <1>4, <1>5, <2>1
    <3> QED
      BY <3>1
  <2>2. CASE j > n
    <3>1. c[j] = b[j - n] /\ j - n \in 1 .. Len(b)
      BY <1>1, <1>4, <1>5, <2>2
    <3> QED
      BY <3>1
  <2> QED
    BY <1>1, <2>1, <2>2
<1>8. ASSUME NEW k \in m .. Len(a) PROVE a[k] \in Range(c)
  <2>1. k - m + 1 \in 1 .. n /\ k - m + 1 \in 1 .. n + Len(b) /\ m + (k - m + 1) - 1 = k
    BY <1>1
  <2>2. c[k - m + 1] = a[k]
    BY <1>3, <1>4, <1>5, <2>1
  <2> QED
    BY <1>6, <2>1, <2>2 DEF Range
<1>9. ASSUME NEW k \in 1 .. Len(b) PROVE b[k] \in Range(c)
  <2>1. k + n \in 1 .. n + Len(b) /\ ~ (k + n <= n) /\ (k + n) - n = k
    BY <1>1
  <2>2. c[k + n] = b[k]
    BY <1>4, <1>5, <2>1
  <2> QED
    BY <1>6, <2>1, <2>2 DEF Range
<1>10. Range(c) = {a[j] : j \in m .. Len(a)} \cup {b[j] : j \in 1 .. Len(b)}
  <2>1. \A x \in Range(c) : \E j \in 1 .. n + Len(b) : x = c[j]
    BY <1>6 DEF Range
  <2> QED
    BY <1>7, <1>8, <1>9, <2>1
<1> QED
  BY <1>5, <1>10 DEF r

\* A node of the next level has none of the leaves not yet passed in this one.
LEMMA PassedAreApart ==
    ASSUME NEW h \in Nat, LevelsAreRight(h), NEW j \in i .. Len(level), NEW l \in 1 .. Len(nextLevel)
    PROVE  Below(Len(leaves), 2^h, j) \cap Below(Len(leaves), 2 * 2^h, l) = {}
<1> DEFINE n == Len(leaves)
           q == Len(nextLevel)
           s == 2^h
<1>1. /\ n \in Nat /\ s \in Nat \ {0} /\ Len(level) \in Nat /\ q \in Nat
  BY SeqFacts, PowersGrow DEF LevelsAreRight, IsLevel
<1>2. i = 2 * q + 1 /\ j \in Nat /\ 2 * q <= j - 1 /\ l <= q
  BY <1>1 DEF LevelsAreRight
<1> HIDE DEF n, q, s
<1>3. /\ l * (2 * s) <= q * (2 * s) /\ (2 * q) * s <= (j - 1) * s
      /\ l * (2 * s) \in Int /\ q * (2 * s) \in Int /\ (2 * q) * s \in Int /\ (j - 1) * s \in Int
  BY <1>1, <1>2, Products
<1>4. q * (2 * s) = (2 * q) * s
  BY <1>1
<1>5. \A k \in Below(n, 2 * s, l) : k <= l * (2 * s)
  BY <1>1, <1>3 DEF Below, Upto
<1>6. \A k \in Below(n, s, j) : k > (j - 1) * s
  BY <1>1, <1>3 DEF Below
<1>7. \A k \in Below(n, s, j) : k \in Int
  BY DEF Below
<1> QED
  BY <1>3, <1>4, <1>5, <1>6, <1>7 DEF n, s

\* Below every node the leaves fold to it.
LEMMA NodesFold ==
    ASSUME IInv, outcome \in Started, NEW h \in Nat, AtHeight(h)
    PROVE  /\ \A j \in i .. Len(level) : \A k \in Below(Len(leaves), 2^h, j) :
                 k \in DOMAIN leaves /\ Fold(leaves[k], proofs[k]) = level[j]
           /\ \A j \in 1 .. Len(nextLevel) : \A k \in Below(Len(leaves), 2 * 2^h, j) :
                 k \in DOMAIN leaves /\ Fold(leaves[k], proofs[k]) = nextLevel[j]
<1> DEFINE n == Len(leaves)
           q == Len(nextLevel)
           s == 2^h
           L == Len(level)
<1>1. /\ n \in Nat /\ s \in Nat /\ 2 * s \in Nat /\ q \in Nat /\ L \in Nat
      /\ DOMAIN leaves = 1 .. n /\ i \in Nat \ {0}
  BY ConstantsAssumption, SeqFacts, PowersGrow DEF AtHeight, LevelsAreRight, IInv
<1>2. /\ LevelsAreRight(h)
      /\ \A k \in DOMAIN leaves :
            \/ \E j \in i .. L : k \in Below(n, s, j) /\ Fold(leaves[k], proofs[k]) = level[j]
            \/ \E j \in 1 .. q :
                  k \in Below(n, 2 * s, j) /\ Fold(leaves[k], proofs[k]) = nextLevel[j]
  BY DEF AtHeight, LeavesHaveNodes
<1>3. \A j \in i .. L, l \in 1 .. q : Below(n, s, j) \cap Below(n, 2 * s, l) = {}
  BY <1>2, PassedAreApart
<1> HIDE DEF n, q, s, L
<1>4. ASSUME NEW t \in Nat, NEW j \in Nat \ {0} PROVE Below(n, t, j) \subseteq 1 .. n
  <2>1. (j - 1) * t \in Nat /\ j * t \in Int
    BY Products
  <2> QED
    BY <1>1, <2>1 DEF Below, Upto
<1>5. ASSUME NEW t \in Nat, NEW a \in Nat \ {0}, NEW b \in Nat \ {0}, a # b
      PROVE  Below(n, t, a) \cap Below(n, t, b) = {}
  <2>1. a < b \/ b < a
    BY <1>5
  <2> QED
    BY <1>1, <2>1, NodesAreApart
<1>6. ASSUME NEW j \in i .. L, NEW k \in Below(n, s, j)
      PROVE  k \in DOMAIN leaves /\ Fold(leaves[k], proofs[k]) = level[j]
  <2>1. j \in Nat \ {0} /\ \A a \in i .. L : a \in Nat \ {0}
    BY <1>1
  <2>2. k \in DOMAIN leaves
    BY <1>1, <1>4, <2>1
  <2>3. PICK a \in i .. L : k \in Below(n, s, a) /\ Fold(leaves[k], proofs[k]) = level[a]
    BY <1>2, <1>3, <2>2
  <2>4. a = j
    BY <1>1, <1>5, <2>1, <2>3
  <2> QED
    BY <2>2, <2>3, <2>4
<1>7. ASSUME NEW j \in 1 .. q, NEW k \in Below(n, 2 * s, j)
      PROVE  k \in DOMAIN leaves /\ Fold(leaves[k], proofs[k]) = nextLevel[j]
  <2>1. j \in Nat \ {0} /\ \A a \in 1 .. q : a \in Nat \ {0}
    BY <1>1
  <2>2. k \in DOMAIN leaves
    BY <1>1, <1>4, <2>1
  <2>3. PICK a \in 1 .. q : k \in Below(n, 2 * s, a) /\ Fold(leaves[k], proofs[k]) = nextLevel[a]
    BY <1>2, <1>3, <2>2
  <2>4. a = j
    BY <1>1, <1>5, <2>1, <2>3
  <2> QED
    BY <2>2, <2>3, <2>4
<1> QED
  BY <1>6, <1>7 DEF n, q, s, L

\* At every turn of the inner loop each leaf has a node to which it folds.
THEOREM LeavesAlwaysFold == Spec => []ProofsFold
<1>1. IInv => ProofsFold
  <2> SUFFICES ASSUME IInv, outcome = "building" PROVE ProofsFold
    BY DEF ProofsFold
  <2>0. outcome \in Started
    BY DEF Started
  <2>1. PICK h \in Nat : AtHeight(h)
    BY <2>0 DEF IInv
  <2> DEFINE n == Len(leaves)
             s == 2^h
  <2>2. /\ \A j \in i .. Len(level) : \A k \in Below(n, s, j) :
              k \in DOMAIN leaves /\ Fold(leaves[k], proofs[k]) = level[j]
        /\ \A j \in 1 .. Len(nextLevel) : \A k \in Below(n, 2 * s, j) :
              k \in DOMAIN leaves /\ Fold(leaves[k], proofs[k]) = nextLevel[j]
    BY <2>0, <2>1, NodesFold
  <2>3. /\ IsSeq(groups) /\ IsSeq(nextGroups)
        /\ Len(groups) = Len(level) /\ Len(nextGroups) = Len(nextLevel)
        /\ \A j \in 1 .. Len(level) : groups[j] = Below(n, s, j)
        /\ \A j \in 1 .. Len(nextLevel) : nextGroups[j] = Below(n, 2 * s, j)
        /\ Len(level) \in Nat /\ i \in 1 .. Len(level) + 1
    BY <2>1, SeqFacts DEF AtHeight, LevelsAreRight, IsLevel
  <2>4. \A k \in DOMAIN leaves :
           \/ \E j \in i .. Len(level) : k \in Below(n, s, j)
           \/ \E j \in 1 .. Len(nextLevel) : k \in Below(n, 2 * s, j)
    BY <2>1 DEF AtHeight, LeavesHaveNodes
  <2> HIDE DEF n, s
  <2>5. i .. Len(level) \subseteq 1 .. Len(level)
    BY <2>3
  <2>6. Folds(level, groups, i) /\ Folds(nextLevel, nextGroups, 1)
    BY <2>2, <2>3, <2>5 DEF Folds
  <2>7. Range(SubSeq(groups, i, Len(groups)) \o nextGroups)
           = {groups[j] : j \in i .. Len(groups)} \cup {nextGroups[j] : j \in 1 .. Len(nextGroups)}
    BY <2>3, RangeOfRest
  <2>8. UNION Range(SubSeq(groups, i, Len(groups)) \o nextGroups) = DOMAIN leaves
    <3>1. \A k \in DOMAIN leaves : \E g \in Range(SubSeq(groups, i, Len(groups)) \o nextGroups) : k \in g
      BY <2>3, <2>4, <2>5, <2>7
    <3>2. \A g \in Range(SubSeq(groups, i, Len(groups)) \o nextGroups) : g \subseteq DOMAIN leaves
      BY <2>2, <2>3, <2>5, <2>7
    <3> QED
      BY <3>1, <3>2
  <2> QED
    BY <2>6, <2>8 DEF ProofsFold
<1> QED
  BY <1>1, Invariance, PTL

\* A tree that is built is of one node, to which every leaf folds with a proof
\* within the cap.
LEMMA BuiltTree ==
    ASSUME IInv, outcome \in {"built", "too_long"}
    PROVE  /\ \A k \in DOMAIN leaves : IsSeq(proofs[k]) /\ Fold(leaves[k], proofs[k]) = level[1]
           /\ leaves \in Input /\ IsInjective(leaves)
           /\ level[1] = Reference
<1>1. PICK h \in Nat : AtHeight(h)
  BY DEF IInv, Started
<1>2. /\ leaves \in Input /\ IsInjective(leaves) /\ DOMAIN leaves = 1 .. Len(leaves)
      /\ Len(leaves) \in Nat
      /\ Len(level) = 1 /\ i = 1 /\ nextLevel = <<>> /\ outcome \in Started
  BY ConstantsAssumption DEF IInv, Started
<1> DEFINE n == Len(leaves)
           s == 2^h
<1>3. IsLevel(n, s, 1) /\ level[1] = RootOf(leaves, s, 1)
  BY <1>1, <1>2 DEF AtHeight, LevelsAreRight
<1>4. Upto(n, s, 1) = n /\ (1 - 1) * s = 0 /\ s \in Nat /\ n \in Nat
  <2>1. 1 \in 1 .. 1 /\ s \in Nat
    BY <1>3 DEF IsLevel
  <2>2. Upto(n, s, 1) = n
    BY <1>3, <2>1, NodeFacts
  <2> QED
    BY <1>2, <2>1, <2>2
<1>5. level[1] = Reference
  <2>1. Upto(n, s, 1) - (1 - 1) * s = n /\ (1 - 1) * s + 1 = 1
    BY <1>4
  <2>2. RootOf(leaves, s, 1) = TreeOver(leaves)[n][1]
    BY <2>1, RootIs
  <2> QED
    BY <1>3, <2>2 DEF Reference
<1>6. \A k \in DOMAIN leaves : k \in Below(n, s, 1) /\ 1 \in i .. Len(level)
  BY <1>2, <1>4 DEF Below
<1>7. \A k \in DOMAIN leaves : Fold(leaves[k], proofs[k]) = level[1]
  BY <1>1, <1>2, <1>6, NodesFold
<1>8. \A k \in DOMAIN leaves : IsSeq(proofs[k])
  BY <1>1 DEF AtHeight, LengthsAreRight
<1> QED
  BY <1>2, <1>5, <1>7, <1>8

\* The root BuildTree returns is that of the recursive definition, for every
\* sequence of distinct leaves.
THEOREM RootIsTheDocumentedOne == Spec => []RootIsReference
<1>1. IInv => RootIsReference
  BY BuiltTree DEF RootIsReference
<1> QED
  BY <1>1, Invariance, PTL

\* Each leaf verifies with its own proof, and no other leaf does.
THEOREM ProofsVerifyTheirLeaf == Spec => []ProofsVerify
<1>1. IInv => ProofsVerify
  <2> SUFFICES ASSUME IInv, outcome = "built", NEW k \in DOMAIN leaves, NEW l \in DOMAIN leaves
               PROVE  VerifyProof(level[1], leaves[l], proofs[k]) <=> l = k
    BY DEF ProofsVerify
  <2>1. /\ IsSeq(proofs[k]) /\ Fold(leaves[k], proofs[k]) = level[1] /\ IsInjective(leaves)
    BY BuiltTree
  <2>2. Fold(leaves[l], proofs[k]) = Fold(leaves[k], proofs[k]) => leaves[l] = leaves[k]
    BY <2>1, FoldIsInjective
  <2>3. leaves[l] = leaves[k] => l = k
    BY <2>1 DEF IsInjective
  <2> QED
    BY <2>1, <2>2, <2>3 DEF VerifyProof
<1> QED
  BY <1>1, Invariance, PTL

\* No proof is longer than the tree is high: the contract's cap refuses just
\* the leaf sets that are too large for it.
THEOREM ProofsFitTheCap == Spec => []ProofsAreShort
<1>1. IInv => ProofsAreShort
  <2> SUFFICES ASSUME IInv, outcome \in Started PROVE ProofsAreShort
    <3>1. CASE IInv /\ outcome \notin Started
      <4>1. DOMAIN proofs = {} /\ outcome # "built" /\ outcome # "too_long"
        BY <3>1 DEF IInv, Started
      <4> QED
        BY <4>1 DEF ProofsAreShort
    <3> QED
      BY <3>1
  <2>1. PICK h \in Nat : AtHeight(h)
    BY DEF IInv
  <2> DEFINE n == Len(leaves)
  <2>2. /\ n \in Nat /\ DOMAIN leaves = 1 .. n /\ DOMAIN proofs = 1 .. n /\ n # 0
        /\ \A k \in 1 .. n : IsSeq(proofs[k]) /\ Len(proofs[k]) \in Nat /\ Len(proofs[k]) <= h + 1
        /\ h > 0 => 2^(h - 1) < n
        /\ 2^h \in Nat /\ Len(level) \in Nat \ {0} /\ (Len(level) - 1) * 2^h < n
    BY <2>1, ConstantsAssumption, PowersGrow, SeqFacts
       DEF IInv, AtHeight, LengthsAreRight, LevelsAreRight, IsLevel
  <2>3. CASE Len(level) = 1
    <3>1. /\ i = 1 /\ IsLevel(n, 2^h, 1)
          /\ \A k \in 1 .. n : \A j \in i .. Len(level) :
                k \in Below(n, 2^h, j) => Len(proofs[k]) <= h
          /\ Len(proofs[1]) = h
      BY <2>1, <2>2, <2>3 DEF IInv, AtHeight, LengthsAreRight, LevelsAreRight
    <3>2. Below(n, 2^h, 1) = 1 .. n /\ n <= 2^h
      <4>1. 1 \in 1 .. 1 /\ (1 - 1) * 2^h = 0 /\ 1 * 2^h = 2^h
        BY <2>2
      <4>2. Upto(n, 2^h, 1) = n /\ n <= 1 * 2^h
        BY <3>1, <4>1, NodeFacts DEF IsLevel
      <4> QED
        BY <4>1, <4>2 DEF Below
    <3>3. \A k \in 1 .. n : Len(proofs[k]) <= h
      BY <2>3, <3>1, <3>2
    <3>4. ASSUME NEW m \in Nat, m <= h, m > 0 PROVE 2^(m - 1) < n
      <4>1. m - 1 \in Nat /\ h - 1 \in Nat /\ (m - 1 = h - 1 \/ m - 1 < h - 1)
        BY <3>4
      <4>2. 2^(m - 1) \in Nat /\ 2^(h - 1) \in Nat /\ (m - 1 < h - 1 => 2 * 2^(m - 1) <= 2^(h - 1))
        BY <4>1, PowersGrow
      <4> QED
        BY <2>2, <3>4, <4>1, <4>2
    <3>5. \A k \in 1 .. n : proofs[k] # <<>> => 2^(Len(proofs[k]) - 1) < n
      <4> TAKE k \in 1 .. n
      <4>1. proofs[k] # <<>> => Len(proofs[k]) > 0
        BY <2>2 DEF IsSeq
      <4> QED
        BY <2>2, <3>3, <3>4, <4>1
    <3>6. outcome = "built" => n <= 2^MaxProof
      <4> SUFFICES ASSUME outcome = "built" PROVE n <= 2^MaxProof
        OBVIOUS
      <4>1. h <= MaxProof
        <5>1. 1 \in DOMAIN leaves
          BY <2>2
        <5>2. Len(proofs[1]) <= MaxProof
          BY <5>1 DEF IInv
        <5> QED
          BY <3>1, <5>2
      <4>2. MaxProof \in Nat /\ 2^MaxProof \in Nat /\ (h < MaxProof => 2 * 2^h <= 2^MaxProof)
        BY ConstantsAssumption, PowersGrow
      <4>3. h = MaxProof \/ h < MaxProof
        BY <4>1, <4>2
      <4> QED
        BY <2>2, <3>2, <4>2, <4>3
    <3>7. outcome = "too_long" => n > 2^MaxProof
      <4> SUFFICES ASSUME outcome = "too_long" PROVE n > 2^MaxProof
        OBVIOUS
      <4>1. PICK k \in 1 .. n : Len(proofs[k]) > MaxProof
        <5>1. \E k \in DOMAIN leaves : Len(proofs[k]) > MaxProof
          BY DEF IInv
        <5>2. DOMAIN leaves = 1 .. n
          BY <2>2
        <5> HIDE DEF n
        <5> QED
          BY <5>1, <5>2
      <4>2. MaxProof \in Nat /\ MaxProof + 1 \in Nat /\ MaxProof + 1 <= h /\ (MaxProof + 1) - 1 = MaxProof
        BY <2>2, <3>3, <4>1, ConstantsAssumption
      <4>3. 2^MaxProof < n /\ 2^MaxProof \in Nat
        BY <3>4, <4>2, PowersGrow
      <4> QED
        BY <2>2, <4>3
    <3> QED
      BY <2>2, <3>5, <3>6, <3>7 DEF ProofsAreShort
  <2>4. CASE Len(level) > 1
    <3>1. outcome = "building"
      <4>1. PICK size \in Nat : size = Len(level)
        BY <2>2
      <4>2. Len(level) # 1
        <5>1. size > 1
          BY <2>4, <4>1
        <5> QED
          BY <4>1, <5>1
      <4> QED
        BY <4>2 DEF IInv, Started
    <3>2. 2^h < n
      <4>1. 1 * 2^h <= (Len(level) - 1) * 2^h /\ 1 * 2^h = 2^h /\ (Len(level) - 1) * 2^h \in Int
        BY <2>2, <2>4, Products
      <4> QED
        BY <2>2, <4>1
    <3>3. ASSUME NEW k \in 1 .. n, proofs[k] # <<>> PROVE 2^(Len(proofs[k]) - 1) < n
      <4>1. PICK m \in Nat : m = Len(proofs[k]) - 1 /\ m <= h
        <5>1. Len(proofs[k]) > 0
          BY <2>2, <3>3 DEF IsSeq
        <5>2. Len(proofs[k]) \in Nat /\ Len(proofs[k]) <= h + 1
          BY <2>2
        <5>3. Len(proofs[k]) - 1 \in Nat /\ Len(proofs[k]) - 1 <= h
          BY <5>1, <5>2
        <5> QED
          BY <5>3
      <4>2. 2^m \in Nat /\ (m < h => 2 * 2^m <= 2^h) /\ (m = h \/ m < h)
        BY <4>1, PowersGrow
      <4>3. 2^m < n
        BY <2>2, <3>2, <4>2
      <4> QED
        BY <4>1, <4>3
    <3> QED
      BY <2>2, <3>1, <3>3 DEF ProofsAreShort
  <2>5. Len(level) = 1 \/ Len(level) > 1
    <3>1. Len(level) \in Nat \ {0}
      BY <2>2
    <3> QED
      BY <3>1
  <2> QED
    BY <2>3, <2>4, <2>5
<1> QED
  BY <1>1, Invariance, PTL

=============================================================================
