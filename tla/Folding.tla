------------------------------- MODULE Folding -------------------------------
(***************************************************************************)
(* Facts about counting up to a number and over a finite set, on which the *)
(* proofs about operators written as recursive functions rest.             *)
(***************************************************************************)
EXTENDS Integers, Sequences, Functions, FiniteSets, TLAPS, WellFoundedInduction,
        FiniteSetTheorems, FunctionTheorems, SequenceTheorems

\* Induction up to N: a set that holds 0 and, with a number below N, the next
\* one holds every number up to N.  It justifies every fold of the router.
LEMMA UpTo ==
  ASSUME NEW N \in Nat, NEW P, 0 \in P,
         \A n \in 0..(N - 1) : n \in P => n + 1 \in P
  PROVE  0..N \subseteq P
<1> DEFINE Missing == {n \in 0..N : n \notin P}
           Below == OpToRel(<, Nat)
<1>1. SUFFICES ASSUME Missing # {} PROVE FALSE
  OBVIOUS
<1>2. IsWellFoundedOn(Below, Nat)
  BY NatLessThanWellFounded
<1>3. Missing \subseteq Nat
  OBVIOUS
<1>4. PICK n \in Missing : \A m \in Missing : ~(<<m, n>> \in Below)
  <2> HIDE DEF Missing, Below
  <2> QED BY <1>1, <1>2, <1>3, WFMin
<1>5. \A m \in Missing : ~(m < n)
  BY <1>4, <1>3 DEF OpToRel
<1>6. n - 1 \in 0..(N - 1) /\ n - 1 \notin Missing
  BY <1>5
<1> QED
  BY <1>6

\* A set of positions has a first one.
LEMMA FirstIn ==
  ASSUME NEW P \in SUBSET Nat, P # {}
  PROVE  /\ (CHOOSE p \in P : \A q \in P : p <= q) \in P
         /\ \E p \in P : \A q \in P : p <= q
<1> DEFINE Below == OpToRel(<, Nat)
<1>1. IsWellFoundedOn(Below, Nat)
  BY NatLessThanWellFounded
<1>2. PICK n \in P : \A m \in P : ~(<<m, n>> \in Below)
  <2> HIDE DEF Below
  <2> QED BY <1>1, WFMin
<1>3. \A m \in P : ~(m < n)
  BY <1>2 DEF OpToRel
<1>4. \A m \in P : n <= m
  BY <1>3
<1> QED
  BY <1>4

\* The first N steps of a fold over X, and that f is the fold by the steps g
\* from the value a.
Steps(N, X) == [1..N -> [X -> X]]

IsFold(N, X, a, g, f) ==
  /\ f \in [0..N -> X]
  /\ f[0] = a
  /\ \A n \in 1..N : f[n] = g[n][f[n - 1]]

\* A fold whose steps map X to X has a value at every n: the recursions of the
\* router's operators are defined.
LEMMA FoldExists ==
  ASSUME NEW N, N \in Nat, NEW X, NEW a, a \in X, NEW g, g \in Steps(N, X)
  PROVE  \E f : IsFold(N, X, a, g, f)
<1> DEFINE Reached == {m \in 0..N : \E f : IsFold(m, X, a, g, f)}
<1>1. 0 \in Reached
  <2> DEFINE e == [i \in 0..0 |-> a]
  <2>1. IsFold(0, X, a, g, e)
    BY DEF IsFold
  <2> HIDE DEF e
  <2> QED BY <2>1
<1>2. ASSUME NEW m \in 0..(N - 1), m \in Reached
      PROVE  m + 1 \in Reached
  <2>1. PICK f : IsFold(m, X, a, g, f)
    BY <1>2
  <2> DEFINE e == [i \in 0..(m + 1) |-> IF i = m + 1 THEN g[m + 1][f[m]] ELSE f[i]]
  <2>2. g[m + 1][f[m]] \in X
    BY <2>1 DEF IsFold, Steps
  <2>3. e \in [0..(m + 1) -> X]
    BY <2>1, <2>2 DEF IsFold
  <2>4. e[0] = a
    BY <2>1 DEF IsFold
  <2>5. ASSUME NEW n \in 1..(m + 1) PROVE e[n] = g[n][e[n - 1]]
    <3>1. CASE n = m + 1
      BY <3>1
    <3>2. CASE n # m + 1
      <4>1. n \in 1..m /\ n - 1 \in 0..m /\ n - 1 # m + 1
        BY <3>2
      <4> QED BY <4>1, <2>1 DEF IsFold
    <3> QED BY <3>1, <3>2
  <2>6. IsFold(m + 1, X, a, g, e)
    BY <2>3, <2>4, <2>5 DEF IsFold
  <2> HIDE DEF e
  <2> QED BY <2>6
<1>3. 0..N \subseteq Reached
  <2> HIDE DEF Reached
  <2> QED BY <1>1, <1>2, UpTo
<1> QED
  BY <1>3

\* Two folds whose first steps are the same agree as far as those steps go: what was
\* computed of a sequence stays as it is when the sequence grows.
LEMMA FoldsAgree ==
  ASSUME NEW N \in Nat, NEW M \in Nat, N <= M, NEW X, NEW Y, NEW a, NEW g, NEW h, NEW e, NEW f,
         IsFold(N, X, a, g, e), IsFold(M, Y, a, h, f),
         \A n \in 1..N : \A x \in X : h[n][x] = g[n][x]
  PROVE  \A n \in 0..N : f[n] = e[n]
<1> DEFINE P == {n \in 0..N : f[n] = e[n]}
<1>1. 0 \in P
  BY DEF IsFold
<1>2. ASSUME NEW n \in 0..(N - 1), n \in P PROVE n + 1 \in P
  <2>1. n + 1 \in 1..N /\ n + 1 \in 1..M /\ n + 1 - 1 = n /\ n \in 0..N
    OBVIOUS
  <2>2. f[n + 1] = h[n + 1][f[n]] /\ e[n + 1] = g[n + 1][e[n]] /\ e[n] \in X
    BY <2>1 DEF IsFold
  <2> QED BY <1>2, <2>1, <2>2
<1>3. 0..N \subseteq P
  <2> HIDE DEF P
  <2> QED BY <1>1, <1>2, UpTo
<1> QED
  BY <1>3

-----------------------------------------------------------------------------
(* Sums over a finite set *)

\* P holds a subset of D when it holds those one element smaller.
Closed(D, P) == \A S \in SUBSET D : (\A x \in S : S \ {x} \in P) => S \in P

\* Induction over the subsets of a finite set.
LEMMA SubsetsIn ==
  ASSUME NEW D, IsFiniteSet(D), NEW P, Closed(D, P)
  PROVE  SUBSET D \subseteq P
<1> DEFINE Missing == {S \in SUBSET D : S \notin P}
           Below == StrictSubsetOrdering(D)
<1>1. SUFFICES ASSUME Missing # {} PROVE FALSE
  OBVIOUS
<1>2. IsWellFoundedOn(Below, SUBSET D)
  BY FS_StrictSubsetOrderingWellFounded, FS_FiniteSubsetsOfFinite
<1>3. PICK S \in Missing : \A R \in Missing : ~(<<R, S>> \in Below)
  <2>1. Missing \subseteq SUBSET D
    OBVIOUS
  <2> HIDE DEF Missing, Below
  <2> QED BY <1>1, <1>2, <2>1, WFMin
<1>4. ASSUME NEW x \in S PROVE S \ {x} \in P
  <2>1. <<S \ {x}, S>> \in Below /\ S \ {x} \in SUBSET D
    BY DEF StrictSubsetOrdering
  <2> QED BY <1>3, <2>1
<1> QED
  BY <1>3, <1>4 DEF Closed

\* Some element of a set.
Some(S) == CHOOSE x \in S : TRUE

\* g is the sum of f over each subset of its domain D.
Sums(f, D, g) ==
  /\ g \in [SUBSET D -> Int]
  /\ g[{}] = 0
  /\ \A S \in SUBSET D : \A x \in S : g[S] = f[x] + g[S \ {x}]

\* The same, taking away one element of each set only.
TakesOff(f, D, g) ==
  \A S \in SUBSET D : g[S] = IF S = {} THEN 0 ELSE f[Some(S)] + g[S \ {Some(S)}]

LEMMA SomeIn == \A S : S # {} => Some(S) \in S
BY DEF Some

LEMMA FoldsSum ==
  ASSUME NEW D, IsFiniteSet(D), NEW f \in [D -> Int], NEW g \in [SUBSET D -> Int],
         TakesOff(f, D, g)
  PROVE  Sums(f, D, g)
<1> DEFINE P == {S \in SUBSET D : \A x \in S : g[S] = f[x] + g[S \ {x}]}
<1>1. ASSUME NEW S \in SUBSET D, \A x \in S : S \ {x} \in P
      PROVE  S \in P
  <2> SUFFICES ASSUME NEW x \in S PROVE g[S] = f[x] + g[S \ {x}]
    OBVIOUS
  <2> DEFINE y == Some(S)
  <2>1. y \in S /\ g[S] = f[y] + g[S \ {y}]
    BY SomeIn DEF TakesOff
  <2> HIDE DEF y
  <2>2. CASE x = y
    BY <2>1, <2>2
  <2>3. CASE x # y
    <3>1. x \in S \ {y} /\ y \in S \ {x} /\ (S \ {y}) \ {x} = (S \ {x}) \ {y}
      BY <2>1, <2>3
    <3>2. g[S \ {y}] = f[x] + g[(S \ {y}) \ {x}]
      BY <1>1, <2>1, <3>1
    <3>3. g[S \ {x}] = f[y] + g[(S \ {x}) \ {y}]
      BY <1>1, <3>1
    <3>4. g[(S \ {x}) \ {y}] \in Int /\ f[x] \in Int /\ f[y] \in Int
      BY <2>1
    <3>5. \A a, b, c \in Int : a + (b + c) = b + (a + c)
      OBVIOUS
    <3>6. g[S] = f[y] + (f[x] + g[(S \ {x}) \ {y}])
      BY <2>1, <3>1, <3>2
    <3>7. g[S] = f[x] + (f[y] + g[(S \ {x}) \ {y}])
      BY <3>4, <3>5, <3>6
    <3> QED BY <3>3, <3>7
  <2> QED BY <2>2, <2>3
<1>2. SUBSET D \subseteq P
  <2>1. Closed(D, P)
    BY <1>1 DEF Closed
  <2> HIDE DEF P
  <2> QED BY <2>1, SubsetsIn
<1>3. g[{}] = 0
  BY DEF TakesOff
<1> QED
  BY <1>2, <1>3 DEF Sums

\* There is such a function, so that the sum the router's module takes is one.
LEMMA SumsExist ==
  ASSUME NEW D, IsFiniteSet(D), NEW f \in [D -> Int]
  PROVE  \E g \in [SUBSET D -> Int] : TakesOff(f, D, g)
<1> DEFINE Small(n) == {S \in SUBSET D : Cardinality(S) <= n}
           P == {n \in Nat : \E g \in [Small(n) -> Int] : \A S \in Small(n) :
                    g[S] = IF S = {} THEN 0 ELSE f[Some(S)] + g[S \ {Some(S)}]}
           N == Cardinality(D)
<1>1. N \in Nat /\ \A S \in SUBSET D : IsFiniteSet(S) /\ Cardinality(S) \in 0..N
  BY FS_Subset, FS_CardinalityType
<1>2. \A S \in SUBSET D : S # {} =>
        /\ Some(S) \in S /\ S \ {Some(S)} \in SUBSET D
        /\ Cardinality(S \ {Some(S)}) = Cardinality(S) - 1
        /\ Cardinality(S) # 0
  BY <1>1, SomeIn, FS_RemoveElement, FS_EmptySet
<1>3. Cardinality({}) = 0
  BY FS_EmptySet
<1>4. 0 \in P
  <2> DEFINE g == [S \in Small(0) |-> 0]
  <2>1. \A S \in Small(0) : S = {}
    <3> SUFFICES ASSUME NEW S \in SUBSET D, Cardinality(S) <= 0 PROVE S = {}
      OBVIOUS
    <3>1. Cardinality(S) = 0
      BY <1>1
    <3> QED BY <1>2, <3>1
  <2>2. g \in [Small(0) -> Int] /\ \A S \in Small(0) :
          g[S] = IF S = {} THEN 0 ELSE f[Some(S)] + g[S \ {Some(S)}]
    BY <2>1
  <2> QED BY <2>2
<1>5. ASSUME NEW n \in 0..(N - 1), n \in P PROVE n + 1 \in P
  <2>1. PICK h \in [Small(n) -> Int] : \A S \in Small(n) :
          h[S] = IF S = {} THEN 0 ELSE f[Some(S)] + h[S \ {Some(S)}]
    BY <1>5
  <2> DEFINE g == [S \in Small(n + 1) |->
                     IF S \in Small(n) THEN h[S] ELSE f[Some(S)] + h[S \ {Some(S)}]]
  <2>2. ASSUME NEW S \in Small(n + 1), S # {}
        PROVE  S \ {Some(S)} \in Small(n) /\ f[Some(S)] \in Int
    BY <1>1, <1>2, <2>2
  <2>3. {} \in Small(n) /\ Small(n) \subseteq Small(n + 1)
    BY <1>1, <1>3
  <2> HIDE DEF Small
  <2>4. g \in [Small(n + 1) -> Int]
    <3>1. ASSUME NEW S \in Small(n + 1)
          PROVE  (IF S \in Small(n) THEN h[S] ELSE f[Some(S)] + h[S \ {Some(S)}]) \in Int
      <4>1. CASE S \in Small(n)
        BY <4>1
      <4>2. CASE S \notin Small(n)
        <5>1. S # {}
          BY <2>3, <4>2
        <5>2. h[S \ {Some(S)}] \in Int /\ f[Some(S)] \in Int
          BY <2>2, <5>1
        <5> QED BY <4>2, <5>2
      <4> QED BY <4>1, <4>2
    <3> QED BY <3>1
  <2>5. ASSUME NEW S \in Small(n + 1)
        PROVE  g[S] = IF S = {} THEN 0 ELSE f[Some(S)] + g[S \ {Some(S)}]
    <3>1. CASE S = {}
      BY <2>1, <2>3, <3>1
    <3>2. CASE S # {} /\ S \in Small(n)
      BY <2>1, <2>2, <2>3, <3>2
    <3>3. CASE S # {} /\ S \notin Small(n)
      BY <2>2, <2>3, <3>3
    <3> QED BY <3>1, <3>2, <3>3
  <2>6. n + 1 \in Nat
    BY <1>1
  <2> HIDE DEF g
  <2> QED BY <2>4, <2>5, <2>6
<1>6. N \in P
  <2> HIDE DEF P, N
  <2>1. 0..N \subseteq P
    BY <1>1, <1>4, <1>5, UpTo
  <2> QED BY <1>1, <2>1
<1>7. Small(N) = SUBSET D
  BY <1>1
<1> HIDE DEF Small
<1> QED
  BY <1>6, <1>7 DEF TakesOff

\* What SumFunction adds up.
LEMMA SumIs ==
  ASSUME NEW D, IsFiniteSet(D), NEW f \in [D -> Int]
  PROVE  \E g : Sums(f, D, g) /\ SumFunction(f) = g[D]
<1> DEFINE Is(h) == h = [S \in SUBSET D |->
                     IF S = {} THEN 0 ELSE f[Some(S)] + h[S \ {Some(S)}]]
           i == CHOOSE h : Is(h)
<1>1. DOMAIN f = D
  OBVIOUS
<1>2. SumFunction(f) = i[D]
  BY <1>1 DEF SumFunction, SumFunctionOnSet, FoldFunctionOnSet, MapThenFoldSet, Some
<1>3. PICK g \in [SUBSET D -> Int] : TakesOff(f, D, g)
  BY SumsExist
<1>4. Is(g)
  <2>1. g = [S \in SUBSET D |-> g[S]]
    OBVIOUS
  <2> QED BY <1>3, <2>1 DEF TakesOff
<1>5. Is(i)
  <2> HIDE DEF Is
  <2> QED BY <1>4
<1> HIDE DEF i
<1>6. \A S \in SUBSET D : i[S] = IF S = {} THEN 0 ELSE f[Some(S)] + i[S \ {Some(S)}]
  BY <1>5
<1> DEFINE P == {S \in SUBSET D : i[S] = g[S]}
<1>7. ASSUME NEW S \in SUBSET D, \A x \in S : S \ {x} \in P
      PROVE  S \in P
  <2>1. CASE S = {}
    BY <1>3, <1>6, <2>1 DEF TakesOff
  <2>2. CASE S # {}
    <3>1. Some(S) \in S
      BY <2>2, SomeIn
    <3> QED BY <1>3, <1>6, <1>7, <2>2, <3>1 DEF TakesOff
  <2> QED BY <2>1, <2>2
<1>8. SUBSET D \subseteq P
  <2>1. Closed(D, P)
    BY <1>7 DEF Closed
  <2> HIDE DEF P
  <2> QED BY <2>1, SubsetsIn
<1>9. i[D] = g[D]
  BY <1>8
<1> QED
  BY <1>2, <1>3, <1>9, FoldsSum

\* The sum is a number, natural when what is summed is, and 0 when all of that is.
LEMMA SumNat ==
  ASSUME NEW D, IsFiniteSet(D), NEW f \in [D -> Int]
  PROVE  /\ SumFunction(f) \in Int
         /\ (\A x \in D : f[x] \in Nat) => SumFunction(f) \in Nat
         /\ (\A x \in D : f[x] = 0) => SumFunction(f) = 0
<1>1. PICK g : Sums(f, D, g) /\ SumFunction(f) = g[D]
  BY SumIs
<1>2. SumFunction(f) \in Int
  BY <1>1 DEF Sums
<1>3. ASSUME \A x \in D : f[x] \in Nat PROVE g[D] \in Nat
  <2> DEFINE P == {S \in SUBSET D : g[S] \in Nat}
  <2>1. ASSUME NEW S \in SUBSET D, \A x \in S : S \ {x} \in P PROVE S \in P
    <3>1. CASE S = {}
      BY <1>1, <3>1 DEF Sums
    <3>2. CASE S # {}
      <4>1. PICK x \in S : TRUE
        BY <3>2
      <4>2. g[S] = f[x] + g[S \ {x}] /\ f[x] \in Nat /\ g[S \ {x}] \in Nat
        BY <1>1, <1>3, <2>1, <4>1 DEF Sums
      <4> QED BY <4>2
    <3> QED BY <3>1, <3>2
  <2>2. Closed(D, P)
    BY <2>1 DEF Closed
  <2>3. SUBSET D \subseteq P
    <3> HIDE DEF P
    <3> QED BY <2>2, SubsetsIn
  <2> QED BY <2>3
<1>4. ASSUME \A x \in D : f[x] = 0 PROVE g[D] = 0
  <2> DEFINE P == {S \in SUBSET D : g[S] = 0}
  <2>1. ASSUME NEW S \in SUBSET D, \A x \in S : S \ {x} \in P PROVE S \in P
    <3>1. CASE S = {}
      BY <1>1, <3>1 DEF Sums
    <3>2. CASE S # {}
      <4>1. PICK x \in S : TRUE
        BY <3>2
      <4>2. g[S] = f[x] + g[S \ {x}] /\ f[x] = 0 /\ g[S \ {x}] = 0
        BY <1>1, <1>4, <2>1, <4>1 DEF Sums
      <4> QED BY <4>2
    <3> QED BY <3>1, <3>2
  <2>2. Closed(D, P)
    BY <2>1 DEF Closed
  <2>3. SUBSET D \subseteq P
    <3> HIDE DEF P
    <3> QED BY <2>2, SubsetsIn
  <2> QED BY <2>3
<1> QED
  BY <1>1, <1>2, <1>3, <1>4

\* A sum follows the one value that changed.
LEMMA SumUpdate ==
  ASSUME NEW D, IsFiniteSet(D), NEW f \in [D -> Int], NEW g \in [D -> Int], NEW x \in D,
         \A y \in D : y # x => g[y] = f[y]
  PROVE  /\ SumFunction(f) \in Int /\ f[x] \in Int /\ g[x] \in Int
         /\ SumFunction(g) = SumFunction(f) + (g[x] - f[x])
<1>1. PICK F : Sums(f, D, F) /\ SumFunction(f) = F[D]
  BY SumIs
<1>2. PICK G : Sums(g, D, G) /\ SumFunction(g) = G[D]
  BY SumIs
<1> DEFINE P == {S \in SUBSET D : G[S] = F[S] + (IF x \in S THEN g[x] - f[x] ELSE 0)}
<1>3. ASSUME NEW S \in SUBSET D, \A y \in S : S \ {y} \in P PROVE S \in P
  <2>1. CASE S = {}
    BY <1>1, <1>2, <2>1 DEF Sums
  <2>2. CASE S # {}
    <3>1. PICK y \in S : TRUE
      BY <2>2
    <3>2. /\ G[S] = g[y] + G[S \ {y}] /\ F[S] = f[y] + F[S \ {y}]
          /\ F[S \ {y}] \in Int /\ G[S \ {y}] \in Int
          /\ f[y] \in Int /\ g[y] \in Int /\ f[x] \in Int /\ g[x] \in Int
      BY <1>1, <1>2, <3>1 DEF Sums
    <3>3. G[S \ {y}] = F[S \ {y}] + (IF x \in S \ {y} THEN g[x] - f[x] ELSE 0)
      BY <1>3, <3>1
    <3>4. CASE y = x
      <4>1. x \in S /\ x \notin S \ {y}
        BY <3>1, <3>4
      <4> QED BY <3>2, <3>3, <3>4, <4>1
    <3>5. CASE y # x
      <4>1. x \in S <=> x \in S \ {y}
        BY <3>1, <3>5
      <4>2. g[y] = f[y]
        BY <3>5
      <4> QED BY <3>2, <3>3, <4>1, <4>2
    <3> QED BY <3>4, <3>5
  <2> QED BY <2>1, <2>2
<1>4. Closed(D, P)
  BY <1>3 DEF Closed
<1>5. SUBSET D \subseteq P
  <2> HIDE DEF P
  <2> QED BY <1>4, SubsetsIn
<1>6. G[D] = F[D] + (g[x] - f[x])
  BY <1>5
<1> QED
  BY <1>1, <1>2, <1>6 DEF Sums

\* The sum of sums.
LEMMA SumPlus ==
  ASSUME NEW D, IsFiniteSet(D), NEW f \in [D -> Int], NEW g \in [D -> Int],
         NEW h \in [D -> Int], \A x \in D : h[x] = f[x] + g[x]
  PROVE  SumFunction(h) = SumFunction(f) + SumFunction(g)
<1>1. PICK F : Sums(f, D, F) /\ SumFunction(f) = F[D]
  BY SumIs
<1>2. PICK G : Sums(g, D, G) /\ SumFunction(g) = G[D]
  BY SumIs
<1>3. PICK H : Sums(h, D, H) /\ SumFunction(h) = H[D]
  BY SumIs
<1> DEFINE P == {S \in SUBSET D : H[S] = F[S] + G[S]}
<1>4. ASSUME NEW S \in SUBSET D, \A y \in S : S \ {y} \in P PROVE S \in P
  <2>1. CASE S = {}
    BY <1>1, <1>2, <1>3, <2>1 DEF Sums
  <2>2. CASE S # {}
    <3>1. PICK y \in S : TRUE
      BY <2>2
    <3>2. /\ G[S] = g[y] + G[S \ {y}] /\ F[S] = f[y] + F[S \ {y}] /\ H[S] = h[y] + H[S \ {y}]
          /\ F[S \ {y}] \in Int /\ G[S \ {y}] \in Int /\ f[y] \in Int /\ g[y] \in Int
      BY <1>1, <1>2, <1>3, <3>1 DEF Sums
    <3>3. H[S \ {y}] = F[S \ {y}] + G[S \ {y}] /\ h[y] = f[y] + g[y]
      BY <1>4, <3>1
    <3> QED BY <3>2, <3>3
  <2> QED BY <2>1, <2>2
<1>5. Closed(D, P)
  BY <1>4 DEF Closed
<1>6. SUBSET D \subseteq P
  <2> HIDE DEF P
  <2> QED BY <1>5, SubsetsIn
<1>7. H[D] = F[D] + G[D]
  BY <1>6
<1> QED
  BY <1>1, <1>2, <1>3, <1>7

\* What is summed is no more than the sum, when none of it is negative.
LEMMA SumAtLeast ==
  ASSUME NEW D, IsFiniteSet(D), NEW f \in [D -> Nat], NEW x \in D
  PROVE  f[x] <= SumFunction(f)
<1> DEFINE g == [f EXCEPT ![x] = 0]
<1>1. /\ f \in [D -> Int] /\ g \in [D -> Int] /\ g[x] = 0
      /\ \A y \in D : g[y] \in Nat
      /\ \A y \in D : y # x => g[y] = f[y]
  OBVIOUS
<1> HIDE DEF g
<1>2. SumFunction(g) \in Nat
  BY <1>1, SumNat
<1>3. SumFunction(f) \in Int /\ SumFunction(g) = SumFunction(f) + (g[x] - f[x]) /\ f[x] \in Int
  BY <1>1, SumUpdate
<1> QED
  BY <1>1, <1>2, <1>3

-----------------------------------------------------------------------------
(* Counting the places of a sequence that hold an element of a set *)

Hits(q, S) == Cardinality({i \in 1..Len(q) : q[i] \in S})

\* The hits in a sequence are finitely many.
LEMMA HitsFinite ==
  ASSUME NEW T, NEW q \in Seq(T), NEW S
  PROVE  /\ IsFiniteSet({i \in 1..Len(q) : q[i] \in S})
         /\ Hits(q, S) \in Nat
<1>1. Len(q) \in Nat
  OBVIOUS
<1>2. IsFiniteSet(1..Len(q))
  BY <1>1, FS_Interval
<1>3. IsFiniteSet({i \in 1..Len(q) : q[i] \in S})
  BY <1>2, FS_Subset
<1> QED
  BY <1>3, FS_CardinalityType DEF Hits

\* An empty sequence has no hit.
LEMMA HitsEmpty ==
  ASSUME NEW S
  PROVE  Hits(<<>>, S) = 0
<1>1. {i \in 1..Len(<<>>) : <<>>[i] \in S} = {}
  OBVIOUS
<1> QED
  BY <1>1, FS_EmptySet DEF Hits

\* Appending to a sequence adds a hit when what it appends is one.
LEMMA HitsAppend ==
  ASSUME NEW T, NEW q \in Seq(T), NEW S, NEW e \in T
  PROVE  Hits(Append(q, e), S) = Hits(q, S) + IF e \in S THEN 1 ELSE 0
<1> DEFINE old == {i \in 1..Len(q) : q[i] \in S}
           new == {i \in 1..Len(Append(q, e)) : Append(q, e)[i] \in S}
           k == Len(q) + 1
<1>1. /\ Len(q) \in Nat /\ Len(Append(q, e)) = k
      /\ Append(q, e)[k] = e
      /\ \A i \in 1..Len(q) : Append(q, e)[i] = q[i]
  OBVIOUS
<1>2. \A i \in 1..k : i = k \/ i \in 1..Len(q)
  BY <1>1
<1>3. k \notin old /\ k \in 1..k /\ \A i \in 1..Len(q) : i \in 1..k /\ i # k
  BY <1>1
<1>4. new = IF e \in S THEN old \cup {k} ELSE old
  <2> HIDE DEF k
  <2> QED BY <1>1, <1>2, <1>3
<1>5. Hits(q, S) = Cardinality(old) /\ Hits(Append(q, e), S) = Cardinality(new)
  BY DEF Hits
<1>6. IsFiniteSet(old) /\ Cardinality(old) \in Nat
  BY HitsFinite DEF Hits
<1> HIDE DEF old, new, k
<1>7. Cardinality(old \cup {k}) = Cardinality(old) + 1
  BY <1>3, <1>6, FS_AddElement
<1> QED
  BY <1>4, <1>5, <1>6, <1>7

\* Taking the head of a sequence removes a hit when it was one.
LEMMA HitsTail ==
  ASSUME NEW T, NEW q \in Seq(T), q # <<>>, NEW S
  PROVE  Hits(q, S) = Hits(Tail(q), S) + IF Head(q) \in S THEN 1 ELSE 0
<1> DEFINE old == {i \in 1..Len(q) : q[i] \in S}
           new == {i \in 1..Len(Tail(q)) : Tail(q)[i] \in S}
           rest == old \ {1}
           f == [i \in new |-> i + 1]
<1>1. /\ Len(q) \in Nat /\ 1 \in 1..Len(q) /\ Head(q) = q[1]
      /\ Tail(q) \in Seq(T) /\ Len(Tail(q)) = Len(q) - 1
      /\ \A i \in 1..Len(Tail(q)) : Tail(q)[i] = q[i + 1]
  BY HeadTailProperties
<1>2. f \in Bijection(new, rest)
  <2>1. f \in [new -> rest]
    <3>1. ASSUME NEW i \in new PROVE i + 1 \in rest
      BY <1>1
    <3> HIDE DEF new, rest
    <3> QED BY <3>1
  <2>2. \A i, j \in new : f[i] = f[j] => i = j
    BY <1>1
  <2>3. \A j \in rest : \E i \in new : f[i] = j
    <3>1. ASSUME NEW j \in rest PROVE j - 1 \in new /\ (j - 1) + 1 = j
      BY <1>1
    <3> HIDE DEF new, rest
    <3> QED BY <3>1
  <2> HIDE DEF new, rest, f
  <2>4. f \in Injection(new, rest)
    BY <2>1, <2>2, Fun_IsInj
  <2>5. f \in Surjection(new, rest)
    BY <2>1, <2>3, Fun_IsSurj
  <2> QED BY <2>4, <2>5 DEF Bijection
<1>3. IsFiniteSet(new) /\ Cardinality(new) \in Nat /\ IsFiniteSet(old)
  BY <1>1, HitsFinite DEF Hits
<1>4. Hits(q, S) = Cardinality(old) /\ Hits(Tail(q), S) = Cardinality(new)
  BY DEF Hits
<1>5. 1 \in old <=> Head(q) \in S
  BY <1>1
<1> HIDE DEF new, old, f
<1>6. Cardinality(rest) = Cardinality(new)
  <2>1. ExistsBijection(new, rest)
    BY <1>2 DEF ExistsBijection
  <2> HIDE DEF rest
  <2> QED BY <2>1, <1>3, FS_Bijection
<1>7. Cardinality(rest) = IF 1 \in old THEN Cardinality(old) - 1 ELSE Cardinality(old)
  BY <1>3, FS_RemoveElement
<1>8. Cardinality(old) \in Nat
  BY <1>3, FS_CardinalityType
<1> QED
  BY <1>3, <1>4, <1>5, <1>6, <1>7, <1>8
=============================================================================
