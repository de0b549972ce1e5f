---------------------------- MODULE RouterProofs ----------------------------
(***************************************************************************)
(* Theorems about the router, for every set of topics, names, keys,        *)
(* registrations, positions and settlements.                               *)
(***************************************************************************)
EXTENDS RouterProps, Folding, FiniteSetTheorems, SequenceTheorems

-----------------------------------------------------------------------------
(* What the operators that fold a sequence return *)

\* Select takes up the elements one after the other.
Taking(ds, S, f) ==
  /\ f[0] = <<>>
  /\ \A n \in 0..(Len(ds) - 1) :
       f[n + 1] = IF ds[n + 1] \in S THEN Append(f[n], ds[n + 1]) ELSE f[n]
  /\ Select(ds, S) = f[Len(ds)]

LEMMA SelectFold ==
  ASSUME NEW T, NEW ds \in Seq(T), NEW S
  PROVE  \E f : Taking(ds, S, f)
<1> DEFINE N == Len(ds)
           X == Seq(T)
           step(q, n) == IF ds[n] \in S THEN Append(q, ds[n]) ELSE q
           rec(f) == [n \in 0..N |->
                        IF n = 0 THEN <<>>
                        ELSE IF ds[n] \in S THEN Append(f[n - 1], ds[n])
                                            ELSE f[n - 1]]
           f == CHOOSE f : f = rec(f)
           g == [n \in 1..N |-> [q \in X |-> step(q, n)]]
<1>1. N \in Nat /\ \A n \in 1..N : ds[n] \in T
  OBVIOUS
<1>2. Select(ds, S) = f[N]
  BY DEF Select
<1>3. <<>> \in X /\ g \in Steps(N, X)
  BY <1>1 DEF Steps
<1>4. \E e : e = rec(e)
  <2>1. PICK e : IsFold(N, X, <<>>, g, e)
    <3> HIDE DEF N, X, g
    <3> QED BY <1>1, <1>3, FoldExists
  <2>2. ASSUME NEW n \in 0..N PROVE e[n] = rec(e)[n]
    <3>1. CASE n = 0
      BY <3>1, <2>1 DEF IsFold
    <3>2. CASE n # 0
      <4>1. n \in 1..N /\ n - 1 \in 0..N
        BY <3>2, <1>1
      <4> QED BY <4>1, <2>1 DEF IsFold
    <3> QED BY <3>1, <3>2
  <2> HIDE DEF N, g, X
  <2>3. e = rec(e)
    BY <2>1, <2>2 DEF IsFold
  <2> HIDE DEF rec
  <2> QED BY <2>3
<1>5. f = rec(f)
  <2> HIDE DEF rec
  <2> QED BY <1>4
<1> HIDE DEF f
<1>6. f[0] = <<>> /\ \A n \in 0..(N - 1) : f[n + 1] = step(f[n], n + 1)
  <2>1. \A n \in 0..N : f[n] = rec(f)[n]
    <3> HIDE DEF rec
    <3> QED BY <1>5
  <2>2. 0 \in 0..N /\ \A n \in 0..(N - 1) : n + 1 \in 0..N /\ n + 1 # 0 /\ n + 1 - 1 = n
    BY <1>1
  <2>3. f[0] = <<>>
    BY <2>1, <2>2
  <2>4. ASSUME NEW n \in 0..(N - 1) PROVE f[n + 1] = step(f[n], n + 1)
    <3>1. f[n + 1] = rec(f)[n + 1]
      BY <2>1, <2>2
    <3> QED BY <3>1, <2>2
  <2> QED BY <2>3, <2>4
<1>7. Taking(ds, S, f)
  BY <1>2, <1>6 DEF Taking
<1> QED
  BY <1>7

\* Select returns elements of the sequence that are in S, drops none of them,
\* and is no longer than the sequence: queues and parked lists are split with it.
LEMMA SelectProps ==
  ASSUME NEW T, NEW ds \in Seq(T), NEW S
  PROVE  /\ Select(ds, S) \in Seq(T)
         /\ Len(Select(ds, S)) <= Len(ds)
         /\ \A i \in 1..Len(Select(ds, S)) :
              /\ Select(ds, S)[i] \in S
              /\ \E j \in 1..Len(ds) : Select(ds, S)[i] = ds[j]
         /\ \A j \in 1..Len(ds) : ds[j] \in S =>
              \E i \in 1..Len(Select(ds, S)) : Select(ds, S)[i] = ds[j]
<1> DEFINE N == Len(ds)
           step(q, n) == IF ds[n] \in S THEN Append(q, ds[n]) ELSE q
<1>1. N \in Nat /\ \A n \in 1..N : ds[n] \in T
  OBVIOUS
<1>3. PICK f : Taking(ds, S, f)
  BY SelectFold
<1>2. Select(ds, S) = f[N]
  BY <1>3 DEF Taking
<1>6. f[0] = <<>> /\ \A n \in 0..(N - 1) : f[n + 1] = step(f[n], n + 1)
  BY <1>3 DEF Taking
<1> DEFINE Good(n) ==
      /\ f[n] \in Seq(T)
      /\ Len(f[n]) <= n
      /\ \A i \in 1..Len(f[n]) : f[n][i] \in S /\ \E j \in 1..n : f[n][i] = ds[j]
      /\ \A j \in 1..n : ds[j] \in S => \E i \in 1..Len(f[n]) : f[n][i] = ds[j]
           P == {n \in 0..N : Good(n)}
<1>7. 0 \in P
  <2>1. f[0] \in Seq(T) /\ Len(f[0]) = 0
    BY <1>6
  <2>2. Good(0)
    BY <2>1
  <2> QED BY <2>2, <1>1
<1>8. ASSUME NEW n \in 0..(N - 1), n \in P PROVE n + 1 \in P
  <2>1. n + 1 \in 1..N /\ n \in Nat /\ ds[n + 1] \in T /\ Good(n)
    <3> HIDE DEF Good
    <3>1. Good(n)
      BY <1>8
    <3>2. n + 1 \in 1..N /\ n \in Nat
      BY <1>1
    <3>3. ds[n + 1] \in T
      BY <1>1, <3>2
    <3> QED BY <3>1, <3>2, <3>3
  <2>2. CASE ds[n + 1] \notin S
    <3>1. f[n + 1] = f[n]
      BY <1>6, <2>2
    <3>2. ASSUME NEW i \in 1..Len(f[n])
          PROVE  f[n][i] \in S /\ \E j \in 1..(n + 1) : f[n][i] = ds[j]
      <4>1. PICK j \in 1..n : f[n][i] = ds[j]
        BY <2>1
      <4>2. j \in 1..(n + 1)
        BY <2>1
      <4> QED BY <4>1, <4>2, <2>1
    <3>3. ASSUME NEW j \in 1..(n + 1), ds[j] \in S
          PROVE  \E i \in 1..Len(f[n]) : f[n][i] = ds[j]
      <4>1. j \in 1..n
        BY <3>3, <2>1, <2>2
      <4> QED BY <4>1, <3>3, <2>1
    <3>4. f[n] \in Seq(T) /\ Len(f[n]) <= n + 1
      BY <2>1
    <3>5. Good(n + 1)
      BY <3>1, <3>2, <3>3, <3>4
    <3> HIDE DEF Good
    <3> QED BY <3>5, <2>1
  <2>3. CASE ds[n + 1] \in S
    <3>1. f[n + 1] = Append(f[n], ds[n + 1])
      BY <1>6, <2>3
    <3>2. /\ f[n + 1] \in Seq(T)
          /\ Len(f[n + 1]) = Len(f[n]) + 1
          /\ f[n + 1][Len(f[n]) + 1] = ds[n + 1]
          /\ \A i \in 1..Len(f[n]) : f[n + 1][i] = f[n][i]
      BY <3>1, <2>1
    <3>3. \A i \in 1..Len(f[n + 1]) : i \in 1..Len(f[n]) \/ i = Len(f[n]) + 1
      BY <3>2, <2>1
    <3>4. ASSUME NEW i \in 1..Len(f[n + 1])
          PROVE  f[n + 1][i] \in S /\ \E j \in 1..(n + 1) : f[n + 1][i] = ds[j]
      <4>1. CASE i = Len(f[n]) + 1
        <5>1. n + 1 \in 1..(n + 1)
          BY <2>1
        <5> QED BY <4>1, <5>1, <3>2, <2>3
      <4>2. CASE i \in 1..Len(f[n])
        <5>1. PICK j \in 1..n : f[n][i] = ds[j]
          BY <4>2, <2>1
        <5>2. j \in 1..(n + 1)
          BY <2>1
        <5> QED BY <4>2, <5>1, <5>2, <3>2, <2>1
      <4> QED BY <4>1, <4>2, <3>3
    <3>5. ASSUME NEW j \in 1..(n + 1), ds[j] \in S
          PROVE  \E i \in 1..Len(f[n + 1]) : f[n + 1][i] = ds[j]
      <4>1. CASE j = n + 1
        BY <4>1, <3>2, <2>1
      <4>2. CASE j # n + 1
        <5>1. PICK i \in 1..Len(f[n]) : f[n][i] = ds[j]
          BY <4>2, <3>5, <2>1
        <5>2. i \in 1..Len(f[n + 1]) /\ f[n + 1][i] = ds[j]
          BY <5>1, <3>2, <2>1
        <5> QED BY <5>2
      <4> QED BY <4>1, <4>2
    <3>6. Len(f[n + 1]) <= n + 1
      BY <3>2, <2>1
    <3>7. Good(n + 1)
      BY <3>2, <3>4, <3>5, <3>6
    <3> HIDE DEF Good
    <3> QED BY <3>7, <2>1
  <2> QED BY <2>2, <2>3
<1>9. N \in P
  <2> HIDE DEF P, N
  <2>1. 0..N \subseteq P
    BY <1>1, <1>7, <1>8, UpTo
  <2> QED BY <2>1, <1>1
<1> QED
  BY <1>2, <1>9

\* It keeps the order: what is selected comes from ever later places of the sequence.
LEMMA SelectOrder ==
  ASSUME NEW T, NEW ds \in Seq(T), NEW S
  PROVE  \E w : /\ w \in [1..Len(Select(ds, S)) -> 1..Len(ds)]
                /\ \A i \in 1..Len(Select(ds, S)) : Select(ds, S)[i] = ds[w[i]]
                /\ \A i, j \in 1..Len(Select(ds, S)) : i < j => w[i] < w[j]
<1> DEFINE N == Len(ds)
<1>1. N \in Nat /\ \A n \in 1..N : ds[n] \in T
  OBVIOUS
<1>2. PICK f : Taking(ds, S, f)
  BY SelectFold
<1> DEFINE From(q, n, w) ==
             /\ q \in Seq(T)
             /\ w \in [1..Len(q) -> 1..n]
             /\ \A i \in 1..Len(q) : q[i] = ds[w[i]]
             /\ \A i, j \in 1..Len(q) : i < j => w[i] < w[j]
           P == {n \in 0..N : \E w : From(f[n], n, w)}
<1>3. 0 \in P
  <2>1. f[0] = <<>> /\ Len(f[0]) = 0 /\ f[0] \in Seq(T)
    BY <1>2 DEF Taking
  <2> DEFINE w == [i \in 1..0 |-> 0]
  <2>2. From(f[0], 0, w)
    BY <2>1
  <2> HIDE DEF From, w
  <2> QED BY <2>2, <1>1
<1>4. ASSUME NEW n \in 0..(N - 1), n \in P PROVE n + 1 \in P
  <2> DEFINE q == f[n]
  <2>1. PICK w : From(q, n, w)
    BY <1>4
  <2>2. n + 1 \in 1..N /\ n \in Nat /\ n + 1 \in 0..N /\ ds[n + 1] \in T
    BY <1>1
  <2>3. f[n + 1] = IF ds[n + 1] \in S THEN Append(q, ds[n + 1]) ELSE q
    BY <1>2 DEF Taking
  <2> HIDE DEF q
  <2>4. CASE ds[n + 1] \notin S
    <3>1. From(q, n + 1, w)
      BY <2>1, <2>2
    <3> HIDE DEF From
    <3> QED BY <2>2, <2>3, <2>4, <3>1
  <2>5. CASE ds[n + 1] \in S
    <3> DEFINE L == Len(q)
               v == [i \in 1..(L + 1) |-> IF i = L + 1 THEN n + 1 ELSE w[i]]
               a == Append(q, ds[n + 1])
    <3>1. /\ a \in Seq(T) /\ Len(a) = L + 1 /\ a[L + 1] = ds[n + 1] /\ L \in Nat
          /\ \A i \in 1..L : a[i] = q[i]
      BY <2>1, <2>2, AppendProperties
    <3>2. /\ \A i \in 1..(L + 1) : i \in 1..L \/ i = L + 1
          /\ v[L + 1] = n + 1
          /\ \A i \in 1..L : v[i] = w[i] /\ w[i] \in 1..n
      <4>1. \A i \in 1..(L + 1) : i \in 1..L \/ i = L + 1
        BY <3>1
      <4>2. L + 1 \in 1..(L + 1) /\ \A i \in 1..L : i \in 1..(L + 1) /\ i # L + 1
        BY <3>1
      <4>3. \A i \in 1..L : w[i] \in 1..n
        BY <2>1
      <4> QED BY <4>1, <4>2, <4>3
    <3>3. v \in [1..Len(a) -> 1..(n + 1)]
      BY <2>1, <2>2, <3>1
    <3> HIDE DEF a, v, L
    <3>4. \A i \in 1..(L + 1) : a[i] = ds[v[i]]
      BY <2>1, <3>1, <3>2 DEF L
    <3>5. \A i, j \in 1..(L + 1) : i < j => v[i] < v[j]
      <4> SUFFICES ASSUME NEW i \in 1..(L + 1), NEW j \in 1..(L + 1), i < j PROVE v[i] < v[j]
        OBVIOUS
      <4>1. i \in 1..L
        BY <3>1
      <4>2. CASE j = L + 1
        BY <2>2, <3>2, <4>1, <4>2
      <4>3. CASE j \in 1..L
        BY <2>1, <3>2, <4>1, <4>3 DEF L
      <4> QED BY <3>2, <4>2, <4>3
    <3>6. From(a, n + 1, v)
      BY <3>1, <3>3, <3>4, <3>5
    <3>7. f[n + 1] = a
      BY <2>3, <2>5 DEF a
    <3> HIDE DEF From
    <3> QED BY <2>2, <3>6, <3>7
  <2> QED BY <2>4, <2>5
<1>5. N \in P
  <2> HIDE DEF P, N
  <2>1. 0..N \subseteq P
    BY <1>1, <1>3, <1>4, UpTo
  <2> QED BY <2>1, <1>1
<1> QED
  BY <1>2, <1>5 DEF Taking

\* Handing back many deliveries is handing back one by one, in a set of hands that
\* each one stays in: what a closing consumer leaves goes back so.
LEMMA HandBackFold ==
  ASSUME NEW X, NEW h, h \in X, NEW ids, NEW counted, NEW r, NEW T, NEW ds \in Seq(T),
         \A x \in X : \A d \in T : HandBack(x, ids, r, d, counted) \in X
  PROVE  \E f : /\ f[0] = h
                /\ \A n \in 1..Len(ds) : f[n] = HandBack(f[n - 1], ids, r, ds[n], counted)
                /\ \A n \in 0..Len(ds) : f[n] \in X
                /\ HandBackAll(h, ids, r, ds, counted) = f[Len(ds)]
<1> DEFINE N == Len(ds)
           rec(f) == [n \in 0..N |->
                        IF n = 0 THEN h ELSE HandBack(f[n - 1], ids, r, ds[n], counted)]
           f == CHOOSE f : f = rec(f)
           g == [n \in 1..N |-> [x \in X |-> HandBack(x, ids, r, ds[n], counted)]]
<1>1. N \in Nat /\ \A n \in 1..N : ds[n] \in T
  OBVIOUS
<1>2. HandBackAll(h, ids, r, ds, counted) = f[N]
  BY DEF HandBackAll
<1>3. g \in Steps(N, X)
  BY <1>1 DEF Steps
<1>4. PICK e : IsFold(N, X, h, g, e)
  <2> HIDE DEF N, g
  <2> QED BY <1>1, <1>3, FoldExists
<1>5. ASSUME NEW n \in 0..N PROVE e[n] = rec(e)[n]
  <2>1. CASE n = 0
    BY <2>1, <1>4 DEF IsFold
  <2>2. CASE n # 0
    <3>1. n \in 1..N /\ n - 1 \in 0..N
      BY <2>2, <1>1
    <3> QED BY <3>1, <1>4 DEF IsFold
  <2> QED BY <2>1, <2>2
<1>6. e = rec(e)
  <2> HIDE DEF N, g
  <2> QED BY <1>4, <1>5 DEF IsFold
<1>7. f = rec(f)
  <2> HIDE DEF rec
  <2> QED BY <1>6
<1> HIDE DEF f
<1>8. \A n \in 0..N : f[n] = rec(f)[n]
  <2> HIDE DEF rec
  <2> QED BY <1>7
<1> DEFINE P == {n \in 0..N : f[n] \in X}
<1>9. 0 \in P
  BY <1>8, <1>1
<1>10. ASSUME NEW n \in 0..(N - 1), n \in P PROVE n + 1 \in P
  <2>1. n + 1 \in 0..N /\ n + 1 # 0 /\ n + 1 - 1 = n /\ ds[n + 1] \in T
    BY <1>1
  <2>2. f[n + 1] = HandBack(f[n], ids, r, ds[n + 1], counted)
    BY <1>8, <2>1
  <2> QED BY <1>10, <2>1, <2>2
<1>11. 0..N \subseteq P
  <2> HIDE DEF P, N
  <2> QED BY <1>1, <1>9, <1>10, UpTo
<1>12. f[0] = h /\ \A n \in 1..N : f[n] = HandBack(f[n - 1], ids, r, ds[n], counted)
  BY <1>1, <1>8
<1>13. \A n \in 0..N : f[n] \in X
  BY <1>11
<1> HIDE DEF rec, g, P
<1> QED
  BY <1>2, <1>12, <1>13

\* So such a set is not left by handing back many.
LEMMA HandBackAllIn ==
  ASSUME NEW X, NEW h, h \in X, NEW ids, NEW counted, NEW r, NEW T, NEW ds \in Seq(T),
         \A x \in X : \A d \in T : HandBack(x, ids, r, d, counted) \in X
  PROVE  HandBackAll(h, ids, r, ds, counted) \in X
BY HandBackFold

\* The same of a replay, which a seek shares out one delivery at a time.
LEMMA ReplayFold ==
  ASSUME NEW X, NEW h, h \in X, NEW r, NEW T, NEW ds \in Seq(T),
         \A x \in X : \A d \in T : Replay(x, r, d) \in X
  PROVE  \E f : /\ f[0] = h
                /\ \A n \in 1..Len(ds) : f[n] = Replay(f[n - 1], r, ds[n])
                /\ \A n \in 0..Len(ds) : f[n] \in X
                /\ ReplayAll(h, r, ds) = f[Len(ds)]
<1> DEFINE N == Len(ds)
           rec(f) == [n \in 0..N |->
                        IF n = 0 THEN h ELSE Replay(f[n - 1], r, ds[n])]
           f == CHOOSE f : f = rec(f)
           g == [n \in 1..N |-> [x \in X |-> Replay(x, r, ds[n])]]
<1>1. N \in Nat /\ \A n \in 1..N : ds[n] \in T
  OBVIOUS
<1>2. ReplayAll(h, r, ds) = f[N]
  BY DEF ReplayAll
<1>3. g \in Steps(N, X)
  BY <1>1 DEF Steps
<1>4. PICK e : IsFold(N, X, h, g, e)
  <2> HIDE DEF N, g
  <2> QED BY <1>1, <1>3, FoldExists
<1>5. ASSUME NEW n \in 0..N PROVE e[n] = rec(e)[n]
  <2>1. CASE n = 0
    BY <2>1, <1>4 DEF IsFold
  <2>2. CASE n # 0
    <3>1. n \in 1..N /\ n - 1 \in 0..N
      BY <2>2, <1>1
    <3> QED BY <3>1, <1>4 DEF IsFold
  <2> QED BY <2>1, <2>2
<1>6. e = rec(e)
  <2> HIDE DEF N, g
  <2> QED BY <1>4, <1>5 DEF IsFold
<1>7. f = rec(f)
  <2> HIDE DEF rec
  <2> QED BY <1>6
<1> HIDE DEF f
<1>8. \A n \in 0..N : f[n] = rec(f)[n]
  <2> HIDE DEF rec
  <2> QED BY <1>7
<1> DEFINE P == {n \in 0..N : f[n] \in X}
<1>9. 0 \in P
  BY <1>8, <1>1
<1>10. ASSUME NEW n \in 0..(N - 1), n \in P PROVE n + 1 \in P
  <2>1. n + 1 \in 0..N /\ n + 1 # 0 /\ n + 1 - 1 = n /\ ds[n + 1] \in T
    BY <1>1
  <2>2. f[n + 1] = Replay(f[n], r, ds[n + 1])
    BY <1>8, <2>1
  <2> QED BY <1>10, <2>1, <2>2
<1>11. 0..N \subseteq P
  <2> HIDE DEF P, N
  <2> QED BY <1>1, <1>9, <1>10, UpTo
<1>12. f[0] = h /\ \A n \in 1..N : f[n] = Replay(f[n - 1], r, ds[n])
  BY <1>1, <1>8
<1>13. \A n \in 0..N : f[n] \in X
  BY <1>11
<1> HIDE DEF rec, g, P
<1> QED
  BY <1>2, <1>12, <1>13

\* So such a set is not left by a replay.
LEMMA ReplayAllIn ==
  ASSUME NEW X, NEW h, h \in X, NEW r, NEW T, NEW ds \in Seq(T),
         \A x \in X : \A d \in T : Replay(x, r, d) \in X
  PROVE  ReplayAll(h, r, ds) \in X
BY ReplayFold

\* The total length of the queues is reached by adding one queue after another:
\* what the proofs use of Total.
LEMMA TotalFold ==
  ASSUME MaxConsumers \in Nat, NEW T, NEW q \in [Ids -> Seq(T)]
  PROVE  \E f : /\ f[0] = 0
                /\ \A c \in Ids : f[c] = f[c - 1] + Len(q[c])
                /\ \A c \in 0..MaxConsumers : f[c] \in Nat
                /\ Total(q) = f[MaxConsumers]
<1> DEFINE N == MaxConsumers
           rec(f) == [c \in 0..N |-> IF c = 0 THEN 0 ELSE f[c - 1] + Len(q[c])]
           f == CHOOSE f : f = rec(f)
           g == [c \in 1..N |-> [x \in Nat |-> x + Len(q[c])]]
<1>1. \A c \in 1..N : Len(q[c]) \in Nat
  BY DEF Ids
<1>2. Total(q) = f[N]
  BY DEF Total
<1>3. g \in Steps(N, Nat)
  BY <1>1 DEF Steps
<1>4. PICK e : IsFold(N, Nat, 0, g, e)
  <2> HIDE DEF g
  <2> QED BY <1>3, FoldExists
<1>5. ASSUME NEW c \in 0..N PROVE e[c] = rec(e)[c]
  <2>1. CASE c = 0
    BY <2>1, <1>4 DEF IsFold
  <2>2. CASE c # 0
    <3>1. c \in 1..N /\ c - 1 \in 0..N
      BY <2>2
    <3> QED BY <3>1, <1>4 DEF IsFold
  <2> QED BY <2>1, <2>2
<1>6. e = rec(e)
  <2> HIDE DEF g
  <2> QED BY <1>4, <1>5 DEF IsFold
<1>7. f = rec(f)
  <2> HIDE DEF rec
  <2> QED BY <1>6
<1> HIDE DEF f
<1>8. \A c \in 0..N : f[c] = rec(f)[c]
  <2> HIDE DEF rec
  <2> QED BY <1>7
<1>9. f[0] = 0 /\ \A c \in Ids : f[c] = f[c - 1] + Len(q[c])
  BY <1>8 DEF Ids
<1> DEFINE P == {c \in 0..N : f[c] \in Nat}
<1>10. 0 \in P
  BY <1>9
<1>11. ASSUME NEW c \in 0..(N - 1), c \in P PROVE c + 1 \in P
  <2>1. c + 1 \in Ids /\ c + 1 - 1 = c
    BY DEF Ids
  <2>2. f[c + 1] = f[c] + Len(q[c + 1])
    BY <1>9, <2>1
  <2> QED BY <1>1, <1>11, <2>1, <2>2
<1>12. 0..N \subseteq P
  <2> HIDE DEF P
  <2> QED BY <1>10, <1>11, UpTo
<1> QED
  BY <1>2, <1>9, <1>12

\* Queues that are no longer one by one are no longer in total: a seek never
\* releases a negative number of deliveries.
LEMMA TotalMonotone ==
  ASSUME MaxConsumers \in Nat, NEW T, NEW q \in [Ids -> Seq(T)],
         NEW p \in [Ids -> Seq(T)], \A c \in Ids : Len(p[c]) <= Len(q[c])
  PROVE  Total(p) \in Nat /\ Total(q) \in Nat /\ Total(p) <= Total(q)
<1>1. PICK f : /\ f[0] = 0
               /\ \A c \in Ids : f[c] = f[c - 1] + Len(q[c])
               /\ \A c \in 0..MaxConsumers : f[c] \in Nat
               /\ Total(q) = f[MaxConsumers]
  BY TotalFold
<1>2. PICK e : /\ e[0] = 0
               /\ \A c \in Ids : e[c] = e[c - 1] + Len(p[c])
               /\ \A c \in 0..MaxConsumers : e[c] \in Nat
               /\ Total(p) = e[MaxConsumers]
  BY TotalFold
<1> DEFINE P == {c \in 0..MaxConsumers : e[c] <= f[c]}
<1>3. 0 \in P
  BY <1>1, <1>2
<1>4. ASSUME NEW c \in 0..(MaxConsumers - 1), c \in P PROVE c + 1 \in P
  <2>1. c + 1 \in Ids /\ c + 1 - 1 = c /\ c \in 0..MaxConsumers
    BY DEF Ids
  <2>2. /\ f[c + 1] = f[c] + Len(q[c + 1])
        /\ e[c + 1] = e[c] + Len(p[c + 1])
        /\ Len(p[c + 1]) <= Len(q[c + 1])
        /\ Len(p[c + 1]) \in Nat /\ Len(q[c + 1]) \in Nat
        /\ f[c] \in Nat /\ e[c] \in Nat /\ e[c] <= f[c]
    BY <1>1, <1>2, <1>4, <2>1
  <2> QED BY <2>1, <2>2
<1>5. 0..MaxConsumers \subseteq P
  <2> HIDE DEF P
  <2> QED BY <1>3, <1>4, UpTo
<1> QED
  BY <1>1, <1>2, <1>5

-----------------------------------------------------------------------------
(* Choosing a member *)

\* The members of a subscription are attached consumers of that name that read
\* the topic, and there is none only when no consumer does (members_of).
LEMMA MembersProps ==
  ASSUME NEW ids \in Seq(1..nextId), NEW ls, NEW s, NEW t
  PROVE  LET M == MembersOf(ids, ls, s, t)
         IN  /\ M \in Seq(1..nextId)
             /\ \A i \in 1..Len(M) : reg[M[i]].name = s /\ Reads(ls, M[i], t)
             /\ M = <<>> => \A j \in 1..Len(ids) :
                              ~(reg[ids[j]].name = s /\ Reads(ls, ids[j], t))
<1> DEFINE S == {c \in 1..nextId : reg[c].name = s /\ Reads(ls, c, t)}
           M == Select(ids, S)
<1>1. MembersOf(ids, ls, s, t) = M
  BY DEF MembersOf
<1>2. /\ M \in Seq(1..nextId)
      /\ \A i \in 1..Len(M) : M[i] \in S
      /\ \A j \in 1..Len(ids) : ids[j] \in S => \E i \in 1..Len(M) : M[i] = ids[j]
  <2> HIDE DEF S
  <2> QED BY SelectProps
<1>3. ASSUME M = <<>>, NEW j \in 1..Len(ids)
      PROVE  ~(reg[ids[j]].name = s /\ Reads(ls, ids[j], t))
  <2>1. ids[j] \in 1..nextId
    <3> HIDE DEF S, M
    <3> QED BY ElementOfSeq
  <2>2. ids[j] \notin S
    <3> HIDE DEF S, M
    <3>1. Len(M) = 0
      BY <1>3
    <3> QED BY <1>2, <3>1
  <2> QED BY <2>1, <2>2
<1> QED
  <2>1. \A i \in 1..Len(M) : reg[M[i]].name = s /\ Reads(ls, M[i], t)
    BY <1>2
  <2> HIDE DEF M
  <2> QED BY <1>1, <1>2, <1>3, <2>1

\* Whatever the type, the consumer chosen is a member (choose).
LEMMA ChooseIn ==
  ASSUME NEW sharing \in Sharings, NEW N \in Nat, NEW M \in Seq(1..N), M # <<>>,
         NEW k \in Keys, NEW turn \in Nat
  PROVE  Choose(sharing, M, k, turn) \in 1..N
<1>1. Len(M) \in Nat \ {0} /\ \A i \in 1..Len(M) : M[i] \in 1..N
  OBVIOUS
<1>2. \A x \in Nat : (x % Len(M)) + 1 \in 1..Len(M)
  BY <1>1
<1>3. Hash[k] \in Nat
  BY RouterAssumption
<1>4. CASE sharing \in {"Exclusive", "Failover"}
  BY <1>1, <1>4 DEF Choose
<1>5. CASE sharing = "Shared"
  BY <1>1, <1>2, <1>5 DEF Choose
<1>6. CASE sharing = "KeyShared"
  <2>1. Choose(sharing, M, k, turn) = M[(Hash[k] % Len(M)) + 1]
    BY <1>6 DEF Choose
  <2> QED BY <1>1, <1>2, <1>3, <2>1
<1> QED
  BY <1>4, <1>5, <1>6 DEF Sharings

\* Whatever the type, the consumer chosen is one of the members (choose).
LEMMA ChooseMember ==
  ASSUME NEW sharing \in Sharings, NEW N \in Nat, NEW M \in Seq(1..N), M # <<>>,
         NEW k \in Keys, NEW turn \in Nat
  PROVE  \E i \in 1..Len(M) : Choose(sharing, M, k, turn) = M[i]
<1>1. Len(M) \in Nat \ {0} /\ 1 \in 1..Len(M)
  OBVIOUS
<1>2. \A x \in Nat : (x % Len(M)) + 1 \in 1..Len(M)
  BY <1>1
<1>3. Hash[k] \in Nat
  BY RouterAssumption
<1>4. CASE sharing \in {"Exclusive", "Failover"}
  BY <1>1, <1>4 DEF Choose
<1>5. CASE sharing = "Shared"
  BY <1>1, <1>2, <1>5 DEF Choose
<1>6. CASE sharing = "KeyShared"
  <2>1. Choose(sharing, M, k, turn) = M[(Hash[k] % Len(M)) + 1]
    BY <1>6 DEF Choose
  <2> QED BY <1>1, <1>2, <1>3, <2>1
<1> QED
  BY <1>4, <1>5, <1>6 DEF Sharings

\* The members of a list of them, and that there is a first.
LEMMA SeqMembers ==
  ASSUME NEW N, NEW M \in Seq(1..N), M # <<>>
  PROVE  M[1] \in 1..N /\ \A i \in 1..Len(M) : M[i] \in 1..N
<1>1. 1 \in 1..Len(M)
  OBVIOUS
<1>2. \A i \in 1..Len(M) : M[i] \in 1..N
  BY ElementOfSeq
<1> QED
  BY <1>1, <1>2

\* What takes an entry for a subscription is one of its consumers (deliver).
LEMMA TakerNamed ==
  ASSUME TypeOK, NEW k \in Keys, NEW ls, NEW s \in Names, NEW t,
         MembersOf(attached, ls, s, t) # <<>>
  PROVE  LET M == MembersOf(attached, ls, s, t)
             c == Choose(reg[M[1]].sharing, M, k, rotation[s])
         IN  /\ c \in 1..nextId /\ reg[c].name = s
             /\ M[1] \in 1..nextId /\ reg[M[1]].name = s /\ reg[M[1]] \in Registrations
<1> DEFINE M == MembersOf(attached, ls, s, t)
           c == Choose(reg[M[1]].sharing, M, k, rotation[s])
<1>1. M \in Seq(1..nextId) /\ M # <<>> /\ \A i \in 1..Len(M) : reg[M[i]].name = s
  BY MembersProps DEF TypeOK
<1>2. rotation[s] \in Nat /\ nextId \in Nat /\ 1..nextId \subseteq Ids
  BY RouterAssumption DEF TypeOK, Ids
<1> HIDE DEF M
<1>3. M[1] \in 1..nextId /\ \A i \in 1..Len(M) : M[i] \in 1..nextId
  BY <1>1, SeqMembers, Zenon
<1>4. reg[M[1]] \in Registrations /\ reg[M[1]].sharing \in Sharings
  <2>1. reg[M[1]] \in Registrations
    BY <1>2, <1>3 DEF TypeOK
  <2> QED BY <2>1, RouterAssumption DEF Registration
<1>5. 1 \in 1..Len(M)
  BY <1>1
<1>6. PICK i \in 1..Len(M) : c = M[i]
  <2>1. \A sh \in Sharings, turn \in Nat :
          \E i \in 1..Len(M) : Choose(sh, M, k, turn) = M[i]
    BY <1>1, <1>2, ChooseMember
  <2> QED BY <1>2, <1>4, <2>1
<1> HIDE DEF c
<1>7. c \in 1..nextId /\ reg[c].name = s
  BY <1>1, <1>3, <1>6, Zenon
<1> QED
  BY <1>1, <1>3, <1>4, <1>5, <1>7 DEF M, c

\* The turn stays a number (the wrapping add of choose).
LEMMA NextTurnIn ==
  ASSUME NEW sharing, NEW turn \in Nat
  PROVE  NextTurn(sharing, turn) \in Nat
BY RouterAssumption DEF NextTurn

-----------------------------------------------------------------------------
(* Moving deliveries *)

Consumers(ids) == {ids[i] : i \in 1..Len(ids)}

\* The hands a step may leave behind while the consumers `ids' are attached:
\* well typed, every delivery logged, nothing parked that one of them names.
TidyHand(ids) ==
  {h \in [queue : [Ids -> Seq(Delivery)], parked : [Names -> Seq(Delivery)],
          rotation : [Names -> Nat], inflight : Int] :
     /\ \A c \in Ids : AllLogged(h.queue[c])
     /\ \A s \in Names : AllLogged(h.parked[s])
     /\ \A s \in Names : \A n \in 1..Len(h.parked[s]) : \A c \in Consumers(ids) :
          reg[c].name = s /\ ~IsPattern(reg[c])
            => h.parked[s][n].topic \notin reg[c].topics}

\* Appending a logged delivery to logged ones keeps them logged.
LEMMA AppendLogged ==
  ASSUME NEW q \in Seq(Delivery), AllLogged(q), NEW d, Logged(d)
  PROVE  Append(q, d) \in Seq(Delivery) /\ AllLogged(Append(q, d))
BY DEF AllLogged, Logged

\* Counting leaves the deliveries where they are.
LEMMA CountIn ==
  ASSUME NEW ids, NEW h \in TidyHand(ids), NEW n \in Int
  PROVE  [h EXCEPT !.inflight = n] \in TidyHand(ids)
BY DEF TidyHand

\* A logged delivery can be queued on a member (choose, enqueue).
LEMMA ShareIn ==
  ASSUME TypeOK, NEW ids, NEW h \in TidyHand(ids), NEW s \in Names,
         NEW sharing \in Sharings, NEW M \in Seq(1..nextId), M # <<>>,
         NEW d, Logged(d)
  PROVE  /\ Share(h, s, sharing, M, d) \in TidyHand(ids)
         /\ Share(h, s, sharing, M, d).inflight = h.inflight
<1> DEFINE c == Choose(sharing, M, KeyOf(d), h.rotation[s])
           turn == NextTurn(sharing, h.rotation[s])
           q == Append(h.queue[c], d)
<1>1. KeyOf(d) \in Keys
  <2>1. log[d.topic] \in Seq(LogEntry) /\ d.seq \in 1..Len(log[d.topic])
    BY DEF TypeOK, Logged, Delivery
  <2>2. log[d.topic][d.seq] \in LogEntry
    BY <2>1
  <2> QED BY <2>2 DEF KeyOf, LogEntry
<1>2. h.rotation[s] \in Nat /\ h.rotation \in [Names -> Nat]
  BY DEF TidyHand
<1>3. c \in Ids
  <2>1. nextId \in Nat /\ 1..nextId \subseteq Ids
    BY RouterAssumption DEF TypeOK, Ids
  <2>2. c \in 1..nextId
    BY <1>1, <1>2, <2>1, ChooseIn
  <2> QED BY <2>1, <2>2
<1>4. turn \in Nat
  BY <1>2, NextTurnIn
<1>5. h.queue \in [Ids -> Seq(Delivery)] /\ q \in Seq(Delivery) /\ AllLogged(q)
  BY <1>3, AppendLogged DEF TidyHand
<1>6. Share(h, s, sharing, M, d)
        = [h EXCEPT !.queue = [h.queue EXCEPT ![c] = q],
                    !.rotation = [h.rotation EXCEPT ![s] = turn]]
  BY <1>2, <1>3, <1>5 DEF Share, TidyHand
<1> DEFINE e == Share(h, s, sharing, M, d)
<1> HIDE DEF c, turn, q
<1>7. /\ e.queue = [h.queue EXCEPT ![c] = q] /\ e.rotation = [h.rotation EXCEPT ![s] = turn]
      /\ e.parked = h.parked /\ e.inflight = h.inflight
      /\ e = [queue |-> e.queue, parked |-> e.parked, rotation |-> e.rotation,
              inflight |-> e.inflight]
  BY <1>6 DEF TidyHand
<1> HIDE DEF e
<1>8. e.queue \in [Ids -> Seq(Delivery)] /\ e.rotation \in [Names -> Nat]
  BY <1>2, <1>3, <1>4, <1>5, <1>7
<1>9. \A x \in Ids : AllLogged(e.queue[x])
  BY <1>3, <1>5, <1>7 DEF TidyHand
<1>10. e \in TidyHand(ids)
  BY <1>7, <1>8, <1>9 DEF TidyHand
<1> QED
  BY <1>7, <1>10 DEF e

\* A logged delivery can be parked while nobody among ids reads its topic.
LEMMA ParkIn ==
  ASSUME TypeOK, NEW ids \in Seq(1..nextId), NEW h \in TidyHand(ids),
         NEW s \in Names, NEW d, Logged(d),
         MembersOf(ids, listed, s, d.topic) = <<>>
  PROVE  /\ Park(h, s, d) \in TidyHand(ids)
         /\ Park(h, s, d).inflight = h.inflight
<1> DEFINE p == Append(h.parked[s], d)
<1>1. /\ h.parked \in [Names -> Seq(Delivery)]
      /\ h.parked[s] \in Seq(Delivery) /\ AllLogged(h.parked[s])
  BY DEF TidyHand
<1>2. p \in Seq(Delivery) /\ AllLogged(p)
  BY <1>1, AppendLogged
<1>3. ASSUME NEW n \in 1..Len(p), NEW c \in Consumers(ids),
             reg[c].name = s, ~IsPattern(reg[c])
      PROVE  p[n].topic \notin reg[c].topics
  <2>1. CASE n \in 1..Len(h.parked[s])
    <3>1. p[n] = h.parked[s][n]
      BY <1>1, <2>1
    <3>2. h.parked[s][n].topic \notin reg[c].topics
      <4> HIDE DEF p
      <4>1. \A x \in Consumers(ids) : reg[x].name = s /\ ~IsPattern(reg[x])
               => h.parked[s][n].topic \notin reg[x].topics
        BY <2>1 DEF TidyHand
      <4> QED BY <1>3, <4>1
    <3> HIDE DEF p
    <3> QED BY <3>1, <3>2
  <2>2. CASE n = Len(h.parked[s]) + 1
    <3>1. p[n] = d
      BY <1>1, <2>2
    <3>2. PICK j \in 1..Len(ids) : c = ids[j]
      BY DEF Consumers
    <3>3. ~(reg[c].name = s /\ Reads(listed, c, d.topic))
      BY <3>2, MembersProps
    <3> HIDE DEF p
    <3> QED BY <1>3, <3>1, <3>3 DEF Reads
  <2>3. n \in 1..Len(h.parked[s]) \/ n = Len(h.parked[s]) + 1
    BY <1>1
  <2> HIDE DEF p
  <2> QED BY <2>1, <2>2, <2>3
<1>4. Park(h, s, d) = [h EXCEPT !.parked = [h.parked EXCEPT ![s] = p]]
  BY <1>1 DEF Park, TidyHand
<1> DEFINE e == Park(h, s, d)
<1> HIDE DEF p
<1>5. /\ e.parked = [h.parked EXCEPT ![s] = p]
      /\ e.queue = h.queue /\ e.rotation = h.rotation /\ e.inflight = h.inflight
      /\ e = [queue |-> e.queue, parked |-> e.parked, rotation |-> e.rotation,
              inflight |-> e.inflight]
  BY <1>4 DEF TidyHand
<1> HIDE DEF e
<1>6. e.parked \in [Names -> Seq(Delivery)] /\ \A x \in Names : AllLogged(e.parked[x])
  BY <1>1, <1>2, <1>5 DEF TidyHand
<1>7. ASSUME NEW x \in Names, NEW n \in 1..Len(e.parked[x]), NEW c \in Consumers(ids),
             reg[c].name = x, ~IsPattern(reg[c])
      PROVE  e.parked[x][n].topic \notin reg[c].topics
  <2>1. CASE x = s
    BY <1>1, <1>3, <1>5, <1>7, <2>1
  <2>2. CASE x # s
    BY <1>1, <1>5, <1>7, <2>2 DEF TidyHand
  <2> QED BY <2>1, <2>2
<1>8. e \in TidyHand(ids)
  BY <1>5, <1>6, <1>7 DEF TidyHand
<1> QED
  BY <1>5, <1>8 DEF e

\* Handing one delivery back keeps the hand tidy (hand_back).
LEMMA HandBackIn ==
  ASSUME TypeOK, NEW ids \in Seq(1..nextId), NEW h \in TidyHand(ids),
         NEW r \in Registrations, NEW d, Logged(d), NEW counted \in BOOLEAN
  PROVE  HandBack(h, ids, r, d, counted) \in TidyHand(ids)
<1> DEFINE M == MembersOf(ids, listed, r.name, d.topic)
<1>1. r.name \in Names /\ r.sharing \in Sharings
  BY RouterAssumption DEF Registration
<1>2. M \in Seq(1..nextId)
  BY MembersProps
<1>3. h.inflight \in Int
  BY DEF TidyHand
<1>4. CASE M = <<>>
  <2> DEFINE p == Park(h, r.name, d)
  <2>1. p \in TidyHand(ids) /\ p.inflight = h.inflight
    BY <1>1, <1>4, ParkIn
  <2>2. HandBack(h, ids, r, d, counted)
          = [p EXCEPT !.inflight = IF counted THEN p.inflight - 1 ELSE p.inflight]
    BY <1>4 DEF HandBack
  <2>3. (IF counted THEN p.inflight - 1 ELSE p.inflight) \in Int
    <3> HIDE DEF p
    <3> QED BY <1>3, <2>1
  <2> HIDE DEF p, M
  <2> QED BY <2>1, <2>2, <2>3, CountIn
<1>5. CASE M # <<>>
  <2> DEFINE p == Share(h, r.name, r.sharing, M, d)
  <2>1. p \in TidyHand(ids) /\ p.inflight = h.inflight
    <3> HIDE DEF M
    <3> QED BY <1>1, <1>2, <1>5, ShareIn
  <2>2. HandBack(h, ids, r, d, counted)
          = [p EXCEPT !.inflight = IF counted THEN p.inflight ELSE p.inflight + 1]
    BY <1>5 DEF HandBack
  <2>3. (IF counted THEN p.inflight ELSE p.inflight + 1) \in Int
    <3> HIDE DEF p
    <3> QED BY <1>3, <2>1
  <2> HIDE DEF p, M
  <2> QED BY <2>1, <2>2, <2>3, CountIn
<1> QED
  BY <1>4, <1>5

\* So does replaying one (the replay loop of seek).
LEMMA ReplayIn ==
  ASSUME TypeOK, NEW h \in TidyHand(attached), NEW r \in Registrations,
         NEW d, Logged(d)
  PROVE  Replay(h, r, d) \in TidyHand(attached)
<1> DEFINE M == MembersOf(attached, listed, r.name, d.topic)
           p == Share(h, r.name, r.sharing, M, d)
<1>1. r.name \in Names /\ r.sharing \in Sharings
  BY RouterAssumption DEF Registration
<1>2. M \in Seq(1..nextId)
  BY MembersProps DEF TypeOK
<1>3. CASE M # <<>>
  <2>1. p \in TidyHand(attached)
    <3> HIDE DEF M
    <3> QED BY <1>1, <1>2, <1>3, ShareIn
  <2>2. Replay(h, r, d) = [p EXCEPT !.inflight = p.inflight + 1]
    BY <1>3 DEF Replay
  <2>3. p.inflight + 1 \in Int
    <3> HIDE DEF p
    <3> QED BY <2>1 DEF TidyHand
  <2> HIDE DEF p, M
  <2> QED BY <2>1, <2>2, <2>3, CountIn
<1>4. CASE M = <<>>
  BY <1>4 DEF Replay
<1> QED
  BY <1>3, <1>4

-----------------------------------------------------------------------------
(* The inductive invariant *)

\* A delivery can only be chosen for or parked while its entry is in the log,
\* so the typing needs DeliveriesAreLogged; both travel with NothingStranded,
\* which the same lemmas about hands preserve.
IInv == TypeOK /\ DeliveriesAreLogged /\ NothingStranded

\* What the router holds before a step is typed, logged and strands nothing.
LEMMA HandIsTidy ==
  ASSUME IInv
  PROVE  Hand \in TidyHand(attached) /\ Consumers(attached) = Attached
<1>1. Consumers(attached) = Attached
  BY DEF Consumers, Attached
<1> QED
  BY <1>1 DEF IInv, TypeOK, DeliveriesAreLogged, NothingStranded, Hand, TidyHand

\* What is selected of a list of logged deliveries is logged.
LEMMA SplitLogged ==
  ASSUME NEW p \in Seq(Delivery), AllLogged(p), NEW S
  PROVE  LET q == Select(p, S)
         IN  /\ q \in Seq(Delivery) /\ AllLogged(q)
             /\ \A n \in 1..Len(q) : /\ q[n] \in S
                                     /\ \E j \in 1..Len(p) : q[n] = p[j]
<1> DEFINE q == Select(p, S)
<1>1. /\ q \in Seq(Delivery)
      /\ \A n \in 1..Len(q) : /\ q[n] \in S
                              /\ \E j \in 1..Len(p) : q[n] = p[j]
  BY SelectProps
<1> HIDE DEF q
<1>2. AllLogged(q)
  BY <1>1 DEF AllLogged
<1> QED
  BY <1>1, <1>2 DEF q

\* A step that moves no delivery and leaves the log keeps deliveries logged.
LEMMA LoggedUnmoved ==
  ASSUME DeliveriesAreLogged,
         UNCHANGED <<log, queue, unacked, parked, settle, attached, departed>>
  PROVE  DeliveriesAreLogged'
<1>1. \A x \in Ids : AllLogged(queue[x])' /\ AllLogged(unacked[x])'
  BY DEF DeliveriesAreLogged, AllLogged, Logged
<1>2. \A s \in Names : AllLogged(parked[s])'
  BY DEF DeliveriesAreLogged, AllLogged, Logged
<1>3. \A m \in Slots :
        (settle[m].duty \in {"handle", "timer"} /\ settle[m].id \in Attached \cup departed
          => Logged(settle[m].d))'
  BY DEF DeliveriesAreLogged, Logged, Attached
<1> QED
  BY <1>1, <1>2, <1>3 DEF DeliveriesAreLogged

\* What a step that sets the hand leaves behind.
LEMMA HandStep ==
  ASSUME NEW h \in TidyHand(attached'), SetHand(h), reg' = reg, log' = log
  PROVE  /\ queue' \in [Ids -> Seq(Delivery)] /\ parked' \in [Names -> Seq(Delivery)]
         /\ rotation' \in [Names -> Nat] /\ inflight' \in Int
         /\ \A c \in Ids : AllLogged(queue[c])'
         /\ \A s \in Names : AllLogged(parked[s])'
         /\ NothingStranded'
<1>1. queue' = h.queue /\ parked' = h.parked /\ rotation' = h.rotation
      /\ inflight' = h.inflight
  BY DEF SetHand
<1>2. \A ds : AllLogged(ds) <=> AllLogged(ds)'
  BY DEF AllLogged, Logged
<1>3. (\A c \in Ids : AllLogged(queue[c])') /\ (\A s \in Names : AllLogged(parked[s])')
  BY <1>1 DEF TidyHand, AllLogged, Logged
<1>4. Consumers(attached') = Attached'
  BY DEF Consumers, Attached
<1>5. NothingStranded'
  BY <1>1, <1>4 DEF TidyHand, NothingStranded, IsPattern
<1> QED
  BY <1>1, <1>3, <1>5 DEF TidyHand

\* Appending to the log keeps every delivery logged, types every variable the
\* append touches and parks nothing (deliver).
LEMMA DeliverStep ==
  ASSUME IInv, NEW t \in Topics, NEW k \in Keys,
         NEW o \in {None} \cup (Topics \X (Nat \ {0})), Deliver(t, k, o),
         UNCHANGED <<reg, nextId, unacked, parked>>
  PROVE  /\ created' \in SUBSET Topics /\ listed' \in [Ids -> SUBSET Topics]
         /\ log' \in [Topics -> Seq(LogEntry)]
         /\ queue' \in [Ids -> Seq(Delivery)] /\ rotation' \in [Names -> Nat]
         /\ inflight' \in Int
         /\ \A d : Logged(d) => Logged(d)'
         /\ \A c \in Ids : AllLogged(queue[c])' /\ AllLogged(unacked[c])'
         /\ \A s \in Names : AllLogged(parked[s])'
<1> USE DEF IInv
<1>0. PICK d : d = [topic |-> t, seq |-> Len(log[t]) + 1, red |-> 0]
  OBVIOUS
<1> DEFINE members == [s \in Names |-> MembersOf(attached, listed', s, t)]
           served == {s \in Names : members[s] # <<>>}
           sharing == [s \in served |-> reg[members[s][1]].sharing]
           taker == [s \in served |->
                       Choose(sharing[s], members[s], k, rotation[s])]
<1>1. /\ created' = created \cup {t}
      /\ \E due : listed' = Listing(due, created')
      /\ \E at \in Times :
           log' = [log EXCEPT ![t] = Append(@, [key |-> k, at |-> at, origin |-> o])]
      /\ queue' = [c \in Ids |-> IF \E s \in served : taker[s] = c
                                  THEN Append(queue[c], d) ELSE queue[c]]
      /\ rotation' = [s \in Names |-> IF s \in served
                                      THEN NextTurn(sharing[s], rotation[s])
                                      ELSE rotation[s]]
      /\ inflight' = inflight + Cardinality(served)
  BY <1>0 DEF Deliver, SubscriptionsOver
<1> HIDE DEF served, sharing, taker
<1>2. created' \in SUBSET Topics /\ listed' \in [Ids -> SUBSET Topics]
  BY <1>1 DEF TypeOK, Listing
<1>3. PICK at \in Times :
        log' = [log EXCEPT ![t] = Append(@, [key |-> k, at |-> at, origin |-> o])]
  BY <1>1
<1> DEFINE e == [key |-> k, at |-> at, origin |-> o]
<1>4. /\ log \in [Topics -> Seq(LogEntry)] /\ e \in LogEntry
      /\ log' = [log EXCEPT ![t] = Append(log[t], e)]
  BY <1>3 DEF TypeOK, LogEntry
<1> HIDE DEF e
<1>5. log' \in [Topics -> Seq(LogEntry)]
  BY <1>4
<1>6. \A x \in Topics : Len(log[x]) <= Len(log'[x]) /\ Len(log[x]) \in Nat /\ Len(log'[x]) \in Nat
  BY <1>4
<1>7. \A x : Logged(x) => Logged(x)'
  <2> SUFFICES ASSUME NEW x, Logged(x) PROVE Logged(x)'
    OBVIOUS
  <2>1. x \in Delivery /\ x.topic \in Topics /\ x.seq \in 1..Len(log[x.topic])
    BY DEF Logged, Delivery
  <2>2. x.seq \in 1..Len(log'[x.topic])
    BY <2>1, <1>6
  <2> QED BY <2>1, <2>2 DEF Logged
<1>8. Logged(d)'
  <2>1. Len(log'[t]) = Len(log[t]) + 1
    BY <1>4
  <2>2. Len(log[t]) \in Nat
    BY <1>6
  <2>3. d \in Delivery /\ d.topic = t /\ d.seq = Len(log'[t])
    BY <1>0, <2>1, <2>2 DEF Delivery
  <2> QED BY <2>1, <2>2, <2>3 DEF Logged
<1>9. d \in Delivery
  BY <1>8 DEF Logged
<1>10. queue' \in [Ids -> Seq(Delivery)]
  BY <1>1, <1>9 DEF TypeOK
<1>11. ASSUME NEW c \in Ids PROVE AllLogged(queue[c])'
  <2>1. PICK q : q = queue[c]
    OBVIOUS
  <2>2. PICK z : z = queue'[c]
    OBVIOUS
  <2>3. q \in Seq(Delivery) /\ \A n \in 1..Len(q) : Logged(q[n])'
    BY <2>1, <1>7 DEF TypeOK, DeliveriesAreLogged, AllLogged
  <2>4. CASE z = q
    BY <2>2, <2>3, <2>4 DEF AllLogged
  <2>5. CASE z = Append(q, d)
    <3>1. ASSUME NEW n \in 1..Len(z) PROVE Logged(z[n])'
      <4>1. CASE n \in 1..Len(q)
        <5>1. z[n] = q[n]
          BY <2>3, <2>5, <4>1
        <5> QED BY <2>3, <4>1, <5>1
      <4>2. CASE n = Len(q) + 1
        <5>1. z[n] = d
          BY <2>3, <2>5, <4>2
        <5> QED BY <1>8, <5>1
      <4>3. n \in 1..Len(q) \/ n = Len(q) + 1
        BY <2>3, <2>5
      <4> QED BY <4>1, <4>2, <4>3
    <3> QED BY <2>2, <3>1 DEF AllLogged
  <2> QED BY <1>1, <2>1, <2>2, <2>4, <2>5
<1>12. (\A c \in Ids : AllLogged(unacked[c])') /\ (\A s \in Names : AllLogged(parked[s])')
  BY <1>7 DEF DeliveriesAreLogged, AllLogged, Logged
<1>13. rotation' \in [Names -> Nat]
  BY <1>1, NextTurnIn DEF TypeOK
<1>14. inflight' \in Int
  <2>1. served \subseteq Names
    BY DEF served
  <2>2. Cardinality(served) \in Nat
    BY <2>1, FS_Subset, FS_CardinalityType, RouterAssumption
  <2> QED BY <1>1, <2>2 DEF TypeOK
<1> QED
  BY <1>2, <1>5, <1>7, <1>10, <1>11, <1>12, <1>13, <1>14

\* A settlement only changes its duty and whether it is counted (Becomes).
LEMMA BecomesStep ==
  ASSUME TypeOK, NEW m \in Slots, NEW duty \in Duties, NEW counted \in BOOLEAN,
         Becomes(m, duty, counted)
  PROVE  /\ settle' \in [Slots -> Settlement]
         /\ \A x \in Slots : settle'[x].id <= nextId
         /\ \A x \in Slots : settle'[x].duty \in {"handle", "timer"} =>
              /\ settle'[x].id = settle[x].id /\ settle'[x].d = settle[x].d
              /\ settle'[x].duty = IF x = m THEN duty ELSE settle[x].duty
<1>1. settle \in [Slots -> Settlement] /\ (\A x \in Slots : settle[x].id <= nextId)
      /\ nextId \in Nat
  BY RouterAssumption DEF TypeOK
<1>2. CASE duty = "none" /\ ~counted
  <2>1. settle' = [settle EXCEPT ![m] = Idle]
    BY <1>2 DEF Becomes
  <2>2. Idle \in Settlement /\ Idle.id = 0 /\ Idle.duty = "none"
    BY DEF Idle, Settlement, Duties
  <2> QED BY <1>1, <2>1, <2>2
<1>3. CASE ~(duty = "none" /\ ~counted)
  <2> DEFINE e == [duty |-> duty, id |-> settle[m].id, counted |-> counted,
                   d |-> IF duty = "none" THEN None ELSE settle[m].d]
  <2>1. settle' = [settle EXCEPT ![m] = e]
    BY <1>3 DEF Becomes
  <2>2. settle[m] \in Settlement
    BY <1>1
  <2>3. /\ e \in Settlement /\ e.id = settle[m].id /\ e.duty = duty
        /\ duty \in {"handle", "timer"} => e.d = settle[m].d
    BY <2>2 DEF Settlement
  <2> HIDE DEF e
  <2> QED BY <1>1, <2>1, <2>3
<1> QED
  BY <1>2, <1>3

-----------------------------------------------------------------------------
(* One lemma per action *)

\* A publish puts its new entry in the log before it queues it anywhere.
LEMMA PublishStep ==
  ASSUME IInv, Publish
  PROVE  IInv'
<1> USE DEF IInv
<1>1. PICK t \in Topics, k \in Keys : Deliver(t, k, None)
  BY DEF Publish
<1>2. UNCHANGED <<up, nextId, reg, attached, departed, unacked, parked, settle, swap>>
  BY DEF Publish, registry
<1>3. /\ created' \in SUBSET Topics /\ listed' \in [Ids -> SUBSET Topics]
      /\ log' \in [Topics -> Seq(LogEntry)]
      /\ queue' \in [Ids -> Seq(Delivery)] /\ rotation' \in [Names -> Nat]
      /\ inflight' \in Int
      /\ \A d : Logged(d) => Logged(d)'
      /\ \A c \in Ids : AllLogged(queue[c])' /\ AllLogged(unacked[c])'
      /\ \A s \in Names : AllLogged(parked[s])'
  BY <1>1, <1>2, DeliverStep
<1>4. TypeOK'
  BY <1>2, <1>3 DEF TypeOK
<1>5. DeliveriesAreLogged'
  BY <1>2, <1>3 DEF DeliveriesAreLogged, Attached, Logged
<1>6. NothingStranded'
  BY <1>2 DEF NothingStranded, Attached
<1> QED
  BY <1>4, <1>5, <1>6

\* A subscribe takes over what is parked on the topics it reads, and only that.
LEMMA SubscribeStep ==
  ASSUME IInv, Subscribe
  PROVE  IInv'
<1> USE DEF IInv
<1> DEFINE c == nextId + 1
           reads(r) == IF IsPattern(r) THEN r.topics \cap created ELSE r.topics
           taken(r) == Select(parked[r.name], Over(reads(r)))
           left(r) == Select(parked[r.name], Over(Topics \ reads(r)))
<1>1. PICK r \in Registrations :
        /\ nextId' = c
        /\ reg' = [reg EXCEPT ![c] = r]
        /\ attached' = Append(attached, c)
        /\ created' = IF IsPattern(r) THEN created ELSE created \cup r.topics
        /\ \E due : listed' = [Listing(due, created') EXCEPT
                                 ![c] = IF IsPattern(r) THEN reads(r) ELSE {}]
        /\ queue' = [queue EXCEPT ![c] = taken(r)]
        /\ parked' = [parked EXCEPT ![r.name] = left(r)]
        /\ inflight' = inflight + Len(taken(r))
  BY DEF Subscribe
<1>2. /\ UNCHANGED <<up, departed, log, unacked, rotation, settle, swap>>
      /\ nextId < MaxConsumers
  BY DEF Subscribe
<1>3. r.name \in Names /\ r.topics \in SUBSET Topics /\ reads(r) \in SUBSET Topics
  BY RouterAssumption DEF Registration
<1>4. c \in Ids /\ nextId \in Nat /\ c \in 1..c /\ 1..nextId \subseteq 1..c /\ c <= MaxConsumers
  BY <1>2, RouterAssumption DEF TypeOK, Ids
<1>5. parked[r.name] \in Seq(Delivery) /\ AllLogged(parked[r.name])
  BY <1>3 DEF TypeOK, DeliveriesAreLogged
<1>6. /\ taken(r) \in Seq(Delivery) /\ left(r) \in Seq(Delivery)
      /\ AllLogged(taken(r)) /\ AllLogged(left(r))
      /\ \A n \in 1..Len(left(r)) : /\ left(r)[n] \in Over(Topics \ reads(r))
                                  /\ \E j \in 1..Len(parked[r.name]) :
                                       left(r)[n] = parked[r.name][j]
  <2> DEFINE p == parked[r.name]
  <2> HIDE DEF p
  <2>1. p \in Seq(Delivery) /\ AllLogged(p)
    BY <1>5 DEF p
  <2>2. ASSUME NEW S
        PROVE  /\ Select(p, S) \in Seq(Delivery) /\ AllLogged(Select(p, S))
               /\ \A n \in 1..Len(Select(p, S)) :
                    /\ Select(p, S)[n] \in S
                    /\ \E j \in 1..Len(p) : Select(p, S)[n] = p[j]
    BY <2>1, SplitLogged
  <2> QED BY <2>2 DEF p
<1> HIDE DEF taken, left
<1>7. TypeOK'
  <2>1. nextId' \in 0..MaxConsumers
    BY <1>1, <1>4
  <2>2. reg' \in [Ids -> Registrations \cup {None}]
    BY <1>1 DEF TypeOK
  <2>3. \A x \in Ids : x <= nextId' => reg'[x] \in Registrations
    BY <1>1, <1>4 DEF TypeOK, Ids
  <2>4. attached' \in Seq(1..nextId')
    BY <1>1, <1>4 DEF TypeOK
  <2>5. departed' \in SUBSET (1..nextId')
    BY <1>1, <1>2, <1>4 DEF TypeOK
  <2>6. created' \in SUBSET Topics /\ listed' \in [Ids -> SUBSET Topics]
    <3>1. created' \in SUBSET Topics
      BY <1>1, <1>3 DEF TypeOK
    <3>2. PICK due : listed' = [Listing(due, created') EXCEPT
                                 ![c] = IF IsPattern(r) THEN reads(r) ELSE {}]
      BY <1>1
    <3>3. Listing(due, created') \in [Ids -> SUBSET Topics]
      BY <3>1 DEF Listing, TypeOK
    <3> HIDE DEF reads, c
    <3> QED BY <1>3, <3>1, <3>2, <3>3
  <2>7. queue' \in [Ids -> Seq(Delivery)] /\ parked' \in [Names -> Seq(Delivery)]
    BY <1>1, <1>6 DEF TypeOK
  <2>8. inflight' \in Int
    BY <1>1, <1>6 DEF TypeOK
  <2>9. settle' \in [Slots -> Settlement] /\ \A m \in Slots : settle'[m].id <= nextId'
    <3>1. \A m \in Slots : settle[m].id \in {0} \cup Ids /\ settle[m].id <= nextId
      BY DEF TypeOK, Settlement
    <3>2. settle \in [Slots -> Settlement]
      BY DEF TypeOK
    <3>3. \A m \in Slots : settle[m].id \in Nat /\ settle[m].id <= nextId
      BY <3>1, RouterAssumption DEF Ids
    <3>4. \A m \in Slots : settle[m].id <= nextId + 1
      BY <1>4, <3>3
    <3> QED BY <1>1, <1>2, <3>2, <3>4
  <2> QED BY <1>2, <2>1, <2>2, <2>3, <2>4, <2>5, <2>6, <2>7, <2>8, <2>9 DEF TypeOK
<1>8. Attached' = Attached \cup {c}
  <2>1. attached \in Seq(1..nextId)
    BY DEF TypeOK
  <2>2. /\ Len(attached') = Len(attached) + 1 /\ Len(attached) \in Nat
        /\ \A i \in 1..Len(attached) : attached'[i] = attached[i]
        /\ attached'[Len(attached) + 1] = c
    BY <1>1, <2>1
  <2>3. \A i \in 1..Len(attached') : i \in 1..Len(attached) \/ i = Len(attached) + 1
    BY <2>2
  <2>4. \A i \in 1..Len(attached) : i \in 1..Len(attached')
    BY <2>2
  <2>5. Len(attached) + 1 \in 1..Len(attached')
    BY <2>2
  <2> HIDE DEF c
  <2> QED BY <2>2, <2>3, <2>4, <2>5 DEF Attached
<1>9. DeliveriesAreLogged'
  <2>1. /\ \A x \in Ids : queue'[x] = IF x = c THEN taken(r) ELSE queue[x]
        /\ \A s \in Names : parked'[s] = IF s = r.name THEN left(r) ELSE parked[s]
    BY <1>1 DEF TypeOK
  <2>2. \A x \in Ids : AllLogged(queue[x])' /\ AllLogged(unacked[x])'
    <3>1. \A x \in Ids : AllLogged(queue[x]) /\ AllLogged(unacked[x])
      BY DEF DeliveriesAreLogged
    <3> QED BY <1>2, <1>6, <2>1, <3>1 DEF AllLogged, Logged
  <2>3. \A s \in Names : AllLogged(parked[s])'
    <3>1. \A s \in Names : AllLogged(parked[s])
      BY DEF DeliveriesAreLogged
    <3> QED BY <1>2, <1>6, <2>1, <3>1 DEF AllLogged, Logged
  <2>4. ASSUME NEW m \in Slots, settle'[m].duty \in {"handle", "timer"},
               settle'[m].id \in Attached' \cup departed'
        PROVE  Logged(settle[m].d)'
    <3>1. settle[m].id <= nextId
      BY DEF TypeOK
    <3>2. settle[m].id # c
      BY <1>4, <3>1
    <3>3. settle[m].id \in Attached \cup departed
      BY <1>2, <1>8, <2>4, <3>2
    <3> QED BY <1>2, <2>4, <3>3 DEF DeliveriesAreLogged, Logged
  <2> QED BY <2>2, <2>3, <2>4 DEF DeliveriesAreLogged
<1>10. NothingStranded'
  <2> SUFFICES ASSUME NEW s \in Names, NEW n \in 1..Len(parked'[s]), NEW x \in Attached',
                      reg'[x].name = s, ~IsPattern(reg'[x])
               PROVE  parked'[s][n].topic \notin reg'[x].topics
    BY DEF NothingStranded, IsPattern
  <2>1. CASE x = c
    <3>1. reg'[x] = r /\ s = r.name /\ reads(r) = r.topics
      BY <1>1, <1>4, <2>1 DEF TypeOK
    <3>2. parked'[s] = left(r)
      BY <1>1, <1>3, <3>1 DEF TypeOK
    <3> QED BY <1>6, <3>1, <3>2 DEF Over
  <2>2. CASE x # c
    <3>1. x \in Attached
      BY <1>8, <2>2
    <3>2. x \in 1..nextId
      BY <3>1, ElementOfSeq DEF Attached, TypeOK
    <3>3. reg'[x] = reg[x]
      BY <1>1, <2>2, <3>2 DEF TypeOK
    <3>4. PICK j \in 1..Len(parked[s]) : parked'[s][n] = parked[s][j]
      <4>1. CASE s = r.name
        BY <1>1, <1>3, <1>6, <4>1 DEF TypeOK
      <4>2. CASE s # r.name
        BY <1>1, <4>2 DEF TypeOK
      <4> QED BY <4>1, <4>2
    <3> QED BY <3>1, <3>3, <3>4 DEF NothingStranded
  <2> QED BY <2>1, <2>2
<1> QED
  BY <1>7, <1>9, <1>10

\* A listing moves no delivery and touches no consumer that names its topics.
LEMMA RefreshStep ==
  ASSUME IInv, Refresh
  PROVE  IInv'
<1> USE DEF IInv
<1>1. /\ \E due : listed' = Listing(due, created)
      /\ UNCHANGED <<up, nextId, reg, attached, departed, created, log, queue,
                     unacked, parked, rotation, settle, inflight, swap>>
  BY DEF Refresh, registry
<1>2. listed' \in [Ids -> SUBSET Topics]
  BY <1>1 DEF Listing, TypeOK
<1>3. TypeOK'
  BY <1>1, <1>2 DEF TypeOK
<1>4. DeliveriesAreLogged'
  BY <1>1, LoggedUnmoved
<1>5. NothingStranded'
  BY <1>1 DEF NothingStranded, Attached
<1> QED
  BY <1>3, <1>4, <1>5

\* Releasing what a seek discarded changes the count alone.
LEMMA FinishSeekStep ==
  ASSUME IInv, FinishSeek
  PROVE  IInv'
<1> USE DEF IInv
<1>1. /\ UNCHANGED <<up, nextId, reg, attached, departed, created, listed, log, queue,
                     unacked, parked, rotation, settle>>
      /\ inflight' = inflight - swap /\ swap' = 0
  BY DEF FinishSeek, registry, topicVars
<1>2. TypeOK'
  BY <1>1 DEF TypeOK
<1>3. DeliveriesAreLogged'
  BY <1>1, LoggedUnmoved
<1>4. NothingStranded'
  BY <1>1 DEF NothingStranded, Attached
<1> QED
  BY <1>2, <1>3, <1>4

\* A shutdown forgets the deliveries together with the log they carry entries of.
LEMMA ShutdownStep ==
  ASSUME IInv, Shutdown
  PROVE  IInv'
<1> USE DEF IInv
<1>1. TypeOK'
  <2>1. attached' \in Seq(1..nextId') /\ departed' \in SUBSET (1..nextId')
        /\ log' \in [Topics -> Seq(LogEntry)]
        /\ queue' \in [Ids -> Seq(Delivery)] /\ unacked' \in [Ids -> Seq(Delivery)]
        /\ parked' \in [Names -> Seq(Delivery)] /\ rotation' \in [Names -> Nat]
        /\ created' \in SUBSET Topics /\ listed' \in [Ids -> SUBSET Topics]
    BY DEF Shutdown
  <2>2. UNCHANGED <<nextId, reg, settle, inflight, swap>> /\ up' = FALSE
    BY DEF Shutdown
  <2> QED BY <2>1, <2>2 DEF TypeOK
<1>2. DeliveriesAreLogged'
  BY DEF Shutdown, DeliveriesAreLogged, AllLogged, Attached
<1>3. NothingStranded'
  BY DEF Shutdown, NothingStranded, Attached
<1> QED
  BY <1>1, <1>2, <1>3

\* The logged deliveries as a set, and what a fold needs to know of a queue.
LoggedSet == {d \in Delivery : Logged(d)}

\* What was logged stays logged while the log is unchanged.
LEMMA LoggedSeq ==
  ASSUME NEW q \in Seq(Delivery), AllLogged(q)
  PROVE  q \in Seq(LoggedSet)
<1>1. \A n \in 1..Len(q) : q[n] \in LoggedSet
  BY DEF AllLogged, LoggedSet
<1>2. q \in [1..Len(q) -> LoggedSet] /\ Len(q) \in Nat
  BY <1>1
<1> HIDE DEF LoggedSet
<1> QED
  BY <1>2

\* A redelivery of a logged delivery is of the same entry.
LEMMA AgainIn ==
  ASSUME NEW d \in LoggedSet
  PROVE  Again(d) \in LoggedSet
BY DEF LoggedSet, Logged, Again, Delivery

\* So are the redeliveries of a list of them.
LEMMA AgainLogged ==
  ASSUME NEW q \in Seq(Delivery), AllLogged(q)
  PROVE  AgainAll(q) \in Seq(LoggedSet) /\ Len(AgainAll(q)) = Len(q)
<1>1. q \in Seq(LoggedSet)
  BY LoggedSeq
<1>2. \A d \in LoggedSet : Again(d) \in LoggedSet
  BY AgainIn
<1>3. Len(q) \in Nat /\ \A n \in 1..Len(q) : q[n] \in LoggedSet
  <2> HIDE DEF LoggedSet
  <2> QED BY <1>1
<1>4. AgainAll(q) \in [1..Len(q) -> LoggedSet]
  BY <1>2, <1>3 DEF AgainAll
<1> HIDE DEF LoggedSet
<1> QED
  BY <1>3, <1>4

\* A close hands its queue and its unsettled drops to readers, else parks them.
LEMMA UnsubscribeStep ==
  ASSUME IInv, NEW c \in Ids, Unsubscribe(c)
  PROVE  IInv'
<1> USE DEF IInv
<1> DEFINE rest == Ids \ {c}
           others == Select(attached, rest)
           h == [Hand EXCEPT !.queue = [queue EXCEPT ![c] = <<>>]]
           fromQueue == HandBackAll(h, others, reg[c], queue[c], TRUE)
           all == HandBackAll(fromQueue, others, reg[c], AgainAll(unacked[c]), FALSE)
<1>1. /\ c \in Attached
      /\ attached' = others /\ departed' = departed \cup {c}
      /\ unacked' = [unacked EXCEPT ![c] = <<>>]
      /\ SetHand(all)
      /\ UNCHANGED <<up, nextId, reg, created, listed, log, settle, swap>>
  BY DEF Unsubscribe, topicVars, Hand
<1>2. /\ others \in Seq(1..nextId)
      /\ \A i \in 1..Len(others) : \E j \in 1..Len(attached) : others[i] = attached[j]
  <2>1. attached \in Seq(1..nextId)
    BY DEF TypeOK
  <2> HIDE DEF rest
  <2> QED BY <2>1, SelectProps
<1> HIDE DEF others, rest
<1>3. Consumers(others) \subseteq Attached
  BY <1>2 DEF Consumers, Attached
<1>4. c \in 1..nextId /\ reg[c] \in Registrations
  <2>1. c \in 1..nextId
    BY <1>1, ElementOfSeq DEF Attached, TypeOK
  <2> QED BY <2>1 DEF TypeOK
<1>5. h \in TidyHand(others)
  <2>1. Hand \in TidyHand(others)
    BY <1>3, HandIsTidy DEF TidyHand
  <2>2. <<>> \in Seq(Delivery) /\ AllLogged(<<>>)
    BY DEF AllLogged
  <2>3. /\ [queue EXCEPT ![c] = <<>>] \in [Ids -> Seq(Delivery)]
        /\ \A x \in Ids : AllLogged([queue EXCEPT ![c] = <<>>][x])
    BY <2>2 DEF TypeOK, DeliveriesAreLogged
  <2> QED BY <2>1, <2>3 DEF TidyHand
<1> HIDE DEF h
<1>6. queue[c] \in Seq(LoggedSet)
  BY LoggedSeq DEF TypeOK, DeliveriesAreLogged
<1>7. AgainAll(unacked[c]) \in Seq(LoggedSet)
  BY AgainLogged DEF TypeOK, DeliveriesAreLogged
<1>8. \A x \in TidyHand(others) : \A d \in LoggedSet : \A b \in BOOLEAN :
        HandBack(x, others, reg[c], d, b) \in TidyHand(others)
  BY <1>2, <1>4, HandBackIn DEF LoggedSet
<1>9. fromQueue \in TidyHand(others)
  BY <1>5, <1>6, <1>8, HandBackAllIn
<1> HIDE DEF fromQueue
<1>10. all \in TidyHand(others)
  BY <1>7, <1>8, <1>9, HandBackAllIn
<1> HIDE DEF all
<1>11. /\ queue' \in [Ids -> Seq(Delivery)] /\ parked' \in [Names -> Seq(Delivery)]
       /\ rotation' \in [Names -> Nat] /\ inflight' \in Int
       /\ \A x \in Ids : AllLogged(queue[x])'
       /\ \A s \in Names : AllLogged(parked[s])'
       /\ NothingStranded'
  BY <1>1, <1>10, HandStep
<1>12. TypeOK'
  <2>1. attached' \in Seq(1..nextId') /\ departed' \in SUBSET (1..nextId')
    BY <1>1, <1>2, <1>4 DEF TypeOK
  <2>2. unacked' \in [Ids -> Seq(Delivery)]
    BY <1>1 DEF TypeOK
  <2> QED BY <1>1, <1>11, <2>1, <2>2 DEF TypeOK
<1>13. DeliveriesAreLogged'
  <2>1. \A x \in Ids : AllLogged(unacked[x])'
    <3>1. \A ds : AllLogged(ds) => AllLogged(ds)'
      BY <1>1 DEF AllLogged, Logged
    <3>2. \A x \in Ids : unacked'[x] = <<>> \/ AllLogged(unacked'[x])
      BY <1>1 DEF TypeOK, DeliveriesAreLogged
    <3>3. \A x \in Ids : AllLogged(unacked'[x])
      BY <3>2 DEF AllLogged
    <3> QED BY <1>1, <3>3 DEF AllLogged, Logged
  <2>2. Attached' \cup departed' \subseteq Attached \cup departed
    BY <1>1, <1>3 DEF Attached, Consumers
  <2>3. \A m \in Slots : /\ settle'[m].duty \in {"handle", "timer"}
                        /\ settle'[m].id \in Attached' \cup departed'
                        => Logged(settle[m].d)'
    BY <1>1, <2>2 DEF DeliveriesAreLogged, Logged
  <2> QED BY <1>11, <2>1, <2>3 DEF DeliveriesAreLogged
<1> QED
  BY <1>11, <1>12, <1>13

\* What a seek keeps of the queues: some of them whole, of others a part.
LEMMA KeptLogged ==
  ASSUME TypeOK, DeliveriesAreLogged, NEW kept, kept = [x \in Ids |-> kept[x]],
         \A x \in Ids : kept[x] = queue[x] \/ \E O : kept[x] = Select(queue[x], O)
  PROVE  /\ kept \in [Ids -> Seq(Delivery)]
         /\ \A x \in Ids : AllLogged(kept[x]) /\ Len(kept[x]) <= Len(queue[x])
         /\ Total(kept) \in Nat /\ Total(queue) \in Nat /\ Total(kept) <= Total(queue)
<1>1. ASSUME NEW x \in Ids
      PROVE  /\ kept[x] \in Seq(Delivery) /\ AllLogged(kept[x])
             /\ Len(kept[x]) <= Len(queue[x])
  <2>1. queue[x] \in Seq(Delivery) /\ AllLogged(queue[x])
    BY DEF TypeOK, DeliveriesAreLogged
  <2>2. CASE kept[x] = queue[x]
    BY <2>1, <2>2
  <2>3. ASSUME NEW O, kept[x] = Select(queue[x], O)
        PROVE  /\ kept[x] \in Seq(Delivery) /\ AllLogged(kept[x])
               /\ Len(kept[x]) <= Len(queue[x])
    <3> DEFINE q == Select(queue[x], O)
    <3>1. /\ q \in Seq(Delivery) /\ Len(q) <= Len(queue[x])
          /\ \A i \in 1..Len(q) : \E j \in 1..Len(queue[x]) : q[i] = queue[x][j]
      BY <2>1, SelectProps
    <3> HIDE DEF q
    <3>2. AllLogged(q)
      BY <2>1, <3>1 DEF AllLogged
    <3> QED BY <2>3, <3>1, <3>2 DEF q
  <2> QED BY <2>2, <2>3
<1>2. kept \in [Ids -> Seq(Delivery)]
  <2>1. \A x \in Ids : kept[x] \in Seq(Delivery)
    BY <1>1
  <2> QED BY <2>1
<1>3. queue \in [Ids -> Seq(Delivery)]
  BY DEF TypeOK
<1>4. Total(kept) \in Nat /\ Total(queue) \in Nat /\ Total(kept) <= Total(queue)
  BY <1>1, <1>2, <1>3, TotalMonotone, RouterAssumption
<1> QED
  BY <1>1, <1>2, <1>4

\* The replay of a seek is a list of logged deliveries, of topics among some T.
LEMMA ReplayLogged ==
  ASSUME TypeOK, NEW T \in SUBSET Topics, NEW pos,
         NEW ds \in InReplayOrder({d \in [topic : T, seq : 1..MaxEntries, red : {0}] :
                                     d.seq \in Replays(d.topic, pos)})
  PROVE  ds \in Seq(LoggedSet)
<1> DEFINE box == [topic : T, seq : 1..MaxEntries, red : {0}]
           replay == {d \in box : d.seq \in Replays(d.topic, pos)}
<1>1. ds \in InReplayOrder(replay)
  OBVIOUS
<1>2. IsFiniteSet(replay)
  <2> DEFINE pairs == T \X (1..MaxEntries)
             f == [p \in pairs |-> [topic |-> p[1], seq |-> p[2], red |-> 0]]
  <2>1. IsFiniteSet(pairs)
    <3>1. IsFiniteSet(T)
      BY FS_Subset, RouterAssumption
    <3>2. IsFiniteSet(1..MaxEntries)
      BY FS_Interval, RouterAssumption
    <3> QED BY <3>1, <3>2, FS_Product
  <2>2. f \in Surjection(pairs, box)
    <3>1. f \in [pairs -> box]
      OBVIOUS
    <3>2. ASSUME NEW d \in box PROVE \E p \in pairs : f[p] = d
      <4>1. <<d.topic, d.seq>> \in pairs /\ d = [topic |-> d.topic, seq |-> d.seq, red |-> 0]
        OBVIOUS
      <4>2. f[<<d.topic, d.seq>>] = d
        BY <4>1
      <4> QED BY <4>1, <4>2
    <3> HIDE DEF f, pairs, box
    <3> QED BY <3>1, <3>2 DEF Surjection
  <2> HIDE DEF f, pairs, box
  <2>3. IsFiniteSet(box)
    BY <2>1, <2>2, FS_Surjection
  <2>4. replay \in SUBSET box
    OBVIOUS
  <2> QED BY <2>3, <2>4, FS_Subset
<1>3. replay \subseteq LoggedSet
  <2> SUFFICES ASSUME NEW d \in replay PROVE d \in LoggedSet
    OBVIOUS
  <2>1. /\ d \in box /\ d.topic \in Topics
        /\ d.seq \in 1..Len(log[d.topic]) /\ d.seq \in 1..MaxEntries
    BY DEF Replays
  <2>2. d \in Delivery
    <3> HIDE DEF replay
    <3>1. d = [topic |-> d.topic, seq |-> d.seq, red |-> d.red] /\ d.red = 0
      BY <2>1
    <3> QED BY <2>1, <3>1, RouterAssumption DEF Delivery
  <2> HIDE DEF replay
  <2> QED BY <2>1, <2>2 DEF LoggedSet, Logged
<1> HIDE DEF replay
<1>4. Cardinality(replay) \in Nat
  BY <1>2, FS_CardinalityType
<1>5. ds \in [1..Cardinality(replay) -> LoggedSet]
  BY <1>1, <1>3 DEF InReplayOrder
<1> HIDE DEF LoggedSet
<1> QED
  BY <1>4, <1>5

\* A seek keeps some of what was queued and adds entries of the log.
LEMMA SeekStep ==
  ASSUME IInv, NEW c \in Ids, NEW pos, Seek(c, pos)
  PROVE  IInv'
<1> USE DEF IInv
<1> DEFINE r == reg[c]
           topics == {t \in Topics \ Volatile : Reads(listed, c, t)}
           siblings == {x \in Attached : reg[x].name = r.name /\ Overlap(reg[x], r)}
           kept == [x \in Ids |-> IF x \in siblings
                                 THEN Select(queue[x], Over(Topics \ topics))
                                 ELSE queue[x]]
           box == [topic : topics, seq : 1..MaxEntries, red : {0}]
           replay == {d \in box : d.seq \in Replays(d.topic, pos)}
           h == [Hand EXCEPT !.queue = kept]
<1>1. /\ c \in Attached
      /\ \E ds \in InReplayOrder(replay) : SetHand(ReplayAll(h, r, ds))
      /\ swap' = Total(queue) - Total(kept)
      /\ UNCHANGED <<up, nextId, reg, attached, departed, created, listed, log,
                     unacked, settle>>
  BY DEF Seek, registry, topicVars
<1>2. r \in Registrations
  <2>1. c \in 1..nextId
    BY <1>1, ElementOfSeq DEF Attached, TypeOK
  <2> QED BY <2>1 DEF TypeOK
<1>3. kept = [x \in Ids |-> kept[x]]
      /\ \A x \in Ids : kept[x] = queue[x] \/ \E O : kept[x] = Select(queue[x], O)
  OBVIOUS
<1>4. /\ kept \in [Ids -> Seq(Delivery)]
      /\ \A x \in Ids : AllLogged(kept[x])
      /\ Total(kept) \in Nat /\ Total(queue) \in Nat /\ Total(kept) <= Total(queue)
  <2> HIDE DEF kept
  <2> QED BY <1>3, KeptLogged
<1>5. swap' \in Nat
  <2> HIDE DEF kept
  <2> QED BY <1>1, <1>4
<1>6. h \in TidyHand(attached)
  <2> HIDE DEF kept
  <2> QED BY <1>4, HandIsTidy DEF TidyHand
<1> HIDE DEF kept, replay, h
<1>9. PICK ds \in InReplayOrder(replay) : SetHand(ReplayAll(h, r, ds))
  BY <1>1
<1>10. ds \in Seq(LoggedSet)
  BY <1>9, ReplayLogged DEF replay, box
<1>11. \A x \in TidyHand(attached) : \A d \in LoggedSet :
         Replay(x, r, d) \in TidyHand(attached)
  BY <1>2, ReplayIn DEF LoggedSet
<1>12. ReplayAll(h, r, ds) \in TidyHand(attached)
  BY <1>6, <1>10, <1>11, ReplayAllIn
<1>13. /\ queue' \in [Ids -> Seq(Delivery)] /\ parked' \in [Names -> Seq(Delivery)]
       /\ rotation' \in [Names -> Nat] /\ inflight' \in Int
       /\ \A x \in Ids : AllLogged(queue[x])'
       /\ \A s \in Names : AllLogged(parked[s])'
       /\ NothingStranded'
  BY <1>1, <1>9, <1>12, HandStep
<1>14. TypeOK'
  BY <1>1, <1>5, <1>13 DEF TypeOK
<1>15. DeliveriesAreLogged'
  <2>1. \A x \in Ids : AllLogged(unacked[x])'
    BY <1>1 DEF DeliveriesAreLogged, AllLogged, Logged
  <2>2. \A m \in Slots :
          (settle[m].duty \in {"handle", "timer"} /\ settle[m].id \in Attached \cup departed
            => Logged(settle[m].d))'
    BY <1>1 DEF DeliveriesAreLogged, Logged, Attached
  <2> QED BY <1>13, <2>1, <2>2 DEF DeliveriesAreLogged
<1> QED
  BY <1>13, <1>14, <1>15

\* A settlement keeps what it can still put back logged when the step keeps
\* everything else logged and does not revive a settlement.
LEMMA LoggedStep ==
  ASSUME IInv, NEW m \in Slots, NEW duty \in Duties, NEW counted \in BOOLEAN,
         Becomes(m, duty, counted),
         duty \in {"handle", "timer"} => settle[m].duty \in {"handle", "timer"},
         attached' = attached, departed' = departed,
         \A d : Logged(d) => Logged(d)',
         \A c \in Ids : AllLogged(queue[c])' /\ AllLogged(unacked[c])',
         \A s \in Names : AllLogged(parked[s])'
  PROVE  DeliveriesAreLogged'
<1>1. ASSUME NEW x \in Slots, settle'[x].duty \in {"handle", "timer"},
             settle'[x].id \in Attached' \cup departed'
      PROVE  Logged(settle[x].d)'
  <2>1. /\ settle'[x].id = settle[x].id /\ settle'[x].d = settle[x].d
        /\ settle'[x].duty = IF x = m THEN duty ELSE settle[x].duty
    BY <1>1, BecomesStep DEF IInv
  <2>2. settle[x].duty \in {"handle", "timer"} /\ settle[x].id \in Attached \cup departed
    BY <1>1, <2>1 DEF Attached
  <2>3. PICK d : d = settle[x].d
    OBVIOUS
  <2>4. Logged(d)
    BY <2>2, <2>3 DEF IInv, DeliveriesAreLogged
  <2>5. Logged(d)'
    BY <2>4
  <2> QED BY <2>1, <2>3, <2>5 DEF Logged
<1> QED
  BY <1>1 DEF DeliveriesAreLogged

\* A step of a settlement that leaves the router alone, but for the count.
LEMMA SettleStep ==
  ASSUME IInv, NEW m \in Slots, NEW duty \in Duties, NEW counted \in BOOLEAN,
         Becomes(m, duty, counted), inflight' \in Int,
         duty \in {"handle", "timer"} => settle[m].duty \in {"handle", "timer"},
         UNCHANGED <<up, nextId, reg, attached, departed, created, listed, log,
                     queue, unacked, parked, rotation, swap>>
  PROVE  IInv'
<1> USE DEF IInv
<1>1. (\A d : Logged(d) => Logged(d)')
      /\ (\A c \in Ids : AllLogged(queue[c])' /\ AllLogged(unacked[c])')
      /\ (\A s \in Names : AllLogged(parked[s])')
  BY DEF DeliveriesAreLogged, AllLogged, Logged
<1>2. DeliveriesAreLogged'
  BY <1>1, LoggedStep
<1>3. TypeOK'
  BY BecomesStep DEF TypeOK
<1>4. NothingStranded'
  BY DEF NothingStranded, Attached
<1> QED
  BY <1>2, <1>3, <1>4

\* An acknowledgement ends its settlement.
LEMMA AckStep ==
  ASSUME IInv, NEW m \in Slots, Ack(m)
  PROVE  IInv'
<1>1. inflight' \in Int
  BY DEF Ack, IInv, TypeOK
<1>2. /\ Becomes(m, "none", FALSE)
      /\ UNCHANGED <<up, nextId, reg, attached, departed, created, listed, log,
                     queue, unacked, parked, rotation, swap>>
  BY DEF Ack, registry, topicVars
<1> QED
  BY <1>1, <1>2, SettleStep DEF Duties

\* Scheduling a delayed retry keeps the delivery with its settlement.
LEMMA NackAfterStep ==
  ASSUME IInv, NEW m \in Slots, NackAfter(m)
  PROVE  IInv'
<1>1. inflight' \in Int /\ settle[m].duty = "handle"
  BY DEF NackAfter, IInv, TypeOK
<1>2. /\ Becomes(m, "timer", TRUE)
      /\ UNCHANGED <<up, nextId, reg, attached, departed, created, listed, log,
                     queue, unacked, parked, rotation, swap>>
  BY DEF NackAfter, registry, topicVars
<1> QED
  BY <1>1, <1>2, SettleStep DEF Duties

\* Counting a fresh delivery moves none.
LEMMA CountStep ==
  ASSUME IInv, NEW m \in Slots, Count(m)
  PROVE  IInv'
<1>1. inflight' \in Int /\ settle[m].counted \in BOOLEAN
  BY DEF Count, IInv, TypeOK, Settlement
<1>2. /\ Becomes(m, "none", settle[m].counted)
      /\ UNCHANGED <<up, nextId, reg, attached, departed, created, listed, log,
                     queue, unacked, parked, rotation, swap>>
  BY DEF Count, registry, topicVars
<1> QED
  BY <1>1, <1>2, SettleStep DEF Duties

\* Releasing a settlement moves no delivery.
LEMMA ReleaseStep ==
  ASSUME IInv, NEW m \in Slots, Release(m)
  PROVE  IInv'
<1>1. inflight' \in Int /\ settle[m].duty \in Duties
  BY DEF Release, IInv, TypeOK, Settlement
<1>2. /\ Becomes(m, settle[m].duty, FALSE)
      /\ UNCHANGED <<up, nextId, reg, attached, departed, created, listed, log,
                     queue, unacked, parked, rotation, swap>>
  BY DEF Release, registry, topicVars
<1> QED
  BY <1>1, <1>2, SettleStep

\* A poll moves the head of a queue into a settlement.
LEMMA PollStep ==
  ASSUME IInv, NEW m \in Slots, NEW c \in Ids, Poll(m, c)
  PROVE  IInv'
<1> USE DEF IInv
<1> DEFINE e == [duty |-> "handle", id |-> c, d |-> Head(queue[c]), counted |-> TRUE]
<1>1. /\ c \in Attached /\ queue[c] # <<>>
      /\ settle' = [settle EXCEPT ![m] = e]
      /\ queue' = [queue EXCEPT ![c] = Tail(queue[c])]
      /\ UNCHANGED <<up, nextId, reg, attached, departed, created, listed, log,
                     unacked, parked, rotation, inflight, swap>>
  BY DEF Poll, registry, topicVars
<1>2. queue[c] \in Seq(Delivery) /\ \A n \in 1..Len(queue[c]) : Logged(queue[c][n])
  BY DEF TypeOK, DeliveriesAreLogged, AllLogged
<1>3. PICK q : q = Tail(queue[c])
  OBVIOUS
<1>4. PICK d : d = Head(queue[c])
  OBVIOUS
<1>5. /\ q \in Seq(Delivery) /\ Len(q) = Len(queue[c]) - 1 /\ Len(queue[c]) \in Nat \ {0}
      /\ \A n \in 1..Len(q) : q[n] = queue[c][n + 1]
      /\ d = queue[c][1]
  BY <1>1, <1>2, <1>3, <1>4
<1>6. d \in Delivery /\ Logged(d) /\ Logged(d)'
  <2>1. Logged(d)
    BY <1>2, <1>5
  <2> QED BY <1>1, <2>1 DEF Logged
<1>7. AllLogged(q)
  <2>1. \A n \in 1..Len(q) : n + 1 \in 1..Len(queue[c])
    BY <1>5
  <2> QED BY <1>2, <1>5, <2>1 DEF AllLogged
<1>8. e \in Settlement /\ e.id = c /\ e.d = d
  BY <1>4, <1>6 DEF Settlement, Duties
<1> HIDE DEF e
<1>9. c <= nextId
  <2>1. c \in 1..nextId
    BY <1>1, ElementOfSeq DEF Attached, TypeOK
  <2> QED BY <2>1, RouterAssumption DEF TypeOK
<1>10. TypeOK'
  <2>1. queue' \in [Ids -> Seq(Delivery)]
    BY <1>1, <1>3, <1>5 DEF TypeOK
  <2>2. settle' \in [Slots -> Settlement] /\ \A x \in Slots : settle'[x].id <= nextId'
    BY <1>1, <1>8, <1>9 DEF TypeOK
  <2> QED BY <1>1, <2>1, <2>2 DEF TypeOK
<1>11. DeliveriesAreLogged'
  <2>1. \A x \in Ids : AllLogged(queue'[x])
    BY <1>1, <1>3, <1>7 DEF TypeOK, DeliveriesAreLogged
  <2>2. \A x \in Ids : AllLogged(queue[x])'
    BY <1>1, <2>1 DEF AllLogged, Logged
  <2>3. /\ \A x \in Ids : AllLogged(unacked[x])'
        /\ \A s \in Names : AllLogged(parked[s])'
    BY <1>1 DEF DeliveriesAreLogged, AllLogged, Logged
  <2>4. ASSUME NEW x \in Slots, settle'[x].duty \in {"handle", "timer"},
               settle'[x].id \in Attached' \cup departed'
        PROVE  Logged(settle[x].d)'
    <3>1. CASE x = m
      <4>1. settle'[x].d = d
        BY <1>1, <1>8, <3>1 DEF TypeOK
      <4> QED BY <1>6, <4>1 DEF Logged
    <3>2. CASE x # m
      <4>1. settle'[x] = settle[x]
        BY <1>1, <3>2 DEF TypeOK
      <4>2. Logged(settle[x].d)
        BY <1>1, <2>4, <4>1 DEF DeliveriesAreLogged, Attached
      <4> QED BY <1>1, <4>1, <4>2 DEF Logged
    <3> QED BY <3>1, <3>2
  <2> QED BY <2>2, <2>3, <2>4 DEF DeliveriesAreLogged
<1>12. NothingStranded'
  BY <1>1 DEF NothingStranded, Attached
<1> QED
  BY <1>10, <1>11, <1>12

\* A consumer the router knows, attached or departed, has an id that was given
\* out and a registration the service may open (subscribe).
LEMMA KnownConsumer ==
  ASSUME TypeOK, NEW c \in Attached \cup departed
  PROVE  c \in 1..nextId /\ c \in Ids /\ reg[c] \in Registrations
<1>1. c \in 1..nextId
  <2>1. CASE c \in Attached
    <3>1. PICK i \in 1..Len(attached) : c = attached[i]
      BY <2>1 DEF Attached
    <3>2. attached \in Seq(1..nextId)
      BY DEF TypeOK
    <3> QED BY <3>1, <3>2, ElementOfSeq
  <2>2. CASE c \in departed
    BY <2>2 DEF TypeOK
  <2> QED BY <2>1, <2>2
<1>2. c \in Ids /\ c <= nextId
  BY <1>1, RouterAssumption DEF TypeOK, Ids
<1> QED
  BY <1>1, <1>2 DEF TypeOK

\* A requeue, by a handler or by a timer, keeps what the router holds typed,
\* logged and readable, whichever way it goes (requeue).
LEMMA RequeueStep ==
  ASSUME IInv, NEW c \in Attached \cup departed, NEW d, Logged(d), NEW took,
         Requeue(c, d, took), UNCHANGED <<nextId, reg, attached, unacked>>
  PROVE  /\ created' \in SUBSET Topics /\ listed' \in [Ids -> SUBSET Topics]
         /\ log' \in [Topics -> Seq(LogEntry)]
         /\ queue' \in [Ids -> Seq(Delivery)] /\ parked' \in [Names -> Seq(Delivery)]
         /\ rotation' \in [Names -> Nat] /\ inflight' \in Int
         /\ \A x : Logged(x) => Logged(x)'
         /\ \A x \in Ids : AllLogged(queue[x])' /\ AllLogged(unacked[x])'
         /\ \A s \in Names : AllLogged(parked[s])'
         /\ NothingStranded'
<1> USE DEF IInv
<1> DEFINE r == reg[c]
           M == MembersOf(attached, listed, r.name, d.topic)
           spent == r.dead # None /\ Again(d).red >= r.dead.limit
<1>1. PICK e : e = Again(d)
  OBVIOUS
<1>2. r \in Registrations /\ r.name \in Names /\ r.sharing \in Sharings
      /\ (r.dead # None => r.dead.topic \in Topics)
  <2>1. reg[c] \in Registrations
    BY KnownConsumer
  <2> QED BY <2>1, RouterAssumption DEF Registration
<1>3. Logged(e) /\ e.topic = d.topic
  BY <1>1 DEF Logged, Again, Delivery
<1>4. CASE /\ spent
           /\ Deliver(r.dead.topic, KeyOf(d), StampOrigin(d))
           /\ UNCHANGED parked
  <2>1. log[d.topic] \in Seq(LogEntry) /\ d.seq \in 1..Len(log[d.topic])
        /\ d.topic \in Topics /\ d.seq \in Nat \ {0}
    BY DEF TypeOK, Logged, Delivery
  <2>2. log[d.topic][d.seq] \in LogEntry
    BY <2>1
  <2>3. KeyOf(d) \in Keys /\ StampOrigin(d) \in {None} \cup (Topics \X (Nat \ {0}))
    BY <2>1, <2>2 DEF KeyOf, StampOrigin, LogEntry
  <2>4. r.dead.topic \in Topics
    BY <1>2, <1>4
  <2>5. NothingStranded'
    BY <1>4 DEF NothingStranded, Attached
  <2> QED BY <1>4, <2>3, <2>4, <2>5, DeliverStep DEF TypeOK
<1>5. ASSUME NEW h \in TidyHand(attached), SetHand(h), UNCHANGED topicVars
      PROVE  /\ created' \in SUBSET Topics /\ listed' \in [Ids -> SUBSET Topics]
             /\ log' \in [Topics -> Seq(LogEntry)]
             /\ queue' \in [Ids -> Seq(Delivery)] /\ parked' \in [Names -> Seq(Delivery)]
             /\ rotation' \in [Names -> Nat] /\ inflight' \in Int
             /\ \A x : Logged(x) => Logged(x)'
             /\ \A x \in Ids : AllLogged(queue[x])' /\ AllLogged(unacked[x])'
             /\ \A s \in Names : AllLogged(parked[s])'
             /\ NothingStranded'
  <2>1. log' = log /\ created' = created /\ listed' = listed
    BY <1>5 DEF topicVars
  <2>2. /\ queue' \in [Ids -> Seq(Delivery)] /\ parked' \in [Names -> Seq(Delivery)]
        /\ rotation' \in [Names -> Nat] /\ inflight' \in Int
        /\ \A x \in Ids : AllLogged(queue[x])'
        /\ \A s \in Names : AllLogged(parked[s])'
        /\ NothingStranded'
    BY <1>5, <2>1, HandStep
  <2>3. (\A x : Logged(x) => Logged(x)') /\ (\A x \in Ids : AllLogged(unacked[x])')
    BY <2>1 DEF DeliveriesAreLogged, AllLogged, Logged
  <2> QED BY <2>1, <2>2, <2>3 DEF TypeOK
<1>6. CASE M = <<>> /\ SetHand(Park(Hand, r.name, e)) /\ UNCHANGED topicVars
  <2>1. attached \in Seq(1..nextId)
    BY DEF TypeOK
  <2>2. Park(Hand, r.name, e) \in TidyHand(attached)
    BY <1>2, <1>3, <1>6, <2>1, HandIsTidy, ParkIn
  <2> QED BY <1>5, <1>6, <2>2
<1>7. CASE M # <<>> /\ SetHand(Share(Hand, r.name, r.sharing, M, e)) /\ UNCHANGED topicVars
  <2>1. M \in Seq(1..nextId)
    BY MembersProps DEF TypeOK
  <2> HIDE DEF M
  <2>2. Share(Hand, r.name, r.sharing, M, e) \in TidyHand(attached)
    BY <1>2, <1>3, <1>7, <2>1, HandIsTidy, ShareIn
  <2> QED BY <1>5, <1>7, <2>2
<1>8. \/ spent /\ Deliver(r.dead.topic, KeyOf(d), StampOrigin(d)) /\ UNCHANGED parked
      \/ M = <<>> /\ SetHand(Park(Hand, r.name, e)) /\ UNCHANGED topicVars
      \/ M # <<>> /\ SetHand(Share(Hand, r.name, r.sharing, M, e)) /\ UNCHANGED topicVars
  BY <1>1 DEF Requeue, Spent
<1> HIDE DEF r, M, spent
<1> QED
  BY <1>4, <1>6, <1>7, <1>8

\* A settlement step that requeues its delivery.
LEMMA RequeuingStep ==
  ASSUME IInv, NEW m \in Slots, NEW took, NEW duty \in Duties \ {"handle", "timer"},
         NEW counted \in BOOLEAN, settle[m].duty \in {"handle", "timer"},
         Requeue(settle[m].id, settle[m].d, took), Becomes(m, duty, counted),
         UNCHANGED <<up, registry, unacked, swap>>
  PROVE  IInv'
<1> USE DEF IInv
<1>1. settle[m].id \in Attached \cup departed
  BY DEF Requeue
<1>2. Logged(settle[m].d)
  BY <1>1 DEF DeliveriesAreLogged
<1>3. UNCHANGED <<nextId, reg, attached, departed>>
  BY DEF registry
<1>4. /\ created' \in SUBSET Topics /\ listed' \in [Ids -> SUBSET Topics]
      /\ log' \in [Topics -> Seq(LogEntry)]
      /\ queue' \in [Ids -> Seq(Delivery)] /\ parked' \in [Names -> Seq(Delivery)]
      /\ rotation' \in [Names -> Nat] /\ inflight' \in Int
      /\ \A x : Logged(x) => Logged(x)'
      /\ \A x \in Ids : AllLogged(queue[x])' /\ AllLogged(unacked[x])'
      /\ \A s \in Names : AllLogged(parked[s])'
      /\ NothingStranded'
  BY <1>1, <1>2, <1>3, RequeueStep
<1>5. DeliveriesAreLogged'
  BY <1>3, <1>4, LoggedStep
<1>6. TypeOK'
  BY <1>3, <1>4, BecomesStep DEF TypeOK
<1> QED
  BY <1>4, <1>5, <1>6

\* A settlement of a consumer the broker's shutdown took with it.
LEMMA GoneStep ==
  ASSUME IInv, NEW m \in Slots, NEW counted \in BOOLEAN, Becomes(m, "none", counted),
         UNCHANGED <<up, registry, topicVars, queue, unacked, parked, rotation,
                     inflight, swap>>
  PROVE  IInv'
<1>1. inflight' \in Int
  BY DEF IInv, TypeOK
<1>2. UNCHANGED <<up, nextId, reg, attached, departed, created, listed, log,
                  queue, unacked, parked, rotation, swap>>
  BY DEF registry, topicVars
<1> QED
  BY <1>1, <1>2, SettleStep DEF Duties

\* A negative acknowledgement requeues, or finds its router cleared.
LEMMA NackStep ==
  ASSUME IInv, NEW m \in Slots, Nack(m)
  PROVE  IInv'
<1>1. settle[m].duty = "handle" /\ UNCHANGED <<up, registry, unacked, swap>>
  BY DEF Nack
<1>2. CASE \E took \in BOOLEAN : /\ Requeue(settle[m].id, settle[m].d, took)
                               /\ Becomes(m, IF took THEN "count" ELSE "none", TRUE)
  <2>1. PICK took \in BOOLEAN : /\ Requeue(settle[m].id, settle[m].d, took)
                               /\ Becomes(m, IF took THEN "count" ELSE "none", TRUE)
    BY <1>2
  <2>2. (IF took THEN "count" ELSE "none") \in Duties \ {"handle", "timer"}
    BY DEF Duties
  <2> QED BY <1>1, <2>1, <2>2, RequeuingStep
<1>3. CASE /\ Becomes(m, "none", TRUE)
           /\ UNCHANGED <<topicVars, queue, parked, rotation, inflight>>
  BY <1>1, <1>3, GoneStep
<1> QED
  BY <1>2, <1>3 DEF Nack

\* A delayed retry requeues when its timer fires, or finds its router cleared.
LEMMA FireStep ==
  ASSUME IInv, NEW m \in Slots, Fire(m)
  PROVE  IInv'
<1>1. /\ settle[m].duty = "timer" /\ UNCHANGED <<up, registry, unacked, swap>>
      /\ settle[m].counted \in BOOLEAN
  BY DEF Fire, IInv, TypeOK, Settlement
<1>2. CASE \E took \in BOOLEAN :
             /\ Requeue(settle[m].id, settle[m].d, took)
             /\ Becomes(m, IF took THEN "recount" ELSE "none", settle[m].counted)
  <2>1. PICK took \in BOOLEAN :
             /\ Requeue(settle[m].id, settle[m].d, took)
             /\ Becomes(m, IF took THEN "recount" ELSE "none", settle[m].counted)
    BY <1>2
  <2>2. (IF took THEN "recount" ELSE "none") \in Duties \ {"handle", "timer"}
    BY DEF Duties
  <2> QED BY <1>1, <2>1, <2>2, RequeuingStep
<1>3. CASE /\ Becomes(m, "none", settle[m].counted)
           /\ UNCHANGED <<topicVars, queue, parked, rotation, inflight>>
  BY <1>1, <1>3, GoneStep
<1> QED
  BY <1>2, <1>3 DEF Fire

\* A dropped message is kept, handed back or forgotten.
LEMMA DropStep ==
  ASSUME IInv, NEW m \in Slots, Drop(m)
  PROVE  IInv'
<1> USE DEF IInv
<1> DEFINE c == settle[m].id
           d == settle[m].d
<1>1. /\ settle[m].duty = "handle" /\ Becomes(m, "none", TRUE)
      /\ UNCHANGED <<up, registry, topicVars, swap>>
  BY DEF Drop
<1>2. UNCHANGED <<up, nextId, reg, attached, departed, created, listed, log, swap>>
  BY <1>1 DEF registry, topicVars
<1>3. \A x : Logged(x) => Logged(x)'
  BY <1>2 DEF Logged
<1>4. "none" \in Duties
  BY DEF Duties
<1>5. CASE /\ c \in Attached
           /\ unacked' = [unacked EXCEPT ![c] = Append(unacked[c], d)]
           /\ UNCHANGED <<queue, parked, rotation, inflight>>
  <2>1. Logged(d)
    BY <1>1, <1>5 DEF DeliveriesAreLogged
  <2>2. c \in Ids
    <3>1. c \in 1..nextId
      BY <1>5, ElementOfSeq DEF Attached, TypeOK
    <3> QED BY <3>1, RouterAssumption DEF TypeOK, Ids
  <2>3. PICK q : q = Append(unacked[c], d)
    OBVIOUS
  <2>4. q \in Seq(Delivery) /\ AllLogged(q)
    BY <2>1, <2>2, <2>3, AppendLogged DEF TypeOK, DeliveriesAreLogged
  <2>5. unacked' \in [Ids -> Seq(Delivery)] /\ \A x \in Ids : AllLogged(unacked'[x])
    BY <1>5, <2>3, <2>4 DEF TypeOK, DeliveriesAreLogged
  <2>6. /\ \A x \in Ids : AllLogged(queue[x])' /\ AllLogged(unacked[x])'
        /\ \A s \in Names : AllLogged(parked[s])'
    <3>1. \A x \in Ids : AllLogged(queue[x])'
      BY <1>2, <1>5 DEF DeliveriesAreLogged, AllLogged, Logged
    <3>2. \A x \in Ids : AllLogged(unacked[x])'
      BY <1>2, <2>5 DEF AllLogged, Logged
    <3>3. \A s \in Names : AllLogged(parked[s])'
      BY <1>2, <1>5 DEF DeliveriesAreLogged, AllLogged, Logged
    <3> QED BY <3>1, <3>2, <3>3
  <2>7. DeliveriesAreLogged'
    BY <1>1, <1>2, <1>3, <1>4, <2>6, LoggedStep
  <2>8. TypeOK'
    BY <1>1, <1>2, <1>4, <1>5, <2>5, BecomesStep DEF TypeOK
  <2>9. NothingStranded'
    BY <1>2, <1>5 DEF NothingStranded, Attached
  <2> QED BY <2>7, <2>8, <2>9
<1>6. CASE /\ c \in departed
           /\ SetHand(HandBack(Hand, attached, reg[c], Again(d), FALSE))
           /\ UNCHANGED unacked
  <2>1. Logged(d)
    BY <1>1, <1>6 DEF DeliveriesAreLogged
  <2>2. Logged(Again(d))
    BY <2>1 DEF Logged, Again, Delivery
  <2>3. reg[c] \in Registrations /\ attached \in Seq(1..nextId)
    BY <1>6, KnownConsumer DEF TypeOK
  <2>4. HandBack(Hand, attached, reg[c], Again(d), FALSE) \in TidyHand(attached)
    BY <2>2, <2>3, HandIsTidy, HandBackIn
  <2>5. /\ queue' \in [Ids -> Seq(Delivery)] /\ parked' \in [Names -> Seq(Delivery)]
        /\ rotation' \in [Names -> Nat] /\ inflight' \in Int
        /\ \A x \in Ids : AllLogged(queue[x])'
        /\ \A s \in Names : AllLogged(parked[s])'
        /\ NothingStranded'
    BY <1>2, <1>6, <2>4, HandStep
  <2>6. \A x \in Ids : AllLogged(unacked[x])'
    BY <1>2, <1>6 DEF DeliveriesAreLogged, AllLogged, Logged
  <2>7. DeliveriesAreLogged'
    BY <1>1, <1>2, <1>3, <1>4, <2>5, <2>6, LoggedStep
  <2>8. TypeOK'
    BY <1>1, <1>2, <1>4, <1>6, <2>5, BecomesStep DEF TypeOK
  <2> QED BY <2>5, <2>7, <2>8
<1>7. CASE UNCHANGED <<queue, unacked, parked, rotation, inflight>>
  BY <1>1, <1>7, GoneStep
<1> QED
  BY <1>5, <1>6, <1>7 DEF Drop

-----------------------------------------------------------------------------
\* The router starts with nothing attached, logged, queued or counted.
LEMMA InitStep == Init => IInv
<1> SUFFICES ASSUME Init PROVE IInv
  OBVIOUS
<1>1. /\ \A S : <<>> \in Seq(S)
      /\ Len(<<>>) = 0
  OBVIOUS
<1>2. Idle \in Settlement /\ Idle.id = 0 /\ Idle.duty = "none"
  BY DEF Idle, Settlement, Duties
<1>3. TypeOK
  BY <1>1, <1>2, RouterAssumption DEF Init, TypeOK, Ids
<1>4. DeliveriesAreLogged
  BY <1>1, <1>2 DEF Init, DeliveriesAreLogged, AllLogged
<1>5. NothingStranded
  BY <1>1 DEF Init, NothingStranded
<1> QED
  BY <1>3, <1>4, <1>5 DEF IInv

\* Every action of the router and of its settlements keeps the invariant.
LEMMA NextStep == IInv /\ [Next]_vars => IInv'
<1> SUFFICES ASSUME IInv, [Next]_vars PROVE IInv'
  OBVIOUS
<1>1. CASE UNCHANGED vars
  <2>1. TypeOK'
    BY <1>1 DEF vars, IInv, TypeOK
  <2>2. DeliveriesAreLogged'
    BY <1>1, LoggedUnmoved DEF vars, IInv
  <2>3. NothingStranded'
    BY <1>1 DEF vars, IInv, NothingStranded, Attached
  <2> QED BY <2>1, <2>2, <2>3 DEF IInv
<1>2. CASE Publish
  BY <1>2, PublishStep
<1>3. CASE Subscribe \/ Refresh
  BY <1>3, SubscribeStep, RefreshStep
<1>4. CASE Shutdown
  BY <1>4, ShutdownStep
<1>5. CASE FinishSeek
  BY <1>5, FinishSeekStep
<1>6. ASSUME NEW c \in Ids, Unsubscribe(c)
      PROVE  IInv'
  BY <1>6, UnsubscribeStep
<1>7. ASSUME NEW c \in Ids, NEW pos \in Positions, Seek(c, pos)
      PROVE  IInv'
  BY <1>7, SeekStep
<1>8. ASSUME NEW m \in Slots, NEW c \in Ids, Poll(m, c)
      PROVE  IInv'
  BY <1>8, PollStep
<1>9. ASSUME NEW m \in Slots,
             \/ Ack(m) \/ Drop(m) \/ Nack(m) \/ NackAfter(m)
             \/ Fire(m) \/ Count(m) \/ Release(m)
      PROVE  IInv'
  BY <1>9, AckStep, DropStep, NackStep, NackAfterStep, FireStep, CountStep,
     ReleaseStep
<1> QED
  BY <1>1, <1>2, <1>3, <1>4, <1>5, <1>6, <1>7, <1>8, <1>9 DEF Next, Settled, Others

\* The inductive invariant holds in every reachable state, for every set of
\* topics, names, keys, registrations, positions and clock readings.
THEOREM Invariance == Spec => []IInv
<1>1. Init => IInv
  BY InitStep
<1>2. IInv /\ [Next]_vars => IInv'
  BY NextStep
<1> QED
  BY <1>1, <1>2, PTL DEF Spec

\* Every variable of the router keeps its type.
THEOREM TypeCorrect == Spec => []TypeOK
<1>1. IInv => TypeOK
  BY DEF IInv
<1> QED
  BY <1>1, Invariance, PTL

\* No close, drop, retry, seek or shutdown ever leaves the router or a live
\* settlement with a delivery whose entry is not in the log.
THEOREM LoggedAlways == Spec => []DeliveriesAreLogged
<1>1. IInv => DeliveriesAreLogged
  BY DEF IInv
<1> QED
  BY <1>1, Invariance, PTL

\* No delivery is ever parked while a consumer of its subscription names its
\* topic, whatever closes, drops, retries and attaches came before.
THEOREM NeverStranded == Spec => []NothingStranded
<1>1. IInv => NothingStranded
  BY DEF IInv
<1> QED
  BY <1>1, Invariance, PTL

-----------------------------------------------------------------------------
(* Exclusive subscriptions *)

\* Consumers only leave, or one joins that nobody contests: an exclusive
\* consumer stays alone on the topics it reads (subscribe, unsubscribe, clear).
LEMMA ExclusiveStep == IInv /\ ExclusiveAlone /\ [Next]_vars => ExclusiveAlone'
<1> SUFFICES ASSUME IInv, ExclusiveAlone, [Next]_vars PROVE ExclusiveAlone'
  OBVIOUS
<1>1. TypeOK
  BY DEF IInv
<1>2. CASE Subscribe
  <2>1. PICK r \in Registrations :
          /\ ~Contested(r)
          /\ nextId < MaxConsumers
          /\ reg' = [reg EXCEPT ![nextId + 1] = r]
          /\ attached' = Append(attached, nextId + 1)
    BY <1>2 DEF Subscribe
  <2>2. /\ \A x \in Attached : x \in 1..nextId
        /\ nextId \in Nat /\ nextId + 1 \in Ids
    <3>1. \A x \in Attached : x \in 1..nextId
      BY <1>1, KnownConsumer
    <3> QED BY <1>1, <2>1, <3>1, RouterAssumption DEF TypeOK, Ids
  <2>3. \A x \in Attached' : x \in Attached \/ x = nextId + 1
    BY <1>1, <2>1 DEF TypeOK, Attached
  <2>4. \A x \in Attached : reg'[x] = reg[x] /\ x # nextId + 1
    BY <1>1, <2>1, <2>2 DEF TypeOK
  <2>5. reg'[nextId + 1] = r
    BY <1>1, <2>1, <2>2 DEF TypeOK
  <2>6. \A a, b : Overlap(a, b) => Overlap(b, a)
    BY DEF Overlap
  <2>7. \A x \in Attached :
          reg[x].name = r.name /\ (Overlap(reg[x], r) \/ Overlap(r, reg[x]))
            => reg[x].sharing # "Exclusive" /\ r.sharing # "Exclusive"
    BY <2>1, <2>6 DEF Contested
  <2> QED
    BY <2>3, <2>4, <2>5, <2>7 DEF ExclusiveAlone
<1>3. CASE /\ reg' = reg
           /\ \A x \in Attached' : x \in Attached
  BY <1>3 DEF ExclusiveAlone
<1>4. ASSUME NEW c \in Ids, Unsubscribe(c)
      PROVE  ExclusiveAlone'
  <2>1. reg' = reg /\ attached' = Select(attached, Ids \ {c})
    BY <1>4 DEF Unsubscribe
  <2>2. attached \in Seq(1..nextId)
    BY <1>1 DEF TypeOK
  <2>3. PICK S : S = Ids \ {c}
    OBVIOUS
  <2>4. \A i \in 1..Len(Select(attached, S)) :
          \E j \in 1..Len(attached) : Select(attached, S)[i] = attached[j]
    BY <2>2, SelectProps
  <2> QED BY <1>3, <2>1, <2>3, <2>4 DEF Attached
<1>5. CASE Shutdown
  BY <1>3, <1>5 DEF Shutdown, Attached
<1>6. CASE UNCHANGED <<reg, attached>>
  BY <1>3, <1>6 DEF Attached
<1>7. CASE Publish \/ Refresh \/ FinishSeek \/ UNCHANGED vars
  BY <1>6, <1>7 DEF Publish, Refresh, FinishSeek, vars, registry
<1>8. ASSUME NEW c \in Ids, \E pos \in Positions : Seek(c, pos)
      PROVE  ExclusiveAlone'
  BY <1>6, <1>8 DEF Seek, registry
<1>9. ASSUME NEW m \in Slots,
             \/ \E c \in Ids : Poll(m, c)
             \/ Ack(m) \/ Drop(m) \/ Nack(m) \/ NackAfter(m)
             \/ Fire(m) \/ Count(m) \/ Release(m)
      PROVE  ExclusiveAlone'
  BY <1>6, <1>9 DEF Poll, Ack, Drop, Nack, NackAfter, Fire, Count, Release, registry
<1> QED
  BY <1>2, <1>4, <1>5, <1>7, <1>8, <1>9 DEF Next, Settled, Others

\* In every reachable state an exclusive consumer is the only one of its
\* subscription on any topic it reads, for any set of registrations.
THEOREM ExclusiveAlways == Spec => []ExclusiveAlone
<1>1. Init => ExclusiveAlone
  BY DEF Init, ExclusiveAlone, Attached
<1>2. IInv /\ ExclusiveAlone /\ [Next]_vars => ExclusiveAlone'
  BY ExclusiveStep
<1> QED
  BY <1>1, <1>2, Invariance, PTL DEF Spec

-----------------------------------------------------------------------------
(* Dead letters *)

\* Appending an entry whose origin is none, or leads to a published entry of the same
\* key, keeps the origins right.
LEMMA OriginAppended ==
  ASSUME IInv, OriginIsPublished, NEW t \in Topics, NEW k \in Keys,
         NEW o \in {None} \cup (Topics \X (Nat \ {0})), Deliver(t, k, o),
         o # None => /\ o[2] \in 1..Len(log[o[1]])
                     /\ log[o[1]][o[2]].origin = None
                     /\ log[o[1]][o[2]].key = k
  PROVE  OriginIsPublished'
<1>1. PICK at \in Times :
        log' = [log EXCEPT ![t] = Append(@, [key |-> k, at |-> at, origin |-> o])]
  BY DEF Deliver
<1>2. PICK e : e = [key |-> k, at |-> at, origin |-> o]
  OBVIOUS
<1>3. /\ log \in [Topics -> Seq(LogEntry)] /\ e \in LogEntry
      /\ log' = [log EXCEPT ![t] = Append(log[t], e)]
      /\ e.key = k /\ e.origin = o
  BY <1>1, <1>2 DEF IInv, TypeOK, LogEntry
<1>4. \A x \in Topics : \A i \in 1..Len(log[x]) :
        i \in 1..Len(log'[x]) /\ log'[x][i] = log[x][i]
  BY <1>3
<1>5. \A x \in Topics : \A i \in 1..Len(log'[x]) :
        \/ i \in 1..Len(log[x]) /\ log'[x][i] = log[x][i]
        \/ log'[x][i] = e
  BY <1>3
<1>6. ASSUME NEW x \in Topics, NEW i \in 1..Len(log'[x]), log'[x][i].origin # None
      PROVE  LET p == log'[x][i].origin
             IN  /\ p[2] \in 1..Len(log'[p[1]])
                 /\ log'[p[1]][p[2]].origin = None
                 /\ log'[p[1]][p[2]].key = log'[x][i].key
  <2> DEFINE p == log'[x][i].origin
  <2>1. p \in Topics \X (Nat \ {0})
    <3>1. CASE log'[x][i] = e
      BY <1>3, <1>6, <3>1
    <3>2. CASE i \in 1..Len(log[x]) /\ log'[x][i] = log[x][i]
      <4>1. log[x] \in Seq(LogEntry)
        BY <1>3
      <4>2. log[x][i] \in LogEntry
        BY <4>1, <3>2
      <4> QED BY <1>6, <3>2, <4>2 DEF LogEntry
    <3> QED BY <1>5, <3>1, <3>2
  <2>2. /\ p[2] \in 1..Len(log[p[1]])
        /\ log[p[1]][p[2]].origin = None
        /\ log[p[1]][p[2]].key = log'[x][i].key
    <3>1. CASE log'[x][i] = e
      BY <1>3, <1>6, <3>1
    <3>2. CASE i \in 1..Len(log[x]) /\ log'[x][i] = log[x][i]
      <4>1. log[x][i].origin = p /\ p # None
        BY <1>6, <3>2
      <4> HIDE DEF p
      <4>2. /\ p[2] \in 1..Len(log[p[1]])
            /\ log[p[1]][p[2]].origin = None
            /\ log[p[1]][p[2]].key = log[x][i].key
        BY <3>2, <4>1 DEF OriginIsPublished
      <4> QED BY <3>2, <4>2
    <3> QED BY <1>5, <3>1, <3>2
  <2>3. p[1] \in Topics
    BY <2>1
  <2> HIDE DEF p
  <2>4. p[2] \in 1..Len(log'[p[1]]) /\ log'[p[1]][p[2]] = log[p[1]][p[2]]
    BY <1>4, <2>2, <2>3
  <2>5. /\ p[2] \in 1..Len(log'[p[1]])
        /\ log'[p[1]][p[2]].origin = None
        /\ log'[p[1]][p[2]].key = log'[x][i].key
    BY <2>2, <2>4
  <2> QED BY <2>5 DEF p
<1> QED
  BY <1>6 DEF OriginIsPublished

\* A dead letter takes the origin its message carries, or its message for one (requeue).
LEMMA OriginStamped ==
  ASSUME IInv, OriginIsPublished, NEW c, NEW d, Logged(d), NEW took, Requeue(c, d, took)
  PROVE  OriginIsPublished'
<1> DEFINE r == reg[c]
           o == StampOrigin(d)
<1>1. CASE r.dead # None /\ Deliver(r.dead.topic, KeyOf(d), o)
  <2>1. c \in Attached \cup departed
    BY DEF Requeue
  <2>2. r \in Registrations
    BY <2>1, KnownConsumer DEF IInv
  <2>3. r.dead.topic \in Topics
    BY <1>1, <2>2, RouterAssumption DEF Registration
  <2>4. /\ log \in [Topics -> Seq(LogEntry)]
        /\ d.topic \in Topics /\ d.seq \in Nat \ {0} /\ d.seq \in 1..Len(log[d.topic])
    BY DEF IInv, TypeOK, Logged, Delivery
  <2>5. log[d.topic][d.seq] \in LogEntry
    BY <2>4
  <2>6. KeyOf(d) \in Keys /\ o \in {None} \cup (Topics \X (Nat \ {0}))
    BY <2>4, <2>5 DEF KeyOf, StampOrigin, LogEntry
  <2>7. /\ o[2] \in 1..Len(log[o[1]])
        /\ log[o[1]][o[2]].origin = None
        /\ log[o[1]][o[2]].key = KeyOf(d)
    <3>1. CASE log[d.topic][d.seq].origin = None
      BY <2>4, <3>1 DEF KeyOf, StampOrigin
    <3>2. CASE log[d.topic][d.seq].origin # None
      BY <2>4, <3>2 DEF KeyOf, StampOrigin, OriginIsPublished
    <3> QED BY <3>1, <3>2
  <2> HIDE DEF o, r
  <2> QED BY <1>1, <2>3, <2>6, <2>7, OriginAppended
<1>2. CASE log' = log
  BY <1>2 DEF OriginIsPublished
<1> QED
  BY <1>1, <1>2 DEF Requeue, Spent, topicVars

\* Only a publish, a dead letter and the shutdown change the log.
LEMMA OriginStep == IInv /\ OriginIsPublished /\ [Next]_vars => OriginIsPublished'
<1> SUFFICES ASSUME IInv, OriginIsPublished, [Next]_vars PROVE OriginIsPublished'
  OBVIOUS
<1>1. CASE UNCHANGED log
  BY <1>1 DEF OriginIsPublished
<1>2. CASE Publish
  BY <1>2, OriginAppended DEF Publish
<1>3. CASE Shutdown
  BY <1>3 DEF Shutdown, OriginIsPublished
<1>4. ASSUME NEW m \in Slots, Nack(m) \/ Fire(m)
      PROVE  OriginIsPublished'
  <2>1. settle[m].duty \in {"handle", "timer"}
    BY <1>4 DEF Nack, Fire
  <2>2. CASE \E took \in BOOLEAN : Requeue(settle[m].id, settle[m].d, took)
    <3>1. settle[m].id \in Attached \cup departed
      BY <2>2 DEF Requeue
    <3>2. Logged(settle[m].d)
      BY <2>1, <3>1 DEF IInv, DeliveriesAreLogged
    <3> QED BY <2>2, <3>2, OriginStamped
  <2>3. CASE UNCHANGED topicVars
    BY <1>1, <2>3 DEF topicVars
  <2> QED BY <1>4, <2>2, <2>3 DEF Nack, Fire
<1>5. CASE Subscribe \/ Refresh \/ FinishSeek \/ UNCHANGED vars
  BY <1>1, <1>5 DEF Subscribe, Refresh, FinishSeek, topicVars, vars
<1>6. ASSUME NEW c \in Ids, Unsubscribe(c) \/ \E pos \in Positions : Seek(c, pos)
      PROVE  OriginIsPublished'
  BY <1>1, <1>6 DEF Unsubscribe, Seek, topicVars
<1>7. ASSUME NEW m \in Slots,
             \/ \E c \in Ids : Poll(m, c)
             \/ Ack(m) \/ Drop(m) \/ NackAfter(m) \/ Count(m) \/ Release(m)
      PROVE  OriginIsPublished'
  BY <1>1, <1>7 DEF Poll, Ack, Drop, NackAfter, Count, Release, topicVars
<1> QED
  BY <1>2, <1>3, <1>4, <1>5, <1>6, <1>7 DEF Next, Settled, Others

\* However many dead-letter topics a message goes through, its origin is the entry
\* somebody published, for any registrations and any number of topics.
THEOREM OriginAlways == Spec => []OriginIsPublished
<1>1. Init => OriginIsPublished
  BY DEF Init, OriginIsPublished
<1>2. IInv /\ OriginIsPublished /\ [Next]_vars => OriginIsPublished'
  BY OriginStep
<1> QED
  BY <1>1, <1>2, Invariance, PTL DEF Spec

-----------------------------------------------------------------------------
(* The cap on delivery attempts *)

\* The attempts of d are not spent at any consumer of subscription s.
Within(s, d) == \A r \in Registrations : r.name = s /\ r.dead # None => d.red < r.dead.limit
AllWithin(s, q) == \A n \in 1..Len(q) : Within(s, q[n])

\* The subscriptions AttemptsWithinCap speaks of.
Unclosed(s) == up /\ OnePolicy(s) /\ \A c \in departed : reg[c].name # s

\* Nothing waits for subscription s, in queues q or parked in p, with its attempts spent.
Waits(s, q, p) ==
  /\ \A c \in 1..nextId : reg[c].name = s => AllWithin(s, q[c])
  /\ AllWithin(s, p[s])

\* No settlement that may put its delivery back holds one that is spent.
Holds(s) ==
  \A m \in Slots : settle[m].duty \in {"handle", "timer"} /\ reg[settle[m].id].name = s
                     => Within(s, settle[m].d)

\* A handler holds nothing spent because nothing spent ever waits: the inductive
\* invariant follows a delivery wherever the router keeps it, and a settlement to the
\* consumer it came from.
CapInv ==
  /\ \A m \in Slots : settle[m].duty \in {"handle", "timer"} => settle[m].id \in 1..nextId
  /\ \A s \in Names : Unclosed(s) => Waits(s, queue, parked) /\ Holds(s)

\* The hands with nothing spent in them for s.
CapHand(ids, s) == {h \in TidyHand(ids) : Waits(s, h.queue, h.parked)}

\* From hand h to hand e delivery d goes to the subscription n: to one of its
\* consumers, or to what is parked for it.
Given(h, e, n, d) ==
  \/ /\ e.parked = h.parked
     /\ \E c \in 1..nextId : /\ reg[c].name = n
                             /\ e.queue = [h.queue EXCEPT ![c] = Append(h.queue[c], d)]
  \/ /\ e.queue = h.queue
     /\ e.parked = [h.parked EXCEPT ![n] = Append(h.parked[n], d)]

\* What is not spent can be appended to what is not.
LEMMA AppendWithin ==
  ASSUME NEW s, NEW q \in Seq(Delivery), AllWithin(s, q), NEW d \in Delivery, Within(s, d)
  PROVE  AllWithin(s, Append(q, d))
<1> DEFINE a == Append(q, d)
<1>1. /\ Len(a) = Len(q) + 1 /\ a[Len(q) + 1] = d /\ Len(q) \in Nat
      /\ \A n \in 1..Len(q) : a[n] = q[n]
  OBVIOUS
<1>2. \A n \in 1..Len(a) : n \in 1..Len(q) \/ n = Len(q) + 1
  BY <1>1
<1> HIDE DEF a
<1>3. \A n \in 1..Len(a) : Within(s, a[n])
  BY <1>1, <1>2 DEF AllWithin
<1> QED
  BY <1>3 DEF AllWithin, a

\* Where a hand has nothing spent for s, neither has the hand a delivery was given in,
\* unless that one was spent and given to s.
LEMMA GivenFits ==
  ASSUME TypeOK, NEW s \in Names, NEW ids, NEW h \in CapHand(ids, s), NEW e \in TidyHand(ids),
         NEW n \in Names, NEW d \in Delivery, Given(h, e, n, d), n # s \/ Within(s, d)
  PROVE  e \in CapHand(ids, s)
<1>1. /\ h.queue \in [Ids -> Seq(Delivery)] /\ h.parked \in [Names -> Seq(Delivery)]
      /\ Waits(s, h.queue, h.parked)
  BY DEF CapHand, TidyHand
<1>2. 1..nextId \subseteq Ids
  BY RouterAssumption DEF TypeOK, Ids
<1>3. ASSUME e.parked = h.parked, NEW c \in 1..nextId, reg[c].name = n,
             e.queue = [h.queue EXCEPT ![c] = Append(h.queue[c], d)]
      PROVE  Waits(s, e.queue, e.parked)
  <2>1. ASSUME NEW x \in 1..nextId, reg[x].name = s PROVE AllWithin(s, e.queue[x])
    <3>1. AllWithin(s, h.queue[x]) /\ h.queue[x] \in Seq(Delivery)
      BY <1>1, <1>2, <2>1 DEF Waits
    <3>2. CASE x = c
      <4>1. e.queue[x] = Append(h.queue[x], d) /\ Within(s, d)
        BY <1>1, <1>2, <1>3, <2>1, <3>2
      <4> QED BY <3>1, <4>1, AppendWithin
    <3>3. CASE x # c
      BY <1>1, <1>2, <1>3, <3>1, <3>3
    <3> QED BY <3>2, <3>3
  <2> QED BY <1>1, <1>3, <2>1 DEF Waits
<1>4. ASSUME e.queue = h.queue, e.parked = [h.parked EXCEPT ![n] = Append(h.parked[n], d)]
      PROVE  Waits(s, e.queue, e.parked)
  <2>1. AllWithin(s, h.parked[s]) /\ h.parked[s] \in Seq(Delivery)
    BY <1>1 DEF Waits
  <2>2. CASE n = s
    <3>1. e.parked[s] = Append(h.parked[s], d) /\ Within(s, d)
      BY <1>1, <1>4, <2>2
    <3>2. AllWithin(s, e.parked[s])
      BY <2>1, <3>1, AppendWithin
    <3> QED BY <1>1, <1>4, <3>2 DEF Waits
  <2>3. CASE n # s
    BY <1>1, <1>4, <2>1, <2>3 DEF Waits
  <2> QED BY <2>2, <2>3
<1> QED
  BY <1>3, <1>4 DEF Given, CapHand

\* Queueing on a member of subscription n gives the delivery to n (choose, enqueue).
LEMMA ShareGiven ==
  ASSUME TypeOK, NEW ids, NEW h \in TidyHand(ids), NEW n \in Names, NEW sharing \in Sharings,
         NEW M \in Seq(1..nextId), M # <<>>, \A i \in 1..Len(M) : reg[M[i]].name = n,
         NEW d, Logged(d)
  PROVE  Given(h, Share(h, n, sharing, M, d), n, d)
<1> DEFINE c == Choose(sharing, M, KeyOf(d), h.rotation[n])
           e == Share(h, n, sharing, M, d)
<1>1. KeyOf(d) \in Keys
  <2>1. log[d.topic] \in Seq(LogEntry) /\ d.seq \in 1..Len(log[d.topic])
    BY DEF TypeOK, Logged, Delivery
  <2>2. log[d.topic][d.seq] \in LogEntry
    BY <2>1
  <2> QED BY <2>2 DEF KeyOf, LogEntry
<1>2. h.rotation[n] \in Nat /\ nextId \in Nat
  BY RouterAssumption DEF TidyHand, TypeOK
<1>3. PICK i \in 1..Len(M) : c = M[i]
  <2> HIDE DEF c
  <2>1. \A k \in Keys, turn \in Nat : \E i \in 1..Len(M) : Choose(sharing, M, k, turn) = M[i]
    BY <1>2, ChooseMember
  <2> QED BY <1>1, <1>2, <2>1 DEF c
<1>4. c \in 1..nextId /\ reg[c].name = n
  BY <1>3, ElementOfSeq
<1>5. c \in Ids
  BY <1>4, RouterAssumption DEF TypeOK, Ids
<1>6. h.queue \in [Ids -> Seq(Delivery)] /\ e.parked = h.parked
      /\ e.queue = [h.queue EXCEPT ![c] = Append(h.queue[c], d)]
  BY <1>5 DEF Share, TidyHand
<1> HIDE DEF c, e
<1>7. Given(h, e, n, d)
  BY <1>4, <1>6 DEF Given
<1> QED
  BY <1>7 DEF e

\* Handing a delivery back gives it to the subscription it is of (hand_back).
LEMMA HandBackGiven ==
  ASSUME TypeOK, NEW ids \in Seq(1..nextId), NEW h \in TidyHand(ids),
         NEW r \in Registrations, NEW d, Logged(d), NEW counted \in BOOLEAN
  PROVE  Given(h, HandBack(h, ids, r, d, counted), r.name, d)
<1> DEFINE M == MembersOf(ids, listed, r.name, d.topic)
           e == HandBack(h, ids, r, d, counted)
<1>1. r.name \in Names /\ r.sharing \in Sharings
  BY RouterAssumption DEF Registration
<1>2. M \in Seq(1..nextId) /\ \A i \in 1..Len(M) : reg[M[i]].name = r.name
  BY MembersProps
<1>3. CASE M = <<>>
  <2>1. e.queue = h.queue /\ e.parked = [h.parked EXCEPT ![r.name] = Append(h.parked[r.name], d)]
    BY <1>1, <1>3 DEF HandBack, Park, TidyHand
  <2> QED BY <2>1 DEF Given
<1>4. CASE M # <<>>
  <2> DEFINE p == Share(h, r.name, r.sharing, M, d)
  <2>1. Given(h, p, r.name, d) /\ p \in TidyHand(ids)
    <3> HIDE DEF M
    <3> QED BY <1>1, <1>2, <1>4, ShareGiven, ShareIn
  <2>2. e.queue = p.queue /\ e.parked = p.parked
    <3>1. e = [p EXCEPT !.inflight = IF counted THEN p.inflight ELSE p.inflight + 1]
      BY <1>4 DEF HandBack
    <3> HIDE DEF p, e
    <3> QED BY <2>1, <3>1 DEF TidyHand
  <2> HIDE DEF p
  <2>3. Given(h, e, r.name, d)
    <3> HIDE DEF e
    <3> QED BY <2>1, <2>2 DEF Given
  <2> QED BY <2>3
<1> QED
  BY <1>3, <1>4

\* So does a replay, where there is a member to replay it to (seek).
LEMMA ReplayGiven ==
  ASSUME TypeOK, NEW h \in TidyHand(attached), NEW r \in Registrations, NEW d, Logged(d)
  PROVE  \/ Replay(h, r, d) = h /\ MembersOf(attached, listed, r.name, d.topic) = <<>>
         \/ Given(h, Replay(h, r, d), r.name, d)
<1> DEFINE M == MembersOf(attached, listed, r.name, d.topic)
           e == Replay(h, r, d)
<1>1. r.name \in Names /\ r.sharing \in Sharings
  BY RouterAssumption DEF Registration
<1>2. M \in Seq(1..nextId) /\ \A i \in 1..Len(M) : reg[M[i]].name = r.name
  BY MembersProps DEF TypeOK
<1>3. CASE M = <<>>
  BY <1>3 DEF Replay
<1>4. CASE M # <<>>
  <2> DEFINE p == Share(h, r.name, r.sharing, M, d)
  <2>1. Given(h, p, r.name, d) /\ p \in TidyHand(attached)
    <3> HIDE DEF M
    <3> QED BY <1>1, <1>2, <1>4, ShareGiven, ShareIn
  <2>2. e.queue = p.queue /\ e.parked = p.parked
    <3>1. e = [p EXCEPT !.inflight = p.inflight + 1]
      BY <1>4 DEF Replay
    <3> HIDE DEF p, e
    <3> QED BY <2>1, <3>1 DEF TidyHand
  <2> HIDE DEF p
  <2>3. Given(h, e, r.name, d)
    <3> HIDE DEF e
    <3> QED BY <2>1, <2>2 DEF Given
  <2> QED BY <2>3
<1> QED
  BY <1>3, <1>4

\* A message handed out for the first time, or replayed, has its attempts before it.
LEMMA FreshWithin ==
  ASSUME NEW s, NEW d, d.red = 0
  PROVE  Within(s, d)
<1> SUFFICES ASSUME NEW r \in Registrations, r.dead # None PROVE d.red < r.dead.limit
  BY DEF Within
<1>1. r.dead.limit \in Nat \ {0}
  BY RouterAssumption DEF Registration
<1> QED
  BY <1>1

\* Under one policy, what a consumer does not find spent is spent at none of them.
LEMMA UnspentWithin ==
  ASSUME NEW s, OnePolicy(s), NEW r \in Registrations, r.name = s, NEW e \in Delivery,
         ~Spent(r, e)
  PROVE  Within(s, e)
<1> SUFFICES ASSUME NEW x \in Registrations, x.name = s, x.dead # None
             PROVE  e.red < x.dead.limit
  BY DEF Within
<1>1. x.dead = r.dead
  BY DEF OnePolicy
<1>2. x.dead.limit \in Nat /\ e.red \in Nat
  BY RouterAssumption DEF Registration, Delivery
<1> QED
  BY <1>1, <1>2 DEF Spent

\* What a step leaves waiting when it leaves a hand with nothing spent.
LEMMA CapHandStep ==
  ASSUME NEW s, NEW ids, NEW h \in CapHand(ids, s), SetHand(h), UNCHANGED <<nextId, reg>>
  PROVE  Waits(s, queue, parked)'
BY DEF CapHand, SetHand, Waits, AllWithin, Within

\* So does a step that moves nothing.
LEMMA WaitsUnmoved ==
  ASSUME NEW s, Waits(s, queue, parked), UNCHANGED <<nextId, reg, queue, parked>>
  PROVE  Waits(s, queue, parked)'
BY DEF Waits, AllWithin, Within

\* An append to the log queues deliveries nobody tried yet (deliver).
LEMMA DeliverWaits ==
  ASSUME TypeOK, NEW s, Waits(s, queue, parked), NEW t \in Topics, NEW k, NEW o,
         Deliver(t, k, o), UNCHANGED <<nextId, reg, parked>>
  PROVE  Waits(s, queue, parked)'
<1>1. PICK d : d = [topic |-> t, seq |-> Len(log[t]) + 1, red |-> 0]
  OBVIOUS
<1>2. d \in Delivery /\ Within(s, d)
  <2>1. Len(log[t]) \in Nat
    BY DEF TypeOK
  <2> QED BY <1>1, <2>1, FreshWithin DEF Delivery
<1>3. \A c \in Ids : queue'[c] = queue[c] \/ queue'[c] = Append(queue[c], d)
  BY <1>1 DEF Deliver
<1>4. 1..nextId \subseteq Ids
  BY RouterAssumption DEF TypeOK, Ids
<1>5. ASSUME NEW c \in 1..nextId, reg[c].name = s PROVE AllWithin(s, queue'[c])
  <2>1. queue[c] \in Seq(Delivery) /\ AllWithin(s, queue[c])
    BY <1>4, <1>5 DEF TypeOK, Waits
  <2>2. AllWithin(s, Append(queue[c], d))
    BY <1>2, <2>1, AppendWithin
  <2> QED BY <1>3, <1>4, <2>1, <2>2
<1>6. AllWithin(s, parked'[s])
  BY DEF Waits
<1> QED
  BY <1>5, <1>6 DEF Waits, AllWithin, Within

\* What is true of a settlement x after a step when it was true before, or when what it
\* holds now came from a queue.
Carried(x) ==
  settle'[x].duty \in {"handle", "timer"} =>
    \/ /\ settle[x].duty \in {"handle", "timer"}
       /\ settle'[x].id = settle[x].id /\ settle'[x].d = settle[x].d
    \/ /\ settle'[x].id \in 1..nextId
       /\ \E n \in 1..Len(queue[settle'[x].id]) :
            settle'[x].d = queue[settle'[x].id][n]

\* The invariant after a step that closes nothing again, from what waits after it.
LEMMA CapKept ==
  ASSUME IInv, CapInv, up' => up, departed \subseteq departed',
         1..nextId \subseteq 1..nextId', \A c \in 1..nextId : reg'[c] = reg[c],
         \A x \in Slots : Carried(x),
         \A s \in Names : Unclosed(s) /\ Unclosed(s)' /\ Waits(s, queue, parked)
                            => Waits(s, queue, parked)'
  PROVE  CapInv'
<1>1. ASSUME NEW x \in Slots, settle'[x].duty \in {"handle", "timer"}
      PROVE  /\ settle'[x].id \in 1..nextId
             /\ \A s \in Names : /\ Waits(s, queue, parked) /\ Holds(s)
                                 /\ reg[settle'[x].id].name = s
                                 => Within(s, settle'[x].d)
  <2>1. Carried(x)
    OBVIOUS
  <2>2. CASE /\ settle[x].duty \in {"handle", "timer"}
             /\ settle'[x].id = settle[x].id /\ settle'[x].d = settle[x].d
    <3>1. settle[x].id \in 1..nextId
      BY <2>2 DEF CapInv
    <3> QED BY <2>2, <3>1 DEF Holds
  <2>3. CASE /\ settle'[x].id \in 1..nextId
             /\ \E n \in 1..Len(queue[settle'[x].id]) :
                  settle'[x].d = queue[settle'[x].id][n]
    BY <2>3 DEF Waits, AllWithin
  <2> QED BY <1>1, <2>1, <2>2, <2>3 DEF Carried
<1>2. ASSUME NEW s \in Names, Unclosed(s)'
      PROVE  Waits(s, queue, parked)' /\ Holds(s)'
  <2>1. \A c \in departed : reg'[c] = reg[c]
    BY DEF IInv, TypeOK
  <2>2. Unclosed(s)
    BY <1>2, <2>1 DEF Unclosed, OnePolicy
  <2>3. Waits(s, queue, parked) /\ Holds(s)
    BY <2>2 DEF CapInv
  <2>4. Waits(s, queue, parked)'
    BY <1>2, <2>2, <2>3
  <2>5. ASSUME NEW x \in Slots, settle'[x].duty \in {"handle", "timer"},
               reg'[settle'[x].id].name = s
        PROVE  Within(s, settle'[x].d)
    <3>1. settle'[x].id \in 1..nextId
      BY <1>1, <2>5
    <3>2. reg[settle'[x].id].name = s
      BY <2>5, <3>1
    <3> QED BY <1>1, <2>3, <2>5, <3>2
  <2>6. Holds(s)'
    BY <2>5 DEF Holds, Within
  <2> QED BY <2>4, <2>6
<1> QED
  BY <1>1, <1>2 DEF CapInv

\* A settlement that changes its duty, and one that does not, holds what it held.
LEMMA CarriedOn ==
  ASSUME TypeOK, NEW m \in Slots, NEW duty \in Duties, NEW counted \in BOOLEAN,
         Becomes(m, duty, counted),
         duty \in {"handle", "timer"} => settle[m].duty \in {"handle", "timer"}
  PROVE  \A x \in Slots : Carried(x)
BY BecomesStep DEF Carried

\* A step of a settlement that leaves the router alone, but for the count.
LEMMA SettleCap ==
  ASSUME IInv, CapInv, NEW m \in Slots, NEW duty \in Duties, NEW counted \in BOOLEAN,
         Becomes(m, duty, counted),
         duty \in {"handle", "timer"} => settle[m].duty \in {"handle", "timer"},
         UNCHANGED <<up, nextId, reg, departed, queue, parked>>
  PROVE  CapInv'
<1>1. \A x \in Slots : Carried(x)
  BY CarriedOn DEF IInv
<1>2. \A s \in Names : Waits(s, queue, parked) => Waits(s, queue, parked)'
  BY WaitsUnmoved
<1> QED
  BY <1>1, <1>2, CapKept

\* A publish.
LEMMA PublishCap ==
  ASSUME IInv, CapInv, Publish
  PROVE  CapInv'
<1>1. PICK t \in Topics, k \in Keys : Deliver(t, k, None)
  BY DEF Publish
<1>2. UNCHANGED <<up, nextId, reg, departed, parked, settle>>
  BY DEF Publish, registry
<1>3. \A x \in Slots : Carried(x)
  BY <1>2 DEF Carried
<1>4. \A s \in Names : Waits(s, queue, parked) => Waits(s, queue, parked)'
  BY <1>1, <1>2, DeliverWaits DEF IInv
<1> QED
  BY <1>2, <1>3, <1>4, CapKept

\* A listing, the release of a seek, and a step that changes nothing.
LEMMA StillCap ==
  ASSUME IInv, CapInv, UNCHANGED <<up, nextId, reg, departed, queue, parked, settle>>
  PROVE  CapInv'
<1>1. \A x \in Slots : Carried(x)
  BY DEF Carried
<1>2. \A s \in Names : Waits(s, queue, parked) => Waits(s, queue, parked)'
  BY WaitsUnmoved
<1> QED
  BY <1>1, <1>2, CapKept

\* After the shutdown no subscription is spoken of.
LEMMA ShutdownCap ==
  ASSUME IInv, CapInv, Shutdown
  PROVE  CapInv'
<1>1. ~up' /\ UNCHANGED <<nextId, settle>>
  BY DEF Shutdown
<1> QED
  BY <1>1 DEF CapInv, Unclosed

\* A newcomer takes what waited for its subscription.
LEMMA SubscribeCap ==
  ASSUME IInv, CapInv, Subscribe
  PROVE  CapInv'
<1> DEFINE c == nextId + 1
           reads(r) == IF IsPattern(r) THEN r.topics \cap created ELSE r.topics
           taken(r) == Select(parked[r.name], Over(reads(r)))
           left(r) == Select(parked[r.name], Over(Topics \ reads(r)))
<1>1. PICK r \in Registrations :
        /\ nextId' = c
        /\ reg' = [reg EXCEPT ![c] = r]
        /\ queue' = [queue EXCEPT ![c] = taken(r)]
        /\ parked' = [parked EXCEPT ![r.name] = left(r)]
  BY DEF Subscribe
<1>2. UNCHANGED <<up, departed, settle>> /\ nextId < MaxConsumers
  BY DEF Subscribe
<1>3. c \in Ids /\ c \in 1..c /\ 1..nextId \subseteq 1..c /\ c \notin 1..nextId
      /\ 1..nextId \subseteq Ids /\ \A x \in 1..c : x \in 1..nextId \/ x = c
  BY <1>2, RouterAssumption DEF IInv, TypeOK, Ids
<1>4. r.name \in Names
  BY RouterAssumption DEF Registration
<1>5. \A s : AllWithin(s, parked[r.name]) => AllWithin(s, taken(r)) /\ AllWithin(s, left(r))
  <2> DEFINE p == parked[r.name]
  <2>1. p \in Seq(Delivery)
    BY <1>4 DEF IInv, TypeOK
  <2> HIDE DEF p
  <2>2. ASSUME NEW s, AllWithin(s, p), NEW S PROVE AllWithin(s, Select(p, S))
    <3> DEFINE q == Select(p, S)
    <3>1. \A n \in 1..Len(q) : \E j \in 1..Len(p) : q[n] = p[j]
      BY <2>1, SelectProps
    <3> HIDE DEF q
    <3>2. AllWithin(s, q)
      BY <2>2, <3>1 DEF AllWithin
    <3> QED BY <3>2 DEF q
  <2> QED BY <2>2 DEF p
<1> HIDE DEF taken, left
<1>6. /\ \A x \in 1..nextId : reg'[x] = reg[x] /\ queue'[x] = queue[x]
      /\ reg'[c] = r /\ queue'[c] = taken(r)
      /\ \A s \in Names : parked'[s] = IF s = r.name THEN left(r) ELSE parked[s]
  <2> HIDE DEF c
  <2> QED BY <1>1, <1>3 DEF IInv, TypeOK
<1>7. ASSUME NEW s \in Names, Waits(s, queue, parked) PROVE Waits(s, queue, parked)'
  <2>1. AllWithin(s, parked[s])
    BY <1>7 DEF Waits
  <2>2. ASSUME NEW x \in 1..c, reg'[x].name = s PROVE AllWithin(s, queue'[x])
    <3>1. CASE x = c
      BY <1>5, <1>6, <2>1, <2>2, <3>1
    <3>2. CASE x \in 1..nextId
      BY <1>6, <1>7, <2>2, <3>2 DEF Waits
    <3> QED BY <1>3, <3>1, <3>2
  <2>3. AllWithin(s, parked'[s])
    BY <1>5, <1>6, <2>1
  <2> HIDE DEF c
  <2> QED BY <1>1, <2>2, <2>3 DEF Waits, AllWithin, Within
<1>8. \A x \in Slots : Carried(x)
  BY <1>2 DEF Carried
<1> HIDE DEF c
<1> QED
  BY <1>1, <1>2, <1>3, <1>6, <1>7, <1>8, CapKept

\* The subscription of a consumer that closes is spoken of no more; what the consumer
\* leaves goes to no other subscription.
LEMMA UnsubscribeCap ==
  ASSUME IInv, CapInv, NEW c \in Ids, Unsubscribe(c)
  PROVE  CapInv'
<1> USE DEF IInv
<1> DEFINE rest == Ids \ {c}
           others == Select(attached, rest)
           h == [Hand EXCEPT !.queue = [queue EXCEPT ![c] = <<>>]]
           fromQueue == HandBackAll(h, others, reg[c], queue[c], TRUE)
           all == HandBackAll(fromQueue, others, reg[c], AgainAll(unacked[c]), FALSE)
<1>1. /\ c \in Attached
      /\ departed' = departed \cup {c}
      /\ SetHand(all)
      /\ UNCHANGED <<up, nextId, reg, settle>>
  BY DEF Unsubscribe, Hand
<1>2. /\ others \in Seq(1..nextId)
      /\ \A i \in 1..Len(others) : \E j \in 1..Len(attached) : others[i] = attached[j]
  <2> DEFINE T == 1..nextId
  <2>1. attached \in Seq(T)
    BY DEF TypeOK
  <2>2. others \in Seq(T) /\ \A i \in 1..Len(others) : \E j \in 1..Len(attached) : others[i] = attached[j]
    <3> HIDE DEF T, rest
    <3> QED BY <2>1, SelectProps
  <2> QED BY <2>2
<1> HIDE DEF others, rest
<1>3. Consumers(others) \subseteq Attached
  BY <1>2 DEF Consumers, Attached
<1>4. c \in 1..nextId /\ reg[c] \in Registrations
  BY <1>1, KnownConsumer
<1>5. ASSUME NEW s \in Names, reg[c].name # s, Waits(s, queue, parked)
      PROVE  Waits(s, queue, parked)'
  <2>1. h \in CapHand(others, s)
    <3>1. Hand \in TidyHand(others)
      BY <1>3, HandIsTidy DEF TidyHand
    <3>2. <<>> \in Seq(Delivery) /\ AllLogged(<<>>) /\ AllWithin(s, <<>>)
      BY DEF AllLogged, AllWithin
    <3>3. /\ [queue EXCEPT ![c] = <<>>] \in [Ids -> Seq(Delivery)]
          /\ \A x \in Ids : AllLogged([queue EXCEPT ![c] = <<>>][x])
      BY <3>2 DEF TypeOK, DeliveriesAreLogged
    <3>4. h \in TidyHand(others) /\ h.parked = parked /\ h.queue = [queue EXCEPT ![c] = <<>>]
      BY <3>1, <3>3 DEF TidyHand, Hand
    <3>5. Waits(s, [queue EXCEPT ![c] = <<>>], parked)
      BY <1>5, <3>2 DEF TypeOK, Waits
    <3> QED BY <3>4, <3>5 DEF CapHand
  <2> HIDE DEF h
  <2>2. queue[c] \in Seq(LoggedSet)
    BY LoggedSeq DEF TypeOK, DeliveriesAreLogged
  <2>3. AgainAll(unacked[c]) \in Seq(LoggedSet)
    BY AgainLogged DEF TypeOK, DeliveriesAreLogged
  <2>4. ASSUME NEW x \in CapHand(others, s), NEW d \in LoggedSet, NEW b \in BOOLEAN
        PROVE  HandBack(x, others, reg[c], d, b) \in CapHand(others, s)
    <3>1. x \in TidyHand(others) /\ Logged(d) /\ d \in Delivery /\ reg[c].name \in Names
      BY <1>4, RouterAssumption DEF CapHand, LoggedSet, Registration
    <3>2. HandBack(x, others, reg[c], d, b) \in TidyHand(others)
      BY <1>2, <1>4, <3>1, HandBackIn
    <3>3. Given(x, HandBack(x, others, reg[c], d, b), reg[c].name, d)
      BY <1>2, <1>4, <3>1, HandBackGiven
    <3> QED BY <1>5, <3>1, <3>2, <3>3, GivenFits
  <2>5. fromQueue \in CapHand(others, s)
    BY <2>1, <2>2, <2>4, HandBackAllIn
  <2> HIDE DEF fromQueue
  <2>6. all \in CapHand(others, s)
    BY <2>3, <2>4, <2>5, HandBackAllIn
  <2> HIDE DEF all
  <2> QED BY <1>1, <2>6, CapHandStep
<1>6. \A s \in Names : Unclosed(s)' => reg[c].name # s
  BY <1>1 DEF Unclosed
<1>7. \A x \in Slots : Carried(x)
  BY <1>1 DEF Carried
<1> HIDE DEF all
<1> QED
  BY <1>1, <1>5, <1>6, <1>7, CapKept

\* What a seek keeps was waiting before; what it replays is as good as new.
LEMMA SeekCap ==
  ASSUME IInv, CapInv, NEW c \in Ids, NEW pos, Seek(c, pos)
  PROVE  CapInv'
<1> USE DEF IInv
<1> DEFINE r == reg[c]
           topics == {t \in Topics \ Volatile : Reads(listed, c, t)}
           siblings == {x \in Attached : reg[x].name = r.name /\ Overlap(reg[x], r)}
           kept == [x \in Ids |-> IF x \in siblings
                                 THEN Select(queue[x], Over(Topics \ topics))
                                 ELSE queue[x]]
           box == [topic : topics, seq : 1..MaxEntries, red : {0}]
           replay == {d \in box : d.seq \in Replays(d.topic, pos)}
           h == [Hand EXCEPT !.queue = kept]
<1>1. /\ c \in Attached
      /\ \E ds \in InReplayOrder(replay) : SetHand(ReplayAll(h, r, ds))
      /\ UNCHANGED <<up, nextId, reg, attached, departed, log, settle>>
  BY DEF Seek, registry, topicVars
<1>2. r \in Registrations /\ r.name \in Names
  BY <1>1, KnownConsumer, RouterAssumption DEF Registration
<1>3. kept = [x \in Ids |-> kept[x]]
      /\ \A x \in Ids : kept[x] = queue[x] \/ \E O : kept[x] = Select(queue[x], O)
  OBVIOUS
<1>4. kept \in [Ids -> Seq(Delivery)] /\ \A x \in Ids : AllLogged(kept[x])
  <2> HIDE DEF kept
  <2> QED BY <1>3, KeptLogged
<1>5. 1..nextId \subseteq Ids
  BY RouterAssumption DEF TypeOK, Ids
<1> HIDE DEF kept, replay
<1>6. PICK ds \in InReplayOrder(replay) : SetHand(ReplayAll(h, r, ds))
  BY <1>1
<1>7. ds \in Seq(LoggedSet) /\ ds \in Seq({d \in LoggedSet : d.red = 0})
  <2>1. ds \in Seq(LoggedSet)
    BY <1>6, ReplayLogged DEF replay, box
  <2>2. ds \in [1..Cardinality(replay) -> replay]
    BY <1>6 DEF InReplayOrder
  <2>3. \A d \in replay : d.red = 0
    BY DEF replay, box
  <2>4. \A n \in 1..Len(ds) : ds[n] \in LoggedSet /\ ds[n].red = 0
    <3>1. \A n \in 1..Len(ds) : ds[n] \in LoggedSet
      BY <2>1, ElementOfSeq
    <3>2. DOMAIN ds = 1..Len(ds)
      BY <2>1
    <3>3. \A n \in 1..Len(ds) : ds[n] \in replay
      BY <2>2, <3>2
    <3> QED BY <2>3, <3>1, <3>3
  <2> HIDE DEF LoggedSet
  <2>5. ds = [n \in 1..Len(ds) |-> ds[n]] /\ Len(ds) \in Nat
    BY <2>1
  <2> QED BY <2>1, <2>4, <2>5
<1>8. ASSUME NEW s \in Names, Waits(s, queue, parked) PROVE Waits(s, queue, parked)'
  <2>1. h \in CapHand(attached, s)
    <3>1. h \in TidyHand(attached) /\ h.queue = kept /\ h.parked = parked
      BY <1>4, HandIsTidy DEF TidyHand, Hand
    <3>2. ASSUME NEW x \in 1..nextId, reg[x].name = s PROVE AllWithin(s, kept[x])
      <4>1. AllWithin(s, queue[x]) /\ queue[x] \in Seq(Delivery) /\ x \in Ids
        BY <1>5, <1>8, <3>2 DEF Waits, TypeOK
      <4>2. ASSUME NEW O, kept[x] = Select(queue[x], O) PROVE AllWithin(s, kept[x])
        <5>1. \A i \in 1..Len(kept[x]) : \E j \in 1..Len(queue[x]) : kept[x][i] = queue[x][j]
          <6>1. \A i \in 1..Len(Select(queue[x], O)) :
                  \E j \in 1..Len(queue[x]) : Select(queue[x], O)[i] = queue[x][j]
            BY <4>1, SelectProps
          <6> QED BY <4>2, <6>1
        <5> QED BY <4>1, <5>1 DEF AllWithin
      <4> QED BY <1>3, <4>1, <4>2
    <3>3. Waits(s, kept, parked)
      BY <1>8, <3>2 DEF Waits
    <3> HIDE DEF h
    <3> QED BY <3>1, <3>3 DEF CapHand
  <2> HIDE DEF h
  <2>2. ASSUME NEW x \in CapHand(attached, s), NEW d \in {e \in LoggedSet : e.red = 0}
        PROVE  Replay(x, r, d) \in CapHand(attached, s)
    <3>1. x \in TidyHand(attached) /\ Logged(d) /\ d \in Delivery /\ Within(s, d)
      BY FreshWithin DEF CapHand, LoggedSet
    <3>2. Replay(x, r, d) \in TidyHand(attached)
      BY <1>2, <3>1, ReplayIn
    <3>3. Replay(x, r, d) = x \/ Given(x, Replay(x, r, d), r.name, d)
      BY <1>2, <3>1, ReplayGiven
    <3>4. ASSUME Given(x, Replay(x, r, d), r.name, d)
          PROVE  Replay(x, r, d) \in CapHand(attached, s)
      BY <1>2, <3>1, <3>2, <3>4, GivenFits
    <3> QED BY <3>3, <3>4
  <2>3. ReplayAll(h, r, ds) \in CapHand(attached, s)
    BY <1>7, <2>1, <2>2, ReplayAllIn
  <2> QED BY <1>1, <1>6, <2>3, CapHandStep
<1>9. \A x \in Slots : Carried(x)
  BY <1>1 DEF Carried
<1> HIDE DEF h, r
<1> QED
  BY <1>1, <1>8, <1>9, CapKept

\* A poll moves what waited into a settlement.
LEMMA PollCap ==
  ASSUME IInv, CapInv, NEW m \in Slots, NEW c \in Ids, Poll(m, c)
  PROVE  CapInv'
<1> DEFINE e == [duty |-> "handle", id |-> c, d |-> Head(queue[c]), counted |-> TRUE]
<1>1. /\ c \in Attached /\ queue[c] # <<>>
      /\ settle' = [settle EXCEPT ![m] = e]
      /\ queue' = [queue EXCEPT ![c] = Tail(queue[c])]
      /\ UNCHANGED <<up, nextId, reg, departed, parked>>
  BY DEF Poll, registry, topicVars
<1>2. queue \in [Ids -> Seq(Delivery)] /\ settle \in [Slots -> Settlement]
  BY DEF IInv, TypeOK
<1>3. c \in 1..nextId
  BY <1>1, KnownConsumer DEF IInv
<1>4. e.id = c /\ e.d = queue[c][1] /\ 1 \in 1..Len(queue[c])
  BY <1>1, <1>2
<1>5. \A x \in Slots : Carried(x)
  <2> HIDE DEF e
  <2>1. settle'[m].id \in 1..nextId /\ \E n \in 1..Len(queue[settle'[m].id]) :
          settle'[m].d = queue[settle'[m].id][n]
    BY <1>1, <1>2, <1>3, <1>4
  <2>2. \A x \in Slots : x # m => settle'[x] = settle[x]
    BY <1>1, <1>2
  <2> QED BY <2>1, <2>2 DEF Carried
<1>6. ASSUME NEW s \in Names, Waits(s, queue, parked) PROVE Waits(s, queue, parked)'
  <2>1. ASSUME NEW x \in 1..nextId, reg[x].name = s PROVE AllWithin(s, queue'[x])
    <3>1. x \in Ids /\ AllWithin(s, queue[x])
      BY <1>6, <2>1, RouterAssumption DEF Waits, IInv, TypeOK, Ids
    <3>2. CASE x = c
      <4> DEFINE q == Tail(queue[c])
      <4>1. Len(q) = Len(queue[c]) - 1 /\ Len(queue[c]) \in Nat \ {0}
            /\ \A n \in 1..Len(q) : q[n] = queue[c][n + 1]
        BY <1>1, <1>2
      <4> HIDE DEF q
      <4>2. \A n \in 1..Len(q) : n + 1 \in 1..Len(queue[c])
        BY <4>1
      <4>3. AllWithin(s, q)
        BY <3>1, <3>2, <4>1, <4>2 DEF AllWithin
      <4>4. queue'[x] = q
        BY <1>1, <1>2, <3>2 DEF q
      <4> QED BY <4>3, <4>4
    <3>3. CASE x # c
      BY <1>1, <1>2, <3>1, <3>3
    <3> QED BY <3>2, <3>3
  <2> HIDE DEF e
  <2> QED BY <1>1, <1>6, <2>1 DEF Waits, AllWithin, Within
<1> HIDE DEF e
<1> QED
  BY <1>1, <1>5, <1>6, CapKept

\* A requeue puts a delivery back only while its attempts are not spent.
LEMMA RequeueCap ==
  ASSUME IInv, NEW s \in Names, Unclosed(s), Waits(s, queue, parked),
         NEW c, NEW d, Logged(d), NEW took, Requeue(c, d, took),
         UNCHANGED <<nextId, reg>>
  PROVE  Waits(s, queue, parked)'
<1> USE DEF IInv
<1> DEFINE r == reg[c]
           M == MembersOf(attached, listed, r.name, d.topic)
           spent == Spent(r, Again(d))
<1>1. PICK e : e = Again(d)
  OBVIOUS
<1>2. r \in Registrations /\ r.name \in Names /\ r.sharing \in Sharings
      /\ (r.dead # None => r.dead.topic \in Topics)
  <2>1. reg[c] \in Registrations
    BY KnownConsumer DEF Requeue
  <2> QED BY <2>1, RouterAssumption DEF Registration
<1>3. Logged(e) /\ e.topic = d.topic /\ e \in Delivery
  BY <1>1 DEF Logged, Again, Delivery
<1>4. CASE spent /\ Deliver(r.dead.topic, KeyOf(d), StampOrigin(d)) /\ UNCHANGED parked
  <2>1. r.dead.topic \in Topics
    BY <1>2, <1>4 DEF Spent
  <2> HIDE DEF r
  <2> QED BY <1>4, <2>1, DeliverWaits
<1>5. Hand \in CapHand(attached, s) /\ Hand \in TidyHand(attached) /\ attached \in Seq(1..nextId)
  <2>1. Hand.queue = queue /\ Hand.parked = parked
    BY DEF Hand
  <2> QED BY <2>1, HandIsTidy DEF CapHand, TypeOK
<1>6. ~spent => r.name # s \/ Within(s, e)
  BY <1>1, <1>2, <1>3, UnspentWithin DEF Unclosed
<1>7. ASSUME NEW h \in TidyHand(attached), Given(Hand, h, r.name, e), SetHand(h), ~spent
      PROVE  Waits(s, queue, parked)'
  <2>1. h \in CapHand(attached, s)
    <3> HIDE DEF r, spent
    <3> QED BY <1>2, <1>3, <1>5, <1>6, <1>7, GivenFits
  <2> QED BY <1>7, <2>1, CapHandStep
<1>8. CASE ~spent /\ M = <<>> /\ SetHand(Park(Hand, r.name, e))
  <2>1. Park(Hand, r.name, e) \in TidyHand(attached)
    BY <1>2, <1>3, <1>5, <1>8, ParkIn
  <2>2. Given(Hand, Park(Hand, r.name, e), r.name, e)
    BY <1>2, <1>5 DEF Given, Park, TidyHand
  <2> HIDE DEF r, spent, M
  <2> QED BY <1>7, <1>8, <2>1, <2>2
<1>9. CASE ~spent /\ M # <<>> /\ SetHand(Share(Hand, r.name, r.sharing, M, e))
  <2>1. M \in Seq(1..nextId) /\ \A i \in 1..Len(M) : reg[M[i]].name = r.name
    BY <1>5, MembersProps
  <2> HIDE DEF M
  <2>2. Share(Hand, r.name, r.sharing, M, e) \in TidyHand(attached)
    BY <1>2, <1>3, <1>5, <1>9, <2>1, ShareIn
  <2>3. Given(Hand, Share(Hand, r.name, r.sharing, M, e), r.name, e)
    BY <1>2, <1>3, <1>5, <1>9, <2>1, ShareGiven
  <2> HIDE DEF r, spent
  <2> QED BY <1>7, <1>9, <2>2, <2>3
<1>10. \/ spent /\ Deliver(r.dead.topic, KeyOf(d), StampOrigin(d)) /\ UNCHANGED parked
       \/ ~spent /\ M = <<>> /\ SetHand(Park(Hand, r.name, e))
       \/ ~spent /\ M # <<>> /\ SetHand(Share(Hand, r.name, r.sharing, M, e))
  BY <1>1 DEF Requeue
<1> HIDE DEF r, M, spent
<1> QED
  BY <1>4, <1>8, <1>9, <1>10

\* A settlement step that requeues its delivery.
LEMMA RequeuingCap ==
  ASSUME IInv, CapInv, NEW m \in Slots, NEW took, NEW duty \in Duties \ {"handle", "timer"},
         NEW counted \in BOOLEAN, settle[m].duty \in {"handle", "timer"},
         Requeue(settle[m].id, settle[m].d, took), Becomes(m, duty, counted),
         UNCHANGED <<up, registry>>
  PROVE  CapInv'
<1>1. Logged(settle[m].d)
  BY DEF Requeue, IInv, DeliveriesAreLogged
<1>2. UNCHANGED <<up, nextId, reg, departed>>
  BY DEF registry
<1>3. \A x \in Slots : Carried(x)
  BY CarriedOn DEF IInv
<1>4. \A s \in Names : Unclosed(s) /\ Waits(s, queue, parked) => Waits(s, queue, parked)'
  BY <1>1, <1>2, RequeueCap
<1> QED
  BY <1>2, <1>3, <1>4, CapKept

\* A drop is handed back past the cap only after a close.
LEMMA DropCap ==
  ASSUME IInv, CapInv, NEW m \in Slots, Drop(m)
  PROVE  CapInv'
<1> USE DEF IInv
<1> DEFINE c == settle[m].id
           d == settle[m].d
<1>1. settle[m].duty = "handle" /\ Becomes(m, "none", TRUE) /\ "none" \in Duties
      /\ UNCHANGED <<up, nextId, reg, departed, attached, listed>>
  BY DEF Drop, registry, topicVars, Duties
<1>2. CASE UNCHANGED <<queue, parked>>
  BY <1>1, <1>2, SettleCap
<1>3. CASE /\ c \in departed
           /\ SetHand(HandBack(Hand, attached, reg[c], Again(d), FALSE))
  <2> DEFINE h == HandBack(Hand, attached, reg[c], Again(d), FALSE)
  <2>1. Logged(Again(d)) /\ Again(d) \in Delivery
    <3>1. Logged(d)
      BY <1>1, <1>3 DEF DeliveriesAreLogged
    <3> QED BY <3>1 DEF Logged, Again, Delivery
  <2>2. reg[c] \in Registrations /\ reg[c].name \in Names /\ attached \in Seq(1..nextId)
    <3>1. reg[c] \in Registrations
      BY <1>3, KnownConsumer
    <3> QED BY <3>1, RouterAssumption DEF TypeOK, Registration
  <2>3. Hand \in TidyHand(attached) /\ Hand.queue = queue /\ Hand.parked = parked
    BY HandIsTidy DEF Hand
  <2>4. h \in TidyHand(attached) /\ Given(Hand, h, reg[c].name, Again(d))
    BY <2>1, <2>2, <2>3, HandBackIn, HandBackGiven
  <2>5. SetHand(h)
    BY <1>3
  <2> HIDE DEF h
  <2>6. ASSUME NEW s \in Names, Unclosed(s), Waits(s, queue, parked)
        PROVE  Waits(s, queue, parked)'
    <3>1. reg[c].name # s
      BY <1>3, <2>6 DEF Unclosed
    <3>2. Hand \in CapHand(attached, s)
      BY <2>3, <2>6 DEF CapHand
    <3>3. h \in CapHand(attached, s)
      BY <2>1, <2>2, <2>4, <3>1, <3>2, GivenFits
    <3> QED BY <1>1, <2>5, <3>3, CapHandStep
  <2>7. \A x \in Slots : Carried(x)
    BY <1>1, CarriedOn
  <2> QED BY <1>1, <2>6, <2>7, CapKept
<1> QED
  BY <1>2, <1>3 DEF Drop

\* Every other step of a settlement.
LEMMA SettlementCap ==
  ASSUME IInv, CapInv, NEW m \in Slots,
         Ack(m) \/ Nack(m) \/ NackAfter(m) \/ Fire(m) \/ Count(m) \/ Release(m)
  PROVE  CapInv'
<1>1. settle[m].duty \in Duties /\ settle[m].counted \in BOOLEAN
  BY DEF IInv, TypeOK, Settlement
<1>2. CASE Ack(m) \/ NackAfter(m) \/ Count(m) \/ Release(m)
  <2>1. UNCHANGED <<up, nextId, reg, departed, queue, parked>>
    BY <1>2 DEF Ack, NackAfter, Count, Release, registry
  <2>2. \E duty \in Duties, counted \in BOOLEAN :
          /\ Becomes(m, duty, counted)
          /\ duty \in {"handle", "timer"} => settle[m].duty \in {"handle", "timer"}
    <3>1. CASE Ack(m)
      BY <3>1 DEF Ack, Duties
    <3>2. CASE NackAfter(m)
      BY <3>2 DEF NackAfter, Duties
    <3>3. CASE Count(m)
      BY <1>1, <3>3 DEF Count, Duties
    <3>4. CASE Release(m)
      BY <1>1, <3>4 DEF Release, Duties
    <3> QED BY <1>2, <3>1, <3>2, <3>3, <3>4
  <2> QED BY <2>1, <2>2, SettleCap
<1>3. CASE Nack(m) \/ Fire(m)
  <2>1. settle[m].duty \in {"handle", "timer"} /\ UNCHANGED <<up, registry>>
    BY <1>3 DEF Nack, Fire
  <2>2. \/ \E took \in BOOLEAN, duty \in Duties \ {"handle", "timer"}, counted \in BOOLEAN :
             Requeue(settle[m].id, settle[m].d, took) /\ Becomes(m, duty, counted)
        \/ \E counted \in BOOLEAN : Becomes(m, "none", counted) /\ UNCHANGED <<queue, parked>>
    <3>1. "count" \in Duties \ {"handle", "timer"} /\ "recount" \in Duties \ {"handle", "timer"}
          /\ "none" \in Duties \ {"handle", "timer"}
      BY DEF Duties
    <3>2. CASE Nack(m)
      BY <3>1, <3>2 DEF Nack
    <3>3. CASE Fire(m)
      BY <1>1, <3>1, <3>3 DEF Fire
    <3> QED BY <1>3, <3>2, <3>3
  <2>3. CASE \E counted \in BOOLEAN : Becomes(m, "none", counted) /\ UNCHANGED <<queue, parked>>
    BY <2>1, <2>3, SettleCap DEF registry, Duties
  <2>4. CASE \E took \in BOOLEAN, duty \in Duties \ {"handle", "timer"}, counted \in BOOLEAN :
               Requeue(settle[m].id, settle[m].d, took) /\ Becomes(m, duty, counted)
    BY <2>1, <2>4, RequeuingCap
  <2> QED BY <2>2, <2>3, <2>4
<1> QED
  BY <1>2, <1>3

\* At the start nothing waits and nothing is held.
LEMMA CapInit == Init => CapInv
<1> SUFFICES ASSUME Init PROVE CapInv
  OBVIOUS
<1>1. \A m \in Slots : settle[m].duty = "none"
  BY DEF Init, Idle
<1>2. nextId = 0 /\ \A s \in Names : parked[s] = <<>> /\ Len(<<>>) = 0
  BY DEF Init
<1> QED
  BY <1>1, <1>2 DEF CapInv, Waits, AllWithin, Holds

\* Every action keeps spent deliveries out of queues and settlements.
LEMMA CapStep == IInv /\ CapInv /\ [Next]_vars => CapInv'
<1> SUFFICES ASSUME IInv, CapInv, [Next]_vars PROVE CapInv'
  OBVIOUS
<1>1. CASE UNCHANGED vars \/ Refresh \/ FinishSeek
  BY <1>1, StillCap DEF vars, Refresh, FinishSeek, registry
<1>2. CASE Publish \/ Subscribe \/ Shutdown
  BY <1>2, PublishCap, SubscribeCap, ShutdownCap
<1>3. ASSUME NEW c \in Ids, Unsubscribe(c) PROVE CapInv'
  BY <1>3, UnsubscribeCap
<1>4. ASSUME NEW c \in Ids, NEW pos \in Positions, Seek(c, pos) PROVE CapInv'
  BY <1>4, SeekCap
<1>5. ASSUME NEW m \in Slots, NEW c \in Ids, Poll(m, c) PROVE CapInv'
  BY <1>5, PollCap
<1>6. ASSUME NEW m \in Slots,
             \/ Ack(m) \/ Drop(m) \/ Nack(m) \/ NackAfter(m)
             \/ Fire(m) \/ Count(m) \/ Release(m)
      PROVE  CapInv'
  BY <1>6, DropCap, SettlementCap
<1> QED
  BY <1>1, <1>2, <1>3, <1>4, <1>5, <1>6 DEF Next, Settled, Others

\* No handler holds a delivery whose attempts are spent while no consumer of its
\* subscription closed, for any limits, retries, drops, seeks and any number of consumers.
THEOREM AttemptsAlways == Spec => []AttemptsWithinCap
<1>1. Init => CapInv
  BY CapInit
<1>2. IInv /\ CapInv /\ [Next]_vars => CapInv'
  BY CapStep
<1>3. IInv /\ CapInv => AttemptsWithinCap
  <2> SUFFICES ASSUME IInv, CapInv, NEW m \in Slots, up, settle[m].duty = "handle",
                      reg[settle[m].id].dead # None, OnePolicy(reg[settle[m].id].name),
                      \A c \in departed : reg[c].name # reg[settle[m].id].name
               PROVE  settle[m].d.red < reg[settle[m].id].dead.limit
    BY DEF AttemptsWithinCap
  <2>1. settle[m].id \in 1..nextId
    BY DEF CapInv
  <2>2. reg[settle[m].id] \in Registrations /\ reg[settle[m].id].name \in Names
    BY <2>1, RouterAssumption DEF IInv, TypeOK, Ids, Registration
  <2>3. Holds(reg[settle[m].id].name)
    BY <2>2 DEF CapInv, Unclosed
  <2> QED BY <2>2, <2>3 DEF Holds, Within
<1> QED
  BY <1>1, <1>2, <1>3, Invariance, PTL DEF Spec

-----------------------------------------------------------------------------
(* What is parked without a reader *)

\* Whatever comes to be parked in this step has no reader after it.
Parking == \A s \in Names : \A d \in Waiting(s)' \ Waiting(s) : NoReader(s, d)'

\* The hands in which all that is newly parked has no reader among ids.
BareHand(ids) ==
  {h \in TidyHand(ids) : \A s \in Names : \A n \in 1..Len(h.parked[s]) :
     \/ h.parked[s][n] \in Waiting(s)
     \/ MembersOf(ids, listed, s, h.parked[s][n].topic) = <<>>}

\* The hand a step starts from parks nothing new.
LEMMA BareAtFirst ==
  ASSUME NEW ids, NEW h \in TidyHand(ids), h.parked = parked
  PROVE  h \in BareHand(ids)
BY DEF BareHand, Waiting

\* Parking a delivery without a reader leaves such a hand.
LEMMA ParkBare ==
  ASSUME NEW ids, NEW h \in BareHand(ids), NEW e \in TidyHand(ids), NEW s \in Names, NEW d,
         e.parked = [h.parked EXCEPT ![s] = Append(h.parked[s], d)],
         MembersOf(ids, listed, s, d.topic) = <<>>
  PROVE  e \in BareHand(ids)
<1>1. h.parked \in [Names -> Seq(Delivery)]
  BY DEF BareHand, TidyHand
<1>2. ASSUME NEW x \in Names, NEW n \in 1..Len(e.parked[x])
      PROVE  \/ e.parked[x][n] \in Waiting(x)
             \/ MembersOf(ids, listed, x, e.parked[x][n].topic) = <<>>
  <2>1. CASE x = s
    <3>1. e.parked[x] = Append(h.parked[x], d) /\ h.parked[x] \in Seq(Delivery)
      BY <1>1, <2>1
    <3>2. \/ n \in 1..Len(h.parked[x]) /\ e.parked[x][n] = h.parked[x][n]
          \/ e.parked[x][n] = d
      BY <1>2, <3>1
    <3> QED BY <2>1, <3>2 DEF BareHand
  <2>2. CASE x # s
    BY <1>1, <1>2, <2>2 DEF BareHand
  <2> QED BY <2>1, <2>2
<1> QED
  BY <1>2 DEF BareHand

\* So does a hand-back, which parks only then (hand_back).
LEMMA HandBackBare ==
  ASSUME TypeOK, NEW ids \in Seq(1..nextId), NEW h \in BareHand(ids),
         NEW r \in Registrations, NEW d, Logged(d), NEW counted \in BOOLEAN
  PROVE  HandBack(h, ids, r, d, counted) \in BareHand(ids)
<1> DEFINE M == MembersOf(ids, listed, r.name, d.topic)
           e == HandBack(h, ids, r, d, counted)
<1>1. r.name \in Names /\ r.sharing \in Sharings /\ h \in TidyHand(ids)
  BY RouterAssumption DEF Registration, BareHand
<1>2. e \in TidyHand(ids)
  BY <1>1, HandBackIn
<1>3. CASE M = <<>>
  <2>1. e.parked = [h.parked EXCEPT ![r.name] = Append(h.parked[r.name], d)]
    BY <1>1, <1>3 DEF HandBack, Park, TidyHand
  <2>2. e \in BareHand(ids)
    <3> HIDE DEF e
    <3> QED BY <1>1, <1>2, <1>3, <2>1, ParkBare
  <2> QED BY <2>2
<1>4. CASE M # <<>>
  <2>1. e.parked = h.parked
    BY <1>1, <1>4 DEF HandBack, Share, TidyHand
  <2>2. e \in BareHand(ids)
    <3> HIDE DEF e, M
    <3> QED BY <1>2, <2>1 DEF BareHand
  <2> QED BY <2>2
<1> QED
  BY <1>3, <1>4

\* What a step leaves parked when it leaves such a hand.
LEMMA BareStep ==
  ASSUME NEW h \in BareHand(attached'), SetHand(h), UNCHANGED <<nextId, reg, listed>>
  PROVE  Parking
<1> SUFFICES ASSUME NEW s \in Names, NEW d \in Waiting(s)' \ Waiting(s)
             PROVE  NoReader(s, d)'
  BY DEF Parking
<1>1. parked' = h.parked
  BY DEF SetHand
<1>2. PICK n \in 1..Len(h.parked[s]) : d = h.parked[s][n]
  BY <1>1 DEF Waiting
<1>3. MembersOf(attached', listed, s, d.topic) = <<>>
  BY <1>2 DEF BareHand
<1> QED
  BY <1>3 DEF NoReader, MembersOf, Reads

\* A newcomer only takes from what is parked.
LEMMA SubscribeParking ==
  ASSUME IInv, Subscribe
  PROVE  Parking
<1>0. PICK r \in Registrations :
         \E S : parked' = [parked EXCEPT ![r.name] = Select(parked[r.name], S)]
  BY DEF Subscribe
<1>1. PICK S : parked' = [parked EXCEPT ![r.name] = Select(parked[r.name], S)]
  BY <1>0
<1>2. parked \in [Names -> Seq(Delivery)] /\ r.name \in Names
  BY RouterAssumption DEF IInv, TypeOK, Registration
<1>3. \A i \in 1..Len(Select(parked[r.name], S)) :
        \E j \in 1..Len(parked[r.name]) : Select(parked[r.name], S)[i] = parked[r.name][j]
  BY <1>2, SelectProps
<1>4. \A s \in Names : Waiting(s)' \subseteq Waiting(s)
  BY <1>1, <1>2, <1>3 DEF Waiting
<1> QED
  BY <1>4 DEF Parking

\* A close hands back over the consumers that stay, one delivery after another.
LEMMA UnsubscribeParking ==
  ASSUME IInv, NEW c \in Ids, Unsubscribe(c)
  PROVE  Parking
<1> USE DEF IInv
<1> DEFINE rest == Ids \ {c}
           others == Select(attached, rest)
           h == [Hand EXCEPT !.queue = [queue EXCEPT ![c] = <<>>]]
           fromQueue == HandBackAll(h, others, reg[c], queue[c], TRUE)
           all == HandBackAll(fromQueue, others, reg[c], AgainAll(unacked[c]), FALSE)
<1>1. /\ c \in Attached
      /\ attached' = others
      /\ SetHand(all)
      /\ UNCHANGED <<nextId, reg, listed>>
  BY DEF Unsubscribe, Hand, topicVars
<1>2. /\ others \in Seq(1..nextId)
      /\ \A i \in 1..Len(others) : \E j \in 1..Len(attached) : others[i] = attached[j]
  <2> DEFINE T == 1..nextId
  <2>1. attached \in Seq(T)
    BY DEF TypeOK
  <2>2. others \in Seq(T) /\ \A i \in 1..Len(others) : \E j \in 1..Len(attached) : others[i] = attached[j]
    <3> HIDE DEF T, rest
    <3> QED BY <2>1, SelectProps
  <2> QED BY <2>2
<1> HIDE DEF others, rest
<1>3. Consumers(others) \subseteq Attached
  BY <1>2 DEF Consumers, Attached
<1>4. reg[c] \in Registrations
  BY <1>1, KnownConsumer
<1>5. h \in BareHand(others)
  <2>1. Hand \in TidyHand(others)
    BY <1>3, HandIsTidy DEF TidyHand
  <2>2. <<>> \in Seq(Delivery) /\ AllLogged(<<>>)
    BY DEF AllLogged
  <2>3. /\ [queue EXCEPT ![c] = <<>>] \in [Ids -> Seq(Delivery)]
        /\ \A x \in Ids : AllLogged([queue EXCEPT ![c] = <<>>][x])
    BY <2>2 DEF TypeOK, DeliveriesAreLogged
  <2>4. h \in TidyHand(others) /\ h.parked = parked
    BY <2>1, <2>3 DEF TidyHand, Hand
  <2> QED BY <2>4, BareAtFirst
<1> HIDE DEF h
<1>6. queue[c] \in Seq(LoggedSet) /\ AgainAll(unacked[c]) \in Seq(LoggedSet)
  BY LoggedSeq, AgainLogged DEF TypeOK, DeliveriesAreLogged
<1>7. ASSUME NEW x \in BareHand(others), NEW d \in LoggedSet, NEW b \in BOOLEAN
      PROVE  HandBack(x, others, reg[c], d, b) \in BareHand(others)
  <2>1. Logged(d)
    BY DEF LoggedSet
  <2> QED BY <1>2, <1>4, <2>1, HandBackBare
<1>8. fromQueue \in BareHand(others)
  BY <1>5, <1>6, <1>7, HandBackAllIn
<1> HIDE DEF fromQueue
<1>9. all \in BareHand(others)
  BY <1>6, <1>7, <1>8, HandBackAllIn
<1> HIDE DEF all
<1> QED
  BY <1>1, <1>9, BareStep

\* A seek parks nothing: it replays where there is a reader (seek).
LEMMA SeekParking ==
  ASSUME IInv, NEW c \in Ids, NEW pos, Seek(c, pos)
  PROVE  Parking
<1> USE DEF IInv
<1> DEFINE r == reg[c]
           topics == {t \in Topics \ Volatile : Reads(listed, c, t)}
           siblings == {x \in Attached : reg[x].name = r.name /\ Overlap(reg[x], r)}
           kept == [x \in Ids |-> IF x \in siblings
                                 THEN Select(queue[x], Over(Topics \ topics))
                                 ELSE queue[x]]
           box == [topic : topics, seq : 1..MaxEntries, red : {0}]
           replay == {d \in box : d.seq \in Replays(d.topic, pos)}
           h == [Hand EXCEPT !.queue = kept]
<1>1. /\ c \in Attached
      /\ \E ds \in InReplayOrder(replay) : SetHand(ReplayAll(h, r, ds))
      /\ UNCHANGED <<nextId, reg, attached, listed>>
  BY DEF Seek, registry, topicVars
<1>2. r \in Registrations
  BY <1>1, KnownConsumer
<1>3. kept = [x \in Ids |-> kept[x]]
      /\ \A x \in Ids : kept[x] = queue[x] \/ \E O : kept[x] = Select(queue[x], O)
  OBVIOUS
<1>4. kept \in [Ids -> Seq(Delivery)] /\ \A x \in Ids : AllLogged(kept[x])
  <2> HIDE DEF kept
  <2> QED BY <1>3, KeptLogged
<1>5. h \in BareHand(attached)
  <2>1. h \in TidyHand(attached) /\ h.parked = parked
    <3> HIDE DEF kept
    <3> QED BY <1>4, HandIsTidy DEF TidyHand, Hand
  <2> HIDE DEF h
  <2> QED BY <2>1, BareAtFirst
<1> HIDE DEF kept, replay, h
<1>6. PICK ds \in InReplayOrder(replay) : SetHand(ReplayAll(h, r, ds))
  BY <1>1
<1>7. ds \in Seq(LoggedSet)
  BY <1>6, ReplayLogged DEF replay, box
<1>8. ASSUME NEW x \in BareHand(attached), NEW d \in LoggedSet
      PROVE  Replay(x, r, d) \in BareHand(attached)
  <2>1. x \in TidyHand(attached) /\ Logged(d)
    BY DEF BareHand, LoggedSet
  <2>2. Replay(x, r, d) \in TidyHand(attached)
    BY <1>2, <2>1, ReplayIn
  <2>3. Replay(x, r, d).parked = x.parked
    BY <2>1 DEF Replay, Share, TidyHand
  <2> QED BY <2>2, <2>3 DEF BareHand
<1>9. ReplayAll(h, r, ds) \in BareHand(attached)
  BY <1>5, <1>7, <1>8, ReplayAllIn
<1> QED
  BY <1>1, <1>6, <1>9, BareStep

\* A requeue parks its delivery when it finds no reader (requeue).
LEMMA RequeueParking ==
  ASSUME IInv, NEW c, NEW d, Logged(d), NEW took, Requeue(c, d, took), UNCHANGED registry
  PROVE  Parking
<1> USE DEF IInv
<1> DEFINE r == reg[c]
           M == MembersOf(attached, listed, r.name, d.topic)
<1>1. PICK e : e = Again(d)
  OBVIOUS
<1>2. r \in Registrations /\ r.name \in Names
  BY KnownConsumer, RouterAssumption DEF Requeue, Registration
<1>3. Logged(e) /\ e.topic = d.topic
  BY <1>1 DEF Logged, Again, Delivery
<1>4. Hand \in TidyHand(attached) /\ Hand.parked = parked /\ attached \in Seq(1..nextId)
  BY HandIsTidy DEF Hand, TypeOK
<1>5. \/ UNCHANGED parked
      \/ M = <<>> /\ SetHand(Park(Hand, r.name, e)) /\ UNCHANGED topicVars
  <2>1. \/ UNCHANGED parked
        \/ M = <<>> /\ SetHand(Park(Hand, r.name, e)) /\ UNCHANGED topicVars
        \/ SetHand(Share(Hand, r.name, r.sharing, M, e))
    BY <1>1 DEF Requeue
  <2>2. ASSUME SetHand(Share(Hand, r.name, r.sharing, M, e)) PROVE UNCHANGED parked
    BY <2>2 DEF SetHand, Share, Hand
  <2> HIDE DEF r, M
  <2> QED BY <2>1, <2>2
<1> HIDE DEF r
<1>6. CASE M = <<>> /\ SetHand(Park(Hand, r.name, e)) /\ UNCHANGED topicVars
  <2> DEFINE p == Park(Hand, r.name, e)
  <2>1. p \in TidyHand(attached)
    BY <1>2, <1>3, <1>4, <1>6, ParkIn
  <2>2. p.parked = [Hand.parked EXCEPT ![r.name] = Append(Hand.parked[r.name], e)]
    BY <1>2, <1>4 DEF Park, TidyHand
  <2>3. Hand \in BareHand(attached)
    BY <1>4, BareAtFirst
  <2> HIDE DEF p
  <2>4. p \in BareHand(attached)
    BY <1>2, <1>3, <1>6, <2>1, <2>2, <2>3, ParkBare
  <2>5. SetHand(p) /\ UNCHANGED <<nextId, reg, attached, listed>>
    BY <1>6 DEF p, registry, topicVars
  <2> QED BY <2>4, <2>5, BareStep
<1>7. CASE UNCHANGED parked
  BY <1>7 DEF Parking, Waiting
<1> QED
  BY <1>5, <1>6, <1>7

\* A drop on a consumer that closed is handed back (drop).
LEMMA DropParking ==
  ASSUME IInv, NEW m \in Slots, Drop(m)
  PROVE  Parking
<1> USE DEF IInv
<1> DEFINE c == settle[m].id
           d == settle[m].d
           h == HandBack(Hand, attached, reg[c], Again(d), FALSE)
<1>1. settle[m].duty = "handle" /\ UNCHANGED <<nextId, reg, attached, listed>>
  BY DEF Drop, registry, topicVars
<1>2. CASE UNCHANGED parked
  BY <1>2 DEF Parking, Waiting
<1>3. CASE c \in departed /\ SetHand(h)
  <2>1. Logged(Again(d))
    <3>1. Logged(d)
      BY <1>1, <1>3 DEF DeliveriesAreLogged
    <3> QED BY <3>1 DEF Logged, Again, Delivery
  <2>2. reg[c] \in Registrations /\ attached \in Seq(1..nextId)
    BY <1>3, KnownConsumer DEF TypeOK
  <2>3. Hand \in BareHand(attached)
    BY HandIsTidy, BareAtFirst DEF Hand
  <2>4. h \in BareHand(attached)
    BY <2>1, <2>2, <2>3, HandBackBare
  <2> HIDE DEF h
  <2> QED BY <1>1, <1>3, <2>4, BareStep
<1> QED
  BY <1>2, <1>3 DEF Drop

\* Every action parks only what has no reader.
LEMMA ParkingStep == IInv /\ [Next]_vars => Parking
<1> SUFFICES ASSUME IInv, [Next]_vars PROVE Parking
  OBVIOUS
<1>1. CASE UNCHANGED parked
  BY <1>1 DEF Parking, Waiting
<1>2. CASE Shutdown
  BY <1>2 DEF Shutdown, Parking, Waiting
<1>3. ASSUME NEW m \in Slots, Nack(m) \/ Fire(m) PROVE Parking
  <2>1. \/ \E took : Requeue(settle[m].id, settle[m].d, took)
        \/ UNCHANGED parked
    BY <1>3 DEF Nack, Fire
  <2>2. UNCHANGED registry /\ settle[m].duty \in {"handle", "timer"}
    BY <1>3 DEF Nack, Fire
  <2>3. ASSUME NEW took, Requeue(settle[m].id, settle[m].d, took) PROVE Parking
    <3>1. Logged(settle[m].d)
      BY <2>2, <2>3 DEF Requeue, IInv, DeliveriesAreLogged
    <3> QED BY <2>2, <2>3, <3>1, RequeueParking
  <2> QED BY <1>1, <2>1, <2>3
<1>4. CASE Publish \/ Refresh \/ FinishSeek
  BY <1>1, <1>4 DEF Publish, Refresh, FinishSeek
<1>5. ASSUME NEW m \in Slots, NEW c \in Ids, Poll(m, c) PROVE Parking
  BY <1>1, <1>5 DEF Poll
<1>6. ASSUME NEW m \in Slots, Ack(m) \/ NackAfter(m) \/ Count(m) \/ Release(m) PROVE Parking
  BY <1>1, <1>6 DEF Ack, NackAfter, Count, Release
<1>7. CASE UNCHANGED vars
  BY <1>1, <1>7 DEF vars
<1> QED
  BY <1>2, <1>3, <1>4, <1>5, <1>6, <1>7, SubscribeParking, UnsubscribeParking, SeekParking,
     DropParking DEF Next, Settled, Others

\* Nothing is parked past a consumer that reads it, a pattern consumer that has listed the
\* topic included, for any number of consumers and any order of closes, drops and retries.
THEOREM ParkedAlways == Spec => ParkedWhenUnread
<1>1. IInv /\ [Next]_vars => [Parking]_vars
  BY ParkingStep
<1> QED
  BY <1>1, Invariance, PTL DEF Spec, ParkedWhenUnread, Parking

-----------------------------------------------------------------------------
(* The order of a topic on a subscription with one active consumer *)

At(d) == log[d.topic][d.seq].at

\* Whether a may be handed out before b: two deliveries of a topic nobody was handed yet
\* follow the log, or the wall clock.
Before(a, b) ==
  a.topic = b.topic /\ a.red = 0 /\ b.red = 0 => a.seq < b.seq \/ At(a) < At(b)

Ordered(q) == \A i, j \in 1..Len(q) : i < j => Before(q[i], q[j])

\* Among the attached consumers A of subscription s, c is the first to register topic t.
Owns(A, s, t, c) ==
  /\ c \in A
  /\ t \in reg[c].topics
  /\ \A x \in A : x < c /\ reg[x].name = s => t \notin reg[x].topics

Nobody(A, s, t) == \A x \in A : reg[x].name = s => t \notin reg[x].topics

\* What keeps the order in queues q and in what is parked, p: of each topic only the
\* consumer that owns it has deliveries that are new, and none are parked while it has.
Orderly(A, s, q, p) ==
  /\ \A c \in 1..nextId : reg[c].name = s =>
       /\ Ordered(q[c])
       /\ \A i \in 1..Len(q[c]) : q[c][i].red = 0 => Owns(A, s, q[c][i].topic, c)
  /\ Ordered(p[s])
  /\ \A i \in 1..Len(p[s]) : p[s][i].red = 0 => Nobody(A, s, p[s][i].topic)

\* Consumers attach in the order of their ids.
Rising(ids) == \A i, j \in 1..Len(ids) : i < j => ids[i] < ids[j]

\* A topic with a log exists.
Existing == \A t \in Topics : log[t] # <<>> => t \in created

OrderInv ==
  /\ Rising(attached)
  /\ Existing
  /\ \A s \in Names : SingleActive(s) => Orderly(Attached, s, queue, parked)

-----------------------------------------------------------------------------

\* A consumer of such a subscription that names a topic beside a pattern consumer of it
\* does not name a topic of the pattern: only one of them can be attached (subscribe).
LEMMA Apart ==
  ASSUME TypeOK, ExclusiveAlone, NEW s \in Names, SingleActive(s),
         NEW c \in Attached, NEW x \in Attached, c # x,
         reg[c].name = s, reg[x].name = s, IsPattern(reg[c])
  PROVE  reg[c].topics \cap reg[x].topics = {}
<1>1. reg[c] \in Registrations /\ reg[x] \in Registrations
  BY KnownConsumer
<1>2. reg[c].sharing = "Exclusive"
  BY <1>1 DEF SingleActive
<1>3. ~Overlap(reg[c], reg[x])
  BY <1>2 DEF ExclusiveAlone
<1>4. CASE IsPattern(reg[x])
  <2>1. reg[c].pattern # reg[x].pattern
    BY <1>3, <1>4 DEF Overlap
  <2> QED BY <1>1, <1>4, <2>1 DEF SingleActive
<1>5. CASE ~IsPattern(reg[x])
  BY <1>3, <1>5 DEF Overlap
<1> QED
  BY <1>4, <1>5

\* Of rising ids, the least that is selected comes first.
LEMMA SelectRising ==
  ASSUME NEW N \in Nat, NEW ids \in Seq(1..N), Rising(ids), NEW S
  PROVE  /\ Select(ids, S) \in Seq(1..N)
         /\ Rising(Select(ids, S))
         /\ \A x : x \in Consumers(Select(ids, S)) <=> x \in Consumers(ids) /\ x \in S
         /\ Select(ids, S) # <<>> =>
              /\ Select(ids, S)[1] \in S
              /\ Select(ids, S)[1] \in Consumers(ids)
              /\ \A x \in Consumers(ids) : x < Select(ids, S)[1] => x \notin S
<1> DEFINE T == 1..N
           q == Select(ids, S)
<1>1. /\ q \in Seq(T)
      /\ \A i \in 1..Len(q) : q[i] \in S /\ \E j \in 1..Len(ids) : q[i] = ids[j]
      /\ \A j \in 1..Len(ids) : ids[j] \in S => \E i \in 1..Len(q) : q[i] = ids[j]
  <2>1. ids \in Seq(T)
    OBVIOUS
  <2> HIDE DEF T
  <2> QED BY <2>1, SelectProps
<1>2. PICK w : /\ w \in [1..Len(q) -> 1..Len(ids)]
               /\ \A i \in 1..Len(q) : q[i] = ids[w[i]]
               /\ \A i, j \in 1..Len(q) : i < j => w[i] < w[j]
  <2>1. ids \in Seq(T)
    OBVIOUS
  <2> HIDE DEF T
  <2> QED BY <2>1, SelectOrder
<1> HIDE DEF q
<1>3. Rising(q)
  BY <1>2 DEF Rising
<1>4. ASSUME NEW x PROVE x \in Consumers(q) <=> x \in Consumers(ids) /\ x \in S
  <2>1. ASSUME x \in Consumers(q) PROVE x \in Consumers(ids) /\ x \in S
    BY <1>1, <2>1 DEF Consumers
  <2>2. ASSUME x \in Consumers(ids), x \in S PROVE x \in Consumers(q)
    BY <1>1, <2>2 DEF Consumers
  <2> QED BY <2>1, <2>2
<1>5. ASSUME q # <<>>
      PROVE  /\ q[1] \in S
             /\ q[1] \in Consumers(ids)
             /\ \A x \in Consumers(ids) : x < q[1] => x \notin S
  <2>1. 1 \in 1..Len(q) /\ \A i \in 1..Len(q) : q[i] \in T
    BY <1>1, <1>5
  <2>2. ASSUME NEW x \in Consumers(ids), x < q[1], x \in S PROVE FALSE
    <3>1. PICK i \in 1..Len(q) : q[i] = x
      BY <1>4, <2>2 DEF Consumers
    <3>2. q[1] \in Nat /\ q[i] \in Nat
      BY <2>1
    <3>3. i = 1 \/ q[1] < q[i]
      BY <1>3, <2>1 DEF Rising
    <3> QED BY <2>2, <3>1, <3>2, <3>3
  <2> QED BY <1>1, <2>1, <2>2 DEF Consumers
<1> QED
  BY <1>1, <1>3, <1>4, <1>5 DEF q

\* The member that takes a topic owns it: a consumer attached before it that registered
\* the topic would read it too, or be a pattern consumer (members_of, choose).
LEMMA MemberOwns ==
  ASSUME TypeOK, ExclusiveAlone, NEW ids \in Seq(1..nextId), Rising(ids),
         Consumers(ids) \subseteq Attached, NEW ls, NEW s \in Names, SingleActive(s), NEW t,
         MembersOf(ids, ls, s, t) # <<>>
  PROVE  /\ Owns(Consumers(ids), s, t, MembersOf(ids, ls, s, t)[1])
         /\ MembersOf(ids, ls, s, t)[1] \in 1..nextId
         /\ reg[MembersOf(ids, ls, s, t)[1]].name = s
<1> DEFINE S == {c \in 1..nextId : reg[c].name = s /\ Reads(ls, c, t)}
           M == MembersOf(ids, ls, s, t)
           c == M[1]
<1>1. M = Select(ids, S)
  BY DEF MembersOf
<1>2. c \in S /\ c \in Consumers(ids) /\ \A x \in Consumers(ids) : x < c => x \notin S
  <2>1. nextId \in Nat
    BY RouterAssumption DEF TypeOK
  <2> HIDE DEF S
  <2> QED BY <1>1, <2>1, SelectRising
<1>3. c \in 1..nextId /\ reg[c].name = s /\ t \in reg[c].topics
  BY <1>2 DEF Reads
<1> HIDE DEF c
<1>4. ASSUME NEW x \in Consumers(ids), x < c, reg[x].name = s, t \in reg[x].topics PROVE FALSE
  <2>1. x \in 1..nextId /\ x \notin S
    BY <1>2, <1>4, KnownConsumer
  <2>2. IsPattern(reg[x])
    BY <1>4, <2>1 DEF Reads
  <2>3. x \in Attached /\ c \in Attached /\ x # c
    BY <1>2, <1>3, <1>4, <2>1
  <2>4. reg[x].topics \cap reg[c].topics = {}
    BY <1>3, <1>4, <2>2, <2>3, Apart
  <2> QED BY <1>3, <1>4, <2>4
<1>5. Owns(Consumers(ids), s, t, c)
  BY <1>2, <1>3, <1>4 DEF Owns
<1> QED
  BY <1>3, <1>5 DEF c

\* Two consumers do not own one topic.
LEMMA OneOwner ==
  ASSUME NEW A \in SUBSET Nat, NEW s, NEW t, NEW c, NEW x, Owns(A, s, t, c), Owns(A, s, t, x),
         reg[c].name = s, reg[x].name = s
  PROVE  c = x
BY DEF Owns

\* The hands in order for s while the consumers `ids' are attached.
OrdHand(ids, s) == {h \in TidyHand(ids) : Orderly(Consumers(ids), s, h.queue, h.parked)}

\* Nothing hand h has for s is to be handed out after d.
Ahead(h, s, d) ==
  /\ \A c \in 1..nextId : reg[c].name = s =>
       \A i \in 1..Len(h.queue[c]) : Before(h.queue[c][i], d)
  /\ \A i \in 1..Len(h.parked[s]) : Before(h.parked[s][i], d)

\* From hand h to hand e delivery d goes to the consumer of s that owns its topic, is
\* parked because there is none, or is left out.
Fed(h, e, A, s, d) ==
  \/ e.queue = h.queue /\ e.parked = h.parked
  \/ /\ e.parked = h.parked
     /\ \E c \in 1..nextId : /\ reg[c].name = s
                             /\ d.red = 0 => Owns(A, s, d.topic, c)
                             /\ e.queue = [h.queue EXCEPT ![c] = Append(h.queue[c], d)]
  \/ /\ e.queue = h.queue
     /\ d.red = 0 => Nobody(A, s, d.topic)
     /\ e.parked = [h.parked EXCEPT ![s] = Append(h.parked[s], d)]

\* What comes after everything in a list in order can be appended to it.
LEMMA AppendOrdered ==
  ASSUME NEW q \in Seq(Delivery), Ordered(q), NEW d \in Delivery,
         \A i \in 1..Len(q) : Before(q[i], d)
  PROVE  Ordered(Append(q, d))
<1> DEFINE a == Append(q, d)
<1>1. /\ Len(a) = Len(q) + 1 /\ a[Len(q) + 1] = d /\ Len(q) \in Nat
      /\ \A n \in 1..Len(q) : a[n] = q[n]
  OBVIOUS
<1> HIDE DEF a
<1>2. ASSUME NEW i \in 1..Len(a), NEW j \in 1..Len(a), i < j PROVE Before(a[i], a[j])
  <2>1. i \in 1..Len(q) /\ (j \in 1..Len(q) \/ j = Len(q) + 1)
    BY <1>1, <1>2
  <2> QED BY <1>1, <1>2, <2>1 DEF Ordered
<1> QED
  BY <1>2 DEF Ordered, a

\* What holds of a list's elements and of d holds of those of the list with d appended.
LEMMA AppendAll ==
  ASSUME NEW q \in Seq(Delivery), NEW d \in Delivery
  PROVE  \A i \in 1..Len(Append(q, d)) :
           Append(q, d)[i] = d \/ \E j \in 1..Len(q) : Append(q, d)[i] = q[j]
<1> DEFINE a == Append(q, d)
<1>1. /\ Len(a) = Len(q) + 1 /\ a[Len(q) + 1] = d /\ Len(q) \in Nat
      /\ \A n \in 1..Len(q) : a[n] = q[n]
  OBVIOUS
<1> HIDE DEF a
<1>2. ASSUME NEW i \in 1..Len(a) PROVE a[i] = d \/ \E j \in 1..Len(q) : a[i] = q[j]
  <2>1. i \in 1..Len(q) \/ i = Len(q) + 1
    BY <1>1
  <2> QED BY <1>1, <2>1
<1> QED
  BY <1>2 DEF a

\* A hand that was in order stays so when it is fed what nothing in it comes after.
LEMMA FedStep ==
  ASSUME TypeOK, NEW ids, NEW s \in Names, NEW h \in OrdHand(ids, s), NEW e \in TidyHand(ids),
         NEW d \in Delivery, Fed(h, e, Consumers(ids), s, d), Ahead(h, s, d)
  PROVE  e \in OrdHand(ids, s)
<1> DEFINE A == Consumers(ids)
<1>1. /\ h.queue \in [Ids -> Seq(Delivery)] /\ h.parked \in [Names -> Seq(Delivery)]
      /\ Orderly(A, s, h.queue, h.parked)
  BY DEF OrdHand, TidyHand
<1>2. 1..nextId \subseteq Ids
  BY RouterAssumption DEF TypeOK, Ids
<1> HIDE DEF A
<1>3. ASSUME e.parked = h.parked, NEW c \in 1..nextId, reg[c].name = s,
             d.red = 0 => Owns(A, s, d.topic, c),
             e.queue = [h.queue EXCEPT ![c] = Append(h.queue[c], d)]
      PROVE  Orderly(A, s, e.queue, e.parked)
  <2>1. ASSUME NEW x \in 1..nextId, reg[x].name = s
        PROVE  /\ Ordered(e.queue[x])
               /\ \A i \in 1..Len(e.queue[x]) :
                    e.queue[x][i].red = 0 => Owns(A, s, e.queue[x][i].topic, x)
    <3>1. /\ Ordered(h.queue[x]) /\ h.queue[x] \in Seq(Delivery)
          /\ \A i \in 1..Len(h.queue[x]) :
               h.queue[x][i].red = 0 => Owns(A, s, h.queue[x][i].topic, x)
      BY <1>1, <1>2, <2>1 DEF Orderly
    <3>2. CASE x = c
      <4>1. e.queue[x] = Append(h.queue[x], d)
        BY <1>1, <1>2, <1>3, <3>2
      <4>2. Ordered(e.queue[x])
        BY <2>1, <3>1, <4>1, AppendOrdered DEF Ahead
      <4>3. \A i \in 1..Len(e.queue[x]) :
              e.queue[x][i] = d \/ \E j \in 1..Len(h.queue[x]) : e.queue[x][i] = h.queue[x][j]
        BY <3>1, <4>1, AppendAll
      <4> QED BY <1>3, <3>1, <3>2, <4>2, <4>3
    <3>3. CASE x # c
      <4>1. e.queue[x] = h.queue[x]
        BY <1>1, <1>2, <1>3, <3>3
      <4> QED BY <3>1, <4>1
    <3> QED BY <3>2, <3>3
  <2> QED BY <1>1, <1>3, <2>1 DEF Orderly
<1>4. ASSUME e.queue = h.queue, d.red = 0 => Nobody(A, s, d.topic),
             e.parked = [h.parked EXCEPT ![s] = Append(h.parked[s], d)]
      PROVE  Orderly(A, s, e.queue, e.parked)
  <2>1. /\ Ordered(h.parked[s]) /\ h.parked[s] \in Seq(Delivery)
        /\ \A i \in 1..Len(h.parked[s]) :
             h.parked[s][i].red = 0 => Nobody(A, s, h.parked[s][i].topic)
    BY <1>1 DEF Orderly
  <2>2. e.parked[s] = Append(h.parked[s], d)
    BY <1>1, <1>4
  <2>3. Ordered(e.parked[s])
    BY <2>1, <2>2, AppendOrdered DEF Ahead
  <2>4. \A i \in 1..Len(e.parked[s]) :
          e.parked[s][i] = d \/ \E j \in 1..Len(h.parked[s]) : e.parked[s][i] = h.parked[s][j]
    BY <2>1, <2>2, AppendAll
  <2>5. \A i \in 1..Len(e.parked[s]) :
          e.parked[s][i].red = 0 => Nobody(A, s, e.parked[s][i].topic)
    BY <1>4, <2>1, <2>4
  <2> QED BY <1>1, <1>4, <2>3, <2>5 DEF Orderly
<1>5. Orderly(A, s, e.queue, e.parked)
  BY <1>1, <1>3, <1>4 DEF Fed, A
<1> QED
  BY <1>5 DEF OrdHand, A

\* What nothing in the hand comes after is still so when d, which may precede it, was fed.
LEMMA FedAhead ==
  ASSUME TypeOK, NEW ids, NEW s \in Names, NEW h \in TidyHand(ids), NEW e \in TidyHand(ids),
         NEW d \in Delivery, NEW A, Fed(h, e, A, s, d), NEW b, Ahead(h, s, b), Before(d, b)
  PROVE  Ahead(e, s, b)
<1>1. h.queue \in [Ids -> Seq(Delivery)] /\ h.parked \in [Names -> Seq(Delivery)]
  BY DEF TidyHand
<1>2. 1..nextId \subseteq Ids
  BY RouterAssumption DEF TypeOK, Ids
<1>3. ASSUME e.parked = h.parked, NEW c \in 1..nextId,
             e.queue = [h.queue EXCEPT ![c] = Append(h.queue[c], d)]
      PROVE  Ahead(e, s, b)
  <2>1. ASSUME NEW x \in 1..nextId, reg[x].name = s
        PROVE  \A i \in 1..Len(e.queue[x]) : Before(e.queue[x][i], b)
    <3>1. h.queue[x] \in Seq(Delivery)
          /\ \A i \in 1..Len(h.queue[x]) : Before(h.queue[x][i], b)
      BY <1>1, <1>2, <2>1 DEF Ahead
    <3>2. CASE x = c
      <4>1. e.queue[x] = Append(h.queue[x], d)
        BY <1>1, <1>2, <1>3, <3>2
      <4>2. \A i \in 1..Len(e.queue[x]) :
              e.queue[x][i] = d \/ \E j \in 1..Len(h.queue[x]) : e.queue[x][i] = h.queue[x][j]
        BY <3>1, <4>1, AppendAll
      <4> QED BY <3>1, <4>2
    <3>3. CASE x # c
      <4>1. e.queue[x] = h.queue[x]
        BY <1>1, <1>2, <1>3, <3>3
      <4> QED BY <3>1, <4>1
    <3> QED BY <3>2, <3>3
  <2> QED BY <1>3, <2>1 DEF Ahead
<1>4. ASSUME e.queue = h.queue, e.parked = [h.parked EXCEPT ![s] = Append(h.parked[s], d)]
      PROVE  Ahead(e, s, b)
  <2>1. e.parked[s] = Append(h.parked[s], d) /\ h.parked[s] \in Seq(Delivery)
    BY <1>1, <1>4
  <2>2. \A i \in 1..Len(e.parked[s]) :
          e.parked[s][i] = d \/ \E j \in 1..Len(h.parked[s]) : e.parked[s][i] = h.parked[s][j]
    BY <2>1, AppendAll
  <2> QED BY <1>4, <2>2 DEF Ahead
<1>5. CASE e.queue = h.queue /\ e.parked = h.parked
  BY <1>5 DEF Ahead
<1> QED
  BY <1>3, <1>4, <1>5 DEF Fed

\* A hand in order that is fed a list in order, none of which comes before what it has,
\* ends in order.
LEMMA FedAll ==
  ASSUME TypeOK, NEW ids, NEW s \in Names, NEW ds \in Seq(Delivery), Ordered(ds), NEW f,
         f[0] \in OrdHand(ids, s),
         \A n \in 0..Len(ds) : f[n] \in TidyHand(ids),
         \A n \in 1..Len(ds) : Fed(f[n - 1], f[n], Consumers(ids), s, ds[n]),
         \A k \in 1..Len(ds) : Ahead(f[0], s, ds[k])
  PROVE  f[Len(ds)] \in OrdHand(ids, s)
<1> DEFINE N == Len(ds)
           P == {n \in 0..N : /\ f[n] \in OrdHand(ids, s)
                              /\ \A k \in (n + 1)..N : Ahead(f[n], s, ds[k])}
<1>1. N \in Nat /\ \A n \in 1..N : ds[n] \in Delivery
  OBVIOUS
<1>2. 0 \in P
  BY <1>1
<1>3. ASSUME NEW n \in 0..(N - 1), n \in P PROVE n + 1 \in P
  <2>1. n + 1 \in 1..N /\ n + 1 \in 0..N /\ n + 1 - 1 = n /\ n \in 0..N
        /\ n + 1 \in (n + 1)..N /\ ds[n + 1] \in Delivery
    BY <1>1
  <2>2. f[n] \in OrdHand(ids, s) /\ \A k \in (n + 1)..N : Ahead(f[n], s, ds[k])
    BY <1>3
  <2>3. Fed(f[n], f[n + 1], Consumers(ids), s, ds[n + 1])
    <3>1. Fed(f[n + 1 - 1], f[n + 1], Consumers(ids), s, ds[n + 1])
      BY <2>1
    <3> QED BY <2>1, <3>1
  <2>4. f[n] \in TidyHand(ids) /\ f[n + 1] \in TidyHand(ids)
    BY <2>1
  <2>5. f[n + 1] \in OrdHand(ids, s)
    BY <2>1, <2>2, <2>3, <2>4, FedStep
  <2>6. ASSUME NEW k \in (n + 2)..N PROVE Ahead(f[n + 1], s, ds[k])
    <3>1. k \in (n + 1)..N /\ k \in 1..N /\ n + 1 < k
      BY <1>1
    <3>2. Before(ds[n + 1], ds[k])
      BY <2>1, <3>1 DEF Ordered
    <3> QED BY <2>1, <2>2, <2>3, <2>4, <3>1, <3>2, FedAhead
  <2>7. n + 1 + 1 = n + 2
    BY <1>1
  <2> QED BY <2>1, <2>5, <2>6, <2>7
<1>4. N \in P
  <2> HIDE DEF P, N
  <2>1. 0..N \subseteq P
    BY <1>1, <1>2, <1>3, UpTo
  <2> QED BY <2>1, <1>1
<1> QED
  BY <1>4

\* What goes to another subscription, or was handed out before, disturbs no order.
LEMMA GivenStale ==
  ASSUME TypeOK, NEW ids, NEW s \in Names, NEW h \in OrdHand(ids, s), NEW e \in TidyHand(ids),
         NEW n \in Names, NEW d \in Delivery, Given(h, e, n, d), n # s \/ d.red # 0
  PROVE  e \in OrdHand(ids, s)
<1>1. /\ h.queue \in [Ids -> Seq(Delivery)] /\ h.parked \in [Names -> Seq(Delivery)]
      /\ Orderly(Consumers(ids), s, h.queue, h.parked)
  BY DEF OrdHand, TidyHand
<1>2. CASE n = s
  <2>1. Fed(h, e, Consumers(ids), s, d)
    BY <1>2 DEF Given, Fed
  <2>2. Ahead(h, s, d)
    BY <1>2 DEF Ahead, Before
  <2> QED BY <2>1, <2>2, FedStep
<1>3. CASE n # s
  <2>1. ASSUME NEW c \in 1..nextId, reg[c].name = s PROVE e.queue[c] = h.queue[c]
    <3>1. c \in Ids
      BY RouterAssumption DEF TypeOK, Ids
    <3>2. CASE e.queue = h.queue
      BY <3>2
    <3>3. ASSUME NEW x \in 1..nextId, reg[x].name = n,
                 e.queue = [h.queue EXCEPT ![x] = Append(h.queue[x], d)]
          PROVE  e.queue[c] = h.queue[c]
      BY <1>1, <1>3, <2>1, <3>1, <3>3
    <3> QED BY <3>2, <3>3 DEF Given
  <2>2. e.parked[s] = h.parked[s]
    BY <1>1, <1>3 DEF Given
  <2>3. Orderly(Consumers(ids), s, e.queue, e.parked)
    BY <1>1, <2>1, <2>2 DEF Orderly
  <2> QED BY <2>3 DEF OrdHand
<1> QED
  BY <1>2, <1>3

\* From hand h to hand e delivery d is queued on consumer c.
Queued(h, e, c, d) ==
  e.parked = h.parked /\ e.queue = [h.queue EXCEPT ![c] = Append(h.queue[c], d)]

\* Of such a subscription the first member takes the delivery (choose).
LEMMA ShareFirst ==
  ASSUME TypeOK, NEW ids, NEW h \in TidyHand(ids), NEW n \in Names,
         NEW sharing \in {"Exclusive", "Failover"}, NEW M, M[1] \in 1..nextId, NEW d
  PROVE  Queued(h, Share(h, n, sharing, M, d), M[1], d)
<1>1. M[1] \in Ids
  BY RouterAssumption DEF TypeOK, Ids
<1>2. Choose(sharing, M, KeyOf(d), h.rotation[n]) = M[1]
  BY DEF Choose
<1> QED
  BY <1>1, <1>2 DEF Share, TidyHand, Queued

\* Handing a delivery back feeds it to the owner of its topic, where one reads it
\* whenever one registered it (hand_back).
LEMMA HandBackFed ==
  ASSUME TypeOK, ExclusiveAlone, NEW ids \in Seq(1..nextId), Rising(ids),
         Consumers(ids) \subseteq Attached, NEW h \in TidyHand(ids),
         NEW r \in Registrations, SingleActive(r.name), NEW d, Logged(d), NEW counted \in BOOLEAN,
         d.red = 0 => \A x \in Consumers(ids) :
                        reg[x].name = r.name /\ d.topic \in reg[x].topics => ~IsPattern(reg[x])
  PROVE  Fed(h, HandBack(h, ids, r, d, counted), Consumers(ids), r.name, d)
<1> DEFINE M == MembersOf(ids, listed, r.name, d.topic)
           e == HandBack(h, ids, r, d, counted)
<1>1. r.name \in Names /\ r.sharing \in {"Exclusive", "Failover"} /\ r.sharing \in Sharings
  BY RouterAssumption DEF Registration, SingleActive, Sharings
<1>2. M \in Seq(1..nextId)
      /\ (M = <<>> => \A j \in 1..Len(ids) : ~(reg[ids[j]].name = r.name /\ Reads(listed, ids[j], d.topic)))
  BY MembersProps
<1>3. CASE M = <<>>
  <2>1. e.queue = h.queue /\ e.parked = [h.parked EXCEPT ![r.name] = Append(h.parked[r.name], d)]
    BY <1>1, <1>3 DEF HandBack, Park, TidyHand
  <2>2. d.red = 0 => Nobody(Consumers(ids), r.name, d.topic)
    BY <1>2, <1>3 DEF Nobody, Consumers, Reads
  <2> QED BY <2>1, <2>2 DEF Fed
<1>4. CASE M # <<>>
  <2> DEFINE p == Share(h, r.name, r.sharing, M, d)
  <2>1. /\ Owns(Consumers(ids), r.name, d.topic, M[1])
        /\ M[1] \in 1..nextId /\ reg[M[1]].name = r.name
    BY <1>1, <1>4, MemberOwns
  <2> HIDE DEF M
  <2>2. Queued(h, p, M[1], d)
    BY <1>1, <2>1, ShareFirst
  <2>3. p \in TidyHand(ids)
    BY <1>1, <1>2, <1>4, ShareIn
  <2>4. e.queue = p.queue /\ e.parked = p.parked
    <3>1. e = [p EXCEPT !.inflight = IF counted THEN p.inflight ELSE p.inflight + 1]
      BY <1>4 DEF HandBack, M
    <3> HIDE DEF p, e
    <3> QED BY <2>3, <3>1 DEF TidyHand
  <2> HIDE DEF p, e
  <2>5. Fed(h, e, Consumers(ids), r.name, d)
    BY <2>1, <2>2, <2>4 DEF Fed, Queued
  <2> QED BY <2>5 DEF e
<1> QED
  BY <1>3, <1>4

\* So does a replay (seek).
LEMMA ReplayFed ==
  ASSUME TypeOK, ExclusiveAlone, Rising(attached), NEW h \in TidyHand(attached),
         NEW r \in Registrations, SingleActive(r.name), NEW d, Logged(d)
  PROVE  Fed(h, Replay(h, r, d), Attached, r.name, d)
<1> DEFINE M == MembersOf(attached, listed, r.name, d.topic)
           e == Replay(h, r, d)
<1>1. r.name \in Names /\ r.sharing \in {"Exclusive", "Failover"} /\ r.sharing \in Sharings
  BY RouterAssumption DEF Registration, SingleActive, Sharings
<1>2. attached \in Seq(1..nextId) /\ Consumers(attached) = Attached
  BY DEF TypeOK, Consumers, Attached
<1>3. M \in Seq(1..nextId)
  BY <1>2, MembersProps
<1>4. CASE M = <<>>
  BY <1>4 DEF Replay, Fed
<1>5. CASE M # <<>>
  <2> DEFINE p == Share(h, r.name, r.sharing, M, d)
  <2>1. /\ Owns(Attached, r.name, d.topic, M[1])
        /\ M[1] \in 1..nextId /\ reg[M[1]].name = r.name
    BY <1>1, <1>2, <1>5, MemberOwns
  <2> HIDE DEF M
  <2>2. Queued(h, p, M[1], d)
    BY <1>1, <2>1, ShareFirst
  <2>3. p \in TidyHand(attached)
    BY <1>1, <1>3, <1>5, ShareIn
  <2>4. e.queue = p.queue /\ e.parked = p.parked
    <3>1. e = [p EXCEPT !.inflight = p.inflight + 1]
      BY <1>5 DEF Replay, M
    <3> HIDE DEF p, e
    <3> QED BY <2>3, <3>1 DEF TidyHand
  <2> HIDE DEF p, e
  <2>5. Fed(h, e, Attached, r.name, d)
    BY <2>1, <2>2, <2>4 DEF Fed, Queued
  <2> QED BY <2>5 DEF e
<1> QED
  BY <1>4, <1>5

-----------------------------------------------------------------------------
\* While the log only grows, the deliveries it holds keep their time.
LEMMA BeforeKept ==
  ASSUME \A x : Logged(x) => At(x)' = At(x),
         NEW q, AllLogged(q), Ordered(q)
  PROVE  Ordered(q)'
BY DEF Ordered, Before, AllLogged

\* A part of a list in order is in order.
LEMMA PartOrdered ==
  ASSUME NEW q \in Seq(Delivery), Ordered(q), NEW S
  PROVE  /\ Ordered(Select(q, S))
         /\ \A i \in 1..Len(Select(q, S)) :
              /\ Select(q, S)[i] \in S
              /\ \E j \in 1..Len(q) : Select(q, S)[i] = q[j]
<1> DEFINE p == Select(q, S)
<1>1. PICK w : /\ w \in [1..Len(p) -> 1..Len(q)]
               /\ \A i \in 1..Len(p) : p[i] = q[w[i]]
               /\ \A i, j \in 1..Len(p) : i < j => w[i] < w[j]
  BY SelectOrder
<1>2. \A i \in 1..Len(p) : p[i] \in S /\ \E j \in 1..Len(q) : p[i] = q[j]
  BY SelectProps
<1> HIDE DEF p
<1>3. Ordered(p)
  BY <1>1 DEF Ordered
<1> QED
  BY <1>2, <1>3 DEF p

\* What a step leaves in order when it leaves a hand in order.
LEMMA OrdHandStep ==
  ASSUME NEW s, NEW ids, NEW h \in OrdHand(ids, s), SetHand(h), UNCHANGED <<nextId, reg, log>>,
         Consumers(ids) = Attached'
  PROVE  Orderly(Attached, s, queue, parked)'
<1>1. Orderly(Attached', s, queue', parked')
  BY DEF OrdHand, SetHand
<1>2. (\A q : Ordered(q) => Ordered(q)')
  BY DEF Ordered, Before, At
<1> QED
  BY <1>1, <1>2 DEF Orderly, Owns, Nobody, Ordered, Before, At

\* So does a step that moves nothing.
LEMMA OrderlyUnmoved ==
  ASSUME NEW s, Orderly(Attached, s, queue, parked),
         UNCHANGED <<nextId, reg, attached, log, queue, parked>>
  PROVE  Orderly(Attached, s, queue, parked)'
<1>1. Attached' = Attached
  BY DEF Attached
<1> QED
  BY <1>1 DEF Orderly, Ordered, Before, At, Owns, Nobody

\* An append to the log keeps the times of what it holds (deliver).
LEMMA AtKept ==
  ASSUME TypeOK, NEW t \in Topics, NEW k, NEW o, Deliver(t, k, o)
  PROVE  \A x : Logged(x) => At(x)' = At(x)
<1>1. PICK e : log' = [log EXCEPT ![t] = Append(log[t], e)]
  BY DEF Deliver
<1>2. log \in [Topics -> Seq(LogEntry)]
  BY DEF TypeOK
<1>3. ASSUME NEW x, Logged(x) PROVE At(x)' = At(x)
  <2>1. x.topic \in Topics /\ x.seq \in 1..Len(log[x.topic])
    BY <1>3 DEF Logged, Delivery
  <2>2. log'[x.topic][x.seq] = log[x.topic][x.seq]
    <3>1. CASE x.topic = t
      <4>1. log'[x.topic] = Append(log[t], e) /\ log[t] \in Seq(LogEntry)
        BY <1>1, <1>2, <3>1
      <4> QED BY <2>1, <3>1, <4>1
    <3>2. CASE x.topic # t
      BY <1>1, <1>2, <2>1, <3>2
    <3> QED BY <3>1, <3>2
  <2> QED BY <2>2 DEF At
<1> QED
  BY <1>3

\* A new entry is queued behind every other of its topic (deliver).
LEMMA FreshAppended ==
  ASSUME \A x : Logged(x) => At(x)' = At(x),
         NEW q \in Seq(Delivery), AllLogged(q), Ordered(q), NEW d \in Delivery,
         d.seq = Len(log[d.topic]) + 1
  PROVE  Ordered(Append(q, d))'
<1> DEFINE a == Append(q, d)
<1>1. /\ Len(a) = Len(q) + 1 /\ a[Len(q) + 1] = d /\ Len(q) \in Nat
      /\ \A n \in 1..Len(q) : a[n] = q[n]
  OBVIOUS
<1>2. a' = a
  OBVIOUS
<1> HIDE DEF a
<1>3. ASSUME NEW i \in 1..Len(a), NEW j \in 1..Len(a), i < j PROVE Before(a[i], a[j])'
  <2>1. i \in 1..Len(q) /\ (j \in 1..Len(q) \/ j = Len(q) + 1)
    BY <1>1, <1>3
  <2>2. Logged(a[i])
    BY <1>1, <2>1 DEF AllLogged
  <2>3. CASE j \in 1..Len(q)
    <3>1. Before(a[i], a[j]) /\ Logged(a[j])
      BY <1>1, <1>3, <2>1, <2>3 DEF Ordered, AllLogged
    <3> QED BY <1>2, <2>2, <3>1 DEF Before
  <2>4. CASE j = Len(q) + 1
    <3>1. a[j] = d
      BY <1>1, <2>4
    <3>2. a[i].topic = d.topic => a[i].seq < d.seq
      BY <2>2 DEF Logged, Delivery
    <3> QED BY <1>2, <3>1, <3>2 DEF Before
  <2> QED BY <2>1, <2>3, <2>4
<1> QED
  BY <1>2, <1>3 DEF Ordered, a

\* Of a subscription with one active consumer the owner of a topic takes what is
\* delivered to it (deliver).
LEMMA TakerOwns ==
  ASSUME IInv, ExclusiveAlone, Rising(attached), NEW s \in Names, SingleActive(s),
         NEW t \in Topics, NEW k \in Keys, NEW ls, MembersOf(attached, ls, s, t) # <<>>
  PROVE  LET M == MembersOf(attached, ls, s, t)
         IN  Owns(Attached, s, t, Choose(reg[M[1]].sharing, M, k, rotation[s]))
<1> USE DEF IInv
<1> DEFINE M == MembersOf(attached, ls, s, t)
<1>1. reg[M[1]] \in Registrations /\ reg[M[1]].name = s
  BY TakerNamed
<1>2. reg[M[1]].sharing \in {"Exclusive", "Failover"}
  BY <1>1 DEF SingleActive
<1>3. Attached = Consumers(attached) /\ attached \in Seq(1..nextId)
  BY DEF TypeOK, Consumers, Attached
<1>4. Owns(Attached, s, t, M[1])
  BY <1>3, MemberOwns
<1> HIDE DEF M
<1>5. Choose(reg[M[1]].sharing, M, k, rotation[s]) = M[1]
  BY <1>2 DEF Choose
<1> QED
  BY <1>4, <1>5 DEF M

\* An entry joins the queue of its topic's owner, behind every other of the topic.
LEMMA DeliverOrderly ==
  ASSUME IInv, ExclusiveAlone, OrderInv, NEW s \in Names, SingleActive(s),
         NEW t \in Topics, NEW k \in Keys, NEW o, Deliver(t, k, o),
         UNCHANGED <<nextId, reg, attached, parked>>
  PROVE  Orderly(Attached, s, queue, parked)'
<1> USE DEF IInv
<1>1. PICK d : d = [topic |-> t, seq |-> Len(log[t]) + 1, red |-> 0]
  OBVIOUS
<1>2. d \in Delivery /\ d.topic = t /\ d.seq = Len(log[d.topic]) + 1
  <2>1. Len(log[t]) \in Nat
    BY DEF TypeOK
  <2> QED BY <1>1, <2>1 DEF Delivery
<1>3. \A x : Logged(x) => At(x)' = At(x)
  BY AtKept
<1>4. 1..nextId \subseteq Ids
  BY RouterAssumption DEF TypeOK, Ids
<1>5. Orderly(Attached, s, queue, parked) /\ Rising(attached)
  BY DEF OrderInv
<1>6. ASSUME NEW c \in 1..nextId, reg[c].name = s
      PROVE  \/ queue'[c] = queue[c]
             \/ queue'[c] = Append(queue[c], d) /\ Owns(Attached, s, t, c)
  <2>1. ASSUME NEW n \in Names, MembersOf(attached, listed', n, t) # <<>>,
               c = Choose(reg[MembersOf(attached, listed', n, t)[1]].sharing,
                          MembersOf(attached, listed', n, t), k, rotation[n])
        PROVE  Owns(Attached, s, t, c)
    <3>1. PICK ls : ls = listed'
      OBVIOUS
    <3>2. n = s
      BY <1>6, <2>1, <3>1, TakerNamed
    <3> QED BY <1>5, <2>1, <3>1, <3>2, TakerOwns
  <2>2. \/ queue'[c] = queue[c]
        \/ /\ queue'[c] = Append(queue[c], d)
           /\ \E n \in Names :
                /\ MembersOf(attached, listed', n, t) # <<>>
                /\ c = Choose(reg[MembersOf(attached, listed', n, t)[1]].sharing,
                              MembersOf(attached, listed', n, t), k, rotation[n])
    BY <1>1, <1>4 DEF Deliver, SubscriptionsOver
  <2> QED BY <2>1, <2>2
<1>7. ASSUME NEW c \in 1..nextId, reg[c].name = s
      PROVE  /\ Ordered(queue[c])'
             /\ \A i \in 1..Len(queue'[c]) :
                  queue'[c][i].red = 0 => Owns(Attached, s, queue'[c][i].topic, c)
  <2>1. PICK q : q = queue[c]
    OBVIOUS
  <2>2. /\ q \in Seq(Delivery) /\ AllLogged(q) /\ Ordered(q)
        /\ \A i \in 1..Len(q) : q[i].red = 0 => Owns(Attached, s, q[i].topic, c)
    BY <1>4, <1>5, <1>7, <2>1 DEF TypeOK, DeliveriesAreLogged, Orderly
  <2>3. CASE queue'[c] = queue[c]
    <3>1. Ordered(q)'
      BY <1>3, <2>2, BeforeKept
    <3> QED BY <2>1, <2>2, <2>3, <3>1 DEF Ordered, Before, At
  <2>4. CASE queue'[c] = Append(queue[c], d) /\ Owns(Attached, s, t, c)
    <3>1. PICK a : a = Append(q, d)
      OBVIOUS
    <3>2. Ordered(Append(q, d))'
      BY <1>2, <1>3, <2>2, FreshAppended
    <3>3. \A i \in 1..Len(Append(q, d)) :
            Append(q, d)[i] = d \/ \E j \in 1..Len(q) : Append(q, d)[i] = q[j]
      BY <1>2, <2>2, AppendAll
    <3>4. queue'[c] = a
      BY <2>1, <2>4, <3>1
    <3>5. Ordered(a)'
      BY <3>1, <3>2 DEF Ordered, Before, At
    <3>6. \A i \in 1..Len(a) : a[i].red = 0 => Owns(Attached, s, a[i].topic, c)
      BY <1>2, <2>2, <2>4, <3>1, <3>3
    <3> QED BY <3>4, <3>5, <3>6 DEF Ordered, Before, At
  <2> QED BY <1>6, <1>7, <2>3, <2>4
<1>8. /\ Ordered(parked[s])'
      /\ \A i \in 1..Len(parked[s]) : parked[s][i].red = 0 => Nobody(Attached, s, parked[s][i].topic)
  <2>1. PICK q : q = parked[s]
    OBVIOUS
  <2>2. AllLogged(q) /\ Ordered(q)
    BY <1>5, <2>1 DEF DeliveriesAreLogged, Orderly
  <2>3. Ordered(q)'
    BY <1>3, <2>2, BeforeKept
  <2> QED BY <1>5, <2>1, <2>3 DEF Orderly, Ordered, Before, At
<1>9. Attached' = Attached
  BY DEF Attached
<1> QED
  BY <1>7, <1>8, <1>9 DEF Orderly, Owns, Nobody

\* An entry makes its topic exist (deliver).
LEMMA DeliverExisting ==
  ASSUME TypeOK, Existing, NEW t \in Topics, NEW k, NEW o, Deliver(t, k, o)
  PROVE  Existing'
<1>1. PICK e : log' = [log EXCEPT ![t] = Append(log[t], e)]
  BY DEF Deliver
<1>2. created' = created \cup {t}
  BY DEF Deliver
<1> QED
  BY <1>1, <1>2 DEF Existing, TypeOK

\* The invariant after a step that leaves the consumers alone.
LEMMA OrderKept ==
  ASSUME OrderInv, UNCHANGED <<reg, attached>>, Existing',
         \A s \in Names : SingleActive(s) => Orderly(Attached, s, queue, parked)'
  PROVE  OrderInv'
BY DEF OrderInv, Rising

\* So for one that leaves the deliveries alone, too.
LEMMA OrderUnmoved ==
  ASSUME OrderInv, UNCHANGED <<nextId, reg, attached, log, queue, parked>>,
         created \subseteq created'
  PROVE  OrderInv'
<1>1. \A s \in Names : SingleActive(s) => Orderly(Attached, s, queue, parked)'
  BY OrderlyUnmoved DEF OrderInv
<1>2. Existing'
  BY DEF OrderInv, Existing
<1> QED
  BY <1>1, <1>2, OrderKept

\* A publish.
LEMMA PublishOrder ==
  ASSUME IInv, ExclusiveAlone, OrderInv, Publish
  PROVE  OrderInv'
<1>1. PICK t \in Topics, k \in Keys : Deliver(t, k, None)
  BY DEF Publish
<1>2. UNCHANGED <<nextId, reg, attached, parked>>
  BY DEF Publish, registry
<1>3. \A s \in Names : SingleActive(s) => Orderly(Attached, s, queue, parked)'
  BY <1>1, <1>2, DeliverOrderly
<1>4. Existing'
  BY <1>1, DeliverExisting DEF OrderInv, IInv
<1> QED
  BY <1>2, <1>3, <1>4, OrderKept

\* A requeue puts back what was handed out before, or appends to the log.
LEMMA RequeueOrder ==
  ASSUME IInv, ExclusiveAlone, OrderInv, NEW c, NEW d, Logged(d), NEW took,
         Requeue(c, d, took), UNCHANGED <<nextId, reg, attached>>
  PROVE  OrderInv'
<1> USE DEF IInv
<1> DEFINE r == reg[c]
           M == MembersOf(attached, listed, r.name, d.topic)
           spent == Spent(r, Again(d))
<1>1. PICK e : e = Again(d)
  OBVIOUS
<1>2. r \in Registrations /\ r.name \in Names /\ r.sharing \in Sharings
      /\ (r.dead # None => r.dead.topic \in Topics)
  <2>1. reg[c] \in Registrations
    BY KnownConsumer DEF Requeue
  <2> QED BY <2>1, RouterAssumption DEF Registration
<1>3. Logged(e) /\ e.topic = d.topic /\ e \in Delivery /\ e.red # 0
  BY <1>1 DEF Logged, Again, Delivery
<1>4. CASE spent /\ Deliver(r.dead.topic, KeyOf(d), StampOrigin(d)) /\ UNCHANGED parked
  <2>1. r.dead.topic \in Topics
    BY <1>2, <1>4 DEF Spent
  <2>2. KeyOf(d) \in Keys
    <3>1. log[d.topic] \in Seq(LogEntry) /\ d.seq \in 1..Len(log[d.topic])
      BY DEF Logged, Delivery, TypeOK
    <3>2. log[d.topic][d.seq] \in LogEntry
      BY <3>1
    <3> QED BY <3>2 DEF KeyOf, LogEntry
  <2> HIDE DEF r
  <2>3. \A s \in Names : SingleActive(s) => Orderly(Attached, s, queue, parked)'
    BY <1>4, <2>1, <2>2, DeliverOrderly
  <2>4. Existing'
    BY <1>4, <2>1, DeliverExisting DEF OrderInv
  <2> QED BY <2>3, <2>4, OrderKept
<1>5. Hand \in TidyHand(attached) /\ Hand.queue = queue /\ Hand.parked = parked
      /\ attached \in Seq(1..nextId) /\ Consumers(attached) = Attached /\ Attached' = Attached
  BY HandIsTidy DEF TypeOK, Hand, Attached
<1>6. ASSUME NEW h \in TidyHand(attached), Given(Hand, h, r.name, e), SetHand(h),
             UNCHANGED topicVars
      PROVE  OrderInv'
  <2>1. ASSUME NEW s \in Names, SingleActive(s) PROVE Orderly(Attached, s, queue, parked)'
    <3>1. Hand \in OrdHand(attached, s)
      BY <1>5, <2>1 DEF OrdHand, OrderInv
    <3> HIDE DEF r
    <3>2. h \in OrdHand(attached, s)
      BY <1>2, <1>3, <1>6, <3>1, GivenStale
    <3> QED BY <1>5, <1>6, <3>2, OrdHandStep DEF topicVars
  <2>2. Existing'
    BY <1>6 DEF OrderInv, Existing, topicVars
  <2> QED BY <2>1, <2>2, OrderKept
<1>7. CASE M = <<>> /\ SetHand(Park(Hand, r.name, e)) /\ UNCHANGED topicVars
  <2>1. Park(Hand, r.name, e) \in TidyHand(attached)
    BY <1>2, <1>3, <1>5, <1>7, ParkIn
  <2>2. Given(Hand, Park(Hand, r.name, e), r.name, e)
    BY <1>2, <1>5 DEF Given, Park, TidyHand
  <2> HIDE DEF r, M
  <2> QED BY <1>6, <1>7, <2>1, <2>2
<1>8. CASE M # <<>> /\ SetHand(Share(Hand, r.name, r.sharing, M, e)) /\ UNCHANGED topicVars
  <2>1. M \in Seq(1..nextId) /\ \A i \in 1..Len(M) : reg[M[i]].name = r.name
    BY <1>5, MembersProps
  <2> HIDE DEF M
  <2>2. Share(Hand, r.name, r.sharing, M, e) \in TidyHand(attached)
    BY <1>2, <1>3, <1>5, <1>8, <2>1, ShareIn
  <2>3. Given(Hand, Share(Hand, r.name, r.sharing, M, e), r.name, e)
    BY <1>2, <1>3, <1>5, <1>8, <2>1, ShareGiven
  <2> HIDE DEF r
  <2> QED BY <1>6, <1>8, <2>2, <2>3
<1>9. \/ spent /\ Deliver(r.dead.topic, KeyOf(d), StampOrigin(d)) /\ UNCHANGED parked
      \/ M = <<>> /\ SetHand(Park(Hand, r.name, e)) /\ UNCHANGED topicVars
      \/ M # <<>> /\ SetHand(Share(Hand, r.name, r.sharing, M, e)) /\ UNCHANGED topicVars
  BY <1>1 DEF Requeue
<1> HIDE DEF r, M, spent
<1> QED
  BY <1>4, <1>7, <1>8, <1>9

\* A drop is kept, forgotten, or handed back as a redelivery.
LEMMA DropOrder ==
  ASSUME IInv, OrderInv, NEW m \in Slots, Drop(m)
  PROVE  OrderInv'
<1> USE DEF IInv
<1> DEFINE c == settle[m].id
           d == settle[m].d
<1>1. settle[m].duty = "handle" /\ UNCHANGED <<nextId, reg, attached, created, listed, log>>
  BY DEF Drop, registry, topicVars
<1>2. CASE UNCHANGED <<queue, parked>>
  BY <1>1, <1>2, OrderUnmoved
<1>3. CASE /\ c \in departed
           /\ SetHand(HandBack(Hand, attached, reg[c], Again(d), FALSE))
  <2> DEFINE h == HandBack(Hand, attached, reg[c], Again(d), FALSE)
  <2>1. PICK e : e = Again(d)
    OBVIOUS
  <2>2. Logged(e) /\ e \in Delivery /\ e.red # 0
    <3>1. Logged(d)
      BY <1>1, <1>3 DEF DeliveriesAreLogged
    <3> QED BY <2>1, <3>1 DEF Logged, Again, Delivery
  <2>3. reg[c] \in Registrations /\ reg[c].name \in Names /\ attached \in Seq(1..nextId)
    <3>1. reg[c] \in Registrations
      BY <1>3, KnownConsumer
    <3> QED BY <3>1, RouterAssumption DEF TypeOK, Registration
  <2>4. Hand \in TidyHand(attached) /\ Hand.queue = queue /\ Hand.parked = parked
        /\ Consumers(attached) = Attached /\ Attached' = Attached
    BY <1>1, HandIsTidy DEF Hand, Attached
  <2>5. h \in TidyHand(attached) /\ Given(Hand, h, reg[c].name, e)
    BY <2>1, <2>2, <2>3, <2>4, HandBackIn, HandBackGiven
  <2>6. SetHand(h)
    BY <1>3
  <2> HIDE DEF h, c
  <2>7. ASSUME NEW s \in Names, SingleActive(s) PROVE Orderly(Attached, s, queue, parked)'
    <3>1. Hand \in OrdHand(attached, s)
      BY <2>4, <2>7 DEF OrdHand, OrderInv
    <3>2. h \in OrdHand(attached, s)
      BY <2>2, <2>3, <2>5, <3>1, GivenStale
    <3> QED BY <1>1, <2>4, <2>6, <3>2, OrdHandStep
  <2>8. Existing'
    BY <1>1 DEF OrderInv, Existing
  <2> QED BY <1>1, <2>7, <2>8, OrderKept
<1> QED
  BY <1>2, <1>3 DEF Drop

\* Every other step of a settlement but a poll.
LEMMA SettlementOrder ==
  ASSUME IInv, ExclusiveAlone, OrderInv, NEW m \in Slots,
         Ack(m) \/ Nack(m) \/ NackAfter(m) \/ Fire(m) \/ Count(m) \/ Release(m)
  PROVE  OrderInv'
<1>1. CASE Ack(m) \/ NackAfter(m) \/ Count(m) \/ Release(m)
  <2>1. UNCHANGED <<nextId, reg, attached, created, log, queue, parked>>
    BY <1>1 DEF Ack, NackAfter, Count, Release, registry, topicVars
  <2> QED BY <2>1, OrderUnmoved
<1>2. CASE Nack(m) \/ Fire(m)
  <2>1. settle[m].duty \in {"handle", "timer"} /\ UNCHANGED <<nextId, reg, attached>>
    BY <1>2 DEF Nack, Fire, registry
  <2>2. \/ \E took \in BOOLEAN : Requeue(settle[m].id, settle[m].d, took)
        \/ UNCHANGED <<created, log, queue, parked>>
    BY <1>2 DEF Nack, Fire, topicVars
  <2>3. CASE UNCHANGED <<created, log, queue, parked>>
    BY <2>1, <2>3, OrderUnmoved
  <2>4. ASSUME NEW took \in BOOLEAN, Requeue(settle[m].id, settle[m].d, took) PROVE OrderInv'
    <3>1. Logged(settle[m].d)
      BY <2>1, <2>4 DEF Requeue, IInv, DeliveriesAreLogged
    <3> QED BY <2>1, <2>4, <3>1, RequeueOrder
  <2> QED BY <2>2, <2>3, <2>4
<1> QED
  BY <1>1, <1>2

\* While the log and the registrations stay, what is in order is so after the step.
LEMMA OrderlyAfter ==
  ASSUME NEW s, Orderly(Attached', s, queue', parked'), UNCHANGED <<nextId, reg, log>>
  PROVE  Orderly(Attached, s, queue, parked)'
<1>1. \A q : Ordered(q) => Ordered(q)'
  BY DEF Ordered, Before, At
<1> QED
  BY <1>1 DEF Orderly, Owns, Nobody, Ordered, Before, At

\* A poll takes the head of a queue.
LEMMA PollOrder ==
  ASSUME IInv, OrderInv, NEW m \in Slots, NEW c \in Ids, Poll(m, c)
  PROVE  OrderInv'
<1>1. /\ queue[c] # <<>> /\ queue' = [queue EXCEPT ![c] = Tail(queue[c])]
      /\ UNCHANGED <<nextId, reg, attached, created, log, parked>>
  BY DEF Poll, registry, topicVars
<1>2. queue \in [Ids -> Seq(Delivery)] /\ 1..nextId \subseteq Ids /\ Attached' = Attached
  BY <1>1, RouterAssumption DEF IInv, TypeOK, Ids, Attached
<1>3. ASSUME NEW s \in Names, SingleActive(s) PROVE Orderly(Attached, s, queue, parked)'
  <2>1. Orderly(Attached, s, queue, parked)
    BY <1>3 DEF OrderInv
  <2>2. ASSUME NEW x \in 1..nextId, reg[x].name = s
        PROVE  /\ Ordered(queue'[x])
               /\ \A i \in 1..Len(queue'[x]) :
                    queue'[x][i].red = 0 => Owns(Attached, s, queue'[x][i].topic, x)
    <3>1. /\ Ordered(queue[x])
          /\ \A i \in 1..Len(queue[x]) :
               queue[x][i].red = 0 => Owns(Attached, s, queue[x][i].topic, x)
      BY <2>1, <2>2 DEF Orderly
    <3>2. CASE x = c
      <4> DEFINE q == Tail(queue[c])
      <4>1. Len(q) = Len(queue[c]) - 1 /\ Len(queue[c]) \in Nat \ {0}
            /\ \A n \in 1..Len(q) : q[n] = queue[c][n + 1]
        BY <1>1, <1>2
      <4> HIDE DEF q
      <4>2. \A n \in 1..Len(q) : n + 1 \in 1..Len(queue[c])
        BY <4>1
      <4>3. \A i, j \in 1..Len(q) : i < j => i + 1 < j + 1
        BY <4>1
      <4>4. Ordered(q)
        BY <3>1, <3>2, <4>1, <4>2, <4>3 DEF Ordered
      <4>5. \A i \in 1..Len(q) : q[i].red = 0 => Owns(Attached, s, q[i].topic, x)
        BY <3>1, <3>2, <4>1, <4>2
      <4>6. queue'[x] = q
        BY <1>1, <1>2, <3>2 DEF q
      <4> QED BY <4>4, <4>5, <4>6
    <3>3. CASE x # c
      <4>1. queue'[x] = queue[x]
        BY <1>1, <1>2, <3>3
      <4> QED BY <3>1, <4>1
    <3> QED BY <3>2, <3>3
  <2>3. Orderly(Attached', s, queue', parked')
    BY <1>1, <1>2, <2>1, <2>2 DEF Orderly
  <2> QED BY <1>1, <2>3, OrderlyAfter
<1>4. Existing'
  BY <1>1 DEF OrderInv, Existing
<1> QED
  BY <1>1, <1>3, <1>4, OrderKept

\* After the shutdown there is nothing to order.
LEMMA ShutdownOrder ==
  ASSUME IInv, Shutdown
  PROVE  OrderInv'
<1>1. /\ attached' = <<>> /\ log' = [t \in Topics |-> <<>>]
      /\ queue' = [c \in Ids |-> <<>>] /\ parked' = [s \in Names |-> <<>>]
      /\ UNCHANGED <<nextId, reg>>
  BY DEF Shutdown
<1>2. 1..nextId \subseteq Ids
  BY RouterAssumption DEF IInv, TypeOK, Ids
<1>3. (\A c \in 1..nextId : Len(queue'[c]) = 0) /\ (\A s \in Names : Len(parked'[s]) = 0)
  BY <1>1, <1>2
<1>4. \A q : Len(q) = 0 => Ordered(q)'
  BY DEF Ordered
<1>5. \A s \in Names : Orderly(Attached, s, queue, parked)'
  BY <1>1, <1>3 DEF Orderly, Ordered
<1>6. Rising(attached)' /\ Existing'
  BY <1>1 DEF Rising, Existing
<1> QED
  BY <1>5, <1>6 DEF OrderInv

\* A newcomer owns what it takes of what was parked; of what it leaves it names no topic.
LEMMA SubscribeOrder ==
  ASSUME IInv, OrderInv, Subscribe
  PROVE  OrderInv'
<1> USE DEF IInv
<1> DEFINE c == nextId + 1
           reads(r) == IF IsPattern(r) THEN r.topics \cap created ELSE r.topics
           taken(r) == Select(parked[r.name], Over(reads(r)))
           left(r) == Select(parked[r.name], Over(Topics \ reads(r)))
<1>1. PICK r \in Registrations :
        /\ nextId' = c
        /\ reg' = [reg EXCEPT ![c] = r]
        /\ attached' = Append(attached, c)
        /\ created' = IF IsPattern(r) THEN created ELSE created \cup r.topics
        /\ queue' = [queue EXCEPT ![c] = taken(r)]
        /\ parked' = [parked EXCEPT ![r.name] = left(r)]
  BY DEF Subscribe
<1>2. log' = log /\ nextId < MaxConsumers
  BY DEF Subscribe
<1>3. c \in Ids /\ c \in 1..c /\ 1..nextId \subseteq 1..c /\ c \notin 1..nextId
      /\ 1..nextId \subseteq Ids /\ (\A x \in 1..c : x \in 1..nextId \/ x = c)
      /\ \A x \in 1..nextId : x < c
  BY <1>2, RouterAssumption DEF TypeOK, Ids
<1>4. r.name \in Names
  BY RouterAssumption DEF Registration
<1>5. parked[r.name] \in Seq(Delivery) /\ AllLogged(parked[r.name])
  BY <1>4 DEF TypeOK, DeliveriesAreLogged
<1>6. Ordered(parked[r.name]) =>
        /\ Ordered(taken(r)) /\ Ordered(left(r))
        /\ \A i \in 1..Len(taken(r)) :
             /\ taken(r)[i] \in Over(reads(r))
             /\ \E j \in 1..Len(parked[r.name]) : taken(r)[i] = parked[r.name][j]
        /\ \A i \in 1..Len(left(r)) :
             /\ left(r)[i] \in Over(Topics \ reads(r))
             /\ \E j \in 1..Len(parked[r.name]) : left(r)[i] = parked[r.name][j]
  <2> DEFINE p == parked[r.name]
  <2> HIDE DEF p
  <2>1. p \in Seq(Delivery)
    BY <1>5 DEF p
  <2>2. ASSUME Ordered(p), NEW S
        PROVE  /\ Ordered(Select(p, S))
               /\ \A i \in 1..Len(Select(p, S)) :
                    /\ Select(p, S)[i] \in S
                    /\ \E j \in 1..Len(p) : Select(p, S)[i] = p[j]
    BY <2>1, <2>2, PartOrdered
  <2> QED BY <2>2 DEF p
<1> HIDE DEF taken, left
<1>7. /\ \A x \in 1..nextId : reg'[x] = reg[x] /\ queue'[x] = queue[x]
      /\ reg'[c] = r /\ queue'[c] = taken(r)
      /\ \A s \in Names : parked'[s] = IF s = r.name THEN left(r) ELSE parked[s]
  <2> HIDE DEF c
  <2> QED BY <1>1, <1>3 DEF TypeOK
<1>8. Attached' = Attached \cup {c} /\ Attached \subseteq 1..nextId
  <2>1. attached \in Seq(1..nextId)
    BY DEF TypeOK
  <2>2. /\ Len(attached') = Len(attached) + 1 /\ Len(attached) \in Nat
        /\ \A i \in 1..Len(attached) : attached'[i] = attached[i]
        /\ attached'[Len(attached) + 1] = c
    BY <1>1, <2>1
  <2>3. \A i \in 1..Len(attached') : i \in 1..Len(attached) \/ i = Len(attached) + 1
    BY <2>2
  <2>4. \A i \in 1..Len(attached) : i \in 1..Len(attached')
    BY <2>2
  <2>5. Len(attached) + 1 \in 1..Len(attached')
    BY <2>2
  <2>6. Attached \subseteq 1..nextId
    BY KnownConsumer
  <2> HIDE DEF c
  <2> QED BY <2>2, <2>3, <2>4, <2>5, <2>6 DEF Attached
<1>9. Rising(attached)'
  <2>1. attached \in Seq(1..nextId) /\ Rising(attached)
    BY DEF TypeOK, OrderInv
  <2>2. /\ Len(attached') = Len(attached) + 1 /\ Len(attached) \in Nat
        /\ \A i \in 1..Len(attached) : attached'[i] = attached[i] /\ attached[i] < c
        /\ attached'[Len(attached) + 1] = c
    <3>1. \A i \in 1..Len(attached) : attached[i] \in 1..nextId
      BY <2>1, ElementOfSeq
    <3>2. \A i \in 1..Len(attached) : attached[i] < c
      BY <1>3, <3>1
    <3> QED BY <1>1, <2>1, <3>2
  <2>3. ASSUME NEW i \in 1..Len(attached'), NEW j \in 1..Len(attached'), i < j
        PROVE  attached'[i] < attached'[j]
    <3>1. i \in 1..Len(attached) /\ (j \in 1..Len(attached) \/ j = Len(attached) + 1)
      BY <2>2, <2>3
    <3> HIDE DEF c
    <3> QED BY <2>1, <2>2, <2>3, <3>1 DEF Rising
  <2> QED BY <2>3 DEF Rising
<1>10. Existing'
  BY <1>1, <1>2 DEF OrderInv, Existing
<1>11. \A q : Ordered(q) => Ordered(q)'
  BY <1>2 DEF Ordered, Before, At
<1>12. ASSUME NEW s \in Names, SingleActive(s) PROVE Orderly(Attached, s, queue, parked)'
  <2>1. Orderly(Attached, s, queue, parked)
    BY <1>12 DEF OrderInv
  <2> DEFINE own(t, x) == /\ x \in Attached'
                          /\ t \in reg'[x].topics
                          /\ \A y \in Attached' : y < x /\ reg'[y].name = s => t \notin reg'[y].topics
             none(t) == \A y \in Attached' : reg'[y].name = s => t \notin reg'[y].topics
  <2> HIDE DEF c
  <2>2. ASSUME NEW x \in 1..nextId, NEW t, Owns(Attached, s, t, x) PROVE own(t, x)
    <3>1. x \in Attached /\ t \in reg[x].topics
          /\ \A y \in Attached : y < x /\ reg[y].name = s => t \notin reg[y].topics
      BY <2>2 DEF Owns
    <3>2. x \in Attached' /\ t \in reg'[x].topics
      BY <1>7, <1>8, <3>1
    <3>3. ASSUME NEW y \in Attached', y < x, reg'[y].name = s PROVE t \notin reg'[y].topics
      <4>1. y # c
        BY <1>3, <3>3 DEF c
      <4>2. y \in Attached /\ y \in 1..nextId
        BY <1>8, <3>3, <4>1
      <4> QED BY <1>7, <3>1, <3>3, <4>2
    <3> QED BY <3>2, <3>3
  <2>3. ASSUME NEW t, Nobody(Attached, s, t), r.name = s => t \notin r.topics PROVE none(t)
    <3>1. ASSUME NEW y \in Attached', reg'[y].name = s PROVE t \notin reg'[y].topics
      <4>1. CASE y = c
        BY <1>7, <2>3, <3>1, <4>1
      <4>2. CASE y \in Attached
        <5>1. y \in 1..nextId
          BY <1>8, <4>2
        <5> QED BY <1>7, <2>3, <3>1, <4>2, <5>1 DEF Nobody
      <4> QED BY <1>8, <3>1, <4>1, <4>2
    <3> QED BY <3>1
  <2>4. ASSUME NEW t, Nobody(Attached, s, t), r.name = s, t \in r.topics PROVE own(t, c)
    <3>1. c \in Attached' /\ t \in reg'[c].topics
      BY <1>7, <1>8, <2>4
    <3>2. ASSUME NEW y \in Attached', y < c, reg'[y].name = s PROVE t \notin reg'[y].topics
      <4>1. y # c
        BY <1>3, <3>2 DEF c
      <4>2. y \in Attached /\ y \in 1..nextId
        BY <1>8, <3>2, <4>1
      <4> QED BY <1>7, <2>4, <3>2, <4>2 DEF Nobody
    <3> QED BY <3>1, <3>2
  <2>5. ASSUME NEW j \in 1..Len(parked[s]) PROVE parked[s][j].topic \in created
    <3>1. Logged(parked[s][j])
      BY <2>5 DEF DeliveriesAreLogged, AllLogged
    <3>2. parked[s][j].topic \in Topics /\ log[parked[s][j].topic] # <<>>
      BY <3>1 DEF Logged, Delivery
    <3> QED BY <3>2 DEF OrderInv, Existing
  <2> HIDE DEF own, none
  <2>6. /\ Ordered(parked[s])
        /\ \A j \in 1..Len(parked[s]) :
             parked[s][j].red = 0 => Nobody(Attached, s, parked[s][j].topic)
    BY <2>1 DEF Orderly
  <2>7. ASSUME NEW x \in 1..c, reg'[x].name = s
        PROVE  /\ Ordered(queue'[x])
               /\ \A i \in 1..Len(queue'[x]) : queue'[x][i].red = 0 => own(queue'[x][i].topic, x)
    <3>1. CASE x \in 1..nextId
      <4>1. /\ queue'[x] = queue[x] /\ Ordered(queue[x])
            /\ \A i \in 1..Len(queue[x]) :
                 queue[x][i].red = 0 => Owns(Attached, s, queue[x][i].topic, x)
        BY <1>7, <2>1, <2>7, <3>1 DEF Orderly
      <4> QED BY <2>2, <3>1, <4>1
    <3>2. CASE x = c
      <4>1. queue'[x] = taken(r) /\ r.name = s
        BY <1>7, <2>7, <3>2
      <4>2. Ordered(queue'[x])
        BY <1>6, <2>6, <4>1
      <4>3. ASSUME NEW i \in 1..Len(queue'[x]), queue'[x][i].red = 0
            PROVE  own(queue'[x][i].topic, x)
        <5>1. queue'[x][i].topic \in reads(r) /\ \E j \in 1..Len(parked[s]) : queue'[x][i] = parked[s][j]
          BY <1>6, <2>6, <4>1, <4>3 DEF Over
        <5>2. queue'[x][i].topic \in r.topics
          BY <5>1
        <5>3. Nobody(Attached, s, queue'[x][i].topic)
          BY <2>6, <4>3, <5>1
        <5> QED BY <2>4, <3>2, <4>1, <5>2, <5>3
      <4> QED BY <4>2, <4>3
    <3> QED BY <1>3, <2>7, <3>1, <3>2 DEF c
  <2>8. /\ Ordered(parked'[s])
        /\ \A i \in 1..Len(parked'[s]) : parked'[s][i].red = 0 => none(parked'[s][i].topic)
    <3>1. CASE r.name = s
      <4>1. parked'[s] = left(r)
        BY <1>7, <3>1
      <4>2. Ordered(parked'[s])
        BY <1>6, <2>6, <3>1, <4>1
      <4>3. ASSUME NEW i \in 1..Len(parked'[s]), parked'[s][i].red = 0
            PROVE  none(parked'[s][i].topic)
        <5>1. parked'[s][i].topic \in Topics \ reads(r)
              /\ \E j \in 1..Len(parked[s]) : parked'[s][i] = parked[s][j]
          BY <1>6, <2>6, <3>1, <4>1, <4>3 DEF Over
        <5>2. Nobody(Attached, s, parked'[s][i].topic) /\ parked'[s][i].topic \in created
          BY <2>5, <2>6, <4>3, <5>1
        <5>3. parked'[s][i].topic \notin r.topics
          BY <5>1, <5>2
        <5> QED BY <2>3, <5>2, <5>3
      <4> QED BY <4>2, <4>3
    <3>2. CASE r.name # s
      <4>1. parked'[s] = parked[s]
        BY <1>7, <3>2
      <4> QED BY <2>3, <2>6, <3>2, <4>1
    <3> QED BY <3>1, <3>2
  <2>9. (\A x \in 1..nextId' : reg'[x].name = s => Ordered(queue[x])') /\ Ordered(parked[s])'
    <3>1. PICK q, p, n : q = queue' /\ p = parked' /\ n = nextId'
      OBVIOUS
    <3>2. (\A x \in 1..n : reg'[x].name = s => Ordered(q[x])) /\ Ordered(p[s])
      BY <1>1, <2>7, <2>8, <3>1
    <3>3. (\A x \in 1..n : reg'[x].name = s => Ordered(q[x])') /\ Ordered(p[s])'
      BY <1>11, <3>2
    <3> QED BY <3>1, <3>3 DEF Ordered, Before, At
  <2>10. \A x \in 1..nextId' : reg'[x].name = s =>
           \A i \in 1..Len(queue'[x]) :
             queue'[x][i].red = 0 => Owns(Attached, s, queue[x][i].topic, x)'
    BY <1>1, <2>7 DEF Owns, own
  <2>11. \A i \in 1..Len(parked'[s]) :
           parked'[s][i].red = 0 => Nobody(Attached, s, parked[s][i].topic)'
    BY <2>8 DEF Nobody, none
  <2> QED BY <2>9, <2>10, <2>11 DEF Orderly
<1> QED
  BY <1>1, <1>9, <1>10, <1>12 DEF OrderInv

\* What a closing consumer leaves goes to the next owner of each topic, which had
\* nothing of it before, or is parked for one.
LEMMA UnsubscribeOrder ==
  ASSUME IInv, ExclusiveAlone, OrderInv, NEW c \in Ids, Unsubscribe(c)
  PROVE  OrderInv'
<1> USE DEF IInv
<1> DEFINE rest == Ids \ {c}
           others == Select(attached, rest)
           h == [Hand EXCEPT !.queue = [queue EXCEPT ![c] = <<>>]]
           fromQueue == HandBackAll(h, others, reg[c], queue[c], TRUE)
           all == HandBackAll(fromQueue, others, reg[c], AgainAll(unacked[c]), FALSE)
           fresh == {d \in LoggedSet : d.red # 0}
<1>1. /\ c \in Attached
      /\ attached' = others
      /\ SetHand(all)
      /\ UNCHANGED <<nextId, reg, created, log>>
  BY DEF Unsubscribe, Hand, topicVars
<1>2. /\ others \in Seq(1..nextId) /\ Rising(others)
      /\ Consumers(others) = Attached \ {c}
  <2>1. attached \in Seq(1..nextId) /\ Rising(attached) /\ nextId \in Nat
    BY RouterAssumption DEF TypeOK, OrderInv
  <2>2. \A x \in Attached : x \in Ids
    BY KnownConsumer
  <2>3. Attached = Consumers(attached)
    BY DEF Attached, Consumers
  <2>4. /\ others \in Seq(1..nextId) /\ Rising(others)
        /\ \A x : x \in Consumers(others) <=> x \in Consumers(attached) /\ x \in rest
    <3> HIDE DEF rest
    <3> QED BY <2>1, SelectRising
  <2> HIDE DEF others
  <2> QED BY <2>2, <2>3, <2>4
<1> HIDE DEF others, rest
<1>3. Consumers(others) \subseteq Attached /\ Consumers(others) = Attached'
  BY <1>1, <1>2 DEF Consumers, Attached
<1>4. c \in 1..nextId /\ reg[c] \in Registrations /\ reg[c].name \in Names
  <2>1. c \in 1..nextId /\ reg[c] \in Registrations
    BY <1>1, KnownConsumer
  <2> QED BY <2>1, RouterAssumption DEF Registration
<1>5. h \in TidyHand(others) /\ h.queue = [queue EXCEPT ![c] = <<>>] /\ h.parked = parked
  <2>1. Hand \in TidyHand(others)
    BY <1>3, HandIsTidy DEF TidyHand
  <2>2. <<>> \in Seq(Delivery) /\ AllLogged(<<>>)
    BY DEF AllLogged
  <2>3. /\ [queue EXCEPT ![c] = <<>>] \in [Ids -> Seq(Delivery)]
        /\ \A x \in Ids : AllLogged([queue EXCEPT ![c] = <<>>][x])
    BY <2>2 DEF TypeOK, DeliveriesAreLogged
  <2> QED BY <2>1, <2>3 DEF TidyHand, Hand
<1>6. queue \in [Ids -> Seq(Delivery)] /\ 1..nextId \subseteq Ids
  BY RouterAssumption DEF TypeOK, Ids
<1> HIDE DEF h
<1>7. queue[c] \in Seq(LoggedSet) /\ queue[c] \in Seq(Delivery)
  BY LoggedSeq DEF TypeOK, DeliveriesAreLogged
<1>8. AgainAll(unacked[c]) \in Seq(fresh)
  <2>1. AgainAll(unacked[c]) \in Seq(LoggedSet) /\ unacked[c] \in Seq(Delivery)
        /\ Len(AgainAll(unacked[c])) = Len(unacked[c])
    BY AgainLogged DEF TypeOK, DeliveriesAreLogged
  <2>2. \A n \in 1..Len(AgainAll(unacked[c])) :
          AgainAll(unacked[c])[n] \in LoggedSet /\ AgainAll(unacked[c])[n].red # 0
    <3>1. ASSUME NEW n \in 1..Len(unacked[c]) PROVE AgainAll(unacked[c])[n].red # 0
      <4>1. unacked[c][n] \in Delivery
        BY <2>1
      <4>2. AgainAll(unacked[c])[n] = Again(unacked[c][n])
        BY DEF AgainAll
      <4> QED BY <4>1, <4>2 DEF Again, Delivery
    <3> HIDE DEF LoggedSet
    <3> QED BY <2>1, <3>1, ElementOfSeq
  <2> HIDE DEF LoggedSet
  <2>3. AgainAll(unacked[c]) = [n \in 1..Len(AgainAll(unacked[c])) |-> AgainAll(unacked[c])[n]]
        /\ Len(AgainAll(unacked[c])) \in Nat
    BY <2>1
  <2> QED BY <2>2, <2>3
<1> HIDE DEF fresh
<1>9. ASSUME NEW s \in Names, SingleActive(s) PROVE all \in OrdHand(others, s)
  <2>1. Orderly(Attached, s, queue, parked)
    BY <1>9 DEF OrderInv
  <2>2. ASSUME NEW t, NEW x \in Attached \ {c}, Owns(Attached, s, t, x)
        PROVE  Owns(Consumers(others), s, t, x)
    BY <1>2, <2>2 DEF Owns
  <2>3. h \in OrdHand(others, s)
    <3>1. ASSUME NEW x \in 1..nextId, reg[x].name = s
          PROVE  /\ Ordered(h.queue[x])
                 /\ \A i \in 1..Len(h.queue[x]) : h.queue[x][i].red = 0 =>
                      Owns(Consumers(others), s, h.queue[x][i].topic, x)
      <4>1. CASE x = c
        <5>1. h.queue[x] = <<>> /\ Len(<<>>) = 0
          BY <1>5, <1>6, <4>1
        <5> QED BY <5>1 DEF Ordered
      <4>2. CASE x # c
        <5>1. h.queue[x] = queue[x]
          BY <1>5, <1>6, <4>2
        <5>2. /\ Ordered(queue[x])
              /\ \A i \in 1..Len(queue[x]) : queue[x][i].red = 0 =>
                   Owns(Attached, s, queue[x][i].topic, x)
          BY <2>1, <3>1 DEF Orderly
        <5>3. \A t : Owns(Attached, s, t, x) => x \in Attached
          BY DEF Owns
        <5> QED BY <2>2, <4>2, <5>1, <5>2, <5>3
      <4> QED BY <4>1, <4>2
    <3>2. /\ Ordered(parked[s])
          /\ \A i \in 1..Len(parked[s]) : parked[s][i].red = 0 =>
               Nobody(Consumers(others), s, parked[s][i].topic)
      BY <1>3, <2>1 DEF Orderly, Nobody
    <3>3. Orderly(Consumers(others), s, h.queue, h.parked)
      BY <1>5, <3>1, <3>2 DEF Orderly
    <3> QED BY <1>5, <3>3 DEF OrdHand
  <2>4. \A x \in TidyHand(others) : \A d \in LoggedSet : \A b \in BOOLEAN :
          /\ HandBack(x, others, reg[c], d, b) \in TidyHand(others)
          /\ Given(x, HandBack(x, others, reg[c], d, b), reg[c].name, d)
    BY <1>2, <1>4, HandBackIn, HandBackGiven DEF LoggedSet
  <2>5. ASSUME NEW x \in OrdHand(others, s), NEW d \in LoggedSet, NEW b \in BOOLEAN,
               reg[c].name # s \/ d.red # 0
        PROVE  HandBack(x, others, reg[c], d, b) \in OrdHand(others, s)
    <3>1. x \in TidyHand(others) /\ d \in Delivery
      BY DEF OrdHand, LoggedSet
    <3>2. /\ HandBack(x, others, reg[c], d, b) \in TidyHand(others)
          /\ Given(x, HandBack(x, others, reg[c], d, b), reg[c].name, d)
      BY <2>4, <3>1
    <3> QED BY <1>4, <2>5, <3>1, <3>2, GivenStale
  <2>6. fromQueue \in OrdHand(others, s)
    <3>1. CASE reg[c].name # s
      BY <1>7, <2>3, <2>5, <3>1, HandBackAllIn
    <3>2. CASE reg[c].name = s
      <4>1. PICK f : /\ f[0] = h
                     /\ \A n \in 1..Len(queue[c]) :
                          f[n] = HandBack(f[n - 1], others, reg[c], queue[c][n], TRUE)
                     /\ \A n \in 0..Len(queue[c]) : f[n] \in TidyHand(others)
                     /\ fromQueue = f[Len(queue[c])]
        <5>1. \A x \in TidyHand(others) : \A d \in LoggedSet :
                HandBack(x, others, reg[c], d, TRUE) \in TidyHand(others)
          BY <2>4
        <5> HIDE DEF fromQueue, LoggedSet
        <5>2. \E f : /\ f[0] = h
                     /\ \A n \in 1..Len(queue[c]) :
                          f[n] = HandBack(f[n - 1], others, reg[c], queue[c][n], TRUE)
                     /\ \A n \in 0..Len(queue[c]) : f[n] \in TidyHand(others)
                     /\ HandBackAll(h, others, reg[c], queue[c], TRUE) = f[Len(queue[c])]
          <6> DEFINE X == TidyHand(others)
                     r == reg[c]
                     q == queue[c]
          <6>1. PICK yes : yes = TRUE
            OBVIOUS
          <6>2. h \in X /\ q \in Seq(LoggedSet)
                /\ \A x \in X : \A d \in LoggedSet : HandBack(x, others, r, d, yes) \in X
            BY <1>5, <1>7, <5>1, <6>1
          <6> HIDE DEF X, r, q
          <6>3. \E f : /\ f[0] = h
                       /\ \A n \in 1..Len(q) : f[n] = HandBack(f[n - 1], others, r, q[n], yes)
                       /\ \A n \in 0..Len(q) : f[n] \in X
                       /\ HandBackAll(h, others, r, q, yes) = f[Len(q)]
            BY <6>2, HandBackFold
          <6> QED BY <6>1, <6>3 DEF X, r, q
        <5> QED BY <5>2 DEF fromQueue
      <4> HIDE DEF fromQueue
      <4>2. /\ Ordered(queue[c])
            /\ \A n \in 1..Len(queue[c]) :
                 queue[c][n].red = 0 => Owns(Attached, s, queue[c][n].topic, c)
        BY <1>4, <2>1, <3>2 DEF Orderly
      <4>3. ASSUME NEW n \in 1..Len(queue[c])
            PROVE  Fed(f[n - 1], f[n], Consumers(others), s, queue[c][n])
        <5>1. PICK d : d = queue[c][n]
          OBVIOUS
        <5>2. Logged(d)
          BY <5>1 DEF DeliveriesAreLogged, AllLogged
        <5>3. n - 1 \in 0..Len(queue[c])
          BY <1>7
        <5>4. f[n - 1] \in TidyHand(others)
          BY <4>1, <5>3
        <5>5. ASSUME d.red = 0, NEW x \in Consumers(others), reg[x].name = reg[c].name,
                     d.topic \in reg[x].topics, IsPattern(reg[x])
              PROVE  FALSE
          <6>1. x \in Attached /\ x # c
            BY <1>2
          <6>2. d.topic \in reg[c].topics
            BY <4>2, <5>1, <5>5 DEF Owns
          <6>3. reg[x].topics \cap reg[c].topics = {}
            BY <1>1, <1>9, <3>2, <5>5, <6>1, Apart
          <6> QED BY <5>5, <6>2, <6>3
        <5>6. Fed(f[n - 1], HandBack(f[n - 1], others, reg[c], d, TRUE), Consumers(others), reg[c].name, d)
          <6>1. Rising(attached)
            BY DEF OrderInv
          <6> QED BY <1>2, <1>3, <1>4, <1>9, <3>2, <5>2, <5>4, <5>5, HandBackFed
        <5> QED BY <3>2, <4>1, <5>1, <5>6
      <4>4. ASSUME NEW k \in 1..Len(queue[c]) PROVE Ahead(h, s, queue[c][k])
        <5>1. PICK d : d = queue[c][k]
          OBVIOUS
        <5>2. d.red = 0 => Owns(Attached, s, d.topic, c)
          BY <4>2, <5>1
        <5>3. ASSUME NEW x \in 1..nextId, reg[x].name = s, NEW i \in 1..Len(h.queue[x])
              PROVE  Before(h.queue[x][i], d)
          <6>1. x # c
            <7>1. x = c => h.queue[x] = <<>> /\ Len(<<>>) = 0
              BY <1>5, <1>6
            <7> QED BY <5>3, <7>1
          <6>2. h.queue[x] = queue[x]
            BY <1>5, <1>6, <6>1
          <6>3. queue[x][i].red = 0 => Owns(Attached, s, queue[x][i].topic, x)
            BY <2>1, <5>3, <6>2 DEF Orderly
          <6>4. Attached \in SUBSET Nat
            BY KnownConsumer
          <6>5. \A t : Owns(Attached, s, t, c) /\ Owns(Attached, s, t, x) => FALSE
            BY <3>2, <5>3, <6>1, <6>4, OneOwner
          <6> QED BY <5>2, <6>2, <6>3, <6>5 DEF Before
        <5>4. ASSUME NEW i \in 1..Len(h.parked[s]) PROVE Before(h.parked[s][i], d)
          <6>1. parked[s][i].red = 0 => Nobody(Attached, s, parked[s][i].topic)
            BY <1>5, <2>1, <5>4 DEF Orderly
          <6> QED BY <1>5, <3>2, <5>2, <6>1 DEF Before, Owns, Nobody
        <5>5. Ahead(h, s, d)
          BY <5>3, <5>4 DEF Ahead
        <5> QED BY <5>1, <5>5
      <4>5. f[Len(queue[c])] \in OrdHand(others, s)
        <5>1. f[0] \in OrdHand(others, s) /\ \A k \in 1..Len(queue[c]) : Ahead(f[0], s, queue[c][k])
          BY <2>3, <4>1, <4>4
        <5> QED BY <1>7, <4>1, <4>2, <4>3, <5>1, FedAll
      <4> QED BY <4>1, <4>5
    <3> QED BY <3>1, <3>2
  <2> HIDE DEF fromQueue
  <2>7. \A x \in OrdHand(others, s) : \A d \in fresh :
          HandBack(x, others, reg[c], d, FALSE) \in OrdHand(others, s)
    BY <2>5 DEF fresh
  <2> QED BY <1>8, <2>6, <2>7, HandBackAllIn
<1> HIDE DEF all
<1>10. \A s \in Names : SingleActive(s) => Orderly(Attached, s, queue, parked)'
  BY <1>1, <1>3, <1>9, OrdHandStep
<1>11. Rising(attached)' /\ Existing'
  BY <1>1, <1>2 DEF OrderInv, Rising, Existing
<1> QED
  BY <1>1, <1>10, <1>11 DEF OrderInv

\* What a seek replays is in order, and of topics among some T.
LEMMA ReplayOrdered ==
  ASSUME TypeOK, NEW T \in SUBSET Topics, NEW pos,
         NEW ds \in InReplayOrder({d \in [topic : T, seq : 1..MaxEntries, red : {0}] :
                                     d.seq \in Replays(d.topic, pos)})
  PROVE  /\ Ordered(ds)
         /\ \A n \in 1..Len(ds) : ds[n].topic \in T
<1> DEFINE box == [topic : T, seq : 1..MaxEntries, red : {0}]
           replay == {d \in box : d.seq \in Replays(d.topic, pos)}
<1>1. ds \in Seq(LoggedSet)
  BY ReplayLogged
<1>2. /\ ds \in [1..Cardinality(replay) -> replay]
      /\ \A i, j \in 1..Cardinality(replay) : i < j => Earlier(ds[i], ds[j])
  BY DEF InReplayOrder
<1>3. \A d \in replay : d.topic \in T /\ d.topic \in Nat
  BY RouterAssumption
<1> HIDE DEF replay
<1>4. DOMAIN ds = 1..Len(ds) /\ DOMAIN ds = 1..Cardinality(replay)
  BY <1>1, <1>2
<1>5. \A n \in 1..Len(ds) : ds[n] \in replay
  BY <1>2, <1>4
<1>6. ASSUME NEW i \in 1..Len(ds), NEW j \in 1..Len(ds), i < j PROVE Before(ds[i], ds[j])
  <2>1. Earlier(ds[i], ds[j])
    BY <1>2, <1>4, <1>6
  <2>2. ds[i].topic \in Nat
    BY <1>3, <1>5
  <2> QED BY <2>1, <2>2 DEF Earlier, Before, At
<1> QED
  BY <1>3, <1>5, <1>6 DEF Ordered

\* A seek clears the topics it replays from every queue of the subscription that has
\* something of them, and replays them to their owners in order.
LEMMA SeekOrder ==
  ASSUME IInv, ExclusiveAlone, OrderInv, NEW c \in Ids, NEW pos, Seek(c, pos)
  PROVE  OrderInv'
<1> USE DEF IInv
<1> DEFINE r == reg[c]
           topics == {t \in Topics \ Volatile : Reads(listed, c, t)}
           siblings == {x \in Attached : reg[x].name = r.name /\ Overlap(reg[x], r)}
           kept == [x \in Ids |-> IF x \in siblings
                                 THEN Select(queue[x], Over(Topics \ topics))
                                 ELSE queue[x]]
           box == [topic : topics, seq : 1..MaxEntries, red : {0}]
           replay == {d \in box : d.seq \in Replays(d.topic, pos)}
           h == [Hand EXCEPT !.queue = kept]
<1>1. /\ c \in Attached
      /\ \E ds \in InReplayOrder(replay) : SetHand(ReplayAll(h, r, ds))
      /\ UNCHANGED <<nextId, reg, attached, created, log>>
  BY DEF Seek, registry, topicVars
<1>2. r \in Registrations /\ r.name \in Names /\ c \in 1..nextId
  BY <1>1, KnownConsumer, RouterAssumption DEF Registration
<1>3. topics \subseteq Topics /\ \A t \in topics : t \in r.topics
  BY DEF Reads
<1>4. 1..nextId \subseteq Ids /\ queue \in [Ids -> Seq(Delivery)]
  BY RouterAssumption DEF TypeOK, Ids
<1>5. \A x \in Ids : IF x \in siblings THEN kept[x] = Select(queue[x], Over(Topics \ topics))
                                       ELSE kept[x] = queue[x]
  OBVIOUS
<1>6. h \in TidyHand(attached) /\ h.queue = kept /\ h.parked = parked
  <2>1. kept = [x \in Ids |-> kept[x]]
        /\ \A x \in Ids : kept[x] = queue[x] \/ \E O : kept[x] = Select(queue[x], O)
    OBVIOUS
  <2> HIDE DEF kept
  <2>2. kept \in [Ids -> Seq(Delivery)] /\ \A x \in Ids : AllLogged(kept[x])
    BY <2>1, KeptLogged
  <2> QED BY <2>2, HandIsTidy DEF TidyHand, Hand
<1>7. Consumers(attached) = Attached /\ Attached' = Attached /\ attached \in Seq(1..nextId)
  BY <1>1 DEF Consumers, Attached, TypeOK
<1> HIDE DEF kept, replay, h, siblings, topics
<1>8. PICK ds \in InReplayOrder(replay) : SetHand(ReplayAll(h, r, ds))
  BY <1>1
<1>9. /\ ds \in Seq(LoggedSet) /\ ds \in Seq(Delivery)
      /\ Ordered(ds) /\ \A n \in 1..Len(ds) : ds[n].topic \in topics /\ Logged(ds[n])
  <2>1. ds \in Seq(LoggedSet) /\ Ordered(ds) /\ \A n \in 1..Len(ds) : ds[n].topic \in topics
    BY <1>3, <1>8, ReplayLogged, ReplayOrdered DEF replay, box
  <2>2. \A n \in 1..Len(ds) : ds[n] \in LoggedSet
    BY <2>1, ElementOfSeq
  <2>3. \A n \in 1..Len(ds) : ds[n] \in Delivery /\ Logged(ds[n])
    BY <2>2 DEF LoggedSet
  <2>4. ds = [n \in 1..Len(ds) |-> ds[n]] /\ Len(ds) \in Nat
    BY <2>1
  <2> QED BY <2>1, <2>3, <2>4
<1>10. ASSUME NEW s \in Names, SingleActive(s) PROVE ReplayAll(h, r, ds) \in OrdHand(attached, s)
  <2>1. Orderly(Attached, s, queue, parked)
    BY <1>10 DEF OrderInv
  <2>2. ASSUME NEW x \in 1..nextId, reg[x].name = s
        PROVE  /\ Ordered(kept[x])
               /\ \A i \in 1..Len(kept[x]) : kept[x][i].red = 0 =>
                    /\ Owns(Attached, s, kept[x][i].topic, x)
                    /\ x \in siblings => kept[x][i].topic \notin topics
    <3>1. /\ Ordered(queue[x]) /\ queue[x] \in Seq(Delivery) /\ x \in Ids
          /\ \A i \in 1..Len(queue[x]) : queue[x][i].red = 0 => Owns(Attached, s, queue[x][i].topic, x)
      BY <1>4, <2>1, <2>2 DEF Orderly
    <3>2. CASE x \in siblings
      <4> DEFINE S == Over(Topics \ topics)
      <4>1. kept[x] = Select(queue[x], S)
        BY <1>5, <3>1, <3>2
      <4>2. \A d \in S : d.topic \notin topics
        BY DEF Over
      <4> HIDE DEF S
      <4>3. /\ Ordered(kept[x])
            /\ \A i \in 1..Len(kept[x]) :
                 kept[x][i] \in S /\ \E j \in 1..Len(queue[x]) : kept[x][i] = queue[x][j]
        BY <3>1, <4>1, PartOrdered
      <4> QED BY <3>1, <4>2, <4>3
    <3>3. CASE x \notin siblings
      <4>1. kept[x] = queue[x]
        BY <1>5, <3>1, <3>3
      <4> QED BY <3>1, <3>3, <4>1
    <3> QED BY <3>2, <3>3
  <2>3. h \in OrdHand(attached, s)
    <3>1. Orderly(Attached, s, kept, parked)
      BY <2>1, <2>2 DEF Orderly
    <3> QED BY <1>6, <1>7, <3>1 DEF OrdHand
  <2>4. \A x \in TidyHand(attached) : \A d \in LoggedSet :
          Replay(x, r, d) \in TidyHand(attached)
    BY <1>2, ReplayIn DEF LoggedSet
  <2>5. CASE r.name # s
    <3>1. ASSUME NEW x \in OrdHand(attached, s), NEW d \in LoggedSet
          PROVE  Replay(x, r, d) \in OrdHand(attached, s)
      <4>1. x \in TidyHand(attached) /\ Logged(d) /\ d \in Delivery
        BY DEF OrdHand, LoggedSet
      <4>2. Replay(x, r, d) \in TidyHand(attached)
        BY <2>4, <4>1
      <4>3. Replay(x, r, d) = x \/ Given(x, Replay(x, r, d), r.name, d)
        BY <1>2, <4>1, ReplayGiven
      <4>4. ASSUME Given(x, Replay(x, r, d), r.name, d)
            PROVE  Replay(x, r, d) \in OrdHand(attached, s)
        BY <1>2, <2>5, <4>1, <4>2, <4>4, GivenStale
      <4> QED BY <4>3, <4>4
    <3> QED BY <1>9, <2>3, <3>1, ReplayAllIn
  <2>6. CASE r.name = s
    <3>1. PICK f : /\ f[0] = h
                   /\ \A n \in 1..Len(ds) : f[n] = Replay(f[n - 1], r, ds[n])
                   /\ \A n \in 0..Len(ds) : f[n] \in TidyHand(attached)
                   /\ ReplayAll(h, r, ds) = f[Len(ds)]
      <4> DEFINE X == TidyHand(attached)
      <4>1. h \in X /\ ds \in Seq(LoggedSet)
            /\ \A x \in X : \A d \in LoggedSet : Replay(x, r, d) \in X
        BY <1>6, <1>9, <2>4
      <4> HIDE DEF X, r, LoggedSet
      <4>2. \E f : /\ f[0] = h
                   /\ \A n \in 1..Len(ds) : f[n] = Replay(f[n - 1], r, ds[n])
                   /\ \A n \in 0..Len(ds) : f[n] \in X
                   /\ ReplayAll(h, r, ds) = f[Len(ds)]
        BY <4>1, ReplayFold
      <4> QED BY <4>2 DEF X
    <3>2. ASSUME NEW n \in 1..Len(ds)
          PROVE  Fed(f[n - 1], f[n], Consumers(attached), s, ds[n])
      <4>1. n - 1 \in 0..Len(ds)
        BY <1>9
      <4>2. f[n - 1] \in TidyHand(attached) /\ Logged(ds[n]) /\ Rising(attached)
        BY <1>9, <3>1, <4>1 DEF OrderInv
      <4>3. Fed(f[n - 1], Replay(f[n - 1], r, ds[n]), Attached, r.name, ds[n])
        BY <1>2, <1>10, <2>6, <4>2, ReplayFed
      <4> QED BY <1>7, <2>6, <3>1, <4>3
    <3>3. ASSUME NEW k \in 1..Len(ds) PROVE Ahead(h, s, ds[k])
      <4>1. PICK d : d = ds[k]
        OBVIOUS
      <4>2. d.topic \in topics /\ d.topic \in r.topics
        BY <1>3, <1>9, <4>1
      <4>3. ASSUME NEW x \in 1..nextId, reg[x].name = s, NEW i \in 1..Len(kept[x]),
                   kept[x][i].red = 0, kept[x][i].topic = d.topic
            PROVE  FALSE
        <5>1. x \in Attached /\ d.topic \in reg[x].topics /\ x \notin siblings
          BY <2>2, <4>2, <4>3 DEF Owns
        <5>2. ~Overlap(reg[x], r)
          BY <2>6, <4>3, <5>1 DEF siblings
        <5>3. IsPattern(reg[x]) /\ IsPattern(r) /\ reg[x].pattern # r.pattern
          BY <4>2, <5>1, <5>2 DEF Overlap
        <5>4. reg[x] \in Registrations
          BY <5>1, KnownConsumer
        <5>5. reg[x].topics \cap r.topics = {}
          BY <1>2, <1>10, <2>6, <4>3, <5>3, <5>4 DEF SingleActive
        <5> QED BY <4>2, <5>1, <5>5
      <4>4. ASSUME NEW i \in 1..Len(parked[s]), parked[s][i].red = 0, parked[s][i].topic = d.topic
            PROVE  FALSE
        <5>1. Nobody(Attached, s, d.topic)
          BY <2>1, <4>4 DEF Orderly
        <5> QED BY <1>1, <2>6, <4>2, <5>1 DEF Nobody
      <4>5. Ahead(h, s, d)
        BY <1>6, <4>3, <4>4 DEF Ahead, Before
      <4> QED BY <4>1, <4>5
    <3>4. f[Len(ds)] \in OrdHand(attached, s)
      <4>1. f[0] \in OrdHand(attached, s) /\ \A k \in 1..Len(ds) : Ahead(f[0], s, ds[k])
        BY <2>3, <3>1, <3>3
      <4> QED BY <1>9, <3>1, <3>2, <4>1, FedAll
    <3> QED BY <3>1, <3>4
  <2> QED BY <2>5, <2>6
<1>11. \A s \in Names : SingleActive(s) => Orderly(Attached, s, queue, parked)'
  BY <1>1, <1>7, <1>8, <1>10, OrdHandStep
<1>12. Existing'
  BY <1>1 DEF OrderInv, Existing
<1> QED
  BY <1>1, <1>11, <1>12, OrderKept

\* At the start there is nothing to order.
LEMMA FreshInit == Init => OrderInv
<1> SUFFICES ASSUME Init PROVE OrderInv
  OBVIOUS
<1>1. nextId = 0 /\ attached = <<>> /\ log = [t \in Topics |-> <<>>]
      /\ parked = [s \in Names |-> <<>>] /\ Len(<<>>) = 0
  BY DEF Init
<1> QED
  BY <1>1 DEF OrderInv, Rising, Existing, Orderly, Ordered

\* Every action keeps the order.
LEMMA FreshStep == IInv /\ ExclusiveAlone /\ OrderInv /\ [Next]_vars => OrderInv'
<1> SUFFICES ASSUME IInv, ExclusiveAlone, OrderInv, [Next]_vars PROVE OrderInv'
  OBVIOUS
<1>1. CASE UNCHANGED vars \/ Refresh \/ FinishSeek
  <2>1. UNCHANGED <<nextId, reg, attached, created, log, queue, parked>>
    BY <1>1 DEF vars, Refresh, FinishSeek, registry, topicVars
  <2> QED BY <2>1, OrderUnmoved
<1>2. CASE Publish \/ Subscribe \/ Shutdown
  BY <1>2, PublishOrder, SubscribeOrder, ShutdownOrder
<1>3. ASSUME NEW c \in Ids, Unsubscribe(c) PROVE OrderInv'
  BY <1>3, UnsubscribeOrder
<1>4. ASSUME NEW c \in Ids, NEW pos \in Positions, Seek(c, pos) PROVE OrderInv'
  BY <1>4, SeekOrder
<1>5. ASSUME NEW m \in Slots, NEW c \in Ids, Poll(m, c) PROVE OrderInv'
  BY <1>5, PollOrder
<1>6. ASSUME NEW m \in Slots,
             \/ Ack(m) \/ Drop(m) \/ Nack(m) \/ NackAfter(m)
             \/ Fire(m) \/ Count(m) \/ Release(m)
      PROVE  OrderInv'
  BY <1>6, DropOrder, SettlementOrder
<1> QED
  BY <1>1, <1>2, <1>3, <1>4, <1>5, <1>6 DEF Next, Settled, Others

\* On a subscription with one active consumer the new deliveries of a topic wait in the
\* order of the log, or of the wall clock, whoever closed, took over or moved the cursor,
\* for any number of consumers and topics.
THEOREM FreshAlways == Spec => []FreshInOrder
<1>1. Init => OrderInv
  BY FreshInit
<1>2. IInv /\ ExclusiveAlone /\ OrderInv /\ [Next]_vars => OrderInv'
  BY FreshStep
<1>3. IInv /\ OrderInv => FreshInOrder
  <2> SUFFICES ASSUME IInv, OrderInv, NEW c \in Ids, c <= nextId, SingleActive(reg[c].name),
                      NEW i \in 1..Len(queue[c]), NEW j \in 1..Len(queue[c])
               PROVE  LET a == queue[c][i]
                          b == queue[c][j]
                          at(d) == log[d.topic][d.seq].at
                      IN  i < j /\ a.topic = b.topic /\ a.red = 0 /\ b.red = 0
                            => a.seq < b.seq \/ at(a) < at(b)
    BY DEF FreshInOrder
  <2>1. c \in 1..nextId /\ reg[c] \in Registrations
    BY RouterAssumption DEF IInv, TypeOK, Ids
  <2>2. reg[c].name \in Names
    BY <2>1, RouterAssumption DEF Registration
  <2>3. Ordered(queue[c])
    BY <2>1, <2>2 DEF OrderInv, Orderly
  <2> QED BY <2>3 DEF Ordered, Before, At
<1> QED
  BY <1>1, <1>2, <1>3, Invariance, ExclusiveAlways, PTL DEF Spec
=============================================================================
